----------------------------- MODULE Automation -----------------------------
(***************************************************************************)
(* What happens around a scan: run_automated_scan, process_scan_events and *)
(* the transactions they are made of (difftrail/automation.py, and the     *)
(* automation methods of difftrail/db.py).  The watcher, the threads of    *)
(* the local API and the CLI run passes concurrently against one journal;  *)
(* a pass may die between any two transactions.  The user deletes drafts   *)
(* and changes the settings at any time.                                   *)
(*                                                                         *)
(* Events are rows: event n is the one with rowid n.  What an event is     *)
(* about is an element of one of five sets; two crash signals that would   *)
(* give the same draft request are the same element of Crash.              *)
(***************************************************************************)
EXTENDS Integers, Sequences, FiniteSets

CONSTANTS
  Runner,     \* processes and threads that run passes
  NoRunner,
  Crash,      \* crash signals, by the draft request they lead to
  Change,     \* changes severe enough to notify about
  Hardware,   \* the same, from the sources "drivers" and "devices"
  MinorHardware,   \* changes of these sources that are not severe enough
  Quiet,      \* everything else
  Burst,      \* hardware changes in one batch that silence each other (8)
  Draft,      \* incident ids that automation draws from (uuid4)
  Unused, Deleted,   \* states of an incident id
  NoMarker,   \* no row in automation_actions
  Null,       \* a row whose incident_id is NULL
  Configs,    \* settings the user chooses from
  MaxEvents,  \* bound on the journal
  MaxFaults,  \* bound on dying passes, failing drafts and superseded scans
  MaxDeletes  \* bound on deletions by the user

Setting == {"draft", "crash", "change", "warning"}
Signal == Crash \cup Change \cup Hardware \cup MinorHardware \cup Quiet

ASSUME AutomationAssumption ==
  /\ NoRunner \notin Runner
  /\ Crash \cap (Change \cup Hardware \cup MinorHardware \cup Quiet) = {}
  /\ Unused \notin Crash /\ Deleted \notin Crash /\ Unused # Deleted
  /\ NoMarker \notin Draft /\ Null \notin Draft /\ NoMarker # Null
  /\ Configs \subseteq SUBSET Setting
  /\ {Burst, MaxEvents, MaxFaults, MaxDeletes} \subseteq Nat

VARIABLES
  \* the journal
  log,        \* events, in rowid order
  cursor,     \* meta 'automation:event_rowid'; -1 when missing or unusable
  config,     \* meta 'automation:config': the settings that are on
  holder,     \* the pass whose scan holds the lease
  incident,   \* incidents: what a draft is about
  drafted,    \* automation_actions, 'draft_investigation' row of each event
  told,       \* automation_actions, 'notification:...' row of each event
  notes,      \* automation_notifications rows of each event (their links)
  \* the locals of each pass
  pc, seen, before, claimed, at, link, settings, failed,
  warned,     \* passes whose scan has its 'scan:<id>' warning row
  \* history and bounds
  baseline,   \* events that were there before automation first ran
  waived,     \* effects that the settings of a pass left out
  faults

journalVars == <<log, cursor, config, holder>>
effectVars == <<incident, drafted, told, notes, waived>>
passVars == <<pc, seen, before, claimed, at, link, settings, failed, warned>>
vars == <<journalVars, effectVars, passVars, baseline, faults>>

EventId == 1..MaxEvents
Link == Draft \cup {Null}

JournalTypeOK ==
  /\ log \in Seq(Signal) /\ Len(log) <= MaxEvents
  /\ cursor \in -1..MaxEvents
  /\ config \in Configs
  /\ holder \in Runner \cup {NoRunner}
  /\ baseline \in 0..MaxEvents
  /\ faults \in 0..MaxFaults

EffectTypeOK ==
  /\ incident \in [Draft -> Crash \cup {Unused, Deleted}]
  /\ drafted \in [EventId -> Link \cup {NoMarker}]
  /\ told \in [EventId -> Link \cup {NoMarker}]
  /\ notes \in [EventId -> Seq(Link)]
  /\ waived \subseteq EventId \X {"draft", "note"}

PassTypeOK ==
  /\ pc \in [Runner -> {"idle", "cursor", "baseline", "scan", "scanning", "claim",
                        "event", "notify", "advance"}]
  /\ seen \in [Runner -> 0..MaxEvents] /\ before \in [Runner -> 0..MaxEvents]
  /\ claimed \in [Runner -> 0..MaxEvents] /\ at \in [Runner -> 0..MaxEvents + 1]
  /\ link \in [Runner -> Link]
  /\ settings \in [Runner -> SUBSET Setting]
  /\ failed \in [Runner -> BOOLEAN]
  /\ warned \subseteq Runner

TypeOK == JournalTypeOK /\ EffectTypeOK /\ PassTypeOK

(* A new journal, or one that was used before automation existed.  The     *)
(* cursor is missing, or it is text that does not parse.                   *)
Init ==
  /\ \E old \in {<<>>} \cup {<<x>> : x \in Signal} :
       Len(old) <= MaxEvents /\ log = old /\ baseline = Len(old)
  /\ cursor = -1 /\ config \in Configs /\ holder = NoRunner
  /\ incident = [d \in Draft |-> Unused]
  /\ drafted = [n \in EventId |-> NoMarker] /\ told = [n \in EventId |-> NoMarker]
  /\ notes = [n \in EventId |-> <<>>]
  /\ pc = [p \in Runner |-> "idle"]
  /\ seen = [p \in Runner |-> 0] /\ before = [p \in Runner |-> 0]
  /\ claimed = [p \in Runner |-> 0] /\ at = [p \in Runner |-> 0]
  /\ link = [p \in Runner |-> Null] /\ settings = [p \in Runner |-> {}]
  /\ failed = [p \in Runner |-> FALSE] /\ warned = {}
  /\ waived = {} /\ faults = 0

Goto(p, from, to) ==
  /\ pc[p] = from
  /\ pc' = [pc EXCEPT ![p] = to]

(* The pass returns or raises: its locals are gone.                        *)
Leave(p) ==
  /\ pc' = [pc EXCEPT ![p] = "idle"]
  /\ seen' = [seen EXCEPT ![p] = 0] /\ before' = [before EXCEPT ![p] = 0]
  /\ claimed' = [claimed EXCEPT ![p] = 0] /\ at' = [at EXCEPT ![p] = 0]
  /\ link' = [link EXCEPT ![p] = Null] /\ settings' = [settings EXCEPT ![p] = {}]
  /\ failed' = [failed EXCEPT ![p] = FALSE]
  /\ warned' = warned \ {p}

Fault ==
  /\ faults < MaxFaults
  /\ faults' = faults + 1

-----------------------------------------------------------------------------
(* run_automated_scan reads the watermark and then, in another             *)
(* transaction, the cursor.                                                *)
ReadWatermark(p) ==
  /\ Goto(p, "idle", "cursor")
  /\ seen' = [seen EXCEPT ![p] = Len(log)]
  /\ UNCHANGED <<journalVars, effectVars, before, claimed, at, link, settings,
                 failed, warned, baseline, faults>>

(* A cursor that is missing, unusable or beyond the watermark is replaced  *)
(* by the watermark, before the scan adds events to it.                    *)
ReadCursor(p) ==
  /\ pc[p] = "cursor"
  /\ \/ /\ cursor \in 0..seen[p]
        /\ before' = [before EXCEPT ![p] = cursor]
        /\ pc' = [pc EXCEPT ![p] = "scan"]
     \/ /\ cursor \notin 0..seen[p]
        /\ before' = [before EXCEPT ![p] = seen[p]]
        /\ pc' = [pc EXCEPT ![p] = "baseline"]
  /\ seen' = [seen EXCEPT ![p] = 0]
  /\ UNCHANGED <<journalVars, effectVars, claimed, at, link, settings,
                 failed, warned, baseline, faults>>

SetBaseline(p) ==
  /\ Goto(p, "baseline", "scan")
  /\ cursor' = before[p]
  /\ UNCHANGED <<log, config, holder, effectVars, seen, before, claimed, at,
                 link, settings, failed, warned, baseline, faults>>

-----------------------------------------------------------------------------
(* The scan, as the automation sees it (module Journal has the rest): a    *)
(* lease that may be taken from a stale holder, and events that appear     *)
(* while it is held.                                                       *)
LiveHolder == holder \in Runner /\ pc[holder] = "scanning"

StartScan(p) ==
  /\ ~ LiveHolder
  /\ Goto(p, "scan", "scanning")
  /\ holder' = p
  /\ UNCHANGED <<log, cursor, config, effectVars, seen, before, claimed, at,
                 link, settings, failed, warned, baseline, faults>>

(* The holder is alive, but has been at it for longer than a stale scan.   *)
TakeOver(p) ==
  /\ LiveHolder
  /\ Fault
  /\ Goto(p, "scan", "scanning")
  /\ holder' = p
  /\ UNCHANGED <<log, cursor, config, effectVars, seen, before, claimed, at,
                 link, settings, failed, warned, baseline>>

ScanRefused(p) ==
  /\ pc[p] = "scan" /\ holder # NoRunner
  /\ Leave(p)
  /\ UNCHANGED <<journalVars, effectVars, baseline, faults>>

Record(p) ==
  /\ pc[p] = "scanning" /\ holder = p
  /\ Len(log) < MaxEvents
  /\ \E x \in Signal : log' = Append(log, x)
  /\ UNCHANGED <<cursor, config, holder, effectVars, passVars, baseline, faults>>

FinishScan(p) ==
  /\ Goto(p, "scanning", "claim")
  /\ holder = p
  /\ holder' = NoRunner
  /\ UNCHANGED <<log, cursor, config, effectVars, seen, before, claimed, at,
                 link, settings, failed, warned, baseline, faults>>

ScanLost(p) ==
  /\ pc[p] = "scanning" /\ holder # p
  /\ Leave(p)
  /\ UNCHANGED <<journalVars, effectVars, baseline, faults>>

-----------------------------------------------------------------------------
(* The pass claims every event between its cursor and the watermark of now *)
(* and loads the settings once.                                            *)
Claim(p) ==
  /\ Goto(p, "claim", "event")
  /\ claimed' = [claimed EXCEPT ![p] = Len(log)]
  /\ at' = [at EXCEPT ![p] = before[p] + 1]
  /\ settings' = [settings EXCEPT ![p] = config]
  /\ UNCHANGED <<journalVars, effectVars, seen, before, link, failed, warned,
                 baseline, faults>>

Batch(p) == before[p] + 1 .. claimed[p]

DraftsFor(p, n) == log[n] \in Crash /\ "draft" \in settings[p]

(* Mutant of HardwareBurst: whatever is in the batch counts.               *)
AnyBurst(p) == Cardinality(Batch(p)) >= Burst

(* Hardware changes count whatever their severity.                         *)
HardwareBurst(p) ==
  Cardinality({n \in Batch(p) : log[n] \in Hardware \cup MinorHardware}) >= Burst

Notifies(p, n) ==
  \/ log[n] \in Crash /\ "crash" \in settings[p]
  \/ log[n] \in Change /\ "change" \in settings[p]
  \/ log[n] \in Hardware /\ "change" \in settings[p] /\ ~ HardwareBurst(p)

-----------------------------------------------------------------------------
(* _create_investigation_draft is one transaction: the marker, its link    *)
(* and the draft appear together.  Each disjunct is one way out of it.     *)
DraftExists(n, d) ==
  /\ drafted[n] = d
  /\ UNCHANGED <<incident, drafted>>

(* Mutant of NewDraft: the marker is written before the id is known.       *)
NewDraftUnlinked(n, d) ==
  /\ incident[d] = Unused
  /\ incident' = [incident EXCEPT ![d] = log[n]]
  /\ drafted' = [drafted EXCEPT ![n] = Null]

NewDraft(n, d) ==
  /\ incident[d] = Unused
  /\ incident' = [incident EXCEPT ![d] = log[n]]
  /\ drafted' = [drafted EXCEPT ![n] = d]

(* find_incident_id: the only draft with the request of event n.           *)
Matching(n) == {d \in Draft : incident[d] = log[n]}

AdoptDraft(n, d) ==
  /\ Matching(n) = {d}
  /\ drafted' = [drafted EXCEPT ![n] = d]
  /\ UNCHANGED incident

(* Mutant of CreateDraft: an existing draft is not looked for.             *)
CreateAlways(n, d) == NewDraft(n, d)

CreateDraft(n, d) ==
  \/ DraftExists(n, d)
  \/ drafted[n] = NoMarker /\ NewDraft(n, d)
  \/ drafted[n] = Null /\ AdoptDraft(n, d)
  \/ drafted[n] = Null /\ Cardinality(Matching(n)) # 1 /\ NewDraft(n, d)

InvestigationDraft(p) ==
  /\ pc[p] = "event" /\ at[p] <= claimed[p] /\ DraftsFor(p, at[p])
  /\ \E d \in Draft :
       CreateDraft(at[p], d) /\ link' = [link EXCEPT ![p] = d]
  /\ pc' = [pc EXCEPT ![p] = "notify"]
  /\ UNCHANGED <<journalVars, told, notes, waived, seen, before, claimed, at,
                 settings, failed, warned, baseline, faults>>

(* The transaction rolls back; the pass goes on without a link and fails   *)
(* at its end.                                                             *)
DraftFails(p) ==
  /\ pc[p] = "event" /\ at[p] <= claimed[p] /\ DraftsFor(p, at[p])
  /\ Fault
  /\ failed' = [failed EXCEPT ![p] = TRUE]
  /\ pc' = [pc EXCEPT ![p] = "notify"]
  /\ UNCHANGED <<journalVars, effectVars, seen, before, claimed, at, link,
                 settings, warned, baseline>>

(* _queue_event_notification: marker and notification in one transaction.  *)
(* One that was sent without a draft gets the link of a later draft.       *)
Relink(old, new) == IF old = Null THEN new ELSE old

(* Mutant of QueueNotification: the marker is ignored.                     *)
QueueAlways(n, d) ==
  /\ told' = [told EXCEPT ![n] = d]
  /\ notes' = [notes EXCEPT ![n] = Append(@, d)]

RecordAction(n, d) == told' = [told EXCEPT ![n] = d]
CreateNotification(n, d) == notes' = [notes EXCEPT ![n] = Append(@, d)]
LinkAction(n, d) == told' = [told EXCEPT ![n] = Relink(@, d)]
LinkNotification(n, d) ==
  notes' = [notes EXCEPT ![n] = [k \in 1 .. Len(@) |-> Relink(@[k], d)]]

QueueNotification(n, d) ==
  IF told[n] = NoMarker
  THEN RecordAction(n, d) /\ CreateNotification(n, d)
  ELSE LinkAction(n, d) /\ LinkNotification(n, d)

(* What the settings of the pass leave out for event n.                    *)
Announced == Crash \cup Change \cup Hardware

Omits(p, n, effect) ==
  \/ effect = "draft" /\ log[n] \in Crash /\ "draft" \notin settings[p]
  \/ effect = "note" /\ log[n] \in Crash /\ "crash" \notin settings[p]
  \/ effect = "note" /\ log[n] \in Announced \ Crash /\ "change" \notin settings[p]

Waives(p, n) == {w \in {n} \X {"draft", "note"} : Omits(p, n, w[2])}

EventNotification(p) ==
  LET n == at[p] IN
  /\ n <= claimed[p]
  /\ pc[p] = "notify" \/ (pc[p] = "event" /\ ~ DraftsFor(p, n))
  /\ IF Notifies(p, n) THEN QueueNotification(n, link[p]) ELSE UNCHANGED <<told, notes>>
  /\ waived' = waived \cup Waives(p, n)
  /\ at' = [at EXCEPT ![p] = n + 1]
  /\ link' = [link EXCEPT ![p] = Null]
  /\ pc' = [pc EXCEPT ![p] = "event"]
  /\ UNCHANGED <<journalVars, incident, drafted, seen, before, claimed, settings,
                 failed, warned, baseline, faults>>

(* Mutant of Conclude: a failed draft does not keep the cursor.            *)
ConcludeAnyway(p) ==
  /\ pc[p] = "event" /\ at[p] > claimed[p]
  /\ pc' = [pc EXCEPT ![p] = "advance"]
  /\ UNCHANGED <<journalVars, effectVars, seen, before, claimed, at, link,
                 settings, failed, warned, baseline, faults>>

(* After the last event: the warning row of a scan with errors, and the    *)
(* exception of a pass whose drafts failed.                                *)
Conclude(p) ==
  /\ pc[p] = "event" /\ at[p] > claimed[p]
  /\ \/ /\ failed[p]
        /\ Leave(p)
     \/ /\ ~ failed[p]
        /\ pc' = [pc EXCEPT ![p] = "advance"]
        /\ \/ "warning" \in settings[p] /\ warned' = warned \cup {p}
           \/ UNCHANGED warned
        /\ UNCHANGED <<seen, before, claimed, at, link, settings, failed>>
  /\ UNCHANGED <<journalVars, effectVars, baseline, faults>>

(* Mutants of Advance: the watermark of the end of the pass, and an off by *)
(* one.                                                                    *)
AdvanceTo(p, n) ==
  /\ pc[p] = "advance"
  /\ cursor' = n
  /\ Leave(p)
  /\ UNCHANGED <<log, config, holder, effectVars, baseline, faults>>
AdvanceToEnd(p) == AdvanceTo(p, Len(log))
AdvanceTooFar(p) == AdvanceTo(p, claimed[p] + 1)

Advance(p) ==
  /\ pc[p] = "advance"
  /\ cursor' = claimed[p]
  /\ Leave(p)
  /\ UNCHANGED <<log, config, holder, effectVars, baseline, faults>>

(* The process dies, or a transaction raises: rolled back, and the pass    *)
(* ends.  A lease it holds stays behind until it is stale.                 *)
Die(p) ==
  /\ pc[p] # "idle"
  /\ Fault
  /\ Leave(p)
  /\ UNCHANGED <<journalVars, effectVars, baseline>>

-----------------------------------------------------------------------------
(* delete_incident and update_automation_config, by the user.              *)
DeleteIncident(d) ==
  LET Unlink(x) == IF x = d THEN Null ELSE x IN
  /\ incident[d] \in Crash
  /\ Cardinality({c \in Draft : incident[c] = Deleted}) < MaxDeletes
  /\ incident' = [incident EXCEPT ![d] = Deleted]
  /\ drafted' = [n \in EventId |-> Unlink(drafted[n])]
  /\ told' = [n \in EventId |-> Unlink(told[n])]
  /\ notes' = [n \in EventId |-> [k \in 1 .. Len(notes[n]) |-> Unlink(notes[n][k])]]
  /\ UNCHANGED <<journalVars, waived, passVars, baseline, faults>>

UpdateConfig ==
  /\ config' \in Configs \ {config}
  /\ UNCHANGED <<log, cursor, holder, effectVars, passVars, baseline, faults>>

Pass(p) ==
  \/ ReadWatermark(p) \/ ReadCursor(p) \/ SetBaseline(p)
  \/ StartScan(p) \/ ScanRefused(p) \/ FinishScan(p) \/ ScanLost(p)
  \/ Claim(p)
  \/ InvestigationDraft(p) \/ EventNotification(p)
  \/ Conclude(p) \/ Advance(p)

Next ==
  \/ \E p \in Runner : Pass(p) \/ Record(p) \/ TakeOver(p) \/ DraftFails(p) \/ Die(p)
  \/ \E d \in Draft : DeleteIncident(d)
  \/ UpdateConfig

Spec == Init /\ [][Next]_vars

(* A pass that is left alone takes its next step, and the scheduler starts *)
(* another one when it is over.  A scan is not refused for ever, since a   *)
(* holder that died becomes stale.  Events, faults and the user owe        *)
(* nothing.                                                                *)
Fairness ==
  \A p \in Runner : WF_vars(Pass(p)) /\ SF_vars(StartScan(p))

FairSpec == Spec /\ Fairness

-----------------------------------------------------------------------------
Rows == 1 .. Len(log)

DraftDone(n) == log[n] \in Crash => drafted[n] # NoMarker \/ <<n, "draft">> \in waived

(* A hardware change may be passed over among many of its kind.            *)
Outnumbered(n) ==
  /\ log[n] \in Hardware
  /\ Cardinality({m \in Rows : m > baseline /\ log[m] \in Hardware \cup MinorHardware}) >= Burst

NoteDone(n) ==
  log[n] \in Announced => told[n] # NoMarker \/ <<n, "note">> \in waived \/ Outnumbered(n)

Handled(n) == DraftDone(n) /\ NoteDone(n)

(* Every event between the baseline and the cursor got its draft and its   *)
(* notification, or a pass ran with settings that leave them out, or it    *)
(* was one hardware change of a burst: neither passes that overlap, nor a  *)
(* failed draft, nor a pass that died makes the cursor jump over an event, *)
(* and no batch takes other events for a burst.                            *)
NoEventSkipped == \A n \in Rows : baseline < n /\ n <= cursor => Handled(n)

(* The marker of a notification and the notification come and go together, *)
(* with the same link, and there is one at most, however many passes try.  *)
NotifiedOnce ==
  \A n \in EventId : notes[n] = IF told[n] = NoMarker THEN <<>> ELSE <<told[n]>>

(* The draft of a marker exists and is about the marker's event, and no    *)
(* automatic draft is left without a marker that leads to it.              *)
DraftsAreLinked ==
  /\ \A n \in EventId : drafted[n] \in Draft => n \in Rows /\ incident[drafted[n]] = log[n]
  /\ \A d \in Draft : incident[d] \in Crash => \E n \in EventId : drafted[n] = d

(* A marker keeps its draft until the user deletes that draft.             *)
DraftsStick ==
  [][\A n \in EventId : drafted[n] \in Draft /\ drafted'[n] # drafted[n] =>
       drafted'[n] = Null /\ incident'[drafted[n]] = Deleted]_vars

(* Every event recorded after the baseline is handled some day, though     *)
(* passes die, drafts fail and the cursor may be set back by a slow pass.  *)
EventuallyHandled ==
  \A n \in EventId : (n \in Rows /\ n > baseline) ~> (n \in Rows /\ Handled(n))

(* delete_incident: "Remove an investigation and clear automation links to *)
(* it": no notification leads to an investigation that is gone.            *)
NoDanglingNotification ==
  \A n \in EventId : \A k \in 1 .. Len(notes[n]) :
    notes[n][k] # Null => incident[notes[n][k]] # Deleted

(* record_automation_action: "Record an automation action once so retries  *)
(* remain idempotent": a draft is made for an event only once.             *)
DraftedOnce ==
  [][\A n \in EventId : \A d \in Draft :
       incident[d] = Unused /\ drafted'[n] = d => drafted[n] = NoMarker]_vars

=============================================================================
