------------------------------ MODULE Journal ------------------------------
(***************************************************************************)
(* One pass of Scanner.scan (difftrail/service.py) against the journal,    *)
(* with other passes of other processes in between: apply_snapshot,        *)
(* save_events, the symptom cursor, retention and finish_scan              *)
(* (difftrail/db.py).  A scan is one invocation of scan(); it runs in some *)
(* process, may die anywhere, and may be declared stale and superseded     *)
(* while it still collects.  Every write it owns is an action of module    *)
(* Lease in conjunction with what the write does.                          *)
(*                                                                         *)
(* Time counts seconds in units that matter to the Event Log: in every     *)
(* unit at most one symptom is logged, and a symptom is named by its time. *)
(* A symptom that happens is visible to queries at once.                   *)
(***************************************************************************)
EXTENDS Lease, Sequences, Integers, FiniteSets

CONSTANTS
  Source, Value, NoValue, Invalid,  \* see ChangeLog
  EventLog,     \* the provider "eventlog" of a scan result
  NoSource,     \* no source is being applied
  NoCursor,     \* meta 'symptoms:cursor' is missing
  OldCursor,    \* what it may be when the first of these scans begins
  MaxClock,     \* bound on the clock
  MaxChanges,   \* bound on the changes of the machine
  FirstWindow,  \* how far back the first scan looks for symptoms (7 days)
  Overlap,      \* how far before the cursor a query starts (2 minutes)
  QueryLimit,   \* most rows one Event Log query returns (300)
  Retain        \* retention of raw messages

ASSUME JournalAssumption ==
  /\ Value # {} /\ NoValue \notin Value /\ Invalid \notin Value
  /\ NoValue # Invalid
  /\ EventLog \notin Source /\ NoSource \notin Source
  /\ {MaxClock, MaxChanges, FirstWindow, Overlap, QueryLimit, Retain} \subseteq Nat
  /\ NoCursor \in Int /\ NoCursor < 0
  /\ OldCursor \subseteq {NoCursor, 0}

VARIABLES
  \* the machine
  now,       \* wall clock
  oslog,     \* symptoms in the Windows Event Log
  world,     \* what each provider would report now
  changes,   \* how often the machine has changed
  \* the journal
  stored,    \* state_items of each source
  log,       \* change events of each source
  saved,     \* symptom events: "absent", "raw" or "pruned" (message dropped)
  cursor,    \* meta 'symptoms:cursor'
  result,    \* status of each finished scan
  reported,  \* collected_sources of each finished scan
  \* the locals of each scan
  pc, started, snap, todo, source, previous, since, applied, failed, errors,
  \* history
  retained,  \* scans whose retention step succeeded
  floor      \* where the very first symptom window began

machineVars == <<now, oslog, world, changes>>
changeVars == <<stored, log>>
symptomVars == <<saved, cursor, floor>>
resultVars == <<result, reported>>
snapVars == <<snap, todo, source, previous>>
outcomeVars == <<applied, failed, errors, retained>>

vars == <<leaseVars, machineVars, changeVars, symptomVars, resultVars,
          pc, started, since, snapVars, outcomeVars>>

Time == 0..MaxClock
Since == -(FirstWindow + Overlap)..MaxClock
Provider == Source \cup {EventLog}
Stored == Value \cup {NoValue, Invalid}
Transition == [from : Value, to : Value]
NothingSeen == [x \in Source |-> NoValue]

TypeOK ==
  /\ LeaseTypeOK
  /\ now \in Time /\ oslog \subseteq Time
  /\ world \in [Source -> Value] /\ changes \in 0..MaxChanges
  /\ stored \in [Source -> Stored]
  /\ log \in [Source -> Seq(Transition)]
  /\ saved \in [Time -> {"absent", "raw", "pruned"}]
  /\ cursor \in Time \cup {NoCursor} /\ floor \in Since
  /\ result \in [Scan -> {"none", "ok", "partial"}]
  /\ reported \in [Scan -> SUBSET Provider]
  /\ pc \in [Scan -> {"new", "starting", "collect", "apply", "symptoms", "cursor",
                      "prune", "finish", "done"}]
  /\ started \in [Scan -> Time] /\ since \in [Scan -> Since]
  /\ snap \in [Scan -> [Source -> Value \cup {NoValue}]] /\ todo \in [Scan -> SUBSET Source]
  /\ source \in [Scan -> Source \cup {NoSource}]
  /\ previous \in [Scan -> Stored]
  /\ applied \in [Scan -> SUBSET Provider] /\ failed \in [Scan -> SUBSET Provider]
  /\ errors \in [Scan -> BOOLEAN] /\ retained \subseteq Scan

(* A new journal, one that earlier scans have used, or one with            *)
(* damaged state left by an older build.                                   *)
Init ==
  /\ LeaseInit
  /\ now = 0 /\ oslog = {}
  /\ world \in [Source -> Value] /\ changes = 0
  /\ stored \in [Source -> Stored]
  /\ log = [x \in Source |-> <<>>]
  /\ saved = [t \in Time |-> "absent"] /\ cursor \in OldCursor /\ floor = 0
  /\ result = [s \in Scan |-> "none"] /\ reported = [s \in Scan |-> {}]
  /\ pc = [s \in Scan |-> "new"]
  /\ started = [s \in Scan |-> 0] /\ since = [s \in Scan |-> 0]
  /\ snap = [s \in Scan |-> NothingSeen] /\ todo = [s \in Scan |-> {}]
  /\ source = [s \in Scan |-> NoSource]
  /\ previous = [s \in Scan |-> NoValue]
  /\ applied = [s \in Scan |-> {}] /\ failed = [s \in Scan |-> {}]
  /\ errors = [s \in Scan |-> FALSE] /\ retained = {}

Goto(s, from, to) ==
  /\ pc[s] = from
  /\ pc' = [pc EXCEPT ![s] = to]

(* Mutant of Fail: the error is not remembered.                            *)
FailSilently(s, providers) ==
  /\ failed' = [failed EXCEPT ![s] = @ \cup providers]
  /\ UNCHANGED <<errors, applied, retained>>

(* A step of s that failed with an exception scan() catches and records.   *)
Fail(s, providers) ==
  /\ errors' = [errors EXCEPT ![s] = TRUE]
  /\ failed' = [failed EXCEPT ![s] = @ \cup providers]
  /\ UNCHANGED <<applied, retained>>

(* scan() returns or is abandoned: its locals are gone.                    *)
Leave(s) ==
  /\ started' = [started EXCEPT ![s] = 0]
  /\ since' = [since EXCEPT ![s] = 0]
  /\ snap' = [snap EXCEPT ![s] = NothingSeen]
  /\ todo' = [todo EXCEPT ![s] = {}]
  /\ source' = [source EXCEPT ![s] = NoSource]
  /\ previous' = [previous EXCEPT ![s] = NoValue]
  /\ applied' = [applied EXCEPT ![s] = {}]
  /\ failed' = [failed EXCEPT ![s] = {}]
  /\ errors' = [errors EXCEPT ![s] = FALSE]
  /\ retained' = retained \ {s}

-----------------------------------------------------------------------------
(* The machine: software changes, and the clock advances with or without a *)
(* symptom.                                                                *)
MachineChanges ==
  /\ changes < MaxChanges
  /\ changes' = changes + 1
  /\ \E x \in Source : \E v \in Value \ {world[x]} : world' = [world EXCEPT ![x] = v]
  /\ UNCHANGED <<leaseVars, now, oslog, changeVars, symptomVars, resultVars,
                 pc, started, since, snapVars, outcomeVars>>

Tick ==
  /\ now < MaxClock
  /\ now' = now + 1
  /\ \/ oslog' = oslog \cup {now'}
     \/ UNCHANGED oslog
  /\ UNCHANGED <<leaseVars, world, changes, changeVars, symptomVars, resultVars,
                 pc, started, since, snapVars, outcomeVars>>

-----------------------------------------------------------------------------
(* scan() reads the clock before it asks for the lease.                    *)
Begin(s) ==
  /\ Goto(s, "new", "starting")
  /\ started' = [started EXCEPT ![s] = now]
  /\ UNCHANGED <<leaseVars, machineVars, changeVars, symptomVars, resultVars,
                 since, snapVars, outcomeVars>>

Start(s) ==
  /\ Goto(s, "starting", "collect")
  /\ Acquire(s)
  /\ UNCHANGED <<machineVars, changeVars, symptomVars, resultVars, started,
                 since, snapVars, outcomeVars>>

StartRefused(s) ==
  /\ Goto(s, "starting", "done")
  /\ holder # NoScan
  /\ Leave(s)
  /\ UNCHANGED <<leaseVars, machineVars, changeVars, symptomVars, resultVars>>

(* collect_snapshots: providers that fail are recorded in last_errors and  *)
(* left out, and the others are complete.                                  *)
Collect(s) ==
  /\ Goto(s, "collect", "apply")
  /\ \E ok \in SUBSET Source :
       /\ todo' = [todo EXCEPT ![s] = ok]
       /\ snap' = [snap EXCEPT ![s] = [x \in Source |-> IF x \in ok THEN world[x] ELSE NoValue]]
       /\ IF ok = Source THEN UNCHANGED outcomeVars ELSE Fail(s, Source \ ok)
  /\ UNCHANGED <<leaseVars, machineVars, changeVars, symptomVars, resultVars,
                 started, since, source, previous>>

(* collect_snapshots raises: no source is applied, and none is blamed.     *)
CollectRaises(s) ==
  /\ Goto(s, "collect", "apply")
  /\ Fail(s, {})
  /\ UNCHANGED <<leaseVars, machineVars, changeVars, symptomVars, resultVars,
                 started, since, snapVars>>

(* apply_snapshot reads the previous state before its transaction begins.  *)
ReadPrevious(s, x) ==
  /\ pc[s] = "apply" /\ source[s] = NoSource /\ x \in todo[s]
  /\ source' = [source EXCEPT ![s] = x]
  /\ previous' = [previous EXCEPT ![s] = stored[x]]
  /\ todo' = [todo EXCEPT ![s] = @ \ {x}]
  /\ UNCHANGED <<leaseVars, machineVars, changeVars, symptomVars, resultVars,
                 pc, started, since, snap, outcomeVars>>

Applying(s, x) ==
  /\ pc[s] = "apply" /\ source[s] = x
  /\ source' = [source EXCEPT ![s] = NoSource]
  /\ previous' = [previous EXCEPT ![s] = NoValue]
  /\ UNCHANGED <<machineVars, symptomVars, resultVars, pc, started, since, snap, todo>>

(* Mutant of NewEvents: the state is replaced, the event is lost.          *)
NoEvents(s, x) == <<>>

(* What apply_snapshot does to the journal, given what it read before.     *)
(* The event ends up with the state it explains, in one transaction.       *)
NewEvents(s, x) ==
  IF previous[s] \in Value /\ previous[s] # snap[s][x]
  THEN <<[from |-> previous[s], to |-> snap[s][x]]>>
  ELSE <<>>

(* Mutant of ApplySnapshot: the lease is not tested again under the lock.  *)
ApplyUnleased(s, x) ==
  /\ Applying(s, x)
  /\ previous[s] # Invalid
  /\ stored' = [stored EXCEPT ![x] = snap[s][x]]
  /\ log' = [log EXCEPT ![x] = @ \o NewEvents(s, x)]
  /\ applied' = [applied EXCEPT ![s] = @ \cup {x}]
  /\ UNCHANGED <<leaseVars, failed, errors, retained>>

ApplySnapshot(s, x) ==
  /\ Applying(s, x)
  /\ previous[s] # Invalid
  /\ Commit(s)
  /\ stored' = [stored EXCEPT ![x] = snap[s][x]]
  /\ log' = [log EXCEPT ![x] = @ \o NewEvents(s, x)]
  /\ applied' = [applied EXCEPT ![s] = @ \cup {x}]
  /\ UNCHANGED <<failed, errors, retained>>

(* Undecodable state is reset, and apply_snapshot raises.                  *)
ResetState(s, x) ==
  /\ Applying(s, x)
  /\ previous[s] = Invalid
  /\ Commit(s)
  /\ stored' = [stored EXCEPT ![x] = NoValue]
  /\ Fail(s, {x})
  /\ UNCHANGED log

(* The transaction rolls back: no lease any more, or SQLite fails.         *)
ApplyFails(s, x) ==
  /\ Applying(s, x)
  /\ Fail(s, {x})
  /\ UNCHANGED <<leaseVars, changeVars>>

-----------------------------------------------------------------------------
(* The symptom window starts at the cursor, or a week back without one.    *)
ReadCursor(s) ==
  /\ Goto(s, "apply", "symptoms")
  /\ todo[s] = {} /\ source[s] = NoSource
  /\ since' = [since EXCEPT ![s] =
                 IF cursor = NoCursor THEN started[s] - FirstWindow ELSE cursor]
  /\ UNCHANGED <<leaseVars, machineVars, changeVars, symptomVars, resultVars,
                 started, snapVars, outcomeVars>>

(* collect_symptoms: the newest QueryLimit rows since the window began.    *)
Queried(s) ==
  LET window == {t \in oslog : t >= since[s] - Overlap}
  IN  {t \in window : Cardinality({u \in window : u > t}) < QueryLimit}

(* Mutant of SaveRows: INSERT OR REPLACE.                                  *)
ReplaceRows(rows) ==
  saved' = [t \in Time |-> IF t \in rows THEN "raw" ELSE saved[t]]

(* INSERT OR IGNORE: a row that is there keeps its (pruned) details.       *)
SaveRows(rows) ==
  saved' = [t \in Time |-> IF t \in rows /\ saved[t] = "absent" THEN "raw" ELSE saved[t]]

(* save_events checks the lease only when there is something to save.      *)
SaveEvents(s, rows) ==
  /\ IF rows = {} THEN UNCHANGED leaseVars ELSE Commit(s)
  /\ SaveRows(rows)
  /\ UNCHANGED <<machineVars, changeVars, resultVars, cursor, floor, started,
                 since, snapVars>>

SymptomsCollected(s) ==
  /\ Goto(s, "symptoms", "cursor")
  /\ SaveEvents(s, Queried(s))
  /\ UNCHANGED outcomeVars

(* The provider failed, or some of its rows were malformed: keep what came *)
(* and leave the cursor alone, so that the window is queried again.        *)
SymptomsIncomplete(s) ==
  /\ Goto(s, "symptoms", "prune")
  /\ \E rows \in SUBSET Queried(s) : SaveEvents(s, rows)
  /\ Fail(s, {EventLog})

(* Collecting, saving or moving the cursor raised.                         *)
SymptomsFail(s) ==
  /\ pc[s] \in {"symptoms", "cursor"}
  /\ pc' = [pc EXCEPT ![s] = "prune"]
  /\ Fail(s, {EventLog})
  /\ UNCHANGED <<leaseVars, machineVars, changeVars, symptomVars, resultVars,
                 started, since, snapVars>>

(* Mutant of MoveCursor: the clock after the query.                        *)
CursorToNow(s) ==
  /\ Goto(s, "cursor", "prune")
  /\ Commit(s)
  /\ cursor' = now
  /\ floor' = IF cursor = NoCursor THEN since[s] ELSE floor
  /\ applied' = [applied EXCEPT ![s] = @ \cup {EventLog}]
  /\ UNCHANGED <<machineVars, changeVars, resultVars, saved, started, since,
                 snapVars, failed, errors, retained>>

MoveCursor(s) ==
  /\ Goto(s, "cursor", "prune")
  /\ Commit(s)
  /\ cursor' = started[s]
  /\ floor' = IF cursor = NoCursor THEN since[s] ELSE floor
  /\ applied' = [applied EXCEPT ![s] = @ \cup {EventLog}]
  /\ UNCHANGED <<machineVars, changeVars, resultVars, saved, started, since,
                 snapVars, failed, errors, retained>>

(* Raw messages older than the retention, as of the start of the scan.     *)
Expired(s) == {t \in Time : saved[t] = "raw" /\ t < started[s] - Retain}

(* Mutant of Prune: no retention while the Event Log provider fails.       *)
PruneIfHealthy(s) ==
  /\ Goto(s, "prune", "finish")
  /\ IF Expired(s) = {} \/ EventLog \in failed[s]
     THEN UNCHANGED <<leaseVars, saved>>
     ELSE /\ Commit(s)
          /\ saved' = [t \in Time |-> IF t \in Expired(s) THEN "pruned" ELSE saved[t]]
  /\ retained' = retained \cup {s}
  /\ UNCHANGED <<machineVars, changeVars, resultVars, cursor, floor, started,
                 since, snapVars, applied, failed, errors>>

Prune(s) ==
  /\ Goto(s, "prune", "finish")
  /\ IF Expired(s) = {} THEN UNCHANGED leaseVars ELSE Commit(s)
  /\ saved' = [t \in Time |-> IF t \in Expired(s) THEN "pruned" ELSE saved[t]]
  /\ retained' = retained \cup {s}
  /\ UNCHANGED <<machineVars, changeVars, resultVars, cursor, floor, started,
                 since, snapVars, applied, failed, errors>>

PruneFails(s) ==
  /\ Goto(s, "prune", "finish")
  /\ Fail(s, {})
  /\ UNCHANGED <<leaseVars, machineVars, changeVars, symptomVars, resultVars,
                 started, since, snapVars>>

-----------------------------------------------------------------------------
(* Mutant of Finish: vouches for everything that did not fail.             *)
FinishBoldly(s) ==
  /\ Goto(s, "finish", "done")
  /\ Release(s)
  /\ result' = [result EXCEPT ![s] = IF errors[s] THEN "partial" ELSE "ok"]
  /\ reported' = [reported EXCEPT ![s] = Provider \ failed[s]]
  /\ Leave(s)
  /\ UNCHANGED <<machineVars, changeVars, symptomVars>>

(* finish_scan stores the status and the sources the scan vouches for.     *)
Finish(s) ==
  /\ Goto(s, "finish", "done")
  /\ Release(s)
  /\ result' = [result EXCEPT ![s] = IF errors[s] THEN "partial" ELSE "ok"]
  /\ reported' = [reported EXCEPT ![s] = applied[s] \ failed[s]]
  /\ Leave(s)
  /\ UNCHANGED <<machineVars, changeVars, symptomVars>>

(* The process dies, or finish_scan raises because the lease is lost.      *)
Ends(s) ==
  /\ pc[s] \notin {"new", "starting", "done"}
  /\ pc' = [pc EXCEPT ![s] = "done"]
  /\ Abandon(s)
  /\ Leave(s)
  /\ UNCHANGED <<machineVars, changeVars, symptomVars, resultVars>>

(* doctor, or a start_scan that is then refused by nobody, finds it stale. *)
DeclareStale ==
  /\ Revoke
  /\ UNCHANGED <<machineVars, changeVars, symptomVars, resultVars, pc, started,
                 since, snapVars, outcomeVars>>

Scans(s) ==
  \/ Begin(s) \/ Start(s) \/ StartRefused(s)
  \/ Collect(s) \/ CollectRaises(s)
  \/ \E x \in Source :
       ReadPrevious(s, x) \/ ApplySnapshot(s, x) \/ ResetState(s, x) \/ ApplyFails(s, x)
  \/ ReadCursor(s)
  \/ SymptomsCollected(s) \/ SymptomsIncomplete(s) \/ SymptomsFail(s)
  \/ MoveCursor(s)
  \/ Prune(s) \/ PruneFails(s)
  \/ Finish(s) \/ Ends(s)

Next ==
  \/ \E s \in Scan : Scans(s)
  \/ DeclareStale
  \/ MachineChanges
  \/ Tick

Spec == Init /\ [][Next]_vars

-----------------------------------------------------------------------------
C == INSTANCE ChangeLog

(* Although the previous state is read before the write lock is taken, an  *)
(* observation and its events are one atomic step of the journal.          *)
ImplementsChangeLog == C!ChangeSpec

(* The change events of a source replay to its stored state: no transition *)
(* is lost, duplicated or attributed to a wrong starting point.            *)
EventsReplay == C!Replays

(* No symptom between the first window and the cursor is missing from the  *)
(* journal, whichever scans failed, died or were superseded on the way.    *)
NoSymptomSkipped ==
  cursor # NoCursor =>
    \A t \in oslog : floor <= t /\ t <= cursor => saved[t] # "absent"

(* Once the retention step of a scan has succeeded, no raw message older   *)
(* than the retention is left, even when the Event Log provider failed or  *)
(* the scan caught up on symptoms that were old when they were saved.      *)
RetentionHolds ==
  \A s \in Scan :
    pc[s] = "finish" /\ s \in retained /\ holder = s => Expired(s) = {}

(* A message that was dropped does not come back when the overlap of the   *)
(* next query returns the same symptom again.                              *)
PrunedStaysPruned ==
  [][\A t \in Time : saved[t] = "pruned" => saved'[t] = "pruned"]_vars

(* A finished scan vouches only for evidence that is in the journal: its   *)
(* snapshot is the stored state, and symptoms are covered up to its start. *)
ReportsAreTrue ==
  [][\A s \in Scan : result'[s] # result[s] =>
       /\ \A x \in Source \cap reported'[s] : stored[x] = snap[s][x]
       /\ EventLog \in reported'[s] => cursor = started[s]]_vars

(* A scan that ends "ok" has collected everything.                         *)
OkIsComplete == \A s \in Scan : result[s] = "ok" => reported[s] = Provider

=============================================================================
