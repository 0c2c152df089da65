--------------------------- MODULE Investigation ---------------------------
(***************************************************************************)
(* Reviews of a reported problem: run_investigation and the incident rows  *)
(* of difftrail/db.py, driven by the threads of the local API              *)
(* (difftrail/ui_api.py).  A review is a sequence of transactions: the row *)
(* is created, the events and the scan coverage are read, and the result   *)
(* is stored.  A scan may write and finish in between, the user may delete *)
(* the row or give feedback on it, and the backend may die.                *)
(***************************************************************************)
EXTENDS Correlation

CONSTANTS
  Thread,     \* threads of the local API
  Id,         \* incident ids (uuid4)
  Legacy,     \* sources of a scan record that does not list them
  Histories,  \* journals and requests a behaviour starts from; .reviews bounds its rows
  MaxGap,     \* INVESTIGATION_MAX_PRE_ONSET_GAP
  ReadLimit,  \* events a review reads at most (10 000)
  DraftLookback,   \* lookback of an automatic draft (7 days)
  MaxTicks    \* bound on the passage of time

(* What a journal and the requests about it are made of.  The actions are  *)
(* those the event log collector writes; a scan record that does not list  *)
(* its failed sources does not list the collected ones either.             *)
ScanOK(s) ==
  /\ DOMAIN s = {"id", "finished", "status", "collected", "failed", "errors"}
  /\ s.finished \in Nat /\ s.status \in {"ok", "partial", "failed", "interrupted"}
  /\ s.failed = Legacy => s.collected = Legacy

AskedOK(r) ==
  /\ DOMAIN r = {"subsystem", "start", "end", "lookback", "entity", "suspect"}
  /\ r.subsystem \in Subsystem /\ r.start \in Nat /\ r.lookback \in Nat \ {0}
  /\ 0 .. r.lookback \subseteq DOMAIN Temporal

HistoryOK(h) ==
  /\ h.now \in Nat /\ IsFiniteSet(h.events) /\ IsFiniteSet(h.live) /\ IsFiniteSet(h.scans)
  /\ \A e \in h.events \cup h.live :
       /\ EventOK(e)
       /\ e.kind = "symptom" => e.action \in NonSpecific \cup EntitySpecific \cup {"driver_reset"}
       /\ \A d \in h.events \cup h.live : d.id = e.id => d = e
  /\ h.events \cap h.live = {} /\ \A e \in h.live : e.kind = "change"
  /\ \A s \in h.scans \cup {h.report} : ScanOK(s)
  /\ \A s \in h.scans : s.id # h.report.id
  /\ \A r \in h.requests : AskedOK(r)

ASSUME HistoriesAssumption == \A h \in Histories : HistoryOK(h)
ASSUME LimitsAssumption ==
  /\ DraftLookback \in Nat \ {0} /\ 0 .. DraftLookback \subseteq DOMAIN Temporal
  /\ {MaxGap, MaxTicks, ReadLimit} \subseteq Nat

VARIABLES
  events,     \* the events table
  scans,      \* finished rows of the scans table
  row,        \* the incidents table
  scan,       \* the scan that runs beside the reviews
  clock,
  task,       \* the request each thread works on
  history     \* what the behaviour started from

vars == <<events, scans, row, scan, clock, task, history>>

NoCoverage == [known |-> FALSE, limited |-> FALSE, counted |-> {}]
NoFeedback == [outcome |-> "none", event |-> 0]
Idle == [at |-> "idle"]

(* An id without a row.                                                    *)
Unused == [status |-> "unused"]
Deleted == [status |-> "deleted"]

Rows == {i \in Id : row[i].status \notin {"unused", "deleted"}}

TypeOK ==
  /\ \A e \in events : EventOK(e)
  /\ \A i \in Rows :
       /\ RequestOK(row[i].request)
       /\ row[i].status \in {"investigating", "draft"}
       /\ row[i].assessment \in {"neutral", "limited_coverage", "no_recent_changes",
                                 "insufficient_evidence", "candidate_found"}
       /\ Len(row[i].results) <= Limit
       /\ row[i].feedback.outcome \in {"none", "correct", "incorrect", "unknown"}
  /\ scan \in {"none", "collecting", "recorded"}
  /\ clock \in history.now .. history.now + MaxTicks
  /\ \A t \in Thread : task[t].at \in {"idle", "events", "coverage", "store", "feedback"}

Init ==
  /\ history \in Histories
  /\ events = history.events /\ scans = history.scans /\ clock = history.now
  /\ scan = IF history.live = {} THEN "none" ELSE "collecting"
  /\ row = [i \in Id |-> Unused]
  /\ task = [t \in Thread |-> Idle]

-----------------------------------------------------------------------------
(* Coverage: what the finished scans of the change window vouch for.       *)
Expected(area) ==
  CASE area = "graphics" -> {"drivers", "devices", "updates", "eventlog"}
    [] area \in {"audio", "network", "bluetooth", "driver", "device"} ->
         {"drivers", "devices", "eventlog"}
    [] area = "startup" -> {"services", "tasks", "startup", "eventlog"}
    [] area = "application" -> {"apps", "eventlog"}
    [] area = "windows-update" -> {"updates", "eventlog"}
    [] OTHER -> {"updates", "apps", "drivers", "services", "tasks", "startup", "devices",
                 "eventlog"}

ScansBetween(since, until) == {s \in scans : since <= s.finished /\ s.finished <= until}

(* A scan that cannot be relied on.  Records that name no sources count as *)
(* a whole.                                                                *)
Impaired(s) ==
  s.status \in IF s.failed = Legacy THEN {"partial", "failed", "interrupted"}
                                    ELSE {"failed", "interrupted"}
Warns(s, area) == IF s.failed = Legacy THEN s.errors ELSE s.failed \cap Expected(area) # {}

Uninitialized(rows, area) ==
  LET collected == UNION {s.collected : s \in {c \in rows : c.collected # Legacy}} IN
  IF collected = {} /\ \E s \in rows : s.collected = Legacy
  THEN Expected(area) \ history.initialized
  ELSE Expected(area) \ collected

CoverageOf(rows, r) ==
  IF rows = {} THEN NoCoverage
  ELSE [known |-> TRUE, counted |-> rows,
        limited |-> \/ \E s \in rows : Impaired(s) \/ Warns(s, r.subsystem)
                    \/ Uninitialized(rows, r.subsystem) # {}
                    \/ r.start - Max({s.finished : s \in rows}) > MaxGap]

(* Mutants of InvestigationCoverage: a scan counts from its start on, and  *)
(* a gap before the onset does not matter.                                 *)
CoverageOfStarted(r) ==
  CoverageOf(ScansBetween(LookbackStart(r), r.start) \cup
               {s \in {[history.report EXCEPT !.finished = history.now]} :
                  scan # "none" /\ s.finished \in LookbackStart(r) .. r.start}, r)
CoverageWithGaps(r) ==
  CoverageOf(ScansBetween(LookbackStart(r), r.start), [r EXCEPT !.start = LookbackStart(r)])

InvestigationCoverage(r) == CoverageOf(ScansBetween(LookbackStart(r), r.start), r)

-----------------------------------------------------------------------------
(* The newest events of the window.                                        *)
ListEvents(r) ==
  LET window == {e \in events : LookbackStart(r) <= e.time /\ e.time <= r.end}
      Newer(d, e) == d.time > e.time \/ (d.time = e.time /\ d.id > e.id)
  IN {e \in window : Cardinality({d \in window : Newer(d, e)}) < ReadLimit}

(* Without a finished scan, every lead is weak.                            *)
Leads(r, seen, coverage) ==
  LET ranked == RankCandidates(seen, r) IN
  IF coverage.known THEN ranked
  ELSE [k \in DOMAIN ranked |-> [ranked[k] EXCEPT !.confidence = "Low"]]

Created(r, status) ==
  [request |-> r, status |-> status, results |-> <<>>, assessment |-> "neutral",
   coverage |-> NoCoverage, feedback |-> NoFeedback]

Assessed(old, seen, coverage) ==
  LET leads == Leads(old.request, seen, coverage) IN
  [old EXCEPT !.results = leads, !.coverage = coverage,
              !.assessment = Assess(old.request, leads, seen, coverage)]

-----------------------------------------------------------------------------
(* POST /api/investigations, transaction by transaction.                   *)
NotInFuture(r) == r.start <= clock

CreateIncident(t, i) ==
  /\ task[t] = Idle /\ row[i] = Unused
  /\ Cardinality({j \in Id : row[j] # Unused}) < history.reviews
  /\ \E asked \in history.requests :
       LET r == [asked EXCEPT !.end = clock] IN
       /\ NotInFuture(r)
       /\ row' = [row EXCEPT ![i] = Created(r, "investigating")]
       /\ task' = [task EXCEPT ![t] = [at |-> "events", id |-> i, request |-> r]]
  /\ UNCHANGED <<events, scans, scan, clock, history>>

ReadEvents(t) ==
  /\ task[t].at = "events"
  /\ task' = [task EXCEPT ![t] = [at |-> "coverage", id |-> @.id, request |-> @.request,
                                  seen |-> ListEvents(@.request)]]
  /\ UNCHANGED <<events, scans, row, scan, clock, history>>

ReadCoverage(t) ==
  /\ task[t].at = "coverage"
  /\ task' = [task EXCEPT ![t] = [at |-> "store", id |-> @.id, request |-> @.request,
                                  seen |-> @.seen,
                                  coverage |-> InvestigationCoverage(@.request)]]
  /\ UNCHANGED <<events, scans, row, scan, clock, history>>

(* Mutant of StoreResults: the row is written whether it is there or not.  *)
StoreAnyway(t) ==
  /\ task[t].at = "store"
  /\ row' = [row EXCEPT ![task[t].id] =
               Assessed(Created(task[t].request, "investigating"), task[t].seen,
                        task[t].coverage)]
  /\ task' = [task EXCEPT ![t] = Idle]
  /\ UNCHANGED <<events, scans, scan, clock, history>>

(* update_incident_results: a row that was deleted meanwhile is an error   *)
(* of the request, and nothing is written.                                 *)
StoreResults(t) ==
  /\ task[t].at = "store"
  /\ row' = IF task[t].id \in Rows
            THEN [row EXCEPT ![task[t].id] = Assessed(@, task[t].seen, task[t].coverage)]
            ELSE row
  /\ task' = [task EXCEPT ![t] = Idle]
  /\ UNCHANGED <<events, scans, scan, clock, history>>

(* An automatic draft for a recorded symptom is reviewed inside one write  *)
(* transaction.                                                            *)
DraftRequest(s, name) ==
  [subsystem |-> s.subsystem, start |-> s.time, end |-> s.time, lookback |-> DraftLookback,
   entity |-> name, suspect |-> Absent]

Draft(i) ==
  /\ row[i] = Unused /\ history.busy
  /\ Cardinality({j \in Id : row[j] # Unused}) < history.reviews
  /\ \E s \in Symptoms(events) : \E name \in IF s.names = {} THEN {Absent} ELSE s.names :
       LET r == DraftRequest(s, name) IN
       row' = [row EXCEPT ![i] = Assessed(Created(r, "draft"), ListEvents(r),
                                          InvestigationCoverage(r))]
  /\ UNCHANGED <<events, scans, scan, clock, task, history>>

(* POST /api/incidents/.../feedback: the row is checked, then written.     *)
Ranked(i) == {row[i].results[k].event.id : k \in DOMAIN row[i].results}

(* Mutant of CheckFeedback: any event of the journal may be named.         *)
CheckFeedbackLoosely(t, i) ==
  /\ task[t] = Idle /\ i \in Rows /\ history.busy
  /\ \E e \in events :
       task' = [task EXCEPT ![t] = [at |-> "feedback", id |-> i,
                                    feedback |-> [outcome |-> "correct", event |-> e.id]]]
  /\ UNCHANGED <<events, scans, row, scan, clock, history>>

CheckFeedback(t, i) ==
  /\ task[t] = Idle /\ i \in Rows /\ history.busy
  /\ \E outcome \in {"correct", "incorrect", "unknown"}, event \in {0} \cup Ranked(i) :
       /\ outcome = "correct" => event # 0
       /\ task' = [task EXCEPT ![t] = [at |-> "feedback", id |-> i,
                                       feedback |-> [outcome |-> outcome, event |-> event]]]
  /\ UNCHANGED <<events, scans, row, scan, clock, history>>

StoreFeedback(t) ==
  /\ task[t].at = "feedback"
  /\ row' = IF task[t].id \in Rows
            THEN [row EXCEPT ![task[t].id].feedback = task[t].feedback]
            ELSE row
  /\ task' = [task EXCEPT ![t] = Idle]
  /\ UNCHANGED <<events, scans, scan, clock, history>>

(* DELETE /api/incidents/...                                               *)
DeleteIncident(i) ==
  /\ i \in Rows /\ history.busy
  /\ row' = [row EXCEPT ![i] = Deleted]
  /\ UNCHANGED <<events, scans, scan, clock, task, history>>

(* The backend is killed, or a request raises.                             *)
Die ==
  /\ history.busy
  /\ task' = [t \in Thread |-> Idle]
  /\ UNCHANGED <<events, scans, row, scan, clock, history>>

-----------------------------------------------------------------------------
(* The scan beside the reviews, which started when the behaviour did: its  *)
(* events bear the time of its start and are committed before its row is   *)
(* finished (module Journal has the rest).                                 *)
RecordEvents ==
  /\ scan = "collecting"
  /\ events' = events \cup {[e EXCEPT !.time = history.now] : e \in history.live}
  /\ scan' = "recorded"
  /\ UNCHANGED <<scans, row, clock, task, history>>

FinishScan ==
  /\ scan = "recorded"
  /\ scans' = scans \cup {[history.report EXCEPT !.finished = clock]}
  /\ scan' = "none"
  /\ UNCHANGED <<events, row, clock, task, history>>

Tick ==
  /\ history.busy /\ clock < history.now + MaxTicks
  /\ clock' = clock + 1
  /\ UNCHANGED <<events, scans, row, scan, task, history>>

Next ==
  \/ \E t \in Thread :
       \/ \E i \in Id : CreateIncident(t, i) \/ CheckFeedback(t, i)
       \/ ReadEvents(t) \/ ReadCoverage(t) \/ StoreResults(t) \/ StoreFeedback(t)
  \/ \E i \in Id : Draft(i) \/ DeleteIncident(i)
  \/ Die \/ RecordEvents \/ FinishScan \/ Tick

Spec == Init /\ [][Next]_vars

-----------------------------------------------------------------------------
(* What a review may call a candidate: one change whose area has a symptom *)
(* of its own near the onset and after the change, not a symptom of        *)
(* something else, none before the change (but those of what the user did  *)
(* not ask about), no other change that scores about the same, and a       *)
(* change window that scans vouch for.                                     *)
Names(r, e, s) ==
  IF r.entity \in Name THEN {e.names, s.names} \subseteq {n \in SUBSET Name : r.entity \in n}
  ELSE e.names \cap s.names # {}

Before(r, e, s) ==
  /\ s.kind = "symptom" /\ s.subsystem = e.subsystem /\ s.names = e.names
  /\ r.start - r.lookback <= s.time /\ s.time < e.time
  /\ r.entity \in Name /\ s.names # {} => r.entity \in s.names

Witness(r, e, s) ==
  /\ s.kind = "symptom" /\ s.subsystem = e.subsystem
  /\ e.time <= s.time /\ s.time <= r.end
  /\ s.time - r.start \in -Tolerance .. Tolerance
  /\ s.action \in {"crash", "hang", "driver_reset"}
  /\ e.source \in {"apps", "services", "startup", "tasks"} => Names(r, e, s)

CandidateIsEarned ==
  \A i \in Rows : row[i].assessment = "candidate_found" =>
    LET r == row[i].request  lead == row[i].results[1]  IN
    /\ \E s \in events : Witness(r, lead.event, s)
    /\ ~ \E s \in events : Before(r, lead.event, s)
    /\ \A k \in 2 .. Len(row[i].results) :
         LET gap == lead.score - row[i].results[k].score IN gap > 2500 \/ gap < -2500
    /\ row[i].coverage.counted # {} /\ ~ row[i].coverage.limited

(* A review never rests on a scan whose changes it did not look at: a scan *)
(* that finishes between its two reads vouches for nothing, and what an    *)
(* earlier one found is a lead, or one of too many.  (A scan that finishes *)
(* in the second of the onset may vouch: see the README.)                  *)
CoverageIsRead ==
  \A i \in Rows : \A s \in row[i].coverage.counted :
    s.id = history.report.id /\ s.finished < row[i].request.start =>
      \A e \in Changes(events, row[i].request) :
        e.id \in {l.id : l \in history.live} =>
          e.id \in Ranked(i) \/ Len(row[i].results) = Limit

(* Unlimited coverage means that every source that matters was read in the *)
(* change window, without a failure, and not long before the onset.        *)
UnlimitedIsWatched ==
  \A i \in Rows : LET r == row[i].request  c == row[i].coverage IN
    c.known /\ ~ c.limited /\ (\A s \in c.counted : s.collected # Legacy) =>
      /\ Expected(r.subsystem) \subseteq UNION {s.collected : s \in c.counted}
      /\ \A s \in c.counted : /\ r.start - r.lookback <= s.finished /\ s.finished <= r.start
                            /\ s.status \in {"ok", "partial"}
                            /\ s.failed \cap Expected(r.subsystem) = {}
      /\ \E s \in c.counted : s.finished >= r.start - MaxGap

(* Feedback stays about a lead of the review it was given on, whatever     *)
(* happens to the row between its check and its update.                    *)
FeedbackNamesLead ==
  \A i \in Rows : row[i].feedback.event # 0 => row[i].feedback.event \in Ranked(i)

(* A review that the user deleted stays deleted, though its own request or *)
(* a feedback may still be on the way.                                     *)
DeletedStaysDeleted == [][\A i \in Id : row[i] = Deleted => row'[i] = Deleted]_vars

=============================================================================
