----------------------------- MODULE ScanLease -----------------------------
(***************************************************************************)
(* The lease that keeps two scans from writing the journal at once:        *)
(* Database.start_scan, finish_scan, recover_stale_scans and               *)
(* _assert_scan_lease (difftrail/db.py).  The processes are the scheduled  *)
(* watcher, the threads of the local API and the CLI; each has its own     *)
(* connection to one SQLite file, so a transaction that begins with BEGIN  *)
(* IMMEDIATE is one action.                                                *)
(*                                                                         *)
(* Time.  started_at is read from the wall clock BEFORE the transaction    *)
(* that inserts the row, and staleness compares started_at with the clock  *)
(* of the caller.  Only differences matter, so a row carries its age and a *)
(* caller how long it has waited for the write lock; the clock is assumed  *)
(* not to step backwards.                                                  *)
(***************************************************************************)
EXTENDS Integers, FiniteSets

CONSTANTS
  Proc,        \* processes and threads that scan
  ScanId,      \* pool that uuid4 draws from
  NoScan,
  StaleAfter,  \* STALE_SCAN_AFTER, in clock ticks
  MaxWait      \* how long a caller may wait for the write lock (busy_timeout)

ASSUME ScanLeaseAssumption ==
  /\ NoScan \notin ScanId
  /\ StaleAfter \in Nat
  /\ MaxWait \in Nat

VARIABLES
  status,   \* scans.status of each row; "absent" while the id is not used
  age,      \* now - scans.started_at of a running row, counted up to AgeCap
  active,   \* meta 'scan:active', NoScan when the key is missing
  pc,       \* where each process is in Scanner.scan
  mine,     \* the scan_id a process got from start_scan
  wait,     \* now - started, for a process inside start_scan
  writer,   \* history: the scan that committed the last scan-owned write
  written,  \* history: the scans that have committed a scan-owned write
  held      \* history: ticks since a running row was inserted, up to AgeCap

rowVars == <<status, age, active, held>>
procVars == <<pc, mine, wait>>
vars == <<status, age, active, pc, mine, wait, writer, written, held>>

(* Ages above this bound are all stale for every caller.                   *)
AgeCap == StaleAfter + MaxWait + 1

(* A scan that ended.  finish_scan would also store "failed", which the    *)
(* scanner never passes.                                                   *)
Terminal == {"ok", "partial", "interrupted"}

TypeOK ==
  /\ status \in [ScanId -> {"absent", "running"} \cup Terminal]
  /\ age \in [ScanId -> 0..AgeCap]
  /\ active \in ScanId \cup {NoScan}
  /\ pc \in [Proc -> {"idle", "starting", "scanning"}]
  /\ mine \in [Proc -> ScanId \cup {NoScan}]
  /\ wait \in [Proc -> 0..MaxWait]
  /\ writer \in ScanId \cup {NoScan}
  /\ written \subseteq ScanId
  /\ held \in [ScanId -> 0..AgeCap]

Init ==
  /\ status = [i \in ScanId |-> "absent"]
  /\ age = [i \in ScanId |-> 0]
  /\ active = NoScan
  /\ pc = [p \in Proc |-> "idle"]
  /\ mine = [p \in Proc |-> NoScan]
  /\ wait = [p \in Proc |-> 0]
  /\ writer = NoScan
  /\ written = {}
  /\ held = [i \in ScanId |-> 0]

-----------------------------------------------------------------------------
(* Reads made inside a transaction.                                        *)

Running == {i \in ScanId : status[i] = "running"}

(* Mutant of Stale: off by one.                                            *)
StaleEarly(w) == {i \in Running : age[i] >= StaleAfter + w}

(* Running rows with started_at < caller's clock - StaleAfter, where the   *)
(* caller read its clock w ticks ago.                                      *)
Stale(w) == {i \in Running : age[i] > StaleAfter + w}

(* Mutant of LeaseHeld: only the marker is tested.                         *)
HeldByMarker(i) == i \in ScanId /\ active \in {NoScan, i}

(* The test of _assert_scan_lease, made under the write lock.              *)
LeaseHeld(i) ==
  /\ i \in ScanId
  /\ status[i] = "running"
  /\ active \in {NoScan, i}

(* A uuid4 nobody uses: not a running row, not in any process's hands.     *)
(* Reusing the id of a row that has ended stands for a new row.            *)
Fresh == {i \in ScanId : i \notin Running /\ \A p \in Proc : mine[p] # i}

(* Mutant of Interrupt: a status the schema does not know.                 *)
Discard(ids) == [i \in ScanId |-> IF i \in ids THEN "stale" ELSE status[i]]

Interrupt(ids) == [i \in ScanId |-> IF i \in ids THEN "interrupted" ELSE status[i]]

(* started_at stays in a row that ended, but nothing compares it again.    *)
AgeWithout(ids) == [i \in ScanId |-> IF i \in ids THEN 0 ELSE age[i]]
HeldWithout(ids) == [i \in ScanId |-> IF i \in ids THEN 0 ELSE held[i]]

(* A tick later: running rows are older, up to AgeCap.                     *)
Older(time) ==
  [i \in ScanId |-> IF i \in Running /\ time[i] < AgeCap
                     THEN time[i] + 1 ELSE time[i]]

(* Mutant of ActiveWithout: the marker of an interrupted scan stays.       *)
ActiveKept(ids) == active

(* _clear_expired_scan_lease, after the rows ids were interrupted.         *)
ActiveWithout(ids) ==
  IF active \in Running \ ids THEN active ELSE NoScan

-----------------------------------------------------------------------------
(* Scanner.scan reads utc_now() and enters start_scan.                     *)
Begin(p) ==
  /\ pc[p] = "idle"
  /\ pc' = [pc EXCEPT ![p] = "starting"]
  /\ wait' = [wait EXCEPT ![p] = 0]
  /\ UNCHANGED <<rowVars, mine, writer, written>>

(* Mutant of StartScan: stale rows are not recovered.                      *)
StartWithoutRecovery(p, i) ==
  /\ pc[p] = "starting" /\ Running = {} /\ i \in Fresh
  /\ status' = [status EXCEPT ![i] = "running"]
  /\ age' = [age EXCEPT ![i] = wait[p]]
  /\ held' = [held EXCEPT ![i] = 0]
  /\ active' = i
  /\ mine' = [mine EXCEPT ![p] = i]
  /\ pc' = [pc EXCEPT ![p] = "scanning"]
  /\ wait' = [wait EXCEPT ![p] = 0]
  /\ written' = written \ {i}
  /\ UNCHANGED writer

(* start_scan: recover stale rows, drop an expired marker, insert the row  *)
(* and take the marker, all in one transaction.                            *)
StartScan(p, i) ==
  /\ pc[p] = "starting"
  /\ Running \subseteq Stale(wait[p])
  /\ i \in Fresh
  /\ status' = [Interrupt(Stale(wait[p])) EXCEPT ![i] = "running"]
  /\ age' = [AgeWithout(Stale(wait[p])) EXCEPT ![i] = wait[p]]
  /\ held' = [HeldWithout(Stale(wait[p])) EXCEPT ![i] = 0]
  /\ active' = i
  /\ mine' = [mine EXCEPT ![p] = i]
  /\ pc' = [pc EXCEPT ![p] = "scanning"]
  /\ wait' = [wait EXCEPT ![p] = 0]
  /\ written' = written \ {i}
  /\ UNCHANGED writer

(* start_scan raises because a row that is not stale still runs.  The      *)
(* rollback also undoes the recovery of the stale rows.                    *)
StartRefused(p) ==
  /\ pc[p] = "starting"
  /\ ~ (Running \subseteq Stale(wait[p]))
  /\ pc' = [pc EXCEPT ![p] = "idle"]
  /\ wait' = [wait EXCEPT ![p] = 0]
  /\ UNCHANGED <<rowVars, mine, writer, written>>

(* A transaction of the scan (apply_snapshot, save_events, the symptom     *)
(* cursor, retention) that passes _assert_scan_lease.  One that does not   *)
(* raises, changes nothing, and Scanner.scan goes on to its next step.     *)
OwnedWrite(p) ==
  /\ pc[p] = "scanning"
  /\ LeaseHeld(mine[p])
  /\ writer' = mine[p]
  /\ written' = written \cup {mine[p]}
  /\ UNCHANGED <<rowVars, procVars>>

(* finish_scan by the holder of the lease.                                 *)
FinishScan(p, result) ==
  /\ pc[p] = "scanning"
  /\ LeaseHeld(mine[p])
  /\ status' = [status EXCEPT ![mine[p]] = result]
  /\ active' = IF active = mine[p] THEN NoScan ELSE active
  /\ pc' = [pc EXCEPT ![p] = "idle"]
  /\ mine' = [mine EXCEPT ![p] = NoScan]
  /\ age' = AgeWithout({mine[p]})
  /\ held' = HeldWithout({mine[p]})
  /\ UNCHANGED <<wait, writer, written>>

(* finish_scan raises: the scan was interrupted while it collected.        *)
FinishRefused(p) ==
  /\ pc[p] = "scanning"
  /\ ~ LeaseHeld(mine[p])
  /\ pc' = [pc EXCEPT ![p] = "idle"]
  /\ mine' = [mine EXCEPT ![p] = NoScan]
  /\ UNCHANGED <<rowVars, wait, writer, written>>

(* The process dies, or an exception leaves Scanner.scan, between two      *)
(* transactions.  Its row stays as it is; a new process starts idle.       *)
Crash(p) ==
  /\ pc[p] # "idle"
  /\ pc' = [pc EXCEPT ![p] = "idle"]
  /\ mine' = [mine EXCEPT ![p] = NoScan]
  /\ wait' = [wait EXCEPT ![p] = 0]
  /\ UNCHANGED <<rowVars, writer, written>>

(* recover_stale_scans, from doctor --recover-stale-scans.                 *)
RecoverStaleScans ==
  /\ Stale(0) # {}
  /\ status' = Interrupt(Stale(0))
  /\ active' = ActiveWithout(Stale(0))
  /\ age' = AgeWithout(Stale(0))
  /\ held' = HeldWithout(Stale(0))
  /\ UNCHANGED <<procVars, writer, written>>

(* The wall clock advances.  No caller waits longer than MaxWait.          *)
Tick ==
  /\ \A p \in Proc : pc[p] = "starting" => wait[p] < MaxWait
  /\ age' = Older(age)
  /\ held' = Older(held)
  /\ wait' = [p \in Proc |-> IF pc[p] = "starting" THEN wait[p] + 1 ELSE 0]
  /\ UNCHANGED <<status, active, pc, mine, writer, written>>

Scanning(p) ==
  \/ Begin(p)
  \/ \E i \in ScanId : StartScan(p, i)
  \/ StartRefused(p)
  \/ OwnedWrite(p)
  \/ \E result \in {"ok", "partial"} : FinishScan(p, result)
  \/ FinishRefused(p)

Next ==
  \/ \E p \in Proc : Scanning(p) \/ Crash(p)
  \/ RecoverStaleScans
  \/ Tick

Spec == Init /\ [][Next]_vars

(* The task scheduler keeps starting the watcher, a scan that is left      *)
(* alone finishes, and the clock advances.  Nothing is assumed of doctor,  *)
(* and crashes may go on for ever: only a process that reaches start_scan  *)
(* again and again is assumed to get through its transaction once in a     *)
(* while (strong fairness), since the task never fails at that one spot.   *)
Fairness ==
  /\ WF_vars(Tick)
  /\ \A p \in Proc :
       /\ WF_vars(Begin(p))
       /\ SF_vars((\E i \in ScanId : StartScan(p, i)) \/ StartRefused(p))
       /\ WF_vars((\E result \in {"ok", "partial"} : FinishScan(p, result))
                    \/ FinishRefused(p))

FairSpec == Spec /\ Fairness

-----------------------------------------------------------------------------
(* At most one row is running, and the marker names exactly that row.      *)
LeaseCoherent ==
  /\ \A i, j \in Running : i = j
  /\ active = NoScan <=> Running = {}
  /\ active # NoScan => active \in Running

(* Two processes never think they own the same scan.                       *)
OwnScans ==
  \A p, q \in Proc : mine[p] # NoScan /\ mine[p] = mine[q] => p = q

(* Writes of different scans never interleave: when the writer changes,    *)
(* the new writer has not written before, so a scan that was superseded    *)
(* while it collected never adds to the journal again.                     *)
NoInterleavedWrites == [][writer' # writer => writer' \notin written]_vars

(* A scan is only interrupted when its row is older than StaleAfter, also  *)
(* when the caller waited long for the write lock before it looked.  The   *)
(* row of a scan that waited itself is born old, so a healthy scan may     *)
(* hold the lease for less than StaleAfter, but less by MaxWait at most.   *)
NoEarlyTakeover ==
  [][\A i \in ScanId :
       status[i] = "running" /\ status'[i] = "interrupted"
         => age[i] > StaleAfter /\ held[i] + MaxWait > StaleAfter]_vars

(* A running row whose process is gone.                                    *)
Orphan(i) == i \in Running /\ \A p \in Proc : mine[p] # i

(* An orphaned row does not stay running for ever.                         *)
OrphansRecovered == \A i \in ScanId : Orphan(i) ~> ~ Orphan(i)

(* Whatever crashes, some scan starts again and again.                     *)
ScanningResumes == []<>(\E p \in Proc : pc[p] = "scanning")

(* The lease seen from outside.                                            *)
Holder == IF active \in Running THEN active ELSE NoScan

L == INSTANCE Lease WITH
       Scan <- ScanId, holder <- Holder, writer <- writer,
       live <- {i \in ScanId : \E p \in Proc : mine[p] = i}

(* Rows, ages and the marker implement the promise of module Lease.        *)
ImplementsLease == L!LeaseSpec

=============================================================================
