-------------------------- MODULE ScanLeaseProofs --------------------------
(***************************************************************************)
(* Proofs about ScanLease, for every set of processes and every value of   *)
(* the staleness and waiting bounds.  The argument rests on one inductive  *)
(* invariant: at most one row runs and the marker names it, processes own  *)
(* different scans, a running scan that has already written is the last    *)
(* writer, and a row is at most MaxWait older than its lease.              *)
(***************************************************************************)
EXTENDS ScanLease, TLAPS

(* A process has a scan id exactly while it scans.                         *)
MineWhileScanning ==
  \A p \in Proc : pc[p] = "scanning" <=> mine[p] # NoScan

(* Of the running scans, only the last writer has written.                 *)
RunningWriter ==
  \A i \in Running : i \in written => writer = i

(* A row was born no older than its process can have waited for the lock.  *)
BornYoung ==
  \A i \in ScanId : age[i] <= held[i] + MaxWait

IInv ==
  /\ TypeOK
  /\ LeaseCoherent
  /\ OwnScans
  /\ MineWhileScanning
  /\ RunningWriter
  /\ BornYoung

(* Start of the induction: an empty journal satisfies the invariant.       *)
LEMMA InitIInv == Init => IInv
  BY ScanLeaseAssumption
  DEF Init, IInv, TypeOK, LeaseCoherent, OwnScans, MineWhileScanning,
      RunningWriter, BornYoung, Running, AgeCap, Terminal

(* Every step keeps the types.                                             *)
LEMMA NextTypeOK ==
  ASSUME TypeOK, [Next]_vars
  PROVE  TypeOK'
  <1> USE ScanLeaseAssumption DEF TypeOK, rowVars, procVars, Running, Terminal,
          AgeCap
  <1>1. ASSUME NEW p \in Proc, Begin(p)
        PROVE  TypeOK'
    BY <1>1 DEF Begin
  <1>2. ASSUME NEW p \in Proc, NEW i \in ScanId, StartScan(p, i)
        PROVE  TypeOK'
    BY <1>2 DEF StartScan, Interrupt, AgeWithout, HeldWithout, Stale
  <1>3. ASSUME NEW p \in Proc, StartRefused(p)
        PROVE  TypeOK'
    BY <1>3 DEF StartRefused
  <1>4. ASSUME NEW p \in Proc, OwnedWrite(p)
        PROVE  TypeOK'
    BY <1>4 DEF OwnedWrite, LeaseHeld
  <1>5. ASSUME NEW p \in Proc, NEW result \in {"ok", "partial"},
               FinishScan(p, result)
        PROVE  TypeOK'
    BY <1>5 DEF FinishScan, AgeWithout, HeldWithout, LeaseHeld
  <1>6. ASSUME NEW p \in Proc, FinishRefused(p)
        PROVE  TypeOK'
    BY <1>6 DEF FinishRefused
  <1>7. ASSUME NEW p \in Proc, Crash(p)
        PROVE  TypeOK'
    BY <1>7 DEF Crash
  <1>8. CASE RecoverStaleScans
    BY <1>8 DEF RecoverStaleScans, Interrupt, AgeWithout, HeldWithout,
                ActiveWithout, Stale
  <1>9. CASE Tick
    <2>1. /\ UNCHANGED <<status, active, pc, mine, writer, written>>
          /\ age' \in [ScanId -> 0..AgeCap]
          /\ held' \in [ScanId -> 0..AgeCap]
      BY <1>9 DEF Tick, Older
    <2>2. wait' \in [Proc -> 0..MaxWait]
      BY <1>9 DEF Tick
    <2> QED
      BY <2>1, <2>2
  <1>10. CASE UNCHANGED vars
    BY <1>10 DEF vars
  <1> QED
    BY <1>1, <1>2, <1>3, <1>4, <1>5, <1>6, <1>7, <1>8, <1>9, <1>10
    DEF Next, Scanning

(* Lease and row age together, and a row is inserted with an age of at     *)
(* most MaxWait, the wait of the process that inserts it.                  *)
LEMMA StaysYoung ==
  ASSUME TypeOK, BornYoung, [Next]_vars
  PROVE  BornYoung'
  <1> USE ScanLeaseAssumption DEF TypeOK, BornYoung
  <1>1. ASSUME NEW p \in Proc, NEW i \in ScanId, StartScan(p, i)
        PROVE  BornYoung'
    BY <1>1 DEF StartScan, AgeWithout, HeldWithout
  <1>2. ASSUME NEW p \in Proc, NEW result \in {"ok", "partial"},
               FinishScan(p, result)
        PROVE  BornYoung'
    BY <1>2 DEF FinishScan, AgeWithout, HeldWithout
  <1>3. CASE RecoverStaleScans
    BY <1>3 DEF RecoverStaleScans, AgeWithout, HeldWithout
  <1>4. CASE Tick
    BY <1>4 DEF Tick, Older, AgeCap
  <1>5. CASE UNCHANGED <<age, held>>
    BY <1>5
  <1> QED
    BY <1>1, <1>2, <1>3, <1>4, <1>5
    DEF Next, Scanning, Begin, StartRefused, OwnedWrite, FinishRefused, Crash,
        rowVars, vars

(* Every step keeps the inductive invariant.  Only StartScan adds a        *)
(* running row, and it first interrupts every row that runs; only          *)
(* OwnedWrite adds to written, and only for the row that runs.             *)
LEMMA NextIInv ==
  ASSUME IInv, [Next]_vars
  PROVE  IInv'
  <1>0. TypeOK' /\ BornYoung'
    BY NextTypeOK, StaysYoung DEF IInv
  <1> USE <1>0, ScanLeaseAssumption
      DEF IInv, TypeOK, LeaseCoherent, OwnScans, MineWhileScanning, RunningWriter,
          rowVars, procVars, Running, Terminal
  <1>1. ASSUME NEW p \in Proc, Begin(p)
        PROVE  IInv'
    BY <1>1 DEF Begin
  <1>2. ASSUME NEW p \in Proc, NEW i \in ScanId, StartScan(p, i)
        PROVE  IInv'
    <2>1. Running' = {i}
      BY <1>2 DEF StartScan, Interrupt
    <2>2. \A q \in Proc : mine[q] # i
      BY <1>2 DEF StartScan, Fresh
    <2>3. LeaseCoherent'
      BY <1>2, <2>1 DEF StartScan
    <2>4. OwnScans' /\ MineWhileScanning'
      BY <1>2, <2>2 DEF StartScan
    <2>5. RunningWriter'
      BY <1>2, <2>1 DEF StartScan
    <2> QED
      BY <2>3, <2>4, <2>5
  <1>3. ASSUME NEW p \in Proc, StartRefused(p)
        PROVE  IInv'
    BY <1>3 DEF StartRefused
  <1>4. ASSUME NEW p \in Proc, OwnedWrite(p)
        PROVE  IInv'
    BY <1>4 DEF OwnedWrite, LeaseHeld
  <1>5. ASSUME NEW p \in Proc, NEW result \in {"ok", "partial"},
               FinishScan(p, result)
        PROVE  IInv'
    <2>1. Running' = Running \ {mine[p]} /\ mine[p] \in Running
      BY <1>5 DEF FinishScan, LeaseHeld
    <2>2. Running = {mine[p]} /\ active = mine[p]
      BY <2>1
    <2>3. LeaseCoherent' /\ RunningWriter'
      BY <1>5, <2>1, <2>2 DEF FinishScan
    <2>4. OwnScans' /\ MineWhileScanning'
      BY <1>5 DEF FinishScan
    <2> QED
      BY <2>3, <2>4
  <1>6. ASSUME NEW p \in Proc, FinishRefused(p)
        PROVE  IInv'
    BY <1>6 DEF FinishRefused
  <1>7. ASSUME NEW p \in Proc, Crash(p)
        PROVE  IInv'
    BY <1>7 DEF Crash
  <1>8. CASE RecoverStaleScans
    <2>1. Running' = Running \ Stale(0)
      BY <1>8 DEF RecoverStaleScans, Interrupt, Stale
    <2>2. LeaseCoherent' /\ RunningWriter'
      BY <1>8, <2>1 DEF RecoverStaleScans, ActiveWithout, Stale
    <2>3. OwnScans' /\ MineWhileScanning'
      BY <1>8 DEF RecoverStaleScans
    <2> QED
      BY <2>2, <2>3
  <1>9. CASE Tick
    BY <1>9 DEF Tick
  <1>10. CASE UNCHANGED vars
    BY <1>10 DEF vars
  <1> QED
    BY <1>1, <1>2, <1>3, <1>4, <1>5, <1>6, <1>7, <1>8, <1>9, <1>10
    DEF Next, Scanning

(* The inductive invariant holds in every reachable state.                 *)
LEMMA SpecIInv == Spec => []IInv
  BY InitIInv, NextIInv, PTL DEF Spec

(* Type correctness of the rows, the marker and the processes' state.      *)
THEOREM TypeCorrect == Spec => []TypeOK
  <1>1. IInv => TypeOK
    BY DEF IInv
  <1> QED
    BY <1>1, SpecIInv, PTL

(* start_scan, finish_scan and the recovery keep at most one running row,  *)
(* and scan:active names it.                                               *)
THEOREM LeaseIsCoherent == Spec => []LeaseCoherent
  <1>1. IInv => LeaseCoherent
    BY DEF IInv
  <1> QED
    BY <1>1, SpecIInv, PTL

(* No two processes ever own the same scan.                                *)
THEOREM ProcessesOwnTheirScans == Spec => []OwnScans
  <1>1. IInv => OwnScans
    BY DEF IInv
  <1> QED
    BY <1>1, SpecIInv, PTL

(* _assert_scan_lease fences: a superseded scan never writes again.        *)
THEOREM WritesDoNotInterleave == Spec => NoInterleavedWrites
  <1>1. ASSUME IInv, [Next]_vars
        PROVE  [writer' # writer => writer' \notin written]_vars
    <2>1. CASE UNCHANGED vars
      BY <2>1
    <2>2. CASE \E p \in Proc : OwnedWrite(p)
      BY <1>1, <2>2 DEF IInv, OwnedWrite, LeaseHeld, RunningWriter, Running
    <2>3. CASE Next /\ ~ \E p \in Proc : OwnedWrite(p)
      <3>1. writer' = writer
        BY <2>3 DEF Next, Scanning, Begin, StartScan, StartRefused, FinishScan,
                    FinishRefused, Crash, RecoverStaleScans, Tick
      <3> QED
        BY <3>1
    <2> QED
      BY <1>1, <2>1, <2>2, <2>3
  <1> QED
    BY <1>1, SpecIInv, PTL DEF Spec, NoInterleavedWrites

(* No scan is interrupted before its row is older than StaleAfter, nor     *)
(* before it has held the lease for all of StaleAfter but MaxWait.         *)
THEOREM TakeoverIsLate == Spec => NoEarlyTakeover
  <1> DEFINE Early ==
        \A i \in ScanId :
          status[i] = "running" /\ status'[i] = "interrupted"
            => age[i] > StaleAfter /\ held[i] + MaxWait > StaleAfter
  <1>1. ASSUME IInv, [Next]_vars
        PROVE  [Early]_vars
    <2> USE <1>1, ScanLeaseAssumption DEF IInv, TypeOK, BornYoung
    <2>1. ASSUME NEW p \in Proc, NEW j \in ScanId, StartScan(p, j)
          PROVE  Early
      BY <2>1 DEF StartScan, Interrupt, Stale, Running
    <2>2. ASSUME NEW p \in Proc, NEW result \in {"ok", "partial"},
                 FinishScan(p, result)
          PROVE  Early
      BY <2>2 DEF FinishScan, LeaseHeld
    <2>3. CASE RecoverStaleScans
      BY <2>3 DEF RecoverStaleScans, Interrupt, Stale, Running
    <2>4. ASSUME status' = status
          PROVE  Early
      BY <2>4
    <2> QED
      BY <2>1, <2>2, <2>3, <2>4
      DEF Next, Scanning, Begin, StartRefused, OwnedWrite, FinishRefused, Crash,
          Tick, rowVars, vars
  <1> QED
    BY <1>1, SpecIInv, PTL DEF Spec, NoEarlyTakeover

-----------------------------------------------------------------------------
(* The lease implements module Lease: start_scan acquires, finish_scan     *)
(* releases, doctor revokes, and a process that ends otherwise abandons.   *)

Live == {i \in ScanId : \E p \in Proc : mine[p] = i}

(* With a coherent lease the holder is what the marker names.              *)
LEMMA HolderIsActive ==
  ASSUME IInv
  PROVE  Holder = active
  BY DEF IInv, TypeOK, LeaseCoherent, Holder

(* Every step is a step of the abstract lease or leaves it alone.          *)
LEMMA NextImplements ==
  ASSUME IInv, IInv', [Next]_vars
  PROVE  [L!LeaseNext]_(L!leaseVars)
  <1>0. Holder = active /\ Holder' = active'
    BY HolderIsActive DEF IInv, TypeOK, LeaseCoherent, Holder
  <1> DEFINE NextLive == {i \in ScanId : \E p \in Proc : mine'[p] = i}
  <1> USE <1>0, ScanLeaseAssumption
      DEF IInv, TypeOK, LeaseCoherent, OwnScans, MineWhileScanning, Running
  <1>1. ASSUME NEW p \in Proc, NEW i \in ScanId, StartScan(p, i)
        PROVE  L!Acquire(i)
    <2>1. i \notin Live /\ active' = i /\ writer' = writer
      BY <1>1 DEF StartScan, Fresh, Live
    <2>2. mine[p] = NoScan
      BY <1>1 DEF StartScan
    <2>3. NextLive = Live \cup {i}
      BY <1>1, <2>2 DEF StartScan, Live
    <2> QED
      BY <2>1, <2>3 DEF L!Acquire, Live
  <1>2. ASSUME NEW p \in Proc, OwnedWrite(p)
        PROVE  L!Commit(mine[p])
    BY <1>2 DEF OwnedWrite, LeaseHeld, L!Commit, procVars, rowVars
  <1>3. ASSUME NEW p \in Proc, NEW result \in {"ok", "partial"},
               FinishScan(p, result)
        PROVE  \E s \in ScanId : L!Release(s)
    <2>1. PICK s \in ScanId : s = mine[p]
      BY <1>3 DEF FinishScan, LeaseHeld
    <2>2. s \in Live /\ active = s /\ active' = NoScan
      BY <1>3, <2>1 DEF FinishScan, LeaseHeld, Live
    <2>3. NextLive = Live \ {s}
      BY <1>3, <2>1 DEF FinishScan, LeaseHeld, Live
    <2> QED
      BY <1>3, <2>2, <2>3 DEF FinishScan, L!Release, Live
  <1>4. ASSUME NEW p \in Proc, mine' = [mine EXCEPT ![p] = NoScan],
               UNCHANGED <<active, writer>>
        PROVE  [L!LeaseNext]_(L!leaseVars)
    <2>1. CASE mine[p] = NoScan
      BY <1>4, <2>1 DEF L!leaseVars
    <2>2. CASE mine[p] # NoScan
      <3>1. PICK s \in ScanId : s = mine[p]
        BY <2>2
      <3>2. s \in Live
        BY <3>1 DEF Live
      <3>3. NextLive = Live \ {s}
        BY <1>4, <3>1 DEF Live
      <3>4. L!Abandon(s)
        BY <1>4, <3>2, <3>3 DEF L!Abandon, Live
      <3> QED
        BY <3>4 DEF L!LeaseNext
    <2> QED
      BY <2>1, <2>2
  <1>5. CASE RecoverStaleScans
    <2>1. active # NoScan /\ active' = NoScan
      BY <1>5 DEF RecoverStaleScans, Stale, ActiveWithout
    <2> QED
      BY <1>5, <2>1 DEF RecoverStaleScans, procVars, L!Revoke, L!LeaseNext
  <1>6. ASSUME UNCHANGED <<active, mine, writer>>
        PROVE  UNCHANGED L!leaseVars
    BY <1>6 DEF L!leaseVars
  <1>7. ASSUME NEW p \in Proc, Scanning(p) \/ Crash(p)
        PROVE  [L!LeaseNext]_(L!leaseVars)
    <2>1. CASE Begin(p) \/ StartRefused(p)
      BY <2>1, <1>6 DEF Begin, StartRefused, rowVars
    <2>2. CASE \E i \in ScanId : StartScan(p, i)
      BY <2>2, <1>1 DEF L!LeaseNext
    <2>3. CASE OwnedWrite(p)
      BY <2>3, <1>2 DEF L!LeaseNext, OwnedWrite, LeaseHeld
    <2>4. CASE \E result \in {"ok", "partial"} : FinishScan(p, result)
      <3>1. PICK result \in {"ok", "partial"} : FinishScan(p, result)
        BY <2>4
      <3>2. \E s \in ScanId : L!Release(s)
        BY <3>1, <1>3
      <3> QED
        BY <3>2 DEF L!LeaseNext
    <2>5. CASE FinishRefused(p) \/ Crash(p)
      <3>1. mine' = [mine EXCEPT ![p] = NoScan] /\ UNCHANGED <<active, writer>>
        BY <2>5 DEF FinishRefused, Crash, rowVars
      <3> QED
        BY <3>1, <1>4
    <2> QED
      BY <1>7, <2>1, <2>2, <2>3, <2>4, <2>5 DEF Scanning
  <1>8. CASE Tick \/ UNCHANGED vars
    BY <1>8, <1>6 DEF Tick, vars
  <1> QED
    BY <1>5, <1>7, <1>8 DEF Next

(* The scan rows and the marker keep the promise of module Lease.          *)
THEOREM LeaseImplemented == Spec => ImplementsLease
  <1>1. Init => L!LeaseInit
    BY ScanLeaseAssumption DEF Init, L!LeaseInit, Holder, Running
  <1> QED
    BY <1>1, SpecIInv, NextImplements, PTL DEF Spec, ImplementsLease, L!LeaseSpec

=============================================================================
