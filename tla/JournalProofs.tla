---------------------------- MODULE JournalProofs ----------------------------
(***************************************************************************)
(* Proofs about Journal, for any number of scans, sources and values: that *)
(* the read outside the transaction and the write inside it are one atomic *)
(* observation, and what finished scans and retention may be trusted for.  *)
(***************************************************************************)
EXTENDS Journal, FiniteSetTheorems, TLAPS

(* What one scan is doing, beyond its types: sources are only worked on    *)
(* between collection and the symptoms, and each of them was collected.    *)
Pending(s) == todo[s] \cup ({source[s]} \ {NoSource})

Orderly ==
  \A s \in Scan :
    /\ pc[s] # "apply" => Pending(s) = {}
    /\ source[s] \notin todo[s]
    /\ \A x \in Pending(s) : snap[s][x] \in Value

LEMMA InitTypes == Init => TypeOK /\ Orderly
<1> SUFFICES ASSUME Init PROVE TypeOK /\ Orderly
  OBVIOUS
<1> USE DEF Init
<1>1. 0 \in Time /\ 0 \in Since /\ 0 \in 0 .. MaxChanges
  BY JournalAssumption DEF Time, Since
<1>2. log \in [Source -> Seq(Transition)]
  OBVIOUS
<1>3. cursor \in Time \cup {NoCursor}
  BY <1>1, JournalAssumption
<1>4. LeaseTypeOK
  BY DEF LeaseInit, LeaseTypeOK
<1>5. TypeOK
  BY <1>1, <1>2, <1>3, <1>4, JournalAssumption DEF TypeOK, NothingSeen, Stored
<1>6. Orderly
  BY DEF Orderly, Pending
<1> QED BY <1>5, <1>6

(* The steps that only touch the lease, the machine or the symptoms.       *)
LEMMA LeaseTypes ==
  ASSUME LeaseTypeOK, NEW s \in Scan,
         Acquire(s) \/ Commit(s) \/ Release(s) \/ Abandon(s) \/ Revoke \/ UNCHANGED leaseVars
  PROVE  LeaseTypeOK'
BY DEF LeaseTypeOK, Acquire, Commit, Release, Abandon, Revoke, leaseVars

LEMMA LeaveTypes ==
  ASSUME TypeOK, Orderly, NEW s \in Scan, Leave(s)
  PROVE  /\ started' \in [Scan -> Time] /\ since' \in [Scan -> Since]
         /\ snap' \in [Scan -> [Source -> Value \cup {NoValue}]]
         /\ todo' \in [Scan -> SUBSET Source] /\ source' \in [Scan -> Source \cup {NoSource}]
         /\ previous' \in [Scan -> Stored]
         /\ applied' \in [Scan -> SUBSET Provider] /\ failed' \in [Scan -> SUBSET Provider]
         /\ errors' \in [Scan -> BOOLEAN] /\ retained' \subseteq Scan
         /\ \A r \in Scan \ {s} : todo'[r] = todo[r] /\ source'[r] = source[r] /\ snap'[r] = snap[r]
         /\ todo'[s] = {} /\ source'[s] = NoSource
<1>1. 0 \in Time /\ 0 \in Since
  BY JournalAssumption DEF Time, Since
<1>2. NothingSeen \in [Source -> Value \cup {NoValue}]
  BY DEF NothingSeen
<1> QED BY <1>1, <1>2 DEF TypeOK, Leave, Stored

LEMMA FailTypes ==
  ASSUME TypeOK, NEW s \in Scan, NEW providers \in SUBSET Provider, Fail(s, providers)
  PROVE  /\ applied' \in [Scan -> SUBSET Provider] /\ failed' \in [Scan -> SUBSET Provider]
         /\ errors' \in [Scan -> BOOLEAN] /\ retained' \subseteq Scan
BY DEF TypeOK, Fail

(* One transition at most is recorded, and it is one.                      *)
LEMMA EventTypes ==
  ASSUME TypeOK, NEW s \in Scan, NEW x \in Source, snap[s][x] \in Value
  PROVE  NewEvents(s, x) \in Seq(Transition)
<1>1. CASE previous[s] \in Value /\ previous[s] # snap[s][x]
  <2>1. [from |-> previous[s], to |-> snap[s][x]] \in Transition
    BY <1>1 DEF Transition
  <2> QED BY <1>1, <2>1 DEF NewEvents
<1>2. CASE ~ (previous[s] \in Value /\ previous[s] # snap[s][x])
  BY <1>2 DEF NewEvents
<1> QED BY <1>1, <1>2

(* One case for each step of a scan, and of the world around it.           *)
LEMMA StepTypes == TypeOK /\ Orderly /\ [Next]_vars => TypeOK' /\ Orderly'
<1> SUFFICES ASSUME TypeOK, Orderly, [Next]_vars PROVE TypeOK' /\ Orderly'
  OBVIOUS
<1> USE DEF TypeOK, Orderly, Pending, Goto, machineVars, changeVars, symptomVars,
            resultVars, snapVars, outcomeVars
<1>1. CASE UNCHANGED vars
  BY <1>1 DEF vars, leaseVars, LeaseTypeOK
<1>2. CASE MachineChanges
  <2>1. LeaseTypeOK'
    BY <1>2 DEF MachineChanges, leaseVars, LeaseTypeOK
  <2>2. changes' \in 0 .. MaxChanges
    <3>1. changes \in Nat /\ MaxChanges \in Nat
      BY JournalAssumption
    <3> QED BY <1>2, <3>1 DEF MachineChanges
  <2>3. world' \in [Source -> Value]
    BY <1>2 DEF MachineChanges
  <2> QED BY <1>2, <2>1, <2>2, <2>3 DEF MachineChanges
<1>3. CASE Tick
  <2>1. LeaseTypeOK'
    BY <1>3 DEF Tick, leaseVars, LeaseTypeOK
  <2>2. now' \in Time /\ oslog' \subseteq Time
    <3>1. MaxClock \in Nat /\ now \in Nat
      BY JournalAssumption DEF Time
    <3>2. now' \in Time
      BY <1>3, <3>1 DEF Tick, Time
    <3> QED BY <1>3, <3>2 DEF Tick
  <2> QED BY <1>3, <2>1, <2>2 DEF Tick
<1>4. CASE DeclareStale
  <2>1. LeaseTypeOK'
    BY <1>4 DEF DeclareStale, Revoke, LeaseTypeOK
  <2> QED BY <1>4, <2>1 DEF DeclareStale
<1>5. ASSUME NEW s \in Scan, Begin(s) PROVE TypeOK' /\ Orderly'
  BY <1>5, LeaseTypes DEF Begin
<1>6. ASSUME NEW s \in Scan, Start(s) PROVE TypeOK' /\ Orderly'
  BY <1>6, LeaseTypes DEF Start
<1>7. ASSUME NEW s \in Scan, StartRefused(s) PROVE TypeOK' /\ Orderly'
  BY <1>7, LeaseTypes, LeaveTypes DEF StartRefused
<1>8. ASSUME NEW s \in Scan, Collect(s) PROVE TypeOK' /\ Orderly'
  <2>1. PICK ok \in SUBSET Source :
          /\ todo' = [todo EXCEPT ![s] = ok]
          /\ snap' = [snap EXCEPT ![s] =
                        [x \in Source |-> IF x \in ok THEN world[x] ELSE NoValue]]
          /\ UNCHANGED outcomeVars \/ Fail(s, Source \ ok)
    BY <1>8 DEF Collect
  <2>2. Source \ ok \in SUBSET Provider
    BY DEF Provider
  <2>3. /\ applied' \in [Scan -> SUBSET Provider] /\ failed' \in [Scan -> SUBSET Provider]
        /\ errors' \in [Scan -> BOOLEAN] /\ retained' \subseteq Scan
    BY <2>1, <2>2, FailTypes
  <2>4. snap' \in [Scan -> [Source -> Value \cup {NoValue}]]
    BY <2>1
  <2>5. source[s] = NoSource /\ NoSource \notin Source
    BY <1>8, JournalAssumption DEF Collect
  <2>6. LeaseTypeOK'
    BY <1>8, LeaseTypes DEF Collect
  <2>7. \A x \in ok : snap'[s][x] \in Value
    BY <2>1
  <2>8. TypeOK'
    BY <1>8, <2>1, <2>3, <2>4, <2>6 DEF Collect
  <2>9. Orderly'
    BY <1>8, <2>1, <2>5, <2>7 DEF Collect
  <2> QED BY <2>8, <2>9
<1>9. ASSUME NEW s \in Scan, CollectRaises(s) PROVE TypeOK' /\ Orderly'
  BY <1>9, LeaseTypes, FailTypes DEF CollectRaises
<1>10. ASSUME NEW s \in Scan, NEW x \in Source, ReadPrevious(s, x) PROVE TypeOK' /\ Orderly'
  BY <1>10, LeaseTypes, JournalAssumption DEF ReadPrevious
<1>11. ASSUME NEW s \in Scan, NEW x \in Source, ApplySnapshot(s, x) PROVE TypeOK' /\ Orderly'
  <2>1. snap[s][x] \in Value /\ x \in Provider
    BY <1>11, JournalAssumption DEF ApplySnapshot, Applying, Provider
  <2>2. log' \in [Source -> Seq(Transition)]
    BY <1>11, <2>1, EventTypes DEF ApplySnapshot
  <2>3. stored' \in [Source -> Stored]
    BY <1>11, <2>1 DEF ApplySnapshot, Stored
  <2>4. applied' \in [Scan -> SUBSET Provider]
    BY <1>11, <2>1 DEF ApplySnapshot
  <2>5. previous' \in [Scan -> Stored]
    BY <1>11 DEF ApplySnapshot, Applying, Stored
  <2>6. LeaseTypeOK'
    BY <1>11, LeaseTypes DEF ApplySnapshot
  <2>7. TypeOK'
    BY <1>11, <2>2, <2>3, <2>4, <2>5, <2>6 DEF ApplySnapshot, Applying
  <2>8. Orderly'
    BY <1>11, JournalAssumption DEF ApplySnapshot, Applying
  <2> QED BY <2>7, <2>8
<1>12. ASSUME NEW s \in Scan, NEW x \in Source, ResetState(s, x) PROVE TypeOK' /\ Orderly'
  <2>1. stored' \in [Source -> Stored] /\ previous' \in [Scan -> Stored]
    BY <1>12 DEF ResetState, Applying, Stored
  <2>2. {x} \in SUBSET Provider
    BY DEF Provider
  <2>3. LeaseTypeOK'
    BY <1>12, LeaseTypes DEF ResetState
  <2>4. TypeOK'
    BY <1>12, <2>1, <2>2, <2>3, FailTypes DEF ResetState, Applying
  <2>5. Orderly'
    BY <1>12, JournalAssumption DEF ResetState, Applying
  <2> QED BY <2>4, <2>5
<1>13. ASSUME NEW s \in Scan, NEW x \in Source, ApplyFails(s, x) PROVE TypeOK' /\ Orderly'
  <2>1. previous' \in [Scan -> Stored]
    BY <1>13 DEF ApplyFails, Applying, Stored
  <2>2. {x} \in SUBSET Provider
    BY DEF Provider
  <2>3. LeaseTypeOK'
    BY <1>13, LeaseTypes DEF ApplyFails
  <2>4. TypeOK'
    BY <1>13, <2>1, <2>2, <2>3, FailTypes DEF ApplyFails, Applying
  <2>5. Orderly'
    BY <1>13, JournalAssumption DEF ApplyFails, Applying
  <2> QED BY <2>4, <2>5
<1>14. ASSUME NEW s \in Scan, ReadCursor(s) PROVE TypeOK' /\ Orderly'
  <2>1. IF cursor = NoCursor THEN started[s] - FirstWindow \in Since ELSE cursor \in Since
    <3>1. started[s] \in Time
      OBVIOUS
    <3> QED BY <3>1, JournalAssumption DEF Time, Since
  <2>2. since' \in [Scan -> Since]
    BY <1>14, <2>1 DEF ReadCursor
  <2> QED BY <1>14, <2>2, LeaseTypes DEF ReadCursor
<1>15. ASSUME NEW s \in Scan, NEW rows, SaveEvents(s, rows)
       PROVE  LeaseTypeOK' /\ saved' \in [Time -> {"absent", "raw", "pruned"}]
  BY <1>15, LeaseTypes DEF SaveEvents, SaveRows
<1>16. ASSUME NEW s \in Scan, SymptomsCollected(s) PROVE TypeOK' /\ Orderly'
  BY <1>16, <1>15 DEF SymptomsCollected, SaveEvents
<1>17. ASSUME NEW s \in Scan, SymptomsIncomplete(s) PROVE TypeOK' /\ Orderly'
  <2>1. {EventLog} \in SUBSET Provider
    BY DEF Provider
  <2> QED BY <1>17, <1>15, <2>1, FailTypes DEF SymptomsIncomplete, SaveEvents
<1>18. ASSUME NEW s \in Scan, SymptomsFail(s) PROVE TypeOK' /\ Orderly'
  <2>1. {EventLog} \in SUBSET Provider
    BY DEF Provider
  <2> QED BY <1>18, <2>1, LeaseTypes, FailTypes DEF SymptomsFail
<1>19. ASSUME NEW s \in Scan, MoveCursor(s) PROVE TypeOK' /\ Orderly'
  <2>1. applied' \in [Scan -> SUBSET Provider]
    BY <1>19 DEF MoveCursor, Provider
  <2> QED BY <1>19, <2>1, LeaseTypes DEF MoveCursor
<1>20. ASSUME NEW s \in Scan, Prune(s) PROVE TypeOK' /\ Orderly'
  BY <1>20, LeaseTypes DEF Prune
<1>21. ASSUME NEW s \in Scan, PruneFails(s) PROVE TypeOK' /\ Orderly'
  BY <1>21, LeaseTypes, FailTypes DEF PruneFails
<1>22. ASSUME NEW s \in Scan, Finish(s) PROVE TypeOK' /\ Orderly'
  BY <1>22, LeaseTypes, LeaveTypes DEF Finish
<1>23. ASSUME NEW s \in Scan, Ends(s) PROVE TypeOK' /\ Orderly'
  BY <1>23, LeaseTypes, LeaveTypes DEF Ends
<1> QED
  BY <1>1, <1>2, <1>3, <1>4, <1>5, <1>6, <1>7, <1>8, <1>9, <1>10, <1>11, <1>12, <1>13,
     <1>14, <1>16, <1>17, <1>18, <1>19, <1>20, <1>21, <1>22, <1>23
  DEF Next, Scans

LEMMA SpecTypes == Spec => [](TypeOK /\ Orderly)
BY InitTypes, StepTypes, PTL DEF Spec

(* Every value that Scanner.scan and the journal keep has its type: in     *)
(* particular only collected snapshots are stored or become events.        *)
THEOREM TypesHold == Spec => []TypeOK
BY SpecTypes, PTL

-----------------------------------------------------------------------------
(* Why reading before the transaction does no harm: only the holder stores *)
(* a source, and a scan that has read one gets the lease from nobody.      *)
Fresh ==
  \A s \in Scan :
    holder = s /\ source[s] # NoSource => previous[s] = stored[source[s]]

LEMMA InitFresh == Init => Fresh
BY DEF Init, Fresh

LEMMA StepFresh == TypeOK /\ Orderly /\ Fresh /\ [Next]_vars => Fresh'
<1> SUFFICES ASSUME TypeOK, Orderly, Fresh, [Next]_vars PROVE Fresh'
  OBVIOUS
<1> USE DEF Fresh, Goto, leaseVars, changeVars, snapVars
<1>0. source \in [Scan -> Source \cup {NoSource}] /\ previous \in [Scan -> Stored]
      /\ stored \in [Source -> Stored] /\ NoSource \notin Source /\ NoScan \notin Scan
  BY JournalAssumption, LeaseAssumption DEF TypeOK
<1>1. CASE UNCHANGED <<source, previous, stored>> /\ (holder' = holder \/ holder' = NoScan)
  BY <1>1, <1>0
<1>2. ASSUME NEW s \in Scan, Start(s) PROVE Fresh'
  <2>1. source[s] = NoSource
    BY <1>2, <1>0 DEF Start, Orderly, Pending
  <2> QED BY <1>2, <2>1 DEF Start, Acquire
<1>3. ASSUME NEW s \in Scan, Leave(s), UNCHANGED stored, holder' = holder \/ holder' = NoScan
      PROVE  Fresh'
  BY <1>3, <1>0 DEF Leave
<1>4. ASSUME NEW s \in Scan, NEW x \in Source, ReadPrevious(s, x) PROVE Fresh'
  BY <1>4, <1>0 DEF ReadPrevious
<1>5. ASSUME NEW s \in Scan, NEW x \in Source, Applying(s, x),
             Commit(s) \/ UNCHANGED <<leaseVars, stored>>
      PROVE  Fresh'
  BY <1>5, <1>0 DEF Applying, Commit
<1>6. ASSUME NEW s \in Scan, Scans(s) PROVE Fresh'
  <2>1. CASE Begin(s) \/ Collect(s) \/ CollectRaises(s) \/ ReadCursor(s) \/ SymptomsFail(s)
             \/ PruneFails(s)
    BY <2>1, <1>1 DEF Begin, Collect, CollectRaises, ReadCursor, SymptomsFail, PruneFails
  <2>2. CASE SymptomsCollected(s) \/ SymptomsIncomplete(s) \/ MoveCursor(s) \/ Prune(s)
    BY <2>2, <1>1 DEF SymptomsCollected, SymptomsIncomplete, SaveEvents, MoveCursor, Prune, Commit
  <2>3. CASE StartRefused(s) \/ Finish(s) \/ Ends(s)
    BY <2>3, <1>3 DEF StartRefused, Finish, Ends, Release, Abandon
  <2>4. ASSUME NEW x \in Source, ApplySnapshot(s, x) \/ ResetState(s, x) \/ ApplyFails(s, x)
        PROVE  Fresh'
    BY <2>4, <1>5 DEF ApplySnapshot, ResetState, ApplyFails
  <2> QED BY <1>2, <1>4, <1>6, <2>1, <2>2, <2>3, <2>4 DEF Scans
<1>7. CASE DeclareStale \/ MachineChanges \/ Tick \/ UNCHANGED vars
  BY <1>7, <1>1 DEF DeclareStale, Revoke, MachineChanges, Tick, vars
<1> QED BY <1>6, <1>7 DEF Next

(* A committed snapshot is one observation of ChangeLog.                   *)
LEMMA ApplyObserves ==
  ASSUME TypeOK, Orderly, Fresh, NEW s \in Scan, NEW x \in Source, ApplySnapshot(s, x)
  PROVE  C!ChangeNext
<1>1. x # NoSource /\ source[s] = x /\ holder = s
  BY JournalAssumption DEF ApplySnapshot, Applying, Commit
<1>2. previous[s] = stored[x] /\ stored[x] \in Stored /\ stored[x] # Invalid
  BY <1>1 DEF Fresh, TypeOK, ApplySnapshot
<1>3. snap[s][x] \in Value
  BY <1>1 DEF Orderly, Pending
<1>4. CASE stored[x] \in Value
  <2>1. NewEvents(s, x) = C!Diff(stored[x], snap[s][x])
    BY <1>2, <1>4 DEF NewEvents, C!Diff
  <2>2. C!Record(x, snap[s][x])
    BY <1>4, <2>1 DEF C!Record, ApplySnapshot
  <2> QED BY <1>3, <2>2 DEF C!ChangeNext
<1>5. CASE stored[x] \notin Value
  <2>1. stored[x] = NoValue /\ NewEvents(s, x) = <<>>
    BY <1>2, <1>5 DEF Stored, NewEvents
  <2>2. log \in [Source -> Seq(Transition)]
    BY DEF TypeOK
  <2>3. log[x] \o <<>> = log[x]
    BY <2>2
  <2>4. log' = [log EXCEPT ![x] = log[x] \o <<>>]
    BY <2>1 DEF ApplySnapshot
  <2>5. log' = log
    BY <2>2, <2>3, <2>4
  <2>6. C!Baseline(x, snap[s][x])
    BY <2>1, <2>5 DEF C!Baseline, ApplySnapshot
  <2> QED BY <1>3, <2>6 DEF C!ChangeNext
<1> QED BY <1>4, <1>5

LEMMA StepObserves ==
  TypeOK /\ Orderly /\ Fresh /\ [Next]_vars => [C!ChangeNext]_(C!changeVars)
<1> SUFFICES ASSUME TypeOK, Orderly, Fresh, [Next]_vars
             PROVE  C!ChangeNext \/ UNCHANGED changeVars
  BY DEF C!changeVars, changeVars
<1>1. ASSUME NEW s \in Scan, Scans(s) PROVE C!ChangeNext \/ UNCHANGED changeVars
  <2>1. ASSUME NEW x \in Source, ApplySnapshot(s, x) PROVE C!ChangeNext
    BY <2>1, ApplyObserves
  <2>2. ASSUME NEW x \in Source, ResetState(s, x) PROVE C!ChangeNext
    <3>1. x # NoSource /\ source[s] = x /\ holder = s /\ previous[s] = Invalid
      BY <2>2, JournalAssumption DEF ResetState, Applying, Commit
    <3>2. C!Reset(x)
      BY <2>2, <3>1 DEF ResetState, Fresh, C!Reset
    <3> QED BY <3>2 DEF C!ChangeNext
  <2>3. ASSUME NEW x \in Source, ReadPrevious(s, x) \/ ApplyFails(s, x)
        PROVE  UNCHANGED changeVars
    BY <2>3 DEF ReadPrevious, ApplyFails
  <2>4. CASE \/ Begin(s) \/ Start(s) \/ StartRefused(s) \/ Collect(s) \/ CollectRaises(s)
             \/ ReadCursor(s) \/ SymptomsCollected(s) \/ SymptomsIncomplete(s)
             \/ SymptomsFail(s) \/ MoveCursor(s) \/ Prune(s) \/ PruneFails(s)
             \/ Finish(s) \/ Ends(s)
    BY <2>4 DEF Begin, Start, StartRefused, Collect, CollectRaises, ReadCursor,
       SymptomsCollected, SymptomsIncomplete, SaveEvents, SymptomsFail, MoveCursor,
       Prune, PruneFails, Finish, Ends
  <2> QED BY <1>1, <2>1, <2>2, <2>3, <2>4 DEF Scans
<1>2. CASE DeclareStale \/ MachineChanges \/ Tick \/ UNCHANGED vars
  BY <1>2 DEF DeclareStale, MachineChanges, Tick, vars
<1> QED BY <1>1, <1>2 DEF Next

LEMMA SpecFresh == Spec => [](TypeOK /\ Orderly /\ Fresh)
BY InitFresh, StepFresh, SpecTypes, PTL DEF Spec

(* Whoever is superseded between its read and its write, apply_snapshot    *)
(* replaces a source and records the transition as one atomic observation. *)
THEOREM ObservationsAreAtomic == Spec => ImplementsChangeLog
<1>1. Init => C!ChangeInit
  BY DEF Init, C!ChangeInit, Stored
<1> QED BY <1>1, SpecFresh, StepObserves, PTL DEF Spec, ImplementsChangeLog, C!ChangeSpec

-----------------------------------------------------------------------------
(* What ChangeLog promises of the events, of whatever implements it: a     *)
(* source without a state has none, and the events lead to its state.      *)
Replayable ==
  /\ C!ChangeTypeOK
  /\ \A x \in Source : stored[x] \notin Value => log[x] = <<>>
  /\ C!Replays

LEMMA InitReplayable == C!ChangeInit => Replayable
<1> SUFFICES ASSUME C!ChangeInit PROVE Replayable
  OBVIOUS
<1>1. log \in [Source -> Seq(C!Transition)]
  BY DEF C!ChangeInit
<1>2. \A x \in Source : log[x] = <<>> /\ Len(log[x]) = 0
  BY DEF C!ChangeInit
<1> QED BY <1>1, <1>2 DEF C!ChangeInit, Replayable, C!ChangeTypeOK, C!Replays

LEMMA SameReplays ==
  ASSUME Replayable, UNCHANGED <<stored, log>>
  PROVE  Replayable'
BY DEF Replayable, C!ChangeTypeOK, C!Replays

LEMMA OneMore ==
  ASSUME NEW S, NEW q \in Seq(S), NEW e \in S
  PROVE  /\ q \o <<e>> \in Seq(S) /\ Len(q \o <<e>>) = Len(q) + 1 /\ Len(q) \in Nat
         /\ \A k \in 1 .. Len(q) : (q \o <<e>>)[k] = q[k]
         /\ (q \o <<e>>)[Len(q) + 1] = e
OBVIOUS

(* The step that matters: a transition starts where the last one ended.    *)
LEMMA RecordReplays ==
  ASSUME Replayable, NEW x \in Source, NEW v \in Value, C!Record(x, v)
  PROVE  Replayable'
<1> USE DEF C!Record, Replayable, C!ChangeTypeOK
<1>1. stored' \in [Source -> Value \cup {NoValue, Invalid}] /\ stored'[x] = v
      /\ \A y \in Source \ {x} : stored'[y] = stored[y] /\ log'[y] = log[y]
  OBVIOUS
<1>2. log[x] \in Seq(C!Transition)
  OBVIOUS
<1>3. CASE stored[x] = v
  <2>1. log'[x] = log[x] \o <<>>
    BY <1>3 DEF C!Diff
  <2>2. log'[x] = log[x]
    BY <1>2, <2>1
  <2>3. log' = log /\ stored' = stored
    BY <1>3, <2>2
  <2> QED BY <2>3, SameReplays
<1>4. CASE stored[x] # v
  <2> DEFINE e == [from |-> stored[x], to |-> v]
             n == Len(log[x])
  <2>1. log'[x] = log[x] \o <<e>> /\ e \in C!Transition
    BY <1>4 DEF C!Diff, C!Transition
  <2> HIDE DEF e
  <2>2. /\ log'[x] \in Seq(C!Transition) /\ Len(log'[x]) = n + 1 /\ n \in Nat
        /\ \A k \in 1 .. n : log'[x][k] = log[x][k]
        /\ log'[x][n + 1] = e
    <3> DEFINE q == log[x]
    <3> HIDE DEF q
    <3>1. q \in Seq(C!Transition) /\ e \in C!Transition
      BY <1>2, <2>1 DEF q
    <3>2. /\ q \o <<e>> \in Seq(C!Transition) /\ Len(q \o <<e>>) = Len(q) + 1 /\ Len(q) \in Nat
          /\ \A k \in 1 .. Len(q) : (q \o <<e>>)[k] = q[k]
          /\ (q \o <<e>>)[Len(q) + 1] = e
      BY <3>1, OneMore, Zenon
    <3> QED BY <2>1, <3>2 DEF q
  <2>3. log' \in [Source -> Seq(C!Transition)]
    BY <2>2
  <2>4. e.from # e.to /\ e.to = stored'[x] /\ (n >= 1 => log[x][n].to = e.from)
    BY <1>1, <1>2, <1>4 DEF C!Replays, e
  <2>5. \A k \in 1 .. n + 1 : log'[x][k].from # log'[x][k].to
    BY <2>2, <2>4 DEF C!Replays
  <2>6. \A k \in 2 .. n + 1 : log'[x][k].from = log'[x][k - 1].to
    <3>1. ASSUME NEW k \in 2 .. n PROVE log'[x][k].from = log'[x][k - 1].to
      BY <2>2 DEF C!Replays
    <3>2. n >= 1 => log'[x][n + 1].from = log'[x][n].to
      BY <2>2, <2>4
    <3> QED BY <2>2, <3>1, <3>2
  <2>7. C!Replays'
    BY <1>1, <2>2, <2>4, <2>5, <2>6 DEF C!Replays
  <2> QED BY <1>1, <2>3, <2>7
<1> QED BY <1>3, <1>4

LEMMA ChangesReplay == Replayable /\ [C!ChangeNext]_(C!changeVars) => Replayable'
<1> SUFFICES ASSUME Replayable, [C!ChangeNext]_(C!changeVars) PROVE Replayable'
  OBVIOUS
<1> USE DEF Replayable, C!ChangeTypeOK
<1>1. ASSUME NEW x \in Source, C!Reset(x) PROVE Replayable'
  BY <1>1, JournalAssumption DEF C!Reset, C!Replays
<1>2. ASSUME NEW x \in Source, NEW v \in Value, C!Baseline(x, v) PROVE Replayable'
  BY <1>2, JournalAssumption DEF C!Baseline, C!Replays
<1>3. CASE UNCHANGED C!changeVars
  BY <1>3, SameReplays DEF C!changeVars
<1> QED BY <1>1, <1>2, <1>3, RecordReplays DEF C!ChangeNext

(* No change is lost, recorded twice or attributed to a wrong start: the   *)
(* events of a source, one after the other, lead to its stored state.      *)
THEOREM EventsLeadToState == Spec => []EventsReplay
<1>1. ImplementsChangeLog => []Replayable
  BY InitReplayable, ChangesReplay, PTL DEF ImplementsChangeLog, C!ChangeSpec
<1>2. Replayable => EventsReplay
  BY DEF Replayable, EventsReplay
<1> QED BY <1>1, <1>2, ObservationsAreAtomic, PTL

-----------------------------------------------------------------------------
(* As long as nothing went wrong, a scan has all it has come past.         *)
Complete(s) ==
  ~ errors[s] =>
    /\ failed[s] = {}
    /\ pc[s] = "apply" => Source \subseteq Pending(s) \cup applied[s]
    /\ pc[s] \in {"symptoms", "cursor", "prune", "finish"} => Source \subseteq applied[s]
    /\ pc[s] \in {"prune", "finish"} => EventLog \in applied[s]

Honest == OkIsComplete /\ \A s \in Scan : Complete(s)

LEMMA InitHonest == Init => Honest
BY DEF Init, Honest, OkIsComplete, Complete

LEMMA StepHonest == TypeOK /\ Orderly /\ Honest /\ [Next]_vars => Honest'
<1> SUFFICES ASSUME TypeOK, Orderly, Honest, [Next]_vars PROVE Honest'
  OBVIOUS
<1> USE DEF Honest, Complete, OkIsComplete, Pending, Goto, snapVars, outcomeVars, resultVars
<1>0. /\ pc \in [Scan -> {"new", "starting", "collect", "apply", "symptoms", "cursor",
                          "prune", "finish", "done"}]
      /\ source \in [Scan -> Source \cup {NoSource}] /\ todo \in [Scan -> SUBSET Source]
      /\ applied \in [Scan -> SUBSET Provider] /\ failed \in [Scan -> SUBSET Provider]
      /\ errors \in [Scan -> BOOLEAN] /\ result \in [Scan -> {"none", "ok", "partial"}]
      /\ reported \in [Scan -> SUBSET Provider] /\ NoSource \notin Source
  BY JournalAssumption DEF TypeOK
<1>1. CASE UNCHANGED <<pc, source, todo, outcomeVars, resultVars>>
  BY <1>1
<1>2. ASSUME NEW s \in Scan, NEW providers, Fail(s, providers), UNCHANGED resultVars,
             \A r \in Scan \ {s} : pc'[r] = pc[r] /\ source'[r] = source[r] /\ todo'[r] = todo[r]
      PROVE  Honest'
  BY <1>0, <1>2 DEF Fail
<1>3. ASSUME NEW s \in Scan, Scans(s) PROVE Honest'
  <2>1. CASE Begin(s) \/ Start(s)
    BY <1>0, <2>1 DEF Begin, Start
  <2>2. CASE StartRefused(s) \/ Ends(s)
    BY <1>0, <2>2 DEF StartRefused, Ends, Leave
  <2>3. CASE Collect(s)
    BY <1>0, <1>2, <2>3 DEF Collect
  <2>4. CASE CollectRaises(s)
    BY <1>0, <1>2, <2>4 DEF CollectRaises
  <2>5. ASSUME NEW x \in Source, ReadPrevious(s, x) PROVE Honest'
    BY <1>0, <2>5 DEF ReadPrevious
  <2>6. ASSUME NEW x \in Source, ApplySnapshot(s, x) PROVE Honest'
    BY <1>0, <2>6 DEF ApplySnapshot, Applying
  <2>7. ASSUME NEW x \in Source, ResetState(s, x) \/ ApplyFails(s, x) PROVE Honest'
    BY <1>0, <1>2, <2>7 DEF ResetState, ApplyFails, Applying
  <2>8. CASE ReadCursor(s)
    BY <1>0, <2>8 DEF ReadCursor
  <2>9. CASE SymptomsCollected(s)
    BY <1>0, <2>9 DEF SymptomsCollected, SaveEvents
  <2>10. CASE SymptomsIncomplete(s)
    BY <1>0, <1>2, <2>10 DEF SymptomsIncomplete, SaveEvents
  <2>11. CASE SymptomsFail(s)
    BY <1>0, <1>2, <2>11 DEF SymptomsFail
  <2>12. CASE MoveCursor(s)
    BY <1>0, <2>12 DEF MoveCursor
  <2>13. CASE Prune(s)
    BY <1>0, <2>13 DEF Prune
  <2>14. CASE PruneFails(s)
    BY <1>0, <1>2, <2>14 DEF PruneFails
  <2>15. CASE Finish(s)
    <3>1. result'[s] = "ok" => reported'[s] = Provider
      BY <1>0, <2>15 DEF Finish, Provider
    <3> QED BY <1>0, <2>15, <3>1 DEF Finish, Leave
  <2> QED
    BY <1>3, <2>1, <2>2, <2>3, <2>4, <2>5, <2>6, <2>7, <2>8, <2>9, <2>10, <2>11, <2>12,
       <2>13, <2>14, <2>15 DEF Scans
<1>4. CASE DeclareStale \/ MachineChanges \/ Tick \/ UNCHANGED vars
  BY <1>4, <1>1 DEF DeclareStale, MachineChanges, Tick, vars
<1> QED BY <1>3, <1>4 DEF Next

(* A scan that ends "ok" has every source and the symptoms in the journal, *)
(* for whatever combination of providers, rollbacks and lost leases.       *)
THEOREM OkMeansComplete == Spec => []OkIsComplete
<1>1. Honest => OkIsComplete
  BY DEF Honest
<1> QED BY <1>1, InitHonest, StepHonest, SpecTypes, PTL DEF Spec

-----------------------------------------------------------------------------
(* Why a report is true when it is made: while a scan holds the lease      *)
(* nobody else stores a source or moves the cursor, and it applies each    *)
(* source only once.                                                       *)
Vouched ==
  \A s \in Scan :
    /\ pc[s] \in {"new", "starting", "collect"} => applied[s] = {}
    /\ applied[s] \cap Pending(s) = {}
    /\ holder = s =>
         /\ \A x \in Source \cap applied[s] : stored[x] = snap[s][x]
         /\ EventLog \in applied[s] => cursor = started[s]

LEMMA InitVouched == Init => Vouched
BY DEF Init, Vouched, Pending

LEMMA StepVouched == TypeOK /\ Orderly /\ Vouched /\ [Next]_vars => Vouched'
<1> SUFFICES ASSUME TypeOK, Orderly, Vouched, [Next]_vars PROVE Vouched'
  OBVIOUS
<1> USE DEF Vouched, Pending, Goto, snapVars, outcomeVars, changeVars, symptomVars
<1>0. /\ pc \in [Scan -> {"new", "starting", "collect", "apply", "symptoms", "cursor",
                          "prune", "finish", "done"}]
      /\ source \in [Scan -> Source \cup {NoSource}] /\ todo \in [Scan -> SUBSET Source]
      /\ applied \in [Scan -> SUBSET Provider] /\ started \in [Scan -> Time]
      /\ snap \in [Scan -> [Source -> Value \cup {NoValue}]]
      /\ stored \in [Source -> Stored]
      /\ NoSource \notin Source /\ EventLog \notin Source /\ NoScan \notin Scan
  BY JournalAssumption, LeaseAssumption DEF TypeOK
<1>1. ASSUME UNCHANGED <<pc, source, todo, snap, applied, started, stored, cursor>>,
             holder' = holder \/ holder' = NoScan
      PROVE  Vouched'
  BY <1>0, <1>1
<1>2. ASSUME NEW s \in Scan, Leave(s), UNCHANGED <<stored, cursor>>,
             holder' = holder \/ holder' = NoScan, pc'[s] = "done",
             \A r \in Scan \ {s} : pc'[r] = pc[r]
      PROVE  Vouched'
  BY <1>0, <1>2 DEF Leave
<1>3. ASSUME NEW s \in Scan, Scans(s) PROVE Vouched'
  <2>1. CASE Begin(s)
    BY <1>0, <2>1 DEF Begin, leaseVars
  <2>2. CASE Start(s)
    BY <1>0, <2>2 DEF Start, Acquire
  <2>3. CASE StartRefused(s) \/ Finish(s) \/ Ends(s)
    BY <1>0, <1>2, <2>3 DEF StartRefused, Finish, Ends, Release, Abandon, leaseVars
  <2>4. CASE Collect(s) \/ CollectRaises(s)
    BY <1>0, <2>4 DEF Collect, CollectRaises, Fail, leaseVars
  <2>5. ASSUME NEW x \in Source, ReadPrevious(s, x) PROVE Vouched'
    BY <1>0, <2>5 DEF ReadPrevious, Orderly, leaseVars
  <2>6. ASSUME NEW x \in Source, ApplySnapshot(s, x) PROVE Vouched'
    <3>1. x \notin todo[s] /\ holder = s /\ source[s] = x
      BY <2>6 DEF ApplySnapshot, Applying, Commit, Orderly
    <3> QED BY <1>0, <2>6, <3>1 DEF ApplySnapshot, Applying, Commit
  <2>7. ASSUME NEW x \in Source, ResetState(s, x) PROVE Vouched'
    <3>1. x \notin applied[s] /\ holder = s
      BY <1>0, <2>7 DEF ResetState, Applying, Commit
    <3> QED BY <1>0, <2>7, <3>1 DEF ResetState, Applying, Commit, Fail
  <2>8. ASSUME NEW x \in Source, ApplyFails(s, x) PROVE Vouched'
    BY <1>0, <2>8 DEF ApplyFails, Applying, Fail, leaseVars
  <2>9. CASE ReadCursor(s) \/ SymptomsFail(s) \/ PruneFails(s)
    BY <1>0, <2>9 DEF ReadCursor, SymptomsFail, PruneFails, Fail, leaseVars
  <2>10. CASE SymptomsCollected(s) \/ SymptomsIncomplete(s)
    BY <1>0, <2>10 DEF SymptomsCollected, SymptomsIncomplete, SaveEvents, Commit, Fail, leaseVars
  <2>11. CASE MoveCursor(s)
    BY <1>0, <2>11 DEF MoveCursor, Commit
  <2>12. CASE Prune(s)
    BY <1>0, <2>12 DEF Prune, Commit, leaseVars
  <2> QED
    BY <1>3, <2>1, <2>2, <2>3, <2>4, <2>5, <2>6, <2>7, <2>8, <2>9, <2>10, <2>11, <2>12 DEF Scans
<1>4. CASE DeclareStale \/ MachineChanges \/ Tick \/ UNCHANGED vars
  BY <1>4, <1>1 DEF DeclareStale, Revoke, MachineChanges, Tick, vars, leaseVars
<1> QED BY <1>3, <1>4 DEF Next

(* Only finish_scan reports, and then on what the journal holds.           *)
LEMMA StepReports ==
  ASSUME TypeOK, Vouched, [Next]_vars, NEW s \in Scan, result'[s] # result[s]
  PROVE  /\ \A x \in Source \cap reported'[s] : stored[x] = snap[s][x]
         /\ EventLog \in reported'[s] => cursor = started[s]
<1>1. Finish(s)
  <2>1. ASSUME NEW r \in Scan, Scans(r), result' # result PROVE Finish(r)
    BY <2>1 DEF Scans, resultVars, Begin, Start, StartRefused, Collect, CollectRaises,
       ReadPrevious, ApplySnapshot, ResetState, ApplyFails, Applying, ReadCursor, SymptomsCollected,
       SymptomsIncomplete, SaveEvents, SymptomsFail, MoveCursor, Prune, PruneFails, Ends
  <2>2. CASE DeclareStale \/ MachineChanges \/ Tick \/ UNCHANGED vars
    BY <2>2 DEF DeclareStale, MachineChanges, Tick, vars, resultVars
  <2>3. ASSUME NEW r \in Scan, Finish(r) PROVE r = s
    BY <2>3 DEF Finish, TypeOK
  <2> QED BY <2>1, <2>2, <2>3 DEF Next
<1>2. holder = s /\ reported'[s] = applied[s] \ failed[s]
  BY <1>1 DEF Finish, Release, TypeOK
<1> QED BY <1>2 DEF Vouched

(* What collected_sources says of a finished scan is so: its snapshots are *)
(* the stored state and its symptoms reach up to its start, although other *)
(* scans came and went while it ran.                                       *)
THEOREM ReportsHold == Spec => ReportsAreTrue
<1>1. TypeOK /\ Vouched /\ [Next]_vars =>
        [\A s \in Scan : result'[s] # result[s] =>
           /\ \A x \in Source \cap reported'[s] : stored[x] = snap[s][x]
           /\ EventLog \in reported'[s] => cursor = started[s]]_vars
  BY StepReports
<1> QED BY <1>1, InitVouched, StepVouched, SpecTypes, PTL DEF Spec, ReportsAreTrue

-----------------------------------------------------------------------------
(* Symptom rows are added and redacted, and only by the holder.            *)
LEMMA RowsChange ==
  ASSUME TypeOK, [Next]_vars, NEW t \in Time, saved'[t] # saved[t]
  PROVE  /\ (saved[t] = "absent" /\ saved'[t] = "raw") \/ saved'[t] = "pruned"
         /\ \E s \in Scan : /\ holder = s /\ holder' = s
                           /\ \/ pc[s] = "symptoms" /\ pc'[s] \in {"cursor", "prune"}
                              \/ Prune(s)
<1> USE DEF Goto, symptomVars
<1>1. PICK s \in Scan : Scans(s)
  <2>1. CASE DeclareStale \/ MachineChanges \/ Tick \/ UNCHANGED vars
    BY <2>1 DEF DeclareStale, MachineChanges, Tick, vars
  <2> QED BY <2>1 DEF Next
<1>2. PICK rows : \/ SaveEvents(s, rows) /\ pc[s] = "symptoms" /\ pc'[s] \in {"cursor", "prune"}
                  \/ Prune(s)
  BY <1>1 DEF Scans, Begin, Start, StartRefused, Collect, CollectRaises, ReadPrevious,
     ApplySnapshot, ResetState, ApplyFails, Applying, ReadCursor, SymptomsCollected,
     SymptomsIncomplete, SymptomsFail, MoveCursor, PruneFails, Finish, Ends, TypeOK
<1>3. CASE SaveEvents(s, rows) /\ pc[s] = "symptoms" /\ pc'[s] \in {"cursor", "prune"}
  <2>1. t \in rows /\ saved[t] = "absent" /\ saved'[t] = "raw"
    BY <1>3 DEF SaveEvents, SaveRows
  <2> QED BY <1>3, <2>1 DEF SaveEvents, Commit
<1>4. CASE Prune(s)
  <2>1. t \in Expired(s) /\ saved'[t] = "pruned"
    BY <1>4 DEF Prune
  <2> QED BY <1>4, <2>1 DEF Prune, Commit
<1> QED BY <1>2, <1>3, <1>4

(* The overlap of the next query brings a dropped message back to nobody.  *)
THEOREM DroppedStaysDropped == Spec => PrunedStaysPruned
<1>1. TypeOK /\ [Next]_vars => [\A t \in Time : saved[t] = "pruned" => saved'[t] = "pruned"]_vars
  BY RowsChange
<1> QED BY <1>1, SpecTypes, PTL DEF Spec, PrunedStaysPruned

(* Retention is over when a scan finishes, and until then the holder is    *)
(* the only one to add rows.                                               *)
Retentive == RetentionHolds /\ \A s \in retained : pc[s] = "finish"

LEMMA StepRetentive == TypeOK /\ Retentive /\ [Next]_vars => Retentive'
<1> SUFFICES ASSUME TypeOK, Retentive, [Next]_vars PROVE Retentive'
  OBVIOUS
<1> USE DEF Goto, outcomeVars
<1>0. /\ pc \in [Scan -> {"new", "starting", "collect", "apply", "symptoms", "cursor",
                          "prune", "finish", "done"}]
      /\ retained \subseteq Scan /\ saved \in [Time -> {"absent", "raw", "pruned"}]
      /\ started \in [Scan -> Time] /\ NoScan \notin Scan
  BY LeaseAssumption DEF TypeOK
<1>1. ASSUME NEW s \in retained', s \notin retained PROVE s \in Scan /\ Prune(s)
  BY <1>1, <1>0 DEF Next, Scans, DeclareStale, MachineChanges, Tick, vars, Begin, Start,
     StartRefused, Leave, Collect, CollectRaises, Fail, ReadPrevious, ApplySnapshot, ResetState,
     ApplyFails, Applying, ReadCursor, SymptomsCollected, SymptomsIncomplete, SymptomsFail,
     MoveCursor, Prune, PruneFails, Finish, Ends
<1>2. ASSUME NEW s \in retained', s \in retained
      PROVE  pc'[s] = "finish" /\ started'[s] = started[s] /\ (holder' = s => holder = s)
  <2>1. pc[s] = "finish" /\ s \in Scan
    BY <1>0, <1>2 DEF Retentive
  <2>2. ASSUME NEW r \in Scan, Scans(r)
        PROVE  /\ pc'[s] = "finish" /\ started'[s] = started[s]
               /\ holder' = s => holder = s
    <3>1. CASE r = s
      BY <1>2, <2>1, <2>2, <3>1, <1>0 DEF Scans, Begin, Start, StartRefused, Collect, CollectRaises,
         ReadPrevious, ApplySnapshot, ResetState, ApplyFails, Applying, ReadCursor,
         SymptomsCollected, SymptomsIncomplete, SymptomsFail, MoveCursor, Prune, PruneFails,
         Finish, Ends, Leave
    <3>2. CASE r # s
      <4>1. pc'[s] = pc[s] /\ started'[s] = started[s]
        BY <2>1, <2>2, <3>2, <1>0 DEF Scans, Begin, Start, StartRefused, Collect, CollectRaises,
           ReadPrevious, ApplySnapshot, ResetState, ApplyFails, Applying, ReadCursor,
           SymptomsCollected, SymptomsIncomplete, SaveEvents, SymptomsFail, MoveCursor, Prune,
           PruneFails, Finish, Ends, Leave
      <4>2. holder' = holder \/ holder' = r \/ holder' = NoScan
        BY <2>2 DEF Scans, Begin, Start, StartRefused, Collect, CollectRaises, ReadPrevious,
           ApplySnapshot, ResetState, ApplyFails, Applying, ReadCursor, SymptomsCollected,
           SymptomsIncomplete, SaveEvents, SymptomsFail, MoveCursor, Prune, PruneFails, Finish,
           Ends, Acquire, Commit, Release, Abandon, leaseVars
      <4> QED BY <2>1, <3>2, <4>1, <4>2, <1>0
    <3> QED BY <3>1, <3>2
  <2>3. CASE DeclareStale \/ MachineChanges \/ Tick \/ UNCHANGED vars
    BY <2>1, <2>3, <1>0 DEF DeclareStale, Revoke, MachineChanges, Tick, vars, leaseVars
  <2> QED BY <2>2, <2>3 DEF Next
<1>3. ASSUME NEW s \in retained' PROVE pc'[s] = "finish"
  <2>1. CASE s \in Scan /\ Prune(s)
    BY <2>1, <1>0 DEF Prune, TypeOK, Retentive
  <2> QED BY <1>1, <1>2, <2>1
<1>4. ASSUME NEW s \in Scan, s \in retained', holder' = s PROVE Expired(s)' = {}
  <2> SUFFICES ASSUME NEW t \in Time, saved'[t] = "raw", t < started'[s] - Retain PROVE FALSE
    BY DEF Expired
  <2>1. CASE s \in retained
    <3>1. saved[t] # "raw"
      BY <1>2, <1>4, <2>1 DEF Retentive, RetentionHolds, Expired
    <3>2. PICK r \in Scan : /\ holder' = r
                            /\ \/ pc[r] = "symptoms" \/ Prune(r)
      BY <3>1, RowsChange
    <3>3. pc[s] # "finish"
      BY <1>4, <3>2 DEF Prune
    <3> QED BY <2>1, <3>3 DEF Retentive
  <2>2. CASE s \notin retained
    <3>1. Prune(s)
      BY <1>1, <1>4, <2>2
    <3>2. saved'[t] = saved[t] /\ t \notin Expired(s) /\ started' = started
      BY <3>1 DEF Prune
    <3> QED BY <3>2 DEF Expired
  <2> QED BY <2>1, <2>2
<1> QED BY <1>3, <1>4 DEF Retentive, RetentionHolds

(* Whatever else failed in a scan, once its retention step is done there   *)
(* is no raw message older than the retention while it holds the lease.    *)
THEOREM RetentionIsKept == Spec => []RetentionHolds
<1>1. Init => Retentive
  BY DEF Init, Retentive, RetentionHolds
<1>2. Retentive => RetentionHolds
  BY DEF Retentive
<1> QED BY <1>1, <1>2, StepRetentive, SpecTypes, PTL DEF Spec

-----------------------------------------------------------------------------
(* Why no symptom is skipped: what a scan is about to move the cursor over *)
(* is in the journal, and its window began where the cursor still is.      *)
Caught(s) == \A t \in oslog : since[s] - Overlap <= t /\ t <= started[s] => saved[t] # "absent"

Begins(s) == since[s] = IF cursor = NoCursor THEN started[s] - FirstWindow ELSE cursor

Seamless ==
  /\ NoSymptomSkipped
  /\ \A t \in oslog : t <= now
  /\ cursor <= now
  /\ \A s \in Scan :
       /\ started[s] <= now
       /\ pc[s] = "cursor" => Caught(s)
       /\ holder = s /\ pc[s] \in {"symptoms", "cursor"} => Begins(s)

(* A query that may return a row for every unit of time is not cut off.    *)
LEMMA NothingCutOff ==
  ASSUME TypeOK, MaxClock < QueryLimit, NEW s \in Scan,
         NEW t \in oslog, t >= since[s] - Overlap
  PROVE  t \in Queried(s)
<1> DEFINE later == {u \in {v \in oslog : v >= since[s] - Overlap} : u > t}
<1>1. MaxClock \in Nat /\ QueryLimit \in Nat
  BY JournalAssumption
<1>2. oslog \subseteq 0 .. MaxClock
  BY DEF TypeOK, Time
<1>3. later \subseteq 1 .. MaxClock
  <2>1. ASSUME NEW u \in oslog, u > t PROVE u \in 1 .. MaxClock
    <3>1. u \in 0 .. MaxClock /\ t \in 0 .. MaxClock
      BY <1>2
    <3> QED BY <1>1, <2>1, <3>1
  <2> QED BY <2>1
<1>4. IsFiniteSet(1 .. MaxClock) /\ Cardinality(1 .. MaxClock) = MaxClock
  BY <1>1, FS_Interval
<1>5. IsFiniteSet(later) /\ Cardinality(later) <= MaxClock /\ Cardinality(later) \in Nat
  BY <1>3, <1>4, FS_Subset, FS_CardinalityType
<1>6. Cardinality(later) < QueryLimit
  BY <1>1, <1>5
<1> QED BY <1>6 DEF Queried

LEMMA InitSeamless == Init => Seamless
<1> SUFFICES ASSUME Init PROVE Seamless
  OBVIOUS
<1>1. NoCursor \in Int /\ NoCursor < 0
  BY JournalAssumption
<1>2. cursor <= now
  BY <1>1, JournalAssumption DEF Init
<1> QED BY <1>2, LeaseAssumption DEF Init, Seamless, NoSymptomSkipped, LeaseInit

LEMMA StepSeamless ==
  ASSUME MaxClock < QueryLimit
  PROVE  TypeOK /\ Seamless /\ [Next]_vars => Seamless'
<1> SUFFICES ASSUME TypeOK, Seamless, [Next]_vars PROVE Seamless'
  OBVIOUS
<1> USE DEF Goto, machineVars, symptomVars
<1>0. /\ pc \in [Scan -> {"new", "starting", "collect", "apply", "symptoms", "cursor",
                          "prune", "finish", "done"}]
      /\ started \in [Scan -> Time] /\ since \in [Scan -> Since]
      /\ now \in Int /\ Time \subseteq Int /\ Since \subseteq Int /\ oslog \subseteq Time
      /\ cursor \in Int /\ floor \in Int /\ FirstWindow \in Nat /\ Overlap \in Nat
      /\ NoScan \notin Scan
  BY JournalAssumption, LeaseAssumption DEF TypeOK, Time, Since
<1>1. \A t \in Time : saved[t] # "absent" => saved'[t] # "absent"
  BY RowsChange
<1>2. ASSUME UNCHANGED <<pc, started, since, machineVars, cursor, floor>>,
             holder' = holder \/ holder' = NoScan
      PROVE  Seamless'
  BY <1>0, <1>1, <1>2 DEF Seamless, NoSymptomSkipped, Caught, Begins
<1>3. ASSUME NEW s \in Scan, UNCHANGED <<machineVars, cursor, floor>>,
             holder' \in {holder, s, NoScan},
             \A r \in Scan \ {s} : /\ pc'[r] = pc[r] /\ started'[r] = started[r]
                                  /\ since'[r] = since[r],
             started'[s] <= now,
             pc'[s] = "cursor" => Caught(s)',
             holder' = s /\ pc'[s] \in {"symptoms", "cursor"} => Begins(s)'
      PROVE  Seamless'
  <2>1. ASSUME NEW r \in Scan \ {s}
        PROVE  /\ pc'[r] = "cursor" => Caught(r)'
               /\ holder' = r /\ pc'[r] \in {"symptoms", "cursor"} => Begins(r)'
    BY <1>0, <1>1, <1>3 DEF Seamless, Caught, Begins
  <2>2. NoSymptomSkipped'
    BY <1>0, <1>1, <1>3 DEF Seamless, NoSymptomSkipped
  <2> QED BY <1>3, <2>1, <2>2 DEF Seamless
<1>4. ASSUME NEW s \in Scan, Scans(s) PROVE Seamless'
  <2>1. CASE Begin(s)
    BY <1>0, <1>3, <2>1 DEF Begin, leaseVars
  <2>2. CASE Start(s)
    BY <1>0, <1>3, <2>2 DEF Start, Acquire, Seamless
  <2>3. CASE StartRefused(s) \/ Finish(s) \/ Ends(s)
    <3>1. 0 <= now
      BY JournalAssumption DEF TypeOK, Time
    <3>2. holder' \in {holder, s, NoScan} /\ pc'[s] = "done" /\ started'[s] = 0
      BY <1>0, <2>3 DEF StartRefused, Finish, Ends, Leave, Release, Abandon, leaseVars
    <3>3. \A r \in Scan \ {s} : pc'[r] = pc[r] /\ started'[r] = started[r] /\ since'[r] = since[r]
      BY <1>0, <2>3 DEF StartRefused, Finish, Ends, Leave
    <3> QED BY <1>3, <2>3, <3>1, <3>2, <3>3 DEF StartRefused, Finish, Ends
  <2>4. CASE Collect(s) \/ CollectRaises(s)
    BY <1>0, <1>3, <2>4 DEF Collect, CollectRaises, leaseVars, Seamless
  <2>5. ASSUME NEW x \in Source,
               ReadPrevious(s, x) \/ ApplySnapshot(s, x) \/ ResetState(s, x) \/ ApplyFails(s, x)
        PROVE  Seamless'
    BY <1>2, <2>5 DEF ReadPrevious, ApplySnapshot, ResetState, ApplyFails, Applying, Commit, leaseVars
  <2>6. CASE ReadCursor(s)
    BY <1>0, <1>3, <2>6 DEF ReadCursor, leaseVars, Seamless, Begins
  <2>7. CASE SymptomsCollected(s)
    <3>1. ASSUME NEW t \in oslog, since[s] - Overlap <= t PROVE saved'[t] # "absent"
      <4>1. t \in Queried(s)
        BY <1>0, <3>1, NothingCutOff
      <4> QED BY <1>0, <2>7, <4>1 DEF SymptomsCollected, SaveEvents, SaveRows
    <3>2. Caught(s)'
      BY <2>7, <3>1 DEF SymptomsCollected, SaveEvents, Caught
    <3>3. holder' = holder /\ pc' = [pc EXCEPT ![s] = "cursor"]
      BY <2>7 DEF SymptomsCollected, SaveEvents, Commit, leaseVars
    <3> QED BY <1>0, <1>3, <2>7, <3>2, <3>3
      DEF SymptomsCollected, SaveEvents, Seamless, Begins
  <2>8. CASE SymptomsIncomplete(s) \/ SymptomsFail(s) \/ Prune(s) \/ PruneFails(s)
    <3>1. holder' = holder /\ pc'[s] \in {"prune", "finish"}
      BY <1>0, <2>8 DEF SymptomsIncomplete, SymptomsFail, Prune, PruneFails, SaveEvents, Commit, leaseVars
    <3> QED BY <1>0, <1>3, <2>8, <3>1
      DEF SymptomsIncomplete, SymptomsFail, Prune, PruneFails, SaveEvents, Seamless
  <2>9. CASE MoveCursor(s)
    <3>1. holder = s /\ holder' = s /\ cursor' = started[s] /\ saved' = saved /\ oslog' = oslog
          /\ floor' = (IF cursor = NoCursor THEN since[s] ELSE floor) /\ pc[s] = "cursor"
          /\ pc' = [pc EXCEPT ![s] = "prune"] /\ UNCHANGED <<now, started, since>>
      BY <2>9 DEF MoveCursor, Commit
    <3>2. Begins(s) /\ Caught(s)
      BY <3>1 DEF Seamless
    <3>3. ASSUME NEW t \in oslog, floor' <= t, t <= started[s] PROVE saved[t] # "absent"
      <4>1. t >= since[s] => saved[t] # "absent"
        <5>1. t \in Int /\ since[s] \in Int
          BY <1>0
        <5>2. t >= since[s] => since[s] - Overlap <= t
          BY <1>0, <5>1
        <5> QED BY <3>2, <3>3, <5>2 DEF Caught
      <4>2. cursor # NoCursor /\ t <= cursor => saved[t] # "absent"
        BY <3>1, <3>3 DEF Seamless, NoSymptomSkipped
      <4> QED BY <1>0, <3>1, <3>2, <3>3, <4>1, <4>2 DEF Begins
    <3>4. NoSymptomSkipped'
      BY <3>1, <3>3 DEF NoSymptomSkipped
    <3>5. cursor' <= now'
      BY <3>1 DEF Seamless
    <3> QED BY <1>0, <3>1, <3>4, <3>5 DEF Seamless, Caught, Begins
  <2> QED
    BY <1>4, <2>1, <2>2, <2>3, <2>4, <2>5, <2>6, <2>7, <2>8, <2>9 DEF Scans
<1>5. CASE DeclareStale \/ MachineChanges \/ UNCHANGED vars
  BY <1>5, <1>0, <1>1 DEF DeclareStale, Revoke, MachineChanges, vars, leaseVars,
     Seamless, NoSymptomSkipped, Caught, Begins
<1>6. CASE Tick
  <2>1. /\ now' = now + 1 /\ oslog' \subseteq oslog \cup {now + 1}
        /\ UNCHANGED <<pc, started, since, saved, cursor, floor, holder>>
    BY <1>6 DEF Tick, leaseVars
  <2>2. \A s \in Scan : started[s] < now + 1 /\ started[s] \in Int
    <3> SUFFICES ASSUME NEW s \in Scan PROVE started[s] < now + 1 /\ started[s] \in Int
      OBVIOUS
    <3>1. started[s] \in Int /\ started[s] <= now
      BY <1>0 DEF Seamless
    <3> QED BY <1>0, <3>1
  <2>3. cursor < now + 1
    BY <1>0 DEF Seamless
  <2> QED BY <1>0, <2>1, <2>2, <2>3 DEF Seamless, NoSymptomSkipped, Caught, Begins
<1> QED BY <1>4, <1>5, <1>6 DEF Next

(* As long as no query is cut off, the cursor leaves no gap, whichever     *)
(* scans fail, die or lose the lease: the limit of a query is the only way *)
(* to lose a symptom that the Event Log still had (scan, collect_symptoms).*)
THEOREM NoGapBelowLimit ==
  ASSUME MaxClock < QueryLimit
  PROVE  Spec => []NoSymptomSkipped
<1>1. Seamless => NoSymptomSkipped
  BY DEF Seamless
<1>2. TypeOK /\ Seamless /\ [Next]_vars => Seamless'
  BY StepSeamless
<1> QED BY <1>1, <1>2, InitSeamless, SpecTypes, PTL DEF Spec

=============================================================================
