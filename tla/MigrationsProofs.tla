-------------------------- MODULE MigrationsProofs --------------------------
(***************************************************************************)
(* Proofs about Migrations, for any number of openers, migrations, deaths  *)
(* and marks of the base schema.  An opener's belief about the version may *)
(* be out of date, but never too high: what it inferred is in the file,    *)
(* and from the first migration on what it believes is recorded.  Rows and *)
(* marks are never removed, so another opener cannot make it wrong.        *)
(***************************************************************************)
EXTENDS Migrations, TLAPS

(* What an opener believes while it infers is in the file.                 *)
InferredIsThere ==
  \A p \in Opener : pc[p] \in {"infer", "record"} => 1 .. level[p] \subseteq marks

(* Afterwards it is recorded, and all of it once the loop is over.         *)
LevelIsRecorded ==
  \A p \in Opener :
    /\ pc[p] \in {"migrate", "number", "backfill", "repair", "open"} => 1 .. level[p] \subseteq applied
    /\ pc[p] \in {"number", "backfill", "repair", "open"} => level[p] = Latest

(* An open journal has the key of its backfill.                            *)
OpenIsBackfilled == \A p \in Opener : pc[p] \in {"repair", "open"} => Backfill \in marks

(* A migration that ran is recorded, and ran once.                         *)
RanIsRecorded == \A v \in Migration : ran[v] <= 1 /\ (ran[v] = 1 => v \in applied)

IInv ==
  /\ TypeOK
  /\ VersionIsBacked
  /\ RecordIsTrue
  /\ InferredIsThere
  /\ LevelIsRecorded
  /\ OpenIsBackfilled
  /\ RanIsRecorded

(* The assumption on the constants, number by number.                      *)
LEMMA Numbers ==
  /\ Latest \in Nat /\ MaxDeaths \in Nat
  /\ Backfill \in Migration /\ 1 \in Migration
  /\ 1 \in Base /\ Base \subseteq Migration
  BY MigrationsAssumption DEF Migration

(* Every journal an open may find satisfies the invariant.                 *)
LEMMA InitIInv == Init => IInv
  <1> SUFFICES ASSUME Init
               PROVE  IInv
    OBVIOUS
  <1> USE Numbers DEF Init, Migration
  <1>1. TypeOK
    <2>1. version \in 0 .. Latest + 1 /\ applied \subseteq Migration /\ marks \subseteq Migration
      <3>1. CASE NewJournal
        BY <3>1 DEF NewJournal
      <3>2. CASE UnnumberedJournal
        BY <3>2 DEF UnnumberedJournal
      <3>3. CASE NumberedJournal
        <4>1. PICK k \in Migration, base \in {{}, Base}, lost \in {{}, {Backfill}} :
                version = k /\ applied = 1 .. k /\ marks = (1 .. k \cup base) \ lost
          BY <3>3 DEF NumberedJournal
        <4>2. k \in 1 .. Latest /\ 1 .. k \subseteq Migration
          OBVIOUS
        <4>3. base \subseteq Migration
          OBVIOUS
        <4>4. version \in 0 .. Latest + 1
          BY <4>1, <4>2
        <4>5. applied \subseteq Migration
          BY <4>1, <4>2
        <4>6. marks \subseteq Migration
          BY <4>1, <4>2, <4>3
        <4> QED BY <4>4, <4>5, <4>6
      <3>4. CASE NewerJournal
        BY <3>4 DEF NewerJournal
      <3> QED BY <3>1, <3>2, <3>3, <3>4
    <2> QED BY <2>1 DEF TypeOK
  <1>2. VersionIsBacked
    <2>1. (version = 0 /\ applied = {})
          \/ (\E k \in Migration : version = k /\ applied = 1 .. k)
          \/ (version = Latest + 1 /\ applied = Migration)
      BY DEF NewJournal, UnnumberedJournal, NumberedJournal, NewerJournal
    <2> QED BY <2>1 DEF VersionIsBacked
  <1>3. RecordIsTrue
    BY DEF RecordIsTrue, NewJournal, UnnumberedJournal, NumberedJournal, NewerJournal
  <1>4. InferredIsThere /\ LevelIsRecorded /\ OpenIsBackfilled /\ RanIsRecorded
    BY DEF InferredIsThere, LevelIsRecorded, OpenIsBackfilled, RanIsRecorded
  <1> QED BY <1>1, <1>2, <1>3, <1>4 DEF IInv

(* Running the migration after those an opener knows to be recorded keeps  *)
(* the record without holes and true, and runs it for the first time.      *)
LEMMA RunKeeps ==
  ASSUME IInv, NEW v \in Migration, 1 .. (v - 1) \subseteq applied,
         v \notin applied, Run(v)
  PROVE  /\ applied' = applied \cup {v} /\ marks \subseteq marks'
         /\ version' \in 0 .. Latest + 1 /\ marks' \subseteq Migration
         /\ VersionIsBacked' /\ RecordIsTrue' /\ RanIsRecorded'
         /\ ran' \in [Migration -> 0 .. 2]
  <1> USE Numbers DEF IInv, Run, Leaves, BaseSchema, Migration
  <1>1. /\ applied' = applied \cup {v} /\ marks \subseteq marks' /\ v \in marks'
        /\ version' = v /\ marks' \subseteq Migration
    BY DEF TypeOK
  <1>2. VersionIsBacked'
    <2>1. \A w \in applied : 1 .. w \subseteq applied
      BY DEF VersionIsBacked
    <2>2. 1 .. v = 1 .. (v - 1) \cup {v}
      OBVIOUS
    <2> QED BY <1>1, <2>1, <2>2 DEF VersionIsBacked
  <1>3. RecordIsTrue'
    BY <1>1 DEF RecordIsTrue
  <1>4. /\ ran[v] = 0
        /\ ran' = [ran EXCEPT ![v] = 1]
    <2>1. ran[v] \in 0 .. 2 /\ ran[v] # 1 /\ ran[v] <= 1
      BY DEF RanIsRecorded, TypeOK
    <2>2. ran[v] = 0
      BY <2>1
    <2> QED BY <2>2
  <1>5. RanIsRecorded' /\ ran' \in [Migration -> 0 .. 2]
    BY <1>1, <1>4 DEF RanIsRecorded, TypeOK
  <1> QED BY <1>1, <1>2, <1>3, <1>5

(* A step that leaves the file alone keeps what is said of the file.       *)
LEMMA FileUntouched ==
  ASSUME IInv, UNCHANGED <<fileVars, ran>>
  PROVE  VersionIsBacked' /\ RecordIsTrue' /\ RanIsRecorded'
  BY DEF IInv, fileVars, VersionIsBacked, RecordIsTrue, RanIsRecorded, Migration

(* Every step keeps the invariant.                                         *)
LEMMA StepIInv ==
  ASSUME IInv, [Next]_vars
  PROVE  IInv'
  <1> USE Numbers DEF Migration
  <1>1. ASSUME NEW p \in Opener, Open(p)
        PROVE  IInv'
    <2>1. VersionIsBacked' /\ RecordIsTrue' /\ RanIsRecorded'
      BY <1>1, FileUntouched DEF Open
    <2> QED
      BY <1>1, <2>1 DEF Open, Goto, IInv, TypeOK, fileVars, InferredIsThere,
                   LevelIsRecorded, OpenIsBackfilled
  <1>2. ASSUME NEW p \in Opener, ReadVersion(p)
        PROVE  IInv'
    <2>1. VersionIsBacked' /\ RecordIsTrue' /\ RanIsRecorded'
      BY <1>2, FileUntouched DEF ReadVersion
    <2>2. TypeOK' /\ InferredIsThere' /\ OpenIsBackfilled'
      BY <1>2 DEF ReadVersion, Goto, IInv, TypeOK, fileVars, InferredIsThere, OpenIsBackfilled
    <2>3. LevelIsRecorded'
      BY <1>2 DEF ReadVersion, Goto, IInv, TypeOK, fileVars, LevelIsRecorded, VersionIsBacked
    <2> QED BY <2>1, <2>2, <2>3 DEF IInv
  <1>3. ASSUME NEW p \in Opener, Refuse(p) \/ Close(p) \/ Die(p)
        PROVE  IInv'
    <2>1. Closed(p) /\ UNCHANGED <<fileVars, ran>> /\ deaths' \in 0 .. MaxDeaths
      BY <1>3 DEF Refuse, Close, Die, IInv, TypeOK
    <2>2. VersionIsBacked' /\ RecordIsTrue' /\ RanIsRecorded'
      BY <2>1, FileUntouched
    <2> QED
      BY <2>1, <2>2 DEF Closed, IInv, TypeOK, fileVars, InferredIsThere,
                        LevelIsRecorded, OpenIsBackfilled
  <1>4. ASSUME NEW p \in Opener, InferLegacyVersion(p)
        PROVE  IInv'
    <2>1. VersionIsBacked' /\ RecordIsTrue' /\ RanIsRecorded'
      BY <1>4, FileUntouched DEF InferLegacyVersion
    <2>2. CASE /\ level[p] < Backfill /\ level[p] + 1 \in marks
               /\ level' = [level EXCEPT ![p] = @ + 1]
               /\ UNCHANGED pc
      <3>1. TypeOK' /\ LevelIsRecorded' /\ OpenIsBackfilled'
        BY <1>4, <2>2 DEF InferLegacyVersion, IInv, TypeOK, fileVars,
                          LevelIsRecorded, OpenIsBackfilled
      <3>2. 1 .. (level[p] + 1) = 1 .. level[p] \cup {level[p] + 1}
        BY DEF IInv, TypeOK
      <3>3. InferredIsThere'
        BY <1>4, <2>2, <3>2 DEF InferLegacyVersion, IInv, TypeOK, fileVars, InferredIsThere
      <3> QED BY <2>1, <3>1, <3>3 DEF IInv
    <2>3. CASE /\ pc' = [pc EXCEPT ![p] = "record"]
               /\ UNCHANGED level
      BY <1>4, <2>1, <2>3 DEF InferLegacyVersion, IInv, TypeOK, fileVars,
                   InferredIsThere, LevelIsRecorded, OpenIsBackfilled
    <2> QED BY <1>4, <2>2, <2>3 DEF InferLegacyVersion
  <1>5. ASSUME NEW p \in Opener, RecordLegacyBaseline(p)
        PROVE  IInv'
    <2> USE <1>5 DEF RecordLegacyBaseline, Goto, IInv
    <2>1. applied' = applied \cup 1 .. level[p]
      BY DEF TypeOK
    <2>2. version' \in {version, level[p]}
      OBVIOUS
    <2>3. level[p] \in 0 .. Latest /\ 1 .. level[p] \subseteq marks
      BY DEF TypeOK, InferredIsThere
    <2>4. TypeOK'
      <3>1. version' \in 0 .. Latest + 1
        BY <2>2, <2>3 DEF TypeOK
      <3>2. applied' \subseteq Migration
        BY <2>1, <2>3 DEF TypeOK
      <3>3. pc' \in [Opener -> {"closed", "version", "infer", "record", "migrate",
                                "number", "backfill", "repair", "open"}]
        BY DEF TypeOK
      <3> QED BY <3>1, <3>2, <3>3 DEF TypeOK
    <2>5. VersionIsBacked'
      BY <2>1, <2>3 DEF VersionIsBacked, TypeOK
    <2>6. RecordIsTrue'
      BY <2>1, <2>3 DEF RecordIsTrue
    <2>7. InferredIsThere' /\ OpenIsBackfilled'
      BY DEF InferredIsThere, OpenIsBackfilled, TypeOK
    <2>8. LevelIsRecorded' /\ RanIsRecorded'
      BY <2>1 DEF LevelIsRecorded, RanIsRecorded, TypeOK
    <2> QED BY <2>4, <2>5, <2>6, <2>7, <2>8
  <1>6. ASSUME NEW p \in Opener, ApplyMigration(p)
        PROVE  IInv'
    <2> DEFINE v == level[p] + 1
    <2>1. /\ v \in Migration /\ level[p] \in 0 .. Latest
          /\ 1 .. level[p] \subseteq applied /\ v - 1 = level[p]
          /\ 1 .. v = 1 .. level[p] \cup {v}
          /\ pc' = pc /\ pc[p] = "migrate" /\ level' = [level EXCEPT ![p] = v]
          /\ deaths' = deaths
      BY <1>6 DEF ApplyMigration, IInv, TypeOK, LevelIsRecorded
    <2>2. /\ applied' = applied \cup {v} /\ marks \subseteq marks'
          /\ version' \in 0 .. Latest + 1 /\ marks' \subseteq Migration
          /\ VersionIsBacked' /\ RecordIsTrue' /\ RanIsRecorded'
          /\ ran' \in [Migration -> 0 .. 2]
      <3>1. CASE v \in applied
        <4>1. UNCHANGED <<fileVars, ran>>
          BY <1>6, <3>1 DEF ApplyMigration
        <4>2. VersionIsBacked' /\ RecordIsTrue' /\ RanIsRecorded'
          BY <4>1, FileUntouched
        <4> QED BY <3>1, <4>1, <4>2 DEF fileVars, IInv, TypeOK
      <3>2. CASE v \notin applied
        <4>1. Run(v)
          BY <1>6, <3>2 DEF ApplyMigration
        <4> HIDE DEF v
        <4> QED BY <2>1, <3>2, <4>1, RunKeeps
      <3> QED BY <3>1, <3>2
    <2> HIDE DEF v
    <2>3. TypeOK'
      BY <2>1, <2>2 DEF IInv, TypeOK
    <2>4. InferredIsThere' /\ OpenIsBackfilled'
      BY <2>1, <2>2 DEF IInv, TypeOK, InferredIsThere, OpenIsBackfilled
    <2>5. LevelIsRecorded'
      BY <2>1, <2>2 DEF IInv, TypeOK, LevelIsRecorded
    <2> QED BY <2>2, <2>3, <2>4, <2>5 DEF IInv
  <1>7. ASSUME NEW p \in Opener, Migrated(p)
        PROVE  IInv'
    <2>1. VersionIsBacked' /\ RecordIsTrue' /\ RanIsRecorded'
      BY <1>7, FileUntouched DEF Migrated
    <2> QED
      BY <1>7, <2>1 DEF Migrated, Goto, IInv, TypeOK, fileVars, InferredIsThere,
                   LevelIsRecorded, OpenIsBackfilled
  <1>8. ASSUME NEW p \in Opener, NumberJournal(p)
        PROVE  IInv'
    <2> USE <1>8 DEF NumberJournal, Goto, IInv
    <2>1. 1 .. Latest \subseteq applied
      BY DEF LevelIsRecorded
    <2>2. TypeOK' /\ RecordIsTrue' /\ RanIsRecorded'
      BY DEF TypeOK, RecordIsTrue, RanIsRecorded
    <2>3. VersionIsBacked'
      BY <2>1 DEF VersionIsBacked
    <2>4. InferredIsThere' /\ LevelIsRecorded' /\ OpenIsBackfilled'
      BY DEF InferredIsThere, LevelIsRecorded, OpenIsBackfilled, TypeOK
    <2> QED BY <2>2, <2>3, <2>4
  <1>9. ASSUME NEW p \in Opener, BackfillEntities(p)
        PROVE  IInv'
    <2> USE <1>9 DEF BackfillEntities, Goto, IInv
    <2>1. TypeOK'
      <3>1. marks' \subseteq Migration
        BY DEF TypeOK
      <3>2. pc' \in [Opener -> {"closed", "version", "infer", "record", "migrate",
                                "number", "backfill", "repair", "open"}]
        BY DEF TypeOK
      <3> QED BY <3>1, <3>2 DEF TypeOK
    <2>2. RecordIsTrue'
      BY DEF RecordIsTrue
    <2>3. VersionIsBacked' /\ RanIsRecorded'
      BY DEF VersionIsBacked, RanIsRecorded
    <2>4. InferredIsThere' /\ LevelIsRecorded' /\ OpenIsBackfilled'
      BY DEF InferredIsThere, LevelIsRecorded, OpenIsBackfilled, TypeOK
    <2> QED BY <2>1, <2>2, <2>3, <2>4
  <1>10. ASSUME NEW p \in Opener, RepairLinks(p)
         PROVE  IInv'
    <2>1. VersionIsBacked' /\ RecordIsTrue' /\ RanIsRecorded'
      BY <1>10, FileUntouched DEF RepairLinks
    <2> QED
      BY <1>10, <2>1 DEF RepairLinks, Goto, IInv, TypeOK, fileVars, InferredIsThere,
                    LevelIsRecorded, OpenIsBackfilled
  <1>11. CASE UNCHANGED vars
    BY <1>11 DEF vars, fileVars, IInv, TypeOK, VersionIsBacked, RecordIsTrue,
         InferredIsThere, LevelIsRecorded, OpenIsBackfilled, RanIsRecorded
  <1> QED
    BY <1>1, <1>2, <1>3, <1>4, <1>5, <1>6, <1>7, <1>8, <1>9, <1>10, <1>11 DEF Next, Opens, Migrates

(* The invariant holds in every reachable state.                           *)
LEMMA Invariance == Spec => []IInv
  BY InitIInv, StepIInv, PTL DEF Spec

(* TypeOK: no opener runs past the latest migration, and no number but the *)
(* one of a newer build is above it.                                       *)
THEOREM TypesAreKept == Spec => []TypeOK
  <1>1. IInv => TypeOK
    BY DEF IInv
  <1> QED BY <1>1, Invariance, PTL

(* VersionIsBacked: whatever openers race or die, the version of           *)
(* _run_migrations stays within what schema_migrations records.            *)
THEOREM VersionsAreBacked == Spec => []VersionIsBacked
  <1>1. IInv => VersionIsBacked
    BY DEF IInv
  <1> QED BY <1>1, Invariance, PTL

(* RecordIsTrue: an inferred or applied migration has left its mark.       *)
THEOREM RecordsAreTrue == Spec => []RecordIsTrue
  <1>1. IInv => RecordIsTrue
    BY DEF IInv
  <1> QED BY <1>1, Invariance, PTL

(* OpenIsComplete: Database.__init__ returns only journals in which every  *)
(* migration has left its mark.                                            *)
THEOREM OpensAreComplete == Spec => []OpenIsComplete
  <1>1. IInv => OpenIsComplete
    BY MigrationsAssumption
    DEF IInv, TypeOK, Migration, OpenIsComplete, LevelIsRecorded, RecordIsTrue,
        OpenIsBackfilled
  <1> QED BY <1>1, Invariance, PTL

(* RunOnce: _apply_migration never repeats what another opener has done.   *)
THEOREM MigrationsRunOnce == Spec => []RunOnce
  <1>1. IInv => RunOnce
    BY DEF IInv, RanIsRecorded, RunOnce
  <1> QED BY <1>1, Invariance, PTL

=============================================================================
