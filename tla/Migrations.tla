----------------------------- MODULE Migrations -----------------------------
(***************************************************************************)
(* Opening a journal: Database.__init__, _run_migrations and the backfill  *)
(* after it (difftrail/db.py).  A lock serializes the opens of one         *)
(* process; the watcher, the local API and the CLI are different           *)
(* processes, so the model has one opener per process.  An open is not one *)
(* transaction: the version is read first, a journal without a version is  *)
(* looked at table by table, and each migration is a transaction.          *)
(*                                                                         *)
(* A migration is known by its number and by its mark on the file: tables, *)
(* columns or a meta key.  The base schema of today also has columns that  *)
(* later migrations add to old journals.                                   *)
(***************************************************************************)
EXTENDS Integers

CONSTANTS
  Opener,    \* processes that open the journal
  Latest,    \* DATABASE_SCHEMA_VERSION
  Base,      \* migrations whose marks the base schema has (1, 2 and 7)
  Backfill,  \* the last migration an unnumbered journal can be seen to have
  MaxDeaths  \* bound on openers that die or fail half way

ASSUME MigrationsAssumption ==
  /\ {Latest, Backfill, MaxDeaths} \subseteq Nat
  /\ 1 <= Backfill /\ Backfill <= Latest
  /\ 1 \in Base /\ Base \subseteq 1 .. Latest

VARIABLES
  version,   \* meta 'schema_version'; 0 when it is missing
  applied,   \* rows of schema_migrations
  marks,     \* migrations whose mark is in the file
  pc, level, \* where each opener is, and the version it believes in
  ran,       \* history: how often each migration ran (2 for more)
  deaths

fileVars == <<version, applied, marks>>
vars == <<fileVars, pc, level, ran, deaths>>

Migration == 1 .. Latest

TypeOK ==
  /\ version \in 0 .. Latest + 1
  /\ applied \subseteq Migration /\ marks \subseteq Migration
  /\ pc \in [Opener -> {"closed", "version", "infer", "record", "migrate",
                        "number", "backfill", "repair", "open"}]
  /\ level \in [Opener -> 0 .. Latest]
  /\ ran \in [Migration -> 0 .. 2]
  /\ deaths \in 0 .. MaxDeaths

(* No file yet, or one without some of the tables; a journal from before   *)
(* migrations were numbered; one that an open, perhaps an interrupted one, *)
(* numbered up to k, and which may have lost the key of its backfill; one  *)
(* that a newer build has written.                                         *)
NewJournal == version = 0 /\ applied = {} /\ marks = {}

UnnumberedJournal ==
  /\ version = 0 /\ applied = {}
  /\ \E k \in 1 .. Backfill : marks = 1 .. k

NumberedJournal ==
  \E k \in Migration : \E base \in {{}, Base} : \E lost \in {{}, {Backfill}} :
    version = k /\ applied = 1 .. k /\ marks = (1 .. k \cup base) \ lost

NewerJournal == version = Latest + 1 /\ applied = Migration /\ marks = Migration

Init ==
  /\ NewJournal \/ UnnumberedJournal \/ NumberedJournal \/ NewerJournal
  /\ pc = [p \in Opener |-> "closed"] /\ level = [p \in Opener |-> 0]
  /\ ran = [v \in Migration |-> 0] /\ deaths = 0

-----------------------------------------------------------------------------
Goto(p, from, to) ==
  /\ pc[p] = from
  /\ pc' = [pc EXCEPT ![p] = to]

Closed(p) ==
  /\ pc' = [pc EXCEPT ![p] = "closed"]
  /\ level' = [level EXCEPT ![p] = 0]

(* The tables for numbers and keys are created when they are missing.      *)
Open(p) ==
  /\ Goto(p, "closed", "version")
  /\ UNCHANGED <<fileVars, level, ran, deaths>>

ReadVersion(p) ==
  /\ version <= Latest
  /\ Goto(p, "version", IF version = 0 THEN "infer" ELSE "migrate")
  /\ level' = [level EXCEPT ![p] = version]
  /\ UNCHANGED <<fileVars, ran, deaths>>

(* The version is newer than this build, or no number.                     *)
Refuse(p) ==
  /\ pc[p] = "version" /\ version > Latest
  /\ Closed(p)
  /\ UNCHANGED <<fileVars, ran, deaths>>

(* Mutant of InferLegacyVersion: the backfill is taken for granted.        *)
InferTables(p) ==
  /\ pc[p] = "infer"
  /\ level' = [level EXCEPT ![p] = IF 1 \in marks THEN Backfill ELSE 0]
  /\ pc' = [pc EXCEPT ![p] = "record"]
  /\ UNCHANGED <<fileVars, ran, deaths>>

(* _infer_legacy_schema_version looks for tables, then columns, then a     *)
(* key, in a read of its own each.                                         *)
InferLegacyVersion(p) ==
  /\ pc[p] = "infer"
  /\ \/ /\ level[p] < Backfill /\ level[p] + 1 \in marks
        /\ level' = [level EXCEPT ![p] = @ + 1]
        /\ UNCHANGED pc
     \/ /\ level[p] = Backfill \/ level[p] + 1 \notin marks
        /\ pc' = [pc EXCEPT ![p] = "record"]
        /\ UNCHANGED level
  /\ UNCHANGED <<fileVars, ran, deaths>>

(* What was inferred counts as applied.  The version is overwritten, even  *)
(* by an opener that is behind another one.                                *)
RecordLegacyBaseline(p) ==
  /\ Goto(p, "record", "migrate")
  /\ IF level[p] = 0
     THEN UNCHANGED <<version, applied>>
     ELSE /\ applied' = applied \cup 1 .. level[p]
          /\ version' = level[p]
  /\ UNCHANGED <<marks, level, ran, deaths>>

(* The base schema creates the tables that are missing; one that an old    *)
(* journal has keeps its columns.                                          *)
BaseSchema == {{1}, Base}

(* What a migration may leave in the file.                                 *)
Leaves(v) == IF v = 1 THEN BaseSchema ELSE {{v}}

Run(v) ==
  /\ \E new \in Leaves(v) : marks' = marks \cup new
  /\ ran' = [ran EXCEPT ![v] = IF @ = 2 THEN 2 ELSE @ + 1]
  /\ applied' = applied \cup {v}
  /\ version' = v

(* Mutants of ApplyMigration: the row is not looked up again under the     *)
(* lock, and only the newest migration runs.                               *)
ApplyUnchecked(p) ==
  /\ pc[p] = "migrate" /\ level[p] < Latest
  /\ Run(level[p] + 1)
  /\ level' = [level EXCEPT ![p] = @ + 1]
  /\ UNCHANGED <<pc, deaths>>

ApplyNewest(p) ==
  /\ pc[p] = "migrate" /\ level[p] < Latest
  /\ Run(Latest)
  /\ level' = [level EXCEPT ![p] = Latest]
  /\ UNCHANGED <<pc, deaths>>

(* _apply_migration: what another opener applied meanwhile is skipped, and *)
(* the version is left as it is.                                           *)
ApplyMigration(p) ==
  /\ pc[p] = "migrate" /\ level[p] < Latest
  /\ IF level[p] + 1 \in applied THEN UNCHANGED <<fileVars, ran>> ELSE Run(level[p] + 1)
  /\ level' = [level EXCEPT ![p] = @ + 1]
  /\ UNCHANGED <<pc, deaths>>

Migrated(p) ==
  /\ level[p] = Latest
  /\ Goto(p, "migrate", "number")
  /\ UNCHANGED <<fileVars, level, ran, deaths>>

(* Mutant of NumberJournal: the number is left to the migrations.          *)
NumberNothing(p) ==
  /\ Goto(p, "number", "backfill")
  /\ UNCHANGED <<fileVars, level, ran, deaths>>

(* The version is set again when it is not the latest one.                 *)
NumberJournal(p) ==
  /\ Goto(p, "number", "backfill")
  /\ version' = Latest
  /\ UNCHANGED <<applied, marks, level, ran, deaths>>

(* Mutant of BackfillEntities: the numbered migration is trusted.          *)
BackfillNothing(p) ==
  /\ Goto(p, "backfill", "repair")
  /\ UNCHANGED <<fileVars, level, ran, deaths>>

(* _backfill_safe_application_entities, again on every open.               *)
BackfillEntities(p) ==
  /\ Goto(p, "backfill", "repair")
  /\ marks' = marks \cup {Backfill}
  /\ UNCHANGED <<version, applied, level, ran, deaths>>

(* _repair_automation_links; what it repairs is in module LinkRepair.      *)
RepairLinks(p) ==
  /\ Goto(p, "repair", "open")
  /\ UNCHANGED <<fileVars, level, ran, deaths>>

Close(p) ==
  /\ pc[p] = "open"
  /\ Closed(p)
  /\ UNCHANGED <<fileVars, ran, deaths>>

(* The process dies, or a transaction fails and is rolled back.            *)
Die(p) ==
  /\ pc[p] \notin {"closed", "open"}
  /\ deaths < MaxDeaths
  /\ deaths' = deaths + 1
  /\ Closed(p)
  /\ UNCHANGED <<fileVars, ran>>

Migrates(p) ==
  \/ Open(p) \/ ReadVersion(p) \/ Refuse(p)
  \/ InferLegacyVersion(p) \/ RecordLegacyBaseline(p)
  \/ ApplyMigration(p) \/ Migrated(p) \/ NumberJournal(p)
  \/ BackfillEntities(p)

Opens(p) == Migrates(p) \/ RepairLinks(p)

Next == \E p \in Opener : Opens(p) \/ Close(p) \/ Die(p)

Spec == Init /\ [][Next]_vars

(* Every opener that is scheduled goes on; closing and dying owe nothing.  *)
FairSpec == Spec /\ \A p \in Opener : WF_vars(Opens(p))

-----------------------------------------------------------------------------
(* The version never promises more than what is recorded, and the record   *)
(* has no holes, although openers read the version long before they write  *)
(* it and may infer it while another one migrates.                         *)
VersionIsBacked ==
  /\ version \in Migration => 1 .. version \subseteq applied
  /\ \A v \in applied : 1 .. v \subseteq applied

(* What is recorded is in the file, but for the key of the backfill, which *)
(* an older build may have lost.                                           *)
RecordIsTrue == applied \ {Backfill} \subseteq marks

(* An opener gets a journal in which every migration has left its mark,    *)
(* whoever ran it and whatever was interrupted before.                     *)
OpenIsComplete == \A p \in Opener : pc[p] = "open" => marks = Migration

(* Openers that race do not run a migration twice.                         *)
RunOnce == \A v \in Migration : ran[v] <= 1

(* A journal this build can read ends up with the latest number, although  *)
(* a slow opener may set the number back.                                  *)
EndsUpCurrent == version <= Latest ~> [](version = Latest)

=============================================================================
