# Difftrail, specified

Difftrail is a local-first change journal for Windows. A background watcher and a
desktop application scan the machine (applications, services, drivers, devices,
startup entries, ...), store what changed since the last scan, copy crash and error
records from the Windows Event Log, and help the user find the change behind a
problem. Everything is kept in one SQLite file that several processes open at once.

This directory models the parts of Difftrail where order, concurrency and failure
matter, in TLA+. TLC checks the models on small instances; TLAPS proves the most
important theorems for every value of the constants. `PROJECT.json` maps each
definition to the lines it translates.

## Inventory

| Component | State | Operations | Modelled in |
|---|---|---|---|
| Scan lease (`db.py`) | `scans.status`, `started_at`, meta `scan:active` | `start_scan`, `finish_scan`, `recover_stale_scans`, `_assert_scan_lease` | `Lease`, `ScanLease` |
| Scanner and journal (`service.py`, `db.py`) | `state_items`, `source:*:initialized`, `events`, meta `symptoms:cursor`, scan results | `Scanner.scan`, `apply_snapshot`, `save_events`, `set_meta_for_active_scan`, `prune_sensitive_symptom_details` | `ChangeLog`, `Journal` |
| Snapshot diff (`db.py`, `service_identity.py`) | items of one source, rebaseline marker | item-level diff, key migration, per-user services, driver rebaseline | `SnapshotDiff`, `Inventory` |
| Automation (`automation.py`, `db.py`) | meta `automation:event_rowid` and `automation:config`, `automation_actions`, `automation_notifications`, draft `incidents` | `run_automated_scan`, `process_scan_events`, `_create_investigation_draft`, `_queue_event_notification`, `delete_incident`, `update_automation_config` | `Automation` |
| Schema migrations and repair (`db.py`) | `schema_migrations`, meta `schema_version`, repair cursor, links | `_run_migrations`, backfill, `_repair_automation_links` | `Migrations`, `LinkRepair`, `Opening` |
| Investigations and coverage (`investigation.py`, `db.py`) | `incidents` | create, store results, feedback, delete, coverage of a change window | `Investigation` |
| Correlation and assessment | none | scoring, ranking and assessment of candidate changes | `Correlation` |
| Desktop supervisor (`main.rs`) | the backend child, its pipes, the port channel | start, wait until ready, drain, terminate | `Backend` |
| Local API and desktop UI (`ui_api.py`, `App.tsx`, `api.ts`) | requests under way, the copy of the journal on screen | bootstrap, polls, investigate, delete | `Desktop` (in part) |
| Collectors (`collectors/`) | `last_errors` of one scan | `collect_snapshots`, `collect_symptoms` | outcomes in `Journal`, keys in `SnapshotDiff` |
| Watcher and companion, scheduled task, bundles | marker file, Windows task, export file | one-shot scan, tray state, `schtasks`, export | not modelled |
| Privacy, CLI, validation, simulation, demo | none | text redaction, sequential front ends, fixtures | not modelled |

**Interaction.** The scheduled watcher, the threads of the local API and the CLI each
open a connection to the journal. Opening migrates the schema, repairs links and
rebaselines the drivers when an older build has used the file. Nothing but SQLite
transactions and the lease in `scans` orders the processes afterwards.
`run_automated_scan` wraps one `Scanner.scan`; the scan calls the collectors, writes
through the lease and releases it; automation then reads what is new in `events` and
turns crash signals into draft investigations and notifications. The desktop shell
starts the API as a child process, learns its port from its standard output, and ends it
with itself. The dashboard polls the API, keeps a copy of the answer, and sends the
user's investigations, feedback, deletions and settings at any moment.

**What is hard.**

* A scan collects for minutes without a transaction. It can be declared stale and be
  superseded meanwhile, and come back. Processes die between any two transactions.
* `started_at` and several "previous values" are read before the write lock is taken.
* Each provider, the Event Log, each `apply_snapshot`, retention and `finish_scan` may
  fail on its own, and the scan goes on.
* Cursors (`symptoms:cursor`, `automation:event_rowid`, the link repair's) decide what is
  never looked at again. The first two are written without a comparison by passes that
  may overlap.
* The effects of an event (draft, notification) are committed in different
  transactions, and a review is created, read for and stored in different transactions,
  with deletions by the user in between.
* Windows renames per-user services at every sign-in, and older builds used other keys
  and other filters: a diff must neither report that nor hide a change behind it.
* A ranking is a sum of weights with thresholds; what it may call a candidate depends on
  several windows, names that may be missing, and a tie margin.
* The backend shares two small pipes with the shell, which reads them from threads; it
  may hang, print garbage or die at any point of the start.
* Answers to the dashboard have no order, are read with several queries, and may come
  after the dashboard has given up on them.

**What makes each part correct.** At most one scan writes, and one that lost the lease
never writes again. The stored state and the events that explain it agree. A cursor never
passes what is not in the journal, and a finished scan vouches only for what is. Each
event gets each of its effects once, and links between effects lead where they claim.
Every opener gets a journal on which every migration has left its mark. A review calls a
change a candidate only with a witness and under coverage that was really there, and what
the user deleted stays deleted. No start leaves a backend behind, and the dashboard ends
up showing the journal.

## Modules

| Module | Models | Extends or uses |
|---|---|---|
| `Lease` | what the lease promises: one holder, and no way back | |
| `ScanLease` | rows, ages, marker and waiting callers; implements `Lease` | |
| `ChangeLog` | what the journal promises about one kind of evidence | |
| `Journal` | `Scanner.scan` end to end; implements `ChangeLog` | actions of `Lease` |
| `SnapshotDiff` | keys, quiet matches and the diff, as operators | |
| `Inventory` | one source across builds, rebaselines and scans | `SnapshotDiff` |
| `Automation` | `run_automated_scan` and the user's mutations | |
| `Migrations` | opening a journal: version, inference, migrations, backfill | |
| `LinkRepair` | one repair transaction and deletions | |
| `Opening` | all of an open, composed of the two | `Migrations`, `LinkRepair` |
| `Correlation` | ranking and assessment, as operators | |
| `Investigation` | a review with its coverage, feedback and deletion | `Correlation` |
| `Backend` | the shell, its reader threads and the child | |
| `Desktop` | the dashboard and the API on top of the backend | `Backend` |
| `*Proofs` | theorems about the module they are named after | |
| `MC*` | instances for TLC | |

Definitions introduced by a comment "Mutant of ..." are wrong variants of the definition
that follows. Nothing uses them except the mutation runs of `PROJECT.json`, which put one
in the place of the right definition to see the property fail.

### ScanLease

`status`, `age` and `active` are the rows of `scans` and the `scan:active` key. Only
differences of clock readings matter to the code, so a row carries its age and a caller
inside `start_scan` carries how long it has waited for the write lock: `started` is read
before `BEGIN IMMEDIATE`, so a row can be born with an age, and the cutoff a caller uses
is as old as its wait. Each transaction is one action. `StartScan` is all of
`start_scan`: recovery of stale rows, the refusal when another row runs, the insert and
the marker; a refusal rolls the recovery back. `OwnedWrite` stands for any transaction
guarded by `_assert_scan_lease`. `Crash` covers a dead process and an exception that
leaves `scan`. The wall clock is assumed not to step back (the code shares that
assumption). Ids of ended rows may be used again as the ids of new rows: what matters is
that no live process or running row has them. `held` is history: how long ago a running
row was inserted, which is less than its age when its process had to wait.

### Journal

Every action is a step of one invocation of `scan()` between two points where other
processes can be seen: reading the clock, `start_scan`, collecting, the read and the
write half of `apply_snapshot` for each source, the cursor read, `save_events`, the
cursor write, retention, `finish_scan`. The lease appears through the actions of module
`Lease` (`Acquire`, `Commit`, `Release`, `Revoke`, `Abandon`), which `ScanLease` is shown
to implement; so `Journal` allows a take-over at any moment, which is more than the
staleness bound allows. `ApplyFails`, `SymptomsFail` and `PruneFails` stand for both a
lost lease and a database error: `scan()` catches both alike.

A snapshot is one abstract value of its source: the diff inside `apply_snapshot` is
"different or not"; `SnapshotDiff` says what it is. A damaged stored state (`Invalid`) is
reset and reported. Symptoms are named by the time unit in which they were logged, one per
unit; queries see a symptom as soon as it happened. A query returns its newest
`QueryLimit` rows (300 in the code). An Event Log query that fails inside PowerShell
without an error (`-ErrorAction SilentlyContinue`) leaves no trace in the collector's
answer and is not modelled.

### SnapshotDiff and Inventory

A payload is named by a base and a number: the number Windows appends to a per-user
service, or the version that an older build wrote behind an application's key. The fields
that a comparison looks at besides the name are one `setting`. `KeyOf` is the key the
collector gives an item, which depends on how many instances of a family there are.
`PreviousKey` is the choice of the stored item a new one is compared with, `Compared` what the
loop knows after each of its turns, in the order of the provider, `Diff` the events of a scan, and `Unchanged` the comparison with its quiet
matches: instances of one family, a type that one side did not collect, the trigger-start
oscillation.

`Inventory` puts one source between processes that open the journal, rebaseline the drivers
and scan. The read of the stored items, the read of the initialized flag and the write are
three steps, since a rebaseline by another process may come between any two; the lease
admits one scan at a time (that is `ScanLease`). A new journal and one with items of an
older build are both initial states; `comparable` and `alike` are history, and remember
whether the stored items, and the items a scan has read, were written for the inventory of
today.

### Automation

One action per transaction of a pass, plus the points where a pass reads. Events are rows
of `log`; what an event is about is an element of `Crash`, `Change`, `Hardware`,
`MinorHardware` or `Quiet`, which is as much as the notification rules distinguish: hardware
changes count towards the burst that silences them whatever their severity, but only severe
ones are announced. `incident`, `drafted`,
`told` and `notes` are the draft investigations, the two kinds of idempotency markers
and the notifications. The ways out of `_create_investigation_draft` are the disjuncts of
`CreateDraft`: the marker has a draft; there is no marker; there is a marker without a
link (an older build, or a deletion), which adopts the one matching draft or makes a new
one. The reads it makes before its first write are merged into its transaction: the
writes it then makes are guarded by the same conditions. A repeated pass relinks a
notification that was sent without a draft. `failed` is the list of failed drafts that
makes `process_scan_events` raise at its end, before the cursor moves. The warning row of
a scan is a per-pass set (`warned`), since it has a key of its own for every scan. Whether
a notification was read is not modelled.

A scan is reduced to a lease that a live pass may lose (`TakeOver`) or a dead one leaves
behind, and to events that appear one at a time while it is held (`Record`).

`baseline` and `waived` are history: the events that existed before automation first ran,
and the effects a pass left out because of its settings. A notification left out because of a
burst is not waived: `NoEventSkipped` excuses it only if the log behind the baseline really
has so many hardware changes (`Outnumbered`). Nor does it ask which of them shared a batch,
which depends on when passes ran.

### Migrations, LinkRepair and Opening

`Database.__init__` as several processes go through it at once (the lock around it is one
of a process). `version`, `applied` and `marks` are the `schema_version` key, the rows of
`schema_migrations` and what the migrations leave in the file: tables, columns, indexes or a
key. One action per transaction: the version is read; a journal without one is looked at
table by table (`InferLegacyVersion`) and what was found is recorded
(`RecordLegacyBaseline`); each `_apply_migration` checks its row again under the write
lock; the number is set; the backfill runs if its key is missing. `level` is what an opener
believes the version is. A slow opener may infer 2 while another migrates to 7, and set the
number back to 2; the rows make it skip what was done, and the number is put right at the
end of its open or, if it dies, of the next one: hence `EndsUpCurrent` and not "the version
never falls". What migrations do to rows is not modelled beyond "it was done". An
unnumbered journal is assumed to have all tables of the base schema, although the code looks
for five of them; a numbered one is assumed to have the rows of its numbered migrations.

`LinkRepair` is `_repair_automation_links`: the first markers behind a durable cursor that
have no link are matched with the one draft that asks what their event asks, under the
request form of today or of an older build. `Opening` runs it as the step of an opener
between the migrations and the open journal, and lets the user delete drafts while somebody
has the journal open. An event that retention has removed (`Pruned`) matches nothing.

### Correlation and Investigation

`Correlation` is `rank_candidates` and `assess_investigation` without their texts. Scores
are in hundred-thousandths (the code's 0.35 is `35 * 1000`), so the thresholds of confidence
and the tie margin are compared exactly where the code compares floats; the decay
with the distance from the onset is a table `Temporal`. Names stand for identity keys; a text of the request that has
no key is neither a name nor `Absent`. The order is given by `Precedes`, whose five keys
are the ones of the code's sort.

`Investigation` is a request of the local API: the row, the read of the events, the read of
the coverage and the write of the results are four transactions. An automatic draft does all
of it in one. Feedback is a check and a write. Beside them a scan commits its events under
the time of its start and finishes its row later. A request that dies leaves its row
`investigating`, as the code does.

### Backend and Desktop

`Backend` has the shell's main thread (`shell`), its two reader threads, the child and the
two pipes, each with room for `PipeSize` lines. A deadline is a step that may be taken at
any time of the wait, so every race between the port line, the end of the child and the
timeout is there. `terminate_backend` waits for the child, which is therefore gone
afterwards. The child owes nothing: it may print text, garbage or the port, hang or die.
`Kill` is the shell's own death, after which nobody ends the child.

`Desktop` puts the dashboard and the API on top. A request is what it is for, how far the
server is with it, and whether the dashboard still waits. A bootstrap is read in three
queries (the number of reviews, the list, the number of drafts), so answers may be torn;
answers are shown in the order in which they arrive. `GiveUp` is the abort after a timeout (10 seconds for
most requests): the server goes on and then complains about the closed connection into the error pipe.
`Complain` is the worst case of that; an answer that still fits the socket's buffer prints
nothing. The model keeps the reviews of the journal and, of the dashboard, their list and
the two numbers drawn beside it. A third number, `journal.incidents`, is left out: the dashboard lowers it after a
deletion (`App.tsx:47`), but no view draws it.

## Checks

| Run | Shows | Bounds |
|---|---|---|
| `ScanLease` | `TypeOK`, `LeaseCoherent`, `NoInterleavedWrites`, `NoEarlyTakeover`; every step is a step of `Lease` (`ImplementsLease`); orphaned rows are recovered (`OrphansRecovered`) and scanning resumes without `doctor` (`ScanningResumes`) | 2 processes, 3 ids, staleness 2, wait 1 |
| `JournalChanges` | `EventsReplay`, `OkIsComplete`, `ReportsAreTrue`, and that the two-step `apply_snapshot` implements the atomic observation of `ChangeLog` (`ImplementsChangeLog`) | 2 scans, 2 sources, 2 values, 1 change of the machine |
| `JournalSymptoms` | the symptom cursor leaves no gap (`NoSymptomSkipped`), `RetentionHolds`, dropped messages stay dropped (`PrunedStaysPruned`) | 2 scans, clock 0..3, overlap 1, retention 1, a new journal or one with an old cursor |
| `AutomationLinks` | `TypeOK`, `NotifiedOnce`, `DraftsAreLinked`, `DraftsStick`, `NoEventSkipped` | 2 passes, 2 events of two crash kinds, a severe and a minor hardware kind, bursts of 2, 3 draft ids, 1 fault, 1 deletion, settings on or off |
| `AutomationLive` | every event after the baseline is handled some day (`EventuallyHandled`) | 2 passes, 2 events, 2 faults |
| `Opening` | `VersionIsBacked`, `RecordIsTrue`, `OpenIsComplete`, `RunOnce`, `LinksLead`; the number ends up current (`EndsUpCurrent`); every repairable marker is come to (`RepairArrives`) | 2 openers, the 7 migrations of the code, 1 death; 2 markers, 2 drafts, batches of 1 |
| `Investigation` | `CandidateIsEarned`, `CoverageIsRead`, `UnlimitedIsWatched`, `FeedbackNamesLead`, `DeletedStaysDeleted` | see below |
| `Inventory` | `NoConfigurationUnreported`, `DriversCompareAlike`; sign-ins report removals only, and a bounded number of them (`SignInNoiseBounded`) | 2 processes; up to 3 of 4 instances of a family, one of them set up differently, a plain service, a trigger-start service, an application, 2 drivers; every order |
| `Desktop` | `NoOrphan`, `StartupEnds`, `HandlersEnd`, `EditsMirrorJournal`, `ViewCatchesUp` | pipes of 1 line, a review and a draft, 2 requests, 1 given up on |

Three more runs end in a counterexample, each to a sentence of the repository:

* `JournalTruncation`: a query keeps its newest 300 rows and does not say that it cut
  some off, so the cursor moves past rows that were never stored. `NoSymptomSkipped`
  holds in `JournalSymptoms`, where queries are not cut off, and fails here. The theorem
  `NoGapBelowLimit` says that this is the only way to lose a symptom.
* `AutomationDangling`: a draft that is deleted between the draft transaction and the
  notification transaction of one event leaves a notification that leads to it.
* `AutomationDraftedOnce`: deleting a draft sets its marker's link to NULL, which reads
  like the marker of an older build, so a pass that repeats the event creates the draft
  again. A pass repeats events after it died, after another draft failed, and when two
  passes overlap.

**Why the bounds are enough.** The lease argument is about a holder and the one that
supersedes it; three ids leave a fresh one beside a row that runs and one that is written
off, and the theorems say the same for any number. For
`apply_snapshot` two scans give a stale read, two sources a partial failure, and one
change of the machine a stale snapshot; a third scan only repeats the pattern. The symptom
cursor needs a scan that fails or is delayed and one that looks back; the old cursor of the
initial states stands for what earlier scans did, and with an overlap of one unit four
clock readings put a symptom inside and one outside every window. For
automation two passes overlap in every way a pair can, and two events give a batch in
which one draft fails and the other does not, or a burst of two. `MaxEvents`, `MaxFaults`
and `MaxDeletes` cap what the machine, the faults and the user do; the theorems hold for
every value. For an open, one process infers and the other migrates, sets the number back
or dies; two markers and batches of one make a marker that finds no draft stand before one
that does.

`Investigation` is two kinds of instance in one. In the quiet ones (`Rankings`,
`Onsets`, `Coverages`) nothing moves but one review, over several thousand journals: two changes at
chosen distances from the onset, of five kinds, a symptom of four kinds on either side of
each boundary of the tolerance, six requests; one change between two symptoms, named or not;
and every pair of 15 scan records. A time unit
is six hours, so the windows of the code have 28 and 24 units, the tolerance 1, the greatest
gap 4. In the busy one (`Busy`) two threads, drafts, feedback, deletions, deaths and a
scan that finishes run beside each other. For `Inventory` three of four
instances are enough for any part of a family to be exchanged while the rest stays: all,
two, one or none; with the order of the items, that gives pairs that take each other's
place and instances that nothing is left for. A stale
row at staleness 2 may have been held for 2 ticks only, if its process waited 1 (`ScanLease`). For `Desktop` two requests overtake each other, and a pipe of one line is full
at once. `MaxGivenUp`, `MaxTicks` and `MaxDeaths` cap what would only repeat.

`HandlersEnd` (in `MCDesktop`) is `HandlerEnds` for one request: no step tells requests apart.

`CHECK_DEADLOCK FALSE` is set where a behaviour ends: each scan of a `Journal` run runs
once; an `Investigation` run ends with its reviews; a shell that has failed, was closed or
killed stays so.

**Fairness.** `ScanLease`: the clock advances, a process that is left alone begins and
finishes its scans (weak fairness), and one that reaches `start_scan` again and again gets
through it once in a while (strong fairness): the Windows task starts the watcher every
few minutes and does not die at that one line each time. Nothing is assumed of `doctor`
or of crashes. `Automation`: a pass takes its next step (weak), and the scan of a pass that
tries again and again is not refused for ever (strong), since the lease of a dead
holder becomes stale: that is `ScanLease`'s `ScanningResumes`. Events, faults, take-overs
and the user owe nothing. Faults are bounded by `MaxFaults`: a draft that can never be
stored would keep the cursor where it is for ever. `Opening`: an opener goes on with its
open, closed journals are opened again, and an open one is closed some day (weak), as a pass
of the watcher and a request of the API do it; deaths and deletions owe nothing. `Desktop`:
the shell's threads run (weak); the deadline of the ready loop is strongly fair, because the
clock moves while the loop turns; requests are served and received by threads of their own
(weak); the dashboard polls for ever (weak). The child, the user and background passes owe
nothing: `StartupEnds` holds against a child that hangs, and `ViewCatchesUp` is about a
backend that serves from some time on.

## Proofs

All theorems hold for every value of the constants that satisfies the modules' named
assumptions (`LeaseAssumption`, `ScanLeaseAssumption`, `JournalAssumption`,
`AutomationAssumption`, `MigrationsAssumption`, `OpeningAssumption`,
`InventoryAssumption`, `BackendAssumption`, `DesktopAssumption`): distinct markers, and
numbers where numbers are expected. `PROJECT.json` lists the theorems. Some assumptions say more,
and the code is why:

* `NamesAssumption` (`Inventory`): the names of a snapshot of services are unique (Windows
  keeps them so), a per-user instance has a suffix, and stored services have the keys
  of `_services` today or the plain names of an older build; names of other sources are
  their keys.
* `HistoriesAssumption`, `LimitsAssumption` (`Investigation`): journals and scans are finite,
  an id names one event, symptoms have the actions the Event Log collector writes, a scan
  record lists both its collected and its failed sources or neither; the table of
  decay covers the look-back of every request. `TemporalAssumption`, `BoundsAssumption` and
  `AbsentAssumption` (`Correlation`): the decay is not negative, a review keeps at least
  one lead, and no text is "no text".
* `NoneAssumption` (`SnapshotDiff`): nothing is no payload.
* `ListLimit <= CountLimit` in `DesktopAssumption`: the dashboard lists 20 reviews and the
  status counts 100 of them. The other way round, `EditsMirrorJournal` would be false.

Three results have a hypothesis besides: `NoGapBelowLimit` (below), and `CountedScansAreRead`
and `CandidatesAreEarned`, which assume `WithinReadLimit`: no journal has more events
than a review reads. The code reads 10 000 and does not enforce it; without it a review may
miss the symptom that speaks against its candidate (see the next section).

**Loops.** `Compared` (the turns of `apply_snapshot`'s loop), `Without` (what a filter of the
dashboard leaves) and the places of a ranking are recursive functions or cardinalities. The
library's induction rules take operators as parameters, which the provers cannot instantiate,
but a set of natural numbers that has no least element is empty (`NatLessThanWellFounded`
with `WFMin`), and that is enough: the set of turns after which an invariant of the loop
fails is such a set. So each of these proofs has a lemma for one turn and one for all.

**`ScanLeaseProofs`.** `TypeCorrect`, `LeaseIsCoherent`, `WritesDoNotInterleave`,
`TakeoverIsLate`, `LeaseImplemented`. The inductive invariant adds to types and coherence
that processes own different ids, that a process has an id exactly while it scans, and
that of the running rows only the last writer has written, and that a row is at most
`MaxWait` older than its lease (`BornYoung`). `TakeoverIsLate` needs that one: nobody
looks at a row as stale before it is, but a row may be born old, and the theorem says how
much of its `StaleAfter` a healthy scan can lose by that. The conjunct about the writer is what makes
the fence work: when the writer changes, the new writer is the one running row, and that
row has not written before, or it would be the writer already.

**`JournalProofs`.** On top of the types (`TypesHold`, with `Orderly`: a scan works on a
source only between collecting it and the symptoms), five arguments:
* `ObservationsAreAtomic`: why reading outside the transaction does no harm. `Fresh` says
  that what a *holder* read of the source it works on is what is stored now. Only a holder
  writes, a scan never gets the lease after it has read, and so a fenced write compares with
  the state it replaces; a write without the lease fails. `EventsLeadToState` follows from
  the refinement: the events of each source chain up and end in the stored value.
* `OkMeansComplete`: what a scan has not failed at and has no error for is applied.
* `ReportsHold`: while a scan holds the lease, what it has applied is what is stored and the
  cursor is where it put it.
* `DroppedStaysDropped` and `RetentionIsKept`: saving never touches a row that is there, and
  what is saved at an old time is saved without its message.
* `NoGapBelowLimit`: `Seamless` says that a holder's window begins where the cursor is and
  that a scan about to move the cursor has caught the window up to its start. Its assumption
  `MaxClock < QueryLimit` makes truncation impossible (`NothingCutOff`, by counting the rows
  behind a symptom), and `JournalTruncation` shows that the assumption is needed.

**`AutomationProofs`.** `CursorSkipsNothing` says that the event cursor never passes over
an event without its effects. `NoEventSkipped` is not inductive: the cursor is overwritten
by passes that read it long ago. The invariant calls a row *covered* when it belongs to the
baseline, or its effects are there or waived, or it is a hardware change among a burst of
them behind the baseline, and says that the rows up to the cursor,
up to the row each pass started from, and up to the row each pass has reached without a
failed draft are covered. Covered rows stay covered (`CoveredGrows`), because markers are
never removed: deletion clears a link and keeps the marker. So it does not matter which of
two overlapping passes writes the cursor last. A second part is that nothing is recorded
before there is a cursor, which is why a pass that finds none may start at the watermark.
Events are never taken back, so a burst stays one (`BurstsStay`); and a batch lies behind
the baseline, so what silences an event in a batch does so in the log (`BurstsAreMany`).
`TypesHold` needs the same invariant (a position within a batch is a row). `LinksHold`
strengthens `DraftsAreLinked` by "a marker's event is a crash signal", without which an
unused incident id could look like a draft. `NotifiedExactlyOnce` and `DraftsAreKept` follow
from the types.

**`MigrationsProofs`.** `VersionsAreBacked`, `RecordsAreTrue`, `OpensAreComplete`,
`MigrationsRunOnce`, `TypesAreKept`. What an opener believes may be out of date but is never
too high: while it infers, the migrations up to its level have left their marks; from the
first migration on they are recorded; after the loop the level is the latest. Rows and
marks are never removed, so no other opener can make this false, and `RunKeeps` shows that
the record has no holes when the migration after the level runs.

**`OpeningProofs`.** `OpeningImplementsMigrations` is the refinement that carries the
theorems of `MigrationsProofs` over to `Opening` (`OpeningMigratesSafely`): the repair and the
deletions leave the schema alone. `LinksAlwaysLead`: what `FindIncident` returns is a draft with
the very request it was asked for (`FoundAsks`), and a deletion clears every link to what it
deletes. `RepairsSkipNothing` is the safety half of `RepairArrives`: a batch is an initial
part of the markers that wait (`BatchIsFirst`), so the cursor, which moves to the last one of
it (`CursorMoves`), passes a marker that has a draft only in the step that links it.

**`InvestigationProofs`.** Check and write are different transactions, yet
`FeedbackIsAboutLeads` holds: results are stored at most once, by the one request that
created the row (`ReviewsAreFresh`, `ReviewsOwnTheirRow`), so a lead that was found among
them stays there (`ChecksHold`). `DeletionIsFinal`: ids are not used again and the update
of a row that is gone changes nothing. These two hold whatever `RankCandidates` returns.

`CoverageIsWatched`, `CountedScansAreRead` and `CandidatesAreEarned` open the ranking. The
row of a review does not say what the review has read, so the invariant `Earned` says that
there is something it has read from which `Leads`, `CoverageOf` and `Assess` compute the row
(`RowIsEarned`; `ReviewIsRead` is the same of a review on its way). What was read has to
be compared with the scans that count. A review reads its events first, and a scan adds its
own before it finishes; so a scan that the coverage counts and the review did not read
must have finished after the review began, which is not before the onset. That is the
disjunction in `Read`: either everything of the window was read after the scan had recorded
it, or no counted scan finished before the onset. The rest is about operators: the places of a
ranking are the numbers from 1 on without a tie, since the five keys order different
events totally, so leads are distinct and there are `Limit` of them if any is left out; a
confidence that makes a lead a candidate needs a strongly linked symptom and no
counter-evidence, and the first lead must have no other close to it. `Types` says that all of it stays well formed.

**`InventoryProofs`.** `TypesHold` for any snapshots, and `DriversAreComparedAlike`: nobody
scans before the drivers have been rebaselined once, and from then on a source that counts as
initialized was written for the inventory of today. Whatever a scan has read before a late
rebaseline is of today too, or the flag it reads next is gone and the scan is a quiet baseline.

The other two are about the loop, in any order of the items. `ConfigurationsAreReported`: after
each turn (`Accounted`) the configuration of every compared item is among the stored ones or in
an event's evidence, and that of every matched stored item is among the new ones or in
evidence; what is not matched in the end is reported as removed. `SignInsMakeLittleNoise`: when
only sign-ins have happened, of any part of any family (`Rotation`), there is no event after
each turn (`Quiet`), and `Balanced` counts for every family and setup: at most as many
stored instances are matched as new ones were compared, and at least one for each that had
no key of its own. So an instance without a key finds a partner of its own setup, and
`Preferred` takes it rather than one of another setup: that is why
replacing `Preferred` by any candidate breaks the property. In the end, what is left
over is no more than the instances that were already matched when their turn came
(`FewAreLeft`): each of these has its key on both sides, and each was taken by one that has
not. Keys are not names: an instance has the short key when it is
alone, and an older build stored the plain names. `SignInsRotate` and `KeysFollow` say, for
both, that instances with a key on both sides have stayed and the others were exchanged,
or else the family has none of one sort and nothing is left over.

**`DesktopProofs`.** `NothingIsLeftBehind` and `PortIsSentAtOnce` for every `PipeSize`: the
reader uses its sender up with its one message, so the channel of one place never blocks it.
`DashboardLeavesNothing` carries the first over to `Desktop`, whose own steps leave shell
and child alone. `ComplaintsAreRead` is the safety half of `HandlersEnd`: the error pipe has
a reader until the application is killed. `EditsAgree`: the journal changes by one deletion
or one review in front (`JournalSteps`), its reviews are distinct (`Listed`), so the
filter of the dashboard leaves out exactly one place (`WithoutOne`, by induction over the
list) and all numbers fall by one; a created review takes the place that `list_incidents` gives
it (`InFront`).

**Only model-checked.** The liveness properties (`OrphansRecovered`, `ScanningResumes`,
`EventuallyHandled`, `EndsUpCurrent`, `RepairArrives`, `StartupEnds`, `HandlersEnd`,
`ViewCatchesUp`), since the prover has no rules for ENABLED and fairness, and
the three counterexamples. Every invariant and every action property of a passing run is a
theorem.

## Where code, docs and comments differ

The three counterexample runs are above. What follows was met while modelling and is in the
models as the code has it:

* `docs/architecture.md:77` says that recovery of a stale scan is explicit; `start_scan`
  recovers by itself (`db.py:1562`), and `ScanLease`'s `ScanningResumes` depends on it.
* `correlation.py:521` tells the user that suspicion affects ordering only. The bonus enters
  the score (`correlation.py:496`), and with it the confidence and the tie margin.
* `Investigation`: coverage compares finish times in whole seconds, inclusively
  (`db.py:2201`), so a scan that finishes in the second of the onset after the review's read
  of the events counts; `CoverageIsRead` leaves that second out.
* A review reads at most 10 000 events, the newest first; older changes of the window are
  then missing without a remark in the coverage, and so are older symptoms that would speak
  against a candidate.
* A symptom before the change counts against it only if it is linked to what the review names
  (`correlation.py:462`): when the user names one application, an earlier crash of another
  does not keep a driver from being a candidate. `CandidateIsEarned` leaves those out.
* A review keeps at most `Limit` leads (8), so a change that a scan found may be missing among
  them; `CoverageIsRead` says that only then it is.
* Of a per-user family with stored instances b and c, a snapshot that lists a new instance a
  before b compares a with the stored b, although b is still there (`db.py:1362`). So c is
  reported as removed and a is not reported as added, and from b, c to a, b, c nothing is
  reported. Every configuration still has its evidence (`NoConfigurationUnreported`); how
  many instances have it need not. `db.py:270` means to keep sign-ins from being "an add/remove storm";
  a removal is what remains of it when one user signs in again while another stays, and
  `SignInNoiseBounded` says how many there can be. If all instances of a setup are
  exchanged, or none, there are none.
* The first scan after an upgrade from a build that did not collect `ServiceType` reports
  every plain service as updated; `db.py:346` quiets that only for per-user services.
* Two processes that open a journal before the driver rebaseline both pass the check of its
  marker (`db.py:422`); the second rebaseline then throws a fresh baseline away and a driver
  change right after it is lost. `DriversCompareAlike` holds: nothing wrong is reported.
* `_is_bits_trigger_oscillation` compares with the last scan only, so a change of a
  trigger-start service's mode together with a change of its state is quiet; the services
  in question are left out of `NoConfigurationUnreported`.
* `handleInvestigate` adds one to the number of reviews even when a poll has brought the
  review already (`App.tsx:221`); the next poll puts it right (`ViewCatchesUp`).

## Not modelled

* **Watcher and status companion.** The watcher is one `run_automated_scan`, which
  `Automation` models, between the creation and the removal of a marker file. The companion
  reads the file and the journal and draws an icon; nothing rests on it.
* **Scheduled task control.** PowerShell and `schtasks` calls on state that Windows keeps.
  Registering the task may take longer than the request that asked for it
  (60 seconds elevated, against 45 in the dashboard); the status is read again by the next
  poll.
* **Settings, feedback and scan buttons of the dashboard.** They replace one part of the view
  by an answer, as `Load` replaces all of it.
* **The last step of a bootstrap that is not about reviews**, pages, filters and the preview
  mode.
* **Bundles and export**: one sequential read and an atomic replacement of a file.
* **Collector scripts, redaction patterns, evidence texts, HTTP request guards, installer
  scripts, fixtures, CLI, validation, simulation and demo.** They are text and I/O or
  sequential front ends over the parts above.
* Bytes on the backend's standard error that are not UTF-8: they end the reader, which closes
  the pipe, and a write then fails instead of waiting.

## What could come next

1. The safety halves of the other liveness properties, as `RepairsSkipNothing` and
   `ComplaintsAreRead` are for two of them: what a stale row, a slow opener or a repeated pass
   can never undo.
2. The types of `Desktop`, and what a torn bootstrap can show.
3. Settings and feedback in `Desktop`, with the read-modify-write of `automation:config`.
