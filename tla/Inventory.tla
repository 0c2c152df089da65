----------------------------- MODULE Inventory ------------------------------
(***************************************************************************)
(* The life of one snapshot source across builds: state that an older      *)
(* build has written, openings of the journal that rebaseline the drivers  *)
(* (Database.__init__), and scans that read the stored items, compare and  *)
(* replace them (apply_snapshot).  Processes open the journal and scan     *)
(* concurrently; the scan lease (module ScanLease) admits one scan at a    *)
(* time, and nothing but the write lock orders a scan and an opening.      *)
(***************************************************************************)
EXTENDS SnapshotDiff

CONSTANTS
  Process,     \* processes that open the journal
  Snapshots,   \* what a source may contain, a set of sets of payloads: [source -> ...]
  OldStates    \* items that an older build may have stored: [source -> ...]

Source == DOMAIN Snapshots

IsItems(f) == DOMAIN f \subseteq Key /\ \A k \in DOMAIN f : f[k] \in Payload

Items(f) == {f[k] : k \in DOMAIN f}

(* Names are unique, and the name of a per-user service has a suffix.      *)
Listed(snapshot) ==
  /\ \A p, q \in snapshot : p.base = q.base /\ p.n = q.n => p = q
  /\ \A p \in snapshot : p.perUser => p.n # 0

(* The keys are those of today, or the plain names of an older build.      *)
KeyedToday(f) == \A k \in DOMAIN f : k = KeyOf(f[k], Items(f))
KeyedByName(f) == \A k \in DOMAIN f : k = <<"plain", f[k].base, f[k].n>>

(* The name of an application or a driver is the base of its key.          *)
Bare(f) == \A k \in DOMAIN f : f[k].base = k[2] /\ f[k].n = 0 /\ ~ f[k].perUser

ASSUME InventoryAssumption ==
  /\ MinPairs \in Nat
  /\ \A s \in Source :
       /\ \A snapshot \in Snapshots[s] : IsFiniteSet(snapshot) /\ snapshot \subseteq Payload
       /\ \A items \in OldStates[s] : IsFiniteSet(DOMAIN items) /\ IsItems(items)

ASSUME NamesAssumption ==
  \A s \in Source :
    /\ \A snapshot \in Snapshots[s] :
         Listed(snapshot) /\ (s # "services" => \A p \in snapshot : p.n = 0)
    /\ \A items \in OldStates[s] :
         IF s = "services" THEN KeyedToday(items) \/ KeyedByName(items) ELSE Bare(items)

VARIABLES
  source,      \* the source this journal is observed for
  stored,      \* state_items: [keys -> payloads]
  initialized, \* meta 'source:<source>:initialized' is "1"
  rebased,     \* meta 'migration:installed-driver-inventory' is "1"
  pc,          \* where each process is
  current,     \* the items the scan has collected
  previous,    \* the items it compares them with; None for a quiet baseline
  alike,       \* history: previous was written for the inventory of today
  entry,       \* history: the last diff that was stored
  comparable   \* history: stored was written for the inventory of today

read == <<current, previous, alike>>
vars == <<source, stored, initialized, rebased, pc, read, entry, comparable>>

(* Where the scan is that holds the lease.                                 *)
Scanning == {"rows", "compare"}

TypeOK ==
  /\ source \in Source
  /\ IsItems(stored) /\ IsItems(current)
  /\ previous # None => IsItems(previous)
  /\ {initialized, rebased, alike, comparable} \subseteq BOOLEAN
  /\ pc \in [Process -> {"closed", "rebase", "open"} \cup Scanning]
  /\ \A p, q \in Process : pc[p] \in Scanning /\ pc[q] \in Scanning => p = q

(* A journal without this source, or one an older build has used.          *)
Init ==
  /\ source \in Source
  /\ \/ stored = <<>> /\ initialized = FALSE
     \/ stored \in OldStates[source] /\ initialized = TRUE
  /\ rebased = FALSE
  /\ comparable = (source # "drivers")
  /\ pc = [p \in Process |-> "closed"]
  /\ current = <<>> /\ previous = None /\ alike = FALSE
  /\ entry = None

-----------------------------------------------------------------------------
(* _rebaseline_installed_driver_inventory looks for its marker before the  *)
(* transaction and not in it.                                              *)
Open(p) ==
  /\ pc[p] = "closed"
  /\ pc' = [pc EXCEPT ![p] = IF rebased THEN "open" ELSE "rebase"]
  /\ UNCHANGED <<source, stored, initialized, rebased, read, entry, comparable>>

(* Mutant of Rebaseline: the items go, but the source stays initialized.   *)
RebaselineItems(p) ==
  /\ pc[p] = "rebase"
  /\ pc' = [pc EXCEPT ![p] = "open"]
  /\ rebased' = TRUE
  /\ IF source = "drivers"
     THEN stored' = <<>> /\ comparable' = FALSE
     ELSE UNCHANGED <<stored, comparable>>
  /\ UNCHANGED <<source, initialized, read, entry>>

Rebaseline(p) ==
  /\ pc[p] = "rebase"
  /\ pc' = [pc EXCEPT ![p] = "open"]
  /\ rebased' = TRUE
  /\ IF source = "drivers"
     THEN stored' = <<>> /\ initialized' = FALSE /\ comparable' = FALSE
     ELSE UNCHANGED <<stored, initialized, comparable>>
  /\ UNCHANGED <<source, read, entry>>

(* A scan has collected the source and reads the stored items.             *)
Collect(p) ==
  /\ pc[p] = "open" /\ \A q \in Process : pc[q] \notin Scanning
  /\ pc' = [pc EXCEPT ![p] = "rows"]
  /\ \E snapshot \in Snapshots[source] : current' = Keyed(snapshot)
  /\ previous' = stored /\ alike' = comparable
  /\ entry' = None
  /\ UNCHANGED <<source, stored, initialized, rebased, comparable>>

(* Whether they are a baseline already is a read of its own.               *)
ReadInitialized(p) ==
  /\ pc[p] = "rows"
  /\ pc' = [pc EXCEPT ![p] = "compare"]
  /\ previous' = IF initialized THEN previous ELSE None
  /\ UNCHANGED <<source, stored, initialized, rebased, current, alike, entry, comparable>>

(* The items are compared in the order the provider listed them; state,    *)
(* markers and events are stored in one transaction.                       *)
Apply(p) ==
  /\ pc[p] = "compare"
  /\ pc' = [pc EXCEPT ![p] = "open"]
  /\ stored' = current /\ initialized' = TRUE /\ comparable' = TRUE
  /\ \/ previous = None /\ UNCHANGED entry
     \/ /\ previous # None
        /\ \E order \in SetToSeqs(DOMAIN current) :
             entry' = [old |-> previous, new |-> current, alike |-> alike,
                       events |-> Diff(source, previous, current, order)]
  /\ UNCHANGED <<source, rebased, read>>

(* The process closes the journal, or dies: with a scan, before it stores. *)
Close(p) ==
  /\ pc[p] # "closed"
  /\ pc' = [pc EXCEPT ![p] = "closed"]
  /\ UNCHANGED <<source, stored, initialized, rebased, read, entry, comparable>>

Next ==
  \E p \in Process :
    Open(p) \/ Rebaseline(p) \/ Collect(p) \/ ReadInitialized(p) \/ Apply(p) \/ Close(p)

Spec == Init /\ [][Next]_vars

-----------------------------------------------------------------------------
(* What a reader of the journal knows an item by, and how it is set up.    *)
(* Trigger-start services are left out: their setting flips by itself.     *)
Configuration(p) == <<p.base, p.perUser, IF p.perUser THEN 0 ELSE p.n, p.setting>>

Configurations(payloads) ==
  {Configuration(p) : p \in {q \in payloads : q.base \notin TriggerStart}}

Before(events) == {e.before : e \in {e \in events : e.before # None}}
After(events) == {e.after : e \in {e \in events : e.after # None}}

(* However instances and keys are matched, and in whatever order: a        *)
(* configuration that is new, or gone, is in the evidence of some event.   *)
NoConfigurationUnreported ==
  entry # None =>
    LET old == Configurations(Items(entry.old))
        new == Configurations(Items(entry.new)) IN
    /\ new \ old \subseteq Configurations(After(entry.events))
    /\ old \ new \subseteq Configurations(Before(entry.events))

(* The instances of a family in a snapshot, those of one setup, and how    *)
(* many of each setup there are.                                           *)
Family(f, b) == {p \in Items(f) : p.perUser /\ p.base = b}
Instances(f, b, s) == {p \in Family(f, b) : p.setting = s}
SetUp(f, b) == [s \in Setting |-> Cardinality(Instances(f, b, s))]

PerUserBases(f) == {p.base : p \in {q \in Items(f) : q.perUser}}
Others(f) == {p \in Items(f) : ~ p.perUser}

(* Only sign-ins have happened: any instances got new numbers, those that  *)
(* stayed are set up as before, of every setup there are as many as        *)
(* before, and nothing else is different, but that an older build did not  *)
(* collect the types.                                                      *)
OnlySignIns(old, new) ==
  /\ Others(old) = Others(new)
  /\ PerUserBases(old) = PerUserBases(new)
  /\ \A b \in PerUserBases(old) :
       /\ SetUp(old, b) = SetUp(new, b)
       /\ \A p \in Family(old, b), q \in Family(new, b) :
            /\ p.type \in {"missing", q.type}
            /\ p.n = q.n => p.setting = q.setting

(* The instances of a setup that were there before, and those that were    *)
(* not: their users have signed in again.                                  *)
Stayed(old, new, b, s) == {q \in Instances(new, b, s) : \E p \in Family(old, b) : p.n = q.n}
Exchanged(old, new, b, s) == Instances(new, b, s) \ Stayed(old, new, b, s)

Gone(events, b, s) ==
  {e \in events : e.action = "removed" /\ e.before.base = b /\ e.before.setting = s}

(* After sign-ins, be the keys of today or of an older build, nothing is   *)
(* reported as added or updated, and no other service is reported at all.  *)
(* An instance can only be reported as removed while another of its setup  *)
(* stayed, whose item a new one was matched with before its own turn: once *)
(* for each that stayed, once for each that was exchanged.  So a setup     *)
(* that was exchanged as a whole, or not at all, is quiet.                 *)
SignInNoiseBounded ==
  entry # None /\ source = "services" /\ OnlySignIns(entry.old, entry.new) =>
    /\ \A e \in entry.events :
         e.action = "refreshed" \/ (e.action = "removed" /\ e.before.perUser)
    /\ \A b \in PerUserBases(entry.old), s \in Setting :
         LET gone == Cardinality(Gone(entry.events, b, s)) IN
         /\ gone <= Cardinality(Stayed(entry.old, entry.new, b, s))
         /\ gone <= Cardinality(Exchanged(entry.old, entry.new, b, s))

(* No event compares the driver inventory of today with one that an older  *)
(* build filtered, or with nothing, although processes rebaseline and scan *)
(* at the same time.                                                       *)
DriversCompareAlike == entry # None /\ entry.events # {} => entry.alike

=============================================================================
