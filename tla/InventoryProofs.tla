--------------------------- MODULE InventoryProofs ---------------------------
(***************************************************************************)
(* Proofs about Inventory, for any number of processes, any snapshots and  *)
(* any stored items: the types; no diff compares inventories of different  *)
(* builds; every setup that is new or gone is reported; of sign-ins no     *)
(* more than some removals.                                                *)
(* The last two are about the loop of apply_snapshot, in every order of    *)
(* the items: an invariant of its turns, by induction on their number.     *)
(***************************************************************************)
EXTENDS Inventory, FiniteSetTheorems, WellFoundedInduction, TLAPS

(* The keys and payloads of a collected snapshot have their types, however *)
(* many instances of a family there are.                                   *)
LEMMA KeyedItems ==
  ASSUME NEW snapshot \in SUBSET Payload
  PROVE  IsItems(Keyed(snapshot))
<1>1. ASSUME NEW p \in Payload PROVE KeyOf(p, snapshot) \in Key
  <2>1. p.base \in STRING /\ p.n \in Nat
    BY DEF Payload
  <2>2. CASE ~ p.perUser
    <3>1. KeyOf(p, snapshot) = <<"plain", p.base, p.n>>
      BY <2>2 DEF KeyOf
    <3> QED BY <2>1, <3>1 DEF Key
  <2>3. CASE p.perUser
    <3>1. KeyOf(p, snapshot) \in {<<"per-user", p.base, 0>>, <<"per-user", p.base, p.n>>}
      BY <2>3 DEF KeyOf
    <3>2. 0 \in Nat
      OBVIOUS
    <3> QED BY <2>1, <3>1, <3>2 DEF Key
  <2> QED BY <2>2, <2>3
<1>2. DOMAIN Keyed(snapshot) = {KeyOf(p, snapshot) : p \in snapshot}
  BY DEF Keyed
<1>3. ASSUME NEW k \in DOMAIN Keyed(snapshot) PROVE Keyed(snapshot)[k] \in Payload
  <2>1. PICK p \in snapshot : KeyOf(p, snapshot) = k
    BY <1>2, <1>3
  <2>2. (CHOOSE q \in snapshot : KeyOf(q, snapshot) = k) \in snapshot
    BY <2>1
  <2> QED BY <1>2, <1>3, <2>2 DEF Keyed
<1> QED BY <1>1, <1>2, <1>3 DEF IsItems

(* An empty inventory is one.                                              *)
LEMMA NoItems == IsItems(<<>>)
BY DEF IsItems

-----------------------------------------------------------------------------
LEMMA InitTypes == Init => TypeOK
<1> SUFFICES ASSUME Init PROVE TypeOK
  OBVIOUS
<1>1. IsItems(stored)
  BY InventoryAssumption, NoItems DEF Init
<1>2. pc = [p \in Process |-> "closed"] /\ \A p \in Process : pc[p] \notin Scanning
  BY DEF Init, Scanning
<1> QED BY <1>1, <1>2, NoItems DEF Init, TypeOK, Scanning

LEMMA NextTypes == TypeOK /\ [Next]_vars => TypeOK'
<1> SUFFICES ASSUME TypeOK, [Next]_vars PROVE TypeOK'
  OBVIOUS
<1> USE DEF TypeOK, read
<1>1. CASE UNCHANGED vars
  BY <1>1 DEF vars, Scanning, IsItems
<1>2. ASSUME NEW p \in Process, Open(p) PROVE TypeOK'
  BY <1>2 DEF Open, Scanning, IsItems
<1>3. ASSUME NEW p \in Process, Rebaseline(p) PROVE TypeOK'
  <2>1. IsItems(stored')
    BY <1>3, NoItems DEF Rebaseline
  <2> QED BY <1>3, <2>1 DEF Rebaseline, Scanning
<1>4. ASSUME NEW p \in Process, Collect(p) PROVE TypeOK'
  <2>1. PICK snapshot \in Snapshots[source] : current' = Keyed(snapshot)
    BY <1>4 DEF Collect
  <2>2. IsItems(current')
    BY <2>1, KeyedItems, InventoryAssumption
  <2> QED BY <1>4, <2>2 DEF Collect, Scanning
<1>5. ASSUME NEW p \in Process, ReadInitialized(p) PROVE TypeOK'
  BY <1>5 DEF ReadInitialized, Scanning
<1>6. ASSUME NEW p \in Process, Apply(p) PROVE TypeOK'
  BY <1>6 DEF Apply, Scanning
<1>7. ASSUME NEW p \in Process, Close(p) PROVE TypeOK'
  BY <1>7 DEF Close, Scanning
<1> QED BY <1>1, <1>2, <1>3, <1>4, <1>5, <1>6, <1>7 DEF Next

(* Database.__init__ and apply_snapshot keep keys and payloads well formed *)
(* and at most one scan is between its read and its write.                 *)
THEOREM TypesHold == Spec => []TypeOK
BY InitTypes, NextTypes, PTL DEF Spec

-----------------------------------------------------------------------------
(* Why comparisons are fair: nobody scans before the drivers have been     *)
(* rebaselined, and after that a source that counts as initialized was     *)
(* written for the inventory of today.  Until the scan has read whether it *)
(* is initialized, a late rebaseline may still turn it into a baseline.    *)
ScansRebased == \A p \in Process : pc[p] \in {"open"} \cup Scanning => rebased

InitializedIsComparable ==
  /\ source # "drivers" => comparable
  /\ rebased /\ initialized => comparable

ReadIsAlike ==
  \A p \in Process :
    /\ pc[p] = "rows" /\ initialized => alike
    /\ pc[p] = "compare" /\ previous # None => alike

EntryIsAlike == entry # None => entry.alike = TRUE

Fair == ScansRebased /\ InitializedIsComparable /\ ReadIsAlike /\ EntryIsAlike

LEMMA InitFair == Init => Fair
BY DEF Init, Fair, ScansRebased, InitializedIsComparable, ReadIsAlike, EntryIsAlike, Scanning

LEMMA NextFair == TypeOK /\ Fair /\ [Next]_vars => Fair'
<1> SUFFICES ASSUME TypeOK, Fair, [Next]_vars PROVE Fair'
  OBVIOUS
<1> USE DEF Fair, ScansRebased, InitializedIsComparable, ReadIsAlike, EntryIsAlike, read
<1> pc \in [Process -> {"closed", "rebase", "open"} \cup Scanning]
  BY DEF TypeOK
<1>1. CASE UNCHANGED vars
  BY <1>1 DEF vars
<1>2. ASSUME NEW p \in Process, Open(p) PROVE Fair'
  BY <1>2 DEF Open, Scanning
<1>3. ASSUME NEW p \in Process, Rebaseline(p) PROVE Fair'
  BY <1>3 DEF Rebaseline, Scanning
<1>4. ASSUME NEW p \in Process, Collect(p) PROVE Fair'
  <2>1. \A q \in Process : pc'[q] \in Scanning => q = p /\ pc'[q] = "rows"
    BY <1>4 DEF Collect, Scanning
  <2>2. initialized => comparable
    BY <1>4 DEF Collect
  <2> QED BY <1>4, <2>1, <2>2 DEF Collect, Scanning
<1>5. ASSUME NEW p \in Process, ReadInitialized(p) PROVE Fair'
  <2>1. \A q \in Process : pc'[q] \in Scanning => q = p /\ pc'[q] = "compare"
    BY <1>5 DEF ReadInitialized, TypeOK, Scanning
  <2> QED BY <1>5, <2>1 DEF ReadInitialized, Scanning
<1>6. ASSUME NEW p \in Process, Apply(p) PROVE Fair'
  <2>1. \A q \in Process : pc'[q] \notin Scanning
    BY <1>6 DEF Apply, TypeOK, Scanning
  <2>2. EntryIsAlike'
    BY <1>6 DEF Apply
  <2> QED BY <1>6, <2>1, <2>2 DEF Apply, Scanning
<1>7. ASSUME NEW p \in Process, Close(p) PROVE Fair'
  BY <1>7 DEF Close, Scanning
<1> QED BY <1>1, <1>2, <1>3, <1>4, <1>5, <1>6, <1>7 DEF Next

(* The rebaseline on open and the quiet first scan keep every diff among   *)
(* inventories of one build, also when a process that has read an older    *)
(* marker resets the drivers while another one scans.                      *)
THEOREM DriversAreComparedAlike == Spec => []DriversCompareAlike
<1>1. Fair => DriversCompareAlike
  BY DEF Fair, EntryIsAlike, DriversCompareAlike
<1> QED BY InitFair, NextFair, InitTypes, NextTypes, <1>1, PTL DEF Spec

-----------------------------------------------------------------------------
LEMMA NatOrder == IsWellFoundedOn({ss \in Nat \X Nat : ss[1] < ss[2]}, Nat)
BY NatLessThanWellFounded DEF OpToRel

(* A set of naturals has a least one.                                      *)
LEMMA Least ==
  ASSUME NEW S, S \subseteq Nat, S # {}
  PROVE  \E x \in S : \A y \in S : x <= y
<1> DEFINE R == {ss \in Nat \X Nat : ss[1] < ss[2]}
<1>1. PICK x \in S : \A y \in S : <<y, x>> \notin R
  <2>1. IsWellFoundedOn(R, Nat)
    BY NatOrder
  <2> HIDE DEF R
  <2> QED BY <2>1, WFMin
<1>2. \A y \in S : ~ (y < x)
  BY <1>1
<1> QED BY <1>2

(* A set of naturals with 0 and every successor has all of them.           *)
LEMMA Induction ==
  ASSUME NEW T, 0 \in T, \A n \in Nat : n \in T => n + 1 \in T
  PROVE  Nat \subseteq T
<1> SUFFICES ASSUME Nat \ T # {} PROVE FALSE
  OBVIOUS
<1>1. PICK x \in Nat \ T : \A y \in Nat \ T : x <= y
  BY Least
<1>2. x # 0 /\ x - 1 \in Nat
  OBVIOUS
<1>3. x - 1 \in T
  BY <1>1, <1>2
<1> QED BY <1>2, <1>3

(* The oldest key of several is one of them.                               *)
LEMMA SmallestKey ==
  ASSUME NEW keys, keys \subseteq Key, keys # {}
  PROVE  Smallest(keys) \in keys
<1> DEFINE numbers == {k[3] : k \in keys}
<1>1. numbers \subseteq Nat /\ numbers # {}
  BY DEF Key
<1>2. PICK m \in numbers : \A n \in numbers : m <= n
  <2> HIDE DEF numbers
  <2> QED BY <1>1, Least
<1>3. \E k \in keys : \A l \in keys : k[3] <= l[3]
  BY <1>2
<1> QED BY <1>3 DEF Smallest

(* The loop is defined turn by turn.                                       *)
Loop(of, old, new, order, n, turn) ==
  turn = [i \in 0 .. n |->
            IF i = 0 THEN NothingCompared
            ELSE Compare(of, order[i], new[order[i]], old, turn[i - 1])]

LEMMA LoopExists ==
  ASSUME NEW of, NEW old, NEW new, NEW order
  PROVE  \A n \in Nat : \E turn : Loop(of, old, new, order, n, turn)
<1> DEFINE T == {n \in Nat : \E turn : Loop(of, old, new, order, n, turn)}
           C(i, d) == Compare(of, order[i], new[order[i]], old, d)
<1> HIDE DEF C
<1>1. 0 \in T
  <2> DEFINE turn == [i \in 0 .. 0 |-> NothingCompared]
  <2>1. turn = [i \in 0 .. 0 |-> IF i = 0 THEN NothingCompared ELSE C(i, turn[i - 1])]
    OBVIOUS
  <2>2. \E f : f = [i \in 0 .. 0 |-> IF i = 0 THEN NothingCompared ELSE C(i, f[i - 1])]
    BY <2>1
  <2> QED BY <2>2 DEF Loop, C
<1>2. ASSUME NEW n \in Nat, n \in T PROVE n + 1 \in T
  <2>1. PICK f : f = [i \in 0 .. n |-> IF i = 0 THEN NothingCompared ELSE C(i, f[i - 1])]
    BY <1>2 DEF Loop, C
  <2> DEFINE g == [i \in 0 .. n + 1 |-> IF i = n + 1 THEN C(n + 1, f[n]) ELSE f[i]]
  <2>2. \A i \in 0 .. n + 1 :
          g[i] = IF i = 0 THEN NothingCompared ELSE C(i, g[i - 1])
    <3> TAKE i \in 0 .. n + 1
    <3>1. CASE i = n + 1
      BY <3>1
    <3>2. CASE i \in 0 .. n
      BY <2>1, <3>2
    <3> QED BY <3>1, <3>2
  <2>3. g = [i \in 0 .. n + 1 |-> IF i = 0 THEN NothingCompared ELSE C(i, g[i - 1])]
    BY <2>2
  <2>4. \E h : h = [i \in 0 .. n + 1 |-> IF i = 0 THEN NothingCompared ELSE C(i, h[i - 1])]
    BY <2>3
  <2> QED BY <2>4 DEF Loop, C
<1> HIDE DEF T
<1>3. Nat \subseteq T
  BY <1>1, <1>2, Induction
<1> QED BY <1>3 DEF T

LEMMA Turns ==
  ASSUME NEW of, NEW old, NEW new, NEW order, Len(order) \in Nat
  PROVE  LET turn == Compared(of, old, new, order) IN
         /\ turn[0] = NothingCompared
         /\ \A n \in Nat : n < Len(order) =>
              turn[n + 1] = Compare(of, order[n + 1], new[order[n + 1]], old, turn[n])
<1> DEFINE C(i, d) == Compare(of, order[i], new[order[i]], old, d)
           turn == Compared(of, old, new, order)
<1>1. \E f : f = [i \in 0 .. Len(order) |-> IF i = 0 THEN NothingCompared ELSE C(i, f[i - 1])]
  <2>1. PICK f : Loop(of, old, new, order, Len(order), f)
    BY LoopExists
  <2> QED BY <2>1 DEF Loop
<1>2. turn = CHOOSE f : f = [i \in 0 .. Len(order) |->
                               IF i = 0 THEN NothingCompared ELSE C(i, f[i - 1])]
  BY DEF Compared
<1> HIDE DEF C, turn
<1>3. turn = [i \in 0 .. Len(order) |-> IF i = 0 THEN NothingCompared ELSE C(i, turn[i - 1])]
  BY <1>1, <1>2
<1>4. turn[0] = NothingCompared
  BY <1>3
<1>5. ASSUME NEW n \in Nat, n < Len(order) PROVE turn[n + 1] = C(n + 1, turn[n])
  BY <1>3, <1>5
<1> QED BY <1>4, <1>5 DEF C, turn

-----------------------------------------------------------------------------
(* What the loop has said of the items it has compared.                    *)
Watched(p) == p.base \notin TriggerStart
Told(p, payloads, said) == Watched(p) => Configuration(p) \in Configurations(payloads) \cup said

Accounted(old, new, done, diff) ==
  /\ DOMAIN diff = {"matched", "rotated", "events"}
  /\ \A key \in done :
       Told(new[key], Items(old), Configurations(After(diff.events)))
  /\ \A k \in diff.matched : k \in DOMAIN old =>
       Told(old[k], Items(new), Configurations(Before(diff.events)))

FitsSource(of, f) == IsItems(f) /\ (of # "services" => Bare(f))

LEMMA PayloadParts == \A p \in Payload :
  /\ p.base \in STRING /\ p.n \in Nat /\ p.perUser \in BOOLEAN
  /\ p.setting \in Setting /\ p # None
BY NoneAssumption DEF Payload

(* A pair that is not reported has the configuration it had.               *)
LEMMA UnchangedConfiguration ==
  ASSUME NEW of, NEW p \in Payload, NEW q \in Payload, Unchanged(of, p, q),
         of # "services" => p.base = q.base /\ p.n = q.n /\ ~ p.perUser /\ ~ q.perUser
  PROVE  /\ p.base = q.base
         /\ Watched(p) => Configuration(p) = Configuration(q)
<1>1. p.base = q.base /\ p.perUser = q.perUser /\ (~ p.perUser => p.n = q.n)
  BY PayloadParts DEF Unchanged, SameName, Paired
<1>2. Watched(p) => p.setting = q.setting
  BY DEF Unchanged, Oscillates, Watched
<1> QED BY <1>1, <1>2 DEF Configuration

LEMMA PreviousFits ==
  ASSUME NEW of, NEW key, NEW new, NEW old, NEW matched, DOMAIN old \subseteq Key,
         PreviousKey(of, key, new, old, matched) # None
  PROVE  LET was == PreviousKey(of, key, new, old, matched) IN
         /\ was \in DOMAIN old
         /\ was = key \/ (of = "apps" /\ was[2] = key[2]) \/ of = "services"
<1> DEFINE C == Candidates(of, key, new, old, matched)
           P == Preferred(of, new, old, C)
           was == PreviousKey(of, key, new, old, matched)
<1>1. CASE key \in DOMAIN old
  BY <1>1 DEF PreviousKey
<1>2. CASE key \notin DOMAIN old
  <2>1. C # {} /\ was = Smallest(P)
    BY <1>2 DEF PreviousKey
  <2>2. P \subseteq C /\ P # {}
    BY <2>1 DEF Preferred
  <2>3. C \subseteq DOMAIN old /\ \A k \in C : (of = "apps" /\ k[2] = key[2]) \/ of = "services"
    BY DEF Candidates
  <2>4. was \in P
    <3> HIDE DEF P, C
    <3> QED BY <2>1, <2>2, <2>3, SmallestKey
  <2> HIDE DEF P, C, was
  <2>5. was \in C
    BY <2>2, <2>4
  <2> QED BY <2>3, <2>5 DEF was
<1> QED BY <1>1, <1>2

(* A turn accounts for its item, and keeps what was accounted for.         *)
LEMMA TurnAccounts ==
  ASSUME NEW of, NEW old, NEW new, FitsSource(of, old), FitsSource(of, new),
         NEW done, NEW diff, Accounted(old, new, done, diff), NEW key \in DOMAIN new
  PROVE  Accounted(old, new, done \cup {key}, Compare(of, key, new[key], old, diff))
<1> DEFINE was == PreviousKey(of, key, new[key], old, diff.matched)
<1> SUFFICES ASSUME NEW next, next = Compare(of, key, new[key], old, diff)
             PROVE  Accounted(old, new, done \cup {key}, next)
  OBVIOUS
<1>0. new[key] \in Payload
  BY DEF FitsSource, IsItems
<1>1. ASSUME NEW more, DOMAIN next = DOMAIN diff, next.events = diff.events \cup more,
             Told(new[key], Items(old), Configurations(After(next.events))),
             \A k \in next.matched \ diff.matched : k \in DOMAIN old =>
               Told(old[k], Items(new), Configurations(Before(next.events)))
      PROVE  Accounted(old, new, done \cup {key}, next)
  <2>1. \A S, T : S \subseteq T => Configurations(S) \subseteq Configurations(T)
    BY DEF Configurations
  <2>2. /\ Configurations(After(diff.events)) \subseteq Configurations(After(next.events))
        /\ Configurations(Before(diff.events)) \subseteq Configurations(Before(next.events))
    BY <1>1, <2>1 DEF After, Before
  <2> QED BY <1>1, <2>2 DEF Accounted, Told
<1>2. CASE was = None
  <2> DEFINE e == Event("added", None, new[key])
  <2>1. next = [diff EXCEPT !.events = @ \cup {e}]
    BY <1>2 DEF Compare
  <2>2. /\ DOMAIN next = DOMAIN diff /\ next.events = diff.events \cup {e}
        /\ next.matched = diff.matched
    <3> HIDE DEF e
    <3> QED BY <2>1 DEF Accounted
  <2>3. new[key] \in After(next.events)
    <3>1. e \in next.events /\ e.after = new[key] /\ new[key] # None
      BY <1>0, <2>2, PayloadParts DEF Event
    <3> HIDE DEF e
    <3> QED BY <3>1 DEF After
  <2>4. Told(new[key], Items(old), Configurations(After(next.events)))
    BY <2>3 DEF Told, Configurations, Watched
  <2> HIDE DEF e
  <2> QED BY <1>1, <2>2, <2>4
<1>3. CASE was # None
  <2> DEFINE same == Unchanged(of, old[was], new[key])
             more == IF same THEN {} ELSE {Event("updated", old[was], new[key])}
  <2>1. /\ was \in DOMAIN old
        /\ was = key \/ (of = "apps" /\ was[2] = key[2]) \/ of = "services"
    BY <1>3, PreviousFits DEF FitsSource, IsItems
  <2>2. old[was] \in Payload
    BY <2>1 DEF FitsSource, IsItems
  <2>3. /\ DOMAIN next = DOMAIN diff /\ next.events = diff.events \cup more
        /\ next.matched = diff.matched \cup {was}
    BY <1>3 DEF Compare, Accounted
  <2>4. CASE same
    <3>1. of # "services" => /\ old[was].base = new[key].base /\ old[was].n = new[key].n
                             /\ ~ old[was].perUser /\ ~ new[key].perUser
      BY <2>1 DEF FitsSource, Bare
    <3>2. /\ old[was].base = new[key].base
          /\ Watched(old[was]) => Configuration(old[was]) = Configuration(new[key])
      BY <1>0, <2>2, <2>4, <3>1, UnchangedConfiguration
    <3>3. old[was] \in Items(old) /\ new[key] \in Items(new)
      BY <2>1 DEF Items
    <3>4. /\ Told(new[key], Items(old), Configurations(After(next.events)))
          /\ Told(old[was], Items(new), Configurations(Before(next.events)))
      <4> HIDE DEF was
      <4> QED BY <3>2, <3>3 DEF Told, Configurations, Watched
    <3>5. \A k \in next.matched \ diff.matched : k \in DOMAIN old =>
            Told(old[k], Items(new), Configurations(Before(next.events)))
      BY <2>3, <3>4
    <3> HIDE DEF was, same, more
    <3> QED BY <1>1, <2>3, <3>4, <3>5
  <2>5. CASE ~ same
    <3>1. old[was] \in Before(next.events) /\ new[key] \in After(next.events)
      <4> DEFINE e == Event("updated", old[was], new[key])
      <4>1. e \in next.events
        BY <2>3, <2>5
      <4>2. e.before = old[was] /\ e.after = new[key] /\ old[was] # None /\ new[key] # None
        BY <1>0, <2>2, PayloadParts DEF Event
      <4> HIDE DEF e, was
      <4> QED BY <4>1, <4>2 DEF After, Before
    <3>2. /\ Told(new[key], Items(old), Configurations(After(next.events)))
          /\ Told(old[was], Items(new), Configurations(Before(next.events)))
      <4> HIDE DEF was
      <4> QED BY <3>1 DEF Told, Configurations, Watched
    <3>3. \A k \in next.matched \ diff.matched : k \in DOMAIN old =>
            Told(old[k], Items(new), Configurations(Before(next.events)))
      BY <2>3, <3>2
    <3> HIDE DEF was, same, more
    <3> QED BY <1>1, <2>3, <3>2, <3>3
  <2> QED BY <2>4, <2>5
<1> QED BY <1>2, <1>3

(* Every new item has its turn.                                            *)
LEMMA OrderCovers ==
  ASSUME NEW S, IsFiniteSet(S), NEW order \in SetToSeqs(S)
  PROVE  /\ Len(order) \in Nat /\ DOMAIN order = 1 .. Len(order)
         /\ \A i \in 1 .. Len(order) : order[i] \in S
         /\ \A key \in S : \E i \in 1 .. Len(order) : order[i] = key
<1> DEFINE n == Cardinality(S)
<1>1. n \in Nat
  BY FS_CardinalityType
<1>2. order \in [1 .. n -> S] /\ \A i, j \in 1 .. n : i # j => order[i] # order[j]
  BY DEF SetToSeqs
<1>3. IsFiniteSet(1 .. n) /\ Cardinality(1 .. n) = n
  BY <1>1, FS_Interval
<1>4. order \in Injection(1 .. n, S)
  BY <1>2 DEF Injection, IsInjective
<1> HIDE DEF n
<1>5. order \in Surjection(1 .. n, S)
  BY <1>3, <1>4, FS_Injection DEF n
<1>6. Len(order) = n
  BY <1>1, <1>2
<1> QED BY <1>1, <1>2, <1>5, <1>6 DEF Surjection

LEMMA LoopAccounts ==
  ASSUME NEW of, NEW old, NEW new, FitsSource(of, old), FitsSource(of, new),
         IsFiniteSet(DOMAIN new), NEW order \in SetToSeqs(DOMAIN new)
  PROVE  Accounted(old, new, DOMAIN new, Compared(of, old, new, order)[Len(order)])
<1> SUFFICES ASSUME NEW turn, turn = Compared(of, old, new, order)
             PROVE  Accounted(old, new, DOMAIN new, turn[Len(order)])
  OBVIOUS
<1> DEFINE Done(n) == {order[i] : i \in 1 .. n}
           T == {n \in Nat : n <= Len(order) => Accounted(old, new, Done(n), turn[n])}
<1>1. /\ Len(order) \in Nat
      /\ \A i \in 1 .. Len(order) : order[i] \in DOMAIN new
      /\ \A key \in DOMAIN new : \E i \in 1 .. Len(order) : order[i] = key
  BY OrderCovers
<1>2. /\ turn[0] = NothingCompared
      /\ \A n \in Nat : n < Len(order) =>
           turn[n + 1] = Compare(of, order[n + 1], new[order[n + 1]], old, turn[n])
  BY <1>1, Turns
<1>3. 0 \in T
  <2>1. Done(0) = {}
    OBVIOUS
  <2>2. Accounted(old, new, {}, NothingCompared)
    BY DEF Accounted, NothingCompared
  <2> QED BY <1>2, <2>1, <2>2
<1>4. ASSUME NEW n \in Nat, n \in T PROVE n + 1 \in T
  <2> SUFFICES ASSUME n + 1 <= Len(order) PROVE Accounted(old, new, Done(n + 1), turn[n + 1])
    OBVIOUS
  <2>1. Accounted(old, new, Done(n), turn[n]) /\ n + 1 \in 1 .. Len(order) /\ n < Len(order)
    BY <1>1, <1>4
  <2>2. Done(n + 1) = Done(n) \cup {order[n + 1]}
    OBVIOUS
  <2>3. PICK key, done, diff : /\ key \in DOMAIN new /\ key = order[n + 1]
                               /\ done = Done(n) /\ diff = turn[n]
    BY <1>1, <2>1
  <2> HIDE DEF Done
  <2>4. turn[n + 1] = Compare(of, key, new[key], old, diff)
    BY <1>2, <2>1, <2>3
  <2>5. Accounted(old, new, done \cup {key}, turn[n + 1])
    BY <2>1, <2>3, <2>4, TurnAccounts
  <2> QED BY <2>2, <2>3, <2>5
<1>5. Len(order) \in T
  <2> HIDE DEF T
  <2> QED BY <1>1, <1>3, <1>4, Induction
<1>6. Done(Len(order)) = DOMAIN new
  BY <1>1
<1> QED BY <1>1, <1>5, <1>6

(* Whatever the order and the matches: the diff tells what is new or gone. *)
LEMMA DiffTells ==
  ASSUME NEW of, NEW old, NEW new, FitsSource(of, old), FitsSource(of, new),
         IsFiniteSet(DOMAIN new), NEW order \in SetToSeqs(DOMAIN new),
         NEW said, said = Diff(of, old, new, order)
  PROVE  /\ Configurations(Items(new)) \ Configurations(Items(old))
              \subseteq Configurations(After(said))
         /\ Configurations(Items(old)) \ Configurations(Items(new))
              \subseteq Configurations(Before(said))
<1>1. PICK diff : diff = Compared(of, old, new, order)[Len(order)]
  OBVIOUS
<1>2. Accounted(old, new, DOMAIN new, diff)
  BY <1>1, LoopAccounts
<1>3. /\ diff.events \subseteq said
      /\ \A k \in DOMAIN old \ diff.matched : Event("removed", old[k], None) \in said
  BY <1>1 DEF Diff
<1>4. \A S, U : S \subseteq U => Configurations(S) \subseteq Configurations(U)
  BY DEF Configurations
<1>5. /\ Configurations(After(diff.events)) \subseteq Configurations(After(said))
      /\ Configurations(Before(diff.events)) \subseteq Configurations(Before(said))
  BY <1>3, <1>4 DEF After, Before
<1>6. ASSUME NEW c \in Configurations(Items(new)) \ Configurations(Items(old))
      PROVE  c \in Configurations(After(said))
  <2>1. PICK key \in DOMAIN new : Watched(new[key]) /\ c = Configuration(new[key])
    BY <1>6 DEF Configurations, Items, Watched
  <2> QED BY <1>2, <1>5, <1>6, <2>1 DEF Accounted, Told
<1>7. ASSUME NEW c \in Configurations(Items(old)) \ Configurations(Items(new))
      PROVE  c \in Configurations(Before(said))
  <2>1. PICK k \in DOMAIN old : Watched(old[k]) /\ c = Configuration(old[k])
    BY <1>7 DEF Configurations, Items, Watched
  <2>2. CASE k \in diff.matched
    BY <1>2, <1>5, <1>7, <2>1, <2>2 DEF Accounted, Told
  <2>3. CASE k \notin diff.matched
    <3>1. old[k] \in Payload /\ old[k] # None
      BY PayloadParts DEF FitsSource, IsItems
    <3>2. Event("removed", old[k], None).before = old[k]
      BY DEF Event
    <3>3. old[k] \in Before(said)
      BY <1>3, <2>3, <3>1, <3>2 DEF Before
    <3> QED BY <2>1, <3>3 DEF Configurations, Watched
  <2> QED BY <2>2, <2>3
<1> QED BY <1>6, <1>7

-----------------------------------------------------------------------------
(* What is stored, collected and compared fits the source.                 *)
Fits ==
  /\ source \in Source
  /\ FitsSource(source, stored) /\ FitsSource(source, current)
  /\ previous # None => FitsSource(source, previous)
  /\ IsFiniteSet(DOMAIN current)

Reported == Fits /\ NoConfigurationUnreported

LEMMA NothingFits == \A of : FitsSource(of, <<>>) /\ IsFiniteSet(DOMAIN <<>>)
<1>1. DOMAIN <<>> = {}
  OBVIOUS
<1> QED BY <1>1, FS_EmptySet, NoItems DEF FitsSource, Bare

LEMMA KeyedFits ==
  ASSUME NEW of \in Source, NEW snapshot \in Snapshots[of]
  PROVE  FitsSource(of, Keyed(snapshot)) /\ IsFiniteSet(DOMAIN Keyed(snapshot))
<1> DEFINE keys == {KeyOf(p, snapshot) : p \in snapshot}
           name == [p \in snapshot |-> KeyOf(p, snapshot)]
<1>1. IsFiniteSet(snapshot) /\ snapshot \in SUBSET Payload
  BY InventoryAssumption
<1>2. DOMAIN Keyed(snapshot) = keys
  BY DEF Keyed
<1>3. name \in Surjection(snapshot, keys)
  BY DEF Surjection
<1>4. IsFiniteSet(keys)
  <2> HIDE DEF keys, name
  <2> QED BY <1>1, <1>3, FS_Surjection
<1>5. ASSUME of # "services", NEW k \in DOMAIN Keyed(snapshot)
      PROVE  LET p == Keyed(snapshot)[k] IN p.base = k[2] /\ p.n = 0 /\ ~ p.perUser
  <2>1. \E p \in snapshot : KeyOf(p, snapshot) = k
    BY <1>2, <1>5
  <2>2. PICK p \in snapshot : KeyOf(p, snapshot) = k /\ Keyed(snapshot)[k] = p
    BY <1>2, <1>5, <2>1 DEF Keyed
  <2>3. p.n = 0 /\ ~ p.perUser
    BY <1>5, NamesAssumption DEF Listed
  <2> QED BY <2>2, <2>3 DEF KeyOf
<1> QED BY <1>1, <1>2, <1>4, <1>5, KeyedItems DEF FitsSource, Bare

LEMMA InitReported == Init => Reported
<1> SUFFICES ASSUME Init PROVE Reported
  OBVIOUS
<1>1. source \in Source /\ FitsSource(source, stored)
  BY NothingFits, InventoryAssumption, NamesAssumption DEF Init, FitsSource
<1> QED BY <1>1, NothingFits DEF Init, Reported, Fits, NoConfigurationUnreported

LEMMA NextReported == Reported /\ [Next]_vars => Reported'
<1> SUFFICES ASSUME Reported, [Next]_vars PROVE Reported'
  OBVIOUS
<1>0. Fits /\ NoConfigurationUnreported
  BY DEF Reported
<1>1. ASSUME UNCHANGED <<source, current, previous, entry>>,
             stored' = stored \/ stored' = <<>>
      PROVE  Reported'
  BY <1>0, <1>1, NothingFits DEF Reported, Fits, NoConfigurationUnreported
<1>2. ASSUME NEW p \in Process, Collect(p) PROVE Reported'
  <2>1. PICK snapshot \in Snapshots[source] : current' = Keyed(snapshot)
    BY <1>2 DEF Collect
  <2>2. FitsSource(source, current') /\ IsFiniteSet(DOMAIN current')
    BY <1>0, <2>1, KeyedFits DEF Fits
  <2> QED BY <1>0, <1>2, <2>2 DEF Collect, Reported, Fits, NoConfigurationUnreported
<1>3. ASSUME NEW p \in Process, ReadInitialized(p) PROVE Reported'
  BY <1>0, <1>3 DEF ReadInitialized, Reported, Fits, NoConfigurationUnreported
<1>4. ASSUME NEW p \in Process, Apply(p) PROVE Reported'
  <2>1. stored' = current /\ UNCHANGED <<source, current, previous>>
    BY <1>4 DEF Apply, read
  <2>2. Fits'
    BY <1>0, <2>1 DEF Fits
  <2>3. CASE UNCHANGED entry
    BY <1>0, <2>2, <2>3 DEF Reported, NoConfigurationUnreported
  <2>4. CASE entry' # entry
    <3>1. PICK order \in SetToSeqs(DOMAIN current) :
            /\ previous # None
            /\ entry' = [old |-> previous, new |-> current, alike |-> alike,
                         events |-> Diff(source, previous, current, order)]
      BY <1>4, <2>4 DEF Apply
    <3>2. PICK told : told = Diff(source, previous, current, order)
      OBVIOUS
    <3>3. /\ Configurations(Items(current)) \ Configurations(Items(previous))
               \subseteq Configurations(After(told))
          /\ Configurations(Items(previous)) \ Configurations(Items(current))
               \subseteq Configurations(Before(told))
      BY <1>0, <3>1, <3>2, DiffTells DEF Fits
    <3>4. NoConfigurationUnreported'
      BY <3>1, <3>2, <3>3 DEF NoConfigurationUnreported
    <3> QED BY <2>2, <3>4 DEF Reported
  <2> QED BY <2>3, <2>4
<1> QED
  BY <1>1, <1>2, <1>3, <1>4 DEF Next, Open, Rebaseline, Close, vars, read

(* A scan of the services, applications or drivers reports every setup     *)
(* that is new and every one that is gone, whatever the collector listed,  *)
(* whatever an older build had stored, and in whatever order the loop of   *)
(* apply_snapshot met the items and took candidates from each other.       *)
THEOREM ConfigurationsAreReported == Spec => []NoConfigurationUnreported
<1>1. Reported => NoConfigurationUnreported
  BY DEF Reported
<1> QED BY InitReported, NextReported, <1>1, PTL DEF Spec

-----------------------------------------------------------------------------
InFamily(p, b, s) == p.perUser /\ p.base = b /\ p.setting = s
KeysOf(f, b, s) == {k \in DOMAIN f : InFamily(f[k], b, s)}

(* Sign-ins, told by the keys: an item that has a key of its own there     *)
(* keeps its setup, every other one is an instance of a known family, and  *)
(* of every setup there are as many as before.                             *)
Rotation(old, new) ==
  /\ IsItems(old) /\ IsItems(new) /\ IsFiniteSet(DOMAIN old) /\ IsFiniteSet(DOMAIN new)
  /\ \A key \in DOMAIN new : ~ new[key].perUser => key \in DOMAIN old /\ old[key] = new[key]
  /\ \A k \in DOMAIN old : ~ old[k].perUser => k \in DOMAIN new /\ new[k] = old[k]
  /\ \A k \in DOMAIN old \cap DOMAIN new :
       /\ old[k].perUser = new[k].perUser
       /\ old[k].base = new[k].base /\ old[k].setting = new[k].setting
  /\ \A b \in STRING, s \in Setting :
       Cardinality(KeysOf(old, b, s)) = Cardinality(KeysOf(new, b, s))
  /\ \A key \in DOMAIN new : new[key].perUser =>
       /\ new[key].n # 0
       /\ \A k \in DOMAIN old : old[k].perUser /\ old[k].base = new[key].base =>
            old[k].type \in {"missing", new[key].type}

(* Of every setup the loop has matched at most as many old items as it has *)
(* met new ones, and at least one for each that had no key of its own.     *)
Balanced(matched, done, old, new, b, s) ==
  /\ Cardinality(matched \cap KeysOf(old, b, s)) <= Cardinality(done \cap KeysOf(new, b, s))
  /\ Cardinality((done \ DOMAIN old) \cap KeysOf(new, b, s))
       <= Cardinality(matched \cap KeysOf(old, b, s))

Quiet(old, new, done, diff) ==
  /\ DOMAIN diff = {"matched", "rotated", "events"} /\ diff.events = {}
  /\ done \subseteq DOMAIN new
  /\ diff.matched \subseteq DOMAIN old
  /\ done \cap DOMAIN old \subseteq diff.matched
  /\ \A b \in STRING, s \in Setting : Balanced(diff.matched, done, old, new, b, s)

(* One more or none.                                                       *)
LEMMA Grows ==
  ASSUME NEW A, NEW x, IsFiniteSet(A)
  PROVE  /\ Cardinality(A) \in Nat
         /\ Cardinality(A \cup {x}) = IF x \in A THEN Cardinality(A) ELSE Cardinality(A) + 1
         /\ IsFiniteSet(A \cup {x})
<1>1. CASE x \in A
  <2>1. A \cup {x} = A
    BY <1>1
  <2> QED BY <1>1, <2>1, FS_CardinalityType
<1>2. CASE x \notin A
  BY <1>2, FS_AddElement, FS_CardinalityType
<1> QED BY <1>1, <1>2

(* A turn keeps the balance: it takes the item's own old key, taken by now *)
(* or not, or one of the same setup that nobody has taken.                 *)
LEMMA StaysBalanced ==
  ASSUME NEW old, NEW new, NEW b, NEW s, NEW matched, NEW done, NEW key, NEW k,
         IsFiniteSet(matched), IsFiniteSet(done), key \notin done,
         k \in KeysOf(old, b, s) <=> key \in KeysOf(new, b, s),
         k \in matched => key \in DOMAIN old,
         Balanced(matched, done, old, new, b, s)
  PROVE  Balanced(matched \cup {k}, done \cup {key}, old, new, b, s)
<1> DEFINE U == KeysOf(old, b, s)
           V == KeysOf(new, b, s)
<1>1. PICK A, B, C : A = matched \cap U /\ B = done \cap V /\ C = (done \ DOMAIN old) \cap V
  OBVIOUS
<1>2. /\ IsFiniteSet(A) /\ IsFiniteSet(B) /\ IsFiniteSet(C)
      /\ key \notin B /\ key \notin C
  BY <1>1, FS_Subset
<1>3. Cardinality(A) <= Cardinality(B) /\ Cardinality(C) <= Cardinality(A)
  BY <1>1 DEF Balanced
<1>4. /\ Cardinality(A) \in Nat /\ Cardinality(B) \in Nat /\ Cardinality(C) \in Nat
      /\ Cardinality(A \cup {k}) = IF k \in A THEN Cardinality(A) ELSE Cardinality(A) + 1
      /\ Cardinality(B \cup {key}) = Cardinality(B) + 1
      /\ Cardinality(C \cup {key}) = Cardinality(C) + 1
  BY <1>2, Grows
<1>5. CASE k \in U
  <2>1. (matched \cup {k}) \cap U = A \cup {k} /\ (done \cup {key}) \cap V = B \cup {key}
    BY <1>1, <1>5
  <2>2. PICK D \in {C, C \cup {key}} :
          /\ D = ((done \cup {key}) \ DOMAIN old) \cap V
          /\ k \in A => D = C
    <3>1. CASE key \in DOMAIN old
      BY <1>1, <3>1
    <3>2. CASE key \notin DOMAIN old
      BY <1>1, <3>2
    <3> QED BY <3>1, <3>2
  <2>3. Cardinality(A \cup {k}) <= Cardinality(B \cup {key})
    BY <1>3, <1>4
  <2>4. Cardinality(D) <= Cardinality(A \cup {k})
    <3>1. CASE k \in A
      BY <1>3, <1>4, <2>2, <3>1
    <3>2. CASE k \notin A
      <4>1. Cardinality(A \cup {k}) = Cardinality(A) + 1
        BY <1>4, <3>2
      <4>2. Cardinality(D) \in {Cardinality(C), Cardinality(C) + 1}
        BY <1>4, <2>2
      <4> QED BY <1>3, <1>4, <4>1, <4>2
    <3> QED BY <3>1, <3>2
  <2> QED BY <2>1, <2>2, <2>3, <2>4 DEF Balanced
<1>6. CASE k \notin U
  <2>1. /\ (matched \cup {k}) \cap U = A /\ (done \cup {key}) \cap V = B
        /\ ((done \cup {key}) \ DOMAIN old) \cap V = C
    BY <1>1, <1>6
  <2> QED BY <1>3, <2>1 DEF Balanced
<1> QED BY <1>5, <1>6

(* A turn after sign-ins is quiet: an instance without a key of its own    *)
(* finds a predecessor of its setup that no other one has taken.           *)
LEMMA TurnQuiet ==
  ASSUME NEW old, NEW new, Rotation(old, new), NEW done, NEW diff, Quiet(old, new, done, diff),
         NEW key \in DOMAIN new \ done,
         NEW next, next = Compare("services", key, new[key], old, diff)
  PROVE  Quiet(old, new, done \cup {key}, next)
<1> DEFINE was == PreviousKey("services", key, new[key], old, diff.matched)
<1>1. /\ new[key] \in Payload /\ DOMAIN old \subseteq Key
      /\ \A k \in DOMAIN old : old[k] \in Payload
  BY DEF Rotation, IsItems
<1>2. IsFiniteSet(diff.matched) /\ IsFiniteSet(done)
  BY FS_Subset DEF Quiet, Rotation
<1>3. ASSUME NEW k \in DOMAIN old, was = k, was # None,
             k \in diff.matched => key \in DOMAIN old,
             key \in DOMAIN old => k = key,
             Unchanged("services", old[k], new[key]),
             old[k].perUser = new[key].perUser, old[k].base = new[key].base,
             old[k].setting = new[key].setting
      PROVE  Quiet(old, new, done \cup {key}, next)
  <2>1. DOMAIN next = DOMAIN diff /\ next.events = {} /\ next.matched = diff.matched \cup {k}
    BY <1>3 DEF Compare, Quiet
  <2>2. ASSUME NEW b \in STRING, NEW s \in Setting
        PROVE  Balanced(next.matched, done \cup {key}, old, new, b, s)
    <3>1. k \in KeysOf(old, b, s) <=> key \in KeysOf(new, b, s)
      BY <1>3 DEF KeysOf, InFamily
    <3>2. Balanced(diff.matched, done, old, new, b, s)
      BY DEF Quiet
    <3> QED BY <1>2, <1>3, <2>1, <3>1, <3>2, StaysBalanced
  <2> QED BY <1>3, <2>1, <2>2 DEF Quiet
<1>4. CASE key \in DOMAIN old
  <2>1. was = key /\ key # None
    BY <1>1, <1>4, NoneAssumption DEF PreviousKey
  <2>2. /\ old[key].perUser = new[key].perUser /\ old[key].base = new[key].base
        /\ old[key].setting = new[key].setting
    BY <1>4 DEF Rotation
  <2>3. SameName("services", old[key], new[key]) /\ SameType(old[key], new[key])
    <3>1. CASE new[key].perUser
      BY <1>4, <2>2, <3>1 DEF Rotation, SameName, SameType, Paired
    <3>2. CASE ~ new[key].perUser
      BY <1>4, <2>2, <3>2 DEF Rotation, SameName, SameType
    <3> QED BY <3>1, <3>2
  <2> QED BY <1>3, <1>4, <2>1, <2>2, <2>3 DEF Unchanged
<1>5. CASE key \notin DOMAIN old
  <2> DEFINE b == new[key].base
             s == new[key].setting
             C == Candidates("services", key, new[key], old, diff.matched)
             E == {k \in C : Unchanged("services", old[k], new[key])}
  <2>1. new[key].perUser /\ new[key].n # 0 /\ b \in STRING /\ s \in Setting
    BY <1>1, <1>5, PayloadParts DEF Rotation
  <2>2. \E k \in KeysOf(old, b, s) : k \notin diff.matched
    <3>1. PICK U, V, M : U = KeysOf(old, b, s) /\ V = KeysOf(new, b, s) /\ M = diff.matched
      OBVIOUS
    <3>2. IsFiniteSet(U) /\ IsFiniteSet(V) /\ key \in V /\ key \notin done
      BY <2>1, <3>1, FS_Subset DEF KeysOf, InFamily, Rotation
    <3>3. Cardinality(U) = Cardinality(V) /\ Cardinality(M \cap U) <= Cardinality(done \cap V)
      BY <2>1, <3>1 DEF Rotation, Quiet, Balanced
    <3>4. PICK W \in SUBSET V : W = done \cap V
      OBVIOUS
    <3>5. Cardinality(W) < Cardinality(V) /\ Cardinality(W) \in Nat /\ Cardinality(V) \in Nat
      <4>1. W # V /\ IsFiniteSet(W)
        BY <3>2, <3>4, FS_Subset
      <4> QED BY <3>2, <4>1, FS_Subset, FS_CardinalityType
    <3>6. M \cap U # U
      BY <3>3, <3>4, <3>5
    <3> QED BY <3>1, <3>6
  <2>3. \A k \in DOMAIN old :
          old[k].perUser /\ old[k].base = b =>
            /\ Paired(old[k], new[key])
            /\ SameName("services", old[k], new[key]) /\ SameType(old[k], new[key])
    BY <2>1 DEF Rotation, Paired, SameName, SameType
  <2>4. E # {}
    BY <2>2, <2>3 DEF KeysOf, InFamily, Candidates, Unchanged
  <2>5. was = Smallest(E)
    BY <1>5, <2>4 DEF PreviousKey, Preferred
  <2>6. /\ E \subseteq DOMAIN old \ diff.matched
        /\ \A k \in E : Paired(old[k], new[key]) /\ Unchanged("services", old[k], new[key])
    BY DEF Candidates
  <2>7. PICK k \in E : was = k
    <3> HIDE DEF E, was
    <3> QED BY <1>1, <2>4, <2>5, <2>6, SmallestKey
  <2>8. /\ k \in DOMAIN old \ diff.matched
        /\ Paired(old[k], new[key]) /\ Unchanged("services", old[k], new[key])
    BY <2>6, <2>7
  <2>9. old[k].setting = new[key].setting
    BY <2>1, <2>8 DEF Unchanged, Oscillates
  <2>10. k # None
    BY <1>1, <2>8, NoneAssumption
  <2> HIDE DEF was
  <2> QED BY <1>3, <1>5, <2>1, <2>7, <2>8, <2>9, <2>10 DEF Paired
<1> QED BY <1>4, <1>5

LEMMA OrderOnce ==
  ASSUME NEW S, NEW order \in SetToSeqs(S), IsFiniteSet(S)
  PROVE  \A i, j \in 1 .. Len(order) : i # j => order[i] # order[j]
<1>1. Cardinality(S) \in Nat
  BY FS_CardinalityType
<1> QED BY <1>1 DEF SetToSeqs

LEMMA LoopQuiet ==
  ASSUME NEW old, NEW new, Rotation(old, new), NEW order \in SetToSeqs(DOMAIN new)
  PROVE  Quiet(old, new, DOMAIN new, Compared("services", old, new, order)[Len(order)])
<1> SUFFICES ASSUME NEW turn, turn = Compared("services", old, new, order)
             PROVE  Quiet(old, new, DOMAIN new, turn[Len(order)])
  OBVIOUS
<1> DEFINE Done(n) == {order[i] : i \in 1 .. n}
           T == {n \in Nat : n <= Len(order) => Quiet(old, new, Done(n), turn[n])}
<1>1. /\ Len(order) \in Nat
      /\ \A i \in 1 .. Len(order) : order[i] \in DOMAIN new
      /\ \A key \in DOMAIN new : \E i \in 1 .. Len(order) : order[i] = key
      /\ \A i, j \in 1 .. Len(order) : i # j => order[i] # order[j]
  BY OrderCovers, OrderOnce DEF Rotation
<1>2. /\ turn[0] = NothingCompared
      /\ \A n \in Nat : n < Len(order) =>
           turn[n + 1] = Compare("services", order[n + 1], new[order[n + 1]], old, turn[n])
  BY <1>1, Turns
<1>3. 0 \in T
  <2>1. Done(0) = {}
    OBVIOUS
  <2>2. Quiet(old, new, {}, NothingCompared)
    <3>1. \A b, s : Balanced({}, {}, old, new, b, s)
      BY FS_EmptySet DEF Balanced
    <3> QED BY <3>1 DEF Quiet, NothingCompared
  <2> QED BY <1>2, <2>1, <2>2
<1>4. ASSUME NEW n \in Nat, n \in T PROVE n + 1 \in T
  <2> SUFFICES ASSUME n + 1 <= Len(order) PROVE Quiet(old, new, Done(n + 1), turn[n + 1])
    OBVIOUS
  <2>1. Quiet(old, new, Done(n), turn[n]) /\ n + 1 \in 1 .. Len(order) /\ n < Len(order)
    BY <1>1, <1>4
  <2>2. Done(n + 1) = Done(n) \cup {order[n + 1]} /\ order[n + 1] \notin Done(n)
    BY <1>1, <2>1
  <2>3. PICK key, done, diff : /\ key \in DOMAIN new /\ key = order[n + 1]
                               /\ done = Done(n) /\ diff = turn[n]
    BY <1>1, <2>1
  <2> HIDE DEF Done
  <2>4. turn[n + 1] = Compare("services", key, new[key], old, diff)
    BY <1>2, <2>1, <2>3
  <2>5. Quiet(old, new, done \cup {key}, turn[n + 1])
    BY <2>1, <2>2, <2>3, <2>4, TurnQuiet
  <2> QED BY <2>2, <2>3, <2>5
<1>5. Len(order) \in T
  <2> HIDE DEF T
  <2> QED BY <1>1, <1>3, <1>4, Induction
<1>6. Done(Len(order)) = DOMAIN new
  BY <1>1
<1> QED BY <1>1, <1>5, <1>6

(* What no new item has been matched with in the end.                      *)
Left(old, diff, b, s) == KeysOf(old, b, s) \ diff.matched

(* After the last turn, what is left of a setup is outnumbered by its keys *)
(* that stayed and by those that are new.                                  *)
LEMMA FewAreLeft ==
  ASSUME NEW old, NEW new, Rotation(old, new), NEW diff, Quiet(old, new, DOMAIN new, diff),
         NEW b \in STRING, NEW s \in Setting
  PROVE  /\ IsFiniteSet(Left(old, diff, b, s))
         /\ Cardinality(Left(old, diff, b, s)) <= Cardinality(KeysOf(new, b, s) \cap DOMAIN old)
         /\ Cardinality(Left(old, diff, b, s)) <= Cardinality(KeysOf(new, b, s) \ DOMAIN old)
<1>1. PICK U, V, M, L, O, X :
        /\ U = KeysOf(old, b, s) /\ V = KeysOf(new, b, s)
        /\ M = diff.matched \cap U /\ L = U \ diff.matched
        /\ O = V \cap DOMAIN old /\ X = V \ DOMAIN old
  OBVIOUS
<1>2. /\ IsFiniteSet(U) /\ IsFiniteSet(V) /\ Cardinality(U) = Cardinality(V)
  BY <1>1, FS_Subset DEF KeysOf, Rotation
<1>3. /\ M \cup L = U /\ M \cap L = {} /\ O \cup X = V /\ O \cap X = {}
      /\ IsFiniteSet(M) /\ IsFiniteSet(L) /\ IsFiniteSet(O) /\ IsFiniteSet(X)
  BY <1>1, <1>2, FS_Subset
<1>4. /\ Cardinality(U) = Cardinality(M) + Cardinality(L)
      /\ Cardinality(V) = Cardinality(O) + Cardinality(X)
      /\ Cardinality(M) \in Nat /\ Cardinality(L) \in Nat
      /\ Cardinality(O) \in Nat /\ Cardinality(X) \in Nat
  <2>1. ASSUME NEW A, NEW B, IsFiniteSet(A), IsFiniteSet(B), A \cap B = {}
        PROVE  /\ Cardinality(A \cup B) = Cardinality(A) + Cardinality(B)
               /\ Cardinality(A) \in Nat /\ Cardinality(B) \in Nat
    <3>1. Cardinality(A \cup B) = Cardinality(A) + Cardinality(B) - Cardinality(A \cap B)
      BY <2>1, FS_Union
    <3>2. Cardinality(A \cap B) = 0 /\ Cardinality(A) \in Nat /\ Cardinality(B) \in Nat
      BY <2>1, FS_EmptySet, FS_CardinalityType
    <3> QED BY <3>1, <3>2
  <2> QED BY <1>3, <2>1
<1>5. Cardinality(X) <= Cardinality(M)
  <2>1. (DOMAIN new \ DOMAIN old) \cap V = X /\ diff.matched \cap U = M
    BY <1>1 DEF KeysOf
  <2> QED BY <1>1, <2>1 DEF Quiet, Balanced
<1>6. Cardinality(O) <= Cardinality(M)
  <2>1. ASSUME NEW k \in O PROVE k \in M
    <3>1. k \in DOMAIN old \cap DOMAIN new /\ InFamily(new[k], b, s)
      BY <1>1, <2>1 DEF KeysOf
    <3>2. k \in diff.matched
      BY <3>1 DEF Quiet
    <3>3. InFamily(old[k], b, s)
      BY <3>1 DEF Rotation, InFamily
    <3> QED BY <1>1, <3>1, <3>2, <3>3 DEF KeysOf
  <2>2. O \in SUBSET M
    BY <2>1
  <2> QED BY <1>3, <2>2, FS_Subset
<1>7. Cardinality(L) <= Cardinality(O) /\ Cardinality(L) <= Cardinality(X)
  <2>1. \A m, l, o, x \in Nat : m + l = o + x /\ x <= m /\ o <= m => l <= o /\ l <= x
    OBVIOUS
  <2>2. Cardinality(M) + Cardinality(L) = Cardinality(O) + Cardinality(X)
    BY <1>2, <1>4
  <2> QED BY <1>4, <1>5, <1>6, <2>1, <2>2
<1> QED BY <1>1, <1>3, <1>7 DEF Left

(* What is reported in the end: at most a refresh, and that of a setup no  *)
(* more are gone than keys stayed, and than keys are new.                  *)
LEMMA RotationQuiet ==
  ASSUME NEW old, NEW new, Rotation(old, new), NEW order \in SetToSeqs(DOMAIN new),
         NEW told, told = Diff("services", old, new, order)
  PROVE  /\ \A e \in told : e.action = "refreshed" \/ (e.action = "removed" /\ e.before.perUser)
         /\ \A b \in STRING, s \in Setting :
              /\ IsFiniteSet(Gone(told, b, s))
              /\ Cardinality(Gone(told, b, s)) <= Cardinality(KeysOf(new, b, s) \cap DOMAIN old)
              /\ Cardinality(Gone(told, b, s)) <= Cardinality(KeysOf(new, b, s) \ DOMAIN old)
<1>1. PICK diff : diff = Compared("services", old, new, order)[Len(order)]
  OBVIOUS
<1>2. Quiet(old, new, DOMAIN new, diff)
  BY <1>1, LoopQuiet
<1>3. \A k \in DOMAIN old \ diff.matched : old[k].perUser
  BY <1>2 DEF Quiet, Rotation
<1>4. \A e \in told : \/ e = Event("refreshed", None, None)
                      \/ \E k \in DOMAIN old \ diff.matched : e = Event("removed", old[k], None)
  BY <1>1, <1>2 DEF Diff, Quiet
<1>5. ASSUME NEW b \in STRING, NEW s \in Setting
      PROVE  /\ IsFiniteSet(Gone(told, b, s))
             /\ Cardinality(Gone(told, b, s)) <= Cardinality(KeysOf(new, b, s) \cap DOMAIN old)
             /\ Cardinality(Gone(told, b, s)) <= Cardinality(KeysOf(new, b, s) \ DOMAIN old)
  <2>1. PICK L, G, T : /\ L = Left(old, diff, b, s) /\ G = Gone(told, b, s)
                       /\ T = {Event("removed", old[k], None) : k \in L}
    OBVIOUS
  <2>2. G \in SUBSET T
    <3>1. ASSUME NEW e \in G PROVE e \in T
      <4>1. e \in told /\ e.action = "removed" /\ e.before.base = b /\ e.before.setting = s
        BY <2>1, <3>1 DEF Gone
      <4>2. PICK k \in DOMAIN old \ diff.matched : e = Event("removed", old[k], None)
        BY <1>4, <4>1 DEF Event
      <4>3. k \in L
        BY <1>3, <2>1, <4>1, <4>2 DEF Left, KeysOf, InFamily, Event
      <4> QED BY <2>1, <4>2, <4>3
    <3> QED BY <3>1
  <2>3. /\ IsFiniteSet(L)
        /\ Cardinality(L) <= Cardinality(KeysOf(new, b, s) \cap DOMAIN old)
        /\ Cardinality(L) <= Cardinality(KeysOf(new, b, s) \ DOMAIN old)
    BY <1>2, <2>1, FewAreLeft
  <2>4. IsFiniteSet(T) /\ Cardinality(T) <= Cardinality(L)
    <3> DEFINE g == [k \in L |-> Event("removed", old[k], None)]
    <3>1. g \in Surjection(L, T)
      BY <2>1 DEF Surjection
    <3> HIDE DEF g
    <3> QED BY <2>3, <3>1, FS_Surjection
  <2>5. IsFiniteSet(G) /\ Cardinality(G) <= Cardinality(T)
    BY <2>2, <2>4, FS_Subset
  <2>6. \A S \in {KeysOf(new, b, s) \cap DOMAIN old, KeysOf(new, b, s) \ DOMAIN old} :
          Cardinality(S) \in Nat
    BY FS_Subset, FS_CardinalityType DEF Rotation, KeysOf
  <2>7. Cardinality(G) \in Nat /\ Cardinality(T) \in Nat /\ Cardinality(L) \in Nat
    BY <2>3, <2>4, <2>5, FS_CardinalityType
  <2> QED BY <2>1, <2>3, <2>4, <2>5, <2>6, <2>7
<1> QED BY <1>3, <1>4, <1>5 DEF Event

ItemsKnown(f) == IsItems(f) /\ IsFiniteSet(DOMAIN f) /\ (KeyedToday(f) \/ KeyedByName(f))

LEMMA ItemsAreFinite == ASSUME NEW f, IsFiniteSet(DOMAIN f) PROVE IsFiniteSet(Items(f))
<1> DEFINE g == [k \in DOMAIN f |-> f[k]]
<1>1. g \in Surjection(DOMAIN f, Items(f))
  BY DEF Surjection, Items
<1> HIDE DEF g
<1> QED BY <1>1, FS_Surjection

(* An item has one key, and the key names its base.                        *)
LEMMA KeysNameItems ==
  ASSUME NEW f, ItemsKnown(f)
  PROVE  /\ \A k \in DOMAIN f : f[k] \in Payload /\ f[k] \in Items(f) /\ k[2] = f[k].base
         /\ \A k \in DOMAIN f : ~ f[k].perUser => k = <<"plain", f[k].base, f[k].n>>
         /\ \A k, l \in DOMAIN f : f[k] = f[l] => k = l
<1>1. ASSUME NEW k \in DOMAIN f
      PROVE  /\ f[k] \in Payload /\ f[k] \in Items(f)
             /\ k \in {<<"plain", f[k].base, f[k].n>>, <<"per-user", f[k].base, 0>>,
                       <<"per-user", f[k].base, f[k].n>>}
             /\ ~ f[k].perUser => k = <<"plain", f[k].base, f[k].n>>
  <2>1. f[k] \in Payload /\ f[k] \in Items(f)
    BY DEF ItemsKnown, IsItems, Items
  <2>2. k = KeyOf(f[k], Items(f)) \/ k = <<"plain", f[k].base, f[k].n>>
    BY DEF ItemsKnown, KeyedToday, KeyedByName
  <2> QED BY <2>1, <2>2 DEF KeyOf
<1>2. \A k \in DOMAIN f : k[2] = f[k].base
  BY <1>1
<1>3. \A k, l \in DOMAIN f : f[k] = f[l] => k = l
  <2>1. CASE KeyedToday(f)
    BY <2>1 DEF KeyedToday
  <2>2. CASE KeyedByName(f)
    BY <2>2 DEF KeyedByName
  <2> QED BY <2>1, <2>2 DEF ItemsKnown
<1> QED BY <1>1, <1>2, <1>3

(* A family has as many instances as its setups say.                       *)
LEMMA FamilySize ==
  ASSUME NEW f, NEW b, ItemsKnown(f)
  PROVE  /\ IsFiniteSet(Family(f, b))
         /\ Cardinality(Family(f, b)) = SetUp(f, b)["auto"] + SetUp(f, b)["manual"]
<1> DEFINE F == Family(f, b)
           A == {p \in F : p.setting = "auto"}
           M == {p \in F : p.setting = "manual"}
<1>1. IsFiniteSet(F)
  <2>1. IsFiniteSet(Items(f)) /\ F \in SUBSET Items(f)
    BY ItemsAreFinite DEF ItemsKnown, Family
  <2> HIDE DEF F
  <2> QED BY <2>1, FS_Subset
<1>2. \A p \in F : p.setting \in {"auto", "manual"}
  BY KeysNameItems, PayloadParts DEF Family, Items, Setting
<1>3. F = A \cup M /\ A \cap M = {} /\ IsFiniteSet(A) /\ IsFiniteSet(M)
  <2>1. A \in SUBSET F /\ M \in SUBSET F
    OBVIOUS
  <2>2. F = A \cup M /\ A \cap M = {}
    BY <1>2
  <2> HIDE DEF A, M
  <2> QED BY <1>1, <2>1, <2>2, FS_Subset
<1>4. SetUp(f, b)["auto"] = Cardinality(A) /\ SetUp(f, b)["manual"] = Cardinality(M)
  BY DEF SetUp, Instances, Setting
<1>5. Cardinality(F) = Cardinality(A) + Cardinality(M)
  <2> HIDE DEF A, M, F
  <2>1. Cardinality(A \cup M) = Cardinality(A) + Cardinality(M) - Cardinality(A \cap M)
    BY <1>3, FS_Union
  <2>2. Cardinality(A \cap M) = 0 /\ Cardinality(A) \in Nat /\ Cardinality(M) \in Nat
    BY <1>3, FS_EmptySet, FS_CardinalityType
  <2> QED BY <1>3, <2>1, <2>2
<1> QED BY <1>1, <1>4, <1>5

(* Setups are counted by keys or by items alike.                           *)
LEMMA KeysCount ==
  ASSUME NEW f, NEW b, NEW s \in Setting, ItemsKnown(f)
  PROVE  SetUp(f, b)[s] = Cardinality(KeysOf(f, b, s)) /\ IsFiniteSet(KeysOf(f, b, s))
<1> DEFINE K == KeysOf(f, b, s)
           P == {p \in Family(f, b) : p.setting = s}
           g == [k \in K |-> f[k]]
<1>1. IsFiniteSet(K)
  BY FS_Subset DEF ItemsKnown, KeysOf
<1>2. g \in Surjection(K, P) /\ g \in Injection(K, P)
  <2>1. \A k \in K : f[k] \in P
    BY DEF KeysOf, InFamily, Family, Items
  <2>2. \A p \in P : \E k \in K : f[k] = p
    BY DEF KeysOf, InFamily, Family, Items
  <2>3. \A k, l \in K : f[k] = f[l] => k = l
    BY KeysNameItems DEF KeysOf
  <2> HIDE DEF K, P
  <2> QED BY <2>1, <2>2, <2>3 DEF Surjection, Injection, IsInjective
<1>3. Cardinality(K) = Cardinality(P)
  <2> HIDE DEF K, P, g
  <2> QED BY <1>1, <1>2, FS_Surjection
<1> QED BY <1>1, <1>3 DEF SetUp, Instances

LEMMA OnlyOne == ASSUME NEW S, IsFiniteSet(S), Cardinality(S) = 1 PROVE \A x, y \in S : x = y
BY FS_Singleton

(* Sign-ins, told by the payloads, are sign-ins told by the keys.          *)
LEMMA SignInsRotate ==
  ASSUME NEW old, NEW new, ItemsKnown(old), ItemsKnown(new),
         KeyedToday(new), Listed(Items(new)), OnlySignIns(old, new)
  PROVE  Rotation(old, new)
<1>1. ASSUME NEW key \in DOMAIN new, ~ new[key].perUser
      PROVE  key \in DOMAIN old /\ old[key] = new[key]
  <2>1. new[key] \in Others(old)
    BY <1>1 DEF OnlySignIns, Others, Items
  <2>2. PICK k \in DOMAIN old : old[k] = new[key]
    BY <2>1 DEF Others, Items
  <2> QED BY <1>1, <2>2, KeysNameItems
<1>2. ASSUME NEW k \in DOMAIN old, ~ old[k].perUser PROVE k \in DOMAIN new /\ new[k] = old[k]
  <2>1. old[k] \in Others(new)
    BY <1>2 DEF OnlySignIns, Others, Items
  <2>2. PICK l \in DOMAIN new : new[l] = old[k]
    BY <2>1 DEF Others, Items
  <2> QED BY <1>2, <2>2, KeysNameItems
<1>3. ASSUME NEW k \in DOMAIN old \cap DOMAIN new, old[k].perUser, new[k].perUser
      PROVE  LET b == old[k].base IN
             /\ new[k].base = b /\ b \in PerUserBases(old) /\ SetUp(old, b) = SetUp(new, b)
             /\ old[k] \in Family(old, b) /\ new[k] \in Family(new, b)
             /\ Cardinality(Family(old, b)) = Cardinality(Family(new, b))
             /\ Cardinality(Family(old, b)) = 1 => k = <<"per-user", b, 0>>
             /\ Cardinality(Family(old, b)) # 1 =>
                  old[k].n = new[k].n /\ old[k].setting = new[k].setting
  <2> DEFINE b == old[k].base
  <2>1. new[k].base = b
    BY KeysNameItems
  <2>2. old[k] \in Family(old, b) /\ new[k] \in Family(new, b) /\ b \in PerUserBases(old)
    BY <1>3, <2>1 DEF Family, Items, PerUserBases
  <2>3. SetUp(old, b) = SetUp(new, b)
    BY <2>2 DEF OnlySignIns
  <2>4. Cardinality(Family(old, b)) = Cardinality(Family(new, b))
    BY <2>3, FamilySize
  <2>5. k = IF Cardinality(Family(new, b)) = 1
            THEN <<"per-user", b, 0>> ELSE <<"per-user", b, new[k].n>>
    BY <1>3, <2>1 DEF KeyedToday, KeyOf, Family
  <2>6. ~ KeyedByName(old)
    BY <2>5 DEF KeyedByName
  <2>7. k = IF Cardinality(Family(old, b)) = 1
            THEN <<"per-user", b, 0>> ELSE <<"per-user", b, old[k].n>>
    BY <1>3, <2>6 DEF ItemsKnown, KeyedToday, KeyOf, Family
  <2>8. ASSUME Cardinality(Family(old, b)) # 1
        PROVE  old[k].n = new[k].n /\ old[k].setting = new[k].setting
    <3>1. old[k].n = new[k].n
      BY <2>4, <2>5, <2>7, <2>8
    <3> QED BY <2>2, <3>1 DEF OnlySignIns
  <2> QED BY <2>1, <2>2, <2>3, <2>4, <2>7, <2>8
<1>4. ASSUME NEW k \in DOMAIN old \cap DOMAIN new
      PROVE  /\ old[k].perUser = new[k].perUser
             /\ old[k].base = new[k].base /\ old[k].setting = new[k].setting
  <2>1. CASE ~ old[k].perUser \/ ~ new[k].perUser
    BY <1>1, <1>2, <2>1
  <2>2. CASE old[k].perUser /\ new[k].perUser
    <3> DEFINE b == old[k].base
               s == old[k].setting
    <3>1. s \in Setting /\ old[k].perUser = new[k].perUser
      BY <2>2, KeysNameItems, PayloadParts
    <3>2. CASE Cardinality(Family(old, b)) = 1
      <4>1. k \in KeysOf(old, b, s)
        BY <2>2 DEF KeysOf, InFamily
      <4>2. Cardinality(KeysOf(new, b, s)) = Cardinality(KeysOf(old, b, s))
        BY <1>3, <2>2, <3>1, KeysCount
      <4>3. KeysOf(new, b, s) # {}
        BY <3>1, <4>1, <4>2, KeysCount, FS_EmptySet
      <4>4. PICK l \in DOMAIN new : InFamily(new[l], b, s)
        BY <4>3 DEF KeysOf
      <4>5. new[l] \in Family(new, b)
        BY <4>4 DEF InFamily, Family, Items
      <4>6. new[l] = new[k]
        BY <1>3, <2>2, <3>2, <4>5, FamilySize, OnlyOne
      <4> QED BY <1>3, <2>2, <3>1, <4>4, <4>6 DEF InFamily
    <3>3. CASE Cardinality(Family(old, b)) # 1
      BY <1>3, <2>2, <3>1, <3>3
    <3> QED BY <3>2, <3>3
  <2> QED BY <2>1, <2>2
<1>6. ASSUME NEW b \in STRING, NEW s \in Setting
      PROVE  Cardinality(KeysOf(old, b, s)) = Cardinality(KeysOf(new, b, s))
  <2>1. CASE b \in PerUserBases(old)
    BY <2>1, KeysCount DEF OnlySignIns
  <2>2. CASE b \notin PerUserBases(old)
    <3>1. KeysOf(old, b, s) = {} /\ KeysOf(new, b, s) = {}
      BY <2>2 DEF OnlySignIns, PerUserBases, KeysOf, InFamily, Items
    <3> QED BY <3>1
  <2> QED BY <2>1, <2>2
<1>7. ASSUME NEW key \in DOMAIN new, new[key].perUser
      PROVE  /\ new[key].n # 0
             /\ \A k \in DOMAIN old : old[k].perUser /\ old[k].base = new[key].base =>
                  old[k].type \in {"missing", new[key].type}
  <2>1. new[key].n # 0
    BY <1>7 DEF Listed, Items
  <2>2. ASSUME NEW k \in DOMAIN old, old[k].perUser, old[k].base = new[key].base
        PROVE  old[k].type \in {"missing", new[key].type}
    <3> DEFINE b == old[k].base
    <3>1. b \in PerUserBases(old) /\ old[k] \in Family(old, b) /\ new[key] \in Family(new, b)
      BY <1>7, <2>2 DEF PerUserBases, Family, Items
    <3> QED BY <3>1 DEF OnlySignIns
  <2> QED BY <2>1, <2>2
<1> QED BY <1>1, <1>2, <1>4, <1>6, <1>7 DEF Rotation, ItemsKnown

(* An instance has an old key of its own when it stayed, and a new key     *)
(* when it was exchanged, unless the keys of its family say nothing: the   *)
(* key of an only instance never changes, that of an older build always.   *)
LEMMA KeysFollow ==
  ASSUME NEW old, NEW new, ItemsKnown(old), ItemsKnown(new),
         KeyedToday(new), Listed(Items(new)), OnlySignIns(old, new),
         NEW b \in PerUserBases(old), NEW s \in Setting
  PROVE  LET own == KeysOf(new, b, s) \cap DOMAIN old
             fresh == KeysOf(new, b, s) \ DOMAIN old IN
         \/ own = {} \/ fresh = {}
         \/ /\ Cardinality(own) <= Cardinality(Stayed(old, new, b, s))
            /\ Cardinality(fresh) <= Cardinality(Exchanged(old, new, b, s))
<1> DEFINE V == KeysOf(new, b, s)
<1>1. /\ Rotation(old, new) /\ SetUp(old, b) = SetUp(new, b)
      /\ Cardinality(Family(old, b)) = Cardinality(Family(new, b))
  BY SignInsRotate, FamilySize DEF OnlySignIns
<1>2. ASSUME NEW k \in V
      PROVE  /\ k \in DOMAIN new /\ new[k] \in Instances(new, b, s)
             /\ k = IF Cardinality(Family(new, b)) = 1
                    THEN <<"per-user", b, 0>> ELSE <<"per-user", b, new[k].n>>
  BY <1>2 DEF KeysOf, InFamily, Instances, Family, Items, KeyedToday, KeyOf
<1>3. CASE KeyedByName(old)
  BY <1>2, <1>3 DEF KeyedByName
<1>4. CASE KeyedToday(old) /\ Cardinality(Family(old, b)) = 1
  <2>1. PICK m \in DOMAIN old : old[m].perUser /\ old[m].base = b
    BY DEF PerUserBases, Items
  <2>2. m = <<"per-user", b, 0>>
    BY <1>4, <2>1 DEF KeyedToday, KeyOf, Family
  <2> QED BY <1>1, <1>2, <1>4, <2>2
<1>5. CASE KeyedToday(old) /\ Cardinality(Family(old, b)) # 1
  <2>1. \A m \in DOMAIN old : old[m].perUser /\ old[m].base = b => m = <<"per-user", b, old[m].n>>
    BY <1>5 DEF KeyedToday, KeyOf, Family
  <2>2. ASSUME NEW k \in V \cap DOMAIN old PROVE new[k] \in Stayed(old, new, b, s)
    <3>1. old[k].perUser /\ old[k].base = b
      BY <1>1, <2>2 DEF Rotation, KeysOf, InFamily
    <3>2. old[k] \in Family(old, b) /\ old[k].n = new[k].n
      BY <1>1, <1>2, <1>5, <2>1, <2>2, <3>1 DEF Family, Items
    <3> QED BY <1>2, <2>2, <3>2 DEF Stayed
  <2>3. ASSUME NEW k \in V \ DOMAIN old PROVE new[k] \in Exchanged(old, new, b, s)
    <3>1. ASSUME NEW p \in Family(old, b), p.n = new[k].n PROVE FALSE
      <4>1. PICK m \in DOMAIN old : old[m] = p /\ p.perUser /\ p.base = b
        BY DEF Family, Items
      <4> QED BY <1>1, <1>2, <1>5, <2>1, <2>3, <3>1, <4>1
    <3> QED BY <1>2, <2>3, <3>1 DEF Exchanged, Stayed
  <2>4. \A k, l \in V : new[k] = new[l] => k = l
    BY <1>2, KeysNameItems
  <2>5. IsFiniteSet(Stayed(old, new, b, s)) /\ IsFiniteSet(Exchanged(old, new, b, s))
    <3>1. Stayed(old, new, b, s) \in SUBSET Family(new, b)
      BY DEF Stayed, Instances
    <3>2. Exchanged(old, new, b, s) \in SUBSET Family(new, b)
      BY DEF Exchanged, Instances
    <3> QED BY <3>1, <3>2, FamilySize, FS_Subset
  <2>6. ASSUME NEW K \in SUBSET V, NEW P, IsFiniteSet(P), \A k \in K : new[k] \in P
        PROVE  Cardinality(K) <= Cardinality(P)
    <3> DEFINE g == [k \in K |-> new[k]]
    <3>1. g \in Injection(K, P)
      BY <2>4, <2>6 DEF Injection, IsInjective
    <3> HIDE DEF g
    <3> QED BY <2>6, <3>1, FS_Injection
  <2> QED BY <2>2, <2>3, <2>5, <2>6
<1> QED BY <1>3, <1>4, <1>5 DEF ItemsKnown

(* What the scan reports after sign-ins is bounded.                        *)
LEMMA SignInsBounded ==
  ASSUME NEW old, NEW new, ItemsKnown(old), ItemsKnown(new),
         KeyedToday(new), Listed(Items(new)), OnlySignIns(old, new),
         NEW order \in SetToSeqs(DOMAIN new),
         NEW told, told = Diff("services", old, new, order)
  PROVE  /\ \A e \in told : e.action = "refreshed" \/ (e.action = "removed" /\ e.before.perUser)
         /\ \A b \in PerUserBases(old), s \in Setting :
              /\ Cardinality(Gone(told, b, s)) <= Cardinality(Stayed(old, new, b, s))
              /\ Cardinality(Gone(told, b, s)) <= Cardinality(Exchanged(old, new, b, s))
<1>1. Rotation(old, new)
  BY SignInsRotate
<1>2. \A e \in told : e.action = "refreshed" \/ (e.action = "removed" /\ e.before.perUser)
  BY <1>1, RotationQuiet
<1>3. ASSUME NEW b \in PerUserBases(old), NEW s \in Setting
      PROVE  /\ Cardinality(Gone(told, b, s)) <= Cardinality(Stayed(old, new, b, s))
             /\ Cardinality(Gone(told, b, s)) <= Cardinality(Exchanged(old, new, b, s))
  <2>1. b \in STRING
    BY KeysNameItems, PayloadParts DEF PerUserBases, Items
  <2>2. PICK own, fresh, stayed, exchanged, gone :
          /\ own = KeysOf(new, b, s) \cap DOMAIN old /\ fresh = KeysOf(new, b, s) \ DOMAIN old
          /\ stayed = Stayed(old, new, b, s) /\ exchanged = Exchanged(old, new, b, s)
          /\ gone = Gone(told, b, s)
    OBVIOUS
  <2>3. /\ IsFiniteSet(gone)
        /\ Cardinality(gone) <= Cardinality(own) /\ Cardinality(gone) <= Cardinality(fresh)
    BY <1>1, <2>1, <2>2, RotationQuiet
  <2>4. \/ own = {} \/ fresh = {}
        \/ Cardinality(own) <= Cardinality(stayed) /\ Cardinality(fresh) <= Cardinality(exchanged)
    BY <2>2, KeysFollow
  <2>5. IsFiniteSet(own) /\ IsFiniteSet(fresh) /\ IsFiniteSet(stayed) /\ IsFiniteSet(exchanged)
    <3>1. IsFiniteSet(KeysOf(new, b, s)) /\ IsFiniteSet(Family(new, b))
      BY KeysCount, FamilySize
    <3>2. stayed \in SUBSET Family(new, b) /\ exchanged \in SUBSET Family(new, b)
      BY <2>2 DEF Stayed, Exchanged, Instances
    <3> QED BY <2>2, <3>1, <3>2, FS_Subset
  <2>6. /\ Cardinality(gone) \in Nat /\ Cardinality(own) \in Nat /\ Cardinality(fresh) \in Nat
        /\ Cardinality(stayed) \in Nat /\ Cardinality(exchanged) \in Nat
    BY <2>3, <2>5, FS_CardinalityType
  <2>7. Cardinality(gone) <= Cardinality(stayed) /\ Cardinality(gone) <= Cardinality(exchanged)
    <3>1. CASE own = {} \/ fresh = {}
      BY <2>3, <2>6, <3>1, FS_EmptySet
    <3>2. CASE Cardinality(own) <= Cardinality(stayed) /\ Cardinality(fresh) <= Cardinality(exchanged)
      BY <2>3, <2>6, <3>2
    <3> QED BY <2>4, <3>1, <3>2
  <2> QED BY <2>2, <2>7
<1> QED BY <1>2, <1>3

-----------------------------------------------------------------------------
(* What is compared has the keys of today or of an older build.            *)
Known ==
  source = "services" =>
    /\ ItemsKnown(stored)
    /\ ItemsKnown(current) /\ KeyedToday(current) /\ Listed(Items(current))
    /\ previous # None => ItemsKnown(previous)

QuietOnly == Fits /\ Known /\ SignInNoiseBounded

LEMMA NothingKnown == ItemsKnown(<<>>) /\ KeyedToday(<<>>) /\ Listed(Items(<<>>))
<1>1. DOMAIN <<>> = {}
  OBVIOUS
<1> QED BY <1>1, NoItems, FS_EmptySet DEF ItemsKnown, KeyedToday, Items, Listed

(* The keys that _services gives are the keys of what it gave.             *)
LEMMA KeyedKnown ==
  ASSUME NEW snapshot \in Snapshots["services"], "services" \in Source
  PROVE  LET f == Keyed(snapshot) IN ItemsKnown(f) /\ KeyedToday(f) /\ Listed(Items(f))
<1>1. IsFiniteSet(snapshot) /\ snapshot \in SUBSET Payload /\ Listed(snapshot)
  BY InventoryAssumption, NamesAssumption
<1>2. PICK f : f = Keyed(snapshot)
  OBVIOUS
<1>3. \A k \in DOMAIN f : f[k] \in snapshot /\ k = KeyOf(f[k], snapshot)
  <2>1. \A k \in DOMAIN f : \E p \in snapshot : KeyOf(p, snapshot) = k
    BY <1>2 DEF Keyed
  <2> QED BY <1>2, <2>1 DEF Keyed
<1>4. ASSUME NEW p \in snapshot, NEW q \in snapshot, KeyOf(p, snapshot) = KeyOf(q, snapshot)
      PROVE  p = q
  <2>1. p.base = q.base /\ p.perUser = q.perUser
    BY <1>1, <1>4, PayloadParts DEF KeyOf
  <2> DEFINE F == {r \in snapshot : r.perUser /\ r.base = p.base}
  <2>2. CASE p.perUser /\ Cardinality(F) = 1
    <3>1. IsFiniteSet(F) /\ p \in F /\ q \in F
      BY <1>1, <2>1, <2>2, FS_Subset
    <3> HIDE DEF F
    <3> QED BY <2>2, <3>1, OnlyOne
  <2>3. CASE ~ p.perUser \/ Cardinality(F) # 1
    <3>1. p.n = q.n
      BY <1>4, <2>1, <2>3 DEF KeyOf
    <3> QED BY <1>1, <2>1, <3>1 DEF Listed
  <2> QED BY <2>2, <2>3
<1>5. Items(f) = snapshot
  <2>1. ASSUME NEW p \in snapshot PROVE p \in Items(f)
    <3>1. PICK k \in DOMAIN f : k = KeyOf(p, snapshot)
      BY <1>2 DEF Keyed
    <3> QED BY <1>3, <1>4, <3>1 DEF Items
  <2> QED BY <1>3, <2>1 DEF Items
<1>6. IsItems(f) /\ IsFiniteSet(DOMAIN f)
  BY <1>2, KeyedFits DEF FitsSource
<1> QED BY <1>1, <1>2, <1>3, <1>5, <1>6 DEF ItemsKnown, KeyedToday

LEMMA InitQuiet == Init => QuietOnly
<1> SUFFICES ASSUME Init PROVE QuietOnly
  OBVIOUS
<1>1. Fits
  BY InitReported DEF Reported
<1>2. source = "services" => ItemsKnown(stored)
  BY NothingKnown, InventoryAssumption, NamesAssumption DEF Init, ItemsKnown
<1> QED BY <1>1, <1>2, NothingKnown DEF Init, QuietOnly, Known, SignInNoiseBounded

LEMMA NextQuiet == Reported /\ QuietOnly /\ [Next]_vars => QuietOnly'
<1> SUFFICES ASSUME Reported, QuietOnly, [Next]_vars PROVE QuietOnly'
  OBVIOUS
<1>0. Fits /\ Known /\ SignInNoiseBounded /\ Fits'
  BY NextReported DEF Reported, QuietOnly
<1>1. ASSUME UNCHANGED <<source, current, previous, entry>>,
             stored' = stored \/ stored' = <<>>
      PROVE  QuietOnly'
  BY <1>0, <1>1, NothingKnown DEF QuietOnly, Known, SignInNoiseBounded
<1>2. ASSUME NEW p \in Process, Collect(p) PROVE QuietOnly'
  <2>1. PICK snapshot \in Snapshots[source] : current' = Keyed(snapshot)
    BY <1>2 DEF Collect
  <2>2. source = "services" =>
          ItemsKnown(current') /\ KeyedToday(current') /\ Listed(Items(current'))
    BY <1>0, <2>1, KeyedKnown DEF Fits
  <2> QED BY <1>0, <1>2, <2>2 DEF Collect, QuietOnly, Known, SignInNoiseBounded
<1>3. ASSUME NEW p \in Process, ReadInitialized(p) PROVE QuietOnly'
  BY <1>0, <1>3 DEF ReadInitialized, QuietOnly, Known, SignInNoiseBounded
<1>4. ASSUME NEW p \in Process, Apply(p) PROVE QuietOnly'
  <2>1. stored' = current /\ UNCHANGED <<source, current, previous>>
    BY <1>4 DEF Apply, read
  <2>2. Known'
    BY <1>0, <2>1 DEF Known
  <2>3. CASE UNCHANGED entry
    BY <1>0, <2>1, <2>2, <2>3 DEF QuietOnly, SignInNoiseBounded
  <2>4. CASE entry' # entry
    <3>1. PICK order \in SetToSeqs(DOMAIN current) :
            /\ previous # None
            /\ entry' = [old |-> previous, new |-> current, alike |-> alike,
                         events |-> Diff(source, previous, current, order)]
      BY <1>4, <2>4 DEF Apply
    <3>2. PICK told : told = Diff(source, previous, current, order)
      OBVIOUS
    <3>3. ASSUME source = "services", OnlySignIns(previous, current)
          PROVE  /\ \A e \in told :
                      e.action = "refreshed" \/ (e.action = "removed" /\ e.before.perUser)
                 /\ \A b \in PerUserBases(previous), s \in Setting :
                      /\ Cardinality(Gone(told, b, s))
                           <= Cardinality(Stayed(previous, current, b, s))
                      /\ Cardinality(Gone(told, b, s))
                           <= Cardinality(Exchanged(previous, current, b, s))
      BY <1>0, <3>1, <3>2, <3>3, SignInsBounded DEF Known
    <3>4. SignInNoiseBounded'
      BY <2>1, <3>1, <3>2, <3>3 DEF SignInNoiseBounded
    <3> QED BY <1>0, <2>2, <3>4 DEF QuietOnly
  <2> QED BY <2>3, <2>4
<1> QED
  BY <1>1, <1>2, <1>3, <1>4 DEF Next, Open, Rebaseline, Close, vars, read

(* Signing in again, whichever instances of whichever families are         *)
(* exchanged, is never reported as a new or a changed service: every new   *)
(* instance finds a predecessor of its setup that no other one has taken,  *)
(* under the keys of today as under those of an older build.  Instances    *)
(* are reported as removed at most as often as others of their setup       *)
(* stayed, and as new ones came.                                           *)
THEOREM SignInsMakeLittleNoise == Spec => []SignInNoiseBounded
<1>1. QuietOnly => SignInNoiseBounded
  BY DEF QuietOnly
<1> QED BY InitReported, NextReported, InitQuiet, NextQuiet, <1>1, PTL DEF Spec

=============================================================================
