---------------------------- MODULE SnapshotDiff ----------------------------
(***************************************************************************)
(* What apply_snapshot says about two snapshots of one source: the keys    *)
(* WindowsCollector gives its items, and the diff with its quiet matches   *)
(* (difftrail/collectors/windows.py, db.py and service_identity.py).       *)
(*                                                                         *)
(* A payload is named by a base and a number: Windows appends a new number *)
(* (a LUID) to a per-user service at every sign-in, and an older build     *)
(* wrote the version behind the key of an application.  Number 0 is a name *)
(* without a suffix.  "setting" stands for what the journal compares       *)
(* besides the name: the start mode, the path, the version.                *)
(***************************************************************************)
EXTENDS Integers, Sequences, FiniteSets, SequencesExt

CONSTANTS
  TriggerStart,  \* TRIGGER_START_SERVICES
  MinPairs,      \* MIN_PER_USER_SERVICE_REFRESH_PAIRS
  None

Setting == {"auto", "manual"}

Payload == [base : STRING, n : Nat, perUser : BOOLEAN, setting : Setting,
            running : BOOLEAN, type : {"missing", "share", "own"}]

(* A key is the name, or the prefix "per-user:" and the name or its base.  *)
Key == {"plain", "per-user"} \X STRING \X Nat

ASSUME NoneAssumption == None \notin Payload \cup Key

(* Instances of one family get keys of their own while there are several.  *)
KeyOf(p, snapshot) ==
  IF ~ p.perUser THEN <<"plain", p.base, p.n>>
  ELSE IF Cardinality({q \in snapshot : q.perUser /\ q.base = p.base}) = 1
       THEN <<"per-user", p.base, 0>>
       ELSE <<"per-user", p.base, p.n>>

Keyed(snapshot) ==
  [k \in {KeyOf(p, snapshot) : p \in snapshot} |->
     CHOOSE p \in snapshot : KeyOf(p, snapshot) = k]

-----------------------------------------------------------------------------
Paired(old, new) == old.perUser /\ new.perUser /\ old.base = new.base

(* The name does not identify an instance of a per-user service, nor an    *)
(* application or a driver, whose key does.                                *)
SameName(source, old, new) ==
  \/ source # "services"
  \/ Paired(old, new)
  \/ ~ old.perUser /\ ~ new.perUser /\ <<old.base, old.n>> = <<new.base, new.n>>

SameType(old, new) ==
  \/ old.type = new.type
  \/ Paired(old, new) /\ "missing" \in {old.type, new.type}

Oscillates(source, old, new) ==
  /\ source = "services"
  /\ {old.base, new.base} \subseteq TriggerStart /\ old.n = 0 /\ new.n = 0
  /\ old.setting # new.setting /\ old.running # new.running

(* Mutant of Unchanged: the pair is normalized too far.                    *)
UnchangedPair(source, old, new) ==
  /\ SameName(source, old, new) /\ SameType(old, new)
  /\ old.setting = new.setting \/ Oscillates(source, old, new) \/ Paired(old, new)

Unchanged(source, old, new) ==
  /\ SameName(source, old, new) /\ SameType(old, new)
  /\ old.setting = new.setting \/ Oscillates(source, old, new)

-----------------------------------------------------------------------------
(* _legacy_snapshot_key: an unmatched old item that may be the new one     *)
(* under another key.                                                      *)
Candidates(source, key, new, previous, matched) ==
  {k \in DOMAIN previous \ matched :
     \/ source = "apps" /\ k[2] = key[2]
     \/ source = "services" /\ Paired(previous[k], new)}

Smallest(keys) == CHOOSE k \in keys : \A l \in keys : k[3] <= l[3]

(* Mutant of Preferred: no candidate is better than another.               *)
PreferredAny(source, new, previous, keys) == keys

Preferred(source, new, previous, keys) ==
  LET equivalent == {k \in keys : Unchanged(source, previous[k], new)} IN
  IF source = "services" /\ equivalent # {} THEN equivalent ELSE keys

PreviousKey(source, key, new, previous, matched) ==
  LET candidates == Candidates(source, key, new, previous, matched) IN
  IF key \in DOMAIN previous THEN key
  ELSE IF candidates = {} THEN None
  ELSE Smallest(Preferred(source, new, previous, candidates))

Event(action, before, after) == [action |-> action, before |-> before, after |-> after]

Rotated(old, new) == Paired(old, new) /\ old.n # new.n

(* One turn of the loop over the new items.                                *)
Compare(source, key, new, previous, diff) ==
  LET was == PreviousKey(source, key, new, previous, diff.matched) IN
  IF was = None
  THEN [diff EXCEPT !.events = @ \cup {Event("added", None, new)}]
  ELSE LET old == previous[was] IN
       [matched |-> diff.matched \cup {was},
        rotated |-> diff.rotated + IF Unchanged(source, old, new) /\ Rotated(old, new) THEN 1 ELSE 0,
        events |-> diff.events \cup
          IF Unchanged(source, old, new) THEN {} ELSE {Event("updated", old, new)}]

NothingCompared == [matched |-> {}, rotated |-> 0, events |-> {}]

(* What the loop knows after each of its turns.                            *)
Compared(source, previous, current, order) ==
  LET turn[i \in 0 .. Len(order)] ==
        IF i = 0 THEN NothingCompared
        ELSE Compare(source, order[i], current[order[i]], previous, turn[i - 1]) IN
  turn

(* The events of a snapshot that is iterated in the given order.           *)
Diff(source, previous, current, order) ==
  LET compared == Compared(source, previous, current, order)[Len(order)] IN
  compared.events
    \cup {Event("removed", previous[k], None) : k \in DOMAIN previous \ compared.matched}
    \cup IF compared.rotated >= MinPairs THEN {Event("refreshed", None, None)} ELSE {}

=============================================================================
