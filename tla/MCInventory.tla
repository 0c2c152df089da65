---------------------------- MODULE MCInventory -----------------------------
(***************************************************************************)
(* Instances of Inventory for TLC: a family "web" of per-user services, a  *)
(* plain service "spooler", the trigger-start service "bits", an           *)
(* application and two drivers.                                            *)
(***************************************************************************)
EXTENDS Inventory

Plain(b, n, s, r, t) ==
  [base |-> b, n |-> n, perUser |-> FALSE, setting |-> s, running |-> r, type |-> t]
User(b, n, s, t) ==
  [base |-> b, n |-> n, perUser |-> TRUE, setting |-> s, running |-> TRUE, type |-> t]

(* At most one payload for a name.                                         *)
Named(payloads) ==
  {s \in SUBSET payloads : \A p, q \in s : <<p.base, p.n>> = <<q.base, q.n>> => p = q}

Webs(t) == {User("web", n, s, t) : n \in 1 .. 4, s \in Setting}
Spooler(t) == {Plain("spooler", 0, s, TRUE, t) : s \in Setting}
Bits == {Plain("bits", 0, s, r, "own") : s \in Setting, r \in BOOLEAN}
Versions == {Plain("app", 0, s, FALSE, "own") : s \in Setting}
Devices == {Plain(b, 0, s, FALSE, "own") : b \in {"disk", "card"}, s \in Setting}

(* Up to three of four instances, so that any part of a family can be      *)
(* exchanged, one of them set up differently; a plain service beside one   *)
(* instance.                                                               *)
Families(t) ==
  {f \in Named(Webs(t)) :
     Cardinality(f) <= 3 /\ Cardinality({p \in f : p.setting = "manual"}) <= 1}

Services(t) == Families(t) \cup Named({p \in Webs(t) : p.n = 1} \cup Spooler(t))

AllSnapshots == [services |-> Services("share") \cup Named(Bits), apps |-> Named(Versions), drivers |-> Named(Devices)]

(* Older builds used the name as key and did not collect the type; they    *)
(* appended the version to the key of an application.                      *)
ByName(s) == [k \in {<<"plain", p.base, p.n>> : p \in s} |->
                CHOOSE p \in s : k = <<"plain", p.base, p.n>>]

LegacyApps ==
  {[k \in {<<"plain", "app", n>> : n \in m} |->
      Plain("app", 0, IF k[3] = 1 THEN "auto" ELSE "manual", FALSE, "own")] : m \in SUBSET {1, 2}}

AllOldStates ==
  [services |-> {ByName(s) : s \in Services("missing")},
   apps |-> LegacyApps,
   drivers |-> {Keyed(s) : s \in Named(Devices)}]

=============================================================================
