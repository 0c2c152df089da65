----------------------------- MODULE MCJournal -----------------------------
(***************************************************************************)
(* Instances of Journal for TLC.                                           *)
(***************************************************************************)
EXTENDS Journal, TLC

Symmetry == Permutations(Scan) \cup Permutations(Value) \cup Permutations(Source)

NoneYet == -100
FirstTime == {NoneYet}
AnyTime == {NoneYet, 0}

=============================================================================
