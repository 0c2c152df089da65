---------------------------- MODULE MCScanLease ----------------------------
(***************************************************************************)
(* Instances of ScanLease for TLC.  Ids and processes are model values.    *)
(***************************************************************************)
EXTENDS ScanLease, TLC

Symmetry == Permutations(Proc) \cup Permutations(ScanId)

=============================================================================
