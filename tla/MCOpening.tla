----------------------------- MODULE MCOpening ------------------------------
(***************************************************************************)
(* Instances of Opening for TLC.                                           *)
(***************************************************************************)
EXTENDS Opening

BaseMarks == {1, 2, 7}

=============================================================================
