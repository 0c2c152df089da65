---------------------------- MODULE MCAutomation ----------------------------
(***************************************************************************)
(* Instances of Automation for TLC.                                        *)
(***************************************************************************)
EXTENDS Automation, TLC

Symmetry == Permutations(Runner) \cup Permutations(Draft)

AllOn == {Setting}
OnOrOff == {Setting, {}}

=============================================================================
