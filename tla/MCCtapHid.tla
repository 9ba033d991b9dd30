------------------------------- MODULE MCCtapHid -------------------------------
(***************************************************************************)
(* CtapHid for model checking: nothing tells two applications apart.       *)
(***************************************************************************)
EXTENDS CtapHid, TLC

AppSymmetry == Permutations(Apps)
=============================================================================
