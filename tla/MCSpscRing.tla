------------------------------- MODULE MCSpscRing -------------------------------
(***************************************************************************)
(* SpscRing for TLC: payload identities are interchangeable.               *)
(***************************************************************************)
EXTENDS SpscRing, TLC

IdSymmetry == Permutations(Ids)

================================================================================
