--------------------------- MODULE MCHumanHandoff ---------------------------
(* Small instances of HumanHandoff for TLC. *)
EXTENDS HumanHandoff, TLC

CreatorSymmetry == Permutations(Creators)
=============================================================================
