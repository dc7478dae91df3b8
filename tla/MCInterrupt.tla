---------------------------- MODULE MCInterrupt -----------------------------
EXTENDS Interrupt, TLC

(* The chips are alike. *)
Symmetry == Permutations(Sources)
=============================================================================
