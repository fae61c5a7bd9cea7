----------------------------- MODULE MCLCRQueue -----------------------------
(* LCRQueue on small instances. *)
EXTENDS LCRQueue, TLC

Symmetry == Permutations(Items)
=============================================================================
