---------------------------- MODULE MCELCRQRings ----------------------------
(* ELCRQRings on small instances. *)
EXTENDS ELCRQRings, TLC

Symmetry == Permutations(Items) \cup Permutations(Producers)
              \cup Permutations(Consumers)
=============================================================================
