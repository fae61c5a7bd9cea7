------------------------------ MODULE MCELCRQ ------------------------------
(* ELCRQ on small instances. *)
EXTENDS ELCRQ, TLC
=============================================================================
