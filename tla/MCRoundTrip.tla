---------------------------- MODULE MCRoundTrip ----------------------------
(* RoundTrip on small instances. *)
EXTENDS RoundTrip

CONSTANTS s1, i1, r1
=============================================================================
