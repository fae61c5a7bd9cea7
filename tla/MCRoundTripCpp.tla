--------------------------- MODULE MCRoundTripCpp ---------------------------
(* RoundTripCpp on small instances. *)
EXTENDS RoundTripCpp

CONSTANTS s1, s2, i1, i2
=============================================================================
