------------------------ MODULE MCSessionDispatcher ------------------------
(* Small instances of SessionDispatcher: more sessions than run slots, and *)
(* two workers in the pools where one session could meet itself.           *)
EXTENDS SessionDispatcher

CONSTANTS s1, s2, s3, i1, i2, w1, p1, p2
=============================================================================
