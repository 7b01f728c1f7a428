---------------------------- MODULE MCIndexStore ----------------------------
(* Small instances of IndexStore.                                          *)
EXTENDS IndexStoreRefinement, TLC

CONSTANTS c1, c2, dec, v1, v2, synth, m1, m2, t1, t2

(* Two versions with the same number of chunks: the case a count check     *)
(* cannot tell apart.                                                      *)
SameSize == (v1 :> 2) @@ (v2 :> 2) @@ (synth :> 1)

(* One batch each, for the liveness run.                                   *)
OneBatch == [v \in {v1, v2, synth} |-> 1]

(* Two models of the same width: the case a width check cannot tell apart. *)
SameWidth == (m1 :> 1) @@ (m2 :> 1)
=============================================================================
