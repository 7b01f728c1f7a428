---------------------------- MODULE MCEstateRun ----------------------------
(* Small instances of EstateRun: two models or two chunk windows, a few    *)
(* commands of any kind, some of them cut short.                           *)
EXTENDS EstateRun

CONSTANTS m1, m2, w1, w2

(* Two models and, for one of them, two windows; --rebuild for each model. *)
Ask(m, w, r) == [model |-> m, window |-> w, rebuild |-> r]
SomeAsks == {Ask(m1, w1, FALSE), Ask(m1, w2, FALSE), Ask(m1, w1, TRUE),
             Ask(m2, w1, FALSE), Ask(m2, w1, TRUE)}
=============================================================================
