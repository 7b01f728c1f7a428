----------------------------- MODULE MCReceiver -----------------------------
(* Small instances of Receiver: two sessions, and envelopes of two, one    *)
(* and no results, one with a repeated session, two with a member that     *)
(* cannot be landed.                                                       *)
EXTENDS Receiver, Episodes

CONSTANTS r1, r2, r3, s1, s2

Approved == [system |-> {"system"}, rosters |-> {{"search"}}, cards |-> {"card"},
             settings |-> {"settings"}, tails |-> {Header}]
Armed    == [sentinel |-> -9000, zeros |-> [max |-> 1, of |-> 4], toolless |-> TRUE]

(* The verdicts are those of an episode without accident and of one whose  *)
(* second request was sent twice.                                          *)
Twice     == Append(TwoTurns, [how |-> "retry", reply |-> "whole", capture |-> "whole"])
Verdict(turns) == IF Accepted(Judge(Session(turns, <<"glue">>), <<"glue">>))
                    THEN "good" ELSE "bad"

M(s, v) == [sid |-> s, verdict |-> v]
Once    == Verdict(TwoTurns)
Again   == Verdict(Twice)
Good(s) == M(s, Once)
Bad(s)  == M(s, Again)

Envelopes == {<<Good(s1), Bad(s2)>>,
              <<Bad(s1), Good(s1)>>,
              <<Bad(s2), M(s2, "unserializable")>>,
              <<M(s2, "malformed")>>,
              <<>>}
TwoEach == {<<Good(s1), Bad(s2)>>, <<Bad(s2), Good(s1)>>}

-----------------------------------------------------------------------------
(* What a file under traces/ stands for.  The verdict that brought it      *)
(* there depends on nothing the receiver keeps, so these are statements    *)
(* about every episode; they are made of the states in which one landed.   *)
Trained == \E sid \in Sessions : landed[[dir |-> "traces", sid |-> sid]] # None

(* What lies under traces/ is one trace of an undisturbed episode, and it  *)
(* trains on exactly what the engine sampled after exactly what the model  *)
(* was shown; nothing else gets there, and every such episode does         *)
(* (builder.py and checks.py together).                                    *)
AcceptedTrainsWhatWasSampled == Trained => TrainsWhatWasSampled

(* What lies under traces/ was done by an agent that saw the pages of its  *)
(* timestep and no others, and every episode that the estate sets up gets  *)
(* there if anything states its timestep (checks.py G5 over pi_harness.py  *)
(* and tools.py).                                                          *)
AcceptedSawItsTimestep == Trained => SawItsTimestep

(* The answers that the agent got were the best there are, although the    *)
(* tools compare only pieces of the pages (index.py, tools.py).            *)
AnswersAreTheBest == Trained => BestAnswers
=============================================================================
