-------------------------- MODULE AcceptanceProofs --------------------------
(***************************************************************************)
(* Proofs that a verdict without findings means what Episodes says of it,  *)
(* for episodes of any number of turns.  An accepted episode was nothing   *)
(* out of the ordinary (AcceptedIsPlain); a plain one is accepted, as one  *)
(* trace that trains on what was sampled after what was shown              *)
(* (PlainIsAccepted); and an episode is accepted exactly if its agent saw  *)
(* the pages of its timestep and no others (CutoffHolds), as that of every *)
(* episode the estate sets up did (EstateEpisodesHold).                    *)
(*                                                                         *)
(* The two directions meet in the stream.  Of an accepted session it is    *)
(* known what opened each turn, so no turn was a retry, a compaction or    *)
(* opened without the glue.  Of an undisturbed one, the stream merged so   *)
(* far is the reference of its turns so far (SteadyNext), which every rule *)
(* over streams lets pass (LevelLogprobs, LevelOpenings).                  *)
(***************************************************************************)
EXTENDS EpisodesProofs

-----------------------------------------------------------------------------
(* What an accepted episode was: nothing out of the ordinary.              *)

Conf(glue) == [eot |-> Eot, glue |-> glue]

(* The turns of an episode, in a form that the provers can use.            *)
LEMMA TurnsAre ==
  ASSUME NEW turns \in TurnSequences
  PROVE  /\ Sorted(turns) /\ turns[1].how \in {"next", "think"}
         /\ \A k \in 1 .. Len(turns) :
              turns[k].how = "discard" => k > 1 /\ turns[k - 1].reply = "cut"
<1>1. PICK n \in 1 .. MaxTurns : turns \in [1 .. n -> Turns]
  BY DEF TurnSequences
<1>2. /\ turns[1].how \in {"next", "think"}
      /\ \A k \in DOMAIN turns : turns[k].how = "discard" => turns[k - 1].reply = "cut"
  BY DEF TurnSequences
<1>3. n \in Nat /\ DOMAIN turns = 1 .. n /\ Len(turns) = n
  <2>1. n \in Nat /\ DOMAIN turns = 1 .. n
    BY <1>1, MaxTurnsAssumption
  <2>2. turns \in Seq(Turns)
    BY <1>1, <2>1
  <2> QED BY <2>1, <2>2
<1>4. \A k \in 1 .. n : TurnLike(turns[k])
  BY <1>1, TurnIs
<1>5. Sorted(turns)
  BY <1>1, <1>3, <1>4 DEF Sorted
<1>6. ASSUME NEW k \in 1 .. n, turns[k].how = "discard"
      PROVE  k > 1 /\ turns[k - 1].reply = "cut"
  <2>1. k # 1
    BY <1>2, <1>6
  <2> QED BY <1>2, <1>3, <1>6, <2>1
<1> QED BY <1>2, <1>3, <1>5, <1>6

(* The template's glue is one token or none.                               *)
LEMMA GlueIs ==
  ASSUME NEW glue \in Glues
  PROVE  glue \in Seq(Vocabulary) /\ (glue = <<>> \/ glue = <<"glue">>)
<1>1. "glue" \in Vocabulary
  BY DEF Vocabulary
<1>2. <<>> \in Seq(Vocabulary) /\ <<"glue">> \in Seq(Vocabulary)
  BY <1>1
<1> QED BY <1>2 DEF Glues

(* What is known of an accepted episode.                                   *)
Examined(turns, glue, session, trace) ==
  /\ glue \in Glues /\ Sorted(turns) /\ turns[1].how \in {"next", "think"}
  /\ \A k \in 1 .. Len(turns) :
       turns[k].how = "discard" => k > 1 /\ turns[k - 1].reply = "cut"
  /\ CapturedAs(turns, glue, session)
  /\ \A k \in 1 .. Len(turns) : PromptOK(turns, k, Requested(turns, glue))
  /\ OneTrace(session, Conf(glue))
  /\ trace = FinalizeChain(Stitched(session, glue), Conf(glue))
  /\ TrainsOn(Vocabulary, trace, session, Conf(glue))

(* An accepted session was stitched into one whole stream, and every rule  *)
(* holds of its trace.                                                     *)
LEMMA AcceptedIsExamined ==
  ASSUME NEW turns \in TurnSequences, NEW glue \in Glues,
         Accepted(Judge(Session(turns, glue), glue))
  PROVE  Examined(turns, glue, Session(turns, glue),
                  FinalizeChain(Stitched(Session(turns, glue), glue), Conf(glue)))
<1> DEFINE session == Session(turns, glue)
           conf == Conf(glue)
           trace == FinalizeChain(Stitched(session, glue), conf)
           T == Vocabulary
<1>1. /\ Sorted(turns) /\ turns[1].how \in {"next", "think"}
      /\ \A k \in 1 .. Len(turns) :
           turns[k].how = "discard" => k > 1 /\ turns[k - 1].reply = "cut"
  BY TurnsAre
<1>2. CapturedAs(turns, glue, session)
  BY <1>1, SessionIs
<1>3. \A k \in 1 .. Len(turns) : PromptOK(turns, k, Requested(turns, glue))
  BY <1>1, PromptsAre
<1>4. conf.glue = glue /\ conf.eot = Eot /\ glue \in Seq(T)
  BY GlueIs DEF Conf
<1>5. Accepted(Trajectory(session, conf))
  BY DEF Judge, Conf
<1>6. session \in Seq(Completions(T, Values, Messages, Data))
  BY <1>2 DEF CapturedAs, Records
<1> HIDE DEF session, conf, T
<1>7. OneTrace(session, conf)
  BY <1>4, <1>5, <1>6, AcceptedTrace
<1>8. TrainsOn(T, Trajectory(session, conf).traces[1], session, conf)
  BY <1>4, <1>5, <1>6, TrainedAsSampled
<1>9. Trajectory(session, conf).traces[1] = trace
  <2>1. Trajectory(session, conf).traces = <<trace>>
    BY <1>4, <1>7 DEF OneTrace
  <2> HIDE DEF trace
  <2> QED BY <2>1
<1> HIDE DEF trace
<1>10. TrainsOn(T, trace, session, conf)
  BY <1>8, <1>9
<1> QED BY <1>1, <1>2, <1>3, <1>7, <1>10 DEF Examined, session, conf, trace, T

-----------------------------------------------------------------------------
(* Every record of it was captured whole.                                  *)

(* What the session's own rules leave of a record.                         *)
LEMMA NotRefused ==
  ASSUME NEW turns, NEW glue, NEW session, NEW trace, Examined(turns, glue, session, trace),
         NEW k \in 1 .. Len(turns)
  PROVE  /\ session[k].prompt # <<>> /\ session[k].response # <<>>
         /\ session[k].choices = 1 /\ session[k].shape = "agent" /\ ~session[k].cut
         /\ session[k].finish # "abort"
         /\ k < Len(turns) => session[k].finish # "length"
         /\ k > 1 => session[k].prompt # session[k - 1].prompt
         /\ session[k].tools = session[1].tools /\ session[k].policy = session[1].policy
<1> DEFINE n == Len(turns)
           conf == Conf(glue)
           cs == Stitched(session, conf.glue)
<1>1. /\ n \in Nat /\ n > 0 /\ Len(session) = n /\ DOMAIN session = 1 .. n /\ 1 \in 1 .. n
      /\ session \in Seq(Records)
  BY MaxTurnsAssumption DEF Examined, Sorted, CapturedAs
<1>2. ~SessionRefused(session, conf) /\ \A i \in 1 .. n : session[i].finish # "abort" /\ Kept(cs[i])
  BY <1>1 DEF Examined, OneTrace
<1>3. cs[k].cut = session[k].cut
  <2>1. StitchedTo(Vocabulary, Records, session, conf.glue)
    <3>1. conf.glue = glue
      BY DEF Conf
    <3>2. glue \in Seq(Vocabulary)
      BY GlueIs DEF Examined
    <3> QED BY <1>1, <3>1, <3>2, StitchedIs DEF Records
  <2>2. PICK p : cs[k] = [session[k] EXCEPT !.prompt = p]
    BY <1>1, <2>1 DEF StitchedTo
  <2>3. session[k] \in Records
    BY <1>1
  <2> QED BY <2>2, <2>3 DEF Records, Completions
<1>4. ~session[k].cut
  BY <1>2, <1>3 DEF Kept
<1> HIDE DEF n, conf, cs
<1>5. /\ session[k].prompt # <<>> /\ session[k].response # <<>>
      /\ session[k].choices = 1 /\ session[k].shape = "agent"
      /\ k < n => session[k].finish # "length"
      /\ k > 1 => session[k].prompt # session[k - 1].prompt
  BY <1>1, <1>2 DEF SessionRefused, n
<1>6. session[k].tools = session[1].tools /\ session[k].policy = session[1].policy
  BY <1>1, <1>2 DEF SessionRefused, n
<1> QED BY <1>2, <1>4, <1>5, <1>6 DEF n

(* Every token was trained at a number that the discipline admits.         *)
LEMMA BodiesTrained ==
  ASSUME NEW turns, NEW glue, NEW session, NEW trace, Examined(turns, glue, session, trace),
         NEW k \in 1 .. Len(turns), session[k].response = Sampled[turns[k].reply]
  PROVE  session[k].logprobs # Missing /\ LogprobFits(session[k].logprobs[1], TRUE)
<1>1. Len(session) = Len(turns) /\ turns[k].reply \in Replies
  BY DEF Examined, CapturedAs, Sorted, TurnLike
<1>2. Len(session[k].response) \in 1 .. 4
  BY <1>1, RepliesAre, Zenon
<1>3. 1 \in 1 .. Len(session[k].response) /\ k \in 1 .. Len(session)
  <2> DEFINE m == Len(session[k].response)
  <2>1. m \in 1 .. 4
    BY <1>2
  <2> HIDE DEF m
  <2>2. 1 \in 1 .. m
    BY <2>1
  <2> QED BY <1>1, <2>2 DEF m
<1>4. TrainsOn(Vocabulary, trace, session, Conf(glue))
  BY DEF Examined
<1>5. /\ session[k].logprobs # Missing
      /\ \A j \in 1 .. Len(session[k].response) : LogprobFits(session[k].logprobs[j], TRUE)
  BY <1>3, <1>4, Zenon DEF TrainsOn
<1> QED BY <1>3, <1>5

(* The tools of the one trace are an approved roster.                      *)
LEMMA RosterApproved ==
  ASSUME NEW turns, NEW glue, NEW session, NEW trace, Examined(turns, glue, session, trace)
  PROVE  session[1].tools \in Pins.rosters
<1> DEFINE conf == Conf(glue)
           cs == Stitched(session, glue)
<1>1. /\ Len(session) > 0 /\ session \in Seq(Records) /\ glue \in Seq(Vocabulary)
      /\ 1 \in 1 .. Len(session) /\ conf.glue = glue
  BY MaxTurnsAssumption, GlueIs DEF Examined, Sorted, CapturedAs, Conf
<1>2. StitchedTo(Vocabulary, Records, session, glue)
  BY <1>1, StitchedIs DEF Records
<1>3. cs[1].tools = session[1].tools
  <2>1. PICK p : cs[1] = [session[1] EXCEPT !.prompt = p]
    BY <1>1, <1>2 DEF StitchedTo
  <2>2. session[1] \in Records
    BY <1>1
  <2> QED BY <2>1, <2>2 DEF Records, Completions
<1>4. cs \in Seq(Records) /\ Len(cs) > 0
  BY <1>1, <1>2 DEF StitchedTo
<1>5. trace.tools = cs[1].tools
  <2>1. MergedInTurn(Streams(Vocabulary, Values, Messages, Data), cs, conf)
    BY <1>4, MergeRun DEF Records
  <2>2. PICK st : FinalizeChain(cs, conf) = Finished(cs, st)
    BY <2>1 DEF MergedInTurn
  <2>3. trace = FinalizeChain(cs, conf)
    BY DEF Examined
  <2> QED BY <2>2, <2>3 DEF Finished
<1>6. trace.tools \in Pins.rosters
  <2>1. OneTrace(session, conf) /\ trace = FinalizeChain(Stitched(session, conf.glue), conf)
    BY <1>1 DEF Examined
  <2>2. RunTraceChecks(trace)
    BY <2>1 DEF OneTrace
  <2> QED BY <2>2 DEF RunTraceChecks, CheckToolRoster
<1> QED BY <1>3, <1>5, <1>6

(* Its records were captured whole, all under one policy.                  *)
LEMMA CapturedWhole ==
  ASSUME NEW turns, NEW glue, NEW session, NEW trace, Examined(turns, glue, session, trace),
         NEW k \in 1 .. Len(turns)
  PROVE  turns[k].capture \in {"whole", "policy"} /\ turns[k].capture = turns[1].capture
<1> DEFINE n == Len(turns)
           Intact(i) == turns[i].capture \in {"whole", "policy"}
<1>1. /\ n \in Nat /\ n > 0 /\ 1 \in 1 .. n
      /\ \A i \in 1 .. n : /\ TurnLike(turns[i])
                            /\ AsAsked(Faithful(turns, glue, i), turns, glue, i)
                            /\ Shows(session[i], Faithful(turns, glue, i), turns[i].capture)
  BY MaxTurnsAssumption DEF Examined, Sorted, CapturedAs
<1>2. ASSUME NEW i \in 1 .. n PROVE Intact(i)
  <2> DEFINE capture == turns[i].capture
             c == session[i]
             record == Faithful(turns, glue, i)
  <2>1. /\ c.prompt # <<>> /\ c.response # <<>> /\ c.choices = 1 /\ c.shape = "agent" /\ ~c.cut
        /\ c.finish # "abort" /\ c.tools = session[1].tools
    BY NotRefused
  <2>2. Shows(c, record, capture) /\ record.response = Sampled[turns[i].reply]
    BY <1>1 DEF AsAsked
  <2>3. c.response = record.response =>
          c.logprobs # Missing /\ LogprobFits(c.logprobs[1], TRUE)
    BY <2>2, BodiesTrained
  <2>4. c.tools \in Pins.rosters
    BY <2>1, RosterApproved
  <2>5. capture \in Captures \cup {"whole"}
    BY <1>1 DEF TurnLike
  <2> HIDE DEF capture, c, record
  <2>6. capture # "no prompt" /\ capture # "no reply" /\ capture # "no choices"
    BY <2>1, <2>2 DEF Shows
  <2>7. capture # "two choices"
    <3>1. 1 # 2
      OBVIOUS
    <3> QED BY <2>1, <2>2, <3>1, Zenon DEF Shows
  <2>14. capture # "aborted"
    BY <2>1, <2>2 DEF Shows
  <2>15. capture # "shortened"
    BY <2>1, <2>2, Zenon DEF Shows
  <2>8. capture # "aside" /\ capture # "not agent's"
    BY <2>1, <2>2 DEF Shows
  <2>9. capture # "roster"
    BY <2>2, <2>4, PinsAssumption DEF Shows
  <2>10. capture # "no logprobs"
    BY <2>2, <2>3 DEF Shows
  <2>11. capture # "nan"
    BY <2>2, <2>3 DEF Shows, LogprobFits
  <2>12. capture # "positive"
    <3>1. ~(1 <= 0)
      OBVIOUS
    <3> QED BY <2>2, <2>3, <3>1, Zenon DEF Shows, LogprobFits
  <2>13. capture # "sentinel"
    <3>1. ~(Policy.sentinel > Policy.sentinel)
      BY PolicyAssumption
    <3> QED BY <2>2, <2>3, <3>1, Zenon DEF Shows, LogprobFits
  <2> QED BY <2>5, <2>6, <2>7, <2>8, <2>9, <2>10, <2>11, <2>12, <2>13, <2>14, <2>15
         DEF Captures, capture
<1>3. ASSUME NEW i \in 1 .. n
      PROVE  session[i].policy = IF turns[i].capture = "policy" THEN "v2" ELSE "v1"
  <2> DEFINE capture == turns[i].capture
  <2>1. capture = "whole" \/ capture = "policy"
    BY <1>2
  <2> HIDE DEF capture
  <2>2. session[i].policy = IF capture = "policy" THEN "v2" ELSE Faithful(turns, glue, i).policy
    BY <1>1, <2>1 DEF Shows, capture
  <2>3. Faithful(turns, glue, i).policy = "v1"
    BY <1>1 DEF AsAsked
  <2> QED BY <2>2, <2>3 DEF capture
<1>4. session[k].policy = session[1].policy
  BY NotRefused
<1>5. (turns[k].capture = "policy") <=> (turns[1].capture = "policy")
  BY <1>1, <1>3, <1>4
<1> QED BY <1>1, <1>2, <1>5

-----------------------------------------------------------------------------
(* And every turn followed the one before as it should.                    *)

(* Every record holds what the model was asked and answered.               *)
Recorded(turns, glue, c, k) ==
  /\ c.prompt = Requested(turns, glue)[k].before \o Requested(turns, glue)[k].header
  /\ c.prompt \in Seq(Vocabulary)
  /\ c.response = Sampled[turns[k].reply] /\ c.finish = Ending[turns[k].reply]
  /\ c.messages = Requested(turns, glue)[k].messages /\ c.reply = Reply(turns[k])

(* What every record of an accepted session still shows.                   *)
LEMMA RecordsAre ==
  ASSUME NEW turns, NEW glue, NEW session, NEW trace, Examined(turns, glue, session, trace),
         NEW k \in 1 .. Len(turns)
  PROVE  Recorded(turns, glue, session[k], k)
<1> DEFINE capture == turns[k].capture
           record == Faithful(turns, glue, k)
<1>1. AsAsked(record, turns, glue, k) /\ Shows(session[k], record, capture)
  BY DEF Examined, CapturedAs
<1>2. capture = "whole" \/ capture = "policy"
  BY CapturedWhole
<1> HIDE DEF capture, record
<1>3. /\ session[k].prompt = record.prompt /\ session[k].response = record.response
      /\ session[k].finish = record.finish
      /\ session[k].messages = record.messages /\ session[k].reply = record.reply
  BY <1>1, <1>2, Zenon DEF Shows
<1> QED BY <1>1, <1>3, Zenon DEF AsAsked, Recorded

(* No reply but the last was cut, none was dropped and no request was sent *)
(* twice.                                                                  *)
LEMMA NoneCutInside ==
  ASSUME NEW turns, NEW glue, NEW session, NEW trace, Examined(turns, glue, session, trace),
         NEW k \in 1 .. Len(turns)
  PROVE  /\ turns[k].reply = "cut" => k = Len(turns)
         /\ turns[k].how # "discard" /\ turns[k].how # "retry"
<1>1. Len(turns) \in Nat /\ k \in Nat
  BY MaxTurnsAssumption DEF Examined, Sorted
<1>2. ASSUME NEW i \in 1 .. Len(turns), turns[i].reply = "cut" PROVE i = Len(turns)
  <2>1. session[i].finish = Ending["cut"]
    <3>1. session[i].finish = Ending[turns[i].reply]
      <4>1. \A j \in 1 .. Len(turns) : Recorded(turns, glue, session[j], j)
        BY RecordsAre
      <4> QED BY <4>1 DEF Recorded
    <3> QED BY <1>2, <3>1
  <2>2. i < Len(turns) => session[i].finish # "length"
    BY NotRefused
  <2>3. Ending["cut"] = "length"
    BY DEF Ending
  <2> QED BY <1>1, <2>1, <2>2, <2>3
<1>3. turns[k].how # "discard"
  <2>1. turns[k].how = "discard" => k > 1 /\ turns[k - 1].reply = "cut"
    BY DEF Examined
  <2> QED BY <1>1, <1>2, <2>1
<1>4. turns[k].how # "retry"
  <2> SUFFICES ASSUME turns[k].how = "retry" PROVE FALSE
    OBVIOUS
  <2>1. k > 1
    <3>1. turns[1].how # "retry"
      BY DEF Examined
    <3> QED BY <1>1, <3>1
  <2>2. k - 1 \in 1 .. Len(turns)
    BY <1>1, <2>1
  <2>3. Requested(turns, glue)[k] = Requested(turns, glue)[k - 1]
    BY <2>1 DEF Examined, PromptOK
  <2>4. session[k].prompt = session[k - 1].prompt
    <3>1. \A i \in 1 .. Len(turns) : session[i].prompt = Requested(turns, glue)[i].before
                                                         \o Requested(turns, glue)[i].header
      <4>1. \A j \in 1 .. Len(turns) : Recorded(turns, glue, session[j], j)
        BY RecordsAre
      <4> QED BY <4>1 DEF Recorded
    <3> QED BY <2>2, <2>3, <3>1, Zenon
  <2> QED BY <2>1, <2>4, NotRefused
<1> QED BY <1>2, <1>3, <1>4

(* The generation prompt, token by token.                                  *)
LEMMA HeaderIs ==
  /\ Header \in Seq(Vocabulary) /\ Len(Header) = 2 /\ Header[1] = "header" /\ Header[2] = "glue"
  /\ <<"header">> \in Seq(Vocabulary)
<1>1. "header" \in Vocabulary /\ "glue" \in Vocabulary
  BY DEF Vocabulary
<1> QED BY <1>1 DEF Header

(* What a turn was opened with ends with the glue.                         *)
LEMMA OpenedWithGlue ==
  ASSUME NEW turns, NEW glue, NEW session, NEW trace, Examined(turns, glue, session, trace),
         NEW start \in TurnStarts(trace), Opening(trace, start) \in Seq(Vocabulary)
  PROVE  LET opening == Opening(trace, start)
         IN  Len(opening) >= 2 /\ opening[Len(opening)] = "glue"
<1> DEFINE opening == Opening(trace, start)
<1>1. RunTraceChecks(trace)
  BY DEF Examined, OneTrace, Conf
<1>2. IsSuffix(Header, opening)
  <2>1. \E tail \in Pins.tails : IsSuffix(tail, opening)
    BY <1>1 DEF RunTraceChecks, CheckThinkingTail
  <2> QED BY <2>1, PinsAssumption
<1> HIDE DEF opening
<1>3. opening \in Seq(Vocabulary) /\ Len(opening) \in Nat
  BY DEF opening
<1>4. Len(Header) <= Len(opening)
      /\ \A i \in 1 .. Len(Header) : Header[i] = opening[Len(opening) - Len(Header) + i]
  BY <1>2, <1>3, HeaderIs, SuffixIs
<1>5. opening[Len(opening) - 2 + 2] = "glue"
  BY <1>4, HeaderIs
<1>6. Len(opening) - 2 + 2 = Len(opening)
  BY <1>3
<1> QED BY <1>4, <1>5, <1>6, HeaderIs DEF opening

-----------------------------------------------------------------------------
(* Every turn was opened with the whole generation prompt.                 *)

(* A join ends as its second part does.                                    *)
LEMMA LastOfJoin ==
  ASSUME NEW T, NEW s \in Seq(T), NEW r \in Seq(T), Len(r) > 0
  PROVE  /\ s \o r \in Seq(T) /\ Len(s \o r) = Len(s) + Len(r)
         /\ (s \o r)[Len(s \o r)] = r[Len(r)]
<1>1. Len(r) \in 1 .. Len(r) /\ Len(s) \in Nat /\ Len(r) \in Nat
  OBVIOUS
<1>2. s \o r \in Seq(T) /\ Len(s \o r) = Len(s) + Len(r)
      /\ \A i \in 1 .. Len(r) : (s \o r)[Len(s) + i] = r[i]
  OBVIOUS
<1> QED BY <1>1, <1>2

(* A body holds a token or more.                                           *)
LEMMA BodyNotEmpty ==
  ASSUME NEW turns, NEW glue, NEW session, NEW trace, Examined(turns, glue, session, trace),
         NEW k \in 1 .. Len(turns)
  PROVE  /\ session[k].response = Sampled[turns[k].reply] /\ turns[k].reply \in Replies
         /\ session[k].response \in Seq(Vocabulary) /\ Len(session[k].response) \in 1 .. 4
         /\ session[k].prompt \in Seq(Vocabulary)
<1>1. turns[k].reply \in Replies
  BY DEF Examined, CapturedAs, Sorted, TurnLike
<1>2. session[k].response = Sampled[turns[k].reply] /\ session[k].prompt \in Seq(Vocabulary)
  <2>1. Recorded(turns, glue, session[k], k)
    BY RecordsAre
  <2> QED BY <2>1 DEF Recorded
<1> QED BY <1>1, <1>2, RepliesAre, Zenon

(* The first turn of an accepted episode was opened with the whole         *)
(* generation prompt.                                                      *)
LEMMA FirstNotThinking ==
  ASSUME NEW turns, NEW glue, NEW session, NEW trace, Examined(turns, glue, session, trace)
  PROVE  turns[1].how # "think"
<1> DEFINE n == Len(turns)
           T == Vocabulary
<1> SUFFICES ASSUME turns[1].how = "think" PROVE FALSE
  OBVIOUS
<1>1. n \in Nat /\ n > 0 /\ Len(session) = n /\ 1 \in 1 .. n
  BY MaxTurnsAssumption DEF Examined, Sorted, CapturedAs
<1>2. Len(session[1].response) \in 1 .. 4 /\ session[1].prompt \in Seq(T)
  BY <1>1, BodyNotEmpty
<1>3. session[1].prompt = <<"system", "task">> \o <<"header">>
  <2>1. Recorded(turns, glue, session[1], 1) /\ PromptOK(turns, 1, Requested(turns, glue))
    BY <1>1, RecordsAre DEF Examined
  <2> QED BY <2>1 DEF Recorded, PromptOK
<1>4. session[1].prompt[Len(session[1].prompt)] = "header"
  <2>1. "system" \in T /\ "task" \in T /\ "header" \in T
    BY DEF Vocabulary
  <2> HIDE DEF T
  <2>2. <<"system", "task">> \in Seq(T) /\ <<"header">> \in Seq(T) /\ Len(<<"header">>) = 1
        /\ <<"header">>[1] = "header"
    BY <2>1
  <2>3. <<"system", "task">> \o <<"header">> = <<"system", "task", "header">>
    BY <2>1, TwoOne
  <2>4. session[1].prompt = <<"system", "task", "header">>
    BY <1>3, <2>3
  <2> QED BY <2>4
<1>5. /\ trace.prompt = session[1].prompt /\ trace.response \in Seq(T)
      /\ trace.mask \in Seq({0, 1}) /\ Len(trace.mask) >= 1 /\ trace.mask[1] = 1
  <2>1. TrainsOn(T, trace, session, Conf(glue))
    BY DEF Examined
  <2> DEFINE N == Len(session)
             g == Conf(glue).glue
             e == Conf(glue).eot
  <2>2. PICK shown \in [1 .. N -> Seq(T)], at \in [1 .. N -> Nat] :
        /\ trace.prompt = shown[1] /\ shown[1] = session[1].prompt
        /\ at[1] = 0 /\ Len(trace.response) = at[N] + Len(session[N].response)
        /\ trace.response \in Seq(T) /\ trace.mask \in Seq({0, 1})
        /\ Len(trace.mask) = Len(trace.response)
        /\ \A i \in 1 .. N :
             /\ session[i].logprobs # Missing
             /\ \A j \in 1 .. Len(session[i].response) :
                  /\ trace.response[at[i] + j] = session[i].response[j]
                  /\ trace.mask[at[i] + j] = 1
                  /\ trace.logprobs[at[i] + j] = session[i].logprobs[j]
                  /\ at[i] + j \in 1 .. Len(trace.mask)
                  /\ LogprobFits(session[i].logprobs[j], TRUE)
        /\ \A i \in 2 .. N : \E new \in Seq(T), between \in Seq(T) :
             /\ Continues(session[i].prompt, session[i - 1].prompt, shown[i - 1], new, g)
             /\ shown[i] = shown[i - 1] \o new
             /\ Follows(between, new, session[i - 1].response, e)
             /\ Gap(trace.response, trace.mask, between,
                    at[i - 1] + Len(session[i - 1].response), at[i])
    BY <2>1, Zenon DEF TrainsOn
  <2> DEFINE m == Len(session[1].response)
  <2>3. m \in 1 .. 4
    BY <1>2
  <2> HIDE DEF m
  <2>4. 1 \in 1 .. m /\ 0 + 1 = 1
    BY <2>3
  <2>5. \A j \in 1 .. m : trace.mask[0 + j] = 1 /\ 0 + j \in 1 .. Len(trace.mask)
    <3>1. 1 \in 1 .. N
      BY <1>1, Zenon
    <3>2. /\ at[1] = 0
          /\ \A j \in 1 .. Len(session[1].response) :
               trace.mask[at[1] + j] = 1 /\ at[1] + j \in 1 .. Len(trace.mask)
      BY <2>2, <3>1, Zenon
    <3> QED BY <3>2, Zenon DEF m
  <2>6. trace.mask[1] = 1 /\ 1 \in 1 .. Len(trace.mask)
    BY <2>4, <2>5
  <2> QED BY <2>2, <2>6
<1>6. 1 \in TurnStarts(trace) /\ Opening(trace, 1) = trace.prompt
  BY <1>2, <1>5, FirstOpening
<1>7. Opening(trace, 1)[Len(Opening(trace, 1))] = "glue"
  <2>1. Opening(trace, 1) \in Seq(Vocabulary)
    BY <1>2, <1>5, <1>6
  <2> QED BY <1>6, <2>1, OpenedWithGlue
<1> QED BY <1>4, <1>5, <1>6, <1>7

(* What the one trace holds before a turn but the first.                   *)
OpenedWith(turns, glue, session, trace, k) ==
  \E p \in Seq(Vocabulary), new \in Seq(Vocabulary), between \in Seq(Vocabulary) :
    /\ session[k].prompt = p \o new
    /\ Follows(between, new, session[k - 1].response, Eot)
    /\ between # <<>> =>
         \E start \in TurnStarts(trace) : Opening(trace, start) = between

(* What a prompt of an accepted episode adds to the one before follows its *)
(* reply, and opened the next turn.                                        *)
LEMMA TurnsOpened ==
  ASSUME NEW turns, NEW glue, NEW session, NEW trace, Examined(turns, glue, session, trace),
         NEW k \in 2 .. Len(turns)
  PROVE  OpenedWith(turns, glue, session, trace, k)
<1> DEFINE n == Len(turns)
           T == Vocabulary
<1>1. /\ n \in Nat /\ Len(session) = n /\ k \in 1 .. n /\ k - 1 \in 1 .. n
      /\ glue \in Seq(T) /\ k \in 2 .. n
  BY MaxTurnsAssumption, GlueIs DEF Examined, Sorted, CapturedAs
<1>2. /\ Len(session[k].response) \in 1 .. 4 /\ session[k].prompt \in Seq(T)
      /\ Len(session[k - 1].response) \in 1 .. 4 /\ session[k - 1].prompt \in Seq(T)
  BY <1>1, BodyNotEmpty
<1>3. Conf(glue).glue = glue /\ Conf(glue).eot = Eot
  BY DEF Conf
<1>4. TrainsOn(T, trace, session, Conf(glue))
  BY DEF Examined
<1> HIDE DEF n, T
<1>5. PICK shown \in [1 .. n -> Seq(T)], at \in [1 .. n -> Nat] :
        /\ trace.response \in Seq(T) /\ trace.mask \in Seq({0, 1})
        /\ Len(trace.mask) = Len(trace.response)
        /\ \A i \in 1 .. n : \A j \in 1 .. Len(session[i].response) :
             trace.mask[at[i] + j] = 1 /\ at[i] + j \in 1 .. Len(trace.mask)
        /\ \A i \in 2 .. n : \E new \in Seq(T), between \in Seq(T) :
             /\ Continues(session[i].prompt, session[i - 1].prompt, shown[i - 1], new, glue)
             /\ Follows(between, new, session[i - 1].response, Eot)
             /\ Gap(trace.response, trace.mask, between,
                    at[i - 1] + Len(session[i - 1].response), at[i])
  <2> DEFINE N == Len(session)
             g == Conf(glue).glue
             e == Conf(glue).eot
  <2>1. PICK shown \in [1 .. N -> Seq(T)], at \in [1 .. N -> Nat] :
        /\ trace.prompt = shown[1] /\ shown[1] = session[1].prompt
        /\ at[1] = 0 /\ Len(trace.response) = at[N] + Len(session[N].response)
        /\ trace.response \in Seq(T) /\ trace.mask \in Seq({0, 1})
        /\ Len(trace.mask) = Len(trace.response)
        /\ \A i \in 1 .. N :
             /\ session[i].logprobs # Missing
             /\ \A j \in 1 .. Len(session[i].response) :
                  /\ trace.response[at[i] + j] = session[i].response[j]
                  /\ trace.mask[at[i] + j] = 1
                  /\ trace.logprobs[at[i] + j] = session[i].logprobs[j]
                  /\ at[i] + j \in 1 .. Len(trace.mask)
                  /\ LogprobFits(session[i].logprobs[j], TRUE)
        /\ \A i \in 2 .. N : \E new \in Seq(T), between \in Seq(T) :
             /\ Continues(session[i].prompt, session[i - 1].prompt, shown[i - 1], new, g)
             /\ shown[i] = shown[i - 1] \o new
             /\ Follows(between, new, session[i - 1].response, e)
             /\ Gap(trace.response, trace.mask, between,
                    at[i - 1] + Len(session[i - 1].response), at[i])
    BY <1>4, Zenon DEF TrainsOn
  <2>2. N = n /\ g = glue /\ e = Eot
    BY <1>1, <1>3
  <2> HIDE DEF N, g, e
  <2>3. \A i \in 2 .. n : \E new \in Seq(T), between \in Seq(T) :
             /\ Continues(session[i].prompt, session[i - 1].prompt, shown[i - 1], new, glue)
             /\ Follows(between, new, session[i - 1].response, Eot)
             /\ Gap(trace.response, trace.mask, between,
                    at[i - 1] + Len(session[i - 1].response), at[i])
    BY <2>1, <2>2, Zenon
  <2>4. \A i \in 1 .. n : \A j \in 1 .. Len(session[i].response) :
             trace.mask[at[i] + j] = 1 /\ at[i] + j \in 1 .. Len(trace.mask)
    BY <2>1, <2>2, Zenon
  <2>5. shown \in [1 .. n -> Seq(T)] /\ at \in [1 .. n -> Nat]
    BY <2>1, <2>2
  <2>6. trace.response \in Seq(T) /\ trace.mask \in Seq({0, 1})
        /\ Len(trace.mask) = Len(trace.response)
    BY <2>1
  <2> QED BY <2>3, <2>4, <2>5, <2>6, Zenon
<1>6. PICK new \in Seq(T), between \in Seq(T) :
        /\ Continues(session[k].prompt, session[k - 1].prompt, shown[k - 1], new, glue)
        /\ Follows(between, new, session[k - 1].response, Eot)
        /\ Gap(trace.response, trace.mask, between,
               at[k - 1] + Len(session[k - 1].response), at[k])
  BY <1>1, <1>5
<1>7. \E p \in Seq(T) : session[k].prompt = p \o new
  <2>1. shown[k - 1] \in Seq(T)
    BY <1>1
  <2>2. Unglued(session[k - 1].prompt, glue) \in Seq(T)
    <3> DEFINE b == session[k - 1].prompt
    <3>1. b \in Seq(T) /\ Len(glue) \in Nat
      BY <1>1, <1>2
    <3> HIDE DEF b
    <3>2. Len(b) - Len(glue) \in Int /\ Len(b) - Len(glue) <= Len(b)
      BY <3>1
    <3>3. SubSeq(b, 1, Len(b) - Len(glue)) \in Seq(T)
      BY <3>1, <3>2
    <3> QED BY <3>3 DEF Unglued, b
  <2> QED BY <1>6, <2>1, <2>2 DEF Continues
<1>8. ASSUME between # <<>>
      PROVE  \E start \in TurnStarts(trace) : Opening(trace, start) = between
  <2> DEFINE x == Len(session[k - 1].response)
             from == at[k - 1] + x
             to == at[k]
             m == trace.mask
             r == trace.response
             y == Len(session[k].response)
  <2>1. x \in 1 .. 4 /\ y \in 1 .. 4 /\ at[k - 1] \in Nat /\ at[k] \in Nat /\ Len(between) \in Nat
        /\ m \in Seq({0, 1}) /\ r \in Seq(T) /\ Len(m) = Len(r) /\ Len(r) \in Nat
    <3>1. at[k - 1] \in Nat /\ at[k] \in Nat /\ x \in 1 .. 4 /\ y \in 1 .. 4
      BY <1>1, <1>2
    <3>2. m \in Seq({0, 1}) /\ r \in Seq(T) /\ Len(m) = Len(r)
      BY <1>5
    <3>3. Len(between) \in Nat
      BY <1>6
    <3> HIDE DEF m, r, x, y
    <3>4. Len(r) \in Nat
      BY <3>2
    <3> QED BY <3>1, <3>2, <3>3, <3>4
  <2>2. /\ m[at[k - 1] + x] = 1 /\ at[k - 1] + x \in 1 .. Len(m)
        /\ m[at[k] + 1] = 1 /\ at[k] + 1 \in 1 .. Len(m)
    <3>1. \A i \in 1 .. n : \A j \in 1 .. Len(session[i].response) :
            m[at[i] + j] = 1 /\ at[i] + j \in 1 .. Len(m)
      BY <1>5
    <3>2. x \in 1 .. x /\ 1 \in 1 .. y
      <4> HIDE DEF x, y
      <4> QED BY <2>1
    <3> QED BY <1>1, <3>1, <3>2
  <2>3. /\ to = from + Len(between) /\ to <= Len(r)
        /\ \A j \in 1 .. Len(between) : r[from + j] = between[j] /\ m[from + j] = 0
    BY <1>6 DEF Gap
  <2> DEFINE b == Len(between)
  <2>4. b \in Nat /\ b # 0
    BY <1>8
  <2> HIDE DEF x, y, b
  <2>5. from \in Nat \ {0} /\ to \in Nat /\ from < to /\ to < Len(m) /\ from < Len(m)
        /\ to = from + b /\ m[from] = 1 /\ m[to + 1] = 1
    <3> HIDE DEF m, r
    <3>1. Len(m) \in Nat /\ x \in Nat /\ x >= 1 /\ at[k - 1] \in Nat /\ at[k] \in Nat
      BY <2>1
    <3>2. to = from + b /\ from \in 1 .. Len(m) /\ to + 1 \in 1 .. Len(m)
          /\ m[from] = 1 /\ m[to + 1] = 1
      BY <2>2, <2>3 DEF b
    <3> DEFINE L == Len(m)
    <3> HIDE DEF from, to, L
    <3>3. L \in Nat /\ b \in Nat /\ b # 0 /\ to = from + b /\ from \in 1 .. L /\ to + 1 \in 1 .. L
          /\ to \in Nat
      BY <2>4, <3>1, <3>2 DEF L, to
    <3>4. from \in Nat \ {0} /\ from < to /\ to < L /\ from < L
      BY <3>3
    <3> QED BY <3>2, <3>3, <3>4 DEF L
  <2> HIDE DEF from, to
  <2>6. \A i \in from + 1 .. to : m[i] = 0
    <3> SUFFICES ASSUME NEW i \in from + 1 .. to PROVE m[i] = 0
      OBVIOUS
    <3>1. i - from \in 1 .. b /\ from + (i - from) = i
      BY <2>4, <2>5
    <3> QED BY <2>3, <3>1 DEF b
  <2>7. to + 1 \in TurnStarts(trace) /\ Opening(trace, to + 1) = SubSeq(r, from + 1, to)
    BY <2>1, <2>5, <2>6, LaterOpening
  <2> HIDE DEF m, r
  <2>8. SubSeq(r, from + 1, to) = between
    <3>1. Len(SubSeq(r, from + 1, to)) = b /\ SubSeq(r, from + 1, to) \in Seq(T)
      BY <2>1, <2>4, <2>5
    <3>2. \A j \in 1 .. b : SubSeq(r, from + 1, to)[j] = r[from + j]
      BY <2>1, <2>4, <2>5
    <3>3. \A j \in 1 .. b : SubSeq(r, from + 1, to)[j] = between[j]
      BY <2>3, <3>2 DEF b
    <3> DEFINE z == SubSeq(r, from + 1, to)
    <3>4. z \in Seq(T) /\ Len(z) = Len(between) /\ \A j \in 1 .. Len(between) : z[j] = between[j]
      BY <3>1, <3>3 DEF b
    <3> HIDE DEF z
    <3>5. z = between
      BY <3>4
    <3> QED BY <3>5 DEF z
  <2> QED BY <2>7, <2>8
<1> QED BY <1>6, <1>7, <1>8 DEF OpenedWith, T

(* So no later turn was opened without the glue.                           *)
LEMMA LaterNotThinking ==
  ASSUME NEW turns, NEW glue, NEW session, NEW trace, Examined(turns, glue, session, trace),
         NEW k \in 2 .. Len(turns)
  PROVE  turns[k].how # "think"
<1> DEFINE T == Vocabulary
           c == session[k]
           b == session[k - 1].response
<1> SUFFICES ASSUME turns[k].how = "think" PROVE FALSE
  OBVIOUS
<1>1. k \in 1 .. Len(turns)
  BY MaxTurnsAssumption DEF Examined, Sorted
<1>2. PICK p \in Seq(T), new \in Seq(T), between \in Seq(T) :
        /\ c.prompt = p \o new /\ Follows(between, new, b, Eot)
        /\ between # <<>> =>
             \E start \in TurnStarts(trace) : Opening(trace, start) = between
  <2>1. OpenedWith(turns, glue, session, trace, k)
    BY TurnsOpened
  <2> QED BY <2>1 DEF OpenedWith
<1>3. c.prompt[Len(c.prompt)] = "header"
  <2> DEFINE before == Requested(turns, glue)[k].before
  <2>1. c.prompt = before \o <<"header">> /\ before \in Seq(T)
    <3>1. Recorded(turns, glue, c, k) /\ PromptOK(turns, k, Requested(turns, glue))
      BY <1>1, RecordsAre DEF Examined
    <3>2. AskedInTurn(turns, glue, Requested(turns, glue))
      <4>1. /\ DOMAIN turns = 1 .. Len(turns) /\ Len(turns) \in Nat
            /\ \A i \in 1 .. Len(turns) : turns[i].reply \in Replies
        BY MaxTurnsAssumption DEF Examined, Sorted, TurnLike
      <4> QED BY <4>1, RequestedAre
    <3>3. Requested(turns, glue)[k] \in Asked
      BY <1>1, <3>2 DEF AskedInTurn, Examined, Sorted
    <3> QED BY <3>1, <3>3 DEF Recorded, PromptOK, Asked
  <2> HIDE DEF before
  <2>2. Len(<<"header">>) = 1 /\ <<"header">>[1] = "header"
    OBVIOUS
  <2> DEFINE h == <<"header">>
  <2>3. h \in Seq(T) /\ Len(h) = 1 /\ Len(h) > 0 /\ h[1] = "header" /\ c.prompt = before \o h
    BY <2>1, <2>2, HeaderIs
  <2> HIDE DEF h, c
  <2>4. c.prompt[Len(c.prompt)] = h[Len(h)]
    BY <2>1, <2>3, LastOfJoin
  <2> QED BY <2>3, <2>4
<1> HIDE DEF c, b, T
<1>4. PICK e \in 1 .. Len(new) :
        new[e] = "eot" /\ between = Rest(new, IF Closed(b, Eot) THEN e ELSE e - 1)
  BY <1>2 DEF Follows, Eot
<1>5. Len(new) \in Nat /\ Len(new) > 0 /\ e \in Nat
  <2>1. Len(new) \in Nat
    BY <1>2
  <2> QED BY <1>4, <2>1
<1>6. new[Len(new)] = "header"
  BY <1>2, <1>3, <1>5, LastOfJoin
<1>7. e < Len(new)
  <2>1. e # Len(new)
    BY <1>4, <1>6
  <2>2. e <= Len(new)
    BY <1>4, <1>5
  <2> QED BY <1>5, <2>1, <2>2
<1> DEFINE d == IF Closed(b, Eot) THEN e ELSE e - 1
<1>8. d \in Nat /\ d < Len(new)
  <2>1. e - 1 \in Nat /\ e - 1 < Len(new)
    BY <1>4, <1>5, <1>7
  <2> QED BY <1>5, <1>7, <2>1
<1>9. between = Rest(new, d)
  BY <1>4
<1> HIDE DEF d
<1>10. /\ Len(between) = Len(new) - d /\ Len(between) > 0
       /\ between[Len(between)] = new[Len(new)]
  <2>1. /\ Len(Rest(new, d)) = Len(new) - d
        /\ \A i \in 1 .. Len(Rest(new, d)) : Rest(new, d)[i] = new[d + i]
    <3>1. new \in Seq(T) /\ d \in Nat /\ d <= Len(new)
      BY <1>2, <1>5, <1>8
    <3> QED BY <3>1, RestOf
  <2>2. Len(new) - d \in 1 .. Len(new) - d /\ d + (Len(new) - d) = Len(new)
    BY <1>5, <1>8
  <2>3. between[Len(new) - d] = new[d + (Len(new) - d)]
    BY <1>9, <2>1, <2>2
  <2> QED BY <1>9, <2>1, <2>2, <2>3
<1>11. between # <<>>
  BY <1>10
<1>12. PICK start \in TurnStarts(trace) : Opening(trace, start) = between
  BY <1>2, <1>11
<1>13. between[Len(between)] = "glue"
  <2>1. Opening(trace, start) \in Seq(Vocabulary)
    BY <1>2, <1>12 DEF T
  <2> QED BY <1>12, <2>1, OpenedWithGlue
<1> QED BY <1>6, <1>10, <1>13

-----------------------------------------------------------------------------
(* No turn began the conversation anew.                                    *)

(* What was shown only grows.                                              *)
Grows(session, glue, shown) ==
  /\ shown \in [1 .. Len(session) -> Seq(Vocabulary)] /\ shown[1] = session[1].prompt
  /\ \A k \in 2 .. Len(session) : \E new \in Seq(Vocabulary) :
       /\ Continues(session[k].prompt, session[k - 1].prompt, shown[k - 1], new, glue)
       /\ shown[k] = shown[k - 1] \o new

(* The prompts of an accepted episode, as stitched, each begin with the    *)
(* one before.                                                             *)
LEMMA ShownGrows ==
  ASSUME NEW turns, NEW glue, NEW session, NEW trace, Examined(turns, glue, session, trace)
  PROVE  \E shown : Grows(session, glue, shown)
<1>1. Conf(glue).glue = glue
  BY DEF Conf
<1>2. TrainsOn(Vocabulary, trace, session, Conf(glue))
  BY DEF Examined
<1> DEFINE N == Len(session)
           T == Vocabulary
           g == Conf(glue).glue
           e == Conf(glue).eot
<1>3. PICK shown \in [1 .. N -> Seq(T)], at \in [1 .. N -> Nat] :
        /\ trace.prompt = shown[1] /\ shown[1] = session[1].prompt
        /\ at[1] = 0 /\ Len(trace.response) = at[N] + Len(session[N].response)
        /\ trace.response \in Seq(T) /\ trace.mask \in Seq({0, 1})
        /\ Len(trace.mask) = Len(trace.response)
        /\ \A i \in 1 .. N :
             /\ session[i].logprobs # Missing
             /\ \A j \in 1 .. Len(session[i].response) :
                  /\ trace.response[at[i] + j] = session[i].response[j]
                  /\ trace.mask[at[i] + j] = 1
                  /\ trace.logprobs[at[i] + j] = session[i].logprobs[j]
                  /\ at[i] + j \in 1 .. Len(trace.mask)
                  /\ LogprobFits(session[i].logprobs[j], TRUE)
        /\ \A i \in 2 .. N : \E new \in Seq(T), between \in Seq(T) :
             /\ Continues(session[i].prompt, session[i - 1].prompt, shown[i - 1], new, g)
             /\ shown[i] = shown[i - 1] \o new
             /\ Follows(between, new, session[i - 1].response, e)
             /\ Gap(trace.response, trace.mask, between,
                    at[i - 1] + Len(session[i - 1].response), at[i])
  BY <1>2, Zenon DEF TrainsOn
<1>4. g = glue
  BY <1>1
<1> HIDE DEF N, T, g, e
<1>5. \A i \in 2 .. N : \E new \in Seq(T) :
        /\ Continues(session[i].prompt, session[i - 1].prompt, shown[i - 1], new, glue)
        /\ shown[i] = shown[i - 1] \o new
  BY <1>3, <1>4, Zenon
<1>6. shown \in [1 .. N -> Seq(T)] /\ shown[1] = session[1].prompt
  BY <1>3
<1> QED BY <1>5, <1>6, Zenon DEF Grows, N, T

(* What was shown always began with the task.                              *)
LEMMA TaskFirst ==
  ASSUME NEW turns, NEW glue, NEW session, NEW trace, Examined(turns, glue, session, trace),
         NEW shown, Grows(session, glue, shown), NEW k \in 1 .. Len(turns)
  PROVE  shown[k] \in Seq(Vocabulary) /\ Len(shown[k]) >= 2 /\ shown[k][2] = "task"
<1> DEFINE n == Len(turns)
           T == Vocabulary
           S == {i \in 1 .. n : Len(shown[i]) >= 2 /\ shown[i][2] = "task"}
<1>1. n \in Nat /\ n > 0 /\ Len(session) = n /\ 1 \in 1 .. n /\ k \in 1 .. n
  BY MaxTurnsAssumption DEF Examined, Sorted, CapturedAs
<1>2. shown \in [1 .. n -> Seq(T)] /\ shown[1] = session[1].prompt
  BY <1>1 DEF Grows
<1>3. 1 \in S
  <2> DEFINE h == Requested(turns, glue)[1].header
             b == <<"system", "task">>
  <2>1. session[1].prompt = b \o h /\ h \in Seq(T)
    <3>1. Recorded(turns, glue, session[1], 1) /\ PromptOK(turns, 1, Requested(turns, glue))
      BY <1>1, RecordsAre DEF Examined
    <3>2. h = Header \/ h = <<"header">>
      BY <3>1 DEF PromptOK, Examined
    <3>3. Requested(turns, glue)[1].before = b
      BY <3>1 DEF PromptOK
    <3> QED BY <3>1, <3>2, <3>3, HeaderIs DEF Recorded
  <2>2. "system" \in T /\ "task" \in T
    BY DEF Vocabulary
  <2> HIDE DEF T, h
  <2>3. b \in Seq(T) /\ Len(b) = 2 /\ b[2] = "task"
    BY <2>2
  <2> HIDE DEF b
  <2>4. Len(b \o h) = Len(b) + Len(h) /\ Len(h) \in Nat /\ (b \o h)[2] = b[2]
    <3>0. b \in Seq(T) /\ h \in Seq(T)
      BY <2>1, <2>3
    <3>1. \A i \in 1 .. Len(b) : (b \o h)[i] = b[i]
      BY <3>0
    <3>2. 2 \in 1 .. Len(b)
      BY <2>3
    <3>3. Len(b \o h) = Len(b) + Len(h) /\ Len(h) \in Nat
      BY <3>0
    <3> QED BY <3>1, <3>2, <3>3
  <2> QED BY <1>1, <1>2, <2>1, <2>3, <2>4
<1> HIDE DEF n, T
<1>4. ASSUME NEW i \in 1 + 1 .. n, i - 1 \in S PROVE i \in S
  <2>1. i \in 1 .. n /\ i - 1 \in 1 .. n /\ i \in 2 .. Len(session)
    BY <1>1
  <2> DEFINE s == shown[i - 1]
             t == shown[i]
  <2>2. PICK new \in Seq(T) : t = s \o new
    BY <2>1 DEF Grows, T
  <2>3. s \in Seq(T) /\ Len(s) >= 2 /\ s[2] = "task"
    BY <1>2, <1>4, <2>1
  <2> HIDE DEF s, t
  <2>4. Len(t) >= 2 /\ t[2] = "task"
    BY <2>2, <2>3
  <2> QED BY <2>1, <2>4 DEF t
<1> HIDE DEF S
<1>5. 1 .. n \subseteq S
  BY <1>1, <1>3, <1>4, Climb
<1>6. k \in S
  BY <1>1, <1>5
<1> QED BY <1>1, <1>2, <1>6 DEF S, T

(* So no turn of an accepted episode follows a compaction.                 *)
LEMMA NoneCompacted ==
  ASSUME NEW turns, NEW glue, NEW session, NEW trace, Examined(turns, glue, session, trace),
         NEW k \in 2 .. Len(turns)
  PROVE  turns[k].how # "compact"
<1> DEFINE T == Vocabulary
           request == Requested(turns, glue)
           now == session[k].prompt
           old == session[k - 1].prompt
<1> SUFFICES ASSUME turns[k].how = "compact" PROVE FALSE
  OBVIOUS
<1>1. /\ k \in 1 .. Len(turns) /\ k - 1 \in 1 .. Len(turns) /\ k > 1
      /\ k \in 2 .. Len(session) /\ glue \in Seq(T)
  BY MaxTurnsAssumption, GlueIs DEF Examined, Sorted, CapturedAs
<1>2. now = <<"system", "summary">> \o <<"header", "glue">>
  <2>1. Recorded(turns, glue, session[k], k) /\ PromptOK(turns, k, request)
    BY <1>1, RecordsAre DEF Examined
  <2> QED BY <1>1, <2>1 DEF Recorded, PromptOK, Header
<1>3. now \in Seq(T) /\ Len(now) = 4 /\ now[2] = "summary"
  <2>1. "system" \in T /\ "summary" \in T /\ "header" \in T /\ "glue" \in T
    BY DEF Vocabulary
  <2> HIDE DEF T, now
  <2>2. now = <<"system", "summary", "header", "glue">>
    BY <1>2, <2>1, TwoTwo
  <2> QED BY <2>1, <2>2
<1>4. old \in Seq(T) /\ Len(old) >= 4
  <2> DEFINE b == request[k - 1].before
             h == request[k - 1].header
  <2>1. Recorded(turns, glue, session[k - 1], k - 1) /\ PromptOK(turns, k - 1, request)
    BY <1>1, RecordsAre DEF Examined
  <2>2. turns[k - 1].how # "think" /\ turns[k - 1].how # "retry"
    <3>1. turns[1].how # "think"
      BY FirstNotThinking
    <3>2. k - 1 \in 2 .. Len(turns) => turns[k - 1].how # "think"
      BY LaterNotThinking
    <3>3. k - 1 = 1 \/ k - 1 \in 2 .. Len(turns)
      BY <1>1
    <3>4. turns[k - 1].how # "retry"
      BY <1>1, NoneCutInside
    <3> QED BY <3>1, <3>2, <3>3, <3>4
  <2>3. old = b \o h /\ h = Header /\ Len(b) >= 2
    BY <2>1, <2>2 DEF Recorded, PromptOK
  <2>4. b \in Seq(T)
    <3>1. AskedInTurn(turns, glue, request)
      <4>1. /\ DOMAIN turns = 1 .. Len(turns) /\ Len(turns) \in Nat
            /\ \A i \in 1 .. Len(turns) : turns[i].reply \in Replies
        BY MaxTurnsAssumption DEF Examined, Sorted, TurnLike
      <4> QED BY <4>1, RequestedAre
    <3>2. request[k - 1] \in Asked
      BY <1>1, <3>1 DEF AskedInTurn, Examined, Sorted
    <3> QED BY <3>2 DEF Asked
  <2>5. h \in Seq(T) /\ Len(h) = 2
    BY <2>3, HeaderIs
  <2> HIDE DEF b, h, T, old
  <2>6. old \in Seq(T) /\ Len(old) = Len(b) + Len(h) /\ Len(b) \in Nat
    <3>0. b \in Seq(T) /\ h \in Seq(T)
      BY <2>4, <2>5
    <3>1. b \o h \in Seq(T) /\ Len(b \o h) = Len(b) + Len(h) /\ Len(b) \in Nat
      BY <3>0
    <3> QED BY <2>3, <3>1
  <2> QED BY <2>3, <2>5, <2>6
<1>5. PICK shown : Grows(session, glue, shown)
  BY ShownGrows
<1> DEFINE s == shown[k - 1]
<1>6. PICK new \in Seq(T) : Continues(now, old, s, new, glue)
  BY <1>1, <1>5 DEF Grows
<1>7. s \in Seq(T) /\ Len(s) >= 2 /\ s[2] = "task"
  BY <1>1, <1>5, TaskFirst
<1> HIDE DEF now, old, s, T
<1>8. ~ExtendsUnglued(now, old, glue)
  <2>1. ~(Len(now) > Len(old))
    <3>1. Len(old) \in Nat
      BY <1>4
    <3> QED BY <1>3, <1>4, <3>1
  <2> QED BY <2>1 DEF ExtendsUnglued
<1>9. now = s \o new
  BY <1>6, <1>8 DEF Continues
<1>10. now[2] = "task"
  <2>1. \A i \in 1 .. Len(s) : (s \o new)[i] = s[i]
    BY <1>6, <1>7
  <2>2. 2 \in 1 .. Len(s)
    <3>1. Len(s) \in Nat
      BY <1>7
    <3> QED BY <1>7, <3>1
  <2> QED BY <1>7, <1>9, <2>1, <2>2
<1> QED BY <1>3, <1>10

-----------------------------------------------------------------------------
(* And the agent used its tools, where the policy asks for that.           *)
LEMMA ToolsUsed ==
  ASSUME NEW turns, NEW glue, NEW session, NEW trace, Examined(turns, glue, session, trace),
         Policy.toolless
  PROVE  turns[1].reply # "cut"
<1> DEFINE conf == Conf(glue)
           cs == Stitched(session, glue)
           c == cs[1]
<1> SUFFICES ASSUME turns[1].reply = "cut" PROVE FALSE
  OBVIOUS
<1>1. /\ Len(turns) \in Nat /\ 1 \in 1 .. Len(turns) /\ Len(session) = Len(turns)
      /\ session \in Seq(Records) /\ glue \in Seq(Vocabulary) /\ conf.glue = glue
  BY MaxTurnsAssumption, GlueIs DEF Examined, Sorted, CapturedAs, Conf
<1>2. Len(turns) = 1
  BY <1>1, NoneCutInside
<1>3. StitchedTo(Vocabulary, Records, session, glue)
  BY <1>1, StitchedIs DEF Records
<1>4. /\ cs \in Seq(Records) /\ Len(cs) = 1
      /\ c.messages = session[1].messages /\ c.reply = session[1].reply
      /\ c.tools = session[1].tools
  <2>1. cs \in Seq(Records) /\ Len(cs) = 1
    BY <1>1, <1>2, <1>3 DEF StitchedTo
  <2>2. PICK p : c = [session[1] EXCEPT !.prompt = p]
    BY <1>1, <1>3 DEF StitchedTo
  <2>3. session[1] \in Records
    BY <1>1
  <2> QED BY <2>1, <2>2, <2>3 DEF Records, Completions
<1>5. trace.messages = c.messages \o <<c.reply>> /\ trace.tools = c.tools
  <2>1. MergedInTurn(Streams(Vocabulary, Values, Messages, Data), cs, conf)
    <3>1. cs \in Seq(Completions(Vocabulary, Values, Messages, Data)) /\ Len(cs) > 0
      BY <1>4 DEF Records
    <3> QED BY <3>1, MergeRun
  <2>2. PICK st : st[0] = Begun(cs[1]) /\ FinalizeChain(cs, conf) = Finished(cs, st[Len(cs) - 1])
    BY <2>1, Zenon DEF MergedInTurn
  <2>3. Len(cs) - 1 = 0
    BY <1>4
  <2>4. trace = Finished(cs, Begun(cs[1]))
    BY <2>2, <2>3 DEF Examined
  <2> QED BY <2>4 DEF Finished, Begun
<1>6. c.messages = OpeningMessages /\ c.reply = Reply(turns[1]) /\ c.tools = {"search"}
  <2>1. Recorded(turns, glue, session[1], 1)
    BY <1>1, RecordsAre
  <2>2. Requested(turns, glue)[1].messages = OpeningMessages
    <3>1. AskedInTurn(turns, glue, Requested(turns, glue))
      <4>1. /\ DOMAIN turns = 1 .. Len(turns) /\ Len(turns) \in Nat
            /\ \A i \in 1 .. Len(turns) : turns[i].reply \in Replies
        BY MaxTurnsAssumption DEF Examined, Sorted, TurnLike
      <4> QED BY <4>1, RequestedAre
    <3>2. Requested(turns, glue)[1] = Request(turns, glue, 1, Requested(turns, glue)[1 - 1])
      BY <1>1, <3>1 DEF AskedInTurn, Examined, Sorted
    <3> QED BY <3>2 DEF Request
  <2>3. session[1].tools = {"search"}
    <3>1. /\ AsAsked(Faithful(turns, glue, 1), turns, glue, 1)
          /\ Shows(session[1], Faithful(turns, glue, 1), turns[1].capture)
      BY <1>1 DEF Examined, CapturedAs
    <3>2. turns[1].capture \in {"whole", "policy"}
      BY <1>1, CapturedWhole
    <3> QED BY <3>1, <3>2 DEF AsAsked, Shows
  <2> QED BY <1>4, <2>1, <2>2, <2>3 DEF Recorded
<1>7. \A i \in DOMAIN trace.messages : ~trace.messages[i].calls
  <2> DEFINE m1 == Said("system", "system")
             m2 == Said("user", "task")
             m3 == Reply(turns[1])
  <2>1. ~m1.calls /\ ~m2.calls /\ ~m3.calls
    BY DEF Said, Reply
  <2>2. trace.messages = <<m1, m2>> \o <<m3>>
    BY <1>5, <1>6 DEF OpeningMessages
  <2> HIDE DEF m1, m2, m3
  <2>3. <<m1, m2>> \o <<m3>> = <<m1, m2, m3>>
    <3>1. m1 \in {m1, m2, m3} /\ m2 \in {m1, m2, m3} /\ m3 \in {m1, m2, m3}
      OBVIOUS
    <3> QED BY <3>1, TwoOne
  <2>4. trace.messages = <<m1, m2, m3>>
    BY <2>2, <2>3
  <2>5. DOMAIN <<m1, m2, m3>> = 1 .. 3
    OBVIOUS
  <2>6. \A i \in 1 .. 3 : ~(<<m1, m2, m3>>[i].calls)
    BY <2>1
  <2> QED BY <2>4, <2>5, <2>6
<1>8. CheckToollessRoster(trace)
  BY <1>1 DEF Examined, OneTrace, RunTraceChecks
<1>9. trace.tools # {}
  BY <1>5, <1>6
<1> QED BY <1>7, <1>8, <1>9 DEF CheckToollessRoster

-----------------------------------------------------------------------------
(* An accepted episode, whatever its number of turns and the glue of its   *)
(* template, was nothing out of the ordinary: every turn the answer to the *)
(* one before, no reply cut but the last, and every record captured whole  *)
(* (builder.py and checks.py together).                                    *)
THEOREM AcceptedIsPlain ==
  ASSUME NEW turns \in TurnSequences, NEW glue \in Glues,
         Accepted(Judge(Session(turns, glue), glue))
  PROVE  Plain(turns)
<1> DEFINE session == Session(turns, glue)
           trace == FinalizeChain(Stitched(session, glue), Conf(glue))
<1>1. Examined(turns, glue, session, trace)
  BY AcceptedIsExamined
<1> HIDE DEF session, trace
<1>2. DOMAIN turns = 1 .. Len(turns) /\ Len(turns) \in Nat
  BY <1>1, MaxTurnsAssumption DEF Examined, Sorted
<1>3. ASSUME NEW k \in 1 .. Len(turns)
      PROVE  /\ turns[k].how = "next" /\ (turns[k].reply = "cut" => k = Len(turns))
             /\ turns[k].capture \in {"whole", "policy"}
             /\ turns[k].capture = turns[1].capture
  <2>1. turns[k].how \in {"next", "retry", "compact", "discard", "think"}
    BY <1>1 DEF Examined, Sorted, TurnLike
  <2>2. turns[k].how # "retry" /\ turns[k].how # "discard"
        /\ (turns[k].reply = "cut" => k = Len(turns))
    BY <1>1, NoneCutInside
  <2>3. turns[k].how # "think" /\ turns[k].how # "compact"
    <3>1. turns[1].how # "think" /\ turns[1].how # "compact"
      BY <1>1, FirstNotThinking DEF Examined
    <3>2. k \in 2 .. Len(turns) => turns[k].how # "think" /\ turns[k].how # "compact"
      BY <1>1, LaterNotThinking, NoneCompacted
    <3>3. k = 1 \/ k \in 2 .. Len(turns)
      BY <1>2
    <3> QED BY <3>1, <3>2, <3>3
  <2>4. turns[k].capture \in {"whole", "policy"} /\ turns[k].capture = turns[1].capture
    BY <1>1, CapturedWhole
  <2> QED BY <2>1, <2>2, <2>3, <2>4
<1>4. Policy.toolless => turns[1].reply # "cut"
  BY <1>1, ToolsUsed
<1> QED BY <1>2, <1>3, <1>4 DEF Plain

-----------------------------------------------------------------------------
(* What stands between two replies of an undisturbed episode.              *)

(* The slice is what follows the first end of turn, when the reply brought *)
(* its own.                                                                *)
LEMMA SliceAfter ==
  ASSUME NEW T, NEW tail \in Seq(T), NEW body, NEW eot, eot # Missing, Closed(body, eot),
         NEW e \in 1 .. Len(tail), tail[e] = eot, \A f \in 1 .. e - 1 : tail[f] # eot
  PROVE  SliceInterstitial(tail, body, eot) = Rest(tail, e)
<1> DEFINE I == {i \in 1 .. Len(tail) : tail[i] = eot}
<1>1. e \in I /\ \A i \in I : e <= i
  <2>1. ASSUME NEW i \in I PROVE e <= i
    <3>1. i \in 1 .. Len(tail) /\ tail[i] = eot
      OBVIOUS
    <3>2. ~(i \in 1 .. e - 1)
      BY <3>1
    <3> QED BY <3>1, <3>2
  <2> QED BY <2>1
<1>2. I \in SUBSET Int
  OBVIOUS
<1>3. Min(I) = e
  <2> HIDE DEF I
  <2>1. \A i \in I : (\A j \in I : i <= j) => i = e
    <3> SUFFICES ASSUME NEW i \in I, \A j \in I : i <= j PROVE i = e
      OBVIOUS
    <3>1. i <= e /\ e <= i /\ i \in Int
      BY <1>1, <1>2
    <3> QED BY <3>1
  <2> DEFINE m == CHOOSE x \in I : \A y \in I : x <= y
  <2>2. m \in I /\ \A j \in I : m <= j
    BY <1>1
  <2>3. Min(I) = m
    BY DEF Min
  <2> HIDE DEF m
  <2> QED BY <2>1, <2>2, <2>3
<1>4. SelectInSeq(tail, LAMBDA token : token = eot) = e
  BY <1>1, <1>3 DEF SelectInSeq
<1>5. Contains(tail, eot)
  BY DEF Contains
<1> QED BY <1>4, <1>5 DEF SliceInterstitial

(* The end of turn is a token.                                             *)
LEMMA EotIs ==
  Eot \in Vocabulary /\ Eot # Missing /\ Eot = "eot"
BY ValuesAssumption DEF Eot, Vocabulary

(* The slice after a reply that ended is the next prompt's addition to it. *)
LEMMA SliceBetween ==
  ASSUME NEW reply \in Replies, reply # "cut", NEW glue
  PROVE  /\ SliceInterstitial(Shown(reply), Sampled[reply], Eot) = Between(glue)
         /\ Between(glue) \in Seq(Vocabulary) /\ Between(glue) # Missing
<1> DEFINE T == Vocabulary
           tail == Shown(reply)
           body == Sampled[reply]
<1>1. tail \in Seq(T)
  BY RepliesAre, Zenon
<1>2. /\ "answer" \in T /\ "header" \in T /\ "glue" \in T
  BY DEF Vocabulary
<1>3. Between(glue) = <<"answer", "header", "glue">>
  BY ShownIs
<1>4. Between(glue) \in Seq(T) /\ Between(glue) # Missing
  <2> HIDE DEF T
  <2>1. Between(glue) \in Seq(T)
    BY <1>2, <1>3
  <2>2. Missing \notin Seq(T)
    BY ValuesAssumption DEF T
  <2> QED BY <2>1, <2>2
<1>5. SliceInterstitial(tail, body, Eot) = <<"answer", "header", "glue">>
  <2>1. CASE reply = "whole"
    <3>1. tail = <<"w", "eot", "answer", "header", "glue">> /\ body = <<"w", "eot">>
      BY <2>1, ShownIs, RepliesAre
    <3> HIDE DEF tail, body, T
    <3>2. Closed(body, Eot)
      BY <3>1, EotIs DEF Closed
    <3>3. 2 \in 1 .. Len(tail) /\ tail[2] = Eot /\ \A f \in 1 .. 2 - 1 : tail[f] # Eot
      <4>1. Len(tail) = 5 /\ tail[1] = "w" /\ tail[2] = "eot"
        BY <3>1
      <4> QED BY <4>1, EotIs
    <3>4. SliceInterstitial(tail, body, Eot) = Rest(tail, 2)
      BY <1>1, <3>2, <3>3, SliceAfter, EotIs
    <3>5. Rest(tail, 2) = <<"answer", "header", "glue">>
      <4>1. Rest(tail, 2) \in Seq(T) /\ Len(Rest(tail, 2)) = 3
            /\ \A i \in 1 .. 3 : Rest(tail, 2)[i] = tail[2 + i]
        <5>1. Len(tail) = 5
          BY <3>1
        <5>2. /\ Rest(tail, 2) \in Seq(T)
              /\ Len(Rest(tail, 2)) = IF 2 <= Len(tail) THEN Len(tail) - 2 ELSE 0
              /\ \A i \in 1 .. Len(Rest(tail, 2)) : Rest(tail, 2)[i] = tail[2 + i]
          BY <1>1, RestOf
        <5>3. Len(Rest(tail, 2)) = 3
          BY <5>1, <5>2
        <5> QED BY <5>2, <5>3
      <4> DEFINE z == Rest(tail, 2)
      <4>2. z \in Seq(T) /\ Len(z) = 3 /\ z[1] = "answer" /\ z[2] = "header" /\ z[3] = "glue"
        BY <3>1, <4>1
      <4> HIDE DEF z
      <4>3. z = <<"answer", "header", "glue">>
        BY <4>2
      <4> QED BY <4>3 DEF z
    <3> QED BY <3>4, <3>5
  <2>2. CASE reply = "drifting"
    <3>1. tail = <<"w", "vv", "eot", "answer", "header", "glue">> /\ body = <<"w", "v", "v", "eot">>
      BY <2>2, ShownIs, RepliesAre
    <3> HIDE DEF tail, body, T
    <3>2. Closed(body, Eot)
      BY <3>1, EotIs DEF Closed
    <3>3. 3 \in 1 .. Len(tail) /\ tail[3] = Eot /\ \A f \in 1 .. 3 - 1 : tail[f] # Eot
      <4>1. Len(tail) = 6 /\ tail[1] = "w" /\ tail[2] = "vv" /\ tail[3] = "eot"
        BY <3>1
      <4> QED BY <4>1, EotIs
    <3>4. SliceInterstitial(tail, body, Eot) = Rest(tail, 3)
      BY <1>1, <3>2, <3>3, SliceAfter, EotIs
    <3>5. Rest(tail, 3) = <<"answer", "header", "glue">>
      <4>1. Rest(tail, 3) \in Seq(T) /\ Len(Rest(tail, 3)) = 3
            /\ \A i \in 1 .. 3 : Rest(tail, 3)[i] = tail[3 + i]
        <5>1. Len(tail) = 6
          BY <3>1
        <5>2. /\ Rest(tail, 3) \in Seq(T)
              /\ Len(Rest(tail, 3)) = IF 3 <= Len(tail) THEN Len(tail) - 3 ELSE 0
              /\ \A i \in 1 .. Len(Rest(tail, 3)) : Rest(tail, 3)[i] = tail[3 + i]
          BY <1>1, RestOf
        <5>3. Len(Rest(tail, 3)) = 3
          BY <5>1, <5>2
        <5> QED BY <5>2, <5>3
      <4> DEFINE z == Rest(tail, 3)
      <4>2. z \in Seq(T) /\ Len(z) = 3 /\ z[1] = "answer" /\ z[2] = "header" /\ z[3] = "glue"
        BY <3>1, <4>1
      <4> HIDE DEF z
      <4>3. z = <<"answer", "header", "glue">>
        BY <4>2
      <4> QED BY <4>3 DEF z
    <3> QED BY <3>4, <3>5
  <2> QED BY <2>1, <2>2 DEF Replies
<1> QED BY <1>3, <1>4, <1>5

-----------------------------------------------------------------------------
(* An undisturbed session: every prompt goes on from the one before with   *)
(* its reply and an answer to it.                                          *)

Undisturbed(turns, glue, session) ==
  /\ Sorted(turns) /\ glue \in Glues /\ Len(session) = Len(turns)
  /\ \A k \in 1 .. Len(turns) :
       /\ turns[k].reply = "cut" => k = Len(turns)
       /\ session[k].response = Sampled[turns[k].reply]
       /\ session[k].logprobs = Logprobs(k, turns[k].reply)
       /\ session[k].finish = Ending[turns[k].reply]
       /\ session[k].choices = 1 /\ session[k].shape = "agent" /\ session[k].cut = FALSE
       /\ session[k].tools = {"search"} /\ session[k].policy = session[1].policy
  /\ \E before \in [1 .. Len(turns) -> Seq(Vocabulary)] :
       /\ before[1] = <<"system", "task">>
       /\ \A k \in 1 .. Len(turns) : session[k].prompt = before[k] \o Header
       /\ \A k \in 2 .. Len(turns) :
            before[k] = before[k - 1] \o Past(glue) \o Rendered[turns[k - 1].reply] \o <<"answer">>

(* What the stitch makes of it.                                            *)
Chained(turns, session, cs) ==
  /\ Len(cs) = Len(turns)
  /\ \E shown \in [1 .. Len(turns) -> Seq(Vocabulary)] :
       /\ shown[1] = session[1].prompt
       /\ \A k \in 1 .. Len(turns) : /\ cs[k] = [session[k] EXCEPT !.prompt = shown[k]]
                                     /\ cs[k].prompt = shown[k]
       /\ \A k \in 2 .. Len(turns) : shown[k] = shown[k - 1] \o Shown(turns[k - 1].reply)

(* The stitched prompts of an undisturbed session: each the last one and   *)
(* what shows its reply.                                                   *)
LEMMA StitchedSteadily ==
  ASSUME NEW G, NEW D, NEW session \in Seq(Completions(Vocabulary, Values, G, D)),
         NEW turns, NEW glue, Undisturbed(turns, glue, session)
  PROVE  Chained(turns, session, Stitched(session, glue))
<1> DEFINE n == Len(turns)
           T == Vocabulary
           cs == Stitched(session, glue)
<1>1. /\ n \in Nat /\ n > 0 /\ 1 \in 1 .. n /\ Len(session) = n /\ DOMAIN session = 1 .. n
      /\ glue \in Seq(T) /\ glue \in Glues /\ (glue = <<>> \/ glue = <<"glue">>)
      /\ \A k \in 1 .. n : turns[k].reply \in Replies
  <2>1. /\ n \in 1 .. MaxTurns /\ Len(session) = n /\ glue \in Glues
        /\ \A k \in 1 .. n : turns[k].reply \in Replies
    BY DEF Undisturbed, Sorted, TurnLike
  <2>2. glue \in Seq(T) /\ (glue = <<>> \/ glue = <<"glue">>)
    BY <2>1, GlueIs
  <2> HIDE DEF n, T
  <2>3. n \in Nat /\ n > 0 /\ 1 \in 1 .. n
    BY <2>1, MaxTurnsAssumption
  <2>4. DOMAIN session = 1 .. n
    BY <2>1
  <2> QED BY <2>1, <2>2, <2>3, <2>4
<1>2. PICK before \in [1 .. n -> Seq(T)] :
        /\ before[1] = <<"system", "task">>
        /\ \A k \in 1 .. n : session[k].prompt = before[k] \o Header
        /\ \A k \in 2 .. n :
            before[k] = before[k - 1] \o Past(glue) \o Rendered[turns[k - 1].reply] \o <<"answer">>
  BY Zenon DEF Undisturbed
<1>3. StitchedTo(T, Completions(T, Values, G, D), session, glue)
  BY <1>1, StitchedIs
<1> HIDE DEF n, cs, T
<1>4. PICK shown \in [1 .. n -> Seq(T)] :
        /\ \A i \in 1 .. n : /\ cs[i] = [session[i] EXCEPT !.prompt = shown[i]]
                             /\ cs[i].prompt = shown[i]
        /\ IF glue = <<>> THEN \A i \in 1 .. n : shown[i] = session[i].prompt
                          ELSE ShownTo(session, glue, shown)
  BY <1>1, <1>3 DEF StitchedTo, cs
<1>5. shown[1] = session[1].prompt
  <2>1. ~(1 > 1)
    OBVIOUS
  <2>2. CASE glue = <<>>
    BY <1>1, <1>4, <2>2
  <2>3. CASE glue # <<>>
    <3>1. ShownTo(session, glue, shown) /\ 1 \in DOMAIN session
      BY <1>1, <1>4, <2>3
    <3> QED BY <2>1, <3>1, Zenon DEF ShownTo
  <2> QED BY <2>2, <2>3
<1>6. ASSUME NEW k \in 2 .. n PROVE shown[k] = shown[k - 1] \o Shown(turns[k - 1].reply)
  <2> DEFINE b == before[k - 1]
             r == turns[k - 1].reply
             prompt == session[k - 1].prompt
             next == session[k].prompt
  <2>1. k \in 1 .. n /\ k - 1 \in 1 .. n /\ k > 1
    BY <1>1
  <2>2. b \in Seq(T) /\ r \in Replies /\ prompt = b \o Header
    BY <1>1, <1>2, <2>1
  <2>3. next = b \o Past(glue) \o Rendered[r] \o <<"answer">> \o Header
    BY <1>2, <2>1, Zenon
  <2> HIDE DEF b, r, prompt, next
  <2>4. /\ glue = <<>> => next = prompt \o Shown(r)
        /\ glue # <<>> => /\ ExtendsUnglued(next, prompt, glue)
                          /\ Rest(next, Len(prompt) - Len(glue)) = Shown(r)
    <3>1. b \in Seq(Vocabulary) /\ r \in Replies /\ glue \in Glues /\ prompt = b \o Header
      BY <1>1, <2>2 DEF T
    <3>2. NextIs(prompt, next, r, glue)
      BY <2>3, <3>1, NextPrompt, Zenon
    <3> QED BY <3>2 DEF NextIs
  <2>5. CASE glue = <<>>
    BY <1>4, <2>1, <2>4, <2>5 DEF next, prompt, r
  <2>6. CASE glue # <<>>
    <3>1. shown[k] = IF k > 1 /\ ExtendsUnglued(next, prompt, glue)
                       THEN shown[k - 1] \o Rest(next, Len(prompt) - Len(glue))
                       ELSE next
      BY <1>1, <1>4, <2>1, <2>6, Zenon DEF ShownTo, next, prompt
    <3> QED BY <2>1, <2>4, <2>6, <3>1, Zenon DEF r
  <2> QED BY <2>5, <2>6
<1>7. Len(cs) = n
  BY <1>1, <1>3 DEF StitchedTo, cs
<1> QED BY <1>4, <1>5, <1>6, <1>7, Zenon DEF Chained, n, cs, T

-----------------------------------------------------------------------------
(* What the stream of an undisturbed episode is like.                      *)

TrainedAt(mask)      == {x \in 1 .. Len(mask) : mask[x] = 1}
Certain(mask, slots) == {x \in TrainedAt(mask) : slots[x] = 0}
Low                == -(10 * MaxTurns + 4)

(* A body, at the logprobs it was sampled with: no more than one token of  *)
(* four is certain.                                                        *)
Sound(r, l) ==
  /\ r \in Seq(Vocabulary) /\ l \in Seq(Int) /\ Len(r) \in 1 .. 4 /\ Len(l) = Len(r)
  /\ \A j \in 1 .. Len(r) : l[j] \in Low .. 0 /\ (l[j] = 0 => j = 3 /\ Len(r) = 4)

(* Every token trained has a logprob, every reply was opened with the      *)
(* generation prompt, and no more than one token of four was certain.      *)
Level(ids, mask, slots) ==
  /\ ids \in Seq(Vocabulary) /\ mask \in Seq({0, 1}) /\ slots \in Seq(Int \cup {Missing})
  /\ Len(mask) = Len(ids) /\ Len(slots) = Len(ids) /\ Len(ids) >= 1 /\ mask[1] = 1
  /\ \A x \in 1 .. Len(ids) :
       /\ mask[x] = 0 => slots[x] = Missing
       /\ mask[x] = 1 => slots[x] \in Low .. 0
  /\ \A x \in 2 .. Len(ids) : mask[x] = 1 /\ mask[x - 1] = 0 =>
       x > 3 /\ mask[x - 2] = 0 /\ ids[x - 1] = "glue" /\ ids[x - 2] = "header"
  /\ 4 * Cardinality(Certain(mask, slots)) <= Cardinality(TrainedAt(mask))

(* The body of every reply is sound.                                       *)
LEMMA BodySound ==
  ASSUME NEW reply \in Replies, NEW k \in 1 .. MaxTurns
  PROVE  Sound(Sampled[reply], Logprobs(k, reply))
<1> DEFINE r == Sampled[reply]
           l == Logprobs(k, reply)
<1>1. r \in Seq(Vocabulary) /\ Len(r) \in 1 .. 4
  BY RepliesAre, Zenon
<1>2. /\ l \in Seq(Int) /\ Len(l) = Len(r)
      /\ \A j \in 1 .. Len(r) : l[j] \in Low .. 0 /\ (l[j] = 0 <=> reply = "drifting" /\ j = 3)
  BY LogprobsAre DEF Low
<1>3. reply = "drifting" => Len(r) = 4
  <2> SUFFICES ASSUME reply = "drifting" PROVE Len(r) = 4
    OBVIOUS
  <2>1. r = <<"w", "v", "v", "eot">>
    BY RepliesAre
  <2> HIDE DEF r
  <2> QED BY <2>1
<1> HIDE DEF r, l
<1> QED BY <1>1, <1>2, <1>3 DEF Sound, r, l

(* One certain token more, with four trained.                              *)
LEMMA OneInFour ==
  ASSUME NEW n \in Nat, NEW A \in SUBSET (1 .. n), NEW B \in SUBSET A,
         4 * Cardinality(B) <= Cardinality(A), NEW a \in Nat, n <= a, NEW m \in 1 .. 4,
         NEW S, S = {} \/ (m = 4 /\ \E s : S = {s})
  PROVE  4 * Cardinality(B \cup S) <= Cardinality(A \cup (a + 1 .. a + m))
<1> DEFINE I == a + 1 .. a + m
<1>1. IsFiniteSet(A) /\ IsFiniteSet(B)
  <2>1. IsFiniteSet(1 .. n)
    BY FS_Interval
  <2>2. IsFiniteSet(A)
    BY <2>1, FS_Subset
  <2> QED BY <2>2, FS_Subset
<1>2. Cardinality(A) \in Nat /\ Cardinality(B) \in Nat
  BY <1>1, FS_CardinalityType
<1>3. IsFiniteSet(I) /\ Cardinality(I) = m
  <2>1. a + 1 \in Int /\ a + m \in Int /\ ~(a + 1 > a + m) /\ (a + m) - (a + 1) + 1 = m
    OBVIOUS
  <2> QED BY <2>1, FS_Interval
<1>4. A \cap I = {}
  OBVIOUS
<1> HIDE DEF I
<1>5. Cardinality(A \cup I) = Cardinality(A) + m
  <2>1. Cardinality(A \cup I) = Cardinality(A) + Cardinality(I) - Cardinality(A \cap I)
    BY <1>1, <1>3, FS_Union
  <2>2. Cardinality(A \cap I) = 0
    BY <1>4, FS_EmptySet
  <2> QED BY <1>2, <1>3, <2>1, <2>2
<1>6. CASE S = {}
  <2>1. B \cup S = B
    BY <1>6
  <2> QED BY <1>2, <1>5, <2>1 DEF I
<1>7. CASE S # {}
  <2>1. PICK s : S = {s}
    BY <1>7
  <2>2. Cardinality(B \cup S) <= Cardinality(B) + 1
        /\ Cardinality(B \cup S) \in Nat
    <3>1. Cardinality(B \cup {s}) = IF s \in B THEN Cardinality(B) ELSE Cardinality(B) + 1
      BY <1>1, FS_AddElement
    <3> QED BY <1>2, <2>1, <3>1
  <2>3. m = 4
    BY <1>7
  <2> QED BY <1>2, <1>5, <2>2, <2>3 DEF I
<1> QED BY <1>6, <1>7

(* The first body.                                                         *)
LEMMA LevelFirst ==
  ASSUME NEW r, NEW l, Sound(r, l)
  PROVE  Level(r, Same(1, r), l)
<1> DEFINE m == Same(1, r)
           L == Len(r)
<1>1. /\ r \in Seq(Vocabulary) /\ l \in Seq(Int) /\ L \in 1 .. 4 /\ Len(l) = L
      /\ \A j \in 1 .. L : l[j] \in Low .. 0 /\ (l[j] = 0 => j = 3 /\ L = 4)
  BY DEF Sound
<1>2. m \in Seq({0, 1}) /\ Len(m) = L /\ \A i \in 1 .. L : m[i] = 1
  <2>1. 1 \in {0, 1}
    OBVIOUS
  <2> QED BY <1>1, <2>1, SameOf
<1> HIDE DEF m, L
<1>3. l \in Seq(Int \cup {Missing})
  BY <1>1
<1>4. L \in Nat /\ L >= 1 /\ 1 \in 1 .. L
  BY <1>1
<1>5. 4 * Cardinality(Certain(m, l)) <= Cardinality(TrainedAt(m))
  <2> DEFINE S == Certain(m, l)
  <2>1. TrainedAt(m) = {} \cup (0 + 1 .. 0 + L)
    BY <1>2, <1>4 DEF TrainedAt
  <2>2. S = {} \/ (L = 4 /\ \E s : S = {s})
    <3>1. \A x \in S : x = 3 /\ L = 4
      BY <1>1, <1>2 DEF Certain, TrainedAt
    <3> HIDE DEF S
    <3>2. S # {} => S = {3} /\ L = 4
      BY <3>1
    <3> QED BY <3>2
  <2> HIDE DEF S
  <2>3. 4 * Cardinality({}) <= Cardinality({})
    <3>1. Cardinality({}) = 0
      BY FS_EmptySet
    <3> QED BY <3>1
  <2>4. {} \in SUBSET (1 .. 0) /\ {} \in SUBSET {} /\ 0 \in Nat /\ 0 <= 0 /\ L \in 1 .. 4
    BY <1>1
  <2>5. 4 * Cardinality({} \cup S) <= Cardinality({} \cup (0 + 1 .. 0 + L))
    BY <2>2, <2>3, <2>4, OneInFour
  <2>6. {} \cup S = S
    OBVIOUS
  <2> QED BY <2>1, <2>5, <2>6 DEF S
<1>6. \A x \in 1 .. L : m[x] # 0
  BY <1>2
<1>7. \A x \in 2 .. L : x - 1 \in 1 .. L /\ m[x - 1] # 0
  BY <1>2, <1>4
<1>8. \A x \in 1 .. L : l[x] \in Low .. 0
  BY <1>1
<1>9. m[1] = 1
  BY <1>2, <1>4
<1> QED BY <1>1, <1>2, <1>3, <1>4, <1>5, <1>6, <1>7, <1>8, <1>9, Zenon DEF Level, m, L

(* One sequence after the other, place by place.                           *)
Placed(T, all, s, b, r) ==
  /\ all \in Seq(T) /\ Len(all) = Len(s) + 3 + Len(r)
  /\ \A x \in 1 .. Len(s) : all[x] = s[x]
  /\ \A x \in Len(s) + 1 .. Len(s) + 3 : all[x] = b[x - Len(s)]
  /\ \A x \in Len(s) + 4 .. Len(s) + 3 + Len(r) : all[x] = r[x - (Len(s) + 3)]

Parted(T, all, s, b, r) ==
  /\ all \in Seq(T) /\ Len(all) = Len(s) + Len(b) + Len(r)
  /\ \A x \in 1 .. Len(s) : all[x] = s[x]
  /\ \A x \in 1 .. Len(b) : all[Len(s) + x] = b[x]
  /\ \A x \in 1 .. Len(r) : all[Len(s) + Len(b) + x] = r[x]

(* Where the members of three joined sequences stand, and how many there   *)
(* are.                                                                    *)
LEMMA PartsOf ==
  ASSUME NEW T, NEW s \in Seq(T), NEW b \in Seq(T), NEW r \in Seq(T)
  PROVE  Parted(T, s \o b \o r, s, b, r)
BY DEF Parted

(* Every place of three joined sequences is in one of the three.           *)
LEMMA PlacesOf ==
  ASSUME NEW T, NEW s \in Seq(T), NEW b \in Seq(T), NEW r \in Seq(T), Len(b) = 3
  PROVE  Placed(T, s \o b \o r, s, b, r)
<1> DEFINE all == s \o b \o r
<1> DEFINE n == Len(s)
           m == Len(r)
<1>1. /\ all \in Seq(T) /\ Len(all) = n + Len(b) + m
      /\ \A x \in 1 .. n : all[x] = s[x]
      /\ \A x \in 1 .. Len(b) : all[n + x] = b[x]
      /\ \A x \in 1 .. m : all[n + Len(b) + x] = r[x]
  <2>1. Parted(T, all, s, b, r)
    BY PartsOf, Zenon
  <2> HIDE DEF all
  <2> QED BY <2>1 DEF Parted
<1>2. n \in Nat /\ m \in Nat
  OBVIOUS
<1> HIDE DEF n, m, all
<1>3. ASSUME NEW x \in n + 1 .. n + 3 PROVE all[x] = b[x - n]
  <2>1. x - n \in 1 .. 3 /\ n + (x - n) = x
    BY <1>2
  <2> QED BY <1>1, <2>1
<1>4. ASSUME NEW x \in n + 4 .. n + 3 + m PROVE all[x] = r[x - (n + 3)]
  <2>1. x - (n + 3) \in 1 .. m /\ n + 3 + (x - (n + 3)) = x
    BY <1>2
  <2> QED BY <1>1, <2>1
<1> QED BY <1>1, <1>3, <1>4 DEF n, m, all, Placed

Alike(v, s, V) == /\ Same(v, s) \in Seq(V) /\ Len(Same(v, s)) = Len(s)
                  /\ \A i \in 1 .. Len(s) : Same(v, s)[i] = v

(* One value as often as a sequence is long, place by place.               *)
LEMMA AlikeAre ==
  ASSUME NEW T, NEW s \in Seq(T), NEW V, NEW v \in V
  PROVE  Alike(v, s, V)
BY SameOf DEF Alike

(* A level stream with one more reply, opened with the generation prompt,  *)
(* is level.                                                               *)
LEMMA LevelNext ==
  ASSUME NEW ids, NEW mask, NEW slots, Level(ids, mask, slots), NEW r, NEW l, Sound(r, l),
         NEW b, b \in Seq(Vocabulary), Len(b) = 3, b[2] = "header", b[3] = "glue",
         NEW ids2, ids2 = ids \o b \o r,
         NEW mask2, mask2 = mask \o Same(0, b) \o Same(1, r),
         NEW slots2, slots2 = slots \o Same(Missing, b) \o l
  PROVE  Level(ids2, mask2, slots2)
<1> DEFINE a == Len(ids)
           L == Len(r)
           N == a + 3 + L
           T == Vocabulary
           W == Int \cup {Missing}
<1>1. /\ ids \in Seq(T) /\ mask \in Seq({0, 1}) /\ slots \in Seq(W)
      /\ Len(mask) = a /\ Len(slots) = a /\ a >= 1 /\ mask[1] = 1
      /\ \A x \in 1 .. a :
           /\ mask[x] = 0 => slots[x] = Missing
           /\ mask[x] = 1 => slots[x] \in Low .. 0
      /\ \A x \in 2 .. a : mask[x] = 1 /\ mask[x - 1] = 0 =>
           x > 3 /\ mask[x - 2] = 0 /\ ids[x - 1] = "glue" /\ ids[x - 2] = "header"
      /\ 4 * Cardinality(Certain(mask, slots)) <= Cardinality(TrainedAt(mask))
  BY DEF Level
<1>2. /\ r \in Seq(T) /\ l \in Seq(Int) /\ L \in 1 .. 4 /\ Len(l) = L
      /\ \A j \in 1 .. L : l[j] \in Low .. 0 /\ (l[j] = 0 => j = 3 /\ L = 4)
  BY DEF Sound
<1>3. a \in Nat
  BY <1>1
<1> HIDE DEF T
<1>4. b \in Seq(T)
  BY DEF T
<1>5. /\ Same(0, b) \in Seq({0, 1}) /\ Len(Same(0, b)) = 3
      /\ \A i \in 1 .. 3 : Same(0, b)[i] = 0
      /\ Same(1, r) \in Seq({0, 1}) /\ Len(Same(1, r)) = L
      /\ \A i \in 1 .. L : Same(1, r)[i] = 1
  <2>1. 0 \in {0, 1} /\ 1 \in {0, 1}
    OBVIOUS
  <2>2. /\ Same(0, b) \in Seq({0, 1}) /\ Len(Same(0, b)) = Len(b)
        /\ \A i \in 1 .. Len(b) : Same(0, b)[i] = 0
    BY <1>4, <2>1, SameOf, Zenon
  <2>3. /\ Same(1, r) \in Seq({0, 1}) /\ Len(Same(1, r)) = Len(r)
        /\ \A i \in 1 .. Len(r) : Same(1, r)[i] = 1
    <3>1. r \in Seq(T)
      BY <1>2
    <3>2. Alike(1, r, {0, 1})
      BY <2>1, <3>1, AlikeAre, Zenon
    <3> QED BY <3>2 DEF Alike
  <2> QED BY <2>2, <2>3
<1>6. /\ Same(Missing, b) \in Seq(W) /\ Len(Same(Missing, b)) = 3
      /\ \A i \in 1 .. 3 : Same(Missing, b)[i] = Missing
  <2>1. Missing \in W
    OBVIOUS
  <2>2. /\ Same(Missing, b) \in Seq(W) /\ Len(Same(Missing, b)) = Len(b)
        /\ \A i \in 1 .. Len(b) : Same(Missing, b)[i] = Missing
    BY <1>4, <2>1, SameOf, Zenon
  <2> QED BY <2>2
<1>7. l \in Seq(W)
  BY <1>2
<1> DEFINE z == Same(0, b)
           o == Same(1, r)
           g == Same(Missing, b)
<1> HIDE DEF z, o, g, L, a, W
<1>8. /\ ids2 \in Seq(T) /\ Len(ids2) = N
      /\ \A x \in 1 .. a : ids2[x] = ids[x]
      /\ \A x \in a + 1 .. a + 3 : ids2[x] = b[x - a]
  <2>1. ids \in Seq(T) /\ r \in Seq(T) /\ Len(b) = 3
    BY <1>1, <1>2
  <2>2. Placed(T, ids2, ids, b, r)
    BY <1>4, <2>1, PlacesOf, Zenon
  <2> QED BY <2>2 DEF Placed, a, L
<1>9. /\ mask2 \in Seq({0, 1}) /\ Len(mask2) = N
      /\ \A x \in 1 .. a : mask2[x] = mask[x]
      /\ \A x \in a + 1 .. a + 3 : mask2[x] = 0
      /\ \A x \in a + 4 .. N : mask2[x] = 1
  <2>1. /\ mask2 = mask \o z \o o /\ z \in Seq({0, 1}) /\ o \in Seq({0, 1}) /\ Len(z) = 3
        /\ Len(o) = L /\ Len(mask) = a
    BY <1>1, <1>5 DEF z, o
  <2>2. /\ mask2 \in Seq({0, 1}) /\ Len(mask2) = N
        /\ \A x \in 1 .. a : mask2[x] = mask[x]
        /\ \A x \in a + 1 .. a + 3 : mask2[x] = z[x - a]
        /\ \A x \in a + 4 .. a + 3 + L : mask2[x] = o[x - (a + 3)]
    <3>1. Placed({0, 1}, mask2, mask, z, o)
      <4>1. mask \in Seq({0, 1})
        BY <1>1
      <4> QED BY <2>1, <4>1, PlacesOf, Zenon
    <3> QED BY <2>1, <3>1 DEF Placed
  <2>3. ASSUME NEW x \in a + 1 .. a + 3 PROVE mask2[x] = 0
    <3>1. x - a \in 1 .. 3
      BY <1>3
    <3> QED BY <1>5, <2>2, <3>1 DEF z
  <2>4. ASSUME NEW x \in a + 4 .. N PROVE mask2[x] = 1
    <3>1. x - (a + 3) \in 1 .. L
      BY <1>2, <1>3 DEF L
    <3> QED BY <1>5, <2>2, <3>1 DEF o
  <2> QED BY <2>2, <2>3, <2>4
<1>10. /\ slots2 \in Seq(W) /\ Len(slots2) = N
       /\ \A x \in 1 .. a : slots2[x] = slots[x]
       /\ \A x \in a + 1 .. a + 3 : slots2[x] = Missing
       /\ \A x \in a + 4 .. N : slots2[x] = l[x - (a + 3)]
  <2>1. /\ slots2 = slots \o g \o l /\ g \in Seq(W) /\ Len(g) = 3
        /\ Len(l) = L /\ Len(slots) = a
    BY <1>1, <1>2, <1>6 DEF g, L
  <2>2. /\ slots2 \in Seq(W) /\ Len(slots2) = N
        /\ \A x \in 1 .. a : slots2[x] = slots[x]
        /\ \A x \in a + 1 .. a + 3 : slots2[x] = g[x - a]
        /\ \A x \in a + 4 .. a + 3 + L : slots2[x] = l[x - (a + 3)]
    <3>1. Placed(W, slots2, slots, g, l)
      <4>1. slots \in Seq(W)
        BY <1>1
      <4> QED BY <1>7, <2>1, <4>1, PlacesOf, Zenon
    <3> QED BY <2>1, <3>1 DEF Placed
  <2>3. ASSUME NEW x \in a + 1 .. a + 3 PROVE slots2[x] = Missing
    <3>1. x - a \in 1 .. 3
      BY <1>3
    <3> QED BY <1>6, <2>2, <3>1 DEF g
  <2> QED BY <2>2, <2>3
<1>11. ids2[a + 2] = "header" /\ ids2[a + 3] = "glue"
  <2>1. a + 2 \in a + 1 .. a + 3 /\ a + 3 \in a + 1 .. a + 3 /\ (a + 2) - a = 2 /\ (a + 3) - a = 3
    BY <1>3
  <2> QED BY <1>8, <2>1
<1>12. L \in 1 .. 4 /\ a >= 1 /\ \A j \in 1 .. L : l[j] \in Low .. 0 /\ (l[j] = 0 => j = 3 /\ L = 4)
  BY <1>1, <1>2 DEF L, a
<1>13. \A x \in a + 4 .. N : x - (a + 3) \in 1 .. L
  BY <1>3, <1>12
<1>14. ASSUME NEW x \in 1 .. N
       PROVE  /\ mask2[x] = 0 => slots2[x] = Missing
              /\ mask2[x] = 1 => slots2[x] \in Low .. 0
  <2>1. CASE x \in 1 .. a
    BY <1>1, <1>9, <1>10, <2>1 DEF a
  <2>2. CASE x \in a + 1 .. a + 3
    BY <1>9, <1>10, <2>2
  <2>3. CASE x \in a + 4 .. N
    <3>1. l[x - (a + 3)] \in Low .. 0
      BY <1>12, <1>13, <2>3
    <3> QED BY <1>9, <1>10, <2>3, <3>1
  <2>4. x \in 1 .. a \/ x \in a + 1 .. a + 3 \/ x \in a + 4 .. N
    BY <1>3, <1>12
  <2> QED BY <2>1, <2>2, <2>3, <2>4
<1>15. ASSUME NEW x \in 2 .. N, mask2[x] = 1, mask2[x - 1] = 0
       PROVE  x > 3 /\ mask2[x - 2] = 0 /\ ids2[x - 1] = "glue" /\ ids2[x - 2] = "header"
  <2>1. CASE x \in 2 .. a
    <3>1. x \in 1 .. a /\ x - 1 \in 1 .. a /\ x \in Int
      BY <1>3, <2>1
    <3>2. x > 3 /\ mask[x - 2] = 0 /\ ids[x - 1] = "glue" /\ ids[x - 2] = "header"
      BY <1>1, <1>9, <1>15, <2>1, <3>1 DEF a
    <3>3. x - 2 \in 1 .. a
      BY <1>3, <3>1, <3>2
    <3> QED BY <1>8, <1>9, <3>1, <3>2, <3>3
  <2>2. CASE x = a + 4
    <3>1. x - 1 = a + 3 /\ x - 2 = a + 2 /\ a + 2 \in a + 1 .. a + 3 /\ x > 3
      BY <1>3, <1>12, <2>2
    <3> QED BY <1>9, <1>11, <3>1
  <2>3. x \notin a + 1 .. a + 3
    BY <1>9, <1>15
  <2>4. x \notin a + 5 .. N
    <3> SUFFICES ASSUME x \in a + 5 .. N PROVE FALSE
      OBVIOUS
    <3>1. x - 1 \in a + 4 .. N
      BY <1>3, <1>12
    <3> QED BY <1>9, <1>15, <3>1
  <2>5. x \in 2 .. a \/ x = a + 4 \/ x \in a + 1 .. a + 3 \/ x \in a + 5 .. N
    BY <1>3, <1>12
  <2> QED BY <2>1, <2>2, <2>3, <2>4, <2>5
<1>16. 4 * Cardinality(Certain(mask2, slots2)) <= Cardinality(TrainedAt(mask2))
  <2> DEFINE A == TrainedAt(mask)
             B == Certain(mask, slots)
             S == Certain(mask2, slots2) \ B
             p == a + 3
  <2>1. A \in SUBSET (1 .. a) /\ B \in SUBSET A
    BY <1>1 DEF TrainedAt, Certain
  <2>2. TrainedAt(mask2) = A \cup (p + 1 .. p + L)
    <3>1. \A x \in 1 .. N : x \in 1 .. a \/ x \in a + 1 .. a + 3 \/ x \in a + 4 .. N
      BY <1>3, <1>12
    <3>2. 1 .. a \subseteq 1 .. N /\ a + 4 .. N \subseteq 1 .. N
      BY <1>3, <1>12
    <3>3. p + 1 .. p + L = a + 4 .. N
      BY <1>3, <1>12
    <3>4. TrainedAt(mask) = {x \in 1 .. a : mask[x] = 1}
      BY <1>1 DEF TrainedAt
    <3>5. TrainedAt(mask2) = {x \in 1 .. N : mask2[x] = 1}
      BY <1>9 DEF TrainedAt
    <3> HIDE DEF N, p
    <3>6. \A x \in 1 .. N : mask2[x] = 1 <=> x \in TrainedAt(mask) \/ x \in a + 4 .. N
      <4> SUFFICES ASSUME NEW x \in 1 .. N
                   PROVE  mask2[x] = 1 <=> x \in TrainedAt(mask) \/ x \in a + 4 .. N
        OBVIOUS
      <4>1. CASE x \in 1 .. a
        <5>1. x \notin a + 4 .. N
          BY <1>3, <4>1
        <5> QED BY <1>9, <3>4, <4>1, <5>1
      <4>2. CASE x \in a + 1 .. a + 3
        <5>1. x \notin a + 4 .. N /\ x \notin 1 .. a
          BY <1>3, <4>2
        <5> QED BY <1>9, <3>4, <4>2, <5>1
      <4>3. CASE x \in a + 4 .. N
        BY <1>9, <4>3
      <4> QED BY <3>1, <4>1, <4>2, <4>3
    <3>7. TrainedAt(mask) \subseteq 1 .. N
      BY <3>2, <3>4
    <3> QED BY <3>2, <3>3, <3>5, <3>6, <3>7
  <2>3. B \subseteq Certain(mask2, slots2)
    <3> SUFFICES ASSUME NEW x \in B PROVE x \in Certain(mask2, slots2)
      OBVIOUS
    <3>1. x \in A /\ slots[x] = 0 /\ x \in 1 .. a
      BY <2>1 DEF Certain
    <3>2. slots2[x] = 0 /\ x \in TrainedAt(mask2)
      BY <1>10, <2>2, <3>1
    <3> QED BY <3>2 DEF Certain
  <2>4. S = {} \/ (L = 4 /\ \E s : S = {s})
    <3>1. ASSUME NEW x \in S PROVE x = p + 3 /\ L = 4
      <4>1. x \in TrainedAt(mask2) /\ slots2[x] = 0 /\ x \notin B
        BY DEF Certain
      <4>2. x \in A => FALSE
        <5> SUFFICES ASSUME x \in A PROVE FALSE
          OBVIOUS
        <5>1. x \in 1 .. a
          BY <2>1
        <5>2. slots[x] = 0
          BY <1>10, <4>1, <5>1
        <5> QED BY <4>1, <5>2 DEF Certain
      <4>3. x \in p + 1 .. p + L
        BY <2>2, <4>1, <4>2
      <4>4. x \in a + 4 .. N /\ x - (a + 3) \in 1 .. L
        BY <1>3, <1>12, <4>3
      <4>5. l[x - (a + 3)] = 0
        BY <1>10, <4>1, <4>4
      <4>6. x - (a + 3) = 3 /\ L = 4
        BY <1>12, <4>4, <4>5
      <4> QED BY <1>3, <4>4, <4>6
    <3> HIDE DEF S
    <3>2. S # {} => S = {p + 3} /\ L = 4
      BY <3>1
    <3> QED BY <3>2
  <2>5. 4 * Cardinality(B) <= Cardinality(A) /\ p \in Nat /\ a <= p
    BY <1>1, <1>3
  <2> HIDE DEF A, B, S, p
  <2>6. 4 * Cardinality(B \cup S) <= Cardinality(A \cup (p + 1 .. p + L))
    BY <1>3, <1>12, <2>1, <2>4, <2>5, OneInFour
  <2>7. B \cup S = Certain(mask2, slots2)
    BY <2>3 DEF S
  <2> QED BY <2>2, <2>6, <2>7
<1>17. N >= 1 /\ mask2[1] = 1
  <2>1. 1 \in 1 .. a /\ N >= 1
    BY <1>3, <1>12
  <2> QED BY <1>1, <1>9, <2>1
<1> QED BY <1>8, <1>9, <1>10, <1>14, <1>15, <1>16, <1>17, Zenon DEF Level, T, W

-----------------------------------------------------------------------------
(* The stream that the model worked in, turn by turn.                      *)

Stretch(turns, glue, k, last) ==
  IF k = 1
    THEN [ids |-> Sampled[turns[k].reply], mask |-> Same(1, Sampled[turns[k].reply]),
          logprobs |-> Logprobs(k, turns[k].reply)]
  ELSE [ids |-> last.ids \o Between(glue) \o Sampled[turns[k].reply],
        mask |-> last.mask \o Same(0, Between(glue)) \o Same(1, Sampled[turns[k].reply]),
        logprobs |-> last.logprobs \o Same(0, Between(glue)) \o Logprobs(k, turns[k].reply)]

Parts == [ids : Seq(Vocabulary), mask : Seq({0, 1}), logprobs : Seq(Int)]

BetweenIs == \A glue : /\ Between(glue) \in Seq(Vocabulary) /\ Len(Between(glue)) = 3
                       /\ Between(glue)[2] = "header" /\ Between(glue)[3] = "glue"

(* What comes between two replies is three tokens, the generation prompt   *)
(* last.                                                                   *)
LEMMA BetweenOf == BetweenIs
<1> SUFFICES ASSUME NEW glue
             PROVE  /\ Between(glue) \in Seq(Vocabulary) /\ Len(Between(glue)) = 3
                    /\ Between(glue)[2] = "header" /\ Between(glue)[3] = "glue"
  BY DEF BetweenIs
<1>1. Between(glue) = <<"answer", "header", "glue">>
  BY ShownIs
<1>2. "answer" \in Vocabulary /\ "header" \in Vocabulary /\ "glue" \in Vocabulary
  BY DEF Vocabulary
<1> QED BY <1>1, <1>2

(* Joins of three are sequences.                                           *)
LEMMA JoinsOf ==
  ASSUME NEW T, NEW s \in Seq(T), NEW b \in Seq(T), NEW r \in Seq(T)
  PROVE  s \o b \o r \in Seq(T)
OBVIOUS

(* The reference stream of one turn more.                                  *)
LEMMA PartOf ==
  ASSUME NEW turns, NEW glue, NEW k \in 1 .. MaxTurns, turns[k].reply \in Replies,
         NEW last \in Parts
  PROVE  Stretch(turns, glue, k, last) \in Parts
<1> DEFINE r == Sampled[turns[k].reply]
           l == Logprobs(k, turns[k].reply)
           b == Between(glue)
           T == Vocabulary
<1>1. r \in Seq(T) /\ l \in Seq(Int)
  <2>1. Sound(r, l)
    BY BodySound
  <2> QED BY <2>1 DEF Sound
<1>2. b \in Seq(T)
  BY BetweenOf DEF BetweenIs
<1> HIDE DEF r, l, b, T
<1>3. /\ Same(1, r) \in Seq({0, 1}) /\ Same(0, b) \in Seq({0, 1}) /\ Same(0, b) \in Seq(Int)
  <2>1. Alike(1, r, {0, 1}) /\ Alike(0, b, {0, 1}) /\ Alike(0, b, Int)
    <3>1. 0 \in {0, 1} /\ 1 \in {0, 1} /\ 0 \in Int
      OBVIOUS
    <3> QED BY <1>1, <1>2, <3>1, AlikeAre, Zenon
  <2> QED BY <2>1 DEF Alike
<1>4. last.ids \in Seq(T) /\ last.mask \in Seq({0, 1}) /\ last.logprobs \in Seq(Int)
  BY DEF Parts, T
<1> DEFINE i2 == last.ids \o b \o r
           m2 == last.mask \o Same(0, b) \o Same(1, r)
           l2 == last.logprobs \o Same(0, b) \o l
<1>5. i2 \in Seq(T) /\ m2 \in Seq({0, 1}) /\ l2 \in Seq(Int)
  BY <1>1, <1>2, <1>3, <1>4, JoinsOf, Zenon
<1>6. Stretch(turns, glue, k, last) =
        IF k = 1 THEN [ids |-> r, mask |-> Same(1, r), logprobs |-> l]
                 ELSE [ids |-> i2, mask |-> m2, logprobs |-> l2]
  BY DEF Stretch, r, l, b
<1> HIDE DEF i2, m2, l2
<1> QED BY <1>1, <1>3, <1>5, <1>6 DEF Parts, T

PartsInTurn(turns, glue, part) ==
  /\ part \in [1 .. Len(turns) -> Parts]
  /\ \A k \in 1 .. Len(turns) : part[k] = Stretch(turns, glue, k, part[k - 1])
  /\ Reference(turns, glue) = part[Len(turns)]

(* The reference stream, as a run of its parts, one for each turn.         *)
LEMMA ReferenceRun ==
  ASSUME NEW turns, Sorted(turns), NEW glue
  PROVE  \E part : PartsInTurn(turns, glue, part)
<1> DEFINE n == Len(turns)
           F(p)  == [k \in DOMAIN turns |-> Stretch(turns, glue, k, p[k - 1])]
           part == CHOOSE p : p = F(p)
           W     == Parts
           step  == [p \in W \X (1 .. n) |-> Stretch(turns, glue, p[2], p[1])]
           first == [ids |-> <<>>, mask |-> <<>>, logprobs |-> <<>>]
<1>1. Reference(turns, glue) = part[Len(turns)]
  BY DEF Reference, Stretch
<1>0. n \in Nat /\ n > 0 /\ DOMAIN turns = 1 .. n
      /\ \A k \in 1 .. n : turns[k].reply \in Replies /\ k \in 1 .. MaxTurns
  BY MaxTurnsAssumption DEF Sorted, TurnLike
<1>2. \A last \in W, k \in 1 .. n : Stretch(turns, glue, k, last) \in W
  BY <1>0, PartOf
<1>3. first \in W
  <2>1. <<>> \in Seq(Vocabulary) /\ <<>> \in Seq({0, 1}) /\ <<>> \in Seq(Int)
    OBVIOUS
  <2> QED BY <2>1, Zenon DEF Parts
<1> HIDE DEF n
<1>4. step \in [W \X (1 .. n) -> W]
  <2> HIDE DEF W
  <2> QED BY <1>2
<1> HIDE DEF first
<1>5. PICK g \in [0 .. n -> W] : g[0] = first /\ \A i \in 1 .. n : g[i] = step[<<g[i - 1], i>>]
  <2> HIDE DEF step, W
  <2>1. Runs(n, W, first, step)
    BY <1>0, <1>3, <1>4, RunExists
  <2> QED BY <2>1 DEF Runs
<1> HIDE DEF W
<1>6. \A i \in 1 .. n : g[i] = Stretch(turns, glue, i, g[i - 1]) /\ g[i] \in W
  <2> SUFFICES ASSUME NEW i \in 1 .. n
               PROVE  g[i] = Stretch(turns, glue, i, g[i - 1]) /\ g[i] \in W
    OBVIOUS
  <2>1. i \in 0 .. n /\ i - 1 \in 0 .. n
    BY <1>0
  <2>2. g[i - 1] \in W /\ g[i] \in W
    BY <2>1
  <2> QED BY <1>5, <2>2
<1> HIDE DEF step
<1> DEFINE h == [k \in DOMAIN turns |-> g[k]]
<1>7. h = F(h)
  <2>1. ASSUME NEW k \in DOMAIN turns PROVE h[k] = Stretch(turns, glue, k, h[k - 1])
    <3>1. CASE k = 1
      <4>1. Stretch(turns, glue, 1, h[1 - 1]) = Stretch(turns, glue, 1, g[1 - 1])
        BY Zenon DEF Stretch
      <4> QED BY <1>0, <1>6, <3>1, <4>1
    <3>2. CASE k # 1
      <4>1. k - 1 \in DOMAIN turns /\ k \in 1 .. n
        BY <1>0, <3>2
      <4>2. h[k - 1] = g[k - 1] /\ h[k] = g[k]
        BY <4>1
      <4> QED BY <1>6, <4>1, <4>2
    <3> QED BY <3>1, <3>2
  <2> HIDE DEF h
  <2>2. h = [k \in DOMAIN turns |-> h[k]]
    BY DEF h
  <2> QED BY <2>1, <2>2
<1>8. part = F(part)
  <2> HIDE DEF F, h
  <2> QED BY <1>7
<1> HIDE DEF part
<1>9. \A k \in 1 .. n : part[k] = Stretch(turns, glue, k, part[k - 1])
  <2> DEFINE r == part
  <2>1. r = F(r)
    BY <1>8
  <2> HIDE DEF r
  <2>2. \A k \in 1 .. n : r[k] = Stretch(turns, glue, k, r[k - 1])
    BY <1>0, <2>1
  <2> QED BY <2>2 DEF r
<1> DEFINE R == {i \in 1 .. n : part[i] = g[i]}
<1>10. 1 .. n \subseteq R
  <2>1. 1 \in R
    <3>1. 1 \in 1 .. n
      BY <1>0
    <3>2. Stretch(turns, glue, 1, part[1 - 1]) = Stretch(turns, glue, 1, g[1 - 1])
      BY Zenon DEF Stretch
    <3> QED BY <1>6, <1>9, <3>1, <3>2
  <2>2. ASSUME NEW i \in 1 + 1 .. n, i - 1 \in R PROVE i \in R
    <3>1. i \in 1 .. n /\ part[i - 1] = g[i - 1]
      BY <1>0, <2>2
    <3> QED BY <1>6, <1>9, <3>1
  <2> HIDE DEF R
  <2> QED BY <1>0, <2>1, <2>2, Climb
<1>11. \A k \in 1 .. n : part[k] \in W
  BY <1>6, <1>10 DEF R
<1>12. part = [k \in 1 .. n |-> part[k]]
  <2> DEFINE r == part
  <2>1. r = F(r)
    BY <1>8
  <2> HIDE DEF r
  <2>2. DOMAIN r = 1 .. n
    BY <1>0, <2>1
  <2>3. r = [k \in 1 .. n |-> r[k]]
    BY <1>0, <2>1
  <2> QED BY <2>3 DEF r
<1>13. part \in [1 .. n -> Parts]
  BY <1>11, <1>12 DEF W
<1> QED BY <1>1, <1>9, <1>13 DEF PartsInTurn, n

-----------------------------------------------------------------------------
(* The logprobs of a stream whose every trained token has one.             *)

Filled(slots) == [x \in DOMAIN slots |-> IF slots[x] = Missing THEN 0 ELSE slots[x]]

Filling(s) == /\ Filled(s) \in Seq(Int) /\ Len(Filled(s)) = Len(s)
              /\ \A x \in 1 .. Len(s) : Filled(s)[x] = IF s[x] = Missing THEN 0 ELSE s[x]

(* Filling keeps every logprob and puts 0 for every one that is missing.   *)
LEMMA FilledIs ==
  ASSUME NEW s \in Seq(Int \cup {Missing})
  PROVE  Filling(s)
<1> DEFINE n == Len(s)
<1>1. n \in Nat /\ DOMAIN s = 1 .. n /\ \A x \in 1 .. n : s[x] \in Int \cup {Missing}
  OBVIOUS
<1>2. Filled(s) = [x \in 1 .. n |-> IF s[x] = Missing THEN 0 ELSE s[x]]
  BY <1>1 DEF Filled
<1>3. \A x \in 1 .. n : (IF s[x] = Missing THEN 0 ELSE s[x]) \in Int
  BY <1>1
<1> HIDE DEF n
<1>4. Filled(s) \in Seq(Int) /\ Len(Filled(s)) = n
  BY <1>1, <1>2, <1>3
<1> QED BY <1>2, <1>4 DEF Filling, n

(* Nothing is filled where nothing is missing.                             *)
LEMMA FilledWhole ==
  ASSUME NEW l \in Seq(Int)
  PROVE  Filled(l) = l
<1>1. \A x \in DOMAIN l : l[x] \in Int
  OBVIOUS
<1>2. \A x \in DOMAIN l : l[x] # Missing
  BY <1>1, ValuesAssumption
<1>3. l = [x \in DOMAIN l |-> l[x]]
  OBVIOUS
<1> QED BY <1>2, <1>3 DEF Filled

(* Filling the slots of a stream with one reply more.                      *)
LEMMA FilledJoin ==
  ASSUME NEW T, NEW s \in Seq(Int \cup {Missing}), NEW b \in Seq(T), NEW l \in Seq(Int)
  PROVE  Filled(s \o Same(Missing, b) \o l) = Filled(s) \o Same(0, b) \o l
<1> DEFINE W == Int \cup {Missing}
           g == Same(Missing, b)
           z == Same(0, b)
           f == Filled(s)
           all == s \o g \o l
           other == f \o z \o l
           filled == Filled(all)
<1>1. Alike(Missing, b, W) /\ Alike(0, b, Int)
  <2>1. Missing \in W /\ 0 \in Int
    OBVIOUS
  <2> QED BY <2>1, AlikeAre, Zenon
<1>2. /\ g \in Seq(W) /\ Len(g) = Len(b) /\ \A i \in 1 .. Len(b) : g[i] = Missing
      /\ z \in Seq(Int) /\ Len(z) = Len(b) /\ \A i \in 1 .. Len(b) : z[i] = 0
  BY <1>1 DEF Alike
<1>3. l \in Seq(W) /\ s \in Seq(W)
  OBVIOUS
<1>4. f \in Seq(Int) /\ Len(f) = Len(s)
      /\ \A x \in 1 .. Len(s) : f[x] = IF s[x] = Missing THEN 0 ELSE s[x]
  BY <1>3, FilledIs DEF Filling
<1> HIDE DEF g, z, f, W
<1>5. Parted(W, all, s, g, l) /\ Parted(Int, other, f, z, l)
  <2>1. l \in Seq(Int)
    OBVIOUS
  <2> QED BY <1>2, <1>3, <1>4, <2>1, PartsOf, Zenon
<1> HIDE DEF all, other
<1> DEFINE n == Len(s)
           m == Len(b)
           k == Len(l)
<1>6. n \in Nat /\ m \in Nat /\ k \in Nat
  OBVIOUS
<1>7. /\ all \in Seq(W) /\ Len(all) = n + m + k
      /\ \A x \in 1 .. n : all[x] = s[x]
      /\ \A x \in 1 .. m : all[n + x] = g[x]
      /\ \A x \in 1 .. k : all[n + m + x] = l[x]
  BY <1>2, <1>5 DEF Parted
<1>8. /\ other \in Seq(Int) /\ Len(other) = n + m + k
      /\ \A x \in 1 .. n : other[x] = f[x]
      /\ \A x \in 1 .. m : other[n + x] = z[x]
      /\ \A x \in 1 .. k : other[n + m + x] = l[x]
  BY <1>2, <1>4, <1>5 DEF Parted
<1>9. filled \in Seq(Int) /\ Len(filled) = n + m + k
      /\ \A x \in 1 .. n + m + k : filled[x] = IF all[x] = Missing THEN 0 ELSE all[x]
  <2>1. Filling(all)
    BY <1>7, FilledIs DEF W
  <2> HIDE DEF filled
  <2>2. Len(all) = n + m + k
    BY <1>7
  <2> QED BY <2>1, <2>2 DEF Filling, filled
<1>10. \A x \in 1 .. k : l[x] # Missing
  <2>1. \A x \in 1 .. k : l[x] \in Int
    OBVIOUS
  <2> QED BY <2>1, ValuesAssumption
<1> HIDE DEF n, m, k, filled
<1>11. ASSUME NEW x \in 1 .. n + m + k PROVE filled[x] = other[x]
  <2>1. CASE x \in 1 .. n
    BY <1>4, <1>7, <1>8, <1>9, <2>1 DEF n
  <2>2. CASE x \in n + 1 .. n + m
    <3>1. x - n \in 1 .. m /\ n + (x - n) = x
      BY <1>6, <2>2
    <3>2. all[x] = Missing /\ other[x] = 0
      BY <1>2, <1>7, <1>8, <3>1 DEF m
    <3> QED BY <1>9, <3>2
  <2>3. CASE x \in n + m + 1 .. n + m + k
    <3>1. x - (n + m) \in 1 .. k /\ n + m + (x - (n + m)) = x
      BY <1>6, <2>3
    <3>2. all[x] = l[x - (n + m)] /\ other[x] = l[x - (n + m)]
      BY <1>7, <1>8, <3>1
    <3>3. all[x] # Missing
      BY <1>10, <3>1, <3>2
    <3> QED BY <1>9, <3>2, <3>3
  <2>4. x \in 1 .. n \/ x \in n + 1 .. n + m \/ x \in n + m + 1 .. n + m + k
    BY <1>6
  <2> QED BY <2>1, <2>2, <2>3, <2>4
<1>12. filled = other
  <2> DEFINE N == n + m + k
  <2>1. filled \in Seq(Int) /\ other \in Seq(Int) /\ Len(filled) = N /\ Len(other) = N
        /\ \A x \in 1 .. N : filled[x] = other[x]
    BY <1>8, <1>9, <1>11, Zenon
  <2> HIDE DEF N
  <2> QED BY <2>1
<1> QED BY <1>12 DEF filled, other, all, g, z, f

(* A completion's slots are its logprobs when it has one for each token.   *)
LEMMA SlotsWhole ==
  ASSUME NEW c, NEW l \in Seq(Int), c.logprobs = l, NEW T, c.response \in Seq(T),
         Len(l) = Len(c.response)
  PROVE  Slots(c) = l
<1> DEFINE n == Len(l)
           r == c.response
<1>1. n \in Nat /\ DOMAIN r = 1 .. n /\ l = [i \in 1 .. n |-> l[i]]
  OBVIOUS
<1>2. l # Missing
  <2>1. Missing \notin Seq(Int \cup {NaN})
    BY ValuesAssumption
  <2>2. l \in Seq(Int \cup {NaN})
    OBVIOUS
  <2> QED BY <2>1, <2>2
<1>3. \A i \in 1 .. n : ~(i > n)
  BY <1>1
<1>4. Slots(c) = [i \in 1 .. n |-> IF l = Missing \/ i > n THEN Missing ELSE l[i]]
  BY <1>1 DEF Slots
<1> HIDE DEF n
<1> QED BY <1>1, <1>2, <1>3, <1>4

-----------------------------------------------------------------------------
(* The stream of an undisturbed session, merged turn by turn, is the       *)
(* stream that the model worked in.                                        *)

(* Every request's messages go on from the last reply.                     *)
Talk(G, cs) ==
  \A k \in 2 .. Len(cs) : \E more \in Seq(G) :
    cs[k].messages = cs[k - 1].messages \o <<cs[k - 1].reply>> \o more

SteadyAt(st, c, k, part) ==
  /\ st.broken = FALSE /\ st.last = c /\ st.kept = k
  /\ st.messages = c.messages \o <<c.reply>>
  /\ st.ids = part.ids /\ st.mask = part.mask /\ Filled(st.slots) = part.logprobs
  /\ Level(st.ids, st.mask, st.slots)

(* A completion that holds what was sampled in turn k.                     *)
Holds(c, turns, k) == /\ c.response = Sampled[turns[k].reply]
                      /\ c.logprobs = Logprobs(k, turns[k].reply)

(* A completion with what was sampled has a logprob for every token.       *)
LEMMA HeldSlots ==
  ASSUME NEW turns, NEW k \in 1 .. MaxTurns, turns[k].reply \in Replies, NEW c,
         Holds(c, turns, k)
  PROVE  /\ Slots(c) = c.logprobs /\ Sound(c.response, c.logprobs)
         /\ c.response \in Seq(Vocabulary) /\ c.logprobs \in Seq(Int)
<1> DEFINE r == turns[k].reply
<1>1. Sound(Sampled[r], Logprobs(k, r))
  BY BodySound
<1>2. Sound(c.response, c.logprobs)
  BY <1>1 DEF Holds
<1>3. /\ c.response \in Seq(Vocabulary) /\ c.logprobs \in Seq(Int)
      /\ Len(c.logprobs) = Len(c.response)
  BY <1>2 DEF Sound
<1>4. Slots(c) = c.logprobs
  BY <1>3, SlotsWhole, Zenon
<1> QED BY <1>2, <1>3, <1>4

(* The stream of the first turn is its reference.                          *)
LEMMA SteadyFirst ==
  ASSUME NEW turns, NEW glue, turns[1].reply \in Replies, NEW c, Holds(c, turns, 1), NEW last
  PROVE  SteadyAt(Begun(c), c, 1, Stretch(turns, glue, 1, last))
<1> DEFINE part == Stretch(turns, glue, 1, last)
           l == c.logprobs
<1>1. 1 \in 1 .. MaxTurns
  BY MaxTurnsAssumption
<1>2. Slots(c) = l /\ Sound(c.response, l) /\ l \in Seq(Int)
  BY <1>1, HeldSlots
<1>3. Filled(l) = l
  BY <1>2, FilledWhole
<1>4. Level(c.response, Same(1, c.response), l)
  BY <1>2, LevelFirst
<1>5. part = [ids |-> Sampled[turns[1].reply], mask |-> Same(1, Sampled[turns[1].reply]),
              logprobs |-> Logprobs(1, turns[1].reply)]
  BY Zenon DEF Stretch
<1>6. part.ids = c.response /\ part.mask = Same(1, c.response) /\ part.logprobs = l
  BY <1>5 DEF Holds
<1> HIDE DEF part
<1>7. /\ Begun(c).ids = c.response /\ Begun(c).mask = Same(1, c.response) /\ Begun(c).slots = Slots(c)
      /\ Begun(c).messages = c.messages \o <<c.reply>> /\ Begun(c).last = c /\ Begun(c).kept = 1
      /\ Begun(c).broken = FALSE
  BY DEF Begun
<1> QED BY <1>2, <1>3, <1>4, <1>6, <1>7, Zenon DEF SteadyAt, part

(* What the next turn's messages add.                                      *)
LEMMA MoreMessages ==
  ASSUME NEW G, NEW old \in Seq(G), NEW more \in Seq(G), NEW c, c.messages = old \o more
  PROVE  old \o NewMessages(c, Len(old)) = c.messages
<1> DEFINE m == c.messages
           n == Len(old)
<1>1. m \in Seq(G) /\ Len(m) = n + Len(more) /\ n \in Nat /\ Len(more) \in Nat
  <2>1. old \o more \in Seq(G) /\ Len(old \o more) = Len(old) + Len(more)
    OBVIOUS
  <2> QED BY <2>1
<1>2. Rest(m, n) = more
  BY RestOfJoin
<1>3. CASE Len(m) > n
  BY <1>2, <1>3 DEF NewMessages
<1>4. CASE ~(Len(m) > n)
  <2>1. Len(more) = 0
    BY <1>1, <1>4
  <2>2. more = <<>>
    BY <2>1
  <2> QED BY <1>4, <2>2 DEF NewMessages
<1> QED BY <1>3, <1>4

(* Merging an undisturbed turn into a stream that is its reference keeps   *)
(* it its reference.                                                       *)
LEMMA SteadyNext ==
  ASSUME NEW G, NEW turns, NEW glue, NEW k \in 2 .. MaxTurns,
         turns[k].reply \in Replies, turns[k - 1].reply \in Replies, turns[k - 1].reply # "cut",
         NEW b, b.prompt \in Seq(Vocabulary), b.messages \in Seq(G), b.reply \in G,
         Holds(b, turns, k - 1),
         NEW c, Holds(c, turns, k), c.prompt = b.prompt \o Shown(turns[k - 1].reply),
         NEW more \in Seq(G), c.messages = b.messages \o <<b.reply>> \o more,
         NEW st, NEW part, SteadyAt(st, b, k - 1, part)
  PROVE  SteadyAt(Merge(st, c, Eot), c, k, Stretch(turns, glue, k, part))
<1> DEFINE reply == turns[k - 1].reply
           tail  == Rest(c.prompt, Len(st.last.prompt))
           t     == Between(glue)
           r     == c.response
           l     == c.logprobs
           next  == Merge(st, c, Eot)
           ids2   == st.ids \o t \o r
           mask2  == st.mask \o Same(0, t) \o Same(1, r)
           slots2 == st.slots \o Same(Missing, t) \o l
           old    == b.messages \o <<b.reply>>
<1>0. /\ reply \in Replies /\ reply # "cut" /\ k \in 1 .. MaxTurns /\ k # 1
      /\ st.broken = FALSE /\ st.last = b /\ st.kept = k - 1 /\ st.messages = old
      /\ st.ids = part.ids /\ st.mask = part.mask /\ Filled(st.slots) = part.logprobs
      /\ Level(st.ids, st.mask, st.slots)
  <2>1. k \in 1 .. MaxTurns /\ k # 1
    BY MaxTurnsAssumption
  <2> QED BY <2>1 DEF SteadyAt
<1>1. /\ Slots(c) = l /\ Sound(r, l) /\ r \in Seq(Vocabulary) /\ l \in Seq(Int)
  BY <1>0, HeldSlots, Zenon
<1>2. tail = Shown(reply)
  <2> DEFINE p == b.prompt
             s == Shown(reply)
  <2>1. p \in Seq(Vocabulary) /\ s \in Seq(Vocabulary)
    BY <1>0, RepliesAre, Zenon
  <2>2. Rest(p \o s, Len(p)) = s
    BY <2>1, RestOfJoin, Zenon
  <2> QED BY <1>0, <2>2, Zenon
<1>3. /\ t \in Seq(Vocabulary) /\ Len(t) = 3 /\ t[2] = "header" /\ t[3] = "glue"
  BY BetweenOf, Zenon DEF BetweenIs
<1>4. SliceInterstitial(tail, st.last.response, Eot) = t /\ t # Missing
  <2>1. st.last.response = Sampled[reply]
    BY <1>0 DEF Holds
  <2> QED BY <1>0, <1>2, <2>1, SliceBetween, Zenon
<1>5. next = [ids |-> ids2, mask |-> mask2,
              slots |-> st.slots \o Same(Missing, t) \o Slots(c),
              messages |-> st.messages \o NewMessages(c, Len(st.messages)) \o <<c.reply>>,
              last |-> c, kept |-> st.kept + 1, broken |-> FALSE]
  <2> DEFINE s == SliceInterstitial(tail, st.last.response, Eot)
  <2>1. ~(st.broken \/ s = Missing) /\ s = t
    BY <1>0, <1>4
  <2>2. next = IF st.broken \/ s = Missing THEN [st EXCEPT !.broken = TRUE]
               ELSE [ids |-> st.ids \o s \o r, mask |-> st.mask \o Same(0, s) \o Same(1, r),
                     slots |-> st.slots \o Same(Missing, s) \o Slots(c),
                     messages |-> st.messages \o NewMessages(c, Len(st.messages)) \o <<c.reply>>,
                     last |-> c, kept |-> st.kept + 1, broken |-> FALSE]
    BY DEF Merge
  <2> HIDE DEF s, next, tail, t, r
  <2> QED BY <2>1, <2>2, Zenon
<1>6. Level(ids2, mask2, slots2)
  <2> HIDE DEF t, r, l
  <2> QED BY <1>0, <1>1, <1>3, LevelNext
<1>7. Filled(slots2) = part.logprobs \o Same(0, t) \o l
  <2>1. st.slots \in Seq(Int \cup {Missing})
    BY <1>0 DEF Level
  <2>2. Filled(slots2) = Filled(st.slots) \o Same(0, t) \o l
    BY <1>1, <1>3, <2>1, FilledJoin, Zenon
  <2> QED BY <1>0, <2>2, Zenon
<1>8. old \o NewMessages(c, Len(old)) = c.messages
  <2>1. old \in Seq(G) /\ c.messages = old \o more
    <3> DEFINE m == b.messages
               z == <<b.reply>>
    <3>1. m \in Seq(G) /\ z \in Seq(G)
      OBVIOUS
    <3>2. c.messages = (m \o z) \o more
      OBVIOUS
    <3> HIDE DEF m, z
    <3>3. m \o z \in Seq(G)
      BY <3>1
    <3> QED BY <3>2, <3>3 DEF m, z
  <2> HIDE DEF old
  <2> QED BY <2>1, MoreMessages, Zenon
<1>9. Stretch(turns, glue, k, part) =
        [ids |-> part.ids \o t \o Sampled[turns[k].reply],
         mask |-> part.mask \o Same(0, t) \o Same(1, Sampled[turns[k].reply]),
         logprobs |-> part.logprobs \o Same(0, t) \o Logprobs(k, turns[k].reply)]
  BY <1>0, Zenon DEF Stretch
<1>10. r = Sampled[turns[k].reply] /\ l = Logprobs(k, turns[k].reply)
  BY DEF Holds
<1> DEFINE new == Stretch(turns, glue, k, part)
           logs2 == part.logprobs \o Same(0, t) \o l
<1>11. new.ids = ids2 /\ new.mask = mask2 /\ new.logprobs = logs2
  <2>1. new = [ids |-> ids2, mask |-> mask2, logprobs |-> logs2]
    BY <1>0, <1>9, <1>10, Zenon
  <2> HIDE DEF new, ids2, mask2, logs2
  <2> QED BY <2>1
<1> DEFINE messages2 == st.messages \o NewMessages(c, Len(st.messages)) \o <<c.reply>>
<1>12. messages2 = c.messages \o <<c.reply>>
  BY <1>0, <1>8, Zenon
<1>13. /\ next.ids = ids2 /\ next.mask = mask2 /\ next.slots = slots2 /\ next.last = c
       /\ next.messages = messages2 /\ next.kept = (k - 1) + 1 /\ next.broken = FALSE
  <2> DEFINE kept2 == st.kept + 1
  <2>1. next = [ids |-> ids2, mask |-> mask2, slots |-> slots2, messages |-> messages2,
                last |-> c, kept |-> kept2, broken |-> FALSE]
    BY <1>1, <1>5, Zenon
  <2>2. kept2 = (k - 1) + 1
    BY <1>0
  <2> HIDE DEF next, ids2, mask2, slots2, messages2, kept2
  <2> QED BY <2>1, <2>2
<1>14. (k - 1) + 1 = k
  OBVIOUS
<1> HIDE DEF next, new, ids2, mask2, slots2, messages2, logs2
<1>15. Filled(slots2) = logs2
  BY <1>7 DEF logs2
<1> QED BY <1>6, <1>11, <1>12, <1>13, <1>14, <1>15, Zenon DEF SteadyAt, next, new

(* A completion whose prompt is replaced.                                  *)
Reprompted(C, c, new, prompt) ==
  /\ new \in C /\ new.prompt = prompt /\ new.response = c.response /\ new.logprobs = c.logprobs
  /\ new.finish = c.finish /\ new.choices = c.choices /\ new.shape = c.shape /\ new.cut = c.cut
  /\ new.tools = c.tools /\ new.messages = c.messages /\ new.reply = c.reply /\ new.meta = c.meta

(* A completion with another prompt keeps everything else.                 *)
LEMMA RepromptedOf ==
  ASSUME NEW T, NEW V, NEW G, NEW D, NEW c \in Completions(T, V, G, D), NEW prompt \in Seq(T),
         NEW new, new = [c EXCEPT !.prompt = prompt]
  PROVE  Reprompted(Completions(T, V, G, D), c, new, prompt)
BY DEF Completions, Reprompted

(* With a logprob at every trained token, none is dropped.                 *)
LEMMA LogprobsFilled ==
  ASSUME NEW ids, NEW mask, NEW slots, Level(ids, mask, slots)
  PROVE  FinalizeLogprobs(slots, mask) = Filled(slots)
<1> DEFINE n == Len(ids)
<1>1. /\ DOMAIN slots = 1 .. n /\ n \in Nat /\ n >= 1 /\ mask[1] = 1
      /\ \A x \in 1 .. n : mask[x] = 1 => slots[x] \in Low .. 0
  BY DEF Level
<1> HIDE DEF n
<1>2. \A x \in 1 .. n : mask[x] = 1 => slots[x] # Missing
  <2> SUFFICES ASSUME NEW x \in 1 .. n, mask[x] = 1 PROVE slots[x] # Missing
    OBVIOUS
  <2>1. slots[x] \in Int
    BY <1>1 DEF Low
  <2> QED BY <2>1, ValuesAssumption
<1>3. 1 \in 1 .. n
  BY <1>1
<1>4. ~(\A i \in DOMAIN slots : slots[i] = Missing)
  BY <1>1, <1>2, <1>3
<1>5. ~(\E i \in DOMAIN slots : slots[i] = Missing /\ mask[i] = 1)
  BY <1>1, <1>2
<1> QED BY <1>4, <1>5, Zenon DEF FinalizeLogprobs, Filled

Steadily(turns, glue, session, trace) ==
  /\ \E slots : /\ Level(trace.response, trace.mask, slots) /\ trace.logprobs = Filled(slots)
  /\ trace.prompt = session[1].prompt
  /\ [ids |-> trace.response, mask |-> trace.mask, logprobs |-> trace.logprobs]
       = Reference(turns, glue)
  /\ trace.finish = Ending[turns[Len(turns)].reply]
  /\ trace.opening = session[1].messages
  /\ trace.messages = session[Len(turns)].messages \o <<session[Len(turns)].reply>>
  /\ trace.tools = {"search"} /\ trace.meta = session[1].meta
  /\ trace.kept = Len(turns) /\ trace.truncated = FALSE

(* What the stitch and the finalizing make of an undisturbed session.      *)
LEMMA SteadyTrace ==
  ASSUME NEW G, NEW D, NEW session \in Seq(Completions(Vocabulary, Values, G, D)),
         NEW turns, NEW glue, Undisturbed(turns, glue, session), Talk(G, session)
  PROVE  Steadily(turns, glue, session, FinalizeChain(Stitched(session, glue), Conf(glue)))
<1> DEFINE T == Vocabulary
           C == Completions(T, Values, G, D)
           n == Len(turns)
           cs == Stitched(session, glue)
           trace == FinalizeChain(cs, Conf(glue))
<1>1. /\ Sorted(turns) /\ Len(session) = n /\ glue \in Glues
      /\ \A k \in 1 .. n :
           /\ turns[k].reply = "cut" => k = n
           /\ Holds(session[k], turns, k)
           /\ session[k].finish = Ending[turns[k].reply] /\ session[k].tools = {"search"}
  BY DEF Undisturbed, Holds
<1>2. n \in Nat /\ n > 0 /\ n \in 1 .. MaxTurns /\ \A k \in 1 .. n : turns[k].reply \in Replies
  <2>1. n \in 1 .. MaxTurns /\ \A k \in 1 .. n : turns[k].reply \in Replies
    BY <1>1 DEF Sorted, TurnLike
  <2> HIDE DEF n
  <2> QED BY <2>1, MaxTurnsAssumption
<1>3. Chained(turns, session, cs)
  BY StitchedSteadily
<1>4. Len(cs) = n
  BY <1>3 DEF Chained
<1>5. PICK shown \in [1 .. n -> Seq(T)] :
       /\ shown[1] = session[1].prompt
       /\ \A k \in 1 .. n : /\ cs[k] = [session[k] EXCEPT !.prompt = shown[k]]
                            /\ cs[k].prompt = shown[k]
       /\ \A k \in 2 .. n : shown[k] = shown[k - 1] \o Shown(turns[k - 1].reply)
  BY <1>3, Zenon DEF Chained
<1> HIDE DEF n, cs, T
<1>6. \A k \in 1 .. n : session[k] \in C
  <2> HIDE DEF C
  <2>1. session \in Seq(C)
    BY DEF C, T
  <2> QED BY <1>1, <2>1
<1>7. ASSUME NEW k \in 1 .. n
      PROVE  Reprompted(C, session[k], cs[k], shown[k])
  <2>1. shown[k] \in Seq(T) /\ session[k] \in C /\ cs[k] = [session[k] EXCEPT !.prompt = shown[k]]
    BY <1>5, <1>6
  <2> QED BY <2>1, RepromptedOf, Zenon
<1>8. cs \in Seq(C)
  <2>1. StitchedTo(T, C, session, glue)
    <3>1. glue \in Seq(T)
      BY <1>1, GlueIs DEF T
    <3>2. session \in Seq(Completions(T, Values, G, D))
      BY DEF T
    <3> QED BY <3>1, <3>2, StitchedIs, Zenon
  <2> QED BY <2>1, Zenon DEF StitchedTo, cs
<1> DEFINE S == Streams(T, Values, G, D)
<1>9. MergedInTurn(S, cs, Conf(glue))
  <2>1. cs \in Seq(Completions(T, Values, G, D)) /\ Len(cs) > 0
    BY <1>2, <1>4, <1>8
  <2> QED BY <2>1, MergeRun, Zenon
<1> HIDE DEF S, C
<1>10. PICK st \in [0 .. n - 1 -> S] :
        /\ st[0] = Begun(cs[1])
        /\ \A i \in 1 .. n - 1 : st[i] = Merge(st[i - 1], cs[i + 1], Eot)
        /\ trace = Finished(cs, st[n - 1])
  <2>1. Conf(glue).eot = Eot
    BY DEF Conf
  <2>2. PICK st \in [0 .. Len(cs) - 1 -> S] :
        /\ st[0] = Begun(cs[1])
        /\ \A i \in 1 .. Len(cs) - 1 : st[i] = Merge(st[i - 1], cs[i + 1], Conf(glue).eot)
        /\ FinalizeChain(cs, Conf(glue)) = Finished(cs, st[Len(cs) - 1])
    BY <1>9, Zenon DEF MergedInTurn
  <2> QED BY <1>4, <2>1, <2>2
<1>11. PICK part : PartsInTurn(turns, glue, part)
  BY <1>1, ReferenceRun
<1>12. /\ part \in [1 .. n -> Parts] /\ Reference(turns, glue) = part[n]
       /\ \A k \in 1 .. n : part[k] = Stretch(turns, glue, k, part[k - 1])
  BY <1>11 DEF PartsInTurn, n
<1> HIDE DEF trace
<1> DEFINE R == {k \in 1 .. n : SteadyAt(st[k - 1], cs[k], k, part[k])}
<1>13. \A k \in 1 .. n : Holds(cs[k], turns, k)
  BY <1>1, <1>7 DEF Holds, Reprompted
<1>14. 1 \in R
  <2>1. 1 \in 1 .. n /\ 1 - 1 = 0
    BY <1>2
  <2>2. SteadyAt(Begun(cs[1]), cs[1], 1, Stretch(turns, glue, 1, part[1 - 1]))
    BY <1>2, <1>13, <2>1, SteadyFirst
  <2>3. part[1] = Stretch(turns, glue, 1, part[1 - 1])
    BY <1>12, <2>1
  <2> QED BY <1>10, <2>1, <2>2, <2>3
<1>15. ASSUME NEW k \in 1 + 1 .. n, k - 1 \in R
       PROVE  k \in R
  <2> DEFINE b == cs[k - 1]
             c == cs[k]
             reply == turns[k - 1].reply
  <2>1. /\ k \in 1 .. n /\ k - 1 \in 1 .. n /\ k \in 2 .. n /\ k \in 2 .. MaxTurns
        /\ k - 1 \in 1 .. n - 1 /\ (k - 1) + 1 = k /\ k - 1 # n
    BY <1>2, MaxTurnsAssumption
  <2>2. turns[k].reply \in Replies /\ reply \in Replies /\ reply # "cut"
    BY <1>1, <1>2, <2>1
  <2>3. Holds(b, turns, k - 1) /\ Holds(c, turns, k)
    BY <1>13, <2>1
  <2>4. /\ b.prompt \in Seq(Vocabulary) /\ b.messages \in Seq(G) /\ b.reply \in G
        /\ c.prompt = b.prompt \o Shown(reply)
    <3>1. b \in C /\ b.prompt = shown[k - 1] /\ c.prompt = shown[k]
      BY <1>7, <2>1 DEF Reprompted
    <3>2. b.messages \in Seq(G) /\ b.reply \in G /\ b.prompt \in Seq(T)
      BY <3>1 DEF C, Completions
    <3>3. shown[k] = shown[k - 1] \o Shown(reply)
      BY <1>5, <2>1
    <3> QED BY <3>1, <3>2, <3>3 DEF T
  <2>5. PICK more \in Seq(G) : c.messages = b.messages \o <<b.reply>> \o more
    <3>1. k \in 2 .. Len(session)
      BY <1>1, <2>1
    <3>2. PICK more \in Seq(G) :
            session[k].messages = session[k - 1].messages \o <<session[k - 1].reply>> \o more
      BY <3>1, Zenon DEF Talk
    <3>3. /\ c.messages = session[k].messages /\ b.messages = session[k - 1].messages
          /\ b.reply = session[k - 1].reply
      BY <1>7, <2>1 DEF Reprompted
    <3> QED BY <3>2, <3>3
  <2>6. SteadyAt(st[k - 2], b, k - 1, part[k - 1])
    <3>1. (k - 1) - 1 = k - 2
      BY <2>1
    <3> QED BY <1>15, <3>1
  <2>7. st[k - 1] = Merge(st[k - 2], c, Eot)
    <3>1. (k - 1) - 1 = k - 2
      BY <2>1
    <3> QED BY <1>10, <2>1, <3>1
  <2> HIDE DEF b, c
  <2> DEFINE before == st[k - 2]
             p == part[k - 1]
  <2>8. SteadyAt(Merge(before, c, Eot), c, k, Stretch(turns, glue, k, p))
    <3> HIDE DEF before, p
    <3>1. SteadyAt(before, b, k - 1, p)
      BY <2>6 DEF before, p
    <3> QED BY <2>1, <2>2, <2>3, <2>4, <2>5, <3>1, SteadyNext
  <2>9. part[k] = Stretch(turns, glue, k, p)
    BY <1>12, <2>1
  <2> QED BY <2>1, <2>7, <2>8, <2>9 DEF c
<1> HIDE DEF R
<1>16. n \in R
  <2>1. 1 .. n \subseteq R
    BY <1>2, <1>14, <1>15, Climb
  <2>2. n \in 1 .. n
    BY <1>2
  <2> QED BY <2>1, <2>2
<1> DEFINE u == st[n - 1]
<1>17. SteadyAt(u, cs[n], n, part[n]) /\ trace = Finished(cs, u)
  BY <1>10, <1>16 DEF R
<1> HIDE DEF u
<1>18. /\ u.broken = FALSE /\ u.last = cs[n] /\ u.kept = n
       /\ u.messages = cs[n].messages \o <<cs[n].reply>>
       /\ u.ids = part[n].ids /\ u.mask = part[n].mask /\ Filled(u.slots) = part[n].logprobs
       /\ Level(u.ids, u.mask, u.slots)
  BY <1>17 DEF SteadyAt
<1>19. /\ trace.prompt = cs[1].prompt /\ trace.response = u.ids /\ trace.mask = u.mask
       /\ trace.logprobs = FinalizeLogprobs(u.slots, u.mask)
       /\ trace.finish = u.last.finish /\ trace.opening = cs[1].messages
       /\ trace.messages = u.messages /\ trace.tools = cs[1].tools /\ trace.meta = cs[1].meta
       /\ trace.kept = u.kept /\ trace.truncated = u.broken
  BY <1>17 DEF Finished
<1>20. trace.logprobs = Filled(u.slots)
  BY <1>18, <1>19, LogprobsFilled
<1>21. [ids |-> trace.response, mask |-> trace.mask, logprobs |-> trace.logprobs]
         = Reference(turns, glue)
  <2> DEFINE q == part[n]
  <2>1. q \in Parts
    <3>1. n \in 1 .. n
      BY <1>2
    <3> QED BY <1>12, <3>1
  <2>2. trace.response = q.ids /\ trace.mask = q.mask /\ trace.logprobs = q.logprobs
    BY <1>18, <1>19, <1>20
  <2> HIDE DEF q
  <2>3. q = [ids |-> q.ids, mask |-> q.mask, logprobs |-> q.logprobs]
    BY <2>1 DEF Parts
  <2> QED BY <1>12, <2>2, <2>3, Zenon DEF q
<1>22. 1 \in 1 .. n /\ n \in 1 .. n
  BY <1>2
<1>23. /\ cs[1].prompt = session[1].prompt /\ cs[1].messages = session[1].messages
       /\ cs[1].tools = session[1].tools /\ cs[1].meta = session[1].meta
       /\ cs[n].finish = session[n].finish /\ cs[n].messages = session[n].messages
       /\ cs[n].reply = session[n].reply
  BY <1>5, <1>7, <1>22 DEF Reprompted
<1>24. session[n].finish = Ending[turns[n].reply] /\ session[1].tools = {"search"}
  BY <1>1, <1>22
<1>25. Level(trace.response, trace.mask, u.slots)
  BY <1>18, <1>19
<1> QED BY <1>18, <1>19, <1>20, <1>21, <1>23, <1>24, <1>25, Zenon DEF Steadily, n, trace, cs

-----------------------------------------------------------------------------
(* What the checks say of such a stream.                                   *)

(* One in four is within the policy.                                       *)
LEMMA Tolerated ==
  ASSUME NEW c \in Nat, NEW t \in Nat, 4 * c <= t, NEW of \in Nat, NEW max \in Nat,
         of <= 4 * max
  PROVE  of * c <= max * t
<1>1. of * c <= (4 * max) * c
  <2>1. \E d \in Nat : 4 * max = of + d
    <3>1. (4 * max) - of \in Nat /\ 4 * max = of + ((4 * max) - of)
      OBVIOUS
    <3> QED BY <3>1
  <2>2. PICK d \in Nat : 4 * max = of + d
    BY <2>1
  <2>3. (of + d) * c = of * c + d * c /\ d * c >= 0 /\ of * c \in Nat /\ d * c \in Nat
    OBVIOUS
  <2> QED BY <2>2, <2>3
<1>2. max * (4 * c) <= max * t
  <2>1. PICK d \in Nat : t = 4 * c + d
    <3>1. t - 4 * c \in Nat /\ t = 4 * c + (t - 4 * c)
      OBVIOUS
    <3> QED BY <3>1
  <2>2. max * (4 * c + d) = max * (4 * c) + max * d /\ max * d >= 0 /\ max * (4 * c) \in Nat
        /\ max * d \in Nat
    OBVIOUS
  <2> QED BY <2>1, <2>2
<1>3. (4 * max) * c = max * (4 * c)
  OBVIOUS
<1>4. of * c \in Int /\ max * t \in Int /\ max * (4 * c) \in Int
  OBVIOUS
<1> DEFINE p == of * c
           q == (4 * max) * c
           r == max * (4 * c)
           s == max * t
<1> HIDE DEF p, q, r, s
<1>5. p <= q /\ q = r /\ r <= s /\ p \in Int /\ r \in Int /\ s \in Int
  BY <1>1, <1>2, <1>3, <1>4 DEF p, q, r, s
<1>6. p <= s
  BY <1>5
<1> QED BY <1>6 DEF p, s

(* A level stream passes the logprob discipline.                           *)
LEMMA LevelLogprobs ==
  ASSUME NEW trace, NEW slots, Level(trace.response, trace.mask, slots),
         trace.logprobs = Filled(slots)
  PROVE  CheckLogprobDiscipline(trace)
<1> DEFINE n == Len(trace.response)
           m == trace.mask
           l == trace.logprobs
           r == trace.response
<1>1. /\ m \in Seq({0, 1}) /\ slots \in Seq(Int \cup {Missing}) /\ Len(m) = n /\ Len(slots) = n
      /\ n \in Nat /\ n >= 1
      /\ \A x \in 1 .. n : /\ m[x] = 0 => slots[x] = Missing
                           /\ m[x] = 1 => slots[x] \in Low .. 0
      /\ 4 * Cardinality(Certain(m, slots)) <= Cardinality(TrainedAt(m))
  BY DEF Level
<1>2. l \in Seq(Int) /\ Len(l) = n /\ DOMAIN l = 1 .. n
      /\ \A x \in 1 .. n : l[x] = IF slots[x] = Missing THEN 0 ELSE slots[x]
  <2>1. Filling(slots)
    BY <1>1, FilledIs
  <2>2. l = Filled(slots)
    OBVIOUS
  <2> HIDE DEF n, l
  <2>3. l \in Seq(Int) /\ Len(l) = n
    BY <1>1, <2>1, <2>2 DEF Filling
  <2>4. DOMAIN l = 1 .. n
    BY <2>3
  <2> QED BY <1>1, <2>1, <2>2, <2>3, <2>4 DEF Filling
<1> HIDE DEF n, l, m
<1>3. DOMAIN m = 1 .. n /\ \A x \in 1 .. n : m[x] \in {0, 1}
  BY <1>1
<1>4. \A x \in 1 .. n : m[x] = 1 => slots[x] \in Int /\ slots[x] # Missing /\ slots[x] <= 0
                                     /\ slots[x] > Policy.sentinel
  <2> SUFFICES ASSUME NEW x \in 1 .. n, m[x] = 1
               PROVE  slots[x] \in Int /\ slots[x] # Missing /\ slots[x] <= 0
                      /\ slots[x] > Policy.sentinel
    OBVIOUS
  <2> DEFINE s == Policy.sentinel
  <2>1. s \in Int /\ s < Low /\ Low \in Int
    BY PolicyAssumption, MaxTurnsAssumption DEF Low
  <2>2. slots[x] \in Low .. 0
    BY <1>1
  <2> HIDE DEF s
  <2>3. slots[x] \in Int /\ slots[x] <= 0 /\ slots[x] > s
    BY <2>1, <2>2
  <2> QED BY <2>3, ValuesAssumption DEF s
<1>5. MaskFits(trace)
  <2>1. m # <<>>
    BY <1>1
  <2> QED BY <1>1, <1>3, <2>1 DEF MaskFits, m, n
<1>6. l # Missing
  <2>1. l \in Seq(Int \cup {NaN})
    BY <1>2
  <2> QED BY <2>1, ValuesAssumption
<1>7. Trainable(trace) = TrainedAt(m)
  BY <1>1, <1>3 DEF Trainable, TrainedAt, m
<1>8. ASSUME NEW i \in DOMAIN l
      PROVE  LogprobFits(l[i], i \in Trainable(trace))
  <2>1. i \in 1 .. n /\ l[i] \in Int
    BY <1>2
  <2>2. l[i] # NaN
    BY <2>1, ValuesAssumption
  <2>3. CASE m[i] = 1
    <3>1. l[i] = slots[i] /\ l[i] <= 0 /\ l[i] > Policy.sentinel
      BY <1>2, <1>4, <2>1, <2>3
    <3> QED BY <2>2, <3>1 DEF LogprobFits
  <2>4. CASE m[i] # 1
    <3>1. m[i] = 0
      BY <1>3, <2>1, <2>4
    <3>2. l[i] = 0
      BY <1>1, <1>2, <2>1, <3>1
    <3>3. i \notin Trainable(trace)
      BY <2>4 DEF Trainable, m
    <3>4. 0 <= 0
      OBVIOUS
    <3> QED BY <2>2, <3>2, <3>3, <3>4 DEF LogprobFits
  <2> QED BY <2>3, <2>4
<1>9. Zeros(trace) = Certain(m, slots)
  <2>1. \A x \in TrainedAt(m) : l[x] = slots[x]
    <3>1. \A x \in TrainedAt(m) : x \in 1 .. n /\ m[x] = 1
      BY <1>1 DEF TrainedAt
    <3> QED BY <1>2, <1>4, <3>1
  <2>2. Zeros(trace) = {x \in TrainedAt(m) : l[x] = 0}
    BY <1>7 DEF Zeros, l
  <2> QED BY <2>1, <2>2 DEF Certain
<1>10. Policy.zeros.of * Cardinality(Zeros(trace)) <= Policy.zeros.max * Cardinality(Trainable(trace))
  <2> DEFINE c == Cardinality(Certain(m, slots))
             t == Cardinality(TrainedAt(m))
             of == Policy.zeros.of
             max == Policy.zeros.max
  <2>1. c \in Nat /\ t \in Nat
    <3>1. IsFiniteSet(1 .. n)
      <4>1. 1 \in Int /\ n \in Int
        BY <1>1
      <4> QED BY <4>1, FS_Interval
    <3>2. TrainedAt(m) \subseteq 1 .. n /\ Certain(m, slots) \subseteq TrainedAt(m)
      BY <1>1 DEF TrainedAt, Certain
    <3>3. IsFiniteSet(TrainedAt(m))
      BY <3>1, <3>2, FS_Subset
    <3>4. IsFiniteSet(Certain(m, slots))
      BY <3>2, <3>3, FS_Subset
    <3> QED BY <3>3, <3>4, FS_CardinalityType
  <2>2. max \in Nat /\ of \in 0 .. 4 * max
    BY PolicyAssumption
  <2>3. 4 * c <= t
    BY <1>1
  <2> HIDE DEF c, t, of, max
  <2>4. of \in Nat /\ of <= 4 * max
    BY <2>2
  <2>5. of * c <= max * t
    BY <2>1, <2>2, <2>3, <2>4, Tolerated
  <2> QED BY <1>7, <1>9, <2>5 DEF c, t, of, max
<1>11. Len(trace.logprobs) = Len(trace.response)
  BY <1>2 DEF n, l
<1> QED BY <1>5, <1>6, <1>8, <1>10, <1>11 DEF CheckLogprobDiscipline, l

(* A slice that ends with the generation prompt.                           *)
LEMMA EndsWithHeader ==
  ASSUME NEW s \in Seq(Vocabulary), NEW from \in Nat, NEW to \in Nat, from + 2 <= to,
         to <= Len(s), s[to] = "glue", s[to - 1] = "header"
  PROVE  IsSuffix(Header, SubSeq(s, from + 1, to))
<1> DEFINE T == Vocabulary
           u == SubSeq(s, from + 1, to)
           v == SubSeq(s, from + 1, to - 2)
           h == Header
           n == to - from
<1>1. n \in Nat /\ n >= 2
  OBVIOUS
<1>2. u \in Seq(T) /\ Len(u) = n /\ \A i \in 1 .. n : u[i] = s[from + i]
  OBVIOUS
<1>3. v \in Seq(T) /\ Len(v) = n - 2 /\ \A i \in 1 .. n - 2 : v[i] = s[from + i]
  OBVIOUS
<1>4. h \in Seq(T) /\ Len(h) = 2 /\ h[1] = "header" /\ h[2] = "glue"
  BY HeaderIs
<1>5. u[n] = "glue" /\ u[n - 1] = "header"
  <2>1. n \in 1 .. n /\ n - 1 \in 1 .. n /\ from + n = to /\ from + (n - 1) = to - 1
    BY <1>1
  <2>2. u[n] = s[to] /\ u[n - 1] = s[to - 1]
    BY <1>2, <2>1
  <2> QED BY <2>2
<1> HIDE DEF u, v, h, n, T
<1>6. v \o h = u
  <2>1. Len(u) = Len(v) + Len(h)
    BY <1>1, <1>2, <1>3, <1>4
  <2>2. \A i \in 1 .. Len(v) : u[i] = v[i]
    <3>1. \A i \in 1 .. n - 2 : i \in 1 .. n
      BY <1>1
    <3>2. \A i \in 1 .. n - 2 : u[i] = v[i]
      BY <1>2, <1>3, <3>1
    <3> QED BY <1>3, <3>2
  <2>3. \A i \in 1 .. Len(h) : u[Len(v) + i] = h[i]
    <3>1. (n - 2) + 1 = n - 1 /\ (n - 2) + 2 = n
      BY <1>1
    <3>2. u[(n - 2) + 1] = h[1] /\ u[(n - 2) + 2] = h[2]
      BY <1>4, <1>5, <3>1
    <3>3. \A i \in 1 .. 2 : i = 1 \/ i = 2
      OBVIOUS
    <3> QED BY <1>3, <1>4, <3>2, <3>3
  <2> QED BY <1>2, <1>3, <1>4, <2>1, <2>2, <2>3, JoinIs
<1>7. IsSuffix(h, v \o h)
  BY <1>3, <1>4, SuffixOf, Zenon
<1> QED BY <1>6, <1>7 DEF u, h

(* A level stream passes the check of what its turns were opened with.     *)
LEMMA LevelOpenings ==
  ASSUME NEW trace, NEW slots, Level(trace.response, trace.mask, slots),
         NEW before \in Seq(Vocabulary), trace.prompt = before \o Header
  PROVE  CheckThinkingTail(trace)
<1> DEFINE n == Len(trace.response)
           m == trace.mask
           r == trace.response
<1>1. /\ r \in Seq(Vocabulary) /\ m \in Seq({0, 1}) /\ Len(m) = n /\ n \in Nat /\ n >= 1 /\ m[1] = 1
      /\ \A x \in 2 .. n : m[x] = 1 /\ m[x - 1] = 0 =>
           x > 3 /\ m[x - 2] = 0 /\ r[x - 1] = "glue" /\ r[x - 2] = "header"
  BY DEF Level
<1>2. trace.prompt \in Seq(Vocabulary) /\ IsSuffix(Header, trace.prompt)
  <2> DEFINE h == Header
  <2>1. h \in Seq(Vocabulary)
    BY HeaderIs
  <2> HIDE DEF h
  <2>2. before \o h \in Seq(Vocabulary) /\ IsSuffix(h, before \o h)
    <3>1. before \o h \in Seq(Vocabulary)
      BY <2>1
    <3>2. IsSuffix(h, before \o h)
      BY <2>1, SuffixOf, Zenon
    <3> QED BY <3>1, <3>2
  <2> QED BY <2>2 DEF h
<1>3. 1 \in TurnStarts(trace) /\ Opening(trace, 1) = trace.prompt
  BY <1>1, <1>2, FirstOpening
<1> HIDE DEF n, m, r
<1>4. DOMAIN m = 1 .. n /\ \A x \in 1 .. n : m[x] = 0 \/ m[x] = 1
  BY <1>1
<1>5. ASSUME NEW start \in TurnStarts(trace)
      PROVE  IsSuffix(Header, Opening(trace, start))
  <2>1. start \in 1 .. n /\ m[start] = 1 /\ (start = 1 \/ m[start - 1] = 0)
    BY <1>4 DEF TurnStarts, Trainable, m
  <2>2. CASE start = 1
    BY <1>2, <1>3, <2>2
  <2>3. CASE start # 1
    <3>1. start \in 2 .. n
      BY <1>1, <2>1, <2>3
    <3>2. start > 3 /\ m[start - 1] = 0 /\ m[start - 2] = 0 /\ r[start - 1] = "glue"
          /\ r[start - 2] = "header"
      BY <1>1, <2>1, <2>3, <3>1
    <3> DEFINE B == {x \in 1 .. start - 1 : m[x] = 1}
    <3>3. B \in SUBSET Int /\ IsFiniteSet(B) /\ 1 \in B
      <4>1. IsFiniteSet(1 .. start - 1)
        <5>1. 1 \in Int /\ start - 1 \in Int
          BY <3>1
        <5> QED BY <5>1, FS_Interval
      <4>2. B \subseteq 1 .. start - 1
        OBVIOUS
      <4>3. IsFiniteSet(B)
        BY <4>1, <4>2, FS_Subset
      <4>4. 1 \in 1 .. start - 1
        BY <3>1
      <4> QED BY <1>1, <4>3, <4>4
    <3>4. PICK from \in B : \A x \in B : x <= from
      <4> HIDE DEF B
      <4>1. B # {}
        BY <3>3
      <4> QED BY <3>3, <4>1, GreatestOf
    <3> DEFINE to == start - 1
    <3>5. /\ from \in Nat \ {0} /\ from <= start - 1 /\ m[from] = 1
          /\ from # start - 1 /\ from # start - 2
      <4>1. from \in 1 .. start - 1 /\ m[from] = 1
        BY <3>4
      <4>2. from # start - 1 /\ from # start - 2
        <5>1. 0 # 1
          OBVIOUS
        <5> QED BY <3>2, <4>1, <5>1, Zenon
      <4> QED BY <3>1, <4>1, <4>2
    <3>6. /\ from + 2 <= to /\ to \in Nat /\ to < n /\ to + 1 = start
      BY <1>1, <3>1, <3>5
    <3>7. \A i \in from + 1 .. to : m[i] = 0
      <4> SUFFICES ASSUME NEW i \in from + 1 .. to PROVE m[i] = 0
        OBVIOUS
      <4>1. i \in 1 .. start - 1 /\ ~(i <= from) /\ i \in 1 .. n
        <5> HIDE DEF B
        <5>1. i \in Int /\ from + 1 <= i /\ i <= start - 1 /\ start \in Int /\ start <= n
          BY <3>1, <3>5
        <5> QED BY <1>1, <3>5, <5>1
      <4>2. i \notin B
        BY <3>4, <4>1
      <4>3. m[i] # 1
        BY <4>1, <4>2
      <4> QED BY <1>4, <4>1, <4>3
    <3>8. Opening(trace, to + 1) = SubSeq(r, from + 1, to)
      <4> HIDE DEF to, B
      <4>1. from < to /\ to < Len(trace.mask) /\ m[to + 1] = 1
        <5>1. from < to
          BY <3>5, <3>6
        <5>2. Len(trace.mask) = n
          BY <1>1 DEF m
        <5> QED BY <2>1, <3>6, <5>1, <5>2
      <4> QED BY <1>1, <3>5, <3>6, <3>7, <4>1, LaterOpening DEF m, r
    <3>9. IsSuffix(Header, SubSeq(r, from + 1, to))
      <4>1. r[to] = "glue" /\ r[to - 1] = "header"
        <5>1. to - 1 = start - 2
          BY <3>1
        <5> QED BY <3>2, <5>1
      <4> HIDE DEF to, B
      <4>2. to <= Len(r) /\ from \in Nat
        BY <1>1, <3>5, <3>6 DEF n, r
      <4> QED BY <1>1, <3>6, <4>1, <4>2, EndsWithHeader
    <3> QED BY <3>6, <3>8, <3>9
  <2> QED BY <2>2, <2>3
<1>6. Header \in Pins.tails
  BY PinsAssumption
<1> QED BY <1>3, <1>5, <1>6 DEF CheckThinkingTail

-----------------------------------------------------------------------------
(* The verdict on an undisturbed session.                                  *)

Prompted(session, n) ==
  /\ \A k \in 1 .. n : /\ session[k].prompt # <<>>
                       /\ \E b \in Seq(Vocabulary) : session[k].prompt = b \o Header
  /\ \A k \in 2 .. n : session[k].prompt # session[k - 1].prompt

(* No prompt of an undisturbed session is empty or the last one again, and *)
(* each ends with the header.                                              *)
LEMMA PromptsGrow ==
  ASSUME NEW turns, NEW glue, NEW session, Undisturbed(turns, glue, session)
  PROVE  Prompted(session, Len(turns))
<1> DEFINE n == Len(turns)
           T == Vocabulary
<1>1. /\ n \in Nat /\ glue \in Glues /\ \A k \in 1 .. n : turns[k].reply \in Replies
  <2>1. /\ n \in 1 .. MaxTurns /\ glue \in Glues
        /\ \A k \in 1 .. n : turns[k].reply \in Replies
    BY DEF Undisturbed, Sorted, TurnLike
  <2> HIDE DEF n
  <2> QED BY <2>1, MaxTurnsAssumption
<1>2. PICK before \in [1 .. n -> Seq(T)] :
        /\ before[1] = <<"system", "task">>
        /\ \A k \in 1 .. n : session[k].prompt = before[k] \o Header
        /\ \A k \in 2 .. n :
            before[k] = before[k - 1] \o Past(glue) \o Rendered[turns[k - 1].reply] \o <<"answer">>
  BY Zenon DEF Undisturbed
<1> HIDE DEF n, T
<1>3. ASSUME NEW k \in 1 .. n
      PROVE  /\ session[k].prompt # <<>> /\ session[k].prompt \in Seq(T)
             /\ \E b \in Seq(T) : session[k].prompt = b \o Header
  <2> DEFINE b == before[k]
             h == Header
             p == b \o h
  <2>1. b \in Seq(T) /\ session[k].prompt = p
    BY <1>2
  <2>2. h \in Seq(T) /\ Len(h) = 2
    BY HeaderIs DEF T
  <2> HIDE DEF b, h
  <2>3. p \in Seq(T) /\ Len(p) = Len(b) + Len(h)
    <3>1. b \in Seq(T) /\ h \in Seq(T)
      BY <2>1, <2>2
    <3> QED BY <3>1
  <2> HIDE DEF p
  <2>4. Len(p) # 0
    BY <2>1, <2>2, <2>3
  <2>5. p # <<>>
    BY <2>4
  <2> QED BY <2>1, <2>3, <2>5 DEF p, h
<1>4. ASSUME NEW k \in 2 .. n
      PROVE  session[k].prompt # session[k - 1].prompt
  <2> DEFINE b == before[k - 1]
             r == turns[k - 1].reply
             prompt == session[k - 1].prompt
             next == session[k].prompt
  <2>1. k \in 1 .. n /\ k - 1 \in 1 .. n
    BY <1>1
  <2>2. b \in Seq(T) /\ r \in Replies /\ prompt = b \o Header
    BY <1>1, <1>2, <2>1
  <2>3. next = b \o Past(glue) \o Rendered[r] \o <<"answer">> \o Header
    BY <1>2, <2>1, Zenon
  <2>4. prompt \in Seq(T)
    BY <1>3, <2>1
  <2> HIDE DEF b, r, prompt, next
  <2>5. NextIs(prompt, next, r, glue)
    <3>1. b \in Seq(Vocabulary) /\ r \in Replies /\ glue \in Glues /\ prompt = b \o Header
      BY <1>1, <2>2 DEF T
    <3> QED BY <2>3, <3>1, NextPrompt, Zenon
  <2>6. Len(next) # Len(prompt)
    <3>1. CASE glue = <<>>
      <4> DEFINE s == Shown(r)
      <4>1. next = prompt \o s
        BY <2>5, <3>1 DEF NextIs
      <4>2. s \in Seq(T) /\ Len(s) \in 5 .. 6
        BY <2>2, RepliesAre, Zenon DEF T
      <4> HIDE DEF s
      <4>3. Len(prompt \o s) = Len(prompt) + Len(s)
        BY <2>4, <4>2
      <4>4. Len(prompt) \in Nat
        BY <2>4
      <4> DEFINE j == Len(prompt)
                 i == Len(s)
      <4>5. Len(next) = j + i /\ j \in Nat /\ i \in 5 .. 6
        BY <4>1, <4>2, <4>3, <4>4
      <4> HIDE DEF j, i
      <4>6. Len(next) # j
        BY <4>5
      <4> QED BY <4>6 DEF j
    <3>2. CASE glue # <<>>
      <4>1. Len(next) > Len(prompt)
        BY <2>5, <3>2, Zenon DEF NextIs, ExtendsUnglued
      <4>2. Len(prompt) \in Nat
        BY <2>4
      <4> QED BY <4>1, <4>2
    <3> QED BY <3>1, <3>2
  <2> QED BY <2>6 DEF next, prompt
<1> QED BY <1>3, <1>4, Zenon DEF Prompted, n, T

(* An undisturbed session is not refused, and nothing in it was aborted.   *)
LEMMA UndisturbedNotRefused ==
  ASSUME NEW turns, NEW glue, NEW session, Undisturbed(turns, glue, session),
         DOMAIN session = 1 .. Len(turns), Len(session) = Len(turns)
  PROVE  /\ ~SessionRefused(session, Conf(glue))
         /\ \A k \in DOMAIN session : session[k].finish # "abort"
<1> DEFINE n == Len(turns)
<1>1. n \in Nat /\ \A k \in 1 .. n : turns[k].reply \in Replies
  <2>1. n \in 1 .. MaxTurns /\ \A k \in 1 .. n : turns[k].reply \in Replies
    BY DEF Undisturbed, Sorted, TurnLike
  <2> HIDE DEF n
  <2> QED BY <2>1, MaxTurnsAssumption
<1>2. \A k \in 1 .. n :
       /\ turns[k].reply = "cut" => k = n
       /\ session[k].response = Sampled[turns[k].reply]
       /\ session[k].finish = Ending[turns[k].reply]
       /\ session[k].choices = 1 /\ session[k].shape = "agent"
       /\ session[k].tools = {"search"} /\ session[k].policy = session[1].policy
  BY DEF Undisturbed
<1>3. Prompted(session, n)
  BY PromptsGrow
<1> HIDE DEF n
<1>4. ASSUME NEW k \in 1 .. n
      PROVE  /\ session[k].prompt # <<>> /\ session[k].response # <<>>
             /\ session[k].choices = 1 /\ session[k].shape = "agent"
             /\ ~(k > 1 /\ session[k].prompt = session[k - 1].prompt)
             /\ ~(k < n /\ session[k].finish = "length")
             /\ session[k].finish # "abort"
  <2> DEFINE r == turns[k].reply
  <2>1. r \in Replies /\ session[k].response = Sampled[r] /\ session[k].finish = Ending[r]
    BY <1>1, <1>2
  <2>2. Sampled[r] # <<>>
    <3> DEFINE s == Sampled[r]
    <3>1. Len(s) \in 1 .. 4
      BY <2>1, RepliesAre, Zenon
    <3> HIDE DEF s
    <3> QED BY <3>1 DEF s
  <2>3. Ending[r] # "abort" /\ (r # "cut" => Ending[r] # "length")
    <3> HIDE DEF r
    <3> QED BY <2>1 DEF Ending, Replies
  <2>4. k < n => r # "cut"
    <3>1. k < n => k # n
      BY <1>1
    <3> QED BY <1>2, <3>1
  <2>5. k > 1 => k \in 2 .. n
    BY <1>1
  <2> HIDE DEF r
  <2>6. session[k].prompt # <<>> /\ (k \in 2 .. n => session[k].prompt # session[k - 1].prompt)
    BY <1>3 DEF Prompted
  <2>7. session[k].choices = 1 /\ session[k].shape = "agent"
    BY <1>2
  <2>8. ~(k < n /\ session[k].finish = "length")
    BY <2>1, <2>3, <2>4
  <2>9. ~(k > 1 /\ session[k].prompt = session[k - 1].prompt)
    BY <2>5, <2>6
  <2>10. session[k].response # <<>> /\ session[k].finish # "abort"
    BY <2>1, <2>2, <2>3
  <2> QED BY <2>6, <2>7, <2>8, <2>9, <2>10
<1>5. Conf(glue).eot # Missing
  BY EotIs DEF Conf
<1>6. \A i, j \in DOMAIN session :
        session[i].tools = session[j].tools /\ session[i].policy = session[j].policy
  BY <1>2 DEF n
<1>7. DOMAIN session = 1 .. n /\ Len(session) = n
  BY DEF n
<1> QED BY <1>4, <1>5, <1>6, <1>7, Zenon DEF SessionRefused

(* What is left to judge of an undisturbed session: what was said, and in  *)
(* what surroundings.                                                      *)
SurroundingsFit(trace) ==
  /\ trace.meta.split = Missing \/ trace.meta.split \in AllowedSplits
  /\ trace.meta.masked = 0
  /\ CheckPageCutoff(trace) /\ CheckWorkspace(trace)
  /\ CheckSystemPrompt(trace) /\ CheckSkillCard(trace) /\ CheckSettingsEcho(trace)
  /\ CheckToollessRoster(trace)

JudgedBy(turns, session, glue, trace) ==
  /\ Steadily(turns, glue, session, trace)
  /\ Trajectory(session, Conf(glue)).traces = <<trace>>
  /\ Accepted(Trajectory(session, Conf(glue))) <=> SurroundingsFit(trace)

(* The rules that read the stream hold of an undisturbed session; the      *)
(* others are left.                                                        *)
LEMMA ChecksOfSteady ==
  ASSUME NEW turns, NEW glue, NEW session, NEW trace, Steadily(turns, glue, session, trace),
         turns[Len(turns)].reply \in Replies,
         NEW b \in Seq(Vocabulary), session[1].prompt = b \o Header
  PROVE  RunTraceChecks(trace) <=> SurroundingsFit(trace)
<1>1. PICK slots : Level(trace.response, trace.mask, slots) /\ trace.logprobs = Filled(slots)
  BY DEF Steadily
<1>2. CheckLogprobDiscipline(trace)
  BY <1>1, LevelLogprobs
<1>3. CheckThinkingTail(trace)
  <2>1. trace.prompt = b \o Header
    BY DEF Steadily
  <2> QED BY <1>1, <2>1, LevelOpenings
<1>4. CheckToolRoster(trace)
  <2>1. trace.tools = {"search"} /\ {"search"} # {}
    BY DEF Steadily
  <2> QED BY <2>1, PinsAssumption DEF CheckToolRoster
<1>5. trace.finish \in AllowedFinishReasons
  <2> DEFINE r == turns[Len(turns)].reply
  <2>1. trace.finish = Ending[r]
    BY DEF Steadily
  <2>2. r \in Replies
    OBVIOUS
  <2> HIDE DEF r
  <2>3. Ending[r] = "tool_calls" \/ Ending[r] = "length"
    BY <2>2 DEF Ending, Replies
  <2> QED BY <2>1, <2>3 DEF AllowedFinishReasons
<1> QED BY <1>2, <1>3, <1>4, <1>5, Zenon DEF RunTraceChecks, SurroundingsFit, CheckTraceTripwires

(* An undisturbed session of any messages and meta: one trace, what it     *)
(* trains on, and what its verdict hangs on.                               *)
LEMMA UndisturbedIsJudged ==
  ASSUME NEW G, NEW D, NEW session \in Seq(Completions(Vocabulary, Values, G, D)),
         NEW turns, NEW glue, Undisturbed(turns, glue, session), Talk(G, session)
  PROVE  JudgedBy(turns, session, glue, FinalizeChain(Stitched(session, glue), Conf(glue)))
<1> DEFINE T == Vocabulary
           C == Completions(T, Values, G, D)
           n == Len(turns)
           cs == Stitched(session, glue)
           conf == Conf(glue)
           trace == FinalizeChain(cs, conf)
<1>1. /\ Sorted(turns) /\ Len(session) = n /\ glue \in Glues
      /\ \A k \in 1 .. n : session[k].choices = 1 /\ session[k].shape = "agent"
                           /\ session[k].cut = FALSE
  BY DEF Undisturbed
<1>2. n \in Nat /\ n > 0 /\ \A k \in 1 .. n : turns[k].reply \in Replies
  <2>1. n \in 1 .. MaxTurns /\ \A k \in 1 .. n : turns[k].reply \in Replies
    BY DEF Undisturbed, Sorted, TurnLike
  <2> HIDE DEF n
  <2> QED BY <2>1, MaxTurnsAssumption
<1>3. Steadily(turns, glue, session, trace)
  BY SteadyTrace
<1>4. PICK shown \in [1 .. n -> Seq(T)] :
       /\ shown[1] = session[1].prompt
       /\ \A k \in 1 .. n : /\ cs[k] = [session[k] EXCEPT !.prompt = shown[k]]
                            /\ cs[k].prompt = shown[k]
       /\ \A k \in 2 .. n : shown[k] = shown[k - 1] \o Shown(turns[k - 1].reply)
  <2>1. Chained(turns, session, cs)
    BY StitchedSteadily
  <2> QED BY <2>1, Zenon DEF Chained
<1>5. Prompted(session, n)
  BY PromptsGrow
<1> HIDE DEF n, cs, T, trace
<1>6. session \in Seq(C) /\ DOMAIN session = 1 .. n /\ \A k \in 1 .. n : session[k] \in C
  <2> HIDE DEF C
  <2>1. session \in Seq(C)
    BY DEF C, T
  <2> QED BY <1>1, <2>1
<1>7. cs \in Seq(C) /\ Len(cs) = n
  <2>1. StitchedTo(T, C, session, glue)
    <3>1. glue \in Seq(T)
      BY <1>1, GlueIs DEF T
    <3>2. session \in Seq(Completions(T, Values, G, D))
      BY DEF T
    <3> QED BY <3>1, <3>2, StitchedIs, Zenon
  <2> HIDE DEF C
  <2> QED BY <1>1, <2>1 DEF StitchedTo, cs
<1>8. ASSUME NEW k \in 1 .. n
      PROVE  Reprompted(C, session[k], cs[k], shown[k])
  <2>1. shown[k] \in Seq(T) /\ session[k] \in C /\ cs[k] = [session[k] EXCEPT !.prompt = shown[k]]
    BY <1>4, <1>6
  <2> QED BY <2>1, RepromptedOf, Zenon
<1> HIDE DEF C
<1>9. ASSUME NEW k \in 2 .. n
      PROVE  /\ IsPrefix(cs[k - 1].prompt, cs[k].prompt) /\ cs[k].prompt # <<>>
  <2> DEFINE p == shown[k - 1]
             s == Shown(turns[k - 1].reply)
  <2>1. k \in 1 .. n /\ k - 1 \in 1 .. n
    BY <1>2
  <2>2. p \in Seq(T) /\ s \in Seq(T) /\ Len(s) \in 5 .. 6
    <3>1. turns[k - 1].reply \in Replies
      BY <1>2, <2>1
    <3>2. p \in Seq(T)
      BY <1>4, <2>1
    <3> QED BY <3>1, <3>2, RepliesAre, Zenon DEF T
  <2>3. cs[k - 1].prompt = p /\ cs[k].prompt = p \o s
    BY <1>4, <2>1
  <2> HIDE DEF p, s
  <2>4. IsPrefix(p, p \o s)
    BY <2>2, PrefixOf, Zenon
  <2>5. p \o s # <<>>
    <3>1. p \in Seq(T) /\ s \in Seq(T)
      BY <2>2
    <3>2. Len(p \o s) = Len(p) + Len(s) /\ Len(p) \in Nat /\ Len(s) \in Nat
      BY <3>1
    <3> DEFINE j == Len(p)
               i == Len(s)
    <3>4. Len(p \o s) = j + i /\ j \in Nat /\ i \in 5 .. 6
      BY <2>2, <3>2
    <3> HIDE DEF j, i
    <3>3. Len(p \o s) # 0
      BY <3>4
    <3> QED BY <3>3
  <2> QED BY <2>3, <2>4, <2>5
<1>10. \A k \in 1 .. n : Kept(cs[k]) /\ cs[k].prompt # <<>>
  <2> SUFFICES ASSUME NEW k \in 1 .. n PROVE Kept(cs[k]) /\ cs[k].prompt # <<>>
    OBVIOUS
  <2>1. cs[k].choices = 1 /\ cs[k].shape = "agent" /\ cs[k].cut = FALSE
    BY <1>1, <1>8 DEF Reprompted
  <2>2. Kept(cs[k])
    BY <2>1 DEF Kept
  <2>3. CASE k = 1
    <3>1. cs[1].prompt = session[1].prompt
      BY <1>4, <2>3
    <3> QED BY <1>5, <2>2, <2>3, <3>1 DEF Prompted
  <2>4. CASE k # 1
    <3>1. k \in 2 .. n
      BY <1>2, <2>4
    <3> QED BY <1>9, <2>2, <3>1
  <2> QED BY <2>3, <2>4
<1>11. ~SessionRefused(session, conf) /\ \A k \in DOMAIN session : session[k].finish # "abort"
  BY <1>1, <1>6, UndisturbedNotRefused DEF n
<1>12. /\ Trajectory(session, conf).traces = <<trace>>
       /\ Accepted(Trajectory(session, conf)) <=>
              /\ ~SessionRefused(session, conf)
              /\ \A i \in DOMAIN session : session[i].finish # "abort"
              /\ RunTraceChecks(trace)
  <2>1. cs = Stitched(session, conf.glue) /\ trace = FinalizeChain(cs, conf)
    BY DEF cs, Conf, trace
  <2>2. trace.kept = Len(cs) /\ ~trace.truncated
    BY <1>3, <1>7 DEF Steadily, n
  <2>3. Len(cs) = Len(session) /\ Len(cs) > 0
    BY <1>1, <1>2, <1>7
  <2>4. \A i \in 1 .. Len(cs) : Kept(cs[i]) /\ cs[i].prompt # <<>>
    BY <1>7, <1>10
  <2>5. \A i \in 2 .. Len(cs) : IsPrefix(cs[i - 1].prompt, cs[i].prompt)
    BY <1>7, <1>9
  <2> HIDE DEF conf
  <2>6. cs \in Seq(C)
    BY <1>7
  <2> QED BY <2>1, <2>2, <2>3, <2>4, <2>5, <2>6, ChainIsJudged, Zenon
<1>13. RunTraceChecks(trace) <=> SurroundingsFit(trace)
  <2>1. 1 \in 1 .. n /\ n \in 1 .. n
    BY <1>2
  <2>2. PICK b \in Seq(Vocabulary) : session[1].prompt = b \o Header
    BY <1>5, <2>1 DEF Prompted
  <2>3. turns[Len(turns)].reply \in Replies
    BY <1>2, <2>1 DEF n
  <2> QED BY <1>3, <2>2, <2>3, ChecksOfSteady
<1> QED BY <1>3, <1>11, <1>12, <1>13, Zenon DEF JudgedBy, trace, cs

-----------------------------------------------------------------------------
(* A plain episode's session is undisturbed.                               *)

AllNext(turns) ==
  /\ Sorted(turns)
  /\ \A k \in 1 .. Len(turns) :
       /\ turns[k].how = "next" /\ (turns[k].reply = "cut" => k = Len(turns))
       /\ turns[k].capture = "whole" \/ turns[k].capture = "policy"
       /\ turns[k].capture = turns[1].capture

(* A plain episode only ever answers the turn before.                      *)
LEMMA PlainIsNext ==
  ASSUME NEW turns \in TurnSequences, Plain(turns)
  PROVE  AllNext(turns) /\ (Policy.toolless => turns[1].reply # "cut")
<1>1. Sorted(turns)
  BY TurnsAre
<1>2. DOMAIN turns = 1 .. Len(turns)
  BY <1>1 DEF Sorted
<1> QED BY <1>1, <1>2 DEF AllNext, Plain

(* What a plain turn was asked.                                            *)
NextAsked(turns, glue, request, k) ==
  /\ request[k] \in Asked /\ request[k].header = Header
  /\ k = 1 => /\ request[k].before = <<"system", "task">>
              /\ request[k].messages = OpeningMessages
  /\ k # 1 => /\ request[k].before = request[k - 1].before \o Past(glue)
                                     \o Rendered[turns[k - 1].reply] \o <<"answer">>
              /\ request[k].messages = request[k - 1].messages
                                       \o <<Reply(turns[k - 1]), ToolAnswer(k - 1)>>

(* What is asked in a plain episode.                                       *)
LEMMA NextAskedAre ==
  ASSUME NEW turns, AllNext(turns), NEW glue, NEW k \in 1 .. Len(turns)
  PROVE  NextAsked(turns, glue, Requested(turns, glue), k)
<1> DEFINE n == Len(turns)
           request == Requested(turns, glue)
<1>1. /\ n \in Nat /\ DOMAIN turns = 1 .. n /\ \A i \in 1 .. n : turns[i].reply \in Replies
      /\ \A i \in 1 .. n : turns[i].how = "next"
  <2>1. /\ n \in 1 .. MaxTurns /\ DOMAIN turns = 1 .. n
        /\ \A i \in 1 .. n : turns[i].reply \in Replies /\ turns[i].how = "next"
    BY DEF AllNext, Sorted, TurnLike
  <2> HIDE DEF n
  <2> QED BY <2>1, MaxTurnsAssumption
<1>2. AskedInTurn(turns, glue, request)
  BY <1>1, RequestedAre
<1> HIDE DEF request, n
<1>3. \A i \in 1 .. n : request[i] \in Asked /\ request[i] = Request(turns, glue, i, request[i - 1])
  BY <1>1, <1>2 DEF AskedInTurn
<1>4. \A i \in 1 .. n : Generation(turns, i) = Header /\ History(turns, glue, i) = Past(glue)
  <2> SUFFICES ASSUME NEW i \in 1 .. n
               PROVE  Generation(turns, i) = Header /\ History(turns, glue, i) = Past(glue)
    OBVIOUS
  <2>1. turns[i].how # "think"
    BY <1>1
  <2> QED BY <2>1, Zenon DEF Generation, History, Past
<1>5. k \in 1 .. n
  BY DEF n
<1>6. turns[k].how # "compact" /\ turns[k].how # "retry" /\ turns[k].how # "discard"
  BY <1>1, <1>5
<1>7. ASSUME NEW i \in 1 .. n PROVE request[i].past = Past(glue)
  <2>1. turns[i].how # "compact" /\ turns[i].how # "retry" /\ turns[i].how # "discard"
    BY <1>1
  <2> DEFINE last == request[i - 1]
             m1 == last.messages \o <<Reply(turns[i - 1]), ToolAnswer(i - 1)>>
             b1 == last.before \o last.past \o Rendered[turns[i - 1].reply] \o <<"answer">>
             h  == Generation(turns, i)
             p  == History(turns, glue, i)
  <2>2. request[i] = IF i = 1 THEN [before |-> <<"system", "task">>, header |-> h, past |-> p,
                                    messages |-> OpeningMessages]
                              ELSE [before |-> b1, header |-> h, past |-> p, messages |-> m1]
    BY <1>3, <2>1 DEF Request
  <2> HIDE DEF b1, m1, h, p
  <2>3. request[i].past = p
    BY <2>2
  <2> QED BY <1>4, <2>3 DEF p
<1> DEFINE last == request[k - 1]
           m1 == last.messages \o <<Reply(turns[k - 1]), ToolAnswer(k - 1)>>
           b1 == last.before \o last.past \o Rendered[turns[k - 1].reply] \o <<"answer">>
           h  == Generation(turns, k)
           p  == History(turns, glue, k)
           b0 == <<"system", "task">>
<1>8. request[k] = IF k = 1 THEN [before |-> b0, header |-> h, past |-> p,
                                  messages |-> OpeningMessages]
                            ELSE [before |-> b1, header |-> h, past |-> p, messages |-> m1]
  BY <1>3, <1>5, <1>6 DEF Request
<1> HIDE DEF b1, m1, h, p, b0
<1>9. /\ request[k].header = h
      /\ k = 1 => request[k].before = b0 /\ request[k].messages = OpeningMessages
      /\ k # 1 => request[k].before = b1 /\ request[k].messages = m1
  BY <1>8
<1>10. k # 1 => last.past = Past(glue)
  <2>1. k # 1 => k - 1 \in 1 .. n
    BY <1>1, <1>5
  <2> QED BY <1>7, <2>1
<1>11. k # 1 => b1 = last.before \o Past(glue) \o Rendered[turns[k - 1].reply] \o <<"answer">>
  BY <1>10, Zenon DEF b1
<1>12. request[k] \in Asked /\ h = Header
  BY <1>3, <1>4, <1>5 DEF h
<1> QED BY <1>9, <1>11, <1>12, Zenon DEF NextAsked, m1, b0, request

PlainRecord(record, turns, glue, k) ==
  /\ record.prompt = Requested(turns, glue)[k].before \o Header
  /\ record.response = Sampled[turns[k].reply]
  /\ record.logprobs = Logprobs(k, turns[k].reply)
  /\ record.finish = Ending[turns[k].reply] /\ record.choices = 1 /\ record.shape = "agent"
  /\ record.cut = FALSE /\ record.tools = {"search"}
  /\ record.messages = Requested(turns, glue)[k].messages
  /\ record.reply = Reply(turns[k]) /\ record.meta = Meta
  /\ record.policy = IF turns[k].capture = "policy" THEN "v2" ELSE "v1"

(* What is captured of a plain episode.                                    *)
LEMMA PlainRecords ==
  ASSUME NEW turns, AllNext(turns), NEW glue, NEW k \in 1 .. Len(turns)
  PROVE  PlainRecord(Session(turns, glue)[k], turns, glue, k)
<1> DEFINE session == Session(turns, glue)
           record == Faithful(turns, glue, k)
           capture == turns[k].capture
<1>1. AsAsked(record, turns, glue, k) /\ Shows(session[k], record, capture)
  <2>1. CapturedAs(turns, glue, session)
    BY SessionIs DEF AllNext
  <2> QED BY <2>1 DEF CapturedAs
<1>2. capture = "whole" \/ capture = "policy"
  BY DEF AllNext
<1>3. Requested(turns, glue)[k].header = Header
  BY NextAskedAre DEF NextAsked
<1> DEFINE new == session[k]
<1> HIDE DEF session, record, capture, new
<1>4. /\ new.prompt = record.prompt /\ new.response = record.response
      /\ new.logprobs = record.logprobs /\ new.finish = record.finish
      /\ new.choices = record.choices /\ new.shape = record.shape /\ new.cut = record.cut
      /\ new.tools = record.tools /\ new.messages = record.messages
      /\ new.reply = record.reply /\ new.meta = record.meta
      /\ new.policy = IF capture = "policy" THEN "v2" ELSE record.policy
  BY <1>1, <1>2, Zenon DEF Shows, new
<1>5. /\ record.prompt = Requested(turns, glue)[k].before \o Header
      /\ record.response = Sampled[turns[k].reply]
      /\ record.logprobs = Logprobs(k, turns[k].reply)
      /\ record.finish = Ending[turns[k].reply] /\ record.choices = 1 /\ record.shape = "agent"
      /\ record.cut = FALSE /\ record.tools = {"search"} /\ record.policy = "v1"
      /\ record.messages = Requested(turns, glue)[k].messages
      /\ record.reply = Reply(turns[k]) /\ record.meta = Meta
  BY <1>1, <1>3 DEF AsAsked
<1>6. PlainRecord(new, turns, glue, k)
  BY <1>4, <1>5, Zenon DEF PlainRecord, capture
<1> QED BY <1>6 DEF new, session

(* Joining two messages one by one.                                        *)
Singly(s, a, b) == s \o <<a, b>> = s \o <<a>> \o <<b>>

(* Two messages are joined as one after the other.                         *)
LEMMA OneByOne ==
  ASSUME NEW T, NEW s \in Seq(T), NEW a \in T, NEW b \in T
  PROVE  Singly(s, a, b)
<1> DEFINE x == <<a>>
           y == <<b>>
<1>1. x \in Seq(T) /\ y \in Seq(T)
  OBVIOUS
<1>2. x \o y = <<a, b>>
  BY OneOne, Zenon
<1> HIDE DEF x, y
<1>3. Assoc(s, x, y)
  BY <1>1, Associative, Zenon
<1>4. (s \o x) \o y = s \o (x \o y)
  BY <1>3 DEF Assoc
<1> QED BY <1>2, <1>4, Zenon DEF x, y, Singly

(* A plain episode's messages follow on each other.                        *)
LEMMA TalkOfPlain ==
  ASSUME NEW turns, AllNext(turns), NEW glue
  PROVE  /\ Session(turns, glue) \in Seq(Records) /\ Talk(Messages, Session(turns, glue))
         /\ Len(Session(turns, glue)) = Len(turns)
<1> DEFINE n == Len(turns)
           session == Session(turns, glue)
           request == Requested(turns, glue)
<1>1. /\ session \in Seq(Records) /\ Len(session) = n
      /\ \A k \in 1 .. n : session[k] \in Records
  <2>1. CapturedAs(turns, glue, session)
    BY SessionIs DEF AllNext
  <2> QED BY <2>1 DEF CapturedAs
<1>2. \A k \in 1 .. n : PlainRecord(session[k], turns, glue, k) /\ NextAsked(turns, glue, request, k)
  BY PlainRecords, NextAskedAre
<1>3. n \in Nat
  BY <1>1
<1> HIDE DEF session, request, n
<1>4. ASSUME NEW k \in 2 .. n
      PROVE  \E more \in Seq(Messages) :
               session[k].messages = session[k - 1].messages \o <<session[k - 1].reply>> \o more
  <2> DEFINE m == session[k - 1].messages
             a == session[k - 1].reply
             b == ToolAnswer(k - 1)
             more == <<b>>
  <2>1. k \in 1 .. n /\ k - 1 \in 1 .. n /\ k # 1
    BY <1>3
  <2>2. m \in Seq(Messages) /\ a \in Messages
    <3>1. session[k - 1] \in Records
      BY <1>1, <2>1
    <3> QED BY <3>1 DEF Records, Completions
  <2>3. b \in Messages
    <3>1. b = ToolAnswer(1)
      BY Zenon DEF ToolAnswer
    <3> QED BY <3>1 DEF Messages
  <2>4. session[k].messages = m \o <<a, b>>
    <3>1. session[k].messages = request[k].messages /\ m = request[k - 1].messages
          /\ a = Reply(turns[k - 1])
      BY <1>2, <2>1, Zenon DEF PlainRecord, request
    <3>2. request[k].messages = request[k - 1].messages \o <<Reply(turns[k - 1]), ToolAnswer(k - 1)>>
      BY <1>2, <2>1, Zenon DEF NextAsked
    <3> QED BY <3>1, <3>2, Zenon
  <2> HIDE DEF m, a, b
  <2>5. m \o <<a, b>> = m \o <<a>> \o <<b>>
    <3>1. Singly(m, a, b)
      BY <2>2, <2>3, OneByOne, Zenon
    <3> QED BY <3>1 DEF Singly
  <2>6. more \in Seq(Messages)
    BY <2>3
  <2> HIDE DEF more
  <2>7. session[k].messages = m \o <<a>> \o more
    BY <2>4, <2>5, Zenon DEF more
  <2> QED BY <2>6, <2>7, Zenon DEF m, a
<1>5. Talk(Messages, session)
  BY <1>1, <1>4, Zenon DEF Talk
<1> QED BY <1>1, <1>5 DEF session, n

(* A plain episode is undisturbed.                                         *)
LEMMA PlainUndisturbed ==
  ASSUME NEW turns, AllNext(turns), NEW glue \in Glues
  PROVE  Undisturbed(turns, glue, Session(turns, glue))
<1> DEFINE n == Len(turns)
           session == Session(turns, glue)
           request == Requested(turns, glue)
           before == [k \in 1 .. n |-> request[k].before]
<1>1. /\ Sorted(turns)
      /\ \A k \in 1 .. n : /\ turns[k].reply = "cut" => k = n
                           /\ turns[k].capture = turns[1].capture
  BY DEF AllNext
<1>2. \A k \in 1 .. n : PlainRecord(session[k], turns, glue, k) /\ NextAsked(turns, glue, request, k)
  BY PlainRecords, NextAskedAre
<1>3. n \in Nat /\ n > 0 /\ 1 \in 1 .. n
  <2>1. n \in 1 .. MaxTurns
    BY <1>1 DEF Sorted
  <2> HIDE DEF n
  <2> QED BY <2>1, MaxTurnsAssumption
<1>4. Len(session) = n
  BY TalkOfPlain
<1> HIDE DEF n, session, request
<1>5. before \in [1 .. n -> Seq(Vocabulary)]
  <2>1. \A k \in 1 .. n : request[k].before \in Seq(Vocabulary)
    <3>1. \A k \in 1 .. n : request[k] \in Asked
      BY <1>2 DEF NextAsked
    <3> QED BY <3>1 DEF Asked
  <2> QED BY <2>1
<1>6. before[1] = <<"system", "task">>
  <2>1. before[1] = request[1].before
    BY <1>3
  <2>2. NextAsked(turns, glue, request, 1)
    BY <1>2, <1>3
  <2> QED BY <2>1, <2>2, Zenon DEF NextAsked
<1>7. \A k \in 1 .. n : session[k].prompt = before[k] \o Header
  <2> SUFFICES ASSUME NEW k \in 1 .. n PROVE session[k].prompt = before[k] \o Header
    OBVIOUS
  <2>1. session[k].prompt = request[k].before \o Header
    BY <1>2 DEF PlainRecord, request
  <2>2. before[k] = request[k].before
    OBVIOUS
  <2> HIDE DEF before
  <2> QED BY <2>1, <2>2, Zenon
<1>8. \A k \in 2 .. n :
        before[k] = before[k - 1] \o Past(glue) \o Rendered[turns[k - 1].reply] \o <<"answer">>
  <2> SUFFICES ASSUME NEW k \in 2 .. n
               PROVE  before[k] = before[k - 1] \o Past(glue) \o Rendered[turns[k - 1].reply]
                                                \o <<"answer">>
    OBVIOUS
  <2>1. k \in 1 .. n /\ k - 1 \in 1 .. n /\ k # 1
    BY <1>3
  <2>2. before[k] = request[k].before /\ before[k - 1] = request[k - 1].before
    BY <2>1
  <2> HIDE DEF before
  <2>3. request[k].before = request[k - 1].before \o Past(glue) \o Rendered[turns[k - 1].reply]
                                                  \o <<"answer">>
    BY <1>2, <2>1, Zenon DEF NextAsked
  <2> QED BY <2>2, <2>3, Zenon
<1> HIDE DEF before
<1>9. ASSUME NEW k \in 1 .. n
      PROVE  /\ turns[k].reply = "cut" => k = n
             /\ session[k].response = Sampled[turns[k].reply]
             /\ session[k].logprobs = Logprobs(k, turns[k].reply)
             /\ session[k].finish = Ending[turns[k].reply]
             /\ session[k].choices = 1 /\ session[k].shape = "agent" /\ session[k].cut = FALSE
             /\ session[k].tools = {"search"} /\ session[k].policy = session[1].policy
  <2>1. session[k].policy = session[1].policy
    <3>1. PlainRecord(session[k], turns, glue, k) /\ PlainRecord(session[1], turns, glue, 1)
      BY <1>2, <1>3
    <3>2. turns[k].capture = turns[1].capture
      BY <1>1
    <3> QED BY <3>1, <3>2, Zenon DEF PlainRecord
  <2>2. PlainRecord(session[k], turns, glue, k)
    BY <1>2
  <2> QED BY <1>1, <2>1, <2>2, Zenon DEF PlainRecord
<1> QED BY <1>1, <1>4, <1>5, <1>6, <1>7, <1>8, <1>9, Zenon DEF Undisturbed, n, session

-----------------------------------------------------------------------------
(* The surroundings of a plain episode.                                    *)

Appended(s, a) == Len(s) + 1 \in DOMAIN (s \o <<a>>) /\ (s \o <<a>>)[Len(s) + 1] = a
                /\ \A i \in DOMAIN s : i \in DOMAIN (s \o <<a>>) /\ (s \o <<a>>)[i] = s[i]

(* The member appended is the last, the others are where they were.        *)
LEMMA LastIs ==
  ASSUME NEW T, NEW s \in Seq(T), NEW a \in T
  PROVE  Appended(s, a)
<1> DEFINE x == <<a>>
           all == s \o x
<1>1. x \in Seq(T) /\ Len(x) = 1 /\ x[1] = a
  OBVIOUS
<1> HIDE DEF x
<1>2. /\ all \in Seq(T) /\ Len(all) = Len(s) + 1 /\ Len(s) \in Nat
      /\ \A i \in 1 .. Len(s) : all[i] = s[i]
      /\ all[Len(s) + 1] = x[1]
  <2>1. s \in Seq(T) /\ x \in Seq(T)
    BY <1>1
  <2>2. /\ all \in Seq(T) /\ Len(all) = Len(s) + Len(x) /\ Len(s) \in Nat
        /\ \A i \in 1 .. Len(s) : all[i] = s[i]
        /\ \A i \in 1 .. Len(x) : all[Len(s) + i] = x[i]
    BY <2>1
  <2> QED BY <1>1, <2>2
<1> HIDE DEF all
<1>3. DOMAIN all = 1 .. Len(s) + 1 /\ DOMAIN s = 1 .. Len(s) /\ Len(s) + 1 \in 1 .. Len(s) + 1
      /\ \A i \in 1 .. Len(s) : i \in 1 .. Len(s) + 1
  BY <1>2
<1>4. /\ Len(s) + 1 \in DOMAIN all /\ all[Len(s) + 1] = a
      /\ \A i \in DOMAIN s : i \in DOMAIN all /\ all[i] = s[i]
  BY <1>1, <1>2, <1>3
<1> QED BY <1>4 DEF Appended, all, x

Within(s, a, more) == Len(s) + 1 \in DOMAIN (s \o <<a>> \o more)
                      /\ (s \o <<a>> \o more)[Len(s) + 1] = a

(* A member between two sequences is where the first ends.                 *)
LEMMA WithinIs ==
  ASSUME NEW T, NEW s \in Seq(T), NEW a \in T, NEW more \in Seq(T)
  PROVE  Within(s, a, more)
<1> DEFINE x == <<a>>
           u == s \o x
           all == u \o more
           k == Len(s) + 1
<1>1. x \in Seq(T)
  OBVIOUS
<1>2. Appended(s, a)
  BY LastIs
<1>3. k \in DOMAIN u /\ u[k] = a
  BY <1>2, Zenon DEF Appended
<1> HIDE DEF x, k
<1>4. u \in Seq(T)
  BY <1>1
<1> HIDE DEF u
<1>5. all \in Seq(T) /\ DOMAIN u \subseteq DOMAIN all /\ \A i \in DOMAIN u : all[i] = u[i]
  <2>1. u \in Seq(T) /\ more \in Seq(T)
    BY <1>4
  <2>2. all \in Seq(T) /\ Len(all) = Len(u) + Len(more) /\ Len(more) \in Nat /\ Len(u) \in Nat
        /\ \A i \in 1 .. Len(u) : all[i] = u[i]
    BY <2>1
  <2> HIDE DEF all
  <2>3. DOMAIN all = 1 .. Len(all) /\ DOMAIN u = 1 .. Len(u)
    BY <2>1, <2>2
  <2> QED BY <2>2, <2>3
<1>6. k \in DOMAIN all /\ all[k] = a
  BY <1>3, <1>5
<1> QED BY <1>6 DEF Within, all, u, x, k

(* A plain episode calls a tool where the policy wants it to.              *)
LEMMA PlainCalls ==
  ASSUME NEW turns, AllNext(turns), NEW glue, Policy.toolless => turns[1].reply # "cut",
         NEW trace, Steadily(turns, glue, Session(turns, glue), trace)
  PROVE  CheckToollessRoster(trace)
<1> DEFINE n == Len(turns)
           session == Session(turns, glue)
           m == session[n].messages
           a == session[n].reply
<1>1. /\ session \in Seq(Records) /\ Len(session) = n /\ Talk(Messages, session)
  BY TalkOfPlain
<1>2. n \in Nat /\ n > 0
  <2>1. n \in 1 .. MaxTurns
    BY DEF AllNext, Sorted
  <2> HIDE DEF n
  <2> QED BY <2>1, MaxTurnsAssumption
<1>3. \A k \in 1 .. n : session[k] \in Records /\ session[k].reply = Reply(turns[k])
                        /\ (turns[k].reply = "cut" => k = n)
  <2>1. \A k \in 1 .. n : PlainRecord(session[k], turns, glue, k)
    BY PlainRecords
  <2>2. \A k \in 1 .. n : session[k] \in Records
    <3> HIDE DEF session, n
    <3> QED BY <1>1
  <2> QED BY <2>1, <2>2 DEF PlainRecord, AllNext
<1>4. \A k \in 1 .. n : turns[k].reply # "cut" => session[k].reply.calls = TRUE
  <2> SUFFICES ASSUME NEW k \in 1 .. n, turns[k].reply # "cut"
               PROVE  session[k].reply.calls = TRUE
    OBVIOUS
  <2>1. session[k].reply = Reply(turns[k])
    BY <1>3
  <2>2. Reply(turns[k]).calls = (turns[k].reply # "cut")
    BY DEF Reply, Said
  <2> QED BY <2>1, <2>2
<1> HIDE DEF session, n
<1>5. m \in Seq(Messages) /\ a \in Messages
  <2>1. n \in 1 .. n
    BY <1>2
  <2>2. session[n] \in Records
    BY <1>3, <2>1
  <2> QED BY <2>2 DEF Records, Completions
<1>6. trace.messages = m \o <<a>>
  BY DEF Steadily, session, n
<1>7. Appended(m, a)
  BY <1>5, LastIs, Zenon
<1>8. SUFFICES ASSUME Policy.toolless
               PROVE  \E i \in DOMAIN trace.messages : trace.messages[i].calls
  BY DEF CheckToollessRoster
<1>9. CASE n = 1
  <2>1. a.calls = TRUE
    <3>1. 1 \in 1 .. n /\ turns[1].reply # "cut"
      BY <1>2, <1>8
    <3> QED BY <1>4, <1>9, <3>1
  <2> HIDE DEF a, m
  <2>2. Len(m) + 1 \in DOMAIN trace.messages /\ trace.messages[Len(m) + 1] = a
    BY <1>6, <1>7, Zenon DEF Appended
  <2> QED BY <2>1, <2>2
<1>10. CASE n # 1
  <2> DEFINE b == session[n - 1].reply
             s == session[n - 1].messages
  <2>1. n \in 2 .. n /\ n - 1 \in 1 .. n /\ n - 1 # n
    BY <1>2, <1>10
  <2>2. PICK more \in Seq(Messages) : m = s \o <<b>> \o more
    <3>1. n \in 2 .. Len(session)
      BY <1>1, <2>1
    <3> QED BY <1>1, <3>1, Zenon DEF Talk
  <2>3. s \in Seq(Messages) /\ b \in Messages
    <3>1. session[n - 1] \in Records
      BY <1>3, <2>1
    <3> QED BY <3>1 DEF Records, Completions
  <2>4. b.calls = TRUE
    BY <1>3, <1>4, <2>1
  <2> HIDE DEF b, s, m, a
  <2>5. Within(s, b, more)
    BY <2>3, WithinIs, Zenon
  <2>6. Len(s) + 1 \in DOMAIN m /\ m[Len(s) + 1] = b
    BY <2>2, <2>5, Zenon DEF Within
  <2>7. Len(s) + 1 \in DOMAIN trace.messages /\ trace.messages[Len(s) + 1] = b
    BY <1>6, <1>7, <2>6, Zenon DEF Appended
  <2> QED BY <2>4, <2>7
<1> QED BY <1>9, <1>10

(* What a checkout of the harness holds, in the terms of the two rules.    *)
Probed(checkout) ==
  /\ checkout.pages \in SUBSET Int /\ IsFiniteSet(checkout.pages)
  /\ checkout.shallow \in BOOLEAN /\ ProbeWorkspace(checkout) # Missing

(* Every message of a plain episode names no pages.                        *)
LEMMA NoPages ==
  ASSUME NEW m \in Messages
  PROVE  m.pages = {}
<1>1. \A b \in BOOLEAN : [Said("assistant", "reply") EXCEPT !.calls = b].pages = {}
  BY DEF Said
<1>2. ToolAnswer(1).pages = {}
  BY DEF ToolAnswer, Said
<1>3. \A r, t : Said(r, t).pages = {}
  BY DEF Said
<1> QED BY <1>1, <1>2, <1>3 DEF Messages

(* So a plain episode searched for none.                                   *)
LEMMA NamesNoPages ==
  ASSUME NEW trace, trace.messages \in Seq(Messages)
  PROVE  CaseSearchPages(trace) = {}
<1>1. \A i \in DOMAIN trace.messages : trace.messages[i].pages = {}
  <2> SUFFICES ASSUME NEW i \in DOMAIN trace.messages PROVE trace.messages[i].pages = {}
    OBVIOUS
  <2>1. trace.messages[i] \in Messages
    OBVIOUS
  <2> QED BY <2>1, NoPages
<1> QED BY <1>1 DEF CaseSearchPages

MetaFields(meta, checkout) ==
  /\ meta.timestep = 1 /\ meta.split = "train" /\ meta.source = "free"
  /\ meta.settings = "settings" /\ meta.masked = 0
  /\ meta.workspace = ProbeWorkspace(checkout)

FirstCheckout == [branch |-> 1, shallow |-> TRUE, remotes |-> 0, pages |-> {1}]

(* A plain episode's meta, field by field.                                 *)
LEMMA MetaIs == MetaFields(Meta, FirstCheckout)
<1> DEFINE w == ProbeWorkspace(FirstCheckout)
<1>1. Meta = [timestep |-> 1, split |-> "train", source |-> "free", card |-> Missing,
              settings |-> "settings", masked |-> 0, workspace |-> w]
  BY Zenon DEF Meta, FirstCheckout
<1> HIDE DEF w
<1>2. /\ Meta.timestep = 1 /\ Meta.split = "train" /\ Meta.source = "free"
      /\ Meta.settings = "settings" /\ Meta.masked = 0
      /\ Meta.workspace = w
  BY <1>1
<1> QED BY <1>2, Zenon DEF MetaFields, w

(* A plain episode's checkout is one the harness can probe.                *)
LEMMA FirstProbed == Probed(FirstCheckout)
<1>1. 1 \in PagesThere /\ {1} \in SUBSET PagesThere
  BY DEF PagesThere
<1>2. ProbeWorkspace(FirstCheckout) # Missing
  <2>1. 0 \in 0 .. 1 /\ TRUE \in BOOLEAN
    OBVIOUS
  <2> QED BY <1>1, <2>1, ProbeAssumption, Zenon DEF FirstCheckout
<1>3. IsFiniteSet({1})
  <2>1. {1} = 1 .. 1 /\ 1 \in Nat \ {0}
    OBVIOUS
  <2> QED BY <2>1, OneTo, Zenon
<1> QED BY <1>2, <1>3 DEF Probed, FirstCheckout

(* The system prompt of every episode is the pinned one.                   *)
LEMMA OpeningFits ==
  ASSUME NEW trace, trace.opening = OpeningMessages
  PROVE  CheckSystemPrompt(trace)
<1> DEFINE a == Said("system", "system")
           b == Said("user", "task")
<1>1. a.role = "system" /\ a.text = "system" /\ b.role = "user"
  BY DEF Said
<1> HIDE DEF a, b
<1>2. trace.opening = <<a, b>>
  BY DEF OpeningMessages, a, b
<1>3. SystemTexts(trace) = {"system"}
  BY <1>1, <1>2 DEF SystemTexts
<1> QED BY <1>3, PinsAssumption DEF CheckSystemPrompt

(* The rules that read what does not change from episode to episode.       *)
LEMMA MetaFits ==
  ASSUME NEW trace, trace.meta.split = "train", trace.meta.masked = 0,
         trace.meta.source = "free", trace.meta.settings = "settings",
         trace.opening = OpeningMessages, CheckToollessRoster(trace)
  PROVE  SurroundingsFit(trace) <=> CheckPageCutoff(trace) /\ CheckWorkspace(trace)
<1>1. trace.meta.split \in AllowedSplits
  BY DEF AllowedSplits
<1>2. CheckSkillCard(trace) /\ CheckSettingsEcho(trace)
  BY PinsAssumption DEF CheckSkillCard, CheckSettingsEcho
<1>3. CheckSystemPrompt(trace)
  BY OpeningFits
<1> QED BY <1>1, <1>2, <1>3 DEF SurroundingsFit

(* A plain episode saw page 1 of branch 1, and its task says timestep 1.   *)
LEMMA PlainSurroundings ==
  ASSUME NEW turns, AllNext(turns), NEW glue, Policy.toolless => turns[1].reply # "cut",
         NEW trace, Steadily(turns, glue, Session(turns, glue), trace)
  PROVE  SurroundingsFit(trace)
<1> DEFINE n == Len(turns)
           session == Session(turns, glue)
           m == session[n].messages
           a == session[n].reply
<1>1. n \in Nat /\ 1 \in 1 .. n /\ n \in 1 .. n
  <2>1. n \in 1 .. MaxTurns
    BY DEF AllNext, Sorted
  <2> HIDE DEF n
  <2> QED BY <2>1, MaxTurnsAssumption
<1>2. /\ session \in Seq(Records) /\ Len(session) = n
  BY TalkOfPlain
<1>3. PlainRecord(session[1], turns, glue, 1)
  BY <1>1, PlainRecords
<1>4. CheckToollessRoster(trace)
  BY PlainCalls
<1>5. /\ trace.meta = session[1].meta /\ trace.opening = session[1].messages
      /\ trace.messages = m \o <<a>>
  BY DEF Steadily
<1>6. trace.meta = Meta
  BY <1>3, <1>5, Zenon DEF PlainRecord
<1>7. trace.opening = OpeningMessages
  <2>1. NextAsked(turns, glue, Requested(turns, glue), 1)
    BY <1>1, NextAskedAre
  <2>2. Requested(turns, glue)[1].messages = OpeningMessages
    BY <2>1, Zenon DEF NextAsked
  <2> QED BY <1>3, <1>5, <2>2, Zenon DEF PlainRecord
<1> HIDE DEF session, n
<1>8. trace.messages \in Seq(Messages)
  <2>1. session[n] \in Records
    BY <1>1, <1>2
  <2>2. m \in Seq(Messages) /\ a \in Messages
    BY <2>1 DEF Records, Completions
  <2> HIDE DEF m, a
  <2>3. m \o <<a>> \in Seq(Messages)
    BY <2>2
  <2> QED BY <1>5, <2>3
<1>9. CaseSearchPages(trace) = {}
  BY <1>8, NamesNoPages
<1>10. MetaFields(trace.meta, FirstCheckout)
  BY <1>6, MetaIs
<1>11. EpisodeTimestep(trace) = 1 /\ 1 # Missing
  <2>1. 1 # Missing
    BY ValuesAssumption
  <2> QED BY <1>10, <2>1 DEF EpisodeTimestep, MetaFields
<1>12. CheckPageCutoff(trace) /\ CheckWorkspace(trace)
  <2>1. FirstCheckout.pages = 1 .. 1 /\ FirstCheckout.branch = 1 /\ FirstCheckout.shallow = TRUE
        /\ FirstCheckout.remotes = 0
    BY DEF FirstCheckout
  <2>2. SawOnly(trace, FirstCheckout, EpisodeTimestep(trace))
    BY <1>9, <1>11, <2>1 DEF SawOnly
  <2>3. /\ FirstCheckout.pages \in SUBSET Int /\ IsFiniteSet(FirstCheckout.pages)
        /\ FirstCheckout.shallow \in BOOLEAN /\ ProbeWorkspace(FirstCheckout) # Missing
    BY FirstProbed DEF Probed
  <2>4. trace.meta.workspace = ProbeWorkspace(FirstCheckout)
    BY <1>10 DEF MetaFields
  <2>5. CaseSearchPages(trace) \in SUBSET (Nat \ {0})
    BY <1>9
  <2>6. (CheckPageCutoff(trace) /\ CheckWorkspace(trace)) <=>
           /\ EpisodeTimestep(trace) # Missing
           /\ SawOnly(trace, FirstCheckout, EpisodeTimestep(trace))
    BY <2>3, <2>4, <2>5, CutoffIsExact
  <2> QED BY <1>11, <2>2, <2>6
<1> QED BY <1>4, <1>7, <1>10, <1>12, MetaFits DEF MetaFields

(* What a plain episode is landed as.                                      *)
LandsWhatWasSampled(turns, glue, session, trajectory) ==
  /\ Accepted(trajectory) /\ Len(trajectory.traces) = 1
  /\ trajectory.traces[1].prompt = session[1].prompt
  /\ [ids |-> trajectory.traces[1].response, mask |-> trajectory.traces[1].mask,
      logprobs |-> trajectory.traces[1].logprobs] = Reference(turns, glue)
  /\ trajectory.traces[1].messages = Append(session[Len(turns)].messages,
                                            session[Len(turns)].reply)

(* Appending is joining one.                                               *)
LEMMA AppendIs ==
  ASSUME NEW T, NEW s \in Seq(T), NEW a \in T
  PROVE  Append(s, a) = s \o <<a>>
OBVIOUS

(* Every plain episode, whatever its number of turns and the glue of its   *)
(* template, lands as one trace that trains on exactly what the engine     *)
(* sampled, at the logprobs it was sampled with, after exactly what the    *)
(* model was shown (builder.py and checks.py together).                    *)
THEOREM PlainIsAccepted ==
  ASSUME NEW turns \in TurnSequences, NEW glue \in Glues, Plain(turns)
  PROVE  LandsWhatWasSampled(turns, glue, Session(turns, glue),
                             Judge(Session(turns, glue), glue))
<1> DEFINE n == Len(turns)
           session == Session(turns, glue)
           trajectory == Judge(session, glue)
           trace == FinalizeChain(Stitched(session, glue), Conf(glue))
           m == session[n].messages
           a == session[n].reply
<1>1. AllNext(turns) /\ (Policy.toolless => turns[1].reply # "cut")
  BY PlainIsNext
<1>2. n \in Nat /\ n \in 1 .. n
  <2>1. n \in 1 .. MaxTurns
    BY <1>1 DEF AllNext, Sorted
  <2> HIDE DEF n
  <2> QED BY <2>1, MaxTurnsAssumption
<1>3. Undisturbed(turns, glue, session)
  BY <1>1, PlainUndisturbed
<1>4. session \in Seq(Records) /\ Talk(Messages, session) /\ Len(session) = n
  BY <1>1, TalkOfPlain
<1>5. trajectory = Trajectory(session, Conf(glue))
  BY Zenon DEF Judge, Conf
<1> HIDE DEF session, trajectory, trace
<1>6. JudgedBy(turns, session, glue, trace)
  <2>1. session \in Seq(Completions(Vocabulary, Values, Messages, Data))
    BY <1>4 DEF Records
  <2> QED BY <1>3, <1>4, <2>1, UndisturbedIsJudged, Zenon DEF trace
<1>7. /\ Steadily(turns, glue, session, trace) /\ trajectory.traces = <<trace>>
      /\ Accepted(trajectory) <=> SurroundingsFit(trace)
  BY <1>5, <1>6, Zenon DEF JudgedBy
<1>8. SurroundingsFit(trace)
  BY <1>1, <1>7, PlainSurroundings, Zenon DEF session
<1>9. Len(trajectory.traces) = 1 /\ trajectory.traces[1] = trace
  BY <1>7
<1>10. /\ trace.prompt = session[1].prompt
       /\ [ids |-> trace.response, mask |-> trace.mask, logprobs |-> trace.logprobs]
            = Reference(turns, glue)
       /\ trace.messages = m \o <<a>>
  BY <1>7, Zenon DEF Steadily
<1>11. Append(m, a) = m \o <<a>>
  <2>1. session[n] \in Records
    <3> HIDE DEF n
    <3> QED BY <1>2, <1>4
  <2>2. m \in Seq(Messages) /\ a \in Messages
    BY <2>1 DEF Records, Completions
  <2> HIDE DEF m, a
  <2> QED BY <2>2, AppendIs, Zenon
<1> QED BY <1>7, <1>8, <1>9, <1>10, <1>11, Zenon
    DEF LandsWhatWasSampled, session, trajectory, m, a, n

(* A result lands exactly if its episode was plain.                        *)
THEOREM AcceptanceIsExact == TrainsWhatWasSampled
<1> SUFFICES ASSUME NEW glue \in Glues, NEW turns \in TurnSequences,
                    NEW session \in {Session(turns, glue)},
                    NEW trajectory \in {Judge(session, glue)}
             PROVE  /\ Accepted(trajectory) <=> Plain(turns)
                    /\ Plain(turns) =>
                         LET trace == trajectory.traces[1]
                         IN  /\ Len(trajectory.traces) = 1
                             /\ trace.prompt = session[1].prompt
                             /\ [ids |-> trace.response, mask |-> trace.mask,
                                 logprobs |-> trace.logprobs] = Reference(turns, glue)
                             /\ trace.messages = Append(session[Len(turns)].messages,
                                                        session[Len(turns)].reply)
  BY Zenon DEF TrainsWhatWasSampled
<1>1. session = Session(turns, glue) /\ trajectory = Judge(Session(turns, glue), glue)
  OBVIOUS
<1>2. Accepted(trajectory) => Plain(turns)
  BY <1>1, AcceptedIsPlain, Zenon
<1>3. Plain(turns) => LandsWhatWasSampled(turns, glue, session, trajectory)
  BY <1>1, PlainIsAccepted, Zenon
<1> QED BY <1>2, <1>3, Zenon DEF LandsWhatWasSampled

-----------------------------------------------------------------------------
(* The page cutoff: an episode of two turns, with what its agent was told. *)

TwoIs(turns) ==
  /\ DOMAIN turns = 1 .. 2 /\ Len(turns) = 2
  /\ \A k \in 1 .. 2 : turns[k].how = "next" /\ turns[k].reply = "whole"
                       /\ turns[k].capture = "whole"

(* The episode of two turns is plain.                                      *)
LEMMA TwoTurnsAre == TwoIs(TwoTurns) /\ AllNext(TwoTurns)
<1> DEFINE t == [how |-> "next", reply |-> "whole", capture |-> "whole"]
           n == Len(TwoTurns)
<1>1. t.how = "next" /\ t.reply = "whole" /\ t.capture = "whole"
  OBVIOUS
<1>2. TwoTurns = [k \in 1 .. 2 |-> t]
  BY DEF TwoTurns
<1> HIDE DEF t
<1>3. TwoTurns \in Seq({t}) /\ Len(TwoTurns) = 2 /\ DOMAIN TwoTurns = 1 .. 2
      /\ \A k \in 1 .. 2 : TwoTurns[k] = t
  BY <1>2
<1>4. TwoIs(TwoTurns)
  BY <1>1, <1>3 DEF TwoIs
<1>5. n \in 1 .. MaxTurns
  <2>1. n = 2
    BY <1>3
  <2> HIDE DEF n
  <2> QED BY <2>1, MaxTurnsAssumption
<1>6. \A k \in 1 .. n : /\ TurnLike(TwoTurns[k])
                        /\ TwoTurns[k].how = "next" /\ TwoTurns[k].reply # "cut"
                        /\ TwoTurns[k].capture = "whole" /\ 1 \in 1 .. n
  <2> SUFFICES ASSUME NEW k \in 1 .. n
               PROVE  /\ TurnLike(TwoTurns[k])
                      /\ TwoTurns[k].how = "next" /\ TwoTurns[k].reply # "cut"
                      /\ TwoTurns[k].capture = "whole" /\ 1 \in 1 .. n
    OBVIOUS
  <2>1. k \in 1 .. 2 /\ 1 \in 1 .. n
    BY <1>3
  <2>2. TwoTurns[k] = t
    BY <1>3, <2>1
  <2> QED BY <1>1, <2>1, <2>2 DEF TurnLike, Replies
<1>7. DOMAIN TwoTurns = 1 .. n
  BY <1>3
<1>8. TwoTurns[1].capture = "whole"
  BY <1>1, <1>3
<1>9. Sorted(TwoTurns)
  BY <1>5, <1>6, <1>7 DEF Sorted
<1> HIDE DEF n
<1>10. \A k \in 1 .. n : /\ TwoTurns[k].how = "next" /\ (TwoTurns[k].reply = "cut" => k = n)
                         /\ TwoTurns[k].capture = "whole" \/ TwoTurns[k].capture = "policy"
                         /\ TwoTurns[k].capture = TwoTurns[1].capture
  BY <1>6, <1>8, Zenon
<1> QED BY <1>4, <1>9, <1>10 DEF AllNext, n

(* What the agent was told after its first turn.                           *)
Found(transcript)  == [Said("tool", "found") EXCEPT !.tool = transcript.tool,
                                                    !.pages = transcript.pages]
Status(transcript) == [Said("tool", "status") EXCEPT !.tool = "case_status",
                                                     !.timestep = transcript.status]
SeenMessages(transcript) == Messages \cup {Found(transcript), Status(transcript)}
SeenMeta(checkout, transcript) ==
  [timestep |-> transcript.task, split |-> "train", source |-> "free", card |-> Missing,
   settings |-> "settings", masked |-> 0, workspace |-> ProbeWorkspace(checkout)]
SeenData(checkout, transcript)    == Data \cup {SeenMeta(checkout, transcript)}
SeenRecords(checkout, transcript) ==
  Completions(Vocabulary, Values, SeenMessages(transcript), SeenData(checkout, transcript))

(* Only the timestep and the workspace change.                             *)
LEMMA Retimed ==
  ASSUME NEW v, NEW t, NEW w, NEW meta,
         Meta = [timestep |-> 1, split |-> "train", source |-> "free", card |-> Missing,
                 settings |-> "settings", masked |-> 0, workspace |-> v],
         meta = [Meta EXCEPT !.timestep = t, !.workspace = w]
  PROVE  meta = [timestep |-> t, split |-> "train", source |-> "free", card |-> Missing,
                 settings |-> "settings", masked |-> 0, workspace |-> w]
<1>1. Meta \in [timestep : {1}, split : {"train"}, source : {"free"}, card : {Missing},
               settings : {"settings"}, masked : {0}, workspace : {v}]
  OBVIOUS
<1> QED BY <1>1

(* A completion with other messages and meta.                              *)
Amended(c, new, m, meta) ==
  /\ new.prompt = c.prompt /\ new.response = c.response /\ new.logprobs = c.logprobs
  /\ new.finish = c.finish /\ new.choices = c.choices /\ new.shape = c.shape /\ new.cut = c.cut
  /\ new.tools = c.tools /\ new.policy = c.policy /\ new.reply = c.reply
  /\ new.messages = m /\ new.meta = meta

(* What a record is when its messages and its meta's timestep and          *)
(* workspace change.                                                       *)
LEMMA AmendedOf ==
  ASSUME NEW c \in Records, c.meta = Meta, NEW m, NEW checkout, NEW transcript,
         NEW new, new = [c EXCEPT !.messages = m, !.meta.timestep = transcript.task,
                                  !.meta.workspace = ProbeWorkspace(checkout)],
         m \in Seq(SeenMessages(transcript))
  PROVE  /\ Amended(c, new, m, SeenMeta(checkout, transcript))
         /\ new \in SeenRecords(checkout, transcript)
<1> DEFINE t == transcript.task
           w == ProbeWorkspace(checkout)
           v == ProbeWorkspace(FirstCheckout)
           meta == [Meta EXCEPT !.timestep = t, !.workspace = w]
           G == Messages
           N == SeenMessages(transcript)
           E == SeenData(checkout, transcript)
           D == Data
           V == Values
           T == Vocabulary
           old == [timestep |-> 1, split |-> "train", source |-> "free", card |-> Missing,
                   settings |-> "settings", masked |-> 0, workspace |-> v]
<1>1. Meta = old
  BY Zenon DEF Meta, FirstCheckout
<1> HIDE DEF v, w, t
<1> HIDE DEF meta
<1>2. meta = [Meta EXCEPT !.timestep = t, !.workspace = w]
  BY Zenon DEF meta
<1> DEFINE told == [timestep |-> t, split |-> "train", source |-> "free", card |-> Missing,
                    settings |-> "settings", masked |-> 0, workspace |-> w]
<1>3. meta = SeenMeta(checkout, transcript)
  <2>1. meta = told
    BY <1>1, <1>2, Retimed, Zenon
  <2> QED BY <2>1, Zenon DEF SeenMeta, t, w
<1>4. G \subseteq N /\ D \subseteq E /\ SeenMeta(checkout, transcript) \in E
  BY Zenon DEF SeenMessages, SeenData
<1> HIDE DEF G, N, D, E, V, T
<1>5. c \in [prompt : Seq(T), response : Seq(T), logprobs : Seq(V) \cup {Missing}, finish : D,
             choices : Int, shape : D, cut : BOOLEAN, tools : D, policy : D,
             messages : Seq(G), reply : G, meta : D]
  BY DEF Records, Completions, T, V, D, G
<1>6. new = [c EXCEPT !.messages = m, !.meta = meta]
  <2> DEFINE old2 == c.meta
  <2>1. new = [c EXCEPT !.messages = m, !.meta = [c.meta EXCEPT !.timestep = t, !.workspace = w]]
    <3> HIDE DEF t, w
    <3>1. new = [c EXCEPT !.messages = m, !.meta.timestep = t, !.meta.workspace = w]
      BY Zenon DEF t, w
    <3> QED BY <1>5, <3>1
  <2> QED BY <1>2, <2>1
<1> HIDE DEF old
<1>7. Amended(c, new, m, meta)
  BY <1>5, <1>6 DEF Amended
<1>8. new \in [prompt : Seq(T), response : Seq(T), logprobs : Seq(V) \cup {Missing}, finish : E,
               choices : Int, shape : E, cut : BOOLEAN, tools : E, policy : E,
               messages : Seq(N), reply : N, meta : E]
  <2>1. m \in Seq(N) /\ meta \in E
    BY <1>3, <1>4 DEF N
  <2>2. c.finish \in E /\ c.shape \in E /\ c.tools \in E /\ c.policy \in E /\ c.reply \in N
    BY <1>4, <1>5
  <2> QED BY <1>5, <1>6, <2>1, <2>2
<1> QED BY <1>3, <1>7, <1>8 DEF SeenRecords, Completions, T, V, E, N

Heard(transcript) == OpeningMessages \o <<Reply(TwoTurns[1])>>
                       \o <<Found(transcript), Status(transcript)>>

SeenAs(checkout, transcript, base, seen) ==
  /\ seen \in Seq(SeenRecords(checkout, transcript)) /\ Len(seen) = 2
  /\ Amended(base[1], seen[1], OpeningMessages, SeenMeta(checkout, transcript))
  /\ Amended(base[2], seen[2], Heard(transcript), SeenMeta(checkout, transcript))

(* The records of the episode of two turns.                                *)
LEMMA BaseIs ==
  LET base == Session(TwoTurns, <<>>)
  IN  /\ base \in Seq(Records) /\ Len(base) = 2 /\ DOMAIN base = 1 .. 2
      /\ \A k \in 1 .. 2 : base[k] \in Records /\ PlainRecord(base[k], TwoTurns, <<>>, k)
                           /\ base[k].meta = Meta
      /\ base[1].messages = OpeningMessages /\ base[1].reply = Reply(TwoTurns[1])
<1> DEFINE base == Session(TwoTurns, <<>>)
<1>1. TwoIs(TwoTurns) /\ AllNext(TwoTurns)
  BY TwoTurnsAre
<1>2. Len(TwoTurns) = 2
  BY <1>1 DEF TwoIs
<1>3. base \in Seq(Records) /\ Len(base) = 2
  BY <1>1, <1>2, TalkOfPlain
<1>4. \A k \in 1 .. 2 : PlainRecord(base[k], TwoTurns, <<>>, k)
  BY <1>1, <1>2, PlainRecords
<1> HIDE DEF base
<1>5. DOMAIN base = 1 .. 2 /\ \A k \in 1 .. 2 : base[k] \in Records
  <2>1. CapturedAs(TwoTurns, <<>>, base)
    BY <1>1, SessionIs DEF AllNext, base
  <2> QED BY <1>2, <2>1 DEF CapturedAs
<1>6. NextAsked(TwoTurns, <<>>, Requested(TwoTurns, <<>>), 1)
  <2>1. 1 \in 1 .. Len(TwoTurns)
    BY <1>2
  <2> QED BY <1>1, <2>1, NextAskedAre
<1>7. 1 \in 1 .. 2
  OBVIOUS
<1>8. PlainRecord(base[1], TwoTurns, <<>>, 1)
  BY <1>4, <1>7
<1>9. base[1].messages = OpeningMessages /\ base[1].reply = Reply(TwoTurns[1])
  BY <1>6, <1>8, Zenon DEF PlainRecord, NextAsked
<1>10. \A k \in 1 .. 2 : base[k].meta = Meta
  BY <1>4, Zenon DEF PlainRecord
<1> QED BY <1>3, <1>4, <1>5, <1>9, <1>10 DEF base

(* What opens such an episode and what its agent replies are messages.     *)
LEMMA OpeningIs ==
  /\ OpeningMessages \in Seq(Messages) /\ Reply(TwoTurns[1]) \in Messages
  /\ \A transcript : /\ OpeningMessages \in Seq(SeenMessages(transcript))
                     /\ Reply(TwoTurns[1]) \in SeenMessages(transcript)
<1> DEFINE base == Session(TwoTurns, <<>>)
           m == OpeningMessages
           a == Reply(TwoTurns[1])
<1>1. base[1] \in Records /\ base[1].messages = m /\ base[1].reply = a
  BY BaseIs
<1>2. m \in Seq(Messages) /\ a \in Messages
  <2> HIDE DEF base, m, a
  <2> QED BY <1>1 DEF Records, Completions
<1> HIDE DEF m, a
<1>3. ASSUME NEW transcript
      PROVE  m \in Seq(SeenMessages(transcript)) /\ a \in SeenMessages(transcript)
  <2> DEFINE N == SeenMessages(transcript)
  <2>1. Messages \subseteq N
    BY Zenon DEF SeenMessages
  <2> HIDE DEF N
  <2> QED BY <1>2, <2>1 DEF N
<1> QED BY <1>2, <1>3 DEF m, a

(* What the agent had heard before its second turn.                        *)
LEMMA HeardIs ==
  ASSUME NEW transcript
  PROVE  /\ Heard(transcript) \in Seq(SeenMessages(transcript))
         /\ Append(OpeningMessages, Reply(TwoTurns[1]))
              \o <<Found(transcript), Status(transcript)>> = Heard(transcript)
<1> DEFINE N == SeenMessages(transcript)
           m == OpeningMessages
           a == Reply(TwoTurns[1])
           x == Found(transcript)
           y == Status(transcript)
           more == <<x, y>>
           u == m \o <<a>>
<1>1. m \in Seq(N) /\ a \in N
  BY OpeningIs
<1>2. x \in N /\ y \in N
  BY Zenon DEF SeenMessages
<1> HIDE DEF m, a, x, y, N
<1>3. more \in Seq(N)
  BY <1>2
<1>4. u \in Seq(N) /\ Append(m, a) = u
  <2>1. Append(m, a) = m \o <<a>>
    BY <1>1, AppendIs, Zenon
  <2>2. m \o <<a>> \in Seq(N)
    BY <1>1
  <2> QED BY <2>1, <2>2
<1> HIDE DEF u, more
<1>5. u \o more \in Seq(N)
  BY <1>3, <1>4
<1>6. u \o more = Heard(transcript)
  BY Zenon DEF Heard, u, more, m, a, x, y
<1>7. Append(m, a) \o more = u \o more
  BY <1>4, Zenon
<1> QED BY <1>5, <1>6, <1>7, Zenon DEF m, a, x, y, more, N

(* The session of such an episode.                                         *)
LEMMA SeenIs ==
  ASSUME NEW checkout, NEW transcript
  PROVE  SeenAs(checkout, transcript, Session(TwoTurns, <<>>), SeenSession(checkout, transcript))
<1> DEFINE base == Session(TwoTurns, <<>>)
           seen == SeenSession(checkout, transcript)
           N == SeenMessages(transcript)
           C == SeenRecords(checkout, transcript)
           h == Append(base[1].messages, base[1].reply) \o <<Found(transcript), Status(transcript)>>
           w == ProbeWorkspace(checkout)
           amended(k) == [base[k] EXCEPT !.messages = IF k = 1 THEN base[k].messages ELSE h,
                                         !.meta.timestep = transcript.task, !.meta.workspace = w]
<1>1. /\ base[1] \in Records /\ base[2] \in Records
      /\ base[1].meta = Meta /\ base[2].meta = Meta
      /\ base[1].messages = OpeningMessages /\ base[1].reply = Reply(TwoTurns[1])
  BY BaseIs
<1>2. seen = [k \in 1 .. 2 |-> amended(k)]
  BY DEF SeenSession, Found, Status
<1>3. h = Heard(transcript)
  BY <1>1, HeardIs, Zenon
<1> HIDE DEF h, base, w
<1>4. seen[1] = [base[1] EXCEPT !.messages = OpeningMessages,
                                !.meta.timestep = transcript.task, !.meta.workspace = w]
  <2>1. seen[1] = amended(1)
    BY <1>2
  <2> QED BY <1>1, <2>1
<1>5. seen[2] = [base[2] EXCEPT !.messages = Heard(transcript),
                                !.meta.timestep = transcript.task, !.meta.workspace = w]
  <2>1. seen[2] = amended(2)
    BY <1>2
  <2> QED BY <1>3, <2>1
<1> HIDE DEF seen
<1>6. Amended(base[1], seen[1], OpeningMessages, SeenMeta(checkout, transcript)) /\ seen[1] \in C
  BY <1>1, <1>4, OpeningIs, AmendedOf, Zenon DEF w
<1>7. Amended(base[2], seen[2], Heard(transcript), SeenMeta(checkout, transcript)) /\ seen[2] \in C
  BY <1>1, <1>5, HeardIs, AmendedOf, Zenon DEF w
<1> HIDE DEF C
<1>8. seen \in Seq(C) /\ Len(seen) = 2
  BY <1>2, <1>6, <1>7
<1> QED BY <1>6, <1>7, <1>8 DEF SeenAs, base, seen, C

(* Such an episode is undisturbed, and its messages follow on each other.  *)
LEMMA SeenUndisturbed ==
  ASSUME NEW checkout, NEW transcript
  PROVE  /\ Undisturbed(TwoTurns, <<>>, SeenSession(checkout, transcript))
         /\ Talk(SeenMessages(transcript), SeenSession(checkout, transcript))
<1> DEFINE turns == TwoTurns
           glue == <<>>
           base == Session(turns, glue)
           seen == SeenSession(checkout, transcript)
           N == SeenMessages(transcript)
           more == <<Found(transcript), Status(transcript)>>
<1>1. SeenAs(checkout, transcript, base, seen)
  BY SeenIs
<1>2. TwoIs(turns) /\ AllNext(turns) /\ Len(turns) = 2
  BY TwoTurnsAre DEF TwoIs
<1>3. glue \in Glues
  BY DEF Glues
<1>4. Undisturbed(turns, glue, base)
  BY <1>2, <1>3, PlainUndisturbed
<1>5. base[1].reply = Reply(turns[1])
  BY BaseIs
<1> HIDE DEF base, seen, turns, glue, N, more
<1>6. Len(seen) = 2
  BY <1>1 DEF SeenAs
<1> DEFINE n == Len(turns)
<1>n. n = 2
  BY <1>2
<1> HIDE DEF n
<1>7. ASSUME NEW k \in 1 .. n
      PROVE  /\ seen[k].prompt = base[k].prompt /\ seen[k].response = base[k].response
             /\ seen[k].logprobs = base[k].logprobs /\ seen[k].finish = base[k].finish
             /\ seen[k].choices = base[k].choices /\ seen[k].shape = base[k].shape
             /\ seen[k].cut = base[k].cut /\ seen[k].tools = base[k].tools
             /\ seen[k].policy = base[k].policy
  <2>1. k = 1 \/ k = 2
    BY <1>n
  <2> QED BY <1>1, <2>1, Zenon DEF SeenAs, Amended
<1>8. Undisturbed(turns, glue, seen)
  <2>1. PICK before \in [1 .. n -> Seq(Vocabulary)] :
          /\ before[1] = <<"system", "task">>
          /\ \A k \in 1 .. n : base[k].prompt = before[k] \o Header
          /\ \A k \in 2 .. n :
               before[k] = before[k - 1] \o Past(glue) \o Rendered[turns[k - 1].reply]
                                         \o <<"answer">>
    BY <1>4, Zenon DEF Undisturbed, n
  <2>2. \A k \in 1 .. n : seen[k].prompt = before[k] \o Header
    BY <1>7, <2>1, Zenon
  <2>3. \A k \in 1 .. n :
          /\ turns[k].reply = "cut" => k = n
          /\ base[k].response = Sampled[turns[k].reply]
          /\ base[k].logprobs = Logprobs(k, turns[k].reply)
          /\ base[k].finish = Ending[turns[k].reply]
          /\ base[k].choices = 1 /\ base[k].shape = "agent" /\ base[k].cut = FALSE
          /\ base[k].tools = {"search"} /\ base[k].policy = base[1].policy
    BY <1>4, Zenon DEF Undisturbed, n
  <2>4. 1 \in 1 .. n
    BY <1>n
  <2>5. ASSUME NEW k \in 1 .. n
        PROVE  /\ turns[k].reply = "cut" => k = n
               /\ seen[k].response = Sampled[turns[k].reply]
               /\ seen[k].logprobs = Logprobs(k, turns[k].reply)
               /\ seen[k].finish = Ending[turns[k].reply]
               /\ seen[k].choices = 1 /\ seen[k].shape = "agent" /\ seen[k].cut = FALSE
               /\ seen[k].tools = {"search"} /\ seen[k].policy = seen[1].policy
    <3>1. seen[k].policy = base[k].policy /\ seen[1].policy = base[1].policy
      BY <1>7, <2>4
    <3> QED BY <1>7, <2>3, <3>1, Zenon
  <2>6. Sorted(turns) /\ glue \in Glues
    BY <1>2, <1>3, Zenon DEF AllNext
  <2>7. Len(seen) = n
    BY <1>6, <1>n
  <2> QED BY <2>1, <2>2, <2>5, <2>6, <2>7, Zenon DEF Undisturbed, n
<1>9. Talk(N, seen)
  <2>1. more \in Seq(N)
    <3>1. Found(transcript) \in N /\ Status(transcript) \in N
      BY Zenon DEF N, SeenMessages
    <3> QED BY <3>1 DEF more
  <2>2. seen[1].messages = OpeningMessages /\ seen[2].messages = Heard(transcript)
        /\ seen[1].reply = Reply(TwoTurns[1])
    BY <1>1, <1>5, Zenon DEF SeenAs, Amended, turns
  <2>3. seen[2].messages = seen[1].messages \o <<seen[1].reply>> \o more
    BY <2>2, Zenon DEF Heard, more
  <2>4. \A k \in 2 .. Len(seen) : k = 2 /\ k - 1 = 1
    BY <1>6
  <2> QED BY <2>1, <2>3, <2>4, Zenon DEF Talk
<1> QED BY <1>8, <1>9 DEF turns, glue, seen, N

-----------------------------------------------------------------------------
(* The messages of such an episode, and what they name and state.          *)
ThreeAndTwo(a, b, c, d, e) == <<a, b, c>> \o <<d, e>> = <<a, b, c, d, e>>
FiveAndOne(a, b, c, d, e, f) == <<a, b, c, d, e>> \o <<f>> = <<a, b, c, d, e, f>>

(* Three and two.                                                          *)
LEMMA ThreeTwoIs ==
  ASSUME NEW T, NEW a \in T, NEW b \in T, NEW c \in T, NEW d \in T, NEW e \in T
  PROVE  ThreeAndTwo(a, b, c, d, e)
<1>1. <<a, b, c>> \o <<d, e>> = <<a, b, c, d, e>>
  BY ThreeTwo, SMTT(30)
<1> QED BY <1>1, Zenon DEF ThreeAndTwo

(* Five and one.                                                           *)
LEMMA FiveOne ==
  ASSUME NEW T, NEW a \in T, NEW b \in T, NEW c \in T, NEW d \in T, NEW e \in T, NEW f \in T
  PROVE  FiveAndOne(a, b, c, d, e, f)
<1> DEFINE s   == <<a, b, c, d, e>>
           r   == <<f>>
           all == <<a, b, c, d, e, f>>
<1>1. s \in Seq(T) /\ r \in Seq(T) /\ all \in Seq(T)
  OBVIOUS
<1>2. Len(s) = 5 /\ Len(r) = 1 /\ Len(all) = 6
  OBVIOUS
<1>3. (\A i \in 1 .. 5 : all[i] = s[i]) /\ (\A i \in 1 .. 1 : all[5 + i] = r[i])
  OBVIOUS
<1> HIDE DEF s, r, all
<1>4. /\ Len(all) = Len(s) + Len(r) /\ \A i \in 1 .. Len(s) : all[i] = s[i]
      /\ \A i \in 1 .. Len(r) : all[Len(s) + i] = r[i]
  BY <1>2, <1>3
<1>5. s \o r = all
  BY <1>1, <1>4, JoinIs
<1> QED BY <1>5, Zenon DEF s, r, all, FiveAndOne

(* The six messages of such an episode.                                    *)
Six(m, m1, m2, a, x, y, b) ==
  /\ DOMAIN m = 1 .. 6
  /\ m[1] = m1 /\ m[2] = m2 /\ m[3] = a /\ m[4] = x /\ m[5] = y /\ m[6] = b

(* The six messages stand in their order.                                  *)
LEMMA SixAre ==
  ASSUME NEW N, NEW m1 \in N, NEW m2 \in N, NEW a \in N, NEW x \in N, NEW y \in N, NEW b \in N,
         NEW m, m = <<m1, m2>> \o <<a>> \o <<x, y>> \o <<b>>
  PROVE  Six(m, m1, m2, a, x, y, b)
<1>1. <<m1, m2>> \o <<a>> = <<m1, m2, a>>
  BY TwoOne, Zenon
<1>2. <<m1, m2, a>> \o <<x, y>> = <<m1, m2, a, x, y>>
  <2>1. ThreeAndTwo(m1, m2, a, x, y)
    BY ThreeTwoIs, Zenon
  <2> QED BY <2>1, Zenon DEF ThreeAndTwo
<1>3. <<m1, m2, a, x, y>> \o <<b>> = <<m1, m2, a, x, y, b>>
  <2>1. FiveAndOne(m1, m2, a, x, y, b)
    BY FiveOne, Zenon
  <2> QED BY <2>1, Zenon DEF FiveAndOne
<1>4. m = <<m1, m2, a, x, y, b>>
  BY <1>1, <1>2, <1>3, Zenon
<1> DEFINE all == <<m1, m2, a, x, y, b>>
<1>5. Six(all, m1, m2, a, x, y, b)
  BY DEF Six
<1> QED BY <1>4, <1>5, Zenon

(* The trace of such an episode, and what its rules read.                  *)
SeenTraceAs(checkout, transcript, trace) ==
  /\ Six(trace.messages, Said("system", "system"), Said("user", "task"), Reply(TwoTurns[1]),
         Found(transcript), Status(transcript), Reply(TwoTurns[2]))
  /\ trace.opening = OpeningMessages /\ trace.meta = SeenMeta(checkout, transcript)
  /\ trace.messages \in Seq(SeenMessages(transcript))

(* The messages, the opening and the meta of its trace.                    *)
LEMMA SeenTraceIs ==
  ASSUME NEW checkout, NEW transcript, NEW trace,
         Steadily(TwoTurns, <<>>, SeenSession(checkout, transcript), trace)
  PROVE  SeenTraceAs(checkout, transcript, trace)
<1> DEFINE seen == SeenSession(checkout, transcript)
           base == Session(TwoTurns, <<>>)
           N == SeenMessages(transcript)
           m1 == Said("system", "system")
           m2 == Said("user", "task")
           a == Reply(TwoTurns[1])
           b == Reply(TwoTurns[2])
           x == Found(transcript)
           y == Status(transcript)
<1>1. SeenAs(checkout, transcript, base, seen)
  BY SeenIs
<1>2. Len(TwoTurns) = 2
  BY TwoTurnsAre DEF TwoIs
<1>3. base[2].reply = b
  <2>1. 2 \in 1 .. 2
    OBVIOUS
  <2>2. PlainRecord(base[2], TwoTurns, <<>>, 2)
    BY <2>1, BaseIs
  <2> QED BY <2>2, Zenon DEF PlainRecord
<1>4. /\ seen[1].messages = OpeningMessages /\ seen[1].meta = SeenMeta(checkout, transcript)
      /\ seen[2].messages = Heard(transcript) /\ seen[2].reply = b
  BY <1>1, <1>3, Zenon DEF SeenAs, Amended
<1>5. /\ trace.opening = seen[1].messages /\ trace.meta = seen[1].meta
      /\ trace.messages = seen[2].messages \o <<seen[2].reply>>
  BY <1>2, Zenon DEF Steadily
<1>6. m1 \in N /\ m2 \in N /\ x \in N /\ y \in N
  BY Zenon DEF SeenMessages, Messages
<1>7. a \in N
  BY OpeningIs
<1>8. b \in N
  <2>1. TwoTurns[2] = TwoTurns[1]
    BY DEF TwoTurns
  <2> QED BY <1>7, <2>1, Zenon
<1>9. trace.messages = <<m1, m2>> \o <<a>> \o <<x, y>> \o <<b>>
  BY <1>4, <1>5, Zenon DEF Heard, OpeningMessages
<1> HIDE DEF m1, m2, a, b, x, y, N, seen, base
<1>10. Six(trace.messages, m1, m2, a, x, y, b)
  BY <1>6, <1>7, <1>8, <1>9, SixAre, Zenon
<1>11. trace.messages \in Seq(N)
  <2> DEFINE h == Heard(transcript)
  <2>1. h \in Seq(N) /\ b \in N
    BY <1>8, HeardIs DEF N
  <2>2. trace.messages = h \o <<b>>
    BY <1>4, <1>5
  <2> HIDE DEF h
  <2>3. h \o <<b>> \in Seq(N)
    BY <2>1
  <2> QED BY <2>2, <2>3
<1> QED BY <1>4, <1>5, <1>10, <1>11, Zenon DEF SeenTraceAs, m1, m2, a, b, x, y, N

(* What each of the six messages says.                                     *)
Says(m, role, tool, pages, timestep) ==
  m.role = role /\ m.tool = tool /\ m.pages = pages /\ m.timestep = timestep

(* What the six messages say.                                              *)
LEMMA SixSay ==
  ASSUME NEW transcript
  PROVE  /\ Says(Said("system", "system"), "system", Missing, {}, Missing)
         /\ Says(Said("user", "task"), "user", Missing, {}, Missing)
         /\ \A turn : Says(Reply(turn), "assistant", Missing, {}, Missing)
         /\ Says(Found(transcript), "tool", transcript.tool, transcript.pages, Missing)
         /\ Says(Status(transcript), "tool", "case_status", {}, transcript.status)
<1>1. \A r, t : Says(Said(r, t), r, Missing, {}, Missing)
  BY DEF Said, Says
<1>2. \A turn : Says(Reply(turn), "assistant", Missing, {}, Missing)
  BY DEF Said, Says, Reply
<1>3. Says(Found(transcript), "tool", transcript.tool, transcript.pages, Missing)
  BY DEF Said, Says, Found
<1>4. Says(Status(transcript), "tool", "case_status", {}, transcript.status)
  BY DEF Said, Says, Status
<1> QED BY <1>1, <1>2, <1>3, <1>4

(* The timestep stated, by the task or else by case_status; and the pages  *)
(* that the searches of the case named.                                    *)
Stated(transcript) == IF transcript.task # Missing THEN transcript.task ELSE transcript.status
Named(transcript)  == IF transcript.tool \in CutoffScopedTools THEN transcript.pages ELSE {}

(* The timestep, the pages and the calls that the rules read off such a    *)
(* trace.                                                                  *)
LEMMA SeenReads ==
  ASSUME NEW checkout, NEW transcript, NEW trace, SeenTraceAs(checkout, transcript, trace),
         transcript.tool \in CutoffScopedTools \cup {"other"}
  PROVE  /\ EpisodeTimestep(trace) = Stated(transcript)
         /\ CaseSearchPages(trace) = Named(transcript)
         /\ CheckToollessRoster(trace)
<1> DEFINE m == trace.messages
<1>1. /\ DOMAIN m = 1 .. 6
      /\ m[1] = Said("system", "system") /\ m[2] = Said("user", "task")
      /\ m[3] = Reply(TwoTurns[1]) /\ m[4] = Found(transcript) /\ m[5] = Status(transcript)
      /\ m[6] = Reply(TwoTurns[2])
  BY Zenon DEF SeenTraceAs, Six
<1>2. /\ Says(m[1], "system", Missing, {}, Missing) /\ Says(m[2], "user", Missing, {}, Missing)
      /\ Says(m[3], "assistant", Missing, {}, Missing)
      /\ Says(m[4], "tool", transcript.tool, transcript.pages, Missing)
      /\ Says(m[5], "tool", "case_status", {}, transcript.status)
      /\ Says(m[6], "assistant", Missing, {}, Missing)
  BY <1>1, SixSay, Zenon
<1>3. m[3].calls = TRUE
  <2>1. TwoTurns[1].reply = "whole"
    <3>1. 1 \in 1 .. 2
      OBVIOUS
    <3> QED BY <3>1, TwoTurnsAre DEF TwoIs
  <2>2. Reply(TwoTurns[1]).calls = (TwoTurns[1].reply # "cut")
    BY DEF Reply, Said
  <2> QED BY <1>1, <2>1, <2>2
<1>4. transcript.tool # "case_status"
  BY DEF CutoffScopedTools
<1>5. Len(m) = 6
  <2>1. m \in Seq(SeenMessages(transcript))
    BY DEF SeenTraceAs
  <2> HIDE DEF m
  <2> QED BY <1>1, <2>1
<1>6. trace.meta.timestep = transcript.task
  BY DEF SeenTraceAs, SeenMeta
<1> HIDE DEF m
<1>7. \A i \in 1 .. 6 : StatesTimestep(m[i]) <=> i = 5 /\ transcript.status # Missing
  <2> SUFFICES ASSUME NEW i \in 1 .. 6
               PROVE  StatesTimestep(m[i]) <=> i = 5 /\ transcript.status # Missing
    OBVIOUS
  <2>1. i = 1 \/ i = 2 \/ i = 3 \/ i = 4 \/ i = 5 \/ i = 6
    OBVIOUS
  <2> QED BY <1>2, <1>4, <2>1 DEF StatesTimestep, Says
<1>8. EpisodeTimestep(trace) = Stated(transcript)
  <2>1. CASE transcript.task # Missing
    BY <1>6, <2>1 DEF EpisodeTimestep, Stated
  <2>2. CASE transcript.task = Missing /\ transcript.status = Missing
    <3>1. ~ \E i \in DOMAIN m : StatesTimestep(m[i])
      BY <1>1, <1>7, <2>2
    <3> QED BY <1>6, <2>2, <3>1 DEF EpisodeTimestep, Stated, m
  <2>3. CASE transcript.task = Missing /\ transcript.status # Missing
    <3>1. \E i \in DOMAIN m : StatesTimestep(m[i])
      BY <1>1, <1>7, <2>3
    <3>2. SelectInSeq(m, StatesTimestep) = 5
      <4>1. {i \in 1 .. Len(m) : StatesTimestep(m[i])} = {5}
        BY <1>5, <1>7, <2>3
      <4>2. Min({5}) = 5
        BY DEF Min
      <4> QED BY <4>1, <4>2, Zenon DEF SelectInSeq
    <3>3. m[5].timestep = transcript.status
      BY <1>2 DEF Says
    <3> QED BY <1>6, <2>3, <3>1, <3>2, <3>3 DEF EpisodeTimestep, Stated, m
  <2> QED BY <2>1, <2>2, <2>3
<1>9. CaseSearchPages(trace) = Named(transcript)
  <2> DEFINE J == {j \in DOMAIN m : m[j].role = "tool" /\ m[j].tool \in CutoffScopedTools}
  <2>1. J = IF transcript.tool \in CutoffScopedTools THEN {4} ELSE {}
    <3>1. \A j \in 1 .. 6 : (m[j].role = "tool" /\ m[j].tool \in CutoffScopedTools)
                              <=> j = 4 /\ transcript.tool \in CutoffScopedTools
      <4> SUFFICES ASSUME NEW j \in 1 .. 6
                   PROVE  (m[j].role = "tool" /\ m[j].tool \in CutoffScopedTools)
                              <=> j = 4 /\ transcript.tool \in CutoffScopedTools
        OBVIOUS
      <4>1. j = 1 \/ j = 2 \/ j = 3 \/ j = 4 \/ j = 5 \/ j = 6
        OBVIOUS
      <4>2. "case_status" \notin CutoffScopedTools
        BY DEF CutoffScopedTools
      <4> QED BY <1>2, <4>1, <4>2 DEF Says
    <3> QED BY <1>1, <3>1
  <2>2. CaseSearchPages(trace) = UNION {m[i].pages : i \in J}
    BY DEF CaseSearchPages, m
  <2> HIDE DEF J
  <2>3. m[4].pages = transcript.pages
    BY <1>2 DEF Says
  <2> QED BY <2>1, <2>2, <2>3 DEF Named
<1>10. CheckToollessRoster(trace)
  <2>1. 3 \in DOMAIN m
    BY <1>1
  <2> QED BY <1>3, <2>1 DEF CheckToollessRoster, m
<1> QED BY <1>8, <1>9, <1>10

(* What the cutoff asks of an episode's checkout and of what it was told.  *)
KeptToTimestep(checkout, transcript, T) ==
  /\ T \in Nat \ {0} /\ checkout.pages = 1 .. T
  /\ checkout.branch = T /\ checkout.shallow = TRUE /\ checkout.remotes = 0
  /\ Named(transcript) \subseteq 1 .. T

(* The verdict on such an episode, for every checkout and everything its   *)
(* agent can have been told.                                               *)
LEMMA CutoffOfSeen ==
  ASSUME NEW checkout, NEW transcript, Probed(checkout),
         transcript.tool \in CutoffScopedTools \cup {"other"},
         transcript.pages \in SUBSET (Nat \ {0})
  PROVE  Accepted(Judge(SeenSession(checkout, transcript), <<>>)) <=>
           /\ Stated(transcript) # Missing
           /\ KeptToTimestep(checkout, transcript, Stated(transcript))
<1> DEFINE seen == SeenSession(checkout, transcript)
           trace == FinalizeChain(Stitched(seen, <<>>), Conf(<<>>))
           T == Stated(transcript)
           base == Session(TwoTurns, <<>>)
<1>1. Undisturbed(TwoTurns, <<>>, seen) /\ Talk(SeenMessages(transcript), seen)
  BY SeenUndisturbed
<1>2. seen \in Seq(Completions(Vocabulary, Values, SeenMessages(transcript),
                               SeenData(checkout, transcript)))
  <2>1. SeenAs(checkout, transcript, base, seen)
    BY SeenIs
  <2> QED BY <2>1, Zenon DEF SeenAs, SeenRecords
<1>3. Judge(seen, <<>>) = Trajectory(seen, Conf(<<>>))
  BY Zenon DEF Judge, Conf
<1> HIDE DEF seen, trace, T, base
<1>4. JudgedBy(TwoTurns, seen, <<>>, trace)
  BY <1>1, <1>2, UndisturbedIsJudged, Zenon DEF trace
<1>5. /\ Steadily(TwoTurns, <<>>, seen, trace)
      /\ Accepted(Judge(seen, <<>>)) <=> SurroundingsFit(trace)
  BY <1>3, <1>4, Zenon DEF JudgedBy
<1>6. SeenTraceAs(checkout, transcript, trace)
  BY <1>5, SeenTraceIs DEF seen
<1>7. /\ EpisodeTimestep(trace) = T /\ CaseSearchPages(trace) = Named(transcript)
      /\ CheckToollessRoster(trace)
  BY <1>6, SeenReads DEF T
<1>8. trace.meta = SeenMeta(checkout, transcript) /\ trace.opening = OpeningMessages
  BY <1>6 DEF SeenTraceAs
<1>9. /\ trace.meta.split = "train" /\ trace.meta.masked = 0 /\ trace.meta.source = "free"
      /\ trace.meta.settings = "settings" /\ trace.meta.workspace = ProbeWorkspace(checkout)
  BY <1>8 DEF SeenMeta
<1>10. SurroundingsFit(trace) <=> CheckPageCutoff(trace) /\ CheckWorkspace(trace)
  BY <1>7, <1>8, <1>9, MetaFits
<1>11. Named(transcript) \in SUBSET (Nat \ {0})
  BY DEF Named
<1>12. (CheckPageCutoff(trace) /\ CheckWorkspace(trace)) <=>
         T # Missing /\ SawOnly(trace, checkout, T)
  <2>1. /\ checkout.pages \in SUBSET Int /\ IsFiniteSet(checkout.pages)
        /\ checkout.shallow \in BOOLEAN /\ ProbeWorkspace(checkout) # Missing
    BY DEF Probed
  <2>2. CaseSearchPages(trace) \in SUBSET (Nat \ {0})
    BY <1>7, <1>11
  <2> QED BY <1>7, <1>9, <2>1, <2>2, CutoffIsExact
<1>13. SawOnly(trace, checkout, T) <=> KeptToTimestep(checkout, transcript, T)
  BY <1>7 DEF SawOnly, KeptToTimestep
<1> QED BY <1>5, <1>10, <1>12, <1>13 DEF seen, T

-----------------------------------------------------------------------------
(* Every checkout and transcript there can be.                             *)

(* Every checkout of these pages is one the harness can probe.             *)
LEMMA CheckoutsProbed ==
  ASSUME NEW branch \in PagesThere, NEW shallow \in BOOLEAN, NEW remotes \in 0 .. 1,
         NEW pages \in SUBSET PagesThere, NEW checkout,
         checkout = [branch |-> branch, shallow |-> shallow, remotes |-> remotes,
                     pages |-> pages]
  PROVE  Probed(checkout)
<1>1. ProbeWorkspace(checkout) # Missing
  BY ProbeAssumption, Zenon
<1>2. checkout.pages = pages /\ checkout.shallow = shallow
  OBVIOUS
<1>3. pages \in SUBSET Int /\ IsFiniteSet(pages)
  <2>1. 3 \in Nat \ {0}
    OBVIOUS
  <2>2. IsFiniteSet(1 .. 3)
    BY <2>1, OneTo, Zenon
  <2>3. pages \subseteq 1 .. 3
    BY DEF PagesThere
  <2>4. IsFiniteSet(pages)
    BY <2>2, <2>3, FS_Subset, Zenon
  <2>5. pages \in SUBSET Int
    BY <2>3
  <2> QED BY <2>4, <2>5
<1> QED BY <1>1, <1>2, <1>3 DEF Probed

(* The verdict, in the words of SawItsTimestep.                            *)
LEMMA CheckoutHolds ==
  ASSUME NEW checkout \in Checkouts, NEW transcript \in Transcripts,
         NEW T, T = IF transcript.task # Missing THEN transcript.task ELSE transcript.status
  PROVE  Accepted(Judge(SeenSession(checkout, transcript), <<>>)) <=>
           /\ T # Missing
           /\ checkout.pages = 1 .. T
           /\ checkout.branch = T /\ checkout.shallow /\ checkout.remotes = 0
           /\ transcript.tool \in CutoffScopedTools => transcript.pages \subseteq 1 .. T
<1>1. /\ checkout.branch \in 2 .. 3 /\ checkout.shallow \in BOOLEAN
      /\ checkout.remotes \in 0 .. 1 /\ checkout.pages \in SUBSET PagesThere
      /\ checkout = [branch |-> checkout.branch, shallow |-> checkout.shallow,
                     remotes |-> checkout.remotes, pages |-> checkout.pages]
  BY DEF Checkouts
<1>2. /\ transcript.task \in {Missing, 2, 3} /\ transcript.status \in {Missing, 2, 3}
      /\ transcript.pages \in SUBSET PagesThere
      /\ transcript.tool \in CutoffScopedTools \cup {"other"}
  BY DEF Transcripts
<1>3. Probed(checkout)
  <2>1. checkout.branch \in PagesThere
    BY <1>1 DEF PagesThere
  <2> QED BY <1>1, <2>1, CheckoutsProbed, Zenon
<1>4. transcript.pages \in SUBSET (Nat \ {0})
  BY <1>2 DEF PagesThere
<1>5. T = Stated(transcript)
  BY Zenon DEF Stated
<1>6. Accepted(Judge(SeenSession(checkout, transcript), <<>>)) <=>
        T # Missing /\ KeptToTimestep(checkout, transcript, T)
  BY <1>2, <1>3, <1>4, <1>5, CutoffOfSeen
<1>7. T # Missing => T \in Nat \ {0}
  BY <1>2
<1>8. Named(transcript) \subseteq 1 .. T <=>
        (transcript.tool \in CutoffScopedTools => transcript.pages \subseteq 1 .. T)
  BY DEF Named
<1>9. checkout.shallow <=> checkout.shallow = TRUE
  BY <1>1
<1> QED BY <1>6, <1>7, <1>8, <1>9, Zenon DEF KeptToTimestep

-----------------------------------------------------------------------------
(* The estate's own episodes.                                              *)

(* A service with one case of three pages is as the tools expect it.       *)
LEMMA ServingValid ==
  ASSUME NEW pages \in [PagesThere -> Texts(1)]
  PROVE  /\ Serving(pages).maxK \in Int /\ DOMAIN Serving(pages).cases = {"case"}
         /\ Len(pages) = 3 /\ Serving(pages).cases["case"].pages = pages
         /\ Serving(pages).status = "ready" /\ Serving(pages).secret = "secret"
         /\ Serving(pages).leeway = 1
         /\ \A case \in DOMAIN Serving(pages).cases : ValidCase(Serving(pages).cases[case])
<1> DEFINE chunking == [max |-> 1, overlap |-> 0]
           one == [pages |-> pages, chunking |-> chunking]
           cases == [case |-> one]
<1>1. \A text \in Texts(1) : text \in Seq(Nat)
  <2> SUFFICES ASSUME NEW text \in Texts(1) PROVE text \in Seq(Nat)
    OBVIOUS
  <2>1. PICK m \in 1 .. 1 : text \in [1 .. m -> 0 .. 2]
    BY DEF Texts
  <2>2. text \in [1 .. m -> Nat] /\ m \in Nat
    BY <2>1
  <2> QED BY <2>2, SeqDef
<1>2. pages \in [1 .. 3 -> Seq(Nat)]
  <2>1. DOMAIN pages = 1 .. 3 /\ \A i \in 1 .. 3 : pages[i] \in Seq(Nat)
    BY <1>1 DEF PagesThere
  <2>2. pages = [i \in PagesThere |-> pages[i]]
    OBVIOUS
  <2> QED BY <2>1, <2>2 DEF PagesThere
<1>3. pages \in Seq(Seq(Nat)) /\ Len(pages) = 3
  <2> DEFINE S == Seq(Nat)
  <2>1. pages \in [1 .. 3 -> S]
    BY <1>2
  <2> HIDE DEF S
  <2>2. pages \in Seq(S)
    <3> DEFINE n == 3
    <3>1. n \in Nat /\ pages \in [1 .. n -> S]
      BY <2>1
    <3> HIDE DEF n
    <3> QED BY <3>1, SeqDef
  <2>3. DOMAIN pages = 1 .. Len(pages) /\ Len(pages) \in Nat /\ DOMAIN pages = 1 .. 3
    BY <2>1, <2>2, LenProperties
  <2>4. Len(pages) = 3
    <3> DEFINE n == Len(pages)
    <3>1. n \in Nat /\ 1 .. n = 1 .. 3
      BY <2>3, Zenon
    <3> HIDE DEF n
    <3>2. 3 \in 1 .. n
      BY <3>1
    <3>3. n > 3 => n \in 1 .. n /\ n \notin 1 .. 3
      BY <3>1
    <3>4. n = 3
      BY <3>1, <3>2, <3>3
    <3> QED BY <3>4 DEF n
  <2> QED BY <2>2, <2>4 DEF S
<1>4. Chunked(chunking)
  BY DEF Chunked
<1> HIDE DEF chunking
<1>5. one.pages = pages /\ one.chunking = chunking
  OBVIOUS
<1>6. ValidCase(one)
  BY <1>3, <1>4, <1>5, Zenon DEF ValidCase
<1> HIDE DEF one
<1>7. DOMAIN cases = {"case"} /\ cases["case"] = one
  OBVIOUS
<1> HIDE DEF cases
<1>8. Serving(pages) = [status |-> "ready", secret |-> "secret", leeway |-> 1, maxK |-> 2,
                        cases |-> cases]
  BY Zenon DEF Serving, cases, one, chunking
<1>9. /\ Serving(pages).maxK = 2 /\ Serving(pages).cases = cases
      /\ Serving(pages).status = "ready" /\ Serving(pages).secret = "secret"
      /\ Serving(pages).leeway = 1
  BY <1>8
<1> QED BY <1>3, <1>5, <1>6, <1>7, <1>9

(* The harness's token is admitted as long as it and the leeway last.      *)
LEMMA AdmittedWhile ==
  ASSUME NEW pages \in [PagesThere -> Texts(1)], NEW T \in PagesThere, NEW asked \in 0 .. 3
  PROVE  /\ Admission(Serving(pages), MintEpisodeToken(Settings(T), 0), asked) = 200 <=> asked < 3
         /\ MintEpisodeToken(Settings(T), 0).claims.timestep = T
<1> DEFINE service == Serving(pages)
           token == MintEpisodeToken(Settings(T), 0)
           claims == [case |-> "case", timestep |-> T, episode |-> "session"]
<1>1. token = [secret |-> "secret", exp |-> 0 + 2, claims |-> claims]
  <2>1. /\ Settings(T).case = "case" /\ Settings(T).timestep = T /\ Settings(T).ttl = 2
        /\ Settings(T).session = "session" /\ Settings(T).secret = "secret"
    BY DEF Settings
  <2> QED BY <2>1, Zenon DEF MintEpisodeToken
<1>2. claims.case = "case" /\ claims.timestep = T /\ DOMAIN claims = {"case", "timestep", "episode"}
  OBVIOUS
<1> HIDE DEF claims
<1>3. token.secret = "secret" /\ token.exp = 2 /\ token.claims = claims
  BY <1>1
<1>4. /\ service.status = "ready" /\ service.secret = "secret" /\ service.leeway = 1
      /\ DOMAIN service.cases = {"case"} /\ service.cases["case"].pages = pages
      /\ Len(pages) = 3
  BY ServingValid
<1> HIDE DEF service, token
<1>5. Verify(service, token, asked) <=> asked < 3
  BY <1>2, <1>3, <1>4 DEF Verify
<1>6. ValidateScope(service, token.claims)
  <2>1. T \in 1 .. Len(pages)
    BY <1>4 DEF PagesThere
  <2> QED BY <1>2, <1>3, <1>4, <2>1 DEF ValidateScope
<1>7. Admission(service, token, asked) = 200 <=> asked < 3
  BY <1>4, <1>5, <1>6 DEF Admission
<1> QED BY <1>2, <1>3, <1>7 DEF service, token

(* What the agent is told is of its timestep.                              *)
LEMMA ToldIs ==
  ASSUME NEW pages \in [PagesThere -> Texts(1)], NEW T \in PagesThere, NEW k \in Int,
         NEW asked \in 0 .. 3, NEW task,
         NEW transcript,
         transcript = Told(Serving(pages), MintEpisodeToken(Settings(T), 0), k, asked, task)
  PROVE  /\ transcript.task = task /\ transcript.tool = "search_case"
         /\ transcript.pages \subseteq 1 .. T
         /\ asked < 3 => transcript.status = T
         /\ ~(asked < 3) => transcript.status = Missing
<1> DEFINE service == Serving(pages)
           token == MintEpisodeToken(Settings(T), 0)
           answered == Admission(service, token, asked) = 200
           status == IF answered THEN CaseStatus(service, token).timestep ELSE Missing
           found == IF answered THEN ToSet(SearchCase(service, token, k)) ELSE {}
<1>1. (answered <=> asked < 3) /\ token.claims.timestep = T
  BY AdmittedWhile
<1>2. answered => /\ ToSet(SearchCase(service, token, k)) \subseteq 1 .. T
                  /\ CaseStatus(service, token).timestep = T
  <2> SUFFICES ASSUME answered
               PROVE  /\ ToSet(SearchCase(service, token, k)) \subseteq 1 .. T
                      /\ CaseStatus(service, token).timestep = T
    OBVIOUS
  <2>1. service.maxK \in Int /\ \A case \in DOMAIN service.cases : ValidCase(service.cases[case])
    BY ServingValid
  <2> HIDE DEF service, token
  <2>2. InScope(service, token, k)
    BY <2>1, AnsweredInScope
  <2>3. ToSet(SearchCase(service, token, k)) \subseteq 1 .. token.claims.timestep
    BY <2>2 DEF InScope
  <2>4. CaseStatus(service, token).timestep = token.claims.timestep
    BY <2>2 DEF InScope
  <2> QED BY <1>1, <2>3, <2>4, Zenon
<1>3. transcript = [task |-> task, tool |-> "search_case", status |-> status, pages |-> found]
  BY Zenon DEF Told
<1>4. /\ found \subseteq 1 .. T
      /\ asked < 3 => status = T
      /\ ~(asked < 3) => status = Missing
  BY <1>1, <1>2, Zenon
<1> HIDE DEF found, status, answered
<1>5. transcript.task = task /\ transcript.tool = "search_case" /\ transcript.status = status
      /\ transcript.pages = found
  BY <1>3
<1> QED BY <1>4, <1>5

(* The estate's checkout holds the pages of its timestep.                  *)
LEMMA SetupIs ==
  ASSUME NEW T \in PagesThere, NEW checkout,
         checkout = Setup([t \in PagesThere |-> 1 .. t], Settings(T))
  PROVE  /\ Probed(checkout)
         /\ checkout.pages = 1 .. T /\ checkout.branch = T /\ checkout.shallow = TRUE
         /\ checkout.remotes = 0
<1> DEFINE repository == [t \in PagesThere |-> 1 .. t]
           pages == 1 .. T
<1>1. Settings(T).timestep = T
  BY DEF Settings
<1>2. repository[T] = pages
  OBVIOUS
<1> HIDE DEF repository
<1>3. checkout = [branch |-> T, shallow |-> TRUE, remotes |-> 0, pages |-> pages]
  BY <1>1, <1>2, Zenon DEF Setup, repository
<1>4. pages \in SUBSET PagesThere /\ TRUE \in BOOLEAN /\ 0 \in 0 .. 1
  BY DEF PagesThere
<1> HIDE DEF pages
<1>5. Probed(checkout)
  BY <1>3, <1>4, CheckoutsProbed, Zenon
<1>6. /\ checkout.pages = pages /\ checkout.branch = T /\ checkout.shallow = TRUE
      /\ checkout.remotes = 0
  BY <1>3
<1> QED BY <1>5, <1>6 DEF pages

(* An episode of the estate is accepted if anything states its timestep.   *)
LEMMA EstateEpisodeIsJudged ==
  ASSUME NEW pages \in [PagesThere -> Texts(1)], NEW T \in PagesThere, NEW k \in Int,
         NEW asked \in 0 .. 3, NEW task \in {Missing, T}, NEW checkout, NEW transcript,
         checkout = Setup([t \in PagesThere |-> 1 .. t], Settings(T)),
         transcript = Told(Serving(pages), MintEpisodeToken(Settings(T), 0), k, asked, task)
  PROVE  Accepted(Judge(SeenSession(checkout, transcript), <<>>))
           <=> task # Missing \/ asked < 3
<1>1. /\ Probed(checkout)
      /\ checkout.pages = 1 .. T /\ checkout.branch = T /\ checkout.shallow = TRUE
      /\ checkout.remotes = 0
  BY SetupIs
<1>2. /\ transcript.task = task /\ transcript.tool = "search_case"
      /\ transcript.pages \subseteq 1 .. T
      /\ asked < 3 => transcript.status = T
      /\ ~(asked < 3) => transcript.status = Missing
  BY ToldIs
<1>3. T \in Nat \ {0} /\ T # Missing
  BY ValuesAssumption DEF PagesThere
<1>4. transcript.tool \in CutoffScopedTools \cup {"other"}
  BY <1>2 DEF CutoffScopedTools
<1>5. transcript.pages \in SUBSET (Nat \ {0})
  BY <1>2, <1>3
<1>6. Accepted(Judge(SeenSession(checkout, transcript), <<>>)) <=>
        /\ Stated(transcript) # Missing
        /\ KeptToTimestep(checkout, transcript, Stated(transcript))
  BY <1>1, <1>4, <1>5, CutoffOfSeen
<1>7. Stated(transcript) = IF task # Missing \/ asked < 3 THEN T ELSE Missing
  BY <1>2, <1>3, Zenon DEF Stated
<1>8. KeptToTimestep(checkout, transcript, T)
  <2>1. Named(transcript) \subseteq 1 .. T
    BY <1>2 DEF Named
  <2> QED BY <1>1, <1>3, <2>1 DEF KeptToTimestep
<1> QED BY <1>3, <1>6, <1>7, <1>8, Zenon

(* Every episode that the harness sets up and the service answers is       *)
(* accepted exactly if its task states its timestep or case_status was     *)
(* asked before the token ended, whatever the pages' texts (pi_harness.py, *)
(* tokens.py, app.py, tools.py; checks.py G5).                             *)
THEOREM EstateEpisodesHold == EstateEpisodesAreAccepted
<1> SUFFICES ASSUME NEW pages \in [PagesThere -> Texts(1)], NEW T \in PagesThere,
                    NEW k \in {1, 5}, NEW asked \in 0 .. 3, NEW task \in {Missing, T}
             PROVE  LET settings == Settings(T)
                        token    == MintEpisodeToken(settings, 0)
                        checkout == Setup([t \in PagesThere |-> 1 .. t], settings)
                    IN  \A transcript \in {Told(Serving(pages), token, k, asked, task)} :
                        \A trajectory \in {Judge(SeenSession(checkout, transcript), <<>>)} :
                          Accepted(trajectory) <=> task # Missing \/ asked < 3
  BY Zenon DEF EstateEpisodesAreAccepted
<1> DEFINE checkout == Setup([t \in PagesThere |-> 1 .. t], Settings(T))
           transcript == Told(Serving(pages), MintEpisodeToken(Settings(T), 0), k, asked, task)
<1>1. k \in Int
  OBVIOUS
<1> HIDE DEF checkout, transcript
<1>2. /\ checkout = Setup([t \in PagesThere |-> 1 .. t], Settings(T))
      /\ transcript = Told(Serving(pages), MintEpisodeToken(Settings(T), 0), k, asked, task)
  BY Zenon DEF checkout, transcript
<1>3. Accepted(Judge(SeenSession(checkout, transcript), <<>>)) <=> task # Missing \/ asked < 3
  BY <1>1, <1>2, EstateEpisodeIsJudged
<1> QED BY <1>3, Zenon DEF checkout, transcript

(* An episode is accepted exactly when its checkout held the pages 1 .. T  *)
(* of the branch of its timestep T and no way back to the rest, and its    *)
(* searches of the case named none above T (builder.py and checks.py over  *)
(* pi_harness.py).                                                         *)
THEOREM CutoffHolds == SawItsTimestep
<1>1. EstateEpisodesAreAccepted
  BY EstateEpisodesHold
<1>2. ASSUME NEW checkout \in Checkouts, NEW transcript \in Transcripts
      PROVE  LET T == IF transcript.task # Missing THEN transcript.task ELSE transcript.status
             IN  \A trajectory \in {Judge(SeenSession(checkout, transcript), <<>>)} :
                   Accepted(trajectory) <=>
                     /\ T # Missing
                     /\ checkout.pages = 1 .. T
                     /\ checkout.branch = T /\ checkout.shallow /\ checkout.remotes = 0
                     /\ transcript.tool \in CutoffScopedTools => transcript.pages \subseteq 1 .. T
  <2> DEFINE T == IF transcript.task # Missing THEN transcript.task ELSE transcript.status
  <2>1. Accepted(Judge(SeenSession(checkout, transcript), <<>>)) <=>
           /\ T # Missing
           /\ checkout.pages = 1 .. T
           /\ checkout.branch = T /\ checkout.shallow /\ checkout.remotes = 0
           /\ transcript.tool \in CutoffScopedTools => transcript.pages \subseteq 1 .. T
    BY CheckoutHolds, Zenon
  <2> QED BY <2>1, Zenon
<1> QED BY <1>1, <1>2, Zenon DEF SawItsTimestep

-----------------------------------------------------------------------------
(* Whatever the receiver does, what it keeps under traces/ is what was     *)
(* sampled after what was shown, and every undisturbed episode gets there  *)
(* (builder.py and checks.py together).                                    *)
THEOREM AcceptanceAlwaysExact == Spec => []AcceptedTrainsWhatWasSampled
<1>1. AcceptedTrainsWhatWasSampled
  BY AcceptanceIsExact DEF AcceptedTrainsWhatWasSampled
<1> QED BY <1>1, PTL

(* Whatever the receiver does, what it keeps under traces/ was done by an  *)
(* agent that saw the pages of its timestep and no others, and every       *)
(* episode of the estate gets there if anything states its timestep        *)
(* (checks.py G5 over pi_harness.py and tools.py).                         *)
THEOREM CutoffAlwaysHolds == Spec => []AcceptedSawItsTimestep
<1>1. AcceptedSawItsTimestep
  BY CutoffHolds DEF AcceptedSawItsTimestep
<1> QED BY <1>1, PTL
=============================================================================
