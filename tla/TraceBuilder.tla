---------------------------- MODULE TraceBuilder ----------------------------
(***************************************************************************)
(* What becomes of the completions a session's gateway captured: the       *)
(* session-level rules and the glue stitch of gsj_rollout/builder.py over  *)
(* the prefix merging of polar/trajectory/builder.                         *)
(*                                                                         *)
(* A completion is [prompt, response, logprobs, finish, choices, shape,    *)
(* cut, tools, policy, messages, meta]: token sequences, the logprobs of   *)
(* the response (Missing when they could not be paired with its tokens),   *)
(* how many choices came back, whether the request was the agent's, some   *)
(* other, or a lone user message on the side, and whether the record was   *)
(* persisted cut short.  conf is [eot, glue]: the end-of-turn token and    *)
(* the generation-prompt glue of the builder's configuration.              *)
(***************************************************************************)
EXTENDS Integers, Sequences, FiniteSets, Selections

CONSTANTS
  Missing,  \* no value
  NaN       \* a logprob that is no finite number

(* A value bound once, however often it is used.                           *)
With(value, Of(_)) == CHOOSE result \in {Of(v) : v \in {value}} : TRUE

-----------------------------------------------------------------------------
(* _session_findings: what the callback could not carry.                   *)

(* Mutant: a reply cut short in mid-chain is let through.                  *)
RefusedButForLength(session, conf) ==
  \/ conf.eot = Missing
  \/ \E i \in DOMAIN session :
       \/ session[i].prompt = <<>> \/ session[i].response = <<>>
       \/ session[i].choices # 1
       \/ session[i].shape # "agent"
       \/ i > 1 /\ session[i].prompt = session[i - 1].prompt
  \/ \E i, j \in DOMAIN session :
       session[i].tools # session[j].tools \/ session[i].policy # session[j].policy

(* A15; S1, S6; S8; A12; S3; S7; R11 and S9.                               *)
SessionRefused(session, conf) ==
  \/ conf.eot = Missing
  \/ \E i \in DOMAIN session :
       \/ session[i].prompt = <<>> \/ session[i].response = <<>>
       \/ session[i].choices # 1
       \/ session[i].shape # "agent"
       \/ i > 1 /\ session[i].prompt = session[i - 1].prompt
       \/ i < Len(session) /\ session[i].finish = "length"
  \/ \E i, j \in DOMAIN session :
       session[i].tools # session[j].tools \/ session[i].policy # session[j].policy

-----------------------------------------------------------------------------
(* The stitch: a template that puts glue in its generation prompt and not  *)
(* in its history leaves no prompt a prefix of the next.  A prompt that    *)
(* extends its predecessor but for that glue is made to extend what the    *)
(* predecessor was made into.                                              *)

Unglued(prompt, glue) == SubSeq(prompt, 1, Len(prompt) - Len(glue))
Rest(prompt, n)       == SubSeq(prompt, n + 1, Len(prompt))

ExtendsUnglued(prompt, before, glue) ==
  /\ Len(prompt) > Len(before)
  /\ IsSuffix(glue, before)
  /\ IsPrefix(Unglued(before, glue), prompt)

Stitched(session, glue) ==
  LET prompt[i \in DOMAIN session] ==
        IF i > 1 /\ ExtendsUnglued(session[i].prompt, session[i - 1].prompt, glue)
          THEN prompt[i - 1]
               \o Rest(session[i].prompt, Len(session[i - 1].prompt) - Len(glue))
          ELSE session[i].prompt
  IN  IF glue = <<>> THEN session
      ELSE [i \in DOMAIN session |-> [session[i] EXCEPT !.prompt = prompt[i]]]

-----------------------------------------------------------------------------
(* Grouping: a completion joins the chain whose last prompt is the longest *)
(* non-empty prefix of its own, or starts one.                             *)

Kept(completion) == ~completion.cut /\ completion.choices > 0 /\ completion.shape # "side"
Filtered(session) ==
  With(session, LAMBDA s : Subsequence(s, {i \in DOMAIN s : Kept(s[i])}))

Tip(chain) == chain[Len(chain)].prompt

Extendable(chains, prompt) ==
  {k \in DOMAIN chains : Tip(chains[k]) # <<>> /\ IsPrefix(Tip(chains[k]), prompt)}

FindExtendableChain(chains, prompt) ==
  CHOOSE k \in Extendable(chains, prompt) : \A j \in Extendable(chains, prompt) :
    \/ Len(Tip(chains[j])) < Len(Tip(chains[k]))
    \/ Len(Tip(chains[j])) = Len(Tip(chains[k])) /\ k <= j

Group(completions) ==
  LET Join(chains, completion) ==
        IF Extendable(chains, completion.prompt) = {} THEN Append(chains, <<completion>>)
        ELSE [chains EXCEPT ![FindExtendableChain(chains, completion.prompt)] =
                              Append(@, completion)]
  IN  FoldLeft(LAMBDA chains, c : With(chains, LAMBDA now : Join(now, c)), <<>>, completions)

-----------------------------------------------------------------------------
(* Finalization: sampled bodies as they were sampled, and between two of   *)
(* them what the next prompt holds after the first end of turn.            *)

Closed(response, eot) == response # <<>> /\ response[Len(response)] = eot

(* Mutant: the end of turn is taken even when the body brought its own.    *)
SliceWithEnd(tail, before, eot) ==
  IF eot = Missing \/ ~Contains(tail, eot) THEN Missing
  ELSE LET k == SelectInSeq(tail, LAMBDA token : token = eot) IN Rest(tail, k - 1)

SliceInterstitial(tail, before, eot) ==
  IF eot = Missing \/ ~Contains(tail, eot) THEN Missing
  ELSE LET k == SelectInSeq(tail, LAMBDA token : token = eot)
       IN  Rest(tail, IF Closed(before, eot) THEN k ELSE k - 1)

(* One logprob slot for every sampled token.                               *)
Slots(completion) ==
  [i \in DOMAIN completion.response |->
     IF completion.logprobs = Missing \/ i > Len(completion.logprobs) THEN Missing
     ELSE completion.logprobs[i]]
Same(value, tokens) == [i \in DOMAIN tokens |-> value]

(* The messages of a prompt beyond those already counted: by number only.  *)
NewMessages(completion, counted) ==
  IF Len(completion.messages) > counted THEN Rest(completion.messages, counted) ELSE <<>>

Begun(completion) ==
  [ids |-> completion.response, mask |-> Same(1, completion.response),
   slots |-> Slots(completion), messages |-> completion.messages \o <<completion.reply>>,
   last |-> completion, kept |-> 1, broken |-> FALSE]

Merge(stream, completion, eot) ==
  LET between == SliceInterstitial(Rest(completion.prompt, Len(stream.last.prompt)),
                                   stream.last.response, eot)
  IN  IF stream.broken \/ between = Missing THEN [stream EXCEPT !.broken = TRUE]
      ELSE [ids   |-> stream.ids \o between \o completion.response,
            mask  |-> stream.mask \o Same(0, between) \o Same(1, completion.response),
            slots |-> stream.slots \o Same(Missing, between) \o Slots(completion),
            messages |-> stream.messages \o NewMessages(completion, Len(stream.messages))
                         \o <<completion.reply>>,
            last |-> completion, kept |-> stream.kept + 1, broken |-> FALSE]

(* No logprobs at all when one is missing at a trained token.              *)
FinalizeLogprobs(slots, mask) ==
  IF \/ \A i \in DOMAIN slots : slots[i] = Missing
     \/ \E i \in DOMAIN slots : slots[i] = Missing /\ mask[i] = 1
    THEN Missing
    ELSE [i \in DOMAIN slots |-> IF slots[i] = Missing THEN 0 ELSE slots[i]]

FinalizeChain(chain, conf) ==
  With(FoldLeft(LAMBDA stream, c : With(stream, LAMBDA now : Merge(now, c, conf.eot)),
                Begun(chain[1]), Tail(chain)),
       LAMBDA stream :
         [prompt |-> chain[1].prompt, response |-> stream.ids, mask |-> stream.mask,
          logprobs |-> FinalizeLogprobs(stream.slots, stream.mask),
          finish |-> stream.last.finish, opening |-> chain[1].messages,
          messages |-> stream.messages,
          tools |-> chain[1].tools, meta |-> chain[1].meta, kept |-> stream.kept,
          truncated |-> stream.broken])

-----------------------------------------------------------------------------
(* build: the trajectory, and the session's rules on top.                  *)
Judged(session, kept, traces, conf) ==
  LET refused == SessionRefused(session, conf) \/ Len(kept) < Len(session)
  IN  [status |-> IF kept = <<>> \/ refused
                     \/ \E i \in DOMAIN session : session[i].finish = "abort"
                    THEN "ERROR" ELSE "COMPLETED",
       refused |-> refused,
       traces |-> traces,
       stats |-> [total |-> Len(traces),
                  truncated |-> Cardinality({k \in DOMAIN traces : traces[k].truncated}),
                  raw |-> Len(session), completions |-> Len(kept),
                  merged |-> FoldLeft(LAMBDA n, trace : n + trace.kept, 0, traces)]]

Trajectory(session, conf) ==
  With(Filtered(Stitched(session, conf.glue)), LAMBDA kept :
    With(Group(kept), LAMBDA chains :
      With([k \in DOMAIN chains |-> FinalizeChain(chains[k], conf)], LAMBDA traces :
        Judged(session, kept, traces, conf))))
=============================================================================
