------------------------------ MODULE Episodes ------------------------------
(***************************************************************************)
(* Episodes, from the agent's first request to the verdict on the result:  *)
(* what the agent, the chat template and the engine really did, which the  *)
(* code under TraceBuilder and TraceChecks can only infer from the         *)
(* completions captured, and what a verdict without findings then means.   *)
(*                                                                         *)
(* A turn is [how, reply, capture]: how its prompt follows the turn        *)
(* before, what the engine sampled, and what the capture did to it.        *)
(* Tokens and messages are those of a chat template that either renders a  *)
(* past turn as it was prompted (glue = <<>>) or leaves its generation     *)
(* prompt's glue out of the history.                                       *)
(***************************************************************************)
EXTENDS TraceChecks, SearchTools

CONSTANT MaxTurns  \* bound on the turns of an episode

(* The tokens.                                                             *)
Vocabulary == {"system", "task", "summary", "answer", "again", "header", "glue",
               "w", "v", "vv", "eot"}

(* The episodes of the page cutoff have two turns.                         *)
ASSUME MaxTurnsAssumption == MaxTurns \in Nat \ {0, 1}

(* An absent field is neither a number, nor a token, nor a list of either. *)
ASSUME ValuesAssumption ==
  /\ Missing \notin Int /\ Missing \notin Vocabulary
  /\ Missing \notin Seq(Vocabulary) /\ Missing \notin Seq(Int \cup {NaN})
  /\ NaN \notin Int

-----------------------------------------------------------------------------
(* The engine: three replies.  A whole one calls a tool and ends its turn; *)
(* a drifting one holds two tokens that its own text is not tokenized      *)
(* into, the second of them certain; one is stopped by the length limit.   *)

Eot    == "eot"
Header == <<"header", "glue">>

Sampled == [whole |-> <<"w", Eot>>, drifting |-> <<"w", "v", "v", Eot>>, cut |-> <<"w">>]
Ending  == [whole |-> "tool_calls", drifting |-> "tool_calls", cut |-> "length"]

(* Distinct values, so that a slot tells the token it was sampled with.    *)
Logprobs(k, reply) ==
  [j \in DOMAIN Sampled[reply] |->
     IF reply = "drifting" /\ j = 3 THEN 0 ELSE -(10 * k + j)]

(* The template renders a reply's text, and closes every turn.             *)
Rendered == [whole |-> <<"w", Eot>>, drifting |-> <<"w", "vv", Eot>>, cut |-> <<"w", Eot>>]

(* What is pinned approves what these episodes are made of, no other tools *)
(* and no other generation prompt; the policy tolerates one certain token  *)
(* in four, and its sentinel is below every logprob.                       *)
ASSUME PinsAssumption ==
  /\ Pins.tails = {Header}
  /\ {"search"} \in Pins.rosters /\ {"search", "write"} \notin Pins.rosters
  /\ "system" \in Pins.system /\ "settings" \in Pins.settings

ASSUME PolicyAssumption ==
  /\ Policy.sentinel \in Int /\ Policy.sentinel < -(10 * MaxTurns + 4)
  /\ Policy.zeros.max \in Nat /\ Policy.zeros.of \in 0 .. 4 * Policy.zeros.max
  /\ Policy.toolless \in BOOLEAN

-----------------------------------------------------------------------------
(* The agent: the next prompt holds the answer to the last call; or is the *)
(* last one again (a retry); or follows a summary (a compaction); or drops *)
(* the text of a reply that was cut; or opens a turn without the glue.     *)

Said(role, text) == [role |-> role, text |-> text, calls |-> FALSE, tool |-> Missing,
                     pages |-> {}, timestep |-> Missing]
Reply(turn)  == [Said("assistant", "reply") EXCEPT !.calls = turn.reply # "cut"]
ToolAnswer(k) == [Said("tool", "answer") EXCEPT !.tool = "other"]
OpeningMessages == <<Said("system", "system"), Said("user", "task")>>

(* What the request of turn k asks with: the tokens before its generation  *)
(* prompt, that generation prompt, and the messages.                       *)
Requested(turns, glue) ==
  LET generation(k) == IF turns[k].how = "think" THEN <<"header">> ELSE Header
      history(k)    == IF glue = <<>> THEN generation(k) ELSE <<"header">>
      request[k \in DOMAIN turns] ==
        IF k = 1 \/ turns[k].how = "compact"
          THEN [before |-> IF k = 1 THEN <<"system", "task">> ELSE <<"system", "summary">>,
                header |-> generation(k), past |-> history(k), messages |-> OpeningMessages]
        ELSE LET last == request[k - 1]
             IN CASE turns[k].how = "retry" -> last
                  [] turns[k].how = "discard" ->
                       [before |-> last.before \o last.past \o <<Eot, "again">>,
                        header |-> generation(k), past |-> history(k),
                        messages |-> last.messages \o <<Said("assistant", ""),
                                                        Said("user", "again")>>]
                  [] OTHER ->
                       [before |-> last.before \o last.past
                                   \o Rendered[turns[k - 1].reply] \o <<"answer">>,
                        header |-> generation(k), past |-> history(k),
                        messages |-> last.messages \o <<Reply(turns[k - 1]), ToolAnswer(k - 1)>>]
  IN  request

-----------------------------------------------------------------------------
(* The capture: a record is whole, or misses or distorts one thing.        *)

Meta == [timestep |-> 1, split |-> "train", source |-> "free", card |-> Missing,
         settings |-> "settings", masked |-> 0,
         workspace |-> ProbeWorkspace([branch |-> 1, shallow |-> TRUE, remotes |-> 0,
                                       pages |-> {1}])]

Faithful(turns, glue, k) ==
  LET request == Requested(turns, glue)[k]
  IN  [prompt |-> request.before \o request.header, response |-> Sampled[turns[k].reply],
       logprobs |-> Logprobs(k, turns[k].reply), finish |-> Ending[turns[k].reply],
       choices |-> 1, shape |-> "agent", cut |-> FALSE, tools |-> {"search"},
       policy |-> "v1", messages |-> request.messages, reply |-> Reply(turns[k]),
       meta |-> Meta]

Distorted(record, capture) ==
  CASE capture = "no prompt"   -> [record EXCEPT !.prompt = <<>>]
    [] capture = "no reply"    -> [record EXCEPT !.response = <<>>, !.logprobs = Missing]
    [] capture = "no logprobs" -> [record EXCEPT !.logprobs = Missing]
    [] capture = "nan"         -> [record EXCEPT !.logprobs[1] = NaN]
    [] capture = "positive"    -> [record EXCEPT !.logprobs[1] = 1]
    [] capture = "sentinel"    -> [record EXCEPT !.logprobs[1] = Policy.sentinel]
    [] capture = "two choices" -> [record EXCEPT !.choices = 2]
    [] capture = "no choices"  -> [record EXCEPT !.choices = 0, !.response = <<>>,
                                                 !.logprobs = Missing]
    [] capture = "aborted"     -> [record EXCEPT !.finish = "abort"]
    [] capture = "shortened"   -> [record EXCEPT !.cut = TRUE]
    [] capture = "aside"       -> [record EXCEPT !.shape = "side"]
    [] capture = "not agent's" -> [record EXCEPT !.shape = "other"]
    [] capture = "roster"      -> [record EXCEPT !.tools = {"search", "write"}]
    [] capture = "policy"      -> [record EXCEPT !.policy = "v2"]
    [] OTHER                   -> record

Session(turns, glue) ==
  [k \in DOMAIN turns |-> Distorted(Faithful(turns, glue, k), turns[k].capture)]

Captures == {"no prompt", "no reply", "no logprobs", "nan", "positive", "sentinel",
             "two choices", "no choices", "aborted", "shortened", "aside", "not agent's",
             "roster", "policy"}

(* One thing out of the ordinary in a turn; a reply is dropped only when   *)
(* it was cut.                                                             *)
Turns ==   {[how |-> "next", reply |-> r, capture |-> "whole"] : r \in DOMAIN Sampled}
      \cup {[how |-> h, reply |-> "whole", capture |-> "whole"] :
              h \in {"retry", "compact", "discard", "think"}}
      \cup {[how |-> "next", reply |-> "whole", capture |-> c] : c \in Captures}

TurnSequences ==
  {turns \in UNION {[1 .. n -> Turns] : n \in 1 .. MaxTurns} :
     /\ turns[1].how \in {"next", "think"}
     /\ \A k \in DOMAIN turns : turns[k].how = "discard" => turns[k - 1].reply = "cut"}

Glues == {<<>>, <<"glue">>}
Judge(session, glue) == Trajectory(session, [eot |-> Eot, glue |-> glue])

-----------------------------------------------------------------------------
(* What an accepted result must be made of.                                *)

Plain(turns) ==
  /\ \A k \in DOMAIN turns :
       /\ turns[k].how = "next"
       /\ turns[k].reply = "cut" => k = Len(turns)
       /\ turns[k].capture \in {"whole", "policy"}
       /\ turns[k].capture = turns[1].capture
  /\ Policy.toolless => turns[1].reply # "cut"

(* The stream the model really worked in: between two replies, what its    *)
(* next prompt added once its own reply had ended.                         *)
Between(glue) == <<"answer">> \o Header

Reference(turns, glue) ==
  LET part[k \in DOMAIN turns] ==
        LET body == Sampled[turns[k].reply]
            logs == Logprobs(k, turns[k].reply)
        IN  IF k = 1 THEN [ids |-> body, mask |-> Same(1, body), logprobs |-> logs]
            ELSE [ids |-> part[k - 1].ids \o Between(glue) \o body,
                  mask |-> part[k - 1].mask \o Same(0, Between(glue)) \o Same(1, body),
                  logprobs |-> part[k - 1].logprobs \o Same(0, Between(glue)) \o logs]
  IN  part[Len(turns)]

(* A result without findings is one trace, and it trains on exactly what   *)
(* the engine sampled, at the logprobs it was sampled with, after exactly  *)
(* what the model was shown: whatever the template's glue, and with tokens *)
(* its own text would not give back.  Every retry, compaction, dropped     *)
(* reply, changed opening, partial capture or broken logprob is a finding, *)
(* and nothing else is (builder.py and checks.py together).                *)
TrainsWhatWasSampled ==
  \A glue \in Glues, turns \in TurnSequences :
    \A session \in {Session(turns, glue)} : \A trajectory \in {Judge(session, glue)} :
      /\ Accepted(trajectory) <=> Plain(turns)
      /\ Plain(turns) =>
           LET trace == trajectory.traces[1]
           IN  /\ Len(trajectory.traces) = 1
               /\ trace.prompt = session[1].prompt
               /\ [ids |-> trace.response, mask |-> trace.mask, logprobs |-> trace.logprobs]
                    = Reference(turns, glue)
               /\ trace.messages = Append(session[Len(turns)].messages,
                                          session[Len(turns)].reply)

-----------------------------------------------------------------------------
(* The page cutoff.  A checkout and a transcript of an episode of two      *)
(* turns: a search that names pages, by the scoped tool or by another, and *)
(* a timestep stated by the task, by case_status or by neither.            *)

PagesThere == 1 .. 3

(* The probe of a checkout that is there reports something of it.          *)
ASSUME ProbeAssumption ==
  \A pages \in SUBSET PagesThere, branch \in PagesThere, shallow \in BOOLEAN, remotes \in 0 .. 1 :
    ProbeWorkspace([branch |-> branch, shallow |-> shallow, remotes |-> remotes,
                    pages |-> pages]) # Missing

Checkouts == [branch : 2 .. 3, shallow : BOOLEAN, remotes : 0 .. 1, pages : SUBSET PagesThere]
Transcripts == [task : {Missing, 2, 3}, status : {Missing, 2, 3}, pages : SUBSET PagesThere,
                tool : CutoffScopedTools \cup {"other"}]

TwoTurns == [k \in 1 .. 2 |-> [how |-> "next", reply |-> "whole", capture |-> "whole"]]

SeenSession(checkout, transcript) ==
  LET session  == Session(TwoTurns, <<>>)
      messages == Append(session[1].messages, session[1].reply)
                  \o <<[Said("tool", "found") EXCEPT !.tool = transcript.tool,
                                                     !.pages = transcript.pages],
                       [Said("tool", "status") EXCEPT !.tool = "case_status",
                                                      !.timestep = transcript.status]>>
  IN  [k \in 1 .. 2 |->
         [session[k] EXCEPT !.messages = IF k = 1 THEN @ ELSE messages,
                            !.meta.timestep = transcript.task,
                            !.meta.workspace = ProbeWorkspace(checkout)]]

(* The estate's own episodes: the harness clones the branch of its         *)
(* timestep from a case repository that holds the pages 1 .. t on branch t *)
(* (Corpus), mints the token, and the service answers the agent's tools    *)
(* for as long as the token lasts.                                         *)
Setup(repository, settings) ==
  [branch |-> settings.timestep, shallow |-> TRUE, remotes |-> 0,
   pages |-> repository[settings.timestep]]

Settings(T)    == [case |-> "case", timestep |-> T, session |-> "session",
                   secret |-> "secret", ttl |-> 2]
Serving(pages) == [status |-> "ready", secret |-> "secret", leeway |-> 1, maxK |-> 2,
                   cases |-> [case |-> [pages |-> pages,
                                        chunking |-> [max |-> 1, overlap |-> 0]]]]

(* What the agent is told when it asks at a time after its start.          *)
Told(service, token, k, asked, task) ==
  LET answered == Admission(service, token, asked) = 200
  IN  [task |-> task, tool |-> "search_case",
       status |-> IF answered THEN CaseStatus(service, token).timestep ELSE Missing,
       pages  |-> IF answered THEN ToSet(SearchCase(service, token, k)) ELSE {}]

EstateEpisodesAreAccepted ==
  \A pages \in [PagesThere -> Texts(1)], T \in PagesThere, k \in {1, 5}, asked \in 0 .. 3 :
    \A task \in {Missing, T} :
      LET settings == Settings(T)
          token    == MintEpisodeToken(settings, 0)
          checkout == Setup([t \in PagesThere |-> 1 .. t], settings)
      IN  \A transcript \in {Told(Serving(pages), token, k, asked, task)} :
          \A trajectory \in {Judge(SeenSession(checkout, transcript), <<>>)} :
            Accepted(trajectory) <=> task # Missing \/ asked < 3

(* An episode is accepted exactly when its checkout held the pages 1 .. T  *)
(* of the branch of its timestep T and no way back to the rest, and its    *)
(* searches of the case named none above T; the three numbers that the     *)
(* harness reports of the pages are enough to tell.  And every episode     *)
(* that the harness sets up and the service answers is accepted, if        *)
(* anything states its timestep (checks.py G5 over pi_harness.py and       *)
(* tools.py).                                                              *)
SawItsTimestep ==
  /\ EstateEpisodesAreAccepted
  /\ \A checkout \in Checkouts, transcript \in Transcripts :
       LET T == IF transcript.task # Missing THEN transcript.task ELSE transcript.status
       IN  \A trajectory \in {Judge(SeenSession(checkout, transcript), <<>>)} :
             Accepted(trajectory) <=>
               /\ T # Missing
               /\ checkout.pages = 1 .. T
               /\ checkout.branch = T /\ checkout.shallow /\ checkout.remotes = 0
               /\ transcript.tool \in CutoffScopedTools => transcript.pages \subseteq 1 .. T
=============================================================================
