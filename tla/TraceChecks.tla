---------------------------- MODULE TraceChecks -----------------------------
(***************************************************************************)
(* The trace validators (gsj_rollout/checks.py): the verdict of            *)
(* validate_session_result on what the callback carries, one operator per  *)
(* rule, and the harness's probe of the checkout (gsj_rollout/             *)
(* pi_harness.py), whose statement two of the rules read.                  *)
(*                                                                         *)
(* A trace's meta is [timestep, workspace, split, source, card, settings,  *)
(* masked]; a message is [role, text, calls, tool, pages, timestep]:       *)
(* whether it calls a tool, the tool its call id resolves to, the pages a  *)
(* tool's answer names and the timestep case_status states; hashed         *)
(* contents are compared with pins, the approved sets.                     *)
(***************************************************************************)
EXTENDS TraceBuilder

CONSTANTS Pins, Policy

AllowedFinishReasons == {"stop", "tool_calls", "stop_sequence", "length"}
AllowedSplits        == {"train", "eval"}
CutoffScopedTools    == {"search_case"}

-----------------------------------------------------------------------------
(* The logprob discipline, LP1 to LP9.                                     *)

Trainable(trace) == {i \in DOMAIN trace.mask : trace.mask[i] = 1}

(* LP7, LP8, LP9.                                                          *)
MaskFits(trace) ==
  /\ trace.response # <<>> => trace.mask # <<>>
  /\ trace.mask # <<>> => Len(trace.mask) = Len(trace.response)
  /\ \A i \in DOMAIN trace.mask : trace.mask[i] \in {0, 1}

(* LP4, LP5 everywhere, LP3 at trained tokens.                             *)
LogprobFits(value, trained) ==
  /\ value # NaN
  /\ value <= 0
  /\ trained => value > Policy.sentinel

Zeros(trace) == {i \in Trainable(trace) : trace.logprobs[i] = 0}

CheckLogprobDiscipline(trace) ==
  /\ MaskFits(trace)
  /\ IF trace.logprobs = Missing
       THEN Trainable(trace) = {}
       ELSE /\ Len(trace.logprobs) = Len(trace.response)
            /\ \A i \in DOMAIN trace.logprobs :
                 LogprobFits(trace.logprobs[i], i \in Trainable(trace))
            /\ Policy.zeros.of * Cardinality(Zeros(trace))
                 <= Policy.zeros.max * Cardinality(Trainable(trace))

CheckTraceTripwires(trace) ==
  /\ trace.finish \in AllowedFinishReasons
  /\ trace.meta.split = Missing \/ trace.meta.split \in AllowedSplits
  /\ trace.meta.masked = 0

-----------------------------------------------------------------------------
(* G5: what the episode may have seen.                                     *)

StatesTimestep(message) ==
  message.role = "tool" /\ message.tool = "case_status" /\ message.timestep # Missing

(* The task's own statement, else the first that case_status made.         *)
EpisodeTimestep(trace) ==
  IF trace.meta.timestep # Missing THEN trace.meta.timestep
  ELSE IF \E i \in DOMAIN trace.messages : StatesTimestep(trace.messages[i])
         THEN trace.messages[SelectInSeq(trace.messages, StatesTimestep)].timestep
         ELSE Missing

CaseSearchPages(trace) ==
  UNION {trace.messages[i].pages :
         i \in {j \in DOMAIN trace.messages :
                  /\ trace.messages[j].role = "tool"
                  /\ trace.messages[j].tool \in CutoffScopedTools}}

CheckPageCutoff(trace) ==
  /\ EpisodeTimestep(trace) # Missing
  /\ \A page \in CaseSearchPages(trace) : page <= EpisodeTimestep(trace)

(* PiHarness._probe_workspace: the checkout before the agent starts, its   *)
(* pages reduced to three numbers.                                         *)
ProbeWorkspace(checkout) ==
  LET none == checkout.pages = {}
  IN  [branch |-> checkout.branch, shallow |-> checkout.shallow,
       remotes |-> checkout.remotes, count |-> Cardinality(checkout.pages),
       min |-> IF none THEN Missing
               ELSE CHOOSE p \in checkout.pages : \A q \in checkout.pages : p <= q,
       max |-> IF none THEN Missing
               ELSE CHOOSE p \in checkout.pages : \A q \in checkout.pages : q <= p]

(* Mutant: the number of pages is not compared.                            *)
CheckWorkspaceUncounted(trace) ==
  LET workspace == trace.meta.workspace
  IN  /\ workspace # Missing
      /\ workspace.shallow /\ workspace.remotes = 0
      /\ workspace.min = 1
      /\ EpisodeTimestep(trace) # Missing =>
           workspace.branch = EpisodeTimestep(trace) /\ workspace.max = EpisodeTimestep(trace)

CheckWorkspace(trace) ==
  LET workspace == trace.meta.workspace
  IN  /\ workspace # Missing
      /\ workspace.shallow /\ workspace.remotes = 0
      /\ workspace.min = 1 /\ workspace.count = workspace.max
      /\ EpisodeTimestep(trace) # Missing =>
           workspace.branch = EpisodeTimestep(trace) /\ workspace.max = EpisodeTimestep(trace)

-----------------------------------------------------------------------------
(* G1, G2, G3, G7: approved contents.                                      *)

SystemTexts(trace) ==
  {trace.opening[i].text : i \in {j \in DOMAIN trace.opening : trace.opening[j].role = "system"}}

CheckSystemPrompt(trace) ==
  SystemTexts(trace) # {} /\ SystemTexts(trace) \subseteq Pins.system

CheckToolRoster(trace) == trace.tools # {} /\ trace.tools \in Pins.rosters

CheckSkillCard(trace) ==
  \/ trace.meta.source = "free"
  \/ trace.meta.source = "skill" /\ trace.meta.card \in Pins.cards

CheckSettingsEcho(trace) == trace.meta.settings \in Pins.settings

CheckChainSnapshot(stats) ==
  /\ stats.total = 1
  /\ stats.truncated = 0
  /\ stats.merged = stats.completions
  /\ stats.raw = stats.completions

(* H41, armed by the policy only.                                          *)
CheckToollessRoster(trace) ==
  Policy.toolless /\ trace.tools # {} =>
    \E i \in DOMAIN trace.messages : trace.messages[i].calls

-----------------------------------------------------------------------------
(* G6: what every turn was opened with ends with a pinned tail: the prompt *)
(* for the first, the untrained tokens between two turns for the others.   *)

TurnStarts(trace) ==
  {i \in Trainable(trace) : i = 1 \/ trace.mask[i - 1] = 0}

Opening(trace, start) ==
  LET before == {i \in Trainable(trace) : i < start}
  IN  IF before = {} THEN trace.prompt \o SubSeq(trace.response, 1, start - 1)
      ELSE SubSeq(trace.response,
                  (CHOOSE i \in before : \A j \in before : j <= i) + 1, start - 1)

CheckThinkingTail(trace) ==
  /\ TurnStarts(trace) # {}
  /\ \A start \in TurnStarts(trace) :
       \E tail \in Pins.tails : IsSuffix(tail, Opening(trace, start))

-----------------------------------------------------------------------------
RunTraceChecks(trace) ==
  /\ CheckLogprobDiscipline(trace) /\ CheckTraceTripwires(trace)
  /\ CheckPageCutoff(trace) /\ CheckWorkspace(trace)
  /\ CheckToolRoster(trace) /\ CheckSystemPrompt(trace) /\ CheckSkillCard(trace)
  /\ CheckSettingsEcho(trace) /\ CheckThinkingTail(trace) /\ CheckToollessRoster(trace)

Admitted(trajectory) ==
  trajectory.status = "COMPLETED" /\ ~trajectory.refused /\ trajectory.traces # <<>>

(* No finding: the receiver lands the result among the traces.             *)
Accepted(trajectory) ==
  /\ Admitted(trajectory)
  /\ CheckChainSnapshot(trajectory.stats)
  /\ \A k \in DOMAIN trajectory.traces : RunTraceChecks(trajectory.traces[k])
=============================================================================
