------------------------------ MODULE Receiver ------------------------------
(***************************************************************************)
(* The callback receiver (gsj_rollout/receiver.py): every POST is handled  *)
(* by a thread of its own, validated and serialized as a whole, staged     *)
(* file by file and then committed by renames.  The threads share two      *)
(* directories and nothing else; a file operation may fail, and the        *)
(* process may be stopped between any two of them (the handler threads are *)
(* daemons: an ordinary shutdown does not wait for them).                  *)
(***************************************************************************)
EXTENDS Naturals, Sequences, FiniteSets

CONSTANTS
  Requests,     \* POSTs; a repeated delivery is another request
  Sessions,     \* session ids
  Bodies,       \* what may be posted: sequences of session results
  Overlapping,  \* may two requests in flight name one session
  None,         \* no value
  Empty,        \* the data of a file that is open or torn
  Mixed,        \* the data of a file two threads wrote over each other
  MaxStops,     \* bound on stops of the process
  MaxFaults     \* bound on failing file operations

(* A session result as the receiver tells them apart: without findings,    *)
(* with findings, one json.dumps refuses, one that is no session result.   *)
Verdicts == {"good", "bad", "unserializable", "malformed"}
Member   == [sid : Sessions, verdict : Verdicts]

ASSUME BodiesAssumption == IsFiniteSet(Bodies) /\ Bodies \subseteq Seq(Member)
ASSUME OverlapAssumption == Overlapping \in BOOLEAN

Places  == UNION {DOMAIN b : b \in Bodies}
Indices == {i - 1 : i \in Places}

(* A file is named by its directory and session, and a staged one by its   *)
(* index too; its data is the text of one member of one request.           *)
Slot  == [dir : {"traces", "quarantine"}, sid : Sessions]
Inode == [req : Requests, idx : Indices]
Text  == [req : Requests, pos : Places]

ASSUME NoneAssumption == /\ None \notin Inode \cup {200, 400, 500}
                         /\ {Empty, Mixed} \cap Text = {}

Entry  == [slot : Slot, idx : Indices, pos : Places]
PCs    == {"new", "validate", "stage", "write", "unwind", "over"}
Faults == {"open", "write", "rename", "unlink"}

VARIABLES
  up,       \* the server process runs
  landed,   \* <session>.<mode>.json in either directory
  staging,  \* the .tmp files beside them
  data,     \* what each file holds
  thr,      \* the handler threads
  counted,  \* Receiver.accepted and Receiver.rejected
  used      \* how much of each bound is spent

vars == <<up, landed, staging, data, thr, counted, used>>

(* A handler thread: its plan, how many members are staged and how many of *)
(* those are renamed, the file it has open, what the except clause has yet *)
(* to unlink.                                                              *)
NewThread == [pc |-> "new", body |-> <<>>, plan |-> {}, at |-> 0, done |-> 0,
              fd |-> None, left |-> {}, reply |-> None, faults |-> {}]

Init ==
  /\ up = TRUE
  /\ landed = [s \in Slot |-> None]
  /\ staging = [s \in Slot |-> [i \in Indices |-> None]]
  /\ data = [f \in Inode |-> Empty]
  /\ thr = [r \in Requests |-> NewThread]
  /\ counted = [accepted |-> 0, rejected |-> 0]
  /\ used = [stops |-> 0, faults |-> 0]

At(r, p)    == up /\ thr[r].pc = p
InFlight(r) == thr[r].pc \notin {"new", "over"}
Sids(b)     == {b[i].sid : i \in DOMAIN b}
Has(b, v)   == \E i \in DOMAIN b : b[i].verdict = v

-----------------------------------------------------------------------------
(* The plan: one disposition per session, in the order the sessions first  *)
(* appear (a dict keeps the place of a key), with the last result of each. *)

Firsts(b)   == {i \in DOMAIN b : \A j \in DOMAIN b : j < i => b[j].sid # b[i].sid}
LastOf(b, s) == CHOOSE i \in DOMAIN b :
                b[i].sid = s /\ \A j \in DOMAIN b : b[j].sid = s => j <= i
SlotOf(m)   == [dir |-> IF m.verdict = "good" THEN "traces" ELSE "quarantine",
                sid |-> m.sid]

(* Mutants: every member is planned, repeated sessions included; the first *)
(* result of a session wins.                                               *)
PlannedTwice(b) == {[slot |-> SlotOf(b[i]), idx |-> i - 1, pos |-> i] : i \in DOMAIN b}
PlannedFirst(b) == {[slot |-> SlotOf(b[i]), idx |-> Cardinality({j \in Firsts(b) : j < i}),
                     pos |-> i] : i \in Firsts(b)}

Planned(b) ==
  {[slot |-> SlotOf(b[LastOf(b, b[i].sid)]),
    idx  |-> Cardinality({j \in Firsts(b) : j < i}),
    pos  |-> LastOf(b, b[i].sid)] : i \in Firsts(b)}

Plan(r)      == thr[r].plan
Nth(r, n)    == CHOOSE e \in Plan(r) : e.idx = n

(* Mutants: the list of stages holds the final names; only what has been   *)
(* renamed is unlinked; a member is renamed as soon as it is staged.       *)
StagedFinals(r)  == {e.slot : e \in {x \in Plan(r) : x.idx < thr[r].at}}
StagedRenamed(r) == {e \in Plan(r) : e.idx < thr[r].done}
SomeStaged(r)    == thr[r].at > thr[r].done

Staged(r)    == {e \in Plan(r) : e.idx < thr[r].at}
AllStaged(r) == thr[r].at = Cardinality(Plan(r))
Renamed(r)   == thr[r].done = Cardinality(Plan(r))

-----------------------------------------------------------------------------
Arrive(r, b) ==
  /\ up
  /\ thr[r].pc = "new"
  /\ Overlapping \/ \A q \in Requests : InFlight(q) => Sids(thr[q].body) \cap Sids(b) = {}
  /\ thr' = [thr EXCEPT ![r].pc = "validate", ![r].body = b]
  /\ UNCHANGED <<up, landed, staging, data, counted, used>>

Answer(r, code) == thr' = [thr EXCEPT ![r].pc = "over", ![r].reply = code]

(* The first phase touches no file.  Unusable pins are a 500 and a body    *)
(* that is no session result, or that does not serialize, is a 400.        *)
Validate(r) ==
  LET b == thr[r].body
  IN  /\ At(r, "validate")
      /\ \/ Has(b, "malformed") /\ Answer(r, 400)
         \/ ~Has(b, "malformed") /\ b # <<>> /\ Answer(r, 500)
         \/ ~Has(b, "malformed") /\ Has(b, "unserializable") /\ Answer(r, 400)
         \/ /\ ~Has(b, "malformed") /\ ~Has(b, "unserializable")
            /\ thr' = [thr EXCEPT ![r].pc = "stage", ![r].plan = Planned(b)]
      /\ UNCHANGED <<up, landed, staging, data, counted, used>>

(* A failing operation: the except clause unlinks what is in `staged'.     *)
Fault(r, kind, left) ==
  /\ used.faults < MaxFaults
  /\ used' = [used EXCEPT !.faults = @ + 1]
  /\ thr' = [thr EXCEPT ![r].pc = "unwind", ![r].fd = None, ![r].left = left,
                        ![r].faults = @ \cup {kind}]

(* open(tmp, "w"): a new file, or an existing one emptied.                 *)
Open(r) ==
  LET e == Nth(r, thr[r].at)
      f == IF staging[e.slot][e.idx] = None THEN [req |-> r, idx |-> e.idx]
                                            ELSE staging[e.slot][e.idx]
  IN  /\ At(r, "stage") /\ thr[r].at # Cardinality(Plan(r))
      /\ \/ /\ staging' = [staging EXCEPT ![e.slot][e.idx] = f]
            /\ data' = [data EXCEPT ![f] = Empty]
            /\ thr' = [thr EXCEPT ![r].pc = "write", ![r].fd = f]
            /\ UNCHANGED used
         \/ Fault(r, "open", Staged(r)) /\ UNCHANGED <<staging, data>>
      /\ UNCHANGED <<up, landed, counted>>

(* The text reaches the file when it is closed; over another thread's text *)
(* it leaves a mixture unless it is at least as long.                      *)
Contended(r) == \/ data[thr[r].fd] # Empty
                \/ \E q \in Requests \ {r} : thr[q].fd = thr[r].fd

(* Mutant: a member counts as staged before its text is on disk.           *)
WriteUnflushed(r) ==
  /\ At(r, "write")
  /\ thr' = [thr EXCEPT ![r].pc = "stage", ![r].fd = None, ![r].at = @ + 1]
  /\ UNCHANGED <<up, landed, staging, data, counted, used>>

Write(r) ==
  /\ At(r, "write")
  /\ \/ /\ \E d \in {[req |-> r, pos |-> Nth(r, thr[r].at).pos]}
                      \cup (IF Contended(r) THEN {Mixed} ELSE {}) :
             data' = [data EXCEPT ![thr[r].fd] = d]
        /\ thr' = [thr EXCEPT ![r].pc = "stage", ![r].fd = None, ![r].at = @ + 1]
        /\ UNCHANGED used
     \/ Fault(r, "write", Staged(r)) /\ UNCHANGED data
  /\ UNCHANGED <<up, landed, staging, counted>>

(* os.replace; a stage that is gone is an error like any other.            *)
Rename(r) ==
  LET e == Nth(r, thr[r].done)
      f == staging[e.slot][e.idx]
  IN  /\ At(r, "stage") /\ AllStaged(r) /\ ~Renamed(r)
      /\ \/ /\ f # None
            /\ landed' = [landed EXCEPT ![e.slot] = f]
            /\ staging' = [staging EXCEPT ![e.slot][e.idx] = None]
            /\ thr' = [thr EXCEPT ![r].done = @ + 1]
            /\ UNCHANGED used
         \/ /\ f = None
            /\ thr' = [thr EXCEPT ![r].pc = "unwind", ![r].left = Staged(r)]
            /\ UNCHANGED <<landed, staging, used>>
         \/ Fault(r, "rename", Staged(r)) /\ UNCHANGED <<landed, staging>>
      /\ UNCHANGED <<up, data, counted>>

(* Mutant: an unlink that fails ends the handler.                          *)
UnlinkRaises(r, e) ==
  /\ At(r, "unwind") /\ e \in thr[r].left
  /\ thr' = [thr EXCEPT ![r].pc = "over"]
  /\ UNCHANGED <<up, landed, staging, data, counted, used>>

(* One unlink of the except clause, whose own error is suppressed.         *)
Unlink(r, e) ==
  /\ At(r, "unwind") /\ e \in thr[r].left
  /\ \/ /\ staging' = [staging EXCEPT ![e.slot][e.idx] = None]
        /\ thr' = [thr EXCEPT ![r].left = @ \ {e}]
        /\ UNCHANGED used
     \/ /\ Fault(r, "unlink", thr[r].left \ {e})
        /\ UNCHANGED staging
  /\ UNCHANGED <<up, landed, data, counted>>

UnwindDone(r) ==
  /\ At(r, "unwind") /\ thr[r].left = {}
  /\ Answer(r, 500)
  /\ UNCHANGED <<up, landed, staging, data, counted, used>>

Count(r) ==
  LET good == {e \in Plan(r) : e.slot.dir = "traces"}
  IN  /\ At(r, "stage") /\ Renamed(r)
      /\ counted' = [accepted |-> counted.accepted + Cardinality(good),
                     rejected |-> counted.rejected + Cardinality(Plan(r) \ good)]
      /\ Answer(r, 200)
      /\ UNCHANGED <<up, landed, staging, data, used>>

(* The process ends with the requests it was handling, unanswered.         *)
Stop ==
  /\ up
  /\ used.stops < MaxStops
  /\ used' = [used EXCEPT !.stops = @ + 1]
  /\ up' = FALSE
  /\ thr' = [r \in Requests |-> IF InFlight(r)
                                THEN [thr[r] EXCEPT !.pc = "over", !.fd = None] ELSE thr[r]]
  /\ UNCHANGED <<landed, staging, data, counted>>

Boot ==
  /\ ~up
  /\ up' = TRUE
  /\ counted' = [accepted |-> 0, rejected |-> 0]
  /\ UNCHANGED <<landed, staging, data, thr, used>>

HandlerStep(r) ==
  \/ Validate(r) \/ Open(r) \/ Write(r) \/ Rename(r) \/ UnwindDone(r) \/ Count(r)
  \/ \E e \in thr[r].left : Unlink(r, e)

Next ==
  \/ \E r \in Requests, b \in Bodies : Arrive(r, b)
  \/ \E r \in Requests : HandlerStep(r)
  \/ Stop
  \/ Boot

Fairness == \A r \in Requests : WF_vars(HandlerStep(r))

Spec == Init /\ [][Next]_vars /\ Fairness
-----------------------------------------------------------------------------
TypeOK ==
  /\ up \in BOOLEAN
  /\ landed \in [Slot -> Inode \cup {None}]
  /\ staging \in [Slot -> [Indices -> Inode \cup {None}]]
  /\ data \in [Inode -> Text \cup {Empty, Mixed}]
  /\ thr \in [Requests ->
       [pc : PCs, body : Bodies \cup {<<>>}, plan : SUBSET Entry,
        at : Nat, done : Nat, fd : Inode \cup {None}, left : SUBSET Entry,
        reply : {None, 200, 400, 500}, faults : SUBSET Faults]]
  /\ counted \in [accepted : Nat, rejected : Nat]

TextOf(f)      == thr[data[f].req].body[data[f].pos]

(* Whatever fails or is killed, a file under its final name is the whole   *)
(* text of one posted result, of that session, in the directory of its     *)
(* verdict ("persisted verbatim ... or quarantined").                      *)
LandedWhole ==
  \A s \in Slot : landed[s] # None =>
    /\ data[landed[s]] \in Text
    /\ SlotOf(TextOf(landed[s])) = s

(* A 200 is sent when every session of the envelope has landed with this   *)
(* envelope's text, and its last one: a repeated delivery after a kill or  *)
(* a 500 completes what the first one left ("last-wins").                  *)
AnsweredLanded ==
  [][ \A r \in Requests : thr[r].reply = None /\ thr'[r].reply = 200 =>
        LET b == thr[r].body
        IN  \A i \in DOMAIN b :
              (\A j \in DOMAIN b : j > i => b[j].sid # b[i].sid) =>
                /\ landed[SlotOf(b[i])] # None
                /\ data[landed[SlotOf(b[i])]] = [req |-> r, pos |-> i] ]_vars

(* Every session of an envelope is dispositioned once: an envelope's texts *)
(* of one session are never in both directories ("a repeated id in one     *)
(* envelope must not land as both").                                       *)
LandedFrom(r, s) == /\ landed[s] # None
                    /\ data[landed[s]] \in Text
                    /\ data[landed[s]].req = r
OneDisposition ==
  \A r \in Requests, sid \in Sessions :
    ~ /\ LandedFrom(r, [dir |-> "traces", sid |-> sid])
      /\ LandedFrom(r, [dir |-> "quarantine", sid |-> sid])

(* An envelope answered with an error has landed nothing, unless a rename  *)
(* itself failed ("Either every result is dispositioned or none is").      *)
RefusedLandsNothing ==
  \A r \in Requests :
    thr[r].reply \in {400, 500} /\ "rename" \notin thr[r].faults =>
      \A s \in Slot : ~LandedFrom(r, s)

(* A staged file outlives its request only when the process stopped, the   *)
(* write of that file failed or its unlink did ("no orphan .tmp").         *)
NoOrphanStage ==
  \A s \in Slot, i \in Indices : staging[s][i] # None =>
    LET r == staging[s][i].req
    IN  InFlight(r) \/ thr[r].reply = None \/ thr[r].faults \cap {"write", "unlink"} # {}

(* Every request is answered unless the process stops ("No exception       *)
(* leaves a connection unanswered").                                       *)
Answered ==
  \A r \in Requests : InFlight(r) ~> thr[r].reply # None \/ used.stops # 0
=============================================================================
