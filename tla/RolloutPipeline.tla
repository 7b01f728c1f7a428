-------------------------- MODULE RolloutPipeline --------------------------
(***************************************************************************)
(* How the rollout server gets the sessions of one task run: the pipeline  *)
(* coroutine of each session (rollout/pipeline.py), the task they make up  *)
(* (rollout/manager.py), the book of nodes they are dispatched by          *)
(* (rollout/balancer.py), and what of a gateway node the server meets over *)
(* HTTP: its session registry and the life of a session behind it          *)
(* (gateway/node.py, session.py; SessionDispatcher has the inside).        *)
(* The server is one event loop: a step is what happens between two        *)
(* suspensions, or what happens at a node.                                 *)
(***************************************************************************)
EXTENDS Naturals, FiniteSets

CONSTANTS
  Nodes,       \* gateway nodes
  Sessions,    \* the sessions of the task
  Loads,       \* what a heartbeat of each node may report: [total, post]
  Limit,       \* admission limit of a node
  PostLimit,   \* its limit of the postrun backlog
  None,
  MaxFaults,   \* bound: exchanges and saves that fail, nodes that crash
  MaxDrains    \* bound: nodes that are drained

ASSUME NodesAssumption == IsFiniteSet(Nodes) /\ IsFiniteSet(Sessions)
ASSUME LoadsAssumption ==
  Loads \in [Nodes -> SUBSET [total : Nat, post : Nat]]
ASSUME LimitsAssumption == Limit \in Nat \ {0} /\ PostLimit \in Nat \ {0}
ASSUME BoundsAssumption == MaxFaults \in Nat /\ MaxDrains \in Nat
ASSUME NoneAssumption == None \notin Nodes

VARIABLES
  task,      \* status of the _TaskRecord
  co,        \* the coroutine of each session, its node, its clock
  future,    \* _pending: the future each coroutine waits for
  result,    \* what was recorded for each session
  book,      \* NodeScheduler._nodes, None for a node it does not know
  fresh,     \* nodes with a heartbeat recent enough
  up,        \* nodes that are alive
  gate,      \* at each node, each session: registry entry and life
  late,      \* dispatches the server gave up on that may still arrive
  unsure,    \* nodes where an exchange about a session ended in doubt
  made,      \* history: what nodes have made of each session
  used       \* of the bounds

server == <<task, co, future, result>>
nodes  == <<up, gate, made>>
vars   == <<task, co, future, result, book, fresh, up, gate, late, unsure,
            made, used>>

Outcomes == {"result", "cancelled"}        \* what a node may make of a session
Coroutine == [pc : {"new", "pick", "post", "acked", "denied", "confirm", "wait",
                    "poll", "persist", "cleanup", "ended", "failed"},
              node : Nodes \cup {None},    \* session.node_id, gateway_url
              over : BOOLEAN,              \* the deadline it looks at has passed
              started : BOOLEAN]           \* execution_timeout_started
Entry     == [total : Nat, post : Nat, resv : Nat, draining : BOOLEAN]
AtNode    == [reg : {"absent", "REGISTERED", "ACTIVE", "DONE"},
              payload : Outcomes \cup {"none"},
              life : {"none", "queued", "running"} \cup Outcomes,
              cancelled : BOOLEAN]

Nothing    == [reg |-> "absent", payload |-> "none", life |-> "none", cancelled |-> FALSE]
Registered == [total |-> 0, post |-> 0, resv |-> 0, draining |-> FALSE]

Init ==
  /\ task = "none"
  /\ co = [s \in Sessions |-> [pc |-> "new", node |-> None, over |-> FALSE, started |-> FALSE]]
  /\ future = [s \in Sessions |-> "absent"]
  /\ result = [s \in Sessions |-> "none"]
  /\ book = [n \in Nodes |-> Registered]
  /\ fresh = Nodes
  /\ up = Nodes
  /\ gate = [n \in Nodes |-> [s \in Sessions |-> Nothing]]
  /\ late = [s \in Sessions |-> {}]
  /\ unsure = [s \in Sessions |-> {}]
  /\ made = [s \in Sessions |-> {}]
  /\ used = [faults |-> 0, drains |-> 0]

At(s, p)   == co[s].pc = p
Go(s, p)   == co' = [co EXCEPT ![s].pc = p]
Fault      == used.faults < MaxFaults /\ used' = [used EXCEPT !.faults = @ + 1]
Healthy    == UNCHANGED used

(* submit_task: the coroutines of all samples start.                       *)
Submit ==
  /\ task = "none"
  /\ task' = "running"
  /\ co' = [s \in Sessions |-> [co[s] EXCEPT !.pc = "pick"]]
  /\ future' = [s \in Sessions |-> "open"]
  /\ UNCHANGED <<result, book, fresh, nodes, late, unsure, used>>

(* A coroutine has its result; the future leaves _pending.                 *)
Finish(s, c, r) ==
  /\ co' = [co EXCEPT ![s] = [c EXCEPT !.pc = "persist"]]
  /\ result' = [result EXCEPT ![s] = r]
  /\ future' = [future EXCEPT ![s] = "absent"]

(* Time: the session's timeout runs out during the dispatch, or the        *)
(* callback deadline does after INIT was seen.                             *)
TimePasses(s) ==
  /\ ~co[s].over
  /\ \/ co[s].pc \in {"pick", "post", "acked", "denied", "confirm"}
     \/ co[s].pc \in {"wait", "poll"} /\ co[s].started
  /\ co' = [co EXCEPT ![s].over = TRUE]
  /\ UNCHANGED <<task, future, result, book, fresh, nodes, late, unsure, used>>

-----------------------------------------------------------------------------
(* NodeScheduler.  Health is recomputed from the heartbeats at every pick, *)
(* so mark_unhealthy leaves nothing behind.  The score orders the          *)
(* candidates by load; any of them may be the least loaded.                *)
Eligible(n) ==
  /\ book[n] # None
  /\ n \in fresh
  /\ ~book[n].draining
  /\ book[n].total + book[n].resv < Limit
  /\ book[n].post < PostLimit

KeptUnlessDrained(b) == IF b.draining /\ b.total + b.resv = 0 THEN None ELSE b

Released(n) ==
  IF book[n] = None THEN book
  ELSE [book EXCEPT ![n] = KeptUnlessDrained(
          [book[n] EXCEPT !.resv = IF @ = 0 THEN 0 ELSE @ - 1])]

Register(n) ==
  /\ book' = [book EXCEPT ![n] = IF @ = None THEN Registered ELSE [@ EXCEPT !.resv = 0]]
  /\ fresh' = fresh \cup {n}

(* Bound: the book moves only while a coroutine may yet look at it.        *)
Watched == \E s \in Sessions :
  co[s].pc \in {"pick", "post", "acked", "denied", "confirm"}

(* The metrics are of a moment before and count other tasks' sessions too: *)
(* any load.  A node that is told it is unknown registers again.           *)
Heartbeat(n) ==
  /\ n \in up /\ Watched
  /\ \/ /\ book[n] = None
        /\ Register(n)
     \/ /\ book[n] # None
        /\ \E l \in Loads[n] : book' = [book EXCEPT ![n] = KeptUnlessDrained(
             [@ EXCEPT !.total = l.total, !.post = l.post, !.resv = 0])]
        /\ fresh' = fresh \cup {n}
  /\ UNCHANGED <<server, nodes, late, unsure, used>>

Drain(n) ==
  /\ book[n] # None /\ Watched
  /\ used.drains < MaxDrains
  /\ used' = [used EXCEPT !.drains = @ + 1]
  /\ book' = [book EXCEPT ![n] = KeptUnlessDrained([@ EXCEPT !.draining = TRUE])]
  /\ UNCHANGED <<server, nodes, fresh, late, unsure>>

(* A node is gone, or its heartbeats are lost or late.                     *)
GoesStale(n) ==
  /\ n \in fresh /\ Watched
  /\ IF n \in up THEN Fault ELSE Healthy
  /\ fresh' = fresh \ {n}
  /\ UNCHANGED <<server, nodes, book, late, unsure>>

-----------------------------------------------------------------------------
(* _dispatch_session.  The reservation is made before the deadline is      *)
(* looked at.                                                              *)
AcquireNode(s, n) ==
  /\ At(s, "pick")
  /\ Eligible(n)
  /\ book' = [book EXCEPT ![n].resv = @ + 1]
  /\ LET c == [co[s] EXCEPT !.node = n]
     IN  \/ /\ ~co[s].over
            /\ co' = [co EXCEPT ![s] = [c EXCEPT !.pc = "post"]]
            /\ UNCHANGED <<future, result>>
         \/ /\ co[s].over
            /\ Finish(s, c, "TIMEOUT")
  /\ UNCHANGED <<task, nodes, fresh, late, unsure, used>>

(* Mutant: waiting for a node has no deadline.                             *)
WaitForNode(s) == FALSE

NoNode(s) ==
  /\ At(s, "pick")
  /\ \A n \in Nodes : ~Eligible(n)
  /\ co[s].over
  /\ Finish(s, co[s], "TIMEOUT")
  /\ UNCHANGED <<task, nodes, book, fresh, late, unsure, used>>

(* GatewayNodeManager.dispatch: session ids are single-use, for the        *)
(* registry, and for the dispatcher, which may have a deleted one still.   *)
Known(n, s) == gate[n][s].reg # "absent"
Fits(n, s)  == ~Known(n, s) /\ gate[n][s].life = "none"
Queued(g) == [g EXCEPT !.reg = "REGISTERED", !.life = "queued"]
Dispatched(n, s) ==
  gate' = IF Fits(n, s) THEN [gate EXCEPT ![n][s] = Queued(gate[n][s])] ELSE gate

Arrives(s) ==
  /\ At(s, "post")
  /\ LET n == co[s].node
     IN  /\ n \in up
         /\ Go(s, IF Fits(n, s) THEN "acked" ELSE "denied")
         /\ Dispatched(n, s)
  /\ UNCHANGED <<task, future, result, book, fresh, up, late, unsure, used, made>>

ArrivesLate(s, n) ==
  /\ n \in late[s] \cap up
  /\ late' = [late EXCEPT ![s] = @ \ {n}]
  /\ Dispatched(n, s)
  /\ UNCHANGED <<server, book, fresh, up, unsure, used, made>>

PostReturns(s) ==
  /\ At(s, "acked")
  /\ Go(s, "wait")
  /\ UNCHANGED <<task, future, result, nodes, book, fresh, late, unsure, used>>

Doubt(s) == unsure' = [unsure EXCEPT ![s] = @ \cup {co[s].node}]

(* The POST raises: an error status, no connection, or an answer that does *)
(* not come, of a request that is lost, delayed or accepted.               *)
PostRaises(s, next) ==
  /\ \/ At(s, "denied") /\ Healthy /\ UNCHANGED <<late, unsure>>
     \/ /\ co[s].pc \in {"post", "acked"}
        /\ IF co[s].node \in up THEN Fault ELSE Healthy
        /\ UNCHANGED <<late, unsure>>
     \/ /\ At(s, "post") /\ co[s].node \in up
        /\ Fault
        /\ late' = [late EXCEPT ![s] = @ \cup {co[s].node}]
        /\ Doubt(s)
  /\ next
  /\ UNCHANGED <<task, future, result, nodes, fresh>>

(* Mutant: a POST that failed is retried elsewhere without asking the node.*)
RetryElsewhere(s) ==
  PostRaises(s, /\ book' = Released(co[s].node)
                /\ co' = [co EXCEPT ![s].pc = "pick", ![s].node = None])

PostFails(s) == PostRaises(s, Go(s, "confirm") /\ UNCHANGED book)

(* _accepted_duplicate_dispatch.                                           *)
ConfirmFinds(s) ==
  /\ At(s, "confirm")
  /\ co[s].node \in up
  /\ Known(co[s].node, s)
  /\ Go(s, "wait")
  /\ UNCHANGED <<task, future, result, nodes, book, fresh, late, unsure, used>>

ConfirmFails(s) ==
  /\ At(s, "confirm")
  /\ LET n == co[s].node
     IN  /\ \/ /\ n \notin up \/ ~Known(n, s)
               /\ Healthy
               /\ UNCHANGED unsure
            \/ /\ n \in up
               /\ Fault
               /\ Doubt(s)
         /\ book' = Released(n)
  /\ \/ /\ co[s].over
        /\ Finish(s, co[s], "TIMEOUT")
     \/ /\ ~co[s].over
        /\ co' = [co EXCEPT ![s].pc = "pick", ![s].node = None]
        /\ UNCHANGED <<future, result>>
  /\ UNCHANGED <<task, nodes, fresh, late>>

-----------------------------------------------------------------------------
(* _wait_for_result: the future, and between two looks at it a poll.       *)
Receive(s) ==
  /\ At(s, "wait")
  /\ future[s] # "open"
  /\ Finish(s, co[s], future[s])
  /\ UNCHANGED <<task, nodes, book, fresh, late, unsure, used>>

Tick(s) ==
  /\ At(s, "wait")
  /\ future[s] = "open"
  /\ Go(s, "poll")
  /\ UNCHANGED <<task, future, result, nodes, book, fresh, late, unsure, used>>

(* The top of the loop looks at the deadline, not at the future.           *)
LoopTop(s, c) ==
  \/ /\ c.started /\ c.over
     /\ Finish(s, c, "TIMEOUT")
  \/ /\ ~(c.started /\ c.over)
     /\ co' = [co EXCEPT ![s] = [c EXCEPT !.pc = "wait"]]
     /\ UNCHANGED <<future, result>>

Polled(s) == gate[co[s].node][s]
PollFinds(s) ==
  /\ At(s, "poll")
  /\ co[s].node \in up
  /\ Polled(s).payload # "none"
  /\ Finish(s, co[s], Polled(s).payload)
  /\ UNCHANGED <<task, nodes, book, fresh, late, unsure, used>>

Started(s) == IF co[s].started \/ Polled(s).reg = "REGISTERED" THEN co[s]
              ELSE [co[s] EXCEPT !.started = TRUE, !.over = FALSE]

(* Mutant: a session that is DONE and shows no payload has failed.         *)
PollJudges(s) ==
  /\ At(s, "poll")
  /\ co[s].node \in up
  /\ Polled(s).reg # "absent" /\ Polled(s).payload = "none"
  /\ IF Polled(s).reg = "DONE" THEN Finish(s, co[s], "ERROR") ELSE LoopTop(s, Started(s))
  /\ UNCHANGED <<task, nodes, book, fresh, late, unsure, used>>

PollSees(s) ==
  /\ At(s, "poll")
  /\ co[s].node \in up
  /\ Polled(s).reg # "absent" /\ Polled(s).payload = "none"
  /\ LoopTop(s, Started(s))
  /\ UNCHANGED <<task, nodes, book, fresh, late, unsure, used>>

PollFails(s) ==
  /\ At(s, "poll")
  /\ \/ co[s].node \notin up /\ Healthy
     \/ co[s].node \in up /\ (IF Polled(s).reg = "absent" THEN Healthy ELSE Fault)
  /\ LoopTop(s, co[s])
  /\ UNCHANGED <<task, nodes, book, fresh, late, unsure>>

-----------------------------------------------------------------------------
(* The result is saved, recorded, and the session removed from its node.   *)
Persist(s) ==
  /\ At(s, "persist")
  /\ Go(s, "cleanup")
  /\ UNCHANGED <<task, future, result, nodes, book, fresh, late, unsure, used>>

(* The save raises, before the try whose finally cleans up; gather raises. *)
PersistFails(s) ==
  /\ At(s, "persist")
  /\ Fault
  /\ Go(s, "failed")
  /\ task' = "failed"
  /\ UNCHANGED <<future, result, nodes, book, fresh, late, unsure>>

(* delete_session at the node: cancel, then forget.                        *)
Forgotten(g) == [g EXCEPT !.reg = "absent", !.payload = "none",
                          !.cancelled = g.cancelled \/ g.life \in {"queued", "running"}]
Deleted(n, s) == [gate EXCEPT ![n][s] = Forgotten(gate[n][s])]

Cleanup(s) ==
  /\ At(s, "cleanup")
  /\ Go(s, "ended")
  /\ LET n == co[s].node
     IN  \/ /\ n \notin up                     \* none, or not there
            /\ Healthy /\ UNCHANGED <<gate, unsure>>
         \/ /\ n \in up
            /\ gate' = Deleted(n, s)
            /\ Healthy /\ UNCHANGED unsure
         \/ /\ n \in up                        \* the DELETE is lost
            /\ Fault /\ Doubt(s) /\ UNCHANGED gate
  /\ UNCHANGED <<task, future, result, up, book, fresh, late, made>>

TaskCompletes ==
  /\ task = "running"
  /\ \A s \in Sessions : At(s, "ended")
  /\ task' = "completed"
  /\ UNCHANGED <<co, future, result, nodes, book, fresh, late, unsure, used>>

-----------------------------------------------------------------------------
(* A node.  Its status changes and results reach the registry only while   *)
(* the session is registered.                                              *)
Running(g)  == [g EXCEPT !.life = "running",
                         !.reg = IF g.reg = "absent" THEN "absent" ELSE "ACTIVE"]
Ended(g, o) == [g EXCEPT !.life = o, !.reg = IF g.reg = "absent" THEN "absent" ELSE "DONE",
                         !.payload = IF g.reg = "absent" THEN g.payload ELSE o]

Begin(n, s) ==
  /\ gate[n][s].life = "queued"
  /\ gate' = [gate EXCEPT ![n][s] = Running(gate[n][s])]
  /\ UNCHANGED <<server, book, fresh, up, late, unsure, used, made>>

Ends(n, s) ==
  /\ gate[n][s].life = "running"
  /\ \E o \in Outcomes :
       /\ o = "cancelled" => gate[n][s].cancelled
       /\ gate' = [gate EXCEPT ![n][s] = Ended(gate[n][s], o)]
       /\ made' = [made EXCEPT ![s] = @ \cup {o}]
  /\ UNCHANGED <<server, book, fresh, up, late, unsure, used>>

(* _push_result and accept_callback_result: the callback is answered, lost,*)
(* or its answer is; answered, the registry drops the payload.             *)
Accepted(s, o) == future' = IF future[s] = "open" THEN [future EXCEPT ![s] = o] ELSE future
Pushed(g, payload) ==
  [g EXCEPT !.life = "none", !.cancelled = FALSE, !.payload = payload]
Push(n, s) ==
  /\ gate[n][s].life \in Outcomes
  /\ \/ /\ Accepted(s, gate[n][s].life)
        /\ gate' = [gate EXCEPT ![n][s] = Pushed(gate[n][s], "none")]
        /\ Healthy
     \/ /\ Accepted(s, gate[n][s].life) \/ UNCHANGED future
        /\ gate' = [gate EXCEPT ![n][s] = Pushed(gate[n][s], gate[n][s].payload)]
        /\ Fault
  /\ UNCHANGED <<task, co, result, book, fresh, up, late, unsure, made>>

Crash(n) ==
  /\ n \in up
  /\ Fault
  /\ up' = up \ {n}
  /\ gate' = [gate EXCEPT ![n] = [s \in Sessions |-> Nothing]]
  /\ late' = [s \in Sessions |-> late[s] \ {n}]
  /\ UNCHANGED <<server, book, fresh, unsure, made>>

Restart(n) ==
  /\ n \notin up
  /\ up' = up \cup {n}
  /\ Register(n)
  /\ UNCHANGED <<server, gate, late, unsure, used, made>>

-----------------------------------------------------------------------------
CoroutineStep(s) ==
  \/ \E n \in Nodes : AcquireNode(s, n)
  \/ NoNode(s) \/ Arrives(s) \/ PostReturns(s) \/ PostFails(s)
  \/ ConfirmFinds(s) \/ ConfirmFails(s)
  \/ Receive(s) \/ Tick(s) \/ PollFinds(s) \/ PollSees(s) \/ PollFails(s)
  \/ Persist(s) \/ PersistFails(s) \/ Cleanup(s)
NodeWork(n, s) == Begin(n, s) \/ Ends(n, s) \/ Push(n, s)

Next ==
  \/ Submit \/ TaskCompletes
  \/ \E s \in Sessions : CoroutineStep(s) \/ TimePasses(s)
  \/ \E n \in Nodes, s \in Sessions : ArrivesLate(s, n) \/ NodeWork(n, s)
  \/ \E n \in Nodes : Heartbeat(n) \/ Drain(n) \/ GoesStale(n) \/ Crash(n) \/ Restart(n)

(* The event loop runs every coroutine, every request has a timeout, time  *)
(* passes, and a node that is alive goes on with its sessions              *)
(* (SessionDispatcher!EveryoneLeaves).  Nobody has to submit, drain,       *)
(* restart a node or send a heartbeat.                                     *)
Fairness ==
  /\ WF_vars(TaskCompletes)
  /\ \A s \in Sessions : WF_vars(CoroutineStep(s)) /\ WF_vars(TimePasses(s))
  /\ \A n \in Nodes, s \in Sessions : WF_vars(NodeWork(n, s))

Spec == Init /\ [][Next]_vars /\ Fairness

-----------------------------------------------------------------------------
TypeOK ==
  /\ task \in {"none", "running", "completed", "failed"}
  /\ co \in [Sessions -> Coroutine]
  /\ future \in [Sessions -> {"absent", "open"} \cup Outcomes]
  /\ result \in [Sessions -> {"none", "TIMEOUT"} \cup Outcomes]
  /\ book \in [Nodes -> Entry \cup {None}]
  /\ fresh \subseteq Nodes /\ up \subseteq Nodes
  /\ gate \in [Nodes -> [Sessions -> AtNode]]
  /\ late \in [Sessions -> SUBSET Nodes] /\ unsure \in [Sessions -> SUBSET Nodes]
  /\ made \in [Sessions -> SUBSET Outcomes]
  /\ used \in [faults : 0..MaxFaults, drains : 0..MaxDrains]

(* What is recorded for a session is what a node made of it, and never the *)
(* result of a session the server itself had cancelled; or a TIMEOUT, and  *)
(* then the deadline had passed: an answer lost, repeated, cleared after   *)
(* its acknowledgement or held by a second node is never turned into a     *)
(* failure of the session before.  A completed task has a result of each.  *)
ResultsAreReal ==
  /\ \A s \in Sessions : \/ result[s] = "none"
                         \/ result[s] \in made[s] \ {"cancelled"}
                         \/ result[s] = "TIMEOUT" /\ co[s].over
  /\ task = "completed" => \A s \in Sessions : result[s] # "none"

(* A session is run only where its coroutine is about to wait for it,      *)
(* waits or cleans up; on another node, or after the coroutine has ended,  *)
(* only if an exchange with that very node had ended in doubt: a dispatch  *)
(* neither confirmed nor refuted, a DELETE that was lost.  A save that     *)
(* fails skips the cleanup.                                                *)
InCharge(s, n) ==
  /\ co[s].node = n
  /\ co[s].pc \in {"post", "acked", "denied", "confirm", "wait", "poll", "persist",
                   "cleanup", "failed"}
StraysAreUnsure ==
  \A n \in Nodes, s \in Sessions :
    gate[n][s].life \in {"queued", "running"} /\ ~gate[n][s].cancelled
      => InCharge(s, n) \/ n \in unsure[s]

(* A task ends ("poll until status becomes terminal"), whatever is lost    *)
(* and whichever node crashes, unless a node loses a session before a poll *)
(* has seen it past REGISTERED: no deadline is running then, and the server*)
(* waits for it for ever.                                                  *)
Abandoned(s) ==
  /\ co[s].pc \in {"wait", "poll"} /\ ~co[s].started
  /\ co[s].node \notin up \/ Polled(s).reg = "absent"
TaskEnds ==
  [](task = "running" => \/ <>(task # "running")
                         \/ <>[](\E s \in Sessions : Abandoned(s)))
=============================================================================
