------------------------- MODULE SessionDispatcher -------------------------
(***************************************************************************)
(* The gateway's stage dispatcher (gateway/dispatcher.py) with the three   *)
(* stage handlers GatewayNodeManager gives it.  One event loop runs every  *)
(* coroutine, so a step is what happens between two suspensions: queues    *)
(* are unbounded and the lock is never held across a suspension, so a put  *)
(* and a lock never suspend; a get, a handler, the wait for a run slot and *)
(* runtime.cancel() do.                                                    *)
(***************************************************************************)
EXTENDS Naturals, Sequences, FiniteSets

CONSTANTS
  Sessions,     \* session ids, single-use
  InitWorkers,  \* the pools; the run slots are as many as the run workers
  RunWorkers,
  PostWorkers,
  None          \* no session

Workers == InitWorkers \cup RunWorkers \cup PostWorkers
MaxRun  == Cardinality(RunWorkers)

ASSUME PoolsAssumption ==
  /\ IsFiniteSet(Workers)
  /\ InitWorkers # {} /\ RunWorkers # {} /\ PostWorkers # {}
  /\ InitWorkers \cap RunWorkers = {}
  /\ InitWorkers \cap PostWorkers = {}
  /\ RunWorkers \cap PostWorkers = {}
ASSUME NoneAssumption == None \notin Sessions

VARIABLES
  phase,    \* of the dispatcher; its workers live until it has stopped
  halting,  \* sessions stop() has taken out and has yet to cancel
  known,    \* _sessions
  sess,     \* each ManagedSession
  queue,    \* the three stage queues
  slots,    \* value of the semaphore _ready_slots
  waiters,  \* init workers in line for it
  job,      \* what each worker does
  calls     \* handler calls made for each session (observation only)

vars == <<phase, halting, known, sess, queue, slots, waiters, job, calls>>

Stages == {"new", "INIT", "READY", "RUNNING", "POSTRUN"}

(* cancelled says what the session was at when cancel_requested was set:   *)
(* waiting in INIT, parked in READY, or with a worker.  wake is the state  *)
(* of the cancel() that will queue a parked session: still awaiting the    *)
(* session's runtime, or left by an exception of it.                       *)
Managed == [stage : Stages, inflight : BOOLEAN, runtime : BOOLEAN, final : BOOLEAN,
            cancelled : {"no", "queued", "parked", "working"},
            wake : {"none", "awaited", "raised"}]

New  == [stage |-> "new", inflight |-> FALSE, runtime |-> FALSE, final |-> FALSE,
         cancelled |-> "no", wake |-> "none"]
Idle == [sid |-> None, at |-> "idle"]

Init ==
  /\ phase = "up"
  /\ halting = {}
  /\ known = {}
  /\ sess = [s \in Sessions |-> New]
  /\ queue = [init |-> <<>>, ready |-> <<>>, post |-> <<>>]
  /\ slots = MaxRun
  /\ waiters = <<>>
  /\ job = [w \in Workers |-> Idle]
  /\ calls = [s \in Sessions |-> [init |-> 0, run |-> 0, post |-> 0]]

Alive        == phase # "stopped"
Cancelled(s) == sess[s].cancelled # "no"
At(w, p)     == Alive /\ job[w].at = p
Free(w)      == job' = [job EXCEPT ![w] = Idle]
Waiting(q)   == queue[q] # <<>>
First(q)     == Head(queue[q])

-----------------------------------------------------------------------------
(* Mutant: an id that is already known is enqueued again.                  *)
EnqueueAgain(s) ==
  /\ phase = "up"
  /\ known' = known \cup {s}
  /\ sess' = [sess EXCEPT ![s].stage = "INIT"]
  /\ queue' = [queue EXCEPT !.init = Append(@, s)]
  /\ UNCHANGED <<phase, halting, slots, waiters, job, calls>>

Enqueue(s) ==
  /\ phase = "up"
  /\ sess[s].stage = "new"
  /\ known' = known \cup {s}
  /\ sess' = [sess EXCEPT ![s].stage = "INIT"]
  /\ queue' = [queue EXCEPT !.init = Append(@, s)]
  /\ UNCHANGED <<phase, halting, slots, waiters, job, calls>>

(* _move_to_postrun, for a session whose record has become m; q is the     *)
(* queue as the caller leaves it.  The code gives a slot back here to a    *)
(* session in READY that is not in flight; the one caller that asks for it *)
(* comes from INIT.                                                        *)
MoveToPostrun(s, m, q) ==
  IF s \in known /\ m.stage # "POSTRUN"
  THEN /\ sess' = [sess EXCEPT ![s] = [m EXCEPT !.stage = "POSTRUN", !.inflight = FALSE]]
       /\ queue' = [q EXCEPT !.post = Append(@, s)]
  ELSE /\ sess' = [sess EXCEPT ![s] = m]
       /\ queue' = q

(* Mutant: a session taken from its queue is not marked in flight.         *)
BeganQuietly(s, stage) == [sess[s] EXCEPT !.stage = stage]

(* _begin, and what a worker takes from its queue.                         *)
Began(s, stage) == [sess[s] EXCEPT !.stage = stage, !.inflight = TRUE]
Taken(q)        == [queue EXCEPT ![q] = Tail(@)]
Skips(s)        == Cancelled(s) \/ sess[s].final

(* A worker takes the id of a session that is gone.                        *)
Drop(w, q) ==
  /\ At(w, "idle")
  /\ Waiting(q)
  /\ First(q) \notin known
  /\ queue' = Taken(q)
  /\ UNCHANGED <<phase, halting, known, sess, slots, waiters, job, calls>>

(* The start of a handler, which suspends.                                 *)
Call(w, q, counter) ==
  /\ At(w, "idle")
  /\ Waiting(q)
  /\ First(q) \in known
  /\ queue' = Taken(q)
  /\ job' = [job EXCEPT ![w] = [sid |-> First(q), at |-> "handler"]]
  /\ calls' = [calls EXCEPT ![First(q)][counter] = @ + 1]
  /\ UNCHANGED <<phase, halting, known, slots, waiters>>

-----------------------------------------------------------------------------
InitDrop(w) == Drop(w, "init")

(* on_init makes the runtime before it suspends, or is going to fail.      *)
InitCall(w) ==
  /\ Call(w, "init", "init")
  /\ ~Skips(First("init"))
  /\ \E made \in BOOLEAN :
       sess' = [sess EXCEPT ![First("init")] =
                  [Began(First("init"), "INIT") EXCEPT !.runtime = made]]

(* on_init is skipped, and _finish_init finds the cancellation.            *)
InitSkip(w) ==
  /\ At(w, "idle")
  /\ Waiting("init")
  /\ LET s == First("init")
     IN  /\ s \in known
         /\ Skips(s)
         /\ MoveToPostrun(s, Began(s, "INIT"), Taken("init"))
  /\ UNCHANGED <<phase, halting, known, slots, waiters, job, calls>>

(* The handler returns, with an error result or without one, and           *)
(* _finish_init goes on until it waits for a slot.                         *)
InitEnds(w, failed) ==
  /\ w \in InitWorkers
  /\ At(w, "handler")
  /\ LET s == job[w].sid
         m == [sess[s] EXCEPT !.final = failed]
     IN  /\ ~sess[s].runtime /\ ~Cancelled(s) => failed
         /\ \/ /\ Cancelled(s) \/ failed
               /\ MoveToPostrun(s, m, queue)
               /\ Free(w)
               /\ UNCHANGED waiters
            \/ /\ ~Cancelled(s) /\ ~failed
               /\ s \notin known
               /\ Free(w)
               /\ UNCHANGED <<sess, queue, waiters>>
            \/ /\ ~Cancelled(s) /\ ~failed
               /\ s \in known
               /\ sess' = [sess EXCEPT ![s] = [m EXCEPT !.stage = "READY", !.inflight = FALSE]]
               /\ job' = [job EXCEPT ![w].at = "slot"]
               /\ waiters' = Append(waiters, w)
               /\ UNCHANGED queue
  /\ UNCHANGED <<phase, halting, known, slots, calls>>

(* Mutant: the semaphore does not wait for a slot to be free.              *)
GetAnySlot ==
  /\ Alive
  /\ waiters # <<>>
  /\ slots' = slots - 1
  /\ waiters' = Tail(waiters)
  /\ job' = [job EXCEPT ![Head(waiters)].at = "granted"]
  /\ UNCHANGED <<phase, halting, known, sess, queue, calls>>

(* The semaphore is given in order.                                        *)
GetSlot ==
  /\ Alive
  /\ waiters # <<>>
  /\ slots > 0
  /\ slots' = slots - 1
  /\ waiters' = Tail(waiters)
  /\ job' = [job EXCEPT ![Head(waiters)].at = "granted"]
  /\ UNCHANGED <<phase, halting, known, sess, queue, calls>>

(* The init worker resumes: with the slot, with a slot it has to give back *)
(* because the session was cancelled meanwhile, or without one.            *)
TakeSlot(w) ==
  /\ At(w, "granted")
  /\ ~Cancelled(job[w].sid)
  /\ queue' = [queue EXCEPT !.ready = Append(@, job[w].sid)]
  /\ Free(w)
  /\ UNCHANGED <<phase, halting, known, sess, slots, waiters, calls>>

ReturnSlot(w) ==
  /\ At(w, "granted")
  /\ Cancelled(job[w].sid)
  /\ slots' = slots + 1
  /\ MoveToPostrun(job[w].sid, sess[job[w].sid], queue)
  /\ Free(w)
  /\ UNCHANGED <<phase, halting, known, waiters, calls>>

Without(line, i) == SubSeq(line, 1, i - 1) \o SubSeq(line, i + 1, Len(line))

LeaveLine(w) ==
  /\ At(w, "slot")
  /\ Cancelled(job[w].sid)
  /\ \E i \in DOMAIN waiters :
       /\ waiters[i] = w
       /\ waiters' = Without(waiters, i)
  /\ MoveToPostrun(job[w].sid, sess[job[w].sid], queue)
  /\ Free(w)
  /\ UNCHANGED <<phase, halting, known, slots, calls>>

-----------------------------------------------------------------------------
RunDrop(w) == Drop(w, "ready")

RunCall(w) ==
  /\ Call(w, "ready", "run")
  /\ ~Skips(First("ready"))
  /\ sess' = [sess EXCEPT ![First("ready")] = Began(First("ready"), "RUNNING")]

RunSkip(w) ==
  /\ At(w, "idle")
  /\ Waiting("ready")
  /\ LET s == First("ready")
     IN  /\ s \in known
         /\ Skips(s)
         /\ MoveToPostrun(s, Began(s, "RUNNING"), Taken("ready"))
  /\ slots' = slots + 1
  /\ UNCHANGED <<phase, halting, known, waiters, job, calls>>

(* Mutants: the slot is not given back; it is not given back for a session *)
(* whose cancellation is taken to have done so.                            *)
RunEndsGiving(w, n) ==
  /\ w \in RunWorkers
  /\ At(w, "handler")
  /\ slots' = slots + n
  /\ MoveToPostrun(job[w].sid, sess[job[w].sid], queue)
  /\ Free(w)
  /\ UNCHANGED <<phase, halting, known, waiters, calls>>
RunEndsLeaking(w) == RunEndsGiving(w, 0)
RunEndsUnlessCancelled(w) ==
  RunEndsGiving(w, IF Cancelled(job[w].sid) THEN 0 ELSE 1)

RunEnds(w) ==
  /\ w \in RunWorkers
  /\ At(w, "handler")
  /\ slots' = slots + 1
  /\ MoveToPostrun(job[w].sid, sess[job[w].sid], queue)
  /\ Free(w)
  /\ UNCHANGED <<phase, halting, known, waiters, calls>>

(* Mutant: a cancelled session is skipped in POSTRUN as in other stages.   *)
PostDropCancelled(w) ==
  /\ At(w, "idle")
  /\ Waiting("post")
  /\ First("post") \notin known \/ Cancelled(First("post"))
  /\ known' = known \ {First("post")}
  /\ queue' = Taken("post")
  /\ UNCHANGED <<phase, halting, sess, slots, waiters, job, calls>>

PostDrop(w) == Drop(w, "post")

PostCall(w) ==
  /\ Call(w, "post", "post")
  /\ sess' = [sess EXCEPT ![First("post")] = Began(First("post"), "POSTRUN")]

PostEnds(w) ==
  /\ w \in PostWorkers
  /\ At(w, "handler")
  /\ known' = known \ {job[w].sid}
  /\ Free(w)
  /\ UNCHANGED <<phase, halting, sess, queue, slots, waiters, calls>>

-----------------------------------------------------------------------------
(* cancel(), up to its wait for the runtime; a session without one does    *)
(* not wait.                                                               *)
(* Mutant: a session in INIT counts as queued even with its on_init on.    *)
QueuedOrNot(s) == sess[s].stage = "INIT"

Parked(s) == sess[s].stage = "READY" /\ ~sess[s].inflight
Queued(s) == sess[s].stage = "INIT" /\ ~sess[s].inflight

(* Mutant: nothing is queued after the wait for the runtime.               *)
CancelForgets(s, was) ==
  /\ sess' = [sess EXCEPT ![s] = [@ EXCEPT
       !.cancelled = was, !.stage = "POSTRUN", !.inflight = FALSE]]
  /\ queue' = IF sess[s].runtime THEN queue
              ELSE [queue EXCEPT !.post = Append(@, s)]

CancelParked(s, was) ==
  /\ sess' = [sess EXCEPT ![s] = [@ EXCEPT
       !.cancelled = was, !.stage = "POSTRUN", !.inflight = FALSE,
       !.wake = IF sess[s].runtime THEN "awaited" ELSE "none"]]
  /\ queue' = IF sess[s].runtime THEN queue
              ELSE [queue EXCEPT !.post = Append(@, s)]

Cancel(s) ==
  /\ phase = "up"
  /\ s \in known
  /\ ~Cancelled(s)
  /\ \/ /\ Parked(s)
        /\ slots' = slots + 1
        /\ CancelParked(s, "parked")
     \/ /\ Queued(s)
        /\ CancelParked(s, "queued")
        /\ UNCHANGED slots
     \/ /\ ~Parked(s) /\ ~Queued(s)
        /\ sess' = [sess EXCEPT ![s].cancelled = "working"]
        /\ UNCHANGED <<queue, slots>>
  /\ UNCHANGED <<phase, halting, known, waiters, job, calls>>

(* runtime.cancel() returns, or raises past the put.                       *)
CancelEnds(s) ==
  /\ Alive
  /\ sess[s].wake = "awaited"
  /\ \/ /\ sess' = [sess EXCEPT ![s].wake = "none"]
        /\ queue' = [queue EXCEPT !.post = Append(@, s)]
     \/ /\ sess' = [sess EXCEPT ![s].wake = "raised"]
        /\ UNCHANGED queue
  /\ UNCHANGED <<phase, halting, known, slots, waiters, job, calls>>

-----------------------------------------------------------------------------
(* stop().  The server has finished its requests by then, cancel() calls   *)
(* included.  The sessions are cancelled one after the other; a runtime    *)
(* that cannot be cancelled ends stop() there, with the workers alive.     *)
Stop ==
  /\ phase = "up"
  /\ \A s \in Sessions : sess[s].wake # "awaited"
  /\ phase' = "stopping"
  /\ halting' = known
  /\ known' = {}
  /\ UNCHANGED <<sess, queue, slots, waiters, job, calls>>

StopOne(s) ==
  /\ phase = "stopping"
  /\ s \in halting
  /\ sess' = [sess EXCEPT ![s].cancelled = IF @ = "no" THEN "working" ELSE @]
  /\ \/ /\ halting' = halting \ {s}
        /\ UNCHANGED phase
     \/ /\ sess[s].runtime
        /\ phase' = "broken"
        /\ halting' = {}
  /\ UNCHANGED <<known, queue, slots, waiters, job, calls>>

StopEnds ==
  /\ phase = "stopping"
  /\ halting = {}
  /\ phase' = "stopped"
  /\ job' = [w \in Workers |-> Idle]
  /\ waiters' = <<>>
  /\ UNCHANGED <<halting, known, sess, queue, slots, calls>>

-----------------------------------------------------------------------------
InitStep(w) == \/ InitDrop(w) \/ InitCall(w) \/ InitSkip(w)
               \/ \E failed \in BOOLEAN : InitEnds(w, failed)
               \/ TakeSlot(w) \/ ReturnSlot(w) \/ LeaveLine(w)
RunStep(w)  == RunDrop(w) \/ RunCall(w) \/ RunSkip(w) \/ RunEnds(w)
PostStep(w) == PostDrop(w) \/ PostCall(w) \/ PostEnds(w)
Work        == \/ \E w \in InitWorkers : InitStep(w)
               \/ \E w \in RunWorkers : RunStep(w)
               \/ \E w \in PostWorkers : PostStep(w)
               \/ GetSlot
Requested   == \E s \in Sessions : Enqueue(s) \/ Cancel(s) \/ CancelEnds(s)
Shutdown    == Stop \/ StopEnds \/ \E s \in Sessions : StopOne(s)

Next == Work \/ Requested \/ Shutdown

(* A handler returns: its awaits have the session's budget or a timeout of *)
(* their own.  runtime.cancel() returns or raises.                         *)
Fairness ==
  /\ \A w \in InitWorkers : WF_vars(InitStep(w))
  /\ \A w \in RunWorkers : WF_vars(RunStep(w))
  /\ \A w \in PostWorkers : WF_vars(PostStep(w))
  /\ WF_vars(GetSlot)
  /\ \A s \in Sessions : WF_vars(CancelEnds(s))

Spec == Init /\ [][Next]_vars /\ Fairness

-----------------------------------------------------------------------------
TypeOK ==
  /\ phase \in {"up", "stopping", "stopped", "broken"}
  /\ halting \subseteq Sessions
  /\ known \subseteq Sessions
  /\ sess \in [Sessions -> Managed]
  /\ queue \in [init : Seq(Sessions), ready : Seq(Sessions), post : Seq(Sessions)]
  /\ slots \in Nat
  /\ waiters \in Seq(InitWorkers)
  /\ job \in [Workers -> [sid : Sessions \cup {None},
                          at : {"idle", "handler", "slot", "granted"}]]
  /\ calls \in [Sessions -> [init : Nat, run : Nat, post : Nat]]

Places(s, q)    == {i \in DOMAIN queue[q] : queue[q][i] = s}
Jobs(s, W, ats) == {w \in W : job[w].sid = s /\ job[w].at \in ats}

(* Where a session is, one set for each thing stage and inflight can say.  *)
Wheres == {"INIT", "initializing", "READY", "running", "POSTRUN", "postrunning"}
Where(s, p) ==
  CASE p = "INIT"         -> Cardinality(Places(s, "init"))
    [] p = "initializing" -> Cardinality(Jobs(s, InitWorkers, {"handler"}))
    [] p = "READY"        -> Cardinality(Places(s, "ready"))
                             + Cardinality(Jobs(s, InitWorkers, {"slot", "granted"}))
    [] p = "running"      -> Cardinality(Jobs(s, RunWorkers, {"handler"}))
    [] p = "POSTRUN"      -> Cardinality(Places(s, "post"))
    [] p = "postrunning"  -> Cardinality(Jobs(s, PostWorkers, {"handler"}))
Says(s) ==
  CASE sess[s].stage = "INIT"    -> IF sess[s].inflight THEN "initializing" ELSE "INIT"
    [] sess[s].stage = "READY"   -> "READY"
    [] sess[s].stage = "RUNNING" -> "running"
    [] sess[s].stage = "POSTRUN" -> IF sess[s].inflight THEN "postrunning" ELSE "POSTRUN"
    [] OTHER                     -> "new"

(* cancel() reads off stage and inflight where a session is, and snapshot()*)
(* counts by them: they tell the truth, of one place, for every session    *)
(* but one cancelled while it waited for its stage.                        *)
StageTellsWhere ==
  phase = "up" =>
    \A s \in known : sess[s].cancelled \in {"no", "working"} =>
      \A p \in Wheres : Where(s, p) = IF p = Says(s) THEN 1 ELSE 0

(* No session is forgotten: one that the dispatcher knows is in a queue,   *)
(* with a worker or about to be queued by the cancel() that waits for its  *)
(* runtime, unless that cancel() has been left by an exception.            *)
NotLost ==
  phase = "up" =>
    \A s \in known : sess[s].wake = "none" => \E p \in Wheres : Where(s, p) > 0

(* Run slots are not leaked: each is free, or on its way to the run queue, *)
(* or held by a session queued for or in RUNNING; there are more of them   *)
(* only where a parked session was cancelled.                              *)
Holding ==
  Len(queue.ready) + Cardinality({w \in InitWorkers : job[w].at = "granted"})
                   + Cardinality({w \in RunWorkers : job[w].at = "handler"})
CancelledParked == {s \in Sessions : sess[s].cancelled = "parked"}
SlotsKept ==
  phase = "up" =>
    /\ slots + Holding >= MaxRun
    /\ slots + Holding <= MaxRun + Cardinality(CancelledParked)

(* on_postrun of a session, which builds its result and stops its runtime, *)
(* never overlaps its own on_init or on_run, whenever it is cancelled: the *)
(* queue it was cancelled from, or the worker that has it, brings it there.*)
(* That is all: cancel() itself awaits runtime.cancel() (169-170), which   *)
(* by design stops the command in flight and tears the runtime down under  *)
(* the handler that works in it (runtime/base.py:70-79).                   *)
PostrunAlone ==
  \A s \in Sessions : Jobs(s, PostWorkers, {"handler"}) # {} =>
    Jobs(s, InitWorkers \cup RunWorkers, {"handler"}) = {}

(* Each stage happens at most once: no session is initialized or run twice,*)
(* and its results are built and pushed once unless it was cancelled while *)
(* it waited for a stage.                                                  *)
StagesOnce ==
  \A s \in Sessions :
    /\ calls[s].init <= 1
    /\ calls[s].run <= calls[s].init
    /\ sess[s].cancelled \in {"no", "working"} => calls[s].post <= 1

(* A session leaves the dispatcher through POSTRUN, where its runtime is   *)
(* stopped and its result pushed, whatever happened before.                *)
TornDown ==
  phase = "up" =>
    \A s \in Sessions \ known : sess[s].stage # "new" => calls[s].post > 0

(* Every session leaves: the init workers that wait for a run slot, the    *)
(* run workers and the cancellations never come to wait for one another.   *)
EveryoneLeaves ==
  \A s \in Sessions : s \in known ~> (s \notin known \/ sess[s].wake = "raised")

(* What cancel() believes of a parked session ("parked in READY (holding a *)
(* ready slot), release it") would keep this: no more sessions are admitted*)
(* past the wait for a run slot than there are run slots.                  *)
Past(s)  == Places(s, "ready") # {} \/ Jobs(s, RunWorkers, {"handler"}) # {}
Admitted == {s \in known : ~Cancelled(s) /\ Past(s)}
RunSlotsBounded == Cardinality(Admitted) <= MaxRun
=============================================================================
