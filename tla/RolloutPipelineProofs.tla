----------------------- MODULE RolloutPipelineProofs -----------------------
(***************************************************************************)
(* Theorems of RolloutPipeline: any number of nodes and sessions, any      *)
(* loads, limits and bounds.                                               *)
(***************************************************************************)
EXTENDS RolloutPipeline, TLAPS

(* Where a coroutine may yet be given a result, and where it has one.      *)
Awaiting == {"pick", "post", "acked", "denied", "confirm", "wait", "poll"}
Over     == {"persist", "cleanup", "ended", "failed"}

(* Before the task is submitted nobody has begun; a coroutine has a future *)
(* exactly while it may be given a result; a completed task's have ended.  *)
Phased ==
  /\ task = "none" => \A s \in Sessions : co[s].pc = "new"
  /\ \A s \in Sessions : future[s] # "absent" <=> co[s].pc \in Awaiting
  /\ task = "completed" => \A s \in Sessions : co[s].pc = "ended"

(* Whatever passes for a session's result, wherever it is on its way, is   *)
(* one that a node made.                                                   *)
FuturesMade ==
  \A s \in Sessions : future[s] \in Outcomes => future[s] \in made[s] \ {"cancelled"}
GatesMade ==
  \A n \in Nodes, s \in Sessions :
    /\ gate[n][s].payload \in Outcomes => gate[n][s].payload \in made[s]
    /\ gate[n][s].life \in Outcomes => gate[n][s].life \in made[s]

(* Only the cleanup cancels, at the end of the coroutine: what comes of it *)
(* finds nobody waiting.                                                   *)
CancelledLast ==
  \A n \in Nodes, s \in Sessions :
    gate[n][s].cancelled \/ "cancelled" \in {gate[n][s].life, gate[n][s].payload}
      => co[s].pc = "ended"

(* A coroutine that has its result has a real one.                         *)
RecordedOf(s) ==
  IF co[s].pc \in Over
    THEN result[s] \in made[s] \ {"cancelled"} \/ (result[s] = "TIMEOUT" /\ co[s].over)
    ELSE result[s] = "none"
Recorded == \A s \in Sessions : RecordedOf(s)

(* TypeOK, by who owns the variables.                                      *)
CoOK == co \in [Sessions -> Coroutine]
TaskOK ==
  /\ task \in {"none", "running", "completed", "failed"}
  /\ future \in [Sessions -> {"absent", "open"} \cup Outcomes]
  /\ result \in [Sessions -> {"none", "TIMEOUT"} \cup Outcomes]
BookOK ==
  /\ book \in [Nodes -> Entry \cup {None}]
  /\ fresh \subseteq Nodes /\ up \subseteq Nodes
GateOK == gate \in [Nodes -> [Sessions -> AtNode]]
PastOK ==
  /\ late \in [Sessions -> SUBSET Nodes] /\ unsure \in [Sessions -> SUBSET Nodes]
  /\ made \in [Sessions -> SUBSET Outcomes]
  /\ used \in [faults : 0..MaxFaults, drains : 0..MaxDrains]

ServerInv == CoOK /\ TaskOK /\ Phased /\ FuturesMade /\ Recorded
GateInv   == GateOK /\ GatesMade /\ CancelledLast
IndInv    == ServerInv /\ GateInv /\ BookOK /\ PastOK

(* No step takes back what was made, nor starts an ended coroutine again.  *)
Lasting ==
  \A s \in Sessions : /\ made[s] \subseteq made'[s]
                      /\ co[s].pc = "ended" => co'[s].pc = "ended"

-----------------------------------------------------------------------------
(* A step elsewhere, whatever it makes of the sessions.                    *)
LEMMA ServerStays ==
  ASSUME ServerInv, UNCHANGED server, \A r \in Sessions : made[r] \subseteq made'[r]
  PROVE  ServerInv' /\ Lasting
BY DEF ServerInv, server, CoOK, TaskOK, Phased, FuturesMade, Recorded, RecordedOf, Lasting

(* A coroutine that may be given a result goes on without one, or has one  *)
(* a node made of its session, or a timeout after its deadline.            *)
LEMMA CoroutineMoves ==
  ASSUME ServerInv, NEW s \in Sessions, NEW c \in Coroutine, co[s].pc \in Awaiting,
         co' = [co EXCEPT ![s] = c], UNCHANGED <<task, made>>,
         \/ c.pc \in Awaiting /\ UNCHANGED <<future, result>>
         \/ /\ c.pc = "persist"
            /\ future' = [future EXCEPT ![s] = "absent"]
            /\ \E r \in Outcomes \cup {"TIMEOUT"} :
                 /\ result' = [result EXCEPT ![s] = r]
                 /\ r \in made[s] \ {"cancelled"} \/ (r = "TIMEOUT" /\ c.over)
  PROVE  ServerInv' /\ Lasting
<1>1. CoOK' /\ co'[s] = c /\ \A r \in Sessions : r # s => co'[r] = co[r]
  BY DEF ServerInv, CoOK
<1>2. c.pc \notin {"new", "ended"} /\ task # "none" /\ task # "completed"
      /\ co[s].pc \notin Over \cup {"ended"}
  BY DEF ServerInv, Phased, Awaiting, Over
<1>3. TaskOK' BY DEF ServerInv, TaskOK, Outcomes
<1>4. Lasting BY <1>1, <1>2 DEF Lasting
<1>5. /\ future'[s] # "absent" <=> c.pc \in Awaiting
      /\ \A r \in Sessions : r # s => future'[r] = future[r]
      /\ future'[s] \in {future[s], "absent"}
  BY DEF ServerInv, Phased, TaskOK, Awaiting
<1>6. Phased' BY <1>1, <1>2, <1>5 DEF ServerInv, Phased
<1>7. FuturesMade' BY <1>5 DEF ServerInv, FuturesMade, Outcomes
<1>8. Recorded'
  <2> SUFFICES ASSUME NEW r \in Sessions PROVE RecordedOf(r)'
    BY DEF Recorded
  <2>1. CASE r # s BY <2>1, <1>1 DEF ServerInv, Recorded, RecordedOf, TaskOK
  <2>2. CASE r = s /\ c.pc \in Awaiting
    BY <2>2, <1>1, <1>2 DEF ServerInv, Recorded, RecordedOf, Awaiting, Over
  <2>3. CASE r = s /\ c.pc \notin Awaiting
    BY <2>3, <1>1 DEF ServerInv, TaskOK, Over, RecordedOf
  <2> QED BY <2>1, <2>2, <2>3
<1> QED BY <1>1, <1>3, <1>4, <1>6, <1>7, <1>8 DEF ServerInv

(* It waits for something else.                                            *)
LEMMA CoroutineWaits ==
  ASSUME ServerInv, NEW s \in Sessions, NEW p \in Awaiting, co[s].pc \in Awaiting,
         Go(s, p), UNCHANGED <<task, future, result, made>>
  PROVE  ServerInv' /\ Lasting
<1> DEFINE c == [co[s] EXCEPT !.pc = p]
<1>1. c \in Coroutine /\ c.pc \in Awaiting /\ co' = [co EXCEPT ![s] = c]
  BY DEF ServerInv, CoOK, Coroutine, Awaiting, Go
<1> HIDE DEF c
<1> QED BY <1>1, CoroutineMoves

(* It has its result.                                                      *)
LEMMA CoroutineFinishes ==
  ASSUME ServerInv, NEW s \in Sessions, co[s].pc \in Awaiting, UNCHANGED <<task, made>>,
         NEW c \in Coroutine, NEW r \in Outcomes \cup {"TIMEOUT"}, Finish(s, c, r),
         r \in made[s] \ {"cancelled"} \/ (r = "TIMEOUT" /\ c.over)
  PROVE  ServerInv' /\ Lasting
<1> DEFINE d == [c EXCEPT !.pc = "persist"]
<1>1. /\ d \in Coroutine /\ d.pc = "persist" /\ d.over = c.over
      /\ co' = [co EXCEPT ![s] = d]
      /\ future' = [future EXCEPT ![s] = "absent"]
      /\ result' = [result EXCEPT ![s] = r]
  BY DEF Coroutine, Finish
<1> HIDE DEF d
<1> QED BY <1>1, CoroutineMoves

(* It goes on after that.                                                  *)
LEMMA CoroutineLeaves ==
  ASSUME ServerInv, NEW s \in Sessions, co[s].pc \in {"persist", "cleanup"},
         NEW p \in Over, Go(s, p), task' \in {task, "failed"},
         UNCHANGED <<future, result, made>>
  PROVE  ServerInv' /\ Lasting
<1> DEFINE c == [co[s] EXCEPT !.pc = p]
<1>1. /\ c \in Coroutine /\ c.pc = p /\ c.over = co[s].over
      /\ co' = [co EXCEPT ![s] = c]
  BY DEF ServerInv, CoOK, Coroutine, Over, Go
<1> HIDE DEF c
<1>2. CoOK' /\ co'[s] = c /\ \A r \in Sessions : r # s => co'[r] = co[r]
  BY <1>1 DEF ServerInv, CoOK
<1>3. /\ task # "none" /\ task # "completed" /\ task' # "none" /\ task' # "completed"
      /\ c.pc \notin Awaiting /\ co[s].pc \notin Awaiting
      /\ co[s].pc # "ended" /\ co[s].pc \in Over /\ c.pc \in Over
  BY <1>1 DEF ServerInv, Phased, Awaiting, Over
<1>4. TaskOK' BY DEF ServerInv, TaskOK
<1>5. Phased' BY <1>2, <1>3 DEF ServerInv, Phased
<1>6. Lasting BY <1>2, <1>3 DEF Lasting
<1>7. FuturesMade' BY DEF ServerInv, FuturesMade
<1>8. Recorded'
  <2> SUFFICES ASSUME NEW r \in Sessions PROVE RecordedOf(r)'
    BY DEF Recorded
  <2>1. CASE r # s BY <2>1, <1>2 DEF ServerInv, Recorded, RecordedOf
  <2>2. CASE r = s BY <2>2, <1>1, <1>2, <1>3 DEF ServerInv, Recorded, RecordedOf
  <2> QED BY <2>1, <2>2
<1> QED BY <1>2, <1>4, <1>5, <1>6, <1>7, <1>8 DEF ServerInv

(* A step that leaves the gateways alone.                                  *)
LEMMA GateStays ==
  ASSUME GateInv, Lasting, UNCHANGED gate
  PROVE  GateInv'
<1>1. GateOK' BY DEF GateInv, GateOK
<1>2. GatesMade' BY DEF GateInv, GatesMade, Lasting
<1>3. CancelledLast' BY DEF GateInv, CancelledLast, Lasting
<1> QED BY <1>1, <1>2, <1>3 DEF GateInv

(* A step on one entry: what is put there was made of the session, and     *)
(* cancelled only when the coroutine has ended.                            *)
LEMMA GateMoves ==
  ASSUME GateInv, Lasting, NEW n \in Nodes, NEW s \in Sessions, NEW x \in AtNode,
         gate' = [gate EXCEPT ![n][s] = x],
         x.payload \in Outcomes => x.payload \in made'[s],
         x.life \in Outcomes => x.life \in made'[s],
         x.cancelled \/ "cancelled" \in {x.life, x.payload} => co'[s].pc = "ended"
  PROVE  GateInv'
<1>1. GateOK' BY DEF GateInv, GateOK
<1>2. gate'[n][s] = x BY DEF GateInv, GateOK
<1>3. \A m \in Nodes, r \in Sessions : m # n \/ r # s => gate'[m][r] = gate[m][r]
  BY DEF GateInv, GateOK
<1>4. GatesMade'
  <2> SUFFICES ASSUME NEW m \in Nodes, NEW r \in Sessions
               PROVE  /\ gate'[m][r].payload \in Outcomes => gate'[m][r].payload \in made'[r]
                      /\ gate'[m][r].life \in Outcomes => gate'[m][r].life \in made'[r]
    BY DEF GatesMade
  <2>1. CASE m = n /\ r = s BY <2>1, <1>2
  <2>2. CASE m # n \/ r # s BY <2>2, <1>3 DEF GateInv, GatesMade, Lasting
  <2> QED BY <2>1, <2>2
<1>5. CancelledLast'
  <2> SUFFICES ASSUME NEW m \in Nodes, NEW r \in Sessions,
                      gate'[m][r].cancelled \/ "cancelled" \in {gate'[m][r].life, gate'[m][r].payload}
               PROVE  co'[r].pc = "ended"
    BY DEF CancelledLast
  <2>1. CASE m = n /\ r = s BY <2>1, <1>2
  <2>2. CASE m # n \/ r # s BY <2>2, <1>3 DEF GateInv, CancelledLast, Lasting
  <2> QED BY <2>1, <2>2
<1> QED BY <1>1, <1>4, <1>5 DEF GateInv

(* The book of nodes stays a book.                                         *)
LEMMA Booked ==
  ASSUME BookOK, NEW n \in Nodes, NEW e \in Entry \cup {None}, book' = [book EXCEPT ![n] = e],
         fresh' \subseteq Nodes, up' \subseteq Nodes
  PROVE  BookOK'
BY DEF BookOK

(* What the scheduler makes of an entry is an entry, or none.              *)
LEMMA BookKeeping ==
  ASSUME BookOK, NEW n \in Nodes
  PROVE  /\ Released(n) \in [Nodes -> Entry \cup {None}]
         /\ \A b \in Entry : KeptUnlessDrained(b) \in Entry \cup {None}
         /\ Registered \in Entry
<1>1. \A b \in Entry : KeptUnlessDrained(b) \in Entry \cup {None}
  BY DEF KeptUnlessDrained
<1>2. CASE book[n] = None BY <1>1, <1>2 DEF Released, BookOK, Registered, Entry
<1>3. CASE book[n] # None
  <2> DEFINE b == [book[n] EXCEPT !.resv = IF @ = 0 THEN 0 ELSE @ - 1]
  <2>1. b \in Entry BY <1>3 DEF BookOK, Entry
  <2>2. Released(n) = [book EXCEPT ![n] = KeptUnlessDrained(b)]
    BY <1>3 DEF Released
  <2> HIDE DEF b
  <2>3. Released(n) \in [Nodes -> Entry \cup {None}] BY <1>1, <2>1, <2>2 DEF BookOK
  <2> QED BY <1>1, <2>3 DEF Registered, Entry
<1> QED BY <1>2, <1>3

(* The bounds are kept.                                                    *)
LEMMA Counted ==
  ASSUME PastOK, Fault \/ Healthy
  PROVE  used' \in [faults : 0..MaxFaults, drains : 0..MaxDrains]
BY BoundsAssumption DEF PastOK, Fault, Healthy

(* A dispatch that reaches a node.                                         *)
LEMMA DispatchKeeps ==
  ASSUME GateInv, Lasting, NEW n \in Nodes, NEW s \in Sessions, Dispatched(n, s)
  PROVE  GateInv'
<1> DEFINE g == gate[n][s]
           x == Queued(g)
<1>1. CASE ~Fits(n, s) BY <1>1, GateStays DEF Dispatched
<1>2. CASE Fits(n, s)
  <2>1. g \in AtNode BY DEF GateInv, GateOK
  <2>2. /\ x \in AtNode /\ x.life = "queued"
        /\ x.payload = g.payload /\ x.cancelled = g.cancelled
    BY <2>1 DEF AtNode, Queued
  <2>3. gate' = [gate EXCEPT ![n][s] = x] BY <1>2 DEF Dispatched
  <2>4. g.payload \in Outcomes => g.payload \in made'[s]
    BY DEF GateInv, GatesMade, Lasting
  <2>5. g.cancelled \/ g.payload = "cancelled" => co'[s].pc = "ended"
    BY DEF GateInv, CancelledLast, Lasting
  <2> HIDE DEF x, g
  <2> QED BY <2>2, <2>3, <2>4, <2>5, GateMoves DEF Outcomes
<1> QED BY <1>1, <1>2

-----------------------------------------------------------------------------
(* One lemma per action.  Those of the book and of the nodes' health touch *)
(* neither the sessions nor the entries at the nodes.                      *)
LEMMA AsideKeeps ==
  ASSUME IndInv, UNCHANGED <<server, gate, made>>, BookOK', PastOK'
  PROVE  IndInv'
<1>1. ServerInv' /\ Lasting BY ServerStays DEF IndInv
<1>2. GateInv' BY <1>1, GateStays DEF IndInv
<1> QED BY <1>1, <1>2 DEF IndInv

(* A heartbeat overwrites the load and forgets the reservations.           *)
LEMMA HeartbeatKeeps == ASSUME IndInv, NEW n \in Nodes, Heartbeat(n) PROVE IndInv'
<1>1. BookOK'
  <2>1. CASE book[n] = None /\ Register(n)
    BY <2>1, BookKeeping DEF IndInv, BookOK, Heartbeat, Register, nodes
  <2>2. CASE book[n] # None
    <3>1. PICK l \in Loads[n] : book' = [book EXCEPT ![n] = KeptUnlessDrained(
                                  [@ EXCEPT !.total = l.total, !.post = l.post, !.resv = 0])]
      BY <2>2 DEF Heartbeat
    <3>2. l \in [total : Nat, post : Nat] BY LoadsAssumption
    <3>3. [book[n] EXCEPT !.total = l.total, !.post = l.post, !.resv = 0] \in Entry
      BY <2>2, <3>2 DEF IndInv, BookOK, Entry
    <3> QED BY <2>2, <3>1, <3>3, BookKeeping DEF IndInv, BookOK, Heartbeat, nodes
  <2> QED BY <2>1, <2>2 DEF Heartbeat
<1>2. PastOK' BY DEF IndInv, PastOK, Heartbeat, nodes
<1> QED BY <1>1, <1>2, AsideKeeps DEF Heartbeat, nodes

(* Draining marks the node, or removes it when it is idle.                 *)
LEMMA DrainKeeps == ASSUME IndInv, NEW n \in Nodes, Drain(n) PROVE IndInv'
<1>1. [book[n] EXCEPT !.draining = TRUE] \in Entry
  BY DEF IndInv, BookOK, Entry, Drain
<1>2. BookOK' BY <1>1, BookKeeping DEF IndInv, BookOK, Drain, nodes
<1>3. PastOK' BY BoundsAssumption DEF IndInv, PastOK, Drain, nodes
<1> QED BY <1>2, <1>3, AsideKeeps DEF Drain, nodes

(* A node nobody has heard of for a while is not eligible.                 *)
LEMMA GoesStaleKeeps == ASSUME IndInv, NEW n \in Nodes, GoesStale(n) PROVE IndInv'
<1>1. BookOK' BY DEF IndInv, BookOK, GoesStale, nodes
<1>2. PastOK' BY Counted DEF IndInv, PastOK, GoesStale, nodes
<1> QED BY <1>1, <1>2, AsideKeeps DEF GoesStale, nodes

(* A node that comes back registers again.                                 *)
LEMMA RestartKeeps == ASSUME IndInv, NEW n \in Nodes, Restart(n) PROVE IndInv'
<1>1. [book[n] EXCEPT !.resv = 0] \in Entry \/ book[n] = None
  BY DEF IndInv, BookOK, Entry
<1>2. BookOK' BY <1>1, BookKeeping DEF IndInv, BookOK, Restart, Register
<1>3. PastOK' BY DEF IndInv, PastOK, Restart
<1> QED BY <1>2, <1>3, AsideKeeps DEF Restart

(* The coroutines start, each with a future.                               *)
LEMMA SubmitKeeps == ASSUME IndInv, Submit PROVE IndInv'
<1>1. CoOK' /\ \A s \in Sessions : co'[s].pc = "pick" /\ co[s].pc = "new"
  BY DEF IndInv, ServerInv, CoOK, Phased, Coroutine, Submit
<1>2. TaskOK' BY DEF IndInv, ServerInv, TaskOK, Submit
<1>3. Phased' BY <1>1 DEF Submit, Phased, Awaiting
<1>4. FuturesMade' BY DEF FuturesMade, Submit, Outcomes
<1>5. Recorded' BY <1>1 DEF IndInv, ServerInv, Recorded, RecordedOf, Over, Submit
<1>6. Lasting BY <1>1 DEF Lasting, Submit, nodes
<1>7. GateInv' BY <1>6, GateStays DEF IndInv, Submit, nodes
<1>8. BookOK' /\ PastOK' BY DEF IndInv, BookOK, PastOK, Submit, nodes
<1> QED BY <1>1, <1>2, <1>3, <1>4, <1>5, <1>7, <1>8 DEF IndInv, ServerInv

(* The task completes once every coroutine has ended.                      *)
LEMMA TaskCompletesKeeps == ASSUME IndInv, TaskCompletes PROVE IndInv'
<1>1. ServerInv'
  BY DEF IndInv, ServerInv, CoOK, TaskOK, Phased, FuturesMade, Recorded, RecordedOf,
         TaskCompletes, At, nodes
<1>2. Lasting BY DEF Lasting, TaskCompletes, nodes
<1>3. GateInv' BY <1>2, GateStays DEF IndInv, TaskCompletes, nodes
<1>4. BookOK' /\ PastOK' BY DEF IndInv, BookOK, PastOK, TaskCompletes, nodes
<1> QED BY <1>1, <1>3, <1>4 DEF IndInv

(* A deadline passes: what a TIMEOUT has to show.                          *)
LEMMA TimePassesKeeps == ASSUME IndInv, NEW s \in Sessions, TimePasses(s) PROVE IndInv'
<1> DEFINE c == [co[s] EXCEPT !.over = TRUE]
<1>1. /\ c \in Coroutine /\ c.pc = co[s].pc /\ co[s].pc \in Awaiting
      /\ co' = [co EXCEPT ![s] = c]
  BY DEF IndInv, ServerInv, CoOK, Coroutine, Awaiting, TimePasses
<1> HIDE DEF c
<1>2. ServerInv' /\ Lasting
  BY <1>1, CoroutineMoves DEF IndInv, TimePasses, nodes
<1>3. GateInv' BY <1>2, GateStays DEF IndInv, TimePasses, nodes
<1>4. BookOK' /\ PastOK' BY DEF IndInv, BookOK, PastOK, TimePasses, nodes
<1> QED BY <1>2, <1>3, <1>4 DEF IndInv

(* A node is reserved; past the deadline that is a TIMEOUT all the same.   *)
LEMMA AcquireNodeKeeps ==
  ASSUME IndInv, NEW s \in Sessions, NEW n \in Nodes, AcquireNode(s, n) PROVE IndInv'
<1> DEFINE c == [co[s] EXCEPT !.node = n]
           d == [c EXCEPT !.pc = "post"]
<1>1. c \in Coroutine /\ c.over = co[s].over /\ co[s].pc \in Awaiting
  BY DEF IndInv, ServerInv, CoOK, Coroutine, Awaiting, AcquireNode, At
<1>2. ServerInv' /\ Lasting
  <2>1. CASE co[s].over
    <3>1. Finish(s, c, "TIMEOUT") BY <2>1 DEF AcquireNode
    <3> HIDE DEF c
    <3> QED BY <1>1, <2>1, <3>1, CoroutineFinishes DEF IndInv, AcquireNode, nodes
  <2>2. CASE ~co[s].over
    <3>1. /\ d \in Coroutine /\ d.pc \in Awaiting
          /\ co' = [co EXCEPT ![s] = d] /\ UNCHANGED <<future, result>>
      BY <1>1, <2>2 DEF AcquireNode, Coroutine, Awaiting
    <3> HIDE DEF d
    <3> QED BY <1>1, <3>1, CoroutineMoves DEF IndInv, AcquireNode, nodes
  <2> QED BY <2>1, <2>2
<1>3. GateInv' BY <1>2, GateStays DEF IndInv, AcquireNode, nodes
<1>4. BookOK' BY DEF IndInv, BookOK, Entry, AcquireNode, Eligible, nodes
<1>5. PastOK' BY DEF IndInv, PastOK, AcquireNode, nodes
<1> QED BY <1>2, <1>3, <1>4, <1>5 DEF IndInv

(* No node can take the session before the deadline.                       *)
LEMMA NoNodeKeeps == ASSUME IndInv, NEW s \in Sessions, NoNode(s) PROVE IndInv'
<1>1. co[s] \in Coroutine /\ co[s].pc \in Awaiting /\ co[s].over
  BY DEF IndInv, ServerInv, CoOK, Awaiting, NoNode, At
<1>2. ServerInv' /\ Lasting
  BY <1>1, CoroutineFinishes DEF IndInv, NoNode, nodes
<1>3. GateInv' BY <1>2, GateStays DEF IndInv, NoNode, nodes
<1>4. BookOK' /\ PastOK' BY DEF IndInv, BookOK, PastOK, NoNode, nodes
<1> QED BY <1>2, <1>3, <1>4 DEF IndInv

(* The dispatch reaches the node the coroutine chose.                      *)
LEMMA ArrivesKeeps == ASSUME IndInv, NEW s \in Sessions, Arrives(s) PROVE IndInv'
<1> DEFINE n == co[s].node
<1>1. co[s].pc \in Awaiting /\ co[s].pc # "ended" /\ n \in Nodes
  BY DEF IndInv, BookOK, Awaiting, Arrives, At
<1>2. ServerInv' /\ Lasting
  BY <1>1, CoroutineWaits DEF IndInv, Arrives, Awaiting
<1>3. GateInv' BY <1>1, <1>2, DispatchKeeps DEF IndInv, Arrives
<1>4. BookOK' /\ PastOK' BY DEF IndInv, BookOK, PastOK, Arrives
<1> QED BY <1>2, <1>3, <1>4 DEF IndInv

(* A dispatch the server gave up reaches its node.                         *)
LEMMA ArrivesLateKeeps ==
  ASSUME IndInv, NEW s \in Sessions, NEW n \in Nodes, ArrivesLate(s, n) PROVE IndInv'
<1>1. ServerInv' /\ Lasting BY ServerStays DEF IndInv, ArrivesLate
<1>2. GateInv' BY <1>1, DispatchKeeps DEF IndInv, ArrivesLate
<1>3. BookOK' /\ PastOK' BY DEF IndInv, BookOK, PastOK, ArrivesLate
<1> QED BY <1>1, <1>2, <1>3 DEF IndInv

(* The POST returns: the coroutine waits for the result.                   *)
LEMMA PostReturnsKeeps == ASSUME IndInv, NEW s \in Sessions, PostReturns(s) PROVE IndInv'
<1>1. co[s].pc \in Awaiting /\ "wait" \in Awaiting BY DEF Awaiting, PostReturns, At
<1>2. ServerInv' /\ Lasting
  BY <1>1, CoroutineWaits DEF IndInv, PostReturns, nodes
<1>3. GateInv' BY <1>2, GateStays DEF IndInv, PostReturns, nodes
<1>4. BookOK' /\ PastOK' BY DEF IndInv, BookOK, PastOK, PostReturns, nodes
<1> QED BY <1>2, <1>3, <1>4 DEF IndInv

(* The POST raises: the coroutine asks the node.                           *)
LEMMA PostFailsKeeps == ASSUME IndInv, NEW s \in Sessions, PostFails(s) PROVE IndInv'
<1>1. co[s].pc \in Awaiting /\ "confirm" \in Awaiting
  BY DEF Awaiting, PostFails, PostRaises, At
<1>2. ServerInv' /\ Lasting
  BY <1>1, CoroutineWaits DEF IndInv, PostFails, PostRaises, nodes
<1>3. GateInv' BY <1>2, GateStays DEF IndInv, PostFails, PostRaises, nodes
<1>4. BookOK' BY DEF IndInv, BookOK, PostFails, PostRaises, nodes
<1>5. PastOK'
  <2>1. used' \in [faults : 0..MaxFaults, drains : 0..MaxDrains]
    BY Counted DEF IndInv, PostFails, PostRaises
  <2>2. /\ late' \in [Sessions -> SUBSET Nodes]
        /\ unsure' \in [Sessions -> SUBSET Nodes]
    BY DEF IndInv, BookOK, PastOK, PostFails, PostRaises, Doubt
  <2> QED BY <2>1, <2>2 DEF IndInv, PastOK, PostFails, PostRaises, nodes
<1> QED BY <1>2, <1>3, <1>4, <1>5 DEF IndInv

(* The node has the session: the coroutine waits for it.                   *)
LEMMA ConfirmFindsKeeps == ASSUME IndInv, NEW s \in Sessions, ConfirmFinds(s) PROVE IndInv'
<1>1. co[s].pc \in Awaiting /\ "wait" \in Awaiting BY DEF Awaiting, ConfirmFinds, At
<1>2. ServerInv' /\ Lasting
  BY <1>1, CoroutineWaits DEF IndInv, ConfirmFinds, nodes
<1>3. GateInv' BY <1>2, GateStays DEF IndInv, ConfirmFinds, nodes
<1>4. BookOK' /\ PastOK' BY DEF IndInv, BookOK, PastOK, ConfirmFinds, nodes
<1> QED BY <1>2, <1>3, <1>4 DEF IndInv

(* The node does not show it: the reservation is given back.               *)
LEMMA ConfirmFailsKeeps == ASSUME IndInv, NEW s \in Sessions, ConfirmFails(s) PROVE IndInv'
<1> DEFINE c == [co[s] EXCEPT !.pc = "pick", !.node = None]
<1>1. co[s] \in Coroutine /\ co[s].pc \in Awaiting
  BY DEF IndInv, ServerInv, CoOK, Awaiting, ConfirmFails, At
<1>2. ServerInv' /\ Lasting
  <2>1. CASE co[s].over /\ Finish(s, co[s], "TIMEOUT")
    BY <1>1, <2>1, CoroutineFinishes DEF IndInv, ConfirmFails, nodes
  <2>2. CASE /\ co' = [co EXCEPT ![s].pc = "pick", ![s].node = None]
             /\ UNCHANGED <<future, result>>
    <3>1. /\ c \in Coroutine /\ c.pc \in Awaiting
          /\ co' = [co EXCEPT ![s] = c]
      BY <1>1, <2>2 DEF Coroutine, Awaiting, IndInv, ServerInv, CoOK
    <3> HIDE DEF c
    <3> QED BY <1>1, <2>2, <3>1, CoroutineMoves DEF IndInv, ConfirmFails, nodes
  <2> QED BY <2>1, <2>2 DEF ConfirmFails
<1>3. GateInv' BY <1>2, GateStays DEF IndInv, ConfirmFails, nodes
<1>4. BookOK'
  <2>1. CASE co[s].node \in Nodes
    BY <2>1, BookKeeping DEF IndInv, BookOK, ConfirmFails, nodes
  <2>2. CASE co[s].node \notin Nodes
    <3>1. book' \in [Nodes -> Entry \cup {None}]
      BY <2>2 DEF IndInv, BookOK, ConfirmFails, Released
    <3> QED BY <3>1 DEF IndInv, BookOK, ConfirmFails, nodes
  <2> QED BY <2>1, <2>2
<1>5. PastOK'
  <2>1. used' \in [faults : 0..MaxFaults, drains : 0..MaxDrains]
    BY Counted DEF IndInv, ConfirmFails
  <2>2. unsure' \in [Sessions -> SUBSET Nodes]
    BY DEF IndInv, BookOK, PastOK, ConfirmFails, Doubt
  <2> QED BY <2>1, <2>2 DEF IndInv, PastOK, ConfirmFails, nodes
<1> QED BY <1>2, <1>3, <1>4, <1>5 DEF IndInv

(* The future has a result, which FuturesMade says is a real one.          *)
LEMMA ReceiveKeeps == ASSUME IndInv, NEW s \in Sessions, Receive(s) PROVE IndInv'
<1>1. co[s] \in Coroutine /\ co[s].pc \in Awaiting
  BY DEF IndInv, ServerInv, CoOK, Awaiting, Receive, At
<1>2. future[s] \in Outcomes /\ future[s] \in made[s] \ {"cancelled"}
  BY <1>1 DEF IndInv, ServerInv, TaskOK, Phased, FuturesMade, Receive
<1>3. ServerInv' /\ Lasting
  BY <1>1, <1>2, CoroutineFinishes DEF IndInv, Receive, nodes
<1>4. GateInv' BY <1>3, GateStays DEF IndInv, Receive, nodes
<1>5. BookOK' /\ PastOK' BY DEF IndInv, BookOK, PastOK, Receive, nodes
<1> QED BY <1>3, <1>4, <1>5 DEF IndInv

(* No result yet: a poll.                                                  *)
LEMMA TickKeeps == ASSUME IndInv, NEW s \in Sessions, Tick(s) PROVE IndInv'
<1>1. co[s].pc \in Awaiting /\ "poll" \in Awaiting BY DEF Awaiting, Tick, At
<1>2. ServerInv' /\ Lasting
  BY <1>1, CoroutineWaits DEF IndInv, Tick, nodes
<1>3. GateInv' BY <1>2, GateStays DEF IndInv, Tick, nodes
<1>4. BookOK' /\ PastOK' BY DEF IndInv, BookOK, PastOK, Tick, nodes
<1> QED BY <1>2, <1>3, <1>4 DEF IndInv

(* The poll brings a payload, which CancelledLast says is no cancellation. *)
LEMMA PollFindsKeeps == ASSUME IndInv, NEW s \in Sessions, PollFinds(s) PROVE IndInv'
<1> DEFINE n == co[s].node
<1>1. co[s] \in Coroutine /\ co[s].pc \in Awaiting /\ co[s].pc # "ended" /\ n \in Nodes
  BY DEF IndInv, ServerInv, CoOK, BookOK, Awaiting, PollFinds, At
<1>2. gate[n][s].payload \in Outcomes
  BY <1>1 DEF IndInv, GateInv, GateOK, AtNode, PollFinds, Polled
<1>3. gate[n][s].payload \in made[s] \ {"cancelled"}
  BY <1>1, <1>2 DEF IndInv, GateInv, GatesMade, CancelledLast
<1>4. ServerInv' /\ Lasting
  BY <1>1, <1>2, <1>3, CoroutineFinishes DEF IndInv, PollFinds, Polled, nodes
<1>5. GateInv' BY <1>4, GateStays DEF IndInv, PollFinds, nodes
<1>6. BookOK' /\ PastOK' BY DEF IndInv, BookOK, PastOK, PollFinds, nodes
<1> QED BY <1>4, <1>5, <1>6 DEF IndInv

(* The two polls that bring no result go back to the top of the loop.      *)
LEMMA LoopTopKeeps ==
  ASSUME ServerInv, NEW s \in Sessions, co[s].pc \in Awaiting, NEW c \in Coroutine,
         LoopTop(s, c), UNCHANGED <<task, made>>
  PROVE  ServerInv' /\ Lasting
<1>1. CASE c.started /\ c.over /\ Finish(s, c, "TIMEOUT")
  BY <1>1, CoroutineFinishes
<1>2. CASE /\ co' = [co EXCEPT ![s] = [c EXCEPT !.pc = "wait"]]
           /\ UNCHANGED <<future, result>>
  <2> DEFINE d == [c EXCEPT !.pc = "wait"]
  <2>1. d \in Coroutine /\ d.pc \in Awaiting /\ co' = [co EXCEPT ![s] = d]
    BY <1>2 DEF Coroutine, Awaiting
  <2> HIDE DEF d
  <2> QED BY <1>2, <2>1, CoroutineMoves
<1> QED BY <1>1, <1>2 DEF LoopTop

(* A session without a payload, whatever its status.                       *)
LEMMA PollSeesKeeps == ASSUME IndInv, NEW s \in Sessions, PollSees(s) PROVE IndInv'
<1>1. co[s] \in Coroutine /\ co[s].pc \in Awaiting
  BY DEF IndInv, ServerInv, CoOK, Awaiting, PollSees, At
<1>2. Started(s) \in Coroutine BY <1>1 DEF Started, Coroutine
<1>3. ServerInv' /\ Lasting
  BY <1>1, <1>2, LoopTopKeeps DEF IndInv, PollSees, nodes
<1>4. GateInv' BY <1>3, GateStays DEF IndInv, PollSees, nodes
<1>5. BookOK' /\ PastOK' BY DEF IndInv, BookOK, PastOK, PollSees, nodes
<1> QED BY <1>3, <1>4, <1>5 DEF IndInv

(* No answer, or the node does not know the session.                       *)
LEMMA PollFailsKeeps == ASSUME IndInv, NEW s \in Sessions, PollFails(s) PROVE IndInv'
<1>1. co[s] \in Coroutine /\ co[s].pc \in Awaiting
  BY DEF IndInv, ServerInv, CoOK, Awaiting, PollFails, At
<1>2. ServerInv' /\ Lasting
  BY <1>1, LoopTopKeeps DEF IndInv, PollFails, nodes
<1>3. GateInv' BY <1>2, GateStays DEF IndInv, PollFails, nodes
<1>4. BookOK' BY DEF IndInv, BookOK, PollFails, nodes
<1>5. PastOK' BY Counted DEF IndInv, PastOK, PollFails, nodes
<1> QED BY <1>2, <1>3, <1>4, <1>5 DEF IndInv

(* The result is saved.                                                    *)
LEMMA PersistKeeps == ASSUME IndInv, NEW s \in Sessions, Persist(s) PROVE IndInv'
<1>1. co[s].pc \in {"persist", "cleanup"} /\ "cleanup" \in Over BY DEF Over, Persist, At
<1>2. ServerInv' /\ Lasting
  BY <1>1, CoroutineLeaves DEF IndInv, Persist, nodes
<1>3. GateInv' BY <1>2, GateStays DEF IndInv, Persist, nodes
<1>4. BookOK' /\ PastOK' BY DEF IndInv, BookOK, PastOK, Persist, nodes
<1> QED BY <1>2, <1>3, <1>4 DEF IndInv

(* The save raises, and the task fails.                                    *)
LEMMA PersistFailsKeeps == ASSUME IndInv, NEW s \in Sessions, PersistFails(s) PROVE IndInv'
<1>1. co[s].pc \in {"persist", "cleanup"} /\ "failed" \in Over BY DEF Over, PersistFails, At
<1>2. ServerInv' /\ Lasting
  BY <1>1, CoroutineLeaves DEF IndInv, PersistFails, nodes
<1>3. GateInv' BY <1>2, GateStays DEF IndInv, PersistFails, nodes
<1>4. BookOK' BY DEF IndInv, BookOK, PersistFails, nodes
<1>5. PastOK' BY Counted DEF IndInv, PastOK, PersistFails, nodes
<1> QED BY <1>2, <1>3, <1>4, <1>5 DEF IndInv

(* The session is deleted: cancelled where it still runs, at the very end. *)
LEMMA CleanupKeeps == ASSUME IndInv, NEW s \in Sessions, Cleanup(s) PROVE IndInv'
<1> DEFINE n == co[s].node
           x == Forgotten(gate[n][s])
<1>1. co[s].pc \in {"persist", "cleanup"} /\ "ended" \in Over BY DEF Over, Cleanup, At
<1>2. ServerInv' /\ Lasting
  BY <1>1, CoroutineLeaves DEF IndInv, Cleanup
<1>3. co'[s].pc = "ended"
  BY DEF IndInv, ServerInv, CoOK, Coroutine, Cleanup, Go
<1>4. GateInv'
  <2>1. CASE UNCHANGED gate BY <1>2, <2>1, GateStays DEF IndInv
  <2>2. CASE n \in up /\ gate' = [gate EXCEPT ![n][s] = x]
    <3>1. n \in Nodes /\ gate[n][s] \in AtNode
      BY <2>2 DEF IndInv, GateInv, GateOK, BookOK
    <3>2. x \in AtNode /\ x.payload = "none" /\ x.life = gate[n][s].life
      <4> DEFINE g == gate[n][s]
      <4>1. (g.cancelled \/ g.life \in {"queued", "running"}) \in BOOLEAN BY <3>1 DEF AtNode
      <4> HIDE DEF n
      <4> QED BY <3>1, <4>1 DEF AtNode, Forgotten
    <3>3. x.life \in Outcomes => x.life \in made'[s]
      BY <1>2, <3>1, <3>2 DEF IndInv, GateInv, GatesMade, Lasting
    <3> HIDE DEF x, n
    <3> QED BY <1>2, <1>3, <2>2, <3>1, <3>2, <3>3, GateMoves DEF IndInv, Outcomes
  <2> QED BY <2>1, <2>2 DEF Cleanup, Deleted
<1>5. BookOK' BY DEF IndInv, BookOK, Cleanup
<1>6. PastOK'
  <2>1. used' \in [faults : 0..MaxFaults, drains : 0..MaxDrains]
    BY Counted DEF IndInv, Cleanup
  <2>2. unsure' \in [Sessions -> SUBSET Nodes]
    BY DEF IndInv, BookOK, PastOK, Cleanup, Doubt
  <2> QED BY <2>1, <2>2 DEF IndInv, PastOK, Cleanup
<1> QED BY <1>2, <1>4, <1>5, <1>6 DEF IndInv

(* A stage begins: nothing of the result changes.                          *)
LEMMA BeginKeeps ==
  ASSUME IndInv, NEW n \in Nodes, NEW s \in Sessions, Begin(n, s) PROVE IndInv'
<1> DEFINE g == gate[n][s]
           x == Running(g)
<1>1. ServerInv' /\ Lasting BY ServerStays DEF IndInv, Begin
<1>2. g \in AtNode BY DEF IndInv, GateInv, GateOK
<1>3. /\ x \in AtNode /\ x.life = "running"
      /\ x.payload = g.payload /\ x.cancelled = g.cancelled
  BY <1>2 DEF AtNode, Running
<1>4. /\ g.payload \in Outcomes => g.payload \in made'[s]
      /\ g.cancelled \/ g.payload = "cancelled" => co'[s].pc = "ended"
  BY <1>1 DEF IndInv, GateInv, GatesMade, CancelledLast, Lasting
<1>5. gate' = [gate EXCEPT ![n][s] = x] BY DEF Begin
<1>6. GateInv'
  <2> HIDE DEF x, g
  <2> QED BY <1>1, <1>3, <1>4, <1>5, GateMoves DEF IndInv, Outcomes
<1>7. BookOK' /\ PastOK' BY DEF IndInv, BookOK, PastOK, Begin
<1> QED BY <1>1, <1>6, <1>7 DEF IndInv

(* A session ends with an outcome, recorded while it is registered.        *)
LEMMA EndsKeeps ==
  ASSUME IndInv, NEW n \in Nodes, NEW s \in Sessions, Ends(n, s) PROVE IndInv'
<1> DEFINE g == gate[n][s]
<1>1. PICK o \in Outcomes : /\ o = "cancelled" => g.cancelled
                            /\ gate' = [gate EXCEPT ![n][s] = Ended(g, o)]
                            /\ made' = [made EXCEPT ![s] = @ \cup {o}]
  BY DEF Ends
<1> DEFINE x == Ended(g, o)
<1>2. /\ made' \in [Sessions -> SUBSET Outcomes] /\ o \in made'[s]
      /\ \A r \in Sessions : made[r] \subseteq made'[r]
  BY <1>1 DEF IndInv, PastOK
<1>3. ServerInv' /\ Lasting BY <1>2, ServerStays DEF IndInv, Ends
<1>4. g \in AtNode BY DEF IndInv, GateInv, GateOK
<1>5. /\ x \in AtNode /\ x.life = o
      /\ x.payload \in {g.payload, o} /\ x.cancelled = g.cancelled
  BY <1>4 DEF AtNode, Ended, Outcomes
<1>6. /\ g.payload \in Outcomes => g.payload \in made'[s]
      /\ g.cancelled \/ g.payload = "cancelled" => co'[s].pc = "ended"
  BY <1>3 DEF IndInv, GateInv, GatesMade, CancelledLast, Lasting
<1>7. GateInv'
  <2>1. gate' = [gate EXCEPT ![n][s] = x] BY <1>1
  <2>2. x.payload \in Outcomes => x.payload \in made'[s] BY <1>2, <1>5, <1>6
  <2>3. x.cancelled \/ "cancelled" \in {x.life, x.payload} => co'[s].pc = "ended"
    BY <1>1, <1>5, <1>6
  <2> HIDE DEF x, g
  <2> QED BY <1>2, <1>3, <1>5, <2>1, <2>2, <2>3, GateMoves DEF IndInv
<1>8. BookOK' /\ PastOK' BY <1>2 DEF IndInv, BookOK, PastOK, Ends
<1> QED BY <1>3, <1>7, <1>8 DEF IndInv

(* The callback: what a future is given was made, and not cancelled.       *)
LEMMA PushKeeps ==
  ASSUME IndInv, NEW n \in Nodes, NEW s \in Sessions, Push(n, s) PROVE IndInv'
<1> DEFINE g == gate[n][s]
<1>1. /\ g \in AtNode /\ g.life \in Outcomes /\ g.life \in made[s]
      /\ g.life = "cancelled" => co[s].pc = "ended"
  BY DEF IndInv, GateInv, GateOK, GatesMade, CancelledLast, Push
<1>2. /\ \A r \in Sessions : future'[r] = future[r] \/ (r = s /\ future[r] = "open" /\ future'[r] = g.life)
      /\ TaskOK'
  BY <1>1 DEF IndInv, ServerInv, TaskOK, Push, Accepted, Outcomes
<1>3. Lasting BY DEF Lasting, Push
<1>4. ServerInv'
  <2>1. g.life # "absent" /\ g.life # "open" BY <1>1 DEF Outcomes
  <2>2. Phased' BY <1>2, <2>1 DEF IndInv, ServerInv, Phased, Push
  <2>3. future[s] = "open" => g.life # "cancelled"
    BY <1>1 DEF IndInv, ServerInv, Phased, Awaiting
  <2>4. FuturesMade' BY <1>1, <1>2, <2>3 DEF IndInv, ServerInv, FuturesMade, Push
  <2>5. CoOK' /\ Recorded' BY DEF IndInv, ServerInv, CoOK, Recorded, RecordedOf, Push
  <2> QED BY <1>2, <2>2, <2>4, <2>5 DEF ServerInv
<1>5. PICK p \in {"none", g.payload} : gate' = [gate EXCEPT ![n][s] = Pushed(g, p)]
  BY DEF Push
<1> DEFINE x == Pushed(g, p)
<1>6. GateInv'
  <2>1. p \in Outcomes \cup {"none"} BY <1>1, <1>5 DEF AtNode
  <2>2. x \in AtNode /\ x.life = "none" /\ x.payload = p /\ ~x.cancelled
    BY <1>1, <2>1 DEF AtNode, Pushed
  <2>3. /\ p \in Outcomes => p \in made'[s]
        /\ p = "cancelled" => co'[s].pc = "ended"
    BY <1>3, <1>5 DEF IndInv, GateInv, GatesMade, CancelledLast, Lasting, Outcomes
  <2>4. gate' = [gate EXCEPT ![n][s] = x] BY <1>5
  <2> HIDE DEF x, g
  <2> QED BY <1>3, <2>2, <2>3, <2>4, GateMoves DEF IndInv, Outcomes
<1>7. BookOK' BY DEF IndInv, BookOK, Push
<1>8. PastOK' BY Counted DEF IndInv, PastOK, Push
<1> QED BY <1>4, <1>6, <1>7, <1>8 DEF IndInv

(* A crash empties the node.                                               *)
LEMMA CrashKeeps == ASSUME IndInv, NEW n \in Nodes, Crash(n) PROVE IndInv'
<1>1. ServerInv' /\ Lasting BY ServerStays DEF IndInv, Crash
<1>2. Nothing \in AtNode /\ Nothing.payload = "none" /\ Nothing.life = "none" /\ ~Nothing.cancelled
  BY DEF Nothing, AtNode
<1>3. /\ GateOK'
      /\ \A m \in Nodes, r \in Sessions : gate'[m][r] \in {Nothing, gate[m][r]}
  BY <1>2 DEF IndInv, GateInv, GateOK, Crash
<1>4. GatesMade' BY <1>1, <1>2, <1>3 DEF IndInv, GateInv, GatesMade, Lasting, Outcomes
<1>5. CancelledLast' BY <1>1, <1>2, <1>3 DEF IndInv, GateInv, CancelledLast, Lasting
<1>6. BookOK' BY DEF IndInv, BookOK, Crash
<1>7. used' \in [faults : 0..MaxFaults, drains : 0..MaxDrains]
  BY Counted DEF IndInv, Crash
<1>8. PastOK' BY <1>7 DEF IndInv, PastOK, Crash
<1> QED BY <1>1, <1>3, <1>4, <1>5, <1>6, <1>8 DEF IndInv, GateInv

-----------------------------------------------------------------------------
(* The invariant holds at the start,                                       *)
LEMMA Starts == Init => IndInv
<1> SUFFICES ASSUME Init PROVE IndInv
  OBVIOUS
<1>1. ServerInv
  BY DEF Init, ServerInv, CoOK, Coroutine, TaskOK, Phased, Awaiting, FuturesMade, Outcomes,
         Recorded, RecordedOf, Over
<1>2. Nothing \in AtNode /\ Nothing.payload = "none" /\ Nothing.life = "none" /\ ~Nothing.cancelled
  BY DEF Nothing, AtNode
<1>3. GateInv BY <1>2 DEF Init, GateInv, GateOK, GatesMade, CancelledLast, Outcomes
<1>4. BookOK BY BookKeeping DEF Init, BookOK, Registered, Entry
<1>5. PastOK BY BoundsAssumption DEF Init, PastOK
<1> QED BY <1>1, <1>3, <1>4, <1>5 DEF IndInv

(* and every step keeps it.                                                *)
LEMMA Keeps == IndInv /\ [Next]_vars => IndInv'
<1> SUFFICES ASSUME IndInv, [Next]_vars PROVE IndInv'
  OBVIOUS
<1>1. CASE UNCHANGED vars
  BY <1>1, AsideKeeps DEF vars, server, nodes, IndInv, BookOK, PastOK
<1>2. CASE Submit \/ TaskCompletes BY <1>2, SubmitKeeps, TaskCompletesKeeps
<1>3. ASSUME NEW s \in Sessions, CoroutineStep(s) PROVE IndInv'
  BY <1>3, AcquireNodeKeeps, NoNodeKeeps, ArrivesKeeps, PostReturnsKeeps, PostFailsKeeps,
     ConfirmFindsKeeps, ConfirmFailsKeeps, ReceiveKeeps, TickKeeps, PollFindsKeeps,
     PollSeesKeeps, PollFailsKeeps, PersistKeeps, PersistFailsKeeps, CleanupKeeps
     DEF CoroutineStep
<1>4. ASSUME NEW s \in Sessions, TimePasses(s) PROVE IndInv' BY <1>4, TimePassesKeeps
<1>5. ASSUME NEW n \in Nodes, NEW s \in Sessions, ArrivesLate(s, n) \/ NodeWork(n, s)
      PROVE  IndInv'
  BY <1>5, ArrivesLateKeeps, BeginKeeps, EndsKeeps, PushKeeps DEF NodeWork
<1>6. ASSUME NEW n \in Nodes,
             Heartbeat(n) \/ Drain(n) \/ GoesStale(n) \/ Crash(n) \/ Restart(n)
      PROVE  IndInv'
  BY <1>6, HeartbeatKeeps, DrainKeeps, GoesStaleKeeps, CrashKeeps, RestartKeeps
<1> QED BY <1>1, <1>2, <1>3, <1>4, <1>5, <1>6 DEF Next

(* The inductive invariant of the specification.                           *)
THEOREM Inductive == Spec => []IndInv
BY Starts, Keeps, PTL DEF Spec

(* Every variable keeps its type.                                          *)
THEOREM TypeCorrect == Spec => []TypeOK
<1>1. IndInv => TypeOK
  BY DEF IndInv, ServerInv, GateInv, CoOK, TaskOK, BookOK, GateOK, PastOK, TypeOK
<1> QED BY <1>1, Inductive, PTL

(* What _dispatch_and_collect records for a session is a result some node  *)
(* made of it that is not the cancellation of the server's own cleanup, or *)
(* a TIMEOUT after the deadline had passed, however many nodes there are   *)
(* and whatever is lost, late or repeated; a completed task has them all.  *)
THEOREM RealResults == Spec => []ResultsAreReal
<1>1. IndInv => ResultsAreReal
  <2> SUFFICES ASSUME IndInv PROVE ResultsAreReal
    OBVIOUS
  <2>1. \A s \in Sessions : \/ result[s] = "none"
                            \/ result[s] \in made[s] \ {"cancelled"}
                            \/ result[s] = "TIMEOUT" /\ co[s].over
    BY DEF IndInv, ServerInv, Recorded, RecordedOf
  <2>2. ASSUME task = "completed", NEW s \in Sessions PROVE result[s] # "none"
    BY <2>2 DEF IndInv, ServerInv, Phased, Recorded, RecordedOf, Over, PastOK, Outcomes
  <2> QED BY <2>1, <2>2 DEF ResultsAreReal
<1> QED BY <1>1, Inductive, PTL

-----------------------------------------------------------------------------
(* Where a session runs.  It is registered there, the node is alive, and a *)
(* dispatch that may yet arrive somewhere was in doubt.                    *)
Live(n, s) == gate[n][s].life \in {"queued", "running"} /\ ~gate[n][s].cancelled
LiveKnown  == \A n \in Nodes, s \in Sessions : Live(n, s) => Known(n, s)
DownEmpty  == \A n \in Nodes, s \in Sessions : n \notin up => gate[n][s].life = "none"
LateUnsure == \A s \in Sessions : late[s] \subseteq unsure[s]
StrayInv   == LateUnsure /\ LiveKnown /\ DownEmpty /\ StraysAreUnsure

(* No doubt is forgotten and no node goes down.                            *)
Doubting ==
  /\ LateUnsure' /\ up \subseteq up'
  /\ \A s \in Sessions : unsure[s] \subseteq unsure'[s]

(* The gates stay: whoever leaves a live session leaves it in doubt.       *)
LEMMA StraysStay ==
  ASSUME StrayInv, Doubting, UNCHANGED gate,
         \A m \in Nodes, r \in Sessions :
           InCharge(r, m) /\ Live(m, r) => InCharge(r, m)' \/ m \in unsure'[r]
  PROVE  StrayInv'
<1>1. LiveKnown' BY DEF StrayInv, LiveKnown, Live, Known
<1>2. DownEmpty' BY DEF StrayInv, DownEmpty, Doubting
<1>3. StraysAreUnsure'
  <2> SUFFICES ASSUME NEW m \in Nodes, NEW r \in Sessions, Live(m, r)'
               PROVE  InCharge(r, m)' \/ m \in unsure'[r]
    BY DEF StraysAreUnsure, Live
  <2>1. Live(m, r) BY DEF Live
  <2>2. InCharge(r, m) \/ m \in unsure[r] BY <2>1 DEF StrayInv, StraysAreUnsure, Live
  <2> QED BY <2>1, <2>2 DEF Doubting
<1> QED BY <1>1, <1>2, <1>3 DEF StrayInv, Doubting

(* One entry is replaced, at a node that is alive.                         *)
LEMMA StraysMove ==
  ASSUME GateOK, StrayInv, Doubting, NEW n \in up, NEW s \in Sessions, NEW x \in AtNode,
         n \in Nodes, gate' = [gate EXCEPT ![n][s] = x],
         x.life \in {"queued", "running"} /\ ~x.cancelled
           => x.reg # "absent" /\ (InCharge(s, n)' \/ n \in unsure'[s]),
         \A m \in Nodes, r \in Sessions :
           (m # n \/ r # s) /\ InCharge(r, m) => InCharge(r, m)'
  PROVE  StrayInv'
<1>1. gate'[n][s] = x BY DEF GateOK
<1>2. \A m \in Nodes, r \in Sessions : m # n \/ r # s => gate'[m][r] = gate[m][r]
  BY DEF GateOK
<1>3. LiveKnown'
  <2> SUFFICES ASSUME NEW m \in Nodes, NEW r \in Sessions, Live(m, r)' PROVE Known(m, r)'
    BY DEF LiveKnown
  <2>1. CASE m = n /\ r = s BY <2>1, <1>1 DEF Live, Known
  <2>2. CASE m # n \/ r # s BY <2>2, <1>2 DEF StrayInv, LiveKnown, Live, Known
  <2> QED BY <2>1, <2>2
<1>4. DownEmpty' BY <1>2 DEF StrayInv, DownEmpty, Doubting
<1>5. StraysAreUnsure'
  <2> SUFFICES ASSUME NEW m \in Nodes, NEW r \in Sessions, Live(m, r)'
               PROVE  InCharge(r, m)' \/ m \in unsure'[r]
    BY DEF StraysAreUnsure, Live
  <2>1. CASE m = n /\ r = s BY <2>1, <1>1 DEF Live
  <2>2. CASE m # n \/ r # s
    <3>1. Live(m, r) BY <2>2, <1>2 DEF Live
    <3>2. InCharge(r, m) \/ m \in unsure[r] BY <3>1 DEF StrayInv, StraysAreUnsure, Live
    <3> QED BY <2>2, <3>2 DEF Doubting
  <2> QED BY <2>1, <2>2
<1> QED BY <1>3, <1>4, <1>5 DEF StrayInv, Doubting

(* A dispatch that reaches a live node whose answer is awaited or in doubt.*)
LEMMA StraysDispatch ==
  ASSUME GateOK, StrayInv, Doubting, NEW n \in up, NEW s \in Sessions, n \in Nodes,
         Dispatched(n, s), InCharge(s, n)' \/ n \in unsure'[s],
         \A m \in Nodes, r \in Sessions : InCharge(r, m) => InCharge(r, m)'
  PROVE  StrayInv'
<1>1. CASE ~Fits(n, s) BY <1>1, StraysStay DEF Dispatched
<1>2. CASE Fits(n, s)
  <2> DEFINE x == Queued(gate[n][s])
  <2>0. gate[n][s] \in AtNode BY DEF GateOK
  <2>1. x \in AtNode /\ x.reg = "REGISTERED" BY <2>0 DEF AtNode, Queued
  <2>2. gate' = [gate EXCEPT ![n][s] = x] BY <1>2 DEF Dispatched
  <2> HIDE DEF x
  <2> QED BY <2>1, <2>2, StraysMove
<1> QED BY <1>1, <1>2

(* A session that runs on or ends where it was.                            *)
LEMMA StraysRunOn ==
  ASSUME GateOK, StrayInv, Doubting, NEW n \in Nodes, NEW s \in Sessions, NEW x \in AtNode,
         gate' = [gate EXCEPT ![n][s] = x], UNCHANGED co, gate[n][s].life # "none",
         x.life \in {"queued", "running"} /\ ~x.cancelled
           => /\ gate[n][s].life \in {"queued", "running"} /\ ~gate[n][s].cancelled
              /\ x.reg = "absent" => gate[n][s].reg = "absent"
  PROVE  StrayInv'
<1>1. n \in up BY DEF StrayInv, DownEmpty
<1>2. \A m \in Nodes, r \in Sessions : InCharge(r, m)' = InCharge(r, m) BY DEF InCharge
<1>3. x.life \in {"queued", "running"} /\ ~x.cancelled
        => x.reg # "absent" /\ (InCharge(s, n)' \/ n \in unsure'[s])
  BY <1>2 DEF StrayInv, LiveKnown, StraysAreUnsure, Live, Known, Doubting
<1> QED BY <1>1, <1>2, <1>3, StraysMove

-----------------------------------------------------------------------------
(* The steps of the task, the book, the clock and nodes' health.           *)
LEMMA AsideStrays ==
  ASSUME IndInv, StrayInv,
         \/ TaskCompletes
         \/ \E n \in Nodes : Heartbeat(n) \/ Drain(n) \/ GoesStale(n) \/ Restart(n)
  PROVE  StrayInv'
<1>1. Doubting /\ UNCHANGED <<co, gate>>
  BY DEF StrayInv, LateUnsure, Doubting, TaskCompletes, Heartbeat, Drain, GoesStale, Restart,
         server, nodes
<1> QED BY <1>1, StraysStay DEF InCharge

(* Nobody has charge before the task is submitted.                         *)
LEMMA SubmitStrays == ASSUME IndInv, StrayInv, Submit PROVE StrayInv'
<1>1. Doubting /\ UNCHANGED gate
  BY DEF StrayInv, LateUnsure, Doubting, Submit, nodes
<1>2. \A m \in Nodes, r \in Sessions : ~InCharge(r, m)
  BY DEF IndInv, ServerInv, Phased, Submit, InCharge
<1> QED BY <1>1, <1>2, StraysStay

(* A coroutine that only moves, in charge of what it was in charge of.     *)
LEMMA CoroutineStrays ==
  ASSUME IndInv, StrayInv, NEW s \in Sessions,
         \/ TimePasses(s) \/ PostReturns(s) \/ PostFails(s) \/ ConfirmFinds(s)
         \/ Receive(s) \/ Tick(s) \/ PollFinds(s) \/ PollSees(s) \/ PollFails(s)
         \/ Persist(s) \/ PersistFails(s) \/ NoNode(s) \/ \E n \in Nodes : AcquireNode(s, n)
  PROVE  StrayInv'
<1>1. Doubting
  <2>1. UNCHANGED up
    BY DEF TimePasses, PostReturns, PostFails, PostRaises, ConfirmFinds, Receive, Tick,
           PollFinds, PollSees, PollFails, Persist, PersistFails, NoNode, AcquireNode, nodes
  <2>2. CASE UNCHANGED <<late, unsure>>
    BY <2>1, <2>2 DEF StrayInv, LateUnsure, Doubting
  <2>3. CASE /\ late' = [late EXCEPT ![s] = @ \cup {co[s].node}]
             /\ Doubt(s)
    BY <2>1, <2>3 DEF IndInv, PastOK, StrayInv, LateUnsure, Doubting, Doubt
  <2> QED BY <2>2, <2>3
    DEF TimePasses, PostReturns, PostFails, PostRaises, ConfirmFinds, Receive, Tick,
        PollFinds, PollSees, PollFails, Persist, PersistFails, NoNode, AcquireNode
<1>2. UNCHANGED gate
  BY DEF TimePasses, PostReturns, PostFails, PostRaises, ConfirmFinds, Receive, Tick,
         PollFinds, PollSees, PollFails, Persist, PersistFails, NoNode, AcquireNode, nodes
<1>3. \A m \in Nodes, r \in Sessions : InCharge(r, m) => InCharge(r, m)'
  <2>1. CASE At(s, "pick")
    <3>1. \A n \in Nodes : ~InCharge(s, n) BY <2>1 DEF At, InCharge
    <3>2. \A r \in Sessions : r # s => co'[r] = co[r]
      BY DEF IndInv, ServerInv, CoOK, TimePasses, PostReturns, PostFails, PostRaises,
             ConfirmFinds, Receive, Tick, PollFinds, PollSees, PollFails, Persist,
             PersistFails, NoNode, AcquireNode, Go, Finish, LoopTop
    <3> QED BY <3>1, <3>2 DEF InCharge
  <2>2. CASE ~At(s, "pick")
    <3>1. \A r \in Sessions : r # s => co'[r] = co[r]
      BY DEF IndInv, ServerInv, CoOK, TimePasses, PostReturns, PostFails, PostRaises,
             ConfirmFinds, Receive, Tick, PollFinds, PollSees, PollFails, Persist,
             PersistFails, NoNode, AcquireNode, Go, Finish, LoopTop
    <3>2. CASE TimePasses(s) BY <3>2, <2>2
             DEF IndInv, ServerInv, CoOK, Coroutine, TimePasses, At, InCharge
    <3>3. CASE PostReturns(s) \/ PostFails(s) \/ ConfirmFinds(s) \/ Tick(s)
      BY <3>1, <3>3 DEF IndInv, ServerInv, CoOK, Coroutine, PostReturns, PostFails, PostRaises,
                  ConfirmFinds, Tick, Go, At, InCharge
    <3>4. CASE Receive(s) \/ PollFinds(s)
      BY <3>1, <3>4 DEF IndInv, ServerInv, CoOK, Coroutine, Receive, PollFinds, Finish, At, InCharge
    <3>5. CASE PollSees(s) \/ PollFails(s)
      <4>1. co[s] \in Coroutine /\ co[s].pc = "poll"
        BY <3>5 DEF IndInv, ServerInv, CoOK, PollSees, PollFails, At
      <4>2. PICK c \in Coroutine : c.node = co[s].node /\ LoopTop(s, c)
        BY <3>5, <4>1 DEF PollSees, PollFails, Started, Coroutine
      <4>3. PICK p \in {"wait", "persist"} : co' = [co EXCEPT ![s] = [c EXCEPT !.pc = p]]
        BY <4>2 DEF LoopTop, Finish
      <4>4. co'[s].node = co[s].node /\ co'[s].pc = p
        BY <4>2, <4>3 DEF IndInv, ServerInv, CoOK, Coroutine
      <4> QED BY <3>1, <4>4 DEF InCharge
    <3>6. CASE Persist(s) \/ PersistFails(s)
      BY <3>1, <3>6 DEF IndInv, ServerInv, CoOK, Coroutine, Persist, PersistFails, Go, At, InCharge
    <3>7. CASE NoNode(s) \/ \E n \in Nodes : AcquireNode(s, n)
      BY <3>7, <2>2 DEF NoNode, AcquireNode, At
    <3> QED BY <3>2, <3>3, <3>4, <3>5, <3>6, <3>7
  <2> QED BY <2>1, <2>2
<1> QED BY <1>1, <1>2, <1>3, StraysStay

(* The dispatch arrives where the coroutine is in charge,                   *)
LEMMA ArrivesStrays ==
  ASSUME IndInv, StrayInv, NEW s \in Sessions, Arrives(s) PROVE StrayInv'
<1>1. PICK n \in Nodes : n = co[s].node /\ n \in up
  BY DEF IndInv, BookOK, Arrives
<1>2. Doubting BY DEF StrayInv, LateUnsure, Doubting, Arrives
<1>3. /\ co'[s].node = n /\ co'[s].pc \in {"acked", "denied"}
      /\ \A r \in Sessions : r # s => co'[r] = co[r]
  BY <1>1 DEF IndInv, ServerInv, CoOK, Coroutine, Arrives, Go
<1>4. InCharge(s, n)' /\ \A m \in Nodes, r \in Sessions : InCharge(r, m) => InCharge(r, m)'
  BY <1>1, <1>3 DEF InCharge, Arrives, At
<1>5. Dispatched(n, s) BY <1>1 DEF Arrives, Dispatched
<1> QED BY <1>1, <1>2, <1>4, <1>5, StraysDispatch DEF IndInv, GateInv

(* or late, where it is in doubt.                                          *)
LEMMA ArrivesLateStrays ==
  ASSUME IndInv, StrayInv, NEW s \in Sessions, NEW n \in Nodes, ArrivesLate(s, n)
  PROVE  StrayInv'
<1>1. n \in up /\ n \in unsure'[s] BY DEF StrayInv, LateUnsure, ArrivesLate
<1>2. Doubting
  BY DEF IndInv, PastOK, StrayInv, LateUnsure, Doubting, ArrivesLate
<1>3. \A m \in Nodes, r \in Sessions : InCharge(r, m) => InCharge(r, m)'
  BY DEF InCharge, ArrivesLate, server
<1>4. Dispatched(n, s) BY DEF ArrivesLate
<1> QED BY <1>1, <1>2, <1>3, <1>4, StraysDispatch DEF IndInv, GateInv

(* A node that has the session is given up only in doubt.                  *)
LEMMA ConfirmFailsStrays ==
  ASSUME IndInv, StrayInv, NEW s \in Sessions, ConfirmFails(s) PROVE StrayInv'
<1> DEFINE n == co[s].node
<1>1. Doubting
  BY DEF IndInv, PastOK, StrayInv, LateUnsure, Doubting, ConfirmFails, Doubt, nodes
<1>2. \A r \in Sessions : r # s => co'[r] = co[r]
  BY DEF IndInv, ServerInv, CoOK, ConfirmFails, Finish
<1>3. ASSUME NEW m \in Nodes, NEW r \in Sessions, InCharge(r, m), Live(m, r)
      PROVE  InCharge(r, m)' \/ m \in unsure'[r]
  <2>1. CASE r # s BY <1>2, <1>3, <2>1 DEF InCharge
  <2>2. CASE r = s
    <3>1. m = n BY <1>3, <2>2 DEF InCharge
    <3>2. m \in up /\ Known(m, s)
      BY <1>3, <2>2 DEF StrayInv, LiveKnown, DownEmpty, Live
    <3>3. unsure' = [unsure EXCEPT ![s] = @ \cup {n}]
      BY <3>1, <3>2 DEF ConfirmFails, Doubt
    <3> QED BY <2>2, <3>1, <3>3 DEF IndInv, PastOK
  <2> QED BY <2>1, <2>2
<1> QED BY <1>1, <1>3, StraysStay DEF ConfirmFails, nodes

(* The cleanup cancels what runs at the coroutine's node, or is in doubt.  *)
LEMMA CleanupStrays ==
  ASSUME IndInv, StrayInv, NEW s \in Sessions, Cleanup(s) PROVE StrayInv'
<1> DEFINE n == co[s].node
           g == gate[n][s]
           x == Forgotten(g)
<1>1. Doubting
  BY DEF IndInv, PastOK, StrayInv, LateUnsure, Doubting, Cleanup, Doubt
<1>2. \A r \in Sessions : r # s => co'[r] = co[r]
  BY DEF IndInv, ServerInv, CoOK, Cleanup, Go
<1>3. \A m \in Nodes, r \in Sessions :
        (m # n \/ r # s) /\ InCharge(r, m) => InCharge(r, m)'
  BY <1>2 DEF InCharge
<1>4. CASE gate' = gate /\ (n \notin up \/ Doubt(s))
  <2> SUFFICES ASSUME NEW m \in Nodes, NEW r \in Sessions, InCharge(r, m), Live(m, r)
               PROVE  InCharge(r, m)' \/ m \in unsure'[r]
    BY <1>1, <1>4, StraysStay
  <2>1. CASE m # n \/ r # s BY <1>3, <2>1
  <2>2. CASE m = n /\ r = s
    <3>1. n \in up BY <2>2 DEF StrayInv, DownEmpty, Live
    <3> QED BY <1>4, <2>2, <3>1 DEF Doubt, IndInv, PastOK
  <2> QED BY <2>1, <2>2
<1>5. CASE n \in up /\ gate' = [gate EXCEPT ![n][s] = x]
  <2>1. n \in Nodes /\ g \in AtNode
    BY <1>5 DEF IndInv, GateInv, GateOK, BookOK
  <2>2. (g.cancelled \/ g.life \in {"queued", "running"}) \in BOOLEAN BY <2>1 DEF AtNode
  <2>3. x \in AtNode /\ ~(x.life \in {"queued", "running"} /\ ~x.cancelled)
    <3> HIDE DEF g
    <3> QED BY <2>1, <2>2 DEF AtNode, Forgotten
  <2> HIDE DEF x, g, n
  <2> QED BY <1>1, <1>3, <1>5, <2>1, <2>3, StraysMove DEF IndInv, GateInv
<1> QED BY <1>4, <1>5 DEF Cleanup, Deleted

(* At a node nothing starts to run that was not there.                     *)
LEMMA NodeStrays ==
  ASSUME IndInv, StrayInv, NEW n \in Nodes, NEW s \in Sessions, NodeWork(n, s)
  PROVE  StrayInv'
<1> DEFINE g == gate[n][s]
<1>1. Doubting /\ UNCHANGED co
  BY DEF StrayInv, LateUnsure, Doubting, NodeWork, Begin, Ends, Push, server
<1>2. g \in AtNode BY DEF IndInv, GateInv, GateOK
<1>3. CASE Begin(n, s)
  <2> DEFINE x == Running(g)
  <2>1. /\ x \in AtNode /\ x.cancelled = g.cancelled
        /\ x.reg = "absent" => g.reg = "absent"
    BY <1>2 DEF AtNode, Running
  <2>2. gate' = [gate EXCEPT ![n][s] = x] /\ g.life = "queued" BY <1>3 DEF Begin
  <2> HIDE DEF x
  <2> QED BY <1>1, <2>1, <2>2, StraysRunOn DEF IndInv, GateInv
<1>4. CASE Ends(n, s)
  <2>1. PICK o \in Outcomes : gate' = [gate EXCEPT ![n][s] = Ended(g, o)]
    BY <1>4 DEF Ends
  <2> DEFINE x == Ended(g, o)
  <2>2. x \in AtNode /\ x.life \notin {"queued", "running"}
    BY <1>2 DEF AtNode, Ended, Outcomes
  <2>3. gate' = [gate EXCEPT ![n][s] = x] /\ g.life = "running" BY <1>4, <2>1 DEF Ends
  <2> HIDE DEF x
  <2> QED BY <1>1, <2>2, <2>3, StraysRunOn DEF IndInv, GateInv
<1>5. CASE Push(n, s)
  <2>1. PICK p \in {"none", g.payload} : gate' = [gate EXCEPT ![n][s] = Pushed(g, p)]
    BY <1>5 DEF Push
  <2> DEFINE x == Pushed(g, p)
  <2>2. x \in AtNode /\ x.life = "none"
    BY <1>2, <2>1 DEF AtNode, Pushed
  <2>3. gate' = [gate EXCEPT ![n][s] = x] /\ g.life # "none"
    BY <1>5, <2>1 DEF Push, Outcomes
  <2> HIDE DEF x
  <2> QED BY <1>1, <2>2, <2>3, StraysRunOn DEF IndInv, GateInv
<1> QED BY <1>3, <1>4, <1>5 DEF NodeWork

(* A node that crashes has nothing, and nothing on its way to it.          *)
LEMMA CrashStrays ==
  ASSUME IndInv, StrayInv, NEW n \in Nodes, Crash(n) PROVE StrayInv'
<1>1. \A m \in Nodes, r \in Sessions :
        gate'[m][r] = IF m = n THEN Nothing ELSE gate[m][r]
  BY DEF IndInv, GateInv, GateOK, Crash
<1>2. LateUnsure' BY DEF StrayInv, LateUnsure, Crash
<1>3. Nothing.life = "none" BY DEF Nothing
<1>4. LiveKnown' BY <1>1, <1>3 DEF StrayInv, LiveKnown, Live, Known
<1>5. DownEmpty' BY <1>1, <1>3 DEF StrayInv, DownEmpty, Crash
<1>6. StraysAreUnsure' BY <1>1, <1>3 DEF StrayInv, StraysAreUnsure, InCharge, Crash, server
<1> QED BY <1>2, <1>4, <1>5, <1>6 DEF StrayInv

(* A session runs only where its coroutine is in charge of it, or where an *)
(* exchange had ended in doubt, however many nodes there are: nothing else *)
(* the server or a node does leaves one running.                           *)
THEOREM NoOtherStrays == Spec => []StraysAreUnsure
<1>1. Init => StrayInv
  BY DEF Init, Nothing, StrayInv, LateUnsure, LiveKnown, DownEmpty, Live, StraysAreUnsure
<1>2. IndInv /\ StrayInv /\ [Next]_vars => StrayInv'
  <2> SUFFICES ASSUME IndInv, StrayInv, [Next]_vars PROVE StrayInv'
    OBVIOUS
  <2>1. CASE UNCHANGED vars
    <3>1. Doubting /\ UNCHANGED <<co, gate>>
      BY <2>1 DEF StrayInv, LateUnsure, Doubting, vars, server, nodes
    <3> QED BY <3>1, StraysStay DEF InCharge
  <2>2. CASE Submit \/ TaskCompletes BY <2>2, SubmitStrays, AsideStrays
  <2>3. ASSUME NEW s \in Sessions, CoroutineStep(s) \/ TimePasses(s) PROVE StrayInv'
    BY <2>3, CoroutineStrays, ArrivesStrays, ConfirmFailsStrays, CleanupStrays
       DEF CoroutineStep
  <2>4. ASSUME NEW n \in Nodes, NEW s \in Sessions, ArrivesLate(s, n) \/ NodeWork(n, s)
        PROVE  StrayInv'
    BY <2>4, ArrivesLateStrays, NodeStrays
  <2>5. ASSUME NEW n \in Nodes,
               Heartbeat(n) \/ Drain(n) \/ GoesStale(n) \/ Crash(n) \/ Restart(n)
        PROVE  StrayInv'
    BY <2>5, AsideStrays, CrashStrays
  <2> QED BY <2>1, <2>2, <2>3, <2>4, <2>5 DEF Next
<1>3. StrayInv => StraysAreUnsure BY DEF StrayInv
<1> QED BY <1>1, <1>2, <1>3, Inductive, PTL DEF Spec
=============================================================================
