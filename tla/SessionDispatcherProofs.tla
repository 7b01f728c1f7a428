---------------------- MODULE SessionDispatcherProofs ----------------------
(***************************************************************************)
(* Theorems of SessionDispatcher: any number of sessions and of workers in *)
(* each pool.                                                              *)
(***************************************************************************)
EXTENDS SessionDispatcher, FiniteSetTheorems, SequenceTheorems, TLAPS

(* A worker that is not idle is with a session, and only the init workers  *)
(* wait for a run slot; the line holds such workers, each once.            *)
WorkersOK ==
  /\ \A w \in Workers : job[w].at # "idle" => job[w].sid \in Sessions
  /\ \A w \in Workers : job[w].at \in {"slot", "granted"} => w \in InitWorkers
LineOK ==
  /\ \A i \in DOMAIN waiters : job[waiters[i]].at = "slot"
  /\ \A i, j \in DOMAIN waiters : waiters[i] = waiters[j] => i = j

(* The life of a session, as its record m, its being known, the numbers n  *)
(* of its places and the calls c made for it tell it.                      *)
Ordinary(m) == m.cancelled \in {"no", "working"}
SaysOf(m) ==
  CASE m.stage = "INIT"    -> IF m.inflight THEN "initializing" ELSE "INIT"
    [] m.stage = "READY"   -> "READY"
    [] m.stage = "RUNNING" -> "running"
    [] m.stage = "POSTRUN" -> IF m.inflight THEN "postrunning" ELSE "POSTRUN"
    [] OTHER               -> "new"

Unseen(m, k, n, c) ==
  /\ m = New /\ ~k
  /\ \A p \in Wheres : n[p] = 0
  /\ c.init = 0 /\ c.run = 0 /\ c.post = 0
Staged(m, n, c) ==
  /\ m.stage # "new" /\ Ordinary(m) /\ m.wake = "none"
  /\ \A p \in Wheres : n[p] = IF p = SaysOf(m) THEN 1 ELSE 0
  /\ SaysOf(m) = "INIT" => c.init = 0
  /\ SaysOf(m) \in {"initializing", "READY", "running"} => c.init = 1
  /\ SaysOf(m) \in {"INIT", "initializing", "READY"} => c.run = 0
  /\ c.post = IF SaysOf(m) = "postrunning" THEN 1 ELSE 0
Gone(m, n, c) ==
  /\ m.stage # "new" /\ Ordinary(m) /\ m.wake = "none"
  /\ \A p \in Wheres : n[p] = 0
  /\ c.post = 1
(* One cancelled while it waited may stand in its old queue and, any       *)
(* number of times, in POSTRUN.                                            *)
Doubled(m, k, n, c) ==
  /\ m.cancelled \in {"queued", "parked"} /\ m.stage = "POSTRUN"
  /\ n["initializing"] = 0 /\ n["running"] = 0
  /\ n["INIT"] <= IF m.cancelled = "queued" THEN 1 ELSE 0
  /\ n["READY"] <= IF m.cancelled = "parked" THEN 1 ELSE 0
  /\ k /\ m.wake = "none" => n["POSTRUN"] + n["postrunning"] > 0
  /\ ~k => c.post > 0
Life(m, k, n, c) ==
  /\ c.run <= c.init /\ c.init <= 1
  /\ n["postrunning"] > 0 => c.post > 0
  /\ \/ Unseen(m, k, n, c)
     \/ k /\ Staged(m, n, c)
     \/ ~k /\ Gone(m, n, c)
     \/ Doubled(m, k, n, c)

Count(s) == [p \in Wheres |-> Where(s, p)]
LivesOK  == \A s \in Sessions : Life(sess[s], s \in known, Count(s), calls[s])

(* What the run slots add up to: a session cancelled while it was parked   *)
(* has added one, until it is dropped with it.                             *)
StillParked == {s \in CancelledParked : Where(s, "READY") > 0}
SlotsOK ==
  /\ IsFiniteSet(CancelledParked)
  /\ slots + Holding >= MaxRun + Cardinality(StillParked)
  /\ slots + Holding <= MaxRun + Cardinality(CancelledParked)

IndInv ==
  /\ TypeOK /\ WorkersOK /\ LineOK
  /\ phase = "up" => LivesOK /\ SlotsOK
  /\ phase # "up" => known = {} /\ PostrunAlone /\ StagesOnce

-----------------------------------------------------------------------------
(* Counting: what a set, a queue and a pool gain or lose.                  *)
Spots(sq, s)         == {i \in DOMAIN sq : sq[i] = s}
Busy(jb, s, W, ats)  == {w \in W : jb[w].sid = s /\ jb[w].at \in ats}

(* Two sets that agree but for one element differ in size by it.           *)
LEMMA OneApart ==
  ASSUME NEW A, NEW B, NEW x, IsFiniteSet(A), A \ {x} = B \ {x}
  PROVE  /\ IsFiniteSet(B)
         /\ Cardinality(A) \in Nat /\ Cardinality(B) \in Nat
         /\ Cardinality(B) + (IF x \in A THEN 1 ELSE 0)
              = Cardinality(A) + (IF x \in B THEN 1 ELSE 0)
<1> DEFINE R == A \ {x}
<1>1. IsFiniteSet(R) /\ Cardinality(R) \in Nat
  BY FS_RemoveElement, FS_CardinalityType
<1>2. x \notin R /\ (A = IF x \in A THEN R \cup {x} ELSE R)
               /\ (B = IF x \in B THEN R \cup {x} ELSE R)
  OBVIOUS
<1> HIDE DEF R
<1>3. IsFiniteSet(R \cup {x}) /\ Cardinality(R \cup {x}) = Cardinality(R) + 1
  BY <1>1, <1>2, FS_AddElement
<1>4. /\ IsFiniteSet(A) /\ IsFiniteSet(B)
      /\ Cardinality(A) = IF x \in A THEN Cardinality(R) + 1 ELSE Cardinality(R)
      /\ Cardinality(B) = IF x \in B THEN Cardinality(R) + 1 ELSE Cardinality(R)
  BY <1>1, <1>2, <1>3
<1> QED BY <1>1, <1>4

(* The places of an id in a sequence are finitely many.                    *)
LEMMA SpotsFinite ==
  ASSUME NEW S, NEW sq \in Seq(S), NEW s
  PROVE  IsFiniteSet(Spots(sq, s)) /\ Cardinality(Spots(sq, s)) \in Nat
<1>1. IsFiniteSet(1 .. Len(sq)) /\ Spots(sq, s) \in SUBSET (1 .. Len(sq))
  BY FS_Interval DEF Spots
<1> QED BY <1>1, FS_Subset, FS_CardinalityType

(* An id put at the end of a queue has one place more.                     *)
LEMMA Arrives ==
  ASSUME NEW S, NEW sq \in Seq(S), NEW a \in S, NEW s
  PROVE  Cardinality(Spots(Append(sq, a), s))
           = Cardinality(Spots(sq, s)) + (IF s = a THEN 1 ELSE 0)
<1> DEFINE A == Spots(sq, s)
           B == Spots(Append(sq, a), s)
           x == Len(sq) + 1
<1>1. A \ {x} = B \ {x} /\ x \notin A /\ (x \in B <=> s = a)
  BY DEF Spots
<1>2. IsFiniteSet(A) /\ Cardinality(A) \in Nat
  BY SpotsFinite
<1> HIDE DEF A, B, x
<1>3. Cardinality(B) + (IF x \in A THEN 1 ELSE 0)
        = Cardinality(A) + (IF x \in B THEN 1 ELSE 0) /\ Cardinality(B) \in Nat
  BY <1>1, <1>2, OneApart
<1> QED BY <1>1, <1>2, <1>3 DEF A, B

(* The id at the head of a queue loses one place when it is taken.         *)
LEMMA Departs ==
  ASSUME NEW S, NEW sq \in Seq(S), sq # <<>>, NEW s
  PROVE  Cardinality(Spots(sq, s))
           = Cardinality(Spots(Tail(sq), s)) + (IF s = Head(sq) THEN 1 ELSE 0)
<1> DEFINE T == Spots(Tail(sq), s)
           A == Spots(sq, s)
           B == A \ {1}
           f == [i \in T |-> i + 1]
<1>1. Tail(sq) \in Seq(S) /\ Len(sq) \in Nat \ {0} /\ Len(Tail(sq)) = Len(sq) - 1
      /\ \A i \in 1 .. (Len(sq) - 1) : Tail(sq)[i] = sq[i + 1]
  BY EmptySeq, HeadTailProperties
<1>2. T = {i \in 1 .. (Len(sq) - 1) : sq[i + 1] = s} /\ A = {i \in 1 .. Len(sq) : sq[i] = s}
  BY <1>1 DEF Spots
<1>3. f \in Bijection(T, B)
  <2>1. f \in [T -> B]
    BY <1>1, <1>2
  <2>2. \A i, j \in T : f[i] = f[j] => i = j
    BY <1>1, <1>2
  <2>3. \A j \in B : \E i \in T : f[i] = j
    <3> TAKE j \in B
    <3>1. j - 1 \in T /\ f[j - 1] = j
      BY <1>1, <1>2
    <3> QED BY <3>1
  <2> QED BY <2>1, <2>2, <2>3 DEF Bijection, Injection, Surjection, IsInjective
<1>4. IsFiniteSet(T) /\ Cardinality(T) \in Nat /\ IsFiniteSet(A) /\ Cardinality(A) \in Nat
  BY <1>1, SpotsFinite
<1>5. Cardinality(B) = Cardinality(T)
  BY <1>3, <1>4, FS_Bijection DEF ExistsBijection
<1>6. 1 \in A <=> s = Head(sq)
  BY <1>1, <1>2, HeadTailProperties
<1> HIDE DEF A, T, f
<1>7. Cardinality(B) = IF 1 \in A THEN Cardinality(A) - 1 ELSE Cardinality(A)
  BY <1>4, FS_RemoveElement
<1> QED BY <1>4, <1>5, <1>6, <1>7 DEF A, T

-----------------------------------------------------------------------------
(* A step that takes one of the places of session s and gives it another;  *)
(* from or to is "none" where the session enters or leaves.                *)
Shifted(n, n2, from, to) ==
  \A p \in Wheres : n2[p] + (IF p = from THEN 1 ELSE 0) = n[p] + (IF p = to THEN 1 ELSE 0)
Shift(s, from, to) ==
  \A t \in Sessions :
    Shifted(Count(t), Count(t)', IF t = s THEN from ELSE "none", IF t = s THEN to ELSE "none")

Queues == [init : Seq(Sessions), ready : Seq(Sessions), post : Seq(Sessions)]
Job    == [sid : Sessions \cup {None}, at : {"idle", "handler", "slot", "granted"}]

(* The pools are finite, and apart.                                        *)
LEMMA Pools ==
  /\ IsFiniteSet(InitWorkers) /\ IsFiniteSet(RunWorkers) /\ IsFiniteSet(PostWorkers)
  /\ InitWorkers \subseteq Workers /\ RunWorkers \subseteq Workers /\ PostWorkers \subseteq Workers
BY PoolsAssumption, FS_Subset DEF Workers

(* The counts, now and after a step.                                       *)
NowAt(t, qs, jb) ==
  [p \in Wheres |->
     CASE p = "INIT"         -> Cardinality(Spots(qs.init, t))
       [] p = "initializing" -> Cardinality(Busy(jb, t, InitWorkers, {"handler"}))
       [] p = "READY"        -> Cardinality(Spots(qs.ready, t))
                                + Cardinality(Busy(jb, t, InitWorkers, {"slot", "granted"}))
       [] p = "running"      -> Cardinality(Busy(jb, t, RunWorkers, {"handler"}))
       [] p = "POSTRUN"      -> Cardinality(Spots(qs.post, t))
       [] p = "postrunning"  -> Cardinality(Busy(jb, t, PostWorkers, {"handler"}))]

(* Count, now and in the next state, is what the queues and the jobs are.  *)
LEMMA CountIs ==
  ASSUME NEW t
  PROVE  Count(t) = NowAt(t, queue, job) /\ Count(t)' = NowAt(t, queue', job')
BY DEF Count, NowAt, Where, Places, Jobs, Spots, Busy

(* Counts are natural numbers.                                             *)
LEMMA CountNat ==
  ASSUME NEW qs \in Queues, NEW jb \in [Workers -> Job], NEW t
  PROVE  /\ NowAt(t, qs, jb) \in [Wheres -> Nat]
         /\ NowAt(t, qs, jb)["INIT"] = Cardinality(Spots(qs.init, t))
         /\ NowAt(t, qs, jb)["initializing"] = Cardinality(Busy(jb, t, InitWorkers, {"handler"}))
         /\ NowAt(t, qs, jb)["READY"] = Cardinality(Spots(qs.ready, t))
                                + Cardinality(Busy(jb, t, InitWorkers, {"slot", "granted"}))
         /\ NowAt(t, qs, jb)["running"] = Cardinality(Busy(jb, t, RunWorkers, {"handler"}))
         /\ NowAt(t, qs, jb)["POSTRUN"] = Cardinality(Spots(qs.post, t))
         /\ NowAt(t, qs, jb)["postrunning"] = Cardinality(Busy(jb, t, PostWorkers, {"handler"}))
<1>1. /\ Cardinality(Spots(qs.init, t)) \in Nat
      /\ Cardinality(Spots(qs.ready, t)) \in Nat
      /\ Cardinality(Spots(qs.post, t)) \in Nat
  BY SpotsFinite DEF Queues
<1>2. ASSUME NEW W, IsFiniteSet(W), NEW ats
      PROVE  Cardinality(Busy(jb, t, W, ats)) \in Nat
  <2>1. Busy(jb, t, W, ats) \in SUBSET W
    BY DEF Busy
  <2> QED BY <1>2, <2>1, FS_Subset, FS_CardinalityType
<1>3. /\ Cardinality(Busy(jb, t, InitWorkers, {"handler"})) \in Nat
      /\ Cardinality(Busy(jb, t, InitWorkers, {"slot", "granted"})) \in Nat
      /\ Cardinality(Busy(jb, t, RunWorkers, {"handler"})) \in Nat
      /\ Cardinality(Busy(jb, t, PostWorkers, {"handler"})) \in Nat
  BY <1>2, Pools
<1> QED BY <1>1, <1>3 DEF NowAt, Wheres

(* What joins a queue, what leaves one, and what a worker turns to, as     *)
(* shifts of the counts.                                                   *)
QueueOf(p) == CASE p = "INIT" -> "init" [] p = "READY" -> "ready" [] OTHER -> "post"

(* An id put in a queue gives its session a place there, and no other.     *)
LEMMA JoinShift ==
  ASSUME NEW qs \in Queues, NEW jb \in [Workers -> Job], NEW a \in Sessions,
         NEW qs2 \in Queues, NEW p \in {"INIT", "READY", "POSTRUN"},
         \A q \in {"init", "ready", "post"} :
           qs2[q] = IF q = QueueOf(p) THEN Append(qs[q], a) ELSE qs[q]
  PROVE  \A t \in Sessions :
           Shifted(NowAt(t, qs, jb), NowAt(t, qs2, jb), "none", IF t = a THEN p ELSE "none")
<1> TAKE t \in Sessions
<1>1. /\ qs2.init  = IF p = "INIT" THEN Append(qs.init, a) ELSE qs.init
      /\ qs2.ready = IF p = "READY" THEN Append(qs.ready, a) ELSE qs.ready
      /\ qs2.post  = IF p = "POSTRUN" THEN Append(qs.post, a) ELSE qs.post
  BY DEF QueueOf
<1>2. /\ Cardinality(Spots(Append(qs.init, a), t)) = Cardinality(Spots(qs.init, t)) + (IF t = a THEN 1 ELSE 0)
      /\ Cardinality(Spots(Append(qs.ready, a), t)) = Cardinality(Spots(qs.ready, t)) + (IF t = a THEN 1 ELSE 0)
      /\ Cardinality(Spots(Append(qs.post, a), t)) = Cardinality(Spots(qs.post, t)) + (IF t = a THEN 1 ELSE 0)
  BY Arrives DEF Queues
<1>3. /\ Cardinality(Spots(qs.init, t)) \in Nat
      /\ Cardinality(Spots(qs.ready, t)) \in Nat
      /\ Cardinality(Spots(qs.post, t)) \in Nat
      /\ Cardinality(Busy(jb, t, InitWorkers, {"slot", "granted"})) \in Nat
  <2>1. Busy(jb, t, InitWorkers, {"slot", "granted"}) \in SUBSET InitWorkers
    BY DEF Busy
  <2> QED BY <2>1, SpotsFinite, Pools, FS_Subset, FS_CardinalityType DEF Queues
<1> HIDE DEF Queues, Job
<1>4. NowAt(t, qs, jb) \in [Wheres -> Nat] /\ NowAt(t, qs2, jb) \in [Wheres -> Nat]
  BY CountNat
<1> QED BY <1>1, <1>2, <1>3, <1>4, CountNat DEF Shifted, Wheres

(* The id taken from a queue loses its session that place.                 *)
LEMMA LeaveShift ==
  ASSUME NEW qs \in Queues, NEW jb \in [Workers -> Job],
         NEW qs2 \in Queues, NEW p \in {"INIT", "READY", "POSTRUN"},
         qs[QueueOf(p)] # <<>>,
         \A q \in {"init", "ready", "post"} :
           qs2[q] = IF q = QueueOf(p) THEN Tail(qs[q]) ELSE qs[q]
  PROVE  \A t \in Sessions :
           Shifted(NowAt(t, qs, jb), NowAt(t, qs2, jb),
                   IF t = Head(qs[QueueOf(p)]) THEN p ELSE "none", "none")
<1> TAKE t \in Sessions
<1>1. /\ qs2.init  = IF p = "INIT" THEN Tail(qs.init) ELSE qs.init
      /\ qs2.ready = IF p = "READY" THEN Tail(qs.ready) ELSE qs.ready
      /\ qs2.post  = IF p = "POSTRUN" THEN Tail(qs.post) ELSE qs.post
      /\ p = "INIT" => qs.init # <<>> /\ QueueOf(p) = "init"
      /\ p = "READY" => qs.ready # <<>> /\ QueueOf(p) = "ready"
      /\ p = "POSTRUN" => qs.post # <<>> /\ QueueOf(p) = "post"
  BY DEF QueueOf
<1>2. /\ qs.init # <<>> =>
           Cardinality(Spots(qs.init, t)) = Cardinality(Spots(Tail(qs.init), t)) + (IF t = Head(qs.init) THEN 1 ELSE 0)
      /\ qs.ready # <<>> =>
           Cardinality(Spots(qs.ready, t)) = Cardinality(Spots(Tail(qs.ready), t)) + (IF t = Head(qs.ready) THEN 1 ELSE 0)
      /\ qs.post # <<>> =>
           Cardinality(Spots(qs.post, t)) = Cardinality(Spots(Tail(qs.post), t)) + (IF t = Head(qs.post) THEN 1 ELSE 0)
  BY Departs DEF Queues
<1>3. /\ Cardinality(Spots(qs2.init, t)) \in Nat
      /\ Cardinality(Spots(qs2.ready, t)) \in Nat
      /\ Cardinality(Spots(qs2.post, t)) \in Nat
      /\ Cardinality(Busy(jb, t, InitWorkers, {"slot", "granted"})) \in Nat
  <2>1. Busy(jb, t, InitWorkers, {"slot", "granted"}) \in SUBSET InitWorkers
    BY DEF Busy
  <2> QED BY <2>1, SpotsFinite, Pools, FS_Subset, FS_CardinalityType DEF Queues
<1>4. /\ NowAt(t, qs, jb)["INIT"] = Cardinality(Spots(qs.init, t))
      /\ NowAt(t, qs2, jb)["INIT"] = Cardinality(Spots(qs2.init, t))
      /\ NowAt(t, qs, jb)["READY"] = Cardinality(Spots(qs.ready, t))
                                + Cardinality(Busy(jb, t, InitWorkers, {"slot", "granted"}))
      /\ NowAt(t, qs2, jb)["READY"] = Cardinality(Spots(qs2.ready, t))
                                + Cardinality(Busy(jb, t, InitWorkers, {"slot", "granted"}))
      /\ NowAt(t, qs, jb)["POSTRUN"] = Cardinality(Spots(qs.post, t))
      /\ NowAt(t, qs2, jb)["POSTRUN"] = Cardinality(Spots(qs2.post, t))
      /\ \A r \in Wheres \ {"INIT", "READY", "POSTRUN"} : NowAt(t, qs, jb)[r] = NowAt(t, qs2, jb)[r]
      /\ NowAt(t, qs, jb) \in [Wheres -> Nat] /\ NowAt(t, qs2, jb) \in [Wheres -> Nat]
  BY CountNat DEF Wheres
<1> DEFINE n == NowAt(t, qs, jb)
           n2 == NowAt(t, qs2, jb)
           at == IF t = Head(qs[QueueOf(p)]) THEN p ELSE "none"
           ci == Cardinality(Spots(qs.init, t))
           cr == Cardinality(Spots(qs.ready, t))
           cp == Cardinality(Spots(qs.post, t))
           di == Cardinality(Spots(qs2.init, t))
           dr == Cardinality(Spots(qs2.ready, t))
           dp == Cardinality(Spots(qs2.post, t))
<1>5. /\ di + (IF at = "INIT" THEN 1 ELSE 0) = ci
      /\ dr + (IF at = "READY" THEN 1 ELSE 0) = cr
      /\ dp + (IF at = "POSTRUN" THEN 1 ELSE 0) = cp
  <2>1. CASE p = "INIT"
    <3> QED BY <1>1, <1>2, <1>3, <2>1
  <2>2. CASE p = "READY"
    <3> QED BY <1>1, <1>2, <1>3, <2>2
  <2>3. CASE p = "POSTRUN"
    <3> QED BY <1>1, <1>2, <1>3, <2>3
  <2> QED BY <2>1, <2>2, <2>3
<1>6. at \in {"INIT", "READY", "POSTRUN", "none"}
  OBVIOUS
<1> HIDE DEF n, n2, at, ci, cr, cp, di, dr, dp
<1>7. /\ n \in [Wheres -> Nat] /\ n2 \in [Wheres -> Nat]
      /\ \A r \in Wheres \ {"INIT", "READY", "POSTRUN"} : n[r] = n2[r]
  BY <1>4 DEF n, n2
<1>8. /\ n2["INIT"] + (IF at = "INIT" THEN 1 ELSE 0) = n["INIT"]
      /\ n2["READY"] + (IF at = "READY" THEN 1 ELSE 0) = n["READY"]
      /\ n2["POSTRUN"] + (IF at = "POSTRUN" THEN 1 ELSE 0) = n["POSTRUN"]
  <2> DEFINE b == Cardinality(Busy(jb, t, InitWorkers, {"slot", "granted"}))
  <2>1. /\ n["INIT"] = ci /\ n2["INIT"] = di /\ n["READY"] = cr + b /\ n2["READY"] = dr + b
        /\ n["POSTRUN"] = cp /\ n2["POSTRUN"] = dp
    BY <1>4 DEF n, n2, ci, cr, cp, di, dr, dp
  <2>2. b \in Nat /\ dr \in Nat /\ di \in Nat /\ dp \in Nat
    BY <1>3 DEF di, dr, dp
  <2> HIDE DEF b
  <2> QED BY <1>5, <2>1, <2>2
<1>9. \A r \in Wheres : n2[r] + (IF r = at THEN 1 ELSE 0) = n[r] + (IF r = "none" THEN 1 ELSE 0)
  BY <1>6, <1>7, <1>8 DEF Wheres
<1> QED BY <1>9 DEF Shifted, n, n2, at

(* A worker is somewhere: nowhere that counts when it is idle.             *)
PlaceOf(w, at) ==
  CASE at = "handler" /\ w \in InitWorkers -> "initializing"
    [] at \in {"slot", "granted"} /\ w \in InitWorkers -> "READY"
    [] at = "handler" /\ w \in RunWorkers -> "running"
    [] at = "handler" /\ w \in PostWorkers -> "postrunning"
    [] OTHER -> "none"

(* A worker that turns from one job to another moves the place of the      *)
(* session it was with to the one it comes to.                             *)
LEMMA TurnShift ==
  ASSUME NEW qs \in Queues, NEW jb \in [Workers -> Job], NEW w \in Workers, NEW j \in Job
  PROVE  \A t \in Sessions :
           Shifted(NowAt(t, qs, jb), NowAt(t, qs, [jb EXCEPT ![w] = j]),
                   IF t = jb[w].sid THEN PlaceOf(w, jb[w].at) ELSE "none",
                   IF t = j.sid THEN PlaceOf(w, j.at) ELSE "none")
<1> TAKE t \in Sessions
<1> DEFINE jb2 == [jb EXCEPT ![w] = j]
<1>1. jb2 \in [Workers -> Job]
  OBVIOUS
<1>2. ASSUME NEW W \in {InitWorkers, RunWorkers, PostWorkers}, NEW ats
      PROVE  /\ Cardinality(Busy(jb, t, W, ats)) \in Nat /\ Cardinality(Busy(jb2, t, W, ats)) \in Nat
             /\ Cardinality(Busy(jb2, t, W, ats)) + (IF w \in W /\ jb[w].sid = t /\ jb[w].at \in ats THEN 1 ELSE 0)
                 = Cardinality(Busy(jb, t, W, ats)) + (IF w \in W /\ j.sid = t /\ j.at \in ats THEN 1 ELSE 0)
  <2>1. IsFiniteSet(W) /\ W \subseteq Workers
    BY <1>2, Pools
  <2> DEFINE A == Busy(jb, t, W, ats)
             B == Busy(jb2, t, W, ats)
  <2>2. A \in SUBSET W /\ A \ {w} = B \ {w}
        /\ (w \in A <=> w \in W /\ jb[w].sid = t /\ jb[w].at \in ats)
        /\ (w \in B <=> w \in W /\ j.sid = t /\ j.at \in ats)
    BY <2>1 DEF Busy
  <2>3. IsFiniteSet(A)
    BY <2>1, <2>2, FS_Subset
  <2> HIDE DEF A, B
  <2>4. /\ Cardinality(A) \in Nat /\ Cardinality(B) \in Nat
        /\ Cardinality(B) + (IF w \in A THEN 1 ELSE 0)
             = Cardinality(A) + (IF w \in B THEN 1 ELSE 0)
    BY <2>2, <2>3, OneApart
  <2> QED BY <2>2, <2>4 DEF A, B
<1>3. Cardinality(Spots(qs.ready, t)) \in Nat /\ Cardinality(Spots(qs.init, t)) \in Nat
      /\ Cardinality(Spots(qs.post, t)) \in Nat
  BY SpotsFinite DEF Queues
<1> DEFINE a1 == Cardinality(Busy(jb, t, InitWorkers, {"handler"}))
           a2 == Cardinality(Busy(jb, t, InitWorkers, {"slot", "granted"}))
           a3 == Cardinality(Busy(jb, t, RunWorkers, {"handler"}))
           a4 == Cardinality(Busy(jb, t, PostWorkers, {"handler"}))
           b1 == Cardinality(Busy(jb2, t, InitWorkers, {"handler"}))
           b2 == Cardinality(Busy(jb2, t, InitWorkers, {"slot", "granted"}))
           b3 == Cardinality(Busy(jb2, t, RunWorkers, {"handler"}))
           b4 == Cardinality(Busy(jb2, t, PostWorkers, {"handler"}))
           from == IF t = jb[w].sid THEN PlaceOf(w, jb[w].at) ELSE "none"
           to == IF t = j.sid THEN PlaceOf(w, j.at) ELSE "none"
<1>4. /\ a1 \in Nat /\ a2 \in Nat /\ a3 \in Nat /\ a4 \in Nat
      /\ b1 \in Nat /\ b2 \in Nat /\ b3 \in Nat /\ b4 \in Nat
  BY <1>2
<1>5. /\ b1 + (IF from = "initializing" THEN 1 ELSE 0) = a1 + (IF to = "initializing" THEN 1 ELSE 0)
      /\ b2 + (IF from = "READY" THEN 1 ELSE 0) = a2 + (IF to = "READY" THEN 1 ELSE 0)
      /\ b3 + (IF from = "running" THEN 1 ELSE 0) = a3 + (IF to = "running" THEN 1 ELSE 0)
      /\ b4 + (IF from = "postrunning" THEN 1 ELSE 0) = a4 + (IF to = "postrunning" THEN 1 ELSE 0)
  <2> HIDE DEF jb2
  <2>1. /\ from = "initializing" <=> w \in InitWorkers /\ jb[w].sid = t /\ jb[w].at \in {"handler"}
        /\ from = "READY" <=> w \in InitWorkers /\ jb[w].sid = t /\ jb[w].at \in {"slot", "granted"}
        /\ from = "running" <=> w \in RunWorkers /\ jb[w].sid = t /\ jb[w].at \in {"handler"}
        /\ from = "postrunning" <=> w \in PostWorkers /\ jb[w].sid = t /\ jb[w].at \in {"handler"}
    BY PoolsAssumption DEF PlaceOf
  <2>2. /\ to = "initializing" <=> w \in InitWorkers /\ j.sid = t /\ j.at \in {"handler"}
        /\ to = "READY" <=> w \in InitWorkers /\ j.sid = t /\ j.at \in {"slot", "granted"}
        /\ to = "running" <=> w \in RunWorkers /\ j.sid = t /\ j.at \in {"handler"}
        /\ to = "postrunning" <=> w \in PostWorkers /\ j.sid = t /\ j.at \in {"handler"}
    BY PoolsAssumption DEF PlaceOf
  <2> HIDE DEF from, to
  <2> QED BY <1>2, <2>1, <2>2
<1>6. from \notin {"INIT", "POSTRUN"} /\ to \notin {"INIT", "POSTRUN"}
  BY DEF PlaceOf
<1>7. /\ NowAt(t, qs, jb)["INIT"] = NowAt(t, qs, jb2)["INIT"]
      /\ NowAt(t, qs, jb)["POSTRUN"] = NowAt(t, qs, jb2)["POSTRUN"]
      /\ NowAt(t, qs, jb)["initializing"] = a1 /\ NowAt(t, qs, jb2)["initializing"] = b1
      /\ NowAt(t, qs, jb)["READY"] = Cardinality(Spots(qs.ready, t)) + a2
      /\ NowAt(t, qs, jb2)["READY"] = Cardinality(Spots(qs.ready, t)) + b2
      /\ NowAt(t, qs, jb)["running"] = a3 /\ NowAt(t, qs, jb2)["running"] = b3
      /\ NowAt(t, qs, jb)["postrunning"] = a4 /\ NowAt(t, qs, jb2)["postrunning"] = b4
  <2> HIDE DEF jb2
  <2> QED BY <1>1, CountNat
<1>8. NowAt(t, qs, jb) \in [Wheres -> Nat] /\ NowAt(t, qs, jb2) \in [Wheres -> Nat]
  <2> HIDE DEF jb2
  <2> QED BY <1>1, CountNat
<1> HIDE DEF a1, a2, a3, a4, b1, b2, b3, b4, from, to, jb2
<1>9. \A p \in Wheres :
        NowAt(t, qs, jb2)[p] + (IF p = from THEN 1 ELSE 0) = NowAt(t, qs, jb)[p] + (IF p = to THEN 1 ELSE 0)
  BY <1>3, <1>4, <1>5, <1>6, <1>7, <1>8 DEF Wheres
<1> QED BY <1>9 DEF Shifted, from, to, jb2

(* Two shifts, one after the other.                                        *)
LEMMA ShiftTwice ==
  ASSUME NEW n \in [Wheres -> Nat], NEW n1 \in [Wheres -> Nat], NEW n2 \in [Wheres -> Nat],
         NEW f, NEW u, NEW v, NEW g
  PROVE  /\ Shifted(n, n1, f, "none") /\ Shifted(n1, n2, "none", g) => Shifted(n, n2, f, g)
         /\ Shifted(n, n1, "none", g) /\ Shifted(n1, n2, f, "none") => Shifted(n, n2, f, g)
<1>1. "none" \notin Wheres
  BY DEF Wheres
<1> QED BY <1>1 DEF Shifted

-----------------------------------------------------------------------------
(* Each action keeps the types and the line of waiting workers, and shifts *)
(* the counts of one session.                                              *)
Shape == TypeOK /\ WorkersOK /\ LineOK

(* The counts of a state are natural numbers.                              *)
LEMMA CountsNat ==
  ASSUME TypeOK
  PROVE  \A t : Count(t) \in [Wheres -> Nat]
<1>1. queue \in Queues /\ job \in [Workers -> Job]
  BY DEF TypeOK, Queues, Job
<1> QED BY <1>1, CountIs, CountNat

(* What is taken from a queue.                                             *)
LEMMA TakenOK ==
  ASSUME TypeOK, NEW q \in {"init", "ready", "post"}, Waiting(q)
  PROVE  /\ First(q) \in Sessions
         /\ Taken(q) \in Queues
         /\ \A r \in {"init", "ready", "post"} :
              Taken(q)[r] = IF r = q THEN Tail(queue[r]) ELSE queue[r]
<1>1. queue[q] \in Seq(Sessions) /\ queue[q] # <<>>
  BY DEF TypeOK, Waiting
<1>2. Head(queue[q]) \in Sessions /\ Tail(queue[q]) \in Seq(Sessions)
  BY <1>1, EmptySeq, HeadTailProperties
<1> QED BY <1>2 DEF TypeOK, Taken, First, Queues

(* Taking from a stage queue moves its first session out of it.            *)
LEMMA TakenShift ==
  ASSUME TypeOK, NEW p \in {"INIT", "READY", "POSTRUN"}, Waiting(QueueOf(p))
  PROVE  \A t \in Sessions :
           Shifted(Count(t), NowAt(t, Taken(QueueOf(p)), job),
                   IF t = First(QueueOf(p)) THEN p ELSE "none", "none")
<1> DEFINE q == QueueOf(p)
<1>1. q \in {"init", "ready", "post"}
  BY DEF QueueOf
<1> HIDE DEF q
<1>2. /\ Taken(q) \in Queues
      /\ \A r \in {"init", "ready", "post"} :
           Taken(q)[r] = IF r = q THEN Tail(queue[r]) ELSE queue[r]
  BY <1>1, TakenOK DEF q
<1>3. queue \in Queues /\ job \in [Workers -> Job]
  BY DEF TypeOK, Queues, Job
<1>4. queue[q] # <<>> /\ First(q) = Head(queue[q])
  BY DEF q, Waiting, First
<1>5. \A t \in Sessions :
        Shifted(NowAt(t, queue, job), NowAt(t, Taken(q), job),
                IF t = Head(queue[q]) THEN p ELSE "none", "none")
  BY <1>2, <1>3, <1>4, LeaveShift DEF q
<1> QED BY <1>4, <1>5, CountIs DEF q

(* _move_to_postrun puts a session it knows, and that is not there yet, in *)
(* the POSTRUN queue.                                                      *)
Moves(s, m) == s \in known /\ m.stage # "POSTRUN"

(* _move_to_postrun leaves a record and queues of their types, and queues  *)
(* the session in POSTRUN when it moves.                                   *)
LEMMA MoveOK ==
  ASSUME NEW s \in Sessions, NEW m \in Managed, NEW q \in Queues,
         sess \in [Sessions -> Managed], MoveToPostrun(s, m, q)
  PROVE  /\ sess' \in [Sessions -> Managed]
         /\ sess' = [sess EXCEPT ![s] =
              IF Moves(s, m) THEN [m EXCEPT !.stage = "POSTRUN", !.inflight = FALSE] ELSE m]
         /\ queue' \in Queues
         /\ queue' = IF Moves(s, m) THEN [q EXCEPT !.post = Append(@, s)] ELSE q
<1>1. [m EXCEPT !.stage = "POSTRUN", !.inflight = FALSE] \in Managed
  BY DEF Managed, Stages
<1>2. Append(q.post, s) \in Seq(Sessions)
  BY AppendProperties DEF Queues
<1> QED BY <1>1, <1>2 DEF MoveToPostrun, Moves, Queues

(* Appending to a queue of a record of queues, or to none.                 *)
LEMMA AppendShift ==
  ASSUME NEW s \in Sessions, NEW q \in Queues, NEW jb \in [Workers -> Job]
  PROVE  /\ [q EXCEPT !.post = Append(@, s)] \in Queues
         /\ [q EXCEPT !.ready = Append(@, s)] \in Queues
         /\ [q EXCEPT !.init = Append(@, s)] \in Queues
         /\ \A t \in Sessions :
              /\ Shifted(NowAt(t, q, jb), NowAt(t, [q EXCEPT !.post = Append(@, s)], jb),
                         "none", IF t = s THEN "POSTRUN" ELSE "none")
              /\ Shifted(NowAt(t, q, jb), NowAt(t, [q EXCEPT !.ready = Append(@, s)], jb),
                         "none", IF t = s THEN "READY" ELSE "none")
              /\ Shifted(NowAt(t, q, jb), NowAt(t, [q EXCEPT !.init = Append(@, s)], jb),
                         "none", IF t = s THEN "INIT" ELSE "none")
              /\ Shifted(NowAt(t, q, jb), NowAt(t, q, jb), "none", "none")
<1> DEFINE q1 == [q EXCEPT !.post = Append(@, s)]
           q2 == [q EXCEPT !.ready = Append(@, s)]
           q3 == [q EXCEPT !.init = Append(@, s)]
<1>1. q1 \in Queues /\ q2 \in Queues /\ q3 \in Queues
  BY AppendProperties DEF Queues
<1>2. \A r \in {"init", "ready", "post"} :
        /\ q1[r] = IF r = QueueOf("POSTRUN") THEN Append(q[r], s) ELSE q[r]
        /\ q2[r] = IF r = QueueOf("READY") THEN Append(q[r], s) ELSE q[r]
        /\ q3[r] = IF r = QueueOf("INIT") THEN Append(q[r], s) ELSE q[r]
  BY DEF QueueOf, Queues
<1> HIDE DEF q1, q2, q3
<1>3. \A t \in Sessions :
        Shifted(NowAt(t, q, jb), NowAt(t, q1, jb), "none", IF t = s THEN "POSTRUN" ELSE "none")
  BY <1>1, <1>2, JoinShift
<1>4. \A t \in Sessions :
        Shifted(NowAt(t, q, jb), NowAt(t, q2, jb), "none", IF t = s THEN "READY" ELSE "none")
  BY <1>1, <1>2, JoinShift
<1>5. \A t \in Sessions :
        Shifted(NowAt(t, q, jb), NowAt(t, q3, jb), "none", IF t = s THEN "INIT" ELSE "none")
  BY <1>1, <1>2, JoinShift
<1>6. \A t \in Sessions : Shifted(NowAt(t, q, jb), NowAt(t, q, jb), "none", "none")
  BY DEF Shifted, Wheres
<1> QED BY <1>1, <1>3, <1>4, <1>5, <1>6 DEF q1, q2, q3

(* The two together, and with the turn of a worker.                        *)
LEMMA TurnsThen ==
  ASSUME TypeOK, NEW w \in Workers, NEW j \in Job, NEW s, job[w].sid = s \/ PlaceOf(w, job[w].at) = "none",
         j.sid = s \/ PlaceOf(w, j.at) = "none",
         NEW q2 \in Queues, NEW from, NEW to,
         \A t \in Sessions : Shifted(Count(t), NowAt(t, q2, job), IF t = s THEN from ELSE "none",
                                     IF t = s THEN to ELSE "none"),
         queue' = q2, job' = [job EXCEPT ![w] = j],
         NEW f, NEW g,
         \/ /\ from = "none" /\ PlaceOf(w, j.at) = "none"
            /\ f = PlaceOf(w, job[w].at) /\ g = to
         \/ /\ to = "none" /\ PlaceOf(w, job[w].at) = "none"
            /\ f = from /\ g = PlaceOf(w, j.at)
         \/ /\ from = "none" /\ to = "none"
            /\ f = PlaceOf(w, job[w].at) /\ g = PlaceOf(w, j.at)
  PROVE  Shift(s, f, g)
<1> SUFFICES ASSUME NEW t \in Sessions
             PROVE  Shifted(Count(t), Count(t)', IF t = s THEN f ELSE "none", IF t = s THEN g ELSE "none")
  BY DEF Shift
<1>1. queue \in Queues /\ job \in [Workers -> Job]
  BY DEF TypeOK, Queues, Job
<1>2. Count(t) = NowAt(t, queue, job) /\ Count(t)' = NowAt(t, q2, [job EXCEPT ![w] = j])
  BY CountIs
<1> DEFINE n == Count(t)
           n1 == NowAt(t, q2, job)
           n2 == NowAt(t, q2, [job EXCEPT ![w] = j])
<1>3. [job EXCEPT ![w] = j] \in [Workers -> Job]
  BY <1>1
<1>4. n \in [Wheres -> Nat] /\ n1 \in [Wheres -> Nat] /\ n2 \in [Wheres -> Nat]
  <2> HIDE DEF Job
  <2>1. NowAt(t, queue, job) \in [Wheres -> Nat]
    BY <1>1, CountNat
  <2>2. n1 \in [Wheres -> Nat]
    BY <1>1, CountNat
  <2> DEFINE jb == [job EXCEPT ![w] = j]
  <2>3. jb \in [Workers -> Job]
    BY <1>3
  <2> HIDE DEF jb
  <2>4. NowAt(t, q2, jb) \in [Wheres -> Nat]
    BY <2>3, CountNat
  <2> QED BY <1>2, <2>1, <2>2, <2>4 DEF jb
<1>5. Shifted(n1, n2, IF t = job[w].sid THEN PlaceOf(w, job[w].at) ELSE "none",
                      IF t = j.sid THEN PlaceOf(w, j.at) ELSE "none")
  BY <1>1, TurnShift
<1>6. Shifted(n, n1, IF t = s THEN from ELSE "none", IF t = s THEN to ELSE "none")
  OBVIOUS
<1> HIDE DEF n, n1, n2
<1> DEFINE A == PlaceOf(w, job[w].at)
           B == PlaceOf(w, j.at)
<1>7. Shifted(n1, n2, IF t = s THEN A ELSE "none", IF t = s THEN B ELSE "none")
  BY <1>5
<1> HIDE DEF A, B
<1>8. Shifted(n, n2, IF t = s THEN f ELSE "none", IF t = s THEN g ELSE "none")
  <2>1. CASE from = "none" /\ B = "none" /\ f = A /\ g = to
    BY <1>4, <1>6, <1>7, <2>1, ShiftTwice
  <2>2. CASE to = "none" /\ A = "none" /\ f = from /\ g = B
    BY <1>4, <1>6, <1>7, <2>2, ShiftTwice
  <2>3. CASE from = "none" /\ to = "none" /\ f = A /\ g = B
    BY <1>4, <1>6, <1>7, <2>3 DEF Shifted, Wheres
  <2> QED BY <2>1, <2>2, <2>3 DEF A, B
<1> QED BY <1>2, <1>8 DEF n, n2

(* A step that changes the queues and no job.                              *)
LEMMA QueueThen ==
  ASSUME TypeOK, NEW s, NEW q2 \in Queues, NEW from, NEW to,
         \A t \in Sessions : Shifted(Count(t), NowAt(t, q2, job), IF t = s THEN from ELSE "none",
                                     IF t = s THEN to ELSE "none"),
         queue' = q2, job' = job
  PROVE  Shift(s, from, to)
BY CountIs DEF Shift

(* The queue of each stage, and the place a worker of each pool is.        *)
LEMMA QueueOfIs ==
  /\ QueueOf("INIT") = "init" /\ QueueOf("READY") = "ready" /\ QueueOf("POSTRUN") = "post"
  /\ \A w : PlaceOf(w, "idle") = "none"
  /\ \A w \in InitWorkers : /\ PlaceOf(w, "handler") = "initializing"
                            /\ PlaceOf(w, "slot") = "READY" /\ PlaceOf(w, "granted") = "READY"
  /\ \A w \in RunWorkers : PlaceOf(w, "handler") = "running"
  /\ \A w \in PostWorkers : PlaceOf(w, "handler") = "postrunning"
BY PoolsAssumption DEF QueueOf, PlaceOf

(* A worker that is not in line turns to something but the line.           *)
LEMMA LineKept ==
  ASSUME Shape, NEW w \in Workers, job[w].at # "slot", NEW j \in Job,
         j.at # "idle" => j.sid \in Sessions, j.at \in {"slot", "granted"} => w \in InitWorkers,
         job' = [job EXCEPT ![w] = j], waiters' = waiters
  PROVE  /\ job' \in [Workers -> Job] /\ waiters' \in Seq(InitWorkers)
         /\ WorkersOK' /\ LineOK'
<1>1. job \in [Workers -> Job] /\ waiters \in Seq(InitWorkers)
  BY DEF Shape, TypeOK, Job
<1>2. WorkersOK'
  BY <1>1 DEF Shape, WorkersOK
<1>3. LineOK'
  <2>1. \A i \in DOMAIN waiters : waiters[i] \in Workers /\ waiters[i] # w
    BY <1>1, Pools DEF Shape, LineOK
  <2> QED BY <1>1, <2>1 DEF Shape, LineOK
<1> QED BY <1>1, <1>2, <1>3

(* Dropping the id of a session that is gone.                              *)
LEMMA DropOK ==
  ASSUME Shape, NEW w \in Workers, NEW p \in {"INIT", "READY", "POSTRUN"}, Drop(w, QueueOf(p))
  PROVE  Shape' /\ Shift(First(QueueOf(p)), p, "none") /\ First(QueueOf(p)) \in Sessions
<1> DEFINE q == QueueOf(p)
<1>1. q \in {"init", "ready", "post"} /\ Waiting(q) /\ TypeOK
  BY DEF QueueOf, Drop, Shape
<1> HIDE DEF q
<1>2. Taken(q) \in Queues /\ First(q) \in Sessions
  BY <1>1, TakenOK
<1>3. Shape'
  BY <1>2 DEF Shape, TypeOK, WorkersOK, LineOK, Drop, Queues, q
<1>4. Shift(First(q), p, "none")
  <2>1. \A t \in Sessions :
           Shifted(Count(t), NowAt(t, Taken(q), job),
                   IF t = First(q) THEN p ELSE "none", IF t = First(q) THEN "none" ELSE "none")
    BY <1>1, TakenShift DEF q
  <2>2. queue' = Taken(q) /\ job' = job
    BY DEF Drop, q
  <2> QED BY <1>1, <1>2, <2>1, <2>2, QueueThen
<1> QED BY <1>2, <1>3, <1>4 DEF q

(* Starting a handler moves the session from its queue to the worker.      *)
LEMMA CallOK ==
  ASSUME Shape, NEW w \in Workers, NEW p \in {"INIT", "READY", "POSTRUN"},
         NEW counter \in {"init", "run", "post"}, Call(w, QueueOf(p), counter),
         sess' \in [Sessions -> Managed]
  PROVE  /\ Shape' /\ Shift(First(QueueOf(p)), p, PlaceOf(w, "handler"))
         /\ First(QueueOf(p)) \in Sessions
<1> DEFINE q == QueueOf(p)
           j == [sid |-> First(q), at |-> "handler"]
<1>1. q \in {"init", "ready", "post"} /\ Waiting(q) /\ TypeOK /\ job[w].at = "idle"
  BY DEF QueueOf, Call, At, Shape
<1>0. Call(w, q, counter)
  OBVIOUS
<1> HIDE DEF q
<1>2. Taken(q) \in Queues /\ First(q) \in Sessions
  BY <1>1, TakenOK
<1>3. j \in Job
  BY <1>2 DEF Job
<1>4. queue' = Taken(q) /\ job' = [job EXCEPT ![w] = j] /\ waiters' = waiters
  BY <1>0 DEF Call
<1>5. job' \in [Workers -> Job] /\ waiters' \in Seq(InitWorkers) /\ WorkersOK' /\ LineOK'
  <2>1. job[w].at # "slot" /\ (j.at # "idle" => j.sid \in Sessions) /\ j.at \notin {"slot", "granted"}
    BY <1>1, <1>2
  <2> HIDE DEF j
  <2> QED BY <1>3, <1>4, <2>1, LineKept
<1>6. Shape'
  <2>1. calls' \in [Sessions -> [init : Nat, run : Nat, post : Nat]]
    <3> DEFINE a == First(q)
               row == [calls[a] EXCEPT ![counter] = calls[a][counter] + 1]
    <3>1. a \in Sessions /\ calls[a] \in [init : Nat, run : Nat, post : Nat]
          /\ calls' = [calls EXCEPT ![a] = row]
      BY <1>0, <1>1, <1>2 DEF Call, TypeOK
    <3> HIDE DEF a
    <3>2. row \in [init : Nat, run : Nat, post : Nat]
      BY <3>1
    <3> HIDE DEF row
    <3> QED BY <1>1, <3>1, <3>2 DEF TypeOK
  <2> QED BY <1>0, <1>1, <1>2, <1>4, <1>5, <2>1 DEF Shape, TypeOK, Call, Queues, Job
<1>7. Shift(First(q), p, PlaceOf(w, "handler"))
  <2>1. \A t \in Sessions :
           Shifted(Count(t), NowAt(t, Taken(q), job),
                   IF t = First(q) THEN p ELSE "none", IF t = First(q) THEN "none" ELSE "none")
    BY <1>1, TakenShift DEF q
  <2>2. PlaceOf(w, job[w].at) = "none" /\ j.sid = First(q) /\ j.at = "handler"
    BY <1>1, QueueOfIs
  <2> HIDE DEF j
  <2> QED BY <1>1, <1>2, <1>3, <1>4, <2>1, <2>2, TurnsThen
<1> QED BY <1>2, <1>6, <1>7 DEF q

(* A session skipped by its worker goes from its queue to POSTRUN's.       *)
LEMMA SkipOK ==
  ASSUME Shape, NEW p \in {"INIT", "READY"}, NEW stage \in {"INIT", "RUNNING"},
         Waiting(QueueOf(p)), First(QueueOf(p)) \in known,
         MoveToPostrun(First(QueueOf(p)), Began(First(QueueOf(p)), stage), Taken(QueueOf(p))),
         slots' \in Nat, UNCHANGED <<phase, halting, known, waiters, job, calls>>
  PROVE  /\ Shape' /\ Shift(First(QueueOf(p)), p, "POSTRUN")
         /\ First(QueueOf(p)) \in Sessions
         /\ sess' = [sess EXCEPT ![First(QueueOf(p))] =
              [sess[First(QueueOf(p))] EXCEPT !.stage = "POSTRUN", !.inflight = FALSE]]
<1> DEFINE q == QueueOf(p)
           s == First(q)
<1>1. q \in {"init", "ready", "post"} /\ Waiting(q) /\ TypeOK
  BY DEF QueueOf, Shape
<1> HIDE DEF q
<1>2. Taken(q) \in Queues /\ s \in Sessions
  BY <1>1, TakenOK
<1> HIDE DEF s
<1>3. sess \in [Sessions -> Managed] /\ Began(s, stage) \in Managed
      /\ [Began(s, stage) EXCEPT !.stage = "POSTRUN", !.inflight = FALSE]
           = [sess[s] EXCEPT !.stage = "POSTRUN", !.inflight = FALSE]
      /\ Began(s, stage).stage # "POSTRUN"
  <2> DEFINE m == sess[s]
  <2>1. m \in Managed /\ sess \in [Sessions -> Managed]
    BY <1>1, <1>2 DEF TypeOK
  <2>2. Began(s, stage) = [m EXCEPT !.stage = stage, !.inflight = TRUE]
    BY DEF Began
  <2> HIDE DEF m
  <2>3. [m EXCEPT !.stage = stage, !.inflight = TRUE] \in Managed
    BY <2>1 DEF Managed, Stages
  <2>4. [[m EXCEPT !.stage = stage, !.inflight = TRUE] EXCEPT !.stage = "POSTRUN", !.inflight = FALSE]
           = [m EXCEPT !.stage = "POSTRUN", !.inflight = FALSE]
    BY <2>1 DEF Managed
  <2>5. [m EXCEPT !.stage = stage, !.inflight = TRUE].stage = stage
    BY <2>1 DEF Managed
  <2> QED BY <2>1, <2>2, <2>3, <2>4, <2>5 DEF m
<1>4. Moves(s, Began(s, stage))
  BY <1>3 DEF Moves, s, q
<1>5. /\ sess' \in [Sessions -> Managed]
      /\ sess' = [sess EXCEPT ![s] = [sess[s] EXCEPT !.stage = "POSTRUN", !.inflight = FALSE]]
      /\ queue' = [Taken(q) EXCEPT !.post = Append(@, s)]
  <2>1. MoveToPostrun(s, Began(s, stage), Taken(q))
    BY DEF s, q
  <2> QED BY <1>2, <1>3, <1>4, <2>1, MoveOK
<1>6. queue' \in Queues
  BY <1>2, <1>5, AppendShift DEF Shape, TypeOK, Job
<1>7. Shape'
  BY <1>5, <1>6 DEF Shape, TypeOK, WorkersOK, LineOK, Queues
<1>8. Shift(s, p, "POSTRUN")
  <2>1. job \in [Workers -> Job] /\ queue \in Queues
    BY DEF Shape, TypeOK, Job, Queues
  <2>2. ASSUME NEW t \in Sessions
        PROVE  Shifted(Count(t), NowAt(t, queue', job), IF t = s THEN p ELSE "none",
                       IF t = s THEN "POSTRUN" ELSE "none")
    <3>1. Shifted(Count(t), NowAt(t, Taken(q), job), IF t = s THEN p ELSE "none", "none")
      BY <1>1, <2>2, TakenShift DEF q, s
    <3>2. Shifted(NowAt(t, Taken(q), job), NowAt(t, queue', job), "none", IF t = s THEN "POSTRUN" ELSE "none")
      BY <1>2, <1>5, <2>1, <2>2, AppendShift
    <3>3. Count(t) \in [Wheres -> Nat] /\ NowAt(t, Taken(q), job) \in [Wheres -> Nat]
          /\ NowAt(t, queue', job) \in [Wheres -> Nat]
      BY <1>1, <1>2, <1>6, <2>1, CountsNat, CountNat
    <3> QED BY <3>1, <3>2, <3>3, ShiftTwice
  <2>3. Shift(s, p, "POSTRUN")
    <3> DEFINE q2 == queue'
    <3>1. \A t \in Sessions : Shifted(Count(t), NowAt(t, queue', job'), IF t = s THEN p ELSE "none",
                       IF t = s THEN "POSTRUN" ELSE "none")
      BY <2>2
    <3> QED BY <3>1, CountIs DEF Shift
  <2> QED BY <2>3
<1> QED BY <1>2, <1>5, <1>7, <1>8 DEF s, q

(* A worker ends its work on a session, which goes to POSTRUN or nowhere.  *)
LEMMA EndOK ==
  ASSUME Shape, NEW w \in Workers, job[w].at # "idle", NEW m \in Managed,
         MoveToPostrun(job[w].sid, m, queue), Free(w),
         slots' \in Nat, UNCHANGED <<phase, halting, known, calls>>
  PROVE  /\ job' \in [Workers -> Job] /\ WorkersOK'
         /\ waiters' \in Seq(InitWorkers) /\ LineOK' => Shape'
         /\ Shift(job[w].sid, PlaceOf(w, job[w].at), IF Moves(job[w].sid, m) THEN "POSTRUN" ELSE "none")
         /\ job[w].sid \in Sessions
         /\ sess' = [sess EXCEPT ![job[w].sid] =
              IF Moves(job[w].sid, m) THEN [m EXCEPT !.stage = "POSTRUN", !.inflight = FALSE] ELSE m]
<1> DEFINE s == job[w].sid
           to == IF Moves(s, m) THEN "POSTRUN" ELSE "none"
<1>1. s \in Sessions /\ TypeOK /\ sess \in [Sessions -> Managed]
      /\ queue \in Queues /\ job \in [Workers -> Job]
  BY DEF Shape, WorkersOK, TypeOK, Queues, Job
<1>2. Idle \in Job /\ Idle.at = "idle" /\ job' = [job EXCEPT ![w] = Idle]
  BY DEF Idle, Job, Free
<1>3. job' \in [Workers -> Job] /\ WorkersOK'
  BY <1>1, <1>2 DEF Shape, WorkersOK
<1> DEFINE q2 == IF Moves(s, m) THEN [queue EXCEPT !.post = Append(@, s)] ELSE queue
<1>4. /\ sess' \in [Sessions -> Managed]
      /\ sess' = [sess EXCEPT ![s] =
              IF Moves(s, m) THEN [m EXCEPT !.stage = "POSTRUN", !.inflight = FALSE] ELSE m]
      /\ queue' \in Queues
      /\ queue' = q2
  <2> HIDE DEF s
  <2>1. MoveToPostrun(s, m, queue)
    BY DEF s
  <2> QED BY <1>1, <2>1, MoveOK
<1>5. waiters' \in Seq(InitWorkers) /\ LineOK' => Shape'
  BY <1>1, <1>3, <1>4 DEF Shape, TypeOK, Queues, Job
<1>6. Shift(s, PlaceOf(w, job[w].at), to)
  <2>1. q2 \in Queues /\ PlaceOf(w, Idle.at) = "none"
    BY <1>1, <1>2, AppendShift, QueueOfIs
  <2>2. \A t \in Sessions : Shifted(Count(t), NowAt(t, q2, job), IF t = s THEN "none" ELSE "none",
                                     IF t = s THEN to ELSE "none")
    <3> TAKE t \in Sessions
    <3>1. Count(t) = NowAt(t, queue, job)
      BY CountIs
    <3>2. CASE Moves(s, m)
      <4> HIDE DEF s
      <4>1. Shifted(NowAt(t, queue, job), NowAt(t, [queue EXCEPT !.post = Append(@, s)], job),
                         "none", IF t = s THEN "POSTRUN" ELSE "none")
        BY <1>1, AppendShift
      <4>2. q2 = [queue EXCEPT !.post = Append(@, s)] /\ to = "POSTRUN"
        BY <3>2
      <4> QED BY <3>1, <4>1, <4>2
    <3>3. CASE ~Moves(s, m)
      BY <1>1, <3>1, <3>3, AppendShift
    <3> QED BY <3>2, <3>3
  <2> HIDE DEF q2, to
  <2> DEFINE j == Idle
             pl == PlaceOf(w, job[w].at)
  <2>3. j \in Job /\ job' = [job EXCEPT ![w] = j] /\ PlaceOf(w, j.at) = "none" /\ queue' = q2
    BY <1>2, <1>4, <2>1
  <2> HIDE DEF j
  <2> QED BY <1>1, <2>1, <2>2, <2>3, TurnsThen
<1> QED BY <1>1, <1>3, <1>4, <1>5, <1>6
-----------------------------------------------------------------------------
(* What a step makes of the life of its session.                           *)
Calls == [init : Nat, run : Nat, post : Nat]

(* The only place of a session is the one it is given.                     *)
LEMMA OnePlace ==
  ASSUME NEW n \in [Wheres -> Nat], NEW n2 \in [Wheres -> Nat], NEW from, NEW to,
         Shifted(n, n2, from, to), \A p \in Wheres : n[p] = IF p = from THEN 1 ELSE 0
  PROVE  \A p \in Wheres : n2[p] = IF p = to THEN 1 ELSE 0
<1> TAKE p \in Wheres
<1>1. n[p] \in Nat /\ n2[p] \in Nat
  OBVIOUS
<1> QED BY <1>1 DEF Shifted

(* enqueue.                                                                *)
LEMMA LifeBegins ==
  ASSUME NEW m \in Managed, NEW k \in BOOLEAN, NEW n \in [Wheres -> Nat], NEW n2 \in [Wheres -> Nat],
         NEW c \in Calls, Life(m, k, n, c), m.stage = "new", Shifted(n, n2, "none", "INIT")
  PROVE  Life([m EXCEPT !.stage = "INIT"], TRUE, n2, c)
<1>1. Unseen(m, k, n, c)
  BY DEF Life, Staged, Gone, Doubled
<1> DEFINE m2 == [m EXCEPT !.stage = "INIT"]
<1>2. m2.stage = "INIT" /\ m2.inflight = FALSE /\ m2.cancelled = "no" /\ m2.wake = "none"
  BY <1>1 DEF Unseen, New
<1>3. \A p \in Wheres : n2[p] = IF p = "INIT" THEN 1 ELSE 0
  <2>1. \A p \in Wheres : n[p] = IF p = "none" THEN 1 ELSE 0
    BY <1>1 DEF Unseen, Wheres
  <2> QED BY <2>1, OnePlace
<1> HIDE DEF m2
<1>4. Staged(m2, n2, c)
  BY <1>1, <1>2, <1>3 DEF Staged, SaysOf, Unseen, Ordinary
<1>5. n2["postrunning"] = 0
  BY <1>3 DEF Wheres
<1> QED BY <1>1, <1>4, <1>5 DEF Life, m2, Unseen, Calls

(* A stale id is dropped.                                                  *)
LEMMA LifeDropped ==
  ASSUME NEW m \in Managed, NEW k \in BOOLEAN, ~k, NEW n \in [Wheres -> Nat], NEW n2 \in [Wheres -> Nat],
         NEW c \in Calls, Life(m, k, n, c),
         NEW p \in {"INIT", "READY", "POSTRUN"}, Shifted(n, n2, p, "none")
  PROVE  /\ Life(m, k, n2, c)
         /\ p = "READY" => m.cancelled = "parked" /\ n["READY"] = 1 /\ n2["READY"] = 0
<1>1. n[p] > 0
  BY DEF Shifted, Wheres
<1>2. Doubled(m, k, n, c)
  <2>1. ~Unseen(m, k, n, c) /\ ~Gone(m, n, c)
    BY <1>1 DEF Unseen, Gone, Wheres
  <2> QED BY <2>1 DEF Life
<1>3. /\ n2["initializing"] = n["initializing"] /\ n2["running"] = n["running"]
      /\ n2["postrunning"] = n["postrunning"]
      /\ n2["INIT"] <= n["INIT"] /\ n2["READY"] <= n["READY"]
      /\ p = "READY" => n2["READY"] + 1 = n["READY"]
  BY DEF Shifted, Wheres
<1>4. n["INIT"] \in Nat /\ n["READY"] \in Nat /\ n2["INIT"] \in Nat /\ n2["READY"] \in Nat
  BY DEF Wheres
<1>5. p = "READY" => m.cancelled = "parked" /\ n["READY"] = 1 /\ n2["READY"] = 0
  BY <1>1, <1>2, <1>3, <1>4 DEF Doubled
<1>6. Doubled(m, k, n2, c)
  BY <1>2, <1>3, <1>4 DEF Doubled
<1>7. Life(m, k, n2, c)
  BY <1>3, <1>6 DEF Life
<1> QED BY <1>5, <1>7

(* A handler is called.                                                    *)
LEMMA LifeInitCalled ==
  ASSUME NEW m \in Managed, NEW n \in [Wheres -> Nat], NEW n2 \in [Wheres -> Nat],
         NEW c \in Calls, Life(m, TRUE, n, c), m.cancelled = "no", NEW made \in BOOLEAN,
         Shifted(n, n2, "INIT", "initializing")
  PROVE  Life([m EXCEPT !.stage = "INIT", !.inflight = TRUE, !.runtime = made], TRUE, n2,
              [c EXCEPT !.init = c.init + 1])
<1>1. n["INIT"] > 0
  BY DEF Shifted, Wheres
<1>2. Staged(m, n, c)
  BY <1>1 DEF Life, Unseen, Doubled, Wheres
<1>3. SaysOf(m) = "INIT"
  BY <1>1, <1>2 DEF Staged, Wheres
<1> DEFINE m2 == [m EXCEPT !.stage = "INIT", !.inflight = TRUE, !.runtime = made]
           c2 == [c EXCEPT !.init = c.init + 1]
<1>4. m2.stage = "INIT" /\ m2.inflight = TRUE /\ m2.cancelled = m.cancelled /\ m2.wake = m.wake
  BY DEF Managed
<1>5. \A p \in Wheres : n2[p] = IF p = "initializing" THEN 1 ELSE 0
  <2>1. \A p \in Wheres : n[p] = IF p = SaysOf(m) THEN 1 ELSE 0
    BY <1>2 DEF Staged
  <2> QED BY <1>3, <2>1, OnePlace
<1>6. c2.init = 1 /\ c2.run = 0 /\ c2.post = 0
  BY <1>2, <1>3 DEF Staged, Calls
<1>7. SaysOf(m2) = "initializing"
  BY <1>4 DEF SaysOf
<1> HIDE DEF m2, c2
<1>8. Staged(m2, n2, c2)
  BY <1>2, <1>4, <1>5, <1>6, <1>7 DEF Staged, Ordinary
<1>9. n2["postrunning"] = 0
  BY <1>5 DEF Wheres
<1> QED BY <1>6, <1>8, <1>9 DEF Life, m2, c2

(* on_run starts for a session that was parked and not cancelled.          *)
LEMMA LifeRunCalled ==
  ASSUME NEW m \in Managed, NEW n \in [Wheres -> Nat], NEW n2 \in [Wheres -> Nat],
         NEW c \in Calls, Life(m, TRUE, n, c), m.cancelled = "no",
         Shifted(n, n2, "READY", "running")
  PROVE  Life([m EXCEPT !.stage = "RUNNING", !.inflight = TRUE], TRUE, n2,
              [c EXCEPT !.run = c.run + 1])
<1>1. n["READY"] > 0
  BY DEF Shifted, Wheres
<1>2. Staged(m, n, c)
  BY <1>1 DEF Life, Unseen, Doubled, Wheres
<1>3. SaysOf(m) = "READY"
  BY <1>1, <1>2 DEF Staged, Wheres
<1> DEFINE m2 == [m EXCEPT !.stage = "RUNNING", !.inflight = TRUE]
           c2 == [c EXCEPT !.run = c.run + 1]
<1>4. m2.stage = "RUNNING" /\ m2.inflight = TRUE /\ m2.cancelled = m.cancelled /\ m2.wake = m.wake
  BY DEF Managed
<1>5. \A p \in Wheres : n2[p] = IF p = "running" THEN 1 ELSE 0
  <2>1. \A p \in Wheres : n[p] = IF p = SaysOf(m) THEN 1 ELSE 0
    BY <1>2 DEF Staged
  <2> QED BY <1>3, <2>1, OnePlace
<1>6. c2.init = 1 /\ c2.run = 1 /\ c2.post = 0
  BY <1>2, <1>3 DEF Staged, Calls
<1>7. SaysOf(m2) = "running"
  BY <1>4 DEF SaysOf
<1> HIDE DEF m2, c2
<1>8. Staged(m2, n2, c2)
  BY <1>2, <1>4, <1>5, <1>6, <1>7 DEF Staged, Ordinary
<1>9. n2["postrunning"] = 0
  BY <1>5 DEF Wheres
<1> QED BY <1>6, <1>8, <1>9 DEF Life, m2, c2

(* on_postrun starts for a session queued in POSTRUN.                      *)
LEMMA LifePostCalled ==
  ASSUME NEW m \in Managed, NEW n \in [Wheres -> Nat], NEW n2 \in [Wheres -> Nat],
         NEW c \in Calls, Life(m, TRUE, n, c),
         Shifted(n, n2, "POSTRUN", "postrunning")
  PROVE  Life([m EXCEPT !.stage = "POSTRUN", !.inflight = TRUE], TRUE, n2,
              [c EXCEPT !.post = c.post + 1])
<1> DEFINE m2 == [m EXCEPT !.stage = "POSTRUN", !.inflight = TRUE]
           c2 == [c EXCEPT !.post = c.post + 1]
<1>1. n["POSTRUN"] > 0
  BY DEF Shifted, Wheres
<1>2. m2.stage = "POSTRUN" /\ m2.inflight = TRUE /\ m2.cancelled = m.cancelled /\ m2.wake = m.wake
  BY DEF Managed
<1>3. SaysOf(m2) = "postrunning"
  BY <1>2 DEF SaysOf
<1>4. c2.init = c.init /\ c2.run = c.run /\ c2.post = c.post + 1 /\ c2.post > 0
  BY DEF Calls
<1> HIDE DEF m2, c2
<1>5. CASE Staged(m, n, c)
  <2>1. SaysOf(m) = "POSTRUN"
    BY <1>1, <1>5 DEF Staged, Wheres
  <2>2. \A p \in Wheres : n2[p] = IF p = "postrunning" THEN 1 ELSE 0
    <3>1. \A p \in Wheres : n[p] = IF p = SaysOf(m) THEN 1 ELSE 0
      BY <1>5 DEF Staged
    <3> QED BY <2>1, <3>1, OnePlace
  <2>3. Staged(m2, n2, c2)
    BY <1>2, <1>3, <1>4, <1>5, <2>1, <2>2 DEF Staged, Ordinary
  <2> QED BY <1>4, <2>3 DEF Life, m2, c2
<1>6. CASE Doubled(m, TRUE, n, c)
  <2>1. /\ n2["initializing"] = n["initializing"] /\ n2["running"] = n["running"]
        /\ n2["INIT"] = n["INIT"] /\ n2["READY"] = n["READY"]
        /\ n2["postrunning"] > 0 /\ n2["POSTRUN"] \in Nat /\ n2["postrunning"] \in Nat
    BY DEF Shifted, Wheres
  <2>2. Doubled(m2, TRUE, n2, c2)
    BY <1>2, <1>6, <2>1 DEF Doubled
  <2> QED BY <1>4, <2>2 DEF Life, m2, c2
<1> QED BY <1>1, <1>5, <1>6 DEF Life, Unseen, Wheres

(* A worker skips a session, or its on_init or on_run is over: the session *)
(* goes to POSTRUN.                                                        *)
ToPost(m, final) == [m EXCEPT !.final = final, !.stage = "POSTRUN", !.inflight = FALSE]

(* A session that a worker moves on to POSTRUN, from any stage.            *)
LEMMA LifeOnward ==
  ASSUME NEW m \in Managed, NEW n \in [Wheres -> Nat], NEW n2 \in [Wheres -> Nat],
         NEW c \in Calls, Life(m, TRUE, n, c), NEW final \in BOOLEAN,
         NEW p \in {"INIT", "initializing", "READY", "running"}, Shifted(n, n2, p, "POSTRUN")
  PROVE  Life(ToPost(m, final), TRUE, n2, c)
<1> DEFINE m2 == ToPost(m, final)
<1>1. n[p] > 0
  BY DEF Shifted, Wheres
<1>2. m2.stage = "POSTRUN" /\ m2.inflight = FALSE /\ m2.cancelled = m.cancelled /\ m2.wake = m.wake
  BY DEF Managed, ToPost
<1>3. SaysOf(m2) = "POSTRUN"
  BY <1>2 DEF SaysOf
<1> HIDE DEF m2
<1>4. CASE Staged(m, n, c)
  <2>1. SaysOf(m) = p
    BY <1>1, <1>4 DEF Staged, Wheres
  <2>2. \A r \in Wheres : n2[r] = IF r = "POSTRUN" THEN 1 ELSE 0
    BY <1>4, <2>1 DEF Staged, Shifted, Wheres
  <2>3. Staged(m2, n2, c)
    BY <1>2, <1>3, <1>4, <2>1, <2>2 DEF Staged, Ordinary
  <2>4. n2["postrunning"] = 0
    BY <2>2 DEF Wheres
  <2> QED BY <2>3, <2>4 DEF Life, m2
<1>5. CASE Doubled(m, TRUE, n, c)
  <2>1. /\ n2["initializing"] <= n["initializing"] /\ n2["running"] <= n["running"]
        /\ n2["INIT"] <= n["INIT"] /\ n2["READY"] <= n["READY"]
        /\ n2["postrunning"] = n["postrunning"] /\ n2["POSTRUN"] > 0
        /\ \A r \in Wheres : n[r] \in Nat /\ n2[r] \in Nat
    BY DEF Shifted, Wheres
  <2>2. Doubled(m2, TRUE, n2, c)
    BY <1>2, <1>5, <2>1 DEF Doubled, Wheres
  <2> QED BY <2>1, <2>2 DEF Life, m2
<1> QED BY <1>1, <1>4, <1>5 DEF Life, Unseen, Wheres

(* on_init or on_run is over only for a session that is known and says so. *)
LEMMA LifeWorking ==
  ASSUME NEW m \in Managed, NEW k \in BOOLEAN, NEW n \in [Wheres -> Nat],
         NEW c \in Calls, Life(m, k, n, c), n["initializing"] > 0 \/ n["running"] > 0
  PROVE  k /\ m.stage # "POSTRUN" /\ Staged(m, n, c)
BY DEF Life, Unseen, Staged, Gone, Doubled, SaysOf, Wheres

(* An initialized session waits for a slot.                                *)
LEMMA LifeWaits ==
  ASSUME NEW m \in Managed, NEW n \in [Wheres -> Nat], NEW n2 \in [Wheres -> Nat],
         NEW c \in Calls, Life(m, TRUE, n, c), NEW final \in BOOLEAN,
         Shifted(n, n2, "initializing", "READY")
  PROVE  Life([m EXCEPT !.final = final, !.stage = "READY", !.inflight = FALSE], TRUE, n2, c)
<1> DEFINE m2 == [m EXCEPT !.final = final, !.stage = "READY", !.inflight = FALSE]
<1>1. n["initializing"] > 0
  BY DEF Shifted, Wheres
<1>2. m2.stage = "READY" /\ m2.inflight = FALSE /\ m2.cancelled = m.cancelled /\ m2.wake = m.wake
  BY DEF Managed
<1>3. SaysOf(m2) = "READY"
  BY <1>2 DEF SaysOf
<1> HIDE DEF m2
<1>4. Staged(m, n, c) /\ SaysOf(m) = "initializing"
  <2>1. Staged(m, n, c)
    BY <1>1, LifeWorking
  <2> QED BY <1>1, <2>1 DEF Staged, Wheres
<1>5. \A r \in Wheres : n2[r] = IF r = "READY" THEN 1 ELSE 0
  <2>1. \A p \in Wheres : n[p] = IF p = SaysOf(m) THEN 1 ELSE 0
    BY <1>4 DEF Staged
  <2> QED BY <1>4, <2>1, OnePlace
<1>6. Staged(m2, n2, c)
  BY <1>2, <1>3, <1>4, <1>5 DEF Staged, Ordinary
<1>7. n2["postrunning"] = 0
  BY <1>5 DEF Wheres
<1> QED BY <1>6, <1>7 DEF Life, m2

(* One that is not cancelled, or that has been queued, has nothing lost by *)
(* a cancelled wait for a slot.                                            *)
LEMMA LifeLeavesLine ==
  ASSUME NEW m \in Managed, NEW k \in BOOLEAN, NEW n \in [Wheres -> Nat], NEW n2 \in [Wheres -> Nat],
         NEW c \in Calls, Life(m, k, n, c), ~(k /\ m.stage # "POSTRUN"),
         Shifted(n, n2, "READY", "none")
  PROVE  Life(m, k, n2, c)
<1>1. n["READY"] > 0
  BY DEF Shifted, Wheres
<1>2. Doubled(m, k, n, c)
  BY <1>1 DEF Life, Unseen, Gone, Staged, SaysOf, Wheres
<1>3. /\ n2["initializing"] = n["initializing"] /\ n2["running"] = n["running"]
      /\ n2["postrunning"] = n["postrunning"] /\ n2["POSTRUN"] = n["POSTRUN"]
      /\ n2["INIT"] = n["INIT"] /\ n2["READY"] <= n["READY"]
      /\ \A r \in Wheres : n[r] \in Nat /\ n2[r] \in Nat
  BY DEF Shifted, Wheres
<1>4. Doubled(m, k, n2, c)
  BY <1>2, <1>3 DEF Doubled, Wheres
<1> QED BY <1>3, <1>4 DEF Life

(* on_postrun is over.                                                     *)
LEMMA LifeEnds ==
  ASSUME NEW m \in Managed, NEW k \in BOOLEAN, NEW n \in [Wheres -> Nat], NEW n2 \in [Wheres -> Nat],
         NEW c \in Calls, Life(m, k, n, c), Shifted(n, n2, "postrunning", "none")
  PROVE  Life(m, FALSE, n2, c)
<1>1. n["postrunning"] > 0
  BY DEF Shifted, Wheres
<1>2. /\ \A r \in Wheres \ {"postrunning"} : n2[r] = n[r]
      /\ n2["postrunning"] + 1 = n["postrunning"]
      /\ \A r \in Wheres : n[r] \in Nat /\ n2[r] \in Nat
  BY DEF Shifted, Wheres
<1>3. CASE Staged(m, n, c)
  <2>1. SaysOf(m) = "postrunning"
    BY <1>1, <1>3 DEF Staged, Wheres
  <2>2. Gone(m, n2, c)
    BY <1>2, <1>3, <2>1 DEF Staged, Gone, Wheres
  <2>3. n2["postrunning"] > 0 => c.post > 0
    BY <2>2 DEF Gone, Wheres
  <2> QED BY <2>2, <2>3 DEF Life
<1>4. CASE Doubled(m, k, n, c)
  <2>1. c.post > 0
    BY <1>1 DEF Life
  <2>2. Doubled(m, FALSE, n2, c)
    BY <1>2, <1>4, <2>1 DEF Doubled, Wheres
  <2> QED BY <2>1, <2>2 DEF Life
<1>5. ~Unseen(m, k, n, c) /\ ~Gone(m, n, c)
  BY <1>1 DEF Unseen, Gone, Wheres
<1> QED BY <1>3, <1>4, <1>5 DEF Life

(* cancel(): where the session waits, and where it does not.               *)
LEMMA LifeCancelled ==
  ASSUME NEW m \in Managed, NEW n \in [Wheres -> Nat], NEW n2 \in [Wheres -> Nat],
         NEW c \in Calls, Life(m, TRUE, n, c), m.cancelled = "no", ~m.inflight,
         NEW was \in {"queued", "parked"}, m.stage = (IF was = "parked" THEN "READY" ELSE "INIT"),
         Shifted(n, n2, "none", IF m.runtime THEN "none" ELSE "POSTRUN")
  PROVE  Life([m EXCEPT !.cancelled = was, !.stage = "POSTRUN", !.inflight = FALSE,
                 !.wake = IF m.runtime THEN "awaited" ELSE "none"], TRUE, n2, c)
<1> DEFINE m2 == [m EXCEPT !.cancelled = was, !.stage = "POSTRUN", !.inflight = FALSE,
                    !.wake = IF m.runtime THEN "awaited" ELSE "none"]
<1>1. m2.stage = "POSTRUN" /\ m2.cancelled = was /\ (m2.wake = "none" <=> ~m.runtime)
  BY DEF Managed
<1>2. Staged(m, n, c)
  BY DEF Life, Unseen, Doubled
<1>3. SaysOf(m) = IF was = "parked" THEN "READY" ELSE "INIT"
  BY DEF SaysOf
<1> HIDE DEF m2
<1>4. /\ n2["initializing"] = 0 /\ n2["running"] = 0 /\ n2["postrunning"] = 0
      /\ n2["INIT"] = (IF was = "queued" THEN 1 ELSE 0)
      /\ n2["READY"] = (IF was = "parked" THEN 1 ELSE 0)
      /\ n2["POSTRUN"] = IF m.runtime THEN 0 ELSE 1
  <2>1. \A p \in Wheres : n[p] = IF p = (IF was = "parked" THEN "READY" ELSE "INIT") THEN 1 ELSE 0
    BY <1>2, <1>3 DEF Staged
  <2>2. \A p \in Wheres : n2[p] = n[p] + (IF p = "POSTRUN" /\ ~m.runtime THEN 1 ELSE 0)
    <3> TAKE p \in Wheres
    <3>1. n[p] \in Nat /\ n2[p] \in Nat /\ p # "none"
      BY DEF Wheres
    <3> QED BY <3>1 DEF Shifted
  <2>3. CASE was = "parked"
    BY <2>1, <2>2, <2>3 DEF Wheres
  <2>4. CASE was = "queued"
    BY <2>1, <2>2, <2>4 DEF Wheres
  <2> QED BY <2>3, <2>4
<1>5. Doubled(m2, TRUE, n2, c)
  BY <1>1, <1>4 DEF Doubled
<1>6. Life(m2, TRUE, n2, c)
  <2>1. c.run <= c.init /\ c.init <= 1
    BY DEF Life
  <2>2. ~(n2["postrunning"] > 0)
    BY <1>4
  <2> QED BY <1>5, <2>1, <2>2 DEF Life
<1> QED BY <1>6 DEF m2

(* A session that is with a worker is only flagged as cancelled.           *)
LEMMA LifeFlagged ==
  ASSUME NEW m \in Managed, NEW k \in BOOLEAN, NEW n \in [Wheres -> Nat],
         NEW c \in Calls, Life(m, k, n, c), k, m.cancelled = "no"
  PROVE  Life([m EXCEPT !.cancelled = "working"], k, n, c)
<1> DEFINE m2 == [m EXCEPT !.cancelled = "working"]
<1>1. m2.stage = m.stage /\ m2.cancelled = "working" /\ m2.wake = m.wake /\ m2.inflight = m.inflight
  BY DEF Managed
<1>2. Staged(m, n, c)
  BY DEF Life, Unseen, Doubled
<1> HIDE DEF m2
<1>3. SaysOf(m2) = SaysOf(m)
  BY <1>1 DEF SaysOf
<1>4. Staged(m2, n, c)
  BY <1>1, <1>2, <1>3 DEF Staged, Ordinary
<1> QED BY <1>4 DEF Life, m2

(* runtime.cancel() is over.                                               *)
LEMMA LifeWoken ==
  ASSUME NEW m \in Managed, NEW k \in BOOLEAN, NEW n \in [Wheres -> Nat], NEW n2 \in [Wheres -> Nat],
         NEW c \in Calls, Life(m, k, n, c), m.wake = "awaited",
         NEW wake \in {"none", "raised"},
         Shifted(n, n2, "none", IF wake = "none" THEN "POSTRUN" ELSE "none")
  PROVE  Life([m EXCEPT !.wake = wake], k, n2, c)
<1> DEFINE m2 == [m EXCEPT !.wake = wake]
<1>1. m2.stage = m.stage /\ m2.cancelled = m.cancelled /\ m2.wake = wake
  BY DEF Managed
<1>2. Doubled(m, k, n, c)
  BY DEF Life, Unseen, New, Staged, Gone
<1> HIDE DEF m2
<1>3. /\ \A r \in Wheres \ {"POSTRUN"} : n2[r] = n[r]
      /\ n2["POSTRUN"] = n["POSTRUN"] + (IF wake = "none" THEN 1 ELSE 0)
      /\ \A r \in Wheres : n[r] \in Nat /\ n2[r] \in Nat
  BY DEF Shifted, Wheres
<1>4. Doubled(m2, k, n2, c)
  BY <1>1, <1>2, <1>3 DEF Doubled, Wheres
<1> QED BY <1>3, <1>4 DEF Life, m2, Wheres

(* No session that was cancelled while it was parked comes to hold more    *)
(* places in READY.                                                        *)
ReadyKept ==
  \A t \in Sessions :
    sess[t].cancelled = "parked" => Count(t)'["READY"] <= Count(t)["READY"]

(* Whoever else takes a step.                                              *)
LEMMA LivesStep ==
  ASSUME TypeOK, TypeOK', LivesOK, NEW s, NEW from, NEW to, Shift(s, from, to),
         \A t \in Sessions \ {s} : /\ sess'[t] = sess[t] /\ calls'[t] = calls[t]
                                   /\ t \in known' <=> t \in known,
         s \in Sessions => Life(sess'[s], s \in known', Count(s)', calls'[s]),
         to = "READY" => from = "READY" \/ sess[s].cancelled # "parked"
  PROVE  LivesOK' /\ ReadyKept
<1>1. ASSUME NEW t \in Sessions
      PROVE  Count(t) \in [Wheres -> Nat] /\ Count(t)' \in [Wheres -> Nat]
  <2>1. queue' \in Queues /\ job' \in [Workers -> Job]
    BY DEF TypeOK, Queues, Job
  <2> QED BY <2>1, CountsNat, CountIs, CountNat
<1>2. ASSUME NEW t \in Sessions, t # s
      PROVE  Count(t)' = Count(t)
  <2> DEFINE a == Count(t)
             b == Count(t)'
  <2>1. Shifted(a, b, "none", "none")
    BY <1>2 DEF Shift
  <2>2. a \in [Wheres -> Nat] /\ b \in [Wheres -> Nat]
    BY <1>1
  <2> HIDE DEF a, b
  <2>3. a \in [Wheres -> Nat] /\ b \in [Wheres -> Nat] /\ \A p \in Wheres : a[p] = b[p]
    BY <2>1, <2>2 DEF Shifted, Wheres
  <2>4. a = b
    BY <2>3
  <2> QED BY <2>4 DEF a, b
<1>3. LivesOK'
  BY <1>2 DEF LivesOK
<1>4. ASSUME NEW t \in Sessions, sess[t].cancelled = "parked"
      PROVE  Count(t)'["READY"] <= Count(t)["READY"]
  <2> DEFINE a == Count(t)
             b == Count(t)'
  <2>1. Shifted(a, b, IF t = s THEN from ELSE "none", IF t = s THEN to ELSE "none")
    BY DEF Shift
  <2>2. a["READY"] \in Nat /\ b["READY"] \in Nat
    BY <1>1 DEF Wheres
  <2> HIDE DEF a, b
  <2>3. b["READY"] + (IF t = s /\ from = "READY" THEN 1 ELSE 0)
          = a["READY"] + (IF t = s /\ to = "READY" THEN 1 ELSE 0)
    BY <2>1 DEF Shifted, Wheres
  <2>4. b["READY"] <= a["READY"]
    BY <1>4, <2>2, <2>3
  <2> QED BY <2>4 DEF a, b
<1> QED BY <1>3, <1>4 DEF ReadyKept
-----------------------------------------------------------------------------
(* Each action keeps the shape of the state and the lives of the sessions. *)
Keeps == Shape' /\ (phase = "up" => LivesOK' /\ ReadyKept)

(* The types of what is kept of a session.                                 *)
LEMMA SessOK ==
  ASSUME Shape, NEW s \in Sessions
  PROVE  /\ sess[s] \in Managed /\ calls[s] \in Calls
         /\ Count(s) \in [Wheres -> Nat] /\ (s \in known) \in BOOLEAN
BY CountsNat DEF Shape, TypeOK, Calls

(* The counts of the next state are natural numbers.                       *)
LEMMA CountsNext ==
  ASSUME Shape', NEW s
  PROVE  Count(s)' \in [Wheres -> Nat]
<1>1. queue' \in Queues /\ job' \in [Workers -> Job]
  BY DEF Shape, TypeOK, Queues, Job
<1> QED BY <1>1, CountIs, CountNat

(* Enqueue begins the life of a session.                                   *)
LEMMA EnqueueKeeps ==
  ASSUME Shape, phase = "up" => LivesOK, NEW s \in Sessions, Enqueue(s)
  PROVE  Keeps
<1>1. queue \in Queues /\ job \in [Workers -> Job] /\ TypeOK
  BY DEF Shape, TypeOK, Queues, Job
<1>2. queue' = [queue EXCEPT !.init = Append(@, s)] /\ queue' \in Queues
  BY <1>1, AppendShift DEF Enqueue
<1>3. sess' \in [Sessions -> Managed] /\ sess' = [sess EXCEPT ![s] = [sess[s] EXCEPT !.stage = "INIT"]]
  <2>1. sess[s] \in Managed /\ sess \in [Sessions -> Managed]
    BY <1>1 DEF TypeOK
  <2>2. [sess[s] EXCEPT !.stage = "INIT"] \in Managed
    BY <2>1 DEF Managed, Stages
  <2>3. sess' = [sess EXCEPT ![s] = [sess[s] EXCEPT !.stage = "INIT"]]
    BY DEF Enqueue
  <2> QED BY <2>1, <2>2, <2>3
<1>4. Shape'
  BY <1>1, <1>2, <1>3 DEF Shape, TypeOK, WorkersOK, LineOK, Enqueue, Queues
<1>5. Shift(s, "none", "INIT")
  <2>1. \A t \in Sessions : Shifted(Count(t), NowAt(t, [queue EXCEPT !.init = Append(@, s)], job),
                              IF t = s THEN "none" ELSE "none", IF t = s THEN "INIT" ELSE "none")
    BY <1>1, AppendShift, CountIs
  <2> DEFINE q2 == [queue EXCEPT !.init = Append(@, s)]
  <2>2. q2 \in Queues /\ queue' = q2 /\ job' = job
    BY <1>2 DEF Enqueue
  <2> HIDE DEF q2
  <2>3. \A t \in Sessions : Shifted(Count(t), NowAt(t, q2, job),
                              IF t = s THEN "none" ELSE "none", IF t = s THEN "INIT" ELSE "none")
    BY <2>1 DEF q2
  <2> QED BY <1>1, <2>2, <2>3, QueueThen
<1>6. ASSUME phase = "up" PROVE LivesOK' /\ ReadyKept
  <2>1. Life(sess[s], s \in known, Count(s), calls[s]) /\ sess[s].stage = "new"
    BY <1>6 DEF LivesOK, Enqueue
  <2>2. Shifted(Count(s), Count(s)', "none", "INIT")
    BY <1>5 DEF Shift
  <2>3. Life([sess[s] EXCEPT !.stage = "INIT"], TRUE, Count(s)', calls[s])
    BY <1>4, <2>1, <2>2, SessOK, CountsNext, LifeBegins
  <2>4. /\ sess'[s] = [sess[s] EXCEPT !.stage = "INIT"] /\ s \in known' /\ calls' = calls
        /\ \A t \in Sessions \ {s} : sess'[t] = sess[t] /\ (t \in known' <=> t \in known)
    BY <1>1, <1>3 DEF Enqueue, TypeOK
  <2>5. Life(sess'[s], s \in known', Count(s)', calls'[s])
    BY <2>3, <2>4
  <2> QED BY <1>1, <1>4, <1>5, <1>6, <2>4, <2>5, LivesStep DEF Shape
<1> QED BY <1>4, <1>6 DEF Keeps

(* A dropped id was all there was in that queue of its session.            *)
LEMMA DropKeeps ==
  ASSUME Shape, phase = "up" => LivesOK, NEW w \in Workers,
         NEW p \in {"INIT", "READY", "POSTRUN"}, Drop(w, QueueOf(p))
  PROVE  Keeps
<1>0. PICK s \in Sessions : s = First(QueueOf(p))
  BY DropOK
<1>1. Shape' /\ Shift(s, p, "none")
  BY <1>0, DropOK
<1>2. s \notin known /\ sess' = sess /\ known' = known /\ calls' = calls
  BY <1>0 DEF Drop
<1>3. ASSUME phase = "up" PROVE LivesOK' /\ ReadyKept
  <2>1. Life(sess[s], s \in known, Count(s), calls[s])
    BY <1>1, <1>2, <1>3 DEF LivesOK
  <2>2. Shifted(Count(s), Count(s)', p, "none")
    BY <1>1 DEF Shift
  <2>3. Life(sess[s], s \in known, Count(s)', calls[s])
    <3>1. /\ sess[s] \in Managed /\ calls[s] \in Calls /\ (s \in known) \in BOOLEAN
          /\ Count(s) \in [Wheres -> Nat] /\ Count(s)' \in [Wheres -> Nat]
      BY <1>1, SessOK, CountsNext
    <3> QED BY <1>2, <2>1, <2>2, <3>1, LifeDropped, Zenon
  <2>4. Life(sess'[s], s \in known', Count(s)', calls'[s])
    BY <1>2, <2>3
  <2> QED BY <1>1, <1>2, <1>3, <2>4, LivesStep DEF Shape
<1> QED BY <1>1, <1>3 DEF Keeps

(* on_init is called.                                                      *)
LEMMA InitCallKeeps ==
  ASSUME Shape, phase = "up" => LivesOK, NEW w \in InitWorkers, InitCall(w)
  PROVE  Keeps
<1>2. Call(w, QueueOf("INIT"), "init") /\ ~Skips(First("init")) /\ w \in Workers
  BY Pools, QueueOfIs DEF InitCall
<1>3. PICK s \in Sessions : s = First("init")
  BY <1>2, QueueOfIs, TakenOK DEF Call, Shape
<1>1. PICK made \in BOOLEAN :
        sess' = [sess EXCEPT ![s] = [Began(s, "INIT") EXCEPT !.runtime = made]]
  BY <1>3 DEF InitCall
<1> DEFINE m2 == [sess[s] EXCEPT !.stage = "INIT", !.inflight = TRUE, !.runtime = made]
<1>4. m2 \in Managed /\ sess' = [sess EXCEPT ![s] = m2] /\ sess' \in [Sessions -> Managed]
  <2>1. sess[s] \in Managed /\ sess \in [Sessions -> Managed]
    BY <1>3 DEF Shape, TypeOK
  <2>2. m2 \in Managed
    BY <2>1 DEF Managed, Stages
  <2>3. sess' = [sess EXCEPT ![s] = m2]
    BY <1>1, <2>1 DEF Began, Managed
  <2> QED BY <2>1, <2>2, <2>3
<1>5. Shape' /\ Shift(s, "INIT", "initializing")
  BY <1>2, <1>4, <1>3, CallOK, QueueOfIs
<1>6. ASSUME phase = "up" PROVE LivesOK' /\ ReadyKept
  <2>1. Life(sess[s], TRUE, Count(s), calls[s]) /\ sess[s].cancelled = "no"
    <3>1. s \in known
      BY <1>2, <1>3, QueueOfIs DEF Call
    <3> QED BY <1>2, <1>3, <1>6, <3>1 DEF LivesOK, Skips, Cancelled
  <2>2. Shifted(Count(s), Count(s)', "INIT", "initializing")
    BY <1>3, <1>5 DEF Shift
  <2>3. Life(m2, TRUE, Count(s)', [calls[s] EXCEPT !.init = calls[s].init + 1])
    BY <1>3, <1>5, <2>1, <2>2, SessOK, CountsNext, LifeInitCalled
  <2> HIDE DEF m2
  <2>4. /\ sess'[s] = m2 /\ known' = known /\ s \in known
        /\ calls' = [calls EXCEPT ![s] = [calls[s] EXCEPT !.init = calls[s].init + 1]]
        /\ \A t \in Sessions \ {s} : sess'[t] = sess[t]
    BY <1>2, <1>3, <1>4, QueueOfIs DEF Call, Shape, TypeOK
  <2>5. /\ calls'[s] = [calls[s] EXCEPT !.init = calls[s].init + 1]
        /\ \A t \in Sessions \ {s} : calls'[t] = calls[t]
    BY <1>3, <2>4 DEF Shape, TypeOK
  <2>6. Life(sess'[s], s \in known', Count(s)', calls'[s])
    BY <2>3, <2>4, <2>5
  <2> QED BY <1>5, <1>6, <2>4, <2>5, <2>6, LivesStep DEF Shape
<1> QED BY <1>5, <1>6 DEF Keeps

(* on_run is called.                                                       *)
LEMMA RunCallKeeps ==
  ASSUME Shape, phase = "up" => LivesOK, NEW w \in RunWorkers, RunCall(w)
  PROVE  Keeps
<1>2. Call(w, QueueOf("READY"), "run") /\ ~Skips(First("ready")) /\ w \in Workers
  BY Pools, QueueOfIs DEF RunCall
<1>3. PICK s \in Sessions : s = First("ready")
  BY <1>2, QueueOfIs, TakenOK DEF Call, Shape
<1> DEFINE m2 == [sess[s] EXCEPT !.stage = "RUNNING", !.inflight = TRUE]
<1>4. sess' = [sess EXCEPT ![s] = m2]
  BY <1>3 DEF RunCall, Began
<1>5. m2 \in Managed /\ sess' \in [Sessions -> Managed]
  <2>1. sess[s] \in Managed /\ sess \in [Sessions -> Managed]
    BY <1>3 DEF Shape, TypeOK
  <2>2. m2 \in Managed
    BY <2>1 DEF Managed, Stages
  <2> QED BY <1>4, <2>1, <2>2
<1>6. Shape' /\ Shift(s, "READY", "running")
  BY <1>2, <1>5, <1>3, CallOK, QueueOfIs
<1>7. ASSUME phase = "up" PROVE LivesOK' /\ ReadyKept
  <2>1. Life(sess[s], TRUE, Count(s), calls[s]) /\ sess[s].cancelled = "no"
    <3>1. s \in known
      BY <1>2, <1>3, QueueOfIs DEF Call
    <3> QED BY <1>2, <1>3, <1>7, <3>1 DEF LivesOK, Skips, Cancelled
  <2>2. Shifted(Count(s), Count(s)', "READY", "running")
    BY <1>3, <1>6 DEF Shift
  <2>3. Life(m2, TRUE, Count(s)', [calls[s] EXCEPT !.run = calls[s].run + 1])
    BY <1>3, <1>6, <2>1, <2>2, SessOK, CountsNext, LifeRunCalled
  <2> HIDE DEF m2
  <2>4. /\ sess'[s] = m2 /\ known' = known /\ s \in known
        /\ calls' = [calls EXCEPT ![s] = [calls[s] EXCEPT !.run = calls[s].run + 1]]
        /\ \A t \in Sessions \ {s} : sess'[t] = sess[t]
    BY <1>2, <1>3, <1>4, QueueOfIs DEF Call, Shape, TypeOK
  <2>5. /\ calls'[s] = [calls[s] EXCEPT !.run = calls[s].run + 1]
        /\ \A t \in Sessions \ {s} : calls'[t] = calls[t]
    BY <1>3, <2>4 DEF Shape, TypeOK
  <2>6. Life(sess'[s], s \in known', Count(s)', calls'[s])
    BY <2>3, <2>4, <2>5
  <2> QED BY <1>6, <1>7, <2>4, <2>5, <2>6, LivesStep DEF Shape
<1> QED BY <1>6, <1>7 DEF Keeps

(* on_postrun is called.                                                   *)
LEMMA PostCallKeeps ==
  ASSUME Shape, phase = "up" => LivesOK, NEW w \in PostWorkers, PostCall(w)
  PROVE  Keeps
<1>2. Call(w, QueueOf("POSTRUN"), "post") /\ w \in Workers
  BY Pools, QueueOfIs DEF PostCall
<1>3. PICK s \in Sessions : s = First("post")
  BY <1>2, QueueOfIs, TakenOK DEF Call, Shape
<1> DEFINE m2 == [sess[s] EXCEPT !.stage = "POSTRUN", !.inflight = TRUE]
<1>4. sess' = [sess EXCEPT ![s] = m2]
  BY <1>3 DEF PostCall, Began
<1>5. m2 \in Managed /\ sess' \in [Sessions -> Managed]
  <2>1. sess[s] \in Managed /\ sess \in [Sessions -> Managed]
    BY <1>3 DEF Shape, TypeOK
  <2>2. m2 \in Managed
    BY <2>1 DEF Managed, Stages
  <2> QED BY <1>4, <2>1, <2>2
<1>6. Shape' /\ Shift(s, "POSTRUN", "postrunning")
  BY <1>2, <1>5, <1>3, CallOK, QueueOfIs
<1>7. ASSUME phase = "up" PROVE LivesOK' /\ ReadyKept
  <2>1. Life(sess[s], TRUE, Count(s), calls[s])
    <3>1. s \in known
      BY <1>2, <1>3, QueueOfIs DEF Call
    <3> QED BY <1>2, <1>3, <1>7, <3>1 DEF LivesOK
  <2>2. Shifted(Count(s), Count(s)', "POSTRUN", "postrunning")
    BY <1>3, <1>6 DEF Shift
  <2>3. Life(m2, TRUE, Count(s)', [calls[s] EXCEPT !.post = calls[s].post + 1])
    BY <1>3, <1>6, <2>1, <2>2, SessOK, CountsNext, LifePostCalled
  <2> HIDE DEF m2
  <2>4. /\ sess'[s] = m2 /\ known' = known /\ s \in known
        /\ calls' = [calls EXCEPT ![s] = [calls[s] EXCEPT !.post = calls[s].post + 1]]
        /\ \A t \in Sessions \ {s} : sess'[t] = sess[t]
    BY <1>2, <1>3, <1>4, QueueOfIs DEF Call, Shape, TypeOK
  <2>5. /\ calls'[s] = [calls[s] EXCEPT !.post = calls[s].post + 1]
        /\ \A t \in Sessions \ {s} : calls'[t] = calls[t]
    BY <1>3, <2>4 DEF Shape, TypeOK
  <2>6. Life(sess'[s], s \in known', Count(s)', calls'[s])
    BY <2>3, <2>4, <2>5
  <2> QED BY <1>6, <1>7, <2>4, <2>5, <2>6, LivesStep DEF Shape
<1> QED BY <1>6, <1>7 DEF Keeps

(* A step of a worker, or of cancel(), that makes the record of session s  *)
(* m2 and shifts it.                                                       *)
LEMMA RecordKeeps ==
  ASSUME Shape, Shape', phase = "up" => LivesOK, NEW s \in Sessions, NEW m2,
         NEW from, NEW to, Shift(s, from, to), sess' = [sess EXCEPT ![s] = m2],
         known' = known, calls' = calls,
         to = "READY" => from = "READY" \/ sess[s].cancelled # "parked",
         /\ Life(sess[s], s \in known, Count(s), calls[s])
         /\ Shifted(Count(s), Count(s)', from, to)
         => Life(m2, s \in known, Count(s)', calls[s])
  PROVE  Keeps
<1>1. ASSUME phase = "up" PROVE LivesOK' /\ ReadyKept
  <2>1. Life(sess[s], s \in known, Count(s), calls[s])
    BY <1>1 DEF LivesOK
  <2>2. Shifted(Count(s), Count(s)', from, to)
    BY DEF Shift
  <2>3. Life(m2, s \in known, Count(s)', calls[s])
    BY <2>1, <2>2
  <2>4. sess'[s] = m2 /\ \A t \in Sessions \ {s} : sess'[t] = sess[t]
    BY DEF Shape, TypeOK
  <2>5. Life(sess'[s], s \in known', Count(s)', calls'[s])
    BY <2>3, <2>4
  <2> QED BY <1>1, <2>4, <2>5, LivesStep DEF Shape
<1> QED BY <1>1 DEF Keeps

(* on_init is skipped.                                                     *)
LEMMA InitSkipKeeps ==
  ASSUME Shape, phase = "up" => LivesOK, NEW w \in InitWorkers, InitSkip(w)
  PROVE  Keeps
<1>1. Waiting(QueueOf("INIT")) /\ TypeOK
  BY QueueOfIs DEF InitSkip, Shape
<1>2. PICK s \in Sessions : s = First("init")
  BY <1>1, QueueOfIs, TakenOK
<1>3. /\ Shape' /\ Shift(s, "INIT", "POSTRUN") /\ s \in known
      /\ sess' = [sess EXCEPT ![s] = [sess[s] EXCEPT !.stage = "POSTRUN", !.inflight = FALSE]]
  BY <1>1, <1>2, SkipOK, QueueOfIs DEF InitSkip, TypeOK
<1>4. [sess[s] EXCEPT !.stage = "POSTRUN", !.inflight = FALSE] = ToPost(sess[s], sess[s].final)
      /\ sess[s].final \in BOOLEAN
  BY <1>2, SessOK DEF ToPost, Managed
<1>5. Life(sess[s], s \in known, Count(s), calls[s]) /\ Shifted(Count(s), Count(s)', "INIT", "POSTRUN")
      => Life(ToPost(sess[s], sess[s].final), s \in known, Count(s)', calls[s])
  BY <1>2, <1>3, <1>4, SessOK, CountsNext, LifeOnward
<1>6. known' = known /\ calls' = calls
  BY DEF InitSkip
<1> QED BY <1>2, <1>3, <1>4, <1>5, <1>6, RecordKeeps

(* on_run is skipped.                                                      *)
LEMMA RunSkipKeeps ==
  ASSUME Shape, phase = "up" => LivesOK, NEW w \in RunWorkers, RunSkip(w)
  PROVE  Keeps
<1>1. Waiting(QueueOf("READY")) /\ TypeOK /\ slots' \in Nat
  BY QueueOfIs DEF RunSkip, Shape, TypeOK
<1>2. PICK s \in Sessions : s = First("ready")
  BY <1>1, QueueOfIs, TakenOK
<1>3. /\ Shape' /\ Shift(s, "READY", "POSTRUN") /\ s \in known
      /\ sess' = [sess EXCEPT ![s] = [sess[s] EXCEPT !.stage = "POSTRUN", !.inflight = FALSE]]
  BY <1>1, <1>2, SkipOK, QueueOfIs DEF RunSkip
<1>4. [sess[s] EXCEPT !.stage = "POSTRUN", !.inflight = FALSE] = ToPost(sess[s], sess[s].final)
      /\ sess[s].final \in BOOLEAN
  BY <1>2, SessOK DEF ToPost, Managed
<1>5. Life(sess[s], s \in known, Count(s), calls[s]) /\ Shifted(Count(s), Count(s)', "READY", "POSTRUN")
      => Life(ToPost(sess[s], sess[s].final), s \in known, Count(s)', calls[s])
  BY <1>2, <1>3, <1>4, SessOK, CountsNext, LifeOnward
<1>6. known' = known /\ calls' = calls
  BY DEF RunSkip
<1> QED BY <1>2, <1>3, <1>4, <1>5, <1>6, RecordKeeps

(* A handler of INIT or of RUNNING ends.                                   *)
LEMMA WorkEndsKeeps ==
  ASSUME Shape, phase = "up" => LivesOK, NEW w \in InitWorkers \cup RunWorkers, job[w].at = "handler",
         NEW final \in BOOLEAN,
         MoveToPostrun(job[w].sid, [sess[job[w].sid] EXCEPT !.final = final], queue),
         Free(w), slots' \in Nat, UNCHANGED <<phase, halting, known, waiters, calls>>
  PROVE  Keeps
<1>1. PICK s \in Sessions : s = job[w].sid
  BY Pools DEF Shape, WorkersOK
<1> DEFINE m == [sess[s] EXCEPT !.final = final]
           p == PlaceOf(w, "handler")
           to == IF Moves(s, m) THEN "POSTRUN" ELSE "none"
           m2 == IF Moves(s, m) THEN [m EXCEPT !.stage = "POSTRUN", !.inflight = FALSE] ELSE m
<1>2. m \in Managed /\ m.stage = sess[s].stage
      /\ [m EXCEPT !.stage = "POSTRUN", !.inflight = FALSE] = ToPost(sess[s], final)
  BY <1>1, SessOK DEF Managed, ToPost
<1>3. p \in {"initializing", "running"}
  BY QueueOfIs
<1>4. /\ job' \in [Workers -> Job] /\ WorkersOK'
      /\ waiters' \in Seq(InitWorkers) /\ LineOK' => Shape'
      /\ Shift(s, p, to)
      /\ sess' = [sess EXCEPT ![s] = m2]
  <2>1. MoveToPostrun(job[w].sid, m, queue) /\ w \in Workers /\ job[w].at # "idle"
    BY <1>1, Pools
  <2> HIDE DEF m
  <2>2. /\ job' \in [Workers -> Job] /\ WorkersOK'
        /\ waiters' \in Seq(InitWorkers) /\ LineOK' => Shape'
        /\ Shift(job[w].sid, PlaceOf(w, job[w].at), IF Moves(job[w].sid, m) THEN "POSTRUN" ELSE "none")
        /\ sess' = [sess EXCEPT ![job[w].sid] =
              IF Moves(job[w].sid, m) THEN [m EXCEPT !.stage = "POSTRUN", !.inflight = FALSE] ELSE m]
    BY <1>2, <2>1, EndOK
  <2> QED BY <1>1, <2>2
<1>5. waiters' \in Seq(InitWorkers) /\ LineOK'
  <2>1. Idle \in Job /\ Idle.at = "idle" /\ job' = [job EXCEPT ![w] = Idle]
    BY DEF Idle, Job, Free
  <2>2. job[w].at # "slot" /\ w \in Workers
    BY Pools
  <2> QED BY <2>1, <2>2, LineKept
<1>6. Shape'
  BY <1>4, <1>5
<1>7. Life(sess[s], s \in known, Count(s), calls[s]) /\ Shifted(Count(s), Count(s)', p, to)
      => Life(m2, s \in known, Count(s)', calls[s])
  <2> SUFFICES ASSUME Life(sess[s], s \in known, Count(s), calls[s]), Shifted(Count(s), Count(s)', p, to)
               PROVE  Life(m2, s \in known, Count(s)', calls[s])
    OBVIOUS
  <2>1. Count(s) \in [Wheres -> Nat] /\ Count(s)' \in [Wheres -> Nat]
    BY <1>1, <1>6, SessOK, CountsNext
  <2>2. Count(s)[p] > 0
    <3> DEFINE a == Count(s)
               b == Count(s)'
    <3>1. Shifted(a, b, p, to) /\ to # p /\ p \in Wheres
      BY <1>3 DEF Wheres
    <3> HIDE DEF a, b, p, to
    <3>2. a[p] \in Nat /\ b[p] \in Nat
      BY <2>1, <3>1 DEF a, b
    <3>3. b[p] + 1 = a[p]
      BY <3>1, <3>2 DEF Shifted
    <3> QED BY <3>2, <3>3 DEF a
  <2>3. s \in known /\ sess[s].stage # "POSTRUN"
    BY <1>1, <1>3, <2>1, <2>2, SessOK, LifeWorking
  <2>4. Moves(s, m) /\ to = "POSTRUN" /\ m2 = ToPost(sess[s], final)
    BY <1>2, <2>3 DEF Moves
  <2> HIDE DEF to, m2, p
  <2> QED BY <1>1, <1>3, <1>6, <2>1, <2>3, <2>4, SessOK, LifeOnward
<1>8. to # "READY" /\ known' = known /\ calls' = calls
  OBVIOUS
<1> HIDE DEF m2, to, p
<1> QED BY <1>1, <1>4, <1>6, <1>7, <1>8, RecordKeeps

(* on_run returns.                                                         *)
LEMMA RunEndsKeeps ==
  ASSUME Shape, phase = "up" => LivesOK, NEW w \in RunWorkers, RunEnds(w)
  PROVE  Keeps
<1>1. job[w].sid \in Sessions /\ job[w].at = "handler"
  BY Pools DEF RunEnds, At, Shape, WorkersOK
<1>2. sess[job[w].sid] = [sess[job[w].sid] EXCEPT !.final = sess[job[w].sid].final]
      /\ sess[job[w].sid].final \in BOOLEAN
  BY <1>1, SessOK DEF Managed
<1>3. MoveToPostrun(job[w].sid, [sess[job[w].sid] EXCEPT !.final = sess[job[w].sid].final], queue)
  BY <1>2 DEF RunEnds
<1>4. Free(w) /\ slots' \in Nat /\ UNCHANGED <<phase, halting, known, waiters, calls>>
      /\ w \in InitWorkers \cup RunWorkers
  BY DEF RunEnds, Shape, TypeOK
<1> QED BY <1>1, <1>2, <1>3, <1>4, WorkEndsKeeps

(* The line is joined at its end.                                          *)
LEMMA JoinLine ==
  ASSUME Shape, NEW w \in InitWorkers, job[w].at \notin {"idle", "slot"},
         job' = [job EXCEPT ![w].at = "slot"], waiters' = Append(waiters, w)
  PROVE  /\ job' \in [Workers -> Job] /\ waiters' \in Seq(InitWorkers)
         /\ WorkersOK' /\ LineOK'
<1>1. job \in [Workers -> Job] /\ waiters \in Seq(InitWorkers) /\ w \in Workers
  BY Pools DEF Shape, TypeOK, Job
<1>2. /\ job' \in [Workers -> Job]
      /\ \A v \in Workers : job'[v].sid = job[v].sid
                            /\ job'[v].at = IF v = w THEN "slot" ELSE job[v].at
  BY <1>1 DEF Job
<1>3. waiters' \in Seq(InitWorkers) /\ Len(waiters') = Len(waiters) + 1
      /\ \A i \in 1 .. Len(waiters) : waiters'[i] = waiters[i]
      /\ waiters'[Len(waiters) + 1] = w
  BY <1>1, AppendProperties
<1>4. WorkersOK'
  BY <1>1, <1>2 DEF Shape, WorkersOK
<1>5. \A i \in 1 .. Len(waiters) : waiters[i] \in Workers /\ waiters[i] # w /\ job[waiters[i]].at = "slot"
  BY <1>1, Pools DEF Shape, LineOK
<1>6. Len(waiters) \in Nat /\ DOMAIN waiters = 1 .. Len(waiters) /\ DOMAIN waiters' = 1 .. (Len(waiters) + 1)
  BY <1>1, <1>3
<1>7. LineOK'
  BY <1>2, <1>3, <1>5, <1>6 DEF Shape, LineOK
<1> QED BY <1>2, <1>3, <1>4, <1>7

(* on_init returns, whichever way _finish_init goes on.                    *)
LEMMA InitEndsKeeps ==
  ASSUME Shape, phase = "up" => LivesOK, NEW w \in InitWorkers, NEW failed \in BOOLEAN,
         InitEnds(w, failed)
  PROVE  Keeps
<1>1. PICK s \in Sessions : s = job[w].sid
  BY Pools DEF Shape, WorkersOK, InitEnds, At
<1>2. w \in Workers /\ job[w].at = "handler" /\ job[w].at # "idle"
      /\ UNCHANGED <<phase, halting, known, slots, calls>> /\ slots' \in Nat
  BY Pools DEF InitEnds, At, Shape, TypeOK
<1> DEFINE m == [sess[s] EXCEPT !.final = failed]
<1>3. CASE MoveToPostrun(s, m, queue) /\ Free(w) /\ UNCHANGED waiters
  BY <1>1, <1>2, <1>3, WorkEndsKeeps
<1>4. CASE s \notin known /\ Free(w) /\ UNCHANGED <<sess, queue, waiters>>
  <2>1. sess[s] = [sess[s] EXCEPT !.final = sess[s].final] /\ sess[s].final \in BOOLEAN
        /\ sess = [sess EXCEPT ![s] = sess[s]]
    BY <1>1, SessOK DEF Managed, Shape, TypeOK
  <2>2. MoveToPostrun(s, sess[s], queue)
    BY <1>4, <2>1 DEF MoveToPostrun
  <2> QED BY <1>1, <1>2, <1>4, <2>1, <2>2, WorkEndsKeeps
<1>5. CASE /\ s \in known /\ sess[s].cancelled = "no"
           /\ sess' = [sess EXCEPT ![s] = [m EXCEPT !.stage = "READY", !.inflight = FALSE]]
           /\ job' = [job EXCEPT ![w].at = "slot"]
           /\ waiters' = Append(waiters, w)
           /\ UNCHANGED queue
  <2> DEFINE m2 == [sess[s] EXCEPT !.final = failed, !.stage = "READY", !.inflight = FALSE]
  <2>1. m2 \in Managed /\ sess' = [sess EXCEPT ![s] = m2] /\ sess' \in [Sessions -> Managed]
    <3>1. sess[s] \in Managed /\ sess \in [Sessions -> Managed]
      BY <1>1 DEF Shape, TypeOK
    <3>2. m2 \in Managed
      BY <3>1 DEF Managed, Stages
    <3>3. sess' = [sess EXCEPT ![s] = m2]
      BY <1>5, <3>1 DEF Managed
    <3> QED BY <3>1, <3>2, <3>3
  <2>2. job' \in [Workers -> Job] /\ waiters' \in Seq(InitWorkers) /\ WorkersOK' /\ LineOK'
    BY <1>2, <1>5, JoinLine
  <2>3. Shape'
    BY <1>2, <1>5, <2>1, <2>2 DEF Shape, TypeOK, Job
  <2>4. Shift(s, "initializing", "READY")
    <3> DEFINE j == [job[w] EXCEPT !.at = "slot"]
    <3>1. j \in Job /\ j.sid = s /\ j.at = "slot" /\ job' = [job EXCEPT ![w] = j] /\ queue' = queue
      BY <1>1, <1>2, <1>5 DEF Shape, TypeOK, Job
    <3>2. PlaceOf(w, "slot") = "READY" /\ PlaceOf(w, job[w].at) = "initializing"
      BY <1>2, QueueOfIs
    <3>3. queue \in Queues /\ TypeOK /\ job \in [Workers -> Job]
      BY DEF Shape, TypeOK, Queues, Job
    <3>4. \A t \in Sessions : Shifted(Count(t), NowAt(t, queue, job), IF t = s THEN "none" ELSE "none",
                                     IF t = s THEN "none" ELSE "none")
      <4>1. \A t \in Sessions : Shifted(NowAt(t, queue, job), NowAt(t, queue, job), "none", "none")
        BY <1>1, <3>3, AppendShift
      <4> QED BY <4>1, CountIs
    <3> HIDE DEF j
    <3> QED BY <1>1, <1>2, <3>1, <3>2, <3>3, <3>4, TurnsThen
  <2>5. Life(sess[s], s \in known, Count(s), calls[s]) /\ Shifted(Count(s), Count(s)', "initializing", "READY")
        => Life(m2, s \in known, Count(s)', calls[s])
    BY <1>1, <1>5, <2>3, SessOK, CountsNext, LifeWaits
  <2> HIDE DEF m2
  <2>6. sess[s].cancelled # "parked"
    BY <1>5
  <2> QED BY <1>1, <1>2, <2>1, <2>3, <2>4, <2>5, <2>6, RecordKeeps
<1> QED BY <1>1, <1>3, <1>4, <1>5 DEF InitEnds, Cancelled
(* The worker at the head of the line is given a slot.                     *)
LEMMA GetSlotKeeps ==
  ASSUME Shape, phase = "up" => LivesOK, GetSlot
  PROVE  Keeps
<1>1. job \in [Workers -> Job] /\ waiters \in Seq(InitWorkers) /\ waiters # <<>> /\ TypeOK
      /\ queue \in Queues
  BY DEF Shape, TypeOK, Job, GetSlot, Queues
<1>2. PICK w \in InitWorkers : w = Head(waiters)
  BY <1>1, EmptySeq, HeadTailProperties
<1>3. /\ Tail(waiters) \in Seq(InitWorkers) /\ Len(waiters) \in Nat \ {0}
      /\ Len(Tail(waiters)) = Len(waiters) - 1 /\ w = waiters[1]
      /\ \A i \in 1 .. (Len(waiters) - 1) : Tail(waiters)[i] = waiters[i + 1]
  BY <1>1, <1>2, EmptySeq, HeadTailProperties
<1>4. w \in Workers /\ job[w].at = "slot"
  BY <1>3, Pools DEF Shape, LineOK
<1> DEFINE j == [job[w] EXCEPT !.at = "granted"]
<1>5. /\ j \in Job /\ j.sid = job[w].sid /\ j.at = "granted" /\ job[w].sid \in Sessions
      /\ job' = [job EXCEPT ![w] = j]
      /\ waiters' = Tail(waiters)
  BY <1>1, <1>2, <1>4 DEF Job, GetSlot, Shape, WorkersOK
<1> HIDE DEF j
<1>6. job' \in [Workers -> Job] /\ WorkersOK'
  BY <1>1, <1>4, <1>5 DEF Shape, WorkersOK
<1>7. LineOK'
  <2>1. \A i \in 1 .. (Len(waiters) - 1) :
          /\ waiters'[i] = waiters[i + 1] /\ i + 1 \in DOMAIN waiters /\ 1 \in DOMAIN waiters
          /\ waiters[i + 1] \in Workers /\ waiters[i + 1] # w
    BY <1>1, <1>3, <1>5, Pools DEF Shape, LineOK
  <2>2. DOMAIN waiters' = 1 .. (Len(waiters) - 1)
    BY <1>3, <1>5
  <2>3. \A i \in DOMAIN waiters' : job'[waiters'[i]].at = "slot"
    BY <1>1, <1>5, <2>1, <2>2 DEF Shape, LineOK
  <2>4. \A i, k \in DOMAIN waiters' : waiters'[i] = waiters'[k] => i = k
    <3> SUFFICES ASSUME NEW i \in 1 .. (Len(waiters) - 1), NEW k \in 1 .. (Len(waiters) - 1),
                        waiters'[i] = waiters'[k]
                 PROVE  i = k
      BY <2>2
    <3>1. i + 1 = k + 1
      BY <2>1 DEF Shape, LineOK
    <3> QED BY <1>3, <3>1
  <2> QED BY <2>3, <2>4 DEF LineOK
<1>8. Shape'
  <2>1. slots' \in Nat
    BY DEF GetSlot, Shape, TypeOK
  <2> QED BY <1>3, <1>5, <1>6, <1>7, <2>1 DEF Shape, TypeOK, GetSlot, Job
<1>9. PICK s \in Sessions : s = job[w].sid
  BY <1>5
<1>10. Shift(s, "READY", "READY")
  <2>1. PlaceOf(w, j.at) = "READY" /\ PlaceOf(w, job[w].at) = "READY"
    BY <1>4, <1>5, QueueOfIs
  <2>2. \A t \in Sessions : Shifted(Count(t), NowAt(t, queue, job), IF t = s THEN "none" ELSE "none",
                                     IF t = s THEN "none" ELSE "none")
    <3>1. \A t \in Sessions : Shifted(NowAt(t, queue, job), NowAt(t, queue, job), "none", "none")
      BY <1>1, <1>9, AppendShift
    <3> QED BY <3>1, CountIs
  <2>3. queue' = queue
    BY DEF GetSlot
  <2> QED BY <1>1, <1>4, <1>5, <1>9, <2>1, <2>2, <2>3, TurnsThen
<1>11. ASSUME phase = "up" PROVE LivesOK' /\ ReadyKept
  <2>1. sess' = sess /\ known' = known /\ calls' = calls
    BY DEF GetSlot
  <2>2. Count(s)' = Count(s)
    <3> DEFINE a == Count(s)
               b == Count(s)'
    <3>1. a \in [Wheres -> Nat] /\ b \in [Wheres -> Nat] /\ Shifted(a, b, "READY", "READY")
      BY <1>8, <1>10, SessOK, CountsNext DEF Shift
    <3> HIDE DEF a, b
    <3>2. \A p \in Wheres : a[p] = b[p]
      <4> TAKE p \in Wheres
      <4>1. a[p] \in Nat /\ b[p] \in Nat
        BY <3>1
      <4> QED BY <3>1, <4>1 DEF Shifted
    <3>3. a = b
      BY <3>1, <3>2
    <3> QED BY <3>3 DEF a, b
  <2>3. Life(sess'[s], s \in known', Count(s)', calls'[s])
    BY <1>11, <2>1, <2>2 DEF LivesOK
  <2> QED BY <1>1, <1>8, <1>10, <1>11, <2>1, <2>3, LivesStep DEF Shape
<1> QED BY <1>8, <1>11 DEF Keeps

(* The worker resumes with the slot.                                       *)
LEMMA TakeSlotKeeps ==
  ASSUME Shape, phase = "up" => LivesOK, NEW w \in InitWorkers, TakeSlot(w)
  PROVE  Keeps
<1>1. job \in [Workers -> Job] /\ TypeOK /\ queue \in Queues /\ w \in Workers /\ job[w].at = "granted"
  BY Pools DEF Shape, TypeOK, Job, TakeSlot, At, Queues
<1>2. PICK s \in Sessions : s = job[w].sid
  BY <1>1 DEF Shape, WorkersOK
<1>3. Idle \in Job /\ Idle.at = "idle" /\ job' = [job EXCEPT ![w] = Idle] /\ waiters' = waiters
  BY DEF Idle, Job, Free, TakeSlot
<1>4. job' \in [Workers -> Job] /\ waiters' \in Seq(InitWorkers) /\ WorkersOK' /\ LineOK'
  BY <1>1, <1>3, LineKept
<1> DEFINE q2 == [queue EXCEPT !.ready = Append(@, s)]
<1>5. q2 \in Queues /\ queue' = q2
  BY <1>1, <1>2, AppendShift DEF TakeSlot
<1>6. Shape'
  BY <1>1, <1>4, <1>5 DEF Shape, TypeOK, TakeSlot, Queues, Job
<1>7. Shift(s, "READY", "READY")
  <2>1. \A t \in Sessions : Shifted(NowAt(t, queue, job), NowAt(t, q2, job),
                                    "none", IF t = s THEN "READY" ELSE "none")
    BY <1>1, AppendShift
  <2> HIDE DEF q2
  <2>2. \A t \in Sessions : Shifted(Count(t), NowAt(t, q2, job), IF t = s THEN "none" ELSE "none",
                                    IF t = s THEN "READY" ELSE "none")
    BY <2>1, CountIs
  <2>3. PlaceOf(w, Idle.at) = "none" /\ PlaceOf(w, job[w].at) = "READY"
    BY <1>1, <1>3, QueueOfIs
  <2> DEFINE j == Idle
  <2>4. j \in Job /\ PlaceOf(w, j.at) = "none" /\ job' = [job EXCEPT ![w] = j]
    BY <1>3, <2>3
  <2> HIDE DEF j
  <2> QED BY <1>1, <1>2, <1>5, <2>2, <2>3, <2>4, TurnsThen
<1>8. ASSUME phase = "up" PROVE LivesOK' /\ ReadyKept
  <2>1. sess' = sess /\ known' = known /\ calls' = calls
    BY DEF TakeSlot
  <2>2. Count(s)' = Count(s)
    <3> DEFINE a == Count(s)
               b == Count(s)'
    <3>1. a \in [Wheres -> Nat] /\ b \in [Wheres -> Nat] /\ Shifted(a, b, "READY", "READY")
      BY <1>6, <1>7, SessOK, CountsNext DEF Shift
    <3> HIDE DEF a, b
    <3>2. \A p \in Wheres : a[p] = b[p]
      <4> TAKE p \in Wheres
      <4>1. a[p] \in Nat /\ b[p] \in Nat
        BY <3>1
      <4> QED BY <3>1, <4>1 DEF Shifted
    <3>3. a = b
      BY <3>1, <3>2
    <3> QED BY <3>3 DEF a, b
  <2>3. Life(sess'[s], s \in known', Count(s)', calls'[s])
    BY <1>8, <2>1, <2>2 DEF LivesOK
  <2> QED BY <1>1, <1>6, <1>7, <1>8, <2>1, <2>3, LivesStep DEF Shape
<1> QED BY <1>6, <1>8 DEF Keeps

(* The wait for a slot ends because the session was cancelled.             *)
LEMMA WaitEndsKeeps ==
  ASSUME Shape, phase = "up" => LivesOK, NEW w \in InitWorkers, job[w].at \in {"slot", "granted"},
         MoveToPostrun(job[w].sid, sess[job[w].sid], queue), Free(w),
         slots' \in Nat, UNCHANGED <<phase, halting, known, calls>>,
         waiters' \in Seq(InitWorkers), LineOK'
  PROVE  Keeps
<1>1. PICK s \in Sessions : s = job[w].sid
  BY Pools DEF Shape, WorkersOK
<1> DEFINE m == sess[s]
           to == IF Moves(s, m) THEN "POSTRUN" ELSE "none"
           m2 == IF Moves(s, m) THEN [m EXCEPT !.stage = "POSTRUN", !.inflight = FALSE] ELSE m
<1>2. PlaceOf(w, job[w].at) = "READY" /\ w \in Workers /\ m \in Managed
  BY <1>1, QueueOfIs, Pools, SessOK
<1>3. Shape' /\ Shift(s, "READY", to) /\ sess' = [sess EXCEPT ![s] = m2]
  <2> HIDE DEF m
  <2>1. MoveToPostrun(job[w].sid, m, queue)
    BY <1>1 DEF m
  <2>2. /\ job' \in [Workers -> Job] /\ WorkersOK'
        /\ waiters' \in Seq(InitWorkers) /\ LineOK' => Shape'
        /\ Shift(job[w].sid, PlaceOf(w, job[w].at), IF Moves(job[w].sid, m) THEN "POSTRUN" ELSE "none")
        /\ sess' = [sess EXCEPT ![job[w].sid] =
              IF Moves(job[w].sid, m) THEN [m EXCEPT !.stage = "POSTRUN", !.inflight = FALSE] ELSE m]
    BY <1>2, <2>1, EndOK
  <2> QED BY <1>1, <1>2, <2>2
<1>4. Life(m, s \in known, Count(s), calls[s]) /\ Shifted(Count(s), Count(s)', "READY", to)
      => Life(m2, s \in known, Count(s)', calls[s])
  <2> SUFFICES ASSUME Life(m, s \in known, Count(s), calls[s]), Shifted(Count(s), Count(s)', "READY", to)
               PROVE  Life(m2, s \in known, Count(s)', calls[s])
    OBVIOUS
  <2>1. Count(s) \in [Wheres -> Nat] /\ Count(s)' \in [Wheres -> Nat]
    BY <1>1, <1>3, SessOK, CountsNext
  <2>2. CASE Moves(s, m)
    <3>1. s \in known /\ to = "POSTRUN" /\ m2 = [m EXCEPT !.stage = "POSTRUN", !.inflight = FALSE]
      BY <2>2 DEF Moves
    <3>2. m2 = ToPost(m, m.final) /\ m.final \in BOOLEAN
      BY <1>2, <3>1 DEF ToPost, Managed
    <3>3. Life(sess[s], s \in known, Count(s), calls[s]) /\ Shifted(Count(s), Count(s)', "READY", "POSTRUN")
      BY <3>1
    <3> HIDE DEF m, m2, to
    <3>4. Life(ToPost(sess[s], m.final), s \in known, Count(s)', calls[s])
      BY <1>1, <2>1, <3>1, <3>2, <3>3, SessOK, LifeOnward
    <3> QED BY <3>2, <3>4 DEF m
  <2>3. CASE ~Moves(s, m)
    <3>1. ~(s \in known /\ m.stage # "POSTRUN") /\ to = "none" /\ m2 = m
      BY <2>3 DEF Moves
    <3> HIDE DEF m, m2, to
    <3> QED BY <1>1, <1>2, <2>1, <3>1, SessOK, LifeLeavesLine DEF m
  <2> QED BY <2>2, <2>3
<1> HIDE DEF m2, to
<1> QED BY <1>1, <1>3, <1>4, RecordKeeps

(* A worker gives back the slot of a session cancelled meanwhile.          *)
LEMMA ReturnSlotKeeps ==
  ASSUME Shape, phase = "up" => LivesOK, NEW w \in InitWorkers, ReturnSlot(w)
  PROVE  Keeps
<1>1. job[w].at = "granted" /\ w \in Workers /\ waiters' = waiters /\ slots' \in Nat
      /\ UNCHANGED <<phase, halting, known, calls>>
  BY Pools DEF ReturnSlot, At, Shape, TypeOK
<1>2. Idle \in Job /\ Idle.at = "idle" /\ job' = [job EXCEPT ![w] = Idle]
  BY DEF Idle, Job, Free, ReturnSlot
<1>3. waiters' \in Seq(InitWorkers) /\ LineOK'
  BY <1>1, <1>2, LineKept
<1> QED BY <1>1, <1>3, WaitEndsKeeps DEF ReturnSlot

(* Who leaves the line leaves the others in it, in order.                  *)
LEMMA WithoutOK ==
  ASSUME NEW S, NEW line \in Seq(S), NEW i \in DOMAIN line,
         \A a, b \in DOMAIN line : line[a] = line[b] => a = b
  PROVE  /\ Without(line, i) \in Seq(S)
         /\ \A a \in DOMAIN Without(line, i) :
              \E b \in DOMAIN line \ {i} :
                 Without(line, i)[a] = line[b] /\ b = (IF a < i THEN a ELSE a + 1)
<1>1. Len(line) \in Nat /\ DOMAIN line = 1 .. Len(line) /\ i \in 1 .. Len(line)
  OBVIOUS
<1> DEFINE l == SubSeq(line, 1, i - 1)
           r == SubSeq(line, i + 1, Len(line))
<1>2. l \in Seq(S) /\ Len(l) = i - 1 /\ \A a \in 1 .. (i - 1) : l[a] = line[a]
  BY <1>1
<1>3. r \in Seq(S) /\ Len(r) = Len(line) - i /\ \A a \in 1 .. (Len(line) - i) : r[a] = line[a + i]
  BY <1>1
<1> HIDE DEF l, r
<1>4. /\ l \o r \in Seq(S) /\ Len(l \o r) = Len(line) - 1
      /\ \A a \in 1 .. (Len(line) - 1) : (l \o r)[a] = IF a < i THEN line[a] ELSE line[a + 1]
  <2>1. l \o r \in Seq(S) /\ Len(l \o r) = Len(l) + Len(r)
        /\ \A a \in 1 .. (Len(l) + Len(r)) :
             (l \o r)[a] = IF a <= Len(l) THEN l[a] ELSE r[a - Len(l)]
    BY <1>2, <1>3, ConcatProperties
  <2>2. Len(l) + Len(r) = Len(line) - 1
    BY <1>1, <1>2, <1>3
  <2>3. ASSUME NEW a \in 1 .. (Len(line) - 1)
        PROVE  (l \o r)[a] = IF a < i THEN line[a] ELSE line[a + 1]
    <3>1. CASE a < i
      BY <1>1, <1>2, <2>1, <2>2, <2>3, <3>1
    <3>2. CASE ~(a < i)
      <4>1. a - Len(l) \in 1 .. (Len(line) - i) /\ ~(a <= Len(l)) /\ (a - Len(l)) + i = a + 1
        BY <1>1, <1>2, <2>3, <3>2
      <4>2. (l \o r)[a] = r[a - Len(l)]
        BY <2>1, <2>2, <2>3, <4>1
      <4> QED BY <1>3, <3>2, <4>1, <4>2
    <3> QED BY <3>1, <3>2
  <2> QED BY <2>1, <2>2, <2>3
<1> DEFINE x == Without(line, i)
<1>0. x = l \o r
  BY DEF Without, l, r
<1> HIDE DEF x
<1>5. x \in Seq(S) /\ DOMAIN x = 1 .. (Len(line) - 1)
      /\ \A a \in 1 .. (Len(line) - 1) : x[a] = IF a < i THEN line[a] ELSE line[a + 1]
  <2>1. x \in Seq(S) /\ Len(x) = Len(line) - 1
    BY <1>0, <1>4
  <2>2. \A a \in 1 .. (Len(line) - 1) : x[a] = IF a < i THEN line[a] ELSE line[a + 1]
    BY <1>0, <1>4, Zenon
  <2> QED BY <2>1, <2>2
<1>6. ASSUME NEW a \in DOMAIN x
      PROVE  \E b \in DOMAIN line \ {i} : x[a] = line[b] /\ b = (IF a < i THEN a ELSE a + 1)
  <2> DEFINE b == IF a < i THEN a ELSE a + 1
  <2>1. b \in DOMAIN line \ {i} /\ x[a] = line[b]
    BY <1>1, <1>5, <1>6
  <2> QED BY <2>1
<1> QED BY <1>5, <1>6 DEF x

(* A worker leaves the line for a slot when its session is cancelled.      *)
LEMMA LeaveLineKeeps ==
  ASSUME Shape, phase = "up" => LivesOK, NEW w \in InitWorkers, LeaveLine(w)
  PROVE  Keeps
<1>1. job[w].at = "slot" /\ w \in Workers /\ slots' \in Nat
      /\ UNCHANGED <<phase, halting, known, calls>>
  BY Pools DEF LeaveLine, At, Shape, TypeOK
<1>2. job' = [job EXCEPT ![w] = Idle]
  BY DEF Free, LeaveLine
<1>3. PICK i \in DOMAIN waiters : waiters[i] = w /\ waiters' = Without(waiters, i)
  BY DEF LeaveLine
<1>4. /\ job \in [Workers -> Job] /\ waiters \in Seq(InitWorkers)
      /\ \A a, b \in DOMAIN waiters : waiters[a] = waiters[b] => a = b
      /\ \A a \in DOMAIN waiters : job[waiters[a]].at = "slot" /\ waiters[a] \in Workers
  BY Pools DEF Shape, TypeOK, Job, LineOK
<1>5. /\ waiters' \in Seq(InitWorkers)
      /\ \A a \in DOMAIN waiters' :
           \E b \in DOMAIN waiters \ {i} :
                 waiters'[a] = waiters[b] /\ b = (IF a < i THEN a ELSE a + 1)
  BY <1>3, <1>4, WithoutOK
<1>6. LineOK'
  <2>1. \A a \in DOMAIN waiters' : job'[waiters'[a]].at = "slot"
    <3> TAKE a \in DOMAIN waiters'
    <3>1. PICK b \in DOMAIN waiters \ {i} : waiters'[a] = waiters[b]
      BY <1>5
    <3>2. waiters[b] # w /\ job[waiters[b]].at = "slot" /\ waiters[b] \in Workers
      BY <1>3, <1>4, <3>1
    <3> QED BY <1>2, <1>4, <3>1, <3>2
  <2>2. \A a, c \in DOMAIN waiters' : waiters'[a] = waiters'[c] => a = c
    <3> SUFFICES ASSUME NEW a \in DOMAIN waiters', NEW c \in DOMAIN waiters', waiters'[a] = waiters'[c]
                 PROVE  a = c
      OBVIOUS
    <3>1. PICK b \in DOMAIN waiters \ {i} : waiters'[a] = waiters[b] /\ b = (IF a < i THEN a ELSE a + 1)
      BY <1>5
    <3>2. PICK d \in DOMAIN waiters \ {i} : waiters'[c] = waiters[d] /\ d = (IF c < i THEN c ELSE c + 1)
      BY <1>5
    <3>3. b = d
      BY <1>4, <3>1, <3>2
    <3>4. a \in Nat /\ c \in Nat /\ i \in Nat /\ b \in Nat /\ b # i /\ d # i
      BY <1>4, <1>5, <3>1, <3>2
    <3> QED BY <3>1, <3>2, <3>3, <3>4
  <2> QED BY <2>1, <2>2 DEF LineOK
<1> QED BY <1>1, <1>5, <1>6, WaitEndsKeeps DEF LeaveLine

(* on_postrun returns and the session leaves.                              *)
LEMMA PostEndsKeeps ==
  ASSUME Shape, phase = "up" => LivesOK, NEW w \in PostWorkers, PostEnds(w)
  PROVE  Keeps
<1>1. job \in [Workers -> Job] /\ TypeOK /\ queue \in Queues /\ w \in Workers /\ job[w].at = "handler"
  BY Pools DEF Shape, TypeOK, Job, PostEnds, At, Queues
<1>2. PICK s \in Sessions : s = job[w].sid
  BY <1>1 DEF Shape, WorkersOK
<1>3. Idle \in Job /\ Idle.at = "idle" /\ job' = [job EXCEPT ![w] = Idle] /\ waiters' = waiters
  BY DEF Idle, Job, Free, PostEnds
<1>4. job' \in [Workers -> Job] /\ waiters' \in Seq(InitWorkers) /\ WorkersOK' /\ LineOK'
  BY <1>1, <1>3, LineKept
<1>5. Shape'
  BY <1>1, <1>4 DEF Shape, TypeOK, PostEnds, Queues, Job
<1>6. Shift(s, "postrunning", "none")
  <2>1. \A t \in Sessions : Shifted(Count(t), NowAt(t, queue, job), IF t = s THEN "none" ELSE "none",
                                     IF t = s THEN "none" ELSE "none")
    <3>1. \A t \in Sessions : Shifted(NowAt(t, queue, job), NowAt(t, queue, job), "none", "none")
      BY <1>1, <1>2, AppendShift
    <3> QED BY <3>1, CountIs
  <2> DEFINE j == Idle
  <2>2. /\ j \in Job /\ PlaceOf(w, j.at) = "none" /\ PlaceOf(w, job[w].at) = "postrunning"
        /\ job' = [job EXCEPT ![w] = j] /\ queue' = queue
    BY <1>1, <1>3, QueueOfIs DEF PostEnds
  <2> HIDE DEF j
  <2> QED BY <1>1, <1>2, <2>1, <2>2, TurnsThen
<1>7. ASSUME phase = "up" PROVE LivesOK' /\ ReadyKept
  <2>1. sess' = sess /\ known' = known \ {s} /\ calls' = calls
    BY <1>2 DEF PostEnds
  <2>2. Life(sess[s], s \in known, Count(s), calls[s])
    BY <1>7 DEF LivesOK
  <2>3. Shifted(Count(s), Count(s)', "postrunning", "none")
    BY <1>6 DEF Shift
  <2>4. Life(sess[s], FALSE, Count(s)', calls[s])
    BY <1>2, <1>5, <2>2, <2>3, SessOK, CountsNext, LifeEnds
  <2>5. (s \in known') = FALSE
    BY <2>1
  <2>6. Life(sess'[s], s \in known', Count(s)', calls'[s])
    BY <2>1, <2>4, <2>5
  <2> QED BY <1>1, <1>5, <1>6, <1>7, <2>1, <2>6, LivesStep DEF Shape
<1> QED BY <1>5, <1>7 DEF Keeps

(* What cancel() puts in the POSTRUN queue, or has put there later.        *)
LEMMA PutPost ==
  ASSUME Shape, NEW s \in Sessions, NEW put \in BOOLEAN,
         queue' = IF put THEN [queue EXCEPT !.post = Append(@, s)] ELSE queue, job' = job
  PROVE  queue' \in Queues /\ Shift(s, "none", IF put THEN "POSTRUN" ELSE "none")
<1>1. queue \in Queues /\ job \in [Workers -> Job] /\ TypeOK
  BY DEF Shape, TypeOK, Queues, Job
<1> DEFINE q2 == [queue EXCEPT !.post = Append(@, s)]
<1>2. /\ q2 \in Queues
      /\ \A t \in Sessions : Shifted(NowAt(t, queue, job), NowAt(t, q2, job), "none",
                                     IF t = s THEN "POSTRUN" ELSE "none")
      /\ \A t \in Sessions : Shifted(NowAt(t, queue, job), NowAt(t, queue, job), "none", "none")
  BY <1>1, AppendShift
<1> HIDE DEF q2
<1>3. CASE put
  <2>1. queue' = q2
    BY <1>3 DEF q2
  <2>2. Shift(s, "none", "POSTRUN")
    BY <1>1, <1>2, <2>1, CountIs DEF Shift
  <2> QED BY <1>2, <1>3, <2>1, <2>2
<1>4. CASE ~put
  <2>1. Shift(s, "none", "none")
    BY <1>1, <1>2, <1>4, CountIs DEF Shift
  <2> QED BY <1>1, <1>4, <2>1
<1> QED BY <1>3, <1>4

(* One shape of a step that changes a record and the POSTRUN queue.        *)
LEMMA ShapeAfterRecord ==
  ASSUME Shape, NEW s \in Sessions, NEW m2 \in Managed, sess' = [sess EXCEPT ![s] = m2],
         queue' \in Queues, slots' \in Nat, UNCHANGED <<known, waiters, job, calls>>,
         phase' \in {"up", "stopping", "stopped", "broken"}, halting' \subseteq Sessions
  PROVE  Shape'
<1>1. sess' \in [Sessions -> Managed]
  BY DEF Shape, TypeOK
<1> QED BY <1>1 DEF Shape, TypeOK, WorkersOK, LineOK, Queues

(* cancel(), for a parked session, a queued one and one with a worker.     *)
LEMMA CancelKeeps ==
  ASSUME Shape, phase = "up" => LivesOK, NEW s \in Sessions, Cancel(s)
  PROVE  Keeps
<1>1. sess[s] \in Managed /\ s \in known /\ sess[s].cancelled = "no" /\ phase = "up"
      /\ UNCHANGED <<phase, halting, known, waiters, job, calls>>
      /\ (s \in known) \in BOOLEAN /\ halting \subseteq Sessions /\ slots \in Nat
      /\ slots + 1 \in Nat
  BY SessOK DEF Cancel, Cancelled, Shape, TypeOK
<1>2. ASSUME NEW was \in {"queued", "parked"}, CancelParked(s, was), slots' \in Nat, ~sess[s].inflight,
             sess[s].stage = (IF was = "parked" THEN "READY" ELSE "INIT")
      PROVE  Keeps
  <2> DEFINE m2 == [sess[s] EXCEPT !.cancelled = was, !.stage = "POSTRUN", !.inflight = FALSE,
                      !.wake = IF sess[s].runtime THEN "awaited" ELSE "none"]
             put == ~sess[s].runtime
  <2>1. m2 \in Managed /\ sess' = [sess EXCEPT ![s] = m2] /\ put \in BOOLEAN
    <3>1. m2 \in Managed
      BY <1>1, <1>2 DEF Managed, Stages
    <3>2. sess' = [sess EXCEPT ![s] = m2]
      BY <1>2 DEF CancelParked
    <3> QED BY <3>1, <3>2
  <2>2. queue' = IF put THEN [queue EXCEPT !.post = Append(@, s)] ELSE queue
    BY <1>2 DEF CancelParked
  <2>3. queue' \in Queues /\ Shift(s, "none", IF put THEN "POSTRUN" ELSE "none")
    <3> HIDE DEF put
    <3> QED BY <1>1, <2>1, <2>2, PutPost
  <2>4. Shape'
    <3> HIDE DEF m2
    <3>1. phase' \in {"up", "stopping", "stopped", "broken"} /\ halting' \subseteq Sessions
      BY <1>1
    <3> QED BY <1>1, <1>2, <2>1, <2>3, <3>1, ShapeAfterRecord
  <2> DEFINE to == IF sess[s].runtime THEN "none" ELSE "POSTRUN"
  <2>5. Life(sess[s], s \in known, Count(s), calls[s]) /\ Shifted(Count(s), Count(s)', "none", to)
        => Life(m2, s \in known, Count(s)', calls[s])
    BY <1>1, <1>2, <2>4, SessOK, CountsNext, LifeCancelled
  <2>6. Shift(s, "none", to)
    BY <2>3
  <2> HIDE DEF m2, put, to
  <2>7. known' = known /\ calls' = calls
    BY <1>1
  <2> QED BY <1>1, <2>1, <2>4, <2>5, <2>6, <2>7, RecordKeeps
<1>3. CASE Parked(s) /\ slots' = slots + 1 /\ CancelParked(s, "parked")
  BY <1>1, <1>2, <1>3 DEF Parked
<1>4. CASE Queued(s) /\ CancelParked(s, "queued") /\ slots' = slots
  BY <1>1, <1>2, <1>4 DEF Queued
<1>5. CASE sess' = [sess EXCEPT ![s].cancelled = "working"] /\ UNCHANGED <<queue, slots>>
  <2> DEFINE m2 == [sess[s] EXCEPT !.cancelled = "working"]
  <2>1. m2 \in Managed /\ sess' = [sess EXCEPT ![s] = m2]
    BY <1>1, <1>5 DEF Managed
  <2>2. queue' \in Queues /\ Shift(s, "none", "none") /\ queue' = queue
    <3>1. queue' = IF FALSE THEN [queue EXCEPT !.post = Append(@, s)] ELSE queue
      BY <1>5
    <3> QED BY <1>1, <3>1, PutPost
  <2>3. Shape'
    <3> HIDE DEF m2
    <3>1. phase' \in {"up", "stopping", "stopped", "broken"} /\ halting' \subseteq Sessions /\ slots' \in Nat
      BY <1>1, <1>5
    <3> QED BY <1>1, <2>1, <2>2, <3>1, ShapeAfterRecord
  <2>4. Life(sess[s], s \in known, Count(s), calls[s]) /\ Shifted(Count(s), Count(s)', "none", "none")
        => Life(m2, s \in known, Count(s)', calls[s])
    <3>1. Count(s)' = Count(s)
      BY <1>1, <2>2, CountIs
    <3> QED BY <1>1, <3>1, SessOK, LifeFlagged
  <2> HIDE DEF m2
  <2>5. known' = known /\ calls' = calls
    BY <1>1
  <2> QED BY <1>1, <2>1, <2>2, <2>3, <2>4, <2>5, RecordKeeps
<1> QED BY <1>3, <1>4, <1>5 DEF Cancel

(* The wait of cancel() for the session's runtime ends.                    *)
LEMMA CancelEndsKeeps ==
  ASSUME Shape, phase = "up" => LivesOK, NEW s \in Sessions, CancelEnds(s)
  PROVE  Keeps
<1>1. sess[s] \in Managed /\ sess[s].wake = "awaited"
      /\ UNCHANGED <<phase, halting, known, slots, waiters, job, calls>>
      /\ (s \in known) \in BOOLEAN
      /\ phase' \in {"up", "stopping", "stopped", "broken"} /\ halting' \subseteq Sessions /\ slots' \in Nat
  BY SessOK DEF CancelEnds, Shape, TypeOK
<1>2. ASSUME NEW wake \in {"none", "raised"}, sess' = [sess EXCEPT ![s].wake = wake],
             queue' = IF wake = "none" THEN [queue EXCEPT !.post = Append(@, s)] ELSE queue
      PROVE  Keeps
  <2> DEFINE m2 == [sess[s] EXCEPT !.wake = wake]
             put == wake = "none"
             to == IF wake = "none" THEN "POSTRUN" ELSE "none"
  <2>1. m2 \in Managed /\ sess' = [sess EXCEPT ![s] = m2] /\ put \in BOOLEAN
    BY <1>1, <1>2 DEF Managed
  <2>2. queue' \in Queues /\ Shift(s, "none", to)
    <3>1. queue' \in Queues /\ Shift(s, "none", IF put THEN "POSTRUN" ELSE "none")
      <4>1. queue' = IF put THEN [queue EXCEPT !.post = Append(@, s)] ELSE queue
        BY <1>2
      <4> HIDE DEF put
      <4> QED BY <1>1, <2>1, <4>1, PutPost
    <3> QED BY <3>1
  <2>3. Shape'
    <3> HIDE DEF m2
    <3> QED BY <1>1, <2>1, <2>2, ShapeAfterRecord
  <2>4. Life(sess[s], s \in known, Count(s), calls[s]) /\ Shifted(Count(s), Count(s)', "none", to)
        => Life(m2, s \in known, Count(s)', calls[s])
    BY <1>1, <1>2, <2>3, SessOK, CountsNext, LifeWoken
  <2>6. to # "READY"
    OBVIOUS
  <2> HIDE DEF m2, to
  <2>5. known' = known /\ calls' = calls
    BY <1>1
  <2> QED BY <1>1, <2>1, <2>2, <2>3, <2>4, <2>5, <2>6, RecordKeeps
<1>3. CASE sess' = [sess EXCEPT ![s].wake = "none"] /\ queue' = [queue EXCEPT !.post = Append(@, s)]
  BY <1>2, <1>3
<1>4. CASE sess' = [sess EXCEPT ![s].wake = "raised"] /\ queue' = queue
  BY <1>2, <1>4
<1> QED BY <1>3, <1>4 DEF CancelEnds

(* Stopping.                                                               *)
LEMMA StopShape ==
  ASSUME Shape, Shutdown
  PROVE  Shape' /\ phase' # "up"
<1>1. CASE Stop
  BY <1>1 DEF Shape, TypeOK, WorkersOK, LineOK, Stop
<1>2. CASE StopEnds
  <2>1. Idle \in Job /\ Idle.at = "idle" /\ job' = [w \in Workers |-> Idle] /\ waiters' = <<>>
    BY <1>2 DEF Idle, Job, StopEnds
  <2>2. WorkersOK' /\ LineOK' /\ job' \in [Workers -> Job] /\ waiters' \in Seq(InitWorkers)
    BY <2>1 DEF WorkersOK, LineOK
  <2> QED BY <1>2, <2>2 DEF Shape, TypeOK, StopEnds, Job
<1>3. ASSUME NEW s \in Sessions, StopOne(s)
      PROVE  Shape' /\ phase' # "up"
  <2> DEFINE was == IF sess[s].cancelled = "no" THEN "working" ELSE sess[s].cancelled
             m2 == [sess[s] EXCEPT !.cancelled = was]
  <2>1. sess[s] \in Managed
    BY SessOK
  <2>2. m2 \in Managed /\ sess' = [sess EXCEPT ![s] = m2]
    BY <1>3, <2>1 DEF Managed, StopOne
  <2>3. /\ queue' \in Queues /\ slots' \in Nat /\ UNCHANGED <<known, waiters, job, calls>>
        /\ phase' \in {"up", "stopping", "stopped", "broken"} /\ halting' \subseteq Sessions
        /\ phase' # "up"
    BY <1>3 DEF StopOne, Shape, TypeOK, Queues
  <2> HIDE DEF m2
  <2> QED BY <2>2, <2>3, ShapeAfterRecord
<1> QED BY <1>1, <1>2, <1>3 DEF Shutdown
-----------------------------------------------------------------------------
(* The run slots.                                                          *)
Granted == Cardinality({w \in InitWorkers : job[w].at = "granted"})
Running == Cardinality({w \in RunWorkers : job[w].at = "handler"})

(* What Holding adds up.                                                   *)
LEMMA HoldingIs ==
  Holding = Len(queue.ready) + Granted + Running /\ Holding' = Len(queue'.ready) + Granted' + Running'
BY DEF Holding, Granted, Running

(* The workers that hold slots are finitely many.                          *)
LEMMA HeldNat == Granted \in Nat /\ Running \in Nat /\ Granted' \in Nat /\ Running' \in Nat
<1>1. /\ {w \in InitWorkers : job[w].at = "granted"} \in SUBSET InitWorkers
      /\ {w \in RunWorkers : job[w].at = "handler"} \in SUBSET RunWorkers
      /\ {w \in InitWorkers : job'[w].at = "granted"} \in SUBSET InitWorkers
      /\ {w \in RunWorkers : job'[w].at = "handler"} \in SUBSET RunWorkers
  OBVIOUS
<1> QED BY <1>1, Pools, FS_Subset, FS_CardinalityType DEF Granted, Running

(* What a worker that turns adds to the slots held, or takes from them.    *)
LEMMA HeldTurns ==
  ASSUME Shape, NEW w \in Workers, NEW j, job' = [job EXCEPT ![w] = j]
  PROVE  /\ Granted' + (IF w \in InitWorkers /\ job[w].at = "granted" THEN 1 ELSE 0)
              = Granted + (IF w \in InitWorkers /\ j.at = "granted" THEN 1 ELSE 0)
         /\ Running' + (IF w \in RunWorkers /\ job[w].at = "handler" THEN 1 ELSE 0)
              = Running + (IF w \in RunWorkers /\ j.at = "handler" THEN 1 ELSE 0)
<1> DEFINE G == {v \in InitWorkers : job[v].at = "granted"}
           R == {v \in RunWorkers : job[v].at = "handler"}
           G2 == {v \in InitWorkers : job'[v].at = "granted"}
           R2 == {v \in RunWorkers : job'[v].at = "handler"}
<1>1. job \in [Workers -> Job]
  BY DEF Shape, TypeOK, Job
<1>2. /\ G \in SUBSET InitWorkers /\ G \ {w} = G2 \ {w}
      /\ (w \in G <=> w \in InitWorkers /\ job[w].at = "granted")
      /\ (w \in G2 <=> w \in InitWorkers /\ j.at = "granted")
  BY <1>1, Pools
<1>3. /\ R \in SUBSET RunWorkers /\ R \ {w} = R2 \ {w}
      /\ (w \in R <=> w \in RunWorkers /\ job[w].at = "handler")
      /\ (w \in R2 <=> w \in RunWorkers /\ j.at = "handler")
  BY <1>1, Pools
<1>4. Granted = Cardinality(G) /\ Granted' = Cardinality(G2)
      /\ Running = Cardinality(R) /\ Running' = Cardinality(R2)
  BY DEF Granted, Running
<1> HIDE DEF G, R, G2, R2
<1>5. IsFiniteSet(G) /\ IsFiniteSet(R)
  BY <1>2, <1>3, Pools, FS_Subset
<1>6. Cardinality(G2) + (IF w \in G THEN 1 ELSE 0) = Cardinality(G) + (IF w \in G2 THEN 1 ELSE 0)
  BY <1>2, <1>5, OneApart
<1>7. Cardinality(R2) + (IF w \in R THEN 1 ELSE 0) = Cardinality(R) + (IF w \in R2 THEN 1 ELSE 0)
  BY <1>3, <1>5, OneApart
<1> QED BY <1>2, <1>3, <1>4, <1>6, <1>7

(* Which sessions were parked.                                             *)
SameParked ==
  \A t \in Sessions : sess'[t].cancelled = "parked" <=> sess[t].cancelled = "parked"

(* The sessions cancelled while parked are finitely many.                  *)
LEMMA ParkedNat ==
  ASSUME SlotsOK
  PROVE  /\ IsFiniteSet(CancelledParked) /\ IsFiniteSet(StillParked)
         /\ Cardinality(CancelledParked) \in Nat /\ Cardinality(StillParked) \in Nat
<1>1. StillParked \in SUBSET CancelledParked
  BY DEF StillParked
<1> QED BY <1>1, FS_Subset, FS_CardinalityType DEF SlotsOK

(* What SlotsOK adds are natural numbers.                                  *)
LEMMA TotalNat ==
  ASSUME Shape
  PROVE  slots \in Nat /\ Holding \in Nat /\ MaxRun \in Nat
BY HoldingIs, HeldNat, Pools, FS_CardinalityType DEF Shape, TypeOK, MaxRun

(* In the next state too.                                                  *)
LEMMA TotalNext ==
  ASSUME Shape'
  PROVE  slots' \in Nat /\ Holding' \in Nat
<1>1. slots' \in Nat /\ queue'.ready \in Seq(Sessions)
  BY DEF Shape, TypeOK
<1>2. Len(queue'.ready) \in Nat
  BY <1>1
<1> QED BY <1>1, <1>2, HoldingIs, HeldNat

(* Where and Count agree on READY.                                         *)
LEMMA WhereReady ==
  ASSUME NEW t
  PROVE  Where(t, "READY") = Count(t)["READY"] /\ Where(t, "READY")' = Count(t)'["READY"]
BY DEF Count, Wheres

(* Most steps add up.                                                      *)
LEMMA SlotsSame ==
  ASSUME Shape, Shape', SlotsOK, SameParked, ReadyKept, slots' + Holding' = slots + Holding
  PROVE  SlotsOK'
<1>1. CancelledParked' = CancelledParked
  BY DEF CancelledParked, SameParked
<1>2. StillParked' \in SUBSET StillParked
  <2> SUFFICES ASSUME NEW t \in CancelledParked, Where(t, "READY")' > 0
               PROVE  Where(t, "READY") > 0
    BY <1>1 DEF StillParked
  <2>1. t \in Sessions /\ sess[t].cancelled = "parked"
    BY DEF CancelledParked
  <2>2. Count(t)["READY"] \in Nat /\ Count(t)'["READY"] \in Nat
    BY <2>1, SessOK, CountsNext DEF Wheres
  <2>3. Count(t)'["READY"] <= Count(t)["READY"]
    BY <2>1 DEF ReadyKept
  <2> QED BY <2>2, <2>3, WhereReady
<1>3. Cardinality(StillParked') <= Cardinality(StillParked) /\ Cardinality(StillParked') \in Nat
      /\ Cardinality(StillParked) \in Nat
  BY <1>2, ParkedNat, FS_Subset, FS_CardinalityType
<1>4. slots + Holding >= MaxRun + Cardinality(StillParked)
  BY DEF SlotsOK
<1>5. slots + Holding >= MaxRun + Cardinality(StillParked')
  BY <1>3, <1>4, TotalNat
<1>6. /\ IsFiniteSet(CancelledParked)'
      /\ slots' + Holding' >= MaxRun + Cardinality(StillParked')
      /\ slots' + Holding' <= MaxRun + Cardinality(CancelledParked')
  BY <1>1, <1>5 DEF SlotsOK
<1> QED BY <1>6 DEF SlotsOK

(* A stale session dropped from READY takes the slot it added with it.     *)
LEMMA SlotsDropped ==
  ASSUME Shape, Shape', SlotsOK, SameParked, ReadyKept, NEW s \in StillParked,
         Where(s, "READY")' = 0, slots' + Holding' + 1 = slots + Holding
  PROVE  SlotsOK'
<1>1. CancelledParked' = CancelledParked
  BY DEF CancelledParked, SameParked
<1>2. StillParked' \in SUBSET (StillParked \ {s})
  <2> SUFFICES ASSUME NEW t \in CancelledParked, Where(t, "READY")' > 0
               PROVE  Where(t, "READY") > 0 /\ t # s
    BY <1>1 DEF StillParked
  <2>1. t \in Sessions /\ sess[t].cancelled = "parked"
    BY DEF CancelledParked
  <2>2. Count(t)["READY"] \in Nat /\ Count(t)'["READY"] \in Nat
    BY <2>1, SessOK, CountsNext DEF Wheres
  <2>3. Count(t)'["READY"] <= Count(t)["READY"]
    BY <2>1 DEF ReadyKept
  <2> QED BY <2>2, <2>3, WhereReady
<1>3. /\ IsFiniteSet(StillParked \ {s}) /\ Cardinality(StillParked \ {s}) = Cardinality(StillParked) - 1
      /\ Cardinality(StillParked) \in Nat
  BY ParkedNat, FS_RemoveElement
<1>4. Cardinality(StillParked') <= Cardinality(StillParked) - 1 /\ Cardinality(StillParked') \in Nat
  BY <1>2, <1>3, FS_Subset, FS_CardinalityType
<1>5. /\ slots + Holding >= MaxRun + Cardinality(StillParked)
      /\ slots + Holding <= MaxRun + Cardinality(CancelledParked)
      /\ Cardinality(CancelledParked) \in Nat
  BY ParkedNat DEF SlotsOK
<1>6. slots \in Nat /\ Holding \in Nat /\ MaxRun \in Nat /\ slots' \in Nat /\ Holding' \in Nat
  BY TotalNat, TotalNext
<1>7. /\ slots' + Holding' >= MaxRun + Cardinality(StillParked')
      /\ slots' + Holding' <= MaxRun + Cardinality(CancelledParked)
  <2> DEFINE x == Cardinality(StillParked)
             y == Cardinality(StillParked')
             z == Cardinality(CancelledParked)
             h == Holding
             h2 == Holding'
             M == MaxRun
             c == slots
             c2 == slots'
  <2> HIDE DEF x, y, z, h, h2, M, c, c2
  <2>1. /\ c + h >= M + x /\ c + h <= M + z /\ y <= x - 1
        /\ x \in Nat /\ y \in Nat /\ z \in Nat /\ h \in Nat /\ h2 \in Nat /\ M \in Nat
        /\ c \in Nat /\ c2 \in Nat /\ c2 + h2 + 1 = c + h
    BY <1>3, <1>4, <1>5, <1>6 DEF x, y, z, h, h2, M, c, c2
  <2>2. c2 + h2 >= M + y /\ c2 + h2 <= M + z
    BY <2>1
  <2> QED BY <2>2 DEF x, y, z, h, h2, M, c, c2
<1> QED BY <1>1, <1>7 DEF SlotsOK

(* The cancellation of a parked session adds a slot.                       *)
LEMMA SlotsAdded ==
  ASSUME Shape, Shape', SlotsOK, NEW s \in Sessions, sess[s].cancelled # "parked",
         sess' = [sess EXCEPT ![s] = sess'[s]], sess'[s].cancelled = "parked",
         \A t \in Sessions \ {s} : Where(t, "READY")' = Where(t, "READY"),
         slots' + Holding' = slots + Holding + 1
  PROVE  SlotsOK'
<1>1. s \notin CancelledParked /\ CancelledParked' = CancelledParked \cup {s}
  BY DEF CancelledParked, Shape, TypeOK
<1>2. StillParked' \in SUBSET (StillParked \cup {s})
  BY <1>1 DEF StillParked, CancelledParked
<1>3. /\ IsFiniteSet(CancelledParked \cup {s})
      /\ Cardinality(CancelledParked \cup {s}) = Cardinality(CancelledParked) + 1
      /\ IsFiniteSet(StillParked \cup {s}) /\ Cardinality(StillParked \cup {s}) <= Cardinality(StillParked) + 1
      /\ Cardinality(StillParked \cup {s}) \in Nat
      /\ Cardinality(CancelledParked) \in Nat /\ Cardinality(StillParked) \in Nat
  <2>1. /\ IsFiniteSet(CancelledParked) /\ IsFiniteSet(StillParked)
        /\ Cardinality(CancelledParked) \in Nat /\ Cardinality(StillParked) \in Nat
    BY ParkedNat
  <2>2. /\ IsFiniteSet(CancelledParked \cup {s})
        /\ Cardinality(CancelledParked \cup {s}) = Cardinality(CancelledParked) + 1
    BY <1>1, <2>1, FS_AddElement
  <2>3. /\ IsFiniteSet(StillParked \cup {s})
        /\ Cardinality(StillParked \cup {s})
             = IF s \in StillParked THEN Cardinality(StillParked) ELSE Cardinality(StillParked) + 1
    BY <2>1, FS_AddElement
  <2> QED BY <2>1, <2>2, <2>3
<1>4. Cardinality(StillParked') <= Cardinality(StillParked) + 1 /\ Cardinality(StillParked') \in Nat
  <2>1. Cardinality(StillParked') <= Cardinality(StillParked \cup {s}) /\ IsFiniteSet(StillParked')
    BY <1>2, <1>3, FS_Subset
  <2> QED BY <1>3, <2>1, FS_CardinalityType
<1>5. /\ slots + Holding >= MaxRun + Cardinality(StillParked)
      /\ slots + Holding <= MaxRun + Cardinality(CancelledParked)
  BY DEF SlotsOK
<1>6. slots \in Nat /\ Holding \in Nat /\ MaxRun \in Nat /\ slots' \in Nat /\ Holding' \in Nat
  BY TotalNat, TotalNext
<1>7. /\ slots' + Holding' >= MaxRun + Cardinality(StillParked')
      /\ slots' + Holding' <= MaxRun + Cardinality(CancelledParked')
  <2> DEFINE x == Cardinality(StillParked)
             y == Cardinality(StillParked')
             z == Cardinality(CancelledParked)
             z2 == Cardinality(CancelledParked')
             h == Holding
             h2 == Holding'
             M == MaxRun
             c == slots
             c2 == slots'
  <2> HIDE DEF x, y, z, z2, h, h2, M, c, c2
  <2>1. /\ c + h >= M + x /\ c + h <= M + z /\ y <= x + 1 /\ z2 = z + 1
        /\ x \in Nat /\ y \in Nat /\ z \in Nat /\ h \in Nat /\ h2 \in Nat /\ M \in Nat
        /\ c \in Nat /\ c2 \in Nat /\ c2 + h2 = c + h + 1
    BY <1>1, <1>3, <1>4, <1>5, <1>6 DEF x, y, z, z2, h, h2, M, c, c2
  <2>2. c2 + h2 >= M + y /\ c2 + h2 <= M + z2
    BY <2>1
  <2> QED BY <2>2 DEF x, y, z, z2, h, h2, M, c, c2
<1> QED BY <1>1, <1>3, <1>7 DEF SlotsOK
(* A move to POSTRUN leaves READY and the cancellations alone.             *)
LEMMA MoveQuiet ==
  ASSUME NEW s \in Sessions, NEW m \in Managed, NEW q \in Queues,
         sess \in [Sessions -> Managed], MoveToPostrun(s, m, q), m.cancelled = sess[s].cancelled
  PROVE  SameParked /\ queue'.ready = q.ready
<1>1. /\ sess' = [sess EXCEPT ![s] =
            IF Moves(s, m) THEN [m EXCEPT !.stage = "POSTRUN", !.inflight = FALSE] ELSE m]
      /\ queue' = IF Moves(s, m) THEN [q EXCEPT !.post = Append(@, s)] ELSE q
  BY MoveOK
<1>2. [m EXCEPT !.stage = "POSTRUN", !.inflight = FALSE].cancelled = m.cancelled
  BY DEF Managed
<1>3. [q EXCEPT !.post = Append(@, s)].ready = q.ready
  BY DEF Queues
<1>4. \A t \in Sessions : sess'[t].cancelled = sess[t].cancelled
  BY <1>1, <1>2
<1> QED BY <1>1, <1>3, <1>4 DEF SameParked

(* A worker's turn that frees a slot or takes one, and the other end of it.*)
LEMMA AddsUp ==
  ASSUME Shape, Shape', NEW w \in Workers, NEW j, job' = [job EXCEPT ![w] = j],
         slots' + Len(queue'.ready) + (IF (j.at = "granted" /\ w \in InitWorkers)
                                       \/ (j.at = "handler" /\ w \in RunWorkers) THEN 1 ELSE 0)
           = slots + Len(queue.ready) + (IF (job[w].at = "granted" /\ w \in InitWorkers)
                                       \/ (job[w].at = "handler" /\ w \in RunWorkers) THEN 1 ELSE 0)
  PROVE  slots' + Holding' = slots + Holding
<1>1. w \in InitWorkers => w \notin RunWorkers
  BY PoolsAssumption
<1> DEFINE g == Granted
           g2 == Granted'
           r == Running
           r2 == Running'
           l == Len(queue.ready)
           l2 == Len(queue'.ready)
           c == slots
           c2 == slots'
<1>2. /\ g \in Nat /\ g2 \in Nat /\ r \in Nat /\ r2 \in Nat /\ l \in Nat /\ l2 \in Nat
      /\ c \in Nat /\ c2 \in Nat
  <2>1. Len(queue.ready) \in Nat
    BY DEF Shape, TypeOK
  <2>2. Len(queue'.ready) \in Nat
    BY DEF Shape, TypeOK
  <2> QED BY <2>1, <2>2, HeldNat, TotalNat, TotalNext
<1>3. /\ g2 + (IF w \in InitWorkers /\ job[w].at = "granted" THEN 1 ELSE 0)
              = g + (IF w \in InitWorkers /\ j.at = "granted" THEN 1 ELSE 0)
      /\ r2 + (IF w \in RunWorkers /\ job[w].at = "handler" THEN 1 ELSE 0)
              = r + (IF w \in RunWorkers /\ j.at = "handler" THEN 1 ELSE 0)
  BY HeldTurns
<1>4. c2 + l2 + (IF (j.at = "granted" /\ w \in InitWorkers)
                                       \/ (j.at = "handler" /\ w \in RunWorkers) THEN 1 ELSE 0)
           = c + l + (IF (job[w].at = "granted" /\ w \in InitWorkers)
                                       \/ (job[w].at = "handler" /\ w \in RunWorkers) THEN 1 ELSE 0)
  OBVIOUS
<1> HIDE DEF g, g2, r, r2, l, l2, c, c2
<1>5. c2 + (l2 + g2 + r2) = c + (l + g + r)
  <2>1. CASE w \in InitWorkers
    <3>1. r2 = r
      BY <1>1, <1>2, <1>3, <2>1
    <3>2. (IF j.at = "granted" THEN 1 ELSE 0) + g = g2 + (IF job[w].at = "granted" THEN 1 ELSE 0)
      BY <1>2, <1>3, <2>1
    <3>3. c2 + l2 + (IF j.at = "granted" THEN 1 ELSE 0) = c + l + (IF job[w].at = "granted" THEN 1 ELSE 0)
      <4>1. ((j.at = "granted" /\ w \in InitWorkers) \/ (j.at = "handler" /\ w \in RunWorkers))
              <=> j.at = "granted"
        BY <1>1, <2>1
      <4>2. ((job[w].at = "granted" /\ w \in InitWorkers) \/ (job[w].at = "handler" /\ w \in RunWorkers))
              <=> job[w].at = "granted"
        BY <1>1, <2>1
      <4> QED BY <1>4, <4>1, <4>2
    <3> QED BY <1>2, <3>1, <3>2, <3>3
  <2>2. CASE w \notin InitWorkers
    <3>1. g2 = g
      BY <1>1, <1>2, <1>3, <2>2
    <3>2. CASE w \in RunWorkers
      BY <1>2, <1>3, <1>4, <2>2, <3>1, <3>2
    <3>3. CASE w \notin RunWorkers
      BY <1>2, <1>3, <1>4, <2>2, <3>1, <3>3
    <3> QED BY <3>2, <3>3
  <2> QED BY <2>1, <2>2
<1>6. Holding = l + g + r /\ Holding' = l2 + g2 + r2
  BY HoldingIs DEF l, l2, g, g2, r, r2
<1> QED BY <1>5, <1>6 DEF c, c2

(* A step of no worker keeps the sum when it keeps slots and queue.        *)
LEMMA AddsUpIdly ==
  ASSUME Shape, Shape', job' = job, slots' + Len(queue'.ready) = slots + Len(queue.ready)
  PROVE  slots' + Holding' = slots + Holding
<1>1. Granted' = Granted /\ Running' = Running
  BY DEF Granted, Running
<1> DEFINE g == Granted
           r == Running
           l == Len(queue.ready)
           l2 == Len(queue'.ready)
           c == slots
           c2 == slots'
<1>2. /\ g \in Nat /\ r \in Nat /\ l \in Nat /\ l2 \in Nat
      /\ c \in Nat /\ c2 \in Nat /\ c2 + l2 = c + l
  BY HeldNat, TotalNat, TotalNext DEF Shape, TypeOK
<1> HIDE DEF g, r, l, l2, c, c2
<1>3. c2 + (l2 + g + r) = c + (l + g + r)
  BY <1>2
<1>4. Holding = l + g + r /\ Holding' = l2 + g + r
  BY <1>1, HoldingIs DEF l, l2, g, r
<1> QED BY <1>3, <1>4 DEF c, c2

(* The queue READY and its length.                                         *)
LEMMA ReadyLengths ==
  ASSUME TypeOK
  PROVE  /\ Waiting("init") => Taken("init").ready = queue.ready
         /\ Waiting("post") => Taken("post").ready = queue.ready
         /\ Waiting("ready") => Len(Taken("ready").ready) + 1 = Len(queue.ready)
         /\ Len(queue.ready) \in Nat
         /\ \A s \in Sessions : Len(Append(queue.ready, s)) = Len(queue.ready) + 1
<1>1. queue.ready \in Seq(Sessions) /\ queue \in Queues
  BY DEF TypeOK, Queues
<1>2. Waiting("ready") => Len(Taken("ready").ready) + 1 = Len(queue.ready)
  <2> SUFFICES ASSUME queue.ready # <<>>
               PROVE  Len(Tail(queue.ready)) + 1 = Len(queue.ready)
    BY <1>1 DEF Waiting, Taken, Queues
  <2> QED BY <1>1, EmptySeq, HeadTailProperties
<1> QED BY <1>1, <1>2, AppendProperties DEF Taken, Queues

(* An init worker's step keeps the sum of the slots.                       *)
LEMMA SlotsInit ==
  ASSUME Shape, Shape', ReadyKept, SlotsOK, NEW w \in InitWorkers, InitStep(w)
  PROVE  SlotsOK'
<1> USE Pools
<1>1. TypeOK /\ sess \in [Sessions -> Managed] /\ queue \in Queues /\ slots \in Nat
      /\ job \in [Workers -> Job] /\ w \in Workers /\ w \notin RunWorkers
  BY PoolsAssumption DEF Shape, TypeOK, Queues, Job
<1>2. SUFFICES SameParked /\ slots' + Holding' = slots + Holding
  BY SlotsSame
<1>3. CASE InitDrop(w)
  <2>1. Waiting("init") /\ UNCHANGED <<sess, slots, job>> /\ queue' = Taken("init")
    BY <1>3 DEF InitDrop, Drop
  <2> QED BY <1>1, <2>1, ReadyLengths, AddsUpIdly DEF SameParked
<1>4. CASE InitCall(w)
  <2>1. PICK made \in BOOLEAN :
          sess' = [sess EXCEPT ![First("init")] = [Began(First("init"), "INIT") EXCEPT !.runtime = made]]
    BY <1>4 DEF InitCall
  <2> DEFINE j == [sid |-> First("init"), at |-> "handler"]
  <2>2. Waiting("init") /\ slots' = slots /\ queue' = Taken("init") /\ job[w].at = "idle"
        /\ job' = [job EXCEPT ![w] = j] /\ First("init") \in Sessions
    BY <1>1, <1>4, TakenOK DEF InitCall, Call, At
  <2>3. SameParked
    <3> DEFINE s == First("init")
    <3> HIDE DEF s
    <3>1. [Began(s, "INIT") EXCEPT !.runtime = made].cancelled = sess[s].cancelled
      BY <1>1, <2>2 DEF Began, Managed, s
    <3>2. sess' = [sess EXCEPT ![s] = [Began(s, "INIT") EXCEPT !.runtime = made]]
      BY <2>1 DEF s
    <3> QED BY <1>1, <3>1, <3>2 DEF SameParked
  <2>4. j.at = "handler"
    OBVIOUS
  <2> HIDE DEF j
  <2>5. slots' + Holding' = slots + Holding
    BY <1>1, <2>2, <2>4, ReadyLengths, AddsUp
  <2> QED BY <2>3, <2>5
<1>5. CASE InitSkip(w)
  <2>1. Waiting("init") /\ UNCHANGED <<slots, job>>
        /\ MoveToPostrun(First("init"), Began(First("init"), "INIT"), Taken("init"))
    BY <1>5 DEF InitSkip
  <2>2. First("init") \in Sessions /\ Taken("init") \in Queues
    BY <1>1, <2>1, TakenOK
  <2>3. Began(First("init"), "INIT") \in Managed
        /\ Began(First("init"), "INIT").cancelled = sess[First("init")].cancelled
    <3> DEFINE m == sess[First("init")]
    <3>1. m \in Managed
      BY <1>1, <2>2
    <3> HIDE DEF m
    <3>2. /\ [m EXCEPT !.stage = "INIT", !.inflight = TRUE] \in Managed
          /\ [m EXCEPT !.stage = "INIT", !.inflight = TRUE].cancelled = m.cancelled
      BY <3>1 DEF Managed, Stages
    <3> QED BY <3>2 DEF Began, m
  <2>4. SameParked /\ queue'.ready = Taken("init").ready
    BY <1>1, <2>1, <2>2, <2>3, MoveQuiet
  <2>5. slots' + Len(queue'.ready) = slots + Len(queue.ready)
    BY <1>1, <2>1, <2>4, ReadyLengths
  <2> QED BY <2>1, <2>4, <2>5, AddsUpIdly
<1>6. ASSUME NEW m \in Managed, NEW s \in Sessions, s = job[w].sid, m.cancelled = sess[s].cancelled,
             MoveToPostrun(s, m, queue), Free(w), slots' = slots, job[w].at # "granted"
      PROVE  SameParked /\ slots' + Holding' = slots + Holding
  <2>1. SameParked /\ queue'.ready = queue.ready
    BY <1>1, <1>6, MoveQuiet
  <2>2. job' = [job EXCEPT ![w] = Idle] /\ Idle.at = "idle"
    BY <1>6 DEF Free, Idle
  <2> DEFINE j == Idle
  <2>3. job' = [job EXCEPT ![w] = j] /\ j.at = "idle"
    BY <2>2
  <2> HIDE DEF j
  <2>4. slots' + Holding' = slots + Holding
    BY <1>1, <1>6, <2>1, <2>3, ReadyLengths, AddsUp
  <2> QED BY <2>1, <2>4
<1>7. ASSUME NEW failed \in BOOLEAN, InitEnds(w, failed)
      PROVE  SameParked /\ slots' + Holding' = slots + Holding
  <2>1. PICK s \in Sessions : s = job[w].sid
    BY <1>7 DEF Shape, WorkersOK, InitEnds, At
  <2> DEFINE m == [sess[s] EXCEPT !.final = failed]
  <2>2. m \in Managed /\ m.cancelled = sess[s].cancelled /\ job[w].at = "handler" /\ slots' = slots
    BY <1>1, <1>7, <2>1 DEF Managed, InitEnds, At
  <2>3. CASE MoveToPostrun(s, m, queue) /\ Free(w)
    <3> HIDE DEF m
    <3> QED BY <1>6, <2>1, <2>2, <2>3
  <2>4. CASE s \notin known /\ Free(w) /\ UNCHANGED <<sess, queue>>
    <3>1. sess[s] \in Managed /\ sess = [sess EXCEPT ![s] = sess[s]]
      BY <1>1, <2>1
    <3>2. MoveToPostrun(s, sess[s], queue)
      BY <2>4, <3>1 DEF MoveToPostrun
    <3> QED BY <1>6, <2>1, <2>2, <2>4, <3>1, <3>2
  <2>5. CASE /\ sess' = [sess EXCEPT ![s] = [m EXCEPT !.stage = "READY", !.inflight = FALSE]]
             /\ job' = [job EXCEPT ![w].at = "slot"] /\ queue' = queue
    <3> DEFINE j == [job[w] EXCEPT !.at = "slot"]
    <3>1. job' = [job EXCEPT ![w] = j] /\ j.at = "slot"
      BY <1>1, <2>5 DEF Job
    <3>2. [m EXCEPT !.stage = "READY", !.inflight = FALSE].cancelled = sess[s].cancelled
      BY <2>2 DEF Managed
    <3> HIDE DEF j, m
    <3>3. SameParked
      BY <1>1, <2>5, <3>2 DEF SameParked
    <3>4. slots' + Holding' = slots + Holding
      BY <1>1, <2>2, <2>5, <3>1, ReadyLengths, AddsUp
    <3> QED BY <3>3, <3>4
  <2> QED BY <1>7, <2>1, <2>3, <2>4, <2>5 DEF InitEnds
<1>8. CASE TakeSlot(w)
  <2> DEFINE j == Idle
  <2>1. /\ job' = [job EXCEPT ![w] = j] /\ j.at = "idle" /\ job[w].at = "granted"
        /\ UNCHANGED <<sess, slots>>
    BY <1>8 DEF TakeSlot, Free, At, Idle
  <2>2. queue'.ready = Append(queue.ready, job[w].sid) /\ job[w].sid \in Sessions
    BY <1>1, <1>8, <2>1 DEF TakeSlot, Shape, WorkersOK, Queues
  <2> HIDE DEF j
  <2>3. slots' + Holding' = slots + Holding
    <3>1. Len(queue'.ready) = Len(queue.ready) + 1 /\ Len(queue.ready) \in Nat
      BY <1>1, <2>2, ReadyLengths
    <3>2. slots' + Len(queue'.ready) + (IF (j.at = "granted" /\ w \in InitWorkers)
                                       \/ (j.at = "handler" /\ w \in RunWorkers) THEN 1 ELSE 0)
           = slots + Len(queue.ready) + (IF (job[w].at = "granted" /\ w \in InitWorkers)
                                       \/ (job[w].at = "handler" /\ w \in RunWorkers) THEN 1 ELSE 0)
      BY <1>1, <2>1, <3>1
    <3> QED BY <1>1, <2>1, <3>2, AddsUp
  <2> QED BY <2>1, <2>3 DEF SameParked
<1>9. CASE ReturnSlot(w)
  <2> DEFINE j == Idle
  <2>1. /\ job' = [job EXCEPT ![w] = j] /\ j.at = "idle" /\ job[w].at = "granted"
        /\ slots' = slots + 1 /\ MoveToPostrun(job[w].sid, sess[job[w].sid], queue)
    BY <1>9 DEF ReturnSlot, Free, At, Idle
  <2>2. job[w].sid \in Sessions
    BY <1>1, <2>1 DEF Shape, WorkersOK
  <2>3. SameParked /\ queue'.ready = queue.ready
    BY <1>1, <2>1, <2>2, MoveQuiet
  <2> HIDE DEF j
  <2>4. slots' + Holding' = slots + Holding
    <3>1. Len(queue.ready) \in Nat
      BY <1>1, ReadyLengths
    <3>2. slots' + Len(queue'.ready) + (IF (j.at = "granted" /\ w \in InitWorkers)
                                       \/ (j.at = "handler" /\ w \in RunWorkers) THEN 1 ELSE 0)
           = slots + Len(queue.ready) + (IF (job[w].at = "granted" /\ w \in InitWorkers)
                                       \/ (job[w].at = "handler" /\ w \in RunWorkers) THEN 1 ELSE 0)
      BY <1>1, <2>1, <2>3, <3>1
    <3> QED BY <1>1, <2>1, <3>2, AddsUp
  <2> QED BY <2>3, <2>4
<1>10. CASE LeaveLine(w)
  <2>1. job[w].at = "slot" /\ slots' = slots /\ Free(w) /\ MoveToPostrun(job[w].sid, sess[job[w].sid], queue)
    BY <1>10 DEF LeaveLine, At
  <2>2. job[w].sid \in Sessions /\ sess[job[w].sid] \in Managed
    BY <1>1, <2>1 DEF Shape, WorkersOK
  <2> QED BY <1>6, <2>1, <2>2
<1> QED BY <1>3, <1>4, <1>5, <1>7, <1>8, <1>9, <1>10 DEF InitStep

(* A slot that is granted is held.                                         *)
LEMMA SlotsGranted ==
  ASSUME Shape, Shape', ReadyKept, SlotsOK, GetSlot
  PROVE  SlotsOK'
<1> USE Pools
<1>1. /\ job \in [Workers -> Job] /\ waiters \in Seq(InitWorkers) /\ waiters # <<>> /\ TypeOK
      /\ slots \in Nat /\ slots > 0 /\ slots' = slots - 1 /\ UNCHANGED <<sess, queue>>
  BY DEF Shape, TypeOK, Job, GetSlot
<1>2. PICK w \in InitWorkers : w = Head(waiters)
  BY <1>1, EmptySeq, HeadTailProperties
<1>3. w = waiters[1] /\ 1 \in DOMAIN waiters
  BY <1>1, <1>2, EmptySeq, HeadTailProperties
<1>4. w \in Workers /\ job[w].at = "slot" /\ w \notin RunWorkers
  BY <1>3, PoolsAssumption DEF Shape, LineOK
<1> DEFINE j == [job[w] EXCEPT !.at = "granted"]
<1>5. j.at = "granted" /\ job' = [job EXCEPT ![w] = j]
  BY <1>1, <1>2, <1>4 DEF Job, GetSlot
<1> HIDE DEF j
<1>6. slots' + Holding' = slots + Holding
  <2>1. slots' + Len(queue'.ready) + (IF (j.at = "granted" /\ w \in InitWorkers)
                                       \/ (j.at = "handler" /\ w \in RunWorkers) THEN 1 ELSE 0)
           = slots + Len(queue.ready) + (IF (job[w].at = "granted" /\ w \in InitWorkers)
                                       \/ (job[w].at = "handler" /\ w \in RunWorkers) THEN 1 ELSE 0)
    BY <1>1, <1>4, <1>5, ReadyLengths
  <2> QED BY <1>4, <1>5, <2>1, AddsUp
<1> QED BY <1>1, <1>6, SlotsSame DEF SameParked

(* A run worker's step keeps the sum, or drops a session cancelled while   *)
(* it was parked, and the slot in its place with it.                       *)
LEMMA SlotsRun ==
  ASSUME Shape, Shape', LivesOK, ReadyKept, SlotsOK, NEW w \in RunWorkers, RunStep(w)
  PROVE  SlotsOK'
<1> USE Pools
<1>1. /\ TypeOK /\ sess \in [Sessions -> Managed] /\ queue \in Queues /\ slots \in Nat
      /\ job \in [Workers -> Job] /\ w \in Workers /\ w \notin InitWorkers
  BY PoolsAssumption DEF Shape, TypeOK, Queues, Job
<1>2. CASE RunDrop(w)
  <2>1. /\ Waiting("ready") /\ UNCHANGED <<sess, slots, job>> /\ queue' = Taken("ready")
        /\ First("ready") \notin known
    BY <1>2 DEF RunDrop, Drop
  <2>2. PICK s \in Sessions : s = First("ready")
    BY <1>1, <2>1, TakenOK
  <2>3. Shifted(Count(s), Count(s)', "READY", "none")
    BY <1>2, <2>2, DropOK, QueueOfIs DEF RunDrop, Shift
  <2>4. Life(sess[s], s \in known, Count(s), calls[s])
    BY DEF LivesOK
  <2>5. sess[s].cancelled = "parked" /\ Count(s)["READY"] = 1 /\ Count(s)'["READY"] = 0
    <3>1. /\ sess[s] \in Managed /\ calls[s] \in Calls /\ (s \in known) \in BOOLEAN
          /\ Count(s) \in [Wheres -> Nat] /\ Count(s)' \in [Wheres -> Nat]
      BY SessOK, CountsNext
    <3>2. ~(s \in known)
      BY <2>1, <2>2
    <3>3. (s \in known) = FALSE
      BY <3>2
    <3> DEFINE m == sess[s]
               n == Count(s)
               n2 == Count(s)'
               c == calls[s]
    <3>4. m \in Managed /\ c \in Calls /\ n \in [Wheres -> Nat] /\ n2 \in [Wheres -> Nat]
      BY <3>1
    <3>5. Life(m, FALSE, n, c) /\ Shifted(n, n2, "READY", "none")
      BY <2>3, <2>4, <3>3
    <3> HIDE DEF m, n, n2, c
    <3>6. m.cancelled = "parked" /\ n["READY"] = 1 /\ n2["READY"] = 0
      BY <3>4, <3>5, LifeDropped
    <3> QED BY <3>6 DEF m, n, n2
  <2>6. s \in StillParked /\ Where(s, "READY")' = 0
    BY <2>5, WhereReady DEF StillParked, CancelledParked
  <2>7. slots' + Holding' + 1 = slots + Holding
    <3> DEFINE l == Len(queue.ready)
               l2 == Len(queue'.ready)
               g == Granted
               r == Running
    <3>1. l2 + 1 = l /\ l \in Nat /\ l2 \in Nat /\ g \in Nat /\ r \in Nat
      <4>1. Len(queue'.ready) \in Nat
        BY DEF Shape, TypeOK
      <4> QED BY <1>1, <2>1, <4>1, ReadyLengths, HeldNat
    <3>2. Granted' = g /\ Running' = r
      BY <2>1 DEF Granted, Running
    <3>3. Holding = l + g + r /\ Holding' = l2 + g + r
      BY <3>2, HoldingIs
    <3> HIDE DEF l, l2, g, r
    <3> QED BY <1>1, <2>1, <3>1, <3>3
  <2>8. SameParked
    BY <2>1 DEF SameParked
  <2> QED BY <2>6, <2>7, <2>8, SlotsDropped
<1>3. CASE RunCall(w)
  <2> DEFINE j == [sid |-> First("ready"), at |-> "handler"]
  <2>1. /\ Waiting("ready") /\ slots' = slots /\ queue' = Taken("ready") /\ job[w].at = "idle"
        /\ job' = [job EXCEPT ![w] = j] /\ j.at = "handler"
        /\ sess' = [sess EXCEPT ![First("ready")] = Began(First("ready"), "RUNNING")]
    BY <1>3 DEF RunCall, Call, At
  <2>2. PICK s \in Sessions : s = First("ready")
    BY <1>1, <2>1, TakenOK
  <2>3. SameParked
    <3>1. Began(s, "RUNNING").cancelled = sess[s].cancelled
      BY <1>1 DEF Began, Managed
    <3> QED BY <1>1, <2>1, <2>2, <3>1 DEF SameParked
  <2> HIDE DEF j
  <2>4. slots' + Holding' = slots + Holding
    <3>1. Len(queue'.ready) + 1 = Len(queue.ready) /\ Len(queue'.ready) \in Nat
      <4>1. Len(queue'.ready) \in Nat
        BY DEF Shape, TypeOK
      <4> QED BY <1>1, <2>1, <4>1, ReadyLengths
    <3>2. slots' + Len(queue'.ready) + (IF (j.at = "granted" /\ w \in InitWorkers)
                                       \/ (j.at = "handler" /\ w \in RunWorkers) THEN 1 ELSE 0)
           = slots + Len(queue.ready) + (IF (job[w].at = "granted" /\ w \in InitWorkers)
                                       \/ (job[w].at = "handler" /\ w \in RunWorkers) THEN 1 ELSE 0)
      BY <1>1, <2>1, <3>1
    <3> QED BY <1>1, <2>1, <3>2, AddsUp
  <2> QED BY <2>3, <2>4, SlotsSame
<1>4. CASE RunSkip(w)
  <2>1. /\ Waiting("ready") /\ slots' = slots + 1 /\ job' = job
        /\ MoveToPostrun(First("ready"), Began(First("ready"), "RUNNING"), Taken("ready"))
    BY <1>4 DEF RunSkip
  <2>2. First("ready") \in Sessions /\ Taken("ready") \in Queues
    BY <1>1, <2>1, TakenOK
  <2>3. /\ Began(First("ready"), "RUNNING") \in Managed
        /\ Began(First("ready"), "RUNNING").cancelled = sess[First("ready")].cancelled
    <3> DEFINE m == sess[First("ready")]
    <3>1. m \in Managed
      BY <1>1, <2>2
    <3> HIDE DEF m
    <3>2. /\ [m EXCEPT !.stage = "RUNNING", !.inflight = TRUE] \in Managed
          /\ [m EXCEPT !.stage = "RUNNING", !.inflight = TRUE].cancelled = m.cancelled
      BY <3>1 DEF Managed, Stages
    <3> QED BY <3>2 DEF Began, m
  <2>4. SameParked /\ queue'.ready = Taken("ready").ready
    BY <1>1, <2>1, <2>2, <2>3, MoveQuiet
  <2>5. slots' + Len(queue'.ready) = slots + Len(queue.ready)
    <3>1. Len(queue'.ready) + 1 = Len(queue.ready) /\ Len(queue'.ready) \in Nat
      <4>1. Len(queue'.ready) \in Nat
        BY DEF Shape, TypeOK
      <4> QED BY <1>1, <2>1, <2>4, <4>1, ReadyLengths
    <3>2. Len(queue.ready) \in Nat /\ slots' = slots + 1 /\ slots \in Nat
      BY <1>1, <2>1, ReadyLengths
    <3> DEFINE l == Len(queue.ready)
               l2 == Len(queue'.ready)
    <3>3. l2 + 1 = l /\ l2 \in Nat /\ l \in Nat
      BY <3>1, <3>2
    <3> HIDE DEF l, l2
    <3>4. slots' + l2 = slots + l
      BY <3>2, <3>3
    <3> QED BY <3>4 DEF l, l2
  <2> QED BY <2>1, <2>4, <2>5, AddsUpIdly, SlotsSame
<1>5. CASE RunEnds(w)
  <2> DEFINE j == Idle
  <2>1. /\ job' = [job EXCEPT ![w] = j] /\ j.at = "idle" /\ job[w].at = "handler"
        /\ slots' = slots + 1 /\ MoveToPostrun(job[w].sid, sess[job[w].sid], queue)
    BY <1>5 DEF RunEnds, Free, At, Idle
  <2>2. job[w].sid \in Sessions
    BY <1>1, <2>1 DEF Shape, WorkersOK
  <2>3. SameParked /\ queue'.ready = queue.ready
    BY <1>1, <2>1, <2>2, MoveQuiet
  <2> HIDE DEF j
  <2>4. slots' + Holding' = slots + Holding
    <3>1. Len(queue.ready) \in Nat
      BY <1>1, ReadyLengths
    <3>2. slots' + Len(queue'.ready) + (IF (j.at = "granted" /\ w \in InitWorkers)
                                       \/ (j.at = "handler" /\ w \in RunWorkers) THEN 1 ELSE 0)
           = slots + Len(queue.ready) + (IF (job[w].at = "granted" /\ w \in InitWorkers)
                                       \/ (job[w].at = "handler" /\ w \in RunWorkers) THEN 1 ELSE 0)
      BY <1>1, <2>1, <2>3, <3>1
    <3> QED BY <1>1, <2>1, <3>2, AddsUp
  <2> QED BY <2>3, <2>4, SlotsSame
<1> QED BY <1>2, <1>3, <1>4, <1>5 DEF RunStep

(* A postrun worker's step has nothing to do with slots.                   *)
LEMMA SlotsPost ==
  ASSUME Shape, Shape', ReadyKept, SlotsOK, NEW w \in PostWorkers, PostStep(w)
  PROVE  SlotsOK'
<1> USE Pools
<1>1. /\ TypeOK /\ sess \in [Sessions -> Managed] /\ queue \in Queues /\ slots \in Nat
      /\ job \in [Workers -> Job] /\ w \in Workers /\ w \notin InitWorkers /\ w \notin RunWorkers
  BY PoolsAssumption DEF Shape, TypeOK, Queues, Job
<1>2. CASE PostDrop(w)
  <2>1. Waiting("post") /\ UNCHANGED <<sess, slots, job>> /\ queue' = Taken("post")
    BY <1>2 DEF PostDrop, Drop
  <2> QED BY <1>1, <2>1, ReadyLengths, AddsUpIdly, SlotsSame DEF SameParked
<1>3. CASE PostCall(w)
  <2> DEFINE j == [sid |-> First("post"), at |-> "handler"]
  <2>1. /\ Waiting("post") /\ slots' = slots /\ queue' = Taken("post")
        /\ job' = [job EXCEPT ![w] = j]
        /\ sess' = [sess EXCEPT ![First("post")] = Began(First("post"), "POSTRUN")]
    BY <1>3 DEF PostCall, Call, At
  <2>2. PICK s \in Sessions : s = First("post")
    BY <1>1, <2>1, TakenOK
  <2>3. SameParked
    <3>1. Began(s, "POSTRUN").cancelled = sess[s].cancelled
      BY <1>1 DEF Began, Managed
    <3> QED BY <1>1, <2>1, <2>2, <3>1 DEF SameParked
  <2> HIDE DEF j
  <2>4. slots' + Holding' = slots + Holding
    BY <1>1, <2>1, ReadyLengths, AddsUp
  <2> QED BY <2>3, <2>4, SlotsSame
<1>4. CASE PostEnds(w)
  <2> DEFINE j == Idle
  <2>1. job' = [job EXCEPT ![w] = j] /\ UNCHANGED <<sess, queue, slots>>
    BY <1>4 DEF PostEnds, Free
  <2> HIDE DEF j
  <2>2. slots' + Holding' = slots + Holding
    BY <1>1, <2>1, ReadyLengths, AddsUp
  <2> QED BY <2>1, <2>2, SlotsSame DEF SameParked
<1> QED BY <1>2, <1>3, <1>4 DEF PostStep

(* A request keeps the sum, but the cancellation of a parked session adds  *)
(* one slot.                                                               *)
LEMMA SlotsRequested ==
  ASSUME Shape, Shape', ReadyKept, SlotsOK, Requested
  PROVE  SlotsOK'
<1>1. /\ TypeOK /\ sess \in [Sessions -> Managed] /\ queue \in Queues /\ slots \in Nat
      /\ Len(queue.ready) \in Nat
  BY DEF Shape, TypeOK, Queues
<1>2. ASSUME NEW s \in Sessions, Enqueue(s)
      PROVE  SlotsOK'
  <2>1. /\ sess' = [sess EXCEPT ![s].stage = "INIT"] /\ queue' = [queue EXCEPT !.init = Append(@, s)]
        /\ UNCHANGED <<slots, job>>
    BY <1>2 DEF Enqueue
  <2>2. SameParked /\ queue'.ready = queue.ready
    BY <1>1, <2>1 DEF SameParked, Managed, Queues
  <2> QED BY <2>1, <2>2, AddsUpIdly, SlotsSame
<1>3. ASSUME NEW s \in Sessions, Cancel(s)
      PROVE  SlotsOK'
  <2>1. job' = job /\ sess[s].cancelled = "no"
    BY <1>3 DEF Cancel, Cancelled
  <2>2. ASSUME NEW was, CancelParked(s, was)
        PROVE  /\ sess' = [sess EXCEPT ![s] = sess'[s]] /\ sess'[s].cancelled = was
               /\ queue'.ready = queue.ready
               /\ \A t \in Sessions : Where(t, "READY")' = Where(t, "READY")
    <3> DEFINE m2 == [sess[s] EXCEPT !.cancelled = was, !.stage = "POSTRUN", !.inflight = FALSE,
                        !.wake = IF sess[s].runtime THEN "awaited" ELSE "none"]
    <3>1. sess' = [sess EXCEPT ![s] = m2]
      BY <2>2 DEF CancelParked
    <3>2. m2.cancelled = was
      BY <1>1 DEF Managed
    <3> HIDE DEF m2
    <3>3. queue'.ready = queue.ready
      BY <1>1, <2>2 DEF CancelParked, Queues
    <3>4. \A t \in Sessions : Where(t, "READY")' = Where(t, "READY")
      BY <2>1, <3>3 DEF Where, Places, Jobs
    <3> QED BY <1>1, <3>1, <3>2, <3>3, <3>4
  <2>3. CASE slots' = slots + 1 /\ CancelParked(s, "parked")
    <3>1. slots' + Holding' = slots + Holding + 1
      <4> DEFINE l == Len(queue.ready)
                 g == Granted
                 r == Running
      <4>1. Granted' = g /\ Running' = r /\ g \in Nat /\ r \in Nat /\ l \in Nat
        BY <1>1, <2>1, HeldNat DEF Granted, Running
      <4>2. Holding = l + g + r /\ Holding' = l + g + r
        BY <2>2, <2>3, <4>1, HoldingIs
      <4> HIDE DEF l, g, r
      <4> QED BY <1>1, <2>3, <4>1, <4>2
    <3> QED BY <2>1, <2>2, <2>3, <3>1, SlotsAdded
  <2>4. CASE slots' = slots /\ CancelParked(s, "queued")
    <3>1. SameParked
      BY <1>1, <2>1, <2>2, <2>4 DEF SameParked
    <3> QED BY <2>1, <2>2, <2>4, <3>1, AddsUpIdly, SlotsSame
  <2>5. CASE sess' = [sess EXCEPT ![s].cancelled = "working"] /\ UNCHANGED <<queue, slots>>
    <3>1. SameParked
      BY <1>1, <2>1, <2>5 DEF SameParked, Managed
    <3> QED BY <2>1, <2>5, <3>1, AddsUpIdly, SlotsSame
  <2> QED BY <1>3, <2>3, <2>4, <2>5 DEF Cancel
<1>4. ASSUME NEW s \in Sessions, CancelEnds(s)
      PROVE  SlotsOK'
  <2>1. /\ (sess' = [sess EXCEPT ![s].wake = "none"] \/ sess' = [sess EXCEPT ![s].wake = "raised"])
        /\ (queue' = [queue EXCEPT !.post = Append(@, s)] \/ queue' = queue)
        /\ slots' = slots /\ job' = job
    BY <1>4 DEF CancelEnds
  <2>2. SameParked
    BY <1>1, <2>1 DEF SameParked, Managed
  <2>3. queue'.ready = queue.ready
    BY <1>1, <2>1 DEF Queues
  <2> QED BY <2>1, <2>2, <2>3, AddsUpIdly, SlotsSame
<1> QED BY <1>2, <1>3, <1>4 DEF Requested

-----------------------------------------------------------------------------
(* What the life of each session says of the properties.                   *)
LEMMA JobsAt ==
  ASSUME Shape, NEW s \in Sessions
  PROVE  /\ Jobs(s, InitWorkers, {"handler"}) # {} <=> Count(s)["initializing"] > 0
         /\ Jobs(s, RunWorkers, {"handler"}) # {} <=> Count(s)["running"] > 0
         /\ Jobs(s, PostWorkers, {"handler"}) # {} <=> Count(s)["postrunning"] > 0
<1>1. ASSUME NEW W \in {InitWorkers, RunWorkers, PostWorkers}
      PROVE  Jobs(s, W, {"handler"}) # {} <=> Cardinality(Jobs(s, W, {"handler"})) > 0
  <2>1. IsFiniteSet(W) /\ Jobs(s, W, {"handler"}) \in SUBSET W
    BY Pools DEF Jobs
  <2>2. IsFiniteSet(Jobs(s, W, {"handler"}))
    BY <2>1, FS_Subset
  <2> QED BY <2>2, FS_CardinalityType, FS_EmptySet
<1>2. /\ Count(s)["initializing"] = Cardinality(Jobs(s, InitWorkers, {"handler"}))
      /\ Count(s)["running"] = Cardinality(Jobs(s, RunWorkers, {"handler"}))
      /\ Count(s)["postrunning"] = Cardinality(Jobs(s, PostWorkers, {"handler"}))
  BY DEF Count, Where, Wheres
<1> QED BY <1>1, <1>2

(* A session is not at on_postrun while it is at another handler.          *)
LEMMA LivesApart ==
  ASSUME Shape, LivesOK
  PROVE  PostrunAlone
<1> SUFFICES ASSUME NEW s \in Sessions, Jobs(s, PostWorkers, {"handler"}) # {}
             PROVE  Jobs(s, InitWorkers \cup RunWorkers, {"handler"}) = {}
  BY DEF PostrunAlone
<1> DEFINE n == Count(s)
<1>1. n \in [Wheres -> Nat] /\ n["postrunning"] > 0
  BY SessOK, JobsAt
<1>2. Life(sess[s], s \in known, n, calls[s])
  BY DEF LivesOK
<1> HIDE DEF n
<1>3. n["initializing"] = 0 /\ n["running"] = 0
  BY <1>1, <1>2 DEF Life, Unseen, Staged, Gone, Doubled, Wheres
<1>4. ~(n["initializing"] > 0) /\ ~(n["running"] > 0)
  BY <1>3
<1>5. Jobs(s, InitWorkers, {"handler"}) = {} /\ Jobs(s, RunWorkers, {"handler"}) = {}
  BY <1>4, JobsAt DEF n
<1> QED BY <1>5 DEF Jobs

(* A session is called at most once at each stage.                         *)
LEMMA LivesOnce ==
  ASSUME Shape, LivesOK
  PROVE  StagesOnce
<1> SUFFICES ASSUME NEW s \in Sessions
             PROVE  /\ calls[s].init <= 1
                    /\ calls[s].run <= calls[s].init
                    /\ sess[s].cancelled \in {"no", "working"} => calls[s].post <= 1
  BY DEF StagesOnce
<1> DEFINE n == Count(s)
           m == sess[s]
           c == calls[s]
<1>1. Life(m, s \in known, n, c) /\ c \in Calls
  BY SessOK DEF LivesOK
<1> HIDE DEF n, m, c
<1>2. /\ c.init <= 1 /\ c.run <= c.init
      /\ m.cancelled \in {"no", "working"} => c.post <= 1
  BY <1>1 DEF Life, Unseen, Staged, Gone, Doubled, Calls
<1> QED BY <1>2 DEF m, c

(* A session is where its record says, and somewhere.                      *)
LEMMA LivesTell ==
  ASSUME Shape, LivesOK, NEW s \in known
  PROVE  /\ sess[s].cancelled \in {"no", "working"} =>
              \A p \in Wheres : Where(s, p) = IF p = Says(s) THEN 1 ELSE 0
         /\ sess[s].wake = "none" => \E p \in Wheres : Where(s, p) > 0
<1>1. s \in Sessions
  BY DEF Shape, TypeOK
<1> DEFINE n == Count(s)
           m == sess[s]
           c == calls[s]
<1>2. /\ Life(m, TRUE, n, c) /\ m \in Managed /\ n \in [Wheres -> Nat]
      /\ \A p \in Wheres : n[p] = Where(s, p)
  <2>1. (s \in known) = TRUE
    OBVIOUS
  <2> QED BY <1>1, <2>1, SessOK DEF LivesOK, Count
<1>3. SaysOf(m) = Says(s)
  BY DEF SaysOf, Says
<1> HIDE DEF n, m, c
<1>4. m.cancelled \in {"no", "working"} => \A p \in Wheres : n[p] = IF p = SaysOf(m) THEN 1 ELSE 0
  BY <1>2 DEF Life, Unseen, Staged, Doubled
<1>5. m.wake = "none" => \E p \in Wheres : n[p] > 0
  <2>1. CASE Staged(m, n, c)
    <3>1. SaysOf(m) \in Wheres
      BY <1>2, <2>1 DEF Staged, SaysOf, Wheres, Managed, Stages
    <3>2. n[SaysOf(m)] = 1
      BY <2>1, <3>1 DEF Staged
    <3> QED BY <3>1, <3>2
  <2>2. CASE Doubled(m, TRUE, n, c)
    <3>1. "POSTRUN" \in Wheres /\ "postrunning" \in Wheres
      BY DEF Wheres
    <3> QED BY <1>2, <2>2, <3>1 DEF Doubled
  <2> QED BY <1>2, <2>1, <2>2 DEF Life, Unseen
<1> QED BY <1>2, <1>3, <1>4, <1>5 DEF m

(* A session that has left has been at on_postrun.                         *)
LEMMA LivesTornDown ==
  ASSUME Shape, LivesOK, NEW s \in Sessions \ known, sess[s].stage # "new"
  PROVE  calls[s].post > 0
<1> DEFINE n == Count(s)
           m == sess[s]
           c == calls[s]
<1>1. Life(m, FALSE, n, c) /\ m.stage # "new"
  <2>1. (s \in known) = FALSE
    OBVIOUS
  <2> QED BY <2>1 DEF LivesOK
<1> HIDE DEF n, m, c
<1>2. c.post > 0
  BY <1>1 DEF Life, Unseen, Staged, Gone, Doubled, New
<1> QED BY <1>2 DEF c

-----------------------------------------------------------------------------
(* The initial state has the invariant.                                    *)
LEMMA InitInv ==
  Init => IndInv
<1> SUFFICES ASSUME Init PROVE IndInv
  OBVIOUS
<1>1. MaxRun \in Nat
  BY Pools, FS_CardinalityType DEF MaxRun
<1>2. TypeOK
  BY <1>1 DEF Init, TypeOK, New, Idle, Managed, Stages
<1>3. WorkersOK /\ LineOK /\ phase = "up"
  BY DEF Init, WorkersOK, LineOK, Idle
<1>4. LivesOK
  <2> SUFFICES ASSUME NEW s \in Sessions PROVE Life(sess[s], s \in known, Count(s), calls[s])
    BY DEF LivesOK
  <2>1. \A p \in Wheres : Count(s)[p] = 0
    <3>1. \A q \in {"init", "ready", "post"} : Places(s, q) = {}
      BY DEF Places, Init
    <3>2. \A W \in {InitWorkers, RunWorkers, PostWorkers}, ats \in {{"handler"}, {"slot", "granted"}} :
             Jobs(s, W, ats) = {}
      BY Pools DEF Jobs, Init, Idle
    <3>3. Cardinality({}) = 0
      BY FS_EmptySet
    <3> QED BY <3>1, <3>2, <3>3 DEF Count, Where, Wheres
  <2>2. sess[s] = New /\ ~(s \in known) /\ calls[s].init = 0 /\ calls[s].run = 0 /\ calls[s].post = 0
    BY DEF Init
  <2> QED BY <2>1, <2>2 DEF Life, Unseen, Wheres
<1>5. SlotsOK
  <2>1. CancelledParked = {} /\ StillParked = {}
    BY DEF Init, CancelledParked, StillParked, New
  <2>2. Granted = 0 /\ Running = 0 /\ Len(queue.ready) = 0 /\ slots = MaxRun
    <3>1. {w \in InitWorkers : job[w].at = "granted"} = {} /\ {w \in RunWorkers : job[w].at = "handler"} = {}
      BY Pools DEF Init, Idle
    <3> QED BY <3>1, FS_EmptySet DEF Granted, Running, Init
  <2>3. IsFiniteSet({}) /\ Cardinality({}) = 0
    BY FS_EmptySet
  <2> QED BY <1>1, <2>1, <2>2, <2>3, HoldingIs DEF SlotsOK
<1> QED BY <1>2, <1>3, <1>4, <1>5 DEF IndInv

(* What a worker or a request does keeps the lives of the sessions.        *)
LEMMA WorkKeeps ==
  ASSUME Shape, phase = "up" => LivesOK, Work \/ Requested
  PROVE  Keeps /\ phase' = phase
<1>1. ASSUME NEW w \in InitWorkers, InitStep(w)
      PROVE  Keeps /\ phase' = phase
  <2>1. CASE InitDrop(w)
    BY <2>1, Pools, QueueOfIs, DropKeeps DEF InitDrop, Drop
  <2>2. CASE InitCall(w)
    BY <2>2, InitCallKeeps DEF InitCall, Call
  <2>3. CASE InitSkip(w)
    BY <2>3, InitSkipKeeps DEF InitSkip
  <2>4. ASSUME NEW failed \in BOOLEAN, InitEnds(w, failed)
        PROVE  Keeps /\ phase' = phase
    BY <2>4, InitEndsKeeps DEF InitEnds
  <2>5. CASE TakeSlot(w)
    BY <2>5, TakeSlotKeeps DEF TakeSlot
  <2>6. CASE ReturnSlot(w)
    BY <2>6, ReturnSlotKeeps DEF ReturnSlot
  <2>7. CASE LeaveLine(w)
    BY <2>7, LeaveLineKeeps DEF LeaveLine
  <2> QED BY <1>1, <2>1, <2>2, <2>3, <2>4, <2>5, <2>6, <2>7 DEF InitStep
<1>2. ASSUME NEW w \in RunWorkers, RunStep(w)
      PROVE  Keeps /\ phase' = phase
  <2>1. CASE RunDrop(w)
    BY <2>1, Pools, QueueOfIs, DropKeeps DEF RunDrop, Drop
  <2>2. CASE RunCall(w)
    BY <2>2, RunCallKeeps DEF RunCall, Call
  <2>3. CASE RunSkip(w)
    BY <2>3, RunSkipKeeps DEF RunSkip
  <2>4. CASE RunEnds(w)
    BY <2>4, RunEndsKeeps DEF RunEnds
  <2> QED BY <1>2, <2>1, <2>2, <2>3, <2>4 DEF RunStep
<1>3. ASSUME NEW w \in PostWorkers, PostStep(w)
      PROVE  Keeps /\ phase' = phase
  <2>1. CASE PostDrop(w)
    BY <2>1, Pools, QueueOfIs, DropKeeps DEF PostDrop, Drop
  <2>2. CASE PostCall(w)
    BY <2>2, PostCallKeeps DEF PostCall, Call
  <2>3. CASE PostEnds(w)
    BY <2>3, PostEndsKeeps DEF PostEnds
  <2> QED BY <1>3, <2>1, <2>2, <2>3 DEF PostStep
<1>4. CASE GetSlot
  BY <1>4, GetSlotKeeps DEF GetSlot
<1>5. ASSUME NEW s \in Sessions, Enqueue(s) \/ Cancel(s) \/ CancelEnds(s)
      PROVE  Keeps /\ phase' = phase
  <2>1. CASE Enqueue(s)
    BY <2>1, EnqueueKeeps DEF Enqueue
  <2>2. CASE Cancel(s)
    BY <2>2, CancelKeeps DEF Cancel
  <2>3. CASE CancelEnds(s)
    BY <2>3, CancelEndsKeeps DEF CancelEnds
  <2> QED BY <1>5, <2>1, <2>2, <2>3
<1> QED BY <1>1, <1>2, <1>3, <1>4, <1>5 DEF Work, Requested

(* And the slots.                                                          *)
LEMMA WorkSlots ==
  ASSUME Shape, Shape', LivesOK, ReadyKept, SlotsOK, Work \/ Requested
  PROVE  SlotsOK'
BY SlotsInit, SlotsRun, SlotsPost, SlotsGranted, SlotsRequested DEF Work

(* Once stop() has taken the sessions out, no handler starts.              *)
Quiet ==
  /\ known' = {} /\ calls' = calls
  /\ \A w \in Workers : job'[w].at = "handler" => job'[w] = job[w]
  /\ \A s \in Sessions : sess'[s].cancelled \in {"no", "working"} =>
                           sess[s].cancelled \in {"no", "working"}

(* A step that starts no handler keeps what was true of the handlers.      *)
LEMMA QuietKeeps ==
  ASSUME Quiet, PostrunAlone, StagesOnce
  PROVE  PostrunAlone' /\ StagesOnce'
<1>1. ASSUME NEW s \in Sessions, NEW W \in SUBSET Workers
      PROVE  Jobs(s, W, {"handler"})' \subseteq Jobs(s, W, {"handler"})
  BY DEF Jobs, Quiet
<1>2. PostrunAlone'
  <2> SUFFICES ASSUME NEW s \in Sessions, Jobs(s, PostWorkers, {"handler"})' # {}
               PROVE  Jobs(s, InitWorkers \cup RunWorkers, {"handler"})' = {}
    BY DEF PostrunAlone
  <2>1. /\ Jobs(s, PostWorkers, {"handler"})' \subseteq Jobs(s, PostWorkers, {"handler"})
        /\ Jobs(s, InitWorkers \cup RunWorkers, {"handler"})'
             \subseteq Jobs(s, InitWorkers \cup RunWorkers, {"handler"})
    BY <1>1, Pools
  <2> QED BY <2>1 DEF PostrunAlone
<1>3. StagesOnce'
  BY DEF StagesOnce, Quiet
<1> QED BY <1>2, <1>3

(* _move_to_postrun after stop() has taken the sessions out.               *)
LEMMA QuietMove ==
  ASSUME NEW s \in Sessions, NEW m \in Managed, NEW q, sess \in [Sessions -> Managed],
         known = {}, MoveToPostrun(s, m, q), m.cancelled = sess[s].cancelled
  PROVE  \A t \in Sessions : sess'[t].cancelled = sess[t].cancelled
BY DEF MoveToPostrun

(* After stop() has begun, no step of a worker starts a handler.           *)
LEMMA LateQuiet ==
  ASSUME Shape, phase # "up", known = {}, Work \/ Requested
  PROVE  Quiet
<1>1. /\ job \in [Workers -> Job] /\ sess \in [Sessions -> Managed] /\ TypeOK
  BY DEF Shape, TypeOK, Job
<1>2. ASSUME NEW w \in Workers, Free(w)
      PROVE  \A v \in Workers : job'[v].at = "handler" => job'[v] = job[v]
  BY <1>1, <1>2 DEF Free, Idle
<1>3. ASSUME NEW w, NEW q, Drop(w, q)
      PROVE  Quiet
  BY <1>3 DEF Drop, Quiet
<1>4. ASSUME NEW w, NEW q, NEW counter, Call(w, q, counter)
      PROVE  Quiet
  BY <1>4 DEF Call
<1>5. ASSUME NEW w \in Workers, job[w].at # "idle", NEW m \in Managed,
             m.cancelled = sess[job[w].sid].cancelled,
             MoveToPostrun(job[w].sid, m, queue), Free(w), known' = {}, calls' = calls
      PROVE  Quiet
  <2>1. job[w].sid \in Sessions
    BY <1>5 DEF Shape, WorkersOK
  <2> QED BY <1>1, <1>2, <1>5, <2>1, QuietMove DEF Quiet
<1>6. ASSUME NEW w \in InitWorkers, InitStep(w)
      PROVE  Quiet
  <2> w \in Workers
    BY Pools
  <2>1. CASE InitSkip(w)
    BY <2>1 DEF InitSkip
  <2>2. ASSUME NEW failed \in BOOLEAN, InitEnds(w, failed)
        PROVE  Quiet
    <3> DEFINE s == job[w].sid
               m == [sess[s] EXCEPT !.final = failed]
    <3>1. s \in Sessions /\ job[w].at # "idle"
      BY <2>2 DEF InitEnds, At, Shape, WorkersOK
    <3>2. m \in Managed /\ m.cancelled = sess[s].cancelled
      BY <1>1, <3>1 DEF Managed
    <3>3. /\ Free(w) /\ known' = {} /\ calls' = calls
          /\ MoveToPostrun(s, m, queue) \/ sess' = sess
      BY <2>2 DEF InitEnds
    <3>4. CASE MoveToPostrun(s, m, queue)
      BY <1>5, <3>1, <3>2, <3>3, <3>4
    <3>5. CASE sess' = sess
      BY <1>2, <3>3, <3>5 DEF Quiet
    <3> QED BY <3>3, <3>4, <3>5
  <2>3. CASE TakeSlot(w)
    BY <1>2, <2>3 DEF TakeSlot, Quiet
  <2>4. ASSUME ReturnSlot(w) \/ LeaveLine(w)
        PROVE  Quiet
    <3>1. job[w].sid \in Sessions /\ job[w].at # "idle"
      BY <2>4 DEF ReturnSlot, LeaveLine, At, Shape, WorkersOK
    <3>2. /\ Free(w) /\ known' = {} /\ calls' = calls
          /\ MoveToPostrun(job[w].sid, sess[job[w].sid], queue)
      BY <2>4 DEF ReturnSlot, LeaveLine
    <3> QED BY <1>1, <1>5, <3>1, <3>2
  <2> QED BY <1>3, <1>4, <1>6, <2>1, <2>2, <2>3, <2>4 DEF InitStep, InitDrop, InitCall
<1>7. ASSUME NEW w \in RunWorkers, RunStep(w)
      PROVE  Quiet
  <2> w \in Workers
    BY Pools
  <2>1. CASE RunSkip(w)
    BY <2>1 DEF RunSkip
  <2>2. CASE RunEnds(w)
    <3>1. job[w].sid \in Sessions /\ job[w].at # "idle"
      BY <2>2 DEF RunEnds, At, Shape, WorkersOK
    <3>2. /\ Free(w) /\ known' = {} /\ calls' = calls
          /\ MoveToPostrun(job[w].sid, sess[job[w].sid], queue)
      BY <2>2 DEF RunEnds
    <3> QED BY <1>1, <1>5, <3>1, <3>2
  <2> QED BY <1>3, <1>4, <1>7, <2>1, <2>2 DEF RunStep, RunDrop, RunCall
<1>8. ASSUME NEW w \in PostWorkers, PostStep(w)
      PROVE  Quiet
  <2> w \in Workers
    BY Pools
  <2>1. CASE PostEnds(w)
    BY <1>2, <2>1 DEF PostEnds, Quiet
  <2> QED BY <1>3, <1>4, <1>8, <2>1 DEF PostStep, PostDrop, PostCall
<1>9. CASE GetSlot
  <2>1. /\ waiters # <<>> /\ waiters \in Seq(InitWorkers)
        /\ job' = [job EXCEPT ![Head(waiters)].at = "granted"]
        /\ UNCHANGED <<known, sess, calls>>
    BY <1>1, <1>9 DEF GetSlot, TypeOK
  <2>2. \A v \in Workers : job'[v].at = "handler" => job'[v] = job[v]
    BY <1>1, <2>1 DEF Job
  <2> QED BY <2>1, <2>2 DEF Quiet
<1>10. ASSUME NEW s \in Sessions, CancelEnds(s)
       PROVE  Quiet
  <2>1. UNCHANGED <<known, job, calls>>
    BY <1>10 DEF CancelEnds
  <2>2. sess' = [sess EXCEPT ![s].wake = "none"] \/ sess' = [sess EXCEPT ![s].wake = "raised"]
    BY <1>10 DEF CancelEnds
  <2>3. \A t \in Sessions : sess'[t].cancelled = sess[t].cancelled
    BY <1>1, <2>2 DEF Managed
  <2> QED BY <2>1, <2>3 DEF Quiet
<1>11. ASSUME NEW s \in Sessions
       PROVE  ~Enqueue(s) /\ ~Cancel(s)
  BY DEF Enqueue, Cancel
<1> QED BY <1>6, <1>7, <1>8, <1>9, <1>10, <1>11 DEF Work, Requested

(* stop() itself starts none.                                              *)
LEMMA StopQuiet ==
  ASSUME Shape, Shutdown, phase # "up" => known = {}
  PROVE  Quiet
<1>1. CASE Stop
  BY <1>1 DEF Stop, Quiet
<1>2. CASE StopEnds
  BY <1>2 DEF StopEnds, Quiet, Idle
<1>3. ASSUME NEW s \in Sessions, StopOne(s)
      PROVE  Quiet
  <2>1. /\ known = {} /\ UNCHANGED <<known, job, calls>> /\ sess \in [Sessions -> Managed]
        /\ sess' = [sess EXCEPT ![s].cancelled = IF @ = "no" THEN "working" ELSE @]
    BY <1>3 DEF StopOne, Shape, TypeOK
  <2>2. \A t \in Sessions : sess'[t].cancelled \in {"no", "working"} =>
                              sess[t].cancelled \in {"no", "working"}
    BY <2>1 DEF Managed
  <2> QED BY <2>1, <2>2 DEF Quiet
<1> QED BY <1>1, <1>2, <1>3 DEF Shutdown

(* Every step keeps the invariant.                                         *)
LEMMA StepInv ==
  IndInv /\ [Next]_vars => IndInv'
<1> SUFFICES ASSUME IndInv, [Next]_vars PROVE IndInv'
  OBVIOUS
<1>1. Shape /\ (phase = "up" => LivesOK /\ SlotsOK)
      /\ (phase # "up" => known = {} /\ PostrunAlone /\ StagesOnce)
  BY DEF IndInv, Shape
<1>2. CASE Work \/ Requested
  <2>1. Keeps /\ phase' = phase
    BY <1>1, <1>2, WorkKeeps
  <2>2. CASE phase = "up"
    <3>1. Shape' /\ LivesOK' /\ ReadyKept
      BY <2>1, <2>2 DEF Keeps
    <3>2. SlotsOK'
      BY <1>1, <1>2, <2>2, <3>1, WorkSlots
    <3> QED BY <2>1, <2>2, <3>1, <3>2 DEF IndInv, Shape
  <2>3. CASE phase # "up"
    <3>1. Quiet
      BY <1>1, <1>2, <2>3, LateQuiet
    <3>2. known' = {} /\ PostrunAlone' /\ StagesOnce'
      BY <1>1, <2>3, <3>1, QuietKeeps DEF Quiet
    <3> QED BY <2>1, <2>3, <3>2 DEF IndInv, Shape, Keeps
  <2> QED BY <2>2, <2>3
<1>3. CASE Shutdown
  <2>1. Shape' /\ phase' # "up"
    BY <1>1, <1>3, StopShape
  <2>2. PostrunAlone /\ StagesOnce
    BY <1>1, LivesApart, LivesOnce
  <2>3. Quiet
    BY <1>1, <1>3, StopQuiet
  <2>4. known' = {} /\ PostrunAlone' /\ StagesOnce'
    BY <2>2, <2>3, QuietKeeps DEF Quiet
  <2> QED BY <2>1, <2>4 DEF IndInv, Shape
<1>4. CASE UNCHANGED vars
  <2>1. Shape' /\ (phase # "up" => known' = {})
    BY <1>1, <1>4 DEF Shape, TypeOK, WorkersOK, LineOK, vars
  <2>2. phase = "up" => LivesOK' /\ SlotsOK'
    <3>1. \A s : Count(s)' = Count(s)
      BY <1>4 DEF Count, Where, Places, Jobs, vars
    <3>2. CancelledParked' = CancelledParked
      BY <1>4 DEF CancelledParked, vars
    <3>3. StillParked' = StillParked
      BY <3>2, <1>4 DEF StillParked, Where, Places, Jobs, vars
    <3>4. Holding' = Holding /\ slots' = slots
      BY <1>4 DEF Holding, vars
    <3>5. LivesOK => LivesOK'
      BY <3>1, <1>4 DEF LivesOK, vars
    <3>6. SlotsOK => SlotsOK'
      BY <3>2, <3>3, <3>4 DEF SlotsOK
    <3> QED BY <1>1, <3>5, <3>6
  <2>3. phase # "up" => PostrunAlone' /\ StagesOnce'
    BY <1>1, <1>4 DEF PostrunAlone, StagesOnce, Jobs, vars
  <2>4. phase' = phase
    BY <1>4 DEF vars
  <2> QED BY <2>1, <2>2, <2>3, <2>4 DEF IndInv, Shape
<1> QED BY <1>2, <1>3, <1>4 DEF Next

(* The inductive invariant.                                                *)
THEOREM Invariant ==
  Spec => []IndInv
<1> QED BY InitInv, StepInv, PTL DEF Spec

-----------------------------------------------------------------------------
(* The dispatcher's state has its types: no count goes below zero, every   *)
(* queue and the line hold what they are for.                              *)
THEOREM Types ==
  Spec => []TypeOK
<1>1. IndInv => TypeOK
  BY DEF IndInv
<1> QED BY <1>1, Invariant, PTL

(* What cancel() and snapshot() read off stage and inflight is where the   *)
(* session is, for any number of sessions and workers.                     *)
THEOREM StagesTold ==
  Spec => []StageTellsWhere
<1>1. IndInv => StageTellsWhere
  BY LivesTell DEF IndInv, Shape, StageTellsWhere
<1> QED BY <1>1, Invariant, PTL

(* No session the dispatcher knows is forgotten.                           *)
THEOREM NoneLost ==
  Spec => []NotLost
<1>1. IndInv => NotLost
  BY LivesTell DEF IndInv, Shape, NotLost
<1> QED BY <1>1, Invariant, PTL

(* No run slot is leaked, and none is made but by the cancellation of a    *)
(* parked session.                                                         *)
THEOREM SlotsAddUp ==
  Spec => []SlotsKept
<1>1. IndInv => SlotsKept
  <2> SUFFICES ASSUME IndInv, phase = "up" PROVE SlotsKept
    BY DEF SlotsKept
  <2>1. Shape /\ SlotsOK
    BY DEF IndInv, Shape
  <2> DEFINE a == slots
             b == Holding
             c == MaxRun
             d == Cardinality(CancelledParked)
             e == Cardinality(StillParked)
  <2>2. a \in Nat /\ b \in Nat /\ c \in Nat /\ d \in Nat /\ e \in Nat
    BY <2>1, TotalNat, ParkedNat
  <2>3. a + b >= c + e /\ a + b <= c + d
    BY <2>1 DEF SlotsOK
  <2> HIDE DEF a, b, c, d, e
  <2>4. a + b >= c
    BY <2>2, <2>3
  <2> QED BY <2>3, <2>4 DEF SlotsKept, a, b, c, d
<1> QED BY <1>1, Invariant, PTL

(* on_postrun never overlaps the session's own on_init or on_run.          *)
THEOREM PostrunNeverOverlaps ==
  Spec => []PostrunAlone
<1>1. IndInv => PostrunAlone
  BY LivesApart DEF IndInv, Shape
<1> QED BY <1>1, Invariant, PTL

(* Each stage happens at most once.                                        *)
THEOREM Once ==
  Spec => []StagesOnce
<1>1. IndInv => StagesOnce
  BY LivesOnce DEF IndInv, Shape
<1> QED BY <1>1, Invariant, PTL

(* Whatever left the dispatcher has been through POSTRUN.                  *)
THEOREM LeftThroughPostrun ==
  Spec => []TornDown
<1>1. IndInv => TornDown
  BY LivesTornDown DEF IndInv, Shape, TornDown
<1> QED BY <1>1, Invariant, PTL
=============================================================================
