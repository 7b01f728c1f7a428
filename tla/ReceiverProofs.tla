--------------------------- MODULE ReceiverProofs ---------------------------
(***************************************************************************)
(* Theorems of Receiver: any number of requests, sessions and envelopes of *)
(* any length, any number of faults and stops.                             *)
(***************************************************************************)
EXTENDS Receiver, FiniteSetTheorems, WellFoundedInduction, TLAPS

(* What a handler thread holds at each point of its course.                *)
Untouched(t) == t.plan = {} /\ t.at = 0 /\ t.done = 0 /\ t.left = {}
ThreadOK(t) ==
  /\ t.plan \in {{}, Planned(t.body)}
  /\ t.pc \in {"new", "validate"} => Untouched(t)
  /\ t.pc \in {"stage", "write"} => t.plan = Planned(t.body)
  /\ t.at <= Cardinality(t.plan) /\ t.done <= Cardinality(t.plan)
  /\ t.pc = "write" => t.at < Cardinality(t.plan)
  /\ t.done > 0 => t.at = Cardinality(t.plan)
  /\ t.pc = "write" <=> t.fd # None
  /\ t.left \subseteq t.plan
  /\ t.reply # None => t.pc = "over"
ThreadsOK == \A r \in Requests : ThreadOK(thr[r])

(* A file has one name: a rename takes the old one away.                   *)
NamesOK ==
  /\ \A s, t \in Slot : landed[s] # None /\ landed[s] = landed[t] => s = t
  /\ \A s, t \in Slot, i, j \in Indices :
       staging[s][i] # None /\ staging[s][i] = staging[t][j] => s = t /\ i = j
  /\ \A s, t \in Slot, j \in Indices : landed[s] # None => landed[s] # staging[t][j]

(* A file that has a name, or is open, was opened by its request.          *)
Opened(f) ==
  LET t == thr[f.req]
  IN  f.idx < t.at \/ (f.idx = t.at /\ t.pc \in {"write", "unwind", "over"})
OpenedOK ==
  /\ \A s \in Slot : landed[s] # None => Opened(landed[s])
  /\ \A s \in Slot, i \in Indices : staging[s][i] # None => Opened(staging[s][i])
  /\ \A r \in Requests : thr[r].fd # None => Opened(thr[r].fd)

(* What a file holds was planned for the name it has.                      *)
PlannedFor(f, s) ==
  data[f] \in Text => \E e \in Plan(data[f].req) : e.slot = s /\ e.pos = data[f].pos
HomeOK ==
  /\ \A s \in Slot : landed[s] # None => PlannedFor(landed[s], s)
  /\ \A s \in Slot, i \in Indices : staging[s][i] # None => PlannedFor(staging[s][i], s)
  /\ \A r \in Requests : thr[r].fd # None =>
       \A s \in Slot : (landed[s] = thr[r].fd \/ \E i \in Indices : staging[s][i] = thr[r].fd)
                         => s = Nth(r, thr[r].at).slot

(* A stage is in its thread's plan, and to be renamed or unlinked by it.   *)
Kept(t, e) ==
  /\ t.pc \in {"stage", "write"} => t.done <= e.idx
  /\ t.pc = "unwind" => e \in t.left \/ t.faults \cap {"write", "unlink"} # {}
  /\ t.pc = "over" => t.reply = None \/ t.faults \cap {"write", "unlink"} # {}
StagesOK ==
  \A s \in Slot, i \in Indices : staging[s][i] # None =>
    /\ staging[s][i].idx = i
    /\ \E e \in Plan(staging[s][i].req) :
         e.slot = s /\ e.idx = i /\ Kept(thr[staging[s][i].req], e)

Base == TypeOK /\ ThreadsOK /\ NamesOK /\ OpenedOK /\ HomeOK /\ StagesOK

(* When requests in flight do not overlap, what a thread has staged and    *)
(* renamed stays as it left it.                                            *)
Apart ==
  \A q, r \in Requests : q # r /\ InFlight(q) /\ InFlight(r) =>
    Sids(thr[q].body) \cap Sids(thr[r].body) = {}
Carried(r) ==
  LET t == thr[r]
  IN  t.pc \in {"stage", "write"} =>
        /\ \A e \in t.plan : t.done <= e.idx /\ e.idx < t.at =>
             /\ staging[e.slot][e.idx] # None
             /\ data[staging[e.slot][e.idx]] = [req |-> r, pos |-> e.pos]
        /\ \A e \in t.plan : e.idx < t.done =>
             /\ landed[e.slot] # None
             /\ data[landed[e.slot]] = [req |-> r, pos |-> e.pos]
        /\ \A e \in t.plan : t.pc = "write" /\ e.idx = t.at =>
             staging[e.slot][e.idx] = t.fd /\ data[t.fd] = Empty
LandedOK ==
  \A s \in Slot : landed[s] # None =>
    /\ data[landed[s]] \in Text
    /\ \E e \in Plan(data[landed[s]].req) :
         e.slot = s /\ e.pos = data[landed[s]].pos /\ e.idx < thr[data[landed[s]].req].done
RefusedOK ==
  \A r \in Requests :
    (thr[r].pc = "unwind" \/ thr[r].reply \in {400, 500}) /\ "rename" \notin thr[r].faults =>
      thr[r].done = 0
Alone == Apart /\ (\A r \in Requests : Carried(r)) /\ LandedOK /\ RefusedOK

IndInv == Base /\ (~Overlapping => Alone)

-----------------------------------------------------------------------------
(* Plans.                                                                  *)

(* A set of numbers that is not empty has a least one.                     *)
LEMMA Least ==
  ASSUME NEW T \in SUBSET Nat, T # {}
  PROVE  \E x \in T : \A y \in T : x <= y
<1>1. \E x \in T : \A y \in T : <<y, x>> \notin OpToRel(<, Nat)
  BY NatLessThanWellFounded, WFMin
<1>2. ASSUME NEW x \in Nat, NEW y \in Nat, <<y, x>> \notin OpToRel(<, Nat)
      PROVE  x <= y
  <2>1. ~(y < x)
    BY <1>2 DEF OpToRel
  <2> QED BY <2>1
<1> QED BY <1>1, <1>2

(* One that is bounded has a greatest one.                                 *)
LEMMA Greatest ==
  ASSUME NEW n \in Nat, NEW T \in SUBSET (1 .. n), T # {}
  PROVE  \E x \in T : \A y \in T : y <= x
<1> DEFINE D == {k \in Nat : n - k \in T}
<1>1. D \in SUBSET Nat /\ D # {}
  <2>1. PICK t \in T : TRUE
    OBVIOUS
  <2>2. n - t \in Nat /\ n - (n - t) = t
    OBVIOUS
  <2> QED BY <2>1, <2>2
<1>2. PICK k \in D : \A j \in D : k <= j
  BY <1>1, Least
<1>3. \A y \in T : n - y \in D /\ n - (n - y) = y /\ y \in Nat
  OBVIOUS
<1>4. \A y \in T : k <= n - y
  BY <1>2, <1>3
<1>5. n - k \in T /\ \A y \in T : y <= n - k
  BY <1>2, <1>3, <1>4
<1> QED BY <1>5

(* The elements of a set of places, each with the number of those before   *)
(* it, are counted from 0 on.                                              *)
Before(F, i) == Cardinality({j \in F : j < i})
(* Numbers of different places differ, and each number below the size is   *)
(* some place's.                                                           *)
LEMMA Ranks ==
  ASSUME NEW n \in Nat, NEW F \in SUBSET (1 .. n)
  PROVE  /\ IsFiniteSet(F) /\ Cardinality(F) \in Nat
         /\ \A i \in F : Before(F, i) \in Nat /\ Before(F, i) < Cardinality(F) /\ Before(F, i) < i
         /\ \A i, k \in F : Before(F, i) = Before(F, k) => i = k
         /\ \A m \in 0 .. (Cardinality(F) - 1) : \E i \in F : Before(F, i) = m
<1>0. IsFiniteSet(1 .. n) /\ \A i \in F : i \in Nat \ {0}
  BY FS_Interval
<1>1. IsFiniteSet(F) /\ Cardinality(F) \in Nat
  BY <1>0, FS_Subset, FS_CardinalityType
<1>2. ASSUME NEW i \in F
      PROVE  /\ IsFiniteSet({j \in F : j < i}) /\ Before(F, i) \in Nat
             /\ Before(F, i) < Cardinality(F) /\ Before(F, i) < i
  <2> DEFINE A == {j \in F : j < i}
  <2>0. i \in Nat \ {0} /\ ~(i < i)
    BY <1>0
  <2>1. A \in SUBSET F /\ A # F /\ A \in SUBSET (1 .. (i - 1)) /\ i \in Nat \ {0}
    <3>1. i \notin A /\ A \in SUBSET F
      BY <2>0
    <3>2. ASSUME NEW j \in A
          PROVE  j \in 1 .. (i - 1)
      <4>1. j \in Nat \ {0} /\ j < i
        BY <1>0
      <4> QED BY <2>0, <4>1
    <3> QED BY <2>0, <3>1, <3>2
  <2> HIDE DEF A
  <2>2. IsFiniteSet(A) /\ Cardinality(A) \in Nat /\ Cardinality(A) <= Cardinality(F)
        /\ Cardinality(A) # Cardinality(F)
    BY <1>1, <2>1, FS_Subset, FS_CardinalityType
  <2>3. Cardinality(A) <= i - 1
    <3>1. IsFiniteSet(1 .. (i - 1)) /\ Cardinality(1 .. (i - 1)) = i - 1
      BY <2>1, FS_Interval
    <3> QED BY <2>1, <3>1, FS_Subset
  <2>4. Cardinality(A) < Cardinality(F) /\ Cardinality(A) < i
    BY <1>1, <2>1, <2>2, <2>3
  <2> QED BY <2>2, <2>4 DEF A, Before
<1>3. ASSUME NEW i \in F, NEW k \in F, i < k
      PROVE  Before(F, i) < Before(F, k)
  <2> DEFINE A == {j \in F : j < i}
             B == {j \in F : j < k}
  <2>0. i \in Nat /\ k \in Nat /\ \A j \in F : j \in Nat
    BY <1>0
  <2>1. A \in SUBSET B /\ i \in B /\ i \notin A
    <3>1. ~(i < i) /\ \A j \in F : j < i => j < k
      BY <1>3, <2>0
    <3> QED BY <1>3, <3>1
  <2>2. IsFiniteSet(B) /\ Cardinality(A) \in Nat /\ Cardinality(B) \in Nat
    BY <1>2 DEF Before
  <2> HIDE DEF A, B
  <2>3. Cardinality(A) <= Cardinality(B) /\ Cardinality(B) # Cardinality(A)
    BY <2>1, <2>2, FS_Subset
  <2>4. Cardinality(A) < Cardinality(B)
    BY <2>2, <2>3
  <2> QED BY <2>4 DEF A, B, Before
<1>4. \A i, k \in F : Before(F, i) = Before(F, k) => i = k
  <2> SUFFICES ASSUME NEW i \in F, NEW k \in F, Before(F, i) = Before(F, k), i # k PROVE FALSE
    OBVIOUS
  <2>1. i < k \/ k < i
    OBVIOUS
  <2>2. Before(F, i) \in Nat /\ Before(F, k) \in Nat
    BY <1>2
  <2> QED BY <1>3, <2>1, <2>2
<1>5. \A m \in 0 .. (Cardinality(F) - 1) : \E i \in F : Before(F, i) = m
  <2> DEFINE N == 0 .. (Cardinality(F) - 1)
             f == [i \in F |-> Before(F, i)]
  <2>1. IsFiniteSet(N) /\ Cardinality(N) = Cardinality(F)
    BY <1>1, FS_Interval
  <2>2. f \in [F -> N]
    <3>1. ASSUME NEW i \in F
          PROVE  Before(F, i) \in 0 .. (Cardinality(F) - 1)
      <4> DEFINE x == Before(F, i)
                 c == Cardinality(F)
      <4>1. x \in Nat /\ c \in Nat /\ x < c
        BY <1>1, <1>2
      <4> HIDE DEF x, c
      <4>2. x \in 0 .. (c - 1)
        BY <4>1
      <4> QED BY <4>2 DEF x, c
    <3> QED BY <3>1
  <2>3. f \in Injection(F, N)
    BY <1>4, <2>2 DEF Injection, IsInjective
  <2> HIDE DEF f, N
  <2>4. f \in Surjection(F, N)
    BY <2>1, <2>3, FS_Injection
  <2> QED BY <2>4 DEF Surjection, f, N
<1> QED BY <1>1, <1>2, <1>4, <1>5

(* What may be posted.                                                     *)
Posted == Bodies \cup {<<>>}
(* An envelope is a sequence of members, whose places are places and whose *)
(* indices are indices.                                                    *)
LEMMA PostedOK ==
  ASSUME NEW b \in Posted
  PROVE  /\ b \in Seq(Member) /\ Len(b) \in Nat /\ DOMAIN b = 1 .. Len(b)
         /\ \A i \in DOMAIN b : b[i] \in Member /\ i \in Places /\ (i - 1) \in Indices
         /\ Firsts(b) \in SUBSET (1 .. Len(b))
<1>1. b \in Seq(Member)
  <2>1. CASE b \in Bodies
    BY <2>1, BodiesAssumption
  <2>2. CASE b = <<>>
    BY <2>2
  <2> QED BY <2>1, <2>2 DEF Posted
<1>2. b # <<>> => b \in Bodies
  BY DEF Posted
<1> QED BY <1>1, <1>2 DEF Places, Indices, Firsts

(* Places and indices are numbers.                                         *)
LEMMA NumbersOK ==
  /\ Places \in SUBSET (Nat \ {0}) /\ Indices \in SUBSET Nat
<1>1. \A b \in Bodies : DOMAIN b \in SUBSET (Nat \ {0})
  BY PostedOK DEF Posted
<1> QED BY <1>1 DEF Places, Indices

(* The last result of a session.                                           *)
LEMMA LastIs ==
  ASSUME NEW b \in Posted, NEW i \in DOMAIN b
  PROVE  /\ LastOf(b, b[i].sid) \in DOMAIN b
         /\ b[LastOf(b, b[i].sid)].sid = b[i].sid
         /\ \A j \in DOMAIN b : b[j].sid = b[i].sid => j <= LastOf(b, b[i].sid)
<1> DEFINE T == {j \in DOMAIN b : b[j].sid = b[i].sid}
<1>1. T \in SUBSET (1 .. Len(b)) /\ T # {} /\ Len(b) \in Nat
  BY PostedOK
<1>2. \E x \in T : \A y \in T : y <= x
  BY <1>1, Greatest
<1>3. \E x \in DOMAIN b : b[x].sid = b[i].sid /\ \A j \in DOMAIN b : b[j].sid = b[i].sid => j <= x
  BY <1>2
<1> QED BY <1>3 DEF LastOf

(* And its first.                                                          *)
LEMMA FirstIs ==
  ASSUME NEW b \in Posted, NEW i \in DOMAIN b
  PROVE  \E k \in Firsts(b) : b[k].sid = b[i].sid
<1> DEFINE T == {j \in DOMAIN b : b[j].sid = b[i].sid}
<1>1. T \in SUBSET Nat /\ T # {} /\ DOMAIN b = 1 .. Len(b) /\ Len(b) \in Nat
  BY PostedOK
<1>2. PICK x \in T : \A y \in T : x <= y
  BY <1>1, Least
<1>3. \A j \in DOMAIN b : j < x => b[j].sid # b[x].sid
  BY <1>1, <1>2
<1> QED BY <1>2, <1>3 DEF Firsts

(* A plan has one entry for each session of the envelope, numbered in      *)
(* order, with the session's last result.                                  *)
Numbered(p) ==
  /\ IsFiniteSet(p) /\ Cardinality(p) \in Nat
  /\ \A e \in p : e.idx < Cardinality(p)
  /\ \A n \in 0 .. (Cardinality(p) - 1) : \E e \in p : e.idx = n
  /\ \A e, f \in p : e.idx = f.idx => e = f
(* planned is such a plan, and each session's last result is in it.        *)
LEMMA PlannedOK ==
  ASSUME NEW b \in Posted
  PROVE  /\ Planned(b) \in SUBSET Entry
         /\ Numbered(Planned(b))
         /\ \A e \in Planned(b) : e.pos \in DOMAIN b /\ e.slot = SlotOf(b[e.pos])
         /\ \A e, f \in Planned(b) : e.slot.sid = f.slot.sid => e = f
         /\ \A i \in DOMAIN b : (\A j \in DOMAIN b : j > i => b[j].sid # b[i].sid) =>
              \E e \in Planned(b) : e.pos = i
<1> DEFINE F == Firsts(b)
           E(i) == [slot |-> SlotOf(b[LastOf(b, b[i].sid)]), idx |-> Before(F, i),
                    pos |-> LastOf(b, b[i].sid)]
           n == Len(b)
<1>1. /\ n \in Nat /\ F \in SUBSET (1 .. n) /\ DOMAIN b = 1 .. n
      /\ \A i \in F : b[i] \in Member
  BY PostedOK
<1>2. Planned(b) = {E(i) : i \in F}
  BY DEF Planned, Before
<1>3. \A i \in F : /\ LastOf(b, b[i].sid) \in DOMAIN b
                   /\ b[LastOf(b, b[i].sid)].sid = b[i].sid
                   /\ SlotOf(b[LastOf(b, b[i].sid)]) \in Slot
                   /\ SlotOf(b[LastOf(b, b[i].sid)]).sid = b[i].sid
  BY <1>1, LastIs, PostedOK DEF SlotOf, Slot, Member
<1>4. /\ IsFiniteSet(F) /\ Cardinality(F) \in Nat
      /\ \A i \in F : Before(F, i) \in Nat /\ Before(F, i) < Cardinality(F) /\ Before(F, i) < i
      /\ \A i, k \in F : Before(F, i) = Before(F, k) => i = k
      /\ \A m \in 0 .. (Cardinality(F) - 1) : \E i \in F : Before(F, i) = m
  BY <1>1, Ranks
<1>5. \A i, k \in F : b[i].sid = b[k].sid => i = k
  BY <1>1 DEF Firsts
<1>6. \A i \in F : E(i) \in Entry
  <2> TAKE i \in F
  <2>1. i \in 1 .. n /\ Before(F, i) \in Nat /\ Before(F, i) < i
    BY <1>1, <1>4
  <2>2. Before(F, i) + 1 \in 1 .. n
    BY <1>1, <2>1
  <2>3. (Before(F, i) + 1) - 1 \in Indices
    BY <1>1, <2>2, PostedOK
  <2>4. Before(F, i) \in Indices
    BY <2>1, <2>3
  <2>5. LastOf(b, b[i].sid) \in Places
    BY <1>3, PostedOK
  <2> QED BY <1>3, <2>4, <2>5 DEF Entry
<1> HIDE DEF F
<1>7. Numbered(Planned(b))
  <2> DEFINE f == [i \in F |-> E(i)]
  <2>1. f \in Bijection(F, Planned(b))
    <3>1. f \in [F -> Planned(b)]
      BY <1>2
    <3>2. \A i, k \in F : f[i] = f[k] => i = k
      BY <1>4
    <3>3. \A e \in Planned(b) : \E i \in F : f[i] = e
      BY <1>2
    <3> QED BY <3>1, <3>2, <3>3 DEF Bijection, Injection, Surjection, IsInjective
  <2>2. IsFiniteSet(Planned(b)) /\ Cardinality(Planned(b)) = Cardinality(F)
    BY <1>4, <2>1, FS_Bijection DEF ExistsBijection
  <2>3. \A e \in Planned(b) : e.idx < Cardinality(Planned(b))
    BY <1>2, <1>4, <2>2
  <2>4. \A m \in 0 .. (Cardinality(Planned(b)) - 1) : \E e \in Planned(b) : e.idx = m
    <3> SUFFICES ASSUME NEW m \in 0 .. (Cardinality(F) - 1) PROVE \E e \in Planned(b) : e.idx = m
      BY <2>2
    <3>1. PICK i \in F : Before(F, i) = m
      BY <1>4
    <3>2. E(i) \in Planned(b) /\ E(i).idx = m
      BY <1>2, <3>1
    <3> QED BY <3>2
  <2>5. \A e, g \in Planned(b) : e.idx = g.idx => e = g
    BY <1>2, <1>4
  <2> QED BY <1>4, <2>2, <2>3, <2>4, <2>5 DEF Numbered
<1>8. \A e \in Planned(b) : e.pos \in DOMAIN b /\ e.slot = SlotOf(b[e.pos])
  BY <1>2, <1>3
<1>9. \A e, f \in Planned(b) : e.slot.sid = f.slot.sid => e = f
  BY <1>2, <1>3, <1>5
<1>10. ASSUME NEW i \in DOMAIN b, \A j \in DOMAIN b : j > i => b[j].sid # b[i].sid
       PROVE  \E e \in Planned(b) : e.pos = i
  <2>1. PICK k \in F : b[k].sid = b[i].sid
    BY FirstIs DEF F
  <2>2. LastOf(b, b[k].sid) = i
    <3>1. /\ LastOf(b, b[i].sid) \in DOMAIN b
          /\ b[LastOf(b, b[i].sid)].sid = b[i].sid
          /\ i <= LastOf(b, b[i].sid)
      BY LastIs
    <3> QED BY <1>1, <1>10, <2>1, <3>1
  <2>3. E(k) \in Planned(b) /\ E(k).pos = i
    BY <1>2, <2>2
  <2> QED BY <2>3
<1> QED BY <1>2, <1>6, <1>7, <1>8, <1>9, <1>10

-----------------------------------------------------------------------------
(* Threads and files.                                                      *)
Replies == {None, 200, 400, 500}
Handles == Inode \cup {None}
Thread  == [pc : PCs, body : Posted, plan : SUBSET Entry, at : Nat, done : Nat,
            fd : Handles, left : SUBSET Entry, reply : Replies, faults : SUBSET Faults]
Files  == /\ landed \in [Slot -> Inode \cup {None}]
          /\ staging \in [Slot -> [Indices -> Inode \cup {None}]]
          /\ data \in [Inode -> Text \cup {Empty, Mixed}]

(* The type invariant, by files and threads.                               *)
LEMMA TypeIs ==
  TypeOK <=> /\ up \in BOOLEAN /\ Files /\ thr \in [Requests -> Thread]
             /\ counted \in [accepted : Nat, rejected : Nat]
BY DEF TypeOK, Thread, Files, Posted, Replies, Handles

(* An entry.                                                               *)
LEMMA EntryIs ==
  ASSUME NEW e \in Entry
  PROVE  /\ e.slot \in Slot /\ e.idx \in Indices /\ e.idx \in Nat /\ e.pos \in Places
         /\ e.slot.sid \in Sessions
BY NumbersOK DEF Entry, Slot

(* The plan of a thread.                                                   *)
LEMMA PlanIs ==
  ASSUME NEW t \in Thread, ThreadOK(t)
  PROVE  /\ Numbered(t.plan) /\ t.plan \in SUBSET Entry
         /\ \A e \in t.plan : /\ e \in Entry /\ e.slot.sid \in Sids(t.body)
                              /\ e.pos \in DOMAIN t.body /\ e.slot = SlotOf(t.body[e.pos])
         /\ \A e, f \in t.plan : e.slot.sid = f.slot.sid => e = f
<1>1. t.body \in Posted /\ t.plan \in SUBSET Entry
  BY DEF Thread
<1>2. CASE t.plan = {}
  <2>1. Numbered({})
    BY FS_EmptySet DEF Numbered
  <2> QED BY <1>2, <2>1
<1>3. CASE t.plan = Planned(t.body)
  <2>1. /\ Numbered(t.plan)
        /\ \A e \in t.plan : e.pos \in DOMAIN t.body /\ e.slot = SlotOf(t.body[e.pos])
        /\ \A e, f \in t.plan : e.slot.sid = f.slot.sid => e = f
    BY <1>1, <1>3, PlannedOK
  <2>2. \A e \in t.plan : e.slot.sid \in Sids(t.body)
    <3> TAKE e \in t.plan
    <3>1. \A m : SlotOf(m).sid = m.sid
      BY DEF SlotOf
    <3>2. e.slot.sid = t.body[e.pos].sid
      BY <2>1, <3>1
    <3> QED BY <2>1, <3>2 DEF Sids
  <2> QED BY <1>1, <2>1, <2>2
<1> QED BY <1>2, <1>3 DEF ThreadOK

(* The entry with a number.                                                *)
LEMMA NthIs ==
  ASSUME NEW r \in Requests, thr[r] \in Thread, ThreadOK(thr[r]),
         NEW n \in Nat, n < Cardinality(Plan(r))
  PROVE  /\ Nth(r, n) \in Plan(r) /\ Nth(r, n) \in Entry /\ Nth(r, n).idx = n
         /\ \A e \in Plan(r) : e.idx = n => e = Nth(r, n)
<1>1. Numbered(Plan(r)) /\ Plan(r) \in SUBSET Entry
  BY PlanIs DEF Plan
<1>2. n \in 0 .. (Cardinality(Plan(r)) - 1)
  <2> DEFINE c == Cardinality(Plan(r))
  <2>1. c \in Nat /\ n < c
    BY <1>1 DEF Numbered
  <2> HIDE DEF c
  <2>2. n \in 0 .. (c - 1)
    BY <2>1
  <2> QED BY <2>2 DEF c
<1>3. \E e \in Plan(r) : e.idx = n
  BY <1>1, <1>2 DEF Numbered
<1>4. Nth(r, n) \in Plan(r) /\ Nth(r, n).idx = n
  BY <1>3 DEF Nth
<1> QED BY <1>1, <1>4 DEF Numbered

(* A thread goes on: its plan stays once it is made, and what it has       *)
(* opened stays opened.                                                    *)
Past(t, i) == i < t.at \/ (i = t.at /\ t.pc \in {"write", "unwind", "over"})
Onward(t, u) ==
  /\ t.plan = u.plan \/ t.plan = {}
  /\ \A i \in Nat : Past(t, i) => Past(u, i)

(* A step in which no file gets a name and no data change.                 *)
Shrinks ==
  /\ landed' = landed /\ data' = data /\ Files'
  /\ \A s \in Slot, i \in Indices : staging'[s][i] \in {None, staging[s][i]}
StillKept ==
  \A q \in Requests : \A e \in thr[q].plan :
    /\ staging'[e.slot][e.idx] # None /\ staging'[e.slot][e.idx].req = q
    /\ Kept(thr[q], e) /\ Past(thr[q], e.idx)
    => Kept(thr'[q], e)
ThreadsOn ==
  /\ thr' \in [Requests -> Thread]
  /\ \A q \in Requests : /\ ThreadOK(thr'[q]) /\ Onward(thr[q], thr'[q])
                         /\ thr'[q].fd = None \/ thr'[q] = thr[q]

(* A file was opened when its thread is past its index.                    *)
LEMMA OpenedIs ==
  ASSUME NEW f
  PROVE  /\ Opened(f) <=> Past(thr[f.req], f.idx)
         /\ Opened(f)' <=> Past(thr'[f.req], f.idx)
BY DEF Opened, Past

(* A file is some request's.                                               *)
LEMMA InodeIs ==
  ASSUME NEW f \in Inode
  PROVE  f.req \in Requests /\ f.idx \in Indices /\ f.idx \in Nat /\ f # None
BY NumbersOK, NoneAssumption DEF Inode

(* Such a step keeps the invariant when its threads go on and the stages   *)
(* are still kept.                                                         *)
LEMMA BaseShrinks ==
  ASSUME Base, Shrinks, ThreadsOn, StillKept, up' \in BOOLEAN,
         counted' \in [accepted : Nat, rejected : Nat]
  PROVE  Base'
<1>1. /\ Files /\ thr \in [Requests -> Thread] /\ Files'
  BY TypeIs DEF Base, Shrinks
<1>2. TypeOK'
  BY <1>1, TypeIs DEF ThreadsOn, TypeOK, Thread, Files, Posted, Replies, Handles
<1>3. ThreadsOK'
  BY DEF ThreadsOn, ThreadsOK
<1>4. NamesOK'
  BY DEF NamesOK, Base, Shrinks
<1>5. ASSUME NEW f \in Inode, Opened(f)
      PROVE  Opened(f)'
  <2>1. f.req \in Requests /\ f.idx \in Nat
    BY InodeIs
  <2>2. Onward(thr[f.req], thr'[f.req])
    BY <2>1 DEF ThreadsOn
  <2> QED BY <1>5, <2>1, <2>2, OpenedIs DEF Onward
<1>6. OpenedOK'
  <2>1. \A s \in Slot : landed'[s] # None => Opened(landed[s])'
    BY <1>1, <1>5 DEF Base, OpenedOK, Shrinks, Files
  <2>2. ASSUME NEW s \in Slot, NEW i \in Indices, staging'[s][i] # None
        PROVE  Opened(staging[s][i])'
    <3>1. staging'[s][i] = staging[s][i] /\ staging[s][i] \in Inode /\ Opened(staging[s][i])
      BY <1>1, <2>2 DEF Base, OpenedOK, Shrinks, Files
    <3>2. \A f \in Inode : Opened(f) => Opened(f)'
      BY <1>5
    <3> PICK f \in Inode : f = staging[s][i]
      BY <3>1
    <3>3. Opened(f)' /\ f = staging'[s][i]
      BY <3>1, <3>2
    <3> QED BY <3>3 DEF Opened
  <2>3. ASSUME NEW r \in Requests, thr'[r].fd # None
        PROVE  Opened(thr[r].fd)'
    <3>1. thr'[r].fd = thr[r].fd /\ thr[r].fd \in Inode /\ Opened(thr[r].fd)
      BY <1>1, <2>3 DEF Base, OpenedOK, ThreadsOn, Thread, Handles
    <3> PICK f \in Inode : f = thr[r].fd
      BY <3>1
    <3>2. Opened(f)' /\ f = thr'[r].fd
      BY <1>5, <3>1
    <3> QED BY <3>2 DEF Opened
  <2> QED BY <2>1, <2>2, <2>3 DEF OpenedOK
<1>7. HomeOK'
  <2>1. ASSUME NEW f \in Inode, NEW s \in Slot, PlannedFor(f, s)
        PROVE  PlannedFor(f, s)'
    <3>1. data'[f] = data[f]
      BY DEF Shrinks
    <3>2. SUFFICES ASSUME data[f] \in Text
                   PROVE  \E e \in thr'[data[f].req].plan : e.slot = s /\ e.pos = data[f].pos
      BY <3>1 DEF PlannedFor, Plan
    <3>3. PICK e \in thr[data[f].req].plan : e.slot = s /\ e.pos = data[f].pos
      BY <2>1, <3>2 DEF PlannedFor, Plan
    <3>4. data[f].req \in Requests
      BY <3>2 DEF Text
    <3>5. e \in thr'[data[f].req].plan
      BY <3>3, <3>4 DEF ThreadsOn, Onward
    <3> QED BY <3>3, <3>5
  <2>2. \A s \in Slot : landed'[s] # None => PlannedFor(landed[s], s)'
    <3> TAKE s \in Slot
    <3> HAVE landed'[s] # None
    <3>1. landed[s] \in Inode /\ landed'[s] = landed[s] /\ PlannedFor(landed[s], s)
      BY <1>1 DEF Base, HomeOK, Shrinks, Files
    <3> PICK f \in Inode : f = landed[s]
      BY <3>1
    <3>2. PlannedFor(f, s)' /\ landed'[s] = f
      BY <2>1, <3>1
    <3> QED BY <3>2 DEF PlannedFor
  <2>3. \A s \in Slot, i \in Indices : staging'[s][i] # None => PlannedFor(staging[s][i], s)'
    <3> TAKE s \in Slot, i \in Indices
    <3> HAVE staging'[s][i] # None
    <3>1. staging[s][i] \in Inode /\ staging'[s][i] = staging[s][i] /\ PlannedFor(staging[s][i], s)
      BY <1>1 DEF Base, HomeOK, Shrinks, Files
    <3> PICK f \in Inode : f = staging[s][i]
      BY <3>1
    <3>2. PlannedFor(f, s)' /\ staging'[s][i] = f
      BY <2>1, <3>1
    <3> QED BY <3>2 DEF PlannedFor
  <2>4. ASSUME NEW r \in Requests, thr'[r].fd # None, NEW s \in Slot,
               landed'[s] = thr'[r].fd \/ \E i \in Indices : staging'[s][i] = thr'[r].fd
        PROVE  s = (Nth(r, thr[r].at).slot)'
    <3>1. thr'[r] = thr[r]
      BY <2>4 DEF ThreadsOn
    <3>2. landed[s] = thr[r].fd \/ \E i \in Indices : staging[s][i] = thr[r].fd
      BY <2>4, <3>1 DEF Shrinks
    <3>3. s = Nth(r, thr[r].at).slot
      BY <2>4, <3>1, <3>2 DEF Base, HomeOK
    <3> QED BY <3>1, <3>3 DEF Nth, Plan
  <2> QED BY <2>2, <2>3, <2>4 DEF HomeOK
<1>8. StagesOK'
  <2> SUFFICES ASSUME NEW s \in Slot, NEW i \in Indices, staging'[s][i] # None
               PROVE  /\ staging'[s][i].idx = i
                      /\ \E e \in thr'[staging'[s][i].req].plan :
                           e.slot = s /\ e.idx = i /\ Kept(thr'[staging'[s][i].req], e)
    BY DEF StagesOK, Plan
  <2> DEFINE f == staging[s][i]
             q == f.req
  <2>1. staging'[s][i] = f /\ f \in Inode /\ f # None
    BY <1>1 DEF Shrinks, Files
  <2>2. f.idx = i /\ Opened(f)
    BY <2>1 DEF Base, StagesOK, OpenedOK
  <2>3. PICK e \in thr[q].plan : e.slot = s /\ e.idx = i /\ Kept(thr[q], e)
    BY <2>1 DEF Base, StagesOK, Plan
  <2>4. q \in Requests /\ Past(thr[q], e.idx)
    BY <2>1, <2>2, <2>3, InodeIs, OpenedIs
  <2>5. Kept(thr'[q], e)
    BY <2>1, <2>3, <2>4 DEF StillKept
  <2>6. e \in thr'[q].plan
    BY <2>3, <2>4 DEF ThreadsOn, Onward
  <2> QED BY <2>1, <2>2, <2>3, <2>5, <2>6
<1> QED BY <1>2, <1>3, <1>4, <1>6, <1>7, <1>8 DEF Base

(* The lone thread that takes a step.                                      *)
LEMMA OneThread ==
  ASSUME thr \in [Requests -> Thread], NEW r \in Requests, NEW u \in Thread,
         thr' = [thr EXCEPT ![r] = u], ThreadsOK, ThreadOK(u), Onward(thr[r], u), u.fd = None
  PROVE  ThreadsOn /\ thr'[r] = u /\ \A q \in Requests \ {r} : thr'[q] = thr[q]
<1>1. thr' \in [Requests -> Thread] /\ thr'[r] = u /\ \A q \in Requests \ {r} : thr'[q] = thr[q]
  OBVIOUS
<1>2. \A q \in Requests : ThreadOK(thr[q]) /\ Onward(thr[q], thr[q])
  BY DEF ThreadsOK, Onward
<1>3. ThreadsOn
  BY <1>1, <1>2 DEF ThreadsOn
<1> QED BY <1>1, <1>3

(* What the lone thread keeps, all keep.                                   *)
LEMMA OneKept ==
  ASSUME NEW r \in Requests, \A q \in Requests \ {r} : thr'[q] = thr[q],
         \A e \in thr[r].plan :
           /\ staging'[e.slot][e.idx] # None /\ staging'[e.slot][e.idx].req = r
           /\ Kept(thr[r], e) /\ Past(thr[r], e.idx)
           => Kept(thr'[r], e)
  PROVE  StillKept
BY DEF StillKept

(* An arriving request has no files.                                       *)
LEMMA ArriveBase ==
  ASSUME Base, NEW r \in Requests, NEW b \in Bodies, Arrive(r, b)
  PROVE  Base'
<1> DEFINE t == thr[r]
           u == [t EXCEPT !.pc = "validate", !.body = b]
<1>1. /\ thr \in [Requests -> Thread] /\ Files /\ t \in Thread /\ ThreadOK(t) /\ t.pc = "new"
      /\ up \in BOOLEAN /\ counted \in [accepted : Nat, rejected : Nat] /\ ThreadsOK
      /\ UNCHANGED <<up, landed, staging, data, counted>>
  BY TypeIs DEF Base, Arrive, ThreadsOK
<1>2. u \in Thread /\ thr' = [thr EXCEPT ![r] = u]
  <2>1. "validate" \in PCs /\ b \in Posted
    BY DEF PCs, Posted
  <2>2. u \in Thread
    BY <1>1, <2>1 DEF Thread
  <2> QED BY <1>1, <2>2 DEF Arrive
<1>3. ThreadOK(u) /\ Onward(t, u) /\ u.fd = None
  <2>1. Cardinality({}) = 0
    BY FS_EmptySet
  <2>2. t.plan = {} /\ t.at = 0 /\ t.done = 0 /\ t.left = {} /\ t.fd = None /\ t.reply = None
    BY <1>1 DEF ThreadOK, Untouched
  <2>3. /\ u.pc = "validate" /\ u.plan = {} /\ u.at = 0 /\ u.done = 0 /\ u.left = {}
        /\ u.fd = None /\ u.reply = None
    BY <1>1, <2>2 DEF Thread
  <2> HIDE DEF u, t
  <2> QED BY <2>1, <2>2, <2>3, <1>1 DEF ThreadOK, Untouched, Onward, Past
<1>4. t.plan = {}
  BY <1>1 DEF ThreadOK, Untouched
<1> HIDE DEF u
<1>5. ThreadsOn /\ StillKept
  BY <1>1, <1>2, <1>3, <1>4, OneThread, OneKept
<1>6. Shrinks
  BY <1>1 DEF Shrinks, Files
<1> QED BY <1>1, <1>5, <1>6, BaseShrinks

(* The end of a thread, with an answer.                                    *)
Ended(t, code) == [t EXCEPT !.pc = "over", !.reply = code]
(* Answer changes one thread.                                              *)
LEMMA AnswerIs ==
  ASSUME thr \in [Requests -> Thread], NEW r \in Requests, NEW code, Answer(r, code)
  PROVE  thr' = [thr EXCEPT ![r] = Ended(thr[r], code)]
BY DEF Answer, Ended

(* A thread that answers is over, and no more has changed of it.           *)
LEMMA AnswerOK ==
  ASSUME NEW t \in Thread, ThreadOK(t), t.pc \in {"validate", "stage", "unwind"},
         NEW code \in {200, 400, 500}, NEW u, u = Ended(t, code)
  PROVE  /\ u \in Thread /\ ThreadOK(u) /\ Onward(t, u) /\ u.fd = None
         /\ u.plan = t.plan /\ u.at = t.at /\ u.done = t.done /\ u.pc = "over" /\ u.faults = t.faults
         /\ u.reply = code /\ u.body = t.body /\ u.left = t.left
<1>1. u \in Thread
  <2>1. "over" \in PCs /\ code \in Replies
    BY DEF PCs, Replies
  <2> QED BY <2>1 DEF Thread, Ended
<1>2. /\ u.plan = t.plan /\ u.at = t.at /\ u.done = t.done /\ u.pc = "over" /\ u.faults = t.faults
      /\ u.reply = code /\ u.body = t.body /\ u.left = t.left /\ u.fd = t.fd
  BY DEF Thread, Ended
<1>3. t.fd = None
  BY DEF ThreadOK
<1>4. ThreadOK(u)
  BY <1>2, <1>3 DEF ThreadOK
<1>5. Onward(t, u)
  BY <1>2, <1>3 DEF Onward, Past
<1> QED BY <1>1, <1>2, <1>3, <1>4, <1>5

(* Validation answers an error or makes the plan.                          *)
LEMMA ValidateBase ==
  ASSUME Base, NEW r \in Requests, Validate(r)
  PROVE  Base'
<1> DEFINE t == thr[r]
<1>1. /\ thr \in [Requests -> Thread] /\ Files /\ t \in Thread /\ ThreadOK(t) /\ t.pc = "validate"
      /\ up \in BOOLEAN /\ counted \in [accepted : Nat, rejected : Nat] /\ ThreadsOK
      /\ UNCHANGED <<up, landed, staging, data, counted>>
  BY TypeIs DEF Base, Validate, ThreadsOK, At
<1>2. t.plan = {} /\ t.at = 0 /\ t.done = 0 /\ t.left = {} /\ t.fd = None /\ t.reply = None
  BY <1>1 DEF ThreadOK, Untouched
<1>3. Shrinks
  BY <1>1 DEF Shrinks, Files
<1>4. ASSUME NEW u \in Thread, thr' = [thr EXCEPT ![r] = u], ThreadOK(u), Onward(t, u), u.fd = None
      PROVE  Base'
  <2>1. ThreadsOn /\ StillKept
    BY <1>1, <1>2, <1>4, OneThread, OneKept
  <2> QED BY <1>1, <1>3, <2>1, BaseShrinks
<1>5. ASSUME NEW code \in {400, 500}, Answer(r, code)
      PROVE  Base'
  <2>1. PICK u : u = Ended(t, code)
    OBVIOUS
  <2>2. thr' = [thr EXCEPT ![r] = u]
    BY <1>1, <1>5, <2>1, AnswerIs
  <2>3. t.pc \in {"validate", "stage", "unwind"} /\ code \in {200, 400, 500}
    BY <1>1
  <2>4. u \in Thread /\ ThreadOK(u) /\ Onward(t, u) /\ u.fd = None
    BY <1>1, <2>1, <2>3, AnswerOK
  <2> QED BY <1>4, <2>2, <2>4
<1>6. CASE thr' = [thr EXCEPT ![r].pc = "stage", ![r].plan = Planned(thr[r].body)]
  <2> DEFINE p == Planned(t.body)
             u == [t EXCEPT !.pc = "stage", !.plan = p]
  <2>1. p \in SUBSET Entry /\ Numbered(p)
    BY <1>1, PlannedOK DEF Thread
  <2>2. thr' = [thr EXCEPT ![r] = u]
    BY <1>1, <1>6
  <2> HIDE DEF p
  <2>3. u \in Thread
    <3>1. "stage" \in PCs
      BY DEF PCs
    <3> QED BY <1>1, <2>1, <3>1 DEF Thread
  <2>4. /\ u.pc = "stage" /\ u.plan = p /\ u.body = t.body /\ u.at = 0 /\ u.done = 0 /\ u.left = {}
        /\ u.fd = None /\ u.reply = None
    BY <1>1, <1>2 DEF Thread
  <2> HIDE DEF u
  <2>5. ThreadOK(u)
    BY <2>1, <2>4 DEF ThreadOK, Numbered, p
  <2>6. Onward(t, u)
    BY <1>1, <1>2 DEF Onward, Past
  <2> QED BY <1>4, <2>2, <2>3, <2>4, <2>5, <2>6
<1> QED BY <1>5, <1>6 DEF Validate

(* A fault: the thread goes on to unlink what it has to.                   *)
Unwinding(t, kind, left) ==
  [t EXCEPT !.pc = "unwind", !.fd = None, !.left = left, !.faults = t.faults \cup {kind}]
(* A thread with a fault unwinds, and no more has changed of it.           *)
LEMMA FaultOK ==
  ASSUME NEW t \in Thread, ThreadOK(t), t.pc \in {"stage", "write", "unwind"}, NEW kind \in Faults,
         NEW left \in SUBSET t.plan, NEW u,
         u = Unwinding(t, kind, left)
  PROVE  /\ u \in Thread /\ ThreadOK(u) /\ Onward(t, u) /\ u.fd = None
         /\ u.plan = t.plan /\ u.at = t.at /\ u.done = t.done /\ u.pc = "unwind"
         /\ u.faults = t.faults \cup {kind} /\ u.reply = t.reply /\ u.body = t.body /\ u.left = left
<1>1. t.plan \in SUBSET Entry /\ t.faults \in SUBSET Faults
  BY DEF Thread
<1>2. t.faults \cup {kind} \in SUBSET Faults /\ left \in SUBSET Entry
  BY <1>1
<1>3. u \in Thread
  <2>1. "unwind" \in PCs /\ None \in Handles
    BY DEF PCs, Handles
  <2> QED BY <1>2, <2>1 DEF Thread, Unwinding
<1>4. /\ u.plan = t.plan /\ u.at = t.at /\ u.done = t.done /\ u.pc = "unwind" /\ u.fd = None
      /\ u.faults = t.faults \cup {kind} /\ u.reply = t.reply /\ u.body = t.body /\ u.left = left
  BY DEF Thread, Unwinding
<1>5. ThreadOK(u)
  BY <1>4 DEF ThreadOK
<1>6. Onward(t, u)
  BY <1>4 DEF Onward, Past
<1> QED BY <1>3, <1>4, <1>5, <1>6

(* A fault where nothing else happens.                                     *)
LEMMA FaultBase ==
  ASSUME Base, NEW r \in Requests, thr[r].pc \in {"stage", "write", "unwind"}, NEW kind \in Faults,
         NEW left \in SUBSET thr[r].plan, Fault(r, kind, left),
         UNCHANGED <<up, landed, staging, data, counted>>,
         \A e \in thr[r].plan : Kept(thr[r], e) /\ Past(thr[r], e.idx) =>
                                  e \in left \/ kind \in {"write", "unlink"}
  PROVE  Base'
<1> DEFINE t == thr[r]
<1>1. /\ thr \in [Requests -> Thread] /\ Files /\ t \in Thread /\ ThreadOK(t) /\ ThreadsOK
      /\ up \in BOOLEAN /\ counted \in [accepted : Nat, rejected : Nat]
  BY TypeIs DEF Base, ThreadsOK
<1>0. PICK u : u = Unwinding(t, kind, left)
  OBVIOUS
<1>2. thr' = [thr EXCEPT ![r] = u]
  BY <1>0, <1>1 DEF Fault, Unwinding
<1>3. /\ u \in Thread /\ ThreadOK(u) /\ Onward(t, u) /\ u.fd = None
      /\ u.pc = "unwind" /\ u.faults = t.faults \cup {kind} /\ u.left = left
  BY <1>0, <1>1, FaultOK
<1>4. \A e \in t.plan : Kept(t, e) /\ Past(t, e.idx) => Kept(u, e)
  BY <1>3 DEF Kept
<1>5. ThreadsOn /\ StillKept
  <2>1. ThreadsOn /\ thr'[r] = u /\ \A q \in Requests \ {r} : thr'[q] = thr[q]
    BY <1>1, <1>2, <1>3, OneThread
  <2> QED BY <1>4, <2>1, OneKept
<1>6. Shrinks
  BY <1>1 DEF Shrinks, Files
<1> QED BY <1>1, <1>5, <1>6, BaseShrinks

(* Once opened, opened.                                                    *)
LEMMA OpenedStays ==
  ASSUME \A q \in Requests : Onward(thr[q], thr'[q]), NEW f \in Inode, Opened(f)
  PROVE  Past(thr'[f.req], f.idx)
BY InodeIs, OpenedIs DEF Onward

(* What is planned stays planned.                                          *)
LEMMA PlannedStays ==
  ASSUME \A q \in Requests : Onward(thr[q], thr'[q]), NEW f \in Inode, NEW s,
         data'[f] = data[f], PlannedFor(f, s)
  PROVE  PlannedFor(f, s)'
<1>1. SUFFICES ASSUME data[f] \in Text
               PROVE  \E e \in thr'[data[f].req].plan : e.slot = s /\ e.pos = data[f].pos
  BY DEF PlannedFor, Plan
<1>2. PICK e \in thr[data[f].req].plan : e.slot = s /\ e.pos = data[f].pos
  BY <1>1 DEF PlannedFor, Plan
<1>3. data[f].req \in Requests
  BY <1>1 DEF Text
<1>4. e \in thr'[data[f].req].plan
  BY <1>2, <1>3 DEF Onward
<1> QED BY <1>2, <1>4

(* The state of a thread that opens, writes or renames.                    *)
LEMMA StageIs ==
  ASSUME Base, NEW r \in Requests, thr[r].pc \in {"stage", "write"}
  PROVE  /\ thr[r] \in Thread /\ ThreadOK(thr[r]) /\ Plan(r) = thr[r].plan
         /\ thr[r].at \in Nat /\ thr[r].done \in Nat /\ Cardinality(Plan(r)) \in Nat
         /\ thr[r].at # Cardinality(Plan(r)) =>
              /\ Nth(r, thr[r].at) \in Plan(r) /\ Nth(r, thr[r].at) \in Entry
              /\ Nth(r, thr[r].at).idx = thr[r].at /\ thr[r].done = 0
              /\ thr[r].at < Cardinality(Plan(r))
              /\ \A e \in Plan(r) : e.idx = thr[r].at => e = Nth(r, thr[r].at)
         /\ thr[r].done # Cardinality(Plan(r)) =>
              /\ Nth(r, thr[r].done) \in Plan(r) /\ Nth(r, thr[r].done) \in Entry
              /\ Nth(r, thr[r].done).idx = thr[r].done
              /\ thr[r].done < Cardinality(Plan(r))
              /\ \A e \in Plan(r) : e.idx = thr[r].done => e = Nth(r, thr[r].done)
<1>1. thr[r] \in Thread /\ ThreadOK(thr[r])
  BY TypeIs DEF Base, ThreadsOK
<1>2. Numbered(Plan(r)) /\ Plan(r) = thr[r].plan
  BY <1>1, PlanIs DEF Plan
<1> DEFINE c == Cardinality(Plan(r))
           a == thr[r].at
           d == thr[r].done
<1>3. c \in Nat /\ a \in Nat /\ d \in Nat /\ a <= c /\ d <= c /\ (d > 0 => a = c)
  BY <1>1, <1>2 DEF Numbered, Thread, ThreadOK
<1> HIDE DEF c, a, d
<1>4. /\ a # c => a < c /\ d = 0
      /\ d # c => d < c
  BY <1>3
<1>5. \A n \in Nat : n < Cardinality(Plan(r)) =>
        /\ Nth(r, n) \in Plan(r) /\ Nth(r, n) \in Entry /\ Nth(r, n).idx = n
        /\ \A e \in Plan(r) : e.idx = n => e = Nth(r, n)
  BY <1>1, NthIs
<1> QED BY <1>1, <1>2, <1>3, <1>4, <1>5 DEF c, a, d

(* The stages the except clause unlinks are all those the thread has       *)
(* opened and closed.                                                      *)
LEMMA StagedIs ==
  ASSUME Base, NEW r \in Requests, thr[r].pc = "stage"
  PROVE  /\ Staged(r) \in SUBSET thr[r].plan
         /\ \A e \in thr[r].plan : Past(thr[r], e.idx) => e \in Staged(r)
BY DEF Staged, Plan, Past

(* Opening a stage names a new file after the request and the index, or    *)
(* empties the one that has the name.                                      *)
LEMMA OpenBase ==
  ASSUME Base, NEW r \in Requests, Open(r)
  PROVE  Base'
<1> DEFINE t == thr[r]
           e == Nth(r, t.at)
<1>1. /\ thr \in [Requests -> Thread] /\ Files /\ t.pc = "stage" /\ t.at # Cardinality(Plan(r))
      /\ up \in BOOLEAN /\ counted \in [accepted : Nat, rejected : Nat] /\ ThreadsOK
      /\ UNCHANGED <<up, landed, counted>>
  BY TypeIs DEF Base, Open, At
<1>2. /\ t \in Thread /\ ThreadOK(t) /\ Plan(r) = t.plan /\ t.at \in Nat
      /\ e \in t.plan /\ e \in Entry /\ e.idx = t.at /\ t.done = 0 /\ t.at < Cardinality(t.plan)
  BY <1>1, StageIs
<1>3. e.slot \in Slot /\ e.idx \in Indices /\ e.idx \in Nat
  BY <1>2, EntryIs
<1>4. CASE Fault(r, "open", Staged(r)) /\ UNCHANGED <<staging, data>>
  <2>1. "open" \in Faults /\ t.pc \in {"stage", "write", "unwind"}
    BY <1>1 DEF Faults
  <2>2. /\ Staged(r) \in SUBSET t.plan
        /\ \A x \in t.plan : Past(t, x.idx) => x \in Staged(r)
    BY <1>1, StagedIs
  <2> QED BY <1>1, <1>4, <2>1, <2>2, FaultBase
<1>5. ASSUME NEW f, f = (IF staging[e.slot][e.idx] = None THEN [req |-> r, idx |-> e.idx]
                                                          ELSE staging[e.slot][e.idx]),
             staging' = [staging EXCEPT ![e.slot][e.idx] = f],
             data' = [data EXCEPT ![f] = Empty],
             thr' = [thr EXCEPT ![r].pc = "write", ![r].fd = f]
      PROVE  Base'
  <2> DEFINE u == [t EXCEPT !.pc = "write", !.fd = f]
  <2>1. f \in Inode /\ f # None
    BY <1>1, <1>3, <1>5, NoneAssumption DEF Files, Inode
  <2>2. thr' = [thr EXCEPT ![r] = u]
    BY <1>1, <1>5
  <2>3. /\ u.pc = "write" /\ u.fd = f /\ u.plan = t.plan /\ u.body = t.body /\ u.at = t.at
        /\ u.done = t.done /\ u.left = t.left /\ u.reply = t.reply /\ u.faults = t.faults
    BY <1>2 DEF Thread
  <2>4. u \in Thread
    <3>1. "write" \in PCs /\ f \in Handles
      BY <2>1 DEF PCs, Handles
    <3> QED BY <1>2, <3>1 DEF Thread
  <2> HIDE DEF u
  <2>5. ThreadOK(u)
    BY <1>1, <1>2, <2>1, <2>3 DEF ThreadOK
  <2>6. /\ thr' \in [Requests -> Thread] /\ thr'[r] = u /\ \A q \in Requests \ {r} : thr'[q] = thr[q]
        /\ \A q \in Requests : Onward(thr[q], thr'[q]) /\ ThreadOK(thr'[q]) /\ thr'[q].plan = thr[q].plan
    <3>1. Onward(t, u)
      BY <1>1, <2>3 DEF Onward, Past
    <3>2. \A q \in Requests : Onward(thr[q], thr[q]) /\ ThreadOK(thr[q])
      BY <1>1 DEF Onward, ThreadsOK
    <3> QED BY <1>1, <2>2, <2>3, <2>4, <2>5, <3>1, <3>2
  <2>7. \A s \in Slot, i \in Indices :
          staging'[s][i] = IF s = e.slot /\ i = e.idx THEN f ELSE staging[s][i]
    BY <1>1, <1>3, <1>5 DEF Files
  <2>8. Files'
    <3>1. data' \in [Inode -> Text \cup {Empty, Mixed}]
      BY <1>1, <1>5, <2>1 DEF Files
    <3>2. staging' \in [Slot -> [Indices -> Inode \cup {None}]]
      BY <1>1, <1>3, <1>5, <2>1 DEF Files
    <3> QED BY <1>1, <3>1, <3>2 DEF Files
  <2>9. /\ data'[f] = Empty /\ \A g \in Inode : g # f => data'[g] = data[g]
    BY <1>1, <1>5, <2>1 DEF Files
  <2> DEFINE fresh == staging[e.slot][e.idx] = None
  <2>10. fresh => /\ f.req = r /\ f.idx = e.idx
                  /\ \A s \in Slot : landed[s] # f
                  /\ \A s \in Slot, i \in Indices : staging[s][i] # f
                  /\ \A q \in Requests : thr[q].fd # f
    <3> SUFFICES ASSUME fresh
                 PROVE  /\ f.req = r /\ f.idx = e.idx
                        /\ \A s \in Slot : landed[s] # f
                        /\ \A s \in Slot, i \in Indices : staging[s][i] # f
                        /\ \A q \in Requests : thr[q].fd # f
      OBVIOUS
    <3>1. f.req = r /\ f.idx = e.idx
      BY <1>5
    <3>2. ~Opened(f)
      BY <1>1, <1>2, <3>1, OpenedIs DEF Past
    <3> QED BY <2>1, <3>1, <3>2 DEF Base, OpenedOK
  <2>11. ~fresh => /\ staging[e.slot][e.idx] = f
                   /\ \A s \in Slot, i \in Indices : staging'[s][i] = staging[s][i]
    BY <1>5, <2>7
  <2> HIDE DEF fresh, e, t
  <2>12. NamesOK'
    <3>1. CASE fresh
      <4>1. \A s, x \in Slot : landed'[s] # None /\ landed'[s] = landed'[x] => s = x
        BY <1>1 DEF Base, NamesOK
      <4>2. \A s, x \in Slot, i, j \in Indices :
              staging'[s][i] # None /\ staging'[s][i] = staging'[x][j] => s = x /\ i = j
        BY <2>7, <2>10, <3>1 DEF Base, NamesOK
      <4>3. \A s, x \in Slot, j \in Indices : landed'[s] # None => landed'[s] # staging'[x][j]
        BY <1>1, <2>7, <2>10, <3>1 DEF Base, NamesOK
      <4> QED BY <4>1, <4>2, <4>3 DEF NamesOK
    <3>2. CASE ~fresh
      BY <1>1, <2>11, <3>2 DEF Base, NamesOK
    <3> QED BY <3>1, <3>2
  <2>13. ASSUME NEW g \in Inode, Opened(g)
         PROVE  Opened(g)'
    <3>1. Past(thr'[g.req], g.idx)
      BY <2>6, <2>13, OpenedStays
    <3> QED BY <3>1, OpenedIs
  <2>14. Opened(f)'
    <3>1. CASE fresh
      BY <1>2, <2>3, <2>6, <2>10, <3>1, OpenedIs DEF Past
    <3>2. CASE ~fresh
      <4>1. Opened(f)
        BY <1>3, <2>1, <2>11, <3>2 DEF Base, OpenedOK
      <4> QED BY <2>1, <2>13, <4>1
    <3> QED BY <3>1, <3>2
  <2>15. OpenedOK'
    <3>1. \A s \in Slot : landed'[s] # None => Opened(landed[s])'
      <4> TAKE s \in Slot
      <4> HAVE landed'[s] # None
      <4>1. landed[s] \in Inode /\ Opened(landed[s])
        BY <1>1 DEF Base, OpenedOK, Files
      <4> PICK g \in Inode : g = landed[s]
        BY <4>1
      <4>2. Opened(g)' /\ landed'[s] = g
        BY <1>1, <2>13, <4>1
      <4> QED BY <4>2 DEF Opened
    <3>2. \A s \in Slot, i \in Indices : staging'[s][i] # None => Opened(staging[s][i])'
      <4> TAKE s \in Slot, i \in Indices
      <4> HAVE staging'[s][i] # None
      <4>1. CASE staging'[s][i] = f
        BY <2>14, <4>1 DEF Opened
      <4>2. CASE staging'[s][i] = staging[s][i]
        <5>1. staging[s][i] \in Inode /\ Opened(staging[s][i])
          BY <1>1, <4>2 DEF Base, OpenedOK, Files
        <5> PICK g \in Inode : g = staging[s][i]
          BY <5>1
        <5>2. Opened(g)' /\ staging'[s][i] = g
          BY <2>13, <4>2, <5>1
        <5> QED BY <5>2 DEF Opened
      <4> QED BY <2>7, <4>1, <4>2
    <3>3. \A q \in Requests : thr'[q].fd # None => Opened(thr[q].fd)'
      <4> TAKE q \in Requests
      <4> HAVE thr'[q].fd # None
      <4>1. CASE q = r
        BY <2>3, <2>6, <2>14, <4>1 DEF Opened
      <4>2. CASE q # r
        <5>1. thr[q].fd \in Inode /\ Opened(thr[q].fd) /\ thr'[q].fd = thr[q].fd
          BY <1>1, <2>6, <4>2 DEF Base, OpenedOK, Thread, Handles
        <5> PICK g \in Inode : g = thr[q].fd
          BY <5>1
        <5>2. Opened(g)' /\ thr'[q].fd = g
          BY <2>13, <5>1
        <5> QED BY <5>2 DEF Opened
      <4> QED BY <4>1, <4>2
    <3> QED BY <3>1, <3>2, <3>3 DEF OpenedOK
  <2>16. HomeOK'
    <3>1. ASSUME NEW g \in Inode, NEW s, PlannedFor(g, s)
          PROVE  PlannedFor(g, s)'
      <4>1. CASE g = f
        <5>1. Empty \notin Text
          BY NoneAssumption
        <5> QED BY <2>9, <4>1, <5>1 DEF PlannedFor
      <4>2. CASE g # f
        BY <2>6, <2>9, <3>1, <4>2, PlannedStays
      <4> QED BY <4>1, <4>2
    <3>2. \A s : PlannedFor(f, s)'
      <4>1. Empty \notin Text
        BY NoneAssumption
      <4> QED BY <2>9, <4>1 DEF PlannedFor
    <3>3. \A s \in Slot : landed'[s] # None => PlannedFor(landed[s], s)'
      <4> TAKE s \in Slot
      <4> HAVE landed'[s] # None
      <4>1. landed[s] \in Inode /\ PlannedFor(landed[s], s)
        BY <1>1 DEF Base, HomeOK, Files
      <4> PICK g \in Inode : g = landed[s]
        BY <4>1
      <4>2. PlannedFor(g, s)' /\ landed'[s] = g
        BY <1>1, <3>1, <4>1
      <4> QED BY <4>2 DEF PlannedFor
    <3>4. \A s \in Slot, i \in Indices : staging'[s][i] # None => PlannedFor(staging[s][i], s)'
      <4> TAKE s \in Slot, i \in Indices
      <4> HAVE staging'[s][i] # None
      <4>1. CASE staging'[s][i] = f
        BY <3>2, <4>1 DEF PlannedFor
      <4>2. CASE staging'[s][i] = staging[s][i]
        <5>1. staging[s][i] \in Inode /\ PlannedFor(staging[s][i], s)
          BY <1>1, <4>2 DEF Base, HomeOK, Files
        <5> PICK g \in Inode : g = staging[s][i]
          BY <5>1
        <5>2. PlannedFor(g, s)' /\ staging'[s][i] = g
          BY <3>1, <4>2, <5>1
        <5> QED BY <5>2 DEF PlannedFor
      <4> QED BY <2>7, <4>1, <4>2
    <3>5. ASSUME NEW q \in Requests, thr'[q].fd # None, NEW s \in Slot,
                 landed'[s] = thr'[q].fd \/ \E i \in Indices : staging'[s][i] = thr'[q].fd
          PROVE  s = (Nth(q, thr[q].at).slot)'
      <4>1. CASE q = r
        <5>1. s = e.slot
          <6>1. CASE fresh
            BY <1>1, <2>3, <2>6, <2>7, <2>10, <3>5, <4>1, <6>1
          <6>2. CASE ~fresh
            BY <1>1, <1>3, <2>1, <2>3, <2>6, <2>11, <3>5, <4>1, <6>2 DEF Base, NamesOK
          <6> QED BY <6>1, <6>2
        <5>2. (Nth(q, thr[q].at))' = e
          BY <2>3, <2>6, <4>1 DEF Nth, Plan, e, t
        <5> QED BY <5>1, <5>2
      <4>2. CASE q # r
        <5>1. thr'[q] = thr[q]
          BY <2>6, <4>2
        <5>2. landed[s] = thr[q].fd \/ \E i \in Indices : staging[s][i] = thr[q].fd
          BY <1>1, <2>7, <2>10, <2>11, <3>5, <5>1
        <5>3. s = Nth(q, thr[q].at).slot
          BY <3>5, <5>1, <5>2 DEF Base, HomeOK
        <5> QED BY <5>1, <5>3 DEF Nth, Plan
      <4> QED BY <4>1, <4>2
    <3> QED BY <3>3, <3>4, <3>5 DEF HomeOK
  <2>17. StagesOK'
    <3>1. \A q \in Requests : \A x \in thr[q].plan : Kept(thr[q], x) => Kept(thr'[q], x)
      BY <1>1, <2>3, <2>6 DEF Kept, t
    <3>2. ASSUME NEW s \in Slot, NEW i \in Indices, staging'[s][i] # None, staging'[s][i] = staging[s][i]
          PROVE  /\ staging'[s][i].idx = i
                 /\ \E x \in thr'[staging'[s][i].req].plan :
                      x.slot = s /\ x.idx = i /\ Kept(thr'[staging'[s][i].req], x)
      <4> DEFINE g == staging[s][i]
      <4>1. g \in Inode /\ g # None /\ g.req \in Requests
        BY <1>1, <3>2, InodeIs DEF Files
      <4>2. g.idx = i
        BY <4>1 DEF Base, StagesOK
      <4>3. PICK x \in thr[g.req].plan : x.slot = s /\ x.idx = i /\ Kept(thr[g.req], x)
        BY <4>1 DEF Base, StagesOK, Plan
      <4> QED BY <2>6, <3>1, <3>2, <4>1, <4>2, <4>3
    <3>3. fresh => /\ f.idx = e.idx
                   /\ \E x \in thr'[f.req].plan : x.slot = e.slot /\ x.idx = e.idx /\ Kept(thr'[f.req], x)
      <4>1. fresh => f.req = r /\ f.idx = e.idx
        BY <2>10
      <4>2. Kept(u, e)
        BY <1>2, <1>3, <2>3 DEF Kept
      <4> QED BY <1>2, <2>3, <2>6, <4>1, <4>2
    <3>4. ASSUME NEW s \in Slot, NEW i \in Indices, staging'[s][i] # None
          PROVE  /\ staging'[s][i].idx = i
                 /\ \E x \in thr'[staging'[s][i].req].plan :
                      x.slot = s /\ x.idx = i /\ Kept(thr'[staging'[s][i].req], x)
      <4>1. CASE staging'[s][i] = staging[s][i]
        BY <3>2, <3>4, <4>1
      <4>2. CASE staging'[s][i] # staging[s][i]
        <5>1. fresh /\ s = e.slot /\ i = e.idx /\ staging'[s][i] = f
          BY <2>7, <2>11, <4>2
        <5> QED BY <3>3, <5>1
      <4> QED BY <4>1, <4>2
    <3> QED BY <3>4 DEF StagesOK, Plan
  <2>18. TypeOK' /\ ThreadsOK'
    <3>1. ThreadsOK'
      BY <2>6 DEF ThreadsOK
    <3>2. TypeOK'
      BY <1>1, <2>6, <2>8 DEF TypeOK, Thread, Files, Posted, Replies, Handles
    <3> QED BY <3>1, <3>2
  <2> QED BY <2>12, <2>15, <2>16, <2>17, <2>18 DEF Base
<1> DEFINE g == IF staging[e.slot][e.idx] = None THEN [req |-> r, idx |-> e.idx]
                                                 ELSE staging[e.slot][e.idx]
<1>6. \/ /\ staging' = [staging EXCEPT ![e.slot][e.idx] = g]
         /\ data' = [data EXCEPT ![g] = Empty]
         /\ thr' = [thr EXCEPT ![r].pc = "write", ![r].fd = g]
      \/ Fault(r, "open", Staged(r)) /\ UNCHANGED <<staging, data>>
  BY DEF Open
<1> QED BY <1>4, <1>5, <1>6

(* A step that names no file anew.                                         *)
LEMMA NamesStay ==
  ASSUME Base, Files', thr' \in [Requests -> Thread],
         \A q \in Requests : Onward(thr[q], thr'[q]) /\ thr'[q].fd \in {None, thr[q].fd},
         \A s \in Slot : landed'[s] = landed[s] \/ \E i \in Indices : landed'[s] = staging[s][i],
         \A s \in Slot, i \in Indices : staging'[s][i] \in {None, staging[s][i]},
         StillKept
  PROVE  OpenedOK' /\ StagesOK'
<1>1. Files /\ thr \in [Requests -> Thread]
  BY TypeIs DEF Base
<1>2. ASSUME NEW f \in Inode, Opened(f)
      PROVE  Past(thr'[f.req], f.idx)
  BY <1>2, OpenedStays
<1>3. OpenedOK'
  <2>1. ASSUME NEW s \in Slot, landed'[s] # None
        PROVE  Past(thr'[landed'[s].req], landed'[s].idx)
    <3>1. landed'[s] \in Inode /\ Opened(landed'[s])
      BY <1>1, <2>1 DEF Base, OpenedOK, Files
    <3> QED BY <1>2, <3>1
  <2>2. ASSUME NEW s \in Slot, NEW i \in Indices, staging'[s][i] # None
        PROVE  Past(thr'[staging'[s][i].req], staging'[s][i].idx)
    <3>1. staging'[s][i] \in Inode /\ Opened(staging'[s][i])
      BY <1>1, <2>2 DEF Base, OpenedOK, Files
    <3> QED BY <1>2, <3>1
  <2>3. ASSUME NEW q \in Requests, thr'[q].fd # None
        PROVE  Past(thr'[thr'[q].fd.req], thr'[q].fd.idx)
    <3>1. thr'[q].fd \in Inode /\ Opened(thr'[q].fd)
      BY <1>1, <2>3 DEF Base, OpenedOK, Thread, Handles
    <3> QED BY <1>2, <3>1
  <2> QED BY <2>1, <2>2, <2>3 DEF OpenedOK, Opened, Past
<1>4. ASSUME NEW s \in Slot, NEW i \in Indices, staging'[s][i] # None
      PROVE  /\ staging'[s][i].idx = i
             /\ \E x \in thr'[staging'[s][i].req].plan :
                  x.slot = s /\ x.idx = i /\ Kept(thr'[staging'[s][i].req], x)
  <2> DEFINE f == staging[s][i]
             q == f.req
  <2>1. staging'[s][i] = f /\ f \in Inode /\ f # None
    BY <1>1, <1>4 DEF Files
  <2>2. f.idx = i /\ Opened(f)
    BY <2>1 DEF Base, StagesOK, OpenedOK
  <2>3. PICK x \in thr[q].plan : x.slot = s /\ x.idx = i /\ Kept(thr[q], x)
    BY <2>1 DEF Base, StagesOK, Plan
  <2>4. q \in Requests /\ Past(thr[q], x.idx)
    BY <2>1, <2>2, <2>3, InodeIs, OpenedIs
  <2>5. Kept(thr'[q], x)
    BY <2>1, <2>3, <2>4 DEF StillKept
  <2>6. x \in thr'[q].plan
    BY <2>3, <2>4 DEF Onward
  <2> QED BY <2>1, <2>2, <2>3, <2>5, <2>6
<1> QED BY <1>3, <1>4 DEF StagesOK, Plan

(* Closing a stage leaves a text there that was planned for its name, or a *)
(* mixture.                                                                *)
LEMMA WriteBase ==
  ASSUME Base, NEW r \in Requests, Write(r)
  PROVE  Base'
<1> DEFINE t == thr[r]
           e == Nth(r, t.at)
<1>1. /\ thr \in [Requests -> Thread] /\ Files /\ t.pc = "write"
      /\ up \in BOOLEAN /\ counted \in [accepted : Nat, rejected : Nat] /\ ThreadsOK
      /\ UNCHANGED <<up, landed, staging, counted>>
  BY TypeIs DEF Base, Write, At
<1>2. /\ t \in Thread /\ ThreadOK(t) /\ Plan(r) = t.plan /\ t.at \in Nat /\ t.done \in Nat
      /\ Cardinality(t.plan) \in Nat
  BY <1>1, StageIs
<1>3. t.at < Cardinality(t.plan) /\ t.fd \in Inode /\ t.fd # None
  BY <1>1, <1>2 DEF ThreadOK, Thread, Handles
<1>4. t.at # Cardinality(Plan(r))
  BY <1>2, <1>3
<1>5. /\ e \in t.plan /\ e \in Entry /\ e.idx = t.at /\ t.done = 0
      /\ e.pos \in Places
  BY <1>1, <1>2, <1>4, StageIs, EntryIs
<1>6. CASE Fault(r, "write", Staged(r)) /\ data' = data
  <2>1. /\ "write" \in Faults /\ t.pc \in {"stage", "write", "unwind"} /\ Staged(r) \in SUBSET t.plan
    BY <1>1, <1>2 DEF Faults, Staged
  <2> QED BY <1>1, <1>6, <2>1, FaultBase
<1>7. ASSUME NEW d \in {[req |-> r, pos |-> e.pos], Mixed}, data' = [data EXCEPT ![t.fd] = d],
             thr' = [thr EXCEPT ![r].pc = "stage", ![r].fd = None, ![r].at = @ + 1]
      PROVE  Base'
  <2> DEFINE u == [t EXCEPT !.pc = "stage", !.fd = None, !.at = t.at + 1]
             f == t.fd
  <2>1. thr' = [thr EXCEPT ![r] = u]
    BY <1>1, <1>7
  <2>2. /\ u.pc = "stage" /\ u.fd = None /\ u.plan = t.plan /\ u.body = t.body /\ u.at = t.at + 1
        /\ u.done = t.done /\ u.left = t.left /\ u.reply = t.reply /\ u.faults = t.faults
    BY <1>2 DEF Thread
  <2>3. u \in Thread
    <3>1. "stage" \in PCs /\ None \in Handles /\ t.at + 1 \in Nat
      BY <1>2 DEF PCs, Handles
    <3> QED BY <1>2, <3>1 DEF Thread
  <2> HIDE DEF u
  <2>4. ThreadOK(u)
    <3>1. t.at + 1 <= Cardinality(t.plan)
      BY <1>2, <1>3
    <3> QED BY <1>1, <1>2, <1>5, <2>2, <3>1 DEF ThreadOK
  <2>5. Onward(t, u)
    BY <1>1, <1>2, <2>2 DEF Onward, Past
  <2>6. /\ thr' \in [Requests -> Thread] /\ thr'[r] = u /\ \A q \in Requests \ {r} : thr'[q] = thr[q]
        /\ ThreadsOn
    BY <1>1, <2>1, <2>2, <2>3, <2>4, <2>5, OneThread
  <2>8. StillKept
    BY <1>1, <2>2, <2>6, OneKept DEF Kept
  <2>9. d \in Text \cup {Mixed} /\ data' \in [Inode -> Text \cup {Empty, Mixed}]
        /\ data'[f] = d /\ \A g \in Inode : g # f => data'[g] = data[g]
    BY <1>1, <1>3, <1>5, <1>7 DEF Text, Files
  <2>10. Files'
    BY <1>1, <2>9 DEF Files
  <2>11. OpenedOK' /\ StagesOK'
    BY <1>1, <2>6, <2>8, <2>10, NamesStay DEF ThreadsOn
  <2>12. NamesOK'
    BY <1>1 DEF Base, NamesOK
  <2> HIDE DEF f, e, t
  <2>13. HomeOK'
    <3>1. ASSUME NEW g \in Inode, NEW s \in Slot, PlannedFor(g, s),
                 g = f => s = e.slot
          PROVE  PlannedFor(g, s)'
      <4>1. CASE g = f
        <5> SUFFICES ASSUME d \in Text
                     PROVE  \E x \in thr'[d.req].plan : x.slot = s /\ x.pos = d.pos
          BY <2>9, <4>1 DEF PlannedFor, Plan
        <5>1. d = [req |-> r, pos |-> e.pos]
          BY <1>7, NoneAssumption DEF e, t
        <5> QED BY <1>5, <2>2, <2>6, <3>1, <4>1, <5>1
      <4>2. CASE g # f
        BY <2>6, <2>9, <3>1, <4>2, PlannedStays DEF ThreadsOn
      <4> QED BY <4>1, <4>2
    <3>2. \A s \in Slot : (landed[s] = f \/ \E i \in Indices : staging[s][i] = f) => s = e.slot
      BY <1>3 DEF Base, HomeOK, f, e, t
    <3>3. \A s \in Slot : landed'[s] # None => PlannedFor(landed[s], s)'
      <4> TAKE s \in Slot
      <4> HAVE landed'[s] # None
      <4>1. landed[s] \in Inode /\ PlannedFor(landed[s], s)
        BY <1>1 DEF Base, HomeOK, Files
      <4> PICK g \in Inode : g = landed[s]
        BY <4>1
      <4>2. PlannedFor(g, s)' /\ landed'[s] = g
        BY <1>1, <3>1, <3>2, <4>1
      <4> QED BY <4>2 DEF PlannedFor
    <3>4. \A s \in Slot, i \in Indices : staging'[s][i] # None => PlannedFor(staging[s][i], s)'
      <4> TAKE s \in Slot, i \in Indices
      <4> HAVE staging'[s][i] # None
      <4>1. staging[s][i] \in Inode /\ PlannedFor(staging[s][i], s)
        BY <1>1 DEF Base, HomeOK, Files
      <4> PICK g \in Inode : g = staging[s][i]
        BY <4>1
      <4>2. PlannedFor(g, s)' /\ staging'[s][i] = g
        BY <1>1, <3>1, <3>2, <4>1
      <4> QED BY <4>2 DEF PlannedFor
    <3>5. ASSUME NEW q \in Requests, thr'[q].fd # None, NEW s \in Slot,
                 landed'[s] = thr'[q].fd \/ \E i \in Indices : staging'[s][i] = thr'[q].fd
          PROVE  s = (Nth(q, thr[q].at).slot)'
      <4>1. thr'[q] = thr[q]
        BY <2>2, <2>6, <3>5
      <4>2. s = Nth(q, thr[q].at).slot
        BY <1>1, <3>5, <4>1 DEF Base, HomeOK
      <4> QED BY <4>1, <4>2 DEF Nth, Plan
    <3> QED BY <3>3, <3>4, <3>5 DEF HomeOK
  <2>14. TypeOK' /\ ThreadsOK'
    <3>1. ThreadsOK'
      BY <2>6 DEF ThreadsOK, ThreadsOn
    <3>2. TypeOK'
      BY <1>1, <2>6, <2>10 DEF TypeOK, Thread, Files, Posted, Replies, Handles
    <3> QED BY <3>1, <3>2
  <2> QED BY <2>11, <2>12, <2>13, <2>14 DEF Base
<1>8. \/ \E d \in {[req |-> r, pos |-> e.pos], Mixed} :
           /\ data' = [data EXCEPT ![t.fd] = d]
           /\ thr' = [thr EXCEPT ![r].pc = "stage", ![r].fd = None, ![r].at = @ + 1]
      \/ Fault(r, "write", Staged(r)) /\ data' = data
  BY DEF Write
<1> QED BY <1>6, <1>7, <1>8

(* A rename moves a file from the stage of a slot to the slot.             *)
LEMMA RenameBase ==
  ASSUME Base, NEW r \in Requests, Rename(r)
  PROVE  Base'
<1> DEFINE t == thr[r]
           e == Nth(r, t.done)
           f == staging[e.slot][e.idx]
<1>1. /\ thr \in [Requests -> Thread] /\ Files /\ t.pc = "stage" /\ t.done # Cardinality(Plan(r))
      /\ t.at = Cardinality(Plan(r))
      /\ up \in BOOLEAN /\ counted \in [accepted : Nat, rejected : Nat] /\ ThreadsOK
      /\ UNCHANGED <<up, data, counted>>
  BY TypeIs DEF Base, Rename, At, AllStaged, Renamed
<1>2. /\ t \in Thread /\ ThreadOK(t) /\ Plan(r) = t.plan /\ t.at \in Nat /\ t.done \in Nat
      /\ e \in t.plan /\ e \in Entry /\ e.idx = t.done /\ t.done < Cardinality(t.plan)
      /\ \A x \in t.plan : x.idx = t.done => x = e
      /\ Cardinality(t.plan) \in Nat /\ t.fd = None
  BY <1>1, StageIs DEF ThreadOK
<1>3. e.slot \in Slot /\ e.idx \in Indices /\ e.idx \in Nat /\ f \in Inode \cup {None}
  BY <1>1, <1>2, EntryIs DEF Files
<1>4. /\ Staged(r) \in SUBSET t.plan
      /\ \A x \in t.plan : Past(t, x.idx) => x \in Staged(r)
  BY <1>1, StagedIs
<1>5. CASE Fault(r, "rename", Staged(r)) /\ UNCHANGED <<landed, staging>>
  <2>1. "rename" \in Faults /\ t.pc \in {"stage", "write", "unwind"}
    BY <1>1 DEF Faults
  <2> QED BY <1>1, <1>4, <1>5, <2>1, FaultBase
<1>6. CASE /\ thr' = [thr EXCEPT ![r].pc = "unwind", ![r].left = Staged(r)]
           /\ UNCHANGED <<landed, staging>>
  <2> DEFINE u == [t EXCEPT !.pc = "unwind", !.left = Staged(r)]
  <2>1. thr' = [thr EXCEPT ![r] = u]
    BY <1>1, <1>6
  <2>2. /\ u.pc = "unwind" /\ u.fd = None /\ u.plan = t.plan /\ u.body = t.body /\ u.at = t.at
        /\ u.done = t.done /\ u.left = Staged(r) /\ u.reply = t.reply /\ u.faults = t.faults
    BY <1>2 DEF Thread
  <2>3. u \in Thread
    <3>1. "unwind" \in PCs /\ Staged(r) \in SUBSET Entry
      BY <1>2, <1>4 DEF PCs, Thread
    <3> QED BY <1>2, <3>1 DEF Thread
  <2> HIDE DEF u
  <2>4. ThreadOK(u)
    BY <1>1, <1>2, <1>4, <2>2 DEF ThreadOK
  <2>5. Onward(t, u)
    BY <1>1, <1>2, <2>2 DEF Onward, Past
  <2>6. thr'[r] = u /\ (\A q \in Requests \ {r} : thr'[q] = thr[q]) /\ ThreadsOn
    BY <1>1, <2>1, <2>2, <2>3, <2>4, <2>5, OneThread
  <2>7. StillKept
    BY <1>4, <2>2, <2>6, OneKept DEF Kept
  <2>8. Shrinks
    BY <1>1, <1>6 DEF Shrinks, Files
  <2> QED BY <1>1, <2>6, <2>7, <2>8, BaseShrinks
<1>7. ASSUME f # None, landed' = [landed EXCEPT ![e.slot] = f],
             staging' = [staging EXCEPT ![e.slot][e.idx] = None],
             thr' = [thr EXCEPT ![r].done = @ + 1]
      PROVE  Base'
  <2> DEFINE u == [t EXCEPT !.done = t.done + 1]
  <2>1. thr' = [thr EXCEPT ![r] = u]
    BY <1>1, <1>7
  <2>2. /\ u.pc = t.pc /\ u.fd = None /\ u.plan = t.plan /\ u.body = t.body /\ u.at = t.at
        /\ u.done = t.done + 1 /\ u.left = t.left /\ u.reply = t.reply /\ u.faults = t.faults
    BY <1>2 DEF Thread
  <2>3. u \in Thread
    <3>1. t.done + 1 \in Nat
      BY <1>2
    <3> QED BY <1>2, <3>1 DEF Thread
  <2> HIDE DEF u
  <2>4. ThreadOK(u)
    <3>1. t.done + 1 <= Cardinality(t.plan)
      BY <1>2
    <3> QED BY <1>1, <1>2, <2>2, <3>1 DEF ThreadOK
  <2>5. Onward(t, u)
    BY <1>1, <1>2, <2>2 DEF Onward, Past
  <2>6. /\ thr' \in [Requests -> Thread] /\ thr'[r] = u /\ \A q \in Requests \ {r} : thr'[q] = thr[q]
        /\ ThreadsOn
    BY <1>1, <2>1, <2>2, <2>3, <2>4, <2>5, OneThread
  <2>7. \A s \in Slot, i \in Indices :
          staging'[s][i] = IF s = e.slot /\ i = e.idx THEN None ELSE staging[s][i]
    BY <1>1, <1>3, <1>7 DEF Files
  <2>8. \A s \in Slot : landed'[s] = IF s = e.slot THEN f ELSE landed[s]
    BY <1>1, <1>3, <1>7 DEF Files
  <2>9. StillKept
    <3>1. \A x \in t.plan : /\ staging'[x.slot][x.idx] # None /\ Kept(t, x)
                            => Kept(u, x)
      <4> SUFFICES ASSUME NEW x \in t.plan, staging'[x.slot][x.idx] # None, t.done <= x.idx
                   PROVE  t.done + 1 <= x.idx
        BY <1>1, <2>2 DEF Kept
      <4>1. x \in Entry
        BY <1>2 DEF Thread
      <4>2. x.slot \in Slot /\ x.idx \in Indices /\ x.idx \in Nat
        BY <4>1, EntryIs
      <4>3. x # e
        BY <1>3, <2>7
      <4>4. x.idx # t.done
        BY <1>2, <4>3
      <4> QED BY <1>2, <4>2, <4>4
    <3> QED BY <2>6, <3>1, OneKept
  <2>10. Files'
    <3>1. landed' \in [Slot -> Inode \cup {None}]
      BY <1>1, <1>3, <1>7 DEF Files
    <3>2. staging' \in [Slot -> [Indices -> Inode \cup {None}]]
      BY <1>1, <1>3, <1>7 DEF Files
    <3> QED BY <1>1, <3>1, <3>2 DEF Files
  <2> HIDE DEF f, e, t
  <2>11. OpenedOK' /\ StagesOK'
    <3>1. \A s \in Slot : landed'[s] = landed[s] \/ \E i \in Indices : landed'[s] = staging[s][i]
      BY <1>3, <2>8 DEF f
    <3>2. \A s \in Slot, i \in Indices : staging'[s][i] \in {None, staging[s][i]}
      BY <2>7
    <3>3. \A q \in Requests : Onward(thr[q], thr'[q]) /\ thr'[q].fd \in {None, thr[q].fd}
      BY <2>6 DEF ThreadsOn
    <3> QED BY <2>6, <2>9, <2>10, <3>1, <3>2, <3>3, NamesStay
  <2>12. NamesOK'
    <3>0. f = staging[e.slot][e.idx]
      BY DEF f
    <3>1. \A s, x \in Slot : landed'[s] # None /\ landed'[s] = landed'[x] => s = x
      BY <1>3, <1>7, <2>8, <3>0 DEF Base, NamesOK
    <3>2. \A s, x \in Slot, i, j \in Indices :
            staging'[s][i] # None /\ staging'[s][i] = staging'[x][j] => s = x /\ i = j
      BY <2>7 DEF Base, NamesOK
    <3>3. \A s, x \in Slot, j \in Indices : landed'[s] # None => landed'[s] # staging'[x][j]
      BY <1>3, <1>7, <2>7, <2>8, <3>0 DEF Base, NamesOK
    <3> QED BY <3>1, <3>2, <3>3 DEF NamesOK
  <2>13. HomeOK'
    <3>1. ASSUME NEW g \in Inode, NEW s \in Slot, PlannedFor(g, s)
          PROVE  PlannedFor(g, s)'
      BY <1>1, <2>6, <3>1, PlannedStays DEF ThreadsOn
    <3>2. f \in Inode /\ PlannedFor(f, e.slot)
      BY <1>3, <1>7 DEF Base, HomeOK, f
    <3>3. \A s \in Slot : landed'[s] # None => PlannedFor(landed[s], s)'
      <4> TAKE s \in Slot
      <4> HAVE landed'[s] # None
      <4>1. landed'[s] \in Inode /\ PlannedFor(landed'[s], s)
        <5>1. CASE s = e.slot
          BY <2>8, <3>2, <5>1
        <5>2. CASE s # e.slot
          BY <1>1, <2>8, <5>2 DEF Base, HomeOK, Files
        <5> QED BY <5>1, <5>2
      <4> PICK g \in Inode : g = landed'[s]
        BY <4>1
      <4>2. PlannedFor(g, s)' /\ landed'[s] = g
        BY <3>1, <4>1
      <4> QED BY <4>2 DEF PlannedFor
    <3>4. \A s \in Slot, i \in Indices : staging'[s][i] # None => PlannedFor(staging[s][i], s)'
      <4> TAKE s \in Slot, i \in Indices
      <4> HAVE staging'[s][i] # None
      <4>1. staging[s][i] \in Inode /\ staging'[s][i] = staging[s][i] /\ PlannedFor(staging[s][i], s)
        BY <1>1, <2>7 DEF Base, HomeOK, Files
      <4> PICK g \in Inode : g = staging[s][i]
        BY <4>1
      <4>2. PlannedFor(g, s)' /\ staging'[s][i] = g
        BY <3>1, <4>1
      <4> QED BY <4>2 DEF PlannedFor
    <3>5. ASSUME NEW q \in Requests, thr'[q].fd # None, NEW s \in Slot,
                 landed'[s] = thr'[q].fd \/ \E i \in Indices : staging'[s][i] = thr'[q].fd
          PROVE  s = (Nth(q, thr[q].at).slot)'
      <4>1. thr'[q] = thr[q]
        BY <2>2, <2>6, <3>5
      <4>2. landed[s] = thr[q].fd \/ \E i \in Indices : staging[s][i] = thr[q].fd
        BY <1>3, <2>7, <2>8, <3>5, <4>1 DEF f
      <4>3. s = Nth(q, thr[q].at).slot
        BY <3>5, <4>1, <4>2 DEF Base, HomeOK
      <4> QED BY <4>1, <4>3 DEF Nth, Plan
    <3> QED BY <3>3, <3>4, <3>5 DEF HomeOK
  <2>14. TypeOK' /\ ThreadsOK'
    <3>1. ThreadsOK'
      BY <2>6 DEF ThreadsOK, ThreadsOn
    <3>2. TypeOK'
      BY <1>1, <2>6, <2>10 DEF TypeOK, Thread, Files, Posted, Replies, Handles
    <3> QED BY <3>1, <3>2
  <2> QED BY <2>11, <2>12, <2>13, <2>14 DEF Base
<1>8. \/ /\ f # None /\ landed' = [landed EXCEPT ![e.slot] = f]
         /\ staging' = [staging EXCEPT ![e.slot][e.idx] = None]
         /\ thr' = [thr EXCEPT ![r].done = @ + 1]
      \/ /\ thr' = [thr EXCEPT ![r].pc = "unwind", ![r].left = Staged(r)]
         /\ UNCHANGED <<landed, staging>>
      \/ Fault(r, "rename", Staged(r)) /\ UNCHANGED <<landed, staging>>
  BY DEF Rename
<1> QED BY <1>5, <1>6, <1>7, <1>8

(* An unlink takes one stage away.                                         *)
LEMMA UnlinkBase ==
  ASSUME Base, NEW r \in Requests, NEW e \in thr[r].left, Unlink(r, e)
  PROVE  Base'
<1> DEFINE t == thr[r]
<1>1. /\ thr \in [Requests -> Thread] /\ Files /\ t.pc = "unwind"
      /\ up \in BOOLEAN /\ counted \in [accepted : Nat, rejected : Nat] /\ ThreadsOK
      /\ UNCHANGED <<up, landed, data, counted>>
  BY TypeIs DEF Base, Unlink, At
<1>2. /\ t \in Thread /\ ThreadOK(t) /\ t.left \in SUBSET t.plan /\ t.fd = None /\ t.plan \in SUBSET Entry
  BY <1>1 DEF ThreadsOK, ThreadOK, Thread
<1>3. e \in Entry /\ e.slot \in Slot /\ e.idx \in Indices
  BY <1>2, EntryIs
<1>4. CASE Fault(r, "unlink", t.left \ {e}) /\ staging' = staging
  <2>1. "unlink" \in Faults /\ t.pc \in {"stage", "write", "unwind"} /\ t.left \ {e} \in SUBSET t.plan
    BY <1>1, <1>2 DEF Faults
  <2> QED BY <1>1, <1>4, <2>1, FaultBase
<1>5. ASSUME staging' = [staging EXCEPT ![e.slot][e.idx] = None],
             thr' = [thr EXCEPT ![r].left = @ \ {e}]
      PROVE  Base'
  <2> DEFINE u == [t EXCEPT !.left = t.left \ {e}]
  <2>1. thr' = [thr EXCEPT ![r] = u]
    BY <1>1, <1>5
  <2>2. /\ u.pc = t.pc /\ u.fd = None /\ u.plan = t.plan /\ u.body = t.body /\ u.at = t.at
        /\ u.done = t.done /\ u.left = t.left \ {e} /\ u.reply = t.reply /\ u.faults = t.faults
    BY <1>2 DEF Thread
  <2>3. u \in Thread
    <3>1. t.left \ {e} \in SUBSET Entry
      BY <1>2
    <3> QED BY <1>2, <3>1 DEF Thread
  <2> HIDE DEF u
  <2>4. ThreadOK(u)
    BY <1>1, <1>2, <2>2 DEF ThreadOK
  <2>5. Onward(t, u)
    BY <2>2 DEF Onward, Past
  <2>6. thr'[r] = u /\ (\A q \in Requests \ {r} : thr'[q] = thr[q]) /\ ThreadsOn
    BY <1>1, <2>1, <2>2, <2>3, <2>4, <2>5, OneThread
  <2>7. \A s \in Slot, i \in Indices :
          staging'[s][i] = IF s = e.slot /\ i = e.idx THEN None ELSE staging[s][i]
    BY <1>1, <1>3, <1>5 DEF Files
  <2>8. Shrinks
    <3>1. staging' \in [Slot -> [Indices -> Inode \cup {None}]]
      BY <1>1, <1>3, <1>5 DEF Files
    <3> QED BY <1>1, <2>7, <3>1 DEF Shrinks, Files
  <2>9. \A x \in t.plan : staging'[x.slot][x.idx] # None /\ Kept(t, x) => Kept(u, x)
    <3> TAKE x \in t.plan
    <3>1. staging'[x.slot][x.idx] # None => x # e
      BY <1>3, <2>7
    <3> QED BY <1>1, <2>2, <3>1 DEF Kept
  <2>10. StillKept
    BY <2>6, <2>9, OneKept
  <2> QED BY <1>1, <2>6, <2>8, <2>10, BaseShrinks
<1> QED BY <1>4, <1>5 DEF Unlink

(* When nothing is left to unlink, only what a failed write or unlink left *)
(* is still there.                                                         *)
LEMMA UnwindDoneBase ==
  ASSUME Base, NEW r \in Requests, UnwindDone(r)
  PROVE  Base'
<1> DEFINE t == thr[r]
<1>1. /\ thr \in [Requests -> Thread] /\ Files /\ t.pc = "unwind" /\ t.left = {} /\ Answer(r, 500)
      /\ up \in BOOLEAN /\ counted \in [accepted : Nat, rejected : Nat] /\ ThreadsOK
      /\ UNCHANGED <<up, landed, staging, data, counted>>
  BY TypeIs DEF Base, UnwindDone, At
<1>2. t \in Thread /\ ThreadOK(t) /\ t.pc \in {"validate", "stage", "unwind"} /\ 500 \in {200, 400, 500}
  BY <1>1 DEF ThreadsOK
<1>3. PICK u : u = Ended(t, 500)
  OBVIOUS
<1>4. thr' = [thr EXCEPT ![r] = u]
  BY <1>1, <1>3, AnswerIs
<1>5. /\ u \in Thread /\ ThreadOK(u) /\ Onward(t, u) /\ u.fd = None
      /\ u.pc = "over" /\ u.faults = t.faults /\ u.reply = 500
  BY <1>2, <1>3, AnswerOK
<1>6. thr'[r] = u /\ (\A q \in Requests \ {r} : thr'[q] = thr[q]) /\ ThreadsOn
  <2>1. thr \in [Requests -> Thread] /\ ThreadsOK
    BY <1>1
  <2>2. u \in Thread /\ ThreadOK(u) /\ Onward(thr[r], u) /\ u.fd = None
    BY <1>5
  <2> QED BY <1>4, <2>1, <2>2, OneThread
<1>7. \A e \in t.plan : Kept(t, e) => Kept(u, e)
  BY <1>1, <1>5 DEF Kept
<1>8. StillKept
  BY <1>6, <1>7, OneKept
<1>9. Shrinks
  BY <1>1 DEF Shrinks, Files
<1> QED BY <1>1, <1>6, <1>8, <1>9, BaseShrinks

(* When all is renamed no stage is left.                                   *)
LEMMA CountBase ==
  ASSUME Base, NEW r \in Requests, Count(r)
  PROVE  Base'
<1> DEFINE t == thr[r]
           good == {e \in Plan(r) : e.slot.dir = "traces"}
<1>1. /\ thr \in [Requests -> Thread] /\ Files /\ t.pc = "stage" /\ t.done = Cardinality(Plan(r))
      /\ Answer(r, 200)
      /\ up \in BOOLEAN /\ counted \in [accepted : Nat, rejected : Nat] /\ ThreadsOK
      /\ UNCHANGED <<up, landed, staging, data>>
      /\ counted' = [accepted |-> counted.accepted + Cardinality(good),
                     rejected |-> counted.rejected + Cardinality(Plan(r) \ good)]
  BY TypeIs DEF Base, Count, At, Renamed
<1>2. t \in Thread /\ ThreadOK(t) /\ t.pc \in {"validate", "stage", "unwind"} /\ 200 \in {200, 400, 500}
  BY <1>1 DEF ThreadsOK
<1>3. PICK u : u = Ended(t, 200)
  OBVIOUS
<1>4. thr' = [thr EXCEPT ![r] = u]
  BY <1>1, <1>3, AnswerIs
<1>5. /\ u \in Thread /\ ThreadOK(u) /\ Onward(t, u) /\ u.fd = None
      /\ u.pc = "over" /\ u.faults = t.faults /\ u.reply = 200
  BY <1>2, <1>3, AnswerOK
<1>6. thr'[r] = u /\ (\A q \in Requests \ {r} : thr'[q] = thr[q]) /\ ThreadsOn
  <2>1. thr \in [Requests -> Thread] /\ ThreadsOK
    BY <1>1
  <2>2. u \in Thread /\ ThreadOK(u) /\ Onward(thr[r], u) /\ u.fd = None
    BY <1>5
  <2> QED BY <1>4, <2>1, <2>2, OneThread
<1>7. Numbered(t.plan) /\ t.plan \in SUBSET Entry
  BY <1>2, PlanIs
<1>8. counted' \in [accepted : Nat, rejected : Nat]
  <2>1. good \in SUBSET t.plan /\ (Plan(r) \ good) \in SUBSET t.plan /\ IsFiniteSet(t.plan)
    BY <1>7 DEF Plan, Numbered
  <2>2. Cardinality(good) \in Nat /\ Cardinality(Plan(r) \ good) \in Nat
    BY <2>1, FS_Subset, FS_CardinalityType
  <2> HIDE DEF good
  <2> QED BY <1>1, <2>2
<1>9. \A e \in t.plan : ~Kept(t, e)
  <2> DEFINE c == Cardinality(t.plan)
  <2> SUFFICES ASSUME NEW e \in t.plan, c <= e.idx PROVE FALSE
    BY <1>1 DEF Kept, Plan
  <2>1. e.idx < c /\ c \in Nat /\ e.idx \in Nat
    BY <1>7, EntryIs DEF Numbered
  <2> HIDE DEF c
  <2> QED BY <2>1
<1>10. StillKept
  BY <1>6, <1>9, OneKept
<1>11. Shrinks
  BY <1>1 DEF Shrinks, Files
<1> QED BY <1>1, <1>6, <1>8, <1>10, <1>11, BaseShrinks

(* A stop ends every handler where it is.                                  *)
Stopped(t) == IF t.pc \notin {"new", "over"} THEN [t EXCEPT !.pc = "over", !.fd = None] ELSE t
(* A stopped thread is over with no file open and no answer.               *)
LEMMA StoppedOK ==
  ASSUME NEW t \in Thread, ThreadOK(t), NEW u, u = Stopped(t)
  PROVE  /\ u \in Thread /\ ThreadOK(u) /\ Onward(t, u) /\ (u.fd = None \/ u = t)
         /\ u.plan = t.plan /\ u.at = t.at /\ u.done = t.done /\ u.faults = t.faults /\ u.body = t.body
         /\ u.reply = t.reply
         /\ \/ u = t /\ t.pc \in {"new", "over"}
            \/ u.pc = "over" /\ u.reply = None /\ t.pc \notin {"new", "over"}
<1>1. CASE t.pc \in {"new", "over"}
  BY <1>1 DEF Stopped, Onward
<1>2. CASE t.pc \notin {"new", "over"}
  <2>1. u = [t EXCEPT !.pc = "over", !.fd = None]
    BY <1>2 DEF Stopped
  <2>2. /\ u.plan = t.plan /\ u.at = t.at /\ u.done = t.done /\ u.pc = "over" /\ u.faults = t.faults
        /\ u.reply = t.reply /\ u.body = t.body /\ u.left = t.left /\ u.fd = None
    BY <2>1 DEF Thread
  <2>3. u \in Thread
    <3>1. "over" \in PCs /\ None \in Handles
      BY DEF PCs, Handles
    <3> QED BY <2>1, <3>1 DEF Thread
  <2>4. u.reply = None
    BY <1>2, <2>2 DEF ThreadOK
  <2>5. ThreadOK(u)
    BY <2>2, <2>4 DEF ThreadOK
  <2>6. Onward(t, u)
    BY <2>2 DEF Onward, Past
  <2> QED BY <1>2, <2>2, <2>3, <2>4, <2>5, <2>6
<1> QED BY <1>1, <1>2

(* A stop leaves every file where it is.                                   *)
LEMMA StopBase ==
  ASSUME Base, Stop
  PROVE  Base'
<1>1. /\ thr \in [Requests -> Thread] /\ Files
      /\ counted \in [accepted : Nat, rejected : Nat] /\ ThreadsOK
      /\ UNCHANGED <<landed, staging, data, counted>> /\ up' \in BOOLEAN
  BY TypeIs DEF Base, Stop
<1>2. thr' = [r \in Requests |-> Stopped(thr[r])]
  BY DEF Stop, InFlight, Stopped
<1>3. ASSUME NEW q \in Requests
      PROVE  /\ thr'[q] \in Thread /\ ThreadOK(thr'[q]) /\ Onward(thr[q], thr'[q])
             /\ thr'[q].fd = None \/ thr'[q] = thr[q]
             /\ \A e \in thr[q].plan : Kept(thr[q], e) => Kept(thr'[q], e)
  <2>1. PICK u : u = Stopped(thr[q])
    OBVIOUS
  <2>2. thr'[q] = u /\ thr[q] \in Thread /\ ThreadOK(thr[q])
    BY <1>1, <1>2, <2>1 DEF ThreadsOK
  <2>3. /\ u \in Thread /\ ThreadOK(u) /\ Onward(thr[q], u) /\ (u.fd = None \/ u = thr[q])
        /\ u = thr[q] \/ (u.pc = "over" /\ u.reply = None)
    BY <2>1, <2>2, StoppedOK
  <2> QED BY <2>2, <2>3 DEF Kept
<1>4. thr' \in [Requests -> Thread]
  BY <1>2, <1>3
<1>5. ThreadsOn /\ StillKept
  BY <1>3, <1>4 DEF ThreadsOn, StillKept
<1>6. Shrinks
  BY <1>1 DEF Shrinks, Files
<1> QED BY <1>1, <1>5, <1>6, BaseShrinks

(* A step of no thread and no file.                                        *)
LEMMA QuietBase ==
  ASSUME Base, UNCHANGED <<landed, staging, data, thr>>, up' \in BOOLEAN,
         counted' \in [accepted : Nat, rejected : Nat]
  PROVE  Base'
<1>1. thr \in [Requests -> Thread] /\ Files /\ ThreadsOK
  BY TypeIs DEF Base
<1>2. ThreadsOn /\ StillKept
  BY <1>1 DEF ThreadsOn, StillKept, ThreadsOK, Onward
<1>3. Shrinks
  BY <1>1 DEF Shrinks, Files
<1> QED BY <1>2, <1>3, BaseShrinks

(* Every step keeps the first part of the invariant.                       *)
LEMMA BaseStep ==
  ASSUME Base, [Next]_vars
  PROVE  Base'
<1>1. ASSUME NEW r \in Requests, NEW b \in Bodies, Arrive(r, b)
      PROVE  Base'
  BY <1>1, ArriveBase
<1>2. ASSUME NEW r \in Requests, HandlerStep(r)
      PROVE  Base'
  BY <1>2, ValidateBase, OpenBase, WriteBase, RenameBase, UnlinkBase, UnwindDoneBase, CountBase
  DEF HandlerStep
<1>3. CASE Stop
  BY <1>3, StopBase
<1>4. CASE Boot
  <2>1. /\ UNCHANGED <<landed, staging, data, thr>> /\ up' \in BOOLEAN
        /\ counted' \in [accepted : Nat, rejected : Nat]
    BY <1>4 DEF Boot
  <2> QED BY <2>1, QuietBase
<1>5. CASE UNCHANGED vars
  <2>1. /\ UNCHANGED <<landed, staging, data, thr>> /\ up' \in BOOLEAN
        /\ counted' \in [accepted : Nat, rejected : Nat]
    BY <1>5 DEF vars, Base, TypeOK
  <2> QED BY <2>1, QuietBase
<1> QED BY <1>1, <1>2, <1>3, <1>4, <1>5 DEF Next

(* It holds at the start.                                                  *)
LEMMA InitBase == Init => Base
<1> SUFFICES ASSUME Init PROVE Base
  OBVIOUS
<1>1. NewThread \in Thread
  <2>1. "new" \in PCs /\ <<>> \in Posted /\ None \in Handles /\ None \in Replies
    BY DEF PCs, Posted, Handles, Replies
  <2> QED BY <2>1 DEF NewThread, Thread
<1>2. ThreadOK(NewThread)
  <2>1. Cardinality({}) = 0
    BY FS_EmptySet
  <2> QED BY <2>1 DEF NewThread, ThreadOK, Untouched
<1>3. TypeOK
  <2>1. up \in BOOLEAN /\ counted \in [accepted : Nat, rejected : Nat]
    BY DEF Init
  <2>2. thr \in [Requests -> Thread]
    BY <1>1 DEF Init
  <2>3. Files
    BY DEF Init, Files
  <2> QED BY <2>1, <2>2, <2>3, TypeIs
<1>4. ThreadsOK
  BY <1>2 DEF ThreadsOK, Init
<1>5. NamesOK /\ StagesOK
  BY DEF Init, NamesOK, StagesOK
<1>6. OpenedOK /\ HomeOK
  BY DEF Init, OpenedOK, HomeOK, NewThread
<1> QED BY <1>3, <1>4, <1>5, <1>6 DEF Base

-----------------------------------------------------------------------------
(* What Base says of the files at once.                                    *)

(* A staged file has a request that is still to unlink it, was stopped, or *)
(* failed to.                                                              *)
LEMMA BaseNoOrphan == Base => NoOrphanStage
<1> SUFFICES ASSUME Base, NEW s \in Slot, NEW i \in Indices, staging[s][i] # None,
                    NEW r, r = staging[s][i].req
             PROVE  InFlight(r) \/ thr[r].reply = None \/ thr[r].faults \cap {"write", "unlink"} # {}
  BY DEF NoOrphanStage
<1>1. PICK e \in thr[r].plan : Kept(thr[r], e)
  BY DEF Base, StagesOK, Plan
<1>2. r \in Requests
  <2>1. staging[s][i] \in Inode
    BY TypeIs DEF Base, Files
  <2> QED BY <2>1, InodeIs
<1>3. ThreadOK(thr[r])
  BY <1>2 DEF Base, ThreadsOK
<1> QED BY <1>1, <1>3 DEF Kept, InFlight, ThreadOK

(* Two texts of one request and one session are one entry of its plan, so  *)
(* they have one directory.                                                *)
LEMMA BaseOneDisposition == Base => OneDisposition
<1> SUFFICES ASSUME Base, NEW r \in Requests, NEW sid \in Sessions,
                    LandedFrom(r, [dir |-> "traces", sid |-> sid]),
                    LandedFrom(r, [dir |-> "quarantine", sid |-> sid])
             PROVE  FALSE
  BY DEF OneDisposition
<1> DEFINE s == [dir |-> "traces", sid |-> sid]
           q == [dir |-> "quarantine", sid |-> sid]
<1>1. s \in Slot /\ q \in Slot /\ s.sid = q.sid /\ s # q
  <2>1. s.dir # q.dir
    OBVIOUS
  <2> QED BY <2>1 DEF Slot
<1>2. thr[r] \in Thread /\ ThreadOK(thr[r])
  BY TypeIs DEF Base, ThreadsOK
<1> HIDE DEF s, q
<1>3. /\ \E e \in thr[r].plan : e.slot = s
      /\ \E e \in thr[r].plan : e.slot = q
  BY <1>1 DEF LandedFrom, Base, HomeOK, PlannedFor, Plan, s, q
<1>4. \A e, f \in thr[r].plan : e.slot.sid = f.slot.sid => e = f
  BY <1>2, PlanIs
<1> QED BY <1>1, <1>3, <1>4

-----------------------------------------------------------------------------
(* Requests that do not overlap.                                           *)

(* A step of one handler, on files of its own sessions only.               *)
Ran(r) ==
  /\ InFlight(r) /\ \A q \in Requests \ {r} : thr'[q] = thr[q]
  /\ thr'[r].body = thr[r].body
  /\ thr'[r].plan = thr[r].plan \/ thr[r].plan = {}
  /\ thr[r].done <= thr'[r].done
Touches(r) ==
  \A s \in Slot : s.sid \notin Sids(thr[r].body) =>
    /\ landed'[s] = landed[s] /\ \A i \in Indices : staging'[s][i] = staging[s][i]
    /\ landed[s] # None => data'[landed[s]] = data[landed[s]]
    /\ \A i \in Indices : staging[s][i] # None => data'[staging[s][i]] = data[staging[s][i]]
Blameless(t) ==
  (t.pc = "unwind" \/ t.reply \in {400, 500}) /\ "rename" \notin t.faults => t.done = 0

(* Two handlers in flight plan different sessions.                         *)
LEMMA Elsewhere ==
  ASSUME Base, Apart, NEW q \in Requests, NEW r \in Requests, q # r, InFlight(q), InFlight(r),
         NEW e \in thr[q].plan
  PROVE  e \in Entry /\ e.slot \in Slot /\ e.idx \in Indices /\ e.slot.sid \notin Sids(thr[r].body)
<1>1. thr[q] \in Thread /\ ThreadOK(thr[q])
  BY TypeIs DEF Base, ThreadsOK
<1>2. e \in Entry /\ e.slot.sid \in Sids(thr[q].body)
  BY <1>1, PlanIs
<1> QED BY <1>2, EntryIs DEF Apart

(* What the other handlers carry they go on carrying.                      *)
LEMMA OthersCarry ==
  ASSUME Base, Apart, NEW r \in Requests, Ran(r), Touches(r), NEW q \in Requests, q # r, Carried(q)
  PROVE  Carried(q)'
<1>1. thr'[q] = thr[q] /\ InFlight(r)
  BY DEF Ran
<1>2. CASE thr[q].pc \notin {"stage", "write"}
  BY <1>1, <1>2 DEF Carried
<1>3. CASE thr[q].pc \in {"stage", "write"}
  <2>1. InFlight(q)
    BY <1>3 DEF InFlight
  <2>2. \A e \in thr[q].plan :
          e.slot \in Slot /\ e.idx \in Indices /\ e.slot.sid \notin Sids(thr[r].body)
    BY <1>1, <2>1, Elsewhere
  <2>3. \A e \in thr[q].plan :
          /\ landed'[e.slot] = landed[e.slot] /\ staging'[e.slot][e.idx] = staging[e.slot][e.idx]
          /\ landed[e.slot] # None => data'[landed[e.slot]] = data[landed[e.slot]]
          /\ staging[e.slot][e.idx] # None => data'[staging[e.slot][e.idx]] = data[staging[e.slot][e.idx]]
    BY <2>2 DEF Touches
  <2>4. thr[q].pc = "write" => thr[q].fd # None
    BY DEF Base, ThreadsOK, ThreadOK
  <2>5. \A e \in thr[q].plan : thr[q].done <= e.idx /\ e.idx < thr[q].at =>
          /\ staging'[e.slot][e.idx] # None
          /\ data'[staging'[e.slot][e.idx]] = [req |-> q, pos |-> e.pos]
    BY <1>3, <2>3 DEF Carried
  <2>6. \A e \in thr[q].plan : e.idx < thr[q].done =>
          /\ landed'[e.slot] # None
          /\ data'[landed'[e.slot]] = [req |-> q, pos |-> e.pos]
    BY <1>3, <2>3 DEF Carried
  <2>7. \A e \in thr[q].plan : thr[q].pc = "write" /\ e.idx = thr[q].at =>
          staging'[e.slot][e.idx] = thr[q].fd /\ data'[thr[q].fd] = Empty
    BY <1>3, <2>3, <2>4 DEF Carried
  <2> QED BY <1>1, <2>5, <2>6, <2>7 DEF Carried
<1> QED BY <1>2, <1>3

(* Texts that landed stay.                                                 *)
LEMMA DoneIs ==
  ASSUME Base, Base', NEW r \in Requests, Ran(r), NEW q \in Requests, NEW e \in thr[q].plan,
         e.idx < thr[q].done
  PROVE  e \in thr'[q].plan /\ e.idx < thr'[q].done
<1>1. thr[q] \in Thread
  BY TypeIs DEF Base
<1>2. thr[q].done \in Nat /\ thr[q].plan \in SUBSET Entry
  BY <1>1 DEF Thread
<1>3. e.idx \in Nat
  BY <1>2, EntryIs
<1>4. thr'[q].done \in Nat
  BY DEF Base, TypeOK
<1>5. thr[q].done <= thr'[q].done /\ (thr'[q].plan = thr[q].plan \/ thr[q].plan = {})
  BY <1>2 DEF Ran
<1> QED BY <1>2, <1>3, <1>4, <1>5

(* A text that landed is still the text of what its request has renamed.   *)
LEMMA LandedStays ==
  ASSUME Base, Base', LandedOK, NEW r \in Requests, Ran(r), NEW s \in Slot, landed[s] # None,
         landed'[s] = landed[s], data'[landed[s]] = data[landed[s]]
  PROVE  /\ data'[landed'[s]] \in Text
         /\ \E e \in thr'[data'[landed'[s]].req].plan :
              /\ e.slot = s /\ e.pos = data'[landed'[s]].pos
              /\ e.idx < thr'[data'[landed'[s]].req].done
<1> DEFINE d == data[landed[s]]
<1>1. d \in Text /\ d.req \in Requests
  BY DEF LandedOK, Text
<1>2. PICK e \in thr[d.req].plan : e.slot = s /\ e.pos = d.pos /\ e.idx < thr[d.req].done
  BY DEF LandedOK, Plan
<1>3. e \in thr'[d.req].plan /\ e.idx < thr'[d.req].done
  BY <1>1, <1>2, DoneIs
<1> QED BY <1>1, <1>2, <1>3

(* What a step of one handler has to show.                                 *)
LEMMA AloneRan ==
  ASSUME Base, Base', Alone, NEW r \in Requests, Ran(r), Touches(r), Carried(r)', LandedOK',
         Blameless(thr'[r])
  PROVE  Alone'
<1>1. Apart'
  BY DEF Alone, Apart, Ran, InFlight
<1>2. \A q \in Requests : Carried(q)'
  BY OthersCarry DEF Alone
<1>3. RefusedOK'
  BY DEF Alone, RefusedOK, Ran, Blameless
<1> QED BY <1>1, <1>2, <1>3 DEF Alone

(* A step that leaves the files alone.                                     *)
LEMMA QuietTouches ==
  ASSUME UNCHANGED <<landed, staging, data>>, NEW r
  PROVE  Touches(r)
BY DEF Touches

(* What landed stays when no landed file changes.                          *)
LEMMA QuietLanded ==
  ASSUME Base, Base', LandedOK, NEW r \in Requests, Ran(r), UNCHANGED <<landed, data>>
  PROVE  LandedOK'
BY LandedStays DEF LandedOK, Plan

(* A step of one handler that touches no file and ends its course.         *)
LEMMA AloneQuiet ==
  ASSUME Base, Base', Alone, NEW r \in Requests, Ran(r), UNCHANGED <<landed, staging, data>>,
         thr'[r].pc \notin {"stage", "write"}, Blameless(thr'[r])
  PROVE  Alone'
<1>1. Carried(r)'
  BY DEF Carried
<1>2. Touches(r)
  BY QuietTouches
<1>3. LandedOK'
  BY QuietLanded DEF Alone
<1> QED BY <1>1, <1>2, <1>3, AloneRan

(* An answer and a fault, as steps of one handler.                         *)
LEMMA AnswerRan ==
  ASSUME Base, NEW r \in Requests, NEW code \in {200, 400, 500}, Answer(r, code),
         thr[r].pc \in {"validate", "stage", "unwind"}
  PROVE  /\ Ran(r) /\ thr'[r].pc = "over" /\ thr'[r].reply = code
         /\ thr'[r].done = thr[r].done /\ thr'[r].faults = thr[r].faults
<1>1. thr \in [Requests -> Thread] /\ thr[r] \in Thread /\ ThreadOK(thr[r])
  BY TypeIs DEF Base, ThreadsOK
<1>2. PICK u : u = Ended(thr[r], code)
  OBVIOUS
<1>3. thr' = [thr EXCEPT ![r] = u]
  BY <1>1, <1>2, AnswerIs
<1>4. thr'[r] = u /\ \A q \in Requests \ {r} : thr'[q] = thr[q]
  BY <1>1, <1>3
<1>5. /\ u.plan = thr[r].plan /\ u.done = thr[r].done /\ u.pc = "over" /\ u.faults = thr[r].faults
      /\ u.reply = code /\ u.body = thr[r].body
  BY <1>1, <1>2, AnswerOK
<1>6. thr[r].done \in Nat /\ InFlight(r)
  BY <1>1 DEF Thread, InFlight
<1> QED BY <1>4, <1>5, <1>6 DEF Ran

(* A fault is a step of one handler.                                       *)
LEMMA FaultRan ==
  ASSUME Base, NEW r \in Requests, NEW kind \in Faults, NEW left \in SUBSET thr[r].plan,
         Fault(r, kind, left), thr[r].pc \in {"stage", "write", "unwind"}
  PROVE  /\ Ran(r) /\ thr'[r].pc = "unwind" /\ thr'[r].done = thr[r].done
         /\ thr'[r].faults = thr[r].faults \cup {kind} /\ thr'[r].reply = thr[r].reply
<1>1. thr \in [Requests -> Thread] /\ thr[r] \in Thread /\ ThreadOK(thr[r])
  BY TypeIs DEF Base, ThreadsOK
<1>2. PICK u : u = Unwinding(thr[r], kind, left)
  OBVIOUS
<1>3. thr' = [thr EXCEPT ![r] = u]
  BY <1>1, <1>2 DEF Fault, Unwinding
<1>4. thr'[r] = u /\ \A q \in Requests \ {r} : thr'[q] = thr[q]
  BY <1>1, <1>3
<1>5. /\ u.plan = thr[r].plan /\ u.done = thr[r].done /\ u.pc = "unwind"
      /\ u.faults = thr[r].faults \cup {kind} /\ u.reply = thr[r].reply /\ u.body = thr[r].body
  BY <1>1, <1>2, FaultOK
<1>6. thr[r].done \in Nat /\ InFlight(r)
  BY <1>1 DEF Thread, InFlight
<1> QED BY <1>4, <1>5, <1>6 DEF Ran

(* A fault: nothing has been renamed yet, unless a rename is what failed.  *)
LEMMA FaultAlone ==
  ASSUME Base, Base', Alone, NEW r \in Requests, NEW kind \in Faults,
         NEW left \in SUBSET thr[r].plan, Fault(r, kind, left),
         thr[r].pc \in {"stage", "write", "unwind"}, UNCHANGED <<landed, staging, data>>,
         thr[r].pc = "unwind" \/ thr[r].done = 0 \/ kind = "rename"
  PROVE  Alone'
<1>1. /\ Ran(r) /\ thr'[r].pc = "unwind" /\ thr'[r].done = thr[r].done
      /\ thr'[r].faults = thr[r].faults \cup {kind} /\ thr'[r].reply = thr[r].reply
  BY FaultRan
<1>2. Blameless(thr'[r])
  BY <1>1 DEF Alone, RefusedOK, Blameless
<1> QED BY <1>1, <1>2, AloneQuiet

(* Arrivals keep apart because the sender keeps them so.                   *)
LEMMA ArriveAlone ==
  ASSUME Base, Base', Alone, ~Overlapping, NEW r \in Requests, NEW b \in Bodies, Arrive(r, b)
  PROVE  Alone'
<1> DEFINE t == thr[r]
<1>1. /\ thr \in [Requests -> Thread] /\ t \in Thread /\ ThreadOK(t) /\ t.pc = "new"
      /\ UNCHANGED <<landed, staging, data>>
      /\ \A q \in Requests : InFlight(q) => Sids(thr[q].body) \cap Sids(b) = {}
      /\ thr' = [thr EXCEPT ![r].pc = "validate", ![r].body = b]
  BY TypeIs DEF Base, Arrive, ThreadsOK
<1>2. /\ thr'[r].pc = "validate" /\ thr'[r].body = b /\ thr'[r].plan = t.plan /\ thr'[r].done = t.done
      /\ thr'[r].reply = t.reply
      /\ \A q \in Requests \ {r} : thr'[q] = thr[q]
  BY <1>1 DEF Thread
<1>3. t.plan = {} /\ t.done = 0 /\ ~InFlight(r) /\ t.reply = None
  BY <1>1 DEF ThreadOK, Untouched, InFlight
<1>4. Apart'
  BY <1>1, <1>2 DEF Alone, Apart, InFlight
<1>5. \A q \in Requests : Carried(q)'
  <2> TAKE q \in Requests
  <2>1. CASE q = r
    BY <1>2, <2>1 DEF Carried
  <2>2. CASE q # r
    <3>1. thr'[q] = thr[q] /\ Carried(q)
      BY <1>2, <2>2 DEF Alone
    <3> QED BY <1>1, <3>1 DEF Carried
  <2> QED BY <2>1, <2>2
<1>6. LandedOK'
  <2>1. \A q \in Requests : thr'[q].plan = thr[q].plan /\ thr'[q].done = thr[q].done
    BY <1>2
  <2> SUFFICES ASSUME NEW s \in Slot, landed[s] # None
               PROVE  /\ data[landed[s]] \in Text
                      /\ \E e \in thr'[data[landed[s]].req].plan :
                           /\ e.slot = s /\ e.pos = data[landed[s]].pos
                           /\ e.idx < thr'[data[landed[s]].req].done
    BY <1>1 DEF LandedOK, Plan
  <2>2. data[landed[s]] \in Text /\ data[landed[s]].req \in Requests
    BY DEF Alone, LandedOK, Text
  <2> QED BY <2>1, <2>2 DEF Alone, LandedOK, Plan
<1>7. RefusedOK'
  <2>1. None \notin {400, 500}
    BY NoneAssumption
  <2> QED BY <1>2, <1>3, <2>1 DEF Alone, RefusedOK
<1> QED BY <1>4, <1>5, <1>6, <1>7 DEF Alone

(* Nothing is staged or renamed when the plan is made.                     *)
LEMMA ValidateAlone ==
  ASSUME Base, Base', Alone, NEW r \in Requests, Validate(r)
  PROVE  Alone'
<1> DEFINE t == thr[r]
<1>1. /\ thr \in [Requests -> Thread] /\ t \in Thread /\ ThreadOK(t) /\ t.pc = "validate"
      /\ UNCHANGED <<landed, staging, data>>
  BY TypeIs DEF Base, Validate, ThreadsOK, At
<1>2. t.plan = {} /\ t.at = 0 /\ t.done = 0
  BY <1>1 DEF ThreadOK, Untouched
<1>3. ASSUME NEW code \in {400, 500}, Answer(r, code)
      PROVE  Alone'
  <2>1. code \in {200, 400, 500} /\ t.pc \in {"validate", "stage", "unwind"}
    BY <1>1
  <2>2. /\ Ran(r) /\ thr'[r].pc = "over" /\ thr'[r].done = t.done
    BY <1>3, <2>1, AnswerRan
  <2>3. Blameless(thr'[r])
    BY <1>2, <2>2 DEF Blameless
  <2> QED BY <1>1, <2>2, <2>3, AloneQuiet
<1>4. CASE thr' = [thr EXCEPT ![r].pc = "stage", ![r].plan = Planned(thr[r].body)]
  <2>1. /\ thr'[r].pc = "stage" /\ thr'[r].plan = Planned(t.body) /\ thr'[r].body = t.body
        /\ thr'[r].at = 0 /\ thr'[r].done = 0 /\ thr'[r].reply = t.reply
        /\ \A q \in Requests \ {r} : thr'[q] = thr[q]
    BY <1>1, <1>2, <1>4 DEF Thread
  <2>2. Ran(r)
    BY <1>1, <1>2, <2>1 DEF Ran, InFlight
  <2>3. \A e \in thr'[r].plan : ~(e.idx < 0)
    <3>1. t.body \in Posted
      BY <1>1 DEF Thread
    <3>2. \A e \in thr'[r].plan : e \in Entry
      BY <2>1, <3>1, PlannedOK
    <3> QED BY <3>2, EntryIs
  <2>4. Carried(r)'
    BY <2>1, <2>3 DEF Carried
  <2>5. Blameless(thr'[r])
    BY <2>1 DEF Blameless
  <2>6. Touches(r)
    BY <1>1, QuietTouches
  <2>7. LandedOK'
    BY <1>1, <2>2, QuietLanded DEF Alone
  <2> QED BY <2>2, <2>4, <2>5, <2>6, <2>7, AloneRan
<1> QED BY <1>3, <1>4 DEF Validate

(* The stage of the next member is opened empty, and no stage made before  *)
(* is the same file.                                                       *)
LEMMA OpenAlone ==
  ASSUME Base, Base', Alone, NEW r \in Requests, Open(r)
  PROVE  Alone'
<1> DEFINE t == thr[r]
           e == Nth(r, t.at)
<1>1. /\ thr \in [Requests -> Thread] /\ Files /\ t.pc = "stage" /\ t.at # Cardinality(Plan(r))
      /\ landed' = landed
  BY TypeIs DEF Base, Open, At
<1>2. /\ t \in Thread /\ ThreadOK(t) /\ Plan(r) = t.plan /\ t.at \in Nat
      /\ e \in t.plan /\ e \in Entry /\ e.idx = t.at /\ t.done = 0
      /\ \A x \in t.plan : x.idx = t.at => x = e
  BY <1>1, StageIs
<1>3. e.slot \in Slot /\ e.idx \in Indices /\ e.idx \in Nat /\ e.slot.sid \in Sids(t.body)
  BY <1>2, EntryIs, PlanIs
<1>4. CASE Fault(r, "open", Staged(r)) /\ UNCHANGED <<staging, data>>
  <2>1. "open" \in Faults /\ t.pc \in {"stage", "write", "unwind"}
    BY <1>1 DEF Faults
  <2>2. Staged(r) \in SUBSET t.plan
    BY <1>1, StagedIs
  <2> QED BY <1>1, <1>2, <1>4, <2>1, <2>2, FaultAlone
<1>5. ASSUME NEW f, f = (IF staging[e.slot][e.idx] = None THEN [req |-> r, idx |-> e.idx]
                                                          ELSE staging[e.slot][e.idx]),
             staging' = [staging EXCEPT ![e.slot][e.idx] = f],
             data' = [data EXCEPT ![f] = Empty],
             thr' = [thr EXCEPT ![r].pc = "write", ![r].fd = f]
      PROVE  Alone'
  <2>1. f \in Inode
    BY <1>1, <1>3, <1>5, NoneAssumption DEF Files, Inode
  <2>2. /\ thr'[r].pc = "write" /\ thr'[r].fd = f /\ thr'[r].plan = t.plan /\ thr'[r].body = t.body
        /\ thr'[r].at = t.at /\ thr'[r].done = t.done /\ thr'[r].reply = t.reply
        /\ \A q \in Requests \ {r} : thr'[q] = thr[q]
    BY <1>1, <1>2, <1>5 DEF Thread
  <2>3. Ran(r)
    BY <1>1, <1>2, <2>2 DEF Ran, InFlight
  <2>4. \A s \in Slot, i \in Indices :
          staging'[s][i] = IF s = e.slot /\ i = e.idx THEN f ELSE staging[s][i]
    BY <1>1, <1>3, <1>5 DEF Files
  <2>5. /\ data'[f] = Empty /\ \A g \in Inode : g # f => data'[g] = data[g]
    BY <1>1, <1>5, <2>1 DEF Files
  <2>6. /\ \A s \in Slot : landed[s] # None => landed[s] # f
        /\ \A s \in Slot, i \in Indices :
             staging[s][i] # None /\ ~(s = e.slot /\ i = e.idx) => staging[s][i] # f
    <3>1. CASE staging[e.slot][e.idx] = None
      <4>1. f.req = r /\ f.idx = e.idx
        BY <1>5, <3>1
      <4>2. ~Opened(f)
        BY <1>1, <1>2, <4>1, OpenedIs DEF Past
      <4> QED BY <4>2 DEF Base, OpenedOK
    <3>2. CASE staging[e.slot][e.idx] # None
      <4>1. f = staging[e.slot][e.idx]
        BY <1>5, <3>2
      <4> QED BY <1>3, <3>2, <4>1 DEF Base, NamesOK
    <3> QED BY <3>1, <3>2
  <2> HIDE DEF e, t
  <2>7. /\ \A s \in Slot : landed[s] # None => data'[landed[s]] = data[landed[s]]
        /\ \A s \in Slot, i \in Indices :
             staging[s][i] # None /\ ~(s = e.slot /\ i = e.idx) =>
               staging'[s][i] = staging[s][i] /\ data'[staging[s][i]] = data[staging[s][i]]
    BY <1>1, <2>4, <2>5, <2>6 DEF Files
  <2>8. Touches(r)
    <3> SUFFICES ASSUME NEW s \in Slot, s.sid \notin Sids(thr[r].body)
                 PROVE  /\ landed'[s] = landed[s] /\ \A i \in Indices : staging'[s][i] = staging[s][i]
                        /\ landed[s] # None => data'[landed[s]] = data[landed[s]]
                        /\ \A i \in Indices : staging[s][i] # None =>
                             data'[staging[s][i]] = data[staging[s][i]]
      BY DEF Touches
    <3>1. s # e.slot
      BY <1>3 DEF t
    <3> QED BY <1>1, <2>4, <2>7, <3>1
  <2>9. LandedOK'
    BY <1>1, <2>3, <2>7, LandedStays DEF Alone, LandedOK, Plan
  <2>10. Carried(r)'
    <3>1. ASSUME NEW x \in t.plan, t.done <= x.idx, x.idx < t.at
          PROVE  /\ staging'[x.slot][x.idx] # None
                 /\ data'[staging'[x.slot][x.idx]] = [req |-> r, pos |-> x.pos]
      <4>1. x \in Entry
        BY <1>2 DEF Thread
      <4>2. x.slot \in Slot /\ x.idx \in Indices /\ x.idx \in Nat
        BY <4>1, EntryIs
      <4>3. x.idx # e.idx
        BY <1>2, <3>1, <4>2
      <4>4. /\ staging[x.slot][x.idx] # None
            /\ data[staging[x.slot][x.idx]] = [req |-> r, pos |-> x.pos]
        BY <1>1, <3>1 DEF Alone, Carried, t
      <4> QED BY <2>7, <4>2, <4>3, <4>4
    <3>2. \A x \in t.plan : ~(x.idx < t.done)
      <4> TAKE x \in t.plan
      <4>1. x \in Entry
        BY <1>2 DEF Thread
      <4>2. x.idx \in Nat
        BY <4>1, EntryIs
      <4> QED BY <1>2, <4>2
    <3>3. \A x \in t.plan : x.idx = t.at => staging'[x.slot][x.idx] = f
      BY <1>2, <1>3, <2>4
    <3> QED BY <2>2, <2>5, <3>1, <3>2, <3>3 DEF Carried
  <2>11. Blameless(thr'[r])
    BY <1>2, <2>2 DEF Blameless
  <2> QED BY <2>3, <2>8, <2>9, <2>10, <2>11, AloneRan
<1> DEFINE g == IF staging[e.slot][e.idx] = None THEN [req |-> r, idx |-> e.idx]
                                                 ELSE staging[e.slot][e.idx]
<1>6. \/ /\ staging' = [staging EXCEPT ![e.slot][e.idx] = g]
         /\ data' = [data EXCEPT ![g] = Empty]
         /\ thr' = [thr EXCEPT ![r].pc = "write", ![r].fd = g]
      \/ Fault(r, "open", Staged(r)) /\ UNCHANGED <<staging, data>>
  BY DEF Open
<1> QED BY <1>4, <1>5, <1>6

(* A thread that writes writes alone.                                      *)
LEMMA WriteAlone ==
  ASSUME Base, Base', Alone, NEW r \in Requests, Write(r)
  PROVE  Alone'
<1> DEFINE t == thr[r]
           e == Nth(r, t.at)
           f == t.fd
           d == [req |-> r, pos |-> e.pos]
<1>1. /\ thr \in [Requests -> Thread] /\ Files /\ t.pc = "write" /\ UNCHANGED <<landed, staging>>
  BY TypeIs DEF Base, Write, At
<1>2. /\ t \in Thread /\ ThreadOK(t) /\ Plan(r) = t.plan /\ t.at \in Nat /\ t.done \in Nat
      /\ Cardinality(t.plan) \in Nat
  BY <1>1, StageIs
<1>3. t.at < Cardinality(t.plan) /\ f \in Inode /\ f # None
  BY <1>1, <1>2 DEF ThreadOK, Thread, Handles
<1>4. t.at # Cardinality(Plan(r))
  BY <1>2, <1>3
<1>5. /\ e \in t.plan /\ e \in Entry /\ e.idx = t.at /\ t.done = 0
      /\ \A x \in t.plan : x.idx = t.at => x = e
  BY <1>1, <1>2, <1>4, StageIs
<1>6. e.slot \in Slot /\ e.idx \in Indices /\ e.idx \in Nat /\ e.slot.sid \in Sids(t.body)
  BY <1>2, <1>5, EntryIs, PlanIs
<1>7. staging[e.slot][e.idx] = f /\ data[f] = Empty
  BY <1>1, <1>5 DEF Alone, Carried
<1>8. ~Contended(r)
  <2> SUFFICES ASSUME NEW q \in Requests \ {r}, thr[q].fd = f PROVE FALSE
    BY <1>7 DEF Contended
  <2>1. thr[q] \in Thread /\ ThreadOK(thr[q]) /\ thr[q].pc = "write"
    BY <1>1, <1>3 DEF Base, ThreadsOK, ThreadOK
  <2> DEFINE c == Cardinality(Plan(q))
             a == thr[q].at
  <2>2. a # c
    <3>1. a < c /\ a \in Nat /\ c \in Nat
      BY <2>1, StageIs DEF ThreadOK
    <3> HIDE DEF a, c
    <3> QED BY <3>1
  <2> DEFINE x == Nth(q, thr[q].at)
  <2>3. x \in thr[q].plan /\ x.idx = thr[q].at
    BY <2>1, <2>2, StageIs
  <2> HIDE DEF x
  <2>4. staging[x.slot][x.idx] = f
    BY <2>1, <2>3 DEF Alone, Carried
  <2>5. InFlight(q) /\ InFlight(r) /\ q # r
    BY <1>1, <2>1 DEF InFlight
  <2>6. x.slot \in Slot /\ x.idx \in Indices /\ x.slot.sid \notin Sids(t.body)
    BY <2>3, <2>5, Elsewhere DEF Alone
  <2>7. x.slot = e.slot
    BY <1>3, <1>6, <1>7, <2>4, <2>6 DEF Base, NamesOK
  <2> QED BY <1>6, <2>6, <2>7
<1>9. CASE Fault(r, "write", Staged(r)) /\ data' = data
  <2>1. /\ "write" \in Faults /\ t.pc \in {"stage", "write", "unwind"} /\ Staged(r) \in SUBSET t.plan
    BY <1>1, <1>2 DEF Faults, Staged
  <2> QED BY <1>1, <1>5, <1>9, <2>1, FaultAlone
<1>10. ASSUME data' = [data EXCEPT ![f] = d],
              thr' = [thr EXCEPT ![r].pc = "stage", ![r].fd = None, ![r].at = @ + 1]
       PROVE  Alone'
  <2>2. /\ thr'[r].pc = "stage" /\ thr'[r].plan = t.plan /\ thr'[r].body = t.body
        /\ thr'[r].at = t.at + 1 /\ thr'[r].done = t.done /\ thr'[r].reply = t.reply
        /\ \A q \in Requests \ {r} : thr'[q] = thr[q]
    BY <1>1, <1>2, <1>10 DEF Thread
  <2>3. Ran(r)
    BY <1>1, <1>2, <2>2 DEF Ran, InFlight
  <2>5. /\ data'[f] = d /\ \A g \in Inode : g # f => data'[g] = data[g]
    BY <1>1, <1>3, <1>10 DEF Files
  <2>6. /\ \A s \in Slot : landed[s] # None => landed[s] # f
        /\ \A s \in Slot, i \in Indices :
             staging[s][i] # None /\ ~(s = e.slot /\ i = e.idx) => staging[s][i] # f
    BY <1>3, <1>6, <1>7 DEF Base, NamesOK
  <2> HIDE DEF e, t, f, d
  <2>7. /\ \A s \in Slot : landed[s] # None => data'[landed[s]] = data[landed[s]]
        /\ \A s \in Slot, i \in Indices :
             staging[s][i] # None /\ ~(s = e.slot /\ i = e.idx) =>
               data'[staging[s][i]] = data[staging[s][i]]
    BY <1>1, <2>5, <2>6 DEF Files
  <2>8. Touches(r)
    <3> SUFFICES ASSUME NEW s \in Slot, s.sid \notin Sids(thr[r].body)
                 PROVE  /\ landed'[s] = landed[s] /\ \A i \in Indices : staging'[s][i] = staging[s][i]
                        /\ landed[s] # None => data'[landed[s]] = data[landed[s]]
                        /\ \A i \in Indices : staging[s][i] # None =>
                             data'[staging[s][i]] = data[staging[s][i]]
      BY DEF Touches
    <3>1. s # e.slot
      BY <1>6 DEF t
    <3> QED BY <1>1, <2>7, <3>1
  <2>9. LandedOK'
    BY <1>1, <2>3, <2>7, LandedStays DEF Alone, LandedOK, Plan
  <2>10. Carried(r)'
    <3>1. ASSUME NEW x \in t.plan, t.done <= x.idx, x.idx < t.at + 1
          PROVE  /\ staging'[x.slot][x.idx] # None
                 /\ data'[staging'[x.slot][x.idx]] = [req |-> r, pos |-> x.pos]
      <4>1. x \in Entry
        BY <1>2 DEF Thread
      <4>2. x.slot \in Slot /\ x.idx \in Indices /\ x.idx \in Nat
        BY <4>1, EntryIs
      <4>3. CASE x.idx < t.at
        <5>1. x.idx # e.idx
          BY <1>2, <1>5, <4>2, <4>3
        <5>2. /\ staging[x.slot][x.idx] # None
              /\ data[staging[x.slot][x.idx]] = [req |-> r, pos |-> x.pos]
          BY <1>1, <3>1, <4>3 DEF Alone, Carried, t
        <5> QED BY <1>1, <2>7, <4>2, <5>1, <5>2
      <4>4. CASE x.idx = t.at
        <5>1. x = e
          BY <1>5, <4>4
        <5> QED BY <1>1, <1>3, <1>7, <2>5, <5>1 DEF d
      <4> QED BY <1>2, <3>1, <4>2, <4>3, <4>4
    <3>2. \A x \in t.plan : ~(x.idx < t.done)
      <4> TAKE x \in t.plan
      <4>1. x \in Entry
        BY <1>2 DEF Thread
      <4>2. x.idx \in Nat
        BY <4>1, EntryIs
      <4> QED BY <1>5, <4>2
    <3> QED BY <2>2, <3>1, <3>2 DEF Carried
  <2>11. Blameless(thr'[r])
    BY <1>5, <2>2 DEF Blameless
  <2> QED BY <2>3, <2>8, <2>9, <2>10, <2>11, AloneRan
<1>11. \/ /\ data' = [data EXCEPT ![f] = d]
          /\ thr' = [thr EXCEPT ![r].pc = "stage", ![r].fd = None, ![r].at = @ + 1]
       \/ Fault(r, "write", Staged(r)) /\ data' = data
  BY <1>8 DEF Write
<1> QED BY <1>9, <1>10, <1>11

(* The next member lands with its own text: its stage is still there.      *)
LEMMA RenameAlone ==
  ASSUME Base, Base', Alone, NEW r \in Requests, Rename(r)
  PROVE  Alone'
<1> DEFINE t == thr[r]
           e == Nth(r, t.done)
           f == staging[e.slot][e.idx]
<1>1. /\ thr \in [Requests -> Thread] /\ Files /\ t.pc = "stage" /\ t.done # Cardinality(Plan(r))
      /\ t.at = Cardinality(Plan(r)) /\ data' = data
  BY TypeIs DEF Base, Rename, At, AllStaged, Renamed
<1>2. /\ t \in Thread /\ ThreadOK(t) /\ Plan(r) = t.plan /\ t.at \in Nat /\ t.done \in Nat
      /\ e \in t.plan /\ e \in Entry /\ e.idx = t.done /\ t.done < Cardinality(t.plan)
      /\ \A x \in t.plan : x.idx = t.done => x = e
  BY <1>1, StageIs
<1>3. e.slot \in Slot /\ e.idx \in Indices /\ e.idx \in Nat /\ e.slot.sid \in Sids(t.body)
  BY <1>2, EntryIs, PlanIs
<1>4. f # None /\ data[f] = [req |-> r, pos |-> e.pos]
  <2>1. t.done <= e.idx /\ e.idx < t.at
    BY <1>1, <1>2
  <2> QED BY <1>1, <1>2, <2>1 DEF Alone, Carried
<1>5. CASE Fault(r, "rename", Staged(r)) /\ UNCHANGED <<landed, staging>>
  <2>1. "rename" \in Faults /\ t.pc \in {"stage", "write", "unwind"}
    BY <1>1 DEF Faults
  <2>2. Staged(r) \in SUBSET t.plan
    BY <1>1, StagedIs
  <2> QED BY <1>1, <1>5, <2>1, <2>2, FaultAlone
<1>6. ASSUME landed' = [landed EXCEPT ![e.slot] = f],
             staging' = [staging EXCEPT ![e.slot][e.idx] = None],
             thr' = [thr EXCEPT ![r].done = @ + 1]
      PROVE  Alone'
  <2>2. /\ thr'[r].pc = "stage" /\ thr'[r].plan = t.plan /\ thr'[r].body = t.body
        /\ thr'[r].at = t.at /\ thr'[r].done = t.done + 1 /\ thr'[r].reply = t.reply
        /\ \A q \in Requests \ {r} : thr'[q] = thr[q]
    BY <1>1, <1>2, <1>6 DEF Thread
  <2>3. Ran(r)
    BY <1>1, <1>2, <2>2 DEF Ran, InFlight
  <2>4. \A s \in Slot, i \in Indices :
          staging'[s][i] = IF s = e.slot /\ i = e.idx THEN None ELSE staging[s][i]
    BY <1>1, <1>3, <1>6 DEF Files
  <2>5. \A s \in Slot : landed'[s] = IF s = e.slot THEN f ELSE landed[s]
    BY <1>1, <1>3, <1>6 DEF Files
  <2>6. t.reply = None
    BY <1>1, <1>2 DEF ThreadOK
  <2>7. \A x, y \in t.plan : x.slot.sid = y.slot.sid => x = y
    BY <1>2, PlanIs
  <2> HIDE DEF e, t, f
  <2>8. Touches(r)
    <3> SUFFICES ASSUME NEW s \in Slot, s.sid \notin Sids(thr[r].body)
                 PROVE  landed'[s] = landed[s] /\ \A i \in Indices : staging'[s][i] = staging[s][i]
      BY <1>1 DEF Touches
    <3>1. s # e.slot
      BY <1>3 DEF t
    <3> QED BY <2>4, <2>5, <3>1
  <2>9. LandedOK'
    <3>1. ASSUME NEW s \in Slot, landed'[s] # None, s # e.slot
          PROVE  /\ data'[landed'[s]] \in Text
                 /\ \E x \in thr'[data'[landed'[s]].req].plan :
                      /\ x.slot = s /\ x.pos = data'[landed'[s]].pos
                      /\ x.idx < thr'[data'[landed'[s]].req].done
      <4>1. landed'[s] = landed[s] /\ landed[s] # None /\ data'[landed[s]] = data[landed[s]]
        BY <1>1, <2>5, <3>1
      <4> QED BY <2>3, <4>1, LandedStays DEF Alone
    <3>2. /\ data'[f] \in Text
          /\ \E x \in thr'[data'[f].req].plan :
               x.slot = e.slot /\ x.pos = data'[f].pos /\ x.idx < thr'[data'[f].req].done
      <4>1. e.pos \in Places
        BY <1>2, EntryIs
      <4>2. data'[f] = [req |-> r, pos |-> e.pos]
        BY <1>1, <1>4
      <4>3. e.idx < t.done + 1
        BY <1>2
      <4> QED BY <1>2, <2>2, <4>1, <4>2, <4>3 DEF Text
    <3>3. landed'[e.slot] = f
      BY <1>3, <2>5
    <3> QED BY <3>1, <3>2, <3>3 DEF LandedOK, Plan
  <2>10. Carried(r)'
    <3>0. \A x \in t.plan : x \in Entry /\ x.slot \in Slot /\ x.idx \in Indices /\ x.idx \in Nat
      <4> TAKE x \in t.plan
      <4>1. x \in Entry
        BY <1>2 DEF Thread
      <4> QED BY <4>1, EntryIs
    <3>1. ASSUME NEW x \in t.plan, t.done + 1 <= x.idx, x.idx < t.at
          PROVE  /\ staging'[x.slot][x.idx] # None
                 /\ data'[staging'[x.slot][x.idx]] = [req |-> r, pos |-> x.pos]
      <4>1. x.idx # e.idx /\ t.done <= x.idx
        BY <1>2, <3>0, <3>1
      <4>2. /\ staging[x.slot][x.idx] # None
            /\ data[staging[x.slot][x.idx]] = [req |-> r, pos |-> x.pos]
        BY <1>1, <3>1, <4>1 DEF Alone, Carried, t
      <4> QED BY <1>1, <2>4, <3>0, <4>1, <4>2
    <3>2. ASSUME NEW x \in t.plan, x.idx < t.done + 1
          PROVE  /\ landed'[x.slot] # None
                 /\ data'[landed'[x.slot]] = [req |-> r, pos |-> x.pos]
      <4>1. CASE x = e
        BY <1>1, <1>3, <1>4, <2>5, <4>1
      <4>2. CASE x # e
        <5>1. x.idx < t.done
          BY <1>2, <3>0, <3>2, <4>2
        <5>2. /\ landed[x.slot] # None
              /\ data[landed[x.slot]] = [req |-> r, pos |-> x.pos]
          BY <1>1, <5>1 DEF Alone, Carried, t
        <5>3. x.slot # e.slot
          BY <1>2, <2>7, <4>2
        <5> QED BY <1>1, <2>5, <3>0, <5>2, <5>3
      <4> QED BY <4>1, <4>2
    <3> QED BY <2>2, <3>1, <3>2 DEF Carried
  <2>11. Blameless(thr'[r])
    <3>1. None \notin {400, 500}
      BY NoneAssumption
    <3> QED BY <2>2, <2>6, <3>1 DEF Blameless
  <2> QED BY <2>3, <2>8, <2>9, <2>10, <2>11, AloneRan
<1>8. \/ /\ landed' = [landed EXCEPT ![e.slot] = f]
         /\ staging' = [staging EXCEPT ![e.slot][e.idx] = None]
         /\ thr' = [thr EXCEPT ![r].done = @ + 1]
      \/ Fault(r, "rename", Staged(r)) /\ UNCHANGED <<landed, staging>>
  BY <1>4 DEF Rename
<1> QED BY <1>5, <1>6, <1>8

(* An unlink is on the handler's own stage.                                *)
LEMMA UnlinkAlone ==
  ASSUME Base, Base', Alone, NEW r \in Requests, NEW e \in thr[r].left, Unlink(r, e)
  PROVE  Alone'
<1> DEFINE t == thr[r]
<1>1. /\ thr \in [Requests -> Thread] /\ Files /\ t.pc = "unwind" /\ UNCHANGED <<landed, data>>
  BY TypeIs DEF Base, Unlink, At
<1>2. /\ t \in Thread /\ ThreadOK(t) /\ t.left \in SUBSET t.plan
  BY <1>1 DEF Base, ThreadsOK, ThreadOK
<1>3. e.slot \in Slot /\ e.idx \in Indices /\ e.slot.sid \in Sids(t.body)
  BY <1>2, EntryIs, PlanIs
<1>4. CASE Fault(r, "unlink", t.left \ {e}) /\ staging' = staging
  <2>1. "unlink" \in Faults /\ t.pc \in {"stage", "write", "unwind"} /\ t.left \ {e} \in SUBSET t.plan
    BY <1>1, <1>2 DEF Faults
  <2> QED BY <1>1, <1>4, <2>1, FaultAlone
<1>5. ASSUME staging' = [staging EXCEPT ![e.slot][e.idx] = None],
             thr' = [thr EXCEPT ![r].left = @ \ {e}]
      PROVE  Alone'
  <2>1. /\ thr'[r].pc = "unwind" /\ thr'[r].plan = t.plan /\ thr'[r].body = t.body
        /\ thr'[r].done = t.done /\ thr'[r].reply = t.reply /\ thr'[r].faults = t.faults
        /\ \A q \in Requests \ {r} : thr'[q] = thr[q]
    BY <1>1, <1>2, <1>5 DEF Thread
  <2>2. Ran(r)
    BY <1>1, <1>2, <2>1 DEF Ran, InFlight, Thread
  <2>3. \A s \in Slot, i \in Indices :
          staging'[s][i] = IF s = e.slot /\ i = e.idx THEN None ELSE staging[s][i]
    BY <1>1, <1>3, <1>5 DEF Files
  <2>4. Touches(r)
    <3> SUFFICES ASSUME NEW s \in Slot, s.sid \notin Sids(thr[r].body)
                 PROVE  \A i \in Indices : staging'[s][i] = staging[s][i]
      BY <1>1 DEF Touches
    <3> QED BY <1>3, <2>3
  <2>5. Carried(r)'
    BY <2>1 DEF Carried
  <2>6. LandedOK'
    BY <1>1, <2>2, QuietLanded DEF Alone
  <2>7. Blameless(thr'[r])
    BY <1>1, <2>1 DEF Alone, RefusedOK, Blameless
  <2> QED BY <2>2, <2>4, <2>5, <2>6, <2>7, AloneRan
<1> QED BY <1>4, <1>5 DEF Unlink

(* The error is answered.                                                  *)
LEMMA UnwindDoneAlone ==
  ASSUME Base, Base', Alone, NEW r \in Requests, UnwindDone(r)
  PROVE  Alone'
<1>1. /\ thr[r].pc \in {"validate", "stage", "unwind"} /\ thr[r].pc = "unwind"
      /\ Answer(r, 500) /\ UNCHANGED <<landed, staging, data>> /\ 500 \in {200, 400, 500}
  BY DEF UnwindDone, At
<1>2. /\ Ran(r) /\ thr'[r].pc = "over" /\ thr'[r].reply = 500
      /\ thr'[r].done = thr[r].done /\ thr'[r].faults = thr[r].faults
  BY <1>1, AnswerRan
<1>3. Blameless(thr'[r])
  BY <1>1, <1>2 DEF Alone, RefusedOK, Blameless
<1> QED BY <1>1, <1>2, <1>3, AloneQuiet

(* The 200 is answered.                                                    *)
LEMMA CountAlone ==
  ASSUME Base, Base', Alone, NEW r \in Requests, Count(r)
  PROVE  Alone'
<1>1. /\ thr[r].pc \in {"validate", "stage", "unwind"} /\ Answer(r, 200)
      /\ UNCHANGED <<landed, staging, data>> /\ 200 \in {200, 400, 500}
  BY DEF Count, At
<1>2. Ran(r) /\ thr'[r].pc = "over" /\ thr'[r].reply = 200
  BY <1>1, AnswerRan
<1>3. Blameless(thr'[r])
  BY <1>2 DEF Blameless
<1> QED BY <1>1, <1>2, <1>3, AloneQuiet

(* A stop touches no file and answers nothing.                             *)
LEMMA StopAlone ==
  ASSUME Base, Alone, Stop
  PROVE  Alone'
<1>1. UNCHANGED <<landed, staging, data>> /\ thr \in [Requests -> Thread] /\ ThreadsOK
  BY TypeIs DEF Base, Stop
<1>2. thr' = [r \in Requests |-> Stopped(thr[r])]
  BY DEF Stop, InFlight, Stopped
<1>3. ASSUME NEW q \in Requests
      PROVE  /\ thr'[q].plan = thr[q].plan /\ thr'[q].done = thr[q].done
             /\ thr'[q].reply = thr[q].reply /\ thr'[q].faults = thr[q].faults
             /\ thr'[q].pc \in {"new", "over"}
  <2>1. PICK u : u = Stopped(thr[q])
    OBVIOUS
  <2>2. thr'[q] = u /\ thr[q] \in Thread /\ ThreadOK(thr[q])
    BY <1>1, <1>2, <2>1 DEF ThreadsOK
  <2>3. /\ u.plan = thr[q].plan /\ u.done = thr[q].done /\ u.faults = thr[q].faults
        /\ u.reply = thr[q].reply /\ u.pc \in {"new", "over"}
    BY <2>1, <2>2, StoppedOK
  <2> QED BY <2>2, <2>3
<1>4. Apart' /\ \A q \in Requests : Carried(q)'
  BY <1>3 DEF Apart, InFlight, Carried
<1>5. LandedOK'
  <2> SUFFICES ASSUME NEW s \in Slot, landed[s] # None
               PROVE  /\ data[landed[s]] \in Text
                      /\ \E e \in thr'[data[landed[s]].req].plan :
                           /\ e.slot = s /\ e.pos = data[landed[s]].pos
                           /\ e.idx < thr'[data[landed[s]].req].done
    BY <1>1 DEF LandedOK, Plan
  <2>2. data[landed[s]] \in Text /\ data[landed[s]].req \in Requests
    BY DEF Alone, LandedOK, Text
  <2> QED BY <1>3, <2>2 DEF Alone, LandedOK, Plan
<1>6. RefusedOK'
  BY <1>3 DEF Alone, RefusedOK
<1> QED BY <1>4, <1>5, <1>6 DEF Alone

(* A step of no thread and no file.                                        *)
LEMMA AloneStays ==
  ASSUME Alone, UNCHANGED <<landed, staging, data, thr>>
  PROVE  Alone'
<1>1. Apart' /\ \A q \in Requests : Carried(q)'
  BY DEF Alone, Apart, InFlight, Carried
<1>2. LandedOK' /\ RefusedOK'
  BY DEF Alone, LandedOK, RefusedOK, Plan
<1> QED BY <1>1, <1>2 DEF Alone

(* Every step keeps the second part of the invariant when requests do not  *)
(* overlap.                                                                *)
LEMMA AloneStep ==
  ASSUME Base, Base', Alone, ~Overlapping, [Next]_vars
  PROVE  Alone'
<1>1. ASSUME NEW r \in Requests, NEW b \in Bodies, Arrive(r, b)
      PROVE  Alone'
  BY <1>1, ArriveAlone
<1>2. ASSUME NEW r \in Requests, HandlerStep(r)
      PROVE  Alone'
  BY <1>2, ValidateAlone, OpenAlone, WriteAlone, RenameAlone, UnlinkAlone, UnwindDoneAlone, CountAlone
  DEF HandlerStep
<1>3. CASE Stop
  BY <1>3, StopAlone
<1>4. CASE Boot
  BY <1>4, AloneStays DEF Boot
<1>5. CASE UNCHANGED vars
  BY <1>5, AloneStays DEF vars
<1> QED BY <1>1, <1>2, <1>3, <1>4, <1>5 DEF Next

(* It holds at the start.                                                  *)
LEMMA InitAlone == Init => Alone
BY NoneAssumption DEF Init, NewThread, Alone, Apart, InFlight, Carried, LandedOK, RefusedOK

-----------------------------------------------------------------------------
(* What follows.                                                           *)

(* What landed is the text of a planned member, whose slot is that of its  *)
(* session and verdict.                                                    *)
LEMMA AloneLanded == Base /\ Alone => LandedWhole
<1> SUFFICES ASSUME Base, Alone, NEW s \in Slot, landed[s] # None
             PROVE  /\ data[landed[s]] \in Text /\ SlotOf(TextOf(landed[s])) = s
  BY DEF LandedWhole
<1> DEFINE d == data[landed[s]]
<1>1. d \in Text /\ d.req \in Requests
  BY DEF Alone, LandedOK, Text
<1>2. PICK e \in thr[d.req].plan : e.slot = s /\ e.pos = d.pos
  BY DEF Alone, LandedOK, Plan
<1>3. thr[d.req] \in Thread /\ ThreadOK(thr[d.req])
  BY <1>1, TypeIs DEF Base, ThreadsOK
<1>4. e.slot = SlotOf(thr[d.req].body[e.pos])
  BY <1>2, <1>3, PlanIs
<1> QED BY <1>1, <1>2, <1>4 DEF TextOf

(* A request that has renamed nothing has landed nothing.                  *)
LEMMA AloneRefused == Base /\ Alone => RefusedLandsNothing
<1> SUFFICES ASSUME Base, Alone, NEW r \in Requests, thr[r].reply \in {400, 500},
                    "rename" \notin thr[r].faults, NEW s \in Slot, LandedFrom(r, s)
             PROVE  FALSE
  BY DEF RefusedLandsNothing
<1>1. thr[r].done = 0
  BY DEF Alone, RefusedOK
<1>2. PICK e \in thr[r].plan : e.idx < thr[r].done
  BY DEF Alone, LandedOK, LandedFrom, Plan
<1>3. thr[r] \in Thread
  BY TypeIs DEF Base
<1>4. e \in Entry
  BY <1>2, <1>3 DEF Thread
<1>5. e.idx \in Nat
  BY <1>4, EntryIs
<1> QED BY <1>1, <1>2, <1>5

(* Only Count answers 200.                                                 *)
LEMMA Accepts ==
  ASSUME Base, [Next]_vars, NEW r \in Requests, thr[r].reply = None, thr'[r].reply = 200
  PROVE  Count(r)
<1>0. thr \in [Requests -> Thread] /\ None # 200 /\ 200 \notin {400, 500}
  BY TypeIs, NoneAssumption DEF Base
<1> SUFFICES ASSUME ~Count(r) PROVE FALSE
  OBVIOUS
<1>1. ASSUME NEW q \in Requests, NEW kind, NEW left, Fault(q, kind, left)
      PROVE  thr'[r].reply = thr[r].reply
  BY <1>0, <1>1 DEF Fault, Thread
<1>2. ASSUME NEW q \in Requests, NEW code \in {200, 400, 500}, Answer(q, code), q = r => code # 200
      PROVE  thr'[r].reply \in {thr[r].reply, 400, 500}
  BY <1>0, <1>2 DEF Answer, Thread
<1>3. ASSUME NEW q \in Requests, NEW b \in Bodies, Arrive(q, b)
      PROVE  FALSE
  BY <1>0, <1>3 DEF Arrive, Thread
<1>4. ASSUME NEW q \in Requests, HandlerStep(q)
      PROVE  FALSE
  <2>1. CASE Validate(q)
    <3>1. CASE Answer(q, 400)
      BY <1>0, <1>2, <3>1
    <3>2. CASE Answer(q, 500)
      BY <1>0, <1>2, <3>2
    <3>3. CASE thr' = [thr EXCEPT ![q].pc = "stage", ![q].plan = Planned(thr[q].body)]
      BY <1>0, <3>3 DEF Thread
    <3> QED BY <2>1, <3>1, <3>2, <3>3 DEF Validate
  <2>2. CASE Open(q)
    <3>1. ASSUME NEW f, thr' = [thr EXCEPT ![q].pc = "write", ![q].fd = f]
          PROVE  FALSE
      BY <1>0, <3>1 DEF Thread
    <3>2. CASE Fault(q, "open", Staged(q))
      BY <1>0, <1>1, <3>2
    <3> DEFINE e == Nth(q, thr[q].at)
               g == IF staging[e.slot][e.idx] = None THEN [req |-> q, idx |-> e.idx]
                                                    ELSE staging[e.slot][e.idx]
    <3>3. \/ thr' = [thr EXCEPT ![q].pc = "write", ![q].fd = g]
          \/ Fault(q, "open", Staged(q))
      BY <2>2 DEF Open
    <3> HIDE DEF g
    <3> QED BY <3>1, <3>2, <3>3
  <2>3. CASE Write(q)
    <3>1. CASE thr' = [thr EXCEPT ![q].pc = "stage", ![q].fd = None, ![q].at = @ + 1]
      BY <1>0, <3>1 DEF Thread
    <3> QED BY <1>0, <1>1, <2>3, <3>1 DEF Write
  <2>4. CASE Rename(q)
    <3>1. CASE thr' = [thr EXCEPT ![q].done = @ + 1]
      BY <1>0, <3>1 DEF Thread
    <3>2. CASE thr' = [thr EXCEPT ![q].pc = "unwind", ![q].left = Staged(q)]
      BY <1>0, <3>2 DEF Thread
    <3> QED BY <1>0, <1>1, <2>4, <3>1, <3>2 DEF Rename
  <2>5. CASE UnwindDone(q)
    BY <1>0, <1>2, <2>5 DEF UnwindDone
  <2>6. CASE Count(q)
    <3>1. q # r /\ Answer(q, 200)
      BY <2>6 DEF Count
    <3> QED BY <1>0, <1>2, <3>1
  <2>7. ASSUME NEW e \in thr[q].left, Unlink(q, e)
        PROVE  FALSE
    <3>1. CASE thr' = [thr EXCEPT ![q].left = @ \ {e}]
      BY <1>0, <3>1 DEF Thread
    <3> QED BY <1>0, <1>1, <2>7, <3>1 DEF Unlink
  <2> QED BY <1>4, <2>1, <2>2, <2>3, <2>4, <2>5, <2>6, <2>7 DEF HandlerStep
<1>5. CASE Stop
  <2>1. thr'[r] = IF InFlight(r) THEN [thr[r] EXCEPT !.pc = "over", !.fd = None] ELSE thr[r]
    BY <1>5 DEF Stop
  <2>2. thr[r] \in Thread
    BY <1>0
  <2> QED BY <1>0, <2>1, <2>2 DEF Thread
<1>6. CASE Boot
  BY <1>0, <1>6 DEF Boot
<1>7. CASE UNCHANGED vars
  BY <1>0, <1>7 DEF vars
<1> QED BY <1>3, <1>4, <1>5, <1>6, <1>7 DEF Next

(* At the count every last result of the envelope has landed.              *)
LEMMA CountLands ==
  ASSUME Base, Alone, NEW r \in Requests, Count(r), NEW i \in DOMAIN thr[r].body,
         \A j \in DOMAIN thr[r].body : j > i => thr[r].body[j].sid # thr[r].body[i].sid
  PROVE  /\ landed[SlotOf(thr[r].body[i])] # None
         /\ data[landed[SlotOf(thr[r].body[i])]] = [req |-> r, pos |-> i]
<1> DEFINE t == thr[r]
<1>1. t.pc = "stage" /\ t.done = Cardinality(t.plan)
  BY DEF Count, At, Renamed, Plan
<1>2. t \in Thread /\ ThreadOK(t)
  BY TypeIs DEF Base, ThreadsOK
<1>3. t.plan = Planned(t.body) /\ t.body \in Posted
  BY <1>1, <1>2 DEF ThreadOK, Thread
<1>4. PICK e \in t.plan : e.pos = i
  BY <1>3, PlannedOK
<1>5. e.slot = SlotOf(t.body[i]) /\ e.idx < t.done
  BY <1>1, <1>3, <1>4, PlannedOK DEF Numbered
<1> QED BY <1>1, <1>4, <1>5 DEF Alone, Carried

(* The inductive invariant of the receiver.                                *)
THEOREM Inductive == Spec => []IndInv
<1>1. Init => IndInv
  BY InitBase, InitAlone DEF IndInv
<1>2. IndInv /\ [Next]_vars => IndInv'
  BY BaseStep, AloneStep DEF IndInv
<1> QED BY <1>1, <1>2, PTL DEF Spec

(* Files, threads and counters have their types.                           *)
THEOREM Types == Spec => []TypeOK
<1>1. IndInv => TypeOK
  BY DEF IndInv, Base
<1> QED BY <1>1, Inductive, PTL

(* Only a stop, a write or an unlink that failed leaves a staged file      *)
(* behind its request.                                                     *)
THEOREM StagesGone == Spec => []NoOrphanStage
<1>1. IndInv => NoOrphanStage
  BY BaseNoOrphan DEF IndInv
<1> QED BY <1>1, Inductive, PTL

(* No envelope leaves one session's texts in both directories.             *)
THEOREM OneDir == Spec => []OneDisposition
<1>1. IndInv => OneDisposition
  BY BaseOneDisposition DEF IndInv
<1> QED BY <1>1, Inductive, PTL

(* Under senders that do not overlap: a file under its final name is whole.*)
THEOREM Whole == ASSUME ~Overlapping PROVE Spec => []LandedWhole
<1>1. IndInv => LandedWhole
  BY AloneLanded DEF IndInv
<1> QED BY <1>1, Inductive, PTL

(* Under senders that do not overlap: an envelope refused without a failed *)
(* rename has landed nothing.                                              *)
THEOREM Refused == ASSUME ~Overlapping PROVE Spec => []RefusedLandsNothing
<1>1. IndInv => RefusedLandsNothing
  BY AloneRefused DEF IndInv
<1> QED BY <1>1, Inductive, PTL

(* Under senders that do not overlap: a 200 says that every session has    *)
(* landed, with its last text.                                             *)
THEOREM Acknowledged == ASSUME ~Overlapping PROVE Spec => AnsweredLanded
<1> DEFINE Lands(r) ==
      thr[r].reply = None /\ thr'[r].reply = 200 =>
        LET b == thr[r].body
        IN  \A i \in DOMAIN b :
              (\A j \in DOMAIN b : j > i => b[j].sid # b[i].sid) =>
                /\ landed[SlotOf(b[i])] # None
                /\ data[landed[SlotOf(b[i])]] = [req |-> r, pos |-> i]
           All == \A r \in Requests : Lands(r)
<1>1. IndInv /\ [Next]_vars => [All]_vars
  <2> SUFFICES ASSUME IndInv, [Next]_vars, NEW r \in Requests PROVE Lands(r)
    OBVIOUS
  <2>1. Base /\ Alone
    BY DEF IndInv
  <2> QED BY <2>1, Accepts, CountLands
<1>2. Spec => [][All]_vars
  <2> HIDE DEF All
  <2> QED BY <1>1, Inductive, PTL DEF Spec
<1> QED BY <1>2 DEF AnsweredLanded
=============================================================================
