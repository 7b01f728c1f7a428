--------------------------- MODULE CorpusSyncProofs ---------------------------
(***************************************************************************)
(* Theorems of CorpusSync for any trees and cases, and any number of       *)
(* commands, cuts, edits and pushes from elsewhere.                        *)
(***************************************************************************)
EXTENDS CorpusSync, FiniteSetTheorems, WellFoundedInduction, TLAPS
(* What the files, the heads and the index may hold.                       *)
ValidTrees == {t \in Trees : Valid(t)}
Maps(S)    == UNION {[D -> S] : D \in SUBSET Cases}
Heads      == {Absent, NoHeads, Foreign}
                \cup UNION {{Build(t, c) : c \in DOMAIN t.cases} : t \in ValidTrees}
Entries    == UNION {{LockEntry(t, c) : c \in DOMAIN t.cases} : t \in ValidTrees}
Banks      == {None, Torn} \cup {Rows(t) : t \in ValidTrees}
Drops      == {None, Torn} \cup {t.drop : t \in Trees}
Locks      == {None, Torn} \cup [cases : Maps(Entries), bank : Banks]

Texts    == [cases : Maps(Entries) \cup {Torn}, bank : Banks, parquet : Banks, drop : Drops]
Configs  == [cases : SUBSET Cases, dumped : BOOLEAN, torn : BOOLEAN]
Services == [state : {"none", "fetching", "embedding", "ready", "error"},
             repos : SUBSET Cases, seen : Maps(Heads), drop : Drops, store : Maps(Heads)]
Copies   == [bank : Banks, lock : Locks, drop : Drops, service : BOOLEAN]
Commands == [pc : Steps, op : {None, "up", "update"}, over : BOOLEAN, cases : SUBSET Cases,
             push : SUBSET Cases, new : BOOLEAN, todo : SUBSET Cases,
             at : Cases \cup {None}, mem : Maps(Entries)]
Pasts    == [said : {None, "nothing", "collision", "refused", "cut", "complete"},
             moved : BOOLEAN, pushed : BOOLEAN, edited : BOOLEAN, late : SUBSET Cases,
             dirty : BOOLEAN, stale : BOOLEAN]
Spent    == [commands : Nat, cuts : Nat, edits : Nat, foreign : Nat]

Typed ==
  /\ tree \in Trees /\ gen \in Texts /\ live \in [Cases -> Heads] /\ conf \in Configs
  /\ svc \in Services /\ copies \in Copies /\ cmd \in Commands
  /\ past \in Pasts /\ used \in Spent
  /\ DOMAIN svc.seen = IF svc.state \in {"embedding", "ready"} THEN svc.repos ELSE {}
  /\ svc.state = "embedding" => DOMAIN svc.store \subseteq svc.repos
  /\ cmd.pc \in {"push", "read_back"} => cmd.at \in cmd.todo
  /\ cmd.pc # "idle" => cmd.op # None
  /\ cmd.op = "update" => copies.bank # None

(* Steps after which something is known, by their place in `up` and in     *)
(* `update`, whose phases come in another order.                           *)
Pushing  == {"create", "push", "read_back"}
Locked   == {"write_config", "start", "await", "new_config", "ingest", "poll", "taskbank",
             "lock_bank", "verify"}
Copying  == {"copy_bank", "copy_lock", "copy_drop", "record"}
Lockful  == {"drop_lock"} \cup Locked \cup Copying

Serving  == cmd.op = "up" \/ copies.service
Complete == past.said = "complete"

(* A lock's entry for a case was made from a tree that held the case.      *)
KnownRows(m) == \A c \in DOMAIN m :
  \E t \in ValidTrees : c \in DOMAIN t.cases /\ m[c] = LockEntry(t, c)

(* The entries a lock has of the tree's cases, but for some, are the tree's.*)
Current(m, but) == \A c \in (DOMAIN tree.cases \cap DOMAIN m) \ but : m[c] = LockEntry(tree, c)

LocksOK ==
  /\ gen.cases # Torn => KnownRows(gen.cases)
  /\ copies.lock \notin {None, Torn} => KnownRows(copies.lock.cases)
  /\ KnownRows(cmd.mem)

CommandOK ==
  /\ cmd.pc = "idle" => cmd = Idle
  /\ past.said # None => cmd.pc = "idle"
  /\ past.moved => past.edited
  /\ cmd.pc \notin {"idle"} \cup Copying => (past.edited => past.moved)
  /\ cmd.pc # "idle" /\ ~past.edited => cmd.cases = DOMAIN tree.cases
  /\ cmd.push \subseteq cmd.cases
  /\ cmd.pc = "owner" => cmd.op = "up"
  /\ cmd.pc \in {"owner", "check"} => Valid(tree) /\ cmd.todo = {}
  /\ cmd.pc \in {"check", "seed"} => cmd.op = "update" /\ copies.lock \notin {None, Torn}
  /\ cmd.op = "up" => cmd.push = cmd.cases
  /\ cmd.pc \in Pushing => Valid(tree) /\ cmd.todo \subseteq DOMAIN tree.cases
  /\ cmd.pc \in {"write_lock", "drop_lock"} => cmd.todo = {}
  /\ cmd.pc \in {"seed", "scaffold"} \cup Pushing \cup {"write_lock"} /\ ~past.edited
       => cmd.todo \subseteq cmd.push
  /\ copies.lock # None => copies.bank # None
  /\ cmd.pc = "copy_lock" => copies.bank # None
  /\ cmd.pc \in Copying => gen.cases # Torn

(* While nobody edits, the lock follows the tree.                          *)
LockOK ==
  ~past.edited =>
    /\ cmd.pc \in {"check", "seed"} => Current(Baseline, cmd.push)
    /\ cmd.pc = "scaffold" /\ gen.cases # Torn => Current(gen.cases, cmd.push)
    /\ cmd.pc \in Pushing => Current(cmd.mem, cmd.todo)
    /\ cmd.pc = "write_lock" => Current(cmd.mem, {})
    /\ cmd.pc \in Lockful /\ gen.cases # Torn => Current(gen.cases, {})

(* A fetch that began after the trigger saw what was pushed, but of a case *)
(* whose main did not move it saw what the store had.                      *)
Fed == \/ cmd.pc \in {"poll", "verify"}
       \/ cmd.pc \in {"taskbank", "lock_bank"} /\ cmd.op = "up"
SeenOK ==
  Fed /\ Serving /\ ~past.stale /\ svc.state \in {"embedding", "ready"} =>
    \A c \in DOMAIN svc.seen : svc.seen[c][Main] = live[c][Main] \/ live[c] \in {Absent, Foreign}

(* What verify establishes, until somebody edits or pushes.                *)
Standing ==
  /\ gen.cases # Torn /\ DOMAIN gen.cases = DOMAIN tree.cases
  /\ \A c \in DOMAIN tree.cases :
       /\ \A k \in DOMAIN tree.cases[c].steps :
            PagesOf(live[c][k]) = tree.cases[c].steps[k].pages
       /\ gen.cases[c].refs = live[c]
       /\ gen.cases[c].split = SplitOf(tree.cases[c])
       /\ \/ live[c] = Build(tree, c)
          \/ /\ past.edited /\ (Serving => svc.seen[c] # live[c])
             /\ Kept(live[c], Build(tree, c))
  /\ gen.bank = Rows(tree) /\ gen.parquet = Rows(tree) /\ gen.drop = tree.drop
  /\ Valid(tree)
  /\ Serving =>
       /\ svc.state = "ready" /\ svc.drop = tree.drop
       /\ DOMAIN svc.seen = DOMAIN tree.cases
       /\ \A c \in DOMAIN tree.cases :
            /\ DOMAIN svc.seen[c] \ {Main} = DOMAIN tree.cases[c].steps
            /\ ~past.stale => svc.seen[c][Main] = Build(tree, c)[Main]
VerifiedOK == (cmd.pc \in Copying \/ Complete) /\ Unmoved => Standing
CopiesOK ==
  Unmoved =>
    /\ cmd.pc \in Copying \ {"copy_bank"} \/ Complete => copies.bank = Rows(tree)
    /\ cmd.pc \in {"copy_drop", "record"} \/ Complete =>
         copies.lock = [cases |-> gen.cases, bank |-> Rows(tree)]
    /\ cmd.pc = "record" \/ Complete => copies.drop = tree.drop

(* Nobody else's heads are left to push over, but those pushed meanwhile.  *)
Candidates == IF cmd.pc \in Pushing THEN cmd.todo ELSE cmd.push
ForeignOK ==
  cmd.pc \in {"seed", "scaffold"} \cup Pushing /\ ~cmd.over /\ ~past.moved =>
    \A c \in Candidates : live[c] = Foreign => c \in past.late

(* What the last completed command left, and what is said of it.           *)
CompletedOK ==
  cmd.pc \in {"idle", "owner", "check"} /\ ~past.dirty /\ copies.lock \notin {None, Torn} =>
    \E t \in ValidTrees :
      /\ copies.bank = Rows(t) /\ DOMAIN Baseline = DOMAIN t.cases
      /\ \A c \in DOMAIN t.cases : Baseline[c] = LockEntry(t, c) /\ live[c] = Build(t, c)
NothingOK ==
  past.said = "nothing" /\ ~past.dirty /\ ~past.moved =>
    /\ copies.lock \notin {None, Torn} /\ DOMAIN Baseline = DOMAIN tree.cases
    /\ \A c \in DOMAIN tree.cases : live[c] = Build(tree, c)
    /\ copies.bank = Rows(tree)
Untouched == used.edits = 0 /\ used.foreign = 0
OwnOK ==
  Untouched => \A c \in Cases :
    \/ live[c] \in {Absent, NoHeads}
    \/ c \in DOMAIN tree.cases /\ live[c] = Build(tree, c)
CollisionOK ==
  past.said = "collision" /\ Untouched => \E c \in Cases : live[c] = NoHeads

IndInv == /\ Typed /\ CommandOK /\ LocksOK /\ LockOK /\ SeenOK /\ VerifiedOK /\ CopiesOK
          /\ ForeignOK /\ CompletedOK /\ NothingOK /\ OwnOK /\ CollisionOK
-----------------------------------------------------------------------------
(* Trees and what is built from them.                                      *)
LEMMA Least ==
  ASSUME NEW S \in SUBSET Nat, S # {}
  PROVE  \E m \in S : \A k \in S : m <= k
<1>1. \E m \in S : \A k \in S : <<k, m>> \notin OpToRel(<, Nat)
  BY NatLessThanWellFounded, WFMin
<1>2. ASSUME NEW m \in Nat, NEW k \in Nat, <<k, m>> \notin OpToRel(<, Nat)
      PROVE  m <= k
  <2>1. ~(k < m)
    BY <1>2 DEF OpToRel
  <2> QED BY <2>1
<1> QED BY <1>1, <1>2

(* A finite set of numbers that is not empty has a largest one.            *)
LEMMA FiniteMaximum ==
  ASSUME NEW S \in SUBSET Nat, IsFiniteSet(S), S # {}
  PROVE  \E m \in S : \A k \in S : k <= m
<1> DEFINE HasMax(T) == \E m \in T : \A k \in T : k <= m
           Fails(n) == \E T \in SUBSET S : T # {} /\ Cardinality(T) = n /\ ~HasMax(T)
           Bad == {n \in Nat : Fails(n)}
<1>1. SUFFICES ASSUME ~HasMax(S)  PROVE FALSE
  OBVIOUS
<1>2. Cardinality(S) \in Bad
  BY <1>1, FS_CardinalityType
<1>3. PICK n \in Bad : \A j \in Bad : n <= j
  BY <1>2, Least
<1>4. PICK T \in SUBSET S : T # {} /\ Cardinality(T) = n /\ ~HasMax(T)
  BY <1>3
<1>5. PICK x \in T : TRUE
  BY <1>4
<1> DEFINE U == T \ {x}
<1>6. IsFiniteSet(T)
  BY FS_Subset
<1>7. IsFiniteSet(U) /\ Cardinality(U) = n - 1
  BY <1>4, <1>5, <1>6, FS_RemoveElement
<1>8. Cardinality(U) \in Nat /\ n \in Nat
  BY <1>3, <1>7, FS_CardinalityType
<1>9. U # {}
  BY <1>4, <1>5
<1>10. ~HasMax(U)
  <2>1. ASSUME NEW m \in U, \A k \in U : k <= m
        PROVE  FALSE
    <3>1. m \in Nat /\ x \in Nat
      OBVIOUS
    <3>2. CASE x <= m
      BY <1>4, <2>1, <3>2
    <3>3. CASE ~(x <= m)
      <4>1. \A k \in T : k <= x
        BY <2>1, <3>1, <3>3
      <4> QED BY <1>4, <4>1
    <3> QED BY <3>2, <3>3
  <2> QED BY <2>1
<1>11. n - 1 \in Bad
  BY <1>7, <1>8, <1>9, <1>10
<1> QED BY <1>3, <1>8, <1>11

(* A case of a valid tree has a largest timestep.                          *)
LEMMA HasLargest ==
  ASSUME NEW t \in ValidTrees, NEW c \in DOMAIN t.cases
  PROVE  /\ Largest(t.cases[c]) \in DOMAIN t.cases[c].steps
         /\ \A k \in DOMAIN t.cases[c].steps : k <= Largest(t.cases[c])
<1> DEFINE S == DOMAIN t.cases[c].steps
<1>1. S # {} /\ IsFiniteSet(S) /\ S \subseteq Nat
  BY TreesAssumption DEF ValidTrees, Valid, ValidCase
<1> HIDE DEF S
<1>2. \E m \in S : \A k \in S : k <= m
  <2>1. S \in SUBSET Nat /\ IsFiniteSet(S) /\ S # {}
    BY <1>1
  <2> QED BY <2>1, FiniteMaximum
<1> QED BY <1>2 DEF S, Largest

(* The branches of a case, one by one.                                     *)
LEMMA BuildIs ==
  ASSUME NEW t, NEW c
  PROVE  /\ DOMAIN Build(t, c) = {Main} \cup DOMAIN t.cases[c].steps
         /\ \A k \in {Main} \cup DOMAIN t.cases[c].steps :
              Build(t, c)[k] = Ref(t, t.cases[c], IF k = Main THEN Largest(t.cases[c]) ELSE k)
BY DEF Build

(* main is the largest timestep, whole.                                    *)
LEMMA MainIs ==
  ASSUME NEW t, NEW c
  PROVE  /\ Build(t, c)[Main].full = t.cases[c].steps[Largest(t.cases[c])].pages
         /\ Build(t, c)[Main].fixed = <<t.agents, t.cards>>
         /\ Build(t, c)[Main].cut = Largest(t.cases[c])
<1>1. Main \in {Main} \cup DOMAIN t.cases[c].steps
  OBVIOUS
<1>2. Build(t, c)[Main] = Ref(t, t.cases[c], Largest(t.cases[c]))
  BY <1>1, BuildIs
<1> QED BY <1>2 DEF Ref

(* Heads with the same commits on the same branches are the same.          *)
LEMMA BuildsEqual ==
  ASSUME NEW t, NEW u, NEW c, DOMAIN Build(t, c) = DOMAIN Build(u, c),
         \A k \in DOMAIN Build(t, c) : Build(t, c)[k] = Build(u, c)[k]
  PROVE  Build(t, c) = Build(u, c)
BY DEF Build

(* What a lock entry has, field by field.                                  *)
LEMMA EntryIs ==
  ASSUME NEW t, NEW c
  PROVE  /\ LockEntry(t, c).refs = Build(t, c)
         /\ LockEntry(t, c).split = SplitOf(t.cases[c])
         /\ DOMAIN LockEntry(t, c).ids = DOMAIN t.cases[c].steps
         /\ \A k \in DOMAIN t.cases[c].steps :
              LockEntry(t, c).ids[k] = PromptIds(t.cases[c].steps[k])
BY DEF LockEntry

(* The same branches, so the same timesteps.                               *)
LEMMA SameSteps ==
  ASSUME NEW t \in ValidTrees, NEW u \in ValidTrees,
         NEW c \in DOMAIN t.cases \cap DOMAIN u.cases,
         DOMAIN Build(t, c) = DOMAIN Build(u, c)
  PROVE  DOMAIN t.cases[c].steps = DOMAIN u.cases[c].steps
<1>1. Main \notin DOMAIN t.cases[c].steps /\ Main \notin DOMAIN u.cases[c].steps
  BY TreesAssumption DEF ValidTrees
<1> DEFINE D == DOMAIN t.cases[c].steps
           E == DOMAIN u.cases[c].steps
<1>2. {Main} \cup D = {Main} \cup E
  BY BuildIs
<1> HIDE DEF D, E
<1>3. Main \notin D /\ Main \notin E
  BY <1>1 DEF D, E
<1>4. D = E
  BY <1>2, <1>3
<1> QED BY <1>4 DEF D, E

(* What `update` does not see as moved has the entry it would get now.     *)
LEMMA UnmovedEntry ==
  ASSUME NEW t \in ValidTrees, NEW u \in ValidTrees, NEW locked,
         NEW c \in DOMAIN t.cases \cap DOMAIN u.cases, c \in DOMAIN locked,
         locked[c] = LockEntry(u, c), c \notin Moved(t, locked)
  PROVE  locked[c] = LockEntry(t, c)
<1>1. Build(u, c) = Build(t, c) /\ SplitOf(u.cases[c]) = SplitOf(t.cases[c])
  BY EntryIs DEF Moved
<1>2. DOMAIN t.cases[c].steps = DOMAIN u.cases[c].steps
  BY <1>1, SameSteps
<1>3. \A k \in DOMAIN t.cases[c].steps :
        PromptIds(u.cases[c].steps[k]) = PromptIds(t.cases[c].steps[k])
  BY <1>2, EntryIs DEF Moved
<1> QED BY <1>1, <1>2, <1>3 DEF LockEntry

(* Branches that hold the pages of the tree are the tree's, whatever tree  *)
(* they were built from.                                                   *)
LEMMA VerifiedHeads ==
  ASSUME NEW t \in ValidTrees, NEW u \in ValidTrees,
         NEW c \in DOMAIN t.cases \cap DOMAIN u.cases, NEW entry,
         CaseVerified(t, c, entry, Build(u, c))
  PROVE  Kept(Build(u, c), Build(t, c))
<1> DEFINE heads == Build(u, c)
           tc == t.cases[c]
           uc == u.cases[c]
           T == Largest(tc)
           U == Largest(uc)
<1>1. \A k \in {Main} \cup DOMAIN tc.steps :
        /\ k \in DOMAIN heads
        /\ PagesOf(heads[k]) = SourceStep(tc, k).pages
        /\ heads[k].fixed = <<t.agents, t.cards>>
  BY DEF CaseVerified
<1>2. /\ T \in DOMAIN tc.steps /\ T \in Nat /\ T # 0
      /\ U \in DOMAIN uc.steps /\ U \in Nat /\ U # 0
  BY HasLargest, TreesAssumption DEF ValidTrees, Main
<1>3. /\ DOMAIN tc.steps[T].pages = 1..T /\ DOMAIN uc.steps[U].pages = 1..U
      /\ uc.steps[U].pages = [p \in 1..U |-> uc.steps[U].pages[p]]
  <2>1. ValidCase(t, tc) /\ ValidCase(u, uc) /\ t \in Trees /\ u \in Trees
    BY DEF ValidTrees, Valid
  <2>2. DOMAIN tc.steps[T].pages = 1..T /\ DOMAIN uc.steps[U].pages = 1..U
    BY <1>2, <2>1 DEF ValidCase
  <2>3. uc.steps[U].pages = [p \in DOMAIN uc.steps[U].pages |-> uc.steps[U].pages[p]]
    BY <1>2, <2>1, TreesAssumption
  <2> QED BY <2>2, <2>3
<1>4. \A k \in {Main} \cup DOMAIN uc.steps :
        heads[k] = [full |-> uc.steps[U].pages, fixed |-> <<u.agents, u.cards>>,
                    cut |-> IF k = Main THEN U ELSE k]
  BY BuildIs DEF Ref
<1>5. PagesOf(heads[Main]) = uc.steps[U].pages
  <2>1. {q \in 1..U : q <= U} = 1..U
    BY <1>2
  <2>2. Main \in {Main} \cup DOMAIN uc.steps
    OBVIOUS
  <2>3. heads[Main].full = uc.steps[U].pages /\ heads[Main].cut = U
    BY MainIs
  <2> DEFINE full == uc.steps[U].pages
  <2>4. DOMAIN full = 1..U /\ full = [p \in 1..U |-> full[p]]
    BY <1>3
  <2>5. PagesOf(heads[Main]) = [p \in {q \in DOMAIN full : q <= U} |-> full[p]]
    BY <2>3 DEF PagesOf
  <2> HIDE DEF full
  <2>6. PagesOf(heads[Main]) = full
    BY <2>1, <2>4, <2>5
  <2> QED BY <2>6 DEF full
<1>6. uc.steps[U].pages = tc.steps[T].pages
  BY <1>1, <1>5 DEF SourceStep
<1>7. U = T
  <2>1. 1..U = 1..T
    BY <1>3, <1>6
  <2> QED BY <1>2, <2>1
<1>8. ASSUME NEW k \in {Main} \cup DOMAIN tc.steps
      PROVE  k \in DOMAIN heads /\ heads[k] = Build(t, c)[k]
  <2>1. /\ heads[k] = [full |-> uc.steps[U].pages, fixed |-> <<u.agents, u.cards>>,
                       cut |-> IF k = Main THEN U ELSE k]
        /\ heads[k].fixed = <<t.agents, t.cards>>
    BY <1>1, <1>4, BuildIs
  <2>2. Build(t, c)[k] = [full |-> tc.steps[T].pages, fixed |-> <<t.agents, t.cards>>,
                          cut |-> IF k = Main THEN T ELSE k]
    BY BuildIs DEF Ref
  <2> QED BY <1>1, <1>6, <1>7, <2>1, <2>2
<1> QED BY <1>8, BuildIs DEF Kept

(* ... and no other branch is there if the census agrees too.              *)
LEMMA CountedHeads ==
  ASSUME NEW t \in ValidTrees, NEW u \in ValidTrees,
         NEW c \in DOMAIN t.cases \cap DOMAIN u.cases,
         Kept(Build(u, c), Build(t, c)), Census(Build(u, c)) = SourceCensus(t, c)
  PROVE  Build(u, c) = Build(t, c)
<1>1. DOMAIN Build(u, c) \ {Main} = DOMAIN t.cases[c].steps
  BY DEF Census, SourceCensus
<1>2. DOMAIN Build(u, c) = DOMAIN Build(t, c)
  <2> DEFINE D == DOMAIN Build(u, c)
             E == DOMAIN t.cases[c].steps
  <2>1. Main \in D
    BY BuildIs
  <2> HIDE DEF D, E
  <2>2. D = {Main} \cup E
    BY <1>1, <2>1 DEF D, E
  <2> QED BY <2>2, BuildIs DEF D, E
<1> QED BY <1>2, BuildsEqual DEF Kept

(* Equal locks and no reworded prompt: equal banks.                        *)
LEMMA SameRows ==
  ASSUME NEW t \in ValidTrees, NEW u \in ValidTrees, DOMAIN t.cases = DOMAIN u.cases,
         \A c \in DOMAIN t.cases : LockEntry(t, c) = LockEntry(u, c),
         Reworded(t, Rows(u)) = {}
  PROVE  Rows(t) = Rows(u)
<1> DEFINE RowOf(v, c, k, i) ==
      [case |-> c, t |-> k, id |-> PromptId(v.cases[c].steps[k].prompts[i]),
       split |-> SplitOf(v.cases[c]), text |-> PromptText(v, v.cases[c].steps[k].prompts[i])]
<1>1. \A v : \A r : r \in Rows(v) <=>
        \E c \in DOMAIN v.cases : \E k \in DOMAIN v.cases[c].steps :
          \E i \in DOMAIN v.cases[c].steps[k].prompts : r = RowOf(v, c, k, i)
  BY DEF Rows, Range
<1>2. ASSUME NEW c \in DOMAIN t.cases
      PROVE  /\ DOMAIN t.cases[c].steps = DOMAIN u.cases[c].steps
             /\ SplitOf(t.cases[c]) = SplitOf(u.cases[c])
             /\ t.cards = u.cards
             /\ \A k \in DOMAIN t.cases[c].steps :
                  PromptIds(t.cases[c].steps[k]) = PromptIds(u.cases[c].steps[k])
  <2>1. Build(t, c) = Build(u, c) /\ SplitOf(t.cases[c]) = SplitOf(u.cases[c])
    BY EntryIs
  <2>2. DOMAIN t.cases[c].steps = DOMAIN u.cases[c].steps
    BY <2>1, SameSteps
  <2>3. /\ Build(t, c)[Main].fixed = <<t.agents, t.cards>>
        /\ Build(u, c)[Main].fixed = <<u.agents, u.cards>>
    BY MainIs
  <2>4. t.cards = u.cards
    BY <2>1, <2>3
  <2>5. \A k \in DOMAIN t.cases[c].steps :
          PromptIds(t.cases[c].steps[k]) = PromptIds(u.cases[c].steps[k])
    BY <2>2, EntryIs
  <2> QED BY <2>1, <2>2, <2>4, <2>5
<1>3. ASSUME NEW c \in DOMAIN t.cases, NEW k \in DOMAIN t.cases[c].steps
      PROVE  /\ DOMAIN t.cases[c].steps[k].prompts = DOMAIN u.cases[c].steps[k].prompts
             /\ \A i \in DOMAIN t.cases[c].steps[k].prompts :
                  RowOf(t, c, k, i) = RowOf(u, c, k, i)
  <2> DEFINE P == t.cases[c].steps[k].prompts
             Q == u.cases[c].steps[k].prompts
  <2>1. DOMAIN P = DOMAIN Q /\ \A i \in DOMAIN P : PromptId(P[i]) = PromptId(Q[i])
    <3>1. /\ PromptIds(t.cases[c].steps[k]) = [i \in DOMAIN P |-> PromptId(P[i])]
          /\ PromptIds(u.cases[c].steps[k]) = [i \in DOMAIN Q |-> PromptId(Q[i])]
      BY DEF PromptIds
    <3> HIDE DEF P, Q
    <3> QED BY <1>2, <3>1
  <2>2. ASSUME NEW i \in DOMAIN P
        PROVE  PromptText(t, P[i]) = PromptText(u, Q[i])
    <3>1. P[i].skill = Q[i].skill /\ P[i].id = Q[i].id
      BY <2>1 DEF PromptId
    <3>2. CASE P[i].skill
      BY <1>2, <3>1, <3>2 DEF PromptText
    <3>3. CASE ~P[i].skill
      <4> DEFINE row == RowOf(u, c, k, i)
      <4>1. row \in Rows(u)
        BY <1>1, <1>2, <2>1
      <4>2. row.case = c /\ row.t = k /\ row.id = PromptId(P[i]) /\ row.text = PromptText(u, Q[i])
        BY <2>1
      <4> HIDE DEF row
      <4>3. P[i] \in Range(P)
        BY DEF Range
      <4>4. row.text = P[i].text
        BY <3>3, <4>1, <4>2, <4>3 DEF Reworded
      <4> QED BY <3>3, <4>2, <4>4 DEF PromptText
    <3> QED BY <3>2, <3>3
  <2> QED BY <1>2, <2>1, <2>2
<1> HIDE DEF RowOf
<1>4. \A r : r \in Rows(t) <=> r \in Rows(u)
  BY <1>1, <1>2, <1>3
<1> QED BY <1>4
-----------------------------------------------------------------------------
(* Types.                                                                  *)
LEMMA MapIs ==
  ASSUME NEW S, NEW m \in Maps(S)
  PROVE  /\ DOMAIN m \subseteq Cases
         /\ \A c \in DOMAIN m : m[c] \in S
BY DEF Maps

(* A function on some cases is such a map.                                 *)
LEMMA MapOf ==
  ASSUME NEW S, NEW D \in SUBSET Cases, NEW m \in [D -> S]
  PROVE  m \in Maps(S)
BY DEF Maps

(* So is the empty one.                                                    *)
LEMMA NoMap ==
  ASSUME NEW S
  PROVE  <<>> \in Maps(S) /\ DOMAIN <<>> = {}
<1>1. <<>> \in [{} -> S] /\ DOMAIN <<>> = {}
  OBVIOUS
<1> QED BY <1>1, MapOf

(* So is a part of one.                                                    *)
LEMMA RestrictedMap ==
  ASSUME NEW S, NEW m \in Maps(S), NEW part \in SUBSET DOMAIN m
  PROVE  Restrict(m, part) \in Maps(S) /\ DOMAIN Restrict(m, part) = part
<1>1. DOMAIN m \subseteq Cases /\ \A c \in DOMAIN m : m[c] \in S
  BY MapIs
<1>2. Restrict(m, part) \in [part -> S] /\ part \in SUBSET Cases
  BY <1>1 DEF Restrict
<1> QED BY <1>2, MapOf

(* What is built from a valid tree is among the values the files, the      *)
(* heads and the locks may have.                                           *)
LEMMA Values ==
  ASSUME NEW t \in ValidTrees
  PROVE  /\ Rows(t) \in Banks /\ Rows(t) \notin {None, Torn}
         /\ DOMAIN t.cases \subseteq Cases
         /\ \A c \in DOMAIN t.cases :
              /\ Build(t, c) \in Heads /\ Build(t, c) \notin {None, Foreign}
              /\ LockEntry(t, c) \in Entries
<1>1. t \in Trees /\ Valid(t)
  BY DEF ValidTrees
<1>2. DOMAIN t.cases \subseteq Cases
  BY <1>1, TreesAssumption
<1>3. /\ Rows(t) \notin {None, Torn}
      /\ \A c \in DOMAIN t.cases : Build(t, c) \notin {None, Foreign}
  BY <1>1, NoneAssumption
<1>4. Rows(t) \in Banks
  BY DEF Banks
<1>5. ASSUME NEW c \in DOMAIN t.cases
      PROVE  Build(t, c) \in Heads /\ LockEntry(t, c) \in Entries
  <2>1. /\ Build(t, c) \in {Build(t, d) : d \in DOMAIN t.cases}
        /\ LockEntry(t, c) \in {LockEntry(t, d) : d \in DOMAIN t.cases}
    OBVIOUS
  <2>2. Build(t, c) \in UNION {{Build(v, d) : d \in DOMAIN v.cases} : v \in ValidTrees}
    BY <2>1
  <2>3. LockEntry(t, c) \in UNION {{LockEntry(v, d) : d \in DOMAIN v.cases} : v \in ValidTrees}
    BY <2>1
  <2> QED BY <2>2, <2>3 DEF Heads, Entries
<1> QED BY <1>2, <1>3, <1>4, <1>5

(* So is its drop.                                                         *)
LEMMA DropIs ==
  ASSUME NEW t \in Trees
  PROVE  t.drop \in Drops
BY DEF Drops

USE DEF Pushing, Locked, Copying, Lockful

-----------------------------------------------------------------------------
(* A command that ends early changes nothing but what is said of it, and   *)
(* perhaps the file it was writing.                                        *)
LEMMA EndKeeps ==
  ASSUME IndInv, NEW word \in {"collision", "refused", "cut"}, cmd.pc # "idle", Die(word),
         UNCHANGED <<tree, live, svc>>, gen' \in Texts, copies' \in Copies, conf' \in Configs,
         LocksOK',
         copies'.lock # None => copies'.bank # None,
         cmd.pc \in {"owner", "check"} => copies' = copies,
         used' \in Spent, used'.edits = used.edits, used'.foreign = used.foreign,
         word = "collision" /\ Untouched => \E c \in Cases : live[c] = NoHeads
  PROVE  IndInv'
<1>0. Typed
  BY DEF IndInv
<1>1. /\ cmd' = Idle /\ cmd'.pc = "idle" /\ cmd'.op = None /\ cmd'.mem = <<>>
      /\ past'.said = word /\ past'.moved = past.moved /\ past'.edited = past.edited
      /\ past'.pushed = past.pushed /\ past'.late = past.late /\ past'.stale = past.stale
      /\ past'.dirty = (past.dirty \/ cmd.pc \notin {"owner", "check"})
  BY <1>0 DEF Die, Idle, Typed, Pasts
<1>2. Idle \in Commands
  BY NoMap DEF Idle, Commands, Steps
<1>3. past' \in Pasts
  BY <1>0 DEF Typed, Pasts, Die
<1>4. Typed'
  BY <1>0, <1>1, <1>2, <1>3, NoneAssumption DEF Typed
<1>5. CommandOK'
  BY <1>1 DEF IndInv, CommandOK, Idle
<1>7. LockOK' /\ SeenOK' /\ ForeignOK'
  BY <1>1 DEF LockOK, SeenOK, Fed, ForeignOK
<1>8. VerifiedOK' /\ CopiesOK'
  BY <1>1 DEF VerifiedOK, CopiesOK, Complete
<1>9. CompletedOK'
  BY <1>1 DEF IndInv, CompletedOK, Baseline
<1>10. NothingOK'
  BY <1>1 DEF NothingOK
<1>11. OwnOK' /\ CollisionOK'
  BY <1>1 DEF IndInv, OwnOK, CollisionOK, Untouched
<1> QED BY <1>4, <1>5, <1>7, <1>8, <1>9, <1>10, <1>11 DEF IndInv

(* ... and a command that dies between two writes, or is refused, not even *)
(* that.                                                                   *)
LEMMA DieKeeps ==
  ASSUME IndInv, NEW word \in {"collision", "refused", "cut"}, cmd.pc # "idle", Die(word),
         UNCHANGED <<tree, gen, live, conf, svc, copies>>,
         used' \in Spent, used'.edits = used.edits, used'.foreign = used.foreign,
         word = "collision" /\ Untouched => \E c \in Cases : live[c] = NoHeads
  PROVE  IndInv'
<1>1. /\ gen' \in Texts /\ copies' \in Copies /\ conf' \in Configs
      /\ (copies'.lock # None => copies'.bank # None)
  BY DEF IndInv, Typed, CommandOK
<1>2. LocksOK'
  <2>1. cmd'.mem = <<>> /\ DOMAIN <<>> = {}
    BY NoMap DEF Die, Idle
  <2> QED BY <2>1 DEF IndInv, LocksOK, KnownRows
<1> QED BY <1>1, <1>2, EndKeeps
-----------------------------------------------------------------------------
(* The command goes on to a step and keeps what it holds, but the mark of  *)
(* a new configuration.                                                    *)
GoesTo(step) ==
  /\ cmd' \in Commands /\ cmd'.pc = step /\ cmd'.op = cmd.op /\ cmd'.over = cmd.over
  /\ cmd'.cases = cmd.cases /\ cmd'.push = cmd.push
  /\ cmd'.todo = cmd.todo /\ cmd'.at = cmd.at /\ cmd'.mem = cmd.mem

(* A step that only moves the command on.                                  *)
LEMMA Goes ==
  ASSUME Typed, NEW step \in Steps, Goto(step)
  PROVE  GoesTo(step)
<1>1. cmd \in Commands /\ cmd' = [cmd EXCEPT !.pc = step]
  BY DEF Typed, Goto
<1> QED BY <1>1 DEF Commands, GoesTo

(* Past the collision check no repository of the command's cases is        *)
(* somebody else's.                                                        *)
LEMMA CheckOwnerKeeps ==
  ASSUME IndInv, CheckOwner
  PROVE  IndInv'
<1>0. Typed
  BY DEF IndInv
<1>d. ASSUME ~(cmd.over \/ \A c \in cmd.cases : live[c] \in {Absent, Build(tree, c)})
      PROVE  IndInv'
  <2>1. /\ Die("collision") /\ cmd.pc # "idle"
        /\ UNCHANGED <<tree, gen, live, conf, svc, copies, used>>
    BY <1>d DEF CheckOwner
  <2>2. used' \in Spent /\ used'.edits = used.edits /\ used'.foreign = used.foreign
    BY <1>0, <2>1 DEF Typed
  <2>3. Untouched => \E c \in Cases : live[c] = NoHeads
    <3>1. PICK c \in cmd.cases : live[c] \notin {Absent, Build(tree, c)}
      BY <1>d
    <3>2. c \in Cases
      BY <1>0 DEF Typed, Commands
    <3> QED BY <3>1, <3>2 DEF IndInv, OwnOK
  <2> QED BY <2>1, <2>2, <2>3, DieKeeps
<1>c. SUFFICES ASSUME cmd.over \/ \A c \in cmd.cases : live[c] \in {Absent, Build(tree, c)}
               PROVE  IndInv'
  BY <1>d
<1>g. GoesTo("scaffold")
  <2>1. "scaffold" \in Steps
    BY DEF Steps, Phases
  <2>2. Goto("scaffold")
    BY <1>c DEF CheckOwner, Continue
  <2> QED BY <1>0, <2>1, <2>2, Goes
<1>w. /\ cmd.pc = "owner"
      /\ tree' = tree /\ gen' = gen /\ live' = live /\ conf' = conf /\ svc' = svc /\ copies' =
         copies /\ past' = past /\ used' = used
  BY <1>0, <1>c DEF CheckOwner, Continue
<1>s. past.said = None
  BY <1>w, NoneAssumption DEF IndInv, CommandOK
<1>1. Typed'
  BY <1>0, <1>w, <1>g DEF Typed, GoesTo
<1>2. CommandOK'
  BY <1>w, <1>g DEF IndInv, CommandOK, GoesTo
<1>3. LocksOK'
  BY <1>w, <1>g DEF IndInv, LocksOK, GoesTo, KnownRows
<1>4. LockOK'
  BY <1>w, <1>g DEF IndInv, LockOK, GoesTo, Current, Baseline, CommandOK
<1>5. SeenOK'
  BY <1>w, <1>g DEF IndInv, SeenOK, GoesTo, Fed, Serving
<1>6. VerifiedOK'
  BY <1>w, <1>g, <1>s, NoneAssumption DEF IndInv, VerifiedOK, GoesTo, Complete, Unmoved, Standing,
     Serving
<1>7. CopiesOK'
  BY <1>w, <1>g, <1>s, NoneAssumption DEF IndInv, CopiesOK, GoesTo, Complete, Unmoved
<1>8. ForeignOK'
  <2>1. ASSUME ~past.moved, ~cmd.over, NEW c \in cmd.push
        PROVE  live[c] # Foreign
    <3>1. c \in cmd.cases /\ c \in DOMAIN tree.cases /\ Valid(tree) /\ tree \in Trees
      BY <1>0, <1>w, <2>1 DEF IndInv, CommandOK, Typed
    <3>2. Build(tree, c) # Foreign /\ Absent # Foreign
      BY <3>1, NoneAssumption DEF Absent
    <3> QED BY <1>c, <2>1, <3>1, <3>2
  <2> QED BY <1>w, <1>g, <2>1 DEF ForeignOK, GoesTo, Candidates
<1>9. CompletedOK'
  BY <1>w, <1>g DEF IndInv, CompletedOK, GoesTo, Baseline
<1>10. NothingOK'
  BY <1>w, <1>g, <1>s, NoneAssumption DEF IndInv, NothingOK, GoesTo, Baseline
<1>11. OwnOK'
  BY <1>w, <1>g DEF IndInv, OwnOK, GoesTo, Untouched
<1>12. CollisionOK'
  BY <1>w, <1>g, <1>s, NoneAssumption DEF IndInv, CollisionOK, GoesTo, Untouched
<1> QED BY <1>1, <1>2, <1>3, <1>4, <1>5, <1>6, <1>7, <1>8, <1>9, <1>10, <1>11, <1>12 DEF IndInv

(* Past the drift check none of those to push is: a recorded head is some  *)
(* valid tree's build.                                                     *)
LEMMA CheckDriftKeeps ==
  ASSUME IndInv, CheckDrift
  PROVE  IndInv'
<1>0. Typed
  BY DEF IndInv
<1>d. ASSUME ~(\A c \in cmd.push :
             live[c] \in {Absent, Build(tree, c)}
                         \cup {Baseline[d].refs : d \in {c} \cap DOMAIN Baseline})  PROVE  IndInv'
  <2>1. /\ Die("collision") /\ cmd.pc # "idle"
        /\ UNCHANGED <<tree, gen, live, conf, svc, copies, used>>
    BY <1>d DEF CheckDrift
  <2>2. used' \in Spent /\ used'.edits = used.edits /\ used'.foreign = used.foreign
    BY <1>0, <2>1 DEF Typed
  <2>3. Untouched => \E c \in Cases : live[c] = NoHeads
    <3>1. PICK c \in cmd.push : live[c] \notin {Absent, Build(tree, c)}
      BY <1>d
    <3>2. c \in Cases
      BY <1>0 DEF Typed, Commands
    <3> QED BY <3>1, <3>2 DEF IndInv, OwnOK
  <2> QED BY <2>1, <2>2, <2>3, DieKeeps
<1>c. SUFFICES ASSUME \A c \in cmd.push :
             live[c] \in {Absent, Build(tree, c)}
                         \cup {Baseline[d].refs : d \in {c} \cap DOMAIN Baseline}  PROVE  IndInv'
  BY <1>d
<1>g. GoesTo("seed")
  <2>1. "seed" \in Steps
    BY DEF Steps, Phases
  <2>2. Goto("seed")
    BY <1>c DEF CheckDrift, Continue
  <2> QED BY <1>0, <2>1, <2>2, Goes
<1>w. /\ cmd.pc = "check"
      /\ tree' = tree /\ gen' = gen /\ live' = live /\ conf' = conf /\ svc' = svc /\ copies' =
         copies /\ past' = past /\ used' = used
  BY <1>0, <1>c DEF CheckDrift, Continue
<1>s. past.said = None
  BY <1>w, NoneAssumption DEF IndInv, CommandOK
<1>1. Typed'
  BY <1>0, <1>w, <1>g DEF Typed, GoesTo
<1>2. CommandOK'
  BY <1>w, <1>g DEF IndInv, CommandOK, GoesTo
<1>3. LocksOK'
  BY <1>w, <1>g DEF IndInv, LocksOK, GoesTo, KnownRows
<1>4. LockOK'
  BY <1>w, <1>g DEF IndInv, LockOK, GoesTo, Current, Baseline
<1>5. SeenOK'
  BY <1>w, <1>g DEF IndInv, SeenOK, GoesTo, Fed, Serving
<1>6. VerifiedOK'
  BY <1>w, <1>g, <1>s, NoneAssumption DEF IndInv, VerifiedOK, GoesTo, Complete, Unmoved, Standing,
     Serving
<1>7. CopiesOK'
  BY <1>w, <1>g, <1>s, NoneAssumption DEF IndInv, CopiesOK, GoesTo, Complete, Unmoved
<1>8. ForeignOK'
  <2>1. ASSUME ~past.moved, ~cmd.over, NEW c \in cmd.push
        PROVE  live[c] # Foreign
    <3>1. c \in DOMAIN tree.cases /\ Valid(tree) /\ tree \in Trees
      BY <1>0, <1>w, <2>1 DEF IndInv, CommandOK, Typed
    <3>2. Build(tree, c) # Foreign /\ Absent # Foreign
      BY <3>1, NoneAssumption DEF Absent
    <3>3. CASE live[c] \in {Absent, Build(tree, c)}
      BY <3>2, <3>3
    <3>4. CASE c \in DOMAIN Baseline /\ live[c] = Baseline[c].refs
      <4>1. KnownRows(Baseline)
        BY <1>w DEF IndInv, CommandOK, LocksOK, Baseline
      <4>2. PICK t \in ValidTrees : c \in DOMAIN t.cases /\ Baseline[c] = LockEntry(t, c)
        BY <3>4, <4>1 DEF KnownRows
      <4>3. live[c] = Build(t, c) /\ Build(t, c) # Foreign
        BY <3>4, <4>2, EntryIs, Values
      <4> QED BY <4>3
    <3> QED BY <1>c, <3>3, <3>4
  <2> QED BY <1>w, <1>g, <2>1 DEF ForeignOK, GoesTo, Candidates
<1>9. CompletedOK'
  BY <1>w, <1>g DEF IndInv, CompletedOK, GoesTo, Baseline
<1>10. NothingOK'
  BY <1>w, <1>g, <1>s, NoneAssumption DEF IndInv, NothingOK, GoesTo, Baseline
<1>11. OwnOK'
  BY <1>w, <1>g DEF IndInv, OwnOK, GoesTo, Untouched
<1>12. CollisionOK'
  BY <1>w, <1>g, <1>s, NoneAssumption DEF IndInv, CollisionOK, GoesTo, Untouched
<1> QED BY <1>1, <1>2, <1>3, <1>4, <1>5, <1>6, <1>7, <1>8, <1>9, <1>10, <1>11, <1>12 DEF IndInv

(* The tree's lock becomes the run's, whose entries of the cases not to be *)
(* pushed are the tree's.                                                  *)
LEMMA SeedLockKeeps ==
  ASSUME IndInv, SeedLock
  PROVE  IndInv'
<1>0. Typed
  BY DEF IndInv
<1>g. GoesTo("scaffold")
  <2>1. "scaffold" \in Steps
    BY DEF Steps, Phases
  <2>2. Goto("scaffold")
    BY DEF SeedLock, Continue
  <2> QED BY <1>0, <2>1, <2>2, Goes
<1>w. /\ cmd.pc = "seed"
      /\ tree' = tree /\ live' = live /\ conf' = conf /\ svc' = svc /\ copies' = copies /\
         past' = past /\ used' = used
      /\ gen' = [gen EXCEPT !.cases = Baseline, !.bank = copies.lock.bank]
      /\ copies.lock \notin {None, Torn} /\ gen'.cases = Baseline
  BY <1>0 DEF SeedLock, Continue, IndInv, CommandOK, Typed, Texts
<1>s. past.said = None
  BY <1>w, NoneAssumption DEF IndInv, CommandOK
<1>1. Typed'
  <2>1. copies.lock \in [cases : Maps(Entries), bank : Banks]
    BY <1>0, <1>w DEF Typed, Copies, Locks
  <2>2. Baseline \in Maps(Entries) /\ copies.lock.bank \in Banks
    BY <2>1 DEF Baseline
  <2>3. gen' \in Texts
    BY <1>0, <1>w, <2>2 DEF Typed, Texts
  <2> QED BY <1>0, <1>w, <1>g, <2>1, <2>2, <2>3, NoneAssumption DEF Typed, GoesTo
<1>2. CommandOK'
  BY <1>w, <1>g DEF IndInv, CommandOK, GoesTo
<1>3. LocksOK'
  BY <1>w, <1>g DEF IndInv, LocksOK, GoesTo, KnownRows, Baseline
<1>4. LockOK'
  BY <1>w, <1>g DEF IndInv, LockOK, GoesTo, Current, Baseline
<1>5. SeenOK'
  BY <1>w, <1>g DEF IndInv, SeenOK, GoesTo, Fed, Serving
<1>6. VerifiedOK'
  BY <1>w, <1>g, <1>s, NoneAssumption DEF IndInv, VerifiedOK, GoesTo, Complete, Unmoved, Standing,
     Serving
<1>7. CopiesOK'
  BY <1>w, <1>g, <1>s, NoneAssumption DEF IndInv, CopiesOK, GoesTo, Complete, Unmoved
<1>8. ForeignOK'
  BY <1>w, <1>g DEF IndInv, ForeignOK, GoesTo, Candidates
<1>9. CompletedOK'
  BY <1>w, <1>g DEF IndInv, CompletedOK, GoesTo, Baseline
<1>10. NothingOK'
  BY <1>w, <1>g, <1>s, NoneAssumption DEF IndInv, NothingOK, GoesTo, Baseline
<1>11. OwnOK'
  BY <1>w, <1>g DEF IndInv, OwnOK, GoesTo, Untouched
<1>12. CollisionOK'
  BY <1>w, <1>g, <1>s, NoneAssumption DEF IndInv, CollisionOK, GoesTo, Untouched
<1> QED BY <1>1, <1>2, <1>3, <1>4, <1>5, <1>6, <1>7, <1>8, <1>9, <1>10, <1>11, <1>12 DEF IndInv

(* The lock is written from memory when nothing is left to push.           *)
LEMMA WriteLockKeeps ==
  ASSUME IndInv, WriteLock
  PROVE  IndInv'
<1>0. Typed
  BY DEF IndInv
<1>w. /\ cmd.pc = "write_lock"
      /\ tree' = tree /\ live' = live /\ conf' = conf /\ svc' = svc /\ copies' = copies /\
         past' = past /\ used' = used
      /\ gen' = [gen EXCEPT !.cases = cmd.mem] /\ gen'.cases = cmd.mem
      /\ cmd' = [cmd EXCEPT !.pc = "drop_lock", !.mem = <<>>]
      /\ cmd'.pc = "drop_lock" /\ cmd'.op = cmd.op
      /\ cmd'.over = cmd.over /\ cmd'.cases = cmd.cases
      /\ cmd'.push = cmd.push /\ cmd'.todo = cmd.todo /\ cmd'.at = cmd.at /\ cmd'.mem = <<>>
  BY <1>0 DEF WriteLock, Continue, Typed, Texts, Commands
<1>s. past.said = None
  BY <1>w, NoneAssumption DEF IndInv, CommandOK
<1>1. Typed'
  <2>1. cmd' \in Commands
    BY <1>0, <1>w, NoMap DEF Typed, Commands, Steps
  <2>2. gen' \in Texts
    BY <1>0, <1>w DEF Typed, Texts, Commands
  <2> QED BY <1>0, <1>w, <2>1, <2>2, NoneAssumption DEF Typed
<1>2. CommandOK'
  BY <1>w DEF IndInv, CommandOK
<1>3. LocksOK'
  BY <1>w, NoMap DEF IndInv, LocksOK, KnownRows
<1>4. LockOK'
  BY <1>w DEF IndInv, LockOK, Current, Baseline
<1>5. SeenOK'
  BY <1>w DEF IndInv, SeenOK, Fed, Serving
<1>6. VerifiedOK'
  BY <1>w, <1>s, NoneAssumption DEF IndInv, VerifiedOK, Complete, Unmoved, Standing, Serving
<1>7. CopiesOK'
  BY <1>w, <1>s, NoneAssumption DEF IndInv, CopiesOK, Complete, Unmoved
<1>8. ForeignOK'
  BY <1>w DEF IndInv, ForeignOK, Candidates
<1>9. CompletedOK'
  BY <1>w DEF IndInv, CompletedOK, Baseline
<1>10. NothingOK'
  BY <1>w, <1>s, NoneAssumption DEF IndInv, NothingOK, Baseline
<1>11. OwnOK'
  BY <1>w DEF IndInv, OwnOK, Untouched
<1>12. CollisionOK'
  BY <1>w, <1>s, NoneAssumption DEF IndInv, CollisionOK, Untouched
<1> QED BY <1>1, <1>2, <1>3, <1>4, <1>5, <1>6, <1>7, <1>8, <1>9, <1>10, <1>11, <1>12 DEF IndInv

(* The decisions lock is written from the tree.                            *)
LEMMA WriteDecisionsLockKeeps ==
  ASSUME IndInv, WriteDecisionsLock
  PROVE  IndInv'
<1>0. Typed
  BY DEF IndInv
<1>g. GoesTo(IF cmd.op = "up" THEN "write_config" ELSE "taskbank")
  <2>1. (IF cmd.op = "up" THEN "write_config" ELSE "taskbank") \in Steps
    BY DEF Steps, Phases
  <2>2. Goto(IF cmd.op = "up" THEN "write_config" ELSE "taskbank")
    BY DEF WriteDecisionsLock, Continue
  <2> QED BY <1>0, <2>1, <2>2, Goes
<1>w. /\ cmd.pc = "drop_lock"
      /\ tree' = tree /\ live' = live /\ conf' = conf /\ svc' = svc /\ copies' = copies /\
         past' = past /\ used' = used
      /\ gen' = [gen EXCEPT !.drop = tree.drop]
      /\ gen'.cases = gen.cases
  BY <1>0 DEF WriteDecisionsLock, Continue, Typed, Texts
<1>s. past.said = None
  BY <1>w, NoneAssumption DEF IndInv, CommandOK
<1>1. Typed'
  <2>1. gen' \in Texts
    BY <1>0, <1>w, DropIs DEF Typed, Texts
  <2> QED BY <1>0, <1>w, <1>g, <2>1, NoneAssumption DEF Typed, GoesTo
<1>2. CommandOK'
  BY <1>w, <1>g DEF IndInv, CommandOK, GoesTo
<1>3. LocksOK'
  BY <1>w, <1>g DEF IndInv, LocksOK, GoesTo, KnownRows
<1>4. LockOK'
  BY <1>w, <1>g DEF IndInv, LockOK, GoesTo, Current, Baseline
<1>5. SeenOK'
  BY <1>w, <1>g DEF IndInv, SeenOK, GoesTo, Fed, Serving
<1>6. VerifiedOK'
  BY <1>w, <1>g, <1>s, NoneAssumption DEF IndInv, VerifiedOK, GoesTo, Complete, Unmoved, Standing,
     Serving
<1>7. CopiesOK'
  BY <1>w, <1>g, <1>s, NoneAssumption DEF IndInv, CopiesOK, GoesTo, Complete, Unmoved
<1>8. ForeignOK'
  BY <1>w, <1>g DEF IndInv, ForeignOK, GoesTo, Candidates
<1>9. CompletedOK'
  BY <1>w, <1>g DEF IndInv, CompletedOK, GoesTo, Baseline
<1>10. NothingOK'
  BY <1>w, <1>g, <1>s, NoneAssumption DEF IndInv, NothingOK, GoesTo, Baseline
<1>11. OwnOK'
  BY <1>w, <1>g DEF IndInv, OwnOK, GoesTo, Untouched
<1>12. CollisionOK'
  BY <1>w, <1>g, <1>s, NoneAssumption DEF IndInv, CollisionOK, GoesTo, Untouched
<1> QED BY <1>1, <1>2, <1>3, <1>4, <1>5, <1>6, <1>7, <1>8, <1>9, <1>10, <1>11, <1>12 DEF IndInv

(* A repository that is created has no heads.                              *)
LEMMA EnsureRemoteRepoKeeps ==
  ASSUME IndInv, EnsureRemoteRepo
  PROVE  IndInv'
<1>0. Typed
  BY DEF IndInv
<1>p. PICK c \in cmd.todo :
        /\ live' = [live EXCEPT ![c] = IF @ = Absent THEN NoHeads ELSE @]
        /\ cmd' = [cmd EXCEPT !.pc = "push", !.at = c]
  BY DEF EnsureRemoteRepo
<1>q. c \in Cases
  BY <1>0 DEF Typed, Commands
<1>w. /\ cmd.pc = "create"
      /\ tree' = tree /\ gen' = gen /\ conf' = conf /\ svc' = svc /\ copies' = copies /\ past'
         = past /\ used' = used
      /\ DOMAIN live' = Cases
      /\ \A d \in Cases : live'[d] = live[d] \/ (live[d] = Absent /\ live'[d] = NoHeads)
      /\ cmd'.pc = "push" /\ cmd'.op = cmd.op /\ cmd'.over = cmd.over /\ cmd'.cases = cmd.cases
      /\ cmd'.push = cmd.push /\ cmd'.todo = cmd.todo /\ cmd'.at = c /\ cmd'.mem = cmd.mem
  BY <1>0, <1>p, <1>q DEF EnsureRemoteRepo, Continue, Typed, Commands
<1>s. past.said = None
  BY <1>w, NoneAssumption DEF IndInv, CommandOK
<1>1. Typed'
  <2>1. cmd' \in Commands
    BY <1>0, <1>p, <1>q DEF Typed, Commands, Steps
  <2>2. live' \in [Cases -> Heads]
    BY <1>0, <1>p, <1>q DEF Typed, Heads
  <2>3. cmd'.at \in cmd'.todo
    BY <1>w
  <2> QED BY <1>0, <1>w, <2>1, <2>2, <2>3, NoneAssumption DEF Typed
<1>2. CommandOK'
  BY <1>w DEF IndInv, CommandOK
<1>3. LocksOK'
  BY <1>w DEF IndInv, LocksOK, KnownRows
<1>4. LockOK'
  BY <1>w DEF IndInv, LockOK, Current, Baseline
<1>5. SeenOK'
  BY <1>w DEF IndInv, SeenOK, Fed, Serving
<1>6. VerifiedOK'
  BY <1>w, <1>s, NoneAssumption DEF IndInv, VerifiedOK, Complete, Unmoved, Standing, Serving
<1>7. CopiesOK'
  BY <1>w, <1>s, NoneAssumption DEF IndInv, CopiesOK, Complete, Unmoved
<1>8. ForeignOK'
  <2>1. Candidates \subseteq Cases /\ Candidates' = Candidates
    BY <1>0, <1>w DEF Typed, Commands, Candidates
  <2> QED BY <1>w, <2>1, NoneAssumption DEF IndInv, ForeignOK
<1>9. CompletedOK'
  BY <1>w DEF IndInv, CompletedOK, Baseline
<1>10. NothingOK'
  BY <1>w, <1>s, NoneAssumption DEF IndInv, NothingOK, Baseline
<1>11. OwnOK'
  BY <1>w DEF IndInv, OwnOK, Untouched
<1>12. CollisionOK'
  BY <1>w, <1>s, NoneAssumption DEF IndInv, CollisionOK, Untouched
<1> QED BY <1>1, <1>2, <1>3, <1>4, <1>5, <1>6, <1>7, <1>8, <1>9, <1>10, <1>11, <1>12 DEF IndInv

(* The config of `up` changes no file of the corpus.                       *)
LEMMA WriteConfigKeeps ==
  ASSUME IndInv, WriteConfig
  PROVE  IndInv'
<1>0. Typed
  BY DEF IndInv
<1>d. ASSUME conf.torn  PROVE  IndInv'
  <2>1. /\ Die("refused") /\ cmd.pc # "idle"
        /\ UNCHANGED <<tree, gen, live, conf, svc, copies, used>>
    BY <1>d DEF WriteConfig
  <2>2. used' \in Spent /\ used'.edits = used.edits /\ used'.foreign = used.foreign
    BY <1>0, <2>1 DEF Typed
  <2>3. "refused" # "collision"
    OBVIOUS
  <2> QED BY <2>1, <2>2, <2>3, DieKeeps
<1>c. SUFFICES ASSUME ~conf.torn  PROVE  IndInv'
  BY <1>d
<1>g. GoesTo("start")
  <2>1. \E new \in BOOLEAN : cmd' = [cmd EXCEPT !.pc = "start", !.new = new]
    BY <1>c DEF WriteConfig
  <2> QED BY <1>0, <2>1 DEF GoesTo, Typed, Commands, Steps
<1>w. /\ cmd.pc = "write_config"
      /\ tree' = tree /\ gen' = gen /\ live' = live /\ svc' = svc /\ copies' = copies /\ past'
         = past /\ used' = used
      /\ conf' = [cases |-> cmd.cases, dumped |-> FALSE, torn |-> FALSE]
  BY <1>0, <1>c DEF WriteConfig, Continue
<1>s. past.said = None
  BY <1>w, NoneAssumption DEF IndInv, CommandOK
<1>1. Typed'
  <2>1. conf' \in Configs
    BY <1>0, <1>w DEF Typed, Configs, Commands
  <2> QED BY <1>0, <1>w, <1>g, <2>1, NoneAssumption DEF Typed, GoesTo
<1>2. CommandOK'
  BY <1>w, <1>g DEF IndInv, CommandOK, GoesTo
<1>3. LocksOK'
  BY <1>w, <1>g DEF IndInv, LocksOK, GoesTo, KnownRows
<1>4. LockOK'
  BY <1>w, <1>g DEF IndInv, LockOK, GoesTo, Current, Baseline
<1>5. SeenOK'
  BY <1>w, <1>g DEF IndInv, SeenOK, GoesTo, Fed, Serving
<1>6. VerifiedOK'
  BY <1>w, <1>g, <1>s, NoneAssumption DEF IndInv, VerifiedOK, GoesTo, Complete, Unmoved, Standing,
     Serving
<1>7. CopiesOK'
  BY <1>w, <1>g, <1>s, NoneAssumption DEF IndInv, CopiesOK, GoesTo, Complete, Unmoved
<1>8. ForeignOK'
  BY <1>w, <1>g DEF IndInv, ForeignOK, GoesTo, Candidates
<1>9. CompletedOK'
  BY <1>w, <1>g DEF IndInv, CompletedOK, GoesTo, Baseline
<1>10. NothingOK'
  BY <1>w, <1>g, <1>s, NoneAssumption DEF IndInv, NothingOK, GoesTo, Baseline
<1>11. OwnOK'
  BY <1>w, <1>g DEF IndInv, OwnOK, GoesTo, Untouched
<1>12. CollisionOK'
  BY <1>w, <1>g, <1>s, NoneAssumption DEF IndInv, CollisionOK, GoesTo, Untouched
<1> QED BY <1>1, <1>2, <1>3, <1>4, <1>5, <1>6, <1>7, <1>8, <1>9, <1>10, <1>11, <1>12 DEF IndInv

(* The config `update` dumps again neither.                                *)
LEMMA RewriteConfigKeeps ==
  ASSUME IndInv, RewriteConfig
  PROVE  IndInv'
<1>0. Typed
  BY DEF IndInv
<1>d. ASSUME conf.torn  PROVE  IndInv'
  <2>1. /\ Die("refused") /\ cmd.pc # "idle"
        /\ UNCHANGED <<tree, gen, live, conf, svc, copies, used>>
    BY <1>d DEF RewriteConfig
  <2>2. used' \in Spent /\ used'.edits = used.edits /\ used'.foreign = used.foreign
    BY <1>0, <2>1 DEF Typed
  <2>3. "refused" # "collision"
    OBVIOUS
  <2> QED BY <2>1, <2>2, <2>3, DieKeeps
<1>c. SUFFICES ASSUME ~conf.torn  PROVE  IndInv'
  BY <1>d
<1>g. GoesTo("start")
  <2>1. "start" \in Steps
    BY DEF Steps, Phases
  <2>2. Goto("start")
    BY <1>c DEF RewriteConfig, Continue
  <2> QED BY <1>0, <2>1, <2>2, Goes
<1>w. /\ cmd.pc = "new_config"
      /\ tree' = tree /\ gen' = gen /\ live' = live /\ svc' = svc /\ copies' = copies /\ past'
         = past /\ used' = used
      /\ conf' = [cases |-> cmd.cases, dumped |-> TRUE, torn |-> FALSE]
  BY <1>0, <1>c DEF RewriteConfig, Continue
<1>s. past.said = None
  BY <1>w, NoneAssumption DEF IndInv, CommandOK
<1>1. Typed'
  <2>1. conf' \in Configs
    BY <1>0, <1>w DEF Typed, Configs, Commands
  <2> QED BY <1>0, <1>w, <1>g, <2>1, NoneAssumption DEF Typed, GoesTo
<1>2. CommandOK'
  BY <1>w, <1>g DEF IndInv, CommandOK, GoesTo
<1>3. LocksOK'
  BY <1>w, <1>g DEF IndInv, LocksOK, GoesTo, KnownRows
<1>4. LockOK'
  BY <1>w, <1>g DEF IndInv, LockOK, GoesTo, Current, Baseline
<1>5. SeenOK'
  BY <1>w, <1>g DEF IndInv, SeenOK, GoesTo, Fed, Serving
<1>6. VerifiedOK'
  BY <1>w, <1>g, <1>s, NoneAssumption DEF IndInv, VerifiedOK, GoesTo, Complete, Unmoved, Standing,
     Serving
<1>7. CopiesOK'
  BY <1>w, <1>g, <1>s, NoneAssumption DEF IndInv, CopiesOK, GoesTo, Complete, Unmoved
<1>8. ForeignOK'
  BY <1>w, <1>g DEF IndInv, ForeignOK, GoesTo, Candidates
<1>9. CompletedOK'
  BY <1>w, <1>g DEF IndInv, CompletedOK, GoesTo, Baseline
<1>10. NothingOK'
  BY <1>w, <1>g, <1>s, NoneAssumption DEF IndInv, NothingOK, GoesTo, Baseline
<1>11. OwnOK'
  BY <1>w, <1>g DEF IndInv, OwnOK, GoesTo, Untouched
<1>12. CollisionOK'
  BY <1>w, <1>g, <1>s, NoneAssumption DEF IndInv, CollisionOK, GoesTo, Untouched
<1> QED BY <1>1, <1>2, <1>3, <1>4, <1>5, <1>6, <1>7, <1>8, <1>9, <1>10, <1>11, <1>12 DEF IndInv

(* A container that is started fetches; one that goes on has what it had.  *)
LEMMA StartServiceKeeps ==
  ASSUME IndInv, StartService
  PROVE  IndInv'
<1>0. Typed
  BY DEF IndInv
<1>g. GoesTo("await")
  <2>1. "await" \in Steps
    BY DEF Steps, Phases
  <2>2. Goto("await")
    BY DEF StartService, Continue
  <2> QED BY <1>0, <2>1, <2>2, Goes
<1>w. /\ cmd.pc = "start"
      /\ tree' = tree /\ gen' = gen /\ live' = live /\ conf' = conf /\ copies' = copies /\
         past' = past /\ used' = used
      /\ \/ svc' = svc
         \/ \E left \in {svc.store, <<>>} :
              svc' = [state |-> "fetching", repos |-> conf.cases, seen |-> <<>>,
                      drop |-> None, store |-> left]
  BY <1>0 DEF StartService, Continue
<1>s. past.said = None
  BY <1>w, NoneAssumption DEF IndInv, CommandOK
<1>1. Typed'
  <2>1. /\ svc' \in Services
        /\ DOMAIN svc'.seen = IF svc'.state \in {"embedding", "ready"} THEN svc'.repos ELSE {}
        /\ svc'.state = "embedding" => DOMAIN svc'.store \subseteq svc'.repos
    <3>1. CASE svc' = svc
      BY <1>0, <3>1 DEF Typed
    <3>2. ASSUME NEW left \in {svc.store, <<>>},
                 svc' = [state |-> "fetching", repos |-> conf.cases, seen |-> <<>>,
                         drop |-> None, store |-> left]
          PROVE  /\ svc' \in Services
                 /\ DOMAIN svc'.seen = IF svc'.state \in {"embedding", "ready"}
                                        THEN svc'.repos ELSE {}
                 /\ svc'.state # "embedding"
      <4>1. <<>> \in Maps(Heads) /\ DOMAIN <<>> = {}
        BY NoMap
      <4>2. None \in Drops /\ conf.cases \in SUBSET Cases /\ svc.store \in Maps(Heads)
        BY <1>0 DEF Typed, Drops, Configs, Services
      <4> QED BY <3>2, <4>1, <4>2 DEF Services
    <3> QED BY <1>w, <3>1, <3>2
  <2> QED BY <1>0, <1>w, <1>g, <2>1, NoneAssumption DEF Typed, GoesTo
<1>2. CommandOK'
  BY <1>w, <1>g DEF IndInv, CommandOK, GoesTo
<1>3. LocksOK'
  BY <1>w, <1>g DEF IndInv, LocksOK, GoesTo, KnownRows
<1>4. LockOK'
  BY <1>w, <1>g DEF IndInv, LockOK, GoesTo, Current, Baseline
<1>5. SeenOK'
  BY <1>w, <1>g DEF IndInv, SeenOK, GoesTo, Fed, Serving
<1>6. VerifiedOK'
  BY <1>w, <1>g, <1>s, NoneAssumption DEF IndInv, VerifiedOK, GoesTo, Complete, Unmoved, Standing,
     Serving
<1>7. CopiesOK'
  BY <1>w, <1>g, <1>s, NoneAssumption DEF IndInv, CopiesOK, GoesTo, Complete, Unmoved
<1>8. ForeignOK'
  BY <1>w, <1>g DEF IndInv, ForeignOK, GoesTo, Candidates
<1>9. CompletedOK'
  BY <1>w, <1>g DEF IndInv, CompletedOK, GoesTo, Baseline
<1>10. NothingOK'
  BY <1>w, <1>g, <1>s, NoneAssumption DEF IndInv, NothingOK, GoesTo, Baseline
<1>11. OwnOK'
  BY <1>w, <1>g DEF IndInv, OwnOK, GoesTo, Untouched
<1>12. CollisionOK'
  BY <1>w, <1>g, <1>s, NoneAssumption DEF IndInv, CollisionOK, GoesTo, Untouched
<1> QED BY <1>1, <1>2, <1>3, <1>4, <1>5, <1>6, <1>7, <1>8, <1>9, <1>10, <1>11, <1>12 DEF IndInv

(* A ready service has seen what was pushed before its fetch.              *)
LEMMA SeeReadyKeeps ==
  ASSUME IndInv, SeeReady
  PROVE  IndInv'
<1>0. Typed
  BY DEF IndInv
<1>g. GoesTo(IF cmd.pc = "await" THEN "ingest"
             ELSE IF cmd.op = "up" THEN "taskbank" ELSE "verify")
  <2>1. (IF cmd.pc = "await" THEN "ingest"
         ELSE IF cmd.op = "up" THEN "taskbank" ELSE "verify") \in Steps
    BY DEF Steps, Phases
  <2>2. Goto(IF cmd.pc = "await" THEN "ingest"
             ELSE IF cmd.op = "up" THEN "taskbank" ELSE "verify")
    BY DEF SeeReady, Continue
  <2> QED BY <1>0, <2>1, <2>2, Goes
<1>w. /\ cmd.pc \in {"await", "poll"}
      /\ tree' = tree /\ gen' = gen /\ live' = live /\ conf' = conf /\ svc' = svc /\ copies' =
         copies /\ past' = past /\ used' = used
      /\ svc.state = "ready"
  BY <1>0 DEF SeeReady, Continue
<1>s. past.said = None
  BY <1>w, NoneAssumption DEF IndInv, CommandOK
<1>1. Typed'
  BY <1>0, <1>w, <1>g DEF Typed, GoesTo
<1>2. CommandOK'
  BY <1>w, <1>g DEF IndInv, CommandOK, GoesTo
<1>3. LocksOK'
  BY <1>w, <1>g DEF IndInv, LocksOK, GoesTo, KnownRows
<1>4. LockOK'
  BY <1>w, <1>g DEF IndInv, LockOK, GoesTo, Current, Baseline
<1>5. SeenOK'
  BY <1>w, <1>g DEF IndInv, SeenOK, GoesTo, Fed, Serving
<1>6. VerifiedOK'
  BY <1>w, <1>g, <1>s, NoneAssumption DEF IndInv, VerifiedOK, GoesTo, Complete, Unmoved, Standing,
     Serving
<1>7. CopiesOK'
  BY <1>w, <1>g, <1>s, NoneAssumption DEF IndInv, CopiesOK, GoesTo, Complete, Unmoved
<1>8. ForeignOK'
  BY <1>w, <1>g DEF IndInv, ForeignOK, GoesTo, Candidates
<1>9. CompletedOK'
  BY <1>w, <1>g DEF IndInv, CompletedOK, GoesTo, Baseline
<1>10. NothingOK'
  BY <1>w, <1>g, <1>s, NoneAssumption DEF IndInv, NothingOK, GoesTo, Baseline
<1>11. OwnOK'
  BY <1>w, <1>g DEF IndInv, OwnOK, GoesTo, Untouched
<1>12. CollisionOK'
  BY <1>w, <1>g, <1>s, NoneAssumption DEF IndInv, CollisionOK, GoesTo, Untouched
<1> QED BY <1>1, <1>2, <1>3, <1>4, <1>5, <1>6, <1>7, <1>8, <1>9, <1>10, <1>11, <1>12 DEF IndInv

(* The lock's record of the bank is the parquet.                           *)
LEMMA LockBankKeeps ==
  ASSUME IndInv, LockBank
  PROVE  IndInv'
<1>0. Typed
  BY DEF IndInv
<1>g. GoesTo(IF cmd.op = "up" \/ ~copies.service THEN "verify"
         ELSE IF cmd.new THEN "new_config" ELSE "ingest")
  <2>1. (IF cmd.op = "up" \/ ~copies.service THEN "verify"
         ELSE IF cmd.new THEN "new_config" ELSE "ingest") \in Steps
    BY DEF Steps, Phases
  <2>2. Goto(IF cmd.op = "up" \/ ~copies.service THEN "verify"
         ELSE IF cmd.new THEN "new_config" ELSE "ingest")
    BY DEF LockBank, Continue
  <2> QED BY <1>0, <2>1, <2>2, Goes
<1>w. /\ cmd.pc = "lock_bank"
      /\ tree' = tree /\ live' = live /\ conf' = conf /\ svc' = svc /\ copies' = copies /\
         past' = past /\ used' = used
      /\ gen' = [gen EXCEPT !.bank = gen.parquet]
      /\ gen'.cases = gen.cases
  BY <1>0 DEF LockBank, Continue, Typed, Texts
<1>s. past.said = None
  BY <1>w, NoneAssumption DEF IndInv, CommandOK
<1>1. Typed'
  <2>1. gen' \in Texts
    BY <1>0, <1>w DEF Typed, Texts
  <2> QED BY <1>0, <1>w, <1>g, <2>1, NoneAssumption DEF Typed, GoesTo
<1>2. CommandOK'
  BY <1>w, <1>g DEF IndInv, CommandOK, GoesTo
<1>3. LocksOK'
  BY <1>w, <1>g DEF IndInv, LocksOK, GoesTo, KnownRows
<1>4. LockOK'
  BY <1>w, <1>g DEF IndInv, LockOK, GoesTo, Current, Baseline
<1>5. SeenOK'
  BY <1>w, <1>g DEF IndInv, SeenOK, GoesTo, Fed, Serving
<1>6. VerifiedOK'
  BY <1>w, <1>g, <1>s, NoneAssumption DEF IndInv, VerifiedOK, GoesTo, Complete, Unmoved, Standing,
     Serving
<1>7. CopiesOK'
  BY <1>w, <1>g, <1>s, NoneAssumption DEF IndInv, CopiesOK, GoesTo, Complete, Unmoved
<1>8. ForeignOK'
  BY <1>w, <1>g DEF IndInv, ForeignOK, GoesTo, Candidates
<1>9. CompletedOK'
  BY <1>w, <1>g DEF IndInv, CompletedOK, GoesTo, Baseline
<1>10. NothingOK'
  BY <1>w, <1>g, <1>s, NoneAssumption DEF IndInv, NothingOK, GoesTo, Baseline
<1>11. OwnOK'
  BY <1>w, <1>g DEF IndInv, OwnOK, GoesTo, Untouched
<1>12. CollisionOK'
  BY <1>w, <1>g, <1>s, NoneAssumption DEF IndInv, CollisionOK, GoesTo, Untouched
<1> QED BY <1>1, <1>2, <1>3, <1>4, <1>5, <1>6, <1>7, <1>8, <1>9, <1>10, <1>11, <1>12 DEF IndInv

(* The run's copy of the decisions lock is the tree's, verified.           *)
LEMMA CopyDecisionsLockKeeps ==
  ASSUME IndInv, CopyDecisionsLock
  PROVE  IndInv'
<1>0. Typed
  BY DEF IndInv
<1>g. GoesTo("record")
  <2>1. "record" \in Steps
    BY DEF Steps, Phases
  <2>2. Goto("record")
    BY DEF CopyDecisionsLock, Continue
  <2> QED BY <1>0, <2>1, <2>2, Goes
<1>w. /\ cmd.pc = "copy_drop"
      /\ tree' = tree /\ gen' = gen /\ live' = live /\ conf' = conf /\ svc' = svc /\ past' =
         past /\ used' = used
      /\ copies' = [copies EXCEPT !.drop = gen.drop]
      /\ copies'.bank = copies.bank
      /\ copies'.lock = copies.lock /\ copies'.service = copies.service
      /\ copies'.drop = gen.drop
  BY <1>0 DEF CopyDecisionsLock, Continue, Typed, Copies
<1>s. past.said = None
  BY <1>w, NoneAssumption DEF IndInv, CommandOK
<1>1. Typed'
  <2>1. copies' \in Copies
    BY <1>0, <1>w DEF Typed, Texts, Copies
  <2> QED BY <1>0, <1>w, <1>g, <2>1, NoneAssumption DEF Typed, GoesTo
<1>2. CommandOK'
  BY <1>w, <1>g DEF IndInv, CommandOK, GoesTo
<1>3. LocksOK'
  BY <1>w, <1>g DEF IndInv, LocksOK, GoesTo, KnownRows
<1>4. LockOK'
  BY <1>w, <1>g DEF IndInv, LockOK, GoesTo, Current, Baseline
<1>5. SeenOK'
  BY <1>w, <1>g DEF IndInv, SeenOK, GoesTo, Fed, Serving
<1>6. VerifiedOK'
  BY <1>w, <1>g, <1>s, NoneAssumption DEF IndInv, VerifiedOK, GoesTo, Complete, Unmoved, Standing,
     Serving
<1>7. CopiesOK'
  BY <1>w, <1>g, <1>s, NoneAssumption DEF IndInv, CopiesOK, GoesTo, Complete, Unmoved, VerifiedOK,
     Standing
<1>8. ForeignOK'
  BY <1>w, <1>g DEF IndInv, ForeignOK, GoesTo, Candidates
<1>9. CompletedOK'
  BY <1>w, <1>g DEF IndInv, CompletedOK, GoesTo, Baseline
<1>10. NothingOK'
  BY <1>w, <1>g, <1>s, NoneAssumption DEF IndInv, NothingOK, GoesTo, Baseline
<1>11. OwnOK'
  BY <1>w, <1>g DEF IndInv, OwnOK, GoesTo, Untouched
<1>12. CollisionOK'
  BY <1>w, <1>g, <1>s, NoneAssumption DEF IndInv, CollisionOK, GoesTo, Untouched
<1> QED BY <1>1, <1>2, <1>3, <1>4, <1>5, <1>6, <1>7, <1>8, <1>9, <1>10, <1>11, <1>12 DEF IndInv

(* Embedding changes nothing that was seen.                                *)
LEMMA EmbedKeeps ==
  ASSUME IndInv, Embed
  PROVE  IndInv'
<1>0. Typed
  BY DEF IndInv
<1>g. cmd' = cmd
  BY DEF Embed
<1>w. /\ tree' = tree /\ gen' = gen /\ live' = live /\ conf' = conf /\ copies' = copies /\
         past' = past /\ used' = used
      /\ svc.state = "embedding" /\ svc' = [svc EXCEPT !.state = "ready"]
      /\ svc'.state = "ready" /\ svc'.repos = svc.repos
      /\ svc'.seen = svc.seen /\ svc'.drop = svc.drop
  BY <1>0 DEF Embed, Continue, Typed, Services
<1>1. Typed'
  <2>1. svc' \in Services
    BY <1>0, <1>w DEF Typed, Services
  <2> QED BY <1>0, <1>w, <1>g, <2>1, NoneAssumption DEF Typed
<1>2. CommandOK'
  BY <1>w, <1>g DEF IndInv, CommandOK
<1>3. LocksOK'
  BY <1>w, <1>g DEF IndInv, LocksOK, KnownRows
<1>4. LockOK'
  BY <1>w, <1>g DEF IndInv, LockOK, Current, Baseline
<1>5. SeenOK'
  BY <1>w, <1>g DEF IndInv, SeenOK, Fed, Serving
<1>6. VerifiedOK'
  BY <1>w, <1>g DEF IndInv, VerifiedOK, Complete, Unmoved, Standing, Serving
<1>7. CopiesOK'
  BY <1>w, <1>g DEF IndInv, CopiesOK, Complete, Unmoved
<1>8. ForeignOK'
  BY <1>w, <1>g DEF IndInv, ForeignOK, Candidates
<1>9. CompletedOK'
  BY <1>w, <1>g DEF IndInv, CompletedOK, Baseline
<1>10. NothingOK'
  BY <1>w, <1>g DEF IndInv, NothingOK, Baseline
<1>11. OwnOK'
  BY <1>w, <1>g DEF IndInv, OwnOK, Untouched
<1>12. CollisionOK'
  BY <1>w, <1>g DEF IndInv, CollisionOK, Untouched
<1> QED BY <1>1, <1>2, <1>3, <1>4, <1>5, <1>6, <1>7, <1>8, <1>9, <1>10, <1>11, <1>12 DEF IndInv

(* A collection that lands in the store changes nothing that was seen.     *)
LEMMA LandKeeps ==
  ASSUME IndInv, NEW c \in Cases, Land(c)
  PROVE  IndInv'
<1>0. Typed
  BY DEF IndInv
<1>g. cmd' = cmd
  BY DEF Land
<1>w. /\ tree' = tree /\ gen' = gen /\ live' = live /\ conf' = conf /\ copies' = copies /\
         past' = past /\ used' = used
      /\ svc.state = "embedding" /\ svc'.state = svc.state /\ svc'.repos = svc.repos
      /\ svc' = [svc EXCEPT !.store = Restrict(svc.seen, DOMAIN @ \cup {c})]
      /\ svc'.seen = svc.seen /\ svc'.drop = svc.drop
  BY <1>0 DEF Land, Typed, Services
<1>1. Typed'
  <2>1. svc.seen \in Maps(Heads) /\ DOMAIN svc.store \cup {c} \subseteq DOMAIN svc.seen
    BY <1>0, <1>w DEF Typed, Services, Land
  <2>2. /\ Restrict(svc.seen, DOMAIN svc.store \cup {c}) \in Maps(Heads)
        /\ DOMAIN Restrict(svc.seen, DOMAIN svc.store \cup {c}) = DOMAIN svc.store \cup {c}
    BY <2>1, RestrictedMap
  <2>3. svc' \in Services /\ DOMAIN svc'.store \subseteq svc'.repos
    BY <1>0, <1>w, <2>1, <2>2 DEF Typed, Services
  <2> QED BY <1>0, <1>w, <1>g, <2>3, NoneAssumption DEF Typed
<1>2. CommandOK'
  BY <1>w, <1>g DEF IndInv, CommandOK
<1>3. LocksOK'
  BY <1>w, <1>g DEF IndInv, LocksOK, KnownRows
<1>4. LockOK'
  BY <1>w, <1>g DEF IndInv, LockOK, Current, Baseline
<1>5. SeenOK'
  BY <1>w, <1>g DEF IndInv, SeenOK, Fed, Serving
<1>6. VerifiedOK'
  BY <1>w, <1>g DEF IndInv, VerifiedOK, Complete, Unmoved, Standing, Serving
<1>7. CopiesOK'
  BY <1>w, <1>g DEF IndInv, CopiesOK, Complete, Unmoved
<1>8. ForeignOK'
  BY <1>w, <1>g DEF IndInv, ForeignOK, Candidates
<1>9. CompletedOK'
  BY <1>w, <1>g DEF IndInv, CompletedOK, Baseline
<1>10. NothingOK'
  BY <1>w, <1>g DEF IndInv, NothingOK, Baseline
<1>11. OwnOK'
  BY <1>w, <1>g DEF IndInv, OwnOK, Untouched
<1>12. CollisionOK'
  BY <1>w, <1>g DEF IndInv, CollisionOK, Untouched
<1> QED BY <1>1, <1>2, <1>3, <1>4, <1>5, <1>6, <1>7, <1>8, <1>9, <1>10, <1>11, <1>12 DEF IndInv

(* The cases to be pushed are the planned ones, or all of them.            *)
LEMMA ScaffoldKeeps ==
  ASSUME IndInv, Scaffold
  PROVE  IndInv'
<1>0. Typed
  BY DEF IndInv
<1>d. ASSUME ~(/\ Valid(tree) /\ gen.cases # Torn
               /\ cmd.op = "update" => cmd.push \subseteq DOMAIN tree.cases)
      PROVE  IndInv'
  <2>1. /\ Die("refused") /\ cmd.pc # "idle"
        /\ UNCHANGED <<tree, gen, live, conf, svc, copies, used>>
    BY <1>d DEF Scaffold
  <2>2. used' \in Spent /\ used'.edits = used.edits /\ used'.foreign = used.foreign
    BY <1>0, <2>1 DEF Typed
  <2>3. "refused" # "collision"
    OBVIOUS
  <2> QED BY <2>1, <2>2, <2>3, DieKeeps
<1>c. SUFFICES ASSUME Valid(tree), gen.cases # Torn,
                      cmd.op = "update" => cmd.push \subseteq DOMAIN tree.cases
               PROVE  IndInv'
  BY <1>d
<1>p. cmd' = [cmd EXCEPT !.pc = "create", !.mem = gen.cases,
                         !.todo = IF cmd.op = "update" THEN cmd.push ELSE DOMAIN tree.cases]
  BY <1>c DEF Scaffold
<1>w. /\ cmd.pc = "scaffold"
      /\ tree' = tree /\ gen' = gen /\ live' = live /\ conf' = conf /\ svc' = svc /\ copies' =
         copies /\ past' = past /\ used' = used
      /\ cmd'.pc = "create" /\ cmd'.op = cmd.op /\ cmd'.over = cmd.over /\ cmd'.cases = cmd.cases
      /\ cmd'.push = cmd.push /\ cmd'.at = cmd.at /\ cmd'.mem = gen.cases
      /\ cmd'.todo = IF cmd.op = "update" THEN cmd.push ELSE DOMAIN tree.cases
  BY <1>0, <1>c, <1>p DEF Scaffold, Continue, Typed, Commands
<1>s. past.said = None
  BY <1>w, NoneAssumption DEF IndInv, CommandOK
<1>1. Typed'
  <2>1. gen.cases \in Maps(Entries) /\ DOMAIN tree.cases \subseteq Cases
    BY <1>0, <1>c, TreesAssumption DEF Typed, Texts
  <2>2. cmd' \in Commands
    BY <1>0, <1>p, <2>1 DEF Typed, Commands, Steps
  <2> QED BY <1>0, <1>w, <2>1, <2>2, NoneAssumption DEF Typed
<1>2. CommandOK'
  BY <1>w, <1>0, <1>c DEF IndInv, CommandOK, Typed, Commands
<1>3. LocksOK'
  BY <1>w, <1>c DEF IndInv, LocksOK, KnownRows
<1>4. LockOK'
  <2>1. CASE cmd.op = "update"
    BY <1>c, <1>w, <2>1 DEF IndInv, LockOK, Current
  <2>2. CASE cmd.op # "update"
    BY <1>c, <1>w, <2>2 DEF LockOK, Current
  <2> QED BY <2>1, <2>2
<1>5. SeenOK'
  BY <1>w DEF IndInv, SeenOK, Fed, Serving
<1>6. VerifiedOK'
  BY <1>w, <1>s, NoneAssumption DEF IndInv, VerifiedOK, Complete, Unmoved, Standing, Serving
<1>7. CopiesOK'
  BY <1>w, <1>s, NoneAssumption DEF IndInv, CopiesOK, Complete, Unmoved
<1>8. ForeignOK'
  <2>1. ~past.moved => cmd'.todo \subseteq cmd.push
    <3>1. ~past.moved => ~past.edited
      BY <1>w DEF IndInv, CommandOK
    <3>2. cmd.op = "up" /\ ~past.edited => cmd.push = DOMAIN tree.cases
      BY <1>w DEF IndInv, CommandOK
    <3>3. cmd.op \in {"up", "update"}
      BY <1>0, <1>w DEF Typed, Commands
    <3> QED BY <1>w, <3>1, <3>2, <3>3
  <2>2. ~past.moved /\ ~cmd.over => \A c \in cmd.push : live[c] = Foreign => c \in past.late
    BY <1>w DEF IndInv, ForeignOK, Candidates
  <2> QED BY <1>w, <2>1, <2>2 DEF ForeignOK, Candidates
<1>9. CompletedOK'
  BY <1>w DEF IndInv, CompletedOK, Baseline
<1>10. NothingOK'
  BY <1>w, <1>s, NoneAssumption DEF IndInv, NothingOK, Baseline
<1>11. OwnOK'
  BY <1>w DEF IndInv, OwnOK, Untouched
<1>12. CollisionOK'
  BY <1>w, <1>s, NoneAssumption DEF IndInv, CollisionOK, Untouched
<1> QED BY <1>1, <1>2, <1>3, <1>4, <1>5, <1>6, <1>7, <1>8, <1>9, <1>10, <1>11, <1>12 DEF IndInv

(* A push makes the heads what the tree builds.                            *)
LEMMA PushRepoKeeps ==
  ASSUME IndInv, PushRepo
  PROVE  IndInv'
<1>0. Typed
  BY DEF IndInv
<1>d. ASSUME ~(live[cmd.at] # Absent)  PROVE  IndInv'
  <2>1. /\ Die("refused") /\ cmd.pc # "idle"
        /\ UNCHANGED <<tree, gen, live, conf, svc, copies, used>>
    BY <1>d DEF PushRepo
  <2>2. used' \in Spent /\ used'.edits = used.edits /\ used'.foreign = used.foreign
    BY <1>0, <2>1 DEF Typed
  <2>3. "refused" # "collision"
    OBVIOUS
  <2> QED BY <2>1, <2>2, <2>3, DieKeeps
<1>c. SUFFICES ASSUME live[cmd.at] # Absent  PROVE  IndInv'
  BY <1>d
<1>g. GoesTo("read_back")
  <2>1. "read_back" \in Steps
    BY DEF Steps, Phases
  <2>2. Goto("read_back")
    BY <1>c DEF PushRepo, Continue
  <2> QED BY <1>0, <2>1, <2>2, Goes
<1>w. /\ cmd.pc = "push"
      /\ tree' = tree /\ gen' = gen /\ conf' = conf /\ svc' = svc /\ copies' = copies /\ past'
         = past /\ used' = used
      /\ live' = [live EXCEPT ![cmd.at] = Build(tree, cmd.at)]
      /\ cmd.at \in cmd.todo /\ cmd.at \in DOMAIN tree.cases
      /\ cmd.at \in Cases /\ tree \in ValidTrees
      /\ DOMAIN live' = Cases /\ live'[cmd.at] = Build(tree, cmd.at)
      /\ \A c \in Cases \ {cmd.at} : live'[c] = live[c]
  BY <1>0, <1>c DEF PushRepo, Continue, IndInv, Typed, CommandOK, ValidTrees, Commands
<1>s. past.said = None
  BY <1>w, NoneAssumption DEF IndInv, CommandOK
<1>1. Typed'
  <2>1. Build(tree, cmd.at) \in Heads
    BY <1>w, Values
  <2>2. live' \in [Cases -> Heads]
    BY <1>0, <1>w, <2>1 DEF Typed
  <2>3. cmd'.at \in cmd'.todo
    BY <1>w, <1>g DEF GoesTo
  <2> QED BY <1>0, <1>w, <1>g, <2>1, <2>2, <2>3, NoneAssumption DEF Typed, GoesTo
<1>2. CommandOK'
  BY <1>w, <1>g DEF IndInv, CommandOK, GoesTo
<1>3. LocksOK'
  BY <1>w, <1>g DEF IndInv, LocksOK, GoesTo, KnownRows
<1>4. LockOK'
  BY <1>w, <1>g DEF IndInv, LockOK, GoesTo, Current, Baseline
<1>5. SeenOK'
  BY <1>w, <1>g DEF IndInv, SeenOK, GoesTo, Fed, Serving
<1>6. VerifiedOK'
  BY <1>w, <1>g, <1>s, NoneAssumption DEF IndInv, VerifiedOK, GoesTo, Complete, Unmoved, Standing,
     Serving
<1>7. CopiesOK'
  BY <1>w, <1>g, <1>s, NoneAssumption DEF IndInv, CopiesOK, GoesTo, Complete, Unmoved
<1>8. ForeignOK'
  <2>1. Build(tree, cmd.at) # Foreign
    BY <1>w, Values
  <2>2. cmd.todo \subseteq Cases
    BY <1>0 DEF Typed, Commands
  <2> QED BY <1>w, <1>g, <2>1, <2>2 DEF IndInv, ForeignOK, Candidates, GoesTo
<1>9. CompletedOK'
  BY <1>w, <1>g DEF IndInv, CompletedOK, GoesTo, Baseline
<1>10. NothingOK'
  BY <1>w, <1>g, <1>s, NoneAssumption DEF IndInv, NothingOK, GoesTo, Baseline
<1>11. OwnOK'
  BY <1>w, <1>g DEF IndInv, OwnOK, GoesTo, Untouched
<1>12. CollisionOK'
  BY <1>w, <1>g, <1>s, NoneAssumption DEF IndInv, CollisionOK, GoesTo, Untouched
<1> QED BY <1>1, <1>2, <1>3, <1>4, <1>5, <1>6, <1>7, <1>8, <1>9, <1>10, <1>11, <1>12 DEF IndInv

(* A case that was pushed has the tree's entry in memory.                  *)
LEMMA ReadBackKeeps ==
  ASSUME IndInv, ReadBack
  PROVE  IndInv'
<1>0. Typed
  BY DEF IndInv
<1>d. ASSUME ~(live[cmd.at] = Build(tree, cmd.at))  PROVE  IndInv'
  <2>1. /\ Die("refused") /\ cmd.pc # "idle"
        /\ UNCHANGED <<tree, gen, live, conf, svc, copies, used>>
    BY <1>d DEF ReadBack
  <2>2. used' \in Spent /\ used'.edits = used.edits /\ used'.foreign = used.foreign
    BY <1>0, <2>1 DEF Typed
  <2>3. "refused" # "collision"
    OBVIOUS
  <2> QED BY <2>1, <2>2, <2>3, DieKeeps
<1>c. SUFFICES ASSUME live[cmd.at] = Build(tree, cmd.at)  PROVE  IndInv'
  BY <1>d
<1> DEFINE left == cmd.todo \ {cmd.at}
           mem == [c \in DOMAIN cmd.mem \cup {cmd.at} |->
                     IF c = cmd.at THEN LockEntry(tree, cmd.at) ELSE cmd.mem[c]]
<1>p. /\ cmd' = [cmd EXCEPT !.pc = IF left = {} THEN "write_lock" ELSE "create",
                            !.todo = left, !.at = None, !.mem = mem]
      /\ UNCHANGED past
  BY <1>c DEF ReadBack
<1>q. /\ DOMAIN mem = DOMAIN cmd.mem \cup {cmd.at} /\ mem[cmd.at] = LockEntry(tree, cmd.at)
      /\ \A c \in DOMAIN cmd.mem \ {cmd.at} : mem[c] = cmd.mem[c]
      /\ left \subseteq cmd.todo /\ cmd.at \notin left
      /\ \A c \in cmd.todo : c = cmd.at \/ c \in left
  OBVIOUS
<1>r. mem \in [DOMAIN cmd.mem \cup {cmd.at} -> {mem[c] : c \in DOMAIN cmd.mem \cup {cmd.at}}]
  OBVIOUS
<1> HIDE DEF left, mem
<1>w. /\ cmd.pc = "read_back"
      /\ tree' = tree /\ gen' = gen /\ live' = live /\ conf' = conf /\ svc' = svc /\ copies' =
         copies /\ past' = past /\ used' = used
      /\ cmd'.pc = (IF left = {} THEN "write_lock" ELSE "create")
      /\ cmd'.op = cmd.op /\ cmd'.over = cmd.over /\ cmd'.cases = cmd.cases
      /\ cmd'.push = cmd.push /\ cmd'.at = None /\ cmd'.mem = mem /\ cmd'.todo = left
      /\ cmd.at \in cmd.todo /\ cmd.at \in DOMAIN tree.cases
      /\ cmd.at \in Cases /\ tree \in ValidTrees
  BY <1>0, <1>p DEF ReadBack, Continue, IndInv, Typed, CommandOK, Commands, ValidTrees
<1>s. past.said = None
  BY <1>w, NoneAssumption DEF IndInv, CommandOK
<1>1. Typed'
  <2>1. \A c \in DOMAIN cmd.mem \cup {cmd.at} : mem[c] \in Entries

    <3>1. cmd.mem \in Maps(Entries) /\ \A c \in DOMAIN cmd.mem : cmd.mem[c] \in Entries
      <4>1. cmd.mem \in Maps(Entries)
        BY <1>0 DEF Typed, Commands
      <4> QED BY <4>1, MapIs
    <3>2. LockEntry(tree, cmd.at) \in Entries
      BY <1>w, Values
    <3> QED BY <1>q, <3>1, <3>2
  <2>2. mem \in Maps(Entries)

    <3>1. mem \in [DOMAIN cmd.mem \cup {cmd.at} -> Entries]
      BY <1>r, <2>1
    <3>2. DOMAIN cmd.mem \cup {cmd.at} \in SUBSET Cases
      <4>1. cmd.mem \in Maps(Entries)
        BY <1>0 DEF Typed, Commands
      <4> QED BY <1>w, <4>1, MapIs
    <3> QED BY <3>1, <3>2, MapOf
  <2>3. left \in SUBSET Cases
    BY <1>0, <1>q DEF Typed, Commands
  <2>4. cmd' \in Commands
    BY <1>0, <1>p, <2>2, <2>3 DEF Typed, Commands, Steps
  <2> QED BY <1>0, <1>w, <2>1, <2>2, <2>3, <2>4, NoneAssumption DEF Typed
<1>2. CommandOK'
  BY <1>w, <1>q DEF IndInv, CommandOK
<1>3. LocksOK'
  <2>1. KnownRows(mem)
    <3>1. ASSUME NEW c \in DOMAIN mem
          PROVE  \E t \in ValidTrees : c \in DOMAIN t.cases /\ mem[c] = LockEntry(t, c)
      <4>1. CASE c = cmd.at
        BY <1>q, <1>w, <4>1
      <4>2. CASE c # cmd.at
        <5>1. c \in DOMAIN cmd.mem /\ mem[c] = cmd.mem[c]
          BY <1>q, <3>1, <4>2
        <5> QED BY <5>1 DEF IndInv, LocksOK, KnownRows
      <4> QED BY <4>1, <4>2
    <3> QED BY <3>1 DEF KnownRows
  <2> QED BY <1>w, <2>1 DEF IndInv, LocksOK, KnownRows
<1>4. LockOK'
  BY <1>w, <1>q, EntryIs DEF IndInv, LockOK, Current, Baseline
<1>5. SeenOK'
  BY <1>w DEF IndInv, SeenOK, Fed, Serving
<1>6. VerifiedOK'
  BY <1>w, <1>s, NoneAssumption DEF IndInv, VerifiedOK, Complete, Unmoved, Standing, Serving
<1>7. CopiesOK'
  BY <1>w, <1>s, NoneAssumption DEF IndInv, CopiesOK, Complete, Unmoved
<1>8. ForeignOK'
  BY <1>w, <1>q DEF IndInv, ForeignOK, Candidates
<1>9. CompletedOK'
  BY <1>w DEF IndInv, CompletedOK, Baseline
<1>10. NothingOK'
  BY <1>w, <1>s, NoneAssumption DEF IndInv, NothingOK, Baseline
<1>11. OwnOK'
  BY <1>w DEF IndInv, OwnOK, Untouched
<1>12. CollisionOK'
  BY <1>w, <1>s, NoneAssumption DEF IndInv, CollisionOK, Untouched
<1> QED BY <1>1, <1>2, <1>3, <1>4, <1>5, <1>6, <1>7, <1>8, <1>9, <1>10, <1>11, <1>12 DEF IndInv

(* A trigger starts a fetch, or meets a build and is stale.                *)
LEMMA IngestKeeps ==
  ASSUME IndInv, Ingest
  PROVE  IndInv'
<1>0. Typed
  BY DEF IndInv
<1>d. ASSUME ~(Valid(tree))  PROVE  IndInv'
  <2>1. /\ Die("refused") /\ cmd.pc # "idle"
        /\ UNCHANGED <<tree, gen, live, conf, svc, copies, used>>
    BY <1>d DEF Ingest
  <2>2. used' \in Spent /\ used'.edits = used.edits /\ used'.foreign = used.foreign
    BY <1>0, <2>1 DEF Typed
  <2>3. "refused" # "collision"
    OBVIOUS
  <2> QED BY <2>1, <2>2, <2>3, DieKeeps
<1>c. SUFFICES ASSUME Valid(tree)  PROVE  IndInv'
  BY <1>d
<1>p. svc' = IF Building THEN svc ELSE [svc EXCEPT !.state = "fetching", !.seen = <<>>]
  BY <1>c DEF Ingest
<1>q. past' = [past EXCEPT !.stale = Building]
  BY <1>c DEF Ingest
<1>g. GoesTo("poll")
  <2>1. "poll" \in Steps
    BY DEF Steps, Phases
  <2>2. Goto("poll")
    BY <1>c, <1>q DEF Ingest, Continue
  <2> QED BY <1>0, <2>1, <2>2, Goes
<1>w. /\ cmd.pc = "ingest"
      /\ tree' = tree /\ gen' = gen /\ live' = live /\ conf' = conf /\ copies' = copies /\
         used' = used
      /\ past'.said = past.said /\ past'.moved = past.moved /\ past'.pushed = past.pushed
      /\ past'.edited = past.edited /\ past'.late = past.late /\ past'.dirty = past.dirty
  BY <1>0, <1>c, <1>q DEF Ingest, Continue, Typed, Pasts
<1>s. past.said = None
  BY <1>w, NoneAssumption DEF IndInv, CommandOK
<1>1. Typed'
  <2>1. past' \in Pasts

    <3>1. \E b \in BOOLEAN : past' = [past EXCEPT !.stale = b]
      <4>1. Building \in BOOLEAN
        BY DEF Building
      <4> QED BY <1>q, <4>1
    <3> QED BY <1>0, <3>1 DEF Typed, Pasts
  <2>2. svc' \in Services
    BY <1>0, <1>p, NoMap DEF Typed, Services
  <2>3. /\ DOMAIN svc'.seen = IF svc'.state \in {"embedding", "ready"} THEN svc'.repos ELSE {}
        /\ svc'.state = "embedding" => DOMAIN svc'.store \subseteq svc'.repos
    BY <1>0, <1>p, NoMap DEF Typed, Services, Building
  <2> QED BY <1>0, <1>w, <1>g, <2>1, <2>2, <2>3, NoneAssumption DEF Typed, GoesTo
<1>2. CommandOK'
  BY <1>w, <1>g DEF IndInv, CommandOK, GoesTo
<1>3. LocksOK'
  BY <1>w, <1>g DEF IndInv, LocksOK, GoesTo, KnownRows
<1>4. LockOK'
  BY <1>w, <1>g DEF IndInv, LockOK, GoesTo, Current, Baseline
<1>5. SeenOK'
  <2>1. ~past'.stale => svc'.state = "fetching"
    BY <1>0, <1>p, <1>q DEF Typed, Services, Pasts
  <2> QED BY <2>1 DEF SeenOK
<1>6. VerifiedOK'
  BY <1>w, <1>g, <1>s, NoneAssumption DEF IndInv, VerifiedOK, GoesTo, Complete, Unmoved, Standing,
     Serving
<1>7. CopiesOK'
  BY <1>w, <1>g, <1>s, NoneAssumption DEF IndInv, CopiesOK, GoesTo, Complete, Unmoved
<1>8. ForeignOK'
  BY <1>w, <1>g DEF IndInv, ForeignOK, GoesTo, Candidates
<1>9. CompletedOK'
  BY <1>w, <1>g DEF IndInv, CompletedOK, GoesTo, Baseline
<1>10. NothingOK'
  BY <1>w, <1>g, <1>s, NoneAssumption DEF IndInv, NothingOK, GoesTo, Baseline
<1>11. OwnOK'
  BY <1>w, <1>g DEF IndInv, OwnOK, GoesTo, Untouched
<1>12. CollisionOK'
  BY <1>w, <1>g, <1>s, NoneAssumption DEF IndInv, CollisionOK, GoesTo, Untouched
<1> QED BY <1>1, <1>2, <1>3, <1>4, <1>5, <1>6, <1>7, <1>8, <1>9, <1>10, <1>11, <1>12 DEF IndInv

(* A wait that ends early ends the command.                                *)
LEMMA GiveUpKeeps ==
  ASSUME IndInv, GiveUp
  PROVE  IndInv'
<1>1. Die("refused") /\ UNCHANGED <<tree, gen, live, conf, svc, copies, used>> /\ cmd.pc # "idle"
  BY DEF GiveUp
<1>2. used' \in Spent /\ used'.edits = used.edits /\ used'.foreign = used.foreign
  BY <1>1 DEF IndInv, Typed
<1>3. "refused" # "collision"
  OBVIOUS
<1> QED BY <1>1, <1>2, <1>3, DieKeeps

(* The bank is the tree's rows.                                            *)
LEMMA WriteBankKeeps ==
  ASSUME IndInv, WriteBank
  PROVE  IndInv'
<1>0. Typed
  BY DEF IndInv
<1>d. ASSUME ~(Bankable)  PROVE  IndInv'
  <2>1. /\ Die("refused") /\ cmd.pc # "idle"
        /\ UNCHANGED <<tree, gen, live, conf, svc, copies, used>>
    BY <1>d DEF WriteBank
  <2>2. used' \in Spent /\ used'.edits = used.edits /\ used'.foreign = used.foreign
    BY <1>0, <2>1 DEF Typed
  <2>3. "refused" # "collision"
    OBVIOUS
  <2> QED BY <2>1, <2>2, <2>3, DieKeeps
<1>c. SUFFICES ASSUME Bankable  PROVE  IndInv'
  BY <1>d
<1>g. GoesTo("lock_bank")
  <2>1. "lock_bank" \in Steps
    BY DEF Steps, Phases
  <2>2. Goto("lock_bank")
    BY <1>c DEF WriteBank, Continue
  <2> QED BY <1>0, <2>1, <2>2, Goes
<1>w. /\ cmd.pc = "taskbank"
      /\ tree' = tree /\ live' = live /\ conf' = conf /\ svc' = svc /\ copies' = copies /\
         past' = past /\ used' = used
      /\ gen' = [gen EXCEPT !.parquet = Rows(tree)]
      /\ gen'.cases = gen.cases
  BY <1>0, <1>c DEF WriteBank, Continue, Typed, Texts
<1>s. past.said = None
  BY <1>w, NoneAssumption DEF IndInv, CommandOK
<1>1. Typed'
  <2>1. Rows(tree) \in Banks
    BY <1>0, <1>c, Values DEF Typed, Bankable, ValidTrees
  <2>2. gen' \in Texts
    BY <1>0, <1>w, <2>1 DEF Typed, Texts
  <2> QED BY <1>0, <1>w, <1>g, <2>1, <2>2, NoneAssumption DEF Typed, GoesTo
<1>2. CommandOK'
  BY <1>w, <1>g DEF IndInv, CommandOK, GoesTo
<1>3. LocksOK'
  BY <1>w, <1>g DEF IndInv, LocksOK, GoesTo, KnownRows
<1>4. LockOK'
  BY <1>w, <1>g DEF IndInv, LockOK, GoesTo, Current, Baseline
<1>5. SeenOK'
  BY <1>w, <1>g DEF IndInv, SeenOK, GoesTo, Fed, Serving
<1>6. VerifiedOK'
  BY <1>w, <1>g, <1>s, NoneAssumption DEF IndInv, VerifiedOK, GoesTo, Complete, Unmoved, Standing,
     Serving
<1>7. CopiesOK'
  BY <1>w, <1>g, <1>s, NoneAssumption DEF IndInv, CopiesOK, GoesTo, Complete, Unmoved
<1>8. ForeignOK'
  BY <1>w, <1>g DEF IndInv, ForeignOK, GoesTo, Candidates
<1>9. CompletedOK'
  BY <1>w, <1>g DEF IndInv, CompletedOK, GoesTo, Baseline
<1>10. NothingOK'
  BY <1>w, <1>g, <1>s, NoneAssumption DEF IndInv, NothingOK, GoesTo, Baseline
<1>11. OwnOK'
  BY <1>w, <1>g DEF IndInv, OwnOK, GoesTo, Untouched
<1>12. CollisionOK'
  BY <1>w, <1>g, <1>s, NoneAssumption DEF IndInv, CollisionOK, GoesTo, Untouched
<1> QED BY <1>1, <1>2, <1>3, <1>4, <1>5, <1>6, <1>7, <1>8, <1>9, <1>10, <1>11, <1>12 DEF IndInv

(* The run's copy of the bank is the verified one.                         *)
LEMMA CopyBankKeeps ==
  ASSUME IndInv, CopyBank
  PROVE  IndInv'
<1>0. Typed
  BY DEF IndInv
<1>d. ASSUME ~(gen.parquet # None)  PROVE  IndInv'
  <2>1. /\ Die("refused") /\ cmd.pc # "idle"
        /\ UNCHANGED <<tree, gen, live, conf, svc, copies, used>>
    BY <1>d DEF CopyBank
  <2>2. used' \in Spent /\ used'.edits = used.edits /\ used'.foreign = used.foreign
    BY <1>0, <2>1 DEF Typed
  <2>3. "refused" # "collision"
    OBVIOUS
  <2> QED BY <2>1, <2>2, <2>3, DieKeeps
<1>c. SUFFICES ASSUME gen.parquet # None  PROVE  IndInv'
  BY <1>d
<1>g. GoesTo("copy_lock")
  <2>1. "copy_lock" \in Steps
    BY DEF Steps, Phases
  <2>2. Goto("copy_lock")
    BY <1>c DEF CopyBank, Continue
  <2> QED BY <1>0, <2>1, <2>2, Goes
<1>w. /\ cmd.pc = "copy_bank"
      /\ tree' = tree /\ gen' = gen /\ live' = live /\ conf' = conf /\ svc' = svc /\ past' =
         past /\ used' = used
      /\ copies' = [copies EXCEPT !.bank = gen.parquet]
      /\ copies'.bank = gen.parquet
      /\ copies'.lock = copies.lock /\ copies'.service = copies.service
      /\ copies'.drop = copies.drop
  BY <1>0, <1>c DEF CopyBank, Continue, Typed, Copies
<1>s. past.said = None
  BY <1>w, NoneAssumption DEF IndInv, CommandOK
<1>1. Typed'
  <2>1. copies' \in Copies
    BY <1>0, <1>w DEF Typed, Texts, Copies
  <2>2. copies'.bank # None
    BY <1>c, <1>w
  <2> QED BY <1>0, <1>w, <1>g, <2>1, <2>2, NoneAssumption DEF Typed, GoesTo
<1>2. CommandOK'
  BY <1>w, <1>g, <1>c DEF IndInv, CommandOK, GoesTo
<1>3. LocksOK'
  BY <1>w, <1>g DEF IndInv, LocksOK, GoesTo, KnownRows
<1>4. LockOK'
  BY <1>w, <1>g DEF IndInv, LockOK, GoesTo, Current, Baseline
<1>5. SeenOK'
  BY <1>w, <1>g DEF IndInv, SeenOK, GoesTo, Fed, Serving
<1>6. VerifiedOK'
  BY <1>w, <1>g, <1>s, NoneAssumption DEF IndInv, VerifiedOK, GoesTo, Complete, Unmoved, Standing,
     Serving
<1>7. CopiesOK'
  BY <1>w, <1>g, <1>s, NoneAssumption DEF IndInv, CopiesOK, GoesTo, Complete, Unmoved, VerifiedOK,
     Standing
<1>8. ForeignOK'
  BY <1>w, <1>g DEF IndInv, ForeignOK, GoesTo, Candidates
<1>9. CompletedOK'
  BY <1>w, <1>g DEF IndInv, CompletedOK, GoesTo, Baseline
<1>10. NothingOK'
  BY <1>w, <1>g, <1>s, NoneAssumption DEF IndInv, NothingOK, GoesTo, Baseline
<1>11. OwnOK'
  BY <1>w, <1>g DEF IndInv, OwnOK, GoesTo, Untouched
<1>12. CollisionOK'
  BY <1>w, <1>g, <1>s, NoneAssumption DEF IndInv, CollisionOK, GoesTo, Untouched
<1> QED BY <1>1, <1>2, <1>3, <1>4, <1>5, <1>6, <1>7, <1>8, <1>9, <1>10, <1>11, <1>12 DEF IndInv

(* The run's copy of the lock is the verified one, and whole.              *)
LEMMA CopyLockKeeps ==
  ASSUME IndInv, CopyLock
  PROVE  IndInv'
<1>0. Typed
  BY DEF IndInv
<1>d. ASSUME ~(gen.bank # None)  PROVE  IndInv'
  <2>1. /\ Die("refused") /\ cmd.pc # "idle"
        /\ UNCHANGED <<tree, gen, live, conf, svc, copies, used>>
    BY <1>d DEF CopyLock
  <2>2. used' \in Spent /\ used'.edits = used.edits /\ used'.foreign = used.foreign
    BY <1>0, <2>1 DEF Typed
  <2>3. "refused" # "collision"
    OBVIOUS
  <2> QED BY <2>1, <2>2, <2>3, DieKeeps
<1>c. SUFFICES ASSUME gen.bank # None  PROVE  IndInv'
  BY <1>d
<1>g. GoesTo("copy_drop")
  <2>1. "copy_drop" \in Steps
    BY DEF Steps, Phases
  <2>2. Goto("copy_drop")
    BY <1>c DEF CopyLock, Continue
  <2> QED BY <1>0, <2>1, <2>2, Goes
<1>w. /\ cmd.pc = "copy_lock"
      /\ tree' = tree /\ gen' = gen /\ live' = live /\ conf' = conf /\ svc' = svc /\ past' =
         past /\ used' = used
      /\ copies' = [copies EXCEPT !.lock = [cases |-> gen.cases, bank |-> gen.bank]]
      /\ copies'.lock = [cases |-> gen.cases, bank |-> gen.bank]
      /\ copies'.bank = copies.bank
      /\ copies'.drop = copies.drop /\ copies'.service = copies.service
      /\ gen.cases # Torn
  BY <1>0, <1>c DEF CopyLock, Continue, Typed, Copies, IndInv, CommandOK
<1>s. past.said = None
  BY <1>w, NoneAssumption DEF IndInv, CommandOK
<1>1. Typed'
  <2>1. [cases |-> gen.cases, bank |-> gen.bank] \in Locks
    BY <1>0, <1>w DEF Typed, Texts, Locks
  <2>2. copies' \in Copies
    BY <1>0, <1>w, <2>1 DEF Typed, Copies
  <2> QED BY <1>0, <1>w, <1>g, <2>1, <2>2, NoneAssumption DEF Typed, GoesTo
<1>2. CommandOK'
  BY <1>w, <1>g DEF IndInv, CommandOK, GoesTo
<1>3. LocksOK'
  BY <1>w, <1>g DEF IndInv, LocksOK, GoesTo, KnownRows
<1>4. LockOK'
  BY <1>w, <1>g DEF IndInv, LockOK, GoesTo, Current, Baseline
<1>5. SeenOK'
  BY <1>w, <1>g DEF IndInv, SeenOK, GoesTo, Fed, Serving
<1>6. VerifiedOK'
  BY <1>w, <1>g, <1>s, NoneAssumption DEF IndInv, VerifiedOK, GoesTo, Complete, Unmoved, Standing,
     Serving
<1>7. CopiesOK'
  BY <1>w, <1>g, <1>s, NoneAssumption DEF IndInv, CopiesOK, GoesTo, Complete, Unmoved, VerifiedOK,
     Standing
<1>8. ForeignOK'
  BY <1>w, <1>g DEF IndInv, ForeignOK, GoesTo, Candidates
<1>9. CompletedOK'
  BY <1>w, <1>g DEF IndInv, CompletedOK, GoesTo, Baseline
<1>10. NothingOK'
  BY <1>w, <1>g, <1>s, NoneAssumption DEF IndInv, NothingOK, GoesTo, Baseline
<1>11. OwnOK'
  BY <1>w, <1>g DEF IndInv, OwnOK, GoesTo, Untouched
<1>12. CollisionOK'
  BY <1>w, <1>g, <1>s, NoneAssumption DEF IndInv, CollisionOK, GoesTo, Untouched
<1> QED BY <1>1, <1>2, <1>3, <1>4, <1>5, <1>6, <1>7, <1>8, <1>9, <1>10, <1>11, <1>12 DEF IndInv

(* verify establishes Standing: heads the lock records were built from     *)
(* some valid tree, those with the tree's pages keep all its branches, and *)
(* if the census of the service agrees they have no other.                 *)
LEMMA VerifyKeeps ==
  ASSUME IndInv, Verify
  PROVE  IndInv'
<1>0. Typed
  BY DEF IndInv
<1>d. ASSUME ~(Verified)  PROVE  IndInv'
  <2>1. /\ Die("refused") /\ cmd.pc # "idle"
        /\ UNCHANGED <<tree, gen, live, conf, svc, copies, used>>
    BY <1>d DEF Verify
  <2>2. used' \in Spent /\ used'.edits = used.edits /\ used'.foreign = used.foreign
    BY <1>0, <2>1 DEF Typed
  <2>3. "refused" # "collision"
    OBVIOUS
  <2> QED BY <2>1, <2>2, <2>3, DieKeeps
<1>c. SUFFICES ASSUME Verified  PROVE  IndInv'
  BY <1>d
<1>q. past' = [past EXCEPT !.moved = FALSE, !.pushed = FALSE]
  BY <1>c DEF Verify
<1>r. tree \in ValidTrees /\ gen.cases # Torn /\ cmd.pc = "verify"
  BY <1>0, <1>c DEF Typed, Verify, Verified, ValidTrees
<1>h. ASSUME NEW c \in DOMAIN tree.cases
      PROVE  /\ c \in DOMAIN gen.cases /\ gen.cases[c].refs = live[c]
             /\ gen.cases[c].split = SplitOf(tree.cases[c])
             /\ Kept(live[c], Build(tree, c))
             /\ live[c] \notin {Absent, Foreign}
             /\ \A k \in DOMAIN tree.cases[c].steps :
                  PagesOf(live[c][k]) = tree.cases[c].steps[k].pages
             /\ Serving => /\ DOMAIN svc.seen[c] \ {Main} = DOMAIN tree.cases[c].steps
                           /\ ~past.stale => svc.seen[c][Main] = Build(tree, c)[Main]
             /\ \/ live[c] = Build(tree, c)
                \/ past.edited /\ (Serving => svc.seen[c] # live[c])
  <2>1. c \in DOMAIN gen.cases /\ CaseVerified(tree, c, gen.cases[c], live[c])
    BY <1>c DEF Verified, CaseAsSourced
  <2>2. gen.cases[c].refs = live[c] /\ gen.cases[c].split = SplitOf(tree.cases[c])
    BY <2>1 DEF CaseVerified
  <2>3. PICK u \in ValidTrees : c \in DOMAIN u.cases /\ gen.cases[c] = LockEntry(u, c)
    BY <1>r, <2>1 DEF IndInv, LocksOK, KnownRows
  <2>4. live[c] = Build(u, c)
    BY <2>2, <2>3, EntryIs
  <2>5. live[c] \notin {Absent, Foreign}
    BY <2>3, <2>4, Values DEF Absent
  <2>6. Kept(live[c], Build(tree, c))
    <3>1. /\ CaseVerified(tree, c, gen.cases[c], Build(u, c))
          /\ c \in DOMAIN tree.cases \cap DOMAIN u.cases
      BY <2>1, <2>3, <2>4
    <3>2. Kept(Build(u, c), Build(tree, c))
      BY <1>r, <3>1, VerifiedHeads
    <3> QED BY <2>4, <3>2
  <2>7. ASSUME NEW k \in DOMAIN tree.cases[c].steps
        PROVE  PagesOf(live[c][k]) = tree.cases[c].steps[k].pages
    <3>1. k # Main
      BY <1>r, TreesAssumption DEF ValidTrees
    <3> QED BY <2>1, <3>1 DEF CaseVerified, SourceStep
  <2>8. ASSUME Serving
        PROVE  /\ DOMAIN svc.seen[c] \ {Main} = DOMAIN tree.cases[c].steps
               /\ ~past.stale => svc.seen[c][Main] = Build(tree, c)[Main]
               /\ svc.seen[c] = live[c] => live[c] = Build(tree, c)
    <3>1. svc.state = "ready" /\ ServedVerified(tree, svc.seen)
      BY <1>c, <2>8 DEF Verified, Serving
    <3>2. c \in DOMAIN svc.seen /\ Census(svc.seen[c]) = SourceCensus(tree, c)
      BY <3>1 DEF ServedVerified
    <3>3. DOMAIN svc.seen[c] \ {Main} = DOMAIN tree.cases[c].steps
      BY <3>2 DEF Census, SourceCensus
    <3>4. ~past.stale => svc.seen[c][Main] = live[c][Main]
      BY <1>r, <2>5, <2>8, <3>1, <3>2 DEF IndInv, SeenOK, Fed
    <3>5. live[c][Main] = Build(tree, c)[Main]
      <4>1. Main \in DOMAIN Build(tree, c)
        BY BuildIs
      <4> QED BY <2>6, <4>1 DEF Kept
    <3>6. ASSUME svc.seen[c] = live[c]  PROVE live[c] = Build(tree, c)
      <4>1. Census(Build(u, c)) = SourceCensus(tree, c) /\ Kept(Build(u, c), Build(tree, c))
        BY <2>4, <2>6, <3>2, <3>6
      <4>2. Build(u, c) = Build(tree, c)
        BY <1>r, <2>3, <4>1, CountedHeads
      <4> QED BY <2>4, <4>2
    <3> QED BY <3>3, <3>4, <3>5, <3>6
  <2>9. ~past.edited => live[c] = Build(tree, c)
    <3>1. ~past.edited => gen.cases[c] = LockEntry(tree, c)
      BY <1>r, <2>1 DEF IndInv, LockOK, Current
    <3> QED BY <2>2, <3>1, EntryIs
  <2> QED BY <2>1, <2>2, <2>5, <2>6, <2>7, <2>8, <2>9
<1>j. Serving => /\ svc.state = "ready" /\ svc.drop = tree.drop
                 /\ DOMAIN svc.seen = DOMAIN tree.cases
  BY <1>c DEF Verified, Serving, ServedVerified
<1>k. Standing
  <2>1. DOMAIN gen.cases = DOMAIN tree.cases
    BY <1>c, <1>h DEF Verified
  <2>2. gen.bank = Rows(tree) /\ gen.parquet = Rows(tree) /\ gen.drop = tree.drop /\ Valid(tree)
    BY <1>c DEF Verified, BankVerified
  <2> QED BY <1>h, <1>j, <1>r, <2>1, <2>2 DEF Standing
<1>g. GoesTo("copy_bank")
  <2>1. "copy_bank" \in Steps
    BY DEF Steps, Phases
  <2>2. Goto("copy_bank")
    BY <1>c DEF Verify, Continue
  <2> QED BY <1>0, <2>1, <2>2, Goes
<1>w. /\ cmd.pc = "verify"
      /\ tree' = tree /\ gen' = gen /\ live' = live /\ conf' = conf /\ svc' = svc /\ copies' =
         copies /\ used' = used
      /\ past'.said = past.said /\ past'.moved = FALSE
      /\ past'.pushed = FALSE /\ past'.stale = past.stale
      /\ past'.edited = past.edited /\ past'.late = past.late /\ past'.dirty = past.dirty
  BY <1>0, <1>c DEF Verify, Continue, Typed, Pasts
<1>s. past.said = None
  BY <1>w, NoneAssumption DEF IndInv, CommandOK
<1>1. Typed'
  <2>1. past' \in Pasts
    BY <1>0, <1>q DEF Typed, Pasts
  <2> QED BY <1>0, <1>w, <1>g, <1>q, <2>1, NoneAssumption DEF Typed, GoesTo
<1>2. CommandOK'
  BY <1>w, <1>g, <1>r, <1>q DEF IndInv, CommandOK, GoesTo
<1>3. LocksOK'
  BY <1>w, <1>g, <1>q DEF IndInv, LocksOK, GoesTo, KnownRows
<1>4. LockOK'
  BY <1>w, <1>g, <1>q DEF IndInv, LockOK, GoesTo, Current, Baseline
<1>5. SeenOK'
  BY <1>w, <1>g, <1>q DEF IndInv, SeenOK, GoesTo, Fed, Serving
<1>6. VerifiedOK'
  BY <1>w, <1>g, <1>k, <1>q, <1>s, NoneAssumption DEF IndInv, VerifiedOK, GoesTo, Complete,
     Unmoved, Standing, Serving
<1>7. CopiesOK'
  BY <1>w, <1>g, <1>q, <1>s, NoneAssumption DEF IndInv, CopiesOK, GoesTo, Complete, Unmoved
<1>8. ForeignOK'
  BY <1>w, <1>g, <1>q DEF IndInv, ForeignOK, GoesTo, Candidates
<1>9. CompletedOK'
  BY <1>w, <1>g, <1>q DEF IndInv, CompletedOK, GoesTo, Baseline
<1>10. NothingOK'
  BY <1>w, <1>g, <1>q, <1>s, NoneAssumption DEF IndInv, NothingOK, GoesTo, Baseline
<1>11. OwnOK'
  BY <1>w, <1>g, <1>q DEF IndInv, OwnOK, GoesTo, Untouched
<1>12. CollisionOK'
  BY <1>w, <1>g, <1>q, <1>s, NoneAssumption DEF IndInv, CollisionOK, GoesTo, Untouched
<1> QED BY <1>1, <1>2, <1>3, <1>4, <1>5, <1>6, <1>7, <1>8, <1>9, <1>10, <1>11, <1>12 DEF IndInv

(* The end of a command that nobody disturbed: run copies, lock and heads  *)
(* are one tree's.                                                         *)
LEMMA RecordKeeps ==
  ASSUME IndInv, Record
  PROVE  IndInv'
<1>0. Typed
  BY DEF IndInv
<1>p. \E b \in BOOLEAN : past' = [past EXCEPT !.said = "complete", !.dirty = b]
  <2>1. (past.pushed \/ past.edited) \in BOOLEAN
    BY <1>0 DEF Typed, Pasts
  <2> QED BY <2>1 DEF Record
<1>q. \E b \in BOOLEAN : copies' = [copies EXCEPT !.service = b]
  <2>1. (copies.service \/ cmd.op = "up") \in BOOLEAN
    BY <1>0 DEF Typed, Copies
  <2> QED BY <2>1 DEF Record
<1>r. /\ past'.dirty <=> past.pushed \/ past.edited
      /\ (copies'.service <=> copies.service \/ cmd.op = "up")
  BY <1>0 DEF Typed, Pasts, Copies, Record
<1>w. /\ cmd.pc = "record"
      /\ tree' = tree /\ gen' = gen /\ live' = live /\ conf' = conf /\ svc' = svc /\ used' =
         used
      /\ cmd' = Idle /\ cmd'.pc = "idle" /\ cmd'.op = None /\ cmd'.mem = <<>>
      /\ past'.said = "complete" /\ past'.moved = past.moved /\ past'.pushed = past.pushed
      /\ past'.edited = past.edited /\ past'.late = past.late /\ past'.stale = past.stale
      /\ copies'.bank = copies.bank /\ copies'.lock = copies.lock /\ copies'.drop = copies.drop
  BY <1>0 DEF Record, Continue, Typed, Pasts, Copies, Idle
<1>s. past.said = None
  BY <1>w, NoneAssumption DEF IndInv, CommandOK
<1>1. Typed'
  <2>1. cmd' \in Commands
    BY <1>w, NoMap DEF Idle, Commands, Steps
  <2>2. past' \in Pasts
    BY <1>0, <1>p DEF Typed, Pasts
  <2>3. copies' \in Copies
    BY <1>0, <1>q DEF Typed, Copies
  <2> QED BY <1>0, <1>w, <2>1, <2>2, <2>3, NoneAssumption DEF Typed
<1>2. CommandOK'
  BY <1>w DEF IndInv, CommandOK, Idle
<1>3. LocksOK'
  BY <1>w, NoMap DEF IndInv, LocksOK, KnownRows
<1>4. LockOK'
  BY <1>w DEF IndInv, LockOK, Current, Baseline
<1>5. SeenOK'
  BY <1>w DEF IndInv, SeenOK, Fed, Serving
<1>6. VerifiedOK'
  <2>1. Unmoved' => Standing /\ Unmoved
    BY <1>w DEF IndInv, VerifiedOK, Unmoved
  <2>2. Serving' <=> Serving
    BY <1>w, <1>r, NoneAssumption DEF Serving
  <2> QED BY <1>w, <2>1, <2>2 DEF VerifiedOK, Standing
<1>7. CopiesOK'
  BY <1>w, <1>s, NoneAssumption DEF IndInv, CopiesOK, Complete, Unmoved
<1>8. ForeignOK'
  BY <1>w DEF IndInv, ForeignOK, Candidates
<1>9. CompletedOK'
  <2> SUFFICES ASSUME ~past'.dirty
               PROVE  \E t \in ValidTrees :
                        /\ copies'.bank = Rows(t) /\ DOMAIN Baseline' = DOMAIN t.cases
                        /\ \A c \in DOMAIN t.cases :
                             Baseline'[c] = LockEntry(t, c) /\ live'[c] = Build(t, c)
    BY DEF CompletedOK
  <2>1. ~past.pushed /\ ~past.edited /\ ~past.moved
    BY <1>r DEF IndInv, CommandOK
  <2>2. /\ Standing /\ copies.bank = Rows(tree)
        /\ copies.lock = [cases |-> gen.cases, bank |-> Rows(tree)]
    BY <1>w, <2>1 DEF IndInv, VerifiedOK, CopiesOK, Unmoved
  <2>3. Baseline' = gen.cases /\ gen.cases # Torn
    BY <1>w, <2>2 DEF Baseline, Standing
  <2>4. \A c \in DOMAIN tree.cases : gen.cases[c] = LockEntry(tree, c) /\ live[c] = Build(tree, c)
    BY <1>w, <2>1, <2>2, <2>3 DEF IndInv, LockOK, Current, Standing
  <2>5. tree \in ValidTrees /\ DOMAIN gen.cases = DOMAIN tree.cases
    BY <1>0, <2>2 DEF Typed, Standing, ValidTrees
  <2> QED BY <1>w, <2>2, <2>3, <2>4, <2>5
<1>10. NothingOK'
  BY <1>w DEF NothingOK
<1>11. OwnOK'
  BY <1>w DEF IndInv, OwnOK, Untouched
<1>12. CollisionOK'
  BY <1>w DEF CollisionOK
<1> QED BY <1>1, <1>2, <1>3, <1>4, <1>5, <1>6, <1>7, <1>8, <1>9, <1>10, <1>11, <1>12 DEF IndInv

(* What the service sees of main is what the host has.                     *)
LEMMA FetchKeeps ==
  ASSUME IndInv, Fetch
  PROVE  IndInv'
<1>0. Typed
  BY DEF IndInv
<1>g. cmd' = cmd
  BY DEF Fetch
<1> DEFINE Kin  == {c \in svc.repos \cap DOMAIN svc.store :
                     svc.store[c][Main] = live[c][Main]}
           Read == [c \in svc.repos |-> IF c \in Kin THEN svc.store[c] ELSE live[c]]
<1>w. /\ tree' = tree /\ gen' = gen /\ live' = live /\ conf' = conf /\ copies' = copies /\
         past' = past /\ used' = used
      /\ svc.state = "fetching" /\ svc'.state # "ready" /\ svc'.state # "none"
      /\ \/ svc' = [svc EXCEPT !.state = "error"]
         \/ svc' = [svc EXCEPT !.state = "embedding", !.drop = tree.drop,
                               !.store = Restrict(@, Kin), !.seen = Read]
  BY <1>0 DEF Fetch, Continue, Typed, Services
<1>r. /\ Read \in Maps(Heads) /\ DOMAIN Read = svc.repos
      /\ \A c \in svc.repos : Read[c][Main] = live[c][Main]
  <2>1. svc.repos \in SUBSET Cases /\ live \in [Cases -> Heads] /\ svc.store \in Maps(Heads)
    BY <1>0 DEF Typed, Services
  <2>2. Read \in [svc.repos -> Heads]
    BY <2>1, MapIs
  <2>3. Read \in Maps(Heads)
    BY <2>1, <2>2, MapOf
  <2> QED BY <2>3
<1>t. /\ Restrict(svc.store, Kin) \in Maps(Heads) /\ DOMAIN Restrict(svc.store, Kin) = Kin
      /\ Kin \subseteq svc.repos
  <2>1. svc.store \in Maps(Heads) /\ Kin \in SUBSET DOMAIN svc.store
    BY <1>0 DEF Typed, Services
  <2> QED BY <2>1, RestrictedMap
<1> HIDE DEF Kin, Read
<1>1. Typed'
  <2>1. svc' \in Services
    BY <1>0, <1>w, <1>r, <1>t, DropIs DEF Typed, Services
  <2>2. DOMAIN svc'.seen = IF svc'.state \in {"embedding", "ready"} THEN svc'.repos ELSE {}
    BY <1>0, <1>w, <1>r DEF Typed, Services
  <2>3. svc'.state = "embedding" => DOMAIN svc'.store \subseteq svc'.repos
    BY <1>0, <1>w, <1>t DEF Typed, Services
  <2> QED BY <1>0, <1>w, <1>g, <2>1, <2>2, <2>3, NoneAssumption DEF Typed
<1>2. CommandOK'
  BY <1>w, <1>g DEF IndInv, CommandOK
<1>3. LocksOK'
  BY <1>w, <1>g DEF IndInv, LocksOK, KnownRows
<1>4. LockOK'
  BY <1>w, <1>g DEF IndInv, LockOK, Current, Baseline
<1>5. SeenOK'
  <2>1. svc'.state = "embedding" => svc'.seen = Read
    BY <1>0, <1>w DEF Typed, Services
  <2> QED BY <1>w, <1>r, <2>1 DEF SeenOK
<1>6. VerifiedOK'
  BY <1>w, <1>g DEF IndInv, VerifiedOK, Complete, Unmoved, Standing, Serving
<1>7. CopiesOK'
  BY <1>w, <1>g DEF IndInv, CopiesOK, Complete, Unmoved
<1>8. ForeignOK'
  BY <1>w, <1>g DEF IndInv, ForeignOK, Candidates
<1>9. CompletedOK'
  BY <1>w, <1>g DEF IndInv, CompletedOK, Baseline
<1>10. NothingOK'
  BY <1>w, <1>g DEF IndInv, NothingOK, Baseline
<1>11. OwnOK'
  BY <1>w, <1>g DEF IndInv, OwnOK, Untouched
<1>12. CollisionOK'
  BY <1>w, <1>g DEF IndInv, CollisionOK, Untouched
<1> QED BY <1>1, <1>2, <1>3, <1>4, <1>5, <1>6, <1>7, <1>8, <1>9, <1>10, <1>11, <1>12 DEF IndInv

(* An edit, or a fresh checkout, undoes only what is said of the tree.     *)
LEMMA EditKeeps ==
  ASSUME IndInv, Edit
  PROVE  IndInv'
<1>0. Typed
  BY DEF IndInv
<1>w. /\ live' = live /\ conf' = conf /\ svc' = svc /\ copies' = copies /\ cmd' = cmd
      /\ cmd.pc \in Between
      /\ (tree' = tree /\ gen' = NoFiles) \/ (tree' \in Trees /\ gen' = gen)
      /\ past' = [past EXCEPT !.moved = TRUE, !.edited = TRUE] /\ past'.moved /\ past'.edited
      /\ past'.said = past.said /\ past'.late = past.late
      /\ past'.stale = past.stale /\ past'.dirty = past.dirty
      /\ used' = [used EXCEPT !.edits = @ + 1] /\ used'.edits # 0
  BY <1>0 DEF Edit, Continue, Typed, Pasts, Spent
<1>1. Typed'
  <2>1. NoFiles \in Texts
    BY NoMap DEF NoFiles, Texts, Banks, Drops
  <2>2. gen' \in Texts /\ tree' \in Trees
    BY <1>0, <1>w, <2>1 DEF Typed
  <2>3. past' \in Pasts
    BY <1>0, <1>w DEF Typed, Pasts
  <2>4. used' \in Spent
    BY <1>0, <1>w DEF Typed, Spent
  <2> QED BY <1>0, <1>w, <2>1, <2>2, <2>3, <2>4, NoneAssumption DEF Typed
<1>2. CommandOK'
  BY <1>w, NoneAssumption DEF IndInv, CommandOK, NoFiles, NoHeads, Between, Phases
<1>3. LocksOK'
  BY <1>w, NoMap DEF IndInv, LocksOK, KnownRows, NoFiles
<1>4. LockOK'
  BY <1>w DEF IndInv, LockOK, Current, Baseline
<1>5. SeenOK'
  BY <1>w DEF IndInv, SeenOK, Fed, Serving
<1>6. VerifiedOK'
  BY <1>w DEF IndInv, VerifiedOK, Complete, Unmoved, Standing, Serving
<1>7. CopiesOK'
  BY <1>w DEF IndInv, CopiesOK, Complete, Unmoved
<1>8. ForeignOK'
  BY <1>w DEF IndInv, ForeignOK, Candidates
<1>9. CompletedOK'
  BY <1>w DEF IndInv, CompletedOK, Baseline, Between, Phases
<1>10. NothingOK'
  BY <1>w DEF IndInv, NothingOK, Baseline
<1>11. OwnOK'
  BY <1>w DEF IndInv, OwnOK, Untouched
<1>12. CollisionOK'
  BY <1>w DEF IndInv, CollisionOK, Untouched
<1> QED BY <1>1, <1>2, <1>3, <1>4, <1>5, <1>6, <1>7, <1>8, <1>9, <1>10, <1>11, <1>12 DEF IndInv

(* A push from elsewhere is remembered as late.                            *)
LEMMA ForeignPushKeeps ==
  ASSUME IndInv, NEW c \in Cases, ForeignPush(c)
  PROVE  IndInv'
<1>0. Typed
  BY DEF IndInv
<1>p. DOMAIN svc.seen \subseteq Cases
  <2>1. svc.seen \in Maps(Heads)
    BY <1>0 DEF Typed, Services
  <2> QED BY <2>1, MapIs
<1>w. /\ tree' = tree /\ gen' = gen /\ conf' = conf /\ svc' = svc /\ copies' = copies /\ cmd'
         = cmd
      /\ live' = [live EXCEPT ![c] = Absent] \/ live' = [live EXCEPT ![c] = Foreign]
      /\ live'[c] \in {Absent, Foreign} /\ \A d \in Cases \ {c} : live'[d] = live[d]
      /\ past' = [past EXCEPT !.pushed = TRUE, !.dirty = TRUE, !.late = @ \cup {c}]
      /\ past'.pushed /\ past'.dirty
      /\ past'.said = past.said /\ past'.late = past.late \cup {c} /\ past'.stale = past.stale
      /\ past'.moved = past.moved /\ past'.edited = past.edited
      /\ used' = [used EXCEPT !.foreign = @ + 1] /\ used'.foreign # 0
  BY <1>0 DEF ForeignPush, Continue, Typed, Pasts, Spent
<1>1. Typed'
  <2>1. live' \in [Cases -> Heads]
    BY <1>0, <1>w DEF Typed, Heads
  <2>2. past' \in Pasts
    BY <1>0, <1>w DEF Typed, Pasts
  <2>3. used' \in Spent
    BY <1>0, <1>w DEF Typed, Spent
  <2> QED BY <1>0, <1>w, <2>1, <2>2, <2>3, NoneAssumption DEF Typed
<1>2. CommandOK'
  BY <1>w DEF IndInv, CommandOK
<1>3. LocksOK'
  BY <1>w DEF IndInv, LocksOK, KnownRows
<1>4. LockOK'
  BY <1>w DEF IndInv, LockOK, Current, Baseline
<1>5. SeenOK'
  BY <1>w, <1>p DEF IndInv, SeenOK, Fed, Serving
<1>6. VerifiedOK'
  BY <1>w DEF IndInv, VerifiedOK, Complete, Unmoved, Standing, Serving
<1>7. CopiesOK'
  BY <1>w DEF IndInv, CopiesOK, Complete, Unmoved
<1>8. ForeignOK'
  BY <1>w, <1>0 DEF IndInv, ForeignOK, Candidates, Typed, Commands
<1>9. CompletedOK'
  BY <1>w DEF IndInv, CompletedOK, Baseline
<1>10. NothingOK'
  BY <1>w DEF IndInv, NothingOK, Baseline
<1>11. OwnOK'
  BY <1>w DEF IndInv, OwnOK, Untouched
<1>12. CollisionOK'
  BY <1>w DEF IndInv, CollisionOK, Untouched
<1> QED BY <1>1, <1>2, <1>3, <1>4, <1>5, <1>6, <1>7, <1>8, <1>9, <1>10, <1>11, <1>12 DEF IndInv

(* A cut leaves at most one file torn, and never a file of the early       *)
(* checks.                                                                 *)
LEMMA CutKeeps ==
  ASSUME IndInv, Cut
  PROVE  IndInv'
<1>0. Typed
  BY DEF IndInv
<1>1. Die("cut") /\ UNCHANGED <<tree, live, svc>> /\ cmd.pc # "idle"
      /\ used' = [used EXCEPT !.cuts = @ + 1]
  BY DEF Cut
<1>2. used' \in Spent /\ used'.edits = used.edits /\ used'.foreign = used.foreign
  BY <1>0, <1>1 DEF Typed, Spent
<1>3. "cut" # "collision" /\ cmd'.mem = <<>> /\ DOMAIN <<>> = {}
  BY <1>1, NoMap DEF Die, Idle
<1>4. CASE UNCHANGED <<gen, conf, copies>>
  BY <1>1, <1>2, <1>3, <1>4, DieKeeps
<1>5. CASE TornFile /\ UNCHANGED conf
  <2>1. cmd.pc \notin {"owner", "check"}
    BY <1>5 DEF TornFile
  <2>2. gen' \in Texts /\ copies' \in Copies
    <3>1. Torn \in Banks /\ None \in Banks /\ Torn \in Drops /\ Torn \in Locks
      BY DEF Banks, Drops, Locks
    <3> QED BY <1>0, <1>5, <3>1 DEF Typed, TornFile, Texts, Copies
  <2>3. copies'.lock # None => copies'.bank # None
    BY <1>0, <1>5, NoneAssumption DEF IndInv, Typed, CommandOK, TornFile, Copies
  <2>4. LocksOK'
    <3>1. gen'.cases # Torn => gen'.cases = gen.cases
      BY <1>0, <1>5 DEF Typed, TornFile, Texts
    <3>2. copies'.lock # Torn => copies'.lock = copies.lock
      BY <1>0, <1>5 DEF Typed, TornFile, Copies
    <3> QED BY <1>3, <3>1, <3>2 DEF IndInv, LocksOK, KnownRows
  <2>5. conf' \in Configs
    BY <1>0, <1>5 DEF Typed
  <2> QED BY <1>1, <1>2, <1>3, <2>1, <2>2, <2>3, <2>4, <2>5, EndKeeps
<1>6. CASE /\ cmd.pc \in {"write_config", "new_config"}
           /\ conf' = [conf EXCEPT !.torn = TRUE] /\ UNCHANGED <<gen, copies>>
  <2>1. conf' \in Configs
    BY <1>0, <1>6 DEF Typed, Configs
  <2>2. gen' \in Texts /\ copies' \in Copies /\ (copies'.lock # None => copies'.bank # None)
    BY <1>6 DEF IndInv, Typed, CommandOK
  <2>3. LocksOK'
    BY <1>3, <1>6 DEF IndInv, LocksOK, KnownRows
  <2> QED BY <1>1, <1>2, <1>3, <1>6, <2>1, <2>2, <2>3, EndKeeps
<1> QED BY <1>4, <1>5, <1>6 DEF Cut

(* What a new command resets.                                              *)
LEMMA BeginIs ==
  ASSUME Typed, NEW op \in {"up", "update"}, NEW over \in BOOLEAN, NEW push \in SUBSET Cases,
         NEW new \in BOOLEAN, NEW step \in {"idle", "owner", "check"},
         Begin(op, over, push, new, step)
  PROVE  /\ past' \in Pasts /\ past'.moved = FALSE /\ past'.edited = FALSE /\ past'.late = {}
         /\ past'.stale = FALSE /\ past'.pushed = past.pushed /\ past'.dirty = past.dirty
         /\ past'.said = (IF step = "idle" THEN "nothing" ELSE None)
         /\ used' \in Spent /\ used'.edits = used.edits /\ used'.foreign = used.foreign
<1>1. past \in Pasts /\ used \in Spent
  BY DEF Typed
<1>2. past' = [past EXCEPT !.said = IF step = "idle" THEN "nothing" ELSE None,
                          !.moved = FALSE, !.edited = FALSE, !.late = {}, !.stale = FALSE]
  BY DEF Begin
<1>3. used' = [used EXCEPT !.commands = @ + 1]
  BY DEF Begin
<1>4. used' \in Spent /\ used'.edits = used.edits /\ used'.foreign = used.foreign
  BY <1>1, <1>3 DEF Spent
<1> QED BY <1>1, <1>2, <1>4 DEF Pasts

(* What it holds when it has something to do.                              *)
LEMMA BegunIs ==
  ASSUME Typed, NEW op \in {"up", "update"}, NEW over \in BOOLEAN, NEW push \in SUBSET Cases,
         NEW new \in BOOLEAN, NEW step \in {"owner", "check"}, Begin(op, over, push, new, step)
  PROVE  /\ cmd' \in Commands /\ cmd'.pc = step /\ cmd'.op = op /\ cmd'.over = over
         /\ cmd'.cases = DOMAIN tree.cases /\ cmd'.push = push /\ cmd'.todo = {}
         /\ cmd'.mem = <<>>
<1>1. DOMAIN tree.cases \subseteq Cases /\ <<>> \in Maps(Entries)
  BY TreesAssumption, NoMap DEF Typed
<1>2. cmd' = [Idle EXCEPT !.pc = step, !.op = op, !.over = over, !.push = push,
                          !.cases = DOMAIN tree.cases, !.new = new]
  BY DEF Begin
<1> DEFINE cases == DOMAIN tree.cases
<1>3. cases \in SUBSET Cases
  BY <1>1
<1>4. cmd' = [Idle EXCEPT !.pc = step, !.op = op, !.over = over, !.push = push,
                          !.cases = cases, !.new = new]
  BY <1>2
<1> HIDE DEF cases
<1>5. cmd' = [pc |-> step, op |-> op, over |-> over, cases |-> cases, push |-> push,
              new |-> new, todo |-> {}, at |-> None, mem |-> <<>>]
  BY <1>4 DEF Idle
<1>6. step \in Steps
  BY DEF Steps
<1>7. cmd' \in Commands
  BY <1>1, <1>3, <1>5, <1>6 DEF Commands
<1> QED BY <1>5, <1>7 DEF cases

(* `up` begins with the cases of the tree, all of them to be pushed.       *)
LEMMA UpKeeps ==
  ASSUME IndInv, NEW over \in BOOLEAN, Up(over)
  PROVE  IndInv'
<1>0. Typed
  BY DEF IndInv
<1>p. DOMAIN tree.cases \in SUBSET Cases
  BY <1>0, TreesAssumption DEF Typed
<1>q. Begin("up", over, DOMAIN tree.cases, FALSE, "owner")
  BY DEF Up
<1> DEFINE push == DOMAIN tree.cases
<1> HIDE DEF push
<1>r. push \in SUBSET Cases /\ Begin("up", over, push, FALSE, "owner")
  BY <1>p, <1>q DEF push
<1>u. /\ past' \in Pasts /\ past'.moved = FALSE /\ past'.edited = FALSE /\ past'.late = {}
      /\ past'.stale = FALSE /\ past'.pushed = past.pushed /\ past'.dirty = past.dirty
      /\ past'.said = None
      /\ used' \in Spent /\ used'.edits = used.edits /\ used'.foreign = used.foreign
  BY <1>0, <1>r, BeginIs
<1>v. /\ cmd' \in Commands /\ cmd'.pc = "owner" /\ cmd'.op = "up" /\ cmd'.over = over
      /\ cmd'.cases = DOMAIN tree.cases /\ cmd'.push = push /\ cmd'.todo = {}
      /\ cmd'.mem = <<>>
  BY <1>0, <1>r, BegunIs
<1>w. /\ cmd.pc = "idle"
      /\ tree' = tree /\ gen' = gen /\ live' = live /\ conf' = conf /\ svc' = svc /\ copies' =
         copies
      /\ Valid(tree) /\ past'.said = None
      /\ past' \in Pasts /\ past'.moved = FALSE
      /\ past'.edited = FALSE /\ past'.late = {} /\ past'.stale = FALSE
      /\ past'.pushed = past.pushed /\ past'.dirty = past.dirty
      /\ used' \in Spent /\ used'.edits = used.edits /\ used'.foreign = used.foreign
      /\ cmd' \in Commands /\ cmd'.pc = "owner" /\ cmd'.op = "up" /\ cmd'.over = over
      /\ cmd'.cases = DOMAIN tree.cases /\ cmd'.push = DOMAIN tree.cases
      /\ cmd'.todo = {} /\ cmd'.mem = <<>>
  BY <1>0, <1>q, <1>u, <1>v DEF Up, Continue, Begin, push
<1>1. Typed'
  BY <1>0, <1>w, NoneAssumption DEF Typed
<1>2. CommandOK'
  BY <1>w, NoneAssumption DEF IndInv, CommandOK
<1>3. LocksOK'
  BY <1>w, NoMap DEF IndInv, LocksOK, KnownRows
<1>4. LockOK'
  BY <1>w DEF IndInv, LockOK, Current, Baseline
<1>5. SeenOK'
  BY <1>w DEF IndInv, SeenOK, Fed, Serving
<1>6. VerifiedOK'
  BY <1>w, NoneAssumption DEF IndInv, VerifiedOK, Complete, Unmoved, Standing, Serving
<1>7. CopiesOK'
  BY <1>w, NoneAssumption DEF IndInv, CopiesOK, Complete, Unmoved
<1>8. ForeignOK'
  BY <1>w DEF IndInv, ForeignOK, Candidates
<1>9. CompletedOK'
  BY <1>w DEF IndInv, CompletedOK, Baseline
<1>10. NothingOK'
  BY <1>w, NoneAssumption DEF IndInv, NothingOK, Baseline
<1>11. OwnOK'
  BY <1>w DEF IndInv, OwnOK, Untouched
<1>12. CollisionOK'
  BY <1>w, NoneAssumption DEF IndInv, CollisionOK, Untouched
<1> QED BY <1>1, <1>2, <1>3, <1>4, <1>5, <1>6, <1>7, <1>8, <1>9, <1>10, <1>11, <1>12 DEF IndInv

(* `update` begins with what moved. If nothing did, the lock's entries are *)
(* those the tree would get and the bank has its rows, so the estate is    *)
(* what the tree builds.                                                   *)
LEMMA UpdateKeeps ==
  ASSUME IndInv, Update
  PROVE  IndInv'
<1>0. Typed
  BY DEF IndInv
<1> DEFINE push == ToPush(tree, Baseline, ServedRows)
           new  == NewCases(tree, Baseline) # {}
           step == IF push = {} THEN "idle" ELSE "check"
<1>p. /\ Valid(tree) /\ copies.lock \notin {None, Torn} /\ Removed(tree, Baseline) = {}
      /\ UNCHANGED <<tree, gen, live, conf, svc, copies>>
      /\ Begin("update", FALSE, push, new, step)
  BY DEF Update
<1>q. tree \in ValidTrees /\ KnownRows(Baseline) /\ copies.bank # None
  BY <1>0, <1>p DEF IndInv, Typed, CommandOK, LocksOK, ValidTrees, Baseline
<1>r. /\ DOMAIN tree.cases \subseteq Cases /\ push \subseteq DOMAIN tree.cases
      /\ Moved(tree, Baseline) \subseteq push /\ NewCases(tree, Baseline) \subseteq push
      /\ Reworded(tree, ServedRows) \subseteq push
  <2>1. DOMAIN tree.cases \subseteq Cases
    BY <1>0, TreesAssumption DEF Typed
  <2>2. /\ Moved(tree, Baseline) \subseteq DOMAIN tree.cases
        /\ NewCases(tree, Baseline) \subseteq DOMAIN tree.cases
        /\ Reworded(tree, ServedRows) \subseteq DOMAIN tree.cases
    BY DEF Moved, NewCases, Reworded
  <2> QED BY <2>1, <2>2 DEF ToPush
<1>t. \A c \in (DOMAIN tree.cases \cap DOMAIN Baseline) \ push : Baseline[c] = LockEntry(tree, c)
  <2> SUFFICES ASSUME NEW c \in (DOMAIN tree.cases \cap DOMAIN Baseline) \ push
               PROVE  Baseline[c] = LockEntry(tree, c)
    OBVIOUS
  <2>1. PICK u \in ValidTrees : c \in DOMAIN u.cases /\ Baseline[c] = LockEntry(u, c)
    BY <1>q DEF KnownRows
  <2>2. c \notin Moved(tree, Baseline)
    BY <1>r
  <2> QED BY <1>q, <2>1, <2>2, UnmovedEntry
<1>o. push \in SUBSET Cases /\ new \in BOOLEAN /\ step \in {"idle", "owner", "check"}
  BY <1>r
<1> HIDE DEF push, new
<1>u. /\ past' \in Pasts /\ past'.moved = FALSE /\ past'.edited = FALSE /\ past'.late = {}
      /\ past'.stale = FALSE /\ past'.pushed = past.pushed /\ past'.dirty = past.dirty
      /\ past'.said = (IF step = "idle" THEN "nothing" ELSE None)
      /\ used' \in Spent /\ used'.edits = used.edits /\ used'.foreign = used.foreign
  <2> HIDE DEF step
  <2> QED BY <1>0, <1>o, <1>p, BeginIs
<1>x. cmd.pc = "idle"
  BY <1>p DEF Begin
<1>a. CASE push # {}
  <2>w. /\ cmd' \in Commands /\ cmd'.pc = "check" /\ cmd'.op = "update" /\ cmd'.over = FALSE
        /\ cmd'.cases = DOMAIN tree.cases /\ cmd'.push = push /\ cmd'.todo = {}
        /\ cmd'.mem = <<>>
    <3>1. Begin("update", FALSE, push, new, "check")
      BY <1>p, <1>a
    <3> QED BY <1>0, <1>o, <3>1, BegunIs
  <2>s. past'.said = None
    BY <1>a, <1>u
  <2>1. Typed'
    BY <1>0, <1>p, <1>q, <1>u, <2>w, NoneAssumption DEF Typed
  <2>2. CommandOK'
    BY <1>p, <1>q, <1>r, <1>u, <2>w, <2>s, NoneAssumption DEF IndInv, CommandOK
  <2>3. LocksOK'
    BY <1>p, <2>w, NoMap DEF IndInv, LocksOK, KnownRows
  <2>4. LockOK'
    BY <1>p, <1>t, <2>w DEF LockOK, Current, Baseline
  <2>5. SeenOK' /\ ForeignOK'
    BY <2>w DEF SeenOK, Fed, ForeignOK
  <2>6. VerifiedOK' /\ CopiesOK' /\ NothingOK' /\ CollisionOK'
    BY <2>w, <2>s, NoneAssumption DEF VerifiedOK, CopiesOK, Complete, NothingOK, CollisionOK
  <2>7. CompletedOK'
    BY <1>p, <1>u, <1>x, <2>w DEF IndInv, CompletedOK, Baseline
  <2>8. OwnOK'
    BY <1>p, <1>u DEF IndInv, OwnOK, Untouched
  <2> QED BY <2>1, <2>2, <2>3, <2>4, <2>5, <2>6, <2>7, <2>8 DEF IndInv
<1>b. CASE push = {}
  <2>w. /\ cmd' = Idle /\ cmd'.pc = "idle" /\ cmd'.op = None /\ cmd'.mem = <<>>
        /\ past'.said = "nothing"
    BY <1>p, <1>u, <1>b DEF Begin, Idle
  <2>1. Typed'
    <3>1. cmd' \in Commands
      BY <2>w, NoMap DEF Idle, Commands, Steps
    <3> QED BY <1>0, <1>p, <1>u, <2>w, <3>1, NoneAssumption DEF Typed
  <2>2. CommandOK'
    BY <1>p, <1>u, <2>w DEF IndInv, CommandOK, Idle
  <2>3. LocksOK'
    BY <1>p, <2>w, NoMap DEF IndInv, LocksOK, KnownRows
  <2>4. LockOK' /\ SeenOK' /\ ForeignOK'
    BY <2>w DEF LockOK, SeenOK, Fed, ForeignOK
  <2>5. VerifiedOK' /\ CopiesOK' /\ CollisionOK'
    BY <2>w DEF VerifiedOK, CopiesOK, Complete, CollisionOK
  <2>6. CompletedOK'
    BY <1>p, <1>u, <1>x, <2>w DEF IndInv, CompletedOK, Baseline
  <2>7. NothingOK'
    <3> SUFFICES ASSUME ~past.dirty
                 PROVE  /\ DOMAIN Baseline = DOMAIN tree.cases
                        /\ \A c \in DOMAIN tree.cases : live[c] = Build(tree, c)
                        /\ copies.bank = Rows(tree)
      BY <1>p, <1>u DEF NothingOK, Baseline
    <3>1. PICK t \in ValidTrees :
            /\ copies.bank = Rows(t) /\ DOMAIN Baseline = DOMAIN t.cases
            /\ \A c \in DOMAIN t.cases : Baseline[c] = LockEntry(t, c) /\ live[c] = Build(t, c)
      BY <1>p, <1>x DEF IndInv, CompletedOK
    <3>2. DOMAIN Baseline = DOMAIN tree.cases
      <4>1. NewCases(tree, Baseline) = {} /\ Removed(tree, Baseline) = {}
        BY <1>b, <1>p, <1>r
      <4> QED BY <4>1 DEF NewCases, Removed
    <3>3. \A c \in DOMAIN tree.cases : LockEntry(tree, c) = LockEntry(t, c)
      BY <1>b, <1>t, <3>1, <3>2
    <3>4. \A c \in DOMAIN tree.cases : live[c] = Build(tree, c)
      <4> SUFFICES ASSUME NEW c \in DOMAIN tree.cases
                   PROVE  live[c] = Build(tree, c)
        OBVIOUS
      <4>1. LockEntry(tree, c).refs = LockEntry(t, c).refs /\ live[c] = Build(t, c)
        BY <3>1, <3>2, <3>3
      <4>2. Build(tree, c) = LockEntry(tree, c).refs /\ LockEntry(t, c).refs = Build(t, c)
        BY EntryIs
      <4> QED BY <4>1, <4>2
    <3>5. Reworded(tree, Rows(t)) = {}
      <4>1. ServedRows = Rows(t)
        BY <3>1, Values DEF ServedRows
      <4> QED BY <1>b, <1>r, <4>1
    <3>6. Rows(tree) = Rows(t)
      BY <1>q, <3>1, <3>2, <3>3, <3>5, SameRows
    <3> QED BY <3>1, <3>2, <3>4, <3>6
  <2>8. OwnOK'
    BY <1>p, <1>u DEF IndInv, OwnOK, Untouched
  <2> QED BY <2>1, <2>2, <2>3, <2>4, <2>5, <2>6, <2>7, <2>8 DEF IndInv
<1> QED BY <1>a, <1>b

-----------------------------------------------------------------------------
(* The invariant holds at the start.                                       *)
LEMMA InitKeeps == Init => IndInv
<1> SUFFICES ASSUME Init  PROVE IndInv
  OBVIOUS
<1>1. Typed
  <2>1. NoFiles \in Texts /\ Idle \in Commands
    BY NoMap DEF NoFiles, Texts, Banks, Drops, Idle, Commands, Steps
  <2>2. live \in [Cases -> Heads] /\ conf \in Configs
    BY DEF Init, Heads, Configs
  <2>3. svc \in Services /\ DOMAIN svc.seen = {} /\ svc.state = "none"
    BY NoMap DEF Init, Services, Drops
  <2>4. copies \in Copies /\ past \in Pasts /\ used \in Spent
    BY DEF Init, Copies, Banks, Locks, Drops, Pasts, Spent
  <2> QED BY <2>1, <2>2, <2>3, <2>4, NoneAssumption DEF Init, Typed, Idle
<1>2. CommandOK
  BY DEF Init, Idle, CommandOK
<1>3. LocksOK
  <2>1. DOMAIN <<>> = {}
    OBVIOUS
  <2> QED BY <2>1 DEF Init, Idle, NoFiles, LocksOK, KnownRows
<1>4. LockOK /\ SeenOK /\ ForeignOK
  BY DEF Init, Idle, LockOK, SeenOK, Fed, ForeignOK
<1>5. VerifiedOK /\ CopiesOK /\ NothingOK /\ CollisionOK
  BY NoneAssumption DEF Init, Idle, VerifiedOK, CopiesOK, Complete, NothingOK, CollisionOK
<1>6. CompletedOK /\ OwnOK
  BY DEF Init, CompletedOK, OwnOK
<1> QED BY <1>1, <1>2, <1>3, <1>4, <1>5, <1>6 DEF IndInv

(* Every step of a command, a cut, an edit, a push from elsewhere and the  *)
(* service keeps the invariant.                                            *)
LEMMA NextKeeps == IndInv /\ [Next]_vars => IndInv'
<1> SUFFICES ASSUME IndInv, [Next]_vars  PROVE  IndInv'
  OBVIOUS
<1>1. CASE \E over \in BOOLEAN : Up(over)
  BY <1>1, UpKeeps
<1>2. CASE Update
  BY <1>2, UpdateKeeps
<1>3. CASE CommandStep
  BY <1>3, CheckOwnerKeeps, CheckDriftKeeps, SeedLockKeeps, ScaffoldKeeps,
     EnsureRemoteRepoKeeps, PushRepoKeeps, ReadBackKeeps, WriteLockKeeps,
     WriteDecisionsLockKeeps, WriteConfigKeeps, RewriteConfigKeeps, StartServiceKeeps,
     IngestKeeps, SeeReadyKeeps, GiveUpKeeps, WriteBankKeeps, LockBankKeeps, VerifyKeeps,
     CopyBankKeeps, CopyLockKeeps, CopyDecisionsLockKeeps, RecordKeeps DEF CommandStep
<1>4. CASE Service
  BY <1>4, FetchKeeps, LandKeeps, EmbedKeeps DEF Service
<1>5. CASE Cut
  BY <1>5, CutKeeps
<1>6. CASE Edit
  BY <1>6, EditKeeps
<1>7. CASE \E c \in Cases : ForeignPush(c)
  BY <1>7, ForeignPushKeeps
<1>8. CASE UNCHANGED vars
  <2>1. Typed' /\ CommandOK'
    BY <1>8 DEF IndInv, vars, Typed, CommandOK
  <2>2. LocksOK' /\ LockOK' /\ SeenOK'
    BY <1>8 DEF IndInv, vars, LocksOK, KnownRows, LockOK, Current, Baseline, SeenOK, Fed, Serving
  <2>3. VerifiedOK' /\ CopiesOK'
    BY <1>8 DEF IndInv, vars, VerifiedOK, CopiesOK, Complete, Standing, Serving, Unmoved
  <2>4. ForeignOK' /\ CompletedOK' /\ NothingOK'
    BY <1>8 DEF IndInv, vars, ForeignOK, Candidates, CompletedOK, NothingOK, Baseline
  <2>5. OwnOK' /\ CollisionOK'
    BY <1>8 DEF IndInv, vars, OwnOK, CollisionOK, Untouched
  <2> QED BY <2>1, <2>2, <2>3, <2>4, <2>5 DEF IndInv
<1> QED BY <1>1, <1>2, <1>3, <1>4, <1>5, <1>6, <1>7, <1>8 DEF Next

-----------------------------------------------------------------------------
(* The inductive invariant: what each step of `up` and `update` may rely   *)
(* on of tree, lock, heads, index and run copies, and until what event.    *)
THEOREM Invariant == Spec => []IndInv
<1>1. QED BY InitKeeps, NextKeeps, PTL DEF Spec

(* The estate's state is always well typed.                                *)
THEOREM Types == Spec => []TypeOK
<1>1. IndInv => TypeOK
  <2> SUFFICES ASSUME IndInv  PROVE TypeOK
    OBVIOUS
  <2>1. Typed
    BY DEF IndInv
  <2>2. gen.cases # Torn => DOMAIN gen.cases \subseteq Cases
    <3>1. gen.cases # Torn => gen.cases \in Maps(Entries)
      BY <2>1 DEF Typed, Texts
    <3> QED BY <3>1, MapIs
  <2>3. svc.repos \cup conf.cases \subseteq Cases
    BY <2>1 DEF Typed, Services, Configs
  <2>4. cmd.pc \in Steps /\ cmd.todo \cup cmd.push \cup cmd.cases \subseteq Cases
    BY <2>1 DEF Typed, Commands
  <2>5. cmd.pc # "idle" => cmd.op \in {"up", "update"}
    BY <2>1 DEF Typed, Commands
  <2>6. svc.state \in {"none", "fetching", "embedding", "ready", "error"}
    BY <2>1 DEF Typed, Services
  <2>7. DOMAIN svc.store \subseteq Cases
    <3>1. svc.store \in Maps(Heads)
      BY <2>1 DEF Typed, Services
    <3> QED BY <3>1, MapIs
  <2> QED BY <2>1, <2>2, <2>3, <2>4, <2>5, <2>6, <2>7 DEF Typed, TypeOK
<1> QED BY <1>1, Invariant, PTL

(* After a completed `up` or `update` that nobody disturbed since its      *)
(* verify, heads, lock and the run's copies are the tree's (cmd_up,        *)
(* cmd_update, phase_verify).                                              *)
THEOREM Follows == Spec => []Settled
<1>1. IndInv => Settled
  <2> SUFFICES ASSUME IndInv, Complete, Unmoved  PROVE Settled
    BY DEF Settled, Complete
  <2>1. Standing
    BY DEF IndInv, VerifiedOK
  <2>2. /\ copies.bank = Rows(tree) /\ copies.drop = tree.drop
        /\ copies.lock = [cases |-> gen.cases, bank |-> Rows(tree)]
    BY DEF IndInv, CopiesOK
  <2>3. cmd.op = None
    BY NoneAssumption DEF IndInv, CommandOK, Complete, Idle
  <2>4. Serving <=> copies.service
    BY <2>3, NoneAssumption DEF Serving
  <2> QED BY <2>1, <2>2, <2>4 DEF Standing, Settled
<1> QED BY <1>1, Invariant, PTL

(* ... and the service serves that drop, every case at its timesteps, and  *)
(* the content of its main, though verify compares counts (_verify_result).*)
THEOREM Fresh == Spec => []IndexFresh
<1>1. IndInv => IndexFresh
  BY DEF IndInv, VerifiedOK, Standing, Serving, Complete, IndexFresh
<1> QED BY <1>1, Invariant, PTL

(* "Nothing moved" and "collision" are said only when they are true, under *)
(* the exceptions the property names (cmd_up, cmd_update).                 *)
THEOREM Truthful == Spec => []AnswersAreTrue
<1>1. IndInv => AnswersAreTrue
  <2> SUFFICES ASSUME IndInv  PROVE AnswersAreTrue
    OBVIOUS
  <2>1. past.said = "nothing" /\ ~past.dirty /\ ~past.moved =>
          /\ \A c \in DOMAIN tree.cases : live[c] = Build(tree, c)
          /\ DOMAIN Baseline = DOMAIN tree.cases
          /\ copies.bank = Rows(tree)
    BY DEF IndInv, NothingOK
  <2>2. past.said = "collision" =>
          used.edits + used.foreign > 0 \/ \E c \in Cases : live[c] = NoHeads
    <3>1. used.edits \in Nat /\ used.foreign \in Nat
      BY DEF IndInv, Typed, Spent
    <3> QED BY <3>1 DEF IndInv, CollisionOK, Untouched
  <2> QED BY <2>1, <2>2 DEF AnswersAreTrue
<1> QED BY <1>1, Invariant, PTL

(* No push goes over somebody else's branches, but for --overwrite-repos,  *)
(* a push that came after the check, and an edit under the command         *)
(* (ensure_remote_repo, push_repo).                                        *)
THEOREM NotOver == Spec => NoPushOver
<1> DEFINE All == \A c \in Cases :
                    live[c] = Foreign /\ live'[c] \notin {Absent, Foreign}
                      => cmd.over \/ c \in past.late \/ past.moved
<1>1. IndInv /\ [Next]_vars => [All]_vars
  <2> SUFFICES ASSUME IndInv, Next, NEW c \in Cases, live[c] = Foreign,
                      live'[c] \notin {Absent, Foreign}
               PROVE  cmd.over \/ c \in past.late \/ past.moved
    BY DEF vars
  <2>1. Typed /\ Absent # Foreign
    BY NoneAssumption DEF IndInv, Absent
  <2>2. EnsureRemoteRepo \/ PushRepo \/ \E d \in Cases : ForeignPush(d)
    BY DEF Next, Up, Update, CommandStep, CheckOwner, CheckDrift, SeedLock, Scaffold, ReadBack,
           WriteLock, WriteDecisionsLock, WriteConfig, RewriteConfig, StartService, Ingest,
           SeeReady, GiveUp, WriteBank, LockBank, Verify, CopyBank, CopyLock,
           CopyDecisionsLock, Record, Service, Fetch, Land, Embed, Cut, Edit
  <2>3. CASE EnsureRemoteRepo
    BY <2>1, <2>3 DEF Typed, EnsureRemoteRepo
  <2>4. CASE PushRepo
    <3>1. /\ cmd.pc = "push" /\ cmd.at \in cmd.todo
          /\ (live' = live \/ live' = [live EXCEPT ![cmd.at] = Build(tree, cmd.at)])
      BY <2>1, <2>4 DEF Typed, PushRepo
    <3>2. c = cmd.at
      BY <2>1, <3>1 DEF Typed
    <3> QED BY <3>1, <3>2 DEF IndInv, ForeignOK, Candidates
  <2>5. CASE \E d \in Cases : ForeignPush(d)
    BY <2>1, <2>5 DEF Typed, ForeignPush
  <2> QED BY <2>2, <2>3, <2>4, <2>5
<1>2. Spec => [][All]_vars
  <2> HIDE DEF All
  <2> QED BY <1>1, Invariant, PTL DEF Spec
<1> QED BY <1>2 DEF NoPushOver
=============================================================================
