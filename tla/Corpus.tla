------------------------------- MODULE Corpus -------------------------------
(***************************************************************************)
(* A corpus as data (estate/corpus/ingest_corpus.py): the operator's tree  *)
(* of cases, the contract it must meet, the git branches and the bank rows *)
(* built from it, the lock entry that records them, and what `update`      *)
(* (estate/estate.py) makes of the difference between a tree and a lock.   *)
(*                                                                         *)
(* A tree is [cases, cards, agents, drop]: cases maps a case id to         *)
(* [splits, steps], steps maps a timestep to [pages, prompts]; a card, an  *)
(* agents file, a page and a prompt's text are opaque contents; drop is    *)
(* the content of decisions/.  None stands for a file that is missing or   *)
(* that cannot be read.                                                    *)
(***************************************************************************)
EXTENDS Naturals, Sequences, FiniteSets, Functions

CONSTANTS None

-----------------------------------------------------------------------------
(* The contract.                                                           *)

(* load_corpus: the corpus-level files.                                    *)
ValidCorpusFiles(tree) ==
  tree.agents # None /\ \A name \in DOMAIN tree.cards : tree.cards[name] # None

(* skill:<name> or free:<slug>: the id tells the kind.                     *)
PromptId(prompt) == <<prompt.skill, prompt.id>>

(* Contract rule 4: a skill prompt's id names its card and must resolve; a *)
(* prompt id appears once in a timestep.                                   *)
ValidPrompts(tree, prompts) ==
  /\ \A i \in DOMAIN prompts : prompts[i].skill => prompts[i].id \in DOMAIN tree.cards
  /\ \A i, j \in DOMAIN prompts : PromptId(prompts[i]) = PromptId(prompts[j]) => i = j

(* The two timesteps follow each other in the case.                        *)
Consecutive(case, s, t) ==
  s < t /\ \A u \in DOMAIN case.steps : ~(s < u /\ u < t)

(* Contract rules 2 and 3: timestep t holds exactly pages 1..t, and a page *)
(* two consecutive timesteps share is the same in both.                    *)
ValidCase(tree, case) ==
  /\ DOMAIN case.steps # {}
  /\ \A t \in DOMAIN case.steps :
       /\ DOMAIN case.steps[t].pages = 1..t
       /\ \A p \in 1..t : case.steps[t].pages[p] # None
       /\ ValidPrompts(tree, case.steps[t].prompts)
  /\ \A s, t \in DOMAIN case.steps : Consecutive(case, s, t) =>
       \A p \in DOMAIN case.steps[s].pages \cap DOMAIN case.steps[t].pages :
         case.steps[s].pages[p] = case.steps[t].pages[p]

(* A case stands under exactly one split.                                  *)
OneSplit(case) == Cardinality(case.splits) = 1
SplitOf(case)  == CHOOSE s \in case.splits : TRUE

ValidDrop(tree) == tree.drop # None

Valid(tree) ==
  /\ ValidCorpusFiles(tree)
  /\ ValidDrop(tree)
  /\ DOMAIN tree.cases # {}
  /\ \A c \in DOMAIN tree.cases : OneSplit(tree.cases[c]) /\ ValidCase(tree, tree.cases[c])

-----------------------------------------------------------------------------
(* The case repository.  A commit is deterministic, so a branch's SHA is   *)
(* what it was built from: the full document, the corpus-level files, and  *)
(* the page it was cut after; every branch's commit descends from main's.  *)

Main == 0
Largest(case) == CHOOSE t \in DOMAIN case.steps : \A u \in DOMAIN case.steps : u <= t

Ref(tree, case, cut) ==
  [full |-> case.steps[Largest(case)].pages, fixed |-> <<tree.agents, tree.cards>>,
   cut |-> cut]

(* main holds the largest timestep, timestep-t is main cut after page t.   *)
Build(tree, c) ==
  LET case == tree.cases[c]
  IN  [b \in {Main} \cup DOMAIN case.steps |->
         Ref(tree, case, IF b = Main THEN Largest(case) ELSE b)]

(* What a clone finds on a branch.                                         *)
PagesOf(ref) == [p \in {q \in DOMAIN ref.full : q <= ref.cut} |-> ref.full[p]]

(* A branch's source in the tree: its own directory, main's the largest.   *)
SourceStep(case, b) == case.steps[IF b = Main THEN Largest(case) ELSE b]

-----------------------------------------------------------------------------
(* The task bank and the lock.                                             *)

PromptText(tree, prompt) ==
  IF prompt.skill THEN tree.cards[prompt.id] ELSE prompt.text

(* One row for every prompt of every timestep, under its case's split.     *)
Rows(tree) ==
  UNION {UNION {{[case |-> c, t |-> t, id |-> PromptId(prompt),
                  split |-> SplitOf(tree.cases[c]), text |-> PromptText(tree, prompt)] :
                 prompt \in Range(tree.cases[c].steps[t].prompts)} :
                t \in DOMAIN tree.cases[c].steps} :
         c \in DOMAIN tree.cases}

PromptIds(step) == [i \in DOMAIN step.prompts |-> PromptId(step.prompts[i])]

LockEntry(tree, c) ==
  LET case == tree.cases[c]
  IN  [refs |-> Build(tree, c), split |-> SplitOf(case),
       ids |-> [t \in DOMAIN case.steps |-> PromptIds(case.steps[t])]]

-----------------------------------------------------------------------------
(* The plan of `update`: what moved between the lock and the tree.         *)

Removed(tree, locked)  == DOMAIN locked \ DOMAIN tree.cases
NewCases(tree, locked) == DOMAIN tree.cases \ DOMAIN locked

(* Mutant: only the branches are compared.                                 *)
MovedByRefs(tree, locked) ==
  {c \in DOMAIN tree.cases \cap DOMAIN locked : locked[c].refs # Build(tree, c)}

(* Branches, split, or the prompt ids of a timestep the lock knows.        *)
Moved(tree, locked) ==
  {c \in DOMAIN tree.cases \cap DOMAIN locked :
     \/ locked[c].refs # Build(tree, c)
     \/ locked[c].split # SplitOf(tree.cases[c])
     \/ \E t \in DOMAIN tree.cases[c].steps \cap DOMAIN locked[c].ids :
          locked[c].ids[t] # PromptIds(tree.cases[c].steps[t])}

(* A free prompt edited under an id that stays moves neither branches nor  *)
(* ids: its text is compared with the rows last served.                    *)
Reworded(tree, rows) ==
  {c \in DOMAIN tree.cases :
     \E t \in DOMAIN tree.cases[c].steps :
       \E prompt \in Range(tree.cases[c].steps[t].prompts), row \in rows :
         /\ ~prompt.skill
         /\ row.case = c /\ row.t = t /\ row.id = PromptId(prompt)
         /\ row.text # prompt.text}

ToPush(tree, locked, rows) ==
  NewCases(tree, locked) \cup Moved(tree, locked) \cup Reworded(tree, rows)

-----------------------------------------------------------------------------
(* verify: reality against the tree and the lock.                          *)

(* A cloned case: its heads are the lock's, its split is the lock's, and   *)
(* every branch the tree asks for holds its directory's pages, byte for    *)
(* byte, and the corpus-level files.                                       *)
CaseVerified(tree, c, entry, heads) ==
  LET case == tree.cases[c]
  IN  /\ heads = entry.refs
      /\ entry.split = SplitOf(case)
      /\ \A b \in {Main} \cup DOMAIN case.steps :
           /\ b \in DOMAIN heads
           /\ PagesOf(heads[b]) = SourceStep(case, b).pages
           /\ heads[b].fixed = <<tree.agents, tree.cards>>

(* What the service reports of a case it serves, and what the tree asks    *)
(* for: counts, no contents.                                               *)
Census(heads)          == [pages |-> Cardinality(DOMAIN PagesOf(heads[Main])),
                           steps |-> DOMAIN heads \ {Main}]
SourceCensus(tree, c)  == [pages |-> Largest(tree.cases[c]),
                           steps |-> DOMAIN tree.cases[c].steps]
ServedVerified(tree, seen) ==
  /\ DOMAIN seen = DOMAIN tree.cases
  /\ \A c \in DOMAIN seen : Census(seen[c]) = SourceCensus(tree, c)

(* The bank: recorded, present, the bytes recorded, the rows of the tree.  *)
BankVerified(tree, recorded, parquet) ==
  recorded # None /\ parquet = recorded /\ parquet = Rows(tree)

=============================================================================
