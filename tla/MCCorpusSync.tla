---------------------------- MODULE MCCorpusSync ----------------------------
(* Small instances of CorpusSync: a handful of trees that differ in one    *)
(* way each, but for Split, whose decisions/ differs too.                  *)
EXTENDS CorpusSync, TLC

CONSTANTS a, b, x, y, q, train, eval

Free(text) == [skill |-> FALSE, id |-> q, text |-> text]
Case(split, steps) == [splits |-> {split}, steps |-> steps]
Step(pages, text) == [pages |-> pages, prompts |-> <<Free(text)>>]
Corpus(cases, card, drop) == [cases |-> cases, cards |-> q :> card, agents |-> x,
                              drop |-> drop]

Two   == 2 :> Step(<<x, y>>, x)
Three == Two @@ 3 :> Step(<<x, y, x>>, x)

First    == Corpus(a :> Case(train, Two), x, x)
Paged    == Corpus(a :> Case(train, 2 :> Step(<<y, y>>, x)), x, x)
Worded   == Corpus(a :> Case(train, 2 :> Step(<<x, y>>, y)), x, x)
Split    == Corpus(a :> Case(eval, Two), x, y)
Spread   == Corpus(a :> Case(train, 1 :> Step(<<x>>, x) @@ Two), x, x)
Grown    == Corpus(a :> Case(train, Three) @@ b :> Case(eval, Two), x, x)
Diverged == Corpus(a :> Case(train, 1 :> Step(<<y>>, x) @@ Two), x, x)

ForeignHeads == 0 :> [full |-> <<y>>, fixed |-> <<y>>, cut |-> 1]

SomeTrees == {First, Paged, Worded, Split, Spread, Grown, Diverged}
=============================================================================
