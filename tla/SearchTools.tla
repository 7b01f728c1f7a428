---------------------------- MODULE SearchTools -----------------------------
(***************************************************************************)
(* What the retrieval service answers an episode: the split of a text into *)
(* pieces (ingest.py), the ranking of pages and of decision units by their *)
(* best piece (index.py), and the token, the scope and the tools around    *)
(* them (tokens.py, app.py, tools.py), with the harness's mint.            *)
(*                                                                         *)
(* A text is a sequence of characters, each given as its similarity to the *)
(* query: Blank is no part of any token, every other character is one.     *)
(* The similarity of a piece is that of its most similar character.        *)
(***************************************************************************)
EXTENDS Integers, Sequences, FiniteSets, Selections

-----------------------------------------------------------------------------
(* The encoder and its tokenizer.                                          *)

Blank == 0

Tokens(text) == Subsequence([i \in DOMAIN text |-> [from |-> i - 1, to |-> i]],
                            {i \in DOMAIN text : text[i] # Blank})

Similarity(text, span) ==
  IF span.from = span.to THEN Blank ELSE Max({text[i] : i \in span.from + 1 .. span.to})

-----------------------------------------------------------------------------
(* split_spans: windows of max tokens, each overlap tokens into the one    *)
(* before, mapped back to the text; the last is the first to reach the     *)
(* end.                                                                    *)

Windows(tokens, chunking, reach) ==
  LET stride == chunking.max - chunking.overlap
      last   == CHOOSE i \in 1 .. Len(tokens) :
                  /\ (i - 1) * stride + reach >= Len(tokens)
                  /\ \A j \in 1 .. i - 1 : (j - 1) * stride + reach < Len(tokens)
  IN  [i \in 1 .. last |->
         [from |-> tokens[(i - 1) * stride + 1].from,
          to   |-> tokens[Min({Len(tokens), (i - 1) * stride + chunking.max})].to]]

(* Mutant: the last window is given up one token early.                    *)
SplitSpansEarly(text, chunking) ==
  IF Tokens(text) = <<>> THEN <<[from |-> 0, to |-> Len(text)]>>
                         ELSE Windows(Tokens(text), chunking, chunking.max + 1)

SplitSpans(text, chunking) ==
  IF Tokens(text) = <<>> THEN <<[from |-> 0, to |-> Len(text)]>>
                         ELSE Windows(Tokens(text), chunking, chunking.max)

(* A unit's first and last piece are widened to the unit's bounds.         *)
RiiPieces(text, chunking) ==
  LET spans == SplitSpans(text, chunking)
  IN  [i \in DOMAIN spans |->
         [from |-> IF i = 1 THEN 0 ELSE spans[i].from,
          to   |-> IF i = Len(spans) THEN Len(text) ELSE spans[i].to]]

-----------------------------------------------------------------------------
(* CaseIndex.search: the pieces of visible pages only, pages by their best *)
(* piece, then by number.  All of them are asked for, and the store is     *)
(* taken as exact: the code claims "parity with the exact scan this        *)
(* replaced at the frozen estate's scale (213 chunks); measured [about]    *)
(* 0.1% short at 19,215" (index.py:489-496).                               *)

ClampK(k, max) == Max({1, Min({max, k})})

Leading(ranked, k) == SubSeq(ranked, 1, Min({k, Len(ranked)}))

BestScore(text, spans) == Max({Similarity(text, spans[i]) : i \in DOMAIN spans})

CaseSearch(case, k, timestep) ==
  LET candidates == {page \in DOMAIN case.pages : page <= timestep}
      score(page) == BestScore(case.pages[page], SplitSpans(case.pages[page], case.chunking))
      before(p, q) == score(p) > score(q) \/ (score(p) = score(q) /\ p < q)
      ranked == Leading(Ordered(candidates, before), k)
  IN  Subsequence(ranked, {i \in DOMAIN ranked : score(ranked[i]) > 0})

-----------------------------------------------------------------------------
(* RiiDecisionsIndex.search over a drop: decisions of units [section, rn,  *)
(* text], rn 0 for a unit without a number.  The store returns as many     *)
(* pieces as are asked for, none of them worse than one it leaves out.     *)

Units(drop) == UNION {{d} \X DOMAIN drop[d] : d \in DOMAIN drop}
UnitOf(drop, key) == drop[key[1]][key[2]]

Pieces(drop, chunking) ==
  UNION {{[unit |-> key, at |-> i] : i \in DOMAIN RiiPieces(UnitOf(drop, key).text, chunking)} :
         key \in Units(drop)}

Score(drop, chunking, piece) ==
  LET text == UnitOf(drop, piece.unit).text
  IN  Similarity(text, RiiPieces(text, chunking)[piece.at])

(* What the store may return for n results: exact but for ties.  The code  *)
(* claims less (index.py:489-496, see CaseSearch; decisions-surface 8.4).  *)
Nearest(drop, chunking, n) ==
  {found \in kSubset(n, Pieces(drop, chunking)) :
     \A in \in found, out \in Pieces(drop, chunking) \ found :
       Score(drop, chunking, in) >= Score(drop, chunking, out)}

Fetch(drop, chunking, perK, k) ==
  Max({1, Min({Cardinality(Pieces(drop, chunking)), perK * k})})

(* decision, section, number with none first, document order.              *)
Before(drop, a, b) ==
  LET u == UnitOf(drop, a)
      v == UnitOf(drop, b)
  IN  \/ a[1] < b[1]
      \/ a[1] = b[1] /\ u.section < v.section
      \/ a[1] = b[1] /\ u.section = v.section /\ u.rn < v.rn
      \/ a[1] = b[1] /\ u.section = v.section /\ u.rn = v.rn /\ a[2] < b[2]

RiiSearch(drop, chunking, found, k) ==
  LET units == {piece.unit : piece \in found}
      best(key) == Max({Score(drop, chunking, piece) : piece \in {f \in found : f.unit = key}})
      before(a, b) == best(a) > best(b) \/ (best(a) = best(b) /\ Before(drop, a, b))
      ranked == Leading(Ordered(units, before), k)
  IN  [i \in 1 .. Cardinality({i \in DOMAIN ranked : best(ranked[i]) > 0}) |->
         [unit |-> ranked[i], score |-> best(ranked[i]),
          excerpt |-> LET text == UnitOf(drop, ranked[i]).text
                      IN  RiiPieces(text, chunking)[
                            (CHOOSE f \in found : f.unit = ranked[i]
                               /\ Score(drop, chunking, f) = best(ranked[i])).at]]]

-----------------------------------------------------------------------------
(* Tokens: who signed it, until when, and its claims.                      *)

MintEpisodeToken(settings, now) ==
  [secret |-> settings.secret, exp |-> now + settings.ttl,
   claims |-> [case |-> settings.case, timestep |-> settings.timestep,
               episode |-> settings.session]]

Verify(service, token, now) ==
  /\ token.secret = service.secret
  /\ now < token.exp + service.leeway
  /\ {"case", "timestep", "episode"} \subseteq DOMAIN token.claims

ValidateScope(service, claims) ==
  /\ claims.case \in DOMAIN service.cases
  /\ claims.timestep \in 1 .. Len(service.cases[claims.case].pages)

(* The answer to a request for the tools: ready, then the token, then its  *)
(* scope.                                                                  *)
Admission(service, token, now) ==
  IF service.status # "ready" THEN 503
  ELSE IF Verify(service, token, now) /\ ValidateScope(service, token.claims) THEN 200
  ELSE 401

(* search_case and case_status: the timestep is the token's.               *)
SearchCase(service, token, k) ==
  CaseSearch(service.cases[token.claims.case], ClampK(k, service.maxK), token.claims.timestep)

CaseStatus(service, token) ==
  LET visible == {page \in DOMAIN service.cases[token.claims.case].pages :
                    page <= token.claims.timestep}
  IN  [timestep |-> token.claims.timestep, visible |-> Cardinality(visible),
       max |-> Max(visible)]

-----------------------------------------------------------------------------
(* What the answers must be, over small cases and drops.                   *)

Whole(text)  == [from |-> 0, to |-> Len(text)]
Own(text)    == Similarity(text, Whole(text))
Cover(spans) == UNION {spans[i].from + 1 .. spans[i].to : i \in DOMAIN spans}

(* The first k of the candidates that are similar at all, the most similar *)
(* first and equal ones in their order.                                    *)
TopK(answer, candidates, score, order, k) ==
  LET similar     == {x \in candidates : score[x] > 0}
      ahead(x, y) == score[x] > score[y] \/ (score[x] = score[y] /\ <<x, y>> \in order)
  IN  /\ \A i \in DOMAIN answer : answer[i] \in similar
      /\ \A i, j \in DOMAIN answer : i < j => ahead(answer[i], answer[j])
      /\ Len(answer) = Min({k, Cardinality(similar)})
      /\ \A x \in similar, i \in DOMAIN answer :
           (\E j \in DOMAIN answer : answer[j] = x) \/ ahead(answer[i], x)

(* search_case: the visible pages, as if each had been read whole.         *)
BestPages(pages, chunking, k, T) ==
  \A answer \in {CaseSearch([pages |-> pages, chunking |-> chunking], k, T)} :
    LET visible == {page \in DOMAIN pages : page <= T}
    IN  TopK(answer, visible, [page \in visible |-> Own(pages[page])],
             {p \in visible \X visible : p[1] < p[2]}, k)

(* search_decisions: with the units in their order when the fetch reaches  *)
(* every piece, and when it does not, still with scores that are the       *)
(* units' own and no better unit left out.  An excerpt is a part of the    *)
(* unit that earns its score.                                              *)
BestUnits(drop, chunking, found, k) ==
  \A hits \in {RiiSearch(drop, chunking, found, k)} :
    LET units == Units(drop)
        own   == [key \in units |-> Own(UnitOf(drop, key).text)]
    IN  /\ \A i \in DOMAIN hits :
             /\ hits[i].score = own[hits[i].unit]
             /\ Similarity(UnitOf(drop, hits[i].unit).text, hits[i].excerpt) = hits[i].score
             /\ \A key \in units : own[key] > hits[i].score =>
                  \E j \in 1 .. i - 1 : hits[j].unit = key
        /\ found = Pieces(drop, chunking) =>
             TopK([i \in DOMAIN hits |-> hits[i].unit], units, own,
                  {p \in units \X units : Before(drop, p[1], p[2])}, k)

(* With an overlap, no character of a unit is in none of its pieces.       *)
Covered(text, chunking) ==
  chunking.overlap > 0 => Cover(RiiPieces(text, chunking)) = DOMAIN text

Texts(n)  == UNION {[1 .. m -> 0 .. 2] : m \in 1 .. n}
UnitTexts == Texts(2) \cup {<<2, 0, 1>>}
Chunkings == {[max |-> 2, overlap |-> 1], [max |-> 2, overlap |-> 0]}

(* Two decisions: the first with a section without numbers and one with.   *)
Drops == {<<<<[section |-> 1, rn |-> 0, text |-> a], [section |-> 2, rn |-> 1, text |-> b]>>,
            <<[section |-> 2, rn |-> 1, text |-> c]>>>> : a, b, c \in UnitTexts}

(* Although only pieces are compared, a search answers as if every page    *)
(* and every unit had been read whole (docs/decisions-surface.md 6 and 8;  *)
(* index.py CaseIndex and RiiDecisionsIndex).                              *)
BestAnswers ==
  /\ \A first, second \in Texts(3), chunking \in Chunkings, T \in 1 .. 2, k \in {0, 1, 5} :
       BestPages(<<first, second>>, chunking, ClampK(k, 2), T)
  /\ \A drop \in Drops, chunking \in Chunkings, k \in 1 .. 2, perK \in {1, 200} :
       \A found \in Nearest(drop, chunking, Fetch(drop, chunking, perK, k)) :
         BestUnits(drop, chunking, found, k)
  /\ \A text \in Texts(3), chunking \in Chunkings : Covered(text, chunking)
=============================================================================
