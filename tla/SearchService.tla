--------------------------- MODULE SearchService ----------------------------
(***************************************************************************)
(* What the retrieval service promises its callers: it answers only when   *)
(* ready; what it then serves is one version of every collection, read     *)
(* from the corpus since this indexing began and embedded by the           *)
(* configured model; and indexing always ends.  Nothing is said of disks,  *)
(* records or rebuilds: IndexStoreRefinement shows that the start-up       *)
(* protocol of IndexStore implements this.                                 *)
(***************************************************************************)
CONSTANTS Names, Generated, Versions, Synth, Models, None

VARIABLES
  heads,   \* the version of each collection's source
  model,   \* the configured model
  state,   \* what /health reports, or "down"
  picked,  \* the versions this indexing has read
  serving  \* what tool calls are answered from

svars == <<heads, model, state, picked, serving>>

Nothing == [n \in Names |-> None]

Init ==
  /\ heads \in [Names -> Versions \ {Synth}]
  /\ model \in Models
  /\ state = "down"
  /\ picked = Nothing
  /\ serving = Nothing

Begin == state' = "indexing" /\ picked' = Nothing /\ serving' = Nothing

Start   == state = "down" /\ Begin /\ model' \in Models /\ UNCHANGED heads
Reindex == state \in {"ready", "error"} /\ Begin /\ UNCHANGED <<heads, model>>

(* One source is read; the decisions may be generated instead.             *)
Pick(n) ==
  /\ state = "indexing"
  /\ picked[n] = None
  /\ \/ picked' = [picked EXCEPT ![n] = heads[n]]
     \/ n = Generated /\ picked' = [picked EXCEPT ![n] = Synth]
  /\ UNCHANGED <<heads, model, state, serving>>

Publish ==
  /\ state = "indexing"
  /\ \A n \in Names : picked[n] # None
  /\ state' = "ready"
  /\ serving' = [n \in Names |-> [pages |-> picked[n], vecs |-> picked[n], by |-> model]]
  /\ picked' = Nothing
  /\ UNCHANGED <<heads, model>>

Refuse ==
  /\ state = "indexing"
  /\ state' = "error"
  /\ picked' = Nothing
  /\ UNCHANGED <<heads, model, serving>>

Stop ==
  /\ state # "down"
  /\ state' = "down"
  /\ picked' = Nothing
  /\ serving' = Nothing
  /\ UNCHANGED <<heads, model>>

Push(n) ==
  /\ heads' \in [Names -> Versions \ {Synth}]
  /\ \A o \in Names \ {n} : heads'[o] = heads[o]
  /\ UNCHANGED <<model, state, picked, serving>>

Next == \/ Start \/ Reindex \/ Publish \/ Refuse \/ Stop
        \/ \E n \in Names : Pick(n) \/ Push(n)

Spec == Init /\ [][Next]_svars /\ WF_svars(Publish \/ Refuse)
=============================================================================
