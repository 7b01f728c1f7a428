------------------------ MODULE IndexStoreRefinement ------------------------
(* IndexStore implements SearchService while one init thread runs at a     *)
(* time.  What an init thread has ingested is what has been picked; what   *)
(* AppState holds is served once the status is "ready".                    *)
EXTENDS IndexStore

InitThread == CHOOSE t \in Threads : TRUE

Service == INSTANCE SearchService WITH
  Generated <- Decisions,
  heads     <- corpus,
  model     <- cfg.model,
  state     <- status,
  picked    <- IF status = "indexing" THEN thr[InitThread].src ELSE NoCases,
  serving   <- IF status = "ready" THEN cases ELSE NoCases

(* The start-up protocol implements the promise of the service: a ready    *)
(* service serves versions read since this indexing began, whole and under *)
(* the configured model, and indexing always ends (state.py: "Ingest ->    *)
(* fingerprint -> reuse-or-(re)build").                                    *)
ImplementsService == Service!Spec
=============================================================================
