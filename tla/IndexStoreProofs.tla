-------------------------- MODULE IndexStoreProofs --------------------------
(***************************************************************************)
(* Proofs about the index store.  Whatever the repositories, versions,     *)
(* models and number of init threads, and however often the process is     *)
(* killed, re-pinned, reindexed or handed another estate's vectors, TypeOK *)
(* and ServesConfiguredModel hold.  Both follow from IndInv of IndexStore: *)
(* Init implies it (InitHolds), one lemma per action shows that the action *)
(* preserves it, StepKeeps collects them.  The last part shows that the    *)
(* store implements the steps of SearchService (ImplementsSteps).          *)
(*                                                                         *)
(* A working thread is alone (OneWorker), so a step of one is proved in    *)
(* the same way each time: what the step does to the thread, what          *)
(* WorkerStep and OthersKeep say of the rest, and the conjuncts the step   *)
(* can disturb.                                                            *)
(***************************************************************************)
EXTENDS IndexStoreRefinement, TLAPS

USE DEF disk, world, handle, process, At

Others(t) == \A u \in Threads \ {t} : thr'[u] = thr[u]

(* A thread that is not running is well typed.                              *)
LEMMA IdleThreadType == IdleThread \in Thread
  BY DEF IdleThread, Thread, PCs, Names

(* An idle thread holds nothing.                                            *)
LEMMA IdleThreadFields ==
  /\ IdleThread.pc = "idle" /\ IdleThread.stored = None
  /\ IdleThread.kept = {} /\ IdleThread.todo = {}
  BY DEF IdleThread

(* What a started thread holds.                                             *)
LEMMA StartThreadFields ==
  ASSUME NEW t
  PROVE  /\ StartThread(t) \in Thread
         /\ StartThread(t).pc = "gate" /\ StartThread(t).stored = None
         /\ StartThread(t).kept = {}
  BY IdleThreadType DEF StartThread, IdleThread, Thread, PCs

(* A step that replaces the value of one thread leaves the others alone.    *)
LEMMA Becomes ==
  ASSUME NEW t \in Threads, NEW x \in Thread, thr \in [Threads -> Thread],
         thr' = [thr EXCEPT ![t] = x]
  PROVE  thr' \in [Threads -> Thread] /\ Others(t) /\ thr'[t] = x
  BY DEF Others

(* A jump changes the position of one thread and nothing else of it.        *)
LEMMA GotoFields ==
  ASSUME NEW t \in Threads, NEW p \in PCs, thr \in [Threads -> Thread], Goto(t, p)
  PROVE  /\ thr' \in [Threads -> Thread]
         /\ Others(t)
         /\ thr'[t].pc = p
         /\ thr'[t].src = thr[t].src
         /\ thr'[t].stored = thr[t].stored
         /\ thr'[t].kept = thr[t].kept
         /\ thr'[t].todo = thr[t].todo
         /\ thr'[t].cur = thr[t].cur
  BY DEF Thread, Goto, Others

(* A thread that returns is idle, and the others are left alone.            *)
LEMMA FinishFields ==
  ASSUME NEW t \in Threads, thr \in [Threads -> Thread], Finish(t)
  PROVE  thr' \in [Threads -> Thread] /\ Others(t) /\ thr'[t] = IdleThread
  BY IdleThreadType DEF Finish, Others

(* A step of a working thread leaves at most one worker, under "indexing".  *)
LEMMA WorkerStep ==
  ASSUME IndInv, NEW t \in Threads, thr[t].pc \in Working, Others(t),
         thr' \in [Threads -> Thread],
         client' # "unlinked",
         \/ status' = "indexing"
         \/ status' \in {"ready", "error"} /\ thr'[t].pc \notin Working
  PROVE  DownIsEmpty' /\ OneWorker'
  BY DEF IndInv, DownIsEmpty, OneWorker, Others, Working

(* A step of a working thread keeps what is known of every other thread.    *)
LEMMA OthersKeep ==
  ASSUME IndInv, NEW t \in Threads, thr[t].pc \in Working, Others(t), cfg' = cfg,
         \A n \in Names : Unstamped(n)' => Unstamped(n)
  PROVE  \A u \in Threads \ {t} :
           /\ Ingested(u)' /\ InHand(u)'
           /\ \A n \in Names : Unstamped(n)' => ThreadClaims(u, n)'
<1>1. \A u \in Threads \ {t} :
        /\ thr[u].pc \notin Working /\ thr[u].pc \notin Building
        /\ thr[u].kept = {} /\ thr'[u] = thr[u]
  BY DEF IndInv, OneWorker, Others, Progress, InHand, Working, Building, PCs
<1>2. \A u \in Threads \ {t} : Ingested(u)'
  BY <1>1 DEF IndInv, Progress, Ingested, Working, PCs
<1>3. \A u \in Threads \ {t} : InHand(u)'
  BY <1>1 DEF InHand, Building
<1>4. \A u \in Threads \ {t} : \A n \in Names : Unstamped(n)' => ThreadClaims(u, n)'
  BY <1>1 DEF IndInv, LegacyClaims, ThreadClaims
<1> QED BY <1>2, <1>3, <1>4

(* The identity gate: the thread goes on to ingest, or the service errs.    *)
LEMMA CheckIdentityKeeps ==
  ASSUME IndInv, NEW t \in Threads, CheckIdentity(t)
  PROVE  IndInv'
<1>1. /\ thr' \in [Threads -> Thread] /\ Others(t)
      /\ thr'[t].kept = {} /\ thr'[t].stored \in {None, thr[t].stored}
      /\ \/ thr'[t].pc = "ingest" /\ status' = status
         \/ thr'[t].pc = "idle" /\ status' = "error"
  <2>1. thr \in [Threads -> Thread] /\ thr[t].kept = {}
    BY DEF IndInv, TypeOK, Progress, InHand, Building, CheckIdentity
  <2>2. CASE GateRefuses
    BY <2>1, <2>2, FinishFields, IdleThreadFields DEF CheckIdentity, InitError
  <2>3. CASE ~GateRefuses
    BY <2>1, <2>3, GotoFields DEF CheckIdentity, PCs
  <2> QED BY <2>2, <2>3
<1>2. /\ thr[t].pc \in Working
      /\ UNCHANGED <<corpus, chroma, side, record, cfg, cases, fingerprint, client, ghost>>
  BY DEF CheckIdentity, Working, PCs, InitError
<1>3. TypeOK'
  BY <1>1, <1>2 DEF IndInv, TypeOK
<1>4. DownIsEmpty' /\ OneWorker'
  BY <1>1, <1>2, WorkerStep DEF IndInv, OneWorker, Working
<1>5. \A n \in Names : Unstamped(n)' <=> Unstamped(n)
  BY <1>2 DEF Unstamped
<1>6. LegacyClaims'
  BY <1>1, <1>2, <1>5, OthersKeep
     DEF IndInv, LegacyClaims, RecordClaims, ThreadClaims, Backfilling
<1>7. Progress'
  BY <1>1, <1>2, <1>5, OthersKeep DEF Progress, Ingested, InHand, Building
<1>8. StampTruth' /\ CasesOfModel' /\ ServesConfiguredModel'
  BY <1>1, <1>2, WorkerStep
     DEF IndInv, StampTruth, CasesOfModel, ServesConfiguredModel, OneWorker
<1> QED BY <1>3, <1>4, <1>6, <1>7, <1>8 DEF IndInv

(* Reading one repository changes only what the thread has ingested.        *)
LEMMA IngestKeeps ==
  ASSUME IndInv, NEW t \in Threads, NEW r \in Repos, Ingest(t, r)
  PROVE  IndInv'
<1>1. /\ thr' \in [Threads -> Thread] /\ Others(t)
      /\ thr'[t].pc = "ingest" /\ thr'[t].kept = {} /\ thr'[t].stored = thr[t].stored
  <2>1. /\ thr \in [Threads -> Thread] /\ thr[t].kept = {} /\ thr[t].pc = "ingest"
        /\ corpus[r] \in Versions
    BY DEF IndInv, TypeOK, Progress, InHand, Building, Ingest, Names
  <2> DEFINE src == [thr[t].src EXCEPT ![r] = corpus[r]]
             x   == [thr[t] EXCEPT !.src = src]
  <2>2. src \in [Names -> Versions \cup {None}]
    BY <2>1 DEF Thread
  <2>3. thr' = [thr EXCEPT ![t] = x]
    BY <2>1 DEF Ingest, Thread
  <2>4. x \in Thread /\ x.pc = "ingest" /\ x.kept = {} /\ x.stored = thr[t].stored
    <3> HIDE DEF src
    <3> QED BY <2>1, <2>2 DEF Thread
  <2> HIDE DEF x
  <2> QED BY <2>1, <2>3, <2>4, Becomes
<1>2. /\ thr[t].pc \in Working
      /\ UNCHANGED <<corpus, chroma, side, record, cfg, status, cases, fingerprint, client, ghost>>
  BY DEF Ingest, Working, PCs
<1>3. TypeOK'
  BY <1>1, <1>2 DEF IndInv, TypeOK
<1>4. DownIsEmpty' /\ OneWorker'
  BY <1>1, <1>2, WorkerStep DEF IndInv, OneWorker
<1>5. \A n \in Names : Unstamped(n)' <=> Unstamped(n)
  BY <1>2 DEF Unstamped
<1>6. LegacyClaims'
  BY <1>1, <1>2, <1>5, OthersKeep
     DEF IndInv, LegacyClaims, RecordClaims, ThreadClaims, Backfilling
<1>7. Progress'
  BY <1>1, <1>2, <1>5, OthersKeep DEF Progress, Ingested, InHand, Building
<1>8. StampTruth' /\ CasesOfModel' /\ ServesConfiguredModel'
  BY <1>2 DEF IndInv, StampTruth, CasesOfModel, ServesConfiguredModel
<1> QED BY <1>3, <1>4, <1>6, <1>7, <1>8 DEF IndInv

(* The decision compares the record with what was ingested; a thread sent to*)
(* load matched the record, so the record it read names the configured model.*)
LEMMA DecideKeeps ==
  ASSUME IndInv, NEW t \in Threads, Decide(t)
  PROVE  IndInv'
<1> DEFINE src == [thr[t].src EXCEPT ![Decisions] = DecisionsSource]
<1>1. /\ thr \in [Threads -> Thread] /\ thr[t] \in Thread
      /\ thr[t].kept = {} /\ thr[t].pc = "ingest" /\ status = "indexing"
      /\ record.fp \in Fingerprint \cup {None}
      /\ UNCHANGED <<corpus, chroma, side, record, cfg, cases, fingerprint, client, ghost>>
  BY DEF IndInv, TypeOK, Record, OneWorker, Working, PCs, Progress, InHand, Building,
         Decide, InitError
<1>2. src \in [Names -> Versions]
  <2>1. DecisionsSource \in Versions
    BY VersionAssumption DEF IndInv, TypeOK, DecisionsSource, Names
  <2>2. \A r \in Repos : thr[t].src[r] \in Versions
    BY <1>1 DEF Decide, Thread, Names
  <2> QED BY <1>1, <2>1, <2>2 DEF Thread, Names
<1>3. /\ thr' \in [Threads -> Thread] /\ Others(t) /\ thr'[t].kept = {}
      /\ \/ thr'[t].pc = "idle" /\ status' = "error" /\ thr'[t].stored = None
         \/ /\ thr'[t].pc \in {"load", "plan"} /\ status' = status
            /\ thr'[t].src = src /\ thr'[t].stored = record.fp
            /\ thr'[t].pc = "load" => record.fp = CorpusFingerprint(src)
  <2> DEFINE at(p) == [thr[t] EXCEPT !.pc = p, !.src = src, !.stored = record.fp]
  <2>1. ASSUME NEW p \in {"load", "plan"}
        PROVE  /\ at(p) \in Thread
               /\ at(p).pc = p /\ at(p).src = src /\ at(p).stored = record.fp
               /\ at(p).kept = {}
    <3> HIDE DEF src
    <3> QED BY <1>1, <1>2 DEF Thread, PCs
  <2>2. ASSUME NEW p \in {"load", "plan"},
               thr' = [thr EXCEPT ![t].pc = p, ![t].src = src, ![t].stored = record.fp]
        PROVE  thr' = [thr EXCEPT ![t] = at(p)]
    <3> HIDE DEF src
    <3> QED BY <1>1, <2>2 DEF Thread
  <2>3. CASE InitError(t)
    BY <1>1, <2>3, FinishFields, IdleThreadFields DEF InitError
  <2>4. CASE \E p \in {"load", "plan"} :
               /\ thr' = [thr EXCEPT ![t].pc = p, ![t].src = src, ![t].stored = record.fp]
               /\ status' = status
               /\ p = "load" => record.fp = CorpusFingerprint(src)
    <3>1. PICK p \in {"load", "plan"} :
               /\ thr' = [thr EXCEPT ![t].pc = p, ![t].src = src, ![t].stored = record.fp]
               /\ status' = status
               /\ p = "load" => record.fp = CorpusFingerprint(src)
      BY <2>4
    <3>2. thr' = [thr EXCEPT ![t] = at(p)]
      BY <3>1, <2>2
    <3> HIDE DEF at, src
    <3> QED BY <1>1, <2>1, <3>1, <3>2 DEF Others
  <2> QED BY <2>3, <2>4 DEF Decide
<1> HIDE DEF src
<1>4. thr[t].pc \in Working
  BY <1>1 DEF Working, PCs
<1>5. TypeOK'
  BY <1>1, <1>3 DEF IndInv, TypeOK
<1>6. DownIsEmpty' /\ OneWorker'
  BY <1>1, <1>3, <1>4, WorkerStep DEF IndInv, OneWorker, Working
<1>7. \A n \in Names : Unstamped(n)' <=> Unstamped(n)
  BY <1>1 DEF Unstamped
<1>8. LegacyClaims'
  BY <1>1, <1>3, <1>4, <1>7, OthersKeep
     DEF IndInv, LegacyClaims, RecordClaims, ThreadClaims, Backfilling
<1>9. Progress'
  BY <1>1, <1>2, <1>3, <1>4, <1>7, OthersKeep
     DEF Progress, Ingested, InHand, Building, CorpusFingerprint
<1>10. StampTruth' /\ CasesOfModel' /\ ServesConfiguredModel'
  BY <1>1, <1>3 DEF IndInv, StampTruth, CasesOfModel, ServesConfiguredModel
<1> QED BY <1>5, <1>6, <1>8, <1>9, <1>10 DEF IndInv

(* While a thread works the cached client, if any, shows the store on disk. *)
LEMMA OpensRealStore ==
  ASSUME IndInv, NEW t \in Threads, thr[t].pc \in Working
  PROVE  /\ status = "indexing" /\ client \in {"none", "disk"} /\ View = chroma
  BY DEF IndInv, OneWorker, View, TypeOK

(* What a load accepts was embedded by the configured model, provided an    *)
(* unstamped collection is only taken where the model is Legacy.            *)
LEMMA LoadedOfModel ==
  ASSUME IndInv, NEW t \in Threads, thr[t].pc \in Working, NEW n \in Names, Loads(n),
         Unstamped(n) => cfg.model = Legacy
  PROVE  Loaded(n) \in Served /\ Loaded(n).by = cfg.model
<1>1. /\ View = chroma /\ chroma[n] \in Collection /\ side[n] \in Versions
      /\ chroma[n] # None
      /\ chroma[n].stamp \in {None, cfg.model}
  BY OpensRealStore DEF IndInv, TypeOK, Loads, Readable, SameModel
<1>2. chroma[n].by = cfg.model
  BY <1>1 DEF IndInv, StampTruth, Unstamped
<1> QED BY <1>1, <1>2 DEF Loaded, Served, Collection

(* A load serves every collection, refuses, or goes on to a rebuild.        *)
LEMMA LoadAllKeeps ==
  ASSUME IndInv, NEW t \in Threads, LoadAll(t)
  PROVE  IndInv'
<1>1. /\ thr \in [Threads -> Thread] /\ thr[t] \in Thread
      /\ thr[t].pc = "load" /\ thr[t].kept = {} /\ thr[t].pc \in Working
      /\ thr[t].src \in [Names -> Versions]
      /\ thr[t].stored = CorpusFingerprint(thr[t].src)
      /\ cfg.model \in Models
      /\ UNCHANGED <<corpus, chroma, side, record, cfg, ghost>>
  BY DEF IndInv, TypeOK, Working, PCs, Progress, Ingested, InHand, Building, LoadAll,
         InitError
<1>2. \A n \in Names : Unstamped(n) => cfg.model = Legacy
  <2>1. thr[t].stored # None /\ thr[t].stored.model = cfg.model
    BY <1>1, NoneAssumption DEF CorpusFingerprint, Fingerprint
  <2> QED BY <2>1 DEF IndInv, LegacyClaims, ThreadClaims
<1>3. client' \in {"none", "disk"}
  BY <1>1, OpensRealStore DEF LoadAll
<1>4. \A n \in Names : Unstamped(n)' <=> Unstamped(n)
  BY <1>1 DEF Unstamped
<1>5. /\ thr' \in [Threads -> Thread] /\ Others(t)
      /\ thr'[t].kept = {} /\ thr'[t].stored \in {None, thr[t].stored}
      /\ \/ /\ thr'[t].pc = "backfill" /\ thr'[t].src = thr[t].src
            /\ status' = "ready" /\ fingerprint' \in Fingerprint
            /\ \A n \in Names : Loads(n)
            /\ cases' = [n \in Names |-> Loaded(n)]
         \/ thr'[t].pc = "idle" /\ status' = "error" /\ UNCHANGED <<cases, fingerprint>>
         \/ /\ thr'[t].pc = "plan" /\ thr'[t].src = thr[t].src
            /\ status' = status /\ UNCHANGED <<cases, fingerprint>>
  <2>1. CASE InitError(t)
    BY <1>1, <2>1, FinishFields, IdleThreadFields DEF InitError
  <2>2. CASE Goto(t, "plan") /\ UNCHANGED process
    BY <1>1, <2>2, GotoFields DEF PCs
  <2>3. CASE /\ \A n \in Names : Loads(n)
             /\ cases' = [n \in Names |-> Loaded(n)]
             /\ fingerprint' = CorpusFingerprint(thr[t].src)
             /\ status' = "ready"
             /\ Goto(t, "backfill")
    <3>1. CorpusFingerprint(thr[t].src) \in Fingerprint
      BY <1>1 DEF CorpusFingerprint, Fingerprint
    <3> QED BY <1>1, <2>3, <3>1, GotoFields DEF PCs
  <2> QED BY <2>1, <2>2, <2>3 DEF LoadAll
<1>6. \/ cases' = cases /\ status' \in {status, "error"}
      \/ \A n \in Names : cases'[n] \in Served /\ cases'[n].by = cfg.model
  BY <1>1, <1>2, <1>5, LoadedOfModel
<1>7. TypeOK'
  <2>1. cases' \in [Names -> Served \cup {None}]
    BY <1>1, <1>2, <1>5, LoadedOfModel DEF IndInv, TypeOK
  <2> QED BY <1>1, <1>3, <1>5, <2>1 DEF IndInv, TypeOK
<1>8. DownIsEmpty' /\ OneWorker'
  BY <1>1, <1>3, <1>5, WorkerStep, OpensRealStore DEF Working
<1>9. LegacyClaims'
  BY <1>1, <1>2, <1>4, <1>5, OthersKeep
     DEF IndInv, LegacyClaims, RecordClaims, ThreadClaims, Backfilling
<1>10. Progress'
  BY <1>1, <1>4, <1>5, OthersKeep DEF Progress, Ingested, InHand, Building
<1>11. None \notin Served
  BY NoneAssumption
<1>12. StampTruth' /\ CasesOfModel' /\ ServesConfiguredModel'
  BY <1>1, <1>5, <1>6, <1>11, OpensRealStore
     DEF IndInv, StampTruth, CasesOfModel, ServesConfiguredModel
<1> QED BY <1>7, <1>8, <1>9, <1>10, <1>12 DEF IndInv

(* What a rebuild keeps passed the same checks as a load.                   *)
LEMMA PlanKeeps ==
  ASSUME IndInv, NEW t \in Threads, Plan(t)
  PROVE  IndInv'
<1> DEFINE kept == {n \in Names : Keeps(t, n)}
<1>1. /\ thr \in [Threads -> Thread] /\ thr[t] \in Thread
      /\ thr[t].pc = "plan" /\ thr[t].kept = {} /\ thr[t].pc \in Working
      /\ thr[t].src \in [Names -> Versions]
      /\ status = "indexing"
      /\ UNCHANGED <<corpus, chroma, side, record, cfg, ghost, fingerprint>>
  BY DEF IndInv, TypeOK, Working, PCs, Progress, Ingested, InHand, Building, OneWorker,
         Plan, InitError
<1>2. ASSUME NEW n \in kept PROVE Unstamped(n) => cfg.model = Legacy
  <2>1. n \in Names /\ n \in Reusable(t, thr[t].src)
    BY DEF Keeps
  <2>2. CASE thr[t].stored = CorpusFingerprint(thr[t].src)
    <3>1. thr[t].stored # None /\ thr[t].stored.model = cfg.model
      BY <1>1, <2>2, NoneAssumption DEF CorpusFingerprint, Fingerprint, IndInv, TypeOK
    <3> QED BY <2>1, <3>1 DEF IndInv, LegacyClaims, ThreadClaims
  <2>3. CASE record.colls[n] = Wanted(thr[t].src)[n]
    <3>1. record.colls[n] # None /\ record.colls[n].model = cfg.model
      BY <1>1, <2>1, <2>3, NoneAssumption DEF Wanted, Want, IndInv, TypeOK
    <3> QED BY <2>1, <3>1 DEF IndInv, LegacyClaims, RecordClaims
  <2>4. CASE thr[t].stored # None /\ thr[t].stored = CorpusFingerprint(WithoutDrop(thr[t].src))
    <3>1. thr[t].stored.model = cfg.model
      BY <2>4 DEF CorpusFingerprint
    <3> QED BY <2>1, <2>4, <3>1 DEF IndInv, LegacyClaims, ThreadClaims
  <2> QED BY <2>1, <2>2, <2>3, <2>4 DEF Reusable
<1>3. \A n \in kept : Loaded(n) \in Served /\ Loaded(n).by = cfg.model
  BY <1>1, <1>2, LoadedOfModel DEF Keeps
<1>4. client' \in {"none", "disk"}
  BY <1>1, OpensRealStore DEF Plan
<1>5. \A n \in Names : Unstamped(n)' <=> Unstamped(n)
  BY <1>1 DEF Unstamped
<1>6. /\ thr' \in [Threads -> Thread] /\ Others(t)
      /\ \/ /\ thr'[t].pc = "idle" /\ thr'[t].kept = {} /\ thr'[t].stored = None
            /\ status' = "error" /\ cases' = cases
         \/ /\ thr'[t].pc = "mark" /\ thr'[t].kept = kept /\ thr'[t].todo = Names \ kept
            /\ thr'[t].src = thr[t].src /\ thr'[t].stored = thr[t].stored
            /\ status' = status
            /\ cases' = [n \in Names |-> IF n \in kept THEN Loaded(n) ELSE None]
  <2>1. CASE InitError(t)
    BY <1>1, <2>1, FinishFields, IdleThreadFields DEF InitError
  <2>2. CASE ~PlanRefuses(t)
    <3> DEFINE x == [thr[t] EXCEPT !.pc = "mark", !.kept = kept, !.todo = Names \ kept]
    <3>1. thr' = [thr EXCEPT ![t] = x]
      BY <1>1, <2>2 DEF Plan, Thread
    <3>2. cases' = [n \in Names |-> IF n \in kept THEN Loaded(n) ELSE None] /\ status' = status
      BY <2>2 DEF Plan
    <3>3. kept \subseteq Names
      OBVIOUS
    <3> HIDE DEF kept
    <3>4. /\ x \in Thread /\ x.pc = "mark" /\ x.kept = kept /\ x.todo = Names \ kept
          /\ x.src = thr[t].src /\ x.stored = thr[t].stored
      BY <1>1, <3>3 DEF Thread, PCs
    <3> HIDE DEF x
    <3> QED BY <1>1, <3>1, <3>2, <3>4, Becomes
  <2> QED BY <2>1, <2>2 DEF Plan
<1>7. kept \subseteq Names
  OBVIOUS
<1> HIDE DEF kept
<1>8. TypeOK'
  <2>1. cases' \in [Names -> Served \cup {None}]
    BY <1>3, <1>6 DEF IndInv, TypeOK
  <2> QED BY <1>1, <1>4, <1>6, <2>1 DEF IndInv, TypeOK
<1>9. DownIsEmpty' /\ OneWorker'
  BY <1>1, <1>4, <1>6, WorkerStep DEF Working
<1>10. LegacyClaims'
  BY <1>1, <1>2, <1>5, <1>6, OthersKeep
     DEF IndInv, LegacyClaims, RecordClaims, ThreadClaims, Backfilling
<1>11. Progress'
  <2>1. Ingested(t)'
    BY <1>1, <1>6 DEF Ingested
  <2>2. InHand(t)'
    BY <1>3, <1>6, <1>7, NoneAssumption DEF InHand, Building
  <2> QED BY <1>1, <1>5, <1>6, <2>1, <2>2, OthersKeep DEF Progress
<1>12. CasesOfModel'
  BY <1>1, <1>3, <1>6 DEF IndInv, CasesOfModel
<1>13. StampTruth' /\ ServesConfiguredModel'
  BY <1>1, <1>6 DEF IndInv, StampTruth, ServesConfiguredModel
<1> QED BY <1>8, <1>9, <1>10, <1>11, <1>12, <1>13 DEF IndInv

(* An emptied record claims nothing.                                        *)
LEMMA TruncateKeeps ==
  ASSUME IndInv, NEW t \in Threads, NEW from, NEW to \in PCs, Truncate(t, from, to),
         \/ from \in {"mark", "record"} /\ to \in {"marking", "recording"}
         \/ from = "next" /\ to = "sealing" /\ thr[t].todo = {}
  PROVE  IndInv'
<1>1. /\ thr \in [Threads -> Thread] /\ thr[t].pc = from
      /\ thr[t].pc \in Working /\ thr[t].pc \in Building
      /\ status = "indexing" /\ client # "unlinked"
      /\ UNCHANGED <<corpus, chroma, side, cfg, status, cases, fingerprint, client, ghost>>
  BY DEF IndInv, TypeOK, Truncate, Working, Building, PCs, OneWorker
<1>2. /\ thr' \in [Threads -> Thread] /\ Others(t) /\ thr'[t].pc = to
      /\ thr'[t].src = thr[t].src /\ thr'[t].stored = thr[t].stored
      /\ thr'[t].kept = thr[t].kept /\ thr'[t].todo = thr[t].todo
  BY <1>1, GotoFields DEF Truncate
<1>3. record' = NoRecord /\ NoRecord \in Record
  BY DEF Truncate, NoRecord, Record
<1>4. \A n \in Names : Unstamped(n)' <=> Unstamped(n)
  BY <1>1 DEF Unstamped
<1>5. TypeOK'
  BY <1>1, <1>2, <1>3 DEF IndInv, TypeOK
<1>6. DownIsEmpty' /\ OneWorker'
  BY <1>1, <1>2, WorkerStep
<1>7. LegacyClaims'
  BY <1>1, <1>2, <1>3, <1>4, OthersKeep
     DEF IndInv, LegacyClaims, RecordClaims, NoRecord, ThreadClaims, Backfilling
<1>8. Progress'
  <2>1. Ingested(t)' /\ InHand(t)'
    BY <1>1, <1>2 DEF IndInv, Progress, Ingested, InHand, Building
  <2> QED BY <1>1, <1>2, <1>4, <2>1, OthersKeep DEF Progress
<1>9. StampTruth' /\ CasesOfModel' /\ ServesConfiguredModel'
  BY <1>1 DEF IndInv, StampTruth, CasesOfModel, ServesConfiguredModel
<1> QED BY <1>5, <1>6, <1>7, <1>8, <1>9 DEF IndInv

(* The record of a rebuild claims only what the thread kept or built.       *)
LEMMA WritePartialRecordKeeps ==
  ASSUME IndInv, NEW t \in Threads, WritePartialRecord(t)
  PROVE  IndInv'
<1>1. /\ thr \in [Threads -> Thread] /\ thr[t] \in Thread /\ cfg.model \in Models
      /\ thr[t].pc \in {"marking", "recording"}
      /\ thr[t].pc \in Working /\ thr[t].pc \in Building
      /\ thr[t].src \in [Names -> Versions]
      /\ status = "indexing" /\ client # "unlinked"
      /\ UNCHANGED <<corpus, chroma, side, cfg, status, cases, fingerprint, client, ghost>>
  BY DEF IndInv, TypeOK, WritePartialRecord, Working, Building, PCs, OneWorker, Progress,
         Ingested
<1>2. /\ thr' \in [Threads -> Thread] /\ Others(t) /\ thr'[t].pc = "next"
      /\ thr'[t].src = thr[t].src /\ thr'[t].stored = thr[t].stored
      /\ thr'[t].kept = thr[t].kept /\ thr'[t].todo = thr[t].todo
  BY <1>1, GotoFields DEF WritePartialRecord, PCs
<1>3. record' \in Record
  BY <1>1 DEF WritePartialRecord, PartialRecord, Wanted, Record, Want
<1>4. \A n \in Names : Unstamped(n)' <=> Unstamped(n)
  BY <1>1 DEF Unstamped
<1>5. TypeOK'
  BY <1>1, <1>2, <1>3 DEF IndInv, TypeOK
<1>6. DownIsEmpty' /\ OneWorker'
  BY <1>1, <1>2, WorkerStep
<1>7. \A n \in Names : Unstamped(n) => RecordClaims(n)'
  <2>1. \A n \in Names : Unstamped(n) /\ n \in thr[t].kept => cfg.model = Legacy
    BY DEF IndInv, LegacyClaims, ThreadClaims
  <2> QED BY <2>1 DEF WritePartialRecord, PartialRecord, Wanted, RecordClaims
<1>8. LegacyClaims'
  BY <1>1, <1>2, <1>4, <1>7, OthersKeep DEF IndInv, LegacyClaims, ThreadClaims, Backfilling
<1>9. Progress'
  <2>1. Ingested(t)' /\ InHand(t)'
    BY <1>1, <1>2 DEF IndInv, Progress, Ingested, InHand, Building
  <2> QED BY <1>1, <1>2, <1>4, <2>1, OthersKeep DEF Progress
<1>10. StampTruth' /\ CasesOfModel' /\ ServesConfiguredModel'
  BY <1>1 DEF IndInv, StampTruth, CasesOfModel, ServesConfiguredModel
<1> QED BY <1>5, <1>6, <1>8, <1>9, <1>10 DEF IndInv

(* A dropped collection is not unstamped.                                   *)
LEMMA DropCollectionKeeps ==
  ASSUME IndInv, NEW t \in Threads, NEW n \in Names, DropCollection(t, n)
  PROVE  IndInv'
<1>1. /\ thr \in [Threads -> Thread] /\ thr[t] \in Thread
      /\ cfg \in [model : Models, policy : Policies, drop : BOOLEAN]
      /\ thr[t].pc \in Working /\ thr[t].pc \in Building
      /\ thr[t].src \in [Names -> Versions]
      /\ status = "indexing" /\ client # "unlinked"
      /\ UNCHANGED <<corpus, side, record, cfg, status, cases, fingerprint, client, ghost>>
  BY DEF IndInv, TypeOK, DropCollection, Working, Building, PCs, OneWorker, Progress,
         Ingested
<1>2. /\ thr' \in [Threads -> Thread] /\ Others(t) /\ thr'[t].pc = "create"
      /\ thr'[t].src = thr[t].src /\ thr'[t].stored = thr[t].stored
      /\ thr'[t].kept = thr[t].kept /\ thr'[t].todo = thr[t].todo
  <2> DEFINE x == [thr[t] EXCEPT !.pc = "create", !.cur = n]
  <2>1. thr' = [thr EXCEPT ![t] = x]
    BY <1>1 DEF DropCollection, Thread
  <2>2. /\ x \in Thread /\ x.pc = "create" /\ x.src = thr[t].src /\ x.stored = thr[t].stored
        /\ x.kept = thr[t].kept /\ x.todo = thr[t].todo
    BY <1>1 DEF Thread, PCs
  <2> HIDE DEF x
  <2> QED BY <1>1, <2>1, <2>2, Becomes
<1>3. \A m \in Names : chroma'[m] = IF m = n THEN None ELSE chroma[m]
  BY DEF DropCollection, IndInv, TypeOK
<1>4. \A m \in Names : Unstamped(m)' => Unstamped(m)
  BY <1>3 DEF Unstamped
<1>5. TypeOK'
  BY <1>1, <1>2 DEF IndInv, TypeOK, DropCollection
<1>6. DownIsEmpty' /\ OneWorker'
  BY <1>1, <1>2, WorkerStep
<1>7. StampTruth'
  BY <1>3 DEF IndInv, StampTruth
<1>8. LegacyClaims'
  BY <1>1, <1>2, <1>4, OthersKeep
     DEF IndInv, LegacyClaims, RecordClaims, ThreadClaims, Backfilling
<1>9. Progress'
  <2>1. Ingested(t)' /\ InHand(t)'
    BY <1>1, <1>2 DEF IndInv, Progress, Ingested, InHand, Building
  <2> QED BY <1>1, <1>2, <1>4, <2>1, OthersKeep DEF Progress
<1>10. CasesOfModel' /\ ServesConfiguredModel'
  BY <1>1 DEF IndInv, CasesOfModel, ServesConfiguredModel
<1> QED BY <1>5, <1>6, <1>7, <1>8, <1>9, <1>10 DEF IndInv

(* A new collection carries the stamp of the model that fills it.           *)
LEMMA CreateCollectionKeeps ==
  ASSUME IndInv, NEW t \in Threads, CreateCollection(t)
  PROVE  IndInv'
<1> DEFINE n == thr[t].cur
           new == [stamp |-> cfg.model, by |-> cfg.model, ver |-> thr[t].src[n], count |-> 0]
<1>1. /\ thr \in [Threads -> Thread] /\ thr[t] \in Thread
      /\ cfg \in [model : Models, policy : Policies, drop : BOOLEAN]
      /\ thr[t].pc \in Working /\ thr[t].pc \in Building
      /\ thr[t].src \in [Names -> Versions]
      /\ status = "indexing" /\ client # "unlinked"
      /\ UNCHANGED <<corpus, side, record, cfg, status, cases, fingerprint, client, ghost>>
  BY DEF IndInv, TypeOK, CreateCollection, Working, Building, PCs, OneWorker, Progress,
         Ingested
<1>2. /\ thr' \in [Threads -> Thread] /\ Others(t) /\ thr'[t].pc = "add"
      /\ thr'[t].src = thr[t].src /\ thr'[t].stored = thr[t].stored
      /\ thr'[t].kept = thr[t].kept /\ thr'[t].todo = thr[t].todo /\ thr'[t].cur = n
  BY <1>1, GotoFields DEF CreateCollection, PCs
<1>3. /\ n \in Names /\ new \in Collection /\ new # None
      /\ new.stamp = cfg.model /\ new.by = cfg.model /\ cfg.model # None
  BY <1>1, NoneAssumption, ModelAssumption DEF Thread, Collection
<1>4. chroma' = [chroma EXCEPT ![n] = new]
  BY DEF CreateCollection
<1> HIDE DEF new, n
<1>5. \A m \in Names : chroma'[m] = IF m = n THEN new ELSE chroma[m]
  BY <1>4 DEF IndInv, TypeOK
<1>6. \A m \in Names : Unstamped(m)' => Unstamped(m)
  BY <1>1, <1>3, <1>5 DEF Unstamped
<1>7. TypeOK'
  BY <1>1, <1>2, <1>3, <1>4 DEF IndInv, TypeOK
<1>8. DownIsEmpty' /\ OneWorker'
  BY <1>1, <1>2, WorkerStep
<1>9. StampTruth'
  BY <1>3, <1>5 DEF IndInv, StampTruth
<1>10. LegacyClaims'
  BY <1>1, <1>2, <1>6, OthersKeep
     DEF IndInv, LegacyClaims, RecordClaims, ThreadClaims, Backfilling
<1>11. Progress'
  <2>1. Ingested(t)' /\ InHand(t)'
    BY <1>1, <1>2, <1>3, <1>5 DEF IndInv, Progress, Ingested, InHand, Building
  <2> QED BY <1>1, <1>2, <1>6, <2>1, OthersKeep DEF Progress
<1>12. CasesOfModel' /\ ServesConfiguredModel'
  BY <1>1 DEF IndInv, CasesOfModel, ServesConfiguredModel
<1> QED BY <1>7, <1>8, <1>9, <1>10, <1>11, <1>12 DEF IndInv

(* A batch is added to the collection the thread created.                   *)
LEMMA AddBatchKeeps ==
  ASSUME IndInv, NEW t \in Threads, AddBatch(t)
  PROVE  IndInv'
<1> DEFINE n == thr[t].cur
           more == [chroma[n] EXCEPT !.count = @ + 1]
<1>1. /\ thr \in [Threads -> Thread] /\ thr[t] \in Thread
      /\ cfg \in [model : Models, policy : Policies, drop : BOOLEAN]
      /\ thr[t].pc \in Working /\ thr[t].pc \in Building
      /\ thr[t].src \in [Names -> Versions]
      /\ status = "indexing" /\ client # "unlinked"
      /\ UNCHANGED <<corpus, side, record, cfg, status, cases, fingerprint, client, ghost>>
  BY DEF IndInv, TypeOK, AddBatch, Working, Building, PCs, OneWorker, Progress, Ingested
<1>2. /\ thr' \in [Threads -> Thread] /\ Others(t) /\ thr'[t].pc \in {"add", "save"}
      /\ thr'[t].src = thr[t].src /\ thr'[t].stored = thr[t].stored
      /\ thr'[t].kept = thr[t].kept /\ thr'[t].todo = thr[t].todo /\ thr'[t].cur = n
  BY <1>1, GotoFields DEF AddBatch, PCs
<1>3. n \in Names /\ chroma[n] \in Collection /\ chroma[n].stamp = cfg.model
  BY <1>1 DEF IndInv, TypeOK, Progress, InHand, AddBatch, Thread
<1>4. /\ more \in Collection /\ more # None
      /\ more.stamp = chroma[n].stamp /\ more.by = chroma[n].by
  BY <1>3, NoneAssumption DEF Collection
<1>5. chroma' = [chroma EXCEPT ![n] = more]
  BY <1>3 DEF AddBatch, IndInv, TypeOK
<1> HIDE DEF more, n
<1>6. \A m \in Names : chroma'[m] = IF m = n THEN more ELSE chroma[m]
  BY <1>5 DEF IndInv, TypeOK
<1>7. cfg.model # None /\ chroma[n] # None
  BY <1>1, <1>3, ModelAssumption, NoneAssumption
<1>8. \A m \in Names : Unstamped(m)' => Unstamped(m)
  BY <1>3, <1>4, <1>6, <1>7 DEF Unstamped
<1>9. TypeOK'
  BY <1>1, <1>2, <1>3, <1>4, <1>5 DEF IndInv, TypeOK
<1>10. DownIsEmpty' /\ OneWorker'
  BY <1>1, <1>2, WorkerStep
<1>11. StampTruth'
  BY <1>3, <1>4, <1>6, <1>7 DEF IndInv, StampTruth
<1>12. LegacyClaims'
  BY <1>1, <1>2, <1>8, OthersKeep
     DEF IndInv, LegacyClaims, RecordClaims, ThreadClaims, Backfilling
<1>13. Progress'
  <2>1. Ingested(t)' /\ InHand(t)'
    BY <1>1, <1>2, <1>3, <1>4, <1>6 DEF IndInv, Progress, Ingested, InHand, Building
  <2> QED BY <1>1, <1>2, <1>8, <2>1, OthersKeep DEF Progress
<1>14. CasesOfModel' /\ ServesConfiguredModel'
  BY <1>1 DEF IndInv, CasesOfModel, ServesConfiguredModel
<1> QED BY <1>9, <1>10, <1>11, <1>12, <1>13, <1>14 DEF IndInv

(* An emptied sidecar changes nothing the invariant speaks of.              *)
LEMMA OpenSidecarKeeps ==
  ASSUME IndInv, NEW t \in Threads, OpenSidecar(t)
  PROVE  IndInv'
<1>1. /\ thr \in [Threads -> Thread] /\ thr[t] \in Thread
      /\ cfg \in [model : Models, policy : Policies, drop : BOOLEAN]
      /\ thr[t].pc \in Working /\ thr[t].pc \in Building
      /\ thr[t].src \in [Names -> Versions]
      /\ status = "indexing" /\ client # "unlinked"
      /\ UNCHANGED <<corpus, chroma, record, cfg, status, cases, fingerprint, client, ghost>>
  BY DEF IndInv, TypeOK, OpenSidecar, Working, Building, PCs, OneWorker, Progress, Ingested
<1>2. /\ thr' \in [Threads -> Thread] /\ Others(t) /\ thr'[t].pc = "saving"
      /\ thr'[t].src = thr[t].src /\ thr'[t].stored = thr[t].stored
      /\ thr'[t].kept = thr[t].kept /\ thr'[t].todo = thr[t].todo
      /\ thr'[t].cur = thr[t].cur
  BY <1>1, GotoFields DEF OpenSidecar, PCs
<1>3. \A m \in Names : Unstamped(m)' <=> Unstamped(m)
  BY <1>1 DEF Unstamped
<1>4. TypeOK'
  BY <1>1, <1>2 DEF IndInv, TypeOK, OpenSidecar
<1>5. DownIsEmpty' /\ OneWorker'
  BY <1>1, <1>2, WorkerStep
<1>6. LegacyClaims'
  BY <1>1, <1>2, <1>3, OthersKeep
     DEF IndInv, LegacyClaims, RecordClaims, ThreadClaims, Backfilling
<1>7. Progress'
  <2>1. Ingested(t)' /\ InHand(t)'
    BY <1>1, <1>2 DEF IndInv, Progress, Ingested, InHand, Building, OpenSidecar
  <2> QED BY <1>1, <1>2, <1>3, <2>1, OthersKeep DEF Progress
<1>8. StampTruth' /\ CasesOfModel' /\ ServesConfiguredModel'
  BY <1>1 DEF IndInv, StampTruth, CasesOfModel, ServesConfiguredModel
<1> QED BY <1>4, <1>5, <1>6, <1>7, <1>8 DEF IndInv

(* The collection just built is held and was embedded by the configured model.*)
LEMMA WriteSidecarKeeps ==
  ASSUME IndInv, NEW t \in Threads, WriteSidecar(t)
  PROVE  IndInv'
<1> DEFINE n == thr[t].cur
           v == thr[t].src[n]
           case == [pages |-> v, vecs |-> v, by |-> cfg.model]
           x == [thr[t] EXCEPT !.pc = IF n = Decisions THEN "next" ELSE "record",
                               !.kept = @ \cup {n}, !.todo = @ \ {n}]
<1>1. /\ thr \in [Threads -> Thread] /\ thr[t] \in Thread
      /\ cfg \in [model : Models, policy : Policies, drop : BOOLEAN]
      /\ thr[t].pc \in Working /\ thr[t].pc \in Building
      /\ thr[t].src \in [Names -> Versions]
      /\ status = "indexing" /\ client # "unlinked"
      /\ UNCHANGED <<corpus, chroma, record, cfg, status, fingerprint, client, ghost>>
  BY DEF IndInv, TypeOK, WriteSidecar, Working, Building, PCs, OneWorker, Progress, Ingested
<1>2. /\ n \in Names /\ v \in Versions /\ case \in Served /\ case # None /\ case.by = cfg.model
      /\ ~Unstamped(n)
  <2>1. n \in Names /\ v \in Versions /\ case \in Served
    BY <1>1 DEF Thread, Served
  <2>2. chroma[n].stamp = cfg.model /\ cfg.model # None
    BY <1>1, ModelAssumption DEF IndInv, Progress, InHand, WriteSidecar
  <2> QED BY <2>1, <2>2, NoneAssumption DEF Unstamped
<1>3. /\ thr' \in [Threads -> Thread] /\ Others(t) /\ thr'[t].pc \in {"next", "record"}
      /\ thr'[t].src = thr[t].src /\ thr'[t].stored = thr[t].stored
      /\ thr'[t].kept = thr[t].kept \cup {n} /\ thr'[t].todo = thr[t].todo \ {n}
  <2>1. thr' = [thr EXCEPT ![t] = x]
    BY <1>1 DEF WriteSidecar, Thread
  <2>2. /\ x \in Thread /\ x.pc \in {"next", "record"} /\ x.src = thr[t].src
        /\ x.stored = thr[t].stored
        /\ x.kept = thr[t].kept \cup {n} /\ x.todo = thr[t].todo \ {n}
    BY <1>1, <1>2 DEF Thread, PCs
  <2> HIDE DEF x
  <2> QED BY <1>1, <2>1, <2>2, Becomes
<1>4. cases' = [cases EXCEPT ![n] = case] /\ side' = [side EXCEPT ![n] = v]
  BY DEF WriteSidecar
<1> HIDE DEF n, v, case, x
<1>5. \A m \in Names : cases'[m] = IF m = n THEN case ELSE cases[m]
  BY <1>4 DEF IndInv, TypeOK
<1>6. \A m \in Names : Unstamped(m)' <=> Unstamped(m)
  BY <1>1 DEF Unstamped
<1>7. TypeOK'
  BY <1>1, <1>2, <1>3, <1>4 DEF IndInv, TypeOK
<1>8. DownIsEmpty' /\ OneWorker'
  BY <1>1, <1>3, WorkerStep
<1>9. LegacyClaims'
  BY <1>1, <1>2, <1>3, <1>6, OthersKeep
     DEF IndInv, LegacyClaims, RecordClaims, ThreadClaims, Backfilling
<1>10. Progress'
  <2>1. Ingested(t)' /\ InHand(t)'
    BY <1>1, <1>2, <1>3, <1>5 DEF IndInv, Progress, Ingested, InHand, Building
  <2> QED BY <1>1, <1>3, <1>6, <2>1, OthersKeep DEF Progress
<1>11. StampTruth' /\ CasesOfModel' /\ ServesConfiguredModel'
  BY <1>1, <1>2, <1>5 DEF IndInv, StampTruth, CasesOfModel, ServesConfiguredModel
<1> QED BY <1>7, <1>8, <1>9, <1>10, <1>11 DEF IndInv

(* The final record is written when every collection is held.               *)
LEMMA SealKeeps ==
  ASSUME IndInv, NEW t \in Threads, Seal(t)
  PROVE  IndInv'
<1>1. /\ thr \in [Threads -> Thread] /\ cfg.model \in Models
      /\ thr[t].pc \in Working /\ thr[t].src \in [Names -> Versions]
      /\ thr[t].kept = Names
      /\ UNCHANGED <<corpus, chroma, side, cfg, cases, client, ghost>>
      /\ status' = "ready" /\ client # "unlinked"
  <2>1. thr[t].kept = Names
    <3>1. thr[t].kept \cup thr[t].todo = Names /\ thr[t].todo = {}
      BY DEF IndInv, Progress, InHand, Seal, Building
    <3> QED BY <3>1
  <2> QED BY <2>1 DEF IndInv, TypeOK, Seal, Working, PCs, OneWorker, Progress, Ingested
<1>2. thr' \in [Threads -> Thread] /\ Others(t) /\ thr'[t] = IdleThread
  BY <1>1, FinishFields DEF Seal
<1>3. record' \in Record /\ fingerprint' \in Fingerprint
  BY <1>1 DEF Seal, FullRecord, Wanted, CorpusFingerprint, Record, Want, Fingerprint
<1>4. \A n \in Names : Unstamped(n)' <=> Unstamped(n)
  BY <1>1 DEF Unstamped
<1>5. TypeOK'
  BY <1>1, <1>2, <1>3 DEF IndInv, TypeOK
<1>6. DownIsEmpty' /\ OneWorker'
  BY <1>1, <1>2, IdleThreadFields, WorkerStep DEF Working
<1>7. \A n \in Names : Unstamped(n) => RecordClaims(n)'
  <2>1. \A n \in Names : Unstamped(n) => cfg.model = Legacy
    BY <1>1 DEF IndInv, LegacyClaims, ThreadClaims
  <2> QED BY <2>1 DEF Seal, FullRecord, CorpusFingerprint, Wanted, RecordClaims
<1>8. LegacyClaims'
  BY <1>1, <1>2, <1>4, <1>7, IdleThreadFields, OthersKeep
     DEF LegacyClaims, ThreadClaims, Backfilling
<1>9. Progress'
  BY <1>1, <1>2, <1>4, IdleThreadFields, OthersKeep DEF Progress, Ingested, InHand, Building
<1>10. \A n \in Names : cases[n] # None /\ cases[n].by = cfg.model
  BY <1>1 DEF IndInv, Progress, InHand, CasesOfModel
<1>11. StampTruth' /\ CasesOfModel' /\ ServesConfiguredModel'
  BY <1>1, <1>10 DEF IndInv, StampTruth, CasesOfModel, ServesConfiguredModel
<1> QED BY <1>5, <1>6, <1>8, <1>9, <1>11 DEF IndInv

(* A step of a thread whose load is already served changes only the record. *)
LEMMA BackfillStep ==
  ASSUME IndInv, NEW t \in Threads, thr[t].pc \in Backfilling,
         NEW p \in Backfilling, Goto(t, p) \/ Finish(t),
         UNCHANGED <<corpus, chroma, side, cfg, status, cases, fingerprint, client, ghost>>,
         record' \in Record,
         \A n \in Names : Unstamped(n) => RecordClaims(n)'
  PROVE  IndInv'
<1>1. /\ thr \in [Threads -> Thread] /\ thr[t].src \in [Names -> Versions]
      /\ thr[t].kept = {} /\ p \in PCs /\ status # "down"
  BY DEF IndInv, TypeOK, Progress, Ingested, InHand, Building, Backfilling, PCs, DownIsEmpty
<1>2. /\ thr' \in [Threads -> Thread] /\ Others(t) /\ thr'[t].kept = {}
      /\ \/ thr'[t].pc = "idle" /\ thr'[t].stored = None
         \/ thr'[t].pc = p /\ thr'[t].src = thr[t].src /\ thr'[t].stored = thr[t].stored
  BY <1>1, GotoFields, FinishFields, IdleThreadFields
<1>3. \A u \in Threads : u # t => thr'[u] = thr[u]
  BY <1>2 DEF Others
<1>4. \A n \in Names : Unstamped(n)' <=> Unstamped(n)
  BY DEF Unstamped
<1>5. TypeOK'
  BY <1>2 DEF IndInv, TypeOK
<1>6. DownIsEmpty' /\ OneWorker'
  BY <1>1, <1>2, <1>3 DEF IndInv, DownIsEmpty, OneWorker, Working, Backfilling
<1>7. ASSUME NEW n \in Names, Unstamped(n), NEW u \in Threads PROVE ThreadClaims(u, n)'
  <2>1. ThreadClaims(u, n) /\ ThreadClaims(t, n)
    BY <1>7 DEF IndInv, LegacyClaims
  <2>2. CASE u = t
    BY <1>2, <2>1, <2>2 DEF ThreadClaims, Backfilling
  <2>3. CASE u # t
    BY <1>3, <2>1, <2>3 DEF ThreadClaims
  <2> QED BY <2>2, <2>3
<1>8. LegacyClaims'
  BY <1>4, <1>7 DEF LegacyClaims
<1>9. ASSUME NEW u \in Threads PROVE Ingested(u)' /\ InHand(u)'
  <2>1. CASE u = t
    BY <1>1, <1>2, <2>1 DEF Ingested, InHand, Building, Backfilling
  <2>2. CASE u # t
    BY <1>3, <2>2 DEF IndInv, Progress, Ingested, InHand, CorpusFingerprint
  <2> QED BY <2>1, <2>2
<1>10. StampTruth' /\ CasesOfModel' /\ ServesConfiguredModel'
  BY DEF IndInv, StampTruth, CasesOfModel, ServesConfiguredModel
<1> QED BY <1>5, <1>6, <1>8, <1>9, <1>10 DEF IndInv, Progress

(* A backfill claims every collection for the model its load matched.       *)
LEMMA BackfillsKeep ==
  ASSUME IndInv, NEW t \in Threads,
         Backfill(t) \/ OpenBackfill(t) \/ WriteBackfill(t) \/ BackfillFails(t)
  PROVE  IndInv'
<1>1. record \in Record /\ \A n \in Names : Unstamped(n) => RecordClaims(n)
  BY DEF IndInv, TypeOK, LegacyClaims
<1>2. CASE Backfill(t)
  BY <1>1, <1>2, BackfillStep DEF Backfill, Backfilling, RecordClaims
<1>3. CASE BackfillFails(t)
  BY <1>1, <1>3, BackfillStep DEF BackfillFails, Backfilling, RecordClaims
<1>4. CASE OpenBackfill(t)
  <2>1. record' = NoRecord /\ NoRecord \in Record
    BY <1>4 DEF OpenBackfill, Truncate, NoRecord, Record
  <2>2. \A n \in Names : RecordClaims(n)'
    BY <2>1 DEF RecordClaims, NoRecord
  <2> QED BY <1>4, <2>1, <2>2, BackfillStep DEF OpenBackfill, Truncate, Backfilling
<1>5. CASE WriteBackfill(t)
  <2>1. cfg.model \in Models /\ thr[t].src \in [Names -> Versions]
    BY <1>5 DEF IndInv, TypeOK, Progress, Ingested, WriteBackfill
  <2>2. record' \in Record
    BY <1>5, <2>1
       DEF WriteBackfill, FullRecord, Wanted, CorpusFingerprint, Record, Want, Fingerprint
  <2>3. \A n \in Names : Unstamped(n) => cfg.model = Legacy
    BY <1>5 DEF IndInv, LegacyClaims, ThreadClaims, WriteBackfill, Backfilling
  <2>4. \A n \in Names : Unstamped(n) => RecordClaims(n)'
    BY <1>5, <2>3 DEF WriteBackfill, FullRecord, CorpusFingerprint, Wanted, RecordClaims
  <2> QED BY <1>5, <2>2, <2>4, BackfillStep DEF WriteBackfill, Backfilling
<1> QED BY <1>2, <1>3, <1>4, <1>5

(* An exception ends the thread under "error".                              *)
LEMMA FailKeeps ==
  ASSUME IndInv, NEW t \in Threads, Fail(t)
  PROVE  IndInv'
<1>1. /\ thr \in [Threads -> Thread] /\ thr[t].pc \in Working
      /\ UNCHANGED <<corpus, chroma, side, record, cfg, cases, fingerprint, client, ghost>>
      /\ status' = "error" /\ client # "unlinked"
  BY DEF IndInv, TypeOK, Fail, InitError, Working, PCs, OneWorker
<1>2. thr' \in [Threads -> Thread] /\ Others(t) /\ thr'[t] = IdleThread
  BY <1>1, FinishFields DEF Fail, InitError
<1>3. \A n \in Names : Unstamped(n)' <=> Unstamped(n)
  BY <1>1 DEF Unstamped
<1>4. TypeOK'
  BY <1>1, <1>2 DEF IndInv, TypeOK
<1>5. DownIsEmpty' /\ OneWorker'
  BY <1>1, <1>2, IdleThreadFields, WorkerStep DEF Working
<1>6. LegacyClaims'
  BY <1>1, <1>2, <1>3, IdleThreadFields, OthersKeep
     DEF IndInv, LegacyClaims, RecordClaims, ThreadClaims, Backfilling
<1>7. Progress'
  BY <1>1, <1>2, <1>3, IdleThreadFields, OthersKeep DEF Progress, Ingested, InHand, Building
<1>8. StampTruth' /\ CasesOfModel' /\ ServesConfiguredModel'
  BY <1>1 DEF IndInv, StampTruth, CasesOfModel, ServesConfiguredModel
<1> QED BY <1>4, <1>5, <1>6, <1>7, <1>8 DEF IndInv

(* A start finds nothing running and nothing held.                          *)
LEMMA BootKeeps ==
  ASSUME IndInv, Boot
  PROVE  IndInv'
<1>1. PICK t \in Threads : thr' = [thr EXCEPT ![t] = StartThread(t)]
  BY DEF Boot
<1>2. /\ thr \in [Threads -> Thread]
      /\ cases = NoCases /\ client = "none"
      /\ \A u \in Threads : thr[u].pc = "idle" /\ thr[u].kept = {}
      /\ UNCHANGED <<corpus, chroma, side, record, cases, fingerprint, client, ghost>>
      /\ status' = "indexing"
      /\ cfg' \in [model : Models, policy : Policies, drop : BOOLEAN]
  BY DEF IndInv, TypeOK, Boot, DownIsEmpty, Progress, InHand, Building
<1>3. /\ thr' \in [Threads -> Thread]
      /\ \A u \in Threads : u # t => thr'[u] = thr[u]
      /\ thr'[t].pc = "gate" /\ thr'[t].stored = None /\ thr'[t].kept = {}
  BY <1>1, <1>2, StartThreadFields, Becomes DEF Others
<1>4. \A n \in Names : Unstamped(n)' <=> Unstamped(n)
  BY <1>2 DEF Unstamped
<1>5. TypeOK'
  BY <1>2, <1>3 DEF IndInv, TypeOK
<1>6. DownIsEmpty' /\ OneWorker'
  BY <1>2, <1>3 DEF DownIsEmpty, OneWorker, Working
<1>7. ASSUME NEW u \in Threads
      PROVE  Ingested(u)' /\ InHand(u)' /\ \A n \in Names : Unstamped(n) => ThreadClaims(u, n)'
  <2>1. CASE u = t
    BY <1>3, <2>1 DEF Ingested, InHand, Building, ThreadClaims, Backfilling
  <2>2. CASE u # t
    BY <1>2, <1>3, <2>2
       DEF IndInv, LegacyClaims, Ingested, InHand, Building, ThreadClaims, Backfilling
  <2> QED BY <2>1, <2>2
<1>8. LegacyClaims'
  BY <1>2, <1>4, <1>7 DEF IndInv, LegacyClaims, RecordClaims
<1>9. Progress'
  BY <1>7 DEF Progress
<1>10. StampTruth' /\ CasesOfModel' /\ ServesConfiguredModel'
  BY <1>2 DEF IndInv, StampTruth, CasesOfModel, ServesConfiguredModel, NoCases
<1> QED BY <1>5, <1>6, <1>8, <1>9, <1>10 DEF IndInv

(* A stop or a kill leaves the disk and nothing else.                       *)
LEMMA StopKeeps ==
  ASSUME IndInv, Stop
  PROVE  IndInv'
<1>1. /\ UNCHANGED <<corpus, chroma, side, record, cfg>>
      /\ cases' = NoCases /\ fingerprint' = None /\ status' = "down" /\ client' = "none"
      /\ ghost' = [n \in Names |-> None]
  BY DEF Stop
<1>2. thr' \in [Threads -> Thread] /\ \A u \in Threads : thr'[u] = IdleThread
  BY IdleThreadType DEF Stop
<1>3. \A n \in Names : Unstamped(n)' <=> Unstamped(n)
  BY <1>1 DEF Unstamped
<1>4. TypeOK'
  BY <1>1, <1>2 DEF IndInv, TypeOK, NoCases
<1>5. DownIsEmpty' /\ OneWorker'
  BY <1>1, <1>2, IdleThreadFields DEF DownIsEmpty, OneWorker, Working
<1>6. LegacyClaims'
  BY <1>1, <1>2, <1>3, IdleThreadFields
     DEF IndInv, LegacyClaims, RecordClaims, ThreadClaims, Backfilling
<1>7. Progress'
  BY <1>2, IdleThreadFields DEF Progress, Ingested, InHand, Building
<1>8. StampTruth' /\ CasesOfModel' /\ ServesConfiguredModel'
  BY <1>1 DEF IndInv, StampTruth, CasesOfModel, ServesConfiguredModel, NoCases
<1> QED BY <1>4, <1>5, <1>6, <1>7, <1>8 DEF IndInv

(* A reindex starts a thread where none works, on a fresh client.           *)
LEMMA RequestReindexKeeps ==
  ASSUME IndInv, NEW t \in Threads, RequestReindex(t)
  PROVE  IndInv'
<1>1. /\ thr \in [Threads -> Thread]
      /\ UNCHANGED <<corpus, chroma, side, record, cfg>>
      /\ cases' = NoCases /\ fingerprint' = None /\ status' = "indexing" /\ client' = "none"
      /\ ghost' = [n \in Names |-> None]
      /\ thr' = [thr EXCEPT ![t] = StartThread(t)]
  BY DEF IndInv, TypeOK, RequestReindex, Evict
<1>2. /\ thr' \in [Threads -> Thread]
      /\ \A u \in Threads : u # t => thr'[u] = thr[u]
      /\ thr'[t].pc = "gate" /\ thr'[t].stored = None /\ thr'[t].kept = {}
  BY <1>1, StartThreadFields, Becomes DEF Others
<1>3. \A u \in Threads : thr[u].pc \notin Working /\ thr[u].pc \notin Building /\ thr[u].kept = {}
  BY DEF IndInv, TypeOK, OneWorker, RequestReindex, Progress, InHand, Working, Building, PCs
<1>4. \A n \in Names : Unstamped(n)' <=> Unstamped(n)
  BY <1>1 DEF Unstamped
<1>5. TypeOK'
  BY <1>1, <1>2 DEF IndInv, TypeOK, NoCases
<1>6. DownIsEmpty' /\ OneWorker'
  BY <1>1, <1>2, <1>3 DEF DownIsEmpty, OneWorker
<1>7. ASSUME NEW u \in Threads
      PROVE  Ingested(u)' /\ InHand(u)' /\ \A n \in Names : Unstamped(n) => ThreadClaims(u, n)'
  <2>1. CASE u = t
    BY <1>2, <2>1 DEF Ingested, InHand, Building, ThreadClaims, Backfilling
  <2>2. CASE u # t
    <3>1. thr'[u] = thr[u] /\ Ingested(u) /\ \A n \in Names : Unstamped(n) => ThreadClaims(u, n)
      BY <1>2, <2>2 DEF IndInv, Progress, LegacyClaims
    <3> QED BY <1>1, <1>3, <3>1 DEF Ingested, InHand, Building, ThreadClaims, CorpusFingerprint
  <2> QED BY <2>1, <2>2
<1>8. LegacyClaims'
  BY <1>1, <1>4, <1>7 DEF IndInv, LegacyClaims, RecordClaims
<1>9. Progress'
  BY <1>7 DEF Progress
<1>10. StampTruth' /\ CasesOfModel' /\ ServesConfiguredModel'
  BY <1>1 DEF IndInv, StampTruth, CasesOfModel, ServesConfiguredModel, NoCases
<1> QED BY <1>5, <1>6, <1>8, <1>9, <1>10 DEF IndInv

(* A push changes no store.                                                 *)
LEMMA PushKeeps ==
  ASSUME IndInv, NEW n \in Names, NEW v \in Versions \ {Synth}, Push(n, v)
  PROVE  IndInv'
<1>1. /\ UNCHANGED <<chroma, side, record, cfg, status, cases, fingerprint, client, ghost, thr>>
      /\ corpus' = [corpus EXCEPT ![n] = v]
  BY DEF Push
<1>2. TypeOK'
  BY <1>1 DEF IndInv, TypeOK
<1>3. DownIsEmpty' /\ OneWorker' /\ StampTruth' /\ CasesOfModel' /\ ServesConfiguredModel'
  BY <1>1
     DEF IndInv, DownIsEmpty, OneWorker, StampTruth, CasesOfModel, ServesConfiguredModel
<1>4. LegacyClaims'
  BY <1>1 DEF IndInv, LegacyClaims, Unstamped, RecordClaims, ThreadClaims
<1>5. Progress'
  BY <1>1 DEF IndInv, Progress, Ingested, InHand, CorpusFingerprint
<1> QED BY <1>2, <1>3, <1>4, <1>5 DEF IndInv

(* Removing chroma/ while nothing is indexed leaves no stamp to be false.   *)
LEMMA WipeKeeps ==
  ASSUME IndInv, Wipe
  PROVE  IndInv'
<1>1. /\ UNCHANGED <<corpus, side, record, cfg, status, cases, fingerprint, thr>>
      /\ chroma' = [n \in Names |-> None]
      /\ status # "indexing"
      /\ \/ client = "disk" /\ client' = "unlinked" /\ ghost' = chroma
         \/ UNCHANGED <<client, ghost>>
  BY DEF Wipe
<1>2. TypeOK'
  BY <1>1 DEF IndInv, TypeOK
<1>3. DownIsEmpty' /\ OneWorker'
  BY <1>1 DEF IndInv, DownIsEmpty, OneWorker
<1>4. StampTruth' /\ CasesOfModel' /\ ServesConfiguredModel' /\ LegacyClaims'
  BY <1>1
     DEF IndInv, StampTruth, CasesOfModel, ServesConfiguredModel, LegacyClaims, Unstamped
<1>5. \A t \in Threads : thr[t].pc \notin {"add", "save", "saving"}
  BY <1>1 DEF IndInv, OneWorker, Working, PCs
<1>6. Progress'
  BY <1>1, <1>5 DEF IndInv, Progress, Ingested, InHand, CorpusFingerprint
<1> QED BY <1>2, <1>3, <1>4, <1>6 DEF IndInv

(* A copied store is stamped by the model that embedded it.                 *)
LEMMA ForeignCopyKeeps ==
  ASSUME IndInv, NEW m \in Models, ForeignCopy(m)
  PROVE  IndInv'
<1>1. /\ UNCHANGED <<corpus, side, record, cfg, status, cases, fingerprint, client, ghost, thr>>
      /\ status = "down"
  BY DEF ForeignCopy
<1>2. ASSUME NEW n \in Names
      PROVE  /\ chroma'[n] \in Collection \cup {None}
             /\ chroma'[n] # None => chroma'[n].stamp = m /\ chroma'[n].by = m
  <2>1. CASE chroma[n] = None
    BY <2>1 DEF ForeignCopy
  <2>2. CASE chroma[n] # None
    <3>1. chroma[n] \in Collection
      BY <2>2 DEF IndInv, TypeOK
    <3>2. chroma'[n] = [chroma[n] EXCEPT !.stamp = m, !.by = m]
      BY <2>2 DEF ForeignCopy
    <3> QED BY <3>1, <3>2 DEF Collection
  <2> QED BY <2>1, <2>2
<1>3. chroma' \in [Names -> Collection \cup {None}]
  BY <1>2 DEF ForeignCopy
<1>4. m # None
  BY ModelAssumption
<1>5. \A n \in Names : ~Unstamped(n)'
  BY <1>2, <1>4 DEF Unstamped
<1>6. TypeOK'
  BY <1>1, <1>3 DEF IndInv, TypeOK
<1>7. DownIsEmpty' /\ OneWorker' /\ CasesOfModel' /\ ServesConfiguredModel'
  BY <1>1 DEF IndInv, DownIsEmpty, OneWorker, CasesOfModel, ServesConfiguredModel
<1>8. StampTruth'
  BY <1>2, <1>4 DEF StampTruth
<1>9. LegacyClaims'
  BY <1>5 DEF LegacyClaims
<1>10. Progress'
  <2>1. \A t \in Threads : thr[t].pc = "idle"
    BY <1>1 DEF IndInv, DownIsEmpty
  <2> QED BY <1>1, <2>1 DEF IndInv, Progress, Ingested, InHand, Building
<1> QED BY <1>6, <1>7, <1>8, <1>9, <1>10 DEF IndInv

(* Every store a start may find satisfies the invariant.                    *)
LEMMA InitHolds == Init => IndInv
<1> SUFFICES ASSUME Init PROVE IndInv
  OBVIOUS
<1>1. /\ status = "down" /\ cases = NoCases /\ client = "none" /\ fingerprint = None
      /\ ghost = [n \in Names |-> None]
      /\ cfg = [model |-> Legacy, policy |-> "if-stale", drop |-> FALSE]
      /\ corpus \in [Names -> Versions \ {Synth}]
  BY DEF Init
<1>2. thr \in [Threads -> Thread] /\ \A t \in Threads : thr[t] = IdleThread
  BY IdleThreadType DEF Init
<1> DEFINE GoodStore ==
             /\ chroma \in [Names -> Collection \cup {None}]
             /\ side \in [Names -> Versions \cup {None}]
             /\ record \in Record
             /\ StampTruth /\ \A n \in Names : Unstamped(n) => RecordClaims(n)
<1>3. GoodStore
  <2>1. CASE FreshStore
    BY <2>1 DEF FreshStore, NoRecord, Record, StampTruth, Unstamped
  <2>2. ASSUME NEW m \in Models, NEW stamp \in {None, m}, NEW id \in {None, m},
               stamp = None => m = Legacy, OldStore(m, stamp, id)
        PROVE  GoodStore
    <3> DEFINE src == WithoutDrop(corpus)
    <3>1. src \in [Names -> Versions]
      BY <1>1, VersionAssumption DEF WithoutDrop, Names
    <3>2. \A v \in Versions : /\ Built(v, m, stamp) \in Collection
                               /\ Built(v, m, stamp).stamp = stamp
                               /\ Built(v, m, stamp).by = m
      BY SizeAssumption DEF Built, Collection
    <3>3. /\ chroma = [n \in Names |-> Built(src[n], m, stamp)]
          /\ side = src
          /\ record = [id |-> id, fp |-> [src |-> src, model |-> m],
                       colls |-> [n \in Names |-> None]]
      BY <2>2 DEF OldStore
    <3> HIDE DEF src
    <3>4. chroma \in [Names -> Collection \cup {None}] /\ side \in [Names -> Versions \cup {None}]
      BY <3>1, <3>2, <3>3
    <3>5. record \in Record
      BY <3>1, <3>3 DEF Record, Fingerprint
    <3>6. m # None
      BY ModelAssumption
    <3>7. StampTruth /\ \A n \in Names : Unstamped(n) => RecordClaims(n)
      BY <2>2, <3>1, <3>2, <3>3, <3>6 DEF StampTruth, Unstamped, RecordClaims
    <3> QED BY <3>4, <3>5, <3>7
  <2>3. CASE OldStore(Legacy, None, None)
    BY <2>2, <2>3, ModelAssumption
  <2>4. CASE \E m \in Models : OldStore(m, m, m)
    <3> HIDE DEF GoodStore
    <3>1. PICK m \in Models : OldStore(m, m, m)
      BY <2>4
    <3>2. m # None
      BY ModelAssumption
    <3> QED BY <2>2, <3>1, <3>2
  <2> QED BY <2>1, <2>3, <2>4 DEF Init
<1>4. TypeOK
  BY <1>1, <1>2, <1>3, ModelAssumption DEF TypeOK, Policies, NoCases
<1>5. DownIsEmpty /\ OneWorker
  BY <1>1, <1>2, IdleThreadFields DEF DownIsEmpty, OneWorker, Working
<1>6. LegacyClaims
  BY <1>2, <1>3, IdleThreadFields DEF LegacyClaims, ThreadClaims, Backfilling
<1>7. Progress
  BY <1>2, IdleThreadFields DEF Progress, Ingested, InHand, Building
<1>8. CasesOfModel /\ ServesConfiguredModel
  BY <1>1 DEF CasesOfModel, ServesConfiguredModel, NoCases
<1> QED BY <1>3, <1>4, <1>5, <1>6, <1>7, <1>8 DEF IndInv

(* Every step preserves the invariant.                                      *)
LEMMA StepKeeps == IndInv /\ [Next]_vars => IndInv'
<1> SUFFICES ASSUME IndInv, [Next]_vars PROVE IndInv'
  OBVIOUS
<1>1. ASSUME NEW t \in Threads, ThreadStep(t) PROVE IndInv'
  <2>1. CASE OpenRecord(t) \/ OpenSeal(t)
    BY <2>1, TruncateKeeps DEF OpenRecord, OpenSeal, PCs
  <2> QED
    BY <1>1, <2>1, CheckIdentityKeeps, IngestKeeps, DecideKeeps, LoadAllKeeps, PlanKeeps,
       WritePartialRecordKeeps, DropCollectionKeeps, CreateCollectionKeeps, AddBatchKeeps,
       OpenSidecarKeeps, WriteSidecarKeeps, SealKeeps, BackfillsKeep
    DEF ThreadStep
<1>2. CASE UNCHANGED vars
  <2>1. /\ TypeOK' /\ DownIsEmpty' /\ OneWorker' /\ StampTruth'
        /\ CasesOfModel' /\ ServesConfiguredModel'
    BY <1>2
       DEF vars, IndInv, TypeOK, DownIsEmpty, OneWorker, StampTruth, CasesOfModel,
           ServesConfiguredModel
  <2>2. LegacyClaims' /\ Progress'
    BY <1>2 DEF vars, IndInv, LegacyClaims, Unstamped, RecordClaims, ThreadClaims,
       Progress, Ingested, InHand, CorpusFingerprint
  <2> QED BY <2>1, <2>2 DEF IndInv
<1> QED
  BY <1>1, <1>2, BootKeeps, StopKeeps, RequestReindexKeeps, BackfillsKeep, FailKeeps,
     PushKeeps, WipeKeeps, ForeignCopyKeeps
  DEF Next

(* The invariant holds in every reachable state: at most one thread changes *)
(* the store of state.py at a time, stamps are true, and no record, thread or*)
(* backfill claims an unstamped collection for a model other than Legacy.   *)
THEOREM Inductive == Spec => []IndInv
  BY InitHolds, StepKeeps, PTL DEF Spec

(* Type correctness of the start-up protocol of state.py.                   *)
THEOREM TypeCorrect == Spec => []TypeOK
<1>1. IndInv => TypeOK
  BY DEF IndInv
<1> QED BY <1>1, Inductive, PTL

(* Vectors of one model are never served under another (state.py: "never    *)
(* rebuilt over, never served"): every collection behind a ready AppState was*)
(* embedded by the configured model, for every number of init threads, kills,*)
(* re-pins, reindexes and copied stores.                                    *)
THEOREM NeverAnotherModel == Spec => []ServesConfiguredModel
<1>1. IndInv => ServesConfiguredModel
  BY DEF IndInv
<1> QED BY <1>1, Inductive, PTL

-----------------------------------------------------------------------------
(* OtherModelKept.                                                         *)

PastGate  == \E t \in Threads : thr[t].pc \notin {"idle", "gate"}
OwnStore  == cfg.policy = "always" \/ StoreIdentity \in {None, cfg.model}

(* Behind the identity gate the record is never another model's.           *)
GatePassed == PastGate => OwnStore

(* A record written by a thread behind the gate names the configured model,*)
(* or nothing.                                                             *)
LEMMA OwnRecord ==
  ASSUME cfg' = cfg,
         \/ record' = NoRecord
         \/ record'.id = cfg.model /\ cfg.model \in Models
  PROVE  OwnStore'
  BY ModelAssumption DEF OwnStore, StoreIdentity, NoRecord

(* Only a thread behind the gate writes the record.                        *)
LEMMA WritersPastGate ==
  ASSUME IndInv, NEW t \in Threads, ThreadStep(t), ~CheckIdentity(t)
  PROVE  PastGate /\ cfg' = cfg /\ (record' = record \/ OwnStore')
<1>1. cfg.model \in Models
  BY DEF IndInv, TypeOK
<1>2. CASE \/ \E r \in Repos : Ingest(t, r)
           \/ Decide(t) \/ LoadAll(t) \/ Plan(t)
  BY <1>2 DEF Ingest, Decide, LoadAll, Plan, InitError, PastGate
<1>3. CASE \/ \E n \in Names : DropCollection(t, n)
           \/ CreateCollection(t) \/ AddBatch(t) \/ OpenSidecar(t) \/ WriteSidecar(t)
           \/ Backfill(t)
  BY <1>3 DEF DropCollection, CreateCollection, AddBatch, OpenSidecar, WriteSidecar,
              Backfill, PastGate
<1>4. CASE OpenRecord(t) \/ OpenSeal(t) \/ OpenBackfill(t)
  BY <1>4, OwnRecord DEF OpenRecord, OpenSeal, OpenBackfill, Truncate, PastGate
<1>5. CASE WritePartialRecord(t) \/ Seal(t) \/ WriteBackfill(t)
  BY <1>1, <1>5, OwnRecord
  DEF WritePartialRecord, PartialRecord, Seal, WriteBackfill, FullRecord, PastGate
<1> QED BY <1>2, <1>3, <1>4, <1>5 DEF ThreadStep

(* Every step keeps GatePassed, and none writes over another model's       *)
(* record.                                                                 *)
LEMMA GateStep ==
  ASSUME IndInv, GatePassed, [Next]_vars
  PROVE  GatePassed' /\ (record' # record => OwnStore)
<1>1. thr \in [Threads -> Thread]
  BY DEF IndInv, TypeOK
<1>2. ASSUME NEW t \in Threads, CheckIdentity(t) PROVE GatePassed' /\ record' = record
  <2>1. UNCHANGED <<record, cfg>>
    BY <1>2 DEF CheckIdentity, InitError
  <2>2. CASE GateRefuses
    <3>1. Others(t) /\ thr'[t].pc = "idle"
      BY <1>1, <1>2, <2>2, FinishFields, IdleThreadFields DEF CheckIdentity, InitError
    <3> QED BY <2>1, <3>1 DEF GatePassed, PastGate, OwnStore, StoreIdentity, Others
  <2>3. CASE ~GateRefuses
    BY <2>1, <2>3 DEF GateRefuses, GatePassed, OwnStore, StoreIdentity
  <2> QED BY <2>1, <2>2, <2>3
<1>3. ASSUME NEW t \in Threads, ThreadStep(t), ~CheckIdentity(t)
      PROVE  GatePassed' /\ (record' # record => OwnStore)
  <2>1. PastGate /\ cfg' = cfg /\ (record' = record \/ OwnStore')
    BY <1>3, WritersPastGate
  <2> QED BY <2>1 DEF GatePassed, OwnStore, StoreIdentity
<1>4. ASSUME NEW t \in Threads, BackfillFails(t) \/ Fail(t)
      PROVE  GatePassed' /\ record' = record
  BY <1>4 DEF BackfillFails, Fail, InitError, PCs, GatePassed, PastGate, OwnStore, StoreIdentity
<1>5. CASE Boot
  <2>1. PICK t \in Threads : thr' = [thr EXCEPT ![t] = StartThread(t)]
    BY <1>5 DEF Boot
  <2>2. \A u \in Threads : thr[u].pc = "idle"
    BY <1>5 DEF IndInv, DownIsEmpty, Boot
  <2>3. ~PastGate'
    BY <1>1, <2>1, <2>2, StartThreadFields DEF PastGate
  <2> QED BY <1>5, <2>3 DEF Boot, GatePassed
<1>6. CASE Stop
  <2>1. ~PastGate'
    BY <1>6, IdleThreadFields DEF Stop, PastGate
  <2> QED BY <1>6, <2>1 DEF Stop, GatePassed
<1>7. ASSUME NEW t \in Threads, RequestReindex(t) PROVE GatePassed' /\ record' = record
  <2>1. UNCHANGED <<record, cfg>> /\ thr' = [thr EXCEPT ![t] = StartThread(t)]
    BY <1>7 DEF RequestReindex
  <2>2. PastGate' => PastGate
    BY <1>1, <2>1, StartThreadFields DEF PastGate
  <2> QED BY <2>1, <2>2 DEF GatePassed, OwnStore, StoreIdentity
<1>8. CASE \/ \E n \in Names, v \in Versions \ {Synth} : Push(n, v)
           \/ \E m \in Models : ForeignCopy(m)
           \/ Wipe
           \/ UNCHANGED vars
  <2>1. UNCHANGED <<record, cfg, thr>>
    BY <1>8 DEF Push, Wipe, ForeignCopy, vars
  <2> QED BY <2>1 DEF GatePassed, PastGate, OwnStore, StoreIdentity
<1> QED BY <1>2, <1>3, <1>4, <1>5, <1>6, <1>7, <1>8 DEF Next

(* A store whose record names another model is never written over except   *)
(* under index.rebuild "always" (_check_store_identity), by however many   *)
(* threads, starts and kills.                                              *)
THEOREM NeverWrittenOver == Spec => OtherModelKept
<1>1. Init => GatePassed
  BY IdleThreadFields DEF Init, GatePassed, PastGate
<1>2. IndInv /\ GatePassed /\ [Next]_vars => GatePassed'
  BY GateStep
<1>3. IndInv /\ GatePassed /\ [Next]_vars =>
        [record' # record => cfg.policy = "always" \/ StoreIdentity \in {None, cfg.model}]_vars
  BY GateStep DEF OwnStore
<1> QED BY <1>1, <1>2, <1>3, Inductive, PTL DEF Spec, OtherModelKept

-----------------------------------------------------------------------------
(***************************************************************************)
(* A store that is killed, started again and handed other corpora.         *)
(* DiskInv of IndexStore is inductive for any number of init threads and   *)
(* gives ReadyIsOnDisk; StoreInv is inductive when one init thread runs at *)
(* a time and gives ServesWhatItIngested, MixedIsUnrecorded and            *)
(* LandedIsRecorded.  The restriction is the one the code needs: the run   *)
(* index_interrupted shows two init threads breaking it.                   *)
(*                                                                         *)
(* Only a thread that builds holds anything, and only its own steps change *)
(* what it holds (BuildingStep), so each step of a rebuild has a lemma for *)
(* what it does to the thread that takes it, and the rest is done once.    *)
(***************************************************************************)

(* What a step that changes only the position of a thread leaves of it.    *)
Moves(t, p) == /\ thr'[t].pc = p
               /\ thr'[t].src = thr[t].src
               /\ thr'[t].stored = thr[t].stored
               /\ thr'[t].kept = thr[t].kept
               /\ thr'[t].todo = thr[t].todo
               /\ thr'[t].cur = thr[t].cur

(* A jump moves the thread.                                                *)
LEMMA GotoMoves ==
  ASSUME IndInv, NEW t \in Threads, NEW p \in PCs, Goto(t, p)
  PROVE  Moves(t, p)
<1>1. thr \in [Threads -> Thread]
  BY DEF IndInv, TypeOK
<1> QED BY <1>1, GotoFields DEF Moves

(* A thread that builds works alone, on the real store, with its versions  *)
(* chosen.                                                                 *)
LEMMA BuilderFacts ==
  ASSUME IndInv, NEW t \in Threads, thr[t].pc \in Building
  PROVE  /\ thr \in [Threads -> Thread]
         /\ thr[t].pc \in Working
         /\ thr[t].kept \subseteq Names /\ thr[t].todo \subseteq Names
         /\ thr[t].kept \cup thr[t].todo = Names
         /\ thr[t].cur \in Names
         /\ thr[t].src \in [Names -> Versions]
         /\ status = "indexing" /\ View = chroma
         /\ cfg.model \in Models /\ cfg.model # None
<1>1. thr \in [Threads -> Thread] /\ thr[t] \in Thread /\ cfg.model \in Models
  BY DEF IndInv, TypeOK
<1>2. thr[t].pc \in Working
  BY DEF Building, Working, PCs
<1>3. thr[t].kept \cup thr[t].todo = Names /\ thr[t].src \in [Names -> Versions]
  BY DEF IndInv, Progress, InHand, Ingested, Building
<1>4. status = "indexing" /\ View = chroma
  BY <1>2, OpensRealStore
<1> QED BY <1>1, <1>2, <1>3, <1>4, ModelAssumption DEF Thread

(* A thread that does not build holds nothing.                             *)
LEMMA HoldsNothing ==
  ASSUME Progress', NEW t \in Threads, thr'[t].pc \notin Building
  PROVE  HeldIsOnDisk(t)' /\ RebuildTruth(t)'
<1>1. thr'[t].kept = {}
  BY DEF Progress, InHand
<1>2. thr'[t].pc \notin Filling \cup {"record", "next"}
  BY DEF Filling, Building
<1> QED BY <1>1, <1>2 DEF HeldIsOnDisk, RebuildTruth, Rebuilding, Filling

(* A step of a thread that is not backfilling is a step of a working        *)
(* thread, and leaves the other threads alone.                             *)
LEMMA WorkingStep ==
  ASSUME IndInv, NEW t \in Threads, ThreadStep(t),
         ~Backfill(t), ~OpenBackfill(t), ~WriteBackfill(t)
  PROVE  thr[t].pc \in Working /\ Others(t)
<1>1. thr[t].pc \in Working
  BY DEF ThreadStep, CheckIdentity, Ingest, Decide, LoadAll, Plan, OpenRecord, OpenSeal,
         Truncate, WritePartialRecord, DropCollection, CreateCollection, AddBatch,
         OpenSidecar, WriteSidecar, Seal, Working, PCs
<1>2. \A u \in Threads \ {t} : thr'[u] = thr[u]
  <2>1. thr \in [Threads -> Thread]
    BY DEF IndInv, TypeOK
  <2> QED
  BY <2>1 DEF ThreadStep, CheckIdentity, Ingest, Decide, LoadAll, Plan, OpenRecord, OpenSeal,
         Truncate, WritePartialRecord, DropCollection, CreateCollection, AddBatch,
         OpenSidecar, WriteSidecar, Seal, Goto, Finish, InitError
<1> QED BY <1>1, <1>2 DEF Others

(* While a thread builds, what it holds, the disk and the configuration    *)
(* are changed by its own steps alone.                                     *)
LEMMA BuildingStep ==
  ASSUME IndInv, [Next]_vars, NEW u \in Threads, thr'[u].pc \in Building
  PROVE  \/ Plan(u) /\ ~InitError(u)
         \/ OpenRecord(u) \/ WritePartialRecord(u)
         \/ \E n \in Names : DropCollection(u, n)
         \/ CreateCollection(u) \/ AddBatch(u) \/ OpenSidecar(u) \/ WriteSidecar(u)
         \/ OpenSeal(u)
         \/ /\ thr'[u] = thr[u]
            /\ UNCHANGED <<chroma, side, cases, cfg>>
            /\ OneThread => UNCHANGED record
<1> DEFINE Same == /\ thr'[u] = thr[u]
                   /\ UNCHANGED <<chroma, side, cases, cfg>>
                   /\ OneThread => UNCHANGED record
<1>0. thr \in [Threads -> Thread]
  BY DEF IndInv, TypeOK
<1>f. ASSUME NEW t \in Threads, Finish(t), u # t PROVE thr'[u] = thr[u]
  BY <1>0, <1>f, FinishFields DEF Others
<1>g. ASSUME NEW t \in Threads, NEW p \in PCs, Goto(t, p), u # t PROVE thr'[u] = thr[u]
  BY <1>0, <1>g, GotoFields DEF Others
<1>i. ASSUME NEW t \in Threads, Finish(t) PROVE u # t
  BY <1>0, <1>i, FinishFields, IdleThreadFields DEF Building
<1>1. ASSUME NEW t \in Threads, t # u, thr'[u] = thr[u] PROVE thr[t].pc \notin Working
  BY <1>1 DEF IndInv, OneWorker, Building, Working, PCs
<1>2. ASSUME NEW t \in Threads, BackfillFails(t) \/ Fail(t) PROVE Same
  <2>1. Finish(t) /\ UNCHANGED <<chroma, side, cases, cfg, record>>
    BY <1>2 DEF BackfillFails, Fail, InitError
  <2> QED BY <2>1, <1>i, <1>f
<1>3. ASSUME NEW t \in Threads, Backfill(t) \/ OpenBackfill(t) \/ WriteBackfill(t) PROVE Same
  <2>1. /\ UNCHANGED <<chroma, side, cases, cfg>>
        /\ Finish(t) \/ Goto(t, "backwrite") \/ Goto(t, "backwriting")
    BY <1>3 DEF Backfill, OpenBackfill, WriteBackfill, Truncate
  <2>2. u # t
    BY <2>1, <1>i, <1>0, GotoFields DEF Building, PCs
  <2> QED BY <2>1, <2>2, <1>f, <1>g DEF OneThread, PCs
<1>4. CASE Boot
  <2>1. PICK t \in Threads : thr' = [thr EXCEPT ![t] = StartThread(t)]
    BY <1>4 DEF Boot
  <2>2. \A v \in Threads : thr[v].pc = "idle"
    BY <1>4 DEF IndInv, DownIsEmpty, Boot
  <2> QED BY <1>0, <2>1, <2>2, StartThreadFields DEF Building
<1>5. CASE Stop
  BY <1>5, IdleThreadFields DEF Stop, Building
<1>6. ASSUME NEW t \in Threads, RequestReindex(t) PROVE Same
  <2>1. status # "indexing" /\ thr' = [thr EXCEPT ![t] = StartThread(t)]
    BY <1>6 DEF RequestReindex
  <2>2. thr[u].pc \notin Building
    BY <2>1 DEF IndInv, OneWorker, Building, Working, PCs
  <2> QED BY <1>0, <2>1, <2>2, StartThreadFields DEF Building
<1>7. CASE Wipe \/ \E m \in Models : ForeignCopy(m)
  <2>1. status # "indexing" /\ thr' = thr
    BY <1>7 DEF Wipe, ForeignCopy
  <2> QED BY <2>1 DEF IndInv, OneWorker, Building, Working, PCs
<1>8. CASE UNCHANGED vars \/ \E n \in Names, v \in Versions \ {Synth} : Push(n, v)
  <2>1. UNCHANGED <<thr, chroma, side, cases, cfg, record>>
    <3>1. CASE UNCHANGED vars
      BY <3>1 DEF vars
    <3>2. ASSUME NEW n \in Names, NEW v \in Versions, Push(n, v)
          PROVE  UNCHANGED <<thr, chroma, side, cases, cfg, record>>
      BY <3>2 DEF Push
    <3> QED BY <1>8, <3>1, <3>2
  <2> QED BY <2>1
<1>9. ASSUME NEW t \in Threads, ThreadStep(t), ~Backfill(t), ~OpenBackfill(t), ~WriteBackfill(t)
      PROVE  t = u /\ ~Finish(t) /\ ThreadStep(u)
  <2>1. thr[t].pc \in Working /\ Others(t)
    BY <1>9, WorkingStep
  <2>2. t = u
    BY <1>0, <2>1, <1>1 DEF Others
  <2>3. ~Finish(t)
    BY <2>2, <1>i
  <2> QED BY <1>9, <2>2, <2>3
<1>10. CASE ThreadStep(u) /\ ~Finish(u) /\ ~Backfill(u) /\ ~OpenBackfill(u) /\ ~WriteBackfill(u)
  <2>1. ASSUME CheckIdentity(u) \/ (\E r \in Repos : Ingest(u, r)) \/ Decide(u) \/ LoadAll(u)
        PROVE  FALSE
    <3>1. thr[u].pc \in {"gate", "ingest", "load"}
      BY <2>1 DEF CheckIdentity, Ingest, Decide, LoadAll
    <3>2. thr'[u].pc \in {"ingest", "load", "plan", "backfill"} \/ Finish(u)
      BY <2>1, <3>1, <1>0 DEF CheckIdentity, Ingest, Decide, LoadAll, InitError, Goto, Thread
    <3> QED BY <1>10, <3>2 DEF Building
  <2>2. ~Seal(u) /\ ~InitError(u)
    BY <1>10 DEF Seal, InitError
  <2> QED BY <1>10, <2>1, <2>2 DEF ThreadStep
<1> HIDE DEF Same
<1>11. CASE Same
  BY <1>11 DEF Same
<1> QED BY <1>2, <1>3, <1>4, <1>5, <1>6, <1>7, <1>8, <1>9, <1>10, <1>11 DEF Next

(* What the plan of a rebuild leaves of the thread.                        *)
LEMMA PlanFields ==
  ASSUME IndInv, NEW t \in Threads, Plan(t), ~InitError(t)
  PROVE  /\ thr'[t].pc = "mark" /\ thr'[t].src = thr[t].src
         /\ thr'[t].kept = {n \in Names : Keeps(t, n)}
         /\ thr'[t].todo = Names \ {n \in Names : Keeps(t, n)}
         /\ cases' = [n \in Names |-> IF n \in {m \in Names : Keeps(t, m)}
                                      THEN Loaded(n) ELSE None]
         /\ UNCHANGED <<chroma, side, record, cfg, status, fingerprint>>
         /\ View = chroma
<1> DEFINE kept == {n \in Names : Keeps(t, n)}
<1>1. /\ thr \in [Threads -> Thread] /\ thr[t] \in Thread
      /\ thr[t].pc \in Working
      /\ thr' = [thr EXCEPT ![t].pc = "mark", ![t].kept = kept, ![t].todo = Names \ kept]
      /\ cases' = [n \in Names |-> IF n \in kept THEN Loaded(n) ELSE None]
      /\ UNCHANGED <<chroma, side, record, cfg, status, fingerprint>>
  BY DEF IndInv, TypeOK, Plan, Working, PCs
<1>2. View = chroma
  BY <1>1, OpensRealStore
<1>3. /\ thr'[t].pc = "mark" /\ thr'[t].src = thr[t].src
      /\ thr'[t].kept = kept /\ thr'[t].todo = Names \ kept
  <2> HIDE DEF kept
  <2> QED BY <1>1 DEF Thread
<1> QED BY <1>1, <1>2, <1>3

(* What a step of a rebuild that only moves the thread on leaves alone.    *)
LEMMA MarkFields ==
  ASSUME IndInv, NEW t \in Threads, OpenRecord(t) \/ WritePartialRecord(t) \/ OpenSeal(t)
  PROVE  /\ \E p \in {"marking", "recording", "sealing", "next"} : Moves(t, p)
         /\ UNCHANGED <<chroma, side, cases, cfg, status, fingerprint>>
<1>1. CASE OpenRecord(t) \/ OpenSeal(t)
  BY <1>1, GotoMoves DEF OpenRecord, OpenSeal, Truncate, PCs
<1>2. CASE WritePartialRecord(t)
  BY <1>2, GotoMoves DEF WritePartialRecord, PCs
<1> QED BY <1>1, <1>2

(* What dropping a collection leaves.                                      *)
LEMMA DropFields ==
  ASSUME IndInv, NEW t \in Threads, NEW n \in Names, DropCollection(t, n)
  PROVE  /\ thr[t].pc = "next" /\ n \in thr[t].todo
         /\ thr'[t].pc = "create" /\ thr'[t].cur = n
         /\ thr'[t].src = thr[t].src
         /\ thr'[t].kept = thr[t].kept /\ thr'[t].todo = thr[t].todo
         /\ chroma'[n] = None
         /\ \A m \in Names \ {n} : chroma'[m] = chroma[m]
         /\ UNCHANGED <<side, record, cases, cfg, status, fingerprint>>
<1>1. /\ thr \in [Threads -> Thread] /\ thr[t] \in Thread
      /\ chroma \in [Names -> Collection \cup {None}]
  BY DEF IndInv, TypeOK
<1> QED BY <1>1 DEF DropCollection, Thread

(* What creating a collection leaves.                                      *)
LEMMA CreateFields ==
  ASSUME IndInv, NEW t \in Threads, CreateCollection(t)
  PROVE  /\ thr[t].pc = "create" /\ Moves(t, "add")
         /\ chroma'[thr[t].cur].ver = thr[t].src[thr[t].cur]
         /\ chroma'[thr[t].cur].count = 0
         /\ \A m \in Names \ {thr[t].cur} : chroma'[m] = chroma[m]
         /\ UNCHANGED <<side, record, cases, cfg, status, fingerprint>>
<1> DEFINE n   == thr[t].cur
           new == [stamp |-> cfg.model, by |-> cfg.model, ver |-> thr[t].src[n], count |-> 0]
<1>1. n \in Names /\ chroma \in [Names -> Collection \cup {None}]
  BY DEF IndInv, TypeOK, Thread
<1>2. chroma' = [chroma EXCEPT ![n] = new]
  BY DEF CreateCollection
<1>3. new.ver = thr[t].src[n] /\ new.count = 0
  OBVIOUS
<1>4. /\ At(t, "create") /\ Goto(t, "add")
      /\ UNCHANGED <<side, record, cases, cfg, status, fingerprint>>
  BY DEF CreateCollection
<1>5. Moves(t, "add")
  BY <1>4, GotoMoves DEF PCs
<1>6. chroma'[n] = new /\ \A m \in Names \ {n} : chroma'[m] = chroma[m]
  <2> HIDE DEF n, new
  <2> QED BY <1>1, <1>2
<1> QED BY <1>3, <1>4, <1>5, <1>6

(* What adding a batch leaves.                                             *)
LEMMA AddFields ==
  ASSUME IndInv, NEW t \in Threads, AddBatch(t)
  PROVE  /\ thr[t].pc = "add"
         /\ Moves(t, IF chroma[thr[t].cur].count + 1 = Size[thr[t].src[thr[t].cur]]
                     THEN "save" ELSE "add")
         /\ chroma[thr[t].cur] \in Collection
         /\ chroma'[thr[t].cur] # None
         /\ chroma'[thr[t].cur].ver = chroma[thr[t].cur].ver
         /\ chroma'[thr[t].cur].count = chroma[thr[t].cur].count + 1
         /\ \A m \in Names \ {thr[t].cur} : chroma'[m] = chroma[m]
         /\ UNCHANGED <<side, record, cases, cfg, status, fingerprint>>
<1> DEFINE n == thr[t].cur
<1>1. /\ n \in Names /\ chroma \in [Names -> Collection \cup {None}]
      /\ chroma[n] # None
  BY DEF IndInv, TypeOK, Progress, InHand, AddBatch, Thread
<1>2. chroma' = [chroma EXCEPT ![n] = [chroma[n] EXCEPT !.count = @ + 1]]
  <2> HIDE DEF n
  <2>1. chroma' = [chroma EXCEPT ![n].count = @ + 1]
    BY DEF AddBatch, n
  <2> QED BY <2>1, <1>1
<1> HIDE DEF n
<1>3. [chroma[n] EXCEPT !.count = @ + 1] \in Collection
  BY <1>1 DEF Collection
<1>4. /\ [chroma[n] EXCEPT !.count = @ + 1] # None
      /\ [chroma[n] EXCEPT !.count = @ + 1].ver = chroma[n].ver
      /\ [chroma[n] EXCEPT !.count = @ + 1].count = chroma[n].count + 1
  BY <1>1, <1>3, NoneAssumption DEF Collection
<1>5. /\ At(t, "add")
      /\ Goto(t, IF chroma[n].count + 1 = Size[thr[t].src[n]] THEN "save" ELSE "add")
      /\ UNCHANGED <<side, record, cases, cfg, status, fingerprint>>
  BY DEF AddBatch, n
<1>6. Moves(t, IF chroma[n].count + 1 = Size[thr[t].src[n]] THEN "save" ELSE "add")
  BY <1>5, GotoMoves DEF PCs
<1>7. /\ chroma'[n] = [chroma[n] EXCEPT !.count = @ + 1]
      /\ \A m \in Names \ {n} : chroma'[m] = chroma[m]
  BY <1>1, <1>2
<1> QED BY <1>1, <1>4, <1>5, <1>6, <1>7 DEF n

(* What emptying a sidecar leaves.                                         *)
LEMMA OpenSidecarFields ==
  ASSUME IndInv, NEW t \in Threads, OpenSidecar(t)
  PROVE  /\ thr[t].pc = "save" /\ Moves(t, "saving")
         /\ \A m \in Names \ {thr[t].cur} : side'[m] = side[m]
         /\ UNCHANGED <<chroma, record, cases, cfg, status, fingerprint>>
<1>1. side \in [Names -> Versions \cup {None}]
  BY DEF IndInv, TypeOK
<1> QED BY <1>1, GotoMoves DEF OpenSidecar, PCs

(* What writing a sidecar leaves: the collection has landed.               *)
LEMMA WriteSidecarFields ==
  ASSUME IndInv, NEW t \in Threads, WriteSidecar(t)
  PROVE  LET n == thr[t].cur
             v == thr[t].src[n]
         IN  /\ thr[t].pc = "saving"
             /\ thr'[t].pc = IF n = Decisions THEN "next" ELSE "record"
             /\ thr'[t].src = thr[t].src /\ thr'[t].cur = n
             /\ thr'[t].kept = thr[t].kept \cup {n}
             /\ thr'[t].todo = thr[t].todo \ {n}
             /\ side'[n] = v /\ cases'[n] = [pages |-> v, vecs |-> v, by |-> cfg.model]
             /\ \A m \in Names \ {n} : side'[m] = side[m] /\ cases'[m] = cases[m]
             /\ chroma[n].by = cfg.model
             /\ UNCHANGED <<chroma, record, cfg, status, fingerprint>>
<1> DEFINE n == thr[t].cur
           v == thr[t].src[n]
<1>1. /\ thr \in [Threads -> Thread] /\ thr[t] \in Thread /\ n \in Names
      /\ side \in [Names -> Versions \cup {None}]
      /\ cases \in [Names -> Served \cup {None}]
      /\ thr[t].pc = "saving"
  BY DEF IndInv, TypeOK, WriteSidecar, Thread
<1>2. chroma[n].by = cfg.model
  BY <1>1, ModelAssumption DEF IndInv, TypeOK, StampTruth, Progress, InHand
<1>3. /\ side' = [side EXCEPT ![n] = v]
      /\ cases' = [cases EXCEPT ![n] = [pages |-> v, vecs |-> v, by |-> cfg.model]]
      /\ thr' = [thr EXCEPT ![t].pc   = IF n = Decisions THEN "next" ELSE "record",
                            ![t].kept = @ \cup {n},
                            ![t].todo = @ \ {n}]
      /\ UNCHANGED <<chroma, record, cfg, status, fingerprint>>
  BY DEF WriteSidecar
<1>4. /\ thr'[t].pc = IF n = Decisions THEN "next" ELSE "record"
      /\ thr'[t].src = thr[t].src /\ thr'[t].cur = n
      /\ thr'[t].kept = thr[t].kept \cup {n}
      /\ thr'[t].todo = thr[t].todo \ {n}
  BY <1>1, <1>3 DEF Thread
<1> HIDE DEF n, v
<1>5. /\ side'[n] = v /\ cases'[n] = [pages |-> v, vecs |-> v, by |-> cfg.model]
      /\ \A m \in Names \ {n} : side'[m] = side[m] /\ cases'[m] = cases[m]
  BY <1>1, <1>3
<1> QED BY <1>1, <1>2, <1>3, <1>4, <1>5 DEF n, v

(* What a thread holds is what the disk holds, after every step.           *)
LEMMA HeldStep ==
  ASSUME DiskInv, [Next]_vars, NEW u \in Threads
  PROVE  HeldIsOnDisk(u)'
<1>1. IndInv /\ IndInv' /\ HeldIsOnDisk(u)
  BY StepKeeps DEF DiskInv
<1>2. CASE thr'[u].pc \notin Building
  BY <1>1, <1>2, HoldsNothing DEF IndInv
<1>3. CASE Plan(u) /\ ~InitError(u)
  <2>1. \A n \in Names : Keeps(u, n) => chroma[n] # None
    BY <1>1, <1>3, PlanFields DEF Keeps, Loads, Readable
  <2> QED BY <1>1, <1>3, <2>1, PlanFields DEF HeldIsOnDisk, Loaded, Filling
<1>4. CASE OpenRecord(u) \/ WritePartialRecord(u) \/ OpenSeal(u)
  BY <1>1, <1>4, MarkFields DEF HeldIsOnDisk, Moves, Filling
<1>5. ASSUME NEW n \in Names, DropCollection(u, n) PROVE HeldIsOnDisk(u)'
  <2>1. thr[u].kept \subseteq Names
    BY <1>1, <1>5, BuilderFacts, DropFields DEF Building
  <2> QED BY <1>1, <1>5, <2>1, DropFields DEF HeldIsOnDisk
<1>6. CASE CreateCollection(u)
  <2>1. thr[u].kept \subseteq Names /\ thr[u].cur \in thr[u].todo
    BY <1>1, <1>6, BuilderFacts, CreateFields DEF Building, HeldIsOnDisk, Filling
  <2>2. /\ Moves(u, "add") /\ UNCHANGED <<side, cases>>
        /\ chroma'[thr[u].cur].ver = thr[u].src[thr[u].cur]
        /\ \A m \in Names \ {thr[u].cur} : chroma'[m] = chroma[m]
    BY <1>1, <1>6, CreateFields
  <2> QED BY <1>1, <2>1, <2>2 DEF HeldIsOnDisk, Moves
<1>7. CASE AddBatch(u)
  <2>1. thr[u].kept \subseteq Names /\ thr[u].cur \in thr[u].todo
    BY <1>1, <1>7, BuilderFacts, AddFields DEF Building, HeldIsOnDisk, Filling
  <2> QED BY <1>1, <1>7, <2>1, AddFields DEF HeldIsOnDisk, Moves
<1>8. CASE OpenSidecar(u)
  <2>1. thr[u].kept \subseteq Names /\ thr[u].cur \in thr[u].todo
    BY <1>1, <1>8, BuilderFacts, OpenSidecarFields DEF Building, HeldIsOnDisk, Filling
  <2> QED BY <1>1, <1>8, <2>1, OpenSidecarFields DEF HeldIsOnDisk, Moves
<1>9. CASE WriteSidecar(u)
  <2>1. /\ thr[u].kept \subseteq Names /\ thr[u].cur \in thr[u].todo /\ thr[u].cur \in Names
        /\ chroma[thr[u].cur].ver = thr[u].src[thr[u].cur]
        /\ chroma[thr[u].cur] # None
    BY <1>1, <1>9, BuilderFacts, WriteSidecarFields
    DEF Building, HeldIsOnDisk, Filling, IndInv, Progress, InHand
  <2> DEFINE n == thr[u].cur
             v == thr[u].src[n]
  <2>2. /\ thr'[u].pc \in {"next", "record"}
        /\ thr'[u].kept = thr[u].kept \cup {n} /\ thr'[u].todo = thr[u].todo \ {n}
        /\ side'[n] = v /\ cases'[n] = [pages |-> v, vecs |-> v, by |-> cfg.model]
        /\ \A m \in Names \ {n} : side'[m] = side[m] /\ cases'[m] = cases[m]
        /\ chroma[n].by = cfg.model /\ chroma' = chroma
    BY <1>1, <1>9, WriteSidecarFields
  <2>3. n \in Names /\ chroma[n].ver = v /\ chroma[n] # None /\ thr[u].kept \subseteq Names
    BY <2>1
  <2> HIDE DEF n, v
  <2>4. thr'[u].kept \cap thr'[u].todo = {}
    BY <1>1, <2>2 DEF HeldIsOnDisk
  <2>5. ASSUME NEW m \in thr'[u].kept
        PROVE  /\ chroma'[m] # None
               /\ cases'[m] = [pages |-> side'[m], vecs |-> chroma'[m].ver, by |-> chroma'[m].by]
    BY <1>1, <2>2, <2>3 DEF HeldIsOnDisk
  <2> QED BY <2>2, <2>4, <2>5 DEF HeldIsOnDisk, Filling
<1>10. CASE thr'[u] = thr[u] /\ UNCHANGED <<chroma, side, cases>>
  BY <1>1, <1>10 DEF HeldIsOnDisk
<1> QED BY <1>1, <1>2, <1>3, <1>4, <1>5, <1>6, <1>7, <1>8, <1>9, <1>10, BuildingStep

(* DiskInv holds in every reachable state, for any number of init threads. *)
LEMMA HeldInductive == Spec => []DiskInv
<1>1. Init => DiskInv
  <2> SUFFICES ASSUME Init PROVE DiskInv
    OBVIOUS
  <2>1. \A t \in Threads : thr[t] = IdleThread
    BY DEF Init
  <2> QED BY <2>1, InitHolds, IdleThreadFields DEF DiskInv, HeldIsOnDisk, Filling
<1>2. DiskInv /\ [Next]_vars => DiskInv'
  BY StepKeeps, HeldStep DEF DiskInv
<1> QED BY <1>1, <1>2, PTL DEF Spec

(* What a start declares ready is what is on disk at that moment (a reindex*)
(* evicts the cached client, request_reindex), for any number of threads.  *)
THEOREM ReadyOnDisk == Spec => ReadyIsOnDisk
<1> DEFINE OnDisk == status # "ready" /\ status' = "ready" =>
                       \A n \in Names : /\ chroma[n] # None
                                        /\ cases'[n] = [pages |-> side[n], vecs |-> chroma[n].ver,
                                                        by |-> chroma[n].by]
<1>1. DiskInv /\ [Next]_vars => [OnDisk]_vars
  <2> SUFFICES ASSUME DiskInv, [Next]_vars, status # "ready", status' = "ready"
               PROVE  \A n \in Names : /\ chroma[n] # None
                                       /\ cases'[n] = [pages |-> side[n], vecs |-> chroma[n].ver,
                                                       by |-> chroma[n].by]
    OBVIOUS
  <2>1. IndInv
    BY DEF DiskInv
  <2>2. PICK t \in Threads : (LoadAll(t) /\ ~InitError(t)) \/ Seal(t)
    <3>1. ASSUME NEW t \in Threads, ThreadStep(t), ~LoadAll(t), ~Seal(t) PROVE FALSE
      BY <3>1 DEF ThreadStep, CheckIdentity, Ingest, Decide, Plan, OpenRecord, OpenSeal, Truncate,
         WritePartialRecord, DropCollection, CreateCollection, AddBatch, OpenSidecar,
         WriteSidecar, Backfill, OpenBackfill, WriteBackfill, InitError
    <3>2. CASE Boot \/ Stop \/ (\E t \in Threads : RequestReindex(t))
      BY <3>2 DEF Boot, Stop, RequestReindex
    <3>3. ASSUME NEW t \in Threads, BackfillFails(t) \/ Fail(t) PROVE FALSE
      BY <3>3 DEF BackfillFails, Fail, InitError
    <3>4. ASSUME NEW n \in Names, NEW v \in Versions, Push(n, v) PROVE FALSE
      BY <3>4 DEF Push
    <3>5. CASE Wipe \/ (\E m \in Models : ForeignCopy(m)) \/ UNCHANGED vars
      BY <3>5 DEF Wipe, ForeignCopy, vars
    <3>6. ASSUME NEW t \in Threads, InitError(t) PROVE FALSE
      BY <3>6 DEF InitError
    <3> QED BY <3>1, <3>2, <3>3, <3>4, <3>5, <3>6 DEF Next
  <2>3. CASE LoadAll(t) /\ ~InitError(t)
    <3>1. View = chroma
      BY <2>1, <2>3, OpensRealStore DEF LoadAll, Working, PCs
    <3>2. (\A n \in Names : Loads(n)) /\ cases' = [n \in Names |-> Loaded(n)]
      BY <2>3 DEF LoadAll
    <3> QED BY <3>1, <3>2 DEF Loads, Loaded, Readable
  <2>4. CASE Seal(t)
    <3>1. thr[t].kept = Names
      BY <2>1, <2>4 DEF Seal, IndInv, Progress, InHand, Building
    <3>2. cases' = cases
      BY <2>4 DEF Seal
    <3> QED BY <3>1, <3>2 DEF DiskInv, HeldIsOnDisk
  <2> QED BY <2>2, <2>3, <2>4
<1>2. Spec => [][OnDisk]_vars
  <2> HIDE DEF OnDisk
  <2> QED BY <1>1, HeldInductive, PTL DEF Spec
<1> QED BY <1>2 DEF ReadyIsOnDisk

-----------------------------------------------------------------------------
(* One init thread at a time.                                              *)

(* What StoreInv says of a thread and of the collection it is filling.     *)
LEMMA FillingFacts ==
  ASSUME StoreInv, NEW t \in Threads, thr[t].pc \in Filling
  PROVE  /\ thr[t].cur \in Names /\ thr[t].cur \in thr[t].todo
         /\ thr[t].kept \subseteq Names /\ thr[t].cur \notin thr[t].kept
         /\ thr[t].src[thr[t].cur] \in Versions
         /\ record = LandedRecord(t)
         /\ record.fp = None /\ record.colls[thr[t].cur] = None
         /\ thr[t].cur = Decisions => thr[t].todo = {Decisions}
         /\ thr[t].pc \in {"add", "save", "saving"} =>
              /\ chroma[thr[t].cur] \in Collection /\ chroma[thr[t].cur] # None
              /\ chroma[thr[t].cur].ver = thr[t].src[thr[t].cur]
<1>1. IndInv /\ HeldIsOnDisk(t) /\ RebuildTruth(t)
  BY DEF StoreInv, DiskInv
<1>2. /\ thr[t].cur \in Names /\ thr[t].kept \subseteq Names
      /\ thr[t].src[thr[t].cur] \in Versions
  BY <1>1, BuilderFacts DEF Filling, Building
<1>3. thr[t].cur \in thr[t].todo /\ thr[t].cur \notin thr[t].kept
  BY <1>1 DEF HeldIsOnDisk
<1>4. record = LandedRecord(t) /\ Landing(t) = thr[t].kept
  BY <1>1, <1>3 DEF RebuildTruth, Rebuilding, Filling, Landing
<1>5. record.fp = None /\ record.colls[thr[t].cur] = None
  BY <1>2, <1>3, <1>4 DEF LandedRecord
<1>6. thr[t].pc \in {"add", "save", "saving"} =>
        /\ chroma[thr[t].cur] \in Collection /\ chroma[thr[t].cur] # None
        /\ chroma[thr[t].cur].ver = thr[t].src[thr[t].cur]
  BY <1>1, <1>2 DEF IndInv, TypeOK, Progress, InHand, HeldIsOnDisk
<1> QED BY <1>1, <1>2, <1>3, <1>4, <1>5, <1>6 DEF RebuildTruth

(* What a step changes of the disk and the record while it fills a         *)
(* collection is not in the record.                                        *)
LEMMA FillingKeepsRecord ==
  ASSUME StoreInv, NEW t \in Threads, thr[t].pc \in Filling, UNCHANGED record,
         \A m \in Names \ {thr[t].cur} : chroma'[m] = chroma[m] /\ side'[m] = side[m]
  PROVE  RecordTruth'
<1>1. record.fp = None /\ record.colls[thr[t].cur] = None
  BY FillingFacts
<1> QED BY <1>1 DEF StoreInv, RecordTruth, Whole

(* What another estate's vectors leave of a collection.                    *)
SameBut(n) == chroma'[n] # None => /\ chroma[n] # None
                                   /\ chroma'[n].ver = chroma[n].ver
                                   /\ chroma'[n].count = chroma[n].count

(* Vectors copied in keep what they are vectors of.                        *)
LEMMA CopyFields ==
  ASSUME IndInv, NEW m \in Models, ForeignCopy(m)
  PROVE  UNCHANGED <<side, record, thr>> /\ \A n \in Names : SameBut(n)
<1>1. /\ UNCHANGED <<side, record, thr>>
      /\ chroma' = [n \in Names |-> IF chroma[n] = None THEN None
                                    ELSE [chroma[n] EXCEPT !.stamp = m, !.by = m]]
  BY DEF ForeignCopy
<1>2. ASSUME NEW n \in Names, NEW c \in Collection
      PROVE  LET d == [c EXCEPT !.stamp = m, !.by = m] IN d.ver = c.ver /\ d.count = c.count
  BY DEF Collection
<1>3. \A n \in Names : SameBut(n)
  BY <1>1, <1>2 DEF IndInv, TypeOK, SameBut
<1> QED BY <1>1, <1>3

(* What a load or a plan accepts is what the record says.                  *)
LEMMA LoadsWhole ==
  ASSUME IndInv, NEW t \in Threads, thr[t].pc \in Working, NEW n \in Names, NEW v \in Versions,
         Loads(n), Whole(n, v)
  PROVE  Loaded(n).pages = v /\ Loaded(n).vecs = v
<1>1. View = chroma
  BY OpensRealStore
<1> QED BY <1>1 DEF Loads, Readable, Whole, Loaded

(* Every collection a plan keeps is whole.                                 *)
LEMMA KeepsWhole ==
  ASSUME StoreInv, NEW t \in Threads, thr[t].pc = "plan", NEW n \in Names, Keeps(t, n)
  PROVE  Whole(n, thr[t].src[n])
<1> DEFINE src == thr[t].src
<1>1. /\ RecordTruth /\ thr[t].stored = record.fp
      /\ src \in [Names -> Versions] /\ cfg.model \in Models
  BY DEF StoreInv, DiskInv, LoadTruth, IndInv, TypeOK, Progress, Ingested
<1>2. n \in Reusable(t, src)
  BY DEF Keeps
<1>3. CASE record.fp = CorpusFingerprint(src)
  <2>1. record.fp # None /\ record.fp.src = src
    BY <1>1, <1>3, NoneAssumption DEF CorpusFingerprint, Fingerprint
  <2> QED BY <1>1, <2>1 DEF RecordTruth
<1>4. CASE record.colls[n] = Wanted(src)[n]
  <2>1. record.colls[n] # None /\ record.colls[n].ver = src[n]
    BY <1>1, <1>4, NoneAssumption DEF Wanted, Want
  <2> QED BY <1>1, <2>1 DEF RecordTruth
<1>5. CASE n \in Repos /\ record.fp # None /\ record.fp = CorpusFingerprint(WithoutDrop(src))
  <2>1. record.fp.src = WithoutDrop(src)
    BY <1>5 DEF CorpusFingerprint
  <2>2. WithoutDrop(src)[n] = src[n]
    BY <1>1, <1>5, NamesAssumption DEF WithoutDrop
  <2> QED BY <1>1, <1>5, <2>1, <2>2 DEF RecordTruth
<1> QED BY <1>1, <1>2, <1>3, <1>4, <1>5 DEF Reusable

(* Whatever the record names stays whole.                                  *)
LEMMA RecordStep ==
  ASSUME StoreInv, OneThread, [Next]_vars
  PROVE  RecordTruth'
<1>1. IndInv /\ RecordTruth
  BY DEF StoreInv, DiskInv
<1>2. CASE UNCHANGED <<chroma, side, record>>
  BY <1>1, <1>2 DEF RecordTruth, Whole
<1>3. CASE record' = NoRecord
  BY <1>3 DEF RecordTruth, NoRecord
<1>4. ASSUME NEW t \in Threads, WritePartialRecord(t) PROVE RecordTruth'
  <2>1. /\ UNCHANGED <<chroma, side>> /\ record' = PartialRecord(t)
        /\ \A n \in thr[t].kept : Whole(n, thr[t].src[n])
    BY <1>4 DEF WritePartialRecord, StoreInv, RebuildTruth
  <2>2. /\ record'.fp = None
        /\ \A n \in Names : record'.colls[n] # None =>
              n \in thr[t].kept /\ record'.colls[n].ver = thr[t].src[n]
    BY <2>1 DEF PartialRecord, Wanted
  <2> QED BY <2>1, <2>2 DEF RecordTruth, Whole
<1>5. ASSUME NEW t \in Threads, UNCHANGED <<chroma, side>>, record' = FullRecord(t),
             thr[t].src \in [Names -> Versions], \A n \in Names : Whole(n, thr[t].src[n])
      PROVE  RecordTruth'
  <2>1. /\ record'.fp.src = thr[t].src
        /\ \A n \in Names : record'.colls[n].ver = thr[t].src[n]
    BY <1>5 DEF FullRecord, CorpusFingerprint, Wanted
  <2> QED BY <1>5, <2>1 DEF RecordTruth, Whole
<1>6. ASSUME NEW t \in Threads, Seal(t) PROVE RecordTruth'
  <2>1. thr[t].kept = Names /\ thr[t].src \in [Names -> Versions]
    BY <1>1, <1>6 DEF Seal, IndInv, Progress, InHand, Ingested, Building
  <2> QED BY <1>5, <1>6, <2>1 DEF Seal, StoreInv, RebuildTruth
<1>7. ASSUME NEW t \in Threads, WriteBackfill(t) PROVE RecordTruth'
  <2>1. thr[t].src \in [Names -> Versions]
    BY <1>1, <1>7 DEF WriteBackfill, IndInv, Progress, Ingested
  <2> QED BY <1>5, <1>7, <2>1 DEF WriteBackfill, StoreInv, LoadTruth, Backfilling
<1>8. ASSUME NEW t \in Threads, NEW n \in Names, DropCollection(t, n) PROVE RecordTruth'
  <2>1. /\ UNCHANGED <<side, record>> /\ chroma'[n] = None
        /\ \A m \in Names \ {n} : chroma'[m] = chroma[m]
    BY <1>1, <1>8, DropFields
  <2> QED BY <1>1, <2>1 DEF RecordTruth, Whole
<1>9. ASSUME NEW t \in Threads,
         CreateCollection(t) \/ AddBatch(t) \/ OpenSidecar(t) \/ WriteSidecar(t)
      PROVE  RecordTruth'
  <2>1. /\ thr[t].pc \in Filling /\ UNCHANGED record
        /\ \A m \in Names \ {thr[t].cur} : chroma'[m] = chroma[m] /\ side'[m] = side[m]
    <3>1. CASE CreateCollection(t)
      BY <1>1, <3>1, CreateFields DEF Filling
    <3>2. CASE AddBatch(t)
      BY <1>1, <3>2, AddFields DEF Filling
    <3>3. CASE OpenSidecar(t)
      BY <1>1, <3>3, OpenSidecarFields DEF Filling
    <3>4. CASE WriteSidecar(t)
      BY <1>1, <3>4, WriteSidecarFields DEF Filling
    <3> QED BY <1>9, <3>1, <3>2, <3>3, <3>4
  <2> QED BY <2>1, FillingKeepsRecord
<1>13. CASE Wipe
  <2>1. chroma' = [n \in Names |-> None] /\ UNCHANGED record
    BY <1>13 DEF Wipe
  <2> QED BY <2>1 DEF RecordTruth, Whole
<1>14. ASSUME NEW m \in Models, ForeignCopy(m) PROVE RecordTruth'
  <2>1. UNCHANGED <<side, record>> /\ \A n \in Names : SameBut(n)
    BY <1>1, <1>14, CopyFields
  <2> QED BY <1>1, <2>1 DEF RecordTruth, Whole, SameBut
<1>15. ASSUME NEW t \in Threads,
              \/ CheckIdentity(t) \/ (\E r \in Repos : Ingest(t, r)) \/ Decide(t)
              \/ LoadAll(t) \/ Plan(t) \/ Backfill(t)
       PROVE  UNCHANGED <<chroma, side, record>>
  BY <1>15 DEF CheckIdentity, Ingest, Decide, LoadAll, Plan, Backfill
<1>16. ASSUME NEW t \in Threads, OpenRecord(t) \/ OpenSeal(t) \/ OpenBackfill(t)
       PROVE  record' = NoRecord
  BY <1>16 DEF OpenRecord, OpenSeal, OpenBackfill, Truncate
<1>17. ASSUME \/ Boot \/ Stop \/ UNCHANGED vars
              \/ \E t \in Threads : RequestReindex(t) \/ BackfillFails(t) \/ Fail(t)
       PROVE  UNCHANGED <<chroma, side, record>>
  BY <1>17 DEF Boot, Stop, vars, RequestReindex, BackfillFails, Fail
<1>18. ASSUME NEW n \in Names, NEW v \in Versions, Push(n, v)
       PROVE  UNCHANGED <<chroma, side, record>>
  BY <1>18 DEF Push
<1>19. ASSUME NEW t \in Threads, ThreadStep(t) PROVE RecordTruth'
  BY <1>2, <1>3, <1>4, <1>6, <1>7, <1>8, <1>9, <1>15, <1>16, <1>19
  DEF ThreadStep
<1> QED BY <1>2, <1>13, <1>14, <1>17, <1>18, <1>19 DEF Next

(* Whole after a step.                                                     *)
WholeAfter(n, v) == chroma'[n] # None => /\ chroma'[n].ver = v
                                         /\ chroma'[n].count = Size[v]
                                         /\ side'[n] = v

(* What a rebuild holds stays whole, and the record it runs under is that  *)
(* of what has landed.                                                     *)
LEMMA RebuildStep ==
  ASSUME StoreInv, OneThread, [Next]_vars, NEW t \in Threads
  PROVE  RebuildTruth(t)'
<1>1. IndInv /\ IndInv' /\ RebuildTruth(t) /\ HeldIsOnDisk(t)
  BY StepKeeps DEF StoreInv, DiskInv
<1>2. CASE thr'[t].pc \notin Building
  BY <1>1, <1>2, HoldsNothing DEF IndInv
<1>3. CASE Plan(t) /\ ~InitError(t)
  <2>1. /\ thr'[t].pc = "mark" /\ thr'[t].src = thr[t].src /\ UNCHANGED <<chroma, side>>
        /\ thr'[t].kept = {n \in Names : Keeps(t, n)} /\ thr[t].pc = "plan"
    BY <1>1, <1>3, PlanFields DEF Plan
  <2>2. \A n \in thr'[t].kept : WholeAfter(n, thr'[t].src[n])
    BY <2>1, KeepsWhole DEF Whole, WholeAfter
  <2> QED BY <2>1, <2>2 DEF RebuildTruth, Rebuilding, Filling, Whole, WholeAfter
<1>4. CASE OpenRecord(t) \/ OpenSeal(t)
  <2>1. \E p \in {"marking", "recording", "sealing"} : Moves(t, p)
    BY <1>1, <1>4, GotoMoves DEF OpenRecord, OpenSeal, Truncate, PCs
  <2>2. UNCHANGED <<chroma, side>>
    BY <1>1, <1>4, MarkFields
  <2> QED BY <1>1, <2>1, <2>2 DEF RebuildTruth, Rebuilding, Filling, Moves, Whole
<1>5. CASE WritePartialRecord(t)
  <2>1. Moves(t, "next") /\ UNCHANGED <<chroma, side, cfg>> /\ record' = PartialRecord(t)
    BY <1>1, <1>5, GotoMoves DEF WritePartialRecord, PCs
  <2>2. record' = LandedRecord(t)'
    BY <2>1 DEF PartialRecord, LandedRecord, Landing, Wanted, Moves
  <2> QED BY <1>1, <2>1, <2>2 DEF RebuildTruth, Filling, Moves, Whole
<1>6. ASSUME NEW n \in Names, DropCollection(t, n) PROVE RebuildTruth(t)'
  <2>1. /\ thr[t].pc = "next" /\ n \in thr[t].todo
        /\ thr'[t].pc = "create" /\ thr'[t].cur = n
        /\ thr'[t].src = thr[t].src
        /\ thr'[t].kept = thr[t].kept /\ thr'[t].todo = thr[t].todo
        /\ \A m \in Names \ {n} : chroma'[m] = chroma[m]
        /\ UNCHANGED <<side, record, cfg>>
    BY <1>1, <1>6, DropFields
  <2>2. thr[t].kept \subseteq Names \ {n}
    BY <1>1, <2>1, BuilderFacts DEF Building, HeldIsOnDisk
  <2>3. \A m \in thr'[t].kept : WholeAfter(m, thr'[t].src[m])
    BY <1>1, <2>1, <2>2 DEF RebuildTruth, Whole, WholeAfter
  <2>4. record' = LandedRecord(t)'
    BY <1>1, <2>1 DEF RebuildTruth, Rebuilding, LandedRecord, Landing, Wanted
  <2>5. n = Decisions => thr[t].todo = {Decisions}
    BY <1>6 DEF DropCollection
  <2> QED BY <2>1, <2>3, <2>4, <2>5 DEF RebuildTruth, Whole, WholeAfter
<1>7. ASSUME NEW p \in Filling, Moves(t, p), thr[t].pc \in Filling, UNCHANGED <<record, cfg>>,
             \A m \in Names \ {thr[t].cur} : chroma'[m] = chroma[m] /\ side'[m] = side[m],
             p = "add"    => chroma'[thr[t].cur].count < Size[thr[t].src[thr[t].cur]],
             p \in {"save", "saving"} =>
               chroma'[thr[t].cur].count = Size[thr[t].src[thr[t].cur]]
      PROVE  RebuildTruth(t)'
  <2>1. /\ thr[t].kept \subseteq Names \ {thr[t].cur}
        /\ record = LandedRecord(t)
        /\ thr[t].cur = Decisions => thr[t].todo = {Decisions}
    BY <1>7, FillingFacts
  <2>2. \A m \in thr'[t].kept : WholeAfter(m, thr'[t].src[m])
    BY <1>1, <1>7, <2>1 DEF RebuildTruth, Whole, WholeAfter, Moves
  <2>3. record' = LandedRecord(t)'
    BY <1>7, <2>1 DEF LandedRecord, Landing, Wanted, Moves, Filling
  <2> QED BY <1>7, <2>1, <2>2, <2>3 DEF RebuildTruth, Whole, WholeAfter, Moves, Filling
<1>8. CASE CreateCollection(t)
  <2>1. /\ thr[t].pc = "create" /\ Moves(t, "add") /\ chroma'[thr[t].cur].count = 0
        /\ \A m \in Names \ {thr[t].cur} : chroma'[m] = chroma[m]
        /\ UNCHANGED <<side, record, cfg>>
    BY <1>1, <1>8, CreateFields
  <2>2. thr[t].src[thr[t].cur] \in Versions
    BY <2>1, FillingFacts DEF Filling
  <2>3. 0 < Size[thr[t].src[thr[t].cur]]
    BY <2>2, SizeAssumption
  <2> QED BY <1>7, <2>1, <2>3 DEF Filling
<1>9. CASE AddBatch(t)
  <2> DEFINE n == thr[t].cur
             more == chroma[n].count + 1
             all == Size[thr[t].src[n]]
  <2>1. /\ thr[t].pc = "add" /\ Moves(t, IF more = all THEN "save" ELSE "add")
        /\ chroma'[n].count = more
        /\ \A m \in Names \ {n} : chroma'[m] = chroma[m]
        /\ UNCHANGED <<side, record, cfg>>
    BY <1>1, <1>9, AddFields
  <2>2. chroma[n].count \in Nat /\ all \in Nat /\ chroma[n].count < all
    <3>1. chroma[n] \in Collection /\ thr[t].src[n] \in Versions
      BY <2>1, FillingFacts DEF Filling
    <3> QED BY <1>1, <2>1, <3>1, SizeAssumption DEF Collection, RebuildTruth
  <2> HIDE DEF n, all
  <2>3. more # all => more < all
    BY <2>2
  <2> HIDE DEF more
  <2>4. CASE more = all
    BY <1>7, <2>1, <2>4 DEF Filling, n, all
  <2>5. CASE more # all
    BY <1>7, <2>1, <2>3, <2>5 DEF Filling, n, all
  <2> QED BY <2>4, <2>5
<1>10. CASE OpenSidecar(t)
  <2>1. /\ thr[t].pc = "save" /\ Moves(t, "saving")
        /\ \A m \in Names \ {thr[t].cur} : side'[m] = side[m]
        /\ UNCHANGED <<chroma, record, cfg>>
    BY <1>1, <1>10, OpenSidecarFields
  <2> QED BY <1>1, <1>7, <2>1 DEF RebuildTruth, Filling
<1>11. CASE WriteSidecar(t)
  <2> DEFINE n == thr[t].cur
             v == thr[t].src[n]
  <2>1. /\ thr[t].pc = "saving"
        /\ thr'[t].pc = IF n = Decisions THEN "next" ELSE "record"
        /\ thr'[t].src = thr[t].src /\ thr'[t].cur = n
        /\ thr'[t].kept = thr[t].kept \cup {n}
        /\ thr'[t].todo = thr[t].todo \ {n}
        /\ side'[n] = v /\ \A m \in Names \ {n} : side'[m] = side[m]
        /\ UNCHANGED <<chroma, record, cfg>>
    BY <1>1, <1>11, WriteSidecarFields
  <2>2. /\ thr[t].kept \subseteq Names \ {n}
        /\ record = LandedRecord(t) /\ Landing(t) = thr[t].kept
        /\ n = Decisions => thr[t].todo = {Decisions}
        /\ chroma[n].ver = v
    BY <2>1, FillingFacts DEF Filling, Landing
  <2>3. chroma[n].count = Size[v]
    BY <1>1, <2>1 DEF RebuildTruth
  <2> HIDE DEF n, v
  <2>4. WholeAfter(n, v)
    BY <2>1, <2>2, <2>3 DEF WholeAfter
  <2>5. v = thr'[t].src[n]
    BY <2>1 DEF v
  <2>6. \A m \in thr'[t].kept : WholeAfter(m, thr'[t].src[m])
    BY <1>1, <2>1, <2>2, <2>4, <2>5 DEF RebuildTruth, Whole, WholeAfter
  <2>7. Rebuilding(t)' => Landing(t)' = Landing(t)
    BY <2>1, <2>2 DEF Rebuilding, Landing
  <2>8. Rebuilding(t)' => record' = LandedRecord(t)'
    BY <2>1, <2>2, <2>7 DEF LandedRecord, Wanted
  <2> QED BY <2>1, <2>6, <2>8 DEF RebuildTruth, Whole, WholeAfter, Filling
<1>12. CASE thr'[t] = thr[t] /\ UNCHANGED <<chroma, side, cfg, record>>
  <2>1. LandedRecord(t)' = LandedRecord(t)
    BY <1>12 DEF LandedRecord, Landing, Wanted
  <2> QED BY <1>1, <1>12, <2>1 DEF RebuildTruth, Rebuilding, Whole
<1> QED BY <1>1, <1>2, <1>3, <1>4, <1>5, <1>6, <1>8, <1>9, <1>10, <1>11, <1>12, BuildingStep

(* A load that accepts every collection serves what its record names.      *)
LEMMA LoadedWhole ==
  ASSUME StoreInv, NEW t \in Threads, LoadAll(t), status' = "ready"
  PROVE  /\ thr'[t].pc = "backfill" /\ thr'[t].src = thr[t].src
         /\ UNCHANGED <<chroma, side>>
         /\ fingerprint' = CorpusFingerprint(thr[t].src)
         /\ \A n \in Names : /\ Whole(n, thr[t].src[n])
                             /\ cases'[n] # None
                             /\ cases'[n].pages = thr[t].src[n]
                             /\ cases'[n].vecs = thr[t].src[n]
<1> DEFINE src == thr[t].src
<1>1. /\ IndInv /\ RecordTruth /\ LoadTruth(t)
      /\ thr[t].pc = "load" /\ thr[t].pc \in Working
      /\ UNCHANGED <<chroma, side>>
  BY DEF StoreInv, DiskInv, LoadAll, Working, PCs
<1>2. /\ \A n \in Names : Loads(n)
      /\ cases' = [n \in Names |-> Loaded(n)]
      /\ fingerprint' = CorpusFingerprint(src)
      /\ Goto(t, "backfill")
  <2>1. status = "indexing"
    BY <1>1, OpensRealStore
  <2> QED BY <2>1 DEF LoadAll, InitError
<1>3. Moves(t, "backfill")
  BY <1>1, <1>2, GotoMoves DEF PCs
<1>4. src \in [Names -> Versions] /\ record.fp = CorpusFingerprint(src) /\ cfg.model \in Models
  BY <1>1 DEF IndInv, TypeOK, Progress, Ingested, LoadTruth
<1>5. record.fp # None /\ record.fp.src = src
  BY <1>4, NoneAssumption DEF CorpusFingerprint, Fingerprint
<1> HIDE DEF src
<1>6. ASSUME NEW n \in Names
      PROVE  /\ Whole(n, src[n]) /\ cases'[n] # None
             /\ cases'[n].pages = src[n] /\ cases'[n].vecs = src[n]
  <2>1. Whole(n, src[n]) /\ src[n] \in Versions
    BY <1>1, <1>4, <1>5 DEF RecordTruth
  <2>2. Loaded(n).pages = src[n] /\ Loaded(n).vecs = src[n] /\ cases'[n] = Loaded(n)
    BY <1>1, <1>2, <2>1, LoadsWhole
  <2>3. Loaded(n) \in Served
    <3>1. View = chroma /\ chroma[n] \in Collection /\ side[n] \in Versions
      BY <1>1, <1>2, OpensRealStore DEF Loads, Readable, IndInv, TypeOK
    <3> QED BY <3>1 DEF Loaded, Served, Collection
  <2> QED BY <2>1, <2>2, <2>3, NoneAssumption
<1> QED BY <1>1, <1>2, <1>3, <1>6 DEF Moves, src

(* What a thread has read stands, and what a backfill will record is whole.*)
LEMMA LoadStep ==
  ASSUME StoreInv, OneThread, [Next]_vars, NEW t \in Threads
  PROVE  LoadTruth(t)'
<1>1. IndInv /\ LoadTruth(t) /\ thr \in [Threads -> Thread] /\ thr[t] \in Thread
  BY DEF StoreInv, DiskInv, IndInv, TypeOK
<1>a. CASE thr'[t].pc \notin {"load", "plan"} \cup Backfilling
  BY <1>a DEF LoadTruth
<1>b. ASSUME NEW n \in Names, Wipe \/ (\E m \in Models : ForeignCopy(m)), Whole(n, thr[t].src[n])
      PROVE  WholeAfter(n, thr[t].src[n])
  <2>1. CASE Wipe
    BY <2>1 DEF Wipe, WholeAfter
  <2>2. CASE \E m \in Models : ForeignCopy(m)
    BY <1>1, <1>b, <2>2, CopyFields DEF Whole, WholeAfter, SameBut
  <2> QED BY <1>b, <2>1, <2>2
<1>2. CASE thr'[t] = thr[t] /\ UNCHANGED record /\ UNCHANGED <<chroma, side>>
  BY <1>1, <1>2 DEF LoadTruth, Whole
<1>3. CASE Wipe \/ \E m \in Models : ForeignCopy(m)
  <2>1. thr'[t] = thr[t] /\ UNCHANGED record
    BY <1>3 DEF Wipe, ForeignCopy
  <2>2. ASSUME thr[t].pc \in Backfilling, NEW n \in Names
        PROVE  WholeAfter(n, thr[t].src[n])
    BY <1>1, <1>3, <1>b, <2>2 DEF LoadTruth
  <2>3. /\ thr'[t].pc = thr[t].pc /\ thr'[t].src = thr[t].src
        /\ thr'[t].stored = thr[t].stored
    BY <2>1
  <2>4. thr'[t].pc \in {"load", "plan"} => thr'[t].stored = record'.fp
    BY <1>1, <2>1, <2>3 DEF LoadTruth
  <2>5. thr'[t].pc \in Backfilling => \A n \in Names : WholeAfter(n, thr'[t].src[n])
    BY <2>2, <2>3
  <2> QED BY <2>4, <2>5 DEF LoadTruth, Whole, WholeAfter
<1>4. CASE Boot \/ Stop \/ (\E u \in Threads : RequestReindex(u) \/ BackfillFails(u) \/ Fail(u))
  <2>1. \A u \in Threads : u = t
    BY DEF OneThread
  <2>2. thr'[t].pc \in {"idle", "gate"} \/ UNCHANGED vars
    BY <1>1, <1>4, <2>1, StartThreadFields, IdleThreadFields, FinishFields
    DEF Boot, Stop, RequestReindex, BackfillFails, Fail, InitError
  <2> QED BY <1>a, <1>2, <2>2 DEF Backfilling, vars
<1>5. CASE \/ UNCHANGED vars \/ \E n \in Names, v \in Versions \ {Synth} : Push(n, v)
  <2>1. UNCHANGED <<thr, record, chroma, side>>
    <3>1. ASSUME NEW n \in Names, NEW v \in Versions, Push(n, v)
          PROVE  UNCHANGED <<thr, record, chroma, side>>
      BY <3>1 DEF Push
    <3>2. CASE UNCHANGED vars
      BY <3>2 DEF vars
    <3> QED BY <1>5, <3>1, <3>2
  <2> QED BY <1>2, <2>1
<1>6. CASE ThreadStep(t)
  <2>1. CASE Decide(t)
    <3>1. /\ UNCHANGED record
          /\ \/ Finish(t)
             \/ \E p \in {"load", "plan"} : \E src :
                  thr' = [thr EXCEPT ![t].pc = p, ![t].src = src, ![t].stored = record.fp]
      BY <2>1 DEF Decide, InitError
    <3>2. CASE Finish(t)
      BY <1>1, <1>a, <3>2, FinishFields, IdleThreadFields DEF Backfilling
    <3>3. CASE \E p \in {"load", "plan"} : \E src :
                 thr' = [thr EXCEPT ![t].pc = p, ![t].src = src, ![t].stored = record.fp]
      <4>1. /\ thr'[t].pc \in {"load", "plan"} /\ thr'[t].stored = record.fp
            /\ record' = record
        BY <1>1, <3>1, <3>3 DEF Thread
      <4> QED BY <4>1 DEF LoadTruth, Backfilling
    <3> QED BY <3>1, <3>2, <3>3
  <2>2. CASE LoadAll(t) /\ status' = "ready"
    BY <2>2, LoadedWhole DEF LoadTruth, Whole
  <2>3. CASE LoadAll(t) /\ status' # "ready"
    <3>1. UNCHANGED record /\ (Finish(t) \/ Goto(t, "plan")) /\ thr[t].pc = "load"
      BY <2>3 DEF LoadAll, InitError
    <3>2. CASE Finish(t)
      BY <1>1, <1>a, <3>2, FinishFields, IdleThreadFields DEF Backfilling
    <3>3. CASE Goto(t, "plan")
      <4>1. Moves(t, "plan")
        BY <1>1, <3>3, GotoMoves DEF PCs
      <4> QED BY <1>1, <3>1, <4>1 DEF LoadTruth, Moves, Backfilling
    <3> QED BY <3>1, <3>2, <3>3
  <2>4. CASE Backfill(t) \/ OpenBackfill(t) \/ WriteBackfill(t)
    <3>1. /\ UNCHANGED <<chroma, side>> /\ thr[t].pc \in Backfilling
          /\ Finish(t) \/ \E p \in {"backwrite", "backwriting"} : Goto(t, p)
      BY <2>4 DEF Backfill, OpenBackfill, WriteBackfill, Truncate, Backfilling
    <3>2. CASE Finish(t)
      BY <1>1, <1>a, <3>2, FinishFields, IdleThreadFields DEF Backfilling
    <3>3. CASE \E p \in {"backwrite", "backwriting"} : Goto(t, p)
      <4>1. PICK p \in {"backwrite", "backwriting"} : Moves(t, p)
        BY <1>1, <3>3, GotoMoves DEF PCs
      <4> QED BY <1>1, <3>1, <4>1 DEF LoadTruth, Moves, Whole
    <3> QED BY <3>1, <3>2, <3>3
  <2>5. CASE /\ ~Decide(t) /\ ~LoadAll(t)
             /\ ~Backfill(t) /\ ~OpenBackfill(t) /\ ~WriteBackfill(t)
    <3>1. CASE CheckIdentity(t) \/ (\E r \in Repos : Ingest(t, r))
      <4>1. Finish(t) \/ thr'[t].pc = "ingest"
        BY <1>1, <3>1 DEF CheckIdentity, Ingest, InitError, Goto, Thread
      <4> QED BY <1>1, <1>a, <4>1, FinishFields, IdleThreadFields DEF Backfilling
    <3>2. CASE Plan(t) \/ Seal(t)
      <4>1. Finish(t) \/ thr'[t].pc = "mark"
        BY <1>1, <3>2, PlanFields DEF Seal, InitError
      <4> QED BY <1>1, <1>a, <4>1, FinishFields, IdleThreadFields DEF Backfilling
    <3>3. CASE OpenRecord(t) \/ WritePartialRecord(t) \/ OpenSeal(t)
      BY <1>1, <1>a, <3>3, MarkFields DEF Moves, Backfilling
    <3>4. CASE \E n \in Names : DropCollection(t, n)
      BY <1>1, <1>a, <3>4, DropFields DEF Backfilling
    <3>5. CASE CreateCollection(t) \/ OpenSidecar(t)
      BY <1>1, <1>a, <3>5, CreateFields, OpenSidecarFields DEF Moves, Backfilling
    <3>6. CASE AddBatch(t)
      BY <1>1, <1>a, <3>6, AddFields DEF Moves, Backfilling
    <3>7. CASE WriteSidecar(t)
      BY <1>1, <1>a, <3>7, WriteSidecarFields DEF Backfilling
    <3> QED BY <1>6, <2>5, <3>1, <3>2, <3>3, <3>4, <3>5, <3>6, <3>7 DEF ThreadStep
  <2> QED BY <2>1, <2>2, <2>3, <2>4, <2>5
<1>7. ASSUME NEW u \in Threads, ThreadStep(u) PROVE LoadTruth(t)'
  BY <1>6, <1>7 DEF OneThread
<1> QED BY <1>3, <1>4, <1>5, <1>7 DEF Next

(* A ready service serves what its fingerprint names, after every step.    *)
LEMMA ServesStep ==
  ASSUME StoreInv, OneThread, [Next]_vars
  PROVE  ServesWhatItIngested'
<1>1. IndInv /\ ServesWhatItIngested
  BY DEF StoreInv, DiskInv
<1> SUFFICES ASSUME status' = "ready" PROVE ServesWhatItIngested'
  BY DEF ServesWhatItIngested
<1>2. CASE status = "ready" /\ UNCHANGED <<cases, fingerprint>>
  BY <1>1, <1>2 DEF ServesWhatItIngested
<1>3. ASSUME NEW t \in Threads, LoadAll(t) PROVE ServesWhatItIngested'
  <2>1. /\ fingerprint' = CorpusFingerprint(thr[t].src)
        /\ \A n \in Names : /\ cases'[n] # None
                            /\ cases'[n].pages = thr[t].src[n]
                            /\ cases'[n].vecs = thr[t].src[n]
    BY <1>3, LoadedWhole
  <2>2. thr[t].src \in [Names -> Versions] /\ cfg.model \in Models
    BY <1>1, <1>3 DEF LoadAll, IndInv, TypeOK, Progress, Ingested
  <2>3. fingerprint' # None /\ fingerprint'.src = thr[t].src
    BY <2>1, <2>2, NoneAssumption DEF CorpusFingerprint, Fingerprint
  <2> QED BY <2>1, <2>3 DEF ServesWhatItIngested
<1>4. ASSUME NEW t \in Threads, Seal(t) PROVE ServesWhatItIngested'
  <2>1. /\ thr[t].kept = Names /\ thr[t].src \in [Names -> Versions] /\ cfg.model \in Models
    BY <1>1, <1>4 DEF Seal, IndInv, TypeOK, Progress, InHand, Ingested, Building
  <2>2. fingerprint' = CorpusFingerprint(thr[t].src) /\ cases' = cases
    BY <1>4 DEF Seal
  <2>3. fingerprint' # None /\ fingerprint'.src = thr[t].src
    BY <2>1, <2>2, NoneAssumption DEF CorpusFingerprint, Fingerprint
  <2>4. \A n \in Names : /\ chroma[n] # None /\ cases[n] # None /\ Whole(n, thr[t].src[n])
                         /\ cases[n].pages = side[n] /\ cases[n].vecs = chroma[n].ver
    <3>1. HeldIsOnDisk(t) /\ RebuildTruth(t) /\ InHand(t)
      BY DEF StoreInv, DiskInv, IndInv, Progress
    <3>2. \A n \in Names : cases[n] # None
      BY <2>1, <3>1 DEF InHand
    <3>3. \A n \in Names :
            /\ chroma[n] # None
            /\ cases[n] = [pages |-> side[n], vecs |-> chroma[n].ver, by |-> chroma[n].by]
      BY <2>1, <3>1 DEF HeldIsOnDisk
    <3>4. \A n \in Names : Whole(n, thr[t].src[n])
      BY <2>1, <3>1 DEF RebuildTruth
    <3>5. ASSUME NEW n \in Names
          PROVE  cases[n].pages = side[n] /\ cases[n].vecs = chroma[n].ver
      <4>1. cases[n] = [pages |-> side[n], vecs |-> chroma[n].ver, by |-> chroma[n].by]
        BY <3>3
      <4> QED BY <4>1
    <3> QED BY <3>2, <3>3, <3>4, <3>5
  <2> QED BY <2>2, <2>3, <2>4 DEF ServesWhatItIngested, Whole
<1>5. ASSUME NEW t \in Threads, ThreadStep(t), ~LoadAll(t), ~Seal(t)
      PROVE  status = "ready" /\ UNCHANGED <<cases, fingerprint>>
  <2>1. status = "ready"
    BY <1>5 DEF ThreadStep, CheckIdentity, Ingest, Decide, Plan, OpenRecord, OpenSeal, Truncate,
       WritePartialRecord, DropCollection, CreateCollection, AddBatch, OpenSidecar,
       WriteSidecar, Backfill, OpenBackfill, WriteBackfill, InitError
  <2>2. Backfill(t) \/ OpenBackfill(t) \/ WriteBackfill(t)
    BY <1>1, <1>5, <2>1, WorkingStep, OpensRealStore
  <2> QED BY <2>1, <2>2 DEF Backfill, OpenBackfill, WriteBackfill, Truncate
<1>6. CASE Boot \/ Stop \/ (\E t \in Threads : RequestReindex(t) \/ Fail(t))
  BY <1>6 DEF Boot, Stop, RequestReindex, Fail, InitError
<1>7. ASSUME NEW t \in Threads, BackfillFails(t)
      PROVE  status = "ready" /\ UNCHANGED <<cases, fingerprint>>
  BY <1>7 DEF BackfillFails
<1>8. ASSUME NEW n \in Names, NEW v \in Versions, Push(n, v)
      PROVE  status = "ready" /\ UNCHANGED <<cases, fingerprint>>
  BY <1>8 DEF Push
<1>9. ASSUME Wipe \/ (\E m \in Models : ForeignCopy(m)) \/ UNCHANGED vars
      PROVE  status = "ready" /\ UNCHANGED <<cases, fingerprint>>
  BY <1>9 DEF Wipe, ForeignCopy, vars
<1> QED BY <1>2, <1>3, <1>4, <1>5, <1>6, <1>7, <1>8, <1>9 DEF Next

(* Every store a start may find is what its record says.                   *)
LEMMA InitStore == Init => StoreInv
<1> SUFFICES ASSUME Init PROVE StoreInv
  OBVIOUS
<1>1. IndInv /\ (\A t \in Threads : thr[t] = IdleThread) /\ status = "down"
  BY InitHolds DEF Init
<1>2. DiskInv
  BY <1>1, IdleThreadFields DEF DiskInv, HeldIsOnDisk, Filling
<1>3. \A t \in Threads : RebuildTruth(t) /\ LoadTruth(t)
  BY <1>1, IdleThreadFields DEF RebuildTruth, LoadTruth, Rebuilding, Filling, Backfilling
<1>4. RecordTruth
  <2>1. CASE FreshStore
    BY <2>1 DEF FreshStore, RecordTruth, Whole
  <2>2. ASSUME NEW m, NEW stamp, NEW id, OldStore(m, stamp, id) PROVE RecordTruth
    <3> DEFINE src == WithoutDrop(corpus)
    <3>1. /\ chroma = [n \in Names |-> Built(src[n], m, stamp)]
          /\ side = src
          /\ record = [id |-> id, fp |-> [src |-> src, model |-> m],
                       colls |-> [n \in Names |-> None]]
      BY <2>2 DEF OldStore
    <3>2. record.fp.src = src /\ \A n \in Names : record.colls[n] = None
      BY <3>1
    <3>3. \A n \in Names : chroma[n].ver = src[n] /\ chroma[n].count = Size[src[n]]
      BY <3>1 DEF Built
    <3> HIDE DEF src
    <3> QED BY <3>1, <3>2, <3>3 DEF RecordTruth, Whole
  <2> QED BY <2>1, <2>2 DEF Init
<1>5. ServesWhatItIngested
  BY <1>1 DEF ServesWhatItIngested
<1> QED BY <1>2, <1>3, <1>4, <1>5 DEF StoreInv

(* Every step keeps it, while one init thread runs at a time.              *)
LEMMA StoreStep ==
  ASSUME OneThread
  PROVE  StoreInv /\ [Next]_vars => StoreInv'
<1>1. ASSUME StoreInv, [Next]_vars PROVE DiskInv'
  BY <1>1, StepKeeps, HeldStep DEF StoreInv, DiskInv
<1> QED BY <1>1, RecordStep, RebuildStep, LoadStep, ServesStep DEF StoreInv

(* The store is what its record says in every reachable state: whatever    *)
(* kills, failures, pushes, reindexes, removals and copies came before.    *)
THEOREM StoreInductive ==
  ASSUME OneThread
  PROVE  Spec => []StoreInv
<1>1. StoreInv /\ [Next]_vars => StoreInv'
  BY StoreStep
<1> QED BY <1>1, InitStore, PTL DEF Spec

(* The sidecar and the collection behind a ready AppState are of one build,*)
(* the one its fingerprint names (_load_all, _build_all).                  *)
THEOREM ServesOneBuild ==
  ASSUME OneThread
  PROVE  Spec => []ServesWhatItIngested
<1>1. StoreInv => ServesWhatItIngested
  BY DEF StoreInv
<1> QED BY <1>1, StoreInductive, PTL

(* Half a rebuild is in no record, so the next start of _initialize builds *)
(* it again.                                                               *)
THEOREM HalfBuiltUnrecorded ==
  ASSUME OneThread
  PROVE  Spec => []MixedIsUnrecorded
<1>1. StoreInv => MixedIsUnrecorded
  BY DEF StoreInv, RecordTruth, Whole, MixedIsUnrecorded, Mixed
<1> QED BY <1>1, StoreInductive, PTL

(* While _build_all runs the record names what has landed and no more, so  *)
(* a kill keeps what was built.                                            *)
THEOREM RecordFollowsBuild ==
  ASSUME OneThread
  PROVE  Spec => []LandedIsRecorded
<1>1. StoreInv => LandedIsRecorded
  <2> SUFFICES ASSUME StoreInv, NEW t \in Threads, Rebuilding(t)
               PROVE  /\ record.id = cfg.model
                      /\ record.fp = None
                      /\ \A n \in Names :
                           record.colls[n] = IF Landed(n) THEN Wanted(thr[t].src)[n] ELSE None
    BY DEF LandedIsRecorded
  <2>1. record = LandedRecord(t)
    BY DEF StoreInv, RebuildTruth
  <2>2. ASSUME NEW n \in Names PROVE Landed(n) <=> n \in Landing(t)
    <3>1. thr[t].pc \in {"next", "create", "add", "save", "saving", "record"}
      BY DEF Rebuilding
    <3>2. thr[t].pc \in Filling => thr[t].cur \notin thr[t].kept
      BY FillingFacts
    <3> QED BY <3>1, <3>2 DEF OneThread, Landed, Landing, Filling
  <2> QED BY <2>1, <2>2 DEF LandedRecord
<1> QED BY <1>1, StoreInductive, PTL

-----------------------------------------------------------------------------
(* IndexStore implements the steps of SearchService while one init thread  *)
(* runs at a time: reading a source is Pick, a start that gets ready is    *)
(* Publish, one that errs is Refuse, and whatever happens on disk is a     *)
(* step that the callers of the service do not see.                        *)

(* Where a step of an init thread that does not return leads.              *)
LEMMA Positions ==
  ASSUME IndInv, NEW u \in Threads, ThreadStep(u), ~Finish(u)
  PROVE  \/ /\ CheckIdentity(u) \/ \E r \in Repos : Ingest(u, r)
            /\ thr'[u].pc = "ingest"
         \/ thr'[u].pc \in {"load", "plan"} \cup Building
         \/ LoadAll(u) /\ status' = "ready" /\ thr'[u].pc = "backfill"
         \/ /\ Backfill(u) \/ OpenBackfill(u)
            /\ thr'[u].pc \in {"backwrite", "backwriting"}
<1>1. thr \in [Threads -> Thread] /\ thr[u] \in Thread
  BY DEF IndInv, TypeOK
<1>2. CASE Backfill(u) \/ OpenBackfill(u) \/ WriteBackfill(u)
  BY <1>1, <1>2, GotoFields DEF Backfill, OpenBackfill, WriteBackfill, Truncate, PCs
<1>3. CASE LoadAll(u)
  <2>1. (status' = "ready" /\ Goto(u, "backfill")) \/ Goto(u, "plan")
    BY <1>3 DEF LoadAll, InitError
  <2> QED BY <1>1, <1>3, <2>1, GotoFields DEF PCs
<1>4. CASE Decide(u)
  <2>1. \E p \in {"load", "plan"} : \E src :
          thr' = [thr EXCEPT ![u].pc = p, ![u].src = src, ![u].stored = record.fp]
    BY <1>4 DEF Decide, InitError
  <2> QED BY <1>1, <2>1 DEF Thread
<1>5. CASE CheckIdentity(u) \/ (\E r \in Repos : Ingest(u, r))
  BY <1>1, <1>5 DEF CheckIdentity, Ingest, InitError, Goto, Thread
<1>6. CASE Plan(u) \/ Seal(u)
  BY <1>6, PlanFields DEF Seal, InitError, Building
<1>7. CASE \/ OpenRecord(u) \/ WritePartialRecord(u) \/ OpenSeal(u)
           \/ \E n \in Names : DropCollection(u, n)
  BY <1>7, MarkFields, DropFields DEF Moves, Building
<1>8. CASE CreateCollection(u) \/ AddBatch(u) \/ OpenSidecar(u) \/ WriteSidecar(u)
  BY <1>8, CreateFields, AddFields, OpenSidecarFields, WriteSidecarFields
  DEF Moves, Building
<1> QED BY <1>2, <1>3, <1>4, <1>5, <1>6, <1>7, <1>8 DEF ThreadStep

(* The decisions are the last source an init thread reads.                 *)
NotYetDecided ==
  \A t \in Threads : thr[t].pc \in {"gate", "ingest"} => thr[t].src[Decisions] = None

(* They stay unread until Decide reads them.                               *)
LEMMA DecidedStep ==
  ASSUME IndInv, NotYetDecided, [Next]_vars
  PROVE  NotYetDecided'
<1>1. thr \in [Threads -> Thread] /\ Decisions \in Names /\ Decisions \notin Repos
  BY NamesAssumption DEF IndInv, TypeOK, Names
<1> SUFFICES ASSUME NEW u \in Threads, thr'[u].pc \in {"gate", "ingest"}
             PROVE  thr'[u].src[Decisions] = None
  BY DEF NotYetDecided
<1>2. CASE thr'[u] = thr[u]
  BY <1>2 DEF NotYetDecided
<1>3. ASSUME NEW t \in Threads, thr' = [thr EXCEPT ![t] = StartThread(t)]
      PROVE  thr'[u].src[Decisions] = None
  <2>1. StartThread(t).src[Decisions] = None
    BY <1>1 DEF StartThread, IdleThread
  <2> QED BY <1>1, <1>2, <1>3, <2>1
<1>4. ASSUME NEW t \in Threads, Finish(t) PROVE thr'[u].src[Decisions] = None
  BY <1>1, <1>2, <1>4, FinishFields, IdleThreadFields DEF Others
<1>5. ASSUME NEW t \in Threads, CheckIdentity(t) PROVE thr'[u].src[Decisions] = None
  <2>1. CASE Goto(t, "ingest")
    <3>1. Others(t) /\ thr'[t].src = thr[t].src
      BY <1>1, <2>1, GotoFields DEF PCs
    <3> QED BY <1>2, <1>5, <3>1 DEF CheckIdentity, NotYetDecided, Others
  <2> QED BY <1>4, <1>5, <2>1 DEF CheckIdentity, InitError
<1>6. ASSUME NEW t \in Threads, NEW r \in Repos, Ingest(t, r)
      PROVE  thr'[u].src[Decisions] = None
  <2>1. thr[t] \in Thread /\ thr[t].pc = "ingest" /\ r # Decisions
    BY <1>1, <1>6 DEF Ingest
  <2>2. thr' = [thr EXCEPT ![t].src[r] = corpus[r]]
    BY <1>6 DEF Ingest
  <2>3. thr'[t].src[Decisions] = thr[t].src[Decisions]
    BY <1>1, <2>1, <2>2 DEF Thread
  <2>4. u # t => thr'[u] = thr[u]
    BY <1>1, <2>2
  <2> QED BY <1>2, <2>1, <2>3, <2>4 DEF NotYetDecided
<1>7. ASSUME NEW t \in Threads, ThreadStep(t), ~CheckIdentity(t), ~(\E r \in Repos : Ingest(t, r))
      PROVE  thr'[u] = thr[u] \/ Finish(t)
  <2>1. u = t => Finish(t)
    BY <1>7, Positions DEF Building
  <2>2. u # t => thr'[u] = thr[u]
    BY <1>1, <1>7, WorkingStep, FinishFields, GotoFields
       DEF Others, Backfill, OpenBackfill, WriteBackfill, Truncate, PCs
  <2> QED BY <2>1, <2>2
<1>8. CASE Boot \/ (\E t \in Threads : RequestReindex(t))
  BY <1>3, <1>8 DEF Boot, RequestReindex
<1>9. ASSUME NEW t \in Threads, BackfillFails(t) \/ Fail(t) PROVE Finish(t)
  BY <1>9 DEF BackfillFails, Fail, InitError
<1>10. CASE Stop
  BY <1>10, IdleThreadFields DEF Stop
<1>11. CASE \/ Wipe \/ (\E m \in Models : ForeignCopy(m)) \/ UNCHANGED vars
  BY <1>2, <1>11 DEF Wipe, ForeignCopy, vars
<1>12. ASSUME NEW n \in Names, NEW v \in Versions, Push(n, v) PROVE thr'[u] = thr[u]
  BY <1>12 DEF Push
<1> QED BY <1>2, <1>4, <1>5, <1>6, <1>7, <1>8, <1>9, <1>10, <1>11, <1>12 DEF Next

(* A backfill runs in a service that is ready.                             *)
ReadyBackfills == \A t \in Threads : thr[t].pc \in Backfilling => status = "ready"

(* With one init thread nothing takes the service out of "ready" while a   *)
(* backfill runs.                                                          *)
LEMMA ReadyStays ==
  ASSUME IndInv, OneThread, ReadyBackfills, [Next]_vars
  PROVE  ReadyBackfills'
<1>1. thr \in [Threads -> Thread]
  BY DEF IndInv, TypeOK
<1> SUFFICES \A u \in Threads : thr'[u].pc \in Backfilling => status' = "ready"
  BY DEF ReadyBackfills, Backfilling
<1> TAKE u \in Threads
<1> HAVE thr'[u].pc \in Backfilling
<1>2. CASE UNCHANGED <<thr, status>>
  BY <1>2 DEF ReadyBackfills
<1>3. \A t \in Threads : t = u
  BY DEF OneThread
<1>4. ASSUME NEW t \in Threads, Finish(t) PROVE FALSE
  BY <1>1, <1>3, <1>4, FinishFields, IdleThreadFields DEF Backfilling
<1>5. CASE Boot \/ (\E t \in Threads : RequestReindex(t))
  BY <1>1, <1>3, <1>5, StartThreadFields DEF Boot, RequestReindex, Backfilling
<1>6. CASE Stop
  BY <1>6, IdleThreadFields DEF Stop, Backfilling
<1>7. CASE \E t \in Threads : BackfillFails(t) \/ Fail(t)
  BY <1>4, <1>7 DEF BackfillFails, Fail, InitError
<1>8. CASE Wipe \/ (\E m \in Models : ForeignCopy(m)) \/ UNCHANGED vars
  BY <1>2, <1>8 DEF Wipe, ForeignCopy, vars
<1>9. ASSUME NEW n \in Names, NEW v \in Versions, Push(n, v) PROVE UNCHANGED <<thr, status>>
  BY <1>9 DEF Push
<1>10. CASE ThreadStep(u)
  <2>1. CASE Backfill(u) \/ OpenBackfill(u)
    <3>1. thr[u].pc \in Backfilling /\ status' = status
      BY <2>1 DEF Backfill, OpenBackfill, Truncate, Backfilling
    <3> QED BY <3>1 DEF ReadyBackfills
  <2> QED BY <1>4, <1>10, <2>1, Positions DEF Backfilling, Building
<1> QED BY <1>2, <1>3, <1>5, <1>6, <1>7, <1>8, <1>9, <1>10 DEF Next

(* With one init thread, it is the one the mapping looks at.               *)
LEMMA TheThread ==
  ASSUME OneThread, NEW t \in Threads
  PROVE  t = InitThread
  BY DEF OneThread, InitThread

(* What the mapped variables make of a step that changes neither the       *)
(* status nor anything a caller can see.                                   *)
LEMMA Hidden ==
  ASSUME UNCHANGED <<corpus, cfg, status>>,
         status = "indexing" => thr'[InitThread].src = thr[InitThread].src,
         status = "ready" => cases' = cases
  PROVE  UNCHANGED Service!svars
  BY DEF Service!svars

(* A start that errs.                                                      *)
LEMMA ErrorRefuses ==
  ASSUME status = "indexing", status' = "error", UNCHANGED <<corpus, cfg>>
  PROVE  Service!Refuse
  BY DEF Service!Refuse, Service!Nothing, NoCases

(* A start that gets ready over the versions it read.                      *)
LEMMA ReadyPublishes ==
  ASSUME OneThread, StoreInv, StoreInv', NEW t \in Threads, status = "indexing",
         status' = "ready",
         thr[t].src \in [Names -> Versions], fingerprint' = CorpusFingerprint(thr[t].src),
         UNCHANGED <<corpus, cfg>>
  PROVE  Service!Publish
<1> DEFINE src == thr[t].src
<1>1. t = InitThread
  BY TheThread
<1>2. fingerprint'.src = src
  BY DEF CorpusFingerprint
<1>3. /\ cases' \in [Names -> Served \cup {None}]
      /\ \A n \in Names : /\ cases'[n] # None
                          /\ cases'[n].by = cfg.model
                          /\ cases'[n].pages = src[n]
                          /\ cases'[n].vecs = src[n]
  BY <1>2 DEF StoreInv, DiskInv, IndInv, TypeOK, ServesConfiguredModel, ServesWhatItIngested
<1>4. cases' = [n \in Names |-> [pages |-> src[n], vecs |-> src[n], by |-> cfg.model]]
  <2>1. ASSUME NEW n \in Names
        PROVE  cases'[n] = [pages |-> src[n], vecs |-> src[n], by |-> cfg.model]
    BY <1>3 DEF Served
  <2> QED BY <1>3, <2>1
<1>5. \A n \in Names : src[n] # None
  BY VersionAssumption
<1> QED BY <1>1, <1>4, <1>5 DEF Service!Publish, Service!Nothing, NoCases

(* Reading a source.                                                       *)
LEMMA ReadsPick ==
  ASSUME OneThread, NEW t \in Threads, NEW n \in Names,
         status = "indexing", thr[t].src[n] = None,
         \/ thr'[t].src = [thr[t].src EXCEPT ![n] = corpus[n]]
         \/ n = Decisions /\ thr'[t].src = [thr[t].src EXCEPT ![n] = Synth],
         UNCHANGED <<corpus, cfg, status>>
  PROVE  Service!Pick(n)
<1>1. t = InitThread
  BY TheThread
<1> QED BY <1>1 DEF Service!Pick

(* Every step of an init thread is a step of the service or hidden.        *)
LEMMA ThreadImplements ==
  ASSUME OneThread, StoreInv, StoreInv', NotYetDecided, ReadyBackfills, NEW t \in Threads,
         ThreadStep(t)
  PROVE  [Service!Next]_Service!svars
<1>1. /\ IndInv /\ thr \in [Threads -> Thread] /\ thr[t] \in Thread /\ t = InitThread
  BY TheThread DEF StoreInv, DiskInv, IndInv, TypeOK
<1>2. CASE Backfill(t) \/ OpenBackfill(t) \/ WriteBackfill(t)
  <2>1. UNCHANGED <<corpus, cfg, status, cases>>
    BY <1>2 DEF Backfill, OpenBackfill, WriteBackfill, Truncate
  <2>2. Finish(t) \/ thr'[t].src = thr[t].src
    BY <1>1, <1>2, GotoFields DEF Backfill, OpenBackfill, WriteBackfill, Truncate, PCs
  <2>3. status # "indexing"
    BY <1>2 DEF ReadyBackfills, Backfill, OpenBackfill, WriteBackfill, Truncate, Backfilling
  <2> QED BY <1>1, <2>1, <2>2, <2>3, Hidden
<1> SUFFICES ASSUME ~Backfill(t), ~OpenBackfill(t), ~WriteBackfill(t)
             PROVE  [Service!Next]_Service!svars
  BY <1>2
<1>3. status = "indexing" /\ UNCHANGED <<corpus, cfg>>
  <2>1. thr[t].pc \in Working
    BY <1>1, WorkingStep
  <2>2. UNCHANGED corpus
    BY DEF ThreadStep, CheckIdentity, Ingest, Decide, LoadAll, Plan, OpenRecord, OpenSeal,
       Truncate, WritePartialRecord, DropCollection, CreateCollection, AddBatch,
       OpenSidecar, WriteSidecar, Seal
  <2>3. UNCHANGED cfg
    BY DEF ThreadStep, CheckIdentity, Ingest, Decide, LoadAll, Plan, OpenRecord, OpenSeal,
       Truncate, WritePartialRecord, DropCollection, CreateCollection, AddBatch,
       OpenSidecar, WriteSidecar, Seal, InitError
  <2> QED BY <1>1, <2>1, <2>2, <2>3, OpensRealStore
<1>4. ASSUME status' = "error" PROVE Service!Next
  BY <1>3, <1>4, ErrorRefuses DEF Service!Next
<1>5. CASE InitError(t)
  BY <1>4, <1>5 DEF InitError
<1>6. ASSUME UNCHANGED status, thr'[t].src = thr[t].src
      PROVE  UNCHANGED Service!svars
  BY <1>1, <1>3, <1>6, Hidden
<1>7. CASE CheckIdentity(t) /\ ~InitError(t)
  BY <1>1, <1>6, <1>7, GotoFields DEF CheckIdentity, PCs
<1>8. ASSUME NEW r \in Repos, Ingest(t, r) PROVE Service!Next
  <2>1. thr[t].src[r] = None /\ UNCHANGED status /\ r \in Names
    BY <1>8 DEF Ingest, Names
  <2>2. thr'[t].src = [thr[t].src EXCEPT ![r] = corpus[r]]
    BY <1>1, <1>8 DEF Ingest, Thread
  <2>3. Service!Pick(r)
    BY <1>1, <1>3, <2>1, <2>2, ReadsPick
  <2> QED BY <2>1, <2>3 DEF Service!Next
<1>9. CASE Decide(t) /\ ~InitError(t)
  <2>1. /\ thr[t].src[Decisions] = None /\ UNCHANGED status /\ Decisions \in Names
        /\ DecisionsSource \in {corpus[Decisions], Synth}
    BY <1>9 DEF Decide, NotYetDecided, DecisionsSource, Names
  <2>2. thr'[t].src = [thr[t].src EXCEPT ![Decisions] = DecisionsSource]
    <3> DEFINE src == [thr[t].src EXCEPT ![Decisions] = DecisionsSource]
    <3>1. \E p \in {"load", "plan"} :
            thr' = [thr EXCEPT ![t].pc = p, ![t].src = src, ![t].stored = record.fp]
      BY <1>9 DEF Decide
    <3> HIDE DEF src
    <3>2. thr'[t].src = src
      BY <1>1, <3>1 DEF Thread
    <3> QED BY <3>2 DEF src
  <2>3. Service!Pick(Decisions)
    BY <1>1, <1>3, <2>1, <2>2, ReadsPick
  <2> QED BY <2>1, <2>3 DEF Service!Next
<1>10. CASE LoadAll(t) /\ ~InitError(t)
  <2>1. CASE status' = "ready"
    <3>1. thr[t].src \in [Names -> Versions]
      BY <1>1, <1>10 DEF LoadAll, IndInv, Progress, Ingested
    <3>2. fingerprint' = CorpusFingerprint(thr[t].src)
      BY <1>10, <2>1, LoadedWhole
    <3> QED BY <1>3, <2>1, <3>1, <3>2, ReadyPublishes DEF Service!Next
  <2>2. CASE status' # "ready"
    <3>1. Goto(t, "plan") /\ UNCHANGED status
      BY <1>10, <2>2 DEF LoadAll
    <3> QED BY <1>1, <1>6, <3>1, GotoFields DEF PCs
  <2> QED BY <2>1, <2>2
<1>11. CASE Plan(t) /\ ~InitError(t)
  BY <1>1, <1>6, <1>11, PlanFields
<1>12. CASE OpenRecord(t) \/ WritePartialRecord(t) \/ OpenSeal(t)
  BY <1>1, <1>6, <1>12, MarkFields DEF Moves
<1>13. ASSUME NEW n \in Names, DropCollection(t, n) PROVE UNCHANGED Service!svars
  BY <1>1, <1>6, <1>13, DropFields
<1>14. CASE CreateCollection(t) \/ AddBatch(t) \/ OpenSidecar(t) \/ WriteSidecar(t)
  BY <1>1, <1>6, <1>14, CreateFields, AddFields, OpenSidecarFields, WriteSidecarFields
  DEF Moves
<1>15. CASE Seal(t)
  <2>1. thr[t].src \in [Names -> Versions]
    BY <1>1, <1>15 DEF Seal, IndInv, Progress, Ingested
  <2> QED BY <1>3, <1>15, <2>1, ReadyPublishes DEF Seal, Service!Next
<1> QED BY <1>5, <1>7, <1>8, <1>9, <1>10, <1>11, <1>12, <1>13, <1>14, <1>15 DEF ThreadStep

(* Every step of the protocol is a step of the service or hidden.          *)
LEMMA StepImplements ==
  ASSUME OneThread, StoreInv, StoreInv', NotYetDecided, ReadyBackfills, [Next]_vars
  PROVE  [Service!Next]_Service!svars
<1>1. /\ thr \in [Threads -> Thread] /\ corpus' \in [Names -> Versions \ {Synth}]
      /\ corpus \in [Names -> Versions \ {Synth}] /\ cfg'.model \in Models
      /\ \A t \in Threads : t = InitThread
  BY TheThread DEF StoreInv, DiskInv, IndInv, TypeOK
<1>2. ASSUME NEW t \in Threads, ThreadStep(t) PROVE [Service!Next]_Service!svars
  BY <1>2, ThreadImplements
<1>3. ASSUME NEW t \in Threads, thr' = [thr EXCEPT ![t] = StartThread(t)]
      PROVE  thr'[InitThread].src = NoCases
  BY <1>1, <1>3 DEF StartThread, IdleThread, NoCases
<1>4. CASE Boot
  <2>1. thr'[InitThread].src = NoCases
    BY <1>3, <1>4 DEF Boot
  <2>2. Service!Start
    BY <1>1, <1>4, <2>1 DEF Boot, Service!Start, Service!Begin, Service!Nothing, NoCases
  <2> QED BY <2>2 DEF Service!Next
<1>5. CASE Stop
  <2>1. Service!Stop
    BY <1>5 DEF Stop, Service!Stop, Service!Nothing, NoCases
  <2> QED BY <2>1 DEF Service!Next
<1>6. ASSUME NEW t \in Threads, RequestReindex(t) PROVE Service!Next
  <2>1. thr'[InitThread].src = NoCases
    BY <1>3, <1>6 DEF RequestReindex
  <2>2. Service!Reindex
    BY <1>6, <2>1 DEF RequestReindex, Service!Reindex, Service!Begin, Service!Nothing, NoCases
  <2> QED BY <2>2 DEF Service!Next
<1>7. ASSUME NEW t \in Threads, BackfillFails(t) PROVE UNCHANGED Service!svars
  <2>1. status # "indexing"
    BY <1>7 DEF BackfillFails, ReadyBackfills, Backfilling
  <2> QED BY <1>7, <2>1, Hidden DEF BackfillFails
<1>8. ASSUME NEW t \in Threads, Fail(t) PROVE Service!Next
  <2>1. status = "indexing"
    BY <1>8, OpensRealStore DEF StoreInv, DiskInv, Fail, Working, PCs
  <2> QED BY <1>8, <2>1, ErrorRefuses DEF Fail, InitError, Service!Next
<1>9. ASSUME NEW n \in Names, NEW v \in Versions, Push(n, v) PROVE Service!Next
  <2>1. Service!Push(n)
    BY <1>1, <1>9 DEF Push, Service!Push
  <2> QED BY <2>1 DEF Service!Next
<1>10. CASE Wipe \/ (\E m \in Models : ForeignCopy(m)) \/ UNCHANGED vars
  BY <1>10, Hidden DEF Wipe, ForeignCopy, vars
<1> QED BY <1>2, <1>4, <1>5, <1>6, <1>7, <1>8, <1>9, <1>10 DEF Next

(* The start-up protocol of state.py implements the promise of the service:*)
(* what a ready service serves is one version of every collection, read    *)
(* since this indexing began and embedded by the configured model.         *)
THEOREM ImplementsSteps ==
  ASSUME OneThread
  PROVE  Spec => Service!Init /\ [][Service!Next]_Service!svars
<1>1. Init => NotYetDecided /\ ReadyBackfills
  <2> SUFFICES ASSUME Init PROVE NotYetDecided /\ ReadyBackfills
    OBVIOUS
  <2>1. \A t \in Threads : thr[t].pc = "idle"
    BY IdleThreadFields DEF Init
  <2> QED BY <2>1 DEF NotYetDecided, ReadyBackfills, Backfilling
<1>2. ASSUME StoreInv, NotYetDecided, ReadyBackfills, [Next]_vars
      PROVE  NotYetDecided' /\ ReadyBackfills'
  <2>1. IndInv
    BY <1>2 DEF StoreInv, DiskInv
  <2>2. NotYetDecided'
    BY <1>2, <2>1, DecidedStep
  <2>3. ReadyBackfills'
    BY <1>2, <2>1, ReadyStays
  <2> QED BY <2>2, <2>3
<1>3. Init => Service!Init
  BY ModelAssumption DEF Init, Service!Init, Service!Nothing, NoCases
<1>4. ASSUME StoreInv, StoreInv', NotYetDecided, ReadyBackfills, [Next]_vars
      PROVE  [Service!Next]_Service!svars
  BY <1>4, StepImplements
<1> QED BY <1>1, <1>2, <1>3, <1>4, StoreInductive, PTL DEF Spec
=============================================================================
