----------------------------- MODULE IndexStore -----------------------------
(***************************************************************************)
(* The vector store of the retrieval service and the start-up protocol     *)
(* that fills, reuses, refuses or rebuilds it                              *)
(* (estate/mcp-service/gsj_mcp_service/state.py and index.py).             *)
(*                                                                         *)
(* Three things live on disk and are written one after the other: a Chroma *)
(* collection per case plus one for the decisions, a JSON sidecar per      *)
(* collection, and fingerprint.json, the record of what the store holds.   *)
(* A start reads the record, then loads the store, rebuilds part of it, or *)
(* refuses.  The process may be killed between any two writes; the corpus, *)
(* the configured model and the rebuild policy may have changed by the     *)
(* next start; /admin/reindex runs the same protocol inside a live         *)
(* process.                                                                *)
(***************************************************************************)
EXTENDS Naturals

CONSTANTS
  Repos,         \* case ids of config.source.repos
  Decisions,     \* the name of the decisions collection
  Versions,      \* what an index is computed from: commit and chunking, or a drop
  Synth,         \* the generated decisions corpus, used with no decisions.path
  Models,        \* embedding.model @ embedding.revision
  Legacy,        \* PRE_CP57_STORE_IDENTITY
  Dim,           \* vector width of each model
  Size,          \* add batches a version takes: its chunk count
  Threads,       \* init threads that may be alive at once (bound)
  None,          \* no value
  MaxStops,      \* bound on process stops and kills
  MaxPushes,     \* bound on corpus changes
  MaxReindex,    \* bound on accepted reindex triggers
  MaxWipes,      \* bound on removals of chroma/ behind the service
  MaxCopies,     \* bound on copies of another estate's chroma/
  MaxFailures    \* bound on exceptions inside an init thread

ASSUME NamesAssumption   == Decisions \notin Repos
ASSUME VersionAssumption == Synth \in Versions /\ None \notin Versions
ASSUME ModelAssumption   == Legacy \in Models /\ None \notin Models
ASSUME SizeAssumption    == Size \in [Versions -> Nat \ {0}]
ASSUME DimAssumption     == Dim \in [Models -> Nat]

Names    == Repos \cup {Decisions}
Policies == {"if-stale", "never", "always"}

(* What one collection is computed from (collection_fingerprints), and the *)
(* whole store (corpus_fingerprint).  The hash is injective on both.       *)
Want        == [ver : Versions, model : Models]
Fingerprint == [src : [Names -> Versions], model : Models]

(* fingerprint.json as its readers see it: a missing, torn or unparsable   *)
(* file reads exactly like an empty document.                              *)
Record   == [id    : Models \cup {None},
             fp    : Fingerprint \cup {None},
             colls : [Names -> Want \cup {None}]]
NoRecord == [id |-> None, fp |-> None, colls |-> [n \in Names |-> None]]

(* A Chroma collection: its metadata stamp (None before CP-57), the model  *)
(* whose vectors it really holds, the version they were computed from and  *)
(* how many batches have been added.                                       *)
Collection == [stamp : Models \cup {None}, by : Models, ver : Versions, count : Nat]

(* What AppState serves for one collection: page texts of the sidecar, and *)
(* vectors of the collection.                                              *)
Served == [pages : Versions, vecs : Versions, by : Models]

ASSUME NoneAssumption == /\ None \notin Fingerprint /\ None \notin Want
                         /\ None \notin Collection /\ None \notin Served

PCs == {"idle", "gate", "ingest", "load", "plan", "mark", "marking", "next",
        "create", "add", "save", "saving", "record", "recording", "sealing",
        "backfill", "backwrite", "backwriting"}
Thread == [pc     : PCs,
           src    : [Names -> Versions \cup {None}],
           stored : Fingerprint \cup {None},
           kept   : SUBSET Names,
           todo   : SUBSET Names,
           cur    : Names]
IdleThread == [pc |-> "idle", src |-> [n \in Names |-> None], stored |-> None,
               kept |-> {}, todo |-> {}, cur |-> Decisions]

VARIABLES
  corpus,       \* head of each case repository, and the drop at decisions.path
  chroma,       \* the collections under <index.path>/chroma
  side,         \* the sidecars; None when missing or torn
  record,       \* fingerprint.json
  cfg,          \* the configuration of the running process
  status,       \* AppState.status, or "down" with no process
  cases,        \* AppState.cases and AppState.decisions
  fingerprint,  \* AppState.fingerprint
  client,       \* the cached Chroma client: "none", "disk" or "unlinked"
  ghost,        \* the collections an unlinked client still sees
  thr,          \* the init threads
  used          \* how much of each bound is spent

disk    == <<chroma, side, record>>
process == <<cfg, status, cases, fingerprint>>
world   == <<corpus, used>>
handle  == <<client, ghost>>
vars    == <<corpus, chroma, side, record, cfg, status, cases, fingerprint,
             client, ghost, thr, used>>

NoCases == [n \in Names |-> None]

Spend(b, limit) == used[b] < limit /\ used' = [used EXCEPT ![b] = @ + 1]

-----------------------------------------------------------------------------
(* Fingerprints and the checks of a load.                                  *)

CorpusFingerprint(src)  == [src |-> src, model |-> cfg.model]
Wanted(src)             == [n \in Names |-> [ver |-> src[n], model |-> cfg.model]]
WithoutDrop(src)        == [src EXCEPT ![Decisions] = Synth]
Kind(v)                 == IF v = Synth THEN "synthetic" ELSE "rii"

(* What the cached client shows: after chroma/ was removed behind a client *)
(* that has it open, the unlinked store.                                   *)
View == IF client = "unlinked" THEN ghost ELSE chroma

(* load_case_index and load_decisions_index: an unreadable sidecar, no     *)
(* collection or a count off the sidecar's is corruption; a stamp or a     *)
(* width of another model is a StoreMismatchError, looked at only then.    *)
Readable(n)   == /\ side[n] # None
                 /\ View[n] # None
                 /\ View[n].count = Size[side[n]]
(* Mutant: the stamp is not looked at, only the width.                     *)
SameWidthOnly(n) == Dim[View[n].by] = Dim[cfg.model]
SameModel(n)  == /\ View[n].stamp \in {None, cfg.model}
                 /\ Dim[View[n].by] = Dim[cfg.model]
OtherModel(n) == Readable(n) /\ ~SameModel(n)
Loads(n)      == Readable(n) /\ SameModel(n)
Loaded(n)     == [pages |-> side[n], vecs |-> View[n].ver, by |-> View[n].by]

(* _reusable: which collections of the stored index are current.           *)
Reusable(t, src) ==
  IF thr[t].stored = CorpusFingerprint(src) THEN Names
  ELSE IF \E n \in Names : record.colls[n] # None
         THEN {n \in Names : record.colls[n] = Wanted(src)[n]}
  ELSE IF /\ thr[t].stored # None
          /\ cfg.drop
          /\ thr[t].stored = CorpusFingerprint(WithoutDrop(src))
         THEN Repos
  ELSE {}

-----------------------------------------------------------------------------
(* The states a store may be found in: none; one written before CP-57      *)
(* (no identity, no stamps); one written before CP-79 (no per-collection   *)
(* record).                                                                *)

Built(v, m, stamp) == [stamp |-> stamp, by |-> m, ver |-> v, count |-> Size[v]]

FreshStore == /\ chroma = [n \in Names |-> None]
              /\ side = [n \in Names |-> None]
              /\ record = NoRecord

OldStore(m, stamp, id) ==
  LET src == WithoutDrop(corpus)
  IN  /\ chroma = [n \in Names |-> Built(src[n], m, stamp)]
      /\ side = src
      /\ record = [id |-> id, fp |-> [src |-> src, model |-> m],
                   colls |-> [n \in Names |-> None]]

Init ==
  /\ corpus \in [Names -> Versions \ {Synth}]
  /\ \/ FreshStore
     \/ OldStore(Legacy, None, None)
     \/ \E m \in Models : OldStore(m, m, m)
  /\ cfg = [model |-> Legacy, policy |-> "if-stale", drop |-> FALSE]
  /\ status = "down"
  /\ cases = NoCases
  /\ fingerprint = None
  /\ client = "none"
  /\ ghost = [n \in Names |-> None]
  /\ thr = [t \in Threads |-> IdleThread]
  /\ used = [stops |-> 0, pushes |-> 0, reindex |-> 0,
             wipes |-> 0, copies |-> 0, failures |-> 0]

-----------------------------------------------------------------------------
(* The process.                                                            *)

StartThread(t) == [IdleThread EXCEPT !.pc = "gate"]

(* __main__ builds an AppState from the configuration and starts the init  *)
(* thread; the configuration may differ from the last start's.             *)
Boot ==
  /\ status = "down"
  /\ cfg' \in [model : Models, policy : Policies, drop : BOOLEAN]
  /\ \E t \in Threads : thr' = [thr EXCEPT ![t] = StartThread(t)]
  /\ status' = "indexing"
  /\ UNCHANGED <<disk, world, handle, cases, fingerprint>>

(* A stop or a kill, between any two steps.                                *)
Stop ==
  /\ status # "down"
  /\ Spend("stops", MaxStops)
  /\ status' = "down"
  /\ cases' = NoCases
  /\ fingerprint' = None
  /\ client' = "none"
  /\ ghost' = [n \in Names |-> None]
  /\ thr' = [t \in Threads |-> IdleThread]
  /\ UNCHANGED <<disk, corpus, cfg>>

(* Mutant: the reindex keeps the cached client.                            *)
EvictNothing == UNCHANGED handle

(* Eviction of the cached Chroma client: the next one opens the real store. *)
Evict == client' = "none" /\ ghost' = [n \in Names |-> None]

(* request_reindex, the accepted case: with status "indexing" it answers    *)
(* already-indexing and changes nothing.                                    *)
RequestReindex(t) ==
  /\ status \in {"ready", "error"}
  /\ thr[t].pc = "idle"
  /\ Spend("reindex", MaxReindex)
  /\ status' = "indexing"
  /\ cases' = NoCases
  /\ fingerprint' = None
  /\ Evict
  /\ thr' = [thr EXCEPT ![t] = StartThread(t)]
  /\ UNCHANGED <<disk, corpus, cfg>>

-----------------------------------------------------------------------------
(* The steps of an init thread.                                            *)

At(t, p)   == thr[t].pc = p
Goto(t, p) == thr' = [thr EXCEPT ![t].pc = p]
Finish(t)  == thr' = [thr EXCEPT ![t] = IdleThread]

(* initialize: every exception lands in status "error".                    *)
InitError(t) == /\ status' = "error"
                /\ Finish(t)
                /\ UNCHANGED <<cfg, cases, fingerprint>>

(* _check_store_identity.                                                  *)
StoreIdentity == IF record.id # None THEN record.id
                 ELSE IF record.fp # None THEN Legacy ELSE None

(* Mutants: the gate holds only under "never"; the gate is not skipped     *)
(* under "always".                                                         *)
GateOnlyUnderNever == cfg.policy = "never" /\ StoreIdentity \notin {None, cfg.model}
GateUnderAlways    == StoreIdentity \notin {None, cfg.model}

GateRefuses   == cfg.policy # "always" /\ StoreIdentity \notin {None, cfg.model}

CheckIdentity(t) ==
  /\ At(t, "gate")
  /\ \/ /\ GateRefuses
        /\ InitError(t)
     \/ /\ ~GateRefuses
        /\ Goto(t, "ingest")
        /\ UNCHANGED process
  /\ UNCHANGED <<disk, world, handle>>

(* ingest_case for one repository: its head when it is fetched.            *)
Ingest(t, r) ==
  /\ At(t, "ingest")
  /\ thr[t].src[r] = None
  /\ thr' = [thr EXCEPT ![t].src[r] = corpus[r]]
  /\ UNCHANGED <<disk, world, handle, process>>

(* Mutant: without a drop the decisions have no source.                    *)
DropOrNothing == IF cfg.drop THEN corpus[Decisions] ELSE None

(* _load_drop: the drop at decisions.path, or the generated corpus.        *)
DecisionsSource == IF cfg.drop THEN corpus[Decisions] ELSE Synth

(* The computed and the stored fingerprint, and the policy.                *)
Decide(t) ==
  LET src  == [thr[t].src EXCEPT ![Decisions] = DecisionsSource]
      same == record.fp = CorpusFingerprint(src)
      step(p) == /\ thr' = [thr EXCEPT ![t].pc = p, ![t].src = src, ![t].stored = record.fp]
                 /\ UNCHANGED process
  IN  /\ At(t, "ingest")
      /\ \A r \in Repos : thr[t].src[r] # None
      /\ \/ cfg.policy = "never" /\ ~same /\ InitError(t)
         \/ cfg.policy # "always" /\ same /\ step("load")
         \/ cfg.policy = "if-stale" /\ ~same /\ step("plan")
         \/ cfg.policy = "always" /\ step("plan")
      /\ UNCHANGED <<disk, world, handle>>

(* _load_all.  The repositories are loaded before the decisions, and the   *)
(* first collection that fails decides how: another model's vectors, and   *)
(* anything under "never", refuse; corruption under "if-stale" rebuilds.   *)
(* What a failing load already put into cases is dropped by whatever runs  *)
(* next and is never served, so it is not kept.                            *)
LoadAll(t) ==
  /\ At(t, "load")
  /\ IF client = "unlinked" THEN UNCHANGED client ELSE client' = "disk"
  /\ \/ /\ \A n \in Names : Loads(n)
        /\ cases' = [n \in Names |-> Loaded(n)]
        /\ fingerprint' = CorpusFingerprint(thr[t].src)
        /\ status' = "ready"
        /\ Goto(t, "backfill")
        /\ UNCHANGED cfg
     \/ \E n \in Names :
          /\ ~Loads(n)
          /\ n = Decisions => \A r \in Repos : Loads(r)
          /\ \/ (OtherModel(n) \/ cfg.policy = "never") /\ InitError(t)
             \/ /\ ~Readable(n) /\ cfg.policy = "if-stale"
                /\ Goto(t, "plan")
                /\ UNCHANGED process
  /\ UNCHANGED <<disk, world, ghost>>

(* The collections that are kept: each is loaded and re-checked, and a     *)
(* decisions sidecar must be of the configured kind.                       *)
Keeps(t, n) ==
  /\ cfg.policy # "always"
  /\ n \in Reusable(t, thr[t].src)
  /\ Loads(n)
  /\ n = Decisions => (Kind(side[n]) = "rii" <=> cfg.drop)

PlanRefuses(t) == /\ cfg.policy # "always"
                  /\ \E n \in Reusable(t, thr[t].src) : OtherModel(n)

Plan(t) ==
  LET kept == {n \in Names : Keeps(t, n)}
  IN  /\ At(t, "plan")
      /\ IF client = "unlinked" THEN UNCHANGED client ELSE client' = "disk"
      /\ \/ /\ PlanRefuses(t)
            /\ InitError(t)
         \/ /\ ~PlanRefuses(t)
            /\ cases' = [n \in Names |-> IF n \in kept THEN Loaded(n) ELSE None]
            /\ thr' = [thr EXCEPT ![t].pc = "mark", ![t].kept = kept,
                                  ![t].todo = Names \ kept]
            /\ UNCHANGED <<cfg, status, fingerprint>>
      /\ UNCHANGED <<disk, world, ghost>>

(* write_fingerprint opens the file for writing, which empties it, and     *)
(* then writes the document: two steps, and a kill may fall between them.  *)
Truncate(t, from, to) ==
  /\ At(t, from)
  /\ record' = NoRecord
  /\ Goto(t, to)
  /\ UNCHANGED <<chroma, side, world, handle, process>>

(* Mutants: the record of a rebuild keeps the old fingerprint; names the   *)
(* collections still to build; does not name the landed ones.              *)
RecordKeepingFingerprint(t) ==
  [id |-> cfg.model, fp |-> thr[t].stored,
   colls |-> [n \in Names |->
                IF n \in thr[t].kept THEN Wanted(thr[t].src)[n] ELSE None]]
RecordOfAllWanted(t)  == [id |-> cfg.model, fp |-> None, colls |-> Wanted(thr[t].src)]
RecordOfNothing(t)    == [NoRecord EXCEPT !.id = cfg.model]

PartialRecord(t) ==
  [id |-> cfg.model, fp |-> None,
   colls |-> [n \in Names |->
                IF n \in thr[t].kept THEN Wanted(thr[t].src)[n] ELSE None]]
FullRecord(t) ==
  [id |-> cfg.model, fp |-> CorpusFingerprint(thr[t].src), colls |-> Wanted(thr[t].src)]

(* The record first, before anything is destroyed; and again after each    *)
(* case collection.                                                        *)
OpenRecord(t) == Truncate(t, "mark", "marking") \/ Truncate(t, "record", "recording")

WritePartialRecord(t) ==
  /\ thr[t].pc \in {"marking", "recording"}
  /\ record' = PartialRecord(t)
  /\ Goto(t, "next")
  /\ UNCHANGED <<chroma, side, world, handle, process>>

(* _recreate_collection for the next collection to build, cases first.     *)
DropCollection(t, n) ==
  /\ At(t, "next")
  /\ n \in thr[t].todo
  /\ n = Decisions => thr[t].todo = {Decisions}
  /\ chroma' = [chroma EXCEPT ![n] = None]
  /\ thr' = [thr EXCEPT ![t].pc = "create", ![t].cur = n]
  /\ UNCHANGED <<side, record, world, handle, process>>

CreateCollection(t) ==
  LET n == thr[t].cur
  IN  /\ At(t, "create")
      /\ chroma' = [chroma EXCEPT ![n] =
                      [stamp |-> cfg.model, by |-> cfg.model,
                       ver |-> thr[t].src[n], count |-> 0]]
      /\ Goto(t, "add")
      /\ UNCHANGED <<side, record, world, handle, process>>

(* One add batch.                                                          *)
AddBatch(t) ==
  LET n == thr[t].cur
  IN  /\ At(t, "add")
      /\ chroma' = [chroma EXCEPT ![n].count = @ + 1]
      /\ Goto(t, IF chroma[n].count + 1 = Size[thr[t].src[n]] THEN "save" ELSE "add")
      /\ UNCHANGED <<side, record, world, handle, process>>

(* save_case_index and save_decisions_index, a file emptied and written.   *)
OpenSidecar(t) ==
  /\ At(t, "save")
  /\ side' = [side EXCEPT ![thr[t].cur] = None]
  /\ Goto(t, "saving")
  /\ UNCHANGED <<chroma, record, world, handle, process>>

WriteSidecar(t) ==
  LET n == thr[t].cur
      v == thr[t].src[n]
  IN  /\ At(t, "saving")
      /\ side' = [side EXCEPT ![n] = v]
      /\ cases' = [cases EXCEPT ![n] = [pages |-> v, vecs |-> v, by |-> cfg.model]]
      /\ thr' = [thr EXCEPT ![t].pc   = IF n = Decisions THEN "next" ELSE "record",
                            ![t].kept = @ \cup {n},
                            ![t].todo = @ \ {n}]
      /\ UNCHANGED <<chroma, record, world, handle, cfg, status, fingerprint>>

(* The final record, and ready.                                            *)
OpenSeal(t) == thr[t].todo = {} /\ Truncate(t, "next", "sealing")

Seal(t) ==
  /\ At(t, "sealing")
  /\ record' = FullRecord(t)
  /\ fingerprint' = CorpusFingerprint(thr[t].src)
  /\ status' = "ready"
  /\ Finish(t)
  /\ UNCHANGED <<chroma, side, world, handle, cfg, cases>>

(* _backfill_identity, after status is "ready" already: give a store of an *)
(* older format the record it lacks.                                       *)
Backfill(t) ==
  /\ At(t, "backfill")
  /\ IF record.id # None /\ \E n \in Names : record.colls[n] # None
       THEN Finish(t)
       ELSE Goto(t, "backwrite")
  /\ UNCHANGED <<disk, world, handle, process>>

OpenBackfill(t) == Truncate(t, "backwrite", "backwriting")

WriteBackfill(t) ==
  /\ At(t, "backwriting")
  /\ record' = FullRecord(t)
  /\ Finish(t)
  /\ UNCHANGED <<chroma, side, world, handle, process>>

(* An OSError of the backfill is a warning; the file keeps what the failed *)
(* write left in it.                                                       *)
BackfillFails(t) ==
  /\ thr[t].pc \in {"backwrite", "backwriting"}
  /\ Spend("failures", MaxFailures)
  /\ Finish(t)
  /\ UNCHANGED <<disk, corpus, handle, process>>

(* Any other exception: git, the encoder, Chroma, the file system.         *)
Fail(t) ==
  /\ thr[t].pc \in PCs \ {"idle", "gate", "backfill", "backwrite", "backwriting"}
  /\ Spend("failures", MaxFailures)
  /\ InitError(t)
  /\ UNCHANGED <<disk, corpus, handle>>

-----------------------------------------------------------------------------
(* The environment.                                                        *)

(* A push to a case repository, or another drop at decisions.path.         *)
Push(n, v) ==
  /\ v # corpus[n]
  /\ Spend("pushes", MaxPushes)
  /\ corpus' = [corpus EXCEPT ![n] = v]
  /\ UNCHANGED <<disk, handle, process, thr>>

(* chroma/ removed while nothing is being indexed.  A client that has it   *)
(* open keeps the unlinked store.                                          *)
Wipe ==
  /\ status # "indexing"
  /\ \E n \in Names : chroma[n] # None
  /\ Spend("wipes", MaxWipes)
  /\ chroma' = [n \in Names |-> None]
  /\ IF client = "disk" THEN client' = "unlinked" /\ ghost' = chroma
                        ELSE UNCHANGED handle
  /\ UNCHANGED <<side, record, corpus, process, thr>>

(* chroma/ of an estate over the same corpus, embedded by model m, copied  *)
(* in while the service is down.                                           *)
ForeignCopy(m) ==
  /\ status = "down"
  /\ \E n \in Names : chroma[n] # None
  /\ Spend("copies", MaxCopies)
  /\ chroma' = [n \in Names |-> IF chroma[n] = None THEN None
                                ELSE [chroma[n] EXCEPT !.stamp = m, !.by = m]]
  /\ UNCHANGED <<side, record, corpus, handle, process, thr>>

-----------------------------------------------------------------------------
ThreadStep(t) ==
  \/ CheckIdentity(t)
  \/ \E r \in Repos : Ingest(t, r)
  \/ Decide(t)
  \/ LoadAll(t)
  \/ Plan(t)
  \/ OpenRecord(t)
  \/ WritePartialRecord(t)
  \/ \E n \in Names : DropCollection(t, n)
  \/ CreateCollection(t)
  \/ AddBatch(t)
  \/ OpenSidecar(t)
  \/ WriteSidecar(t)
  \/ OpenSeal(t)
  \/ Seal(t)
  \/ Backfill(t)
  \/ OpenBackfill(t)
  \/ WriteBackfill(t)

Next ==
  \/ Boot
  \/ Stop
  \/ \E t \in Threads : RequestReindex(t)
  \/ \E t \in Threads : ThreadStep(t)
  \/ \E t \in Threads : BackfillFails(t)
  \/ \E t \in Threads : Fail(t)
  \/ \E n \in Names, v \in Versions \ {Synth} : Push(n, v)
  \/ Wipe
  \/ \E m \in Models : ForeignCopy(m)

(* An init thread runs until it returns; nothing obliges anyone to start a *)
(* process, push, stop or reindex.                                         *)
Fairness == \A t \in Threads : WF_vars(ThreadStep(t))

Spec == Init /\ [][Next]_vars /\ Fairness
-----------------------------------------------------------------------------
(* Properties.                                                             *)

(* The variables hold what the code can put in them.                       *)
TypeOK ==
  /\ corpus \in [Names -> Versions \ {Synth}]
  /\ chroma \in [Names -> Collection \cup {None}]
  /\ side \in [Names -> Versions \cup {None}]
  /\ record \in Record
  /\ cfg \in [model : Models, policy : Policies, drop : BOOLEAN]
  /\ status \in {"down", "indexing", "ready", "error"}
  /\ cases \in [Names -> Served \cup {None}]
  /\ fingerprint \in Fingerprint \cup {None}
  /\ client \in {"none", "disk", "unlinked"}
  /\ ghost \in [Names -> Collection \cup {None}]
  /\ thr \in [Threads -> Thread]

(* Vectors of one model are never served under another: whatever kills,    *)
(* re-pins, reindexes and copies happened before, every collection behind  *)
(* a ready service was embedded by the model the process is configured     *)
(* with (StoreMismatchError: "never rebuilt over, never served").          *)
ServesConfiguredModel ==
  status = "ready" => \A n \in Names : cases[n] # None /\ cases[n].by = cfg.model

(* A ready service serves, for every collection, the page texts and the    *)
(* vectors of the version its fingerprint names: the sidecar and the       *)
(* collection are never of two different builds, however the last build    *)
(* was interrupted.                                                        *)
ServesWhatItIngested ==
  status = "ready" =>
    /\ fingerprint # None
    /\ \A n \in Names :
         /\ cases[n] # None
         /\ cases[n].pages = fingerprint.src[n]
         /\ cases[n].vecs = fingerprint.src[n]

(* A collection that is half built, or whose sidecar is of another build,  *)
(* is named by no record: a kill at any step of a rebuild leaves a store   *)
(* the next start rebuilds, never one it loads.                            *)
Mixed(n) == /\ chroma[n] # None
            /\ \/ side[n] # chroma[n].ver
               \/ chroma[n].count # Size[chroma[n].ver]
MixedIsUnrecorded ==
  \A n \in Names : Mixed(n) => record.fp = None /\ record.colls[n] = None

(* A store whose record names another model is never written over: only a  *)
(* start under index.rebuild "always" may replace such a record.           *)
OtherModelKept ==
  [][ record' # record =>
        cfg.policy = "always" \/ StoreIdentity \in {None, cfg.model} ]_vars

(* What a start declares ready is what is on disk at that moment: a        *)
(* reindex after chroma/ was replaced behind the service never serves the  *)
(* unlinked store ("a served phantom").                                    *)
ReadyIsOnDisk ==
  [][ status # "ready" /\ status' = "ready" =>
        \A n \in Names : /\ chroma[n] # None
                         /\ cases'[n] = [pages |-> side[n], vecs |-> chroma[n].ver,
                                         by |-> chroma[n].by] ]_vars

(* A kill while a rebuild runs keeps every collection that had landed:     *)
(* once a collection is kept or built and recorded, the record left by a   *)
(* kill names it ("so a kill keeps them reusable").                        *)
Landed(n) == \E t \in Threads :
               /\ n \in thr[t].kept
               /\ ~(thr[t].pc \in {"record", "recording"} /\ thr[t].cur = n)
               /\ thr[t].pc # "mark"
KillKeepsLanded ==
  [][ status # "down" /\ status' = "down" =>
        \A n \in Names : Landed(n) => record'.colls[n] # None ]_vars

(* The same at every step at which the file is not being written: while a  *)
(* rebuild runs, the record names the model filling the store, no          *)
(* fingerprint, and exactly the collections that have landed.              *)
Rebuilding(t) == /\ thr[t].pc \in {"next", "create", "add", "save", "saving", "record"}
                 /\ thr[t].todo # {}
LandedIsRecorded ==
  \A t \in Threads : Rebuilding(t) =>
    /\ record.id = cfg.model
    /\ record.fp = None
    /\ \A n \in Names :
         record.colls[n] = IF Landed(n) THEN Wanted(thr[t].src)[n] ELSE None

(* With no exception, a start under "always" makes the service ready       *)
(* whatever it found on disk, and so does a start under "if-stale" on a    *)
(* store of its own model: no state of the disk makes a start refuse, or   *)
(* rebuild, for ever.                                                      *)
Failed == used.failures # 0
StartConverges ==
  /\ status = "indexing" /\ cfg.policy = "always"
       ~> status \in {"ready", "down"} \/ Failed
  /\ status = "indexing" /\ cfg.policy = "if-stale" /\ ~GateRefuses
       ~> status \in {"ready", "down"} \/ Failed
-----------------------------------------------------------------------------
(* The inductive invariant behind TypeOK and ServesConfiguredModel.        *)

(* A thread that may still change the store or the cases; one that has     *)
(* planned its rebuild; one that is in the second half of a load.          *)
Working    == PCs \ {"idle", "backfill", "backwrite", "backwriting"}
Building   == {"mark", "marking", "next", "create", "add", "save", "saving",
               "record", "recording", "sealing"}
Backfilling == {"backfill", "backwrite", "backwriting"}

Unstamped(n) == chroma[n] # None /\ chroma[n].stamp = None

(* Nothing runs and nothing is held in a process that is down.             *)
DownIsEmpty ==
  status = "down" => /\ cases = NoCases
                     /\ client = "none"
                     /\ \A t \in Threads : thr[t].pc = "idle"

(* At most one thread works, under "indexing", and on the real store.      *)
OneWorker ==
  /\ \A t \in Threads : thr[t].pc \in Working => status = "indexing"
  /\ \A t, u \in Threads : thr[t].pc \in Working /\ thr[u].pc \in Working => t = u
  /\ status = "indexing" => client # "unlinked"

(* The stamp of a collection is true, and only Legacy left none.           *)
StampTruth ==
  \A n \in Names : chroma[n] # None =>
    chroma[n].by = IF chroma[n].stamp = None THEN Legacy ELSE chroma[n].stamp

(* While a collection is unstamped, whatever claims it is current claims   *)
(* it for Legacy: the record, what a thread read from it, what a thread    *)
(* kept and what a backfill is about to write.                             *)
RecordClaims(n) ==
  /\ record.fp # None => record.fp.model = Legacy
  /\ record.colls[n] # None => record.colls[n].model = Legacy
ThreadClaims(t, n) ==
  /\ thr[t].stored # None => thr[t].stored.model = Legacy
  /\ n \in thr[t].kept => cfg.model = Legacy
  /\ thr[t].pc \in Backfilling => cfg.model = Legacy
LegacyClaims ==
  \A n \in Names : Unstamped(n) =>
    RecordClaims(n) /\ \A t \in Threads : ThreadClaims(t, n)

(* How far a thread is, and what it has in hand.                           *)
Ingested(t) ==
  /\ thr[t].pc \notin {"idle", "gate", "ingest"} => thr[t].src \in [Names -> Versions]
  /\ thr[t].pc = "load" => thr[t].stored = CorpusFingerprint(thr[t].src)
InHand(t) ==
  /\ thr[t].pc \notin Building => thr[t].kept = {}
  /\ thr[t].pc \in Building => thr[t].kept \cup thr[t].todo = Names
  /\ thr[t].pc = "sealing" => thr[t].todo = {}
  /\ \A n \in thr[t].kept : cases[n] # None
  /\ thr[t].pc \in {"add", "save", "saving"} =>
       chroma[thr[t].cur] # None /\ chroma[thr[t].cur].stamp = cfg.model
Progress == \A t \in Threads : Ingested(t) /\ InHand(t)

(* What is in AppState was embedded by the configured model.               *)
CasesOfModel == \A n \in Names : cases[n] # None => cases[n].by = cfg.model

IndInv == /\ TypeOK
          /\ DownIsEmpty
          /\ OneWorker
          /\ StampTruth
          /\ LegacyClaims
          /\ Progress
          /\ CasesOfModel
          /\ ServesConfiguredModel
-----------------------------------------------------------------------------
(* The inductive invariants behind ReadyIsOnDisk, for any number of init   *)
(* threads, and behind the properties of a store that is killed and        *)
(* started again, for one.                                                 *)

Filling == {"create", "add", "save", "saving"}

(* What a rebuild holds for a collection is what the disk holds, and the   *)
(* collection it is filling is one it has still to build.                  *)
HeldIsOnDisk(t) ==
  /\ thr[t].kept \cap thr[t].todo = {}
  /\ \A n \in thr[t].kept :
       /\ chroma[n] # None
       /\ cases[n] = [pages |-> side[n], vecs |-> chroma[n].ver, by |-> chroma[n].by]
  /\ thr[t].pc \in Filling => thr[t].cur \in thr[t].todo
  /\ thr[t].pc \in {"add", "save", "saving"} =>
       chroma[thr[t].cur].ver = thr[t].src[thr[t].cur]

DiskInv == IndInv /\ \A t \in Threads : HeldIsOnDisk(t)

(* A collection is the whole of one version, and so is its sidecar; one    *)
(* that is not there is rebuilt by whoever looks for it.                   *)
Whole(n, v) == chroma[n] # None => /\ chroma[n].ver = v
                                   /\ chroma[n].count = Size[v]
                                   /\ side[n] = v

(* Whatever the record names is whole.                                     *)
RecordTruth ==
  \A n \in Names :
    /\ record.fp # None => Whole(n, record.fp.src[n])
    /\ record.colls[n] # None => Whole(n, record.colls[n].ver)

(* While a rebuild has something left to build and does not write the      *)
(* record, the record is that of what has landed.                          *)
Landing(t) == IF thr[t].pc = "record" THEN thr[t].kept \ {thr[t].cur} ELSE thr[t].kept
LandedRecord(t) ==
  [id |-> cfg.model, fp |-> None,
   colls |-> [n \in Names |-> IF n \in Landing(t) THEN Wanted(thr[t].src)[n] ELSE None]]
RebuildTruth(t) ==
  /\ \A n \in thr[t].kept : Whole(n, thr[t].src[n])
  /\ thr[t].pc \in Filling /\ thr[t].cur = Decisions => thr[t].todo = {Decisions}
  /\ thr[t].pc = "add"    => chroma[thr[t].cur].count < Size[thr[t].src[thr[t].cur]]
  /\ thr[t].pc \in {"save", "saving"} =>
       chroma[thr[t].cur].count = Size[thr[t].src[thr[t].cur]]
  /\ thr[t].pc = "record" => thr[t].cur \in thr[t].kept
  /\ Rebuilding(t) => record = LandedRecord(t)

(* What a thread has read of the record still stands, and what a backfill  *)
(* is about to record is whole.                                            *)
LoadTruth(t) ==
  /\ thr[t].pc \in {"load", "plan"} => thr[t].stored = record.fp
  /\ thr[t].pc \in Backfilling => \A n \in Names : Whole(n, thr[t].src[n])

(* With one init thread: an interrupted start leaves nothing that is not   *)
(* what its record says.                                                   *)
OneThread == \A t, u \in Threads : t = u
StoreInv == /\ DiskInv
            /\ RecordTruth
            /\ \A t \in Threads : RebuildTruth(t) /\ LoadTruth(t)
            /\ ServesWhatItIngested
=============================================================================
