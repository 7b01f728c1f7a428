# Verification of the rollout server

Formal models of the system that turns tasks into training traces: *task → sandbox →
agent → trace*. Paths are relative to the repository root and are written `src/…` as in
`PROJECT.json`; `state.py` and `index.py` without a path are those of
`src/estate/mcp-service/gsj_mcp_service/`.

## 1. The system

| component | state it keeps | operations | talks to |
|---|---|---|---|
| **index store** (`state.py`, `index.py`, `ingest.py`) | Chroma collections, sidecars, `fingerprint.json` on disk; `AppState.status/cases/decisions/fingerprint`; one cached Chroma client | start, `_initialize` in an init thread, `request_reindex`, `require_ready` | git remotes, the decisions drop, Chroma; the tools read `AppState` |
| **search tools, tokens, HTTP** (`app.py`, `tools.py`, `tokens.py`) | none of their own | `/mcp/<token>`, `/health`, `/admin/reindex` | `AppState` |
| **rollout manager, pipeline, balancer** (`vendor/polar/…/rollout`) | tasks and their sessions, one future per awaited session, node capacities and reservations | submit, dispatch, callback, poll, heartbeat, drain | gateway nodes over HTTP; posts a `TaskResult` once to the receiver |
| **gateway node, dispatcher** (`vendor/polar/…/gateway`) | three queues and the ready slots; a session registry | create, run, evaluate, build, cancel, delete, pause | containers, the trajectory builder, the rollout server's callback |
| **completion store and proxy** (`…/gateway/storage.py`, `proxy.py`) | completions per session, the policy version | proxy a completion, set the policy version | the model server |
| **trajectory building** (`…/trajectory`, `src/gsj_rollout/builder.py`) | none | merge completions into traces | completion store |
| **receiver** (`src/gsj_rollout/receiver.py`) | `traces/`, `quarantine/`, two counters | POST `/callbacks/session_result`, shutdown | posted to by the rollout manager |
| **checks** (`src/gsj_rollout/checks.py`) | pins cache | `validate_session_result` | called by the receiver and the builder |
| **client, CLI, harness** (`src/gsj_rollout`) | none | submit, wait, serve, run one agent | rollout server, sandbox |
| **estate runs** (`src/estate/estate.py`) | a run directory (marker, `compose.yaml`, `run.json`, `.env`, `mcp-config.yaml`), two services' data, the retrieval container | `up`, `down`, `down --wipe` under the run's lock | Docker, Forgejo, the retrieval service |
| **corpus pipeline and update** (`src/estate/corpus/ingest_corpus.py`, `estate.py`) | a corpus tree's generated files (lock, bank, decisions lock), the case repositories, the run's copies | validate, scaffold, ingest, taskbank, verify; `up`, `update` | git host, the retrieval service's reindex |

What is hard, and what would make each part correct:

* *Index store.* Three things are written one after the other, in place, by a process that
  may be killed at any point; the corpus, the configured model and the rebuild policy
  may all have moved by the next start; a reindex runs the same protocol in a live
  process, where an earlier init thread may not have ended. Correct means: never serve
  vectors of another model, never serve a sidecar and a collection of two different
  builds, never write over another model's store unasked, never get stuck.
* *Receiver.* One thread per POST over two shared directories; operations on files fail,
  the process is stopped in the middle, deliveries are repeated. Correct means: what is
  under a final name is whole, an envelope lands entirely or not at all, once per session.
* *Dispatcher.* asyncio workers, three queues and a semaphore, with cancellation at every
  stage. Correct means: every session is post-processed exactly once, a slot is released
  exactly as often as it was acquired, nothing waits for ever.
* *Pipeline, manager, balancer.* An answer may arrive by callback, by poll, late, twice or
  not at all; a dispatch may be accepted and look failed. Correct means: one result per
  session, capacity neither leaked nor exceeded, every task terminates.
* *Trajectory building and checks.* What the engine sampled is inferred from captured
  requests: prompts that extend each other (or nearly: a template may drop its generation
  prompt from the history), replies cut by a limit, repeated requests, captures with
  holes. Correct means: what lands as a trace trains on exactly what was sampled after
  exactly what the model was shown, by an agent that saw its timestep's pages only.
* *Estate runs.* A command of many steps over files rewritten in place, two services'
  data and a container that runs on when the command dies. Correct means: every leftover
  can be taken up or removed, a secret that was handed out is on file, a rebuild that was
  asked for stays owed, and an index is embedded anew only when somebody asked.
* *Corpus pipeline.* Four child processes read the same tree again, an operator may edit
  it meanwhile, somebody else may push, and the retrieval service answers for a build of
  before. Correct means: after a completed command tree, repositories, lock, bank, copies
  and index say the same; nobody's branches are overwritten; what a command answers is true.
* *Completion store.* A completion may end after its session was deleted or after the
  policy version moved.

`PROJECT.json` lists every component (also those not modelled), and every hazard at the
line where it bites.

## 2. Modules

| module | models | built on |
|---|---|---|
| `IndexStore` | the store on disk and the start-up protocol that fills, reuses, refuses or rebuilds it | – |
| `SearchService` | abstract: what the retrieval service promises, no disk | – |
| `IndexStoreRefinement` | `IndexStore` implements `SearchService` | `IndexStore`, `INSTANCE SearchService` |
| `MCIndexStore` | small instances | `IndexStoreRefinement` |
| `IndexStoreProofs` | theorems for all values of the constants, and that every step of `IndexStore` is one of `SearchService` or a stutter | `IndexStoreRefinement`, TLAPS |
| `ReceiverProofs`, `SessionDispatcherProofs`, `RolloutPipelineProofs`, `EstateRunProofs`, `CorpusSyncProofs` | theorems for all values of the constants | the module of that name, TLAPS |
| `EpisodesProofs` | theorems about every text, checkout and captured session | `MCReceiver`, TLAPS |
| `AcceptanceProofs` | theorems: a verdict without findings means what `Episodes` says of it, and no honest episode is refused | `EpisodesProofs` |
| `Receiver` | the two-phase landing of posted envelopes | – |
| `Selections` | parts of a sequence, and the members of a set in an order | – |
| `TraceBuilder` | session rules, glue stitch, filter, grouping, merge and finalization, as operators over captured completions | `Selections` |
| `TraceChecks` | the rules of `validate_session_result`, as predicates | `TraceBuilder` |
| `SearchTools` | tokens of an episode, scope, search and status answers, `split_spans`, the decisions search | `Selections` |
| `Episodes` | what agent, template and engine really did, and what a verdict without findings means | `TraceChecks`, `SearchTools` |
| `MCReceiver` | small instances; the verdicts on posted results are those of episodes | `Receiver`, `Episodes` |
| `SessionDispatcher` | the gateway's stage queues, worker pools, run slots, cancellation | – |
| `MCSessionDispatcher` | small instances | `SessionDispatcher` |
| `RolloutPipeline` | the rollout server's coroutine per session, its book of nodes, and a node as the server meets it | – |
| `MCRolloutPipeline` | small instances | `RolloutPipeline` |
| `EstateRun` | `up`, `down`, `down --wipe` of one run | – |
| `MCEstateRun` | small instances | `EstateRun` |
| `Corpus` | a tree, what it must satisfy, what it builds, the plan of an update, what verify compares | – |
| `CorpusSync` | the commands that bring a tree to a standing estate | `Corpus` |
| `MCCorpusSync` | small instances | `CorpusSync` |

### IndexStore

| state | code |
|---|---|
| `chroma`, `side`, `record` | the collections under `<index.path>/chroma`, the sidecar JSON files, `fingerprint.json` as its readers see it (a missing, empty or torn file reads as an empty document: `_read_fingerprint_doc`) |
| `client`, `ghost` | the cached Chroma client; a client opened before `chroma/` was removed goes on seeing the unlinked store |
| `status`, `cases`, `fingerprint`, `cfg` | the fields of `AppState` (`cases` holds `AppState.decisions` too, under the name `Decisions`) |
| `thr` | the init threads: the locals of `_initialize` (`src`, `stored`, `kept`, what is still to build) and where it is |
| `corpus` | the heads of the case repositories and the drop at `decisions.path` |

One action per step between which a kill, another init thread or the environment can do
something: the identity gate, each `ingest_case`, the decision on the fingerprint,
`_load_all`, the plan (kept collections are loaded and checked), opening and writing the
record, dropping, creating and filling a collection batch by batch, opening and writing a
sidecar, the final record, the backfill. Every file the code writes with `write_text` is
two steps, because the file is emptied when it is opened. An exception is possible at
every step that does I/O. Reading the disk is not torn: only one init thread writes the
store (proved, `OneWorker`), except for the record that a backfilling thread may still
write, and that is in the model.

The environment may push to the corpus, remove `chroma/` under a running service while
nothing indexes, copy in another estate's `chroma/` while the service is down, and start
the service with any model and any policy. Initial disks: none, one written before CP-57
(no identity record, no stamps), one written before CP-79 (no per-collection record).

A fingerprint is the tuple that is hashed (the hash is taken to be injective). Not
modelled: the sweep of orphaned HNSW directories, adding or removing a case between
starts, an unreadable (not torn) record, unsynced writes lost by a host crash.

### Receiver

| state | code |
|---|---|
| `landed`, `staging`, `data` | names `<session>.<mode>.json` and `….<index>.tmp` of the two directories, and the files behind them. Names point to inodes: a second `open(…, "w")` of the same name truncates the same file, a rename moves the file another thread has open |
| `thr` | a handler thread: body, `planned`, how much of it is staged and renamed, what the `except` clause still has to unlink, the status it answered |
| `counted` | `Receiver.accepted/rejected` |

Validation touches no shared state and is one step; after it every `open`, `write`,
`os.replace` and `os.unlink` is a step, each of which may fail. `Stop` ends the process
with its (daemon) handler threads wherever they are. The verdict of `checks.py` on a
posted result is what `TraceChecks` says of an episode of `Episodes`; unusable pins are possible for every body that has a
member. The pins mode in a file name does not change.

### SessionDispatcher

| state | code |
|---|---|
| `known`, `queue` | `_sessions`, the three `asyncio.Queue`s |
| `sess` | the `ManagedSession`s: `stage`, `inflight`, whether there is a `runtime` and a `final_result`; `cancelled` is `cancel_requested` together with what the session was doing when it was set, `wake` the state of the `cancel()` call that is to queue it |
| `slots`, `waiters` | the semaphore `_ready_slots` and the init workers in line for it |
| `job` | each worker: idle, in a stage handler, waiting for a slot, given one |
| `phase`, `halting` | `_started`, and the loop of `stop()` |
| `calls` | handler calls per session (observation only) |

Everything runs on one event loop, so a step is what happens between two suspensions. The
queues are unbounded and the lock is never held across a suspension, so `put` and
`async with self._lock` do not suspend, and a worker that skips a handler goes from
`get()` to the next `get()` in one step. A suspension is possible in `get()`, in a
handler, in the wait for a slot and in `runtime.cancel()`. `_acquire_ready_slot` has
three steps (in line; given a slot; resumed), because a cancellation can come between any
two. Two things are finer than the code, which only adds behaviours: a runtime that cannot
be created fails the handler in a step of its own, and `stop()` suspends at every session
(in any order), not only at those with a runtime.

`PostrunAlone` says that `on_postrun` of a session never overlaps its own `on_init` or
`on_run`; it does not say that nothing happens to a runtime in use. `cancel()` itself awaits
`runtime.cancel()` (`dispatcher.py:169-170`), which `runtime/base.py:70-79` documents as "Stop
any in-flight command and tear the runtime down": by design, and under the very handler that
works in it, whose command then fails.

The stage handlers (`_handle_init`, `_handle_run`, `_handle_postrun`) are opaque: a call,
and a return with or without an error result (only that of `on_init` is read by the
dispatcher). `on_stage_change`, the snapshot counters and the registry are left out. A
session id is dispatched once, as `node.py` insists; `stop()` comes after the last
request, as the server's shutdown has it; a dispatcher that was stopped is not started
again.

### TraceBuilder, TraceChecks, SearchTools, Episodes

`builder.py`, Polar's prefix merging and filters, `checks.py`, `pi_harness.py`'s set-up
and the retrieval tools have no state between calls, so they are operators. `Episodes`
adds what the code cannot see: a conversation is a sequence of turns (how the prompt
follows the turn before, what the engine sampled, what the capture did to it), rendered
by a template that keeps or drops its generation glue. From the same conversation it
computes what the code is given (`Session`) and what really happened (`Reference`). The
two are compared over every episode within the bounds, and the receiver's envelopes carry
the verdicts so computed.

Tokens, texts and messages are small values; a hash is the content it is a hash of. The
similarity of a piece to a query is that of its most similar character (the encoder is
external). Limits of what is shown:

* The vector store is taken as exact: it may return any of the nearest sets (ties are free), no
  other. The code claims less. The docstring of the case search (`index.py:489-496`) has
  "parity with the exact scan this replaced at the frozen estate's scale (213 chunks); measured
  ≈0.1% short at 19,215, a different tail per build", and `docs/decisions-surface.md` 8.4 says
  of the decisions search that "Recall against an exact scan is **not guaranteed**".
  (`index.py:125-140` measured 1.000 at k = 5 and 0.998 at k = 20 for its fetch of 200·k.)
  `AnswersAreTheBest` and the theorems under it hold for an exact store, so at the scale of the
  frozen estate; beyond it they say what the code makes of what the store returns.
* The configured end-of-turn id is taken to be right (`builder.py` refuses a session
  without one, so the path that guesses it is left out).
* The rule for cut replies looks at `finish_reason = "length"` only, and so does the model.
* Messages are counted: a harness that merges messages would hide tool results from the
  page rule. A tool result's tool is its `tool` field, not the resolution of its call id.
* With `chunking.overlap: 0` the pieces of a unit do not cover the blanks between two
  windows, although `src/estate/mcp-service/README.md:114` says the pieces cover the
  unit; `BestAnswers` claims the cover for a positive overlap only. Blanks at the edges of
  a case page are not covered either.
* A token may expire (default 3600 s) before its episode ends: the tools then refuse, and
  the episode is accepted only if its task states its timestep.
* Not modelled: `decision_stats`, the request log, JSON-RPC bodies, reading of
  configuration.

### RolloutPipeline

| state | code |
|---|---|
| `task` | `_TaskRecord.status` |
| `co` | the coroutine `_dispatch_and_collect` of each session: where it is suspended, `session.node_id`/`gateway_url`, whether the deadline it looks at has passed, `execution_timeout_started` |
| `future`, `result` | `_pending` with each future's state; what was recorded |
| `book`, `fresh` | `NodeScheduler._nodes` (metrics as two loads, reservations, draining) and which last heartbeat is recent enough |
| `gate`, `up` | at each node: the registry entry (`reg`, `payload`), the session's life behind it, whether it was cancelled |
| `late` | dispatches the server gave up on that the network may still deliver |
| `made`, `unsure` | history: what nodes made of a session; nodes where an exchange about it ended in doubt |

The server is one event loop, so a step is what happens between two suspensions, or what
happens at a node. A POST has three moments (it arrives; it is answered; the answer
arrives) and each exchange may be lost before or after it took effect. Time is the
predicate `over`: a deadline may pass at any wait. Health is recomputed at each pick, so
`mark_unhealthy` (`pipeline.py:205`) leaves nothing behind and is no state. The metrics of a
heartbeat are of a moment before and count other tasks' sessions, so they are any load;
the score orders the candidates, any of which may be picked.

Behaviours of the code the model has and no property forbids: a reservation is not given
back when the deadline is found to have passed right after the pick (`pipeline.py:176-178`);
a heartbeat resets the reservations although the dispatches they stand for may not be in
its metrics yet, so an admission limit can be exceeded, and a release after the reset takes
another session's reservation; a drained node that was removed from the book gets 404 at its
next heartbeat and registers again, undrained (`node.py:143-145`, `balancer.py:85-86`,
against `rollout/README.md:90` "A draining node stops receiving work and is removed once its
in-flight sessions finish"); a result that arrives during the last poll is dropped for
TIMEOUT (`pipeline.py:295-296`). The deadline that bounds the wait for a node runs from
submission; only at the first poll past REGISTERED does it start anew.

Not modelled: a restart of the rollout server, a task id submitted again after it failed
(coroutines left over from the first write into the second's record, `manager.py:125, 210`),
nodes from the configuration, an answer to the confirming GET that is not JSON or names
another task, the second push of a session cancelled while queued (the future is gone by
then). A dispatch refused with 400 is a lost request. Sessions of a task share only the
book, whose load from others is in the heartbeats, and the task record; one session per run
is what TLC reaches. The connection to the receiver is one POST of the `TaskResult`
(`manager.py:167`), which is why `receiver_landing` does not repeat an envelope in flight.

### EstateRun

| state | code |
|---|---|
| `files`, `env` | marker, `compose.yaml`, `run.json`, `mcp-config.yaml`; the `.env` with the secrets it holds. All but `run.json` are rewritten in place and may be torn: emptied and not yet written |
| `accounts`, `store` | Forgejo's admin, owner and live tokens; the index store's model, window and whether it is complete |
| `svc` | the retrieval container: what it does (`crashed`: its process ends over an empty configuration, and the daemon starts it until it can be read), the configuration it started with, whether its secret is the run's |
| `cmd` | the command under the run's lock: its step, the answers it was given, the secrets it holds in memory |
| `complete`, `cuts`, `drift`, `fresh`, `cleared` | history |

`up` creates its Forgejo and its retrieval service; a cut is a kill or an error between any
two steps, or inside the rewrite of a file. Four files are truncated and then written: the
marker (`estate.py:815`), `compose.yaml` (`1643`), the `.env` (`876-878`) and
`mcp-config.yaml` (`3627`, and `2959` when a rebuild is settled). For the last one truncation
and write are two steps, because the container reads the file too; for the others `Cut` leaves
the file torn. A torn file is an empty one: each text fits one buffered write. `run.json`
alone is replaced whole (`898-905`). The container goes on beside the command, and its daemon
may restart it. Not modelled: adopted services, ports, pins, `rollout.yaml`, a disk that
refuses one write and accepts the next.

Exceptions the properties name, all real:

* No `up` accepts a run any more after a stop inside the rewrite of the `.env`, or between the
  generation of the admin's password and its save (`1598-1604`); inside the first write of the
  marker, which leaves a non-empty directory without a sign of ownership (`772-793`, `804`); or
  inside the rewrite of `mcp-config.yaml`: the next `up` parses it to nothing, and
  `mcp_fingerprint_components` (`1763-1765`) raises at `3599`, where only a YAML error is caught
  (`NeverStuck`).
* `down --wipe` refuses after a stop inside the rewrite of the `.env` (the `:?` variables of
  `1334-1335` are unset), of the marker or of `compose.yaml` (`5227-5235`), before the first
  `compose.yaml`, and after some stops inside `rmtree` (`NeverStuck`).
* An owed rebuild is known by the text `rebuild: always` in `mcp-config.yaml` (`3562`) and
  nowhere else. A stop inside the rewrite at `3627` loses it (`OwedUntilDone`). The comment at
  `2956-2957`, "an interrupted one keeps `always` and the next `up` waits for it", holds
  between steps, not inside them: a stop at `2959` loses the text and the run with it.
* An `up` that attached to a container still indexing (`2926-2928`) completes over an older
  configuration (`drift`); the identity check (`3491-3505`) races with a container left running
  by an `--rebuild` that timed out (`cleared`).

Not expressed: an `owner_mode: created` lost by a cut between 3246 and 3328, the corpus
replaced in the record before the pipeline ran (3112-3117).

### Corpus and CorpusSync

| state | code |
|---|---|
| `tree`, `gen` | the corpus tree; its `corpus.lock.json`, bank, parquet, `decisions.lock.json` |
| `live` | the heads of each case's repository (a commit is deterministic: a head is its content) |
| `conf`, `svc` | the cases `mcp-config.yaml` names, and whether a stop left it empty; the retrieval service: fetching, embedding, ready, the heads it goes by (`seen`), and those in the sidecars of the collections its store's record names (`store`) |
| `copies` | the run's copies of bank, lock and decisions lock, and whether `run.json` names the service |
| `cmd`, `past` | the command in progress with the lock rows it holds in memory; history |

One action per step between which a command may stop or the tree, the host or the service
may change. Each phase is a process of its own and reads the tree again. Not modelled:
`--only` by hand, `--rebuild`, `file://` hosts, a tree without `decisions/`, a changed git
identity or owner, adopted services, a failure of the embedding itself (`IndexStore` has it).
The service reads all its cases in one step (`IndexStore` reads them one by one).

The service goes by main. A case's fingerprint covers the SHA of its main only
(`index.py:283`, `319`); where that did not move, the collection is loaded with the refs and
timesteps its sidecar was written with (`state.py:123-133, 160-171`, `index.py:775-776`), and
`/health` reports those (`state.py:478-481`). `Fetch` keeps such a case as the store has it,
`Land` adds the cases embedded anew. A container that is recreated while it embeds may be
killed inside the write of the store's record, which empties the store (`index_kill_in_record`).

Divergences from docs and error texts that the model shows; where a property would be false, it
excepts them by name:

* An `update` that adds or removes a timestep below the largest pushes its branch, leaves main
  alone, and then fails at `verify` for good: the service is asked to reindex and reports the
  timesteps of before. Only `up --rebuild` or a change of main helps. `estate.py:4366-4374`
  tells the operator that the index gains, or loses, the timesteps, and `4812` to "fix what it
  names and re-run `update` — every phase is idempotent". (The command dies, so no property of
  completed commands is false; it is `Settled` and `IndexFresh` that rest on it.)
* For the same reason a branch the tree does not have may stay: if a timestep is taken from the
  tree under the command, after its branch was pushed, `verify` asks for the tree's branches and
  compares counts with a service that never saw the other (`Settled`).

* An `up` cut between the creation of a case's repository and its first push leaves a
  repository without branches, which the collision check (`estate.py:3278-3301`, and
  `4711-4752` for `update`) refuses from then on; `src/estate/README.md:73` says a re-run
  resumes, and `estate.py:3350` "fix what it names and re-run — every phase is idempotent"
  (`AnswersAreTrue`).
* A trigger that meets a running build is answered by that build; `verify` compares counts
  only, so the command completes over an index of before (`IndexFresh`).
* A first `up` cut between the copy of the lock (3704) and the final record (3959) leaves
  no service in `run.json`; a later `update` completes without a reindex (`IndexFresh`).
* An interrupted `update` whose tree is then put back is answered "nothing moved"; so is a
  re-run after a cut between the copies of bank and lock of a text edit (`AnswersAreTrue`).
* A stop inside the rewrite of `mcp-config.yaml` (`estate.py:3627`, `4838`) leaves it empty;
  every later `up` (`3599`) and every `update` with a new case (`4832`) then dies of it.
* A torn `corpus.lock.json` is refused with the advice to run scaffold, which loads it
  first (`ingest_corpus.py:1491-1496`).
* The collision check of `up` covers the cases loaded at its start, not those an edit adds
  under it (`NoPushOver`). An `up` with a new case cut between the config and the start is
  not followed by a recreate, and `verify` fails on the served set until `update`. `verify`
  does not compare the lock's prompt ids. A change of the drop alone is not seen by
  `update`, as documented.

## 3. Runs

All runs switch deadlock checking off: stops, pushes, reindexes and requests are
bounded, and when they are spent the system rightly rests.

| run | shows | bounds |
|---|---|---|
| `index_restart` | one init thread, killed or failing anywhere: no start serves a mixed store; what is half built is in no record; the record names exactly what has landed | one case and the decisions, two versions of the same size (a count check cannot tell them apart) of two batches each, two models of the same width (a width check cannot tell them apart), 1 stop, 2 pushes (away and back), 1 foreign copy, 1 failure |
| `index_overlap` | two init threads alive: still never another model's vectors, never a store that is not the one on disk | 1 stop, 1 push, 2 reindexes, 1 wipe, 1 copy |
| `index_service` | `IndexStore` implements `SearchService`; indexing always ends; a start without an exception gets ready | one batch per version, 1 stop, 1 push, 1 reindex, 1 failure |
| `index_interrupted` | *violation*: see findings | two threads, 1 stop, 2 pushes, 1 reindex |
| `index_kill_in_record` | *violation*: see findings | 1 stop |
| `receiver_landing` | whole, once, all or nothing, no orphan, answered; what an accepted file stands for: one undisturbed episode, trained as sampled, by an agent that saw its timestep and got the best answers there were | 3 requests over 5 envelopes, 2 failing operations, 1 stop; episodes of up to 3 turns over 21 kinds of turn and both templates; every checkout and transcript of a two-turn episode; small pages, cases and drops |
| `receiver_overlap` | *violation*: see findings | 2 requests for the same two sessions |
| `dispatcher_stages` | no session and no slot is lost, `stage` and `inflight` tell where a session is, POSTRUN of a session never next to its own INIT or RUN, each stage once, everyone leaves through POSTRUN | 2 sessions, 2 init, 1 run, 2 postrun workers; no bound on cancellations (one per session), failing runtimes or the moment of shutdown |
| `dispatcher_parked` | *violation*: see findings | 3 sessions, 2 init, 1 run, 1 postrun worker |
| `pipeline_lost` | what is recorded is what a node made of the session, or a TIMEOUT whose deadline had passed; the session runs nowhere but where its coroutine looks, save on a node an exchange with which ended in doubt; the task ends | 1 session, 2 nodes, 2 faults of any kind (lost or late exchanges, lost heartbeats, crashes, a failing save), 1 drain |
| `estate_resume` | a completed `up` works, only the named leftovers are stuck, the store changes model only when let, a rebuild stays owed | 3 commands, 2 cuts, 1 restart, 2 models, 2 windows, 5 kinds of `up` |
| `corpus_sync` | what a completed command leaves, in the index too; no push over somebody's branches; true answers | 2 commands, 7 trees, 1 cut, 2 edits or fresh checkouts, 1 foreign push or deletion, 3 of these in all |

Why the bounds are enough: each interesting order needs at most two starts (one killed,
one after), one collection that landed and one that has not, and one other version and
model to be confused with; a third value of any of them is the same case again. What the
bounds of `index_*` leave open is covered by the theorems for the properties they state.
For the dispatcher, two sessions and one slot make every contention there is (one runs or
is queued to run while the other waits, or both stand in line), and a session that is in
two places needs two workers of the pools it can meet itself in. For the pipeline, a session on
two nodes needs one lost answer and a second fault to keep it there; what more sessions,
nodes and faults could do to the two invariants is covered by the theorems. For the estate, one cut and a
command that resumes it are every leftover of one interruption, and the second cut is one in
the command that resumes; any number of them is covered by the theorems. The seven trees differ
in one way each (pages, texts, split and drop, a case and a timestep more, a page changed
between timesteps, and a smaller timestep under the same main), so a plan that overlooks one
kind of change is seen; taking a tree away and putting it back needs the second edit. Episodes of three turns
have every pair of neighbouring turns followed by a third; the theorems of `AcceptanceProofs`
are about any number of turns.

**Fairness.** `IndexStore` assumes weak fairness of each init thread's step and
`Receiver` of each handler's step: they are operating-system threads with no lock
between them, and every call they make returns or raises. `SessionDispatcher` assumes it
of each worker, of the semaphore and of each pending `runtime.cancel()`: the event loop
runs every ready coroutine, the waits in a handler are bounded by the session's execution
budget or a timeout of their own, and so are the commands `runtime.cancel()` runs (an
upload into a container has no timeout: there the assumption is about Docker). `RolloutPipeline`
assumes it of each coroutine's step, of the passing of time, of each session at a live node
and of the task's completion: the event loop runs every coroutine, every request has a
timeout, and a node goes on with its sessions (`SessionDispatcher!EveryoneLeaves`). Nothing
else is fair: nobody is obliged to start, stop, push, post, reindex, drain, restart a node or
send a heartbeat. `EstateRun` and `CorpusSync` state safety only: budgets end every wait of
theirs.

### Findings

* `index_interrupted`. `_load_all` sets `status = "ready"` before the record of an older
  store is backfilled, so `request_reindex` accepts while the first init thread is still
  to write `fingerprint.json`, although its docstring says exactly one init thread runs.
  The late write puts a complete record over the one the rebuild wrote first; if the
  process is then killed inside the rebuild and the corpus goes back, the next start
  loads a store of two builds. Only a store from before CP-57 or CP-79 can get there.
* `index_kill_in_record`. The record is written in place. A kill between truncation and
  write loses the names of the collections that had landed; the next start embeds them
  all again. (Safe, not what the comment promises.) A failing backfill does the same.
* `receiver_overlap`. The name of a stage is unique within one envelope, not between
  requests. Two POSTs in flight for the same sessions lose each other's stages, and one
  is answered 500 with part of it landed. Polar posts once, so it takes a repeated
  delivery. `receiver_landing` shows the guarantee when requests in flight do not
  overlap, and that a repeated delivery *after* the first has ended repairs everything.
* `dispatcher_parked`. `cancel()` takes every session in READY for one that holds a run
  slot and releases one. A session that still waits for its slot has none, and the slot
  of one that has it is released again when its worker gets to it. Each such cancellation
  enlarges the semaphore for the life of the process (never beyond one slot each:
  `SlotsKept`). The number of handlers that run is still bounded by the run workers; what
  is lost is the bound on sessions that sit in the run queue with a started container.

`TaskEnds` excepts by name what the code does not give: no deadline runs before a poll has
seen the session past REGISTERED (`pipeline.py:286-330`), so a node that loses it first leaves
the coroutine, and the task, waiting for ever. `src/vendor/polar/src/polar/rollout/README.md:24`
says as much ("The `timeout_seconds` budget starts when a session enters **INIT**"); that the
wait before it has no budget at all it does not say.

Two weaker disagreements show in the properties of `dispatcher_stages`, which except them
by name: a session cancelled while it waited in the INIT or the run queue goes through
POSTRUN twice (`StagesOnce`), and one that waited for a slot stays in the dispatcher for
good when its `runtime.cancel()` raises, as when the container command cannot be started
(`NotLost`, `EveryoneLeaves`).

## 4. Proofs

`IndexStoreProofs` proves, for any number of cases, versions, models, init threads and
for any bounds, from the assumptions on the constants stated in `IndexStore` (the special
values are distinct from the ordinary ones, sizes are positive):

* `TypeCorrect`: `[]TypeOK`;
* `NeverAnotherModel`: `[]ServesConfiguredModel`;
* `NeverWrittenOver`: `OtherModelKept`, an action property;
* `Inductive`: `[]IndInv`, from which the others follow.

`ServesConfiguredModel` alone is not inductive. A load believes a collection's stamp, so
the stamps must be true (`StampTruth`); an unstamped collection is believed to be of the
one model that wrote such stores, so whatever still claims that it is current (the
record, what a thread read or kept, what a backfill will write) must claim it for that
model (`LegacyClaims`); a thread that is building must be the only one that is
(`OneWorker`), must work under the model of the running process and must hold only what
it loaded or built (`Progress`, `CasesOfModel`); and a process that is down holds nothing
(`DownIsEmpty`). There is one lemma per action; the theorems combine them with PTL.

Its second part proves what a kill or a failure between two writes leaves behind:

* `ReadyOnDisk`: `ReadyIsOnDisk`, an action property, for any number of init threads;
* `ServesOneBuild`, `HalfBuiltUnrecorded`, `RecordFollowsBuild`: `[]ServesWhatItIngested`,
  `[]MixedIsUnrecorded`, `[]LandedIsRecorded`, while at most one init thread runs at a time
  (`OneThread`);
* `StoreInductive`: `[]StoreInv`, from which these three follow.

`DiskInv` adds to `IndInv` that what a rebuild keeps is on disk as it holds it and that the
collection it is filling is one it has still to build; `OneWorker` makes that true of any
number of threads. `StoreInv` adds three parts. `RecordTruth`: whatever the record names, by
its fingerprint or collection by collection, is whole — every chunk and the sidecar of one
version — or not there at all. `RebuildTruth`: what a rebuild has landed is whole, and its
record is exactly that of what has landed (`LandedRecord`). `LoadTruth`: the fingerprint a
thread has read is still the one on disk, and what a backfill is about to record is whole.
`OneThread` is what `request_reindex` promises and keeps in every start but one: behind a
start that is ready and still has an older store's record to backfill it admits a second init
thread, and there `RecordTruth` is false, because the late write records as complete a store the
second thread is rebuilding (finding `index_interrupted`). Stops, restarts and reindexes after
the backfill are all covered. The
definitions are at the end of `IndexStore`.

The last part of `IndexStoreProofs` proves with the same assumption `ImplementsSteps`: the first
state and every step of `IndexStore` map to `SearchService`'s. Reading a source is `Pick`, a
start that gets ready is `Publish`, one that errs is `Refuse`, and whatever happens on disk
only is a stutter. Besides `StoreInv` it needs that the decisions are the last
source an init thread reads (`NotYetDecided`) and that a backfill runs only behind a ready
service (`ReadyBackfills`).

`RolloutPipelineProofs` proves, for any number of nodes and sessions, any loads a heartbeat
may report, any limits and bounds, from the assumptions in `RolloutPipeline`:

* `TypeCorrect`: `[]TypeOK`;
* `RealResults`: `[]ResultsAreReal`;
* `NoOtherStrays`: `[]StraysAreUnsure`;
* `Inductive`: `[]IndInv`.

`ResultsAreReal` follows from `Recorded`, which needs to know that whatever may become a
result, in a future (`FuturesMade`), in a registry entry or behind it (`GatesMade`), was made
of that session; that it is no cancellation while somebody may still take it
(`CancelledLast`: only the cleanup cancels, when the coroutine has ended); and that a
coroutine has a future exactly while it awaits a result (`Phased`). The lemmas
`CoroutineMoves` and `GateMoves` say this once for every step of a coroutine and of a
gateway; the lemma of an action only says which of them it is. `StraysAreUnsure` becomes
inductive with `StrayInv`: a session that runs uncancelled is registered (so the confirming
GET finds it), a node that is down has none, and a dispatch that may yet arrive was in doubt.

`ReceiverProofs` proves, for any set of envelopes, any number of handler threads, operations
that fail and stops of the process, from the assumptions in `Receiver`:

* `Types`, `StagesGone`, `OneDir`: `[]TypeOK`, `[]NoOrphanStage`, `[]OneDisposition`, whatever
  requests overlap;
* `Whole`, `Refused`, `Acknowledged`: `[]LandedWhole`, `[]RefusedLandsNothing` and
  `AnsweredLanded` (an action property) for a run in which no two requests in flight name the
  same session (`~Overlapping`; `receiver_overlap` shows that without it they are false);
* `Inductive`: `[]IndInv`.

`IndInv` has two parts. `Base` holds whatever the senders do: a file has one name (`NamesOK`),
what a handler has opened and not closed is its own (`OpenedOK`), and the text under a name,
staged or landed, was planned for that name by some request (`HomeOK`, `StagesOK`). `Alone` is
claimed only while no requests have overlapped: handlers work on disjoint sessions (`Apart`), so
what one has staged is still there when it renames it (`Carried`), what has landed is what it
planned (`LandedOK`), and an error is answered before the first rename (`RefusedOK`). The
lemmas `Ranks` and `PlannedOK` say that the order in which an envelope is written numbers its
members one to one, whatever finite set of members it has.

`SessionDispatcherProofs` proves, for any sessions and any sizes of the three pools, from the
assumptions in `SessionDispatcher`: `[]TypeOK`, `[]StageTellsWhere`, `[]NotLost`, `[]SlotsKept`,
`[]TornDown`, `[]PostrunAlone` and `[]StagesOnce`. The core of `IndInv` is `LivesOK`: a session is unseen, or at exactly the one place its record names (a
queue, a worker's hands, the line for a slot), or gone, or — only by a cancellation while it
waited — at two places; what the records, the set of known sessions and the counts of calls say
of it agrees with that. `SlotsOK` counts: the free slots and those held add up to the pool's
size and the slots that cancellations gave back too many; its lemmas count the entries of a queue
and the workers of a pool that hold a session. After `stop()` nothing is known any more, and
nothing starts.

`EstateRunProofs` proves, for any models and windows and any number of commands, stops and
restarts: `[]TypeOK`, `[]CompletedWorks`, `[]NeverStuck`, and the action properties
`StoreMovesOnlyWhenCleared` and `OwedUntilDone`. `IndInv` says, for each step of `up`, which
files, accounts and secrets the steps before it have made (`FilesOK`, `AccountsOK`, `MemoryOK`);
how far the container, its configuration and its store agree (`ServiceOK`, `ConfigOK`,
`DriftOK`, `HomeOK`: a container that was waited for meets a store of its own model whenever it
restarts); that an owed rebuild is under way or done (`OwedOK`); and that no model is anywhere
that was not let in (`ClearedOK`). `NeverStuck` itself had to be said of every step (`StuckOK`).

`CorpusSyncProofs` proves, for any trees, any number of commands, cuts, edits and foreign
pushes, from the assumptions in `CorpusSync` (timesteps are positive, what a valid tree builds
is none of the special values): `[]TypeOK`, `[]Settled`, `[]IndexFresh`, `[]AnswersAreTrue`
and the action property `NoPushOver`. The invariant rests on one fact about data: every entry
of a lock was made from *some* valid tree (`LocksOK`). Then `verify`'s comparison is enough:
heads that the lock records and that have the tree's pages on main were built from the same
largest timestep, so they agree on every branch the tree asks for (lemma `VerifiedHeads`), and
if the service's census is of these heads and has as many timesteps there is no other branch
(`CountedHeads`). The rest says until which event something may be relied on: the lock follows
the tree until an edit (`LockOK`), the main the service goes by is the one pushed unless its
trigger met a build (`SeenOK`, which says nothing of the other branches: where main did not
move they are those its store had), and what verify established stands until an edit or a push
(`VerifiedOK`, `CopiesOK`). "Nothing moved"
follows from `CompletedOK` — the last completed command left heads, lock and bank of one tree —
with the lemmas `UnmovedEntry` and `SameRows`: a case the plan does not see as moved would get
the very entry it has, and equal locks without a reworded prompt mean equal banks.

Two properties that the runs did not refute turned out to be false beyond their bounds while
they were being proved, and TLC then found the counterexamples on larger instances:

* `StoreMovesOnlyWhenCleared`: with four commands. A `rebuild: always` that a command left
  behind when it gave up waiting is attached to by the next, which settles the config while
  the store is of another model than its own answers name. What was let in by then includes the
  store's own model; `SettleConfig` keeps it in `cleared`, and the property says so.
* `Settled`: with two edits. A timestep is taken from the tree under a running command whose
  scaffold phase has pushed its branch; `verify_case_clone` asks only for the tree's branches,
  and only the census of a service that went by the pushed heads would show one more. The
  command completes with a branch the tree does not have, which the property now excepts by
  name: where there is no service, or its census is not of the pushed heads. The run now has
  the bounds for it.
  `AnswersAreTrue` has the matching exception: such a command's lock may have the prompt ids of
  one tree and its bank the rows of another.

`Corpus` was corrected for the same reason: a prompt's id carries its kind (`skill:` or
`free:`), without which two prompts of one timestep could have had the same id.

`EpisodesProofs` proves what an accepted file stands for, not over the small episodes of the
run but over data of any size. Of the retrieval tools:

* `PagesAreTheBest`: for all pages, every valid chunking, any timestep and any number of
  answers, `search_case`, which compares only the best piece of each page, answers with the
  visible pages of the highest score of their own and misses none;
* `UnitsAreTheBest`: for every drop and whatever number of nearest pieces the store was asked
  for, `search_decisions` answers with the units' own scores, leaves out no better unit, and
  with every piece fetched keeps ties in document order;
* `AnswersHold` and `AnswersAlwaysBest`: hence `BestAnswers`, and `[]AnswersAreTheBest`;
* `AnsweredInScope`: a request that is let in is answered from the pages up to its token's
  timestep and no others, and its status counts exactly those.

Of the cutoff: `CutoffIsExact` (the three numbers stated of a checkout tell exactly whether it
held the pages `1 .. T` of branch `T`, without history and remotes), `AcceptedSawOnly` (every
trace of an accepted result comes from such a checkout) and `EstateEpisodesPass` (what the
harness sets up and the service answers passes, so the rule refuses no honest episode).

Of the trainer's side: `TrainedAsSampled`. Every session that is accepted — any number of
completions, any tokens, logprobs, messages and glue — has exactly one trace; its tokens are the
first prompt and then the replies one after the other, each token of a reply is trained at the
logprob it came with, what stands between two replies is what the next prompt added after the
reply's end and is not trained, and nothing was filtered, split, truncated or left over.

The argument needs no induction over data, which the provers cannot do. Where an index or a
score is reached step by step (the windows of a text, the pieces of a unit, the completions of
a chain), the least counterexample is taken instead (lemmas `LeastOf` and `Climb`: a set of
numbers that is closed under "one more" up to a bound reaches the bound). Folds and recursive
functions are shown to exist once and are unrolled by one equation afterwards (`FoldExists`,
`GroupRun`, `MergeRun`). Then `GroupRun` says that equal or extending prompts form one chain,
`MergeRun` that the merged trace of a chain is laid out by offsets (`MergedLaid`), and what
acceptance adds — one trace, a logprob at every trained token, no cut reply before the last —
rules out each way in which the merge could have stopped early.

`AcceptanceProofs` goes from the capture back to what was really done, for episodes of any
number of turns. `AcceptedIsPlain`: an episode whose result is accepted was undisturbed — no
retry, compaction, dropped text or prompt opened without the glue, no capture that lost
anything, no reply cut before the last. `PlainIsAccepted`: every undisturbed episode is
accepted, as one trace whose prompt, tokens, mask, logprobs and messages are those of the
conversation. Together they are `AcceptanceIsExact` and, over the receiver's steps,
`AcceptanceAlwaysExact`: `[]AcceptedTrainsWhatWasSampled`. `EstateEpisodesHold` and
`CutoffHolds` do the same for the page cutoff, `CutoffAlwaysHolds` is
`[]AcceptedSawItsTimestep`.

The two directions meet in the stream. If the result is accepted, `TrainedAsSampled` says of
every body where it lies in the stream and what stands before it; the rule on what opened a
turn (`check_thinking_tail`) then excludes a turn opened without the glue, prompts that do not
grow exclude retries and compactions, and the trained logprobs exclude what a capture lost.
If the episode is undisturbed, the stream merged so far is the reference of the turns so far,
and one more completion makes it the reference of one more turn (`SteadyNext`, climbed with
`Climb`); every rule over streams then lets the reference pass, whatever its length
(`LevelLogprobs`, `LevelOpenings`).

These theorems rest on the assumptions of `Episodes`, which TLC evaluates for the values of
the runs. They say what is pinned and how an instance must be chosen for an undisturbed
episode to be acceptable at all: the generation prompt of the template is the only pinned
tail and the roster with the write tool is not approved (`PinsAssumption`); the sentinel lies
below every logprob and the tolerated share of certain logprobs is at least the one certain
token in four that a drifting reply brings, which is the least any policy must tolerate to
accept that reply (`PolicyAssumption`); an absent field is no number, no token and no list
(`ValuesAssumption`), and a probe of a checkout always reports something (`ProbeAssumption`).
The bound on the turns is two or more (`MaxTurnsAssumption`), because the episodes over which
the cutoff is stated have two. What stays an abstraction is the alphabet: three replies and one template, each
kind of token a value of its own, as listed in `Episodes`.

Model-checked only:

* liveness (`StartConverges`, `Answered`, `EveryoneLeaves`, `TaskEnds` and the liveness part of
  the refinement), which is out of the prover's reach;

## 5. Plan

Modelled and checked: `IndexStore` with its abstract service, `Receiver` over `Episodes`,
`SessionDispatcher`, `RolloutPipeline`, `EstateRun`, `CorpusSync`, each with its theorems; every
invariant that a passing run checks is stated by one.

To model: the completion store with the proxy and the writer behind it.

### Not modelled

* The grammar of the decisions drop (`decisions.py`), configuration (`config.py` of both
  packages), client and command line, the commands an agent harness runs in its sandbox,
  the request log and statistics: input and output without state that interacts.
* What a stage handler does inside a container, and the container runtimes: external; they
  appear as calls that return or fail.
* The dashboard and the trainer bridge of the platform: not part of the path from task to trace.

### Hazards without a property

One of `PROJECT.json`: the case repositories are fetched one after the other (`ingest.py:169`),
so what is served may be of several moments. The model has that, and the abstract service
allows it (`SearchService!Pick`); nothing in the code promises otherwise. And one that is in no
model: the sweep of HNSW directories before a load that may still refuse the store
(`state.py:147`). Some places share one entry with the place where the same
thing bites: `state.py:388` with `index.py:856`, `estate.py:5227` with `estate.py:3627`,
`index.py:729` with `state.py:343`, `index.py:715` with `state.py:202`, `dispatcher.py:159` with
`dispatcher.py:164`, `dispatcher.py:290` with `dispatcher.py:340`, `estate.py:2091` with
`estate.py:3562`, a failing rename of the receiver with `receiver.py:167`.
