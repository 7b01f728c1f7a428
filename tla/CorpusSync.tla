----------------------------- MODULE CorpusSync -----------------------------
(***************************************************************************)
(* How a corpus tree reaches a standing estate and stays in step with it:  *)
(* `up` and `update` (estate/estate.py) and the pipeline phases they run   *)
(* (scaffold, ingest, taskbank, verify of estate/corpus/ingest_corpus.py), *)
(* over the tree's generated files, the git host's repositories, the       *)
(* retrieval service and the run's own copies.  One command at a time      *)
(* holds the run's lock, and may stop between any two steps; beside it the *)
(* operator edits the tree between phases, someone else pushes to the host *)
(* or deletes a repository, and the service fetches and embeds.            *)
(*                                                                         *)
(* The git identity, the owner and the corpus name never change, and the   *)
(* service is one `up` created (EstateRun has its configuration).          *)
(***************************************************************************)
EXTENDS Corpus

CONSTANTS
  Trees,       \* the trees an operator may have
  Cases,       \* the case ids that occur in them
  Torn,        \* a file cut short while it was written
  Foreign,     \* heads of somebody else's push
  MaxCommands, \* bound on commands
  MaxCuts,     \* bound on commands that stop half way
  MaxEdits,    \* bound on edits of the tree
  MaxForeign,  \* bound on foreign pushes and deletions
  MaxTroubles  \* bound on cuts, edits and foreign pushes together

Absent == None          \* no repository; one just created has no heads
NoHeads == <<>>

(* Timesteps are positive numbers, pages a function of theirs; the special *)
(* values, and somebody else's heads, are nothing a valid tree builds.     *)
ASSUME TreesAssumption ==
  \A t \in Trees :
    /\ DOMAIN t.cases \subseteq Cases
    /\ \A c \in DOMAIN t.cases :
         LET steps == t.cases[c].steps
         IN  /\ IsFiniteSet(DOMAIN steps) /\ DOMAIN steps \subseteq Nat \ {Main}
             /\ \A k \in DOMAIN steps :
                  steps[k].pages = [p \in DOMAIN steps[k].pages |-> steps[k].pages[p]]
ASSUME NoneAssumption ==
  /\ None \notin {Torn, Foreign, NoHeads, "up", "update"}
  /\ None \notin {"nothing", "collision", "refused", "cut", "complete"}
  /\ NoHeads \notin {Torn, Foreign}
  /\ \A t \in Trees : Valid(t) =>
       /\ Rows(t) \notin {None, Torn}
       /\ \A c \in DOMAIN t.cases : Build(t, c) \notin {None, Foreign}

VARIABLES
  tree,    \* the corpus tree
  gen,     \* its generated files: the lock's cases and bank, the parquet,
           \* decisions.lock.json
  live,    \* the git host: the heads of every case's repository
  conf,    \* mcp-config.yaml: the cases it names, whether `update` re-dumped
           \* it, and whether a stop left it empty
  svc,     \* the retrieval service: the heads it read (seen) and those in the
           \* sidecars of the collections its store's record names (store)
  copies,  \* the run's copies of bank, lock and decisions lock, and whether
           \* run.json names the service
  cmd,     \* the command in progress and what it holds in memory
  past,    \* history: how the last command ended (said); the tree edited, the
           \* host pushed to, since verify passed or the command began; the
           \* tree edited, cases pushed to since it began (edited, late); a
           \* command died or had its tree edited, or somebody pushed, since
           \* one completed (dirty); the trigger met a running build (stale)
  used     \* how much of each bound is spent

vars == <<tree, gen, live, conf, svc, copies, cmd, past, used>>

Phases == {"scaffold", "ingest", "taskbank", "verify"}   \* child processes
Steps  == Phases \cup
          {"idle", "owner", "check", "seed", "create", "push", "read_back",
           "write_lock", "drop_lock", "write_config", "start", "await",
           "new_config", "poll", "lock_bank", "copy_bank", "copy_lock",
           "copy_drop", "record"}

(* The tree is read when a command or a phase begins, so an edit may fall  *)
(* before any phase, and wherever the command works on other files.        *)
Between == Phases \cup {"idle", "seed", "write_config", "start", "await", "new_config",
                        "copy_bank", "copy_lock", "copy_drop", "record"}

Idle == [pc |-> "idle", op |-> None, over |-> FALSE, cases |-> {}, push |-> {},
         new |-> FALSE, todo |-> {}, at |-> None, mem |-> <<>>]
NoFiles == [cases |-> <<>>, bank |-> None, parquet |-> None, drop |-> None]

TypeOK ==
  /\ tree \in Trees
  /\ gen.cases = Torn \/ DOMAIN gen.cases \subseteq Cases
  /\ DOMAIN live = Cases
  /\ svc.state \in {"none", "fetching", "embedding", "ready", "error"}
  /\ svc.repos \cup conf.cases \subseteq Cases
  /\ DOMAIN svc.seen = IF svc.state \in {"embedding", "ready"} THEN svc.repos ELSE {}
  /\ DOMAIN svc.store \subseteq Cases
  /\ cmd.pc \in Steps /\ cmd.todo \cup cmd.push \cup cmd.cases \subseteq Cases
  /\ cmd.pc \in {"push", "read_back"} => cmd.at \in cmd.todo
  /\ cmd.pc # "idle" => cmd.op \in {"up", "update"}
  /\ cmd.op = "update" => copies.bank # None

Init ==
  /\ tree \in Trees
  /\ gen = NoFiles
  /\ live = [c \in Cases |-> Absent]
  /\ conf = [cases |-> {}, dumped |-> FALSE, torn |-> FALSE]
  /\ svc = [state |-> "none", repos |-> {}, seen |-> <<>>, drop |-> None, store |-> <<>>]
  /\ copies = [bank |-> None, lock |-> None, drop |-> None, service |-> FALSE]
  /\ cmd = Idle
  /\ past = [said |-> None, moved |-> FALSE, pushed |-> FALSE, edited |-> FALSE,
             late |-> {}, dirty |-> FALSE, stale |-> FALSE]
  /\ used = [commands |-> 0, cuts |-> 0, edits |-> 0, foreign |-> 0]

-----------------------------------------------------------------------------
(* How a command begins.  What validation and the early checks refuse      *)
(* leaves no trace and is no step.                                         *)

Goto(step) == cmd' = [cmd EXCEPT !.pc = step]

(* die: the command ends, what it did so far stays.                        *)
Die(word) == /\ cmd' = Idle
             /\ past' = [past EXCEPT !.said = word,
                                     !.dirty = @ \/ cmd.pc \notin {"owner", "check"}]

Continue(step) == Goto(step) /\ UNCHANGED past

Begin(op, over, push, new, step) ==
  /\ cmd.pc = "idle"
  /\ used.commands < MaxCommands
  /\ used' = [used EXCEPT !.commands = @ + 1]
  /\ cmd' = IF step = "idle" THEN Idle
            ELSE [Idle EXCEPT !.pc = step, !.op = op, !.over = over, !.push = push,
                              !.cases = DOMAIN tree.cases, !.new = new]
  /\ past' = [past EXCEPT !.said = IF step = "idle" THEN "nothing" ELSE None,
                          !.moved = FALSE, !.edited = FALSE, !.late = {}, !.stale = FALSE]

Up(over) ==
  /\ Valid(tree)
  /\ Begin("up", over, DOMAIN tree.cases, FALSE, "owner")
  /\ UNCHANGED <<tree, gen, live, conf, svc, copies>>

(* The collision check: a repository named like a case must hold exactly   *)
(* what this corpus builds, or --overwrite-repos was given.                *)
CheckOwner ==
  /\ cmd.pc = "owner"
  /\ LET drift == {c \in cmd.cases : live[c] \notin {Absent, Build(tree, c)}}
     IN  IF drift = {} \/ cmd.over THEN Continue("scaffold") ELSE Die("collision")
  /\ UNCHANGED <<tree, gen, live, conf, svc, copies, used>>

Baseline   == copies.lock.cases
ServedRows == IF copies.bank = Torn THEN {} ELSE copies.bank

(* Mutant: the texts of free prompts are not compared with the bank.       *)
UpdateByLock ==
  /\ Valid(tree)
  /\ copies.lock \notin {None, Torn} /\ gen.cases # Torn
  /\ Removed(tree, Baseline) = {}
  /\ LET push == ToPush(tree, Baseline, {})
     IN  Begin("update", FALSE, push, NewCases(tree, Baseline) # {},
               IF push = {} THEN "idle" ELSE "check")
  /\ UNCHANGED <<tree, gen, live, conf, svc, copies>>

(* The baseline is the run's lock and, for the texts of free prompts, the  *)
(* run's bank.  A removed case is refused; nothing moved ends the command. *)
Update ==
  /\ Valid(tree)
  /\ copies.lock \notin {None, Torn} /\ gen.cases # Torn
  /\ Removed(tree, Baseline) = {}
  /\ LET push == ToPush(tree, Baseline, ServedRows)
     IN  Begin("update", FALSE, push, NewCases(tree, Baseline) # {},
               IF push = {} THEN "idle" ELSE "check")
  /\ UNCHANGED <<tree, gen, live, conf, svc, copies>>

(* Mutant: a recorded case may hold anything.                              *)
CheckDriftOfNew ==
  /\ cmd.pc = "check"
  /\ IF \A c \in cmd.push \ DOMAIN Baseline : live[c] \in {Absent, Build(tree, c)}
       THEN Continue("seed") ELSE Die("collision")
  /\ UNCHANGED <<tree, gen, live, conf, svc, copies, used>>

(* update pushes only over what the run's lock accounts for: the recorded  *)
(* heads, this very build (an interrupted update's push), or no repository.*)
CheckDrift ==
  /\ cmd.pc = "check"
  /\ IF \A c \in cmd.push :
          live[c] \in {Absent, Build(tree, c)}
                      \cup {Baseline[d].refs : d \in {c} \cap DOMAIN Baseline}
       THEN Continue("seed") ELSE Die("collision")
  /\ UNCHANGED <<tree, gen, live, conf, svc, copies, used>>

(* The phases key off the tree's lock: the baseline becomes the tree's.    *)
SeedLock ==
  /\ cmd.pc = "seed"
  /\ gen' = [gen EXCEPT !.cases = Baseline, !.bank = copies.lock.bank]
  /\ Continue("scaffold")
  /\ UNCHANGED <<tree, live, conf, svc, copies, used>>

-----------------------------------------------------------------------------
(* The scaffold phase: repositories, then the lock.                        *)

(* The lock is loaded once; its new rows stay in memory to the end.        *)
Scaffold ==
  /\ cmd.pc = "scaffold"
  /\ IF Valid(tree) /\ gen.cases # Torn
          /\ (cmd.op = "update" => cmd.push \subseteq DOMAIN tree.cases)
       THEN /\ cmd' = [cmd EXCEPT !.pc = "create", !.mem = gen.cases,
                                  !.todo = IF cmd.op = "update" THEN cmd.push
                                           ELSE DOMAIN tree.cases]
            /\ UNCHANGED past
       ELSE Die("refused")
  /\ UNCHANGED <<tree, gen, live, conf, svc, copies, used>>

(* ensure_remote_repo; the code takes the cases in order of their ids.     *)
EnsureRemoteRepo ==
  /\ cmd.pc = "create"
  /\ \E c \in cmd.todo :
       /\ live' = [live EXCEPT ![c] = IF @ = Absent THEN NoHeads ELSE @]
       /\ cmd' = [cmd EXCEPT !.pc = "push", !.at = c]
  /\ UNCHANGED <<tree, gen, conf, svc, copies, past, used>>

(* push --force --prune; a repository deleted meanwhile fails the push.    *)
PushRepo ==
  /\ cmd.pc = "push"
  /\ IF live[cmd.at] = Absent
       THEN Die("refused") /\ UNCHANGED live
       ELSE /\ live' = [live EXCEPT ![cmd.at] = Build(tree, cmd.at)]
            /\ Continue("read_back")
  /\ UNCHANGED <<tree, gen, conf, svc, copies, used>>

(* Mutant: after a case the next one is pushed without its repository.     *)
ReadBackThenPush ==
  /\ cmd.pc = "read_back"
  /\ IF live[cmd.at] # Build(tree, cmd.at) THEN Die("refused")
     ELSE LET left == cmd.todo \ {cmd.at}
              row  == LockEntry(tree, cmd.at)
          IN  /\ cmd' = [cmd EXCEPT !.pc = IF left = {} THEN "write_lock" ELSE "push",
                                    !.todo = left, !.at = None,
                                    !.mem = [c \in DOMAIN @ \cup {cmd.at} |->
                                               IF c = cmd.at THEN row ELSE @[c]]]
              /\ UNCHANGED past
  /\ UNCHANGED <<tree, gen, live, conf, svc, copies, used>>

(* The pushed heads are read back, the lock row is kept in memory.         *)
ReadBack ==
  /\ cmd.pc = "read_back"
  /\ IF live[cmd.at] # Build(tree, cmd.at) THEN Die("refused")
     ELSE LET left == cmd.todo \ {cmd.at}
              row  == LockEntry(tree, cmd.at)
          IN  /\ cmd' = [cmd EXCEPT !.pc = IF left = {} THEN "write_lock" ELSE "create",
                                    !.todo = left, !.at = None,
                                    !.mem = [c \in DOMAIN @ \cup {cmd.at} |->
                                               IF c = cmd.at THEN row ELSE @[c]]]
              /\ UNCHANGED past
  /\ UNCHANGED <<tree, gen, live, conf, svc, copies, used>>

WriteLock ==
  /\ cmd.pc = "write_lock"
  /\ gen' = [gen EXCEPT !.cases = cmd.mem]
  /\ cmd' = [cmd EXCEPT !.pc = "drop_lock", !.mem = <<>>]
  /\ UNCHANGED <<tree, live, conf, svc, copies, past, used>>

WriteDecisionsLock ==
  /\ cmd.pc = "drop_lock"
  /\ gen' = [gen EXCEPT !.drop = tree.drop]
  /\ Continue(IF cmd.op = "up" THEN "write_config" ELSE "taskbank")
  /\ UNCHANGED <<tree, live, conf, svc, copies, used>>

-----------------------------------------------------------------------------
(* The retrieval service's configuration and its index.                    *)

(* `up` renders the config from the case list it loaded at its start; one  *)
(* that a stop left empty ends it.                                         *)
WriteConfig ==
  /\ cmd.pc = "write_config"
  /\ LET new == [cases |-> cmd.cases, dumped |-> FALSE, torn |-> FALSE]
     IN  IF conf.torn THEN Die("refused") /\ UNCHANGED conf
         ELSE /\ conf' = new
              /\ cmd' = [cmd EXCEPT !.pc = "start", !.new = conf.cases # {} /\ conf # new]
              /\ UNCHANGED past
  /\ UNCHANGED <<tree, gen, live, svc, copies, used>>

(* `update` with a new case re-dumps the config with the new case list.    *)
RewriteConfig ==
  /\ cmd.pc = "new_config"
  /\ IF conf.torn THEN Die("refused") /\ UNCHANGED conf
     ELSE conf' = [cases |-> cmd.cases, dumped |-> TRUE, torn |-> FALSE] /\ Continue("start")
  /\ UNCHANGED <<tree, gen, live, svc, copies, used>>

Building == svc.state \in {"fetching", "embedding"}

(* `up` recreates a container whose config moved, except over a running    *)
(* build; `update` gets here only to recreate it.  The store outlives the  *)
(* container, but for one killed while it writes the store's record.       *)
StartService ==
  /\ cmd.pc = "start"
  /\ IF svc.state = "none" \/ cmd.op = "update" \/ (cmd.new /\ ~Building)
       THEN \E left \in {svc.store} \cup (IF svc.state = "embedding" THEN {<<>>} ELSE {}) :
              svc' = [state |-> "fetching", repos |-> conf.cases, seen |-> <<>>,
                      drop |-> None, store |-> left]
       ELSE UNCHANGED svc
  /\ Continue("await")
  /\ UNCHANGED <<tree, gen, live, conf, copies, used>>

(* Mutant: the trigger is sent only to a service that is not ready.        *)
IngestUnlessReady ==
  /\ cmd.pc = "ingest"
  /\ IF ~Valid(tree) THEN Die("refused") /\ UNCHANGED svc
     ELSE /\ svc' = IF Building \/ svc.state = "ready" THEN svc
                    ELSE [svc EXCEPT !.state = "fetching", !.seen = <<>>]
          /\ past' = [past EXCEPT !.stale = Building]
          /\ Goto("poll")
  /\ UNCHANGED <<tree, gen, live, conf, copies, used>>

(* POST /admin/reindex: a build that is under way answers for the new one. *)
Ingest ==
  /\ cmd.pc = "ingest"
  /\ IF ~Valid(tree) THEN Die("refused") /\ UNCHANGED svc
     ELSE /\ svc' = IF Building THEN svc
                    ELSE [svc EXCEPT !.state = "fetching", !.seen = <<>>]
          /\ past' = [past EXCEPT !.stale = Building]
          /\ Goto("poll")
  /\ UNCHANGED <<tree, gen, live, conf, copies, used>>

(* wait_ready after a start, the phase's own poll after the trigger.       *)
SeeReady ==
  /\ cmd.pc \in {"await", "poll"} /\ svc.state = "ready"
  /\ Continue(IF cmd.pc = "await" THEN "ingest"
              ELSE IF cmd.op = "up" THEN "taskbank" ELSE "verify")
  /\ UNCHANGED <<tree, gen, live, conf, svc, copies, used>>

(* state=error, or the end of the budget.                                  *)
GiveUp ==
  /\ cmd.pc \in {"await", "poll"} /\ svc.state # "ready"
  /\ Die("refused")
  /\ UNCHANGED <<tree, gen, live, conf, svc, copies, used>>

-----------------------------------------------------------------------------
(* The bank, verify, and the run's copies.                                 *)

(* The row's split is the lock's: every case must be in it, and agree.     *)
Bankable == /\ Valid(tree) /\ gen.cases # Torn
            /\ \A c \in DOMAIN tree.cases : c \in DOMAIN gen.cases
                 /\ gen.cases[c].split = SplitOf(tree.cases[c])

WriteBank ==
  /\ cmd.pc = "taskbank"
  /\ IF Bankable THEN gen' = [gen EXCEPT !.parquet = Rows(tree)] /\ Continue("lock_bank")
                 ELSE Die("refused") /\ UNCHANGED gen
  /\ UNCHANGED <<tree, live, conf, svc, copies, used>>

(* update reindexes only a service its run.json names.                     *)
LockBank ==
  /\ cmd.pc = "lock_bank"
  /\ gen' = [gen EXCEPT !.bank = gen.parquet]
  /\ Continue(IF cmd.op = "up" \/ ~copies.service THEN "verify"
              ELSE IF cmd.new THEN "new_config" ELSE "ingest")
  /\ UNCHANGED <<tree, live, conf, svc, copies, used>>

(* Mutant: the branches are compared with the lock only.                   *)
CaseAsLocked(c) ==
  c \in DOMAIN gen.cases /\ live[c] = gen.cases[c].refs

CaseAsSourced(c) ==
  c \in DOMAIN gen.cases /\ CaseVerified(tree, c, gen.cases[c], live[c])

Verified ==
  /\ Valid(tree) /\ gen.cases # Torn
  /\ \A c \in DOMAIN tree.cases : CaseAsSourced(c)
  /\ DOMAIN gen.cases \subseteq DOMAIN tree.cases
  /\ cmd.op = "up" \/ copies.service =>
       /\ svc.state = "ready" /\ ServedVerified(tree, svc.seen)
       /\ svc.drop = tree.drop
  /\ gen.drop = tree.drop
  /\ BankVerified(tree, gen.bank, gen.parquet)

Verify ==
  /\ cmd.pc = "verify"
  /\ IF Verified THEN /\ past' = [past EXCEPT !.moved = FALSE, !.pushed = FALSE]
                      /\ Goto("copy_bank")
                 ELSE Die("refused")
  /\ UNCHANGED <<tree, gen, live, conf, svc, copies, used>>

CopyBank ==
  /\ cmd.pc = "copy_bank"
  /\ IF gen.parquet = None THEN Die("refused") /\ UNCHANGED copies
     ELSE copies' = [copies EXCEPT !.bank = gen.parquet] /\ Continue("copy_lock")
  /\ UNCHANGED <<tree, gen, live, conf, svc, used>>

CopyLock ==
  /\ cmd.pc = "copy_lock"
  /\ IF gen.bank = None THEN Die("refused") /\ UNCHANGED copies
     ELSE /\ copies' = [copies EXCEPT !.lock = [cases |-> gen.cases, bank |-> gen.bank]]
          /\ Continue("copy_drop")
  /\ UNCHANGED <<tree, gen, live, conf, svc, used>>

CopyDecisionsLock ==
  /\ cmd.pc = "copy_drop"
  /\ copies' = [copies EXCEPT !.drop = gen.drop]
  /\ Continue("record")
  /\ UNCHANGED <<tree, gen, live, conf, svc, used>>

(* run.json: only `up` names the service in it.                            *)
Record ==
  /\ cmd.pc = "record"
  /\ copies' = [copies EXCEPT !.service = @ \/ cmd.op = "up"]
  /\ cmd' = Idle
  /\ past' = [past EXCEPT !.said = "complete", !.dirty = past.pushed \/ past.edited]
  /\ UNCHANGED <<tree, gen, live, conf, svc, used>>

-----------------------------------------------------------------------------
(* What happens beside the command.                                        *)

InTrouble == used.cuts + used.edits + used.foreign >= MaxTroubles

(* A command is killed, or one of its calls fails.  A file it was writing  *)
(* in place may be left cut short.                                         *)
TornFile ==
  \/ /\ cmd.pc \in {"seed", "write_lock", "lock_bank"}
     /\ gen' = [gen EXCEPT !.cases = Torn, !.bank = None] /\ UNCHANGED copies
  \/ cmd.pc = "taskbank" /\ Bankable
     /\ gen' = [gen EXCEPT !.parquet = Torn] /\ UNCHANGED copies
  \/ cmd.pc = "drop_lock" /\ gen' = [gen EXCEPT !.drop = Torn] /\ UNCHANGED copies
  \/ cmd.pc = "copy_bank" /\ copies' = [copies EXCEPT !.bank = Torn] /\ UNCHANGED gen
  \/ cmd.pc = "copy_lock" /\ copies' = [copies EXCEPT !.lock = Torn] /\ UNCHANGED gen
Cut ==
  /\ cmd.pc # "idle"
  /\ used.cuts < MaxCuts /\ ~InTrouble
  /\ used' = [used EXCEPT !.cuts = @ + 1]
  /\ Die("cut")
  /\ \/ UNCHANGED <<gen, conf, copies>>
     \/ TornFile /\ UNCHANGED conf
     \/ /\ cmd.pc \in {"write_config", "new_config"}
        /\ conf' = [conf EXCEPT !.torn = TRUE] /\ UNCHANGED <<gen, copies>>
  /\ UNCHANGED <<tree, live, svc>>

(* The operator edits the tree, or takes a fresh checkout of it, which     *)
(* holds no generated file.                                                *)
Edit ==
  /\ cmd.pc \in Between
  /\ used.edits < MaxEdits /\ ~InTrouble
  /\ used' = [used EXCEPT !.edits = @ + 1]
  /\ past' = [past EXCEPT !.moved = TRUE, !.edited = TRUE]
  /\ \/ \E other \in Trees \ {tree} : tree' = other /\ UNCHANGED gen
     \/ gen # NoFiles /\ gen' = NoFiles /\ UNCHANGED tree
  /\ UNCHANGED <<live, conf, svc, copies, cmd>>

ForeignPush(c) ==
  /\ used.foreign < MaxForeign /\ ~InTrouble
  /\ \/ live[c] # Absent /\ live' = [live EXCEPT ![c] = Absent]
     \/ live[c] # Foreign /\ live' = [live EXCEPT ![c] = Foreign]
  /\ past' = [past EXCEPT !.pushed = TRUE, !.dirty = TRUE, !.late = @ \cup {c}]
  /\ used' = [used EXCEPT !.foreign = @ + 1]
  /\ UNCHANGED <<tree, gen, conf, svc, copies, cmd>>

(* The service clones every case its config named at its start, and reads  *)
(* the decisions drop, of which it serves the files that conform; a        *)
(* repository without a main branch is an error.  A case's fingerprint has *)
(* nothing but the SHA of its main: where that did not move, the stored    *)
(* collection is loaded, with the heads its sidecar was written with.      *)
Fetch ==
  /\ svc.state = "fetching"
  /\ LET kept == {c \in svc.repos \cap DOMAIN svc.store :
                    svc.store[c][Main] = live[c][Main]}
     IN  svc' = IF \A c \in svc.repos : live[c] \notin {Absent, NoHeads}
                  THEN [svc EXCEPT !.state = "embedding", !.drop = tree.drop,
                          !.store = Restrict(@, kept),
                          !.seen = [c \in svc.repos |->
                                      IF c \in kept THEN svc.store[c] ELSE live[c]]]
                  ELSE [svc EXCEPT !.state = "error"]
  /\ UNCHANGED <<tree, gen, live, conf, copies, cmd, past, used>>

(* A case is embedded, its sidecar saved, and the record names it.         *)
Land(c) ==
  /\ svc.state = "embedding" /\ c \in svc.repos \ DOMAIN svc.store
  /\ svc' = [svc EXCEPT !.store = Restrict(svc.seen, DOMAIN @ \cup {c})]
  /\ UNCHANGED <<tree, gen, live, conf, copies, cmd, past, used>>

Embed ==
  /\ svc.state = "embedding" /\ svc.repos \subseteq DOMAIN svc.store
  /\ svc' = [svc EXCEPT !.state = "ready"]
  /\ UNCHANGED <<tree, gen, live, conf, copies, cmd, past, used>>

-----------------------------------------------------------------------------
CommandStep ==
  \/ CheckOwner \/ CheckDrift \/ SeedLock
  \/ Scaffold \/ EnsureRemoteRepo \/ PushRepo \/ ReadBack \/ WriteLock
  \/ WriteDecisionsLock \/ WriteConfig \/ RewriteConfig \/ StartService
  \/ Ingest \/ SeeReady \/ GiveUp \/ WriteBank \/ LockBank \/ Verify
  \/ CopyBank \/ CopyLock \/ CopyDecisionsLock \/ Record
Service == Fetch \/ (\E c \in Cases : Land(c)) \/ Embed

Next == \/ \E over \in BOOLEAN : Up(over)
        \/ Update
        \/ CommandStep \/ Service \/ Cut \/ Edit
        \/ \E c \in Cases : ForeignPush(c)

Spec == Init /\ [][Next]_vars

-----------------------------------------------------------------------------
(* After a completed `up` or `update`, while nobody edited the tree or     *)
(* pushed since its verify: every repository holds what the tree builds,   *)
(* so every branch the pages of its timestep's directory (main is cut      *)
(* there), the lock records it and nothing else, and the run's copies of   *)
(* bank, lock and decisions lock are the tree's — whatever was edited,     *)
(* pushed or cut before, between phases of this command included.  Only a  *)
(* timestep taken from the tree under the command may leave its branch:    *)
(* verify asks for the tree's branches, and the service's census has the   *)
(* other only if there is a service and it read the pushed heads: not if   *)
(* it was already fetching, nor if main did not move, for then it reports  *)
(* the timesteps it had read before.                                       *)
Unmoved == ~past.moved /\ ~past.pushed
Kept(heads, built) == /\ DOMAIN built \subseteq DOMAIN heads
                      /\ \A b \in DOMAIN built : heads[b] = built[b]
Settled ==
  past.said = "complete" /\ Unmoved =>
    /\ \A c \in DOMAIN tree.cases :
         \/ live[c] = Build(tree, c)
         \/ /\ past.edited /\ (copies.service => svc.seen[c] # live[c])
            /\ Kept(live[c], Build(tree, c))
    /\ DOMAIN gen.cases = DOMAIN tree.cases
    /\ \A c \in DOMAIN tree.cases :
         /\ \A k \in DOMAIN tree.cases[c].steps :
              PagesOf(live[c][k]) = tree.cases[c].steps[k].pages
         /\ gen.cases[c].refs = live[c]
         /\ gen.cases[c].split = SplitOf(tree.cases[c])
    /\ copies.lock = [cases |-> gen.cases, bank |-> Rows(tree)]
    /\ copies.bank = Rows(tree)
    /\ copies.drop = tree.drop

(* ... and the service serves every case of the tree, at its timesteps,    *)
(* and the tree's drop; and the content of what those branches were built  *)
(* from, although verify compares only counts with what is served — but    *)
(* not if the trigger met a build under way.  All of that if there is a    *)
(* service: an interrupted first `up` left none in run.json for `update`   *)
(* to reindex.                                                             *)
IndexFresh ==
  past.said = "complete" /\ Unmoved /\ copies.service =>
    /\ svc.state = "ready" /\ svc.drop = tree.drop
    /\ DOMAIN svc.seen = DOMAIN tree.cases
    /\ \A c \in DOMAIN tree.cases :
         /\ DOMAIN svc.seen[c] \ {Main} = DOMAIN tree.cases[c].steps
         /\ ~past.stale => svc.seen[c][Main] = Build(tree, c)[Main]

(* Somebody else's branches are never pushed over, unless --overwrite-repos*)
(* asked for it, they arrived after the command had looked, or the tree    *)
(* was edited under the running command, whose phases read it again.       *)
NoPushOver ==
  [][\A c \in Cases :
       live[c] = Foreign /\ live'[c] \notin {Absent, Foreign}
         => cmd.over \/ c \in past.late \/ past.moved]_vars

(* What a command answers is true.  "Nothing moved" only if the estate is  *)
(* what the tree builds (every way a tree can change but the drop, which   *)
(* is documented, is seen), unless a command was cut short since the last  *)
(* completed one, somebody pushed, or the tree was edited under that one:  *)
(* its lock may then have the prompt ids of one tree, its bank the rows of *)
(* another.  "Collision" only if somebody edited or pushed: a command cut  *)
(* short is resumed by the next, which knows its own heads; but not if it  *)
(* was cut between the creation of a repository and the first push, whose  *)
(* empty repository every later one refuses.                               *)
AnswersAreTrue ==
  /\ past.said = "nothing" /\ ~past.dirty /\ ~past.moved =>
       /\ \A c \in DOMAIN tree.cases : live[c] = Build(tree, c)
       /\ DOMAIN Baseline = DOMAIN tree.cases
       /\ copies.bank = Rows(tree)
  /\ past.said = "collision" =>
       used.edits + used.foreign > 0 \/ \E c \in Cases : live[c] = NoHeads
=============================================================================
