------------------------------ MODULE EstateRun ------------------------------
(***************************************************************************)
(* One run of the estate tool (estate/estate.py): `up` that creates its    *)
(* Forgejo and its retrieval service, `down` and `down --wipe`, over the   *)
(* run directory (marker, compose.yaml, run.json, .env, mcp-config.yaml),  *)
(* the two services' data and the retrieval container.  A command holds    *)
(* the run's lock from its first step to its last (Run.mutation), so one   *)
(* command at a time is in progress; it may stop between any two steps,    *)
(* and the container runs on beside it.                                    *)
(***************************************************************************)
EXTENDS Naturals, FiniteSets

CONSTANTS
  Models,       \* embedding identities (model and revision)
  Windows,      \* chunk windows
  None,         \* no value
  Torn,         \* an mcp-config.yaml that was emptied and not yet written
  Asks,         \* what operators ask of `up`
  MaxCommands,  \* bound on commands
  MaxCuts,      \* bound on commands that stop half way
  MaxRestarts   \* bound on restarts of the container by its daemon

(* What an operator asks of `up`; mcp-config.yaml as the service reads it; *)
(* the store's fingerprint.json, without a fingerprint while it is filled. *)
Answers == [model : Models, window : Windows, rebuild : BOOLEAN]
Configs == [model : Models, window : Windows, always : BOOLEAN]
Stores  == [model : Models, window : Windows, done : BOOLEAN]

ASSUME AsksAssumption == Asks \subseteq Answers
ASSUME NoneAssumption == None \notin Answers \cup Configs \cup Stores
ASSUME TornAssumption == Torn \notin Configs \cup {None}

Secrets == {"admin", "owner", "tokens", "mcp"}
Pieces  == {"marker", "compose", "record", "env", "config", "accounts", "store"}

(* The marker, compose.yaml, the .env and mcp-config.yaml are rewritten in *)
(* place, so each rewrite is a step of its own; SaveNext names the step    *)
(* that follows one of the .env.  run.json is replaced whole.              *)
SaveNext == [save_first |-> "forgejo", save_admin |-> "record_forgejo",
             save_tokens |-> "secret", save_secret |-> "identity",
             save_ready |-> "publish", save_final |-> "record_final"]
Saves    == DOMAIN SaveNext
Steps    == Saves \cup {"idle", "mark", "forgejo", "admin", "record_forgejo",
                        "owner", "tokens", "secret", "identity", "config",
                        "write_config", "compose_mcp", "record_mcp", "start",
                        "await", "settle", "settle_write", "publish",
                        "record_final", "stop", "wipe"}
Torns    == {"torn_marker", "torn_compose", "torn_env"}

VARIABLES
  files,     \* the run directory beside the .env; compose.yaml and run.json
             \* by the last service they name
  env,       \* the .env: which secrets it holds; torn when it was emptied
  accounts,  \* Forgejo's data: the admin, the owner, its live tokens
  store,     \* the index store
  svc,       \* the retrieval container
  cmd,       \* the command in progress and what it holds in memory
  complete,  \* the last `up` ran to its end, no command since
  cuts,      \* history: where commands stopped since the run was complete,
             \* and the files a stop left empty
  drift,     \* history: an `up` ended its start without a recreate it owed
  fresh,     \* history: the store was embedded since the last recreate
  cleared,   \* history: the models --rebuild, or an absent store, let in since
             \* the config was settled, and those it and the store had then
  used       \* how much of each bound is spent

run  == <<files, env, accounts>>
past == <<complete, cuts, drift, fresh, cleared>>
vars == <<files, env, accounts, store, svc, cmd, complete, cuts, drift, fresh,
          cleared, used>>

Idle == [pc |-> "idle", ans |-> None, mem |-> {}, rebuild |-> FALSE,
         changed |-> FALSE, attached |-> FALSE, wipe |-> FALSE]
NoContainer == [state |-> "none", cfg |-> None, same |-> FALSE]
NoFiles     == [marker |-> "none", compose |-> "none", record |-> "none", config |-> None]
NoEnv       == [there |-> FALSE, torn |-> FALSE, has |-> {}]
NoAccounts  == [admin |-> FALSE, owner |-> FALSE, tokens |-> FALSE]

TypeOK ==
  /\ files \in [marker : {"none", "torn", "whole"},
                compose : {"none", "torn", "forgejo", "mcp"},
                record : {"none", "forgejo", "mcp"}, config : Configs \cup {None, Torn}]
  /\ env \in [there : BOOLEAN, torn : BOOLEAN, has : SUBSET Secrets]
  /\ accounts \in [admin : BOOLEAN, owner : BOOLEAN, tokens : BOOLEAN]
  /\ store \in Stores \cup {None}
  /\ svc \in [state : {"none", "checking", "embedding", "ready", "error", "crashed"},
              cfg : Configs \cup {None}, same : BOOLEAN]
  /\ svc.state # "none" => svc.cfg # None /\ files.config # None
  /\ cmd \in [pc : Steps, ans : Answers \cup {None}, mem : SUBSET Secrets,
              rebuild : BOOLEAN, changed : BOOLEAN, attached : BOOLEAN,
              wipe : BOOLEAN]
  /\ complete \in BOOLEAN /\ drift \in BOOLEAN /\ fresh \in BOOLEAN
  /\ cuts \subseteq Steps \cup Torns
  /\ cleared \subseteq Models
  /\ used \in [commands : Nat, cuts : Nat, restarts : Nat]

Init ==
  /\ files = NoFiles
  /\ env = NoEnv
  /\ accounts = NoAccounts
  /\ store = None
  /\ svc = NoContainer
  /\ cmd = Idle
  /\ complete = FALSE /\ cuts = {} /\ drift = FALSE /\ fresh = FALSE
  /\ cleared = {}
  /\ used = [commands |-> 0, cuts |-> 0, restarts |-> 0]

-----------------------------------------------------------------------------
(* What the commands ask of the directory before they touch it.            *)

(* Run.owned: the marker, a valid record, or the generated first line of   *)
(* compose.yaml or of the .env; an emptied one of them is no evidence.     *)
Owned == \/ files.marker = "whole" \/ files.record # "none"
         \/ files.compose \in {"forgejo", "mcp"}
         \/ env.there /\ ~env.torn

Empty == /\ files = NoFiles /\ ~env.there
         /\ accounts = NoAccounts /\ store = None

(* Run.load refuses a record whose .env is gone; Run.prepare a directory   *)
(* that holds something and carries no sign of being a run.                *)
Loadable   == files.record # "none" => env.there
Preparable == Empty \/ Owned

(* cmd_down: nothing is stopped and nothing wiped without a record or a    *)
(* compose file to say what the run owns, and evidence that it is a run.   *)
Stoppable == (files.record # "none" \/ files.compose # "none") /\ Owned

(* The retrieval service's definition asks for its secret and for the read *)
(* token (`:?`): no compose command on a file with it works without them,  *)
(* and none on an emptied file.  `down` goes by the project's labels alone *)
(* where compose.yaml or the .env is missing.                              *)
Keyed         == {"tokens", "mcp"} \subseteq env.has
ComposeWorks  == files.compose # "torn" /\ (files.compose = "mcp" => Keyed)
ServicesFound == files.compose = "none" \/ ~env.there \/ ComposeWorks
Wipeable      == Stoppable /\ ServicesFound

-----------------------------------------------------------------------------
(* `up`, step by step.                                                     *)

Goto(step) == cmd' = [cmd EXCEPT !.pc = step]
Refuse     == cmd' = Idle

Up(ans) ==
  /\ cmd.pc = "idle"
  /\ used.commands < MaxCommands
  /\ Loadable /\ Preparable
  /\ cmd' = [Idle EXCEPT !.pc = "mark", !.ans = ans, !.mem = env.has]
  /\ complete' = FALSE
  /\ used' = [used EXCEPT !.commands = @ + 1]
  /\ UNCHANGED <<run, store, svc, cuts, drift, fresh, cleared>>

WriteMarker ==
  /\ cmd.pc = "mark"
  /\ files' = [files EXCEPT !.marker = "whole"]
  /\ Goto("save_first")
  /\ UNCHANGED <<env, accounts, store, svc, past, used>>

(* Run.write_env: truncate, then write every secret held in memory.        *)
SaveEnv ==
  /\ cmd.pc \in Saves
  /\ env' = [there |-> TRUE, torn |-> FALSE, has |-> cmd.mem]
  /\ Goto(SaveNext[cmd.pc])
  /\ UNCHANGED <<files, accounts, store, svc, past, used>>

(* compose.yaml is rewritten with every service the record names, so       *)
(* starting Forgejo on a run whose .env was emptied fails.                 *)
CreateForgejo ==
  /\ cmd.pc = "forgejo"
  /\ files' = [files EXCEPT !.compose = IF files.record = "mcp" THEN "mcp" ELSE "forgejo"]
  /\ IF files.record = "mcp" => Keyed THEN Goto("admin") ELSE Refuse
  /\ UNCHANGED <<env, accounts, store, svc, past, used>>

(* Mutant: the password is kept until the command's later saves.           *)
CreateAdminSavesLater ==
  /\ cmd.pc = "admin" /\ ~accounts.admin
  /\ accounts' = [accounts EXCEPT !.admin = TRUE]
  /\ cmd' = [cmd EXCEPT !.pc = "record_forgejo", !.mem = @ \cup {"admin"}]
  /\ UNCHANGED <<files, env, store, svc, past, used>>

(* The admin's random password is printed once, by the command that        *)
(* creates it; an admin whose password the .env lacks is a refusal.        *)
CreateAdmin ==
  /\ cmd.pc = "admin" /\ ~accounts.admin
  /\ accounts' = [accounts EXCEPT !.admin = TRUE]
  /\ cmd' = [cmd EXCEPT !.pc = "save_admin", !.mem = @ \cup {"admin"}]
  /\ UNCHANGED <<files, env, store, svc, past, used>>

FindAdmin ==
  /\ cmd.pc = "admin" /\ accounts.admin
  /\ IF "admin" \in cmd.mem THEN Goto("record_forgejo") ELSE Refuse
  /\ UNCHANGED <<run, store, svc, past, used>>

RecordForgejo ==
  /\ cmd.pc = "record_forgejo"
  /\ files' = [files EXCEPT !.record = IF @ = "mcp" THEN "mcp" ELSE "forgejo"]
  /\ Goto("owner")
  /\ UNCHANGED <<env, accounts, store, svc, past, used>>

(* The owner's password stays in memory until the tokens are saved too.    *)
FindOrCreateOwner ==
  /\ cmd.pc = "owner"
  /\ accounts' = [accounts EXCEPT !.owner = TRUE]
  /\ cmd' = [cmd EXCEPT !.pc = "tokens",
                        !.mem = IF accounts.owner THEN @ ELSE @ \cup {"owner"}]
  /\ UNCHANGED <<files, env, store, svc, past, used>>

(* A saved token that still authenticates is kept; a fresh one changes     *)
(* what the container must be given.                                       *)
MintTokens ==
  /\ cmd.pc = "tokens"
  /\ LET kept == "tokens" \in cmd.mem /\ accounts.tokens
     IN  /\ svc' = [svc EXCEPT !.same = @ /\ kept]
         /\ accounts' = [accounts EXCEPT !.tokens = TRUE]
         /\ cmd' = [cmd EXCEPT !.pc = "save_tokens", !.mem = @ \cup {"tokens"}]
  /\ UNCHANGED <<files, env, store, past, used>>

KeepOrDrawSecret ==
  /\ cmd.pc = "secret"
  /\ svc' = [svc EXCEPT !.same = @ /\ "mcp" \in cmd.mem]
  /\ cmd' = [cmd EXCEPT !.pc = "save_secret", !.mem = @ \cup {"mcp"}]
  /\ UNCHANGED <<run, store, past, used>>

(* `rebuild: always` is in mcp-config.yaml, as a search of its text sees.  *)
Rebuilding == files.config \in Configs /\ files.config.always

(* Mutant: a rebuild an earlier command left in the config counts as well. *)
CheckIdentityByConfig ==
  /\ cmd.pc = "identity"
  /\ IF \/ store = None \/ store.model = cmd.ans.model \/ cmd.ans.rebuild
        \/ Rebuilding
       THEN Goto("config") ELSE Refuse
  /\ cleared' = IF store = None \/ cmd.ans.rebuild
                  THEN cleared \cup {cmd.ans.model} ELSE cleared
  /\ UNCHANGED <<run, store, svc, complete, cuts, drift, fresh, used>>

(* A store built by another model is refused unless --rebuild was given;   *)
(* the flag alone decides, not what an earlier rebuild left in the config. *)
CheckIdentity ==
  /\ cmd.pc = "identity"
  /\ IF store = None \/ store.model = cmd.ans.model \/ cmd.ans.rebuild
       THEN Goto("config") ELSE Refuse
  /\ cleared' = IF store = None \/ cmd.ans.rebuild
                  THEN cleared \cup {cmd.ans.model} ELSE cleared
  /\ UNCHANGED <<run, store, svc, complete, cuts, drift, fresh, used>>

(* Mutant: the file is compared with itself.                               *)
WriteConfigThenCompare ==
  /\ cmd.pc = "config"
  /\ IF files.config = Torn
       THEN Refuse /\ UNCHANGED files
       ELSE /\ cmd' = [cmd EXCEPT !.pc = "write_config",
                                  !.rebuild = cmd.ans.rebuild \/ Rebuilding]
            /\ files' = [files EXCEPT !.config = Torn]
  /\ UNCHANGED <<env, accounts, store, svc, past, used>>

(* The config is rendered from the answers; a rebuild whose command never  *)
(* saw it end is still owed.  changed compares the file with what it held. *)
(* Then the file is opened, which empties it.  An emptied one, parsed to   *)
(* None, ends the command before that.                                     *)
WriteConfig ==
  /\ cmd.pc = "config"
  /\ IF files.config = Torn
       THEN Refuse /\ UNCHANGED files
       ELSE LET always == cmd.ans.rebuild \/ Rebuilding
                new    == [model |-> cmd.ans.model, window |-> cmd.ans.window,
                           always |-> always]
            IN  /\ cmd' = [cmd EXCEPT !.pc = "write_config", !.rebuild = always,
                                      !.changed = files.config \notin {None, new}]
                /\ files' = [files EXCEPT !.config = Torn]
  /\ UNCHANGED <<env, accounts, store, svc, past, used>>

Rendered(always) == [model |-> cmd.ans.model, window |-> cmd.ans.window,
                     always |-> always]

ConfigWritten ==
  /\ cmd.pc = "write_config"
  /\ files' = [files EXCEPT !.config = Rendered(cmd.rebuild)]
  /\ Goto("compose_mcp")
  /\ UNCHANGED <<env, accounts, store, svc, past, used>>

ComposeMcp ==
  /\ cmd.pc = "compose_mcp"
  /\ files' = [files EXCEPT !.compose = "mcp"]
  /\ Goto("record_mcp")
  /\ UNCHANGED <<env, accounts, store, svc, past, used>>

RecordMcp ==
  /\ cmd.pc = "record_mcp"
  /\ files' = [files EXCEPT !.record = "mcp"]
  /\ Goto("start")
  /\ UNCHANGED <<env, accounts, store, svc, past, used>>

(* rebuild_in_progress: a container that answers and is neither ready nor  *)
(* in error, whatever configuration it was started with.                   *)
Building == svc.state \in {"checking", "embedding"}

Started(cfg) == [state |-> "checking", cfg |-> cfg, same |-> TRUE]

(* Mutant: only a moved config forces the recreate.                        *)
StartContainerOnChange ==
  /\ cmd.pc = "start"
  /\ LET new == svc.state = "none" \/ ~svc.same \/ cmd.changed
     IN  /\ svc' = IF new THEN Started(files.config) ELSE svc
         /\ cmd' = [cmd EXCEPT !.pc = "await"]
         /\ fresh' = FALSE
  /\ UNCHANGED <<run, store, complete, cuts, drift, cleared, used>>

(* _start_created_mcp: compose recreates a container whose definition      *)
(* moved; a moved config or a rebuild forces it, except over a build.      *)
StartContainer ==
  /\ cmd.pc = "start"
  /\ LET recreate == cmd.rebuild \/ cmd.changed
         attach   == recreate /\ Building
         new      == svc.state = "none" \/ ~svc.same \/ (recreate /\ ~attach)
     IN  /\ svc' = IF new THEN Started(files.config) ELSE svc
         /\ cmd' = [cmd EXCEPT !.pc = "await", !.attached = attach /\ ~new]
         /\ drift' = IF new THEN FALSE ELSE drift \/ (attach /\ cmd.changed)
         /\ fresh' = IF new THEN FALSE ELSE fresh
  /\ UNCHANGED <<run, store, complete, cuts, cleared, used>>

(* Mcp.wait_ready: ready goes on, state=error dies, and so does the end of *)
(* the budget, however far the build has come.                             *)
SeeReady ==
  /\ cmd.pc = "await" /\ svc.state = "ready"
  /\ Goto("settle")
  /\ UNCHANGED <<run, store, svc, past, used>>

GiveUpWaiting ==
  /\ cmd.pc = "await" /\ svc.state # "ready"
  /\ Refuse
  /\ cuts' = cuts \cup {"await"}
  /\ UNCHANGED <<run, store, svc, complete, drift, fresh, cleared, used>>

(* After a rebuild the file is emptied and written again, as this command  *)
(* rendered it but for the rebuild mode.                                   *)
SettleConfig ==
  /\ cmd.pc = "settle"
  /\ IF cmd.rebuild
       THEN files' = [files EXCEPT !.config = Torn] /\ Goto("settle_write")
       ELSE UNCHANGED files /\ Goto("save_ready")
  /\ cleared' = {cmd.ans.model} \cup {s.model : s \in {store} \ {None}}
  /\ UNCHANGED <<env, accounts, store, svc, complete, cuts, drift, fresh, used>>

ConfigSettled ==
  /\ cmd.pc = "settle_write"
  /\ files' = [files EXCEPT !.config = Rendered(FALSE)]
  /\ Goto("save_ready")
  /\ UNCHANGED <<env, accounts, store, svc, past, used>>

(* The reindex, the bank, verify, the run's copies and rollout.yaml.       *)
Publish ==
  /\ cmd.pc = "publish"
  /\ Goto("save_final")
  /\ UNCHANGED <<run, store, svc, past, used>>

Finish ==
  /\ cmd.pc = "record_final"
  /\ files' = [files EXCEPT !.record = "mcp"]
  /\ cmd' = Idle
  /\ complete' = TRUE
  /\ cuts' = {}
  /\ UNCHANGED <<env, accounts, store, svc, drift, fresh, cleared, used>>

-----------------------------------------------------------------------------
(* `down`, and what may stop any command.                                  *)

Down(wipe) ==
  /\ cmd.pc = "idle"
  /\ used.commands < MaxCommands
  /\ Stoppable
  /\ cmd' = [Idle EXCEPT !.pc = "stop", !.wipe = wipe]
  /\ complete' = FALSE
  /\ used' = [used EXCEPT !.commands = @ + 1]
  /\ UNCHANGED <<run, store, svc, cuts, drift, fresh, cleared>>

(* Mutant: the files go while the containers still run.                    *)
StopServicesLater ==
  /\ cmd.pc = "stop"
  /\ IF ServicesFound /\ cmd.wipe THEN UNCHANGED svc /\ Goto("wipe")
                                  ELSE svc' = NoContainer /\ Refuse
  /\ UNCHANGED <<run, store, past, used>>

(* Containers and network are gone, and seen gone, before a file is; a     *)
(* compose command that fails ends `down` with everything as it was.       *)
StopServices ==
  /\ cmd.pc = "stop"
  /\ svc' = IF ServicesFound THEN NoContainer ELSE svc
  /\ IF ServicesFound /\ cmd.wipe THEN Goto("wipe") ELSE Refuse
  /\ UNCHANGED <<run, store, past, used>>

(* rmtree removes the directory's entries in no particular order.          *)
RemovePiece(p) ==
  /\ cmd.pc = "wipe"
  /\ IF p \in DOMAIN files
       THEN files[p] # NoFiles[p] /\ files' = [files EXCEPT ![p] = NoFiles[p]]
       ELSE UNCHANGED files
  /\ IF p = "env" THEN env.there /\ env' = NoEnv
                  ELSE UNCHANGED env
  /\ IF p = "accounts" THEN accounts # NoAccounts /\ accounts' = NoAccounts
                       ELSE UNCHANGED accounts
  /\ IF p = "store" THEN store # None /\ store' = None ELSE UNCHANGED store
  /\ UNCHANGED <<svc, cmd, past, used>>

WipeDone ==
  /\ cmd.pc = "wipe" /\ Empty
  /\ Refuse
  /\ cuts' = {}
  /\ UNCHANGED <<run, store, svc, complete, drift, fresh, cleared, used>>

(* A command is killed, or one of its calls fails and it dies: between two *)
(* steps, or inside the rewrite of the marker, compose.yaml or the .env,   *)
(* which leaves the file empty.  mcp-config.yaml, which the container      *)
(* reads too, is emptied and written in two steps, with a stop in between. *)
Cut ==
  /\ cmd.pc # "idle"
  /\ used.cuts < MaxCuts
  /\ Refuse
  /\ \/ UNCHANGED <<files, env>> /\ cuts' = cuts \cup {cmd.pc}
     \/ /\ cmd.pc = "mark"
        /\ files' = [files EXCEPT !.marker = "torn"] /\ UNCHANGED env
        /\ cuts' = cuts \cup {"torn_marker"}
     \/ /\ cmd.pc \in {"forgejo", "compose_mcp"}
        /\ files' = [files EXCEPT !.compose = "torn"] /\ UNCHANGED env
        /\ cuts' = cuts \cup {"torn_compose"}
     \/ /\ cmd.pc \in Saves
        /\ env' = [there |-> TRUE, torn |-> TRUE, has |-> {}] /\ UNCHANGED files
        /\ cuts' = cuts \cup {"torn_env"}
  /\ drift' = (drift \/ (cmd.pc \in {"compose_mcp", "record_mcp", "start"} /\ cmd.changed))
  /\ used' = [used EXCEPT !.cuts = @ + 1]
  /\ UNCHANGED <<accounts, store, svc, complete, fresh, cleared>>

-----------------------------------------------------------------------------
(* The retrieval service, as the estate meets it.                          *)

(* The start-up decision of state.py (IndexStore has it in full): another  *)
(* model's store is an error, a store built whole for this config is       *)
(* served, anything else is embedded over; always wipes and embeds.        *)
ServiceChecks ==
  /\ svc.state = "checking"
  /\ LET c     == svc.cfg
         other == store # None /\ store.model # c.model
         whole == store = [model |-> c.model, window |-> c.window, done |-> TRUE]
         next  == IF c.always \/ ~(other \/ whole) THEN "embedding"
                  ELSE IF other THEN "error" ELSE "ready"
     IN  /\ svc' = [svc EXCEPT !.state = next]
         /\ store' = IF next = "embedding"
                     THEN [model |-> c.model, window |-> c.window, done |-> FALSE]
                     ELSE store
  /\ UNCHANGED <<run, cmd, past, used>>

ServiceEmbeds ==
  /\ svc.state = "embedding"
  /\ svc' = [svc EXCEPT !.state = "ready"]
  /\ store' = [store EXCEPT !.done = TRUE]
  /\ fresh' = TRUE
  /\ UNCHANGED <<run, cmd, complete, cuts, drift, cleared, used>>

(* restart: unless-stopped — the process starts over and reads the file.   *)
(* An emptied one ends it, so the daemon starts it until it can be read.   *)
ServiceRestarts ==
  /\ svc.state \notin {"none", "crashed"}
  /\ used.restarts < MaxRestarts
  /\ svc' = IF files.config = Torn THEN [svc EXCEPT !.state = "crashed"]
            ELSE [svc EXCEPT !.state = "checking", !.cfg = files.config]
  /\ used' = [used EXCEPT !.restarts = @ + 1]
  /\ UNCHANGED <<run, store, cmd, past>>

ServiceReads ==
  /\ svc.state = "crashed" /\ files.config # Torn
  /\ svc' = [svc EXCEPT !.state = "checking", !.cfg = files.config]
  /\ UNCHANGED <<run, store, cmd, past, used>>

-----------------------------------------------------------------------------
UpStep == \/ WriteMarker \/ SaveEnv \/ CreateForgejo \/ CreateAdmin \/ FindAdmin
          \/ RecordForgejo \/ FindOrCreateOwner \/ MintTokens
          \/ KeepOrDrawSecret \/ CheckIdentity \/ WriteConfig
          \/ ConfigWritten \/ ComposeMcp \/ RecordMcp
          \/ StartContainer \/ SeeReady \/ GiveUpWaiting \/ SettleConfig
          \/ ConfigSettled \/ Publish \/ Finish
DownStep == StopServices \/ (\E p \in Pieces : RemovePiece(p)) \/ WipeDone
Service  == ServiceChecks \/ ServiceEmbeds

Next == \/ \E ans \in Asks : Up(ans)
        \/ \E wipe \in BOOLEAN : Down(wipe)
        \/ UpStep \/ DownStep \/ Cut
        \/ Service \/ ServiceRestarts \/ ServiceReads

Spec == Init /\ [][Next]_vars

-----------------------------------------------------------------------------
Same(c, d) == c.model = d.model /\ c.window = d.window

(* A completed `up` leaves an estate that works: every secret the services *)
(* were given is in the .env (the owner's password may be lost, its tokens *)
(* are not), no rebuild is left in the config, and the container runs what *)
(* the config says and is not in error — unless a start attached to a      *)
(* running build, or was cut short after the config was written.           *)
CompletedWorks ==
  complete =>
    /\ files.marker = "whole" /\ files.record = "mcp" /\ files.compose = "mcp"
    /\ env.there /\ {"admin", "tokens", "mcp"} \subseteq env.has
    /\ accounts = [admin |-> TRUE, owner |-> TRUE, tokens |-> TRUE]
    /\ svc.same /\ svc.state # "none"
    /\ files.config \in Configs /\ ~files.config.always
    /\ (~drift => Same(svc.cfg, files.config) /\ svc.state # "error")

(* Whatever command stopped wherever, the run can be taken up again by     *)
(* `up` and removed by `down --wipe`, but for the places named here.  No   *)
(* `up` accepts it after a stop inside the rewrite of the .env, of the     *)
(* first marker or of mcp-config.yaml (of either kind), or between the     *)
(* admin's creation and the save of its password, or inside rmtree; no     *)
(* --wipe after a stop inside the rewrite of the .env, the marker or       *)
(* compose.yaml, before the first compose file, or inside rmtree.          *)
Resumable == /\ Loadable /\ Preparable
             /\ (files.record = "mcp" => Keyed)
             /\ (accounts.admin => "admin" \in env.has)
             /\ files.config # Torn
StopsUp   == {"torn_env", "torn_marker", "save_admin", "write_config",
              "settle_write", "wipe"}
StopsWipe == {"torn_env", "torn_marker", "torn_compose", "save_first", "forgejo",
              "wipe"}
NeverStuck ==
  cmd.pc = "idle" =>
    /\ ~Resumable => cuts \cap StopsUp # {}
    /\ ~Wipeable /\ ~Empty => cuts \cap StopsWipe # {}

(* The store passes from one model to another only if, since the config    *)
(* was last settled, a command for the new model was given --rebuild or    *)
(* found no store to compare, or the store was of that model then (the     *)
(* check is not repeated at the start, and the service may write another   *)
(* model's record in between): never by what was interrupted or left.      *)
StoreMovesOnlyWhenCleared ==
  [][store # None /\ store' # None /\ store'.model # store.model
       => store'.model \in cleared]_vars

(* A rebuild is owed from the first config that asks for it.  It is        *)
(* forgotten only once the store was embedded by the container the command *)
(* had recreated for it, or attached to, or with the whole directory — or  *)
(* by a stop inside the rewrite of the config that renders it anew.        *)
RebuildOwed == Rebuilding \/ (cmd.pc = "write_config" /\ cmd.rebuild)
OwedUntilDone ==
  [][RebuildOwed /\ ~RebuildOwed' =>
       \/ fresh \/ cmd.attached
       \/ cmd.pc = "wipe"
       \/ cmd.pc = "write_config" /\ cmd'.pc = "idle"]_vars
=============================================================================
