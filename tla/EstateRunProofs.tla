--------------------------- MODULE EstateRunProofs ---------------------------
(***************************************************************************)
(* Theorems of EstateRun for any models and windows, and any number of     *)
(* commands, stops and restarts of the container.                          *)
(***************************************************************************)
EXTENDS EstateRun, TLAPS

(* The steps of `up` after which something is done, last to first.         *)
Recorded  == {"record_final"}
Published == Recorded \cup {"save_final"}
Settling  == Published \cup {"save_ready", "publish"}
Awaited   == Settling \cup {"settle", "settle_write"}
Running   == Awaited \cup {"await"}
Begun     == Running \cup {"start"}
Listed    == Begun \cup {"record_mcp"}
Planned   == Listed \cup {"compose_mcp"}
Checked   == Planned \cup {"config", "write_config"}
Secured   == Checked \cup {"save_secret", "identity"}
Minted    == Secured \cup {"save_tokens", "secret"}
Owning    == Minted \cup {"tokens"}
Noted     == Owning \cup {"owner"}
Manned    == Noted \cup {"save_admin", "record_forgejo"}
Composed  == Manned \cup {"admin"}
Saved     == Composed \cup {"forgejo"}
UpSteps   == Saved \cup {"save_first"}

(* The steps between the emptying of mcp-config.yaml and its writing.      *)
Rewriting == {"write_config", "settle_write"}

(* What a running `up` has done, and holds in memory.                      *)
FilesOK ==
  /\ cmd.pc \in UpSteps  => files.marker = "whole"
  /\ cmd.pc \in Saved    => env.there
  /\ cmd.pc \in Composed => files.compose \in {"forgejo", "mcp"}
  /\ cmd.pc \in Noted    => files.record # "none"
  /\ cmd.pc \in Listed   => files.compose = "mcp"
  /\ cmd.pc \in Begun    => files.record = "mcp"
  /\ cmd.pc \in Planned \ Rewriting => files.config # None /\ files.config # Torn
  /\ cmd.pc \in Rewriting => files.config = Torn
AccountsOK ==
  /\ cmd.pc \in Manned => accounts.admin
  /\ cmd.pc \in Owning => accounts.owner
  /\ cmd.pc \in Minted => accounts.tokens
MemoryOK ==
  /\ cmd.pc \in UpSteps \cup {"mark"} => cmd.ans \in Answers /\ env.has \subseteq cmd.mem
  /\ cmd.pc \in Manned  => "admin" \in cmd.mem
  /\ cmd.pc \in Minted  => "tokens" \in cmd.mem
  /\ cmd.pc \in Secured => "mcp" \in cmd.mem
  /\ cmd.pc \in Secured \ {"save_secret"} => env.has = cmd.mem

(* What the container runs, and of what the config says.                   *)
ServiceOK ==
  /\ svc.state \in {"embedding", "ready"} => store # None /\ store.model = svc.cfg.model
  /\ cmd.pc = "wipe" => svc.state = "none"
  /\ cmd.pc \in Running => svc.state # "none" /\ svc.same
ConfigOK ==
  /\ cmd.pc \in Planned \ Rewriting => Same(files.config, cmd.ans)
  /\ cmd.pc \in Planned \ (Settling \cup Rewriting) => cmd.rebuild = files.config.always
  /\ cmd.pc \in Settling => ~files.config.always
  /\ cmd.pc = "settle_write" => cmd.rebuild
DriftOK ==
  svc.state # "none" /\ ~drift =>
    IF cmd.pc \in Rewriting
      THEN Same(svc.cfg, cmd.ans) \/ (cmd.pc = "write_config" /\ cmd.changed)
      ELSE \/ files.config = Torn
           \/ Same(svc.cfg, files.config)
           \/ cmd.pc \in {"compose_mcp", "record_mcp", "start"} /\ cmd.changed

(* Once waited for, a container that runs what the config says meets a     *)
(* store of its own model at every restart.                                *)
AtHome == /\ svc.state # "none" /\ svc.state # "error"
          /\ store # None /\ store.model = svc.cfg.model
HomeOK == (cmd.pc \in Awaited \/ complete) /\ ~drift => AtHome

CompleteOK == complete => cmd.pc = "idle" /\ CompletedWorks

(* A rebuild that is owed is under way or done, or an attached build's.    *)
OwedOK ==
  /\ cmd.pc = "await" /\ cmd.rebuild /\ ~cmd.attached =>
       \/ fresh
       \/ svc.state = "embedding"
       \/ svc.state = "checking" /\ svc.cfg.always
  /\ cmd.pc \in {"settle", "settle_write"} /\ cmd.rebuild /\ ~cmd.attached => fresh

(* Every model that the store, the config or the container has was let in. *)
ClearedOK ==
  /\ store # None => store.model \in cleared
  /\ files.config \in Configs => files.config.model \in cleared
  /\ svc.state # "none" => svc.cfg.model \in cleared
  /\ cmd.pc \in Checked \ Settling => cmd.ans.model \in cleared
  /\ cmd.pc = "settle" /\ svc.state \in {"checking", "error", "crashed"} =>
       svc.cfg.model = files.config.model

(* What the retrieval service's definition asks for is in the .env, and    *)
(* the config is whole, but for the stops that empty a file.               *)
SecretsOK ==
  files.compose = "mcp" \/ files.record = "mcp" =>
    Keyed \/ cuts \cap {"torn_env", "wipe"} # {} \/ cmd.pc = "wipe"
TornOK ==
  files.config = Torn => cuts \cap Rewriting # {} \/ cmd.pc \in Rewriting

(* NeverStuck, at every step of a command.                                 *)
StuckOK ==
  /\ Resumable \/ cuts \cap StopsUp # {}
       \/ cmd.pc \in {"save_admin", "wipe", "write_config", "settle_write"}
  /\ Wipeable \/ Empty \/ cuts \cap StopsWipe # {}
       \/ cmd.pc \in {"save_first", "forgejo", "wipe"}

IndInv == /\ TypeOK /\ FilesOK /\ AccountsOK /\ MemoryOK /\ ServiceOK /\ ConfigOK
          /\ DriftOK /\ HomeOK /\ CompleteOK /\ OwedOK /\ ClearedOK
          /\ SecretsOK /\ TornOK /\ StuckOK

-----------------------------------------------------------------------------
(* Types.                                                                  *)
Directories  == [marker : {"none", "torn", "whole"},
                 compose : {"none", "torn", "forgejo", "mcp"},
                 record : {"none", "forgejo", "mcp"}, config : Configs \cup {None, Torn}]
Environments == [there : BOOLEAN, torn : BOOLEAN, has : SUBSET Secrets]
Servers      == [admin : BOOLEAN, owner : BOOLEAN, tokens : BOOLEAN]
Services     == [state : {"none", "checking", "embedding", "ready", "error", "crashed"},
                 cfg : Configs \cup {None}, same : BOOLEAN]
Commands     == [pc : Steps, ans : Answers \cup {None}, mem : SUBSET Secrets, rebuild : BOOLEAN,
                 changed : BOOLEAN, attached : BOOLEAN, wipe : BOOLEAN]
Typed ==
  /\ files \in Directories /\ env \in Environments /\ accounts \in Servers
  /\ svc \in Services /\ cmd \in Commands
  /\ store \in Stores \cup {None} /\ (store # None => store \in Stores)
  /\ svc.state # "none" => svc.cfg # None /\ files.config # None
  /\ complete \in BOOLEAN /\ drift \in BOOLEAN /\ fresh \in BOOLEAN
  /\ cuts \subseteq Steps \cup Torns /\ cleared \subseteq Models
  /\ used \in [commands : Nat, cuts : Nat, restarts : Nat]

(* The type invariant, by named sets.                                      *)
LEMMA TypeIs == (TypeOK <=> Typed) /\ (TypeOK' <=> Typed')
BY DEF TypeOK, Typed, Directories, Environments, Servers, Services, Commands

(* Between two commands there is none in progress.                         *)
LEMMA IdleIs == Idle \in Commands /\ Idle.pc = "idle"
BY DEF Idle, Commands, Steps

USE DEF Recorded, Published, Settling, Awaited, Running, Begun, Listed, Planned, Checked,
        Secured, Minted, Owning, Noted, Manned, Composed, Saved, UpSteps, Rewriting

(* `up` empties, writes and settles a config over whatever the directory   *)
(* holds.                                                                  *)
Rest == <<files.marker, files.compose, files.record>>

(* The rewrite of a config leaves the other files of the directory alone.  *)
LEMMA ConfigPut ==
  ASSUME Typed, NEW c \in Configs \cup {Torn}, files' = [files EXCEPT !.config = c]
  PROVE  files' \in Directories /\ files'.config = c /\ c # None /\ Rest' = Rest
BY NoneAssumption, TornAssumption DEF Typed, Directories, Rest

(* What a command renders is a config of the model and window asked for.   *)
LEMMA RenderedIs ==
  ASSUME cmd.ans \in Answers, NEW always \in BOOLEAN
  PROVE  /\ Rendered(always) \in Configs /\ Rendered(always) # Torn /\ Rendered(always) # None
         /\ Same(Rendered(always), cmd.ans) /\ Rendered(always).always = always
         /\ Rendered(always).model = cmd.ans.model
<1>1. cmd.ans.model \in Models /\ cmd.ans.window \in Windows
  BY DEF Answers
<1>2. Rendered(always) \in Configs
  BY <1>1 DEF Rendered, Configs
<1> QED BY <1>2, NoneAssumption, TornAssumption DEF Rendered, Same

(* A running `up` that has written its .env, and is not inside the rewrite *)
(* of the config, leaves a run that can be resumed, but for the stops      *)
(* named; once compose.yaml is there, one that can be wiped.               *)
Resuming == /\ FilesOK /\ SecretsOK /\ TornOK
            /\ cmd.pc \in Saved \ Rewriting
            /\ (accounts.admin => "admin" \in env.has)
LEMMA UpResumes == /\ Resuming => Resumable \/ cuts \cap StopsUp # {}
                   /\ Resuming' => Resumable' \/ cuts' \cap StopsUp' # {}
BY DEF Resuming, FilesOK, SecretsOK, TornOK, StopsUp, Resumable, Loadable, Preparable, Owned
LEMMA UpWipes ==
  /\ FilesOK /\ SecretsOK /\ cmd.pc \in Composed => Wipeable \/ cuts \cap StopsWipe # {}
  /\ FilesOK' /\ SecretsOK' /\ cmd'.pc \in Composed => Wipeable' \/ cuts' \cap StopsWipe' # {}
BY DEF FilesOK, SecretsOK, StopsWipe, Wipeable, Stoppable, ServicesFound, ComposeWorks, Owned

(* Once the marker is written the directory is the tool's.                 *)
LEMMA WriteMarkerKeeps ==
  ASSUME IndInv, WriteMarker
  PROVE  IndInv'
<1>0. Typed
  BY TypeIs DEF IndInv
<1>1. TypeOK'
  <2>1. cmd' \in Commands
    BY <1>0 DEF Typed, WriteMarker, Goto, Refuse, Idle, run, past, Commands, Steps, Saves,
       SaveNext
  <2>2. files' \in Directories /\ env' \in Environments /\ accounts' \in Servers
    BY <1>0 DEF Typed, WriteMarker, run, past, Directories, Environments, Servers
  <2>3. svc' \in Services /\ store' \in Stores \cup {None}
    BY <1>0 DEF Typed, WriteMarker, Goto, Refuse, Idle, run, past, Services
  <2>4. svc'.state # "none" => svc'.cfg # None /\ files'.config # None
    BY <1>0 DEF Typed, WriteMarker, Goto, Refuse, Idle, run, past, Services
  <2>5. /\ complete' \in BOOLEAN /\ drift' \in BOOLEAN /\ fresh' \in BOOLEAN
        /\ cuts' \subseteq Steps \cup Torns /\ cleared' \subseteq Models
        /\ used' \in [commands : Nat, cuts : Nat, restarts : Nat]
    BY <1>0 DEF Typed, WriteMarker, Goto, Refuse, Idle, run, past, Steps, Commands
  <2> QED BY <2>1, <2>2, <2>3, <2>4, <2>5, TypeIs DEF Typed
<1>2. FilesOK'
  BY DEF IndInv, WriteMarker, Goto, Refuse, Idle, run, past, TypeOK, FilesOK
<1>3. AccountsOK'
  BY DEF IndInv, WriteMarker, Goto, Refuse, Idle, run, past, TypeOK, AccountsOK
<1>4. MemoryOK'
  BY DEF IndInv, WriteMarker, Goto, Refuse, Idle, run, past, TypeOK, MemoryOK
<1>5. ServiceOK'
  BY DEF IndInv, WriteMarker, Goto, Refuse, Idle, run, past, TypeOK, ServiceOK
<1>6. ConfigOK'
  BY DEF IndInv, WriteMarker, Goto, Refuse, Idle, run, past, TypeOK, ConfigOK
<1>7. DriftOK'
  BY DEF IndInv, WriteMarker, Goto, Refuse, Idle, run, past, TypeOK, DriftOK
<1>8. HomeOK'
  BY DEF IndInv, WriteMarker, Goto, Refuse, Idle, run, past, TypeOK, HomeOK, AtHome
<1>9. CompleteOK'
  BY DEF IndInv, WriteMarker, Goto, Refuse, Idle, run, past, TypeOK, CompleteOK
<1>10. OwedOK'
  BY DEF IndInv, WriteMarker, Goto, Refuse, Idle, run, past, TypeOK, OwedOK
<1>11. ClearedOK'
  BY DEF IndInv, WriteMarker, Goto, Refuse, Idle, run, past, TypeOK, ClearedOK
<1>12. StuckOK'
  BY DEF IndInv, WriteMarker, Goto, Refuse, Idle, run, past, TypeOK, StuckOK, FilesOK,
     MemoryOK, TornOK, SecretsOK, Resumable, Wipeable, Stoppable, ServicesFound, ComposeWorks,
     Keyed, Owned, Loadable, Preparable, Empty
<1>13. SecretsOK' /\ TornOK'
  BY DEF IndInv, WriteMarker, Goto, Refuse, Idle, run, past, SecretsOK, TornOK, Keyed
<1> QED BY <1>1, <1>2, <1>3, <1>4, <1>5, <1>6, <1>7, <1>8, <1>9, <1>10, <1>11, <1>12,
       <1>13 DEF IndInv

(* A save of .env writes the secrets in memory, so what the file has is in *)
(* memory.                                                                 *)
LEMMA SaveEnvKeeps ==
  ASSUME IndInv, SaveEnv
  PROVE  IndInv'
<1>0. Typed
  BY TypeIs DEF IndInv
<1>1. TypeOK'
  <2>1. cmd' \in Commands
    BY <1>0 DEF Typed, SaveEnv, Goto, Saves, SaveNext, run, past, Commands, Steps
  <2>2. files' \in Directories /\ env' \in Environments /\ accounts' \in Servers
    <3>1. cmd.mem \in SUBSET Secrets
      BY <1>0 DEF Typed, Commands
    <3> QED BY <1>0, <3>1 DEF Typed, SaveEnv, run, past, Directories, Environments, Servers
  <2>3. svc' \in Services /\ store' \in Stores \cup {None}
    BY <1>0 DEF Typed, SaveEnv, Goto, Saves, SaveNext, run, past, Services
  <2>4. svc'.state # "none" => svc'.cfg # None /\ files'.config # None
    BY <1>0 DEF Typed, SaveEnv, Goto, Saves, SaveNext, run, past, Services
  <2>5. /\ complete' \in BOOLEAN /\ drift' \in BOOLEAN /\ fresh' \in BOOLEAN
        /\ cuts' \subseteq Steps \cup Torns /\ cleared' \subseteq Models
        /\ used' \in [commands : Nat, cuts : Nat, restarts : Nat]
    BY <1>0 DEF Typed, SaveEnv, Goto, Saves, SaveNext, run, past, Steps, Commands
  <2> QED BY <2>1, <2>2, <2>3, <2>4, <2>5, TypeIs DEF Typed
<1>2. FilesOK'
  BY DEF IndInv, SaveEnv, Goto, Saves, SaveNext, FilesOK
<1>3. AccountsOK'
  BY DEF IndInv, SaveEnv, Goto, Saves, SaveNext, AccountsOK
<1>4. MemoryOK'
  BY DEF IndInv, SaveEnv, Goto, Saves, SaveNext, MemoryOK
<1>5. ServiceOK'
  BY DEF IndInv, SaveEnv, Goto, Saves, SaveNext, ServiceOK
<1>6. ConfigOK'
  BY DEF IndInv, SaveEnv, Goto, Saves, SaveNext, ConfigOK
<1>7. DriftOK'
  BY DEF IndInv, SaveEnv, Goto, Saves, SaveNext, past, DriftOK
<1>8. HomeOK'
  BY DEF IndInv, SaveEnv, Goto, Saves, SaveNext, past, HomeOK, AtHome
<1>9. CompleteOK'
  BY DEF IndInv, SaveEnv, Goto, Saves, SaveNext, past, CompleteOK
<1>10. OwedOK'
  BY DEF SaveEnv, Goto, Saves, SaveNext, OwedOK
<1>11. ClearedOK'
  BY DEF IndInv, SaveEnv, Goto, Saves, SaveNext, past, ClearedOK
<1>12. SecretsOK' /\ TornOK'
  <2>1. /\ cmd'.pc \notin Rewriting \cup {"wipe"} /\ cmd.pc \notin Rewriting \cup {"wipe"}
        /\ files' = files /\ cuts' = cuts /\ (Keyed => Keyed')
    BY <1>0 DEF IndInv, MemoryOK, SaveEnv, Goto, Saves, SaveNext, past, Keyed, Typed, Commands
  <2> QED BY <2>1 DEF IndInv, SecretsOK, TornOK
<1>13. StuckOK'
  <2>1. cmd'.pc \in Saved \ Rewriting /\ cmd.pc \notin {"wipe", "write_config", "settle_write"}
        /\ (cmd.pc # "save_first" => cmd'.pc \in Composed)
        /\ (cmd.pc = "save_first" => cmd'.pc = "forgejo")
        /\ cmd.pc \in UpSteps
    BY <1>0 DEF SaveEnv, Goto, Saves, SaveNext, Typed, Commands
  <2>2. \/ accounts'.admin => "admin" \in env'.has
        \/ cuts' \cap StopsUp # {}
    BY <2>1 DEF IndInv, StuckOK, Resumable, SaveEnv, past, MemoryOK
  <2> QED BY <1>2, <1>12, <2>1, <2>2, UpResumes, UpWipes DEF Resuming, StuckOK, StopsUp
<1> QED BY <1>1, <1>2, <1>3, <1>4, <1>5, <1>6, <1>7, <1>8, <1>9, <1>10, <1>11, <1>12,
       <1>13 DEF IndInv

(* The compose file and the data directories are there before an account   *)
(* is.                                                                     *)
LEMMA CreateForgejoKeeps ==
  ASSUME IndInv, CreateForgejo
  PROVE  IndInv'
<1>0. Typed
  BY TypeIs DEF IndInv
<1>b. /\ cmd.pc = "forgejo"
      /\ files' = [files EXCEPT !.compose = IF files.record = "mcp" THEN "mcp" ELSE "forgejo"]
      /\ \/ cmd' = [cmd EXCEPT !.pc = "admin"] /\ (files.record = "mcp" => Keyed)
         \/ cmd' = Idle
      /\ env' = env /\ accounts' = accounts /\ store' = store /\ svc' = svc
      /\ past' = past /\ used' = used
  BY DEF CreateForgejo, Goto, Refuse
<1>c. /\ files' \in Directories /\ files'.marker = files.marker /\ files'.record = files.record
      /\ files'.config = files.config /\ files'.compose \in {"forgejo", "mcp"}
      /\ (files'.compose = "mcp" => files.record = "mcp")
  BY <1>0, <1>b DEF Typed, Directories
<1>d. cmd' \in Commands /\ cmd'.pc \in {"admin", "idle"}
      /\ (cmd'.pc = "admin" => cmd'.ans = cmd.ans /\ cmd'.mem = cmd.mem)
  <2>1. CASE cmd' = Idle
    BY <2>1, IdleIs
  <2>2. CASE cmd' = [cmd EXCEPT !.pc = "admin"]
    BY <1>0, <2>2 DEF Typed, Commands, Steps
  <2> QED BY <1>b, <2>1, <2>2
<1>1. TypeOK'
  <2>1. cmd' \in Commands
    BY <1>d
  <2>2. files' \in Directories /\ env' \in Environments /\ accounts' \in Servers
    BY <1>0, <1>b, <1>c DEF Typed
  <2>3. svc' \in Services /\ store' \in Stores \cup {None}
    BY <1>0, <1>b DEF Typed
  <2>4. svc'.state # "none" => svc'.cfg # None /\ files'.config # None
    BY <1>0, <1>b, <1>c DEF Typed
  <2>5. /\ complete' \in BOOLEAN /\ drift' \in BOOLEAN /\ fresh' \in BOOLEAN
        /\ cuts' \subseteq Steps \cup Torns /\ cleared' \subseteq Models
        /\ used' \in [commands : Nat, cuts : Nat, restarts : Nat]
    BY <1>0 DEF Typed, CreateForgejo, Goto, run, past, Steps, Commands
  <2> QED BY <2>1, <2>2, <2>3, <2>4, <2>5, TypeIs DEF Typed
<1>2. FilesOK'
  BY <1>b, <1>c, <1>d DEF IndInv, FilesOK
<1>3. AccountsOK'
  BY <1>b, <1>c, <1>d DEF IndInv, AccountsOK
<1>4. MemoryOK'
  BY <1>b, <1>c, <1>d DEF IndInv, MemoryOK
<1>5. ServiceOK'
  BY <1>b, <1>c, <1>d DEF IndInv, ServiceOK
<1>6. ConfigOK'
  BY <1>b, <1>c, <1>d DEF IndInv, ConfigOK
<1>7. DriftOK'
  BY <1>b, <1>c, <1>d DEF IndInv, past, DriftOK
<1>8. HomeOK'
  BY <1>b, <1>c, <1>d DEF IndInv, past, HomeOK, AtHome, CompleteOK
<1>9. CompleteOK'
  BY <1>b, <1>c, <1>d DEF IndInv, past, CompleteOK
<1>10. OwedOK'
  BY <1>b, <1>c, <1>d DEF IndInv, OwedOK
<1>11. ClearedOK'
  BY <1>b, <1>c, <1>d DEF IndInv, past, ClearedOK
<1>12. StuckOK'
  <2>1. Resumable => Resumable'
    BY <1>b, <1>c DEF Resumable, Keyed, Loadable, Preparable, Owned
  <2>2. Stoppable'
    BY <1>c DEF Stoppable, Owned
  <2>3. Wipeable' \/ cuts' \cap StopsWipe # {}
    BY <1>b, <1>c, <2>2 DEF IndInv, SecretsOK, Wipeable, ServicesFound, ComposeWorks, Keyed,
       StopsWipe, past
  <2> QED BY <1>b, <2>1, <2>3 DEF IndInv, StuckOK, past
<1>13. SecretsOK' /\ TornOK'
  BY <1>b, <1>c, <1>d DEF IndInv, SecretsOK, TornOK, Keyed, past
<1> QED BY <1>1, <1>2, <1>3, <1>4, <1>5, <1>6, <1>7, <1>8, <1>9, <1>10, <1>11, <1>12,
       <1>13 DEF IndInv

(* A new admin has its password in memory before it is saved.              *)
LEMMA CreateAdminKeeps ==
  ASSUME IndInv, CreateAdmin
  PROVE  IndInv'
<1>0. Typed
  BY TypeIs DEF IndInv
<1>1. TypeOK'
  <2>1. cmd' \in Commands
    BY <1>0 DEF Typed, CreateAdmin, run, past, Commands, Steps, Saves, SaveNext, Secrets
  <2>2. files' \in Directories /\ env' \in Environments /\ accounts' \in Servers
    BY <1>0 DEF Typed, CreateAdmin, run, past, Directories, Environments, Servers
  <2>3. svc' \in Services /\ store' \in Stores \cup {None}
    BY <1>0 DEF Typed, CreateAdmin, run, past, Services
  <2>4. svc'.state # "none" => svc'.cfg # None /\ files'.config # None
    BY <1>0 DEF Typed, CreateAdmin, run, past, Services
  <2>5. /\ complete' \in BOOLEAN /\ drift' \in BOOLEAN /\ fresh' \in BOOLEAN
        /\ cuts' \subseteq Steps \cup Torns /\ cleared' \subseteq Models
        /\ used' \in [commands : Nat, cuts : Nat, restarts : Nat]
    BY <1>0 DEF Typed, CreateAdmin, run, past, Steps, Commands
  <2> QED BY <2>1, <2>2, <2>3, <2>4, <2>5, TypeIs DEF Typed
<1>2. FilesOK'
  BY DEF IndInv, CreateAdmin, FilesOK
<1>3. AccountsOK'
  BY DEF CreateAdmin, AccountsOK
<1>4. MemoryOK'
  BY DEF IndInv, CreateAdmin, MemoryOK
<1>5. ServiceOK'
  BY DEF IndInv, CreateAdmin, ServiceOK
<1>6. ConfigOK'
  BY DEF CreateAdmin, ConfigOK
<1>7. DriftOK'
  BY DEF IndInv, CreateAdmin, past, DriftOK
<1>8. HomeOK'
  BY DEF IndInv, CreateAdmin, past, HomeOK, AtHome
<1>9. CompleteOK'
  BY DEF IndInv, CreateAdmin, past, CompleteOK
<1>10. OwedOK'
  BY DEF CreateAdmin, OwedOK
<1>11. ClearedOK'
  BY DEF IndInv, CreateAdmin, past, ClearedOK
<1>12. SecretsOK' /\ TornOK'
  BY DEF IndInv, CreateAdmin, Goto, Refuse, Idle, run, past, SecretsOK, TornOK, Keyed
<1>13. StuckOK'
  <2>1. cmd'.pc = "save_admin"
    BY <1>0 DEF CreateAdmin, Typed, Commands
  <2> QED BY <1>2, <1>12, <2>1, UpWipes DEF StuckOK
<1> QED BY <1>1, <1>2, <1>3, <1>4, <1>5, <1>6, <1>7, <1>8, <1>9, <1>10, <1>11, <1>12,
       <1>13 DEF IndInv

(* An admin found on the server has its password in .env, or the command   *)
(* is refused.                                                             *)
LEMMA FindAdminKeeps ==
  ASSUME IndInv, FindAdmin
  PROVE  IndInv'
<1>0. Typed
  BY TypeIs DEF IndInv
<1>1. TypeOK'
  <2>1. cmd' \in Commands
    <3>1. CASE "admin" \in cmd.mem
      BY <1>0, <3>1 DEF Typed, FindAdmin, Goto, Commands, Steps
    <3>2. CASE "admin" \notin cmd.mem
      <4>1. cmd' = Idle
        BY <3>2 DEF FindAdmin, Refuse
      <4> QED BY <4>1 DEF Idle, Commands, Steps
    <3> QED BY <3>1, <3>2
  <2>2. files' \in Directories /\ env' \in Environments /\ accounts' \in Servers
    BY <1>0 DEF Typed, FindAdmin, Goto, Refuse, Idle, run, past, Directories, Environments,
       Servers
  <2>3. svc' \in Services /\ store' \in Stores \cup {None}
    BY <1>0 DEF Typed, FindAdmin, Goto, Refuse, Idle, run, past, Services
  <2>4. svc'.state # "none" => svc'.cfg # None /\ files'.config # None
    BY <1>0 DEF Typed, FindAdmin, Goto, Refuse, Idle, run, past, Services
  <2>5. /\ complete' \in BOOLEAN /\ drift' \in BOOLEAN /\ fresh' \in BOOLEAN
        /\ cuts' \subseteq Steps \cup Torns /\ cleared' \subseteq Models
        /\ used' \in [commands : Nat, cuts : Nat, restarts : Nat]
    BY <1>0 DEF Typed, FindAdmin, Goto, Refuse, Idle, run, past, Steps, Commands
  <2> QED BY <2>1, <2>2, <2>3, <2>4, <2>5, TypeIs DEF Typed
<1>2. FilesOK'
  BY DEF IndInv, FindAdmin, Goto, Refuse, Idle, run, TypeOK, FilesOK
<1>3. AccountsOK'
  BY DEF IndInv, FindAdmin, Goto, Refuse, Idle, run, TypeOK, AccountsOK
<1>4. MemoryOK'
  BY DEF IndInv, FindAdmin, Goto, Refuse, Idle, run, TypeOK, MemoryOK
<1>5. ServiceOK'
  BY DEF IndInv, FindAdmin, Goto, Refuse, Idle, TypeOK, ServiceOK
<1>6. ConfigOK'
  BY DEF IndInv, FindAdmin, Goto, Refuse, Idle, TypeOK, ConfigOK
<1>7. DriftOK'
  BY DEF IndInv, FindAdmin, Goto, Refuse, Idle, run, past, TypeOK, DriftOK
<1>8. HomeOK'
  BY DEF IndInv, FindAdmin, Goto, Refuse, Idle, run, past, TypeOK, HomeOK, AtHome
<1>9. CompleteOK'
  BY DEF IndInv, FindAdmin, Goto, Refuse, Idle, past, CompleteOK
<1>10. OwedOK'
  BY DEF IndInv, FindAdmin, Goto, Refuse, Idle, TypeOK, OwedOK
<1>11. ClearedOK'
  BY DEF IndInv, FindAdmin, Goto, Refuse, Idle, run, past, TypeOK, ClearedOK
<1>12. StuckOK'
  BY DEF IndInv, FindAdmin, Goto, Refuse, Idle, run, past, StuckOK, Resumable, Wipeable,
     Stoppable, ServicesFound, ComposeWorks, Keyed, Owned, Loadable, Preparable, Empty
<1>13. SecretsOK' /\ TornOK'
  BY DEF IndInv, FindAdmin, Goto, Refuse, Idle, run, past, SecretsOK, TornOK, Keyed
<1> QED BY <1>1, <1>2, <1>3, <1>4, <1>5, <1>6, <1>7, <1>8, <1>9, <1>10, <1>11, <1>12,
       <1>13 DEF IndInv

(* The record is written after the compose file and .env are.              *)
LEMMA RecordForgejoKeeps ==
  ASSUME IndInv, RecordForgejo
  PROVE  IndInv'
<1>0. Typed
  BY TypeIs DEF IndInv
<1>1. TypeOK'
  <2>1. cmd' \in Commands
    BY <1>0 DEF Typed, RecordForgejo, Goto, run, past, Commands, Steps, Saves, SaveNext
  <2>2. files' \in Directories /\ env' \in Environments /\ accounts' \in Servers
    BY <1>0 DEF Typed, RecordForgejo, Goto, run, past, Directories, Environments, Servers
  <2>3. svc' \in Services /\ store' \in Stores \cup {None}
    BY <1>0 DEF Typed, RecordForgejo, Goto, run, past, Services
  <2>4. svc'.state # "none" => svc'.cfg # None /\ files'.config # None
    BY <1>0 DEF Typed, RecordForgejo, Goto, run, past, Services
  <2>5. /\ complete' \in BOOLEAN /\ drift' \in BOOLEAN /\ fresh' \in BOOLEAN
        /\ cuts' \subseteq Steps \cup Torns /\ cleared' \subseteq Models
        /\ used' \in [commands : Nat, cuts : Nat, restarts : Nat]
    BY <1>0 DEF Typed, RecordForgejo, Goto, run, past, Steps, Commands
  <2> QED BY <2>1, <2>2, <2>3, <2>4, <2>5, TypeIs DEF Typed
<1>2. FilesOK'
  BY DEF IndInv, RecordForgejo, Goto, FilesOK
<1>3. AccountsOK'
  BY DEF IndInv, RecordForgejo, Goto, AccountsOK
<1>4. MemoryOK'
  BY DEF IndInv, RecordForgejo, Goto, MemoryOK
<1>5. ServiceOK'
  BY DEF IndInv, RecordForgejo, Goto, ServiceOK
<1>6. ConfigOK'
  BY DEF RecordForgejo, Goto, ConfigOK
<1>7. DriftOK'
  BY DEF IndInv, RecordForgejo, Goto, past, DriftOK
<1>8. HomeOK'
  BY DEF IndInv, RecordForgejo, Goto, past, HomeOK, AtHome
<1>9. CompleteOK'
  BY DEF IndInv, RecordForgejo, Goto, past, CompleteOK
<1>10. OwedOK'
  BY DEF RecordForgejo, Goto, OwedOK
<1>11. ClearedOK'
  BY DEF IndInv, RecordForgejo, Goto, past, ClearedOK
<1>12. StuckOK'
  BY DEF IndInv, RecordForgejo, Goto, past, StuckOK, FilesOK, Resumable, Wipeable, Stoppable,
     ServicesFound, ComposeWorks, Keyed, Owned, Loadable, Preparable, Empty
<1>13. SecretsOK' /\ TornOK'
  BY DEF IndInv, RecordForgejo, Goto, Refuse, Idle, run, past, SecretsOK, TornOK, Keyed
<1> QED BY <1>1, <1>2, <1>3, <1>4, <1>5, <1>6, <1>7, <1>8, <1>9, <1>10, <1>11, <1>12,
       <1>13 DEF IndInv

(* The owner account is there when its tokens are asked for.               *)
LEMMA FindOrCreateOwnerKeeps ==
  ASSUME IndInv, FindOrCreateOwner
  PROVE  IndInv'
<1>0. Typed
  BY TypeIs DEF IndInv
<1>1. TypeOK'
  <2>1. cmd' \in Commands
    BY <1>0 DEF Typed, FindOrCreateOwner, run, past, Commands, Steps, Saves, SaveNext, Secrets
  <2>2. files' \in Directories /\ env' \in Environments /\ accounts' \in Servers
    BY <1>0 DEF Typed, FindOrCreateOwner, run, past, Directories, Environments, Servers
  <2>3. svc' \in Services /\ store' \in Stores \cup {None}
    BY <1>0 DEF Typed, FindOrCreateOwner, run, past, Services
  <2>4. svc'.state # "none" => svc'.cfg # None /\ files'.config # None
    BY <1>0 DEF Typed, FindOrCreateOwner, run, past, Services
  <2>5. /\ complete' \in BOOLEAN /\ drift' \in BOOLEAN /\ fresh' \in BOOLEAN
        /\ cuts' \subseteq Steps \cup Torns /\ cleared' \subseteq Models
        /\ used' \in [commands : Nat, cuts : Nat, restarts : Nat]
    BY <1>0 DEF Typed, FindOrCreateOwner, run, past, Steps, Commands
  <2> QED BY <2>1, <2>2, <2>3, <2>4, <2>5, TypeIs DEF Typed
<1>2. FilesOK'
  BY DEF IndInv, FindOrCreateOwner, FilesOK
<1>3. AccountsOK'
  BY DEF IndInv, FindOrCreateOwner, AccountsOK
<1>4. MemoryOK'
  BY DEF IndInv, FindOrCreateOwner, MemoryOK
<1>5. ServiceOK'
  BY DEF IndInv, FindOrCreateOwner, ServiceOK
<1>6. ConfigOK'
  BY DEF FindOrCreateOwner, ConfigOK
<1>7. DriftOK'
  BY DEF IndInv, FindOrCreateOwner, past, DriftOK
<1>8. HomeOK'
  BY DEF IndInv, FindOrCreateOwner, past, HomeOK, AtHome
<1>9. CompleteOK'
  BY DEF IndInv, FindOrCreateOwner, past, CompleteOK
<1>10. OwedOK'
  BY DEF FindOrCreateOwner, OwedOK
<1>11. ClearedOK'
  BY DEF IndInv, FindOrCreateOwner, past, ClearedOK
<1>12. StuckOK'
  BY DEF IndInv, FindOrCreateOwner, past, StuckOK, FilesOK, Resumable, Wipeable, Stoppable,
     ServicesFound, ComposeWorks, Keyed, Owned, Loadable, Preparable, Empty
<1>13. SecretsOK' /\ TornOK'
  BY DEF IndInv, FindOrCreateOwner, Goto, Refuse, Idle, run, past, SecretsOK, TornOK, Keyed
<1> QED BY <1>1, <1>2, <1>3, <1>4, <1>5, <1>6, <1>7, <1>8, <1>9, <1>10, <1>11, <1>12,
       <1>13 DEF IndInv

(* Tokens are minted, or reused, and held in memory.                       *)
LEMMA MintTokensKeeps ==
  ASSUME IndInv, MintTokens
  PROVE  IndInv'
<1>0. Typed
  BY TypeIs DEF IndInv
<1>1. TypeOK'
  <2>1. cmd' \in Commands
    BY <1>0 DEF Typed, MintTokens, run, past, Commands, Steps, Saves, SaveNext, Secrets
  <2>2. files' \in Directories /\ env' \in Environments /\ accounts' \in Servers
    BY <1>0 DEF Typed, MintTokens, run, past, Directories, Environments, Servers
  <2>3. svc' \in Services /\ store' \in Stores \cup {None}
    BY <1>0 DEF Typed, MintTokens, run, past, Services
  <2>4. svc'.state # "none" => svc'.cfg # None /\ files'.config # None
    BY <1>0 DEF Typed, MintTokens, run, past, Services
  <2>5. /\ complete' \in BOOLEAN /\ drift' \in BOOLEAN /\ fresh' \in BOOLEAN
        /\ cuts' \subseteq Steps \cup Torns /\ cleared' \subseteq Models
        /\ used' \in [commands : Nat, cuts : Nat, restarts : Nat]
    BY <1>0 DEF Typed, MintTokens, run, past, Steps, Commands
  <2> QED BY <2>1, <2>2, <2>3, <2>4, <2>5, TypeIs DEF Typed
<1>2. FilesOK'
  BY DEF IndInv, MintTokens, FilesOK
<1>3. AccountsOK'
  BY DEF IndInv, MintTokens, AccountsOK
<1>4. MemoryOK'
  BY DEF IndInv, MintTokens, MemoryOK
<1>5. ServiceOK'
  BY DEF IndInv, MintTokens, ServiceOK
<1>6. ConfigOK'
  BY DEF MintTokens, ConfigOK
<1>7. DriftOK'
  BY DEF IndInv, MintTokens, past, DriftOK
<1>8. HomeOK'
  BY DEF IndInv, MintTokens, past, HomeOK, AtHome
<1>9. CompleteOK'
  BY DEF IndInv, MintTokens, past, CompleteOK
<1>10. OwedOK'
  BY DEF MintTokens, OwedOK
<1>11. ClearedOK'
  BY DEF IndInv, MintTokens, past, ClearedOK
<1>12. StuckOK'
  BY DEF IndInv, MintTokens, past, StuckOK, FilesOK, Resumable, Wipeable, Stoppable,
     ServicesFound, ComposeWorks, Keyed, Owned, Loadable, Preparable, Empty
<1>13. SecretsOK' /\ TornOK'
  BY DEF IndInv, MintTokens, Goto, Refuse, Idle, run, past, SecretsOK, TornOK, Keyed
<1> QED BY <1>1, <1>2, <1>3, <1>4, <1>5, <1>6, <1>7, <1>8, <1>9, <1>10, <1>11, <1>12,
       <1>13 DEF IndInv

(* The secret of the service is kept, or drawn, and held in memory.        *)
LEMMA KeepOrDrawSecretKeeps ==
  ASSUME IndInv, KeepOrDrawSecret
  PROVE  IndInv'
<1>0. Typed
  BY TypeIs DEF IndInv
<1>1. TypeOK'
  <2>1. cmd' \in Commands
    BY <1>0 DEF Typed, KeepOrDrawSecret, run, past, Commands, Steps, Saves, SaveNext, Secrets
  <2>2. files' \in Directories /\ env' \in Environments /\ accounts' \in Servers
    BY <1>0 DEF Typed, KeepOrDrawSecret, run, past, Directories, Environments, Servers
  <2>3. svc' \in Services /\ store' \in Stores \cup {None}
    BY <1>0 DEF Typed, KeepOrDrawSecret, run, past, Services
  <2>4. svc'.state # "none" => svc'.cfg # None /\ files'.config # None
    BY <1>0 DEF Typed, KeepOrDrawSecret, run, past, Services
  <2>5. /\ complete' \in BOOLEAN /\ drift' \in BOOLEAN /\ fresh' \in BOOLEAN
        /\ cuts' \subseteq Steps \cup Torns /\ cleared' \subseteq Models
        /\ used' \in [commands : Nat, cuts : Nat, restarts : Nat]
    BY <1>0 DEF Typed, KeepOrDrawSecret, run, past, Steps, Commands
  <2> QED BY <2>1, <2>2, <2>3, <2>4, <2>5, TypeIs DEF Typed
<1>2. FilesOK'
  BY DEF IndInv, KeepOrDrawSecret, run, FilesOK
<1>3. AccountsOK'
  BY DEF IndInv, KeepOrDrawSecret, run, AccountsOK
<1>4. MemoryOK'
  BY DEF IndInv, KeepOrDrawSecret, run, MemoryOK
<1>5. ServiceOK'
  BY DEF IndInv, KeepOrDrawSecret, ServiceOK
<1>6. ConfigOK'
  BY DEF KeepOrDrawSecret, ConfigOK
<1>7. DriftOK'
  BY DEF IndInv, KeepOrDrawSecret, run, past, DriftOK
<1>8. HomeOK'
  BY DEF IndInv, KeepOrDrawSecret, run, past, HomeOK, AtHome
<1>9. CompleteOK'
  BY DEF IndInv, KeepOrDrawSecret, past, CompleteOK
<1>10. OwedOK'
  BY DEF KeepOrDrawSecret, OwedOK
<1>11. ClearedOK'
  BY DEF IndInv, KeepOrDrawSecret, run, past, ClearedOK
<1>12. StuckOK'
  BY DEF IndInv, KeepOrDrawSecret, run, past, StuckOK, Resumable, Wipeable, Stoppable,
     ServicesFound, ComposeWorks, Keyed, Owned, Loadable, Preparable, Empty
<1>13. SecretsOK' /\ TornOK'
  BY DEF IndInv, KeepOrDrawSecret, Goto, Refuse, Idle, run, past, SecretsOK, TornOK, Keyed
<1> QED BY <1>1, <1>2, <1>3, <1>4, <1>5, <1>6, <1>7, <1>8, <1>9, <1>10, <1>11, <1>12,
       <1>13 DEF IndInv

(* Past the identity check the model asked for is let in: the store has    *)
(* it, is absent, or a rebuild was asked.                                  *)
LEMMA CheckIdentityKeeps ==
  ASSUME IndInv, CheckIdentity
  PROVE  IndInv'
<1>0. Typed
  BY TypeIs DEF IndInv
<1>1. TypeOK'
  <2>1. cmd' \in Commands
    <3>1. CASE cmd' = [cmd EXCEPT !.pc = "config"]
      BY <1>0, <3>1 DEF Typed, Commands, Steps
    <3>2. CASE cmd' = Idle
      BY <3>2 DEF Idle, Commands, Steps
    <3> QED BY <3>1, <3>2 DEF CheckIdentity, Goto, Refuse
  <2>2. files' \in Directories /\ env' \in Environments /\ accounts' \in Servers
    BY <1>0 DEF Typed, CheckIdentity, Goto, Refuse, Idle, run, past, Directories, Environments,
       Servers
  <2>3. svc' \in Services /\ store' \in Stores \cup {None}
    BY <1>0 DEF Typed, CheckIdentity, Goto, Refuse, Idle, run, past, Services
  <2>4. svc'.state # "none" => svc'.cfg # None /\ files'.config # None
    BY <1>0 DEF Typed, CheckIdentity, Goto, Refuse, Idle, run, past, Services
  <2>5. /\ complete' \in BOOLEAN /\ drift' \in BOOLEAN /\ fresh' \in BOOLEAN
        /\ cuts' \subseteq Steps \cup Torns /\ cleared' \subseteq Models
        /\ used' \in [commands : Nat, cuts : Nat, restarts : Nat]
    <3>1. cmd.ans.model \in Models
      BY DEF IndInv, MemoryOK, CheckIdentity, Answers
    <3> QED BY <1>0, <3>1 DEF Typed, CheckIdentity, run
  <2> QED BY <2>1, <2>2, <2>3, <2>4, <2>5, TypeIs DEF Typed
<1>2. FilesOK'
  BY DEF IndInv, CheckIdentity, Goto, Refuse, Idle, run, TypeOK, FilesOK
<1>3. AccountsOK'
  BY DEF IndInv, CheckIdentity, Goto, Refuse, Idle, run, AccountsOK
<1>4. MemoryOK'
  BY DEF IndInv, CheckIdentity, Goto, Refuse, Idle, run, TypeOK, MemoryOK
<1>5. ServiceOK'
  BY DEF IndInv, CheckIdentity, Goto, Refuse, Idle, TypeOK, ServiceOK
<1>6. ConfigOK'
  BY DEF IndInv, CheckIdentity, Goto, Refuse, Idle, TypeOK, ConfigOK
<1>7. DriftOK'
  BY DEF IndInv, CheckIdentity, Goto, Refuse, Idle, run, TypeOK, DriftOK
<1>8. HomeOK'
  BY DEF IndInv, CheckIdentity, Goto, Refuse, Idle, run, TypeOK, HomeOK, AtHome
<1>9. CompleteOK'
  BY DEF IndInv, CheckIdentity, Goto, Refuse, Idle, CompleteOK
<1>10. OwedOK'
  BY DEF IndInv, CheckIdentity, Goto, Refuse, Idle, TypeOK, OwedOK
<1>11. ClearedOK'
  BY DEF IndInv, CheckIdentity, Goto, Refuse, Idle, run, TypeOK, ClearedOK
<1>12. StuckOK'
  BY DEF IndInv, CheckIdentity, Goto, Refuse, Idle, run, StuckOK, Resumable, Wipeable,
     Stoppable, ServicesFound, ComposeWorks, Keyed, Owned, Loadable, Preparable, Empty
<1>13. SecretsOK' /\ TornOK'
  BY DEF IndInv, CheckIdentity, Goto, Refuse, Idle, run, past, SecretsOK, TornOK, Keyed
<1> QED BY <1>1, <1>2, <1>3, <1>4, <1>5, <1>6, <1>7, <1>8, <1>9, <1>10, <1>11, <1>12,
       <1>13 DEF IndInv

(* The config is emptied, to be rendered for the model asked for.          *)
LEMMA WriteConfigKeeps ==
  ASSUME IndInv, WriteConfig
  PROVE  IndInv'
<1>0. Typed
  BY TypeIs DEF IndInv
<1>a. /\ cmd.pc = "config" /\ env' = env /\ accounts' = accounts /\ store' = store
      /\ svc' = svc /\ past' = past /\ used' = used
  BY DEF WriteConfig
<1>b. \/ files.config = Torn /\ files' = files /\ cmd' = Idle
      \/ files.config # Torn /\ files' = [files EXCEPT !.config = Torn]
         /\ \E always \in BOOLEAN, changed \in BOOLEAN :
              /\ cmd' = [cmd EXCEPT !.pc = "write_config", !.rebuild = always, !.changed = changed]
              /\ ~changed => files.config = None \/ Same(files.config, cmd.ans)
  <2>1. CASE files.config = Torn
    BY <2>1 DEF WriteConfig, Refuse
  <2>2. CASE files.config # Torn
    <3> DEFINE always == cmd.ans.rebuild \/ Rebuilding
               new == [model |-> cmd.ans.model, window |-> cmd.ans.window, always |-> always]
               changed == files.config \notin {None, new}
    <3>1. /\ files' = [files EXCEPT !.config = Torn]
          /\ cmd' = [cmd EXCEPT !.pc = "write_config", !.rebuild = always, !.changed = changed]
      BY <2>2 DEF WriteConfig
    <3>2. ~changed => files.config = None \/ Same(files.config, cmd.ans)
      BY DEF Same
    <3>3. cmd.ans.rebuild \in BOOLEAN
      BY <1>0, <1>a DEF IndInv, MemoryOK, Answers
    <3>4. always \in BOOLEAN /\ changed \in BOOLEAN
      BY <3>3, Zenon
    <3> HIDE DEF always, changed
    <3> QED BY <2>2, <3>1, <3>2, <3>4
  <2> QED BY <2>1, <2>2
<1>c. /\ cmd' \in Commands /\ cmd'.pc \in {"idle", "write_config"}
      /\ cmd'.pc = "write_config" =>
           /\ files.config # Torn /\ cmd'.ans = cmd.ans /\ cmd'.mem = cmd.mem
           /\ ~cmd'.changed => files.config = None \/ Same(files.config, cmd.ans)
  <2>1. CASE cmd' = Idle
    BY <2>1, IdleIs
  <2>2. CASE files.config # Torn /\
             \E always \in BOOLEAN, changed \in BOOLEAN :
               /\ cmd' = [cmd EXCEPT !.pc = "write_config", !.rebuild = always, !.changed = changed]
               /\ ~changed => files.config = None \/ Same(files.config, cmd.ans)
    <3>1. PICK always \in BOOLEAN, changed \in BOOLEAN :
               /\ cmd' = [cmd EXCEPT !.pc = "write_config", !.rebuild = always, !.changed = changed]
               /\ ~changed => files.config = None \/ Same(files.config, cmd.ans)
      BY <2>2
    <3>2. cmd' \in Commands
      BY <1>0, <3>1 DEF Typed, Commands, Steps
    <3>3. cmd'.pc = "write_config" /\ cmd'.ans = cmd.ans /\ cmd'.mem = cmd.mem
          /\ cmd'.changed = changed
      BY <1>0, <3>1 DEF Typed, Commands
    <3> QED BY <2>2, <3>1, <3>2, <3>3
  <2> QED BY <1>b, <2>1, <2>2
<1>p. files' \in Directories /\ files'.config = Torn /\ Rest' = Rest
  <2>1. CASE files' = files /\ files.config = Torn
    BY <1>0, <2>1 DEF Typed, Rest
  <2>2. CASE files' = [files EXCEPT !.config = Torn]
    BY <1>0, <2>2, ConfigPut
  <2> QED BY <1>b, <2>1, <2>2
<1>1. TypeOK'
  <2>1. files' \in Directories /\ env' \in Environments /\ accounts' \in Servers
    BY <1>0, <1>a, <1>p DEF Typed
  <2>2. svc' \in Services /\ store' \in Stores \cup {None}
    BY <1>0, <1>a DEF Typed
  <2>3. svc'.state # "none" => svc'.cfg # None /\ files'.config # None
    BY <1>0, <1>a, <1>p, TornAssumption DEF Typed
  <2>4. /\ complete' \in BOOLEAN /\ drift' \in BOOLEAN /\ fresh' \in BOOLEAN
        /\ cuts' \subseteq Steps \cup Torns /\ cleared' \subseteq Models
        /\ used' \in [commands : Nat, cuts : Nat, restarts : Nat]
    BY <1>0, <1>a DEF Typed, past
  <2>5. store' # None => store' \in Stores
    BY <1>0, <1>a DEF Typed
  <2> QED BY <1>c, <2>1, <2>2, <2>3, <2>4, <2>5, TypeIs DEF Typed
<1>2. FilesOK'
  BY <1>a, <1>c, <1>p DEF IndInv, FilesOK, Rest
<1>3. AccountsOK'
  BY <1>a, <1>c DEF IndInv, AccountsOK
<1>4. MemoryOK'
  BY <1>a, <1>c DEF IndInv, MemoryOK
<1>5. ServiceOK'
  BY <1>a, <1>c DEF IndInv, ServiceOK
<1>6. ConfigOK'
  BY <1>a, <1>c DEF ConfigOK
<1>7. DriftOK'
  <2>1. CASE cmd'.pc = "idle"
    BY <1>p, <2>1 DEF DriftOK
  <2>2. CASE cmd'.pc = "write_config"
    <3>1. svc.state # "none" => files.config # None
      BY <1>0 DEF Typed
    <3>2. svc.state # "none" /\ ~drift => Same(svc.cfg, files.config)
      BY <1>a, <1>c, <2>2 DEF IndInv, DriftOK
    <3> QED BY <1>a, <1>c, <2>2, <3>1, <3>2 DEF DriftOK, Same, past
  <2> QED BY <1>c, <2>1, <2>2
<1>8. HomeOK'
  BY <1>a, <1>c DEF IndInv, past, HomeOK, CompleteOK
<1>9. CompleteOK'
  BY <1>a DEF IndInv, past, CompleteOK
<1>10. OwedOK'
  BY <1>c DEF OwedOK
<1>11. ClearedOK'
  BY <1>a, <1>c, <1>p, TornAssumption DEF IndInv, past, ClearedOK
<1>12. StuckOK'
  <2>1. CASE files.config = Torn /\ files' = files /\ cmd' = Idle
    <3>1. /\ Resumable' = Resumable /\ Wipeable' = Wipeable /\ Empty' = Empty
      BY <1>a, <2>1 DEF Resumable, Wipeable, Stoppable, ServicesFound, ComposeWorks, Keyed,
                        Owned, Loadable, Preparable, Empty
    <3> QED BY <1>a, <2>1, <3>1 DEF IndInv, StuckOK, past
  <2>2. CASE cmd'.pc = "write_config"
    <3>1. FilesOK' /\ SecretsOK' /\ cmd'.pc \in Composed
      BY <1>2, <1>a, <1>c, <1>p, <2>2 DEF IndInv, SecretsOK, Keyed, Rest, past
    <3> QED BY <2>2, <3>1, UpWipes DEF StuckOK
  <2> QED BY <1>a, <1>b, <1>c, <2>1, <2>2, IdleIs DEF Commands
<1>13. SecretsOK' /\ TornOK'
  <2>1. SecretsOK'
    BY <1>a, <1>p DEF IndInv, SecretsOK, Keyed, Rest, past
  <2>2. files.config = Torn => cuts \cap Rewriting # {}
    BY <1>a DEF IndInv, TornOK
  <2>3. CASE cmd'.pc = "write_config"
    BY <2>1, <2>3 DEF TornOK
  <2>4. CASE files.config = Torn
    <3>1. cuts' = cuts
      BY <1>a DEF past
    <3> QED BY <2>1, <2>2, <2>4, <3>1 DEF TornOK
  <2>5. files.config = Torn \/ cmd'.pc = "write_config"
    BY <1>0, <1>b DEF Typed, Commands
  <2> QED BY <2>3, <2>4, <2>5
<1> QED BY <1>1, <1>2, <1>3, <1>4, <1>5, <1>6, <1>7, <1>8, <1>9, <1>10, <1>11, <1>12,
       <1>13 DEF IndInv

(* The config has the model asked for, and an owed rebuild stays owed.     *)
LEMMA ConfigWrittenKeeps ==
  ASSUME IndInv, ConfigWritten
  PROVE  IndInv'
<1>0. Typed
  BY TypeIs DEF IndInv
<1>a. cmd.ans \in Answers /\ cmd.rebuild \in BOOLEAN
  BY <1>0 DEF IndInv, MemoryOK, Typed, Commands, ConfigWritten
<1>p. files' \in Directories /\ files'.config = Rendered(cmd.rebuild) /\ Rest' = Rest
      /\ files'.config # None /\ files'.config # Torn
  BY <1>0, <1>a, RenderedIs, ConfigPut DEF ConfigWritten
<1>q. /\ Same(files'.config, cmd.ans) /\ files'.config.always = cmd.rebuild
      /\ files'.config.model = cmd.ans.model
  BY <1>a, <1>p, RenderedIs
<1>1. TypeOK'
  <2>1. cmd' \in Commands
    BY <1>0 DEF Typed, ConfigWritten, Goto, Refuse, Idle, run, past, Commands, Steps, Saves,
       SaveNext
  <2>2. files' \in Directories /\ env' \in Environments /\ accounts' \in Servers
    BY <1>0, <1>p DEF Typed, ConfigWritten
  <2>3. svc' \in Services /\ store' \in Stores \cup {None}
    BY <1>0 DEF Typed, ConfigWritten, Goto, Refuse, Idle, run, past, Services
  <2>4. svc'.state # "none" => svc'.cfg # None /\ files'.config # None
    BY <1>0, <1>p DEF Typed, ConfigWritten
  <2>5. /\ complete' \in BOOLEAN /\ drift' \in BOOLEAN /\ fresh' \in BOOLEAN
        /\ cuts' \subseteq Steps \cup Torns /\ cleared' \subseteq Models
        /\ used' \in [commands : Nat, cuts : Nat, restarts : Nat]
    BY <1>0 DEF Typed, ConfigWritten, Goto, Refuse, Idle, run, past, Steps, Commands
  <2> QED BY <2>1, <2>2, <2>3, <2>4, <2>5, TypeIs DEF Typed
<1>2. FilesOK'
  BY <1>p DEF IndInv, ConfigWritten, Goto, FilesOK, Rest
<1>3. AccountsOK'
  BY DEF IndInv, ConfigWritten, Goto, Refuse, Idle, run, past, TypeOK, AccountsOK
<1>4. MemoryOK'
  BY DEF IndInv, ConfigWritten, Goto, Refuse, Idle, run, past, TypeOK, MemoryOK
<1>5. ServiceOK'
  BY DEF IndInv, ConfigWritten, Goto, Refuse, Idle, run, past, TypeOK, ServiceOK
<1>6. ConfigOK'
  BY <1>p, <1>q DEF IndInv, ConfigWritten, Goto, ConfigOK, Same
<1>7. DriftOK'
  BY <1>p, <1>q DEF IndInv, ConfigWritten, Goto, past, DriftOK, Same
<1>8. HomeOK'
  BY DEF IndInv, ConfigWritten, Goto, past, HomeOK, AtHome, CompleteOK
<1>9. CompleteOK'
  BY DEF IndInv, ConfigWritten, Goto, past, CompleteOK
<1>10. OwedOK'
  BY DEF IndInv, ConfigWritten, Goto, Refuse, Idle, run, past, TypeOK, OwedOK
<1>11. ClearedOK'
  BY <1>p, <1>q DEF IndInv, ConfigWritten, Goto, past, ClearedOK
<1>12. StuckOK'
  BY <1>0, <1>p DEF IndInv, ConfigWritten, Goto, past, StuckOK, FilesOK, MemoryOK, SecretsOK,
     Resumable, Wipeable, Stoppable, ServicesFound, ComposeWorks, Keyed, Owned, Loadable,
     Preparable, Empty, Rest
<1>13. SecretsOK' /\ TornOK'
  BY <1>p DEF IndInv, ConfigWritten, Goto, past, SecretsOK, TornOK, Keyed, Rest
<1> QED BY <1>1, <1>2, <1>3, <1>4, <1>5, <1>6, <1>7, <1>8, <1>9, <1>10, <1>11, <1>12,
       <1>13 DEF IndInv

(* compose.yaml names the service once its secrets are in the .env.        *)
LEMMA ComposeMcpKeeps ==
  ASSUME IndInv, ComposeMcp
  PROVE  IndInv'
<1>0. Typed
  BY TypeIs DEF IndInv
<1>1. TypeOK'
  <2>1. cmd' \in Commands
    BY <1>0 DEF Typed, ComposeMcp, Goto, Refuse, Idle, run, past, Commands, Steps, Saves,
       SaveNext
  <2>2. files' \in Directories /\ env' \in Environments /\ accounts' \in Servers
    BY <1>0 DEF Typed, ComposeMcp, run, past, Directories, Environments, Servers
  <2>3. svc' \in Services /\ store' \in Stores \cup {None}
    BY <1>0 DEF Typed, ComposeMcp, Goto, Refuse, Idle, run, past, Services
  <2>4. svc'.state # "none" => svc'.cfg # None /\ files'.config # None
    BY <1>0 DEF Typed, ComposeMcp, Goto, Refuse, Idle, run, past, Services
  <2>5. /\ complete' \in BOOLEAN /\ drift' \in BOOLEAN /\ fresh' \in BOOLEAN
        /\ cuts' \subseteq Steps \cup Torns /\ cleared' \subseteq Models
        /\ used' \in [commands : Nat, cuts : Nat, restarts : Nat]
    BY <1>0 DEF Typed, ComposeMcp, Goto, Refuse, Idle, run, past, Steps, Commands
  <2> QED BY <2>1, <2>2, <2>3, <2>4, <2>5, TypeIs DEF Typed
<1>2. FilesOK'
  BY DEF IndInv, ComposeMcp, Goto, Refuse, Idle, run, past, TypeOK, FilesOK
<1>3. AccountsOK'
  BY DEF IndInv, ComposeMcp, Goto, Refuse, Idle, run, past, TypeOK, AccountsOK
<1>4. MemoryOK'
  BY DEF IndInv, ComposeMcp, Goto, Refuse, Idle, run, past, TypeOK, MemoryOK
<1>5. ServiceOK'
  BY DEF IndInv, ComposeMcp, Goto, Refuse, Idle, run, past, TypeOK, ServiceOK
<1>6. ConfigOK'
  BY DEF IndInv, ComposeMcp, Goto, Refuse, Idle, run, past, TypeOK, ConfigOK
<1>7. DriftOK'
  BY DEF IndInv, ComposeMcp, Goto, Refuse, Idle, run, past, TypeOK, DriftOK
<1>8. HomeOK'
  BY DEF IndInv, ComposeMcp, Goto, Refuse, Idle, run, past, TypeOK, HomeOK, AtHome
<1>9. CompleteOK'
  BY DEF IndInv, ComposeMcp, Goto, Refuse, Idle, run, past, TypeOK, CompleteOK
<1>10. OwedOK'
  BY DEF IndInv, ComposeMcp, Goto, Refuse, Idle, run, past, TypeOK, OwedOK
<1>11. ClearedOK'
  BY DEF IndInv, ComposeMcp, Goto, Refuse, Idle, run, past, TypeOK, ClearedOK
<1>12. StuckOK'
  BY DEF IndInv, ComposeMcp, Goto, Refuse, Idle, run, past, TypeOK, StuckOK, FilesOK,
     MemoryOK, TornOK, SecretsOK, Resumable, Wipeable, Stoppable, ServicesFound, ComposeWorks,
     Keyed, Owned, Loadable, Preparable, Empty
<1>13. SecretsOK' /\ TornOK'
  <2>1. /\ cmd.pc = "compose_mcp" /\ cmd'.pc = "record_mcp" /\ files'.config = files.config
        /\ env' = env /\ cuts' = cuts
    BY <1>0 DEF ComposeMcp, Goto, past, Typed, Commands, Directories
  <2>2. Keyed'
    BY <1>4, <2>1 DEF MemoryOK, Keyed
  <2> QED BY <2>1, <2>2 DEF IndInv, SecretsOK, TornOK
<1> QED BY <1>1, <1>2, <1>3, <1>4, <1>5, <1>6, <1>7, <1>8, <1>9, <1>10, <1>11, <1>12,
       <1>13 DEF IndInv

(* The record takes the state of the service; the config is not touched.   *)
LEMMA RecordMcpKeeps ==
  ASSUME IndInv, RecordMcp
  PROVE  IndInv'
<1>0. Typed
  BY TypeIs DEF IndInv
<1>1. TypeOK'
  <2>1. cmd' \in Commands
    BY <1>0 DEF Typed, RecordMcp, Goto, run, past, Commands, Steps, Saves, SaveNext
  <2>2. files' \in Directories /\ env' \in Environments /\ accounts' \in Servers
    BY <1>0 DEF Typed, RecordMcp, Goto, run, past, Directories, Environments, Servers
  <2>3. svc' \in Services /\ store' \in Stores \cup {None}
    BY <1>0 DEF Typed, RecordMcp, Goto, run, past, Services
  <2>4. svc'.state # "none" => svc'.cfg # None /\ files'.config # None
    BY <1>0 DEF Typed, RecordMcp, Goto, run, past, Services
  <2>5. /\ complete' \in BOOLEAN /\ drift' \in BOOLEAN /\ fresh' \in BOOLEAN
        /\ cuts' \subseteq Steps \cup Torns /\ cleared' \subseteq Models
        /\ used' \in [commands : Nat, cuts : Nat, restarts : Nat]
    BY <1>0 DEF Typed, RecordMcp, Goto, run, past, Steps, Commands
  <2> QED BY <2>1, <2>2, <2>3, <2>4, <2>5, TypeIs DEF Typed
<1>2. FilesOK'
  BY DEF IndInv, RecordMcp, Goto, FilesOK
<1>3. AccountsOK'
  BY DEF IndInv, RecordMcp, Goto, AccountsOK
<1>4. MemoryOK'
  BY DEF IndInv, RecordMcp, Goto, MemoryOK
<1>5. ServiceOK'
  BY DEF IndInv, RecordMcp, Goto, ServiceOK
<1>6. ConfigOK'
  BY DEF IndInv, RecordMcp, Goto, ConfigOK
<1>7. DriftOK'
  BY DEF IndInv, RecordMcp, Goto, past, DriftOK
<1>8. HomeOK'
  BY DEF IndInv, RecordMcp, Goto, past, HomeOK, AtHome
<1>9. CompleteOK'
  BY DEF IndInv, RecordMcp, Goto, past, CompleteOK
<1>10. OwedOK'
  BY DEF RecordMcp, Goto, OwedOK
<1>11. ClearedOK'
  BY DEF IndInv, RecordMcp, Goto, past, ClearedOK
<1>12. SecretsOK' /\ TornOK'
  <2>1. /\ cmd.pc = "record_mcp" /\ cmd'.pc = "start" /\ files'.config = files.config
        /\ env' = env /\ cuts' = cuts
    BY <1>0 DEF RecordMcp, Goto, past, Typed, Commands, Directories
  <2>2. Keyed'
    BY <1>4, <2>1 DEF MemoryOK, Keyed
  <2> QED BY <2>1, <2>2 DEF IndInv, SecretsOK, TornOK
<1>13. StuckOK'
  <2>1. cmd'.pc = "start" /\ accounts' = accounts /\ env' = env
    BY <1>0 DEF RecordMcp, Goto, Typed, Commands
  <2>2. accounts'.admin => "admin" \in env'.has
    BY <1>4, <2>1 DEF MemoryOK
  <2> QED BY <1>2, <1>12, <2>1, <2>2, UpResumes, UpWipes DEF Resuming, StuckOK
<1> QED BY <1>1, <1>2, <1>3, <1>4, <1>5, <1>6, <1>7, <1>8, <1>9, <1>10, <1>11, <1>12,
       <1>13 DEF IndInv

(* After the start the container runs what the config says: it was         *)
(* replaced if anything changed.                                           *)
LEMMA StartContainerKeeps ==
  ASSUME IndInv, StartContainer
  PROVE  IndInv'
<1>0. Typed
  BY TypeIs DEF IndInv
<1>1. TypeOK'
  <2>1. cmd' \in Commands
    BY <1>0 DEF Typed, StartContainer, run, past, Commands, Steps, Saves, SaveNext
  <2>2. files' \in Directories /\ env' \in Environments /\ accounts' \in Servers
    BY <1>0 DEF Typed, StartContainer, run, past, Directories, Environments, Servers
  <2>3. svc' \in Services /\ store' \in Stores \cup {None}
    <3>1. files.config \in Configs \cup {None}
      BY <1>0 DEF IndInv, FilesOK, StartContainer, Typed, Directories
    <3>2. CASE svc' = Started(files.config)
      BY <1>0, <3>1, <3>2 DEF Typed, StartContainer, Started, Services
    <3>3. CASE svc' = svc
      BY <1>0, <3>3 DEF Typed, StartContainer
    <3> QED BY <3>2, <3>3 DEF StartContainer
  <2>4. svc'.state # "none" => svc'.cfg # None /\ files'.config # None
    <3>1. files.config # None
      BY DEF IndInv, FilesOK, StartContainer
    <3>2. CASE svc' = Started(files.config)
      BY <1>0, <3>1, <3>2 DEF StartContainer, run, Started
    <3>3. CASE svc' = svc
      BY <1>0, <3>3 DEF Typed, StartContainer, run
    <3> QED BY <3>2, <3>3 DEF StartContainer
  <2>5. /\ complete' \in BOOLEAN /\ drift' \in BOOLEAN /\ fresh' \in BOOLEAN
        /\ cuts' \subseteq Steps \cup Torns /\ cleared' \subseteq Models
        /\ used' \in [commands : Nat, cuts : Nat, restarts : Nat]
    BY <1>0 DEF Typed, StartContainer, run, past, Steps, Commands
  <2> QED BY <2>1, <2>2, <2>3, <2>4, <2>5, TypeIs DEF Typed
<1>2. FilesOK'
  BY DEF IndInv, StartContainer, run, FilesOK
<1>3. AccountsOK'
  BY DEF IndInv, StartContainer, run, AccountsOK
<1>4. MemoryOK'
  BY DEF IndInv, StartContainer, run, MemoryOK
<1>5. ServiceOK'
  BY DEF IndInv, StartContainer, ServiceOK, Started
<1>6. ConfigOK'
  BY DEF IndInv, StartContainer, run, ConfigOK
<1>7. DriftOK'
  <2>1. /\ cmd.pc = "start" /\ cmd'.pc = "await" /\ files' = files
        /\ files.config # Torn
        /\ \/ svc' = Started(files.config)
           \/ svc' = svc /\ drift' = (drift \/ cmd.changed)
           \/ svc' = svc /\ drift' = drift /\ ~cmd.changed
    BY <1>0 DEF IndInv, FilesOK, StartContainer, run, Typed, Commands
  <2>2. CASE svc' = Started(files.config)
    BY <2>1, <2>2 DEF DriftOK, Same, Started
  <2>3. CASE svc' = svc /\ drift' = (drift \/ cmd.changed)
    BY <2>1, <2>3 DEF IndInv, DriftOK
  <2>4. CASE svc' = svc /\ drift' = drift /\ ~cmd.changed
    BY <2>1, <2>4 DEF IndInv, DriftOK
  <2> QED BY <2>1, <2>2, <2>3, <2>4
<1>8. HomeOK'
  BY DEF IndInv, StartContainer, HomeOK, CompleteOK
<1>9. CompleteOK'
  BY DEF IndInv, StartContainer, CompleteOK
<1>10. OwedOK'
  BY <1>0 DEF IndInv, StartContainer, Started, Building, Typed, Commands, Services,
     ConfigOK, OwedOK
<1>11. ClearedOK'
  <2>1. files.config \in Configs /\ files' = files /\ cleared' = cleared /\ store' = store
        /\ cmd.pc = "start" /\ cmd'.pc = "await" /\ cmd'.ans = cmd.ans
    BY <1>0 DEF IndInv, FilesOK, StartContainer, run, Typed, Commands, Directories
  <2>2. svc' = Started(files.config) \/ svc' = svc
    BY DEF StartContainer
  <2> QED BY <2>1, <2>2 DEF IndInv, ClearedOK, Started
<1>12. StuckOK'
  BY DEF IndInv, StartContainer, run, StuckOK, Resumable, Wipeable, Stoppable, ServicesFound,
     ComposeWorks, Keyed, Owned, Loadable, Preparable, Empty
<1>13. SecretsOK' /\ TornOK'
  BY DEF IndInv, StartContainer, Goto, Refuse, Idle, run, past, SecretsOK, TornOK, Keyed
<1> QED BY <1>1, <1>2, <1>3, <1>4, <1>5, <1>6, <1>7, <1>8, <1>9, <1>10, <1>11, <1>12,
       <1>13 DEF IndInv

(* A ready service has a store of its own model, which is the config's; a  *)
(* rebuild under way is done.                                              *)
LEMMA SeeReadyKeeps ==
  ASSUME IndInv, SeeReady
  PROVE  IndInv'
<1>0. Typed
  BY TypeIs DEF IndInv
<1>1. TypeOK'
  <2>1. cmd' \in Commands
    BY <1>0 DEF Typed, SeeReady, Goto, run, past, Commands, Steps, Saves, SaveNext
  <2>2. files' \in Directories /\ env' \in Environments /\ accounts' \in Servers
    BY <1>0 DEF Typed, SeeReady, Goto, run, past, Directories, Environments, Servers
  <2>3. svc' \in Services /\ store' \in Stores \cup {None}
    BY <1>0 DEF Typed, SeeReady, Goto, run, past, Services
  <2>4. svc'.state # "none" => svc'.cfg # None /\ files'.config # None
    BY <1>0 DEF Typed, SeeReady, Goto, run, past, Services
  <2>5. /\ complete' \in BOOLEAN /\ drift' \in BOOLEAN /\ fresh' \in BOOLEAN
        /\ cuts' \subseteq Steps \cup Torns /\ cleared' \subseteq Models
        /\ used' \in [commands : Nat, cuts : Nat, restarts : Nat]
    BY <1>0 DEF Typed, SeeReady, Goto, run, past, Steps, Commands
  <2> QED BY <2>1, <2>2, <2>3, <2>4, <2>5, TypeIs DEF Typed
<1>2. FilesOK'
  BY DEF IndInv, SeeReady, Goto, run, FilesOK
<1>3. AccountsOK'
  BY DEF IndInv, SeeReady, Goto, run, AccountsOK
<1>4. MemoryOK'
  BY DEF IndInv, SeeReady, Goto, run, MemoryOK
<1>5. ServiceOK'
  BY DEF IndInv, SeeReady, Goto, ServiceOK
<1>6. ConfigOK'
  BY DEF IndInv, SeeReady, Goto, run, ConfigOK
<1>7. DriftOK'
  BY DEF IndInv, SeeReady, Goto, run, past, DriftOK
<1>8. HomeOK'
  BY DEF IndInv, SeeReady, Goto, run, past, HomeOK, AtHome, ServiceOK, DriftOK, Same
<1>9. CompleteOK'
  BY DEF IndInv, SeeReady, Goto, past, CompleteOK
<1>10. OwedOK'
  BY DEF IndInv, SeeReady, Goto, past, OwedOK
<1>11. ClearedOK'
  BY DEF IndInv, SeeReady, Goto, run, past, ClearedOK
<1>12. StuckOK'
  BY DEF IndInv, SeeReady, Goto, run, past, StuckOK, Resumable, Wipeable, Stoppable,
     ServicesFound, ComposeWorks, Keyed, Owned, Loadable, Preparable, Empty
<1>13. SecretsOK' /\ TornOK'
  BY DEF IndInv, SeeReady, Goto, Refuse, Idle, run, past, SecretsOK, TornOK, Keyed
<1> QED BY <1>1, <1>2, <1>3, <1>4, <1>5, <1>6, <1>7, <1>8, <1>9, <1>10, <1>11, <1>12,
       <1>13 DEF IndInv

(* The budget of the wait may end first; then the command is over, or      *)
(* attached to the build.                                                  *)
LEMMA GiveUpWaitingKeeps ==
  ASSUME IndInv, GiveUpWaiting
  PROVE  IndInv'
<1>0. Typed
  BY TypeIs DEF IndInv
<1>1. TypeOK'
  <2>1. cmd' \in Commands
    BY <1>0 DEF Typed, GiveUpWaiting, Refuse, Idle, run, past, Commands, Steps, Saves, SaveNext
  <2>2. files' \in Directories /\ env' \in Environments /\ accounts' \in Servers
    BY <1>0 DEF Typed, GiveUpWaiting, Refuse, Idle, run, past, Directories, Environments,
       Servers
  <2>3. svc' \in Services /\ store' \in Stores \cup {None}
    BY <1>0 DEF Typed, GiveUpWaiting, Refuse, Idle, run, past, Services
  <2>4. svc'.state # "none" => svc'.cfg # None /\ files'.config # None
    BY <1>0 DEF Typed, GiveUpWaiting, Refuse, Idle, run, past, Services
  <2>5. /\ complete' \in BOOLEAN /\ drift' \in BOOLEAN /\ fresh' \in BOOLEAN
        /\ cuts' \subseteq Steps \cup Torns /\ cleared' \subseteq Models
        /\ used' \in [commands : Nat, cuts : Nat, restarts : Nat]
    BY <1>0 DEF Typed, GiveUpWaiting, Refuse, Idle, run, past, Steps, Commands
  <2> QED BY <2>1, <2>2, <2>3, <2>4, <2>5, TypeIs DEF Typed
<1>2. FilesOK'
  BY DEF GiveUpWaiting, Refuse, Idle, FilesOK
<1>3. AccountsOK'
  BY DEF GiveUpWaiting, Refuse, Idle, AccountsOK
<1>4. MemoryOK'
  BY DEF GiveUpWaiting, Refuse, Idle, MemoryOK
<1>5. ServiceOK'
  BY DEF IndInv, GiveUpWaiting, Refuse, Idle, ServiceOK
<1>6. ConfigOK'
  BY DEF GiveUpWaiting, Refuse, Idle, ConfigOK
<1>7. DriftOK'
  BY DEF IndInv, GiveUpWaiting, Refuse, Idle, run, DriftOK
<1>8. HomeOK'
  BY DEF IndInv, GiveUpWaiting, Refuse, Idle, run, HomeOK, AtHome
<1>9. CompleteOK'
  BY DEF IndInv, GiveUpWaiting, Refuse, Idle, CompleteOK
<1>10. OwedOK'
  BY DEF GiveUpWaiting, Refuse, Idle, OwedOK
<1>11. ClearedOK'
  BY DEF IndInv, GiveUpWaiting, Refuse, Idle, run, ClearedOK
<1>12. StuckOK'
  BY DEF IndInv, GiveUpWaiting, Refuse, Idle, run, StuckOK, Resumable, Wipeable, Stoppable,
     ServicesFound, ComposeWorks, Keyed, Owned, Loadable, Preparable, Empty
<1>13. SecretsOK' /\ TornOK'
  BY DEF IndInv, GiveUpWaiting, Goto, Refuse, Idle, run, past, SecretsOK, TornOK, Keyed
<1> QED BY <1>1, <1>2, <1>3, <1>4, <1>5, <1>6, <1>7, <1>8, <1>9, <1>10, <1>11, <1>12,
       <1>13 DEF IndInv

(* Settling empties the config only when a rebuild is done or attached.    *)
LEMMA SettleConfigKeeps ==
  ASSUME IndInv, SettleConfig
  PROVE  IndInv'
<1>0. Typed
  BY TypeIs DEF IndInv
<1>b. \/ ~cmd.rebuild /\ files' = files /\ cmd' = [cmd EXCEPT !.pc = "save_ready"]
      \/ /\ cmd.rebuild /\ files' = [files EXCEPT !.config = Torn]
         /\ cmd' = [cmd EXCEPT !.pc = "settle_write"]
  BY DEF SettleConfig, Goto
<1>p. files' \in Directories /\ Rest' = Rest
      /\ (files'.config = Torn \/ files' = files)
  BY <1>0, <1>b, ConfigPut DEF Typed, Rest
<1>c. cmd.ans \in Answers /\ files.config # None /\ files.config # Torn /\ cmd.pc = "settle"
  BY DEF IndInv, MemoryOK, FilesOK, SettleConfig
<1>1. TypeOK'
  <2>1. cmd' \in Commands
    BY <1>0, <1>b DEF Typed, Commands, Steps, Saves, SaveNext
  <2>2. files' \in Directories /\ env' \in Environments /\ accounts' \in Servers
    BY <1>0, <1>p DEF Typed, SettleConfig
  <2>3. svc' \in Services /\ store' \in Stores \cup {None}
    BY <1>0 DEF Typed, SettleConfig, Goto, Refuse, Idle, run, past, Services
  <2>4. svc'.state # "none" => svc'.cfg # None /\ files'.config # None
    BY <1>0, <1>p, TornAssumption DEF Typed, SettleConfig
  <2>5. /\ complete' \in BOOLEAN /\ drift' \in BOOLEAN /\ fresh' \in BOOLEAN
        /\ cuts' \subseteq Steps \cup Torns /\ cleared' \subseteq Models
        /\ used' \in [commands : Nat, cuts : Nat, restarts : Nat]
    <3>1. cmd.ans.model \in Models
      BY <1>c DEF Answers
    <3>2. \A m \in {store} \ {None} : m.model \in Models
      BY <1>0 DEF Typed, Stores
    <3> QED BY <1>0, <3>1, <3>2 DEF Typed, SettleConfig
  <2> QED BY <2>1, <2>2, <2>3, <2>4, <2>5, TypeIs DEF Typed
<1>2. FilesOK'
  <2>1. cmd'.pc \in {"save_ready", "settle_write"} /\ env' = env
        /\ (cmd'.pc = "settle_write" => files'.config = Torn)
        /\ (cmd'.pc = "save_ready" => files' = files)
    BY <1>0, <1>b DEF SettleConfig, Typed, Commands, Directories
  <2> QED BY <1>c, <1>p, <2>1 DEF IndInv, FilesOK, Rest
<1>3. AccountsOK'
  BY <1>0, <1>b, <1>c DEF IndInv, SettleConfig, AccountsOK, Typed, Commands
<1>4. MemoryOK'
  BY <1>0, <1>b, <1>c DEF IndInv, SettleConfig, MemoryOK, Typed, Commands
<1>5. ServiceOK'
  BY <1>0, <1>b, <1>c DEF IndInv, SettleConfig, ServiceOK, Typed, Commands
<1>6. ConfigOK'
  BY <1>0, <1>b, <1>c DEF IndInv, SettleConfig, ConfigOK, Typed, Commands
<1>7. DriftOK'
  BY <1>0, <1>b, <1>c, <1>p DEF IndInv, SettleConfig, ConfigOK, DriftOK, Same, Typed, Commands
<1>8. HomeOK'
  BY <1>0, <1>b, <1>c DEF IndInv, SettleConfig, HomeOK, AtHome, CompleteOK, Typed, Commands
<1>9. CompleteOK'
  BY DEF IndInv, SettleConfig, CompleteOK
<1>10. OwedOK'
  BY <1>0, <1>b, <1>c DEF IndInv, SettleConfig, OwedOK, Typed, Commands
<1>11. ClearedOK'
  <2>1. /\ store # None => store.model \in cleared'
        /\ files.config.model = cmd.ans.model /\ cmd.ans.model \in cleared'
    BY <1>c DEF IndInv, SettleConfig, ConfigOK, Same
  <2>2. svc.state # "none" => svc.cfg.model \in cleared'
    BY <1>0, <1>c, <2>1 DEF IndInv, ClearedOK, ServiceOK, Typed, Services
  <2>3. files' = files \/ files'.config \notin Configs
    BY <1>p, TornAssumption
  <2>4. svc' = svc /\ store' = store /\ cmd'.ans = cmd.ans /\ cmd'.pc # "settle"
    BY <1>0, <1>b DEF SettleConfig, Typed, Commands
  <2> QED BY <2>1, <2>2, <2>3, <2>4 DEF ClearedOK
<1>12. StuckOK'
  BY <1>0, <1>b, <1>c, <1>p DEF IndInv, SettleConfig, StuckOK, FilesOK, Resumable, Wipeable,
     Stoppable, ServicesFound, ComposeWorks, Keyed, Owned, Loadable, Preparable, Empty, Rest,
     Typed, Commands
<1>13. SecretsOK' /\ TornOK'
  BY <1>0, <1>b, <1>c, <1>p DEF IndInv, SettleConfig, SecretsOK, TornOK, Keyed, Rest, Typed,
     Commands
<1> QED BY <1>1, <1>2, <1>3, <1>4, <1>5, <1>6, <1>7, <1>8, <1>9, <1>10, <1>11, <1>12,
       <1>13 DEF IndInv

(* The settled config asks for what this command rendered, without the     *)
(* rebuild mode.                                                           *)
LEMMA ConfigSettledKeeps ==
  ASSUME IndInv, ConfigSettled
  PROVE  IndInv'
<1>0. Typed
  BY TypeIs DEF IndInv
<1>a. cmd.ans \in Answers
  BY <1>0 DEF IndInv, MemoryOK, Typed, Commands, ConfigSettled, Goto
<1>p. files' \in Directories /\ files'.config = Rendered(FALSE) /\ Rest' = Rest
      /\ files'.config # None /\ files'.config # Torn
  BY <1>0, <1>a, RenderedIs, ConfigPut DEF ConfigSettled
<1>q. /\ Same(files'.config, cmd.ans) /\ files'.config.always = FALSE
      /\ files'.config.model = cmd.ans.model
  BY <1>a, <1>p, RenderedIs
<1>c. /\ cmd.pc = "settle_write" /\ cmd'.pc = "save_ready" /\ cmd'.ans = cmd.ans
      /\ cmd'.mem = cmd.mem /\ env' = env /\ accounts' = accounts /\ store' = store
      /\ svc' = svc /\ past' = past
  BY <1>0 DEF Typed, Commands, ConfigSettled, Goto
<1>1. TypeOK'
  <2>1. cmd' \in Commands
    BY <1>0 DEF Typed, ConfigSettled, Goto, Refuse, Idle, run, past, Commands, Steps, Saves,
       SaveNext
  <2>2. files' \in Directories /\ env' \in Environments /\ accounts' \in Servers
    BY <1>0, <1>p DEF Typed, ConfigSettled
  <2>3. svc' \in Services /\ store' \in Stores \cup {None}
    BY <1>0 DEF Typed, ConfigSettled, Goto, Refuse, Idle, run, past, Services
  <2>4. svc'.state # "none" => svc'.cfg # None /\ files'.config # None
    BY <1>0, <1>p DEF Typed, ConfigSettled
  <2>5. /\ complete' \in BOOLEAN /\ drift' \in BOOLEAN /\ fresh' \in BOOLEAN
        /\ cuts' \subseteq Steps \cup Torns /\ cleared' \subseteq Models
        /\ used' \in [commands : Nat, cuts : Nat, restarts : Nat]
    BY <1>0 DEF Typed, ConfigSettled, Goto, Refuse, Idle, run, past, Steps, Commands
  <2> QED BY <2>1, <2>2, <2>3, <2>4, <2>5, TypeIs DEF Typed
<1>2. FilesOK'
  BY <1>c, <1>p DEF IndInv, FilesOK, Rest
<1>3. AccountsOK'
  BY DEF IndInv, ConfigSettled, Goto, Refuse, Idle, run, past, TypeOK, AccountsOK
<1>4. MemoryOK'
  BY DEF IndInv, ConfigSettled, Goto, Refuse, Idle, run, past, TypeOK, MemoryOK
<1>5. ServiceOK'
  BY DEF IndInv, ConfigSettled, Goto, Refuse, Idle, run, past, TypeOK, ServiceOK
<1>6. ConfigOK'
  BY <1>c, <1>p, <1>q DEF ConfigOK, Same
<1>7. DriftOK'
  <2>1. svc.state # "none" /\ ~drift => Same(svc.cfg, cmd.ans)
    BY <1>c DEF IndInv, DriftOK
  <2>2. drift' = drift
    BY <1>c DEF past
  <2>3. Same(svc.cfg, cmd.ans) => Same(svc.cfg, files'.config)
    BY <1>q DEF Same
  <2>4. Same(svc'.cfg, files'.config) <=> Same(svc.cfg, files'.config)
    BY <1>c
  <2> QED BY <1>c, <2>1, <2>2, <2>3, <2>4 DEF DriftOK
<1>8. HomeOK'
  BY DEF IndInv, ConfigSettled, Goto, past, HomeOK, AtHome, CompleteOK
<1>9. CompleteOK'
  BY DEF IndInv, ConfigSettled, Goto, past, CompleteOK
<1>10. OwedOK'
  BY DEF IndInv, ConfigSettled, Goto, Refuse, Idle, run, past, TypeOK, OwedOK
<1>11. ClearedOK'
  BY <1>c, <1>p, <1>q DEF IndInv, past, ClearedOK, ServiceOK
<1>12. StuckOK'
  BY <1>0, <1>p DEF IndInv, ConfigSettled, Goto, past, StuckOK, FilesOK, MemoryOK, SecretsOK,
     Resumable, Wipeable, Stoppable, ServicesFound, ComposeWorks, Keyed, Owned, Loadable,
     Preparable, Empty, Rest
<1>13. SecretsOK' /\ TornOK'
  BY <1>p DEF IndInv, ConfigSettled, Goto, past, SecretsOK, TornOK, Keyed, Rest
<1> QED BY <1>1, <1>2, <1>3, <1>4, <1>5, <1>6, <1>7, <1>8, <1>9, <1>10, <1>11, <1>12,
       <1>13 DEF IndInv

(* Publishing the endpoints changes no file of the run.                    *)
LEMMA PublishKeeps ==
  ASSUME IndInv, Publish
  PROVE  IndInv'
<1>0. Typed
  BY TypeIs DEF IndInv
<1>1. TypeOK'
  <2>1. cmd' \in Commands
    BY <1>0 DEF Typed, Publish, Goto, run, past, Commands, Steps, Saves, SaveNext
  <2>2. files' \in Directories /\ env' \in Environments /\ accounts' \in Servers
    BY <1>0 DEF Typed, Publish, Goto, run, past, Directories, Environments, Servers
  <2>3. svc' \in Services /\ store' \in Stores \cup {None}
    BY <1>0 DEF Typed, Publish, Goto, run, past, Services
  <2>4. svc'.state # "none" => svc'.cfg # None /\ files'.config # None
    BY <1>0 DEF Typed, Publish, Goto, run, past, Services
  <2>5. /\ complete' \in BOOLEAN /\ drift' \in BOOLEAN /\ fresh' \in BOOLEAN
        /\ cuts' \subseteq Steps \cup Torns /\ cleared' \subseteq Models
        /\ used' \in [commands : Nat, cuts : Nat, restarts : Nat]
    BY <1>0 DEF Typed, Publish, Goto, run, past, Steps, Commands
  <2> QED BY <2>1, <2>2, <2>3, <2>4, <2>5, TypeIs DEF Typed
<1>2. FilesOK'
  BY DEF IndInv, Publish, Goto, run, FilesOK
<1>3. AccountsOK'
  BY DEF IndInv, Publish, Goto, run, AccountsOK
<1>4. MemoryOK'
  BY DEF IndInv, Publish, Goto, run, MemoryOK
<1>5. ServiceOK'
  BY DEF IndInv, Publish, Goto, ServiceOK
<1>6. ConfigOK'
  BY DEF IndInv, Publish, Goto, run, ConfigOK
<1>7. DriftOK'
  BY DEF IndInv, Publish, Goto, run, past, DriftOK
<1>8. HomeOK'
  BY DEF IndInv, Publish, Goto, run, past, HomeOK, AtHome
<1>9. CompleteOK'
  BY DEF IndInv, Publish, Goto, past, CompleteOK
<1>10. OwedOK'
  BY DEF Publish, Goto, OwedOK
<1>11. ClearedOK'
  BY DEF IndInv, Publish, Goto, run, past, ClearedOK
<1>12. StuckOK'
  BY DEF IndInv, Publish, Goto, run, past, StuckOK, Resumable, Wipeable, Stoppable,
     ServicesFound, ComposeWorks, Keyed, Owned, Loadable, Preparable, Empty
<1>13. SecretsOK' /\ TornOK'
  BY DEF IndInv, Publish, Goto, Refuse, Idle, run, past, SecretsOK, TornOK, Keyed
<1> QED BY <1>1, <1>2, <1>3, <1>4, <1>5, <1>6, <1>7, <1>8, <1>9, <1>10, <1>11, <1>12,
       <1>13 DEF IndInv

(* The last step has everything a completed `up` promises.                 *)
LEMMA FinishKeeps ==
  ASSUME IndInv, Finish
  PROVE  IndInv'
<1>0. Typed
  BY TypeIs DEF IndInv
<1>1. TypeOK'
  <2>1. cmd' \in Commands
    BY <1>0 DEF Typed, Finish, Idle, run, past, Commands, Steps, Saves, SaveNext
  <2>2. files' \in Directories /\ env' \in Environments /\ accounts' \in Servers
    BY <1>0 DEF Typed, Finish, Idle, run, past, Directories, Environments, Servers
  <2>3. svc' \in Services /\ store' \in Stores \cup {None}
    BY <1>0 DEF Typed, Finish, Idle, run, past, Services
  <2>4. svc'.state # "none" => svc'.cfg # None /\ files'.config # None
    BY <1>0 DEF Typed, Finish, Idle, run, past, Services
  <2>5. /\ complete' \in BOOLEAN /\ drift' \in BOOLEAN /\ fresh' \in BOOLEAN
        /\ cuts' \subseteq Steps \cup Torns /\ cleared' \subseteq Models
        /\ used' \in [commands : Nat, cuts : Nat, restarts : Nat]
    BY <1>0 DEF Typed, Finish, Idle, run, past, Steps, Commands
  <2> QED BY <2>1, <2>2, <2>3, <2>4, <2>5, TypeIs DEF Typed
<1>2. FilesOK'
  BY DEF Finish, Idle, FilesOK
<1>3. AccountsOK'
  BY DEF Finish, Idle, AccountsOK
<1>4. MemoryOK'
  BY DEF Finish, Idle, MemoryOK
<1>5. ServiceOK'
  BY DEF IndInv, Finish, Idle, ServiceOK
<1>6. ConfigOK'
  BY DEF Finish, Idle, ConfigOK
<1>7. DriftOK'
  BY DEF IndInv, Finish, Idle, DriftOK
<1>8. HomeOK'
  BY DEF IndInv, Finish, Idle, HomeOK, AtHome
<1>9. CompleteOK'
  BY DEF IndInv, Finish, Idle, TypeOK, CompleteOK, CompletedWorks, FilesOK, AccountsOK,
     MemoryOK, ServiceOK, ConfigOK, DriftOK, HomeOK, AtHome
<1>10. OwedOK'
  BY DEF Finish, Idle, OwedOK
<1>11. ClearedOK'
  BY DEF IndInv, Finish, Idle, ClearedOK
<1>12. StuckOK'
  BY DEF IndInv, Finish, Idle, StuckOK, FilesOK, MemoryOK, Resumable, Wipeable, Stoppable,
     ServicesFound, ComposeWorks, Keyed, Owned, Loadable, Preparable
<1>13. SecretsOK' /\ TornOK'
  <2>1. cmd.pc = "record_final" /\ env' = env /\ files'.config = files.config
    BY <1>0 DEF Finish, Typed, Directories
  <2>2. Keyed /\ files.config # Torn
    BY <2>1 DEF IndInv, MemoryOK, FilesOK, Keyed
  <2> QED BY <2>1, <2>2 DEF SecretsOK, TornOK, Keyed
<1> QED BY <1>1, <1>2, <1>3, <1>4, <1>5, <1>6, <1>7, <1>8, <1>9, <1>10, <1>11, <1>12,
       <1>13 DEF IndInv

(* Before the first piece is removed no container runs.                    *)
LEMMA StopServicesKeeps ==
  ASSUME IndInv, StopServices
  PROVE  IndInv'
<1>0. Typed
  BY TypeIs DEF IndInv
<1>1. TypeOK'
  <2>1. cmd' \in Commands
    <3>1. CASE cmd' = [cmd EXCEPT !.pc = "wipe"]
      BY <1>0, <3>1 DEF Typed, Commands, Steps
    <3>2. CASE cmd' = Idle
      BY <3>2 DEF Idle, Commands, Steps
    <3> QED BY <3>1, <3>2 DEF StopServices, Goto, Refuse
  <2>2. files' \in Directories /\ env' \in Environments /\ accounts' \in Servers
    BY <1>0 DEF Typed, StopServices, Goto, Refuse, Idle, run, past, Directories, Environments,
       Servers
  <2>3. svc' \in Services /\ store' \in Stores \cup {None}
    BY <1>0 DEF Typed, StopServices, Goto, Refuse, Idle, run, past, Services, NoContainer
  <2>4. svc'.state # "none" => svc'.cfg # None /\ files'.config # None
    BY <1>0 DEF Typed, StopServices, Goto, Refuse, Idle, run, past, Services, NoContainer
  <2>5. /\ complete' \in BOOLEAN /\ drift' \in BOOLEAN /\ fresh' \in BOOLEAN
        /\ cuts' \subseteq Steps \cup Torns /\ cleared' \subseteq Models
        /\ used' \in [commands : Nat, cuts : Nat, restarts : Nat]
    BY <1>0 DEF Typed, StopServices, Goto, Refuse, Idle, run, past, Steps, Commands
  <2> QED BY <2>1, <2>2, <2>3, <2>4, <2>5, TypeIs DEF Typed
<1>2. FilesOK'
  BY DEF IndInv, StopServices, Goto, Refuse, Idle, TypeOK, FilesOK
<1>3. AccountsOK'
  BY DEF IndInv, StopServices, Goto, Refuse, Idle, TypeOK, AccountsOK
<1>4. MemoryOK'
  BY DEF IndInv, StopServices, Goto, Refuse, Idle, TypeOK, MemoryOK
<1>5. ServiceOK'
  BY DEF IndInv, StopServices, Goto, Refuse, Idle, TypeOK, ServiceOK, NoContainer
<1>6. ConfigOK'
  BY DEF IndInv, StopServices, Goto, Refuse, Idle, TypeOK, ConfigOK
<1>7. DriftOK'
  <2>1. svc' = svc \/ svc' = NoContainer
    BY DEF StopServices
  <2> QED BY <2>1 DEF IndInv, StopServices, Goto, Refuse, Idle, run, past, TypeOK, DriftOK,
             NoContainer
<1>8. HomeOK'
  BY DEF IndInv, StopServices, Goto, Refuse, Idle, past, TypeOK, HomeOK, CompleteOK
<1>9. CompleteOK'
  BY DEF IndInv, StopServices, Goto, Refuse, Idle, past, CompleteOK
<1>10. OwedOK'
  BY DEF IndInv, StopServices, Goto, Refuse, Idle, TypeOK, OwedOK
<1>11. ClearedOK'
  BY DEF IndInv, StopServices, Goto, Refuse, Idle, run, past, TypeOK, ClearedOK, NoContainer
<1>12. StuckOK'
  BY DEF IndInv, StopServices, Goto, Refuse, Idle, run, past, StuckOK, Resumable, Wipeable,
     Stoppable, ServicesFound, ComposeWorks, Keyed, Owned, Loadable, Preparable, Empty
<1>13. SecretsOK' /\ TornOK'
  BY DEF IndInv, StopServices, Goto, Refuse, Idle, run, past, SecretsOK, TornOK, Keyed
<1> QED BY <1>1, <1>2, <1>3, <1>4, <1>5, <1>6, <1>7, <1>8, <1>9, <1>10, <1>11, <1>12,
       <1>13 DEF IndInv

(* When all pieces are removed the directory is one a first `up` starts    *)
(* from.                                                                   *)
LEMMA WipeDoneKeeps ==
  ASSUME IndInv, WipeDone
  PROVE  IndInv'
<1>0. Typed
  BY TypeIs DEF IndInv
<1>b. /\ files' = NoFiles /\ cmd' = Idle /\ accounts' = NoAccounts /\ Empty' /\ env' = env
      /\ ~env.there
  BY DEF WipeDone, Empty, Refuse, run
<1>1. TypeOK'
  <2>1. cmd' \in Commands
    BY <1>0 DEF Typed, WipeDone, Refuse, Idle, run, past, Commands, Steps, Saves, SaveNext
  <2>2. files' \in Directories /\ env' \in Environments /\ accounts' \in Servers
    BY <1>0 DEF Typed, WipeDone, Refuse, Idle, run, past, Directories, Environments, Servers
  <2>3. svc' \in Services /\ store' \in Stores \cup {None}
    BY <1>0 DEF Typed, WipeDone, Refuse, Idle, run, past, Services
  <2>4. svc'.state # "none" => svc'.cfg # None /\ files'.config # None
    BY <1>0 DEF Typed, WipeDone, Refuse, Idle, run, past, Services
  <2>5. /\ complete' \in BOOLEAN /\ drift' \in BOOLEAN /\ fresh' \in BOOLEAN
        /\ cuts' \subseteq Steps \cup Torns /\ cleared' \subseteq Models
        /\ used' \in [commands : Nat, cuts : Nat, restarts : Nat]
    BY <1>0 DEF Typed, WipeDone, Refuse, Idle, run, past, Steps, Commands
  <2> QED BY <2>1, <2>2, <2>3, <2>4, <2>5, TypeIs DEF Typed
<1>2. FilesOK'
  BY DEF WipeDone, Refuse, Idle, FilesOK
<1>3. AccountsOK'
  BY DEF WipeDone, Refuse, Idle, AccountsOK
<1>4. MemoryOK'
  BY DEF WipeDone, Refuse, Idle, MemoryOK
<1>5. ServiceOK'
  BY DEF IndInv, WipeDone, Refuse, Idle, ServiceOK
<1>6. ConfigOK'
  BY DEF WipeDone, Refuse, Idle, ConfigOK
<1>7. DriftOK'
  BY DEF IndInv, WipeDone, Refuse, Idle, run, DriftOK
<1>8. HomeOK'
  BY DEF IndInv, WipeDone, Refuse, Idle, run, HomeOK, AtHome
<1>9. CompleteOK'
  BY DEF IndInv, WipeDone, Refuse, Idle, CompleteOK
<1>10. OwedOK'
  BY DEF WipeDone, Refuse, Idle, OwedOK
<1>11. ClearedOK'
  BY DEF IndInv, WipeDone, Refuse, Idle, run, ClearedOK
<1>12. StuckOK'
  BY <1>b, NoneAssumption, TornAssumption DEF StuckOK, Resumable, Loadable, Preparable,
     NoFiles, NoAccounts, Idle
<1>13. SecretsOK' /\ TornOK'
  BY <1>b, TornAssumption DEF SecretsOK, TornOK, NoFiles
<1> QED BY <1>1, <1>2, <1>3, <1>4, <1>5, <1>6, <1>7, <1>8, <1>9, <1>10, <1>11, <1>12,
       <1>13 DEF IndInv

(* A stop at any step leaves files from which `up`, and `down --wipe`, can *)
(* go on, but for the places NeverStuck names.                             *)
LEMMA CutKeeps ==
  ASSUME IndInv, Cut
  PROVE  IndInv'
<1>0. Typed
  BY TypeIs DEF IndInv
<1>b. /\ files'.config = files.config /\ files'.record = files.record /\ cmd' = Idle
      /\ svc' = svc /\ store' = store /\ cleared' = cleared
  BY <1>0 DEF Cut, Refuse, Typed, Directories
<1>1. TypeOK'
  <2>1. cmd' \in Commands
    BY <1>0 DEF Typed, Cut, Refuse, Idle, run, past, Commands, Steps, Saves, SaveNext
  <2>2. files' \in Directories /\ env' \in Environments /\ accounts' \in Servers
    <3>1. /\ \/ env' = env
             \/ env' = [there |-> TRUE, torn |-> TRUE, has |-> {}]
          /\ \/ files' = files
             \/ files' = [files EXCEPT !.marker = "torn"]
             \/ files' = [files EXCEPT !.compose = "torn"]
      BY DEF Cut
    <3>2. files' \in Directories
      BY <1>0, <3>1 DEF Typed, Directories
    <3>3. env' \in Environments
      <4>1. [there |-> TRUE, torn |-> TRUE, has |-> {}] \in Environments
        BY DEF Environments
      <4> QED BY <1>0, <3>1, <4>1 DEF Typed
    <3>4. accounts' = accounts
      BY DEF Cut
    <3> QED BY <1>0, <3>2, <3>3, <3>4 DEF Typed
  <2>3. svc' \in Services /\ store' \in Stores \cup {None}
    BY <1>0 DEF Typed, Cut, Refuse, Idle, run, past, Services
  <2>4. svc'.state # "none" => svc'.cfg # None /\ files'.config # None
    BY <1>0 DEF Typed, Cut, Directories
  <2>5. /\ complete' \in BOOLEAN /\ drift' \in BOOLEAN /\ fresh' \in BOOLEAN
        /\ cuts' \subseteq Steps \cup Torns /\ cleared' \subseteq Models
        /\ used' \in [commands : Nat, cuts : Nat, restarts : Nat]
    BY <1>0 DEF Typed, Cut, Torns, Commands
  <2> QED BY <2>1, <2>2, <2>3, <2>4, <2>5, TypeIs DEF Typed
<1>2. FilesOK'
  BY DEF Cut, Refuse, Idle, FilesOK
<1>3. AccountsOK'
  BY DEF Cut, Refuse, Idle, AccountsOK
<1>4. MemoryOK'
  BY DEF Cut, Refuse, Idle, MemoryOK
<1>5. ServiceOK'
  BY DEF IndInv, Cut, Refuse, Idle, ServiceOK
<1>6. ConfigOK'
  BY DEF Cut, Refuse, Idle, ConfigOK
<1>7. DriftOK'
  BY <1>b DEF IndInv, Cut, Idle, DriftOK, FilesOK
<1>8. HomeOK'
  BY DEF IndInv, Cut, Refuse, Idle, HomeOK, AtHome
<1>9. CompleteOK'
  BY DEF IndInv, Cut, Refuse, Idle, CompleteOK
<1>10. OwedOK'
  BY DEF Cut, Refuse, Idle, OwedOK
<1>11. ClearedOK'
  BY <1>b DEF IndInv, Idle, ClearedOK
<1>12. StuckOK'
  <2>1. CASE files' = files /\ env' = env /\ cuts' = cuts \cup {cmd.pc}
    <3>1. Resumable' = Resumable /\ Wipeable' = Wipeable /\ Empty' = Empty
      BY <2>1 DEF Cut, Resumable, Wipeable, Stoppable, ServicesFound, ComposeWorks, Keyed,
         Owned, Loadable, Preparable, Empty
    <3>2. Resumable' \/ cuts' \cap StopsUp # {}
      BY <2>1, <3>1 DEF IndInv, StuckOK, StopsUp
    <3>3. Wipeable' \/ Empty' \/ cuts' \cap StopsWipe # {}
      BY <2>1, <3>1 DEF IndInv, StuckOK, StopsWipe
    <3> QED BY <3>2, <3>3 DEF StuckOK
  <2>2. CASE cuts' = cuts \cup {"torn_marker"} \/ cuts' = cuts \cup {"torn_env"}
    BY <2>2 DEF StuckOK, StopsUp, StopsWipe
  <2>3. CASE /\ cmd.pc \in {"forgejo", "compose_mcp"} /\ env' = env
             /\ files' = [files EXCEPT !.compose = "torn"]
             /\ cuts' = cuts \cup {"torn_compose"}
    <3>1. Resumable => Resumable'
      BY <1>0, <2>3 DEF IndInv, FilesOK, Cut, Typed, Directories, Resumable, Keyed, Owned,
         Loadable, Preparable
    <3>2. Resumable' \/ cuts' \cap StopsUp # {}
      BY <2>3, <3>1 DEF IndInv, StuckOK, StopsUp
    <3> QED BY <2>3, <3>2 DEF StuckOK, StopsWipe
  <2> QED BY <2>1, <2>2, <2>3 DEF Cut
<1>13. SecretsOK' /\ TornOK'
  <2>1. \/ /\ env' = env /\ cuts' = cuts \cup {cmd.pc} /\ files' = files
        \/ /\ env' = env /\ files'.compose \in {files.compose, "torn"}
           /\ files'.record = files.record /\ files'.config = files.config /\ cuts \subseteq cuts'
           /\ cmd.pc \notin Rewriting \cup {"wipe"}
        \/ files' = files /\ "torn_env" \in cuts' /\ cuts \subseteq cuts' /\ cmd.pc \notin Rewriting
    BY <1>0 DEF Cut, Typed, Directories, Saves, SaveNext
  <2> QED BY <2>1 DEF IndInv, Cut, SecretsOK, TornOK, Keyed
<1> QED BY <1>1, <1>2, <1>3, <1>4, <1>5, <1>6, <1>7, <1>8, <1>9, <1>10, <1>11, <1>12,
       <1>13 DEF IndInv

(* The service compares its config with the record, and keeps, refuses, or *)
(* wipes the store for its own model.                                      *)
LEMMA ServiceChecksKeeps ==
  ASSUME IndInv, ServiceChecks
  PROVE  IndInv'
<1>0. Typed
  BY TypeIs DEF IndInv
<1>1. TypeOK'
  <2>1. cmd' \in Commands
    BY <1>0 DEF Typed, ServiceChecks, run, past, Commands, Steps, Saves, SaveNext
  <2>2. files' \in Directories /\ env' \in Environments /\ accounts' \in Servers
    BY <1>0 DEF Typed, ServiceChecks, run, past, Directories, Environments, Servers
  <2>3. svc' \in Services /\ store' \in Stores \cup {None}
    <3>1. svc.cfg \in Configs
      BY <1>0 DEF Typed, Services, ServiceChecks
    <3> DEFINE built == [model |-> svc.cfg.model, window |-> svc.cfg.window, done |-> FALSE]
    <3>2. built \in Stores
      BY <3>1 DEF Configs, Stores
    <3>3. store' \in {built, store} /\ \E next \in {"embedding", "error", "ready"} :
                                          svc' = [svc EXCEPT !.state = next]
      BY DEF ServiceChecks
    <3> HIDE DEF built
    <3> QED BY <1>0, <3>2, <3>3 DEF Typed, Services
  <2>4. svc'.state # "none" => svc'.cfg # None /\ files'.config # None
    BY <1>0 DEF Typed, ServiceChecks, run, past, Services
  <2>5. /\ complete' \in BOOLEAN /\ drift' \in BOOLEAN /\ fresh' \in BOOLEAN
        /\ cuts' \subseteq Steps \cup Torns /\ cleared' \subseteq Models
        /\ used' \in [commands : Nat, cuts : Nat, restarts : Nat]
    BY <1>0 DEF Typed, ServiceChecks, run, past, Steps, Commands
  <2> QED BY <2>1, <2>2, <2>3, <2>4, <2>5, TypeIs DEF Typed
<1>2. FilesOK'
  BY DEF IndInv, ServiceChecks, run, FilesOK
<1>3. AccountsOK'
  BY DEF IndInv, ServiceChecks, run, AccountsOK
<1>4. MemoryOK'
  BY DEF IndInv, ServiceChecks, run, MemoryOK
<1>5. ServiceOK'
  <2>1. svc.cfg \in Configs
    BY <1>0 DEF Typed, Services, ServiceChecks
  <2> DEFINE built == [model |-> svc.cfg.model, window |-> svc.cfg.window, done |-> FALSE]
             whole == [model |-> svc.cfg.model, window |-> svc.cfg.window, done |-> TRUE]
  <2>2. built \in Stores /\ whole \in Stores
    BY <2>1 DEF Configs, Stores
  <2>3. /\ svc'.cfg = svc.cfg /\ svc'.same = svc.same
        /\ \/ svc'.state = "embedding" /\ store' = built
           \/ svc'.state = "error" /\ store' = store
           \/ svc'.state = "ready" /\ store' = store /\ store = whole
    BY <1>0 DEF ServiceChecks, Typed, Services
  <2>4. built.model = svc.cfg.model /\ whole.model = svc.cfg.model
    OBVIOUS
  <2>5. built # None /\ whole # None
    BY <2>2, NoneAssumption
  <2> HIDE DEF built, whole
  <2> QED BY <2>3, <2>4, <2>5 DEF IndInv, ServiceOK, ServiceChecks
<1>6. ConfigOK'
  BY DEF IndInv, ServiceChecks, run, ConfigOK
<1>7. DriftOK'
  BY DEF IndInv, ServiceChecks, run, past, DriftOK
<1>8. HomeOK'
  <2>1. svc.cfg \in Configs
    BY <1>0 DEF Typed, Services, ServiceChecks
  <2> DEFINE built == [model |-> svc.cfg.model, window |-> svc.cfg.window, done |-> FALSE]
  <2>2. built \in Stores /\ built.model = svc.cfg.model
    BY <2>1 DEF Configs, Stores
  <2>3. \/ svc'.state = "embedding" /\ store' = built
        \/ svc'.state = "error" /\ store' = store /\ store # None /\ store.model # svc.cfg.model
        \/ svc'.state = "ready" /\ store' = store
    BY <1>0 DEF ServiceChecks, Typed, Services
  <2> HIDE DEF built
  <2>4. files' = files /\ cmd' = cmd /\ complete' = complete /\ drift' = drift
    BY DEF ServiceChecks, run, past
  <2>5. ASSUME cmd.pc \in Awaited \/ complete, ~drift
        PROVE  AtHome'
    <3>1. AtHome
      BY <2>5 DEF IndInv, HomeOK
    <3>2. svc'.cfg = svc.cfg /\ svc'.state \in {"embedding", "error", "ready"}
      BY <1>0 DEF ServiceChecks, Typed, Services
    <3> QED BY <2>2, <2>3, <2>4, <3>1, <3>2, NoneAssumption DEF AtHome
  <2> QED BY <2>4, <2>5 DEF HomeOK
<1>9. CompleteOK'
  BY DEF IndInv, ServiceChecks, run, past, CompleteOK, CompletedWorks, HomeOK, AtHome, Same
<1>10. OwedOK'
  BY DEF IndInv, ServiceChecks, past, OwedOK
<1>11. ClearedOK'
  BY DEF IndInv, ServiceChecks, run, past, ClearedOK
<1>12. StuckOK'
  BY DEF IndInv, ServiceChecks, run, past, TypeOK, StuckOK, Resumable, Wipeable, Stoppable,
     ServicesFound, ComposeWorks, Keyed, Owned, Loadable, Preparable, Empty, NoFiles
<1>13. SecretsOK' /\ TornOK'
  BY DEF IndInv, ServiceChecks, Goto, Refuse, Idle, run, past, SecretsOK, TornOK, Keyed
<1> QED BY <1>1, <1>2, <1>3, <1>4, <1>5, <1>6, <1>7, <1>8, <1>9, <1>10, <1>11, <1>12,
       <1>13 DEF IndInv

(* A build that ends leaves a store of the config the container was        *)
(* started with.                                                           *)
LEMMA ServiceEmbedsKeeps ==
  ASSUME IndInv, ServiceEmbeds
  PROVE  IndInv'
<1>0. Typed
  BY TypeIs DEF IndInv
<1>1. TypeOK'
  <2>1. cmd' \in Commands
    BY <1>0 DEF Typed, ServiceEmbeds, run, past, Commands, Steps, Saves, SaveNext
  <2>2. files' \in Directories /\ env' \in Environments /\ accounts' \in Servers
    BY <1>0 DEF Typed, ServiceEmbeds, run, past, Directories, Environments, Servers
  <2>3. svc' \in Services /\ store' \in Stores \cup {None}
    <3>1. store \in Stores
      BY <1>0 DEF IndInv, ServiceOK, ServiceEmbeds, Typed
    <3>2. store' \in Stores
      BY <3>1 DEF ServiceEmbeds, Stores
    <3> QED BY <1>0, <3>2 DEF Typed, ServiceEmbeds, Services
  <2>4. svc'.state # "none" => svc'.cfg # None /\ files'.config # None
    BY <1>0 DEF Typed, ServiceEmbeds, run, past, Services
  <2>5. /\ complete' \in BOOLEAN /\ drift' \in BOOLEAN /\ fresh' \in BOOLEAN
        /\ cuts' \subseteq Steps \cup Torns /\ cleared' \subseteq Models
        /\ used' \in [commands : Nat, cuts : Nat, restarts : Nat]
    BY <1>0 DEF Typed, ServiceEmbeds, run, past, Steps, Commands
  <2> QED BY <2>1, <2>2, <2>3, <2>4, <2>5, TypeIs DEF Typed
<1>2. FilesOK'
  BY DEF IndInv, ServiceEmbeds, run, FilesOK
<1>3. AccountsOK'
  BY DEF IndInv, ServiceEmbeds, run, AccountsOK
<1>4. MemoryOK'
  BY DEF IndInv, ServiceEmbeds, run, MemoryOK
<1>5. ServiceOK'
  <2>1. store \in Stores /\ store.model = svc.cfg.model
    BY <1>0 DEF IndInv, ServiceOK, ServiceEmbeds, Typed
  <2>2. store' \in Stores /\ store'.model = store.model
    BY <2>1 DEF ServiceEmbeds, Stores
  <2>3. store' # None
    BY <2>2, NoneAssumption
  <2>4. svc'.state = "ready" /\ svc'.cfg = svc.cfg /\ svc'.same = svc.same
    BY <1>0 DEF ServiceEmbeds, Typed, Services
  <2> QED BY <2>1, <2>2, <2>3, <2>4 DEF IndInv, ServiceOK, ServiceEmbeds
<1>6. ConfigOK'
  BY DEF IndInv, ServiceEmbeds, run, ConfigOK
<1>7. DriftOK'
  BY DEF IndInv, ServiceEmbeds, run, DriftOK
<1>8. HomeOK'
  <2>1. store \in Stores
    BY <1>0 DEF IndInv, ServiceOK, ServiceEmbeds, Typed
  <2>2. store' \in Stores /\ store'.model = store.model
    BY <2>1 DEF ServiceEmbeds, Stores
  <2>3. store' # None
    BY <2>2, NoneAssumption
  <2>4. svc'.state = "ready"
    BY <1>0 DEF ServiceEmbeds, Typed, Services
  <2> QED BY <2>2, <2>3, <2>4 DEF IndInv, HomeOK, AtHome, ServiceEmbeds, run
<1>9. CompleteOK'
  BY DEF IndInv, ServiceEmbeds, run, CompleteOK, CompletedWorks
<1>10. OwedOK'
  BY DEF ServiceEmbeds, OwedOK
<1>11. ClearedOK'
  BY DEF IndInv, ServiceEmbeds, run, ClearedOK, ServiceOK
<1>12. StuckOK'
  BY DEF IndInv, ServiceEmbeds, run, StuckOK, Resumable, Wipeable, Stoppable, ServicesFound,
     ComposeWorks, Keyed, Owned, Loadable, Preparable, Empty, NoFiles, ServiceOK
<1>13. SecretsOK' /\ TornOK'
  BY DEF IndInv, ServiceEmbeds, Goto, Refuse, Idle, run, past, SecretsOK, TornOK, Keyed
<1> QED BY <1>1, <1>2, <1>3, <1>4, <1>5, <1>6, <1>7, <1>8, <1>9, <1>10, <1>11, <1>12,
       <1>13 DEF IndInv

(* A container that restarts reads the config again; once it was waited    *)
(* for the config's model is the store's.                                  *)
LEMMA ServiceRestartsKeeps ==
  ASSUME IndInv, ServiceRestarts
  PROVE  IndInv'
<1>0. Typed
  BY TypeIs DEF IndInv
<1>b. /\ svc.state \notin {"none", "crashed"} /\ svc' \in Services /\ svc'.same = svc.same
      /\ \/ files.config = Torn /\ svc'.state = "crashed" /\ svc'.cfg = svc.cfg
         \/ /\ files.config \in Configs /\ svc'.state = "checking" /\ svc'.cfg = files.config
  <2>1. files.config \in Configs \cup {Torn}
    BY <1>0 DEF Typed, Directories, ServiceRestarts
  <2> QED BY <1>0, <2>1, TornAssumption DEF Typed, ServiceRestarts, Services
<1>c. /\ files' = files /\ cmd' = cmd /\ store' = store /\ past' = past /\ env' = env
      /\ accounts' = accounts
  BY DEF ServiceRestarts, run
<1>1. TypeOK'
  <2>1. cmd' \in Commands
    BY <1>0 DEF Typed, ServiceRestarts, run, past, Commands, Steps, Saves, SaveNext
  <2>2. files' \in Directories /\ env' \in Environments /\ accounts' \in Servers
    BY <1>0 DEF Typed, ServiceRestarts, run, past, Directories, Environments, Servers
  <2>3. svc' \in Services /\ store' \in Stores \cup {None}
    BY <1>0, <1>b, <1>c DEF Typed
  <2>4. svc'.state # "none" => svc'.cfg # None /\ files'.config # None
    BY <1>0, <1>b, <1>c, NoneAssumption DEF Typed
  <2>5. /\ complete' \in BOOLEAN /\ drift' \in BOOLEAN /\ fresh' \in BOOLEAN
        /\ cuts' \subseteq Steps \cup Torns /\ cleared' \subseteq Models
        /\ used' \in [commands : Nat, cuts : Nat, restarts : Nat]
    BY <1>0 DEF Typed, ServiceRestarts, run, past, Steps, Commands
  <2> QED BY <2>1, <2>2, <2>3, <2>4, <2>5, TypeIs DEF Typed
<1>2. FilesOK'
  BY DEF IndInv, ServiceRestarts, run, FilesOK
<1>3. AccountsOK'
  BY DEF IndInv, ServiceRestarts, run, AccountsOK
<1>4. MemoryOK'
  BY DEF IndInv, ServiceRestarts, run, MemoryOK
<1>5. ServiceOK'
  BY <1>b, <1>c DEF IndInv, ServiceOK
<1>6. ConfigOK'
  BY DEF IndInv, ServiceRestarts, run, ConfigOK
<1>7. DriftOK'
  <2>1. CASE cmd.pc \in Rewriting
    <3>1. files.config = Torn
      BY <2>1 DEF IndInv, FilesOK
    <3> QED BY <1>b, <1>c, <2>1, <3>1, TornAssumption DEF IndInv, past, DriftOK
  <2>2. CASE cmd.pc \notin Rewriting
    BY <1>b, <1>c, <2>2 DEF past, DriftOK, Same
  <2> QED BY <2>1, <2>2
<1>8. HomeOK'
  <2>1. ASSUME cmd.pc \in Awaited \/ complete, ~drift
        PROVE  AtHome'
    <3>1. AtHome
      BY <2>1 DEF IndInv, HomeOK
    <3>2. files.config = Torn \/ Same(svc.cfg, files.config)
      BY <2>1, <3>1 DEF IndInv, FilesOK, DriftOK, AtHome, CompleteOK
    <3> QED BY <1>b, <1>c, <3>1, <3>2, TornAssumption DEF AtHome, Same
  <2> QED BY <1>c, <2>1 DEF HomeOK, past
<1>9. CompleteOK'
  BY <1>b, <1>c, TornAssumption DEF IndInv, past, CompleteOK, CompletedWorks, Same
<1>10. OwedOK'
  BY <1>b, <1>c DEF IndInv, past, OwedOK, ConfigOK, FilesOK
<1>11. ClearedOK'
  BY <1>b, <1>c DEF IndInv, past, ClearedOK, FilesOK
<1>12. StuckOK'
  BY DEF IndInv, ServiceRestarts, run, past, StuckOK, Resumable, Wipeable, Stoppable,
     ServicesFound, ComposeWorks, Keyed, Owned, Loadable, Preparable, Empty
<1>13. SecretsOK' /\ TornOK'
  BY DEF IndInv, ServiceRestarts, Goto, Refuse, Idle, run, past, SecretsOK, TornOK, Keyed
<1> QED BY <1>1, <1>2, <1>3, <1>4, <1>5, <1>6, <1>7, <1>8, <1>9, <1>10, <1>11, <1>12,
       <1>13 DEF IndInv

(* A process that could not read its config starts with the one there is.  *)
LEMMA ServiceReadsKeeps ==
  ASSUME IndInv, ServiceReads
  PROVE  IndInv'
<1>0. Typed
  BY TypeIs DEF IndInv
<1>b. /\ svc.state = "crashed" /\ svc' \in Services /\ svc'.same = svc.same
      /\ files.config \in Configs /\ svc'.state = "checking" /\ svc'.cfg = files.config
  <2>1. files.config \in Configs
    BY <1>0 DEF Typed, Directories, ServiceReads
  <2> QED BY <1>0, <2>1 DEF Typed, ServiceReads, Services
<1>c. /\ files' = files /\ cmd' = cmd /\ store' = store /\ past' = past /\ env' = env
      /\ accounts' = accounts
  BY DEF ServiceReads, run
<1>1. TypeOK'
  <2>1. cmd' \in Commands
    BY <1>0 DEF Typed, ServiceReads, Goto, Refuse, Idle, run, past, Commands, Steps, Saves,
       SaveNext
  <2>2. files' \in Directories /\ env' \in Environments /\ accounts' \in Servers
    BY <1>0 DEF Typed, ServiceReads, run, past, Directories, Environments, Servers
  <2>3. svc' \in Services /\ store' \in Stores \cup {None}
    BY <1>0, <1>b, <1>c DEF Typed
  <2>4. svc'.state # "none" => svc'.cfg # None /\ files'.config # None
    BY <1>0, <1>b, <1>c, NoneAssumption DEF Typed
  <2>5. /\ complete' \in BOOLEAN /\ drift' \in BOOLEAN /\ fresh' \in BOOLEAN
        /\ cuts' \subseteq Steps \cup Torns /\ cleared' \subseteq Models
        /\ used' \in [commands : Nat, cuts : Nat, restarts : Nat]
    BY <1>0 DEF Typed, ServiceReads, Goto, Refuse, Idle, run, past, Steps, Commands
  <2> QED BY <2>1, <2>2, <2>3, <2>4, <2>5, TypeIs DEF Typed
<1>2. FilesOK'
  BY DEF IndInv, ServiceReads, Goto, Refuse, Idle, run, past, TypeOK, FilesOK
<1>3. AccountsOK'
  BY DEF IndInv, ServiceReads, Goto, Refuse, Idle, run, past, TypeOK, AccountsOK
<1>4. MemoryOK'
  BY DEF IndInv, ServiceReads, Goto, Refuse, Idle, run, past, TypeOK, MemoryOK
<1>5. ServiceOK'
  BY <1>b, <1>c DEF IndInv, ServiceOK
<1>6. ConfigOK'
  BY DEF IndInv, ServiceReads, Goto, Refuse, Idle, run, past, TypeOK, ConfigOK
<1>7. DriftOK'
  <2>1. CASE cmd.pc \in Rewriting
    <3>1. files.config = Torn
      BY <2>1 DEF IndInv, FilesOK
    <3> QED BY <1>b, <1>c, <2>1, <3>1, TornAssumption DEF IndInv, past, DriftOK
  <2>2. CASE cmd.pc \notin Rewriting
    BY <1>b, <1>c, <2>2 DEF past, DriftOK, Same
  <2> QED BY <2>1, <2>2
<1>8. HomeOK'
  <2>1. ASSUME cmd.pc \in Awaited \/ complete, ~drift
        PROVE  AtHome'
    <3>1. AtHome
      BY <2>1 DEF IndInv, HomeOK
    <3>2. files.config = Torn \/ Same(svc.cfg, files.config)
      BY <2>1, <3>1 DEF IndInv, FilesOK, DriftOK, AtHome, CompleteOK
    <3> QED BY <1>b, <1>c, <3>1, <3>2, TornAssumption DEF AtHome, Same
  <2> QED BY <1>c, <2>1 DEF HomeOK, past
<1>9. CompleteOK'
  BY <1>b, <1>c, TornAssumption DEF IndInv, past, CompleteOK, CompletedWorks, Same
<1>10. OwedOK'
  BY <1>b, <1>c DEF IndInv, past, OwedOK, ConfigOK, FilesOK
<1>11. ClearedOK'
  BY <1>b, <1>c DEF IndInv, past, ClearedOK, FilesOK
<1>12. StuckOK'
  BY DEF IndInv, ServiceReads, Goto, Refuse, Idle, run, past, TypeOK, StuckOK, FilesOK,
     MemoryOK, TornOK, SecretsOK, Resumable, Wipeable, Stoppable, ServicesFound, ComposeWorks,
     Keyed, Owned, Loadable, Preparable, Empty
<1>13. SecretsOK' /\ TornOK'
  BY DEF IndInv, ServiceReads, Goto, Refuse, Idle, run, past, SecretsOK, TornOK, Keyed
<1> QED BY <1>1, <1>2, <1>3, <1>4, <1>5, <1>6, <1>7, <1>8, <1>9, <1>10, <1>11, <1>12,
       <1>13 DEF IndInv

(* A new `up` is refused, or starts with what .env has in memory.          *)
LEMMA UpKeeps ==
  ASSUME IndInv, NEW ans \in Asks, Up(ans)
  PROVE  IndInv'
<1>0. Typed
  BY TypeIs DEF IndInv
<1>1. TypeOK'
  <2>1. cmd' \in Commands
    <3>1. ans \in Answers /\ env.has \in SUBSET Secrets
      BY <1>0, AsksAssumption DEF Typed, Environments
    <3> QED BY <3>1 DEF Up, Idle, Commands, Steps, Saves, SaveNext
  <2>2. files' \in Directories /\ env' \in Environments /\ accounts' \in Servers
    BY <1>0, AsksAssumption DEF Typed, Up, Idle, run, past, Directories, Environments, Servers
  <2>3. svc' \in Services /\ store' \in Stores \cup {None}
    BY <1>0, AsksAssumption DEF Typed, Up, Idle, run, past, Services
  <2>4. svc'.state # "none" => svc'.cfg # None /\ files'.config # None
    BY <1>0, AsksAssumption DEF Typed, Up, Idle, run, past, Services
  <2>5. /\ complete' \in BOOLEAN /\ drift' \in BOOLEAN /\ fresh' \in BOOLEAN
        /\ cuts' \subseteq Steps \cup Torns /\ cleared' \subseteq Models
        /\ used' \in [commands : Nat, cuts : Nat, restarts : Nat]
    <3>1. used' \in [commands : Nat, cuts : Nat, restarts : Nat]
      BY <1>0 DEF Typed, Up
    <3> QED BY <1>0, <3>1 DEF Typed, Up
  <2> QED BY <2>1, <2>2, <2>3, <2>4, <2>5, TypeIs DEF Typed
<1>2. FilesOK'
  BY DEF Up, Idle, FilesOK
<1>3. AccountsOK'
  BY DEF Up, Idle, AccountsOK
<1>4. MemoryOK'
  BY AsksAssumption DEF Up, Idle, run, MemoryOK
<1>5. ServiceOK'
  BY DEF IndInv, Up, Idle, ServiceOK
<1>6. ConfigOK'
  BY DEF Up, Idle, ConfigOK
<1>7. DriftOK'
  BY DEF IndInv, Up, Idle, run, DriftOK
<1>8. HomeOK'
  BY DEF Up, Idle, HomeOK
<1>9. CompleteOK'
  BY DEF Up, Idle, CompleteOK
<1>10. OwedOK'
  BY DEF Up, Idle, OwedOK
<1>11. ClearedOK'
  BY DEF IndInv, Up, Idle, run, ClearedOK
<1>12. StuckOK'
  BY DEF IndInv, Up, Idle, StuckOK, Resumable, Owned, Loadable, Preparable, Keyed, Wipeable,
     Stoppable, ServicesFound, ComposeWorks, Empty, run, past
<1>13. SecretsOK' /\ TornOK'
  BY DEF IndInv, Up, Goto, Refuse, Idle, run, past, SecretsOK, TornOK, Keyed
<1> QED BY <1>1, <1>2, <1>3, <1>4, <1>5, <1>6, <1>7, <1>8, <1>9, <1>10, <1>11, <1>12,
       <1>13 DEF IndInv

(* A new `down` is refused, or starts to stop the services.                *)
LEMMA DownKeeps ==
  ASSUME IndInv, NEW wipe \in BOOLEAN, Down(wipe)
  PROVE  IndInv'
<1>0. Typed
  BY TypeIs DEF IndInv
<1>1. TypeOK'
  <2>1. cmd' \in Commands
    BY <1>0 DEF Typed, Down, Idle, run, past, Commands, Steps, Saves, SaveNext
  <2>2. files' \in Directories /\ env' \in Environments /\ accounts' \in Servers
    BY <1>0 DEF Typed, Down, Idle, run, past, Directories, Environments, Servers
  <2>3. svc' \in Services /\ store' \in Stores \cup {None}
    BY <1>0 DEF Typed, Down, Idle, run, past, Services
  <2>4. svc'.state # "none" => svc'.cfg # None /\ files'.config # None
    BY <1>0 DEF Typed, Down, Idle, run, past, Services
  <2>5. /\ complete' \in BOOLEAN /\ drift' \in BOOLEAN /\ fresh' \in BOOLEAN
        /\ cuts' \subseteq Steps \cup Torns /\ cleared' \subseteq Models
        /\ used' \in [commands : Nat, cuts : Nat, restarts : Nat]
    <3>1. used' \in [commands : Nat, cuts : Nat, restarts : Nat]
      BY <1>0 DEF Typed, Down
    <3> QED BY <1>0, <3>1 DEF Typed, Down
  <2> QED BY <2>1, <2>2, <2>3, <2>4, <2>5, TypeIs DEF Typed
<1>2. FilesOK'
  BY DEF Down, Idle, FilesOK
<1>3. AccountsOK'
  BY DEF Down, Idle, AccountsOK
<1>4. MemoryOK'
  BY DEF Down, Idle, MemoryOK
<1>5. ServiceOK'
  BY DEF IndInv, Down, Idle, ServiceOK
<1>6. ConfigOK'
  BY DEF Down, Idle, ConfigOK
<1>7. DriftOK'
  BY DEF IndInv, Down, Idle, run, DriftOK
<1>8. HomeOK'
  BY DEF Down, Idle, HomeOK
<1>9. CompleteOK'
  BY DEF Down, Idle, CompleteOK
<1>10. OwedOK'
  BY DEF Down, Idle, OwedOK
<1>11. ClearedOK'
  BY DEF IndInv, Down, Idle, run, ClearedOK
<1>12. StuckOK'
  BY DEF IndInv, Down, Idle, run, StuckOK, Resumable, Wipeable, Stoppable, ServicesFound,
     ComposeWorks, Keyed, Owned, Loadable, Preparable, Empty
<1>13. SecretsOK' /\ TornOK'
  BY DEF IndInv, Down, Goto, Refuse, Idle, run, past, SecretsOK, TornOK, Keyed
<1> QED BY <1>1, <1>2, <1>3, <1>4, <1>5, <1>6, <1>7, <1>8, <1>9, <1>10, <1>11, <1>12,
       <1>13 DEF IndInv

(* A piece is removed only while no container runs.                        *)
LEMMA RemovePieceKeeps ==
  ASSUME IndInv, NEW p \in Pieces, RemovePiece(p)
  PROVE  IndInv'
<1>0. Typed
  BY TypeIs DEF IndInv
<1>b. /\ cmd.pc = "wipe" /\ cmd' = cmd /\ store' \in {store, None} /\ cuts' = cuts
      /\ cleared' = cleared /\ svc' = svc
      /\ files'.config \in {files.config, None}
  BY <1>0 DEF RemovePiece, past, NoFiles, Typed, Directories
<1>1. TypeOK'
  <2>1. cmd' \in Commands
    BY <1>0 DEF Typed, RemovePiece, run, past, Commands, Steps, Saves, SaveNext
  <2>2. files' \in Directories /\ env' \in Environments /\ accounts' \in Servers
    <3>1. \/ files' = files
          \/ files' = [files EXCEPT !.marker = "none"]
          \/ files' = [files EXCEPT !.compose = "none"]
          \/ files' = [files EXCEPT !.record = "none"]
          \/ files' = [files EXCEPT !.config = None]
      BY <1>0 DEF RemovePiece, Pieces, NoFiles, Typed, Directories
    <3>2. files' \in Directories
      BY <1>0, <3>1 DEF Typed, Directories
    <3>3. env' \in Environments
      <4>1. env' = env \/ env' = NoEnv
        BY DEF RemovePiece
      <4>2. NoEnv \in Environments
        BY DEF NoEnv, Environments
      <4> QED BY <1>0, <4>1, <4>2 DEF Typed
    <3>4. accounts' \in Servers
      <4>1. accounts' = accounts \/ accounts' = NoAccounts
        BY DEF RemovePiece
      <4>2. NoAccounts \in Servers
        BY DEF NoAccounts, Servers
      <4> QED BY <1>0, <4>1, <4>2 DEF Typed
    <3> QED BY <3>2, <3>3, <3>4
  <2>3. svc' \in Services /\ store' \in Stores \cup {None}
    BY <1>0 DEF Typed, RemovePiece, run, past, Services
  <2>4. svc'.state # "none" => svc'.cfg # None /\ files'.config # None
    <3>1. svc.state = "none" /\ svc' = svc
      BY DEF IndInv, ServiceOK, RemovePiece
    <3> QED BY <3>1
  <2>5. /\ complete' \in BOOLEAN /\ drift' \in BOOLEAN /\ fresh' \in BOOLEAN
        /\ cuts' \subseteq Steps \cup Torns /\ cleared' \subseteq Models
        /\ used' \in [commands : Nat, cuts : Nat, restarts : Nat]
    BY <1>0 DEF Typed, RemovePiece, run, past, Steps, Commands
  <2> QED BY <2>1, <2>2, <2>3, <2>4, <2>5, TypeIs DEF Typed
<1>2. FilesOK'
  BY DEF RemovePiece, FilesOK
<1>3. AccountsOK'
  BY DEF RemovePiece, AccountsOK
<1>4. MemoryOK'
  BY DEF RemovePiece, MemoryOK
<1>5. ServiceOK'
  BY DEF IndInv, RemovePiece, ServiceOK
<1>6. ConfigOK'
  BY DEF RemovePiece, ConfigOK
<1>7. DriftOK'
  <2>1. svc.state = "none" /\ svc' = svc
    BY DEF IndInv, ServiceOK, RemovePiece
  <2> QED BY <2>1 DEF DriftOK
<1>8. HomeOK'
  BY DEF IndInv, RemovePiece, past, HomeOK, AtHome, ServiceOK
<1>9. CompleteOK'
  BY DEF IndInv, RemovePiece, past, CompleteOK
<1>10. OwedOK'
  BY DEF RemovePiece, OwedOK
<1>11. ClearedOK'
  <2>1. svc.state = "none"
    BY <1>b DEF IndInv, ServiceOK
  <2> QED BY <1>b, <2>1, NoneAssumption DEF IndInv, ClearedOK
<1>12. StuckOK'
  BY DEF RemovePiece, StuckOK
<1>13. SecretsOK' /\ TornOK'
  BY <1>b, TornAssumption DEF IndInv, SecretsOK, TornOK
<1> QED BY <1>1, <1>2, <1>3, <1>4, <1>5, <1>6, <1>7, <1>8, <1>9, <1>10, <1>11, <1>12,
       <1>13 DEF IndInv

(* The invariant holds of an empty directory.                              *)
LEMMA InitKeeps == Init => IndInv
<1> SUFFICES ASSUME Init  PROVE IndInv
  OBVIOUS
<1> USE DEF Init, NoFiles, NoEnv, NoAccounts, NoContainer, Idle
<1>1. TypeOK
  BY DEF TypeOK, Steps, Saves, SaveNext
<1>2. FilesOK /\ AccountsOK /\ MemoryOK /\ ServiceOK /\ ConfigOK
  BY DEF FilesOK, AccountsOK, MemoryOK, ServiceOK, ConfigOK
<1>3. DriftOK /\ HomeOK /\ CompleteOK /\ OwedOK /\ ClearedOK
  BY NoneAssumption DEF DriftOK, HomeOK, CompleteOK, OwedOK, ClearedOK
<1>4. StuckOK /\ SecretsOK /\ TornOK
  BY TornAssumption DEF StuckOK, SecretsOK, TornOK, Resumable, Loadable, Preparable, Empty
<1> QED BY <1>1, <1>2, <1>3, <1>4 DEF IndInv

(* Every step of a command, a stop and the container keeps the invariant.  *)
LEMMA NextKeeps == IndInv /\ [Next]_vars => IndInv'
<1> SUFFICES ASSUME IndInv, [Next]_vars  PROVE IndInv'
  OBVIOUS
<1>1. CASE \E ans \in Asks : Up(ans)
  BY <1>1, UpKeeps
<1>2. CASE \E wipe \in BOOLEAN : Down(wipe)
  BY <1>2, DownKeeps
<1>3. CASE UpStep
  BY <1>3, WriteMarkerKeeps, SaveEnvKeeps, CreateForgejoKeeps, CreateAdminKeeps, FindAdminKeeps,
     RecordForgejoKeeps, FindOrCreateOwnerKeeps,
     MintTokensKeeps, KeepOrDrawSecretKeeps, CheckIdentityKeeps, WriteConfigKeeps, ConfigWrittenKeeps,
     ComposeMcpKeeps, RecordMcpKeeps, ConfigSettledKeeps,
     StartContainerKeeps, SeeReadyKeeps, GiveUpWaitingKeeps, SettleConfigKeeps, PublishKeeps,
     FinishKeeps DEF UpStep
<1>4. CASE DownStep
  BY <1>4, StopServicesKeeps, RemovePieceKeeps, WipeDoneKeeps DEF DownStep
<1>5. CASE Cut
  BY <1>5, CutKeeps
<1>6. CASE Service \/ ServiceRestarts \/ ServiceReads
  BY <1>6, ServiceChecksKeeps, ServiceEmbedsKeeps, ServiceRestartsKeeps, ServiceReadsKeeps
  DEF Service
<1>7. CASE UNCHANGED vars
  <2>1. TypeOK' /\ FilesOK' /\ AccountsOK' /\ MemoryOK' /\ ServiceOK' /\ ConfigOK'
    BY <1>7 DEF IndInv, vars, TypeOK, FilesOK, AccountsOK, MemoryOK, ServiceOK, ConfigOK
  <2>2. DriftOK' /\ HomeOK' /\ CompleteOK' /\ OwedOK' /\ ClearedOK'
    BY <1>7 DEF IndInv, vars, DriftOK, HomeOK, AtHome, CompleteOK, CompletedWorks, OwedOK,
                ClearedOK, Same
  <2>3. StuckOK' /\ SecretsOK' /\ TornOK'
    BY <1>7 DEF IndInv, vars, StuckOK, SecretsOK, TornOK, Resumable, Wipeable, Stoppable,
                ServicesFound, ComposeWorks, Keyed, Owned, Loadable, Preparable, Empty
  <2> QED BY <2>1, <2>2, <2>3 DEF IndInv
<1> QED BY <1>1, <1>2, <1>3, <1>4, <1>5, <1>6, <1>7 DEF Next

-----------------------------------------------------------------------------
(* The inductive invariant: at each step of `up` the files, accounts and   *)
(* secrets the steps before have made are there; the container, its config *)
(* and its store agree as far as the command has come.                     *)
THEOREM Invariant == Spec => []IndInv
<1>1. QED BY InitKeeps, NextKeeps, PTL DEF Spec

(* The run's state is always well typed.                                   *)
THEOREM Types == Spec => []TypeOK
<1>1. IndInv => TypeOK
  BY DEF IndInv
<1> QED BY <1>1, Invariant, PTL

(* After an `up` that ended in 0 the server, the config, .env, the record  *)
(* and the service agree, whatever was stopped or timed out before         *)
(* (mutating_command, cmd_up).                                             *)
THEOREM Works == Spec => []CompletedWorks
<1>1. IndInv => CompletedWorks
  BY DEF IndInv, CompleteOK, CompletedWorks
<1> QED BY <1>1, Invariant, PTL

(* Wherever commands were stopped, `up` can resume and `down --wipe` clear *)
(* the directory, but for the places NeverStuck names: a stop inside the   *)
(* rewrite of one of the files, before the admin's password is saved,      *)
(* before the first compose file, or in rmtree (mutating_command).         *)
THEOREM Unstuck == Spec => []NeverStuck
<1>1. IndInv => NeverStuck
  BY DEF IndInv, StuckOK, NeverStuck
<1> QED BY <1>1, Invariant, PTL

(* The store moves from one model to another only to a model that          *)
(* --rebuild, or an absent store, let in since the config was last settled *)
(* (_index_identity_check, _settle_mcp_config).                            *)
THEOREM Moves == Spec => StoreMovesOnlyWhenCleared
<1> DEFINE All == store # None /\ store' # None /\ store'.model # store.model
                    => store'.model \in cleared
<1>1. IndInv /\ [Next]_vars => [All]_vars
  <2> SUFFICES ASSUME IndInv, Next, store # None, store' # None, store'.model # store.model
               PROVE  store'.model \in cleared
    BY DEF vars
  <2>1. ServiceChecks \/ ServiceEmbeds
    BY DEF Next, Up, Down, UpStep, WriteMarker, SaveEnv, CreateForgejo, CreateAdmin,
       FindAdmin, RecordForgejo, FindOrCreateOwner, MintTokens, KeepOrDrawSecret,
       CheckIdentity, WriteConfig, ConfigWritten, ComposeMcp, RecordMcp, StartContainer,
       SeeReady, GiveUpWaiting, SettleConfig, ConfigSettled, Publish, Finish, DownStep,
       StopServices, RemovePiece, WipeDone, Cut, Service, ServiceRestarts, ServiceReads
  <2>2. CASE ServiceChecks
    <3>1. store' # store => store'.model = svc.cfg.model
      BY <2>2 DEF ServiceChecks
    <3> QED BY <2>2, <3>1 DEF IndInv, ClearedOK, ServiceChecks
  <2>3. CASE ServiceEmbeds
    <3>1. store \in Stores
      BY DEF IndInv, TypeOK
    <3> QED BY <2>3, <3>1 DEF ServiceEmbeds, Stores
  <2> QED BY <2>1, <2>2, <2>3
<1>2. Spec => [][All]_vars
  <2> HIDE DEF All
  <2> QED BY <1>1, Invariant, PTL DEF Spec
<1> QED BY <1>2 DEF StoreMovesOnlyWhenCleared

(* An owed rebuild is forgotten only by a command whose rebuild was done   *)
(* or that found the build attached, by rmtree, or by a stop inside the    *)
(* rewrite of the config (_start_created_mcp, cmd_up).                     *)
THEOREM Owed == Spec => OwedUntilDone
<1> DEFINE Dropped == RebuildOwed /\ ~RebuildOwed'
           Allowed == \/ fresh \/ cmd.attached
                      \/ cmd.pc = "wipe"
                      \/ cmd.pc = "write_config" /\ cmd'.pc = "idle"
<1>1. IndInv /\ [Next]_vars => [Dropped => Allowed]_vars
  <2> SUFFICES ASSUME IndInv, Next, Dropped  PROVE  Allowed
    BY DEF vars
  <2>0. Typed
    BY TypeIs DEF IndInv
  <2>1. files'.config # files.config \/ cmd.pc = "write_config"
    BY DEF RebuildOwed, Rebuilding
  <2>2. CASE cmd.pc = "write_config"
    <3>1. cmd.rebuild
      BY <2>2, TornAssumption DEF IndInv, FilesOK, RebuildOwed, Rebuilding
    <3>2. ~ConfigWritten
      <4> SUFFICES ASSUME ConfigWritten  PROVE FALSE
        OBVIOUS
      <4>1. cmd.ans \in Answers
        BY <2>2 DEF IndInv, MemoryOK
      <4>2. files'.config = Rendered(TRUE)
        BY <2>0, <3>1 DEF ConfigWritten, Typed, Directories, Commands, Rendered
      <4>3. files'.config \in Configs /\ files'.config.always
        BY <4>1, <4>2, RenderedIs
      <4> QED BY <4>3 DEF RebuildOwed, Rebuilding
    <3>3. cmd' = cmd \/ Cut
      BY <2>2, <3>2 DEF Next, Up, Down, UpStep, WriteMarker, SaveEnv, Saves, SaveNext,
         CreateForgejo, CreateAdmin, FindAdmin, RecordForgejo, FindOrCreateOwner, MintTokens,
         KeepOrDrawSecret, CheckIdentity, WriteConfig, ComposeMcp, RecordMcp, StartContainer,
         SeeReady, GiveUpWaiting, SettleConfig, ConfigSettled, Publish, Finish, DownStep,
         StopServices, RemovePiece, WipeDone, Service, ServiceChecks, ServiceEmbeds,
         ServiceRestarts, ServiceReads
    <3>4. CASE Cut
      BY <2>2, <3>4 DEF Cut, Refuse, Idle
    <3> QED BY <2>2, <3>1, <3>3, <3>4 DEF RebuildOwed
  <2>3. CASE files'.config # files.config /\ cmd.pc # "write_config"
    <3>1. Rebuilding
      BY <2>3 DEF RebuildOwed
    <3>2. \/ WriteConfig \/ SettleConfig \/ ConfigSettled \/ cmd.pc = "wipe"
      BY <2>0, <2>3 DEF Next, Up, Down, UpStep, WriteMarker, SaveEnv, CreateForgejo,
         CreateAdmin, FindAdmin, RecordForgejo, FindOrCreateOwner, MintTokens,
         KeepOrDrawSecret, CheckIdentity, ConfigWritten, ComposeMcp, RecordMcp,
         StartContainer, SeeReady, GiveUpWaiting, Publish, Finish, DownStep, StopServices,
         RemovePiece, WipeDone, Cut, Service, ServiceChecks, ServiceEmbeds, ServiceRestarts,
         ServiceReads, run, Typed, Directories
    <3>3. CASE WriteConfig
      <4>1. files.config # Torn
        BY <3>1, TornAssumption DEF Rebuilding
      <4>2. cmd'.pc = "write_config" /\ cmd'.rebuild
        BY <2>0, <3>1, <3>3, <4>1 DEF WriteConfig, Typed, Commands
      <4> QED BY <4>2 DEF RebuildOwed
    <3>4. CASE SettleConfig
      <4>1. cmd.pc = "settle" /\ cmd.rebuild
        BY <2>3, <3>4 DEF SettleConfig
      <4> QED BY <4>1 DEF IndInv, OwedOK
    <3>5. CASE ConfigSettled
      BY <3>1, <3>5, TornAssumption DEF IndInv, FilesOK, ConfigSettled, Rebuilding
    <3> QED BY <3>2, <3>3, <3>4, <3>5
  <2> QED BY <2>1, <2>2, <2>3
<1>2. Spec => [][Dropped => Allowed]_vars
  <2> HIDE DEF Dropped, Allowed
  <2> QED BY <1>1, Invariant, PTL DEF Spec
<1> QED BY <1>2 DEF OwedUntilDone
=============================================================================
