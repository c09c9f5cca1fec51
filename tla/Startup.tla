------------------------------- MODULE Startup -------------------------------
(***************************************************************************)
(* The life of the process: main (cmd/kflashback/main.go), the settings it *)
(* resolves (internal/config/config.go), the store it opens (internal/     *)
(* storage/factory.go), and the API server and controller manager it runs  *)
(* side by side until a signal comes.                                      *)
(*                                                                         *)
(*   config -> storage secret -> ai secret -> env -> open -> schema        *)
(*     -> manager -> provider -> api -> run -> stop -> close -> exited     *)
(*                                                                         *)
(* one step for each call that leaves the process.  A setting is           *)
(* represented by the place its value was taken from.                      *)
(***************************************************************************)
EXTENDS Naturals

Source == {"", "flag", "cr", "secret", "env"}   \* "" is the empty string

Registered == {"sqlite", "postgres"}   \* by the init functions of the backends
Backends == Registered \cup {"other"}

\* config.Resolved; the two addresses that behave like apiAddress are left out.
Resolved == [backend : Backends, dsn : Source \ {""}, address : {"flag", "cr"},
             leader : BOOLEAN, aiEnabled : BOOLEAN, endpoint : Source,
             model : Source, apiKey : Source]

\* KFlashbackConfigSpec as the API server returns it: which fields are set.
ConfigSpec == [backend : Backends \cup {""}, dsn : BOOLEAN, storageSecret : BOOLEAN,
               address : BOOLEAN, leader : BOOLEAN, aiEnabled : BOOLEAN,
               endpoint : BOOLEAN, model : BOOLEAN, aiSecret : BOOLEAN]

NoSpec == [backend |-> "", dsn |-> FALSE, storageSecret |-> FALSE, address |-> FALSE,
           leader |-> FALSE, aiEnabled |-> FALSE, endpoint |-> FALSE, model |-> FALSE,
           aiSecret |-> FALSE]

Steps == {"config", "storageSecret", "aiSecret", "env", "open", "schema", "manager",
          "provider", "api", "run", "stop", "close", "exited"}

CONSTANTS
    FlagSettings,   \* what the command line may say: a set of Resolved
    ConfigSpecs     \* the configuration objects that may be found

ASSUME SettingsAssumption ==
    /\ FlagSettings \subseteq Resolved
    /\ ConfigSpecs \subseteq ConfigSpec

VARIABLES
    flags,       \* the command line
    env,         \* which of the two environment variables are set
    pc,          \* where main is
    spec,        \* LoadFromCR: the object it read
    base,        \* LoadFromCR: its copy of the settings
    cfg,         \* main: the settings
    found,       \* auxiliary: what reading the object and its Secrets brought
    store,       \* the store
    ai,          \* Server.ai # nil
    api,         \* the goroutine of apiServer.Start
    manager,     \* the controller manager
    signalled    \* the context of NotifyContext is done

vars == <<flags, env, pc, spec, base, cfg, found, store, ai, api, manager, signalled>>
given == <<flags, env>>
settings == <<spec, base, cfg, found>>
services == <<store, ai, api, manager>>

TypeOK ==
    /\ flags \in FlagSettings
    /\ env \in [dsn : BOOLEAN, apiKey : BOOLEAN]
    /\ pc \in Steps
    /\ spec \in ConfigSpecs \cup {NoSpec}
    /\ base \in Resolved
    /\ cfg \in Resolved
    /\ found \in [config : {"unread", "none", "failed", "read"},
                  dsn : BOOLEAN, apiKey : BOOLEAN]
    /\ store \in {"none", "open", "ready", "closed"}
    /\ ai \in BOOLEAN
    /\ api \in {"off", "listening", "failed", "down"}
    /\ manager \in {"off", "standby", "running", "stopped"}
    /\ signalled \in BOOLEAN

Init ==
    /\ flags \in FlagSettings
    /\ env \in [dsn : BOOLEAN, apiKey : BOOLEAN]
    /\ pc = "config"
    /\ spec = NoSpec
    /\ base = flags
    /\ cfg = flags
    /\ found = [config |-> "unread", dsn |-> FALSE, apiKey |-> FALSE]
    /\ store = "none"
    /\ ai = FALSE
    /\ api = "off"
    /\ manager = "off"
    /\ signalled = FALSE

From(step, next) == pc = step /\ pc' = next

-----------------------------------------------------------------------------
(* config.LoadFromCR: base is a copy, handed back only if every read succeeds *)

Or(set, source, otherwise) == IF set THEN source ELSE otherwise

\* Mutant: a field that is not set overwrites the flag.
MergeStorageBlindly(r, s) ==
    [r EXCEPT !.backend = s.backend, !.dsn = IF s.dsn THEN "cr" ELSE ""]

\* Non-empty fields win.
MergeStorage(r, s) ==
    [r EXCEPT !.backend = Or(s.backend # "", s.backend, @), !.dsn = Or(s.dsn, "cr", @)]

MergeServer(r, s) ==
    [r EXCEPT !.address = Or(s.address, "cr", @), !.leader = @ \/ s.leader]

MergeAI(r, s) ==
    IF ~s.aiEnabled THEN r
    ELSE [r EXCEPT !.aiEnabled = TRUE, !.endpoint = Or(s.endpoint, "cr", @),
                   !.model = Or(s.model, "cr", @)]

\* Mutant: main takes the settings although an error came with them.
KeepPartial ==
    /\ cfg' = base
    /\ found' = [found EXCEPT !.config = "failed"]
    /\ UNCHANGED <<spec, base>>

\* main logs the error and goes on with the flags.
Discard ==
    /\ found' = [found EXCEPT !.config = "failed"]
    /\ UNCHANGED <<spec, base, cfg>>

\* No --config-name, no client, an error, no such object, or the object.
ReadConfig ==
    \/ /\ From("config", "env")
       /\ \/ found' = [found EXCEPT !.config = "none"] /\ UNCHANGED <<spec, base, cfg>>
          \/ Discard
       /\ UNCHANGED <<given, services, signalled>>
    \/ /\ From("config", "storageSecret")
       /\ \E s \in ConfigSpecs :
            /\ spec' = s
            /\ base' = MergeStorage(cfg, s)
       /\ UNCHANGED <<given, cfg, found, services, signalled>>

EnvDSN(r) == [r EXCEPT !.dsn = Or(env.dsn, "env", @)]
EnvKey(r) == [r EXCEPT !.apiKey = Or(env.apiKey, "env", @)]

\* resolveSecretDSN without an error: whether the Secret's value is non-empty.
SecretValues(asked) == IF asked THEN BOOLEAN ELSE {FALSE}

\* resolveSecretDSN of spec.storage: an error, a missing key, an empty value or
\* a DSN; then the environment, the server and the AI sections.
ReadStorageSecret ==
    \/ /\ spec.storageSecret
       /\ From("storageSecret", "env")
       /\ Discard
       /\ UNCHANGED <<given, services, signalled>>
    \/ /\ From("storageSecret", "aiSecret")
       /\ \E value \in SecretValues(spec.storageSecret) :
            /\ base' = LET r == [base EXCEPT !.dsn = Or(value, "secret", @)]
                       IN MergeAI(MergeServer(EnvDSN(r), spec), spec)
            /\ found' = [found EXCEPT !.dsn = value]
       /\ UNCHANGED <<given, spec, cfg, services, signalled>>

\* resolveSecretDSN of spec.ai; on success main takes the copy.
ReadAISecret ==
    LET asked == spec.aiEnabled /\ spec.aiSecret IN
    /\ From("aiSecret", "env")
    /\ \/ asked /\ Discard
       \/ \E value \in SecretValues(asked) :
            /\ cfg' = EnvKey([base EXCEPT !.apiKey = Or(value, "secret", @)])
            /\ found' = [found EXCEPT !.config = "read", !.apiKey = value]
            /\ UNCHANGED <<spec, base>>
    /\ UNCHANGED <<given, services, signalled>>

\* Mutant: the environment is read with the object only.
NoOverrides ==
    /\ From("env", "open")
    /\ UNCHANGED <<given, settings, services, signalled>>

ResolveEnvOverrides ==
    /\ From("env", "open")
    /\ cfg' = EnvDSN(cfg)
    /\ UNCHANGED <<given, spec, base, found, services, signalled>>

-----------------------------------------------------------------------------
(* main: storage, manager, API server *)

\* os.Exit: no deferred call runs.
Exit(step) == From(step, "exited") /\ UNCHANGED <<given, settings, services, signalled>>

\* NewStore: an unknown backend; postgres is pinged, sqlite opens nothing yet.
NewStore ==
    \/ /\ From("open", "schema")
       /\ cfg.backend \in Registered
       /\ store' = "open"
       /\ UNCHANGED <<given, settings, ai, api, manager, signalled>>
    \/ cfg.backend # "sqlite" /\ Exit("open")

\* Mutant: the error of Initialize is logged only.
InitializeAnyway ==
    /\ From("schema", "manager")
    /\ store' \in {"open", "ready"}
    /\ UNCHANGED <<given, settings, ai, api, manager, signalled>>

\* Store.Initialize creates the tables.
Initialize ==
    \/ /\ From("schema", "manager")
       /\ store' = "ready"
       /\ UNCHANGED <<given, settings, ai, api, manager, signalled>>
    \/ Exit("schema")

\* The manager, its controller and its health checks, or an exit.
NewManager ==
    \/ From("manager", "provider") /\ UNCHANGED <<given, settings, services, signalled>>
    \/ Exit("manager")

\* NewProvider without an error.
NewProvider(c) == c.endpoint # "" /\ c.model # ""

\* A provider that cannot be made leaves the AI features off.  NotifyContext
\* comes right after it.
ConfigureAI ==
    /\ From("provider", "api")
    /\ ai' = (cfg.aiEnabled /\ cfg.endpoint # "" /\ NewProvider(cfg))
    /\ UNCHANGED <<given, settings, store, api, manager, signalled>>

\* Mutant: the goroutine is started before the provider is set.
StartAPIFirst ==
    /\ \/ pc = "provider" /\ api = "off" /\ api' = "listening" /\ UNCHANGED pc
       \/ From("api", "run") /\ UNCHANGED api
    /\ UNCHANGED <<given, settings, store, ai, manager, signalled>>

\* The goroutine of apiServer.Start.
StartAPI ==
    /\ From("api", "run")
    /\ api' = "listening"
    /\ UNCHANGED <<given, settings, store, ai, manager, signalled>>

\* ListenAndServe returns an error: it is logged, and nothing else stops.
APIFails ==
    /\ api = "listening"
    /\ pc # "exited"
    /\ api' = "failed"
    /\ UNCHANGED <<given, settings, pc, store, ai, manager, signalled>>

\* Shutdown once the context is done, after at most 10 seconds.
APIStops ==
    /\ api = "listening"
    /\ pc # "exited"
    /\ signalled
    /\ api' = "down"
    /\ UNCHANGED <<given, settings, pc, store, ai, manager, signalled>>

\* mgr.Start: with leader election it stands by until it is elected (external).
StartManager ==
    /\ pc = "run"
    /\ manager \in {"off", "standby"}
    /\ manager' = IF cfg.leader /\ manager = "off" THEN "standby" ELSE "running"
    /\ UNCHANGED <<given, settings, pc, store, ai, api, signalled>>

\* mgr.Start returns an error: a cache that does not sync, a lost lease, or a
\* runnable that outlives the grace period.
ManagerFails == pc = "run" /\ manager # "off" /\ Exit("run")

\* mgr.Start returns: its workers have ended.
ManagerStops ==
    /\ From("run", "stop")
    /\ signalled
    /\ manager # "off"
    /\ manager' = "stopped"
    /\ UNCHANGED <<given, settings, store, ai, api, signalled>>

\* watcher.StopAll, then main returns.
StopAll == From("stop", "close") /\ UNCHANGED <<given, settings, services, signalled>>

\* Mutant: main waits for the API server to have shut down.
CloseAfterAPI ==
    /\ From("close", "exited")
    /\ api = "down"
    /\ store' = "closed"
    /\ UNCHANGED <<given, settings, ai, api, manager, signalled>>

\* The deferred Close, whatever the API server's goroutine is doing.
Close ==
    /\ From("close", "exited")
    /\ store' = "closed"
    /\ UNCHANGED <<given, settings, ai, api, manager, signalled>>

\* SIGTERM or SIGINT; before NotifyContext it ends the process at once.
Signal ==
    IF pc \in {"api", "run", "stop", "close"}
    THEN /\ ~signalled
         /\ signalled' = TRUE
         /\ UNCHANGED <<given, pc, settings, services>>
    ELSE pc # "exited" /\ Exit(pc)

Main ==
    \/ ReadConfig \/ ReadStorageSecret \/ ReadAISecret \/ ResolveEnvOverrides
    \/ NewStore \/ Initialize \/ NewManager \/ ConfigureAI \/ StartAPI
    \/ StartManager \/ ManagerStops \/ StopAll \/ Close

Next == Main \/ APIFails \/ APIStops \/ ManagerFails \/ Signal

Spec == Init /\ [][Next]_vars

\* main runs on, and the calls it makes return: a read of the cluster or of the
\* store, and mgr.Start within its grace period once the context is done.
FairSpec == Spec /\ WF_vars(Main)

-----------------------------------------------------------------------------
(* Properties *)

\* The settings are resolved, and in use.
Settled == store # "none"

UsesConfig == found.config = "read"

\* config.go: "Credential resolution priority (highest to lowest)": environment,
\* Secret, object, flag, on every path, a failed read included.
DSNByPriority ==
    Settled =>
        cfg.dsn = CASE env.dsn -> "env"
                    [] ~env.dsn /\ UsesConfig /\ found.dsn -> "secret"
                    [] ~env.dsn /\ UsesConfig /\ ~found.dsn /\ spec.dsn -> "cr"
                    [] OTHER -> flags.dsn

\* The object counts as a whole or not at all: the process never runs on some
\* of its settings because a later Secret could not be read.
AllOrNothing ==
    Settled =>
        IF UsesConfig
        THEN /\ spec.backend # "" => cfg.backend = spec.backend
             /\ spec.address => cfg.address = "cr"
             /\ spec.leader => cfg.leader
             /\ spec.aiEnabled => cfg.aiEnabled /\ (spec.endpoint => cfg.endpoint = "cr")
        ELSE cfg = EnvDSN(flags)

\* Handlers read s.ai without a lock: it is never written once a request can
\* be served.
ProviderFixed == [][api = "listening" => UNCHANGED ai]_vars

\* Requests and watchers only ever meet a store whose tables exist.
StoreReadyWhenUsed ==
    api \in {"listening", "failed"} \/ manager = "running" =>
        store = "ready" \/ pc = "exited"

\* A signalled process ends, even if its API server never came up.
SignalEnds == signalled ~> pc = "exited"

\* README, "Credential priority": the AI key is KFLASHBACK_AI_API_KEY where that
\* is set, then the Secret's, then the flag's.
AIKeyByPriority ==
    Settled =>
        cfg.apiKey = CASE env.apiKey -> "env"
                       [] ~env.apiKey /\ UsesConfig /\ found.apiKey -> "secret"
                       [] OTHER -> flags.apiKey
=============================================================================
