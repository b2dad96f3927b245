---------------------------- MODULE PluginManager ----------------------------
(***************************************************************************)
(* SemipluginManagerModule: one framework module that owns the libraries,  *)
(* the instances and the lifecycle of a list of process plugins.  Its      *)
(* hooks are run by ModuleBase, which decides from their results what may  *)
(* come next; inside a hook each plugin is called in turn and may fail or  *)
(* throw.  A step is the call of one plugin; one thread runs everything.   *)
(***************************************************************************)
EXTENDS Naturals, Sequences, Functions

CONSTANTS
    Plugins,        \* names of plugin instances
    Configs         \* the "plugins" arrays a configuration may hold

ASSUME PluginManagerAssumption == Configs \subseteq Seq(Plugins)

VARIABLES
    config,             \* the configured names, in order
    module_state,       \* ModuleBase: state_
    call,               \* the lifecycle call in progress, or "none"
    hook,               \* what the module is doing with its plugins
    at,                 \* index of the plugin whose turn it is
    first_error,        \* an error is to be returned
    plugin_states_,     \* the state GetPluginState reports
    plugin_load_order_,
    loaded_plugins_,    \* plugins with an instance and an open library
    registry_,          \* plugins LookupPluginRaw finds
    running,            \* history: plugins that started and have not stopped since
    lingering,          \* history: of those, the ones whose Stop failed
    did,                \* history: the plugin function the last step called
    failed,             \* history: a plugin failed during the call
    returned            \* history: the last call's result

module  == <<config, module_state, call>>
tables  == <<plugin_load_order_, loaded_plugins_, registry_>>
results == <<failed, returned>>
vars    == <<module, hook, at, first_error, plugin_states_, tables, running, lingering, did, results>>

-----------------------------------------------------------------------------
PluginStates == {"kUnloaded", "kLoaded", "kInitialized", "kStarted", "kStopped", "kError"}

Current == plugin_load_order_[at]

Nothing == [function |-> "none", plugin |-> "none"]

Did(function, p) == did' = [function |-> function, plugin |-> p]

SetState(p, s) == plugin_states_' = [plugin_states_ EXCEPT ![p] = s]

Init ==
    /\ config \in Configs
    /\ module_state = "Created"
    /\ call = "none"
    /\ hook = "none"
    /\ at = 0
    /\ first_error = FALSE
    /\ plugin_states_ = [p \in Plugins |-> "kUnloaded"]
    /\ plugin_load_order_ = <<>>
    /\ loaded_plugins_ = {}
    /\ registry_ = {}
    /\ running = {}
    /\ lingering = {}
    /\ did = Nothing
    /\ failed = FALSE
    /\ returned = "none"

-----------------------------------------------------------------------------
(* ModuleBase: a call runs a hook, and its result decides on the state.    *)

Begin(name, firstHook, index) ==
    /\ call = "none"
    /\ call' = name
    /\ hook' = firstHook
    /\ at' = index
    /\ first_error' = FALSE
    /\ failed' = FALSE
    /\ returned' = "none"
    /\ did' = Nothing
    /\ UNCHANGED <<config, module_state, plugin_states_, tables, running, lingering>>

\* The call returns to the framework.
Returns(result, nextState) ==
    /\ call' = "none"
    /\ hook' = "none"
    /\ module_state' = nextState
    /\ returned' = result
    /\ did' = Nothing
    /\ UNCHANGED <<config, plugin_states_, running, lingering, failed>>

\* A list that names a plugin twice is refused before anything is loaded.
InitBegin ==
    /\ module_state \in {"Created", "Fini"}
    /\ Begin("Init", IF IsInjective(config) THEN "load" ELSE "refused", 1)

InitRefused ==
    /\ hook = "refused"
    /\ Returns("error", module_state)
    /\ UNCHANGED <<at, first_error, tables>>

StartBegin ==
    /\ module_state \in {"Inited", "Stopped"}
    /\ Begin("Start", "start", 1)

StopBegin ==
    /\ module_state = "Started"
    /\ Begin("Stop", "stop", Len(plugin_load_order_))

\* Mutant: a started module is not stopped first.
FiniBeginUnstopped ==
    /\ module_state # "Fini"
    /\ Begin("Fini", IF module_state = "Created" THEN "skip" ELSE "fini", Len(plugin_load_order_))

\* A started module is stopped first; one that was never initialised has no
\* hook to run.
FiniBegin ==
    /\ module_state # "Fini"
    /\ Begin("Fini",
             CASE module_state = "Started" -> "stop"
               [] module_state = "Created" -> "skip"
               [] OTHER -> "fini",
             Len(plugin_load_order_))

FiniSkipped ==
    /\ hook = "skip"
    /\ Returns("ok", "Fini")
    /\ UNCHANGED <<at, first_error, tables>>

-----------------------------------------------------------------------------
(* OnInit: load and initialise one plugin after the other.                 *)

Loading == hook = "load" /\ at \in DOMAIN config

\* LoadAndInitPlugin.
LoadPlugin ==
    /\ Loading
    /\ LET p == config[at] IN
       /\ SetState(p, "kInitialized")
       /\ loaded_plugins_' = loaded_plugins_ \cup {p}
       /\ registry_' = registry_ \cup {p}
       /\ plugin_load_order_' = Append(plugin_load_order_, p)
       /\ Did("Init", p)
    /\ at' = at + 1
    /\ UNCHANGED <<module, hook, first_error, running, lingering, results>>

\* The library or a function is missing, create or Init fails or throws: what
\* there is of the plugin is unloaded again, and OnFini takes down the others.
LoadFailed ==
    /\ Loading
    /\ SetState(config[at], "kError")
    /\ did' = Nothing
    /\ failed' = TRUE
    /\ first_error' = TRUE
    /\ hook' = "fini"
    /\ at' = Len(plugin_load_order_)
    /\ UNCHANGED <<module, tables, running, lingering, returned>>

LoadDone ==
    /\ hook = "load"
    /\ at \notin DOMAIN config
    /\ Returns("ok", "Inited")
    /\ UNCHANGED <<at, first_error, tables>>

-----------------------------------------------------------------------------
(* OnStart: in loading order, and back again at the first failure.         *)

Starting == hook = "start" /\ at \in DOMAIN plugin_load_order_

StartPlugin ==
    /\ Starting
    /\ SetState(Current, "kStarted")
    /\ running' = running \cup {Current}
    /\ Did("Start", Current)
    /\ at' = at + 1
    /\ UNCHANGED <<module, hook, first_error, tables, lingering, results>>

\* Mutant: the rollback begins one plugin too early.
StartFailedShort ==
    /\ Starting
    /\ SetState(Current, "kError")
    /\ Did("Start", Current)
    /\ failed' = TRUE
    /\ hook' = "rollback"
    /\ at' = IF at > 1 THEN at - 2 ELSE 0
    /\ UNCHANGED <<module, first_error, tables, running, lingering, returned>>

StartFailed ==
    /\ Starting
    /\ SetState(Current, "kError")
    /\ Did("Start", Current)
    /\ failed' = TRUE
    /\ hook' = "rollback"
    /\ at' = at - 1
    /\ UNCHANGED <<module, first_error, tables, running, lingering, returned>>

StartDone ==
    /\ hook = "start"
    /\ at \notin DOMAIN plugin_load_order_
    /\ Returns("ok", "Started")
    /\ UNCHANGED <<at, first_error, tables>>

-----------------------------------------------------------------------------
(* StopPluginsInReverse, for OnStop and for the rollback of OnStart.       *)

Stopping == hook \in {"stop", "rollback"} /\ at > 0

\* Only a plugin in kStarted is stopped.
SkipPlugin ==
    /\ Stopping
    /\ plugin_states_[Current] # "kStarted"
    /\ at' = at - 1
    /\ did' = Nothing
    /\ UNCHANGED <<module, hook, first_error, plugin_states_, tables, running, lingering, results>>

StopPlugin ==
    /\ Stopping
    /\ plugin_states_[Current] = "kStarted"
    /\ SetState(Current, "kStopped")
    /\ running' = running \ {Current}
    /\ lingering' = lingering \ {Current}
    /\ Did("Stop", Current)
    /\ at' = at - 1
    /\ UNCHANGED <<module, hook, first_error, tables, results>>

StopFailed ==
    /\ Stopping
    /\ plugin_states_[Current] = "kStarted"
    /\ SetState(Current, "kError")
    /\ Did("Stop", Current)
    /\ failed' = TRUE
    /\ first_error' = TRUE
    /\ at' = at - 1
    /\ lingering' = lingering \cup {Current}
    /\ UNCHANGED <<module, hook, tables, running, returned>>

\* The rollback's own result is dropped: Start returns its own error.
RollbackDone ==
    /\ hook = "rollback"
    /\ at = 0
    /\ Returns("error", module_state)
    /\ UNCHANGED <<at, first_error, tables>>

\* A module whose OnStop failed stays Started.
StopDone ==
    /\ hook = "stop"
    /\ at = 0
    /\ call = "Stop"
    /\ IF first_error THEN Returns("error", module_state) ELSE Returns("ok", "Stopped")
    /\ UNCHANGED <<at, first_error, tables>>

\* ModuleBase::Fini goes on to OnFini whatever OnStop returned.
StopDoneInFini ==
    /\ hook = "stop"
    /\ at = 0
    /\ call = "Fini"
    /\ hook' = "fini"
    /\ at' = Len(plugin_load_order_)
    /\ did' = Nothing
    /\ UNCHANGED <<module, first_error, plugin_states_, tables, running, lingering, results>>

-----------------------------------------------------------------------------
(* OnFini: in reverse, then everything is forgotten.                       *)

Finishing == hook = "fini" /\ at > 0

\* The instance is destroyed and the library closed, whatever is thrown.
Unload(p) == loaded_plugins_' = loaded_plugins_ \ {p}

\* What Fini returns is ignored, what it throws is reported.
FiniPlugin ==
    /\ Finishing
    /\ Did("Fini", Current)
    /\ SetState(Current, "kUnloaded")
    /\ Unload(Current)
    /\ running' = running \ {Current}
    /\ lingering' = lingering \ {Current}
    /\ \/ UNCHANGED <<failed, first_error>>
       \/ failed' = TRUE /\ first_error' = TRUE
    /\ at' = at - 1
    /\ UNCHANGED <<module, hook, plugin_load_order_, registry_, returned>>

\* Mutant: the registry keeps what has been destroyed.
FiniDoneStaleRegistry ==
    /\ hook = "fini"
    /\ at = 0
    /\ plugin_load_order_' = <<>>
    /\ loaded_plugins_' = {}
    /\ Returns(IF first_error THEN "error" ELSE "ok", IF call = "Init" THEN module_state ELSE "Fini")
    /\ UNCHANGED <<at, first_error, registry_>>

\* After a failed OnInit, where it cleans up, the state stays what it was.
FiniDone ==
    /\ hook = "fini"
    /\ at = 0
    /\ plugin_load_order_' = <<>>
    /\ loaded_plugins_' = {}
    /\ registry_' = {}
    /\ Returns(IF first_error THEN "error" ELSE "ok", IF call = "Init" THEN module_state ELSE "Fini")
    /\ UNCHANGED <<at, first_error>>

-----------------------------------------------------------------------------
Next ==
    \/ InitBegin \/ InitRefused \/ LoadPlugin \/ LoadFailed \/ LoadDone
    \/ StartBegin \/ StartPlugin \/ StartFailed \/ StartDone
    \/ StopBegin \/ SkipPlugin \/ StopPlugin \/ StopFailed \/ RollbackDone \/ StopDone \/ StopDoneInFini
    \/ FiniBegin \/ FiniSkipped \/ FiniPlugin \/ FiniDone

Spec == Init /\ [][Next]_vars

-----------------------------------------------------------------------------
(* Properties.                                                             *)

Idle == call = "none"

\* Every variable holds a value of its type, and the turn is somewhere in the
\* list that is being worked through.
TypeOK ==
    /\ config \in Configs
    /\ module_state \in {"Created", "Inited", "Started", "Stopped", "Fini"}
    /\ call \in {"none", "Init", "Start", "Stop", "Fini"}
    /\ hook \in {"none", "refused", "skip", "load", "start", "rollback", "stop", "fini"}
    /\ at \in Nat
    /\ hook \in {"rollback", "stop", "fini"} => at <= Len(plugin_load_order_)
    /\ first_error \in BOOLEAN /\ failed \in BOOLEAN
    /\ plugin_states_ \in [Plugins -> PluginStates]
    /\ plugin_load_order_ \in Seq(Plugins)
    /\ loaded_plugins_ \subseteq Plugins
    /\ registry_ \subseteq Plugins
    /\ running \subseteq Plugins
    /\ lingering \subseteq running
    /\ did.function \in {"none", "Init", "Start", "Stop", "Fini"}
    /\ returned \in {"none", "ok", "error"}

\* Between calls the tables agree, whatever has failed: GetPlugin finds exactly
\* the plugins whose instance exists, in a module that is not initialised there
\* is none, and in one that is there are all of them.
PluginsAreOwned ==
    Idle => /\ registry_ = loaded_plugins_
            /\ Range(plugin_load_order_) = loaded_plugins_
            /\ IsInjective(plugin_load_order_)
            /\ loaded_plugins_ = IF module_state \in {"Created", "Fini"} THEN {} ELSE Range(config)

\* Between calls all plugins run or none does, a failed start takes down those
\* it had started: unless one of them has not stopped when it was told to.
AllOrNothing ==
    Idle /\ lingering = {} => running = IF module_state = "Started" THEN loaded_plugins_ ELSE {}

\* A plugin's functions are called in turn: Start on one that is initialised and
\* does not run, Stop only on one that runs, Fini only on one that does not, and
\* later plugins are stopped before earlier ones; again unless one of them has
\* not stopped when it was told to.
PluginsInTurn ==
    [][lingering = {} =>
       LET p == did'.plugin IN
       /\ did'.function = "Start" => p \in loaded_plugins_ \ running
       /\ did'.function = "Stop" =>
              /\ p \in running
              /\ \A i, j \in DOMAIN plugin_load_order_ :
                     i > j /\ plugin_load_order_[j] = p => plugin_load_order_[i] \notin running
       /\ did'.function = "Fini" => p \in loaded_plugins_ \ running]_vars

\* A call during which a plugin failed does not return Ok.
FailureIsReported == Idle /\ failed => returned # "ok"

\* The module's tables and its answers agree with what the plugins did.
PluginsAgree == TypeOK /\ PluginsAreOwned /\ FailureIsReported
=============================================================================
