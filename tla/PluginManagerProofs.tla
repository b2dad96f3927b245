------------------------- MODULE PluginManagerProofs -------------------------
(***************************************************************************)
(* The plugin manager's tables, results and plugin calls agree for every   *)
(* list of plugins and every sequence of lifecycle calls and failures.     *)
(***************************************************************************)
EXTENDS PluginManager, TLAPS

-----------------------------------------------------------------------------
(* The inductive invariant.                                                *)

Down == module_state \in {"Created", "Fini"}

\* Which hook runs in which call, and what ModuleBase knew when it began.
Calls ==
    /\ call = "none" <=> hook = "none"
    /\ hook \in {"refused", "load"} => call = "Init" /\ Down
    /\ hook = "skip" => call = "Fini" /\ module_state = "Created"
    /\ hook \in {"start", "rollback"} => call = "Start" /\ module_state \in {"Inited", "Stopped"}
    /\ hook = "stop" => call \in {"Stop", "Fini"} /\ module_state = "Started"
    /\ hook = "fini" => call = IF Down THEN "Init" ELSE "Fini"

\* Where in the list the turn is.
Turns ==
    /\ hook = "load" => at \in 1 .. Len(config) + 1 /\ Len(plugin_load_order_) = at - 1
    /\ hook = "start" => at \in 1 .. Len(plugin_load_order_) + 1

Upto(n) == {plugin_load_order_[i] : i \in 1 .. n}

\* The loading order is the part of the configured list that was loaded: all of
\* it in a module that is initialised.  The other tables hold the same plugins,
\* while OnFini takes down one after the other those that it still has to reach.
Tables ==
    /\ Len(plugin_load_order_) <= Len(config)
    /\ \A i \in DOMAIN plugin_load_order_ : plugin_load_order_[i] = config[i]
    /\ IsInjective(plugin_load_order_)
    /\ hook = "load" => IsInjective(config)
    /\ hook \notin {"load", "fini"} => Len(plugin_load_order_) = IF Down THEN 0 ELSE Len(config)
    /\ registry_ = Range(plugin_load_order_)
    /\ loaded_plugins_ = IF hook = "fini" THEN Upto(at) ELSE registry_

\* A failure is on its way to the caller.
Reported ==
    /\ hook \in {"refused", "skip", "load", "start"} => ~ failed
    /\ hook \in {"stop", "fini"} /\ failed => first_error
    /\ FailureIsReported

\* The plugins that run if none has failed to stop.
Expected ==
    CASE hook = "start" -> Upto(at - 1)
      [] hook \in {"rollback", "stop"} -> Upto(at)
      [] hook = "none" /\ module_state = "Started" -> registry_
      [] OTHER -> {}

\* A plugin has failed to stop and was not started since.
Stuck == \E p \in lingering : plugin_states_[p] # "kStarted"

AllStarted == \A p \in Expected : plugin_states_[p] = "kStarted"

\* What runs is loaded, and is what the module believes to run, or lingers.
Runs ==
    /\ running \subseteq loaded_plugins_
    /\ \A p \in Plugins : plugin_states_[p] = "kStarted" => p \in running
    /\ \A p \in running \ lingering : plugin_states_[p] = "kStarted"
    /\ running \subseteq Expected \cup lingering
    /\ hook = "load" => running = {}
    /\ hook = "stop" /\ first_error => Stuck
    /\ (Stuck /\ hook \notin {"start", "rollback"}) \/ AllStarted

IInv == TypeOK /\ Calls /\ Turns /\ Tables /\ Reported /\ Runs

-----------------------------------------------------------------------------
(* The initial state.                                                      *)

LEMMA InitHolds == Init => IInv
<1> SUFFICES ASSUME Init PROVE IInv
  OBVIOUS
<1>1. config \in Seq(Plugins) /\ config \in Configs
  BY PluginManagerAssumption DEF Init
<1>2. TypeOK
  <2>1. plugin_states_ \in [Plugins -> PluginStates] /\ plugin_load_order_ \in Seq(Plugins)
    BY DEF Init, PluginStates
  <2>2. first_error \in BOOLEAN /\ failed \in BOOLEAN
    BY Zenon DEF Init
  <2>3. QED BY <1>1, <2>1, <2>2 DEF Init, TypeOK, Nothing
<1>3. Calls /\ Turns
  BY DEF Init, Calls, Turns, Down
<1>4. Tables
  BY <1>1 DEF Init, Tables, Range, IsInjective, Down
<1>5. Reported
  BY DEF Init, Reported, FailureIsReported
<1>6. Runs
  BY <1>1 DEF Init, Runs, Expected, Stuck, AllStarted, Upto
<1>7. QED BY <1>2, <1>3, <1>4, <1>5, <1>6 DEF IInv

-----------------------------------------------------------------------------
(* Facts about every state of the invariant.                               *)

LEMMA Sorts ==
    ASSUME IInv
    PROVE  /\ config \in Seq(Plugins) /\ plugin_load_order_ \in Seq(Plugins)
           /\ Len(config) \in Nat /\ Len(plugin_load_order_) \in Nat /\ at \in Nat
           /\ DOMAIN config = 1 .. Len(config)
           /\ DOMAIN plugin_load_order_ = 1 .. Len(plugin_load_order_)
           /\ \A i \in DOMAIN config : config[i] \in Plugins
           /\ \A i \in DOMAIN plugin_load_order_ : plugin_load_order_[i] \in Plugins
<1>1. config \in Seq(Plugins) /\ plugin_load_order_ \in Seq(Plugins) /\ at \in Nat
  BY PluginManagerAssumption DEF IInv, TypeOK
<1>2. QED BY <1>1

-----------------------------------------------------------------------------
(* The steps.                                                              *)

LEMMA TypesKept == IInv /\ [Next]_vars => TypeOK'
<1> SUFFICES ASSUME IInv, [Next]_vars PROVE TypeOK'
  OBVIOUS
<1> USE Sorts
<1> USE DEF IInv, TypeOK, module, tables, results, Begin, Returns, SetState, Did, Nothing, PluginStates,
            Current, Down, Calls, Turns
<1>1. CASE InitBegin
  BY <1>1 DEF InitBegin
<1>2. CASE StartBegin \/ StopBegin \/ FiniBegin \/ InitRefused \/ FiniSkipped
  <2>1. CASE StartBegin
    BY <2>1 DEF StartBegin
  <2>2. CASE StopBegin \/ FiniBegin
    <3>1. /\ UNCHANGED <<config, module_state, plugin_states_, tables, running, lingering>>
          /\ at' = Len(plugin_load_order_) /\ call' \in {"Stop", "Fini"} /\ hook' \in {"stop", "skip", "fini"}
          /\ ~ first_error' /\ ~ failed' /\ returned' = "none" /\ did' = Nothing
      BY ONLY <2>2 DEF StopBegin, FiniBegin, Begin
    <3>2. first_error' \in BOOLEAN /\ failed' \in BOOLEAN
      BY Zenon, <2>2 DEF StopBegin, FiniBegin, Begin
    <3>3. QED BY <3>1, <3>2
  <2>3. CASE InitRefused \/ FiniSkipped
    BY <2>3 DEF InitRefused, FiniSkipped
  <2>4. QED BY <1>2, <2>1, <2>2, <2>3
<1>3. CASE LoadPlugin
  BY <1>3 DEF LoadPlugin, Loading
<1>4. CASE LoadFailed
  BY <1>4 DEF LoadFailed, Loading
<1>5. CASE LoadDone \/ StartDone \/ RollbackDone \/ StopDone
  BY <1>5 DEF LoadDone, StartDone, RollbackDone, StopDone
<1>6. CASE StartPlugin
  BY <1>6 DEF StartPlugin, Starting
<1>7. CASE StartFailed
  BY <1>7 DEF StartFailed, Starting
<1>8. CASE SkipPlugin
  BY <1>8 DEF SkipPlugin, Stopping
<1>9. CASE StopPlugin
  BY <1>9 DEF StopPlugin, Stopping
<1>10. CASE StopFailed
  <2>1. Current \in running
    BY <1>10 DEF StopFailed, Stopping, Runs
  <2>2. QED BY <1>10, <2>1 DEF StopFailed, Stopping
<1>11. CASE StopDoneInFini
  BY <1>11 DEF StopDoneInFini
<1>12. CASE FiniPlugin
  <2>1. at \in DOMAIN plugin_load_order_ /\ Current \in Plugins
    BY <1>12 DEF FiniPlugin, Finishing
  <2>2. first_error' \in BOOLEAN /\ failed' \in BOOLEAN
    BY ONLY Zenon, IInv, <1>12 DEF FiniPlugin, IInv, TypeOK
  <2>3. QED BY <1>12, <2>1, <2>2 DEF FiniPlugin, Finishing, Unload
<1>13. CASE FiniDone
  BY <1>13 DEF FiniDone
<1>14. CASE UNCHANGED vars
  BY <1>14 DEF vars
<1>15. QED
  BY <1>1, <1>2, <1>3, <1>4, <1>5, <1>6, <1>7, <1>8, <1>9, <1>10, <1>11, <1>12, <1>13, <1>14 DEF Next

LEMMA CallsKept == IInv /\ [Next]_vars => (Calls /\ Turns)'
<1> SUFFICES ASSUME IInv, [Next]_vars PROVE Calls' /\ Turns'
  OBVIOUS
<1> USE Sorts
<1> USE DEF IInv, TypeOK, module, tables, results, Begin, Returns, Down, Calls, Turns, Tables
<1>1. CASE InitBegin \/ StartBegin \/ StopBegin \/ FiniBegin
  BY <1>1 DEF InitBegin, StartBegin, StopBegin, FiniBegin
<1>2. CASE InitRefused \/ FiniSkipped \/ LoadDone \/ StartDone \/ RollbackDone \/ StopDone \/ FiniDone
  BY <1>2 DEF InitRefused, FiniSkipped, LoadDone, StartDone, RollbackDone, StopDone, FiniDone
<1>3. CASE LoadPlugin
  BY <1>3 DEF LoadPlugin, Loading
<1>4. CASE LoadFailed
  BY <1>4 DEF LoadFailed, Loading
<1>5. CASE StartPlugin \/ StartFailed
  BY <1>5 DEF StartPlugin, StartFailed, Starting
<1>6. CASE SkipPlugin \/ StopPlugin \/ StopFailed \/ StopDoneInFini
  BY <1>6 DEF SkipPlugin, StopPlugin, StopFailed, StopDoneInFini, Stopping
<1>7. CASE FiniPlugin
  BY <1>7 DEF FiniPlugin, Finishing
<1>8. CASE UNCHANGED vars
  BY <1>8 DEF vars
<1>9. QED BY <1>1, <1>2, <1>3, <1>4, <1>5, <1>6, <1>7, <1>8 DEF Next

LEMMA TablesKept == IInv /\ [Next]_vars => Tables'
<1> SUFFICES ASSUME IInv, [Next]_vars PROVE Tables'
  OBVIOUS
<1> USE Sorts
<1> USE DEF IInv, TypeOK, module, tables, results, Begin, Returns, Down, Calls, Turns, Tables, Upto, Range
<1>1. CASE InitBegin \/ StartBegin \/ StopBegin \/ FiniBegin
  BY <1>1 DEF InitBegin, StartBegin, StopBegin, FiniBegin
<1>2. CASE InitRefused \/ FiniSkipped \/ LoadDone \/ StartDone \/ RollbackDone \/ StopDone
  <2>1. UNCHANGED <<config, plugin_load_order_, registry_, loaded_plugins_>> /\ hook' = "none" /\ hook # "fini"
    BY <1>2 DEF InitRefused, FiniSkipped, LoadDone, StartDone, RollbackDone, StopDone
  <2>2. Len(plugin_load_order_) = IF Down' THEN 0 ELSE Len(config)
    BY <1>2 DEF InitRefused, FiniSkipped, LoadDone, StartDone, RollbackDone, StopDone
  <2>3. QED BY <2>1, <2>2 DEF IsInjective
<1>3. CASE LoadPlugin
  <2>1. /\ plugin_load_order_' = Append(plugin_load_order_, config[at]) /\ at \in DOMAIN config
        /\ Len(plugin_load_order_') = at /\ UNCHANGED <<config, hook, module_state>> /\ hook = "load"
        /\ registry_' = registry_ \cup {config[at]} /\ loaded_plugins_' = loaded_plugins_ \cup {config[at]}
    BY <1>3 DEF LoadPlugin, Loading
  <2>2. \A i \in DOMAIN plugin_load_order_' : plugin_load_order_'[i] = config[i]
    BY <2>1
  <2>3. IsInjective(plugin_load_order_')
    BY <2>1, <2>2 DEF IsInjective
  <2>4. Range(plugin_load_order_') = Range(plugin_load_order_) \cup {config[at]}
    BY <2>1
  <2>5. QED BY <2>1, <2>2, <2>3, <2>4
<1>4. CASE LoadFailed
  BY <1>4 DEF LoadFailed, Loading
<1>5. CASE StartPlugin \/ StartFailed \/ SkipPlugin \/ StopPlugin \/ StopFailed
  BY <1>5 DEF StartPlugin, StartFailed, Starting, SkipPlugin, StopPlugin, StopFailed, Stopping
<1>6. CASE StopDoneInFini
  BY <1>6 DEF StopDoneInFini
<1>7. CASE FiniPlugin
  <2>1. /\ at \in DOMAIN plugin_load_order_ /\ at' = at - 1 /\ hook = "fini"
        /\ loaded_plugins_' = loaded_plugins_ \ {plugin_load_order_[at]}
        /\ UNCHANGED <<hook, config, module_state, plugin_load_order_, registry_>>
    BY <1>7 DEF FiniPlugin, Finishing, Unload, Current
  <2>2. Upto(at - 1) = Upto(at) \ {plugin_load_order_[at]}
    BY <2>1 DEF IsInjective
  <2>3. QED BY <2>1, <2>2
<1>8. CASE FiniDone
  BY <1>8 DEF FiniDone, IsInjective
<1>9. CASE UNCHANGED vars
  BY <1>9 DEF vars
<1>10. QED BY <1>1, <1>2, <1>3, <1>4, <1>5, <1>6, <1>7, <1>8, <1>9 DEF Next

LEMMA ReportedKept == IInv /\ [Next]_vars => Reported'
<1> SUFFICES ASSUME IInv, [Next]_vars PROVE Reported'
  OBVIOUS
<1> USE DEF IInv, TypeOK, module, tables, results, Begin, Returns, Calls, Reported, FailureIsReported, Idle
<1>1. CASE InitBegin \/ StartBegin \/ StopBegin \/ FiniBegin
  BY <1>1 DEF InitBegin, StartBegin, StopBegin, FiniBegin
<1>2. CASE InitRefused \/ FiniSkipped \/ LoadDone \/ StartDone \/ RollbackDone \/ StopDone \/ FiniDone
  BY <1>2 DEF InitRefused, FiniSkipped, LoadDone, StartDone, RollbackDone, StopDone, FiniDone
<1>3. CASE LoadPlugin \/ LoadFailed \/ StartPlugin \/ StartFailed
  BY <1>3 DEF LoadPlugin, LoadFailed, StartPlugin, StartFailed, Loading, Starting
<1>4. CASE SkipPlugin \/ StopPlugin \/ StopFailed \/ StopDoneInFini \/ FiniPlugin
  BY <1>4 DEF SkipPlugin, StopPlugin, StopFailed, StopDoneInFini, FiniPlugin, Stopping, Finishing
<1>5. CASE UNCHANGED vars
  BY <1>5 DEF vars
<1>6. QED BY <1>1, <1>2, <1>3, <1>4, <1>5 DEF Next

\* The next plugin in turn is the one that is added to, or taken from, those
\* before it.
LEMMA OneMore ==
    ASSUME IInv, NEW n \in DOMAIN plugin_load_order_
    PROVE  /\ plugin_load_order_[n] \notin Upto(n - 1)
           /\ Upto(n) = Upto(n - 1) \cup {plugin_load_order_[n]}
BY Sorts DEF IInv, Tables, IsInjective, Upto

LEMMA AllOfThem == IInv => Upto(Len(plugin_load_order_)) = registry_ /\ Upto(0) = {}
BY Sorts DEF IInv, Tables, Upto, Range

LEMMA RunsKept == IInv /\ [Next]_vars => Runs'
<1> SUFFICES ASSUME IInv, [Next]_vars PROVE Runs'
  OBVIOUS
<1> USE Sorts, AllOfThem
<1> USE DEF IInv, TypeOK, Calls, module, tables, results, Begin, Returns
<1>1. CASE InitBegin \/ StartBegin \/ StopBegin \/ FiniBegin
  <2>1. UNCHANGED <<module_state, plugin_states_, plugin_load_order_, loaded_plugins_, registry_, running, lingering>>
    BY <1>1 DEF InitBegin, StartBegin, StopBegin, FiniBegin
  <2>2. ~ first_error'
    BY <1>1 DEF InitBegin, StartBegin, StopBegin, FiniBegin
  <2>3. Expected' = Expected
    <3>1. CASE InitBegin
      BY <3>1 DEF InitBegin, Expected, Upto
    <3>2. CASE StartBegin
      BY <3>2 DEF StartBegin, Expected, Upto
    <3>3. CASE StopBegin \/ FiniBegin
      BY <3>3 DEF StopBegin, FiniBegin, Expected, Upto
    <3>4. QED BY <1>1, <3>1, <3>2, <3>3
  <2>4. hook' # "rollback" /\ (hook' = "start" => Expected' = {})
    BY <1>1 DEF InitBegin, StartBegin, StopBegin, FiniBegin, Expected, Upto
  <2>5. hook' = "load" => running = {}
    BY <1>1 DEF InitBegin, StartBegin, StopBegin, FiniBegin, Tables, Runs, Down
  <2>6. QED BY <2>1, <2>2, <2>3, <2>4, <2>5 DEF Runs, Stuck, AllStarted
<1>2. CASE InitRefused \/ FiniSkipped \/ LoadDone
  <2>1. UNCHANGED <<plugin_states_, loaded_plugins_, running, lingering>> /\ hook' = "none"
    BY <1>2 DEF InitRefused, FiniSkipped, LoadDone
  <2>2. Expected = {} /\ Expected' = {}
    BY <1>2 DEF InitRefused, FiniSkipped, LoadDone, Expected, Down
  <2>3. QED BY <2>1, <2>2 DEF Runs, Stuck, AllStarted
<1>3. CASE LoadPlugin \/ LoadFailed
  <2>1. /\ running = {} /\ lingering = {} /\ running' = {} /\ lingering' = {}
        /\ hook' \in {"load", "fini"} /\ config[at] \in Plugins
        /\ \E s \in {"kInitialized", "kError"} : plugin_states_' = [plugin_states_ EXCEPT ![config[at]] = s]
    BY <1>3 DEF LoadPlugin, LoadFailed, Loading, SetState, Runs
  <2>2. Expected' = {}
    BY <2>1 DEF Expected
  <2>3. \A q \in Plugins : plugin_states_[q] # "kStarted"
    BY <2>1 DEF Runs
  <2>4. \A q \in Plugins : plugin_states_'[q] # "kStarted"
    BY <2>1, <2>3
  <2>5. QED BY ONLY <2>1, <2>2, <2>4 DEF Runs, AllStarted
<1>4. CASE StartPlugin
  <2> DEFINE p == plugin_load_order_[at]
  <2>1. /\ at \in DOMAIN plugin_load_order_ /\ at' = at + 1 /\ hook = "start" /\ p \in Plugins
        /\ plugin_states_' = [plugin_states_ EXCEPT ![p] = "kStarted"] /\ running' = running \cup {p}
        /\ UNCHANGED <<hook, plugin_load_order_, loaded_plugins_, lingering>>
    BY <1>4 DEF StartPlugin, Starting, Current, SetState
  <2>2. Expected = Upto(at - 1) /\ Expected' = Upto(at) /\ p \in loaded_plugins_
    BY <2>1 DEF Expected, Upto, Tables, Range
  <2>3. Expected' = Expected \cup {p} /\ p \notin Expected
    BY <2>1, <2>2, OneMore
  <2>4. AllStarted'
    BY <2>1, <2>3 DEF Runs, AllStarted
  <2>5. running' \subseteq loaded_plugins_' /\ running' \subseteq Expected' \cup lingering'
    BY <2>1, <2>2, <2>3 DEF Runs
  <2>6. /\ \A q \in Plugins : plugin_states_'[q] = "kStarted" => q \in running'
        /\ \A q \in running' \ lingering' : plugin_states_'[q] = "kStarted"
    BY <2>1 DEF Runs
  <2>7. QED BY ONLY <2>1, <2>4, <2>5, <2>6 DEF Runs
<1>5. CASE StartFailed
  <2> DEFINE p == plugin_load_order_[at]
  <2>1. /\ at \in DOMAIN plugin_load_order_ /\ at' = at - 1 /\ hook = "start" /\ hook' = "rollback" /\ p \in Plugins
        /\ plugin_states_' = [plugin_states_ EXCEPT ![p] = "kError"]
        /\ UNCHANGED <<plugin_load_order_, loaded_plugins_, running, lingering>>
    BY <1>5 DEF StartFailed, Starting, Current, SetState
  <2>2. Expected = Upto(at - 1) /\ Expected' = Upto(at - 1)
    BY <2>1 DEF Expected, Upto
  <2>3. p \notin Expected
    BY <2>1, <2>2, OneMore
  <2>4. QED BY <2>1, <2>2, <2>3 DEF Runs, AllStarted
<1>6. CASE StartDone
  <2>1. /\ at = Len(plugin_load_order_) + 1 /\ hook = "start" /\ hook' = "none" /\ module_state' = "Started"
        /\ UNCHANGED <<plugin_states_, loaded_plugins_, registry_, running, lingering>>
    BY <1>6 DEF StartDone, Turns
  <2>2. Expected = registry_ /\ Expected' = registry_
    BY <2>1 DEF Expected
  <2>3. QED BY <2>1, <2>2 DEF Runs, Stuck, AllStarted
<1>7. CASE RollbackDone \/ StopDone
  <2>1. /\ at = 0 /\ hook \in {"rollback", "stop"} /\ hook' = "none"
        /\ UNCHANGED <<plugin_states_, loaded_plugins_, registry_, running, lingering>>
    BY <1>7 DEF RollbackDone, StopDone
  <2>2. Expected = {}
    BY <2>1 DEF Expected
  <2>3. Stuck \/ Expected' = {}
    BY <1>7, <2>1 DEF RollbackDone, StopDone, Expected, Runs
  <2>4. QED BY <2>1, <2>2, <2>3 DEF Runs, Stuck, AllStarted
<1>8. CASE SkipPlugin \/ StopPlugin \/ StopFailed
  <2> DEFINE p == plugin_load_order_[at]
  <2>1. /\ at \in DOMAIN plugin_load_order_ /\ at' = at - 1 /\ hook \in {"rollback", "stop"} /\ p \in Plugins
        /\ UNCHANGED <<hook, plugin_load_order_, loaded_plugins_>>
    BY <1>8 DEF SkipPlugin, StopPlugin, StopFailed, Stopping, Current
  <2>2. Expected = Upto(at) /\ Expected' = Upto(at - 1)
    BY <2>1 DEF Expected, Upto
  <2>3. Expected = Expected' \cup {p} /\ p \notin Expected'
    BY <2>1, <2>2, OneMore
  <2>4. CASE SkipPlugin
    <3>1. plugin_states_[p] # "kStarted" /\ UNCHANGED <<first_error, plugin_states_, running, lingering>>
      BY <2>4 DEF SkipPlugin, Current
    <3>2. QED BY <2>1, <2>3, <3>1 DEF Runs, Stuck, AllStarted
  <2>5. CASE StopPlugin
    <3>1. /\ plugin_states_[p] = "kStarted" /\ plugin_states_' = [plugin_states_ EXCEPT ![p] = "kStopped"]
          /\ running' = running \ {p} /\ lingering' = lingering \ {p} /\ UNCHANGED first_error
      BY <2>5 DEF StopPlugin, Current, SetState
    <3>2. \A q \in lingering : plugin_states_[q] # "kStarted" => q \in lingering' /\ plugin_states_'[q] # "kStarted"
      BY <2>1, <3>1
    <3>3. Stuck => Stuck'
      BY <3>2 DEF Stuck
    <3>4. running' \subseteq loaded_plugins_' /\ running' \subseteq Expected' \cup lingering'
      BY <2>1, <2>3, <3>1 DEF Runs
    <3>5. /\ \A q \in Plugins : plugin_states_'[q] = "kStarted" => q \in running'
          /\ \A q \in running' \ lingering' : plugin_states_'[q] = "kStarted"
      BY <2>1, <3>1 DEF Runs
    <3>6. AllStarted => AllStarted'
      BY <2>1, <2>3, <3>1 DEF AllStarted
    <3>7. QED BY <2>1, <3>1, <3>3, <3>4, <3>5, <3>6 DEF Runs
  <2>6. CASE StopFailed
    <3>1. /\ plugin_states_' = [plugin_states_ EXCEPT ![p] = "kError"] /\ p \in lingering'
          /\ lingering' = lingering \cup {p} /\ UNCHANGED running
      BY <2>6 DEF StopFailed, Current, SetState
    <3>2. Stuck'
      BY <2>1, <3>1 DEF Stuck
    <3>3. QED BY <2>1, <2>3, <3>1, <3>2 DEF Runs, AllStarted
  <2>7. QED BY <1>8, <2>4, <2>5, <2>6
<1>9. CASE StopDoneInFini
  <2>1. /\ at = 0 /\ hook = "stop" /\ hook' = "fini"
        /\ UNCHANGED <<plugin_states_, loaded_plugins_, running, lingering>>
    BY <1>9 DEF StopDoneInFini
  <2>2. Expected = {} /\ Expected' = {}
    BY <2>1 DEF Expected
  <2>3. QED BY <2>1, <2>2 DEF Runs, AllStarted
<1>10. CASE FiniPlugin
  <2> DEFINE p == plugin_load_order_[at]
  <2>1. /\ at \in DOMAIN plugin_load_order_ /\ hook = "fini" /\ hook' = "fini" /\ p \in Plugins
        /\ plugin_states_' = [plugin_states_ EXCEPT ![p] = "kUnloaded"] /\ loaded_plugins_' = loaded_plugins_ \ {p}
        /\ running' = running \ {p} /\ lingering' = lingering \ {p}
    BY <1>10 DEF FiniPlugin, Finishing, Current, SetState, Unload
  <2>2. Expected = {} /\ Expected' = {}
    BY <2>1 DEF Expected
  <2>3. QED BY <2>1, <2>2 DEF Runs, AllStarted
<1>11. CASE FiniDone
  <2>1. /\ at = 0 /\ hook = "fini" /\ hook' = "none" /\ loaded_plugins_' = {}
        /\ UNCHANGED <<plugin_states_, running, lingering>>
    BY <1>11 DEF FiniDone
  <2>2. running = {}
    BY <2>1 DEF Tables, Runs
  <2>3. module_state' # "Started"
    BY <1>11, <2>1 DEF FiniDone, Down
  <2>4. Expected' = {}
    BY <2>1, <2>3 DEF Expected
  <2>5. QED BY <2>1, <2>2, <2>4 DEF Runs, AllStarted
<1>12. CASE UNCHANGED vars
  BY <1>12 DEF vars, Runs, Expected, Stuck, AllStarted, Upto
<1>13. QED
  BY <1>1, <1>2, <1>3, <1>4, <1>5, <1>6, <1>7, <1>8, <1>9, <1>10, <1>11, <1>12 DEF Next

-----------------------------------------------------------------------------
(* The theorems.                                                           *)

LEMMA Invariance == Spec => []IInv
<1>1. IInv /\ [Next]_vars => IInv'
  BY TypesKept, CallsKept, TablesKept, ReportedKept, RunsKept DEF IInv
<1>2. QED BY <1>1, InitHolds, PTL DEF Spec

\* For every list of plugins: between calls the tables of the manager name the
\* same plugins, all of the configured ones or none, and no failure of a plugin
\* is hidden from the caller.
THEOREM TablesAgree == Spec => []PluginsAgree
<1>1. IInv => PluginsAgree
  <2> SUFFICES ASSUME IInv, Idle
               PROVE  /\ registry_ = loaded_plugins_ /\ Range(plugin_load_order_) = loaded_plugins_
                      /\ IsInjective(plugin_load_order_)
                      /\ loaded_plugins_ = IF Down THEN {} ELSE Range(config)
    BY DEF IInv, Reported, PluginsAgree, PluginsAreOwned, Down
  <2>1. /\ hook = "none" /\ registry_ = loaded_plugins_ /\ Range(plugin_load_order_) = loaded_plugins_
        /\ IsInjective(plugin_load_order_)
    BY DEF IInv, Tables, Calls, Idle
  <2>2. loaded_plugins_ = IF Down THEN {} ELSE Range(config)
    BY <2>1, Sorts DEF IInv, Tables, Range
  <2>3. QED BY <2>1, <2>2
<1>2. QED BY <1>1, Invariance, PTL

\* Between calls all plugins run or none does, whatever failed on the way.
THEOREM AllRunOrNone == Spec => []AllOrNothing
<1>1. IInv => AllOrNothing
  <2> SUFFICES ASSUME IInv, Idle, lingering = {}
               PROVE  running = IF module_state = "Started" THEN loaded_plugins_ ELSE {}
    BY DEF AllOrNothing
  <2>1. hook = "none" /\ registry_ = loaded_plugins_ /\ loaded_plugins_ \subseteq Plugins
    BY DEF IInv, TypeOK, Tables, Calls, Idle
  <2>2. ~ Stuck
    BY DEF Stuck
  <2>3. QED BY <2>1, <2>2 DEF IInv, Runs, AllStarted, Expected
<1>2. QED BY <1>1, Invariance, PTL

\* No plugin function is called out of turn.
THEOREM PluginsComeInTurn == Spec => PluginsInTurn
<1> DEFINE p == did'.plugin
           InTurn ==
               /\ did'.function = "Start" => p \in loaded_plugins_ \ running
               /\ did'.function = "Stop" =>
                      /\ p \in running
                      /\ \A i, j \in DOMAIN plugin_load_order_ :
                             i > j /\ plugin_load_order_[j] = p => plugin_load_order_[i] \notin running
               /\ did'.function = "Fini" => p \in loaded_plugins_ \ running
<1>1. ASSUME IInv, [Next]_vars, lingering = {} PROVE InTurn \/ UNCHANGED vars
  <2> USE <1>1, Sorts
  <2>1. running \subseteq Expected
    BY DEF IInv, Runs
  <2>2. CASE StartPlugin \/ StartFailed
    <3>1. /\ did' = [function |-> "Start", plugin |-> plugin_load_order_[at]] /\ hook = "start"
          /\ at \in DOMAIN plugin_load_order_
      BY <2>2 DEF StartPlugin, StartFailed, Starting, Did, Current
    <3>2. plugin_load_order_[at] \notin running
      BY <2>1, <3>1, OneMore DEF Expected
    <3>3. plugin_load_order_[at] \in loaded_plugins_
      BY <3>1 DEF IInv, Tables, Range
    <3>4. QED BY <3>1, <3>2, <3>3
  <2>3. CASE StopPlugin \/ StopFailed
    <3>1. /\ did' = [function |-> "Stop", plugin |-> plugin_load_order_[at]] /\ hook \in {"stop", "rollback"}
          /\ at \in DOMAIN plugin_load_order_ /\ plugin_states_[plugin_load_order_[at]] = "kStarted"
      BY <2>3 DEF StopPlugin, StopFailed, Stopping, Did, Current, IInv, TypeOK
    <3>2. plugin_load_order_[at] \in running
      BY <3>1 DEF IInv, Runs
    <3>3. running \subseteq Upto(at)
      BY <2>1, <3>1 DEF Expected
    <3>4. ASSUME NEW i \in DOMAIN plugin_load_order_, NEW j \in DOMAIN plugin_load_order_,
                 i > j, plugin_load_order_[j] = plugin_load_order_[at]
          PROVE  plugin_load_order_[i] \notin running
      BY <3>1, <3>3, <3>4 DEF IInv, Tables, IsInjective, Upto
    <3>5. QED BY <3>1, <3>2, <3>4
  <2>4. CASE FiniPlugin
    <3>1. /\ did' = [function |-> "Fini", plugin |-> plugin_load_order_[at]] /\ hook = "fini"
          /\ at \in DOMAIN plugin_load_order_
      BY <2>4 DEF FiniPlugin, Finishing, Did, Current, IInv, TypeOK
    <3>2. plugin_load_order_[at] \in loaded_plugins_
      BY <3>1 DEF IInv, Tables, Upto
    <3>3. running = {}
      BY <2>1, <3>1 DEF Expected
    <3>4. QED BY <3>1, <3>2, <3>3
  <2>5. CASE LoadPlugin
    BY <2>5 DEF LoadPlugin, Did
  <2>6. CASE \/ InitBegin \/ InitRefused \/ LoadFailed \/ LoadDone \/ StartBegin \/ StartDone
             \/ StopBegin \/ SkipPlugin \/ RollbackDone \/ StopDone \/ StopDoneInFini
             \/ FiniBegin \/ FiniSkipped \/ FiniDone
    BY <2>6 DEF InitBegin, InitRefused, LoadFailed, LoadDone, StartBegin, StartDone, StopBegin, SkipPlugin,
                RollbackDone, StopDone, StopDoneInFini, FiniBegin, FiniSkipped, FiniDone, Begin, Returns, Nothing
  <2>7. QED BY <2>2, <2>3, <2>4, <2>5, <2>6 DEF Next
<1>2. IInv /\ [Next]_vars => [lingering = {} => InTurn]_vars
  BY <1>1
<1>3. QED BY <1>2, Invariance, PTL DEF Spec, PluginsInTurn

=============================================================================
