--------------------------- MODULE ModuleLifecycle ---------------------------
(***************************************************************************)
(* The framework's lifecycle: what ModuleManager does with its modules and *)
(* what ModuleBase lets each of them do.  One thread drives it (IContext.h *)
(* promises no more), so a step is one call on one module; what is hard is *)
(* which hooks fail, where a sweep over the modules stops, and what the    *)
(* host tries next.                                                        *)
(***************************************************************************)
EXTENDS Naturals, Sequences, FiniteSets, SequencesExt

CONSTANTS
    Names,          \* instance names
    ServiceKeys,    \* the interfaces RegisterKnownServices knows
    Provides,       \* Provides[n]: the keys the plugin loaded as n implements
    Files,          \* the module lists of the configuration files
    MaxInstances,   \* bound: module instances ever created
    MaxDirectCalls  \* bound: calls of the host on a module found with Module<T>()

ASSUME ModuleLifecycleAssumption ==
    /\ Provides \in [Names -> SUBSET ServiceKeys]
    /\ Files \subseteq Seq(Names)
    /\ MaxInstances \in Nat
    /\ MaxDirectCalls \in Nat

VARIABLES
    modules_by_name_,   \* name -> instance; its domain is what is loaded
    module_order_,      \* names in loading order
    services_by_key_,   \* <<key, name, instance>>
    state,              \* state[i]: the ModuleState of instance i
    with_context,       \* instances whose ctx_ is set
    held,               \* history: what the hooks of an instance acquired and keep
    abandoned,          \* history: what the last Fini of an instance left held
    stuck,              \* history: started instances whose OnStop failed
    ran,                \* history: the hooks the last step ran, in order
    sweep,              \* the manager's call in progress, or the last one
    inited,             \* history: Init succeeded for all that is loaded
    direct              \* history: how often the host called a module itself

tables   == <<modules_by_name_, module_order_, services_by_key_>>
instance == <<state, with_context, held, abandoned, stuck>>
vars     == <<tables, instance, ran, sweep, inited, direct>>

-----------------------------------------------------------------------------
States == {"Created", "Inited", "Started", "Stopped", "Fini"}
Loaded == DOMAIN modules_by_name_

\* kValidTransitions.
ValidTransitions ==
    {<<"Created", "Inited">>, <<"Inited", "Started">>, <<"Started", "Stopped">>,
     <<"Stopped", "Started">>, <<"Fini", "Inited">>}
    \cup {<<s, "Fini">> : s \in States \ {"Fini"}}

Init ==
    /\ modules_by_name_ = [n \in {} |-> 0]
    /\ module_order_ = <<>>
    /\ services_by_key_ = {}
    /\ state = <<>>
    /\ with_context = {}
    /\ held = <<>>
    /\ abandoned = <<>>
    /\ stuck = {}
    /\ ran = <<>>
    /\ sweep = [op |-> "none", over |-> {}, left |-> <<>>, result |-> "ok",
                busy |-> FALSE, fresh |-> FALSE]
    /\ inited = FALSE
    /\ direct = 0

-----------------------------------------------------------------------------
(* Loading.  A load that fails on any entry changes nothing.               *)

\* StoreLoadedModule for each entry: new instances, in the order of the list.
Store(names) ==
    LET id(n) == Len(state) + (CHOOSE k \in DOMAIN names : names[k] = n)
    IN  /\ Len(state) + Len(names) <= MaxInstances
        /\ modules_by_name_' = [n \in Loaded \cup Range(names) |->
               IF n \in Loaded THEN modules_by_name_[n] ELSE id(n)]
        /\ module_order_' = module_order_ \o names
        /\ services_by_key_' = {s \in services_by_key_ : s[2] \notin Range(names)}
               \cup UNION {{<<key, n, id(n)>> : key \in Provides[n]} : n \in Range(names)}
        /\ state' = state \o [k \in DOMAIN names |-> "Created"]
        /\ held' = held \o [k \in DOMAIN names |-> {}]
        /\ abandoned' = abandoned \o [k \in DOMAIN names |-> {}]
        /\ ran' = <<>>
        /\ inited' = FALSE
        /\ UNCHANGED <<with_context, stuck, sweep, direct>>

LoadModule(name) ==
    /\ ~sweep.busy
    /\ name \notin Loaded
    /\ Store(<<name>>)

\* Reading the file refuses a name that occurs twice.
LoadModules(names) ==
    /\ ~sweep.busy
    /\ IsInjective(names)
    /\ Range(names) \cap Loaded = {}
    /\ Store(names)

-----------------------------------------------------------------------------
(* ModuleBase: the outcomes a call on instance i may have.                 *)

Outcome(to, ctx, holds, failedStop, hooks, result) ==
    [to |-> to, ctx |-> ctx, holds |-> holds, stuck |-> failedStop,
     hooks |-> hooks, result |-> result]

MakeStateError(i) ==
    {Outcome(state[i], i \in with_context, held[i], i \in stuck, <<>>, "refused")}

ModuleInit(i) ==
    IF <<state[i], "Inited">> \notin ValidTransitions THEN MakeStateError(i)
    ELSE {Outcome("Inited", TRUE, held[i] \cup {"init"}, FALSE, <<"OnInit">>, "ok"),
          Outcome(state[i], FALSE, held[i], FALSE, <<"OnInit">>, "failed")}

\* Mutant: a module that fails to start goes back to where it was created.
ModuleStartRollback(i) ==
    IF <<state[i], "Started">> \notin ValidTransitions THEN MakeStateError(i)
    ELSE {Outcome("Started", i \in with_context, held[i] \cup {"run"}, FALSE, <<"OnStart">>, "ok"),
          Outcome("Created", i \in with_context, held[i], FALSE, <<"OnStart">>, "failed")}

ModuleStart(i) ==
    IF <<state[i], "Started">> \notin ValidTransitions THEN MakeStateError(i)
    ELSE {Outcome("Started", i \in with_context, held[i] \cup {"run"}, FALSE, <<"OnStart">>, "ok"),
          Outcome(state[i], i \in with_context, held[i], FALSE, <<"OnStart">>, "failed")}

ModuleStop(i) ==
    IF <<state[i], "Stopped">> \notin ValidTransitions THEN MakeStateError(i)
    ELSE {Outcome("Stopped", i \in with_context, held[i] \ {"run"}, FALSE, <<"OnStop">>, "ok"),
          Outcome(state[i], i \in with_context, held[i], TRUE, <<"OnStop">>, "failed")}

\* Mutant: OnFini runs for a module that was never initialised.
ModuleFiniAlways(i) ==
    IF <<state[i], "Fini">> \notin ValidTransitions THEN MakeStateError(i)
    ELSE LET stops == IF state[i] = "Started" THEN <<"OnStop">> ELSE <<>>
             hooks == stops \o <<"OnFini">>
         IN  {Outcome("Fini", FALSE, {}, FALSE, hooks, "ok"),
              Outcome("Fini", FALSE, held[i], FALSE, hooks, "failed")}

\* Whatever fails, the instance ends in Fini; what the failed hooks had to
\* release stays in held, also when the instance is initialised again.
ModuleFini(i) ==
    IF <<state[i], "Fini">> \notin ValidTransitions THEN MakeStateError(i)
    ELSE LET stops  == IF <<state[i], "Stopped">> \in ValidTransitions THEN <<"OnStop">> ELSE <<>>
             finis  == IF state[i] = "Created" THEN <<>> ELSE <<"OnFini">>
             hooks  == stops \o finis
             frees  == [OnStop |-> "run", OnFini |-> "init"]
         IN  {Outcome("Fini", FALSE, held[i] \ {frees[h] : h \in Range(hooks) \ failed}, FALSE,
                      hooks, IF failed = {} THEN "ok" ELSE "failed") : failed \in SUBSET Range(hooks)}

\* The call on i has the outcome o.
Takes(i, o) ==
    /\ state' = [state EXCEPT ![i] = o.to]
    /\ with_context' = IF o.ctx THEN with_context \cup {i} ELSE with_context \ {i}
    /\ held' = [held EXCEPT ![i] = o.holds]
    /\ abandoned' = IF o.to = "Fini" THEN [abandoned EXCEPT ![i] = o.holds] ELSE abandoned
    /\ stuck' = IF o.stuck THEN stuck \cup {i} ELSE stuck \ {i}
    /\ ran' = [k \in DOMAIN o.hooks |-> <<i, o.hooks[k]>>]

\* The host found the module with Module<T>() and calls it itself.
Direct(name) ==
    /\ ~sweep.busy
    /\ direct < MaxDirectCalls
    /\ direct' = direct + 1
    /\ LET i == modules_by_name_[name]
       IN  \E o \in ModuleInit(i) \cup ModuleStart(i) \cup ModuleStop(i) \cup ModuleFini(i) :
               Takes(i, o)
    /\ UNCHANGED <<tables, sweep, inited>>

-----------------------------------------------------------------------------
(* ModuleManager: a sweep over the modules, which Context passes on.       *)

\* fresh: all that is loaded was initialised, and the host's last call was
\* that Init or a Stop, without an error.
Begin(op, order) ==
    /\ ~sweep.busy
    /\ sweep' = [op |-> op, over |-> Range(modules_by_name_), left |-> order,
                 result |-> "ok", busy |-> TRUE,
                 fresh |-> inited /\ sweep.op \in {"Init", "Stop"} /\ sweep.result = "ok"]
    /\ ran' = <<>>
    /\ UNCHANGED <<tables, instance, inited, direct>>

InitBegin  == Begin("Init", module_order_)
StartBegin == Begin("Start", module_order_)

\* Mutant: modules stop in loading order.
StopForwards == Begin("Stop", module_order_)
StopBegin    == Begin("Stop", Reverse(module_order_))
FiniBegin    == Begin("Fini", Reverse(module_order_))

\* The module the sweep is at.
Here(op) == sweep.busy /\ sweep.op = op /\ sweep.left # <<>>
Current  == modules_by_name_[Head(sweep.left)]

\* Init and Start return the first error at once ...
UntilError(o) ==
    sweep' = [sweep EXCEPT !.left = IF o.result = "ok" THEN Tail(@) ELSE <<>>, !.result = o.result]

\* ... Stop and Fini go on, and return it at the end.
FirstError(o) ==
    sweep' = [sweep EXCEPT !.left = Tail(@), !.result = IF @ = "ok" THEN o.result ELSE @]

InitModule ==
    /\ Here("Init")
    /\ \E o \in ModuleInit(Current) : Takes(Current, o) /\ UntilError(o)
    /\ UNCHANGED <<tables, inited, direct>>

StartModule ==
    /\ Here("Start")
    /\ \E o \in ModuleStart(Current) : Takes(Current, o) /\ UntilError(o)
    /\ UNCHANGED <<tables, inited, direct>>

StopModule ==
    /\ Here("Stop")
    /\ state[Current] = "Started"
    /\ \E o \in ModuleStop(Current) : Takes(Current, o) /\ FirstError(o)
    /\ UNCHANGED <<tables, inited, direct>>

SkipModule ==
    /\ Here("Stop")
    /\ state[Current] # "Started"
    /\ sweep' = [sweep EXCEPT !.left = Tail(@)]
    /\ ran' = <<>>
    /\ UNCHANGED <<tables, instance, inited, direct>>

FiniModule ==
    /\ Here("Fini")
    /\ \E o \in ModuleFini(Current) : Takes(Current, o) /\ FirstError(o)
    /\ UNCHANGED <<tables, inited, direct>>

\* Mutant: the service registry is forgotten.
ReturnKeepServices ==
    /\ sweep.busy /\ sweep.left = <<>>
    /\ sweep' = [sweep EXCEPT !.busy = FALSE]
    /\ ran' = <<>>
    /\ inited' = (sweep.op # "Fini" /\ (inited \/ (sweep.op = "Init" /\ sweep.result = "ok")))
    /\ IF sweep.op = "Fini"
       THEN modules_by_name_' = [n \in {} |-> 0] /\ module_order_' = <<>>
       ELSE UNCHANGED <<modules_by_name_, module_order_>>
    /\ UNCHANGED <<services_by_key_, instance, direct>>

\* The sweep is over; Fini then destroys the modules and forgets them.
Return ==
    /\ sweep.busy /\ sweep.left = <<>>
    /\ sweep' = [sweep EXCEPT !.busy = FALSE]
    /\ ran' = <<>>
    /\ inited' = (sweep.op # "Fini" /\ (inited \/ (sweep.op = "Init" /\ sweep.result = "ok")))
    /\ IF sweep.op = "Fini"
       THEN modules_by_name_' = [n \in {} |-> 0] /\ module_order_' = <<>> /\ services_by_key_' = {}
       ELSE UNCHANGED tables
    /\ UNCHANGED <<instance, direct>>

Next ==
    \/ \E name \in Names : LoadModule(name)
    \/ \E names \in Files : LoadModules(names)
    \/ \E name \in Loaded : Direct(name)
    \/ InitBegin \/ StartBegin \/ StopBegin \/ FiniBegin
    \/ InitModule \/ StartModule \/ StopModule \/ SkipModule \/ FiniModule
    \/ Return

Spec == Init /\ [][Next]_vars

-----------------------------------------------------------------------------
(* Service discovery.                                                      *)

\* ServiceRegistry::Lookup and LookupUnique; 0 stands for an error.
Lookup(key, name) ==
    IF \E i \in DOMAIN state : <<key, name, i>> \in services_by_key_
    THEN CHOOSE i \in DOMAIN state : <<key, name, i>> \in services_by_key_
    ELSE 0

LookupUnique(key) ==
    LET providers == {s \in services_by_key_ : s[1] = key}
    IN  IF Cardinality(providers) = 1 THEN (CHOOSE s \in providers : TRUE)[3] ELSE 0

-----------------------------------------------------------------------------
(* Properties.                                                             *)

\* The tables, the instances and the sweep have their types, and the order
\* lists what is loaded, each name once.
TypeOK ==
    /\ Loaded \subseteq Names
    /\ \A n \in Loaded : modules_by_name_[n] \in DOMAIN state
    /\ module_order_ \in Seq(Names)
    /\ IsInjective(module_order_)
    /\ Range(module_order_) = Loaded
    /\ services_by_key_ \subseteq ServiceKeys \X Names \X (DOMAIN state)
    /\ state \in Seq(States) /\ Len(state) <= MaxInstances
    /\ with_context \subseteq DOMAIN state
    /\ held \in [DOMAIN state -> SUBSET {"init", "run"}]
    /\ abandoned \in [DOMAIN state -> SUBSET {"init", "run"}]
    /\ stuck \subseteq DOMAIN state
    /\ sweep \in [op : {"none", "Init", "Start", "Stop", "Fini"}, over : SUBSET DOMAIN state,
                  left : Seq(Loaded), result : {"ok", "failed", "refused"},
                  busy : BOOLEAN, fresh : BOOLEAN]
    /\ inited \in BOOLEAN /\ direct \in Nat

\* IModuleManager.h: modules may depend on those loaded before them.  A module
\* is initialised only while all before it are, and runs only while all before
\* it run, unless its own OnStop failed; a host that calls modules itself has to
\* see to that itself.
DependenciesAreUp ==
    direct = 0 => \A a, b \in DOMAIN module_order_ : a < b =>
        LET base == modules_by_name_[module_order_[a]]
            user == modules_by_name_[module_order_[b]]
        IN  /\ state[user] \in {"Inited", "Started", "Stopped"} =>
                   state[base] \in {"Inited", "Started", "Stopped"}
            /\ state[user] = "Started" /\ user \notin stuck => state[base] = "Started"

\* A call that returned Ok did all of its work: every module initialised,
\* started, no module left running, nothing acquired and not released.
OkMeansDone ==
    direct = 0 /\ ~sweep.busy /\ sweep.result = "ok" =>
        /\ sweep.op = "Init" => \A i \in sweep.over : state[i] = "Inited"
        /\ sweep.op = "Start" => \A i \in sweep.over : state[i] = "Started"
        /\ sweep.op = "Stop" => \A i \in sweep.over : "run" \notin held[i]
        /\ sweep.op = "Fini" => \A i \in sweep.over : state[i] = "Fini" /\ held[i] = {}

\* After a complete Init or an error-free Stop no module refuses to start,
\* whatever starts and stops, failed ones too, came before.
RestartIsNotRefused ==
    direct = 0 /\ sweep.op = "Start" /\ sweep.fresh => sweep.result # "refused"

\* Hooks come in turn, whatever the host calls and whichever hooks failed:
\* OnInit with nothing initialised, OnStart once initialised and not running,
\* OnStop only while running, OnFini last, after OnStop for a running module,
\* and every hook after OnInit with the context still there.  The one thing
\* OnInit and OnStart may find held is what a Fini left when its OnStop or
\* OnFini failed: such a module is in Fini all the same and may be initialised
\* and started again.
HooksInTurn ==
    [][\A k \in DOMAIN ran' :
          LET i    == ran'[k][1]
              hook == ran'[k][2]
          IN  /\ hook = "OnInit" => i \notin with_context /\ held[i] \subseteq abandoned[i]
              /\ hook # "OnInit" => i \in with_context /\ "init" \in held[i]
              /\ hook = "OnStart" => "run" \notin held[i] \ abandoned[i]
              /\ hook = "OnStop" => "run" \in held[i]
              /\ hook = "OnFini" /\ "run" \in held[i] \ abandoned[i] =>
                     k = 2 /\ ran'[1] = <<i, "OnStop">>
      ]_vars

\* A client finds, by name or as the only one, exactly the services of the
\* modules that are loaded, and never one of a module that is gone.
ServicesMatchModules ==
    \A key \in ServiceKeys :
        LET providers == {n \in Loaded : key \in Provides[n]}
        IN  /\ \A n \in Names : Lookup(key, n) =
                   IF n \in providers THEN modules_by_name_[n] ELSE 0
            /\ LookupUnique(key) # 0 <=> Cardinality(providers) = 1
            /\ LookupUnique(key) # 0 => \E n \in providers : LookupUnique(key) = modules_by_name_[n]

\* What a host may rely on between its calls to the manager.
ModulesAgree == TypeOK /\ DependenciesAreUp /\ OkMeansDone
=============================================================================
