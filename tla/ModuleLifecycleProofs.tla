------------------------ MODULE ModuleLifecycleProofs ------------------------
(***************************************************************************)
(* Theorems about ModuleLifecycle, for any modules, services and           *)
(* configuration files.                                                    *)
(***************************************************************************)
EXTENDS ModuleLifecycle, FiniteSetTheorems, SequenceTheorems, TLAPS

USE ModuleLifecycleAssumption

-----------------------------------------------------------------------------
(* The inductive invariant.                                                *)

\* The instances that are loaded, and those a sweep has still to come to.
Instances == {modules_by_name_[n] : n \in Loaded}
LeftOver  == {modules_by_name_[n] : n \in Range(sweep.left)}

\* The tables name the same instances, and no instance twice.
Tables ==
    /\ modules_by_name_ \in [Loaded -> DOMAIN state]
    /\ \A n, m \in Loaded : modules_by_name_[n] = modules_by_name_[m] => n = m
    /\ \A s \in services_by_key_ :
           s[2] \in Loaded /\ s[1] \in Provides[s[2]] /\ s[3] = modules_by_name_[s[2]]
    /\ \A n \in Loaded : \A key \in Provides[n] : <<key, n, modules_by_name_[n]>> \in services_by_key_

\* What an instance holds follows from its state, but for what a Fini of its
\* own has left behind.
HoldsFor(i) ==
    /\ state[i] \in {"Created", "Fini"} => i \notin with_context
    /\ state[i] = "Created" => held[i] = {}
    /\ state[i] = "Fini" => held[i] \subseteq abandoned[i]
    /\ state[i] \in {"Inited", "Stopped"} =>
           i \in with_context /\ "init" \in held[i] /\ "run" \notin held[i] \ abandoned[i]
    /\ state[i] = "Started" => i \in with_context /\ held[i] = {"init", "run"}

Holds == \A i \in DOMAIN state : HoldsFor(i)

\* A sweep works through the loading order, or through its reverse.
Course ==
    /\ ~sweep.busy => sweep.left = <<>>
    /\ sweep.busy \/ inited => sweep.over = Instances
    /\ Len(sweep.left) <= Len(module_order_)
    /\ sweep.op \in {"Init", "Start"} =>
           /\ sweep.left # <<>> => sweep.result = "ok"
           /\ \A k \in 1 .. Len(sweep.left) :
                  sweep.left[k] = module_order_[Len(module_order_) - Len(sweep.left) + k]
    /\ sweep.op \in {"Stop", "Fini"} =>
           \A k \in 1 .. Len(sweep.left) : sweep.left[k] = module_order_[Len(sweep.left) + 1 - k]
    /\ sweep.op = "none" => sweep.left = <<>> /\ sweep.over = {}

Done(i) ==
    /\ sweep.op = "Init" => state[i] = "Inited"
    /\ sweep.op = "Start" => state[i] = "Started"
    /\ sweep.op = "Stop" => "run" \notin held[i]
    /\ sweep.op = "Fini" => state[i] = "Fini" /\ held[i] = {}

\* What is true of an instance a sweep has come past.
Behind(i) ==
    /\ sweep.result = "ok" => Done(i)
    /\ sweep.busy /\ sweep.op = "Stop" => (state[i] = "Started" => i \in stuck)
    /\ sweep.busy /\ sweep.op = "Fini" => state[i] = "Fini"

Past == direct = 0 => \A i \in sweep.over \ LeftOver : Behind(i)

\* Only a sweep of Fini meets finished modules, and once all were
\* initialised nothing else makes them go back.
Alive(i) == ~ (sweep.busy /\ sweep.op = "Fini") =>
                state[i] # "Fini" /\ (inited => state[i] # "Created")

\* The manager does not initialise a module again after its Fini.
Clean(i) == state[i] # "Fini" => abandoned[i] = {}

\* What a sweep has still to come to can be started, if it was to be.
Ahead ==
    direct = 0 =>
        /\ \A i \in Instances : Alive(i) /\ Clean(i)
        /\ sweep.busy /\ sweep.op = "Start" /\ sweep.fresh =>
               \A i \in LeftOver : state[i] \in {"Inited", "Stopped"}
        /\ sweep.op = "Start" /\ sweep.fresh => sweep.result # "refused"

\* What DependenciesAreUp says of a module and one loaded after it.
Supports(base, user) ==
    /\ state[user] \in {"Inited", "Started", "Stopped"} => state[base] \in {"Inited", "Started", "Stopped"}
    /\ state[user] = "Started" /\ user \notin stuck => state[base] = "Started"

\* The conjuncts every state of the proof has, and the invariant.
Base == TypeOK /\ Tables /\ Holds
IInv == Base /\ Course /\ Past /\ Ahead /\ DependenciesAreUp

-----------------------------------------------------------------------------
(* A call on one module.                                                   *)

\* What a call on i leaves alone.
Frame(i) ==
    /\ DOMAIN state' = DOMAIN state /\ state' \in Seq(States) /\ Len(state') = Len(state)
    /\ \A j \in DOMAIN state : j # i =>
           /\ state'[j] = state[j] /\ held'[j] = held[j] /\ abandoned'[j] = abandoned[j]
           /\ j \in with_context' <=> j \in with_context
           /\ j \in stuck' <=> j \in stuck
    /\ with_context' \subseteq DOMAIN state /\ stuck' \subseteq DOMAIN state
    /\ held' \in [DOMAIN state -> SUBSET {"init", "run"}]
    /\ abandoned' \in [DOMAIN state -> SUBSET {"init", "run"}]
    /\ abandoned'[i] = IF state'[i] = "Fini" THEN held'[i] ELSE abandoned[i]

Same(i) ==
    /\ state'[i] = state[i] /\ held'[i] = held[i] /\ ran' = <<>>
    /\ i \in with_context' <=> i \in with_context
    /\ i \in stuck' <=> i \in stuck

LEMMA TakesFacts ==
    ASSUME TypeOK, NEW i \in DOMAIN state, NEW o, o.to \in States, o.holds \in SUBSET {"init", "run"},
           Takes(i, o)
    PROVE  /\ Frame(i)
           /\ state'[i] = o.to /\ held'[i] = o.holds
           /\ i \in with_context' <=> o.ctx
           /\ i \in stuck' <=> o.stuck
           /\ ran' = [k \in DOMAIN o.hooks |-> <<i, o.hooks[k]>>]
<1>1. /\ state' = [state EXCEPT ![i] = o.to]
      /\ with_context' = IF o.ctx THEN with_context \cup {i} ELSE with_context \ {i}
      /\ held' = [held EXCEPT ![i] = o.holds]
      /\ abandoned' = IF o.to = "Fini" THEN [abandoned EXCEPT ![i] = o.holds] ELSE abandoned
      /\ stuck' = IF o.stuck THEN stuck \cup {i} ELSE stuck \ {i}
      /\ ran' = [k \in DOMAIN o.hooks |-> <<i, o.hooks[k]>>]
  BY DEF Takes
<1>2. /\ state \in Seq(States) /\ with_context \subseteq DOMAIN state /\ stuck \subseteq DOMAIN state
      /\ held \in [DOMAIN state -> SUBSET {"init", "run"}]
      /\ abandoned \in [DOMAIN state -> SUBSET {"init", "run"}]
  BY DEF TypeOK
<1>3. DOMAIN state' = DOMAIN state /\ state' \in Seq(States) /\ Len(state') = Len(state) /\ state'[i] = o.to
      /\ \A j \in DOMAIN state : j # i => state'[j] = state[j]
  BY <1>1, <1>2
<1>4. held' \in [DOMAIN state -> SUBSET {"init", "run"}] /\ held'[i] = o.holds
      /\ \A j \in DOMAIN state : j # i => held'[j] = held[j]
  BY <1>1, <1>2
<1>5. with_context' \subseteq DOMAIN state /\ (i \in with_context' <=> o.ctx)
      /\ \A j \in DOMAIN state : j # i => (j \in with_context' <=> j \in with_context)
  BY <1>1, <1>2
<1>6. stuck' \subseteq DOMAIN state /\ (i \in stuck' <=> o.stuck)
      /\ \A j \in DOMAIN state : j # i => (j \in stuck' <=> j \in stuck)
  BY <1>1, <1>2
<1>7. abandoned' \in [DOMAIN state -> SUBSET {"init", "run"}]
      /\ abandoned'[i] = (IF o.to = "Fini" THEN o.holds ELSE abandoned[i])
      /\ \A j \in DOMAIN state : j # i => abandoned'[j] = abandoned[j]
  BY <1>1, <1>2
<1>8. QED BY <1>1, <1>3, <1>4, <1>5, <1>6, <1>7 DEF Frame

LEMMA RefusedFacts ==
    ASSUME TypeOK, NEW i \in DOMAIN state, NEW o \in MakeStateError(i), Takes(i, o)
    PROVE  Frame(i) /\ Same(i) /\ o.result = "refused"
<1>1. o = Outcome(state[i], i \in with_context, held[i], i \in stuck, <<>>, "refused")
  BY DEF MakeStateError
<1>2. o.to = state[i] /\ o.holds = held[i] /\ o.hooks = <<>> /\ o.result = "refused"
  BY <1>1 DEF Outcome
<1>3. o.ctx = (i \in with_context)
  BY <1>1, Zenon DEF Outcome
<1>4. o.stuck = (i \in stuck)
  BY <1>1, Zenon DEF Outcome
<1>5. state[i] \in States /\ held[i] \in SUBSET {"init", "run"}
  BY DEF TypeOK
<1>6. /\ Frame(i) /\ state'[i] = o.to /\ held'[i] = o.holds
      /\ i \in with_context' <=> o.ctx
      /\ i \in stuck' <=> o.stuck
      /\ ran' = [k \in DOMAIN o.hooks |-> <<i, o.hooks[k]>>]
  <2>1. o.to \in States /\ o.holds \in SUBSET {"init", "run"}
    BY <1>2, <1>5
  <2>2. QED BY <2>1, TakesFacts, Zenon
<1>7. ran' = <<>>
  BY <1>2, <1>6
<1>8. (i \in with_context' <=> i \in with_context) /\ (i \in stuck' <=> i \in stuck)
  BY <1>3, <1>4, <1>6, Zenon
<1>9. QED BY <1>2, <1>6, <1>7, <1>8 DEF Same

\* The hooks the last step ran came in turn: the body of HooksInTurn.
InTurn ==
    \A k \in DOMAIN ran' :
        LET i    == ran'[k][1]
            hook == ran'[k][2]
        IN  /\ hook = "OnInit" => i \notin with_context /\ held[i] \subseteq abandoned[i]
            /\ hook # "OnInit" => i \in with_context /\ "init" \in held[i]
            /\ hook = "OnStart" => "run" \notin held[i] \ abandoned[i]
            /\ hook = "OnStop" => "run" \in held[i]
            /\ hook = "OnFini" /\ "run" \in held[i] \ abandoned[i] =>
                   k = 2 /\ ran'[1] = <<i, "OnStop">>

LEMMA NoHooks ==
    ASSUME ran' = <<>>
    PROVE  InTurn
BY DEF InTurn

LEMMA OneHook ==
    ASSUME NEW i, NEW h, ran' = [k \in DOMAIN <<h>> |-> <<i, <<h>>[k]>>],
           h = "OnInit" => i \notin with_context /\ held[i] \subseteq abandoned[i],
           h # "OnInit" => i \in with_context /\ "init" \in held[i],
           h = "OnStart" => "run" \notin held[i] \ abandoned[i],
           h = "OnStop" => "run" \in held[i],
           h = "OnFini" => "run" \notin held[i] \ abandoned[i]
    PROVE  InTurn
<1>1. \A k \in DOMAIN ran' : ran'[k][1] = i /\ ran'[k][2] = h
  OBVIOUS
<1>2. QED BY <1>1 DEF InTurn

LEMMA InitFacts ==
    ASSUME TypeOK, Holds, NEW i \in DOMAIN state, NEW o \in ModuleInit(i), Takes(i, o)
    PROVE  /\ Frame(i) /\ InTurn
           /\ \/ o.result = "refused" /\ Same(i)
              \/ /\ state[i] \in {"Created", "Fini"}
                 /\ \/ o.result = "ok" /\ state'[i] = "Inited" /\ i \in with_context'
                       /\ held'[i] = held[i] \cup {"init"}
                    \/ o.result = "failed" /\ state'[i] = state[i] /\ i \notin with_context' /\ held'[i] = held[i]
<1>1. CASE <<state[i], "Inited">> \notin ValidTransitions
  <2>1. o \in MakeStateError(i)
    BY <1>1 DEF ModuleInit
  <2>2. QED BY <2>1, RefusedFacts, NoHooks DEF Same
<1>2. CASE <<state[i], "Inited">> \in ValidTransitions
  <2>1. state[i] \in {"Created", "Fini"} /\ state[i] \in States
    BY <1>2 DEF ValidTransitions, TypeOK
  <2>2. \/ o = Outcome("Inited", TRUE, held[i] \cup {"init"}, FALSE, <<"OnInit">>, "ok")
        \/ o = Outcome(state[i], FALSE, held[i], FALSE, <<"OnInit">>, "failed")
    BY <1>2 DEF ModuleInit
  <2>3. /\ o.hooks = <<"OnInit">>
        /\ \/ o.to = "Inited" /\ o.holds = held[i] \cup {"init"} /\ o.ctx = TRUE /\ o.result = "ok"
           \/ o.to = state[i] /\ o.holds = held[i] /\ o.ctx = FALSE /\ o.result = "failed"
    BY <2>2 DEF Outcome
  <2>4. o.to \in States /\ o.holds \in SUBSET {"init", "run"}
    BY <2>1, <2>3 DEF States, TypeOK
  <2>5. /\ Frame(i)
        /\ state'[i] = o.to /\ held'[i] = o.holds
        /\ i \in with_context' <=> o.ctx
        /\ ran' = [k \in DOMAIN o.hooks |-> <<i, o.hooks[k]>>]
    BY <2>4, TakesFacts, Zenon
  <2>6. ran' = [k \in DOMAIN <<"OnInit">> |-> <<i, <<"OnInit">>[k]>>]
        /\ i \notin with_context /\ held[i] \subseteq abandoned[i]
    BY <2>1, <2>3, <2>5 DEF Holds, HoldsFor
  <2>7. InTurn
    BY <2>6, OneHook
  <2>8. QED BY <2>1, <2>3, <2>5, <2>7
<1>3. QED BY <1>1, <1>2

LEMMA StartFacts ==
    ASSUME TypeOK, Holds, NEW i \in DOMAIN state, NEW o \in ModuleStart(i), Takes(i, o)
    PROVE  /\ Frame(i) /\ InTurn
           /\ \/ o.result = "refused" /\ Same(i) /\ state[i] \notin {"Inited", "Stopped"}
              \/ /\ state[i] \in {"Inited", "Stopped"}
                 /\ \/ o.result = "ok" /\ state'[i] = "Started" /\ i \in with_context' /\ held'[i] = {"init", "run"}
                    \/ o.result = "failed" /\ state'[i] = state[i] /\ i \in with_context' /\ held'[i] = held[i]
<1>1. CASE <<state[i], "Started">> \notin ValidTransitions
  <2>1. o \in MakeStateError(i)
    BY <1>1 DEF ModuleStart
  <2>2. state[i] \notin {"Inited", "Stopped"}
    BY <1>1 DEF ValidTransitions
  <2>3. QED BY <2>1, <2>2, RefusedFacts, NoHooks DEF Same
<1>2. CASE <<state[i], "Started">> \in ValidTransitions
  <2>1. state[i] \in {"Inited", "Stopped"} /\ state[i] \in States /\ i \in with_context
        /\ held[i] \in SUBSET {"init", "run"} /\ "init" \in held[i] /\ "run" \notin held[i] \ abandoned[i]
    BY <1>2 DEF ValidTransitions, TypeOK, Holds, HoldsFor
  <2>2. \/ o = Outcome("Started", i \in with_context, held[i] \cup {"run"}, FALSE, <<"OnStart">>, "ok")
        \/ o = Outcome(state[i], i \in with_context, held[i], FALSE, <<"OnStart">>, "failed")
    BY <1>2, Zenon DEF ModuleStart
  <2>3. /\ o.hooks = <<"OnStart">>
        /\ \/ o.to = "Started" /\ o.holds = held[i] \cup {"run"} /\ o.result = "ok"
           \/ o.to = state[i] /\ o.holds = held[i] /\ o.result = "failed"
    BY <2>2 DEF Outcome
  <2>4. o.ctx = (i \in with_context)
    <3>1. CASE o = Outcome("Started", i \in with_context, held[i] \cup {"run"}, FALSE, <<"OnStart">>, "ok")
      BY <3>1, Zenon DEF Outcome
    <3>2. CASE o = Outcome(state[i], i \in with_context, held[i], FALSE, <<"OnStart">>, "failed")
      BY <3>2, Zenon DEF Outcome
    <3>3. QED BY <2>2, <3>1, <3>2, Zenon
  <2>5. o.to \in States /\ o.holds \in SUBSET {"init", "run"}
    BY <2>1, <2>3 DEF States
  <2>6. /\ Frame(i)
        /\ state'[i] = o.to /\ held'[i] = o.holds
        /\ i \in with_context' <=> o.ctx
        /\ ran' = [k \in DOMAIN o.hooks |-> <<i, o.hooks[k]>>]
    BY <2>5, TakesFacts, Zenon
  <2>7. i \in with_context'
    BY <2>1, <2>4, <2>6, Zenon
  <2>8. ran' = [k \in DOMAIN <<"OnStart">> |-> <<i, <<"OnStart">>[k]>>]
    BY <2>3, <2>6
  <2>9. InTurn
    BY <2>1, <2>8, OneHook
  <2>10. QED BY <2>1, <2>3, <2>6, <2>7, <2>9
<1>3. QED BY <1>1, <1>2

LEMMA StopFacts ==
    ASSUME TypeOK, Holds, NEW i \in DOMAIN state, NEW o \in ModuleStop(i), Takes(i, o)
    PROVE  /\ Frame(i) /\ InTurn
           /\ \/ o.result = "refused" /\ Same(i) /\ state[i] # "Started"
              \/ /\ state[i] = "Started"
                 /\ \/ o.result = "ok" /\ state'[i] = "Stopped" /\ i \in with_context' /\ held'[i] = {"init"}
                    \/ o.result = "failed" /\ state'[i] = "Started" /\ i \in with_context' /\ i \in stuck' /\ held'[i] = held[i]
<1>1. CASE <<state[i], "Stopped">> \notin ValidTransitions
  <2>1. o \in MakeStateError(i)
    BY <1>1 DEF ModuleStop
  <2>2. state[i] # "Started"
    BY <1>1 DEF ValidTransitions
  <2>3. QED BY <2>1, <2>2, RefusedFacts, NoHooks DEF Same
<1>2. CASE <<state[i], "Stopped">> \in ValidTransitions
  <2>1. state[i] = "Started" /\ i \in with_context /\ held[i] = {"init", "run"}
    BY <1>2 DEF ValidTransitions, Holds, HoldsFor
  <2>2. \/ o = Outcome("Stopped", i \in with_context, held[i] \ {"run"}, FALSE, <<"OnStop">>, "ok")
        \/ o = Outcome(state[i], i \in with_context, held[i], TRUE, <<"OnStop">>, "failed")
    BY <1>2, Zenon DEF ModuleStop
  <2>3. /\ o.hooks = <<"OnStop">>
        /\ \/ o.to = "Stopped" /\ o.holds = held[i] \ {"run"} /\ o.result = "ok"
           \/ o.to = state[i] /\ o.holds = held[i] /\ o.stuck = TRUE /\ o.result = "failed"
    BY <2>2 DEF Outcome
  <2>4. o.ctx = (i \in with_context)
    <3>1. CASE o = Outcome("Stopped", i \in with_context, held[i] \ {"run"}, FALSE, <<"OnStop">>, "ok")
      BY <3>1, Zenon DEF Outcome
    <3>2. CASE o = Outcome(state[i], i \in with_context, held[i], TRUE, <<"OnStop">>, "failed")
      BY <3>2, Zenon DEF Outcome
    <3>3. QED BY <2>2, <3>1, <3>2, Zenon
  <2>5. o.to \in States /\ o.holds \in SUBSET {"init", "run"} /\ held[i] \ {"run"} = {"init"}
    BY <2>1, <2>3 DEF States
  <2>6. /\ Frame(i)
        /\ state'[i] = o.to /\ held'[i] = o.holds
        /\ i \in with_context' <=> o.ctx
        /\ i \in stuck' <=> o.stuck
        /\ ran' = [k \in DOMAIN o.hooks |-> <<i, o.hooks[k]>>]
    BY <2>5, TakesFacts, Zenon
  <2>7. i \in with_context'
    BY <2>1, <2>4, <2>6, Zenon
  <2>8. ran' = [k \in DOMAIN <<"OnStop">> |-> <<i, <<"OnStop">>[k]>>]
    BY <2>3, <2>6
  <2>9. InTurn
    BY <2>1, <2>8, OneHook
  <2>10. QED BY <2>1, <2>3, <2>5, <2>6, <2>7, <2>9
<1>3. QED BY <1>1, <1>2

LEMMA TwoSequences ==
    ASSUME NEW a, NEW b
    PROVE  <<>> \o <<a>> = <<a>> /\ <<a>> \o <<b>> = <<a, b>>
<1>0. <<>> \in Seq({a, b}) /\ <<a>> \in Seq({a, b}) /\ <<b>> \in Seq({a, b}) /\ <<a, b>> \in Seq({a, b})
  OBVIOUS
<1>1. <<>> \o <<a>> = <<a>>
  BY <1>0, ConcatEmptySeq
<1>2. <<a>> \o <<b>> = <<a, b>>
  <2>1. /\ <<a>> \o <<b>> \in Seq({a, b})
        /\ Len(<<a>> \o <<b>>) = 2
        /\ (<<a>> \o <<b>>)[1] = a /\ (<<a>> \o <<b>>)[2] = b
    BY <1>0, ConcatProperties
  <2>2. Len(<<a, b>>) = 2 /\ <<a, b>>[1] = a /\ <<a, b>>[2] = b
    OBVIOUS
  <2>3. \A k \in 1 .. 2 : (<<a>> \o <<b>>)[k] = <<a, b>>[k]
    BY <2>1, <2>2
  <2>4. QED BY <1>0, <2>1, <2>2, <2>3, SeqEqual
<1>3. QED BY <1>1, <1>2

LEMMA RangeOf ==
    ASSUME NEW a, NEW b
    PROVE  a \in Range(<<a>>) /\ a \in Range(<<a, b>>) /\ b \in Range(<<a, b>>)
<1>1. 1 \in DOMAIN <<a>> /\ <<a>>[1] = a
  OBVIOUS
<1>2. 1 \in DOMAIN <<a, b>> /\ 2 \in DOMAIN <<a, b>> /\ <<a, b>>[1] = a /\ <<a, b>>[2] = b
  OBVIOUS
<1>3. QED BY <1>1, <1>2 DEF Range

LEMMA FiniFacts ==
    ASSUME TypeOK, Holds, NEW i \in DOMAIN state, NEW o \in ModuleFini(i), Takes(i, o)
    PROVE  /\ Frame(i) /\ InTurn
           /\ \/ o.result = "refused" /\ Same(i) /\ state[i] = "Fini"
              \/ /\ state[i] # "Fini" /\ state'[i] = "Fini" /\ i \notin with_context'
                 /\ o.result \in {"ok", "failed"}
                 /\ o.result = "ok" => held'[i] \subseteq abandoned[i]
<1>1. CASE <<state[i], "Fini">> \notin ValidTransitions
  <2>1. o \in MakeStateError(i)
    BY <1>1 DEF ModuleFini
  <2>0. state[i] \in States
    BY DEF TypeOK
  <2>2. state[i] = "Fini"
    BY <1>1, <2>0 DEF ValidTransitions, States
  <2>3. QED BY <2>1, <2>2, RefusedFacts, NoHooks DEF Same
<1>2. CASE <<state[i], "Fini">> \in ValidTransitions
  <2>0. state[i] \in States /\ state[i] # "Fini" /\ held[i] \in SUBSET {"init", "run"}
    BY <1>2 DEF ValidTransitions, States, TypeOK
  <2> DEFINE stops == IF <<state[i], "Stopped">> \in ValidTransitions THEN <<"OnStop">> ELSE <<>>
             finis == IF state[i] = "Created" THEN <<>> ELSE <<"OnFini">>
             hooks == stops \o finis
             frees == [OnStop |-> "run", OnFini |-> "init"]
  <2>1. PICK failed \in SUBSET Range(hooks) :
            o = Outcome("Fini", FALSE, held[i] \ {frees[h] : h \in Range(hooks) \ failed}, FALSE,
                        hooks, IF failed = {} THEN "ok" ELSE "failed")
    BY <1>2 DEF ModuleFini
  <2>2. /\ o.to = "Fini" /\ o.ctx = FALSE /\ o.hooks = hooks
        /\ o.holds = held[i] \ {frees[h] : h \in Range(hooks) \ failed}
        /\ o.result = IF failed = {} THEN "ok" ELSE "failed"
    BY <2>1 DEF Outcome
  <2>3. o.to \in States /\ o.holds \in SUBSET {"init", "run"}
    BY <2>0, <2>2 DEF States
  <2>4. /\ Frame(i)
        /\ state'[i] = o.to /\ held'[i] = o.holds
        /\ i \in with_context' <=> o.ctx
        /\ ran' = [k \in DOMAIN o.hooks |-> <<i, o.hooks[k]>>]
    BY <2>3, TakesFacts, Zenon
  <2>5. CASE state[i] = "Created"
    <3>1. hooks = <<>> /\ held[i] = {}
      BY <2>5 DEF ValidTransitions, Holds, HoldsFor
    <3>2. ran' = <<>>
      BY <2>2, <2>4, <3>1
    <3>3. held'[i] = {}
      BY <2>2, <2>4, <3>1
    <3>4. QED BY <2>0, <2>2, <2>4, <3>2, <3>3, NoHooks
  <2>6. CASE state[i] \in {"Inited", "Stopped"}
    <3>0. stops = <<>> /\ finis = <<"OnFini">>
      BY <2>6 DEF ValidTransitions
    <3>1. hooks = <<"OnFini">> /\ i \in with_context
          /\ "init" \in held[i] /\ "run" \notin held[i] \ abandoned[i]
      BY <2>6, <3>0, TwoSequences DEF Holds, HoldsFor
    <3>2. ran' = [k \in DOMAIN <<"OnFini">> |-> <<i, <<"OnFini">>[k]>>]
      BY <2>2, <2>4, <3>1
    <3>3. InTurn
      BY <3>1, <3>2, OneHook
    <3>4. "OnFini" \in Range(hooks) /\ frees["OnFini"] = "init"
      BY <3>1, RangeOf
    <3>5. failed = {} => held'[i] \subseteq abandoned[i]
      BY <2>0, <2>2, <2>4, <3>1, <3>4
    <3>6. QED BY <2>0, <2>2, <2>4, <3>3, <3>5
  <2>7. CASE state[i] = "Started"
    <3>0. stops = <<"OnStop">> /\ finis = <<"OnFini">>
      BY <2>7 DEF ValidTransitions
    <3>1. hooks = <<"OnStop", "OnFini">> /\ held[i] = {"init", "run"} /\ i \in with_context
      BY <2>7, <3>0, TwoSequences DEF Holds, HoldsFor
    <3>2. /\ DOMAIN ran' = 1 .. 2 /\ ran'[1] = <<i, "OnStop">> /\ ran'[2] = <<i, "OnFini">>
      <4>1. ran' = [k \in DOMAIN <<"OnStop", "OnFini">> |-> <<i, <<"OnStop", "OnFini">>[k]>>]
        BY <2>2, <2>4, <3>1
      <4>2. QED BY <4>1
    <3>3. InTurn
      BY <3>1, <3>2 DEF InTurn
    <3>4. /\ "OnFini" \in Range(hooks) /\ frees["OnFini"] = "init"
          /\ "OnStop" \in Range(hooks) /\ frees["OnStop"] = "run"
      BY <3>1, RangeOf
    <3>5. failed = {} => held'[i] = {}
      BY <2>2, <2>4, <3>1, <3>4
    <3>6. QED BY <2>0, <2>2, <2>4, <3>3, <3>5
  <2>8. QED BY <2>0, <2>5, <2>6, <2>7 DEF States
<1>3. QED BY <1>1, <1>2

-----------------------------------------------------------------------------
(* Steps that take a call on one instance.                                 *)

\* The sweep's record has its type.
SweepTyped ==
    /\ sweep \in [op : {"none", "Init", "Start", "Stop", "Fini"}, over : SUBSET DOMAIN state,
                  left : Seq(Loaded), result : {"ok", "failed", "refused"},
                  busy : BOOLEAN, fresh : BOOLEAN]
    /\ inited \in BOOLEAN /\ direct \in Nat

LEMMA CallKeeps ==
    ASSUME TypeOK, Tables, Holds, NEW i \in DOMAIN state, Frame(i), HoldsFor(i)', SweepTyped',
           UNCHANGED tables
    PROVE  TypeOK' /\ Tables' /\ Holds'
<1>1. /\ modules_by_name_' = modules_by_name_ /\ module_order_' = module_order_
      /\ services_by_key_' = services_by_key_ /\ DOMAIN state' = DOMAIN state
      /\ Loaded' = Loaded
  BY DEF tables, Frame, Loaded
<1>2. TypeOK'
  BY <1>1 DEF TypeOK, SweepTyped, Frame
<1>3. Tables'
  BY <1>1 DEF Tables
<1>4. ASSUME NEW j \in DOMAIN state, j # i PROVE HoldsFor(j)'
  <2>1. HoldsFor(j)
    BY DEF Holds
  <2>2. state'[j] = state[j] /\ held'[j] = held[j] /\ abandoned'[j] = abandoned[j] /\ (j \in with_context' <=> j \in with_context)
    BY <1>4 DEF Frame
  <2>3. QED BY <2>1, <2>2 DEF HoldsFor
<1>5. Holds'
  BY <1>1, <1>4 DEF Holds
<1>6. QED BY <1>2, <1>3, <1>5

LEMMA SameHolds ==
    ASSUME Holds, NEW i \in DOMAIN state, Frame(i), Same(i)
    PROVE  HoldsFor(i)'
<1>1. HoldsFor(i)
  BY DEF Holds
<1>2. abandoned'[i] = IF state'[i] = "Fini" THEN held'[i] ELSE abandoned[i]
  BY DEF Frame
<1>3. QED BY <1>1, <1>2 DEF HoldsFor, Same

\* What the four calls on an instance have in common.
LEMMA CallFacts ==
    ASSUME TypeOK, Holds, NEW i \in DOMAIN state,
           NEW o \in ModuleInit(i) \cup ModuleStart(i) \cup ModuleStop(i) \cup ModuleFini(i), Takes(i, o)
    PROVE  /\ Frame(i) /\ InTurn /\ HoldsFor(i)'
           /\ o.result \in {"ok", "failed", "refused"}
<1>0. /\ Frame(i) => abandoned'[i] = IF state'[i] = "Fini" THEN held'[i] ELSE abandoned[i]
      /\ HoldsFor(i) /\ held[i] \in SUBSET {"init", "run"}
  BY DEF Frame, Holds, TypeOK
<1>1. CASE o \in ModuleInit(i)
  <2>1. /\ Frame(i) /\ InTurn
        /\ \/ o.result = "refused" /\ Same(i)
           \/ /\ state[i] \in {"Created", "Fini"}
              /\ \/ o.result = "ok" /\ state'[i] = "Inited" /\ i \in with_context' /\ held'[i] = held[i] \cup {"init"}
                 \/ o.result = "failed" /\ state'[i] = state[i] /\ i \notin with_context' /\ held'[i] = held[i]
    BY <1>1, InitFacts
  <2>2. CASE o.result = "refused" /\ Same(i)
    BY <2>1, <2>2, SameHolds
  <2>3. CASE o.result = "ok" /\ state'[i] = "Inited" /\ i \in with_context' /\ held'[i] = held[i] \cup {"init"}
             /\ state[i] \in {"Created", "Fini"}
    BY <1>0, <2>1, <2>3 DEF HoldsFor
  <2>4. CASE o.result = "failed" /\ state'[i] = state[i] /\ i \notin with_context' /\ held'[i] = held[i]
             /\ state[i] \in {"Created", "Fini"}
    BY <1>0, <2>1, <2>4 DEF HoldsFor
  <2>5. QED BY <2>1, <2>2, <2>3, <2>4
<1>2. CASE o \in ModuleStart(i)
  <2>1. /\ Frame(i) /\ InTurn
        /\ \/ o.result = "refused" /\ Same(i)
           \/ /\ state[i] \in {"Inited", "Stopped"} /\ i \in with_context'
              /\ \/ o.result = "ok" /\ state'[i] = "Started" /\ held'[i] = {"init", "run"}
                 \/ o.result = "failed" /\ state'[i] = state[i] /\ held'[i] = held[i]
    BY <1>2, StartFacts
  <2>2. CASE o.result = "refused" /\ Same(i)
    BY <2>1, <2>2, SameHolds
  <2>3. CASE o.result # "refused"
    BY <1>0, <2>1, <2>3 DEF HoldsFor
  <2>4. QED BY <2>1, <2>2, <2>3
<1>3. CASE o \in ModuleStop(i)
  BY <1>0, <1>3, StopFacts, SameHolds DEF HoldsFor
<1>4. CASE o \in ModuleFini(i)
  <2>1. /\ Frame(i) /\ InTurn
        /\ \/ o.result = "refused" /\ Same(i)
           \/ state'[i] = "Fini" /\ i \notin with_context' /\ o.result \in {"ok", "failed"}
    BY <1>4, FiniFacts
  <2>2. CASE o.result = "refused" /\ Same(i)
    BY <2>1, <2>2, SameHolds
  <2>3. CASE o.result # "refused"
    BY <1>0, <2>1, <2>3 DEF HoldsFor
  <2>4. QED BY <2>1, <2>2, <2>3
<1>5. QED BY <1>1, <1>2, <1>3, <1>4

\* The module a sweep is at, and those behind it.
LEMMA CurrentFacts ==
    ASSUME TypeOK, sweep.left # <<>>
    PROVE  /\ Head(sweep.left) \in Loaded /\ Head(sweep.left) = sweep.left[1]
           /\ Current \in DOMAIN state
           /\ Tail(sweep.left) \in Seq(Loaded)
           /\ Len(sweep.left) \in Nat \ {0}
           /\ Len(Tail(sweep.left)) = Len(sweep.left) - 1
           /\ \A k \in 1 .. Len(sweep.left) - 1 : Tail(sweep.left)[k] = sweep.left[k + 1]
<1>1. sweep.left \in Seq(Loaded) /\ \A n \in Loaded : modules_by_name_[n] \in DOMAIN state
  BY DEF TypeOK
<1>2. QED BY <1>1 DEF Current

LEMMA TwoFields ==
    ASSUME TypeOK, NEW left \in Seq(Loaded), NEW result \in {"ok", "failed", "refused"},
           sweep' = [sweep EXCEPT !.left = left, !.result = result]
    PROVE  /\ sweep'.left = left /\ sweep'.result = result
           /\ sweep'.op = sweep.op /\ sweep'.over = sweep.over
           /\ sweep'.busy = sweep.busy /\ sweep'.fresh = sweep.fresh
           /\ sweep' \in [op : {"none", "Init", "Start", "Stop", "Fini"}, over : SUBSET DOMAIN state,
                          left : Seq(Loaded), result : {"ok", "failed", "refused"},
                          busy : BOOLEAN, fresh : BOOLEAN]
BY DEF TypeOK

\* Init and Start go on to the next module, or give up.
LEMMA UntilGoesOn ==
    ASSUME TypeOK, sweep.left # <<>>, NEW o, o.result \in {"ok", "failed", "refused"},
           DOMAIN state' = DOMAIN state, UNCHANGED <<tables, inited, direct>>, UntilError(o)
    PROVE  /\ SweepTyped'
           /\ sweep'.op = sweep.op /\ sweep'.over = sweep.over
           /\ sweep'.busy = sweep.busy /\ sweep'.fresh = sweep.fresh
           /\ \/ o.result = "ok" /\ sweep'.left = Tail(sweep.left) /\ sweep'.result = "ok"
              \/ o.result # "ok" /\ sweep'.left = <<>> /\ sweep'.result = o.result
<1>1. Loaded' = Loaded /\ inited' = inited /\ direct' = direct
  BY DEF tables, Loaded
<1>2. /\ Tail(sweep.left) \in Seq(Loaded) /\ <<>> \in Seq(Loaded)
      /\ sweep.result \in {"ok", "failed", "refused"}
      /\ inited \in BOOLEAN /\ direct \in Nat
  BY CurrentFacts DEF TypeOK
<1> DEFINE stop == IF o.result = "ok" THEN Tail(sweep.left) ELSE <<>>
<1>3. stop \in Seq(Loaded)
  BY <1>2
<1>4. sweep' = [sweep EXCEPT !.left = stop, !.result = o.result]
  BY DEF UntilError
<1> HIDE DEF stop
<1>5. /\ sweep'.left = stop /\ sweep'.result = o.result
      /\ sweep'.op = sweep.op /\ sweep'.over = sweep.over
      /\ sweep'.busy = sweep.busy /\ sweep'.fresh = sweep.fresh
      /\ sweep' \in [op : {"none", "Init", "Start", "Stop", "Fini"}, over : SUBSET DOMAIN state,
                     left : Seq(Loaded), result : {"ok", "failed", "refused"},
                     busy : BOOLEAN, fresh : BOOLEAN]
  BY <1>2, <1>3, <1>4, TwoFields
<1>6. SweepTyped'
  BY <1>1, <1>2, <1>5 DEF SweepTyped
<1> USE DEF stop
<1>7. (o.result = "ok" /\ stop = Tail(sweep.left)) \/ (o.result # "ok" /\ stop = <<>>)
  OBVIOUS
<1> HIDE DEF stop
<1>8. QED BY <1>5, <1>6, <1>7, Zenon

\* Stop and Fini go on in any case, and keep the first error.
LEMMA FirstGoesOn ==
    ASSUME TypeOK, sweep.left # <<>>, NEW o, o.result \in {"ok", "failed", "refused"},
           DOMAIN state' = DOMAIN state, UNCHANGED <<tables, inited, direct>>, FirstError(o)
    PROVE  /\ SweepTyped'
           /\ sweep'.op = sweep.op /\ sweep'.over = sweep.over
           /\ sweep'.busy = sweep.busy /\ sweep'.fresh = sweep.fresh
           /\ sweep'.left = Tail(sweep.left)
           /\ \/ sweep.result = "ok" /\ sweep'.result = o.result
              \/ sweep.result # "ok" /\ sweep'.result = sweep.result
<1>1. Loaded' = Loaded /\ inited' = inited /\ direct' = direct
  BY DEF tables, Loaded
<1>2. /\ Tail(sweep.left) \in Seq(Loaded) /\ <<>> \in Seq(Loaded)
      /\ sweep.result \in {"ok", "failed", "refused"}
      /\ inited \in BOOLEAN /\ direct \in Nat
  BY CurrentFacts DEF TypeOK
<1> DEFINE worst == IF sweep.result = "ok" THEN o.result ELSE sweep.result
<1>3. worst \in {"ok", "failed", "refused"}
  BY <1>2
<1>4. sweep' = [sweep EXCEPT !.left = Tail(@), !.result = worst]
  BY DEF FirstError
<1> HIDE DEF worst
<1>5. /\ sweep'.left = Tail(sweep.left) /\ sweep'.result = worst
      /\ sweep'.op = sweep.op /\ sweep'.over = sweep.over
      /\ sweep'.busy = sweep.busy /\ sweep'.fresh = sweep.fresh
      /\ sweep' \in [op : {"none", "Init", "Start", "Stop", "Fini"}, over : SUBSET DOMAIN state,
                     left : Seq(Loaded), result : {"ok", "failed", "refused"},
                     busy : BOOLEAN, fresh : BOOLEAN]
  BY <1>2, <1>3, <1>4, TwoFields
<1>6. SweepTyped'
  BY <1>1, <1>2, <1>5 DEF SweepTyped
<1> USE DEF worst
<1>7. (sweep.result = "ok" /\ worst = o.result) \/ (sweep.result # "ok" /\ worst = sweep.result)
  OBVIOUS
<1> HIDE DEF worst
<1>8. QED BY <1>5, <1>6, <1>7, Zenon

-----------------------------------------------------------------------------
(* Every step keeps the tables, and what an instance holds.                *)

LEMMA InitBase ==
    ASSUME Init
    PROVE  Base
<1>1. /\ modules_by_name_ = [n \in {} |-> 0] /\ module_order_ = <<>> /\ services_by_key_ = {}
      /\ state = <<>> /\ with_context = {} /\ held = <<>> /\ abandoned = <<>> /\ stuck = {} /\ inited = FALSE /\ direct = 0
      /\ sweep = [op |-> "none", over |-> {}, left |-> <<>>, result |-> "ok",
                  busy |-> FALSE, fresh |-> FALSE]
  BY DEF Init
<1>2. Loaded = {} /\ DOMAIN state = {} /\ Range(module_order_) = {}
  BY <1>1 DEF Loaded, Range
<1>3. TypeOK
  <2>1. held \in [DOMAIN state -> SUBSET {"init", "run"}] /\ state \in Seq(States) /\ Len(state) <= MaxInstances
    BY <1>1, <1>2
  <2>2. module_order_ \in Seq(Names) /\ IsInjective(module_order_)
    BY <1>1 DEF IsInjective
  <2>3. sweep \in [op : {"none", "Init", "Start", "Stop", "Fini"}, over : SUBSET DOMAIN state,
                   left : Seq(Loaded), result : {"ok", "failed", "refused"},
                   busy : BOOLEAN, fresh : BOOLEAN]
    BY <1>1
  <2>4. QED BY <1>1, <1>2, <2>1, <2>2, <2>3 DEF TypeOK
<1>4. Tables /\ Holds
  <2>1. modules_by_name_ \in [Loaded -> DOMAIN state]
    BY <1>1, <1>2
  <2>2. QED BY <1>1, <1>2, <2>1 DEF Tables, Holds
<1>5. QED BY <1>3, <1>4 DEF Base

\* New instances hold nothing.
LEMMA NoneHeld ==
    ASSUME NEW H, {} \in H, NEW m \in Nat, NEW n \in Nat, NEW f \in [1 .. m -> H],
           NEW none \in [1 .. n -> {{}}]
    PROVE  /\ f \o none \in [1 .. m + n -> H]
           /\ \A i \in 1 .. m : (f \o none)[i] = f[i]
           /\ \A i \in (1 .. m + n) \ (1 .. m) : (f \o none)[i] = {}
<1>1. f \in Seq(H) /\ Len(f) = m
  <2>1. f \in Seq(H)
    BY SeqDef
  <2>2. QED BY <2>1, LenProperties
<1>2. none \in Seq(H) /\ Len(none) = n /\ \A k \in 1 .. n : none[k] = {}
  <2>1. none \in [1 .. n -> H] /\ \A k \in 1 .. n : none[k] = {}
    OBVIOUS
  <2>2. none \in Seq(H)
    BY <2>1, SeqDef
  <2>3. QED BY <2>1, <2>2, LenProperties
<1>0. /\ f \o none \in Seq(H) /\ Len(f \o none) = Len(f) + Len(none)
      /\ \A i \in 1 .. Len(f) + Len(none) :
             (f \o none)[i] = IF i <= Len(f) THEN f[i] ELSE none[i - Len(f)]
  <2>1. f \in Seq(H) /\ none \in Seq(H)
    BY <1>1, <1>2
  <2>2. QED BY <2>1, ConcatProperties, Zenon
<1> DEFINE g == f \o none
<1>3. /\ g \in Seq(H) /\ Len(g) = Len(f) + Len(none)
      /\ \A i \in 1 .. Len(f) + Len(none) : g[i] = IF i <= Len(f) THEN f[i] ELSE none[i - Len(f)]
  BY <1>0, Zenon
<1> HIDE DEF g
<1>4. g \in Seq(H) /\ Len(g) = m + n
  BY <1>1, <1>2, <1>3
<1>5. \A i \in 1 .. m + n : g[i] = IF i <= m THEN f[i] ELSE none[i - m]
  BY <1>1, <1>2, <1>3
<1>6. g \in [1 .. m + n -> H]
  <2>1. g \in [1 .. Len(g) -> H]
    BY <1>4, LenProperties
  <2>2. QED BY <1>4, <2>1
<1>7. \A i \in 1 .. m : g[i] = f[i]
  BY <1>5
<1>8. \A i \in (1 .. m + n) \ (1 .. m) : g[i] = {}
  BY <1>2, <1>5
<1>9. QED BY <1>6, <1>7, <1>8 DEF g

LEMMA StoreBase ==
    ASSUME Base, NEW names \in Seq(Names), IsInjective(names), Range(names) \cap Loaded = {}, Store(names)
    PROVE  /\ Base'
           /\ \A i \in DOMAIN state : i \in DOMAIN state' /\ state'[i] = state[i] /\ held'[i] = held[i]
                  /\ abandoned'[i] = abandoned[i]
           /\ \A i \in DOMAIN state' \ DOMAIN state : state'[i] = "Created" /\ abandoned'[i] = {}
           /\ Len(module_order_') >= Len(module_order_)
           /\ \A a \in DOMAIN module_order_ : module_order_'[a] = module_order_[a]
           /\ \A a \in DOMAIN module_order_' \ DOMAIN module_order_ : module_order_'[a] \in Loaded' \ Loaded
           /\ \A n \in Loaded : n \in Loaded' /\ modules_by_name_'[n] = modules_by_name_[n]
           /\ \A n \in Loaded' \ Loaded : modules_by_name_'[n] \notin DOMAIN state
<1> DEFINE at(n) == CHOOSE k \in DOMAIN names : names[k] = n
           id(n) == Len(state) + at(n)
           new == [k \in DOMAIN names |-> "Created"]
<1>1. TypeOK /\ Tables /\ Holds
  BY DEF Base
<1>2. /\ Len(state) + Len(names) <= MaxInstances
      /\ modules_by_name_' = [n \in Loaded \cup Range(names) |->
             IF n \in Loaded THEN modules_by_name_[n] ELSE id(n)]
      /\ module_order_' = module_order_ \o names
      /\ services_by_key_' = {s \in services_by_key_ : s[2] \notin Range(names)}
             \cup UNION {{<<key, n, id(n)>> : key \in Provides[n]} : n \in Range(names)}
      /\ state' = state \o new
      /\ held' = held \o [k \in DOMAIN names |-> {}]
      /\ abandoned' = abandoned \o [k \in DOMAIN names |-> {}]
      /\ inited' = FALSE /\ with_context' = with_context /\ stuck' = stuck
      /\ sweep' = sweep /\ direct' = direct
  BY DEF Store
<1>3. Len(names) \in Nat /\ DOMAIN names = 1 .. Len(names) /\ Len(state) \in Nat /\ DOMAIN state = 1 .. Len(state)
  BY <1>1 DEF TypeOK
<1>4. ASSUME NEW n \in Range(names)
      PROVE  at(n) \in 1 .. Len(names) /\ names[at(n)] = n /\ id(n) \in Len(state) + 1 .. Len(state) + Len(names)
  <2>1. \E k \in DOMAIN names : names[k] = n
    BY DEF Range
  <2>2. at(n) \in DOMAIN names /\ names[at(n)] = n
    BY <2>1
  <2> HIDE DEF at
  <2>3. QED BY <1>3, <2>2
<1>5. \A n, m \in Range(names) : id(n) = id(m) => n = m
  <2> SUFFICES ASSUME NEW n \in Range(names), NEW m \in Range(names), id(n) = id(m) PROVE n = m
    OBVIOUS
  <2>1. at(n) \in 1 .. Len(names) /\ at(m) \in 1 .. Len(names) /\ names[at(n)] = n /\ names[at(m)] = m
    BY <1>4
  <2> HIDE DEF at
  <2>2. QED BY <1>3, <2>1
<1> HIDE DEF id
<1>6. /\ state' \in Seq(States) /\ Len(state') = Len(state) + Len(names)
      /\ \A i \in DOMAIN state : state'[i] = state[i]
      /\ \A i \in DOMAIN state' \ DOMAIN state : state'[i] = "Created"
  <2>1. new \in Seq(States) /\ Len(new) = Len(names) /\ state \in Seq(States)
    BY <1>1, <1>3 DEF States, TypeOK
  <2>2. /\ state \o new \in Seq(States) /\ Len(state \o new) = Len(state) + Len(new)
        /\ \A i \in 1 .. Len(state) + Len(new) :
               (state \o new)[i] = IF i <= Len(state) THEN state[i] ELSE new[i - Len(state)]
    BY <2>1, ConcatProperties
  <2>3. \A k \in 1 .. Len(names) : new[k] = "Created"
    BY <1>3
  <2> HIDE DEF new
  <2>4. DOMAIN state' = 1 .. Len(state) + Len(names)
    BY <1>2, <1>3, <2>1, <2>2
  <2>5. QED BY <1>2, <1>3, <2>1, <2>2, <2>3, <2>4
<1>7. DOMAIN state' = 1 .. Len(state) + Len(names) /\ DOMAIN state \subseteq DOMAIN state'
  BY <1>3, <1>6
<1>8. /\ held' \in [DOMAIN state' -> SUBSET {"init", "run"}]
      /\ \A i \in DOMAIN state : held'[i] = held[i]
      /\ \A i \in DOMAIN state' \ DOMAIN state : held'[i] = {}
  <2>1. held \in [1 .. Len(state) -> SUBSET {"init", "run"}]
    BY <1>1, <1>3 DEF TypeOK
  <2>2. /\ held' \in [1 .. Len(state) + Len(names) -> SUBSET {"init", "run"}]
        /\ \A i \in 1 .. Len(state) : held'[i] = held[i]
        /\ \A i \in (1 .. Len(state) + Len(names)) \ (1 .. Len(state)) : held'[i] = {}
    <3> DEFINE H == SUBSET {"init", "run"}
               none == [k \in DOMAIN names |-> {}]
    <3>1. held' = held \o none /\ {} \in H /\ none \in [1 .. Len(names) -> {{}}]
          /\ held \in [1 .. Len(state) -> H]
      BY <1>2, <1>3, <2>1
    <3> HIDE DEF H, none
    <3>2. /\ held \o none \in [1 .. Len(state) + Len(names) -> H]
          /\ \A i \in 1 .. Len(state) : (held \o none)[i] = held[i]
          /\ \A i \in (1 .. Len(state) + Len(names)) \ (1 .. Len(state)) : (held \o none)[i] = {}
      BY ONLY <1>3, <3>1, NoneHeld, Zenon
    <3>3. QED BY <3>1, <3>2, Zenon DEF H
  <2>3. QED BY <1>3, <1>7, <2>2
<1>8a. /\ abandoned' \in [DOMAIN state' -> SUBSET {"init", "run"}]
       /\ \A i \in DOMAIN state : abandoned'[i] = abandoned[i]
       /\ \A i \in DOMAIN state' \ DOMAIN state : abandoned'[i] = {}
  <2>1. abandoned \in [1 .. Len(state) -> SUBSET {"init", "run"}]
    BY <1>1, <1>3 DEF TypeOK
  <2>2. /\ abandoned' \in [1 .. Len(state) + Len(names) -> SUBSET {"init", "run"}]
        /\ \A i \in 1 .. Len(state) : abandoned'[i] = abandoned[i]
        /\ \A i \in (1 .. Len(state) + Len(names)) \ (1 .. Len(state)) : abandoned'[i] = {}
    <3> DEFINE H == SUBSET {"init", "run"}
               none == [k \in DOMAIN names |-> {}]
    <3>1. abandoned' = abandoned \o none /\ {} \in H /\ none \in [1 .. Len(names) -> {{}}]
          /\ abandoned \in [1 .. Len(state) -> H]
      BY <1>2, <1>3, <2>1
    <3> HIDE DEF H, none
    <3>2. /\ abandoned \o none \in [1 .. Len(state) + Len(names) -> H]
          /\ \A i \in 1 .. Len(state) : (abandoned \o none)[i] = abandoned[i]
          /\ \A i \in (1 .. Len(state) + Len(names)) \ (1 .. Len(state)) : (abandoned \o none)[i] = {}
      BY ONLY <1>3, <3>1, NoneHeld, Zenon
    <3>3. QED BY <3>1, <3>2, Zenon DEF H
  <2>3. QED BY <1>3, <1>7, <2>2
<1>9. /\ module_order_' \in Seq(Names) /\ IsInjective(module_order_')
      /\ Range(module_order_') = Loaded \cup Range(names)
  <2>1. /\ module_order_ \in Seq(Names) /\ IsInjective(module_order_) /\ Range(module_order_) = Loaded
    BY <1>1 DEF TypeOK
  <2>2. /\ module_order_' \in Seq(Names) /\ Len(module_order_') = Len(module_order_) + Len(names)
        /\ \A i \in 1 .. Len(module_order_) + Len(names) : module_order_'[i] =
               IF i <= Len(module_order_) THEN module_order_[i] ELSE names[i - Len(module_order_)]
    BY <1>2, <2>1, ConcatProperties
  <2>3. DOMAIN module_order_ = 1 .. Len(module_order_) /\ Len(module_order_) \in Nat
        /\ DOMAIN module_order_' = 1 .. Len(module_order_) + Len(names)
    BY <1>3, <2>1, <2>2
  <2>4. /\ \A i \in DOMAIN module_order_ : module_order_[i] \in Loaded
        /\ \A k \in DOMAIN names : names[k] \in Range(names) /\ names[k] \notin Loaded
    BY <2>1 DEF Range
  <2>5. ASSUME NEW i \in DOMAIN module_order_', NEW j \in DOMAIN module_order_',
               module_order_'[i] = module_order_'[j]
        PROVE  i = j
    <3>1. CASE i <= Len(module_order_) /\ j <= Len(module_order_)
      BY <2>1, <2>2, <2>3, <2>5, <3>1 DEF IsInjective
    <3>2. CASE i > Len(module_order_) /\ j > Len(module_order_)
      <4>1. i - Len(module_order_) \in DOMAIN names /\ j - Len(module_order_) \in DOMAIN names
        BY <1>3, <2>3, <3>2
      <4>2. names[i - Len(module_order_)] = names[j - Len(module_order_)]
        BY <2>2, <2>3, <2>5, <3>2
      <4>3. i - Len(module_order_) = j - Len(module_order_)
        BY <4>1, <4>2 DEF IsInjective
      <4>4. QED BY <2>3, <4>3
    <3>3. CASE i <= Len(module_order_) /\ j > Len(module_order_)
      <4>1. i \in DOMAIN module_order_ /\ j - Len(module_order_) \in DOMAIN names
        BY <1>3, <2>3, <3>3
      <4>2. module_order_'[i] = module_order_[i] /\ module_order_'[j] = names[j - Len(module_order_)]
        BY <2>2, <2>3, <3>3
      <4>3. QED BY <2>4, <2>5, <4>1, <4>2
    <3>4. CASE i > Len(module_order_) /\ j <= Len(module_order_)
      <4>1. j \in DOMAIN module_order_ /\ i - Len(module_order_) \in DOMAIN names
        BY <1>3, <2>3, <3>4
      <4>2. module_order_'[j] = module_order_[j] /\ module_order_'[i] = names[i - Len(module_order_)]
        BY <2>2, <2>3, <3>4
      <4>3. QED BY <2>4, <2>5, <4>1, <4>2
    <3>5. QED BY <2>3, <3>1, <3>2, <3>3, <3>4
  <2>6. Range(module_order_') = Loaded \cup Range(names)
    BY <1>2, <2>1, RangeConcatenation
  <2>7. QED BY <2>2, <2>5, <2>6 DEF IsInjective
<1>10. Loaded' = Loaded \cup Range(names)
  BY <1>2 DEF Loaded
<1>11. /\ \A n \in Loaded : modules_by_name_'[n] = modules_by_name_[n] /\ modules_by_name_[n] \in DOMAIN state
       /\ \A n \in Range(names) : modules_by_name_'[n] = id(n) /\ n \notin Loaded /\ n \in Names
  <2>1. \A n \in Loaded : modules_by_name_[n] \in DOMAIN state
    BY <1>1 DEF TypeOK
  <2>2. Range(names) \subseteq Names
    BY <1>3 DEF Range
  <2>3. QED BY <1>2, <2>1, <2>2
<1>12. ASSUME NEW s \in services_by_key_'
       PROVE  /\ s \in ServiceKeys \X Names \X (DOMAIN state')
              /\ s[2] \in Loaded' /\ s[1] \in Provides[s[2]] /\ s[3] = modules_by_name_'[s[2]]
  <2>1. CASE s \in services_by_key_
    <3>1. s \in ServiceKeys \X Names \X (DOMAIN state)
      BY <1>1, <2>1 DEF TypeOK
    <3>2. s[2] \in Loaded /\ s[1] \in Provides[s[2]] /\ s[3] = modules_by_name_[s[2]]
      BY <1>1, <2>1 DEF Tables
    <3>3. QED BY <1>7, <1>10, <1>11, <3>1, <3>2
  <2>2. CASE s \notin services_by_key_
    <3>1. PICK n \in Range(names) : \E key \in Provides[n] : s = <<key, n, id(n)>>
      BY <1>2, <1>12, <2>2
    <3>2. PICK key \in Provides[n] : s = <<key, n, id(n)>>
      BY <3>1
    <3>3. n \in Names /\ key \in ServiceKeys /\ id(n) \in DOMAIN state'
      BY <1>3, <1>4, <1>7, <1>11 DEF ModuleLifecycleAssumption
    <3>4. modules_by_name_'[n] = id(n) /\ n \in Loaded'
      BY <1>10, <1>11
    <3>5. QED BY <3>2, <3>3, <3>4
  <2>3. QED BY <2>1, <2>2
<1>13. TypeOK'
  <2>1. Loaded' \subseteq Names /\ \A n \in Loaded' : modules_by_name_'[n] \in DOMAIN state'
    <3>1. Loaded \subseteq Names
      BY <1>1 DEF TypeOK
    <3>2. \A n \in Range(names) : id(n) \in DOMAIN state'
      BY <1>3, <1>4, <1>7
    <3>3. \A n \in Loaded : modules_by_name_'[n] \in DOMAIN state'
      BY <1>7, <1>11
    <3>4. QED BY <1>10, <1>11, <3>1, <3>2, <3>3
  <2>2. services_by_key_' \subseteq ServiceKeys \X Names \X (DOMAIN state')
    BY <1>12
  <2>3. with_context' \subseteq DOMAIN state' /\ stuck' \subseteq DOMAIN state' /\ Len(state') <= MaxInstances
    BY <1>1, <1>2, <1>6, <1>7 DEF TypeOK
  <2>4. sweep.left \in Seq(Loaded') /\ sweep.over \in SUBSET DOMAIN state'
    <3>1. sweep.left \in Seq(Loaded) /\ sweep.over \in SUBSET DOMAIN state
      BY <1>1 DEF TypeOK
    <3>2. QED BY <1>7, <1>10, <3>1, SeqMonotonic
  <2>5. sweep' \in [op : {"none", "Init", "Start", "Stop", "Fini"}, over : SUBSET DOMAIN state',
                    left : Seq(Loaded'), result : {"ok", "failed", "refused"},
                    busy : BOOLEAN, fresh : BOOLEAN]
    BY <1>1, <1>2, <2>4 DEF TypeOK
  <2>6. inited' \in BOOLEAN /\ direct' \in Nat
    BY <1>1, <1>2 DEF TypeOK
  <2>7. QED BY <1>6, <1>8, <1>8a, <1>9, <1>10, <2>1, <2>2, <2>3, <2>5, <2>6 DEF TypeOK
<1>14. Tables'
  <2>1. modules_by_name_' \in [Loaded' -> DOMAIN state']
    <3>1. \A n \in Loaded' : modules_by_name_'[n] \in DOMAIN state'
      BY <1>13 DEF TypeOK
    <3>2. modules_by_name_' = [n \in Loaded' |-> modules_by_name_'[n]]
      BY <1>2, <1>10
    <3>3. QED BY <3>1, <3>2
  <2>2. \A n, m \in Loaded' : modules_by_name_'[n] = modules_by_name_'[m] => n = m
    <3>1. \A n, m \in Loaded : modules_by_name_[n] = modules_by_name_[m] => n = m
      BY <1>1 DEF Tables
    <3>2. \A n \in Range(names) : id(n) \notin DOMAIN state
      BY <1>3, <1>4
    <3>3. QED BY <1>5, <1>10, <1>11, <3>1, <3>2
  <2>3. \A s \in services_by_key_' :
            s[2] \in Loaded' /\ s[1] \in Provides[s[2]] /\ s[3] = modules_by_name_'[s[2]]
    BY <1>12
  <2>0. services_by_key_' = {s \in services_by_key_ : s[2] \notin Range(names)}
            \cup UNION {{<<key, n, id(n)>> : key \in Provides[n]} : n \in Range(names)}
    BY <1>2
  <2>4. ASSUME NEW n \in Loaded', NEW key \in Provides[n]
        PROVE  <<key, n, modules_by_name_'[n]>> \in services_by_key_'
    <3>1. CASE n \in Loaded
      <4>1. <<key, n, modules_by_name_[n]>> \in services_by_key_ /\ n \notin Range(names)
        BY <1>1, <3>1 DEF Tables
      <4>2. <<key, n, modules_by_name_[n]>> \in {s \in services_by_key_ : s[2] \notin Range(names)}
        BY <4>1
      <4>3. <<key, n, modules_by_name_[n]>> \in services_by_key_'
        BY ONLY <2>0, <4>2, Zenon
      <4>4. QED BY <1>11, <3>1, <4>3
    <3>2. CASE n \in Range(names)
      <4>1. <<key, n, id(n)>> \in {<<k, n, id(n)>> : k \in Provides[n]}
        BY <2>4
      <4>0. {<<k, n, id(n)>> : k \in Provides[n]}
                \in {{<<k, m, id(m)>> : k \in Provides[m]} : m \in Range(names)}
        BY ONLY <3>2
      <4>2. <<key, n, id(n)>> \in UNION {{<<k, m, id(m)>> : k \in Provides[m]} : m \in Range(names)}
        BY ONLY <4>0, <4>1
      <4>3. <<key, n, id(n)>> \in services_by_key_'
        BY ONLY <2>0, <4>2, Zenon
      <4>4. modules_by_name_'[n] = id(n)
        BY ONLY <1>11, <3>2
      <4>5. QED BY ONLY <4>3, <4>4
    <3>3. QED BY <1>10, <2>4, <3>1, <3>2
  <2>5. QED BY <2>1, <2>2, <2>3, <2>4 DEF Tables
<1>15. Holds'
  <2> SUFFICES ASSUME NEW i \in DOMAIN state' PROVE HoldsFor(i)'
    BY DEF Holds
  <2>1. CASE i \in DOMAIN state
    <3>1. HoldsFor(i)
      BY <1>1, <2>1 DEF Holds
    <3>2. state'[i] = state[i] /\ held'[i] = held[i] /\ abandoned'[i] = abandoned[i]
          /\ with_context' = with_context
      BY <1>2, <1>6, <1>8, <1>8a, <2>1
    <3>3. QED BY <3>1, <3>2 DEF HoldsFor
  <2>2. CASE i \notin DOMAIN state
    <3>1. state'[i] = "Created" /\ held'[i] = {} /\ i \notin with_context'
      BY <1>1, <1>2, <1>6, <1>8, <2>2 DEF TypeOK
    <3>2. QED BY <3>1 DEF HoldsFor
  <2>3. QED BY <2>1, <2>2
<1>16. /\ Len(module_order_') >= Len(module_order_)
       /\ \A a \in DOMAIN module_order_ : module_order_'[a] = module_order_[a]
       /\ \A a \in DOMAIN module_order_' \ DOMAIN module_order_ : module_order_'[a] \in Loaded' \ Loaded
  <2>1. module_order_ \in Seq(Names)
    BY <1>1 DEF TypeOK
  <2>2. /\ Len(module_order_') = Len(module_order_) + Len(names) /\ module_order_' \in Seq(Names)
        /\ \A a \in 1 .. Len(module_order_) + Len(names) : module_order_'[a] =
               IF a <= Len(module_order_) THEN module_order_[a] ELSE names[a - Len(module_order_)]
    BY <1>2, <2>1, ConcatProperties
  <2>3. DOMAIN module_order_ = 1 .. Len(module_order_) /\ Len(module_order_) \in Nat
        /\ DOMAIN module_order_' = 1 .. Len(module_order_) + Len(names)
    BY <1>3, <2>1, <2>2
  <2>4. \A k \in DOMAIN names : names[k] \in Loaded' \ Loaded
    BY <1>10, <1>11 DEF Range
  <2>5. ASSUME NEW a \in DOMAIN module_order_' \ DOMAIN module_order_
        PROVE  module_order_'[a] \in Loaded' \ Loaded
    <3>1. a - Len(module_order_) \in DOMAIN names /\ module_order_'[a] = names[a - Len(module_order_)]
      BY <1>3, <2>2, <2>3
    <3>2. QED BY <2>4, <3>1
  <2>6. \A a \in DOMAIN module_order_ : module_order_'[a] = module_order_[a]
    BY <1>3, <2>2, <2>3
  <2>7. QED BY <1>3, <2>2, <2>3, <2>5, <2>6
<1>17. \A n \in Loaded' \ Loaded : modules_by_name_'[n] \notin DOMAIN state
  BY <1>3, <1>4, <1>10, <1>11
<1>18. Base'
  BY <1>13, <1>14, <1>15 DEF Base
<1>19. QED BY <1>6, <1>7, <1>8, <1>8a, <1>10, <1>11, <1>16, <1>17, <1>18

LEMMA DirectBase ==
    ASSUME Base, NEW name \in Loaded, Direct(name)
    PROVE  Base' /\ InTurn
<1>0. TypeOK /\ Tables /\ Holds /\ modules_by_name_[name] \in DOMAIN state
  BY DEF Base, TypeOK
<1>1. PICK i \in DOMAIN state : i = modules_by_name_[name]
  BY <1>0
<1>2. /\ direct' = direct + 1 /\ UNCHANGED <<tables, sweep, inited>>
      /\ \E o \in ModuleInit(i) \cup ModuleStart(i) \cup ModuleStop(i) \cup ModuleFini(i) : Takes(i, o)
  BY <1>1 DEF Direct
<1>3. PICK o \in ModuleInit(i) \cup ModuleStart(i) \cup ModuleStop(i) \cup ModuleFini(i) : Takes(i, o)
  BY <1>2
<1>4. Frame(i) /\ InTurn /\ HoldsFor(i)'
  BY <1>0, <1>3, CallFacts
<1>5. SweepTyped'
  <2>1. DOMAIN state' = DOMAIN state /\ Loaded' = Loaded /\ sweep' = sweep /\ inited' = inited
    BY <1>2, <1>4 DEF Frame, tables, Loaded
  <2>2. QED BY <1>0, <1>2, <2>1 DEF TypeOK, SweepTyped
<1>6. QED BY <1>0, <1>2, <1>4, <1>5, CallKeeps DEF Base

\* A sweep that calls the module it is at.
SweepCall(i, o) ==
    /\ Takes(i, o)
    /\ UntilError(o) \/ FirstError(o)
    /\ UNCHANGED <<tables, inited, direct>>

LEMMA SweepCallBase ==
    ASSUME Base, sweep.left # <<>>,
           NEW o \in ModuleInit(Current) \cup ModuleStart(Current) \cup ModuleStop(Current) \cup ModuleFini(Current),
           SweepCall(Current, o)
    PROVE  Base' /\ InTurn
<1>0. TypeOK /\ Tables /\ Holds /\ Current \in DOMAIN state
  BY CurrentFacts DEF Base
<1>1. PICK i \in DOMAIN state : i = Current
  BY <1>0
<1>2. Frame(i) /\ InTurn /\ HoldsFor(i)' /\ o.result \in {"ok", "failed", "refused"}
  <2>1. Takes(i, o) /\ o \in ModuleInit(i) \cup ModuleStart(i) \cup ModuleStop(i) \cup ModuleFini(i)
    BY <1>1 DEF SweepCall
  <2>2. QED BY <1>0, <2>1, CallFacts
<1>3. DOMAIN state' = DOMAIN state
  BY <1>2 DEF Frame
<1>4. SweepTyped'
  BY <1>0, <1>2, <1>3, UntilGoesOn, FirstGoesOn DEF SweepCall
<1>5. UNCHANGED tables
  BY DEF SweepCall
<1>6. QED BY <1>0, <1>2, <1>4, <1>5, CallKeeps DEF Base

LEMMA ReturnBase ==
    ASSUME Base, Return
    PROVE  Base'
<1>1. /\ sweep.left = <<>> /\ sweep' = [sweep EXCEPT !.busy = FALSE]
      /\ inited' = (sweep.op # "Fini" /\ (inited \/ (sweep.op = "Init" /\ sweep.result = "ok")))
      /\ UNCHANGED <<instance, direct>>
  BY DEF Return
<1>2. TypeOK /\ Tables /\ Holds
  BY DEF Base
<1>3. inited' \in BOOLEAN /\ direct' \in Nat
  BY <1>1, <1>2 DEF TypeOK
<1>4. state' = state /\ with_context' = with_context /\ held' = held /\ abandoned' = abandoned /\ stuck' = stuck
  BY <1>1 DEF instance
<1>5. sweep' \in [op : {"none", "Init", "Start", "Stop", "Fini"}, over : SUBSET DOMAIN state',
                  left : Seq(Loaded'), result : {"ok", "failed", "refused"},
                  busy : BOOLEAN, fresh : BOOLEAN]
  <2>1. sweep \in [op : {"none", "Init", "Start", "Stop", "Fini"}, over : SUBSET DOMAIN state',
                   left : Seq(Loaded), result : {"ok", "failed", "refused"},
                   busy : BOOLEAN, fresh : BOOLEAN]
    BY <1>2, <1>4 DEF TypeOK
  <2>2. QED BY <1>1, <2>1, EmptySeq
<1>6. Holds'
  <2>1. ASSUME NEW i \in DOMAIN state PROVE HoldsFor(i)'
    BY <1>2, <1>4 DEF Holds, HoldsFor
  <2>2. QED BY <1>4, <2>1 DEF Holds
<1>7. CASE sweep.op = "Fini"
  <2>1. modules_by_name_' = [n \in {} |-> 0] /\ module_order_' = <<>> /\ services_by_key_' = {}
    BY <1>7 DEF Return
  <2>2. Loaded' = {} /\ Range(module_order_') = {} /\ IsInjective(module_order_')
    BY <2>1 DEF Loaded, Range, IsInjective
  <2>3. TypeOK'
    BY <1>2, <1>3, <1>4, <1>5, <2>1, <2>2 DEF TypeOK
  <2>4. Tables'
    BY <2>1, <2>2 DEF Tables
  <2>5. QED BY <1>6, <2>3, <2>4 DEF Base
<1>8. CASE sweep.op # "Fini"
  <2>1. modules_by_name_' = modules_by_name_ /\ module_order_' = module_order_
        /\ services_by_key_' = services_by_key_ /\ Loaded' = Loaded
    BY <1>8 DEF Return, tables, Loaded
  <2>2. TypeOK'
    BY <1>2, <1>3, <1>4, <1>5, <2>1 DEF TypeOK
  <2>3. Tables'
    BY <1>2, <1>4, <2>1 DEF Tables
  <2>4. QED BY <1>6, <2>2, <2>3 DEF Base
<1>9. QED BY <1>7, <1>8

\* Steps that change the sweep alone.
LEMMA SweepOnlyBase ==
    ASSUME Base, UNCHANGED <<tables, instance, inited, direct>>,
           sweep' \in [op : {"none", "Init", "Start", "Stop", "Fini"}, over : SUBSET DOMAIN state,
                       left : Seq(Loaded), result : {"ok", "failed", "refused"},
                       busy : BOOLEAN, fresh : BOOLEAN]
    PROVE  Base'
<1>1. /\ modules_by_name_' = modules_by_name_ /\ module_order_' = module_order_
      /\ services_by_key_' = services_by_key_ /\ Loaded' = Loaded
      /\ state' = state /\ with_context' = with_context /\ held' = held /\ abandoned' = abandoned /\ stuck' = stuck
      /\ inited' = inited /\ direct' = direct
  BY DEF tables, instance, Loaded
<1>2. TypeOK /\ Tables /\ Holds
  BY DEF Base
<1>3. TypeOK'
  BY <1>1, <1>2 DEF TypeOK
<1>4. Tables'
  BY <1>1, <1>2 DEF Tables
<1>5. Holds'
  <2>1. ASSUME NEW i \in DOMAIN state PROVE HoldsFor(i)'
    BY <1>1, <1>2 DEF Holds, HoldsFor
  <2>2. QED BY <1>1, <2>1 DEF Holds
<1>6. QED BY <1>3, <1>4, <1>5 DEF Base

LEMMA OrderInLoaded ==
    ASSUME TypeOK
    PROVE  module_order_ \in Seq(Loaded) /\ Reverse(module_order_) \in Seq(Loaded)
<1>1. module_order_ \in Seq(Names) /\ Range(module_order_) = Loaded
  BY DEF TypeOK
<1>2. /\ Len(module_order_) \in Nat /\ DOMAIN module_order_ = 1 .. Len(module_order_)
      /\ \A k \in 1 .. Len(module_order_) : module_order_[k] \in Loaded
  BY <1>1 DEF Range
<1>3. QED BY <1>1, <1>2, SeqDef DEF Reverse

LEMMA BeginBase ==
    ASSUME Base, NEW op \in {"Init", "Start", "Stop", "Fini"}, NEW order \in Seq(Loaded), Begin(op, order)
    PROVE  Base'
<1>1. /\ UNCHANGED <<tables, instance, inited, direct>>
      /\ sweep' = [op |-> op, over |-> Range(modules_by_name_), left |-> order, result |-> "ok",
                   busy |-> TRUE, fresh |-> inited /\ sweep.op \in {"Init", "Stop"} /\ sweep.result = "ok"]
  BY DEF Begin
<1>2. Range(modules_by_name_) \subseteq DOMAIN state
  BY DEF Base, Tables, Range
<1>3. (inited /\ sweep.op \in {"Init", "Stop"} /\ sweep.result = "ok") \in BOOLEAN
  BY DEF Base, TypeOK
<1>4. QED BY <1>1, <1>2, <1>3, SweepOnlyBase

LEMMA NextBase ==
    ASSUME Base, Next
    PROVE  Base' /\ InTurn
<1>0. TypeOK
  BY DEF Base
<1>1. ASSUME NEW name \in Names, LoadModule(name) PROVE Base' /\ InTurn
  <2>1. /\ <<name>> \in Seq(Names) /\ IsInjective(<<name>>)
        /\ Range(<<name>>) = {name} /\ name \notin Loaded /\ Store(<<name>>)
    BY <1>1 DEF LoadModule, IsInjective, Range
  <2>2. ran' = <<>>
    BY <2>1 DEF Store
  <2>3. QED BY <2>1, <2>2, StoreBase, NoHooks
<1>2. ASSUME NEW names \in Files, LoadModules(names) PROVE Base' /\ InTurn
  <2>1. ran' = <<>>
    BY <1>2 DEF LoadModules, Store
  <2>2. names \in Seq(Names)
    BY DEF ModuleLifecycleAssumption
  <2>3. QED BY <1>2, <2>1, <2>2, StoreBase, NoHooks DEF LoadModules
<1>3. ASSUME NEW name \in Loaded, Direct(name) PROVE Base' /\ InTurn
  BY <1>3, DirectBase
<1>4. CASE InitBegin \/ StartBegin \/ StopBegin \/ FiniBegin
  <2>1. PICK op \in {"Init", "Start", "Stop", "Fini"}, order \in Seq(Loaded) : Begin(op, order)
    BY <1>0, <1>4, OrderInLoaded DEF InitBegin, StartBegin, StopBegin, FiniBegin
  <2>2. ran' = <<>>
    BY <2>1 DEF Begin
  <2>3. QED BY <2>1, <2>2, BeginBase, NoHooks
<1>5. CASE InitModule \/ StartModule \/ StopModule \/ FiniModule
  <2>1. PICK o \in ModuleInit(Current) \cup ModuleStart(Current) \cup ModuleStop(Current) \cup ModuleFini(Current) :
            SweepCall(Current, o)
    BY <1>5 DEF InitModule, StartModule, StopModule, FiniModule, SweepCall
  <2>2. sweep.left # <<>>
    BY <1>5 DEF InitModule, StartModule, StopModule, FiniModule, Here
  <2>3. QED BY <2>1, <2>2, SweepCallBase
<1>6. CASE SkipModule
  <2>1. /\ sweep.left # <<>> /\ sweep' = [sweep EXCEPT !.left = Tail(@)] /\ ran' = <<>>
        /\ UNCHANGED <<tables, instance, inited, direct>>
    BY <1>6 DEF SkipModule, Here
  <2>2. Tail(sweep.left) \in Seq(Loaded)
    BY <1>0, <2>1, CurrentFacts
  <2>3. sweep' \in [op : {"none", "Init", "Start", "Stop", "Fini"}, over : SUBSET DOMAIN state,
                    left : Seq(Loaded), result : {"ok", "failed", "refused"},
                    busy : BOOLEAN, fresh : BOOLEAN]
    BY <1>0, <2>1, <2>2 DEF TypeOK
  <2>4. QED BY <2>1, <2>3, SweepOnlyBase, NoHooks
<1>7. CASE Return
  <2>1. ran' = <<>>
    BY <1>7 DEF Return
  <2>2. QED BY <1>7, <2>1, ReturnBase, NoHooks
<1>8. QED BY <1>1, <1>2, <1>3, <1>4, <1>5, <1>6, <1>7 DEF Next

-----------------------------------------------------------------------------
(* What the tables promise.                                                *)

LEMMA ServiceRows ==
    ASSUME Base, NEW key \in ServiceKeys
    PROVE  /\ \A s \in services_by_key_ : s[1] = key =>
                  s[2] \in Loaded /\ key \in Provides[s[2]] /\ s = <<key, s[2], modules_by_name_[s[2]]>>
           /\ \A n \in Names, i \in DOMAIN state : <<key, n, i>> \in services_by_key_ <=>
                  n \in Loaded /\ key \in Provides[n] /\ i = modules_by_name_[n]
<1>1. /\ services_by_key_ \subseteq ServiceKeys \X Names \X (DOMAIN state)
      /\ \A s \in services_by_key_ :
             s[2] \in Loaded /\ s[1] \in Provides[s[2]] /\ s[3] = modules_by_name_[s[2]]
      /\ \A n \in Loaded : \A k \in Provides[n] : <<k, n, modules_by_name_[n]>> \in services_by_key_
  BY DEF Base, TypeOK, Tables
<1>2. QED BY <1>1

LEMMA LoadedIsFinite ==
    ASSUME Base
    PROVE  IsFiniteSet(Loaded)
<1>1. module_order_ \in Seq(Names) /\ Range(module_order_) = Loaded
  BY DEF Base, TypeOK
<1>2. Len(module_order_) \in Nat /\ DOMAIN module_order_ = 1 .. Len(module_order_)
  BY <1>1
<1>3. module_order_ \in Surjection(1 .. Len(module_order_), Loaded)
  BY <1>1, <1>2 DEF Surjection, Range
<1>4. IsFiniteSet(1 .. Len(module_order_))
  BY <1>2, FS_Interval
<1>5. QED BY <1>3, <1>4, FS_Surjection

LEMMA ServicesFacts ==
    ASSUME Base
    PROVE  ServicesMatchModules
<1> SUFFICES ASSUME NEW key \in ServiceKeys
             PROVE  LET providers == {n \in Loaded : key \in Provides[n]}
                    IN  /\ \A n \in Names : Lookup(key, n) =
                               IF n \in providers THEN modules_by_name_[n] ELSE 0
                        /\ LookupUnique(key) # 0 <=> Cardinality(providers) = 1
                        /\ LookupUnique(key) # 0 => \E n \in providers : LookupUnique(key) = modules_by_name_[n]
  BY DEF ServicesMatchModules
<1> DEFINE providers == {n \in Loaded : key \in Provides[n]}
           rows == {s \in services_by_key_ : s[1] = key}
           row == [n \in providers |-> <<key, n, modules_by_name_[n]>>]
<1>1. /\ \A n \in Loaded : n \in Names /\ modules_by_name_[n] \in DOMAIN state
      /\ DOMAIN state = 1 .. Len(state) /\ Len(state) \in Nat
  BY DEF Base, TypeOK
<1>2. ASSUME NEW n \in Names
      PROVE  Lookup(key, n) = IF n \in providers THEN modules_by_name_[n] ELSE 0
  <2>1. \A i \in DOMAIN state : <<key, n, i>> \in services_by_key_ <=> n \in providers /\ i = modules_by_name_[n]
    BY ServiceRows
  <2>2. CASE n \in providers
    <3>1. modules_by_name_[n] \in DOMAIN state
      BY <1>1, <2>2
    <3>2. (CHOOSE i \in DOMAIN state : <<key, n, i>> \in services_by_key_) = modules_by_name_[n]
      BY <2>1, <2>2, <3>1
    <3>3. QED BY <2>1, <2>2, <3>1, <3>2 DEF Lookup
  <2>3. CASE n \notin providers
    BY <2>1, <2>3 DEF Lookup
  <2>4. QED BY <2>2, <2>3
<1>3. row \in Bijection(providers, rows)
  <2>1. \A n \in providers : row[n] \in rows
    BY <1>1, ServiceRows
  <2>2. \A n, m \in providers : row[n] = row[m] => n = m
    OBVIOUS
  <2>3. \A s \in rows : s[2] \in providers /\ row[s[2]] = s
    BY ServiceRows
  <2>4. row \in [providers -> rows]
    BY <2>1
  <2> HIDE DEF row, rows, providers
  <2>5. QED BY <2>2, <2>3, <2>4 DEF Bijection, Injection, Surjection, IsInjective
<1>4. Cardinality(rows) = Cardinality(providers) /\ IsFiniteSet(rows)
  <2>1. IsFiniteSet(providers)
    BY LoadedIsFinite, FS_Subset
  <2>2. ExistsBijection(providers, rows)
    BY <1>3 DEF ExistsBijection
  <2>3. QED BY <2>1, <2>2, FS_Bijection
<1>5. CASE Cardinality(rows) = 1
  <2>1. PICK s : rows = {s}
    BY <1>4, <1>5, FS_Singleton
  <2>2. (CHOOSE t \in rows : TRUE) \in rows
    BY <2>1
  <2>3. LookupUnique(key) = (CHOOSE t \in rows : TRUE)[3]
    BY <1>5 DEF LookupUnique
  <2>4. PICK t \in rows : LookupUnique(key) = t[3]
    BY <2>2, <2>3
  <2>5. t[2] \in providers /\ t[3] = modules_by_name_[t[2]] /\ t[3] # 0
    BY <1>1, ServiceRows
  <2>6. QED BY <1>2, <1>4, <1>5, <2>4, <2>5
<1>6. CASE Cardinality(rows) # 1
  <2>1. LookupUnique(key) = 0
    BY <1>6 DEF LookupUnique
  <2>2. QED BY <1>2, <1>4, <1>6, <2>1
<1>7. QED BY <1>5, <1>6

-----------------------------------------------------------------------------
(* Where a sweep stands.                                                   *)

\* The instance loaded as the a-th.
At(a) == modules_by_name_[module_order_[a]]

LEMMA OrderFacts ==
    ASSUME Base
    PROVE  /\ module_order_ \in Seq(Names) /\ Len(module_order_) \in Nat
           /\ DOMAIN module_order_ = 1 .. Len(module_order_)
           /\ \A a \in DOMAIN module_order_ : module_order_[a] \in Loaded /\ At(a) \in Instances
           /\ \A a, b \in DOMAIN module_order_ : module_order_[a] = module_order_[b] => a = b
           /\ \A a, b \in DOMAIN module_order_ : At(a) = At(b) => a = b
           /\ Instances \subseteq DOMAIN state
<1>1. /\ module_order_ \in Seq(Names) /\ Range(module_order_) = Loaded /\ IsInjective(module_order_)
      /\ \A n \in Loaded : modules_by_name_[n] \in DOMAIN state
      /\ \A n, m \in Loaded : modules_by_name_[n] = modules_by_name_[m] => n = m
  BY DEF Base, TypeOK, Tables
<1>2. \A a \in DOMAIN module_order_ : module_order_[a] \in Loaded
  BY <1>1 DEF Range
<1>3. \A a, b \in DOMAIN module_order_ : module_order_[a] = module_order_[b] => a = b
  BY <1>1 DEF IsInjective
<1>4. \A a \in DOMAIN module_order_ : At(a) \in Instances
  BY <1>2 DEF At, Instances
<1>5. Instances \subseteq DOMAIN state
  BY <1>1 DEF Instances
<1>6. \A a, b \in DOMAIN module_order_ : At(a) = At(b) => a = b
  BY <1>1, <1>2, <1>3 DEF At
<1>7. Len(module_order_) \in Nat /\ DOMAIN module_order_ = 1 .. Len(module_order_)
  BY <1>1
<1>8. QED BY <1>1, <1>2, <1>3, <1>4, <1>5, <1>6, <1>7

LEMMA LeftFacts ==
    ASSUME Base
    PROVE  /\ sweep.left \in Seq(Loaded) /\ Len(sweep.left) \in Nat
           /\ LeftOver = {modules_by_name_[sweep.left[k]] : k \in 1 .. Len(sweep.left)}
           /\ \A k \in 1 .. Len(sweep.left) : sweep.left[k] \in Loaded
           /\ sweep.left = <<>> => LeftOver = {}
<1>1. sweep.left \in Seq(Loaded)
  BY DEF Base, TypeOK
<1>2. /\ Len(sweep.left) \in Nat /\ DOMAIN sweep.left = 1 .. Len(sweep.left)
      /\ \A k \in 1 .. Len(sweep.left) : sweep.left[k] \in Loaded
  BY <1>1
<1>3. LeftOver = {modules_by_name_[sweep.left[k]] : k \in 1 .. Len(sweep.left)}
  BY <1>2 DEF LeftOver, Range
<1>4. sweep.left = <<>> => LeftOver = {}
  BY <1>3
<1>5. QED BY <1>1, <1>2, <1>3, <1>4

\* The position of the current module, and who is behind the sweep.
LEMMA Places ==
    ASSUME Base, Course, sweep.busy, sweep.left # <<>>
    PROVE  \E p \in DOMAIN module_order_ :
               /\ At(p) = Current
               /\ sweep.op \in {"Init", "Start"} =>
                      \A a \in DOMAIN module_order_ : a < p => At(a) \in sweep.over \ LeftOver
               /\ sweep.op \in {"Stop", "Fini"} =>
                      \A a \in DOMAIN module_order_ : a > p => At(a) \in sweep.over \ LeftOver
<1> DEFINE L == Len(module_order_)
           l == Len(sweep.left)
<1>0. TypeOK
  BY DEF Base
<1>1. L \in Nat /\ DOMAIN module_order_ = 1 .. L /\ l \in Nat \ {0} /\ l <= L
  BY <1>0, OrderFacts, CurrentFacts DEF Course
<1>2. sweep.over = Instances /\ Current = modules_by_name_[sweep.left[1]]
  BY <1>0, CurrentFacts DEF Course, Current
<1>3. ASSUME NEW a \in DOMAIN module_order_, \A k \in 1 .. l : sweep.left[k] # module_order_[a]
      PROVE  At(a) \in sweep.over \ LeftOver
  <2>1. At(a) \in Instances /\ module_order_[a] \in Loaded
    BY OrderFacts
  <2>2. ASSUME At(a) \in LeftOver PROVE FALSE
    <3>1. PICK k \in 1 .. l : At(a) = modules_by_name_[sweep.left[k]]
      BY <2>2, LeftFacts
    <3>2. sweep.left[k] \in Loaded
      BY LeftFacts
    <3>3. sweep.left[k] = module_order_[a]
      BY <2>1, <3>1, <3>2 DEF Base, Tables, At
    <3>4. QED BY <1>3, <3>3
  <2>3. QED BY <1>2, <2>1, <2>2
<1> HIDE DEF L, l
<1>4. CASE sweep.op \in {"Init", "Start"}
  <2>1. \A k \in 1 .. l : sweep.left[k] = module_order_[L - l + k]
    BY <1>4 DEF Course, L, l
  <2>2. L - l + 1 \in DOMAIN module_order_ /\ sweep.left[1] = module_order_[L - l + 1]
    BY <1>1, <2>1
  <2>3. ASSUME NEW a \in DOMAIN module_order_, a < L - l + 1
        PROVE  At(a) \in sweep.over \ LeftOver
    <3>1. ASSUME NEW k \in 1 .. l PROVE sweep.left[k] # module_order_[a]
      <4>1. L - l + k \in DOMAIN module_order_ /\ L - l + k # a
        BY <1>1, <2>3
      <4>2. QED BY <2>1, <4>1, OrderFacts
    <3>2. QED BY <1>3, <3>1
  <2>4. QED BY <1>2, <1>4, <2>2, <2>3 DEF At
<1>5. CASE sweep.op \in {"Stop", "Fini"}
  <2>1. \A k \in 1 .. l : sweep.left[k] = module_order_[l + 1 - k]
    BY <1>5 DEF Course, L, l
  <2>2. l \in DOMAIN module_order_ /\ sweep.left[1] = module_order_[l]
    BY <1>1, <2>1
  <2>3. ASSUME NEW a \in DOMAIN module_order_, a > l
        PROVE  At(a) \in sweep.over \ LeftOver
    <3>1. ASSUME NEW k \in 1 .. l PROVE sweep.left[k] # module_order_[a]
      <4>1. l + 1 - k \in DOMAIN module_order_ /\ l + 1 - k # a
        BY <1>1, <2>3
      <4>2. QED BY <2>1, <4>1, OrderFacts
    <3>2. QED BY <1>3, <3>1
  <2>4. QED BY <1>2, <1>5, <2>2, <2>3 DEF At
<1>6. sweep.op # "none"
  BY DEF Course
<1>7. QED BY <1>0, <1>4, <1>5, <1>6 DEF TypeOK

\* A sweep that goes on has come past its current module and no other.
LEMMA TailLeft ==
    ASSUME Base, Course, sweep.busy, sweep.left # <<>>,
           modules_by_name_' = modules_by_name_, sweep'.left = Tail(sweep.left)
    PROVE  /\ Current \in LeftOver
           /\ LeftOver' \subseteq LeftOver \ {Current}
           /\ LeftOver \subseteq LeftOver' \cup {Current}
<1> DEFINE L == Len(module_order_)
           l == Len(sweep.left)
<1>0. TypeOK
  BY DEF Base
<1>1. L \in Nat /\ DOMAIN module_order_ = 1 .. L /\ l \in Nat \ {0} /\ l <= L
  BY <1>0, OrderFacts, CurrentFacts DEF Course
<1>2. ASSUME NEW j \in 1 .. l, NEW k \in 1 .. l, sweep.left[j] = sweep.left[k] PROVE j = k
  <2>1. CASE sweep.op \in {"Init", "Start"}
    <3>1. sweep.left[j] = module_order_[L - l + j] /\ sweep.left[k] = module_order_[L - l + k]
      BY <2>1 DEF Course
    <3> HIDE DEF L, l
    <3>2. L - l + j \in DOMAIN module_order_ /\ L - l + k \in DOMAIN module_order_
      BY <1>1
    <3>3. L - l + j = L - l + k
      BY <1>2, <3>1, <3>2, OrderFacts
    <3>4. QED BY <1>1, <3>3
  <2>2. CASE sweep.op \in {"Stop", "Fini"}
    <3>1. sweep.left[j] = module_order_[l + 1 - j] /\ sweep.left[k] = module_order_[l + 1 - k]
      BY <2>2 DEF Course
    <3> HIDE DEF L, l
    <3>2. l + 1 - j \in DOMAIN module_order_ /\ l + 1 - k \in DOMAIN module_order_
      BY <1>1
    <3>3. l + 1 - j = l + 1 - k
      BY <1>2, <3>1, <3>2, OrderFacts
    <3>4. QED BY <1>1, <3>3
  <2>3. sweep.op # "none"
    BY DEF Course
  <2>4. QED BY <1>0, <2>1, <2>2, <2>3 DEF TypeOK
<1>3. LeftOver = {modules_by_name_[sweep.left[k]] : k \in 1 .. l} /\ \A k \in 1 .. l : sweep.left[k] \in Loaded
  BY LeftFacts
<1>4. Current = modules_by_name_[sweep.left[1]]
  BY <1>0, CurrentFacts DEF Current
<1>5. LeftOver' = {modules_by_name_[sweep.left[k + 1]] : k \in 1 .. l - 1}
  <2>1. /\ Tail(sweep.left) \in Seq(Loaded) /\ Len(Tail(sweep.left)) = l - 1
        /\ \A k \in 1 .. l - 1 : Tail(sweep.left)[k] = sweep.left[k + 1]
    BY <1>0, CurrentFacts
  <2>2. DOMAIN Tail(sweep.left) = 1 .. l - 1
    BY <2>1
  <2>3. LeftOver' = {modules_by_name_[sweep'.left[k]] : k \in 1 .. l - 1}
    BY <2>2 DEF LeftOver, Range
  <2>4. QED BY <2>1, <2>3
<1> HIDE DEF L, l
<1>6. \A n, m \in Loaded : modules_by_name_[n] = modules_by_name_[m] => n = m
  BY DEF Base, Tables
<1>7. \A k \in 1 .. l - 1 : k + 1 \in 1 .. l /\ sweep.left[k + 1] # sweep.left[1]
  BY <1>1, <1>2
<1>8. LeftOver' \subseteq LeftOver \ {Current}
  BY <1>1, <1>3, <1>4, <1>5, <1>6, <1>7
<1>9. LeftOver \subseteq LeftOver' \cup {Current}
  <2> SUFFICES ASSUME NEW k \in 1 .. l, k # 1 PROVE modules_by_name_[sweep.left[k]] \in LeftOver'
    BY <1>3, <1>4
  <2>1. k - 1 \in 1 .. l - 1 /\ (k - 1) + 1 = k
    BY <1>1
  <2>2. QED BY <1>5, <2>1
<1>10. QED BY <1>1, <1>3, <1>4, <1>8, <1>9

LEMMA CourseSame ==
    ASSUME Course, sweep' = sweep, inited' = inited, module_order_' = module_order_, Instances' = Instances
    PROVE  Course'
<1>1. ASSUME sweep'.op \in {"Init", "Start"}, NEW k \in 1 .. Len(sweep'.left)
      PROVE  sweep'.left[k] = module_order_'[Len(module_order_') - Len(sweep'.left) + k]
  <2>1. sweep.left[k] = module_order_[Len(module_order_) - Len(sweep.left) + k]
    BY <1>1 DEF Course
  <2>2. QED BY ONLY <2>1, sweep' = sweep, module_order_' = module_order_
<1>2. ASSUME sweep'.op \in {"Stop", "Fini"}, NEW k \in 1 .. Len(sweep'.left)
      PROVE  sweep'.left[k] = module_order_'[Len(sweep'.left) + 1 - k]
  <2>1. sweep.left[k] = module_order_[Len(sweep.left) + 1 - k]
    BY <1>2 DEF Course
  <2>2. QED BY ONLY <2>1, sweep' = sweep, module_order_' = module_order_
<1>3. /\ ~sweep'.busy => sweep'.left = <<>>
      /\ sweep'.busy \/ inited' => sweep'.over = Instances'
      /\ Len(sweep'.left) <= Len(module_order_')
      /\ sweep'.op \in {"Init", "Start"} => (sweep'.left # <<>> => sweep'.result = "ok")
      /\ sweep'.op = "none" => sweep'.left = <<>> /\ sweep'.over = {}
  BY DEF Course
<1>4. QED BY <1>1, <1>2, <1>3 DEF Course

\* A sweep that goes on keeps its course, and so does one that gives up.
LEMMA CourseKept ==
    ASSUME Base, Course, sweep.busy, sweep.left # <<>>, UNCHANGED <<tables, inited>>,
           sweep'.op = sweep.op, sweep'.over = sweep.over, sweep'.busy = sweep.busy,
           \/ sweep'.left = <<>>
           \/ sweep'.left = Tail(sweep.left) /\ (sweep.op \in {"Init", "Start"} => sweep'.result = "ok")
    PROVE  Course'
<1> DEFINE L == Len(module_order_)
           l == Len(sweep.left)
<1>0. TypeOK
  BY DEF Base
<1>1. L \in Nat /\ l \in Nat \ {0} /\ l <= L
  BY <1>0, OrderFacts, CurrentFacts DEF Course
<1>2. /\ modules_by_name_' = modules_by_name_ /\ module_order_' = module_order_ /\ inited' = inited
      /\ Instances' = Instances /\ sweep.over = Instances /\ sweep.op # "none"
  BY DEF Course, tables, Instances, Loaded
<1>3. CASE sweep'.left = <<>>
  BY <1>1, <1>2, <1>3 DEF Course
<1>4. CASE sweep'.left = Tail(sweep.left) /\ (sweep.op \in {"Init", "Start"} => sweep'.result = "ok")
  <2>1. /\ Len(sweep'.left) = l - 1
        /\ \A k \in 1 .. l - 1 : k + 1 \in 1 .. l /\ sweep'.left[k] = sweep.left[k + 1]
    BY <1>0, <1>1, <1>4, CurrentFacts
  <2>2. ASSUME sweep.op \in {"Init", "Start"}, NEW k \in 1 .. l - 1
        PROVE  sweep'.left[k] = module_order_[L - (l - 1) + k]
    <3>1. sweep.left[k + 1] = module_order_[L - l + (k + 1)]
      BY <2>1, <2>2 DEF Course
    <3> HIDE DEF L, l
    <3>2. L - l + (k + 1) = L - (l - 1) + k
      BY <1>1
    <3>3. QED BY <2>1, <3>1, <3>2
  <2>3. ASSUME sweep.op \in {"Stop", "Fini"}, NEW k \in 1 .. l - 1
        PROVE  sweep'.left[k] = module_order_[(l - 1) + 1 - k]
    <3>1. sweep.left[k + 1] = module_order_[l + 1 - (k + 1)]
      BY <2>1, <2>3 DEF Course
    <3> HIDE DEF L, l
    <3>2. l + 1 - (k + 1) = (l - 1) + 1 - k
      BY <1>1
    <3>3. QED BY <2>1, <3>1, <3>2
  <2>4. l - 1 <= L
    BY <1>1
  <2>5. QED BY <1>2, <1>4, <2>1, <2>2, <2>3, <2>4 DEF Course
<1>5. QED BY <1>3, <1>4

-----------------------------------------------------------------------------
(* What a sweep's call on its current module keeps.                        *)

LEMMA Supported ==
    DependenciesAreUp <=>
        (direct = 0 => \A a, b \in DOMAIN module_order_ : a < b => Supports(At(a), At(b)))
BY DEF DependenciesAreUp, Supports, At

LEMMA CallOfSweep ==
    ASSUME IInv, sweep.busy, sweep.left # <<>>, NEW i \in DOMAIN state, i = Current,
           NEW o \in ModuleInit(i) \cup ModuleStart(i) \cup ModuleStop(i) \cup ModuleFini(i), Takes(i, o),
           \/ sweep.op \in {"Init", "Start"} /\ UntilError(o)
           \/ sweep.op \in {"Stop", "Fini"} /\ FirstError(o),
           UNCHANGED <<tables, inited, direct>>
    PROVE  /\ Base' /\ Course' /\ Frame(i)
           /\ module_order_' = module_order_ /\ modules_by_name_' = modules_by_name_
           /\ inited' = inited /\ direct' = direct
           /\ sweep'.op = sweep.op /\ sweep'.busy = sweep.busy /\ sweep'.fresh = sweep.fresh
           /\ Instances' = Instances /\ sweep.over = Instances /\ sweep'.over = Instances
           /\ i \in Instances /\ i \in LeftOver
           /\ LeftOver' \subseteq LeftOver \ {i}
           /\ \/ /\ LeftOver \subseteq LeftOver' \cup {i}
                 /\ sweep'.result = "ok" <=> sweep.result = "ok" /\ o.result = "ok"
                 /\ sweep.op = "Start" => sweep'.result = "ok"
              \/ /\ sweep.op \in {"Init", "Start"}
                 /\ o.result # "ok" /\ sweep'.result = o.result
<1>1. Base /\ TypeOK /\ Course /\ Holds
  BY DEF IInv, Base
<1>2. Base'
  <2>1. SweepCall(Current, o)
    BY DEF SweepCall
  <2>2. QED BY <1>1, <2>1, SweepCallBase
<1>3. Frame(i) /\ o.result \in {"ok", "failed", "refused"}
  BY <1>1, CallFacts
<1>4. DOMAIN state' = DOMAIN state
  BY <1>3 DEF Frame
<1>5. /\ module_order_' = module_order_ /\ modules_by_name_' = modules_by_name_
      /\ inited' = inited /\ direct' = direct /\ Instances' = Instances
  BY DEF tables, Instances, Loaded
<1>6. /\ sweep'.op = sweep.op /\ sweep'.over = sweep.over
      /\ sweep'.busy = sweep.busy /\ sweep'.fresh = sweep.fresh
      /\ \/ /\ sweep.op \in {"Init", "Start"}
            /\ \/ o.result = "ok" /\ sweep'.left = Tail(sweep.left) /\ sweep'.result = "ok"
               \/ o.result # "ok" /\ sweep'.left = <<>> /\ sweep'.result = o.result
         \/ /\ sweep.op \in {"Stop", "Fini"} /\ sweep'.left = Tail(sweep.left)
            /\ \/ sweep.result = "ok" /\ sweep'.result = o.result
               \/ sweep.result # "ok" /\ sweep'.result = sweep.result
  <2>0. TypeOK /\ sweep.left # <<>> /\ o.result \in {"ok", "failed", "refused"} /\ DOMAIN state' = DOMAIN state
    BY <1>1, <1>3, <1>4
  <2>1. UNCHANGED <<tables, inited, direct>>
    OBVIOUS
  <2>2. CASE sweep.op \in {"Init", "Start"} /\ UntilError(o)
    <3>1. UntilError(o)
      BY <2>2
    <3>2. /\ sweep'.op = sweep.op /\ sweep'.over = sweep.over
          /\ sweep'.busy = sweep.busy /\ sweep'.fresh = sweep.fresh
          /\ \/ o.result = "ok" /\ sweep'.left = Tail(sweep.left) /\ sweep'.result = "ok"
             \/ o.result # "ok" /\ sweep'.left = <<>> /\ sweep'.result = o.result
      BY ONLY <2>0, <2>1, <3>1, UntilGoesOn
    <3>3. QED BY <2>2, <3>2
  <2>3. CASE sweep.op \in {"Stop", "Fini"} /\ FirstError(o)
    <3>1. FirstError(o)
      BY <2>3
    <3>2. /\ sweep'.op = sweep.op /\ sweep'.over = sweep.over
          /\ sweep'.busy = sweep.busy /\ sweep'.fresh = sweep.fresh
          /\ sweep'.left = Tail(sweep.left)
          /\ \/ sweep.result = "ok" /\ sweep'.result = o.result
             \/ sweep.result # "ok" /\ sweep'.result = sweep.result
      BY ONLY <2>0, <2>1, <3>1, FirstGoesOn
    <3>3. QED BY <2>3, <3>2
  <2>4. QED BY <2>2, <2>3
<1>7. sweep.over = Instances /\ i \in Instances
  BY <1>1, CurrentFacts DEF Course, Instances, Current
<1>8. sweep.op \in {"Init", "Start"} => sweep.result = "ok"
  BY <1>1 DEF Course
<1>9. CASE sweep'.left = Tail(sweep.left) /\ (sweep.op \in {"Init", "Start"} => sweep'.result = "ok")
  <2>1. Course'
    BY <1>1, <1>6, <1>9, CourseKept
  <2>2. i \in LeftOver /\ LeftOver' \subseteq LeftOver \ {i} /\ LeftOver \subseteq LeftOver' \cup {i}
    BY <1>1, <1>5, <1>9, TailLeft
  <2>3. sweep'.result = "ok" <=> sweep.result = "ok" /\ o.result = "ok"
    BY <1>6, <1>8, <1>9
  <2>4. sweep.op = "Start" => sweep'.result = "ok"
    BY <1>9
  <2>5. QED BY <1>2, <1>3, <1>5, <1>6, <1>7, <2>1, <2>2, <2>3, <2>4
<1>10. CASE sweep.op \in {"Init", "Start"} /\ o.result # "ok" /\ sweep'.left = <<>> /\ sweep'.result = o.result
  <2>1. Course'
    BY <1>1, <1>6, <1>10, CourseKept
  <2>2. LeftOver' = {}
    BY <1>10 DEF LeftOver, Range
  <2>3. i \in LeftOver
    <3>1. sweep.left \in Seq(Loaded) /\ 1 \in 1 .. Len(sweep.left)
      BY <1>1, LeftFacts, CurrentFacts
    <3>2. QED BY <1>1, <3>1, LeftFacts, CurrentFacts DEF Current
  <2>4. QED BY <1>2, <1>3, <1>5, <1>6, <1>7, <1>10, <2>1, <2>2, <2>3
<1>11. QED BY <1>6, <1>9, <1>10

\* To keep the invariant, a sweep has to see to the current module, and to how
\* it fits with those before it or, going down, after it.
LEMMA SweepKeeps ==
    ASSUME IInv, direct = 0, sweep.busy, sweep.left # <<>>, NEW i \in DOMAIN state, i = Current,
           NEW o \in ModuleInit(i) \cup ModuleStart(i) \cup ModuleStop(i) \cup ModuleFini(i), Takes(i, o),
           \/ sweep.op \in {"Init", "Start"} /\ UntilError(o)
           \/ sweep.op \in {"Stop", "Fini"} /\ FirstError(o),
           UNCHANGED <<tables, inited, direct>>,
           Behind(i)', Alive(i)',
           sweep.op = "Start" /\ sweep.fresh => sweep'.result # "refused",
           \A j \in DOMAIN state \ {i} :
               Supports(j, i) /\ (sweep.op \in {"Init", "Start"} => j \in sweep.over \ LeftOver)
                   => Supports(j, i)',
           \A j \in DOMAIN state \ {i} :
               Supports(i, j) /\ (sweep.op \in {"Stop", "Fini"} => j \in sweep.over \ LeftOver)
                   => Supports(i, j)'
    PROVE  IInv'
<1>1. /\ Base' /\ Course' /\ Frame(i)
      /\ module_order_' = module_order_ /\ modules_by_name_' = modules_by_name_
      /\ inited' = inited /\ direct' = direct
      /\ sweep'.op = sweep.op /\ sweep'.busy = sweep.busy /\ sweep'.fresh = sweep.fresh
      /\ Instances' = Instances /\ sweep.over = Instances /\ sweep'.over = Instances
      /\ i \in Instances /\ i \in LeftOver
      /\ LeftOver' \subseteq LeftOver \ {i}
      /\ \/ /\ LeftOver \subseteq LeftOver' \cup {i}
            /\ sweep'.result = "ok" <=> sweep.result = "ok" /\ o.result = "ok"
            /\ sweep.op = "Start" => sweep'.result = "ok"
         \/ /\ sweep.op \in {"Init", "Start"}
            /\ o.result # "ok" /\ sweep'.result = o.result
  BY CallOfSweep
<1>2. /\ Base /\ Course /\ Past /\ Ahead /\ DependenciesAreUp /\ Instances \subseteq DOMAIN state
  BY OrderFacts DEF IInv
<1>3. ASSUME NEW j \in DOMAIN state, j # i
      PROVE  /\ state'[j] = state[j] /\ held'[j] = held[j]
             /\ j \in with_context' <=> j \in with_context
             /\ j \in stuck' <=> j \in stuck
  BY <1>1, <1>3 DEF Frame
<1>4. Past'
  <2> SUFFICES ASSUME NEW j \in sweep'.over \ LeftOver', j # i PROVE Behind(j)'
    BY DEF Past
  <2>1. j \in DOMAIN state /\ state'[j] = state[j] /\ held'[j] = held[j] /\ (j \in stuck' <=> j \in stuck)
    BY <1>1, <1>2, <1>3
  <2>2. CASE LeftOver \subseteq LeftOver' \cup {i} /\ (sweep'.result = "ok" <=> sweep.result = "ok" /\ o.result = "ok")
    <3>1. j \in sweep.over \ LeftOver
      BY <1>1, <2>2
    <3>2. Behind(j)
      BY <1>2, <3>1 DEF Past
    <3>3. QED BY <1>1, <2>1, <2>2, <3>2 DEF Behind, Done
  <2>3. CASE sweep.op \in {"Init", "Start"} /\ o.result # "ok" /\ sweep'.result = o.result
    BY <1>1, <2>3 DEF Behind, Done
  <2>4. QED BY <1>1, <2>2, <2>3
<1>5. Ahead'
  <2>1. ASSUME NEW j \in Instances, j # i PROVE Alive(j)' /\ Clean(j)'
    <3>1. Alive(j) /\ Clean(j)
      BY <1>2 DEF Ahead
    <3>2. state'[j] = state[j] /\ abandoned'[j] = abandoned[j]
      BY <1>1, <1>2, <2>1 DEF Frame
    <3>3. QED BY <1>1, <3>1, <3>2 DEF Alive, Clean
  <2>0. Clean(i)'
    <3>1. Alive(i) /\ Clean(i)
      BY <1>1, <1>2 DEF Ahead
    <3>2. state'[i] # "Fini" => abandoned'[i] = abandoned[i]
      BY <1>1 DEF Frame
    <3>3. sweep.op = "Fini" => state'[i] = "Fini"
      BY <1>1 DEF Behind
    <3>4. QED BY <3>1, <3>2, <3>3 DEF Alive, Clean
  <2>2. ASSUME sweep.op = "Start", sweep.busy, sweep.fresh, NEW j \in LeftOver'
        PROVE  state'[j] \in {"Inited", "Stopped"}
    <3>1. j \in LeftOver /\ j # i
      BY <1>1
    <3>2. state[j] \in {"Inited", "Stopped"}
      BY <1>2, <2>2, <3>1 DEF Ahead
    <3>3. j \in DOMAIN state
      <4>1. \A n \in Loaded : modules_by_name_[n] \in DOMAIN state
        BY <1>2 DEF Base, TypeOK
      <4>2. QED BY <1>2, <3>1, <4>1, LeftFacts
    <3>4. QED BY <1>3, <3>1, <3>2, <3>3
  <2>3. sweep'.op = "Start" /\ sweep'.fresh => sweep'.result # "refused"
    BY <1>1
  <2>4. QED BY <1>1, <2>0, <2>1, <2>2, <2>3 DEF Ahead
<1>6. DependenciesAreUp'
  <2>1. DependenciesAreUp' <=>
            (direct' = 0 => \A a, b \in DOMAIN module_order_ : a < b => Supports(At(a), At(b))')
    BY <1>1 DEF DependenciesAreUp, Supports, At
  <2> SUFFICES ASSUME NEW a \in DOMAIN module_order_, NEW b \in DOMAIN module_order_, a < b
               PROVE  Supports(At(a), At(b))'
    BY <2>1
  <2>2. PICK x \in DOMAIN state, y \in DOMAIN state : x = At(a) /\ y = At(b)
    BY <1>2, OrderFacts
  <2>3. Supports(x, y)' <=> Supports(At(a), At(b))'
    BY <1>1, <2>2 DEF Supports, At
  <2>4. Supports(x, y)
    BY <1>2, <2>2, Supported
  <2>5. x # y
    BY <1>2, <2>2, OrderFacts
  <2>6. PICK p \in DOMAIN module_order_ :
            /\ At(p) = Current
            /\ sweep.op \in {"Init", "Start"} =>
                   \A c \in DOMAIN module_order_ : c < p => At(c) \in sweep.over \ LeftOver
            /\ sweep.op \in {"Stop", "Fini"} =>
                   \A c \in DOMAIN module_order_ : c > p => At(c) \in sweep.over \ LeftOver
    BY <1>2, Places
  <2>7. \A c \in DOMAIN module_order_ : At(c) = i => c = p
    BY <1>2, <2>6, OrderFacts
  <2>8. CASE y = i
    <3>1. sweep.op \in {"Init", "Start"} => x \in sweep.over \ LeftOver
      BY <2>2, <2>6, <2>7, <2>8
    <3>2. QED BY <2>3, <2>4, <2>5, <2>8, <3>1
  <2>9. CASE x = i
    <3>1. sweep.op \in {"Stop", "Fini"} => y \in sweep.over \ LeftOver
      <4>1. b > a /\ a = p
        BY <1>2, <2>2, <2>7, <2>9, OrderFacts
      <4>2. QED BY <2>2, <2>6, <4>1
    <3>2. QED BY <2>3, <2>4, <2>5, <2>9, <3>1
  <2>10. CASE x # i /\ y # i
    BY <1>3, <2>3, <2>4, <2>10 DEF Supports
  <2>11. QED BY <2>8, <2>9, <2>10
<1>7. QED BY <1>1, <1>4, <1>5, <1>6 DEF IInv

\* Once the host calls modules itself the rest is not promised.
LEMMA HostsOwn ==
    ASSUME Base', Course', direct' # 0
    PROVE  IInv'
BY DEF IInv, Past, Ahead, DependenciesAreUp

LEMMA BehindFacts ==
    ASSUME IInv, direct = 0
    PROVE  /\ \A j \in sweep.over \ LeftOver : Behind(j)
           /\ \A j \in Instances : Alive(j) /\ Clean(j)
           /\ sweep.busy /\ sweep.op = "Start" /\ sweep.fresh =>
                  \A j \in LeftOver : state[j] \in {"Inited", "Stopped"}
           /\ sweep.busy /\ sweep.left # <<>> /\ sweep.op \in {"Init", "Start"} => sweep.result = "ok"
BY DEF IInv, Past, Ahead, Course

LEMMA InitKeeps ==
    ASSUME IInv, InitModule
    PROVE  IInv'
<1>1. /\ sweep.busy /\ sweep.op = "Init" /\ sweep.left # <<>> /\ UNCHANGED <<tables, inited, direct>>
      /\ TypeOK /\ Holds
  BY DEF InitModule, Here, IInv, Base
<1>2. PICK i \in DOMAIN state : i = Current
  BY <1>1, CurrentFacts
<1>3. PICK o \in ModuleInit(i) : Takes(i, o) /\ UntilError(o)
  BY <1>2 DEF InitModule
<1>4. /\ Base' /\ Course' /\ Frame(i)
      /\ sweep'.op = sweep.op /\ sweep'.busy = sweep.busy /\ i \in Instances
      /\ direct' = direct
      /\ \/ /\ sweep'.result = "ok" <=> sweep.result = "ok" /\ o.result = "ok"
         \/ /\ o.result # "ok" /\ sweep'.result = o.result
  BY <1>1, <1>2, <1>3, CallOfSweep
<1>5. \/ o.result = "refused" /\ Same(i)
      \/ /\ state[i] \in {"Created", "Fini"}
         /\ \/ o.result = "ok" /\ state'[i] = "Inited"
            \/ o.result = "failed" /\ state'[i] = state[i]
  BY <1>1, <1>3, InitFacts
<1>6. CASE direct # 0
  BY <1>4, <1>6, HostsOwn
<1>7. CASE direct = 0
  <2>1. Behind(i)'
    BY <1>1, <1>4, <1>5 DEF Behind, Done
  <2>2. Alive(i)'
    <3>1. Alive(i) /\ inited' = inited
      BY <1>1, <1>4, <1>7, BehindFacts
    <3>2. QED BY <1>1, <1>4, <1>5, <3>1 DEF Alive, Same
  <2>3. ASSUME NEW j \in DOMAIN state \ {i}, Supports(j, i),
               sweep.op \in {"Init", "Start"} => j \in sweep.over \ LeftOver
        PROVE  Supports(j, i)'
    <3>1. Behind(j) /\ sweep.result = "ok"
      BY <1>1, <1>7, <2>3, BehindFacts
    <3>2. state[j] = "Inited" /\ state'[j] = state[j]
      BY <1>1, <1>4, <3>1 DEF Behind, Done, Frame
    <3>3. QED BY <1>5, <2>3, <3>2 DEF Supports, Same
  <2>4. ASSUME NEW j \in DOMAIN state \ {i}, Supports(i, j)
        PROVE  Supports(i, j)'
    <3>1. state'[j] = state[j] /\ (j \in stuck' <=> j \in stuck)
      BY <1>4 DEF Frame
    <3>2. QED BY <1>5, <2>4, <3>1 DEF Supports, Same
  <2>5. QED BY <1>1, <1>2, <1>3, <1>7, <2>1, <2>2, <2>3, <2>4, SweepKeeps
<1>8. QED BY <1>6, <1>7

LEMMA StartKeeps ==
    ASSUME IInv, StartModule
    PROVE  IInv'
<1>1. /\ sweep.busy /\ sweep.op = "Start" /\ sweep.left # <<>> /\ UNCHANGED <<tables, inited, direct>>
      /\ TypeOK /\ Holds
  BY DEF StartModule, Here, IInv, Base
<1>2. PICK i \in DOMAIN state : i = Current
  BY <1>1, CurrentFacts
<1>3. PICK o \in ModuleStart(i) : Takes(i, o) /\ UntilError(o)
  BY <1>2 DEF StartModule
<1>4. /\ Base' /\ Course' /\ Frame(i)
      /\ sweep'.op = sweep.op /\ sweep'.busy = sweep.busy /\ i \in Instances /\ i \in LeftOver
      /\ direct' = direct
      /\ \/ /\ sweep'.result = "ok" <=> sweep.result = "ok" /\ o.result = "ok"
            /\ sweep'.result = "ok"
         \/ /\ o.result # "ok" /\ sweep'.result = o.result
  BY <1>1, <1>2, <1>3, CallOfSweep
<1>5. \/ o.result = "refused" /\ Same(i) /\ state[i] \notin {"Inited", "Stopped"}
      \/ /\ state[i] \in {"Inited", "Stopped"}
         /\ \/ o.result = "ok" /\ state'[i] = "Started"
            \/ o.result = "failed" /\ state'[i] = state[i]
  BY <1>1, <1>3, StartFacts
<1>6. CASE direct # 0
  BY <1>4, <1>6, HostsOwn
<1>7. CASE direct = 0
  <2>1. Behind(i)'
    BY <1>1, <1>4, <1>5 DEF Behind, Done
  <2>2. Alive(i)'
    <3>1. Alive(i) /\ inited' = inited
      BY <1>1, <1>4, <1>7, BehindFacts
    <3>2. QED BY <1>1, <1>4, <1>5, <3>1 DEF Alive, Same
  <2>3. ASSUME NEW j \in DOMAIN state \ {i}, Supports(j, i),
               sweep.op \in {"Init", "Start"} => j \in sweep.over \ LeftOver
        PROVE  Supports(j, i)'
    <3>1. Behind(j) /\ sweep.result = "ok"
      BY <1>1, <1>7, <2>3, BehindFacts
    <3>2. state[j] = "Started" /\ state'[j] = state[j]
      BY <1>1, <1>4, <3>1 DEF Behind, Done, Frame
    <3>3. QED BY <3>2 DEF Supports
  <2>4. ASSUME NEW j \in DOMAIN state \ {i}, Supports(i, j)
        PROVE  Supports(i, j)'
    <3>1. state'[j] = state[j] /\ (j \in stuck' <=> j \in stuck)
      BY <1>4 DEF Frame
    <3>2. QED BY <1>5, <2>4, <3>1 DEF Supports, Same
  <2>5. sweep.fresh => sweep'.result # "refused"
    <3>1. sweep.fresh => state[i] \in {"Inited", "Stopped"}
      BY <1>1, <1>4, <1>7, BehindFacts
    <3>2. QED BY <1>4, <1>5, <3>1
  <2>6. QED BY <1>1, <1>2, <1>3, <1>7, <2>1, <2>2, <2>3, <2>4, <2>5, SweepKeeps
<1>8. QED BY <1>6, <1>7

LEMMA StopKeeps ==
    ASSUME IInv, StopModule
    PROVE  IInv'
<1>1. /\ sweep.busy /\ sweep.op = "Stop" /\ sweep.left # <<>> /\ UNCHANGED <<tables, inited, direct>>
      /\ TypeOK /\ Holds
  BY DEF StopModule, Here, IInv, Base
<1>2. PICK i \in DOMAIN state : i = Current
  BY <1>1, CurrentFacts
<1>3. PICK o \in ModuleStop(i) : Takes(i, o) /\ FirstError(o)
  BY <1>2 DEF StopModule
<1>4. /\ Base' /\ Course' /\ Frame(i)
      /\ sweep'.op = sweep.op /\ sweep'.busy = sweep.busy /\ i \in Instances
      /\ direct' = direct
      /\ sweep'.result = "ok" <=> sweep.result = "ok" /\ o.result = "ok"
  BY <1>1, <1>2, <1>3, CallOfSweep
<1>5. /\ state[i] = "Started"
      /\ \/ o.result = "ok" /\ state'[i] = "Stopped" /\ held'[i] = {"init"}
         \/ o.result = "failed" /\ state'[i] = "Started" /\ i \in stuck'
  BY <1>1, <1>2, <1>3, StopFacts DEF StopModule
<1>6. CASE direct # 0
  BY <1>4, <1>6, HostsOwn
<1>7. CASE direct = 0
  <2>1. Behind(i)'
    BY <1>1, <1>4, <1>5 DEF Behind, Done
  <2>2. Alive(i)'
    BY <1>1, <1>4, <1>5 DEF Alive
  <2>3. ASSUME NEW j \in DOMAIN state \ {i}, Supports(j, i)
        PROVE  Supports(j, i)'
    <3>1. state'[j] = state[j]
      BY <1>4 DEF Frame
    <3>2. QED BY <1>5, <2>3, <3>1 DEF Supports
  <2>4. ASSUME NEW j \in DOMAIN state \ {i}, Supports(i, j),
               sweep.op \in {"Stop", "Fini"} => j \in sweep.over \ LeftOver
        PROVE  Supports(i, j)'
    <3>1. state'[j] = state[j] /\ (j \in stuck' <=> j \in stuck)
      BY <1>4 DEF Frame
    <3>2. state[j] = "Started" => j \in stuck
      BY <1>1, <1>7, <2>4, BehindFacts DEF Behind
    <3>3. QED BY <1>5, <3>1, <3>2 DEF Supports
  <2>5. QED BY <1>1, <1>2, <1>3, <1>7, <2>1, <2>2, <2>3, <2>4, SweepKeeps
<1>8. QED BY <1>6, <1>7

LEMMA FiniKeeps ==
    ASSUME IInv, FiniModule
    PROVE  IInv'
<1>1. /\ sweep.busy /\ sweep.op = "Fini" /\ sweep.left # <<>> /\ UNCHANGED <<tables, inited, direct>>
      /\ TypeOK /\ Holds
  BY DEF FiniModule, Here, IInv, Base
<1>2. PICK i \in DOMAIN state : i = Current
  BY <1>1, CurrentFacts
<1>3. PICK o \in ModuleFini(i) : Takes(i, o) /\ FirstError(o)
  BY <1>2 DEF FiniModule
<1>4. /\ Base' /\ Course' /\ Frame(i)
      /\ sweep'.op = sweep.op /\ sweep'.busy = sweep.busy /\ i \in Instances
      /\ direct' = direct
      /\ sweep'.result = "ok" <=> sweep.result = "ok" /\ o.result = "ok"
  BY <1>1, <1>2, <1>3, CallOfSweep
<1>5. \/ o.result = "refused" /\ Same(i) /\ state[i] = "Fini"
      \/ /\ state[i] # "Fini" /\ state'[i] = "Fini"
         /\ o.result = "ok" => held'[i] \subseteq abandoned[i]
  BY <1>1, <1>3, FiniFacts
<1>6. CASE direct # 0
  BY <1>4, <1>6, HostsOwn
<1>7. CASE direct = 0
  <2>0. state'[i] = "Fini"
    BY <1>5 DEF Same
  <2>1. Behind(i)'
    <3>1. Clean(i)
      BY <1>4, <1>7, BehindFacts
    <3>2. o.result = "ok" => held'[i] = {}
      BY <1>5, <3>1 DEF Clean
    <3>3. QED BY <1>1, <1>4, <2>0, <3>2 DEF Behind, Done
  <2>2. Alive(i)'
    BY <1>1, <1>4 DEF Alive
  <2>3. ASSUME NEW j \in DOMAIN state \ {i}, Supports(j, i)
        PROVE  Supports(j, i)'
    BY <2>0 DEF Supports
  <2>4. ASSUME NEW j \in DOMAIN state \ {i}, Supports(i, j),
               sweep.op \in {"Stop", "Fini"} => j \in sweep.over \ LeftOver
        PROVE  Supports(i, j)'
    <3>1. state'[j] = state[j]
      BY <1>4 DEF Frame
    <3>2. state[j] = "Fini"
      BY <1>1, <1>7, <2>4, BehindFacts DEF Behind
    <3>3. QED BY <3>1, <3>2 DEF Supports
  <2>5. QED BY <1>1, <1>2, <1>3, <1>7, <2>1, <2>2, <2>3, <2>4, SweepKeeps
<1>8. QED BY <1>6, <1>7

-----------------------------------------------------------------------------
(* The other steps.                                                        *)

LEMMA SkipKeeps ==
    ASSUME IInv, SkipModule
    PROVE  IInv'
<1>1. /\ sweep.busy /\ sweep.op = "Stop" /\ sweep.left # <<>> /\ state[Current] # "Started"
      /\ sweep' = [sweep EXCEPT !.left = Tail(@)] /\ UNCHANGED <<tables, instance, inited, direct>>
      /\ Base /\ TypeOK /\ Holds /\ Course
  BY DEF SkipModule, Here, IInv, Base
<1>2. /\ modules_by_name_' = modules_by_name_ /\ module_order_' = module_order_
      /\ Instances' = Instances /\ UNCHANGED <<tables, inited>>
      /\ state' = state /\ with_context' = with_context /\ held' = held /\ abandoned' = abandoned /\ stuck' = stuck
      /\ inited' = inited /\ direct' = direct
  BY <1>1 DEF tables, instance, Instances, Loaded
<1>3. /\ sweep'.left = Tail(sweep.left) /\ sweep'.op = sweep.op /\ sweep'.over = sweep.over
      /\ sweep'.busy = sweep.busy /\ sweep'.result = sweep.result /\ sweep'.fresh = sweep.fresh
  BY <1>1 DEF TypeOK
<1>4. Base'
  BY <1>1, NextBase DEF Next
<1>5. Course'
  BY <1>1, <1>2, <1>3, CourseKept
<1>6. CASE direct # 0
  BY <1>2, <1>4, <1>5, <1>6, HostsOwn
<1>7. CASE direct = 0
  <2>1. PICK i \in DOMAIN state : i = Current
    BY <1>1, CurrentFacts
  <2>2. i \in LeftOver /\ LeftOver' \subseteq LeftOver \ {i} /\ LeftOver \subseteq LeftOver' \cup {i} /\ i \in Instances
    BY <1>1, <1>2, <1>3, <2>1, TailLeft, CurrentFacts DEF Instances, Current
  <2>3. Behind(i)'
    <3>1. Alive(i) /\ Clean(i) /\ HoldsFor(i) /\ state[i] \in States
      BY <1>1, <1>7, <2>2, BehindFacts DEF Holds, TypeOK
    <3>2. "run" \notin held[i]
      BY <1>1, <2>1, <3>1 DEF Alive, Clean, HoldsFor, States
    <3>3. QED BY <1>1, <1>2, <1>3, <2>1, <3>2 DEF Behind, Done
  <2>4. Past'
    <3> SUFFICES ASSUME NEW j \in sweep'.over \ LeftOver', j # i PROVE Behind(j)'
      BY <2>3 DEF Past
    <3>1. Behind(j)
      BY <1>3, <1>7, <2>2, BehindFacts
    <3>2. QED BY <1>2, <1>3, <3>1 DEF Behind, Done
  <2>5. Ahead'
    <3>1. \A j \in Instances : Alive(j)' /\ Clean(j)'
      BY <1>2, <1>3, <1>7, BehindFacts DEF Alive, Clean
    <3>2. QED BY <1>1, <1>2, <1>3, <3>1 DEF Ahead
  <2>6. DependenciesAreUp'
    BY <1>2 DEF IInv, DependenciesAreUp
  <2>7. QED BY <1>4, <1>5, <2>4, <2>5, <2>6 DEF IInv
<1>8. QED BY <1>6, <1>7

LEMMA BeginKeeps ==
    ASSUME IInv, NEW op \in {"Init", "Start", "Stop", "Fini"}, NEW order, Begin(op, order),
           order = IF op \in {"Init", "Start"} THEN module_order_ ELSE Reverse(module_order_)
    PROVE  IInv'
<1>1. /\ ~sweep.busy /\ UNCHANGED <<tables, instance, inited, direct>>
      /\ sweep' = [op |-> op, over |-> Range(modules_by_name_), left |-> order, result |-> "ok",
                   busy |-> TRUE, fresh |-> inited /\ sweep.op \in {"Init", "Stop"} /\ sweep.result = "ok"]
      /\ Base /\ TypeOK /\ Holds /\ Course
  BY DEF Begin, IInv, Base
<1>2. /\ modules_by_name_' = modules_by_name_ /\ module_order_' = module_order_
      /\ Instances' = Instances
      /\ state' = state /\ with_context' = with_context /\ held' = held /\ abandoned' = abandoned /\ stuck' = stuck
      /\ inited' = inited /\ direct' = direct
  BY <1>1 DEF tables, instance, Instances, Loaded
<1>3. /\ sweep'.left = order /\ sweep'.op = op /\ sweep'.over = Instances
      /\ sweep'.busy /\ sweep'.result = "ok"
  <2>1. Range(modules_by_name_) = Instances
    BY DEF Range, Instances, Loaded
  <2>2. QED BY <1>1, <2>1
<1>4. sweep'.fresh <=> inited /\ sweep.op \in {"Init", "Stop"} /\ sweep.result = "ok"
  BY <1>1, Zenon
<1>5. order \in Seq(Loaded)
  BY <1>1, OrderInLoaded
<1>6. Base'
  BY <1>1, <1>5, BeginBase
<1>7. /\ Len(order) = Len(module_order_)
      /\ op \in {"Init", "Start"} => \A k \in 1 .. Len(order) : order[k] = module_order_[k]
      /\ op \in {"Stop", "Fini"} => \A k \in 1 .. Len(order) : order[k] = module_order_[Len(order) + 1 - k]
  <2>1. Len(module_order_) \in Nat
    BY <1>1, OrderFacts
  <2>2. CASE op \in {"Init", "Start"}
    BY <2>2
  <2>3. CASE op \in {"Stop", "Fini"}
    <3>1. order = [k \in 1 .. Len(module_order_) |-> module_order_[(Len(module_order_) - k) + 1]]
      BY <2>3 DEF Reverse
    <3>2. Len(order) = Len(module_order_)
      BY <1>5, <2>1, <3>1, LenProperties
    <3>3. ASSUME NEW k \in 1 .. Len(order) PROVE order[k] = module_order_[Len(order) + 1 - k]
      <4>1. (Len(module_order_) - k) + 1 = Len(order) + 1 - k
        BY <2>1, <3>2
      <4>2. QED BY <3>1, <3>2, <4>1
    <3>4. QED BY <2>3, <3>2, <3>3
  <2>4. QED BY <2>2, <2>3
<1>8. Course'
  <2>1. Len(module_order_) \in Nat
    BY <1>1, OrderFacts
  <2>2. \A l \in Nat : \A k \in 1 .. l : l - l + k = k
    OBVIOUS
  <2>3. \A k \in 1 .. Len(order) : Len(module_order_) - Len(order) + k = k
    BY ONLY <1>7, <2>1, <2>2
  <2>4. op # "none" /\ Len(order) <= Len(module_order_)
    BY ONLY <1>7, <2>1, op \in {"Init", "Start", "Stop", "Fini"}
  <2>5. op \in {"Init", "Start"} =>
            \A k \in 1 .. Len(order) : order[k] = module_order_[Len(module_order_) - Len(order) + k]
    BY ONLY <1>7, <2>3
  <2>6. QED BY ONLY <1>2, <1>3, <1>7, <2>4, <2>5 DEF Course
<1>9. CASE direct # 0
  BY <1>2, <1>6, <1>8, <1>9, HostsOwn
<1>10. CASE direct = 0
  <2>1. LeftOver' = Instances
    <3>1. Range(order) = Loaded
      <4>1. Range(module_order_) = Loaded /\ module_order_ \in Seq(Names)
        BY <1>1 DEF TypeOK
      <4>2. CASE op \in {"Init", "Start"}
        BY <4>1, <4>2
      <4>3. CASE op \in {"Stop", "Fini"}
        <5>1. order = Reverse(module_order_)
          BY <4>3
        <5>2. Len(module_order_) \in Nat /\ DOMAIN module_order_ = 1 .. Len(module_order_)
              /\ DOMAIN order = 1 .. Len(module_order_)
              /\ \A k \in 1 .. Len(module_order_) : order[k] = module_order_[(Len(module_order_) - k) + 1]
          BY <1>1, <5>1, OrderFacts DEF Reverse
        <5>3. \A k \in 1 .. Len(module_order_) : (Len(module_order_) - k) + 1 \in 1 .. Len(module_order_)
          BY <5>2
        <5>4. \A k \in 1 .. Len(module_order_) :
                  (Len(module_order_) - ((Len(module_order_) - k) + 1)) + 1 = k
          BY <5>2
        <5>5. Range(order) \subseteq Range(module_order_)
          BY <5>2, <5>3 DEF Range
        <5>6. ASSUME NEW k \in 1 .. Len(module_order_) PROVE module_order_[k] \in Range(order)
          <6>1. order[(Len(module_order_) - k) + 1] = module_order_[k]
            BY <5>2, <5>3, <5>4
          <6>2. QED BY <5>2, <5>3, <6>1 DEF Range
        <5>7. Range(module_order_) \subseteq Range(order)
          BY <5>2, <5>6 DEF Range
        <5>8. QED BY <4>1, <5>5, <5>7
      <4>4. QED BY <4>2, <4>3
    <3>2. QED BY <1>2, <1>3, <3>1 DEF LeftOver, Instances
  <2>2. Past'
    BY <1>3, <2>1 DEF Past
  <2>3. \A j \in Instances : state[j] # "Fini" /\ (inited => state[j] # "Created")
    BY <1>1, <1>10, BehindFacts DEF Alive
  <2>4. ASSUME sweep'.fresh, NEW j \in Instances PROVE state[j] \in {"Inited", "Stopped"}
    <3>1. inited /\ sweep.op \in {"Init", "Stop"} /\ sweep.result = "ok"
      BY <1>4, <2>4
    <3>2. sweep.over = Instances /\ LeftOver = {}
      BY <1>1, <3>1, LeftFacts DEF Course
    <3>3. Behind(j) /\ HoldsFor(j) /\ state[j] \in States
      BY <1>1, <1>10, <3>2, BehindFacts, OrderFacts DEF Holds, TypeOK
    <3>4. QED BY <2>3, <3>1, <3>3 DEF Behind, Done, HoldsFor, States
  <2>5. Ahead'
    <3>1. \A j \in Instances : Alive(j)' /\ Clean(j)'
      BY <1>1, <1>2, <1>10, <2>3, BehindFacts DEF Alive, Clean
    <3>2. QED BY <1>2, <1>3, <2>1, <2>4, <3>1 DEF Ahead
  <2>6. DependenciesAreUp'
    BY <1>2 DEF IInv, DependenciesAreUp
  <2>7. QED BY <1>6, <1>8, <2>2, <2>5, <2>6 DEF IInv
<1>11. QED BY <1>9, <1>10

LEMMA ReturnKeeps ==
    ASSUME IInv, Return
    PROVE  IInv'
<1>1. /\ sweep.busy /\ sweep.left = <<>> /\ sweep' = [sweep EXCEPT !.busy = FALSE]
      /\ UNCHANGED <<instance, direct>> /\ Base /\ TypeOK /\ Course
  BY DEF Return, IInv, Base
<1>2. /\ state' = state /\ with_context' = with_context /\ held' = held /\ abandoned' = abandoned /\ stuck' = stuck
      /\ direct' = direct
  BY <1>1 DEF instance
<1>3. /\ sweep'.left = <<>> /\ sweep'.op = sweep.op /\ sweep'.over = sweep.over
      /\ ~sweep'.busy /\ sweep'.result = sweep.result /\ sweep'.fresh = sweep.fresh
  BY <1>1 DEF TypeOK
<1>4. inited' <=> sweep.op # "Fini" /\ (inited \/ (sweep.op = "Init" /\ sweep.result = "ok"))
  BY Zenon DEF Return
<1>5. Base'
  BY <1>1, ReturnBase
<1>6. LeftOver = {} /\ LeftOver' = {} /\ sweep.over = Instances
  BY <1>1, <1>3 DEF LeftOver, Range, Course
<1>7. sweep.op # "Fini" => /\ modules_by_name_' = modules_by_name_ /\ module_order_' = module_order_
                           /\ Instances' = Instances
  <2>1. ASSUME sweep.op # "Fini" PROVE modules_by_name_' = modules_by_name_ /\ module_order_' = module_order_
    BY <2>1 DEF Return, tables
  <2>2. QED BY <2>1 DEF Instances, Loaded
<1>8. sweep.op = "Fini" => module_order_' = <<>> /\ Instances' = {}
  <2>1. ASSUME sweep.op = "Fini" PROVE modules_by_name_' = [n \in {} |-> 0] /\ module_order_' = <<>>
    BY <2>1 DEF Return
  <2>2. QED BY <2>1 DEF Instances, Loaded
<1>9. Course'
  <2>1. Len(sweep'.left) = 0 /\ Len(module_order_') \in Nat
    BY <1>3, <1>5, OrderFacts DEF Base, TypeOK
  <2>2. QED BY <1>1, <1>3, <1>4, <1>6, <1>7, <2>1 DEF Course
<1>10. CASE direct # 0
  BY <1>2, <1>5, <1>9, <1>10, HostsOwn
<1>11. CASE direct = 0
  <2>1. \A j \in Instances : Behind(j) /\ Alive(j) /\ Clean(j)
    BY <1>6, <1>11, BehindFacts
  <2>2. Past'
    BY <1>2, <1>3, <1>6, <2>1 DEF Past, Behind, Done
  <2>3. ASSUME NEW j \in Instances' PROVE Alive(j)' /\ Clean(j)'
    <3>1. sweep.op # "Fini" /\ j \in Instances
      BY <1>7, <1>8
    <3>2. Behind(j) /\ Alive(j) /\ Clean(j)
      BY <2>1, <3>1
    <3>3. QED BY <1>2, <1>3, <1>4, <3>1, <3>2 DEF Alive, Behind, Clean, Done
  <2>4. Ahead'
    <3>1. sweep.op = "Start" /\ sweep.fresh => sweep.result # "refused"
      BY <1>11 DEF IInv, Ahead
    <3>2. QED BY <1>3, <2>3, <3>1 DEF Ahead
  <2>5. DependenciesAreUp'
    <3>1. CASE sweep.op = "Fini"
      BY <1>8, <3>1 DEF DependenciesAreUp
    <3>2. CASE sweep.op # "Fini"
      BY <1>2, <1>7, <3>2 DEF IInv, DependenciesAreUp
    <3>3. QED BY <3>1, <3>2
  <2>6. QED BY <1>5, <1>9, <2>2, <2>4, <2>5 DEF IInv
<1>12. QED BY <1>10, <1>11

LEMMA StoreKeeps ==
    ASSUME IInv, ~sweep.busy, NEW names \in Seq(Names), IsInjective(names), Range(names) \cap Loaded = {},
           Store(names)
    PROVE  IInv'
<1>1. /\ Base /\ TypeOK /\ Course /\ sweep' = sweep /\ inited' = FALSE /\ direct' = direct /\ stuck' = stuck
      /\ sweep.left = <<>>
  BY DEF Store, IInv, Base, Course
<1>2. /\ Base'
      /\ \A i \in DOMAIN state : i \in DOMAIN state' /\ state'[i] = state[i] /\ held'[i] = held[i]
             /\ abandoned'[i] = abandoned[i]
      /\ \A i \in DOMAIN state' \ DOMAIN state : state'[i] = "Created" /\ abandoned'[i] = {}
      /\ Len(module_order_') >= Len(module_order_)
      /\ \A a \in DOMAIN module_order_ : module_order_'[a] = module_order_[a]
      /\ \A a \in DOMAIN module_order_' \ DOMAIN module_order_ : module_order_'[a] \in Loaded' \ Loaded
      /\ \A n \in Loaded : n \in Loaded' /\ modules_by_name_'[n] = modules_by_name_[n]
      /\ \A n \in Loaded' \ Loaded : modules_by_name_'[n] \notin DOMAIN state
  BY <1>1, StoreBase
<1>3. LeftOver = {} /\ LeftOver' = {}
  BY <1>1 DEF LeftOver, Range
<1>4. /\ Len(sweep.left) = 0 /\ Len(module_order_) \in Nat /\ Len(module_order_') \in Nat
      /\ DOMAIN module_order_ = 1 .. Len(module_order_) /\ DOMAIN module_order_' = 1 .. Len(module_order_')
  BY <1>1, <1>2, OrderFacts DEF Base, TypeOK
<1>5. Course'
  BY <1>1, <1>2, <1>4 DEF Course
<1>6. CASE direct # 0
  BY <1>1, <1>2, <1>5, <1>6, HostsOwn
<1>7. CASE direct = 0
  <2>1. Past'
    <3> SUFFICES ASSUME NEW j \in sweep.over PROVE Behind(j)'
      BY <1>1 DEF Past
    <3>1. Behind(j) /\ j \in DOMAIN state
      BY <1>1, <1>3, <1>7, BehindFacts DEF TypeOK
    <3>2. QED BY <1>1, <1>2, <3>1 DEF Behind, Done
  <2>2. ASSUME NEW j \in Instances' PROVE state'[j] # "Fini" /\ abandoned'[j] = {}
    <3>1. PICK n \in Loaded' : j = modules_by_name_'[n]
      BY DEF Instances
    <3>2. CASE n \in Loaded
      <4>0. j = modules_by_name_[n]
        BY <1>2, <3>1, <3>2
      <4>1. j \in Instances /\ j \in DOMAIN state
        BY <1>1, <3>2, <4>0 DEF Instances, TypeOK
      <4>2. Alive(j) /\ Clean(j)
        BY <1>7, <4>1, BehindFacts
      <4>3. QED BY <1>1, <1>2, <1>7, <4>1, <4>2 DEF Alive, Clean
    <3>3. CASE n \notin Loaded
      <4>1. j \notin DOMAIN state /\ j \in DOMAIN state'
        BY <1>2, <3>1, <3>3 DEF Base, TypeOK
      <4>2. QED BY <1>2, <4>1
    <3>4. QED BY <3>2, <3>3
  <2>3. Ahead'
    <3>1. \A j \in Instances' : Alive(j)' /\ Clean(j)'
      BY <1>1, <2>2 DEF Alive, Clean
    <3>2. sweep.op = "Start" /\ sweep.fresh => sweep.result # "refused"
      BY <1>7 DEF IInv, Ahead
    <3>3. QED BY <1>1, <1>3, <3>1, <3>2 DEF Ahead
  <2>4. DependenciesAreUp'
    <3>1. DependenciesAreUp' <=>
              (direct' = 0 => \A a, b \in DOMAIN module_order_' : a < b => Supports(At(a), At(b))')
      BY DEF DependenciesAreUp, Supports, At
    <3> SUFFICES ASSUME NEW a \in DOMAIN module_order_', NEW b \in DOMAIN module_order_', a < b
                 PROVE  Supports(At(a), At(b))'
      BY <3>1
    <3>2. CASE b \in DOMAIN module_order_
      <4>1. a \in DOMAIN module_order_
        BY <1>4, <3>2
      <4>2. PICK x \in DOMAIN state, y \in DOMAIN state : x = At(a) /\ y = At(b)
        BY <1>1, <3>2, <4>1, OrderFacts
      <4>3. module_order_[a] \in Loaded /\ module_order_[b] \in Loaded
        BY <1>1, <3>2, <4>1, OrderFacts
      <4>4. Supports(x, y)
        BY <1>7, <3>2, <4>1, <4>2, Supported DEF IInv
      <4>5. modules_by_name_'[module_order_'[a]] = x /\ modules_by_name_'[module_order_'[b]] = y
        BY <1>2, <3>2, <4>1, <4>2, <4>3 DEF At
      <4>6. QED BY <1>1, <1>2, <4>4, <4>5 DEF Supports, At
    <3>3. CASE b \notin DOMAIN module_order_
      <4>1. PICK n \in Loaded' \ Loaded : module_order_'[b] = n
        BY <1>2, <3>3
      <4>2. modules_by_name_'[n] \in DOMAIN state' \ DOMAIN state
        BY <1>2 DEF Base, TypeOK
      <4>3. state'[modules_by_name_'[module_order_'[b]]] = "Created"
        BY <1>2, <4>1, <4>2
      <4>4. QED BY <4>3 DEF Supports, At
    <3>4. QED BY <3>2, <3>3
  <2>5. QED BY <1>2, <1>5, <2>1, <2>3, <2>4 DEF IInv
<1>8. QED BY <1>6, <1>7

LEMMA DirectKeeps ==
    ASSUME IInv, NEW name \in Loaded, Direct(name)
    PROVE  IInv'
<1>1. /\ direct' = direct + 1 /\ UNCHANGED <<tables, sweep, inited>> /\ Base /\ TypeOK /\ Course
  BY DEF Direct, IInv, Base
<1>2. Base'
  BY <1>1, DirectBase
<1>3. direct' # 0
  BY <1>1 DEF TypeOK
<1>4. /\ modules_by_name_' = modules_by_name_ /\ module_order_' = module_order_
      /\ Instances' = Instances /\ sweep' = sweep /\ inited' = inited
  BY <1>1 DEF tables, Instances, Loaded
<1>5. Course'
  BY <1>1, <1>4, CourseSame
<1>6. QED BY <1>2, <1>3, <1>5, HostsOwn

LEMMA StutterKeeps ==
    ASSUME IInv, UNCHANGED vars
    PROVE  IInv'
<1>1. /\ UNCHANGED <<tables, instance, inited, direct>> /\ sweep' = sweep
      /\ modules_by_name_' = modules_by_name_ /\ module_order_' = module_order_
      /\ state' = state /\ with_context' = with_context /\ held' = held /\ abandoned' = abandoned /\ stuck' = stuck
      /\ inited' = inited /\ direct' = direct
  BY DEF vars, tables, instance
<1>2. Instances' = Instances /\ LeftOver' = LeftOver /\ Base
  BY <1>1 DEF Instances, LeftOver, Loaded, IInv
<1>3. Base'
  BY <1>1, <1>2, SweepOnlyBase DEF Base, TypeOK
<1>4. Course'
  BY <1>1, <1>2, CourseSame DEF IInv
<1>5. Past'
  BY <1>1, <1>2 DEF IInv, Past, Behind, Done
<1>6. Ahead'
  BY <1>1, <1>2 DEF IInv, Ahead, Alive, Clean
<1>7. DependenciesAreUp'
  BY <1>1 DEF IInv, DependenciesAreUp
<1>8. QED BY <1>3, <1>4, <1>5, <1>6, <1>7 DEF IInv

LEMMA InitEstablishes ==
    ASSUME Init
    PROVE  IInv
<1>1. Base
  BY InitBase
<1>2. /\ modules_by_name_ = [n \in {} |-> 0] /\ module_order_ = <<>> /\ inited = FALSE
      /\ sweep = [op |-> "none", over |-> {}, left |-> <<>>, result |-> "ok",
                  busy |-> FALSE, fresh |-> FALSE]
  BY DEF Init
<1>3. Instances = {} /\ LeftOver = {}
  BY <1>2 DEF Instances, LeftOver, Loaded, Range
<1>4. Course
  BY <1>2 DEF Course
<1>5. Past /\ Ahead /\ DependenciesAreUp
  BY <1>2, <1>3 DEF Past, Ahead, DependenciesAreUp
<1>6. QED BY <1>1, <1>4, <1>5 DEF IInv

LEMMA NextKeeps ==
    ASSUME IInv, [Next]_vars
    PROVE  IInv'
<1>1. ASSUME NEW name \in Names, LoadModule(name) PROVE IInv'
  <2>1. /\ <<name>> \in Seq(Names) /\ IsInjective(<<name>>) /\ ~sweep.busy
        /\ Range(<<name>>) \cap Loaded = {} /\ Store(<<name>>)
    BY <1>1 DEF LoadModule, IsInjective, Range
  <2>2. QED BY <2>1, StoreKeeps
<1>2. ASSUME NEW names \in Files, LoadModules(names) PROVE IInv'
  <2>1. names \in Seq(Names)
    BY DEF ModuleLifecycleAssumption
  <2>2. QED BY <1>2, <2>1, StoreKeeps DEF LoadModules
<1>3. ASSUME NEW name \in Loaded, Direct(name) PROVE IInv'
  BY <1>3, DirectKeeps
<1>4. CASE InitBegin \/ StartBegin
  BY <1>4, BeginKeeps DEF InitBegin, StartBegin
<1>5. CASE StopBegin \/ FiniBegin
  BY <1>5, BeginKeeps DEF StopBegin, FiniBegin
<1>6. QED BY <1>1, <1>2, <1>3, <1>4, <1>5, InitKeeps, StartKeeps, StopKeeps, SkipKeeps, FiniKeeps,
             ReturnKeeps, StutterKeeps DEF Next

-----------------------------------------------------------------------------
(* The theorems.                                                           *)

LEMMA Inductive == Spec => []IInv
<1>1. Init => IInv
  BY InitEstablishes
<1>2. IInv /\ [Next]_vars => IInv'
  BY NextKeeps
<1>3. QED BY <1>1, <1>2, PTL DEF Spec

\* A host that leaves the modules to the manager can rely on it between its
\* calls: a module runs only on top of running modules, and a call that
\* returned Ok has done all of its work (ModuleManager's four sweeps).
THEOREM SweepsAgree == Spec => []ModulesAgree
<1>1. IInv => ModulesAgree
  <2> SUFFICES ASSUME IInv PROVE OkMeansDone
    BY DEF IInv, Base, ModulesAgree
  <2> SUFFICES ASSUME direct = 0, ~sweep.busy, sweep.result = "ok", NEW i \in sweep.over
               PROVE  Done(i)
    BY DEF OkMeansDone, Done
  <2>1. sweep.left = <<>> /\ LeftOver = {}
    BY LeftFacts DEF IInv, Course
  <2>2. QED BY <2>1, BehindFacts DEF Behind
<1>2. QED BY <1>1, Inductive, PTL

\* After a complete Init or an error-free Stop, Start is refused by no module,
\* whatever failed in between (ModuleBase::Start and its transition table).
THEOREM StartIsNeverRefused == Spec => []RestartIsNotRefused
<1>1. IInv => RestartIsNotRefused
  BY DEF IInv, Ahead, RestartIsNotRefused
<1>2. QED BY <1>1, Inductive, PTL

\* Hooks come in turn whatever the host calls and whichever hooks fail
\* (ModuleBase's Init, Start, Stop and Fini).
THEOREM HooksComeInTurn == Spec => HooksInTurn
<1>1. IInv /\ [Next]_vars => [InTurn]_vars
  BY NextBase DEF IInv
<1>2. QED BY <1>1, Inductive, PTL DEF Spec, HooksInTurn, InTurn

\* Lookup finds the services of the loaded modules and of no other, by name or
\* as the only one (ServiceRegistry and RegisterKnownServices).
THEOREM LookupFindsModules == Spec => []ServicesMatchModules
<1>1. IInv => ServicesMatchModules
  BY ServicesFacts DEF IInv
<1>2. QED BY <1>1, Inductive, PTL
=============================================================================
