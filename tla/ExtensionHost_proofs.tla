------------------------- MODULE ExtensionHost_proofs -------------------------
(* Theorems about ExtensionHost, for any extensions, reloads and            *)
(* dispatchers.                                                             *)
EXTENDS ExtensionHost, TLAPS

-----------------------------------------------------------------------------
(* The inductive invariant.                                                *)

\* Where a loader is with the module it is loading, if it has one.
Fresh   == {"list", "lock"}
InInit  == {"init", "subscribed", "registered"}
Failing == {"remove", "drop"}
Busy    == Fresh \cup InInit \cup Failing

\* A name has one tool, the native ones among them.
Table ==
  /\ \A t \in tools : \/ t[1] \in NativeTool
                      \/ t[2] \in Path /\ t[1] = ToolName[t[2]]
  /\ \A s, t \in tools : s[1] = t[1] => s = t
  /\ NativeTool \subseteq {t[1] : t \in tools}

Types ==
  /\ extensions \in SUBSET Module /\ subscribed \in SUBSET Module
  /\ borrowed \in SUBSET Module
  /\ named \in [Path -> Nat] /\ made \in [Path -> 0 .. MaxLoads]
  /\ stage \in [Module -> {"none", "init", "up", "failed"}]
  /\ calls \in [Module -> {Unlocked} \cup Loader \cup Dispatcher]
  /\ loader \in [Loader -> {"idle", "load", "done"} \cup Busy]
  /\ todo \in [Loader -> Seq(Path)]
  /\ old \in [Loader -> SUBSET Module]
  /\ new \in [Loader -> Module \cup {NoModule}]
  /\ walk \in [Dispatcher -> SUBSET Module]
  /\ target \in [Dispatcher -> Module \cup {NoModule}]

\* A reload starts when the start is over, and closes what it took over before
\* it loads the first of the user's paths.
InPaths(p) == \E j \in DOMAIN Paths : p = Paths[j]

PhaseOf(l) ==
  /\ loader[l] \in Busy <=> new[l] # NoModule
  /\ loader[l] \in {"idle", "done"} => todo[l] = << >> /\ old[l] = {}
  /\ loader[l] = "idle" => l # Start
  /\ old[l] # {} => l # Start /\ loader[l] = "load" /\ todo[l] = Paths
  /\ l # Start => \A i \in DOMAIN todo[l] : InPaths(todo[l][i])
  /\ l # Start /\ loader[l] \in Busy => InPaths(new[l][1])

Phases ==
  /\ loader[Start] # "done" => \A l \in Reloader : loader[l] = "idle"
  /\ \A l \in Loader : PhaseOf(l)

\* A module has a number that was drawn, and one loader that loads it.
Numbers ==
  /\ \A p \in Path : named[p] \in {0, made[p]}
  /\ \A m \in Module : stage[m] # "none" => m[2] <= made[m[1]]
  /\ \A m \in extensions : m[2] <= made[m[1]]
  /\ \A l \in Loader : \A m \in old[l] : m[2] <= made[m[1]]
  /\ \A l \in Loader : loader[l] \in Busy => new[l][2] <= made[new[l][1]]
  /\ \A k, l \in Loader : loader[k] \in Busy /\ new[k] = new[l] => k = l

\* A listed module has the name of its path; a name is held by a module that is
\* listed, loading or about to be closed; an old module is no longer listed.
Names ==
  /\ \A m \in extensions : named[m[1]] = m[2] /\ \A l \in Loader : m \notin old[l]
  /\ \A l \in Loader :
       /\ loader[l] = "list" => /\ named[new[l][1]] = new[l][2] /\ new[l] \notin extensions
                                /\ \A k \in Loader : new[l] \notin old[k]
       /\ loader[l] \in {"lock"} \cup InInit =>
            Closed(new[l]) \/ new[l] \in extensions \/ \E k \in Loader : new[l] \in old[k]
       /\ loader[l] = "drop" => new[l] \notin extensions
  /\ \A p \in Path : named[p] # 0 =>
       \/ <<p, named[p]>> \in extensions
       \/ \E l \in Loader : new[l] = <<p, named[p]>> \/ <<p, named[p]>> \in old[l]

\* A module is inside its _init exactly while its loader is.
Stages ==
  /\ \A l \in Loader :
       /\ loader[l] \in Fresh => stage[new[l]] = "none"
       /\ loader[l] \in InInit => stage[new[l]] = "init" /\ calls[new[l]] = l
       /\ loader[l] \in Failing => /\ stage[new[l]] = "failed"
                                   /\ new[l][1] \in Faulty \/ Closed(new[l])
  /\ \A m \in Module : stage[m] = "init" => \E l \in Loader : loader[l] \in InInit /\ new[l] = m
  /\ \A m \in extensions : stage[m] = "up" \/ \E l \in Loader : new[l] = m

\* A subscription of a module that has not begun its _init was borrowed.
Subscriptions ==
  /\ \A m \in subscribed : stage[m] # "none" \/ m \in borrowed
  /\ \A d \in Dispatcher : target[d] # NoModule => target[d] \in subscribed
  /\ \A m \in extensions :
       m \in subscribed \/ \E l \in Loader : new[l] = m /\ loader[l] \in {"lock", "init", "remove"}

\* A path is waiting to be loaded.
Awaited(p) == \E l \in Loader : \E i \in DOMAIN todo[l] : todo[l][i] = p

\* The name of a path that does not fail is taken, or will be.
Provided ==
  \A j \in DOMAIN Paths : Paths[j] \notin Faulty => named[Paths[j]] # 0 \/ Awaited(Paths[j])

\* A tool belongs to a module that is listed, failed or will be loaded; a listed
\* module has its tool once it has registered it.
Registered ==
  /\ \A m \in extensions :
       \/ Holder(ToolName[m[1]]) # {}
       \/ \E l \in Loader : new[l] = m /\ loader[l] \in {"lock", "init", "subscribed", "remove"}
  /\ \A t \in tools :
       \/ t[1] \in NativeTool
       \/ \E m \in extensions : m[1] = t[2]
       \/ \E m \in Module : stage[m] = "failed" /\ m[1] = t[2]
       \/ \E l \in Loader : loader[l] \in Busy /\ new[l][1] = t[2]
       \/ Awaited(t[2])

HostInv ==
  /\ Types /\ Table /\ Phases /\ Numbers /\ Names /\ Stages /\ Subscriptions /\ Provided
  /\ Registered

-----------------------------------------------------------------------------
(* Modules, and the steps by what they touch.                              *)

\* A module is its path and its number.
LEMMA ModulePairs ==
  /\ \A m \in Module : m[1] \in Path /\ m[2] \in 1 .. MaxLoads /\ m[2] \in Nat \ {0}
                       /\ m = <<m[1], m[2]>> /\ m # NoModule
  /\ \A p \in Path, n \in 1 .. MaxLoads : <<p, n>> \in Module
  /\ \A m, x \in Module : m[1] = x[1] /\ m[2] = x[2] => m = x
  /\ NoModule \notin Module
<1>1. MaxLoads \in Nat
  BY HostAssumption
<1>2. \A m \in Module : m[1] \in Path /\ m[2] \in 1 .. MaxLoads /\ m = <<m[1], m[2]>>
  BY DEF Module
<1>3. \A p \in Path, n \in 1 .. MaxLoads : <<p, n>> \in Module
  BY DEF Module
<1>4. NoModule \notin Module
  <2>1. ASSUME NoModule \in Module PROVE FALSE
    <3>1. NoModule = <<NoModule[1], NoModule[2]>>
      BY <1>2, <2>1
    <3> QED
      BY <3>1 DEF NoModule
  <2> QED
    BY <2>1
<1> QED
  BY <1>1, <1>2, <1>3, <1>4

\* A step of a loader, and a step of a dispatcher.
LoaderStep(l) ==
  \/ l \in Reloader /\ Swap(l)
  \/ CloseOld(l) \/ Instantiate(l) \/ List(l) \/ LockInit(l) \/ Subscribe(l)
  \/ RegisterTool(l) \/ ReturnInit(l) \/ FailInit(l) \/ removeExtension(l)
  \/ CloseFailed(l) \/ Loaded(l)

DispatcherStep(d) ==
  \/ Dispatch(d) \/ Enter(d) \/ HandlerSubscribes(d) \/ Leave(d)
  \/ \E m \in Module : Consider(d, m)

\* A step is one of a loader or one of a dispatcher.
LEMMA StepsSplit ==
  ExtNext => \/ \E l \in Loader : LoaderStep(l)
             \/ \E d \in Dispatcher : DispatcherStep(d)
BY DEF ExtNext, LoaderStep, DispatcherStep, Loader

\* What dispatchers leave alone.
LEMMA DispatcherLeaves ==
  ASSUME NEW d \in Dispatcher, DispatcherStep(d)
  PROVE  UNCHANGED <<extensions, named, made, stage, tools, loader, todo, old, new>>
BY DEF DispatcherStep, Dispatch, Enter, HandlerSubscribes, Leave, Consider, loading

\* The user's paths, and the built-in ones before them, are sequences.
LEMMA PathsAreSequences ==
  /\ Builtins \in Seq(Path) /\ Paths \in Seq(Path) /\ Builtins \o Paths \in Seq(Path)
  /\ \A j \in DOMAIN Paths : Paths[j] \in Path
BY HostAssumption

-----------------------------------------------------------------------------
(* Types.                                                                  *)

\* Every step keeps the types.
LEMMA TypesStep ==
  ASSUME Types, Phases, ExtNext
  PROVE  Types'
<1> USE DEF loading, dispatch
<1>0. /\ Start \in Loader /\ Reloader \subseteq Loader /\ MaxLoads \in Nat \ {0}
      /\ Dispatcher \cap Loader = {} /\ Unlocked \notin Loader
  BY HostAssumption DEF Loader
<1>1. ASSUME NEW l \in Loader, LoaderStep(l) PROVE Types'
  <2>0. /\ extensions \in SUBSET Module
        /\ loader[l] \in Busy => new[l] \in Module
        /\ todo[l] \in Seq(Path)
    BY ModulePairs DEF Types, Phases, PhaseOf
  <2>1. CASE Swap(l)
    BY <2>0, <2>1, PathsAreSequences DEF Swap, Types, Busy
  <2>2. CASE CloseOld(l)
    <3>1. PICK m \in old[l] : old' = [old EXCEPT ![l] = @ \ {m}] /\ named' = Freed(m)
      BY <2>2 DEF CloseOld
    <3>2. named' \in [Path -> Nat]
      BY <3>1 DEF Freed, Types
    <3>3. old' \in [Loader -> SUBSET Module]
      BY <3>1 DEF Types
    <3> QED
      BY <2>2, <3>2, <3>3 DEF CloseOld, Types
  <2>3. CASE Instantiate(l)
    <3>1. todo[l] # << >> /\ todo' = [todo EXCEPT ![l] = Tail(@)]
          /\ UNCHANGED <<extensions, stage, subscribed, tools, calls, old, dispatch, borrowed>>
      BY <2>3 DEF Instantiate
    <3>2. Head(todo[l]) \in Path /\ Tail(todo[l]) \in Seq(Path)
      BY <2>0, <3>1
    <3>3. todo' \in [Loader -> Seq(Path)]
      BY <3>1, <3>2 DEF Types
    <3>4. CASE UNCHANGED <<named, made, new, loader>>
      BY <3>1, <3>3, <3>4 DEF Types
    <3>5. CASE named[Head(todo[l])] = 0
      <4> DEFINE p == Head(todo[l])
                 n == made[p] + 1
      <4>1. /\ made[p] < MaxLoads /\ made' = [made EXCEPT ![p] = n]
            /\ named' = [named EXCEPT ![p] = n] /\ new' = [new EXCEPT ![l] = <<p, n>>]
            /\ loader' = [loader EXCEPT ![l] = "list"]
        BY <2>3, <3>5 DEF Instantiate
      <4>2. made[p] \in 0 .. MaxLoads /\ p \in Path
        BY <3>2 DEF Types
      <4>3. n \in 1 .. MaxLoads /\ n \in 0 .. MaxLoads /\ n \in Nat
        BY <1>0, <4>1, <4>2
      <4>4. <<p, n>> \in Module
        BY <4>2, <4>3, ModulePairs
      <4> HIDE DEF n, p
      <4>5. made' \in [Path -> 0 .. MaxLoads] /\ named' \in [Path -> Nat]
        BY <4>1, <4>3 DEF Types
      <4>6. new' \in [Loader -> Module \cup {NoModule}]
        BY <4>1, <4>4 DEF Types
      <4>7. loader' \in [Loader -> {"idle", "load", "done"} \cup Busy]
        BY <4>1 DEF Types, Busy, Fresh
      <4> QED
        BY <3>1, <3>3, <4>5, <4>6, <4>7 DEF Types
    <3> QED
      BY <2>3, <3>4, <3>5 DEF Instantiate
  <2>4. CASE List(l)
    <3>1. new[l] \in Module
      BY <2>0, <2>4 DEF List, Busy, Fresh
    <3> QED
      BY <2>4, <3>1 DEF List, Types, Busy, Fresh
  <2>5. CASE LockInit(l)
    <3>1. calls' \in [Module -> {Unlocked} \cup Loader \cup Dispatcher]
      BY <2>5 DEF LockInit, Types
    <3>2. stage' \in [Module -> {"none", "init", "up", "failed"}]
      BY <2>5 DEF LockInit, Types
    <3> QED
      BY <2>5, <3>1, <3>2 DEF LockInit, Types, Busy, InInit
  <2>6. CASE Subscribe(l)
    <3>1. subscribed' \in SUBSET Module /\ borrowed' \in SUBSET Module
      BY <2>6 DEF Subscribe, subscribe, Types
    <3> QED
      BY <2>6, <3>1 DEF Subscribe, Types, Busy, InInit
  <2>7. CASE RegisterTool(l)
    <3>1. new[l][1] \in Path
      BY <2>0, <2>7, ModulePairs DEF RegisterTool, Busy, InInit
    <3> QED
      BY <2>7, <3>1 DEF RegisterTool, Types, Busy, InInit
  <2>8. CASE ReturnInit(l)
    <3>1. calls' \in [Module -> {Unlocked} \cup Loader \cup Dispatcher]
      BY <2>8 DEF ReturnInit, Types
    <3>2. stage' \in [Module -> {"none", "init", "up", "failed"}]
      BY <2>8 DEF ReturnInit, Types
    <3> QED
      BY <2>8, <3>1, <3>2 DEF ReturnInit, Types
  <2>9. CASE FailInit(l)
    <3>1. calls' \in [Module -> {Unlocked} \cup Loader \cup Dispatcher]
      BY <2>9 DEF FailInit, Types
    <3>2. stage' \in [Module -> {"none", "init", "up", "failed"}]
      BY <2>9 DEF FailInit, Types
    <3> QED
      BY <2>9, <3>1, <3>2 DEF FailInit, Types, Busy, Failing
  <2>10. CASE removeExtension(l)
    BY <2>10 DEF removeExtension, Types, Busy, Failing
  <2>11. CASE CloseFailed(l)
    <3>1. named' \in [Path -> Nat]
      BY <2>11 DEF CloseFailed, Freed, Types
    <3> QED
      BY <2>11, <3>1 DEF CloseFailed, Types
  <2>12. CASE Loaded(l)
    BY <2>12 DEF Loaded, Types
  <2> QED
    BY <1>1, <2>1, <2>2, <2>3, <2>4, <2>5, <2>6, <2>7, <2>8, <2>9, <2>10, <2>11, <2>12
    DEF LoaderStep
<1>2. ASSUME NEW d \in Dispatcher, DispatcherStep(d) PROVE Types'
  <2>1. UNCHANGED <<extensions, named, made, stage, tools, loader, todo, old, new>>
    BY <1>2, DispatcherLeaves
  <2>2. CASE Dispatch(d)
    BY <2>1, <2>2 DEF Dispatch, Types
  <2>3. ASSUME NEW m \in Module, Consider(d, m) PROVE Types'
    <3>1. walk' \in [Dispatcher -> SUBSET Module]
      BY <2>3 DEF Consider, Types
    <3>2. target' \in [Dispatcher -> Module \cup {NoModule}]
      BY <2>3 DEF Consider, Types
    <3> QED
      BY <2>1, <2>3, <3>1, <3>2 DEF Consider, Types
  <2>4. CASE Enter(d)
    <3>1. calls' \in [Module -> {Unlocked} \cup Loader \cup Dispatcher]
      BY <2>4 DEF Enter, Types
    <3> QED
      BY <2>1, <2>4, <3>1 DEF Enter, Types
  <2>5. CASE HandlerSubscribes(d)
    <3>1. subscribed' \in SUBSET Module /\ borrowed' \in SUBSET Module
      BY <2>5 DEF HandlerSubscribes, subscribe, Types
    <3> QED
      BY <2>1, <2>5, <3>1 DEF HandlerSubscribes, Types
  <2>6. CASE Leave(d)
    <3>1. calls' \in [Module -> {Unlocked} \cup Loader \cup Dispatcher]
      BY <2>6 DEF Leave, Types
    <3> QED
      BY <2>1, <2>6, <3>1 DEF Leave, Types
  <2> QED
    BY <1>2, <2>2, <2>3, <2>4, <2>5, <2>6 DEF DispatcherStep
<1> QED
  BY <1>1, <1>2, StepsSplit

\* Instantiate either finds the name taken, or draws the next number.
Skips(l, p) == named[p] # 0 /\ UNCHANGED <<named, made, new, loader>>

Draws(l, p, m) ==
  /\ named[p] = 0
  /\ m \in Module /\ m[1] = p /\ m[2] = made[p] + 1
  /\ made' = [made EXCEPT ![p] = m[2]] /\ named' = [named EXCEPT ![p] = m[2]]
  /\ new' = [new EXCEPT ![l] = m] /\ loader' = [loader EXCEPT ![l] = "list"]

\* What Instantiate does, by its two outcomes.
LEMMA InstantiateEffect ==
  ASSUME Types, NEW l \in Loader, Instantiate(l)
  PROVE  /\ loader[l] = "load" /\ old[l] = {}
         /\ UNCHANGED <<extensions, stage, subscribed, tools, calls, old, walk, target, borrowed>>
         /\ todo' = [todo EXCEPT ![l] = Tail(todo[l])]
         /\ \A i \in DOMAIN Tail(todo[l]) :
              i + 1 \in DOMAIN todo[l] /\ Tail(todo[l])[i] = todo[l][i + 1]
         /\ \A i \in DOMAIN todo[l] :
              i # 1 => i - 1 \in DOMAIN Tail(todo[l]) /\ Tail(todo[l])[i - 1] = todo[l][i]
         /\ \E p \in Path : /\ 1 \in DOMAIN todo[l] /\ p = todo[l][1]
                            /\ Skips(l, p) \/ \E m \in Module : Draws(l, p, m)
<1> DEFINE p == Head(todo[l])
           n == made[p] + 1
<1>1. /\ loader[l] = "load" /\ old[l] = {}
      /\ UNCHANGED <<extensions, stage, subscribed, tools, calls, old, walk, target, borrowed>>
      /\ todo[l] # << >> /\ todo' = [todo EXCEPT ![l] = Tail(todo[l])]
  BY DEF Instantiate, dispatch
<1>2. /\ p \in Path /\ p = todo[l][1] /\ 1 \in DOMAIN todo[l]
      /\ todo[l] \in Seq(Path)
  BY <1>1 DEF Types
<1>3. /\ \A i \in DOMAIN Tail(todo[l]) :
           i + 1 \in DOMAIN todo[l] /\ Tail(todo[l])[i] = todo[l][i + 1]
      /\ \A i \in DOMAIN todo[l] :
           i # 1 => i - 1 \in DOMAIN Tail(todo[l]) /\ Tail(todo[l])[i - 1] = todo[l][i]
  BY <1>1, <1>2
<1>4. CASE named[p] # 0
  <2>1. Skips(l, p)
    BY <1>4 DEF Instantiate, Skips
  <2> QED
    BY <1>1, <1>2, <1>3, <2>1
<1>5. CASE named[p] = 0
  <2>1. /\ made[p] < MaxLoads /\ made' = [made EXCEPT ![p] = n]
        /\ named' = [named EXCEPT ![p] = n] /\ new' = [new EXCEPT ![l] = <<p, n>>]
        /\ loader' = [loader EXCEPT ![l] = "list"]
    BY <1>5 DEF Instantiate
  <2>2. made[p] \in 0 .. MaxLoads /\ MaxLoads \in Nat
    BY <1>2, HostAssumption DEF Types
  <2>3. n \in 1 .. MaxLoads
    BY <2>1, <2>2
  <2>4. <<p, n>> \in Module
    BY <1>2, <2>3, ModulePairs
  <2>5. Draws(l, p, <<p, n>>)
    BY <1>5, <2>1, <2>4 DEF Draws
  <2> QED
    BY <1>1, <1>2, <1>3, <2>4, <2>5
<1> QED
  BY <1>4, <1>5

-----------------------------------------------------------------------------
(* Phases.                                                                 *)

\* The step of a loader that is not idle, seen by the order of the start and
\* the reloads.
LEMMA StartsFirst ==
  ASSUME Types, Phases, NEW l \in Loader, LoaderStep(l),
         \A k \in Loader : k # l => loader'[k] = loader[k]
  PROVE  loader'[Start] # "done" => \A k \in Reloader : loader'[k] = "idle"
<1>1. Start \in Loader /\ Reloader \subseteq Loader /\ Start \notin Reloader
  BY HostAssumption DEF Loader
<1>2. CASE l = Start
  <2>1. loader[Start] # "done"
    BY <1>1, <1>2 DEF LoaderStep, CloseOld, Instantiate, List, LockInit, Subscribe, RegisterTool,
       ReturnInit, FailInit, removeExtension, CloseFailed, Loaded, Phases, PhaseOf
  <2>2. \A k \in Reloader : loader'[k] = loader[k]
    BY <1>1, <1>2
  <2> QED
    BY <2>1, <2>2 DEF Phases
<1>3. CASE l # Start
  <2>1. l \in Reloader
    BY <1>3 DEF Loader
  <2>2. loader[l] # "idle" \/ loader[Start] = "done"
    BY <1>1 DEF LoaderStep, Swap, CloseOld, Instantiate, List, LockInit, Subscribe, RegisterTool,
       ReturnInit, FailInit, removeExtension, CloseFailed, Loaded, Phases, PhaseOf
  <2>3. loader[Start] = "done"
    BY <2>1, <2>2 DEF Phases
  <2>4. loader'[Start] = loader[Start]
    BY <1>1, <1>3
  <2> QED
    BY <2>3, <2>4
<1> QED
  BY <1>2, <1>3

\* Every step keeps the phases of the loaders.
LEMMA PhasesStep ==
  ASSUME Types, Phases, ExtNext
  PROVE  Phases'
<1>0. /\ Start \in Loader /\ Reloader \subseteq Loader /\ Start \notin Reloader
      /\ \A k \in Loader : k # Start => k \in Reloader
  BY HostAssumption DEF Loader
<1>1. ASSUME NEW l \in Loader, LoaderStep(l) PROVE Phases'
  <2>0. PhaseOf(l) /\ \A k \in Loader : PhaseOf(k)
    BY DEF Phases
  <2>1. ASSUME NEW k \in Loader, k # l
        PROVE  /\ loader'[k] = loader[k] /\ new'[k] = new[k] /\ old'[k] = old[k]
               /\ todo'[k] = todo[k]
    BY <1>1, <2>1 DEF LoaderStep, Swap, CloseOld, Instantiate, List, LockInit, Subscribe,
       RegisterTool, ReturnInit, FailInit, removeExtension, CloseFailed, Loaded, Types, loading
  <2>2. \A k \in Loader : k # l => PhaseOf(k)'
    BY <2>0, <2>1 DEF PhaseOf
  <2>3. loader'[Start] # "done" => \A k \in Reloader : loader'[k] = "idle"
    BY <1>1, <2>1, StartsFirst
  <2>4. CASE Swap(l) /\ l \in Reloader
    <3>1. /\ loader'[l] = "load" /\ todo'[l] = Paths /\ old'[l] = extensions /\ new'[l] = new[l]
          /\ loader[l] = "idle"
      BY <2>4 DEF Swap, Types
    <3>2. l # Start /\ "load" \notin Busy /\ "idle" \notin Busy
      BY <1>0, <2>4 DEF Busy, Fresh, InInit, Failing
    <3>3. PhaseOf(l)'
      BY <2>0, <3>1, <3>2 DEF PhaseOf, InPaths
    <3> QED
      BY <2>2, <2>3, <3>3 DEF Phases
  <2>5. CASE CloseOld(l)
    <3>1. /\ loader'[l] = loader[l] /\ todo'[l] = todo[l] /\ new'[l] = new[l]
          /\ old[l] # {} /\ old'[l] \subseteq old[l]
      BY <2>5 DEF CloseOld, Types
    <3>2. PhaseOf(l)'
      BY <2>0, <3>1 DEF PhaseOf
    <3> QED
      BY <2>2, <2>3, <3>2 DEF Phases
  <2>6. CASE Instantiate(l)
    <3>1. PICK p \in Path : /\ 1 \in DOMAIN todo[l] /\ p = todo[l][1]
                            /\ Skips(l, p) \/ \E m \in Module : Draws(l, p, m)
      BY <2>6, InstantiateEffect
    <3>2. /\ loader[l] = "load" /\ old'[l] = {} /\ todo'[l] = Tail(todo[l])
          /\ \A i \in DOMAIN Tail(todo[l]) :
               i + 1 \in DOMAIN todo[l] /\ Tail(todo[l])[i] = todo[l][i + 1]
      BY <2>6, InstantiateEffect DEF Types
    <3>3. ASSUME l # Start PROVE InPaths(p) /\ \A i \in DOMAIN todo'[l] : InPaths(todo'[l][i])
      <4>1. \A i \in DOMAIN todo[l] : InPaths(todo[l][i])
        BY <2>0, <3>3 DEF PhaseOf
      <4>0. 1 \in DOMAIN todo[l] /\ p = todo[l][1]
        BY <3>1
      <4>2. InPaths(p)
        BY <4>0, <4>1, Zenon
      <4>3. ASSUME NEW i \in DOMAIN todo'[l] PROVE InPaths(todo'[l][i])
        <5>1. i \in DOMAIN Tail(todo[l]) /\ todo'[l][i] = Tail(todo[l])[i]
          BY <3>2
        <5>2. i + 1 \in DOMAIN todo[l] /\ todo'[l][i] = todo[l][i + 1]
          BY <3>2, <5>1
        <5>3. InPaths(todo[l][i + 1])
          BY <4>1, <5>2
        <5> QED
          BY <5>2, <5>3
      <4> QED
        BY <4>2, <4>3
    <3>4. CASE Skips(l, p)
      <4>1. loader'[l] = loader[l] /\ new'[l] = new[l]
        BY <3>4 DEF Skips
      <4>2. PhaseOf(l)'
        BY <2>0, <3>2, <3>3, <4>1 DEF PhaseOf
      <4> QED
        BY <2>2, <2>3, <4>2 DEF Phases
    <3>5. ASSUME NEW m \in Module, Draws(l, p, m) PROVE Phases'
      <4>1. loader'[l] = "list" /\ new'[l] = m /\ m[1] = p /\ m # NoModule /\ "list" \in Busy
        BY <3>5, ModulePairs DEF Draws, Types, Busy, Fresh
      <4>2. PhaseOf(l)'
        BY <3>2, <3>3, <4>1 DEF PhaseOf
      <4> QED
        BY <2>2, <2>3, <4>2 DEF Phases
    <3> QED
      BY <3>1, <3>4, <3>5
  <2>7. CASE List(l) \/ LockInit(l) \/ Subscribe(l) \/ RegisterTool(l) \/ FailInit(l)
             \/ removeExtension(l)
    <3>1. /\ loader[l] \in Busy /\ loader'[l] \in Busy
          /\ todo'[l] = todo[l] /\ new'[l] = new[l] /\ old'[l] = old[l]
      BY <2>7 DEF List, LockInit, Subscribe, RegisterTool, FailInit, removeExtension, Types,
         Busy, Fresh, InInit, Failing
    <3>2. loader[l] \notin {"idle", "load", "done"} /\ loader'[l] \notin {"idle", "done"}
      BY <3>1 DEF Busy, Fresh, InInit, Failing
    <3>3. PhaseOf(l)'
      BY <2>0, <3>1, <3>2 DEF PhaseOf
    <3> QED
      BY <2>2, <2>3, <3>3 DEF Phases
  <2>8. CASE ReturnInit(l) \/ CloseFailed(l)
    <3>1. /\ loader[l] \in Busy /\ loader'[l] = "load"
          /\ todo'[l] = todo[l] /\ new'[l] = NoModule /\ old'[l] = old[l]
      BY <2>8 DEF ReturnInit, CloseFailed, Types, Busy, InInit, Failing
    <3>2. "load" \notin Busy
      BY DEF Busy, Fresh, InInit, Failing
    <3>3. PhaseOf(l)'
      BY <2>0, <3>1, <3>2 DEF PhaseOf
    <3> QED
      BY <2>2, <2>3, <3>3 DEF Phases
  <2>9. CASE Loaded(l)
    <3>1. /\ loader[l] = "load" /\ loader'[l] = "done" /\ old[l] = {} /\ todo[l] = << >>
          /\ todo'[l] = todo[l] /\ new'[l] = new[l] /\ old'[l] = old[l]
      BY <2>9 DEF Loaded, Types
    <3>2. "load" \notin Busy /\ "done" \notin Busy
      BY DEF Busy, Fresh, InInit, Failing
    <3>3. PhaseOf(l)'
      BY <2>0, <3>1, <3>2 DEF PhaseOf
    <3> QED
      BY <2>2, <2>3, <3>3 DEF Phases
  <2> QED
    BY <1>1, <2>4, <2>5, <2>6, <2>7, <2>8, <2>9 DEF LoaderStep
<1>2. ASSUME NEW d \in Dispatcher, DispatcherStep(d) PROVE Phases'
  <2>1. UNCHANGED <<loader, todo, old, new>>
    BY <1>2, DispatcherLeaves
  <2> QED
    BY <2>1 DEF Phases, PhaseOf
<1> QED
  BY <1>1, <1>2, StepsSplit

-----------------------------------------------------------------------------
(* Numbers.                                                                *)

\* The facts about types and phases that the steps below need.
LEMMA BusyModule ==
  ASSUME Types, Phases, NEW l \in Loader
  PROVE  /\ loader[l] \in Busy => /\ new[l] \in Module /\ new[l][1] \in Path
                                  /\ new[l][2] \in Nat \ {0}
         /\ loader[l] \notin Busy => new[l] = NoModule
         /\ \A m \in old[l] : m \in Module
BY ModulePairs DEF Types, Phases, PhaseOf

\* The phases of a busy loader are none of the others.
LEMMA PhaseNames ==
  /\ \A f \in Busy : f \notin {"idle", "load", "done"}
  /\ Fresh \subseteq Busy /\ InInit \subseteq Busy /\ Failing \subseteq Busy
  /\ {"list", "lock", "init", "subscribed", "registered", "remove", "drop"} \subseteq Busy
BY DEF Busy, Fresh, InInit, Failing

\* Every step keeps the numbers of modules drawn, and each with one loader.
LEMMA NumbersStep ==
  ASSUME Types, Phases, Numbers, ExtNext
  PROVE  Numbers'
<1>0. /\ \A p \in Path : made[p] \in Nat /\ named[p] \in Nat
      /\ \A m \in Module : m[1] \in Path /\ m[2] \in Nat \ {0}
      /\ \A m \in extensions : m \in Module
      /\ \A l \in Loader : \A m \in old[l] : m \in Module
      /\ \A l \in Loader : loader[l] \in Busy => new[l] \in Module
      /\ \A l \in Loader : loader[l] \notin Busy => new[l] = NoModule
  BY BusyModule, ModulePairs, HostAssumption DEF Types
<1>1. ASSUME NEW l \in Loader, LoaderStep(l) PROVE Numbers'
  <2>1. CASE Swap(l)
    <3>1. /\ UNCHANGED <<named, made, stage, new>>
          /\ extensions' = {} /\ old' = [old EXCEPT ![l] = extensions]
          /\ loader' = [loader EXCEPT ![l] = "load"] /\ loader[l] = "idle"
      BY <2>1 DEF Swap
    <3>2. \A k \in Loader : \A m \in old'[k] : m[2] <= made[m[1]]
      BY <3>1 DEF Numbers, Types
    <3>3. \A k \in Loader : loader'[k] \in Busy <=> loader[k] \in Busy
      BY <3>1, PhaseNames DEF Types
    <3> QED
      BY <3>1, <3>2, <3>3 DEF Numbers
  <2>2. CASE CloseOld(l)
    <3>1. PICK m \in old[l] : old' = [old EXCEPT ![l] = @ \ {m}] /\ named' = Freed(m)
      BY <2>2 DEF CloseOld
    <3>2. UNCHANGED <<extensions, made, stage, loader, new>>
      BY <2>2 DEF CloseOld
    <3>3. \A p \in Path : named'[p] \in {0, made[p]}
      BY <3>1 DEF Freed, Types, Numbers
    <3>4. \A k \in Loader : old'[k] \subseteq old[k]
      BY <3>1 DEF Types
    <3> QED
      BY <3>2, <3>3, <3>4 DEF Numbers
  <2>3. CASE Instantiate(l)
    <3>1. PICK p \in Path : /\ 1 \in DOMAIN todo[l] /\ p = todo[l][1]
                            /\ Skips(l, p) \/ \E m \in Module : Draws(l, p, m)
      BY <2>3, InstantiateEffect
    <3>2. UNCHANGED <<extensions, stage, old>>
      BY <2>3, InstantiateEffect
    <3>3. CASE Skips(l, p)
      BY <3>2, <3>3 DEF Skips, Numbers
    <3>4. ASSUME NEW m \in Module, Draws(l, p, m) PROVE Numbers'
      <4>1. /\ m[1] = p /\ m[2] = made[p] + 1
            /\ made' = [made EXCEPT ![p] = m[2]] /\ named' = [named EXCEPT ![p] = m[2]]
            /\ new' = [new EXCEPT ![l] = m] /\ loader' = [loader EXCEPT ![l] = "list"]
        BY <3>4 DEF Draws
      <4>2. \A q \in Path : made'[q] \in Nat /\ made[q] <= made'[q] /\ named'[q] \in {0, made'[q]}
        BY <1>0, <3>1, <4>1 DEF Types, Numbers
      <4>3. m[2] <= made'[m[1]]
        BY <1>0, <4>1 DEF Types
      <4>4. \A x \in Module : x[2] <= made[x[1]] => x[2] <= made'[x[1]] /\ x # m
        BY <1>0, <4>1, <4>2
      <4>5. ASSUME NEW k \in Loader, loader'[k] \in Busy PROVE new'[k][2] <= made'[new'[k][1]]
        <5>1. CASE k = l
          BY <4>1, <4>3, <5>1 DEF Types
        <5>2. CASE k # l
          BY <1>0, <4>1, <4>4, <4>5, <5>2 DEF Types, Numbers
        <5> QED
          BY <5>1, <5>2
      <4>6. ASSUME NEW k \in Loader, k # l PROVE new'[k] = new[k] /\ new[k] # m
        <5>1. CASE loader[k] \in Busy
          BY <1>0, <4>1, <4>4, <4>6, <5>1 DEF Types, Numbers
        <5>2. CASE loader[k] \notin Busy
          BY <1>0, <4>1, <4>6, <5>2, ModulePairs DEF Types
        <5> QED
          BY <5>1, <5>2
      <4>7. new'[l] = m
        BY <4>1 DEF Types
      <4>8. \A j, k \in Loader : loader'[j] \in Busy /\ new'[j] = new'[k] => j = k
        <5> SUFFICES ASSUME NEW j \in Loader, NEW k \in Loader,
                            loader'[j] \in Busy, new'[j] = new'[k], j # k
                     PROVE  FALSE
          OBVIOUS
        <5>1. j # l /\ k # l
          BY <4>6, <4>7
        <5>2. loader[j] \in Busy /\ new[j] = new[k]
          BY <4>1, <4>6, <5>1 DEF Types
        <5> QED
          BY <5>2 DEF Numbers
      <4>9. \A x \in Module : stage[x] # "none" => x[2] <= made'[x[1]]
        BY <4>4 DEF Numbers
      <4>10. /\ \A x \in extensions : x[2] <= made'[x[1]]
             /\ \A k \in Loader : \A x \in old[k] : x[2] <= made'[x[1]]
        BY <1>0, <4>4 DEF Numbers
      <4> QED
        BY <3>2, <4>2, <4>5, <4>8, <4>9, <4>10 DEF Numbers
    <3> QED
      BY <3>1, <3>3, <3>4
  <2>4. CASE List(l)
    <3>1. /\ UNCHANGED <<named, made, stage, old, new>>
          /\ extensions' = extensions \cup {new[l]}
          /\ \A k \in Loader : loader'[k] \in Busy <=> loader[k] \in Busy
          /\ loader[l] \in Busy
      BY <2>4, PhaseNames DEF List, Types
    <3> QED
      BY <3>1 DEF Numbers
  <2>5. CASE LockInit(l) \/ FailInit(l)
    <3>1. /\ UNCHANGED <<named, made, extensions, old, new>>
          /\ \A m \in Module : m # new[l] => stage'[m] = stage[m]
          /\ \A k \in Loader : loader'[k] \in Busy <=> loader[k] \in Busy
          /\ loader[l] \in Busy
      BY <2>5, PhaseNames DEF LockInit, FailInit, Types
    <3> QED
      BY <3>1 DEF Numbers
  <2>6. CASE ReturnInit(l)
    <3>1. /\ UNCHANGED <<named, made, extensions, old>>
          /\ \A m \in Module : m # new[l] => stage'[m] = stage[m]
          /\ \A k \in Loader : k # l => loader'[k] = loader[k] /\ new'[k] = new[k]
          /\ loader[l] \in Busy /\ new'[l] = NoModule
          /\ loader'[l] \notin Busy
      BY <2>6, PhaseNames DEF ReturnInit, Types
    <3>2. \A m \in Module : stage'[m] # "none" => m[2] <= made[m[1]]
      BY <3>1 DEF Numbers
    <3>3. \A j, k \in Loader : loader'[j] \in Busy /\ new'[j] = new'[k] => j = k
      BY <1>0, <3>1, ModulePairs DEF Numbers
    <3> QED
      BY <3>1, <3>2, <3>3 DEF Numbers
  <2>7. CASE Subscribe(l) \/ RegisterTool(l)
    <3>1. /\ UNCHANGED <<named, made, stage, extensions, old, new>>
          /\ \A k \in Loader : loader'[k] \in Busy <=> loader[k] \in Busy
      BY <2>7, PhaseNames DEF Subscribe, RegisterTool, Types
    <3> QED
      BY <3>1 DEF Numbers
  <2>8. CASE removeExtension(l)
    <3>1. /\ UNCHANGED <<named, made, stage, old, new>>
          /\ extensions' \subseteq extensions
          /\ \A k \in Loader : loader'[k] \in Busy <=> loader[k] \in Busy
      BY <2>8, PhaseNames DEF removeExtension, Types
    <3> QED
      BY <3>1 DEF Numbers
  <2>9. CASE CloseFailed(l)
    <3>1. /\ UNCHANGED <<made, stage, extensions, old>>
          /\ \A k \in Loader : k # l => loader'[k] = loader[k] /\ new'[k] = new[k]
          /\ new'[l] = NoModule /\ loader'[l] \notin Busy
      BY <2>9, PhaseNames DEF CloseFailed, Types
    <3>2. \A p \in Path : named'[p] \in {0, made[p]}
      BY <2>9 DEF CloseFailed, Freed, Types, Numbers
    <3>3. \A j, k \in Loader : loader'[j] \in Busy /\ new'[j] = new'[k] => j = k
      BY <1>0, <3>1, ModulePairs DEF Numbers
    <3> QED
      BY <3>1, <3>2, <3>3 DEF Numbers
  <2>10. CASE Loaded(l)
    <3>1. /\ UNCHANGED <<named, made, stage, extensions, old, new>>
          /\ \A k \in Loader : loader'[k] \in Busy <=> loader[k] \in Busy
      BY <2>10, PhaseNames DEF Loaded, Types
    <3> QED
      BY <3>1 DEF Numbers
  <2> QED
    BY <1>1, <2>1, <2>2, <2>3, <2>4, <2>5, <2>6, <2>7, <2>8, <2>9, <2>10 DEF LoaderStep
<1>2. ASSUME NEW d \in Dispatcher, DispatcherStep(d) PROVE Numbers'
  <2>1. UNCHANGED <<extensions, named, made, stage, loader, old, new>>
    BY <1>2, DispatcherLeaves
  <2> QED
    BY <2>1 DEF Numbers
<1> QED
  BY <1>1, <1>2, StepsSplit

-----------------------------------------------------------------------------
(* Names.                                                                  *)

\* Freeing the name of a module touches no other module, and no module that is
\* closed is opened again.
LEMMA FreedKeeps ==
  ASSUME Types, NEW m \in Module, named' = Freed(m)
  PROVE  /\ \A x \in Module : x # m /\ named[x[1]] = x[2] => named'[x[1]] = x[2]
         /\ \A x \in Module : Closed(x) => Closed(x)'
         /\ Closed(m)'
         /\ \A p \in Path : named'[p] # 0 => named'[p] = named[p] /\ <<p, named[p]>> # m
<1>1. /\ \A x \in Module : x[1] \in Path /\ x[2] \in Nat \ {0}
      /\ \A x, y \in Module : x[1] = y[1] /\ x[2] = y[2] => x = y
  BY ModulePairs
<1>2. \A p \in Path :
        named'[p] = IF p = m[1] /\ named[p] = m[2] THEN 0 ELSE named[p]
  BY <1>1 DEF Freed, Types
<1>3. \A x \in Module : x # m /\ named[x[1]] = x[2] => named'[x[1]] = x[2]
  BY <1>1, <1>2
<1>4. \A x \in Module : Closed(x) => Closed(x)'
  BY <1>1, <1>2 DEF Closed
<1>5. Closed(m)'
  BY <1>1, <1>2 DEF Closed
<1>6. ASSUME NEW p \in Path, named'[p] # 0
      PROVE  named'[p] = named[p] /\ <<p, named[p]>> # m
  BY <1>1, <1>2, <1>6
<1> QED
  BY <1>3, <1>4, <1>5, <1>6

\* What Names says of one loader, and of one name.
NameOf(l) ==
  /\ loader[l] = "list" => /\ named[new[l][1]] = new[l][2] /\ new[l] \notin extensions
                           /\ \A k \in Loader : new[l] \notin old[k]
  /\ loader[l] \in {"lock"} \cup InInit =>
       Closed(new[l]) \/ new[l] \in extensions \/ \E k \in Loader : new[l] \in old[k]
  /\ loader[l] = "drop" => new[l] \notin extensions

Held(m) == m \in extensions \/ \E l \in Loader : new[l] = m \/ m \in old[l]

\* Every step keeps who has the name of a path.
LEMMA NamesStep ==
  ASSUME Types, Phases, Numbers, Names, ExtNext
  PROVE  Names'
<1>0. /\ \A p \in Path : made[p] \in Nat /\ named[p] \in Nat
      /\ \A m \in Module : m[1] \in Path /\ m[2] \in Nat \ {0} /\ m = <<m[1], m[2]>>
      /\ \A m \in extensions : m \in Module
      /\ \A l \in Loader : \A m \in old[l] : m \in Module
      /\ \A l \in Loader : loader[l] \in Busy => new[l] \in Module
      /\ \A l \in Loader : loader[l] \notin Busy => new[l] = NoModule
      /\ \A p \in Path : \A n : <<p, n>> # NoModule
  BY BusyModule, ModulePairs, HostAssumption DEF Types, NoModule
<1> DEFINE Listed == \A m \in extensions : named[m[1]] = m[2] /\ \A l \in Loader : m \notin old[l]
           Holders == \A p \in Path : named[p] # 0 => Held(<<p, named[p]>>)
<1>a. Listed /\ Holders /\ \A l \in Loader : NameOf(l)
  BY DEF Names, NameOf, Held
<1>b. ASSUME Listed', Holders', \A l \in Loader : NameOf(l)' PROVE Names'
  BY <1>b DEF Names, NameOf, Held
<1>c. ASSUME NEW l \in Loader, loader[l] \in {"list", "drop", "lock"} \cup InInit
      PROVE  new[l] \in Module
  BY <1>0, <1>c, PhaseNames
<1>1. ASSUME NEW l \in Loader, LoaderStep(l) PROVE Names'
  <2>1. CASE Swap(l)
    <3>1. /\ UNCHANGED <<named, new>> /\ extensions' = {} /\ loader[l] = "idle"
          /\ old'[l] = extensions /\ loader'[l] = "load"
          /\ \A k \in Loader : k # l => old'[k] = old[k] /\ loader'[k] = loader[k]
      BY <2>1 DEF Swap, Types
    <3>2. old[l] = {}
      BY <3>1 DEF Phases, PhaseOf
    <3>3. ASSUME NEW k \in Loader PROVE NameOf(k)'
      <4>1. CASE k = l
        BY <3>1, <4>1 DEF NameOf, InInit
      <4>2. CASE k # l
        BY <1>a, <3>1, <3>2, <4>2 DEF NameOf, Closed
      <4> QED
        BY <4>1, <4>2
    <3>4. Holders'
      BY <1>a, <3>1, <3>2 DEF Held
    <3> QED
      BY <1>b, <3>1, <3>3, <3>4
  <2>2. CASE CloseOld(l)
    <3>1. PICK m \in old[l] : old' = [old EXCEPT ![l] = @ \ {m}] /\ named' = Freed(m)
      BY <2>2 DEF CloseOld
    <3>2. UNCHANGED <<extensions, loader, new>>
      BY <2>2 DEF CloseOld
    <3>3. /\ \A k \in Loader : old'[k] \subseteq old[k]
          /\ \A k \in Loader : \A x : x # m /\ x \in old[k] => x \in old'[k]
      BY <3>1 DEF Types
    <3>4. /\ m \in Module
          /\ \A x \in Module : x # m /\ named[x[1]] = x[2] => named'[x[1]] = x[2]
          /\ \A x \in Module : Closed(x) => Closed(x)'
          /\ Closed(m)'
          /\ \A p \in Path : named'[p] # 0 => named'[p] = named[p] /\ <<p, named[p]>> # m
      BY <1>0, <3>1, FreedKeeps
    <3>5. Listed'
      BY <1>0, <1>a, <3>1, <3>2, <3>3, <3>4
    <3>6. ASSUME NEW k \in Loader PROVE NameOf(k)'
      <4>1. CASE loader[k] = "list"
        BY <1>a, <1>c, <3>1, <3>2, <3>3, <3>4, <4>1 DEF NameOf, InInit
      <4>2. CASE loader[k] \in {"lock"} \cup InInit
        BY <1>a, <1>c, <3>2, <3>3, <3>4, <4>2 DEF NameOf, InInit
      <4>3. CASE loader[k] \notin {"list", "lock"} \cup InInit
        BY <1>a, <3>2, <4>3 DEF NameOf
      <4> QED
        BY <4>1, <4>2, <4>3
    <3>7. Holders'
      BY <1>a, <3>2, <3>3, <3>4 DEF Held
    <3> QED
      BY <1>b, <3>5, <3>6, <3>7
  <2>3. CASE Instantiate(l)
    <3>1. PICK p \in Path : /\ 1 \in DOMAIN todo[l] /\ p = todo[l][1]
                            /\ Skips(l, p) \/ \E m \in Module : Draws(l, p, m)
      BY <2>3, InstantiateEffect
    <3>2. UNCHANGED <<extensions, stage, old>> /\ loader[l] = "load"
      BY <2>3, InstantiateEffect
    <3>3. CASE Skips(l, p)
      BY <1>a, <1>b, <3>2, <3>3 DEF Skips, NameOf, Held, Closed
    <3>4. ASSUME NEW m \in Module, Draws(l, p, m) PROVE Names'
      <4>1. /\ m[1] = p /\ m[2] = made[p] + 1 /\ named[p] = 0 /\ named'[p] = m[2]
            /\ \A q \in Path : q # p => named'[q] = named[q]
            /\ new'[l] = m /\ loader'[l] = "list"
            /\ \A k \in Loader : k # l => new'[k] = new[k] /\ loader'[k] = loader[k]
        BY <3>4 DEF Draws, Types
      <4>2. \A x \in Module : x[2] <= made[x[1]] => x # m
        BY <1>0, <4>1
      <4>3. m \notin extensions /\ \A k \in Loader : m \notin old[k]
        BY <1>0, <4>2 DEF Numbers
      <4>4. Listed'
        BY <1>0, <1>a, <3>2, <4>1
      <4>5. ASSUME NEW k \in Loader PROVE NameOf(k)'
        <5>1. CASE k = l
          BY <3>2, <4>1, <4>3, <5>1 DEF NameOf, InInit
        <5>2. CASE k # l /\ loader[k] = "list"
          BY <1>0, <1>a, <1>c, <3>2, <4>1, <5>2 DEF NameOf, InInit
        <5>3. CASE k # l /\ loader[k] \in {"lock"} \cup InInit
          <6>1. new[k] \in Module /\ new[k][2] <= made[new[k][1]]
            BY <1>c, <5>3, PhaseNames DEF Numbers
          <6>2. Closed(new[k]) => Closed(new[k])'
            BY <1>0, <4>1, <5>3, <6>1 DEF Closed
          <6>3. loader'[k] = loader[k] /\ new'[k] = new[k]
            BY <4>1, <5>3
          <6> QED
            BY <1>a, <3>2, <5>3, <6>2, <6>3 DEF NameOf, InInit
        <5>4. CASE k # l /\ loader[k] \notin {"list", "lock"} \cup InInit
          BY <1>a, <3>2, <4>1, <5>4 DEF NameOf
        <5> QED
          BY <5>1, <5>2, <5>3, <5>4
      <4>6. Holders'
        <5> SUFFICES ASSUME NEW q \in Path, named'[q] # 0 PROVE Held(<<q, named[q]>>)'
          OBVIOUS
        <5>1. CASE q = p
          BY <1>0, <4>1, <5>1 DEF Held
        <5>2. CASE q # p
          <6>1. named'[q] = named[q] /\ Held(<<q, named[q]>>)
            BY <1>a, <4>1, <5>2
          <6>2. new[l] # <<q, named[q]>>
            BY <1>0, <3>2, PhaseNames
          <6> QED
            BY <3>2, <4>1, <6>1, <6>2 DEF Held
        <5> QED
          BY <5>1, <5>2
      <4> QED
        BY <1>b, <4>4, <4>5, <4>6
    <3> QED
      BY <3>1, <3>3, <3>4
  <2>4. CASE List(l)
    <3>1. /\ UNCHANGED <<named, old, new>> /\ extensions' = extensions \cup {new[l]}
          /\ loader[l] = "list" /\ loader'[l] = "lock"
          /\ \A k \in Loader : k # l => loader'[k] = loader[k]
      BY <2>4 DEF List, Types
    <3>2. \A k \in Loader : k # l => new[k] # new[l]
      BY <3>1, PhaseNames DEF Numbers
    <3>3. Listed'
      BY <1>a, <3>1 DEF NameOf
    <3>4. \A k \in Loader : NameOf(k)'
      BY <1>a, <3>1, <3>2 DEF NameOf, Closed
    <3>5. Holders'
      BY <1>a, <3>1 DEF Held
    <3> QED
      BY <1>b, <3>3, <3>4, <3>5
  <2>5. CASE LockInit(l) \/ Subscribe(l) \/ RegisterTool(l) \/ FailInit(l) \/ Loaded(l)
    <3>1. /\ UNCHANGED <<extensions, named, old, new>>
          /\ loader'[l] \in InInit \cup {"remove", "done"}
          /\ loader'[l] \in InInit => loader[l] \in {"lock"} \cup InInit
          /\ \A k \in Loader : k # l => loader'[k] = loader[k]
      BY <2>5 DEF LockInit, Subscribe, RegisterTool, FailInit, Loaded, Types, InInit
    <3>2. loader'[l] # "list" /\ loader'[l] # "drop" /\ loader'[l] # "lock"
      BY <3>1 DEF InInit
    <3>3. ASSUME NEW k \in Loader PROVE NameOf(k)'
      BY <1>a, <3>1, <3>2 DEF NameOf, Closed
    <3>4. Holders' /\ Listed'
      BY <1>a, <3>1 DEF Held
    <3> QED
      BY <1>b, <3>3, <3>4
  <2>6. CASE ReturnInit(l)
    <3>1. /\ UNCHANGED <<extensions, named, old>> /\ loader[l] = "registered"
          /\ ~Closed(new[l]) /\ new'[l] = NoModule /\ loader'[l] = "load"
          /\ \A k \in Loader : k # l => loader'[k] = loader[k] /\ new'[k] = new[k]
      BY <2>6 DEF ReturnInit, Types
    <3>2. new[l] \in extensions \/ \E k \in Loader : new[l] \in old[k]
      BY <1>a, <3>1 DEF NameOf, InInit
    <3>3. ASSUME NEW k \in Loader PROVE NameOf(k)'
      BY <1>a, <3>1 DEF NameOf, Closed, InInit
    <3>4. Holders' /\ Listed'
      BY <1>a, <3>1, <3>2 DEF Held
    <3> QED
      BY <1>b, <3>3, <3>4
  <2>7. CASE removeExtension(l)
    <3>1. /\ UNCHANGED <<named, old, new>> /\ extensions' = extensions \ {new[l]}
          /\ loader[l] = "remove" /\ loader'[l] = "drop"
          /\ \A k \in Loader : k # l => loader'[k] = loader[k]
      BY <2>7 DEF removeExtension, Types
    <3>2. \A k \in Loader : k # l => new[k] # new[l] \/ loader[k] \notin Busy
      BY <3>1, PhaseNames DEF Numbers
    <3>3. ASSUME NEW k \in Loader PROVE NameOf(k)'
      <4>1. CASE k = l
        BY <3>1, <4>1 DEF NameOf, InInit
      <4>2. CASE k # l
        BY <1>a, <3>1, <3>2, <4>2, PhaseNames DEF NameOf, Closed
      <4> QED
        BY <4>1, <4>2
    <3>4. Holders' /\ Listed'
      BY <1>a, <3>1 DEF Held
    <3> QED
      BY <1>b, <3>3, <3>4
  <2>8. CASE CloseFailed(l)
    <3>1. /\ UNCHANGED <<extensions, old>> /\ named' = Freed(new[l])
          /\ loader[l] = "drop" /\ new'[l] = NoModule /\ loader'[l] = "load"
          /\ \A k \in Loader : k # l => loader'[k] = loader[k] /\ new'[k] = new[k]
      BY <2>8 DEF CloseFailed, Types
    <3>2. /\ new[l] \in Module
          /\ \A x \in Module : x # new[l] /\ named[x[1]] = x[2] => named'[x[1]] = x[2]
          /\ \A x \in Module : Closed(x) => Closed(x)'
          /\ \A p \in Path : named'[p] # 0 => named'[p] = named[p] /\ <<p, named[p]>> # new[l]
      BY <1>c, <3>1, FreedKeeps
    <3>3. new[l] \notin extensions
      BY <1>a, <3>1 DEF NameOf
    <3>4. Listed'
      BY <1>0, <1>a, <3>1, <3>2, <3>3
    <3>5. \A k \in Loader : k # l => new[k] # new[l]
      BY <3>1, PhaseNames DEF Numbers
    <3>6. ASSUME NEW k \in Loader PROVE NameOf(k)'
      <4>1. CASE k = l
        BY <3>1, <4>1 DEF NameOf, InInit
      <4>2. CASE k # l
        BY <1>a, <1>c, <3>1, <3>2, <3>5, <4>2 DEF NameOf
      <4> QED
        BY <4>1, <4>2
    <3>7. Holders'
      BY <1>a, <3>1, <3>2 DEF Held
    <3> QED
      BY <1>b, <3>4, <3>6, <3>7
  <2> QED
    BY <1>1, <2>1, <2>2, <2>3, <2>4, <2>5, <2>6, <2>7, <2>8 DEF LoaderStep
<1>2. ASSUME NEW d \in Dispatcher, DispatcherStep(d) PROVE Names'
  <2>1. UNCHANGED <<extensions, named, loader, old, new>>
    BY <1>2, DispatcherLeaves
  <2> QED
    BY <2>1 DEF Names, Closed
<1> QED
  BY <1>1, <1>2, StepsSplit

-----------------------------------------------------------------------------
(* Stages.                                                                 *)

StageOf(l) ==
  /\ loader[l] \in Fresh => stage[new[l]] = "none"
  /\ loader[l] \in InInit => stage[new[l]] = "init" /\ calls[new[l]] = l
  /\ loader[l] \in Failing => /\ stage[new[l]] = "failed"
                              /\ new[l][1] \in Faulty \/ Closed(new[l])

\* The phases of a busy loader are three kinds.
LEMMA PhasesApart ==
  /\ Fresh \cap InInit = {} /\ Fresh \cap Failing = {} /\ InInit \cap Failing = {}
  /\ {"list", "lock"} \subseteq Fresh /\ {"init", "subscribed", "registered"} \subseteq InInit
  /\ {"remove", "drop"} \subseteq Failing
  /\ \A f \in Fresh \cup InInit \cup Failing : f \in Busy /\ f \notin {"idle", "load", "done"}
BY DEF Fresh, InInit, Failing, Busy

\* Every step keeps the stage of a module in line with its loader.
LEMMA StagesStep ==
  ASSUME Types, Phases, Numbers, Names, Stages, ExtNext
  PROVE  Stages'
<1>0. /\ \A m \in Module : m[1] \in Path /\ m[2] \in Nat \ {0} /\ m # NoModule
      /\ \A m \in extensions : m \in Module
      /\ \A l \in Loader : \A m \in old[l] : m \in Module
      /\ \A l \in Loader : loader[l] \in Busy => new[l] \in Module
      /\ \A l \in Loader : loader[l] \notin Busy => new[l] = NoModule
      /\ \A k, l \in Loader : loader[k] \in Busy /\ new[k] = new[l] => k = l
      /\ Unlocked \notin Loader /\ Loader \cap Dispatcher = {}
      /\ \A p \in Path : made[p] \in Nat
  BY BusyModule, ModulePairs, HostAssumption DEF Types, Numbers
<1> DEFINE Initing == \A m \in Module :
                        stage[m] = "init" => \E l \in Loader : loader[l] \in InInit /\ new[l] = m
           Up == \A m \in extensions : stage[m] = "up" \/ \E l \in Loader : new[l] = m
<1>a. Initing /\ Up /\ \A l \in Loader : StageOf(l)
  BY DEF Stages, StageOf
<1>b. ASSUME Initing', Up', \A l \in Loader : StageOf(l)' PROVE Stages'
  BY <1>b DEF Stages, StageOf
<1>1. ASSUME NEW l \in Loader, LoaderStep(l) PROVE Stages'
  <2>1. CASE Swap(l) \/ Loaded(l)
    <3>1. /\ UNCHANGED <<named, new, stage, calls>> /\ extensions' \subseteq extensions
          /\ loader[l] \in {"idle", "load"} /\ loader'[l] \in {"load", "done"}
          /\ \A k \in Loader : k # l => loader'[k] = loader[k]
      BY <2>1 DEF Swap, Loaded, Types
    <3>2. ASSUME NEW k \in Loader PROVE StageOf(k)'
      BY <1>a, <3>1, PhasesApart DEF StageOf, Closed
    <3>3. Initing'
      BY <1>a, <3>1, PhasesApart
    <3>4. Up'
      BY <1>a, <3>1
    <3> QED
      BY <1>b, <3>2, <3>3, <3>4
  <2>2. CASE CloseOld(l)
    <3>1. PICK m \in old[l] : named' = Freed(m)
      BY <2>2 DEF CloseOld
    <3>2. UNCHANGED <<extensions, loader, new, stage, calls>>
      BY <2>2 DEF CloseOld
    <3>3. \A x \in Module : Closed(x) => Closed(x)'
      BY <1>0, <3>1, FreedKeeps
    <3>4. ASSUME NEW k \in Loader PROVE StageOf(k)'
      BY <1>0, <1>a, <3>2, <3>3, PhasesApart DEF StageOf
    <3> QED
      BY <1>a, <1>b, <3>2, <3>4
  <2>3. CASE Instantiate(l)
    <3>1. PICK p \in Path : /\ 1 \in DOMAIN todo[l] /\ p = todo[l][1]
                            /\ Skips(l, p) \/ \E m \in Module : Draws(l, p, m)
      BY <2>3, InstantiateEffect
    <3>2. UNCHANGED <<extensions, stage, calls, old>> /\ loader[l] = "load"
      BY <2>3, InstantiateEffect
    <3>3. CASE Skips(l, p)
      BY <1>a, <1>b, <3>2, <3>3 DEF Skips, StageOf, Closed
    <3>4. ASSUME NEW m \in Module, Draws(l, p, m) PROVE Stages'
      <4>1. /\ m[1] = p /\ m[2] = made[p] + 1 /\ named[p] = 0 /\ named'[p] = m[2]
            /\ \A q \in Path : q # p => named'[q] = named[q]
            /\ new'[l] = m /\ loader'[l] = "list"
            /\ \A k \in Loader : k # l => new'[k] = new[k] /\ loader'[k] = loader[k]
        BY <3>4 DEF Draws, Types
      <4>2. \A x \in Module : x[2] <= made[x[1]] => x # m
        BY <1>0, <4>1
      <4>3. stage[m] = "none"
        BY <4>2 DEF Numbers
      <4>4. ASSUME NEW k \in Loader PROVE StageOf(k)'
        <5>1. CASE k = l
          BY <3>2, <4>1, <4>3, <5>1, PhasesApart DEF StageOf
        <5>2. CASE k # l /\ loader[k] \in Failing
          <6>1. new[k] \in Module /\ new[k][2] <= made[new[k][1]]
            BY <1>0, <5>2, PhasesApart DEF Numbers
          <6>2. Closed(new[k]) => Closed(new[k])'
            BY <1>0, <4>1, <5>2, <6>1 DEF Closed
          <6> QED
            BY <1>a, <3>2, <4>1, <5>2, <6>2, PhasesApart DEF StageOf
        <5>3. CASE k # l /\ loader[k] \notin Failing
          BY <1>a, <3>2, <4>1, <5>3 DEF StageOf
        <5> QED
          BY <5>1, <5>2, <5>3
      <4>5. Initing'
        BY <1>a, <3>2, <4>1, PhasesApart
      <4>6. Up'
        BY <1>0, <1>a, <3>2, <4>1, PhaseNames
      <4> QED
        BY <1>b, <4>4, <4>5, <4>6
    <3> QED
      BY <3>1, <3>3, <3>4
  <2>4. CASE List(l)
    <3>1. /\ UNCHANGED <<named, new, stage, calls>> /\ extensions' = extensions \cup {new[l]}
          /\ loader[l] = "list" /\ loader'[l] = "lock"
          /\ \A k \in Loader : k # l => loader'[k] = loader[k]
      BY <2>4 DEF List, Types
    <3>2. ASSUME NEW k \in Loader PROVE StageOf(k)'
      BY <1>a, <3>1, PhasesApart DEF StageOf, Closed
    <3>3. Initing' /\ Up'
      BY <1>a, <3>1, PhasesApart
    <3> QED
      BY <1>b, <3>2, <3>3
  <2>5. CASE LockInit(l)
    <3>1. /\ UNCHANGED <<extensions, named, new>>
          /\ loader[l] = "lock" /\ loader'[l] = "init"
          /\ \A k \in Loader : k # l => loader'[k] = loader[k]
          /\ \A m \in Module : m # new[l] => stage'[m] = stage[m] /\ calls'[m] = calls[m]
      BY <2>5 DEF LockInit, Types
    <3>2. new[l] \in Module
      BY <1>0, <3>1, PhasesApart
    <3>3. stage'[new[l]] = "init" /\ calls'[new[l]] = l
      BY <2>5, <3>2 DEF LockInit, Types
    <3>4. ASSUME NEW k \in Loader PROVE StageOf(k)'
      <4>1. CASE k = l
        BY <3>1, <3>3, <4>1, PhasesApart DEF StageOf
      <4>2. CASE k # l /\ loader[k] \in Busy
        <5>1. new[k] \in Module /\ new[k] # new[l]
          BY <1>0, <4>2
        <5>2. stage'[new[k]] = stage[new[k]] /\ calls'[new[k]] = calls[new[k]]
          BY <3>1, <5>1
        <5> QED
          BY <1>a, <3>1, <4>2, <5>2 DEF StageOf, Closed
      <4>3. CASE k # l /\ loader[k] \notin Busy
        BY <3>1, <4>3, PhasesApart DEF StageOf
      <4> QED
        BY <4>1, <4>2, <4>3
    <3>5. Initing'
      <4> SUFFICES ASSUME NEW m \in Module, stage'[m] = "init"
                   PROVE  \E k \in Loader : loader'[k] \in InInit /\ new[k] = m
        BY <3>1
      <4>1. CASE m = new[l]
        BY <3>1, <4>1, PhasesApart
      <4>2. CASE m # new[l]
        BY <1>a, <3>1, <4>2
      <4> QED
        BY <4>1, <4>2
    <3>6. Up'
      BY <1>0, <1>a, <3>1
    <3> QED
      BY <1>b, <3>4, <3>5, <3>6
  <2>6. CASE Subscribe(l) \/ RegisterTool(l)
    <3>1. /\ UNCHANGED <<named, new, stage, calls, extensions>>
          /\ loader[l] \in InInit /\ loader'[l] \in InInit
          /\ \A k \in Loader : k # l => loader'[k] = loader[k]
      BY <2>6 DEF Subscribe, RegisterTool, Types, InInit
    <3>2. ASSUME NEW k \in Loader PROVE StageOf(k)'
      BY <1>a, <3>1, PhasesApart DEF StageOf, Closed
    <3>3. Initing' /\ Up'
      BY <1>a, <3>1, PhasesApart
    <3> QED
      BY <1>b, <3>2, <3>3
  <2>7. CASE ReturnInit(l)
    <3>1. /\ UNCHANGED <<extensions, named>>
          /\ loader[l] \in InInit /\ loader'[l] = "load" /\ new'[l] = NoModule
          /\ \A k \in Loader : k # l => loader'[k] = loader[k] /\ new'[k] = new[k]
          /\ \A m \in Module : m # new[l] => stage'[m] = stage[m] /\ calls'[m] = calls[m]
      BY <2>7 DEF ReturnInit, Types, InInit
    <3>2. new[l] \in Module
      BY <1>0, <3>1, PhasesApart
    <3>3. stage'[new[l]] = "up"
      BY <2>7, <3>2 DEF ReturnInit, Types
    <3>4. ASSUME NEW k \in Loader PROVE StageOf(k)'
      <4>1. CASE k = l
        BY <3>1, <4>1, PhasesApart DEF StageOf
      <4>2. CASE k # l /\ loader[k] \in Busy
        <5>1. new[k] \in Module /\ new[k] # new[l]
          BY <1>0, <4>2
        <5>2. stage'[new[k]] = stage[new[k]] /\ calls'[new[k]] = calls[new[k]]
          BY <3>1, <5>1
        <5> QED
          BY <1>a, <3>1, <4>2, <5>2 DEF StageOf, Closed
      <4>3. CASE k # l /\ loader[k] \notin Busy
        BY <3>1, <4>3, PhasesApart DEF StageOf
      <4> QED
        BY <4>1, <4>2, <4>3
    <3>5. Initing'
      <4> SUFFICES ASSUME NEW m \in Module, stage'[m] = "init"
                   PROVE  \E k \in Loader : loader'[k] \in InInit /\ new'[k] = m
        OBVIOUS
      <4>1. m # new[l]
        BY <3>3
      <4>2. PICK k \in Loader : loader[k] \in InInit /\ new[k] = m
        BY <1>a, <3>1, <4>1
      <4> QED
        BY <3>1, <4>1, <4>2
    <3>6. Up'
      <4> SUFFICES ASSUME NEW m \in extensions
                   PROVE  stage'[m] = "up" \/ \E k \in Loader : new'[k] = m
        BY <3>1
      <4>1. CASE m = new[l]
        BY <3>3, <4>1
      <4>2. CASE m # new[l]
        BY <1>0, <1>a, <3>1, <4>2
      <4> QED
        BY <4>1, <4>2
    <3> QED
      BY <1>b, <3>4, <3>5, <3>6
  <2>8. CASE FailInit(l)
    <3>1. /\ UNCHANGED <<extensions, named, new>>
          /\ loader[l] \in InInit /\ loader'[l] = "remove"
          /\ new[l][1] \in Faulty \/ Closed(new[l])
          /\ \A k \in Loader : k # l => loader'[k] = loader[k]
          /\ \A m \in Module : m # new[l] => stage'[m] = stage[m] /\ calls'[m] = calls[m]
      BY <2>8 DEF FailInit, Types, InInit
    <3>2. new[l] \in Module
      BY <1>0, <3>1, PhasesApart
    <3>3. stage'[new[l]] = "failed"
      BY <2>8, <3>2 DEF FailInit, Types
    <3>4. ASSUME NEW k \in Loader PROVE StageOf(k)'
      <4>1. CASE k = l
        BY <3>1, <3>3, <4>1, PhasesApart DEF StageOf, Closed
      <4>2. CASE k # l /\ loader[k] \in Busy
        <5>1. new[k] \in Module /\ new[k] # new[l]
          BY <1>0, <4>2
        <5>2. stage'[new[k]] = stage[new[k]] /\ calls'[new[k]] = calls[new[k]]
          BY <3>1, <5>1
        <5> QED
          BY <1>a, <3>1, <4>2, <5>2 DEF StageOf, Closed
      <4>3. CASE k # l /\ loader[k] \notin Busy
        BY <3>1, <4>3, PhasesApart DEF StageOf
      <4> QED
        BY <4>1, <4>2, <4>3
    <3>5. Initing'
      <4> SUFFICES ASSUME NEW m \in Module, stage'[m] = "init"
                   PROVE  \E k \in Loader : loader'[k] \in InInit /\ new[k] = m
        BY <3>1
      <4>1. m # new[l]
        BY <3>3
      <4>2. PICK k \in Loader : loader[k] \in InInit /\ new[k] = m
        BY <1>a, <3>1, <4>1
      <4> QED
        BY <3>1, <4>1, <4>2
    <3>6. Up'
      BY <1>0, <1>a, <3>1
    <3> QED
      BY <1>b, <3>4, <3>5, <3>6
  <2>9. CASE removeExtension(l)
    <3>1. /\ UNCHANGED <<named, new, stage, calls>> /\ extensions' \subseteq extensions
          /\ loader[l] \in Failing /\ loader'[l] \in Failing
          /\ \A k \in Loader : k # l => loader'[k] = loader[k]
      BY <2>9 DEF removeExtension, Types, Failing
    <3>2. ASSUME NEW k \in Loader PROVE StageOf(k)'
      BY <1>a, <3>1, PhasesApart DEF StageOf, Closed
    <3>3. Initing' /\ Up'
      BY <1>a, <3>1, PhasesApart
    <3> QED
      BY <1>b, <3>2, <3>3
  <2>10. CASE CloseFailed(l)
    <3>1. /\ UNCHANGED <<extensions, stage, calls>> /\ named' = Freed(new[l])
          /\ loader[l] = "drop" /\ new'[l] = NoModule /\ loader'[l] = "load"
          /\ \A k \in Loader : k # l => loader'[k] = loader[k] /\ new'[k] = new[k]
      BY <2>10 DEF CloseFailed, Types
    <3>2. new[l] \notin extensions /\ new[l] \in Module
      BY <1>0, <3>1, PhasesApart DEF Names
    <3>3. \A x \in Module : Closed(x) => Closed(x)'
      BY <3>1, <3>2, FreedKeeps
    <3>4. ASSUME NEW k \in Loader PROVE StageOf(k)'
      <4>1. CASE k = l
        BY <3>1, <4>1, PhasesApart DEF StageOf
      <4>2. CASE k # l
        BY <1>0, <1>a, <3>1, <3>3, <4>2, PhasesApart DEF StageOf
      <4> QED
        BY <4>1, <4>2
    <3>5. Initing'
      BY <1>a, <3>1, PhasesApart
    <3>6. Up'
      BY <1>a, <3>1, <3>2
    <3> QED
      BY <1>b, <3>4, <3>5, <3>6
  <2> QED
    BY <1>1, <2>1, <2>2, <2>3, <2>4, <2>5, <2>6, <2>7, <2>8, <2>9, <2>10 DEF LoaderStep
<1>2. ASSUME NEW d \in Dispatcher, DispatcherStep(d) PROVE Stages'
  <2>1. UNCHANGED <<extensions, named, stage, loader, old, new>>
    BY <1>2, DispatcherLeaves
  <2>2. ASSUME NEW k \in Loader, loader[k] \in InInit PROVE calls'[new[k]] = calls[new[k]]
    <3>1. calls[new[k]] = k /\ k # d /\ k # Unlocked
      BY <1>0, <1>a, <2>2 DEF StageOf
    <3>2. new[k] \in Module
      BY <1>0, <2>2, PhasesApart
    <3>3. CASE Enter(d) \/ Leave(d)
      <4>1. calls[target[d]] \in {Unlocked, d} /\ \E v : calls' = [calls EXCEPT ![target[d]] = v]
        BY <3>3 DEF Enter, Leave, InModule
      <4>2. target[d] # new[k]
        BY <3>1, <4>1
      <4> QED
        BY <3>2, <4>1, <4>2 DEF Types
    <3>4. CASE ~(Enter(d) \/ Leave(d))
      BY <1>2, <3>4 DEF DispatcherStep, Dispatch, Consider, HandlerSubscribes
    <3> QED
      BY <3>3, <3>4
  <2>3. ASSUME NEW k \in Loader PROVE StageOf(k)'
    BY <1>a, <2>1, <2>2 DEF StageOf, Closed
  <2> QED
    BY <1>a, <1>b, <2>1, <2>3
<1> QED
  BY <1>1, <1>2, StepsSplit

-----------------------------------------------------------------------------
(* Subscriptions.                                                          *)

\* A module's stage is never taken back.
LEMMA StageBegun ==
  ASSUME Types, ExtNext
  PROVE  \A m \in Module : stage[m] # "none" => stage'[m] # "none"
<1>1. ASSUME NEW l \in Loader, LoaderStep(l), NEW m \in Module, stage[m] # "none"
      PROVE  stage'[m] # "none"
  <2>1. CASE LockInit(l) \/ ReturnInit(l) \/ FailInit(l)
    BY <1>1, <2>1 DEF LockInit, ReturnInit, FailInit, Types
  <2>2. CASE ~(LockInit(l) \/ ReturnInit(l) \/ FailInit(l))
    BY <1>1, <2>2 DEF LoaderStep, Swap, CloseOld, Instantiate, List, Subscribe, RegisterTool,
       removeExtension, CloseFailed, Loaded
  <2> QED
    BY <2>1, <2>2
<1>2. ASSUME NEW d \in Dispatcher, DispatcherStep(d) PROVE UNCHANGED stage
  BY <1>2, DispatcherLeaves
<1> QED
  BY <1>1, <1>2, StepsSplit

\* Subscriptions and borrowings are never taken back.
LEMMA SubscribedKept ==
  ASSUME ExtNext
  PROVE  subscribed \subseteq subscribed' /\ borrowed \subseteq borrowed'
<1>1. ASSUME NEW l \in Loader, LoaderStep(l)
      PROVE  subscribed \subseteq subscribed' /\ borrowed \subseteq borrowed'
  BY <1>1 DEF LoaderStep, Swap, CloseOld, Instantiate, List, LockInit, Subscribe, subscribe,
     RegisterTool, ReturnInit, FailInit, removeExtension, CloseFailed, Loaded, dispatch
<1>2. ASSUME NEW d \in Dispatcher, DispatcherStep(d)
      PROVE  subscribed \subseteq subscribed' /\ borrowed \subseteq borrowed'
  BY <1>2 DEF DispatcherStep, Dispatch, Consider, Enter, HandlerSubscribes, subscribe, Leave
<1> QED
  BY <1>1, <1>2, StepsSplit

Waiting(m) == \E l \in Loader : new[l] = m /\ loader[l] \in {"lock", "init", "remove"}

\* Every step keeps subscriptions with modules that have begun, or borrowed.
LEMMA SubscriptionsStep ==
  ASSUME Types, Phases, Numbers, Names, Stages, Subscriptions, ExtNext
  PROVE  Subscriptions'
<1>0. /\ \A l \in Loader : loader[l] \in Busy => new[l] \in Module
      /\ \A l \in Loader : loader[l] \notin Busy => new[l] = NoModule
      /\ \A m \in extensions : m \in Module /\ m # NoModule
      /\ \A m \in subscribed : m \in Module
      /\ \A k, l \in Loader : loader[k] \in Busy /\ new[k] = new[l] => k = l
  BY BusyModule, ModulePairs DEF Types, Numbers
<1> DEFINE Begun == \A m \in subscribed : stage[m] # "none" \/ m \in borrowed
           Found == \A d \in Dispatcher : target[d] # NoModule => target[d] \in subscribed
           Asked == \A m \in extensions : m \in subscribed \/ Waiting(m)
<1>a. Begun /\ Found /\ Asked
  BY DEF Subscriptions, Waiting
<1>b. ASSUME Begun', Found', Asked' PROVE Subscriptions'
  BY <1>b DEF Subscriptions, Waiting
<1>c. subscribed \subseteq subscribed' /\ borrowed \subseteq borrowed'
  BY SubscribedKept
<1>d. Begun'
  <2>1. ASSUME NEW m \in subscribed' \ subscribed PROVE stage'[m] # "none" \/ m \in borrowed'
    <3>1. ASSUME NEW x \in Module, stage[x] # "none" \/ x \in borrowed, subscribe(x)
          PROVE  stage'[m] # "none" \/ m \in borrowed'
      <4>1. CASE m = x
        BY <1>c, <3>1, <4>1, StageBegun
      <4>2. CASE m # x
        BY <2>1, <3>1, <4>2 DEF subscribe
      <4> QED
        BY <4>1, <4>2
    <3>2. ASSUME NEW l \in Loader, LoaderStep(l) PROVE Subscribe(l)
      BY <2>1, <3>2 DEF LoaderStep, Swap, CloseOld, Instantiate, List, LockInit,
         RegisterTool, ReturnInit, FailInit, removeExtension, CloseFailed, Loaded
    <3>3. ASSUME NEW l \in Loader, Subscribe(l)
          PROVE  stage'[m] # "none" \/ m \in borrowed'
      <4>1. loader[l] \in InInit /\ loader[l] \in Busy /\ subscribe(new[l])
        BY <3>3 DEF Subscribe, InInit, Busy
      <4>2. new[l] \in Module /\ stage[new[l]] = "init"
        BY <1>0, <4>1 DEF Stages
      <4> QED
        BY <3>1, <4>1, <4>2
    <3>4. ASSUME NEW d \in Dispatcher, DispatcherStep(d)
          PROVE  HandlerSubscribes(d)
      BY <2>1, <3>4 DEF DispatcherStep, Dispatch, Consider, Enter, Leave
    <3>5. ASSUME NEW d \in Dispatcher, HandlerSubscribes(d)
          PROVE  stage'[m] # "none" \/ m \in borrowed'
      <4>1. target[d] \in subscribed /\ subscribe(target[d])
        BY <1>a, <3>5 DEF HandlerSubscribes, InModule
      <4> QED
        BY <1>0, <1>a, <3>1, <4>1
    <3> QED
      BY <3>2, <3>3, <3>4, <3>5, StepsSplit
  <2> QED
    BY <1>0, <1>a, <1>c, <2>1, StageBegun
<1>1. ASSUME NEW l \in Loader, LoaderStep(l) PROVE Found'
  <2>1. UNCHANGED target
    BY <1>1 DEF LoaderStep, Swap, CloseOld, Instantiate, List, LockInit, Subscribe, RegisterTool,
       ReturnInit, FailInit, removeExtension, CloseFailed, Loaded, dispatch
  <2> QED
    BY <1>a, <1>c, <2>1
<1>2. ASSUME NEW l \in Loader, LoaderStep(l) PROVE Asked'
  <2>1. CASE Swap(l)
    BY <2>1 DEF Swap
  <2>2. CASE CloseOld(l)
    BY <1>a, <2>2 DEF CloseOld, Waiting
  <2>3. CASE Instantiate(l)
    <3>1. PICK p \in Path : /\ 1 \in DOMAIN todo[l] /\ p = todo[l][1]
                            /\ Skips(l, p) \/ \E m \in Module : Draws(l, p, m)
      BY <2>3, InstantiateEffect
    <3>2. UNCHANGED <<extensions, subscribed>> /\ loader[l] = "load"
      BY <2>3, InstantiateEffect
    <3>3. \A k \in Loader : k # l => new'[k] = new[k] /\ loader'[k] = loader[k]
      BY <3>1 DEF Skips, Draws, Types
    <3> QED
      BY <1>a, <3>2, <3>3 DEF Waiting
  <2>4. CASE List(l)
    <3>1. /\ UNCHANGED <<subscribed, new>> /\ extensions' = extensions \cup {new[l]}
          /\ loader'[l] = "lock" /\ \A k \in Loader : k # l => loader'[k] = loader[k]
          /\ loader[l] = "list"
      BY <2>4 DEF List, Types
    <3> QED
      BY <1>a, <3>1 DEF Waiting
  <2>5. CASE LockInit(l) \/ FailInit(l)
    <3>1. /\ UNCHANGED <<extensions, subscribed, new>>
          /\ loader'[l] \in {"init", "remove"}
          /\ \A k \in Loader : k # l => loader'[k] = loader[k]
      BY <2>5 DEF LockInit, FailInit, Types
    <3> QED
      BY <1>a, <3>1 DEF Waiting
  <2>6. CASE Subscribe(l)
    <3>1. /\ UNCHANGED <<extensions, new>>
          /\ \A m \in extensions : m = new[l] => m \in subscribed'
          /\ \A k \in Loader : k # l => loader'[k] = loader[k]
      BY <2>6 DEF Subscribe, subscribe, Types
    <3> QED
      BY <1>a, <1>c, <3>1 DEF Waiting
  <2>7. CASE RegisterTool(l) \/ Loaded(l)
    <3>1. /\ UNCHANGED <<extensions, subscribed, new>> /\ loader[l] \in {"subscribed", "load"}
          /\ \A k \in Loader : k # l => loader'[k] = loader[k]
      BY <2>7 DEF RegisterTool, Loaded, Types
    <3> QED
      BY <1>a, <3>1 DEF Waiting
  <2>8. CASE ReturnInit(l)
    <3>1. /\ UNCHANGED <<extensions, subscribed>> /\ loader[l] = "registered"
          /\ \A k \in Loader : k # l => new'[k] = new[k] /\ loader'[k] = loader[k]
      BY <2>8 DEF ReturnInit, Types
    <3> QED
      BY <1>a, <3>1 DEF Waiting
  <2>9. CASE removeExtension(l)
    <3>1. /\ UNCHANGED <<subscribed, new>> /\ extensions' = extensions \ {new[l]}
          /\ \A k \in Loader : k # l => loader'[k] = loader[k]
      BY <2>9 DEF removeExtension, Types
    <3> QED
      BY <1>a, <3>1 DEF Waiting
  <2>10. CASE CloseFailed(l)
    <3>1. /\ UNCHANGED <<extensions, subscribed>> /\ loader[l] = "drop"
          /\ \A k \in Loader : k # l => new'[k] = new[k] /\ loader'[k] = loader[k]
      BY <2>10 DEF CloseFailed, Types
    <3> QED
      BY <1>a, <3>1 DEF Waiting
  <2> QED
    BY <1>2, <2>1, <2>2, <2>3, <2>4, <2>5, <2>6, <2>7, <2>8, <2>9, <2>10 DEF LoaderStep
<1>3. ASSUME NEW d \in Dispatcher, DispatcherStep(d) PROVE Found' /\ Asked'
  <2>1. UNCHANGED <<extensions, new, loader>>
    BY <1>3, DispatcherLeaves
  <2>2. Asked'
    BY <1>a, <1>c, <2>1 DEF Waiting
  <2>3. \A e \in Dispatcher : \/ target'[e] = target[e] \/ target'[e] = NoModule
                             \/ target'[e] \in subscribed
    BY <1>3 DEF DispatcherStep, Dispatch, Consider, Enter, HandlerSubscribes, Leave, dispatch, Types
  <2> QED
    BY <1>a, <1>c, <2>2, <2>3
<1> QED
  BY <1>b, <1>d, <1>1, <1>2, <1>3, StepsSplit

-----------------------------------------------------------------------------
(* What is waiting to be loaded.                                           *)

\* A path waits until it is first in its list and its loader takes it.
LEMMA AwaitedKept ==
  ASSUME Types, Phases, NEW l \in Loader, LoaderStep(l), NEW q, Awaited(q),
         ~(Instantiate(l) /\ q = todo[l][1])
  PROVE  Awaited(q)'
<1>1. PICK k \in Loader : \E i \in DOMAIN todo[k] : todo[k][i] = q
  BY DEF Awaited
<1>2. CASE k # l
  <2>1. todo'[k] = todo[k]
    BY <1>2 DEF LoaderStep, Swap, CloseOld, Instantiate, List, LockInit, Subscribe, RegisterTool,
       ReturnInit, FailInit, removeExtension, CloseFailed, Loaded, Types
  <2> QED
    BY <1>1, <2>1 DEF Awaited
<1>3. CASE k = l /\ UNCHANGED todo
  BY <1>1, <1>3 DEF Awaited
<1>4. CASE k = l /\ Swap(l)
  <2>1. todo[l] = << >>
    BY <1>4 DEF Swap, Phases, PhaseOf
  <2>2. Len(<< >>) = 0 /\ DOMAIN << >> = {}
    OBVIOUS
  <2> QED
    BY <1>1, <1>4, <2>1, <2>2
<1>5. CASE k = l /\ Instantiate(l)
  <2>1. PICK i \in DOMAIN todo[l] : todo[l][i] = q
    BY <1>1, <1>5
  <2>2. i # 1
    BY <1>5, <2>1
  <2>3. /\ i - 1 \in DOMAIN Tail(todo[l]) /\ Tail(todo[l])[i - 1] = q
        /\ todo'[l] = Tail(todo[l])
    BY <1>5, <2>1, <2>2, InstantiateEffect, ZenonT(60) DEF Types
  <2> QED
    BY <2>3 DEF Awaited
<1>6. UNCHANGED todo \/ Swap(l) \/ Instantiate(l)
  BY DEF LoaderStep, CloseOld, List, LockInit, Subscribe, RegisterTool,
     ReturnInit, FailInit, removeExtension, CloseFailed, Loaded
<1> QED
  BY <1>2, <1>3, <1>4, <1>5, <1>6

\* While a reload has modules to close, it has the user's paths to load.
LEMMA OldAwaits ==
  ASSUME Types, Phases, NEW l \in Loader, old[l] # {}
  PROVE  /\ todo[l] = Paths /\ loader[l] = "load" /\ l # Start
         /\ loader[Start] = "done"
         /\ \A p : InPaths(p) => Awaited(p)
<1>1. todo[l] = Paths /\ loader[l] = "load" /\ l # Start
  BY DEF Phases, PhaseOf
<1>2. loader[Start] = "done"
  BY <1>1 DEF Phases, Loader
<1>3. \A p : InPaths(p) => Awaited(p)
  BY <1>1 DEF InPaths, Awaited
<1> QED
  BY <1>1, <1>2, <1>3

\* Every step keeps the name of a path taken, or the path awaited.
LEMMA ProvidedStep ==
  ASSUME Types, Phases, Numbers, Names, Stages, Provided, ExtNext
  PROVE  Provided'
<1> SUFFICES ASSUME NEW j \in DOMAIN Paths, Paths[j] \notin Faulty
             PROVE  named'[Paths[j]] # 0 \/ Awaited(Paths[j])'
  BY DEF Provided
<1> DEFINE q == Paths[j]
<1>0. q \in Path /\ InPaths(q)
  BY PathsAreSequences DEF InPaths
<1>1. named[q] # 0 \/ Awaited(q)
  BY DEF Provided
<1> HIDE DEF q
<1>2. ASSUME NEW l \in Loader, LoaderStep(l)
      PROVE  named'[q] # 0 \/ Awaited(q)'
  <2>1. CASE CloseOld(l)
    <3>1. old[l] # {}
      BY <2>1 DEF CloseOld
    <3>2. Awaited(q)
      BY <1>0, <3>1, OldAwaits
    <3>3. UNCHANGED todo
      BY <2>1 DEF CloseOld
    <3> QED
      BY <3>2, <3>3 DEF Awaited
  <2>2. CASE Instantiate(l)
    <3>1. PICK p \in Path : /\ 1 \in DOMAIN todo[l] /\ p = todo[l][1]
                            /\ Skips(l, p) \/ \E m \in Module : Draws(l, p, m)
      BY <2>2, InstantiateEffect
    <3>2. named'[p] # 0 /\ \A r \in Path : named[r] # 0 => named'[r] # 0
      <4>1. CASE Skips(l, p)
        BY <4>1 DEF Skips
      <4>2. ASSUME NEW m \in Module, Draws(l, p, m)
            PROVE  named'[p] # 0 /\ \A r \in Path : named[r] # 0 => named'[r] # 0
        BY <4>2, ModulePairs DEF Draws, Types
      <4> QED
        BY <3>1, <4>1, <4>2
    <3> QED
      BY <1>0, <1>1, <1>2, <3>1, <3>2, AwaitedKept
  <2>3. CASE CloseFailed(l)
    <3>1. /\ loader[l] = "drop" /\ named' = Freed(new[l]) /\ UNCHANGED todo
      BY <2>3 DEF CloseFailed
    <3>2. new[l] \in Module /\ (new[l][1] \in Faulty \/ Closed(new[l]))
      BY <3>1, PhasesApart, BusyModule DEF Stages
    <3>3. named'[q] = named[q]
      BY <1>0, <3>1, <3>2, ModulePairs DEF Freed, Closed, Types, q
    <3> QED
      BY <1>1, <3>1, <3>3 DEF Awaited
  <2>4. CASE ~(CloseOld(l) \/ Instantiate(l) \/ CloseFailed(l))
    <3>1. UNCHANGED named
      BY <1>2, <2>4 DEF LoaderStep, Swap, List, LockInit, Subscribe, RegisterTool,
         ReturnInit, FailInit, removeExtension, Loaded
    <3> QED
      BY <1>1, <1>2, <2>4, <3>1, AwaitedKept
  <2> QED
    BY <2>1, <2>2, <2>3, <2>4
<1>3. ASSUME NEW d \in Dispatcher, DispatcherStep(d)
      PROVE  named'[q] # 0 \/ Awaited(q)'
  <2>1. UNCHANGED <<named, todo>>
    BY <1>3, DispatcherLeaves
  <2> QED
    BY <1>1, <2>1 DEF Awaited
<1> QED
  BY <1>2, <1>3, StepsSplit DEF q

-----------------------------------------------------------------------------
(* Tools.                                                                  *)

Backed(p) ==
  \/ \E m \in extensions : m[1] = p
  \/ \E m \in Module : stage[m] = "failed" /\ m[1] = p
  \/ \E l \in Loader : loader[l] \in Busy /\ new[l][1] = p
  \/ Awaited(p)

\* A module that is listed or about to be closed backs its path, when its loader
\* lets go of it.
LEMMA HeldBacks ==
  ASSUME Types, Phases, NEW l \in Loader, loader[l] # "done", NEW m \in Module,
         l # Start => InPaths(m[1]),
         m \in extensions \/ \E k \in Loader : m \in old[k]
  PROVE  m \in extensions \/ \E k \in Loader : old[k] # {} /\ InPaths(m[1])
<1>1. CASE m \in extensions
  BY <1>1
<1>2. CASE \E k \in Loader : m \in old[k]
  <2>1. PICK k \in Loader : m \in old[k]
    BY <1>2
  <2>2. loader[Start] = "done"
    BY <2>1, OldAwaits
  <2>3. InPaths(m[1])
    BY <2>2
  <2> QED
    BY <2>1, <2>3
<1> QED
  BY <1>1, <1>2

\* No step but Swap leaves a path without a module that is listed, failed or to come.
LEMMA BackedStep ==
  ASSUME Types, Phases, Numbers, Names, Stages, NEW l \in Loader, LoaderStep(l),
         NEW p \in Path, Backed(p), ~Swap(l)
  PROVE  Backed(p)'
<1>0. /\ \A k \in Loader : loader[k] \in Busy => new[k] \in Module
      /\ \A k \in Loader : loader[k] \notin Busy => new[k] = NoModule
      /\ \A q \in Path : \A n : <<q, n>> # NoModule
  BY BusyModule DEF NoModule
<1>1. ASSUME Awaited(p), Awaited(p)' PROVE Backed(p)'
  BY <1>1 DEF Backed
<1>2. CASE CloseOld(l) \/ List(l) \/ Subscribe(l) \/ RegisterTool(l) \/ Loaded(l)
  <2>1. /\ extensions \subseteq extensions' /\ UNCHANGED <<stage, new, todo>>
        /\ \A k \in Loader : loader[k] \in Busy => loader'[k] \in Busy
    BY <1>2, PhaseNames DEF CloseOld, List, Subscribe, RegisterTool, Loaded, Types
  <2> QED
    BY <2>1 DEF Backed, Awaited
<1>3. CASE LockInit(l) \/ FailInit(l)
  <2>1. /\ UNCHANGED <<extensions, new, todo>> /\ loader[l] \in Fresh \cup InInit
        /\ \A k \in Loader : loader[k] \in Busy => loader'[k] \in Busy
        /\ \A m \in Module : m # new[l] => stage'[m] = stage[m]
    BY <1>3, PhaseNames DEF LockInit, FailInit, Types, Fresh, InInit
  <2>2. stage[new[l]] # "failed"
    BY <2>1 DEF Stages
  <2> QED
    BY <2>1, <2>2 DEF Backed, Awaited
<1>4. CASE Instantiate(l)
  <2>1. PICK q \in Path : /\ 1 \in DOMAIN todo[l] /\ q = todo[l][1]
                          /\ Skips(l, q) \/ \E m \in Module : Draws(l, q, m)
    BY <1>4, InstantiateEffect
  <2>2. UNCHANGED <<extensions, stage, old>> /\ loader[l] = "load" /\ old[l] = {}
    BY <1>4, InstantiateEffect
  <2>3. \A k \in Loader : k # l => new'[k] = new[k] /\ loader'[k] = loader[k]
    BY <2>1 DEF Skips, Draws, Types
  <2>4. loader[l] \notin Busy
    BY <2>2, PhaseNames
  <2>5. CASE ~Awaited(p)
    BY <2>2, <2>3, <2>4, <2>5 DEF Backed
  <2>6. CASE Awaited(p) /\ p # q
    BY <1>1, <2>1, <2>6, AwaitedKept
  <2>7. CASE p = q /\ Skips(l, q)
    <3>1. UNCHANGED <<named, new, loader>> /\ named[p] # 0
      BY <2>7 DEF Skips
    <3>2. \/ <<p, named[p]>> \in extensions
          \/ \E k \in Loader : new[k] = <<p, named[p]>>
          \/ \E k \in Loader : <<p, named[p]>> \in old[k]
      BY <3>1 DEF Names
    <3>3. CASE <<p, named[p]>> \in extensions
      BY <2>2, <3>3 DEF Backed
    <3>4. CASE \E k \in Loader : new[k] = <<p, named[p]>>
      <4>1. PICK k \in Loader : new[k] = <<p, named[p]>>
        BY <3>4
      <4>2. loader[k] \in Busy /\ new[k][1] = p
        BY <1>0, <4>1
      <4> QED
        BY <3>1, <4>2 DEF Backed
    <3>5. CASE \E k \in Loader : <<p, named[p]>> \in old[k]
      <4>1. PICK k \in Loader : <<p, named[p]>> \in old[k]
        BY <3>5
      <4>2. /\ todo[k] = Paths /\ loader[Start] = "done" /\ k # l
        BY <2>2, <4>1, OldAwaits
      <4>3. l # Start
        BY <2>2, <4>2
      <4>4. InPaths(todo[l][1])
        BY <2>1, <4>3 DEF Phases, PhaseOf
      <4>5. todo'[k] = Paths
        BY <1>4, <4>2 DEF Instantiate, Types
      <4>6. PICK j \in DOMAIN Paths : p = Paths[j]
        BY <2>1, <2>7, <4>4 DEF InPaths
      <4>7. Awaited(p)'
        BY <4>5, <4>6 DEF Awaited
      <4> QED
        BY <4>7 DEF Backed
    <3> QED
      BY <3>2, <3>3, <3>4, <3>5
  <2>8. ASSUME p = q, NEW m \in Module, Draws(l, q, m) PROVE Backed(p)'
    <3>1. new'[l] = m /\ m[1] = p /\ loader'[l] = "list"
      BY <2>8 DEF Draws, Types
    <3> QED
      BY <3>1, PhaseNames DEF Backed
  <2> QED
    BY <2>1, <2>5, <2>6, <2>7, <2>8
<1>5. CASE ReturnInit(l)
  <2>1. /\ UNCHANGED <<extensions, todo>> /\ loader[l] = "registered" /\ ~Closed(new[l])
        /\ \A k \in Loader : k # l => new'[k] = new[k] /\ loader'[k] = loader[k]
        /\ \A m \in Module : m # new[l] => stage'[m] = stage[m]
    BY <1>5 DEF ReturnInit, Types
  <2>2. stage[new[l]] # "failed" /\ new[l] \in Module
    BY <1>0, <2>1, PhasesApart DEF Stages
  <2>3. CASE p = new[l][1]
    <3>1. new[l] \in extensions \/ \E k \in Loader : new[l] \in old[k]
      BY <2>1, PhasesApart DEF Names
    <3>2. l # Start => InPaths(new[l][1])
      BY <2>1, PhaseNames DEF Phases, PhaseOf
    <3>3. new[l] \in extensions \/ \E k \in Loader : old[k] # {} /\ InPaths(new[l][1])
      BY <2>1, <2>2, <3>1, <3>2, HeldBacks
    <3>4. CASE new[l] \in extensions
      BY <2>1, <2>3, <3>4 DEF Backed
    <3>5. CASE \E k \in Loader : old[k] # {} /\ InPaths(new[l][1])
      <4>1. Awaited(p)
        BY <2>3, <3>5, OldAwaits
      <4>2. Awaited(p)'
        BY <2>1, <4>1 DEF Awaited
      <4> QED
        BY <4>2 DEF Backed
    <3> QED
      BY <3>3, <3>4, <3>5
  <2>4. CASE p # new[l][1]
    BY <2>1, <2>2, <2>4 DEF Backed, Awaited
  <2> QED
    BY <2>3, <2>4
<1>6. CASE removeExtension(l) \/ CloseFailed(l)
  <2>1. /\ UNCHANGED <<stage, todo>> /\ loader[l] \in Failing
        /\ \A m \in extensions : m # new[l] => m \in extensions'
        /\ \A k \in Loader : k # l => new'[k] = new[k] /\ loader'[k] = loader[k]
    BY <1>6 DEF removeExtension, CloseFailed, Types, Failing
  <2>2. stage[new[l]] = "failed" /\ new[l] \in Module
    BY <1>0, <2>1, PhasesApart DEF Stages
  <2>3. CASE p = new[l][1]
    BY <2>1, <2>2, <2>3 DEF Backed
  <2>4. CASE p # new[l][1]
    BY <2>1, <2>4 DEF Backed, Awaited
  <2> QED
    BY <2>3, <2>4
<1> QED
  BY <1>2, <1>3, <1>4, <1>5, <1>6 DEF LoaderStep

Registering(m) ==
  \E l \in Loader : new[l] = m /\ loader[l] \in {"lock", "init", "subscribed", "remove"}

\* register_tool adds one tool at most, takes away none but of the same name, and
\* leaves the name with a tool.
LEMMA RegistersOne ==
  ASSUME NEW l, RegisterTool(l)
  PROVE  LET p == new[l][1] IN
         /\ \A t \in tools' : t \in tools \/ t = <<ToolName[p], p>>
         /\ \A n : (\E t \in tools : t[1] = n) => \E t \in tools' : t[1] = n
         /\ \E t \in tools' : t[1] = ToolName[p]
         /\ \A s \in tools : s \in tools' \/ s[1] = ToolName[p]
         /\ <<ToolName[p], p>> \in tools' =>
              \/ <<ToolName[p], p>> \in tools
              \/ \A t \in tools' : t[1] = ToolName[p] => t = <<ToolName[p], p>>
<1> DEFINE p == new[l][1]
           name == ToolName[p]
<1>1. CASE tools' = (tools \ Holder(name)) \cup {<<name, p>>}
  <2>1. \A t : t \in tools' <=> t = <<name, p>> \/ (t \in tools /\ t[1] # name)
    BY <1>1 DEF Holder
  <2>2. <<name, p>>[1] = name
    OBVIOUS
  <2> HIDE DEF name, p
  <2>3. ASSUME NEW n, NEW t \in tools, t[1] = n PROVE \E u \in tools' : u[1] = n
    BY <2>1, <2>2, <2>3
  <2> QED
    BY <2>1, <2>2, <2>3 DEF name, p
<1>2. CASE (\E t \in tools : t[1] = name) /\ tools' = tools
  BY <1>2
<1>3. \/ tools' = (tools \ Holder(name)) \cup {<<name, p>>}
      \/ Holder(name) # {} /\ tools' = tools
  BY DEF RegisterTool
<1>4. Holder(name) # {} => \E t \in tools : t[1] = name
  BY DEF Holder
<1> QED
  BY <1>1, <1>2, <1>3, <1>4

\* The table of the tools keeps its shape.
LEMMA TableStep ==
  ASSUME Types, Table, Phases, ExtNext
  PROVE  Table'
<1>a. CASE UNCHANGED tools
  BY <1>a DEF Table
<1>b. ASSUME ~UNCHANGED tools, NEW d \in Dispatcher, DispatcherStep(d) PROVE FALSE
  BY <1>b, DispatcherLeaves
<1>c. SUFFICES ASSUME ~UNCHANGED tools, NEW l \in Loader, LoaderStep(l) PROVE Table'
  BY <1>a, <1>b, StepsSplit
<1>d. Swap(l) \/ RegisterTool(l)
  BY <1>c DEF LoaderStep, CloseOld, Instantiate, List, LockInit, Subscribe,
     ReturnInit, FailInit, removeExtension, CloseFailed, Loaded
<1>e. RegisterTool(l) => new[l][1] \in Path
  BY BusyModule, PhaseNames, ModulePairs DEF RegisterTool
<1>1. CASE Swap(l)
  BY <1>1 DEF Swap, Table
<1>2. CASE RegisterTool(l)
  <2> DEFINE p == new[l][1]
  <2>1. /\ \A t \in tools' : t \in tools \/ t = <<ToolName[p], p>>
        /\ \A s \in tools : s \in tools' \/ s[1] = ToolName[p]
        /\ <<ToolName[p], p>> \in tools' =>
              \/ <<ToolName[p], p>> \in tools
              \/ \A t \in tools' : t[1] = ToolName[p] => t = <<ToolName[p], p>>
        /\ \A n : (\E t \in tools : t[1] = n) => \E t \in tools' : t[1] = n
        /\ p \in Path
    BY <1>2, <1>e, RegistersOne
  <2>2. \A t \in tools' : \/ t[1] \in NativeTool
                          \/ t[2] \in Path /\ t[1] = ToolName[t[2]]
    BY <1>2, <2>1 DEF Table
  <2>3. \A s, t \in tools' : s[1] = t[1] => s = t
    BY <2>1 DEF Table
  <2>4. \A n \in NativeTool : \E t \in tools : t[1] = n
    BY DEF Table
  <2>5. \A n \in NativeTool : \E t \in tools' : t[1] = n
    BY <2>1, <2>4
  <2> QED
    BY <2>2, <2>3, <2>5 DEF Table
<1> QED
  BY <1>d, <1>1, <1>2

\* A module that is listed has registered its tool or is not that far, and no
\* step takes the tool away but the one that empties the list.
LEMMA RegisteredStep ==
  ASSUME Types, Table, Phases, Numbers, Names, Stages, Registered, ExtNext
  PROVE  Registered'
<1>0. /\ \A l \in Loader : loader[l] \in Busy => new[l] \in Module
      /\ \A l \in Loader : loader[l] \notin Busy => new[l] = NoModule
      /\ \A m \in extensions : m \in Module /\ m # NoModule
      /\ \A t \in tools : t[1] \in NativeTool \/ t[2] \in Path
  BY BusyModule, ModulePairs DEF Table, Types
<1> DEFINE Given == \A m \in extensions : Holder(ToolName[m[1]]) # {} \/ Registering(m)
           Owned == \A t \in tools : t[1] \in NativeTool \/ Backed(t[2])
<1>a. Given /\ Owned
  BY DEF Registered, Registering, Backed
<1>b. ASSUME Given', Owned' PROVE Registered'
  BY <1>b DEF Registered, Registering, Backed
<1>1. ASSUME NEW l \in Loader, LoaderStep(l) PROVE Given'
  <2>1. CASE Swap(l)
    BY <2>1 DEF Swap
  <2>2. CASE CloseOld(l)
    BY <1>a, <2>2 DEF CloseOld, Registering, Holder
  <2>3. CASE Instantiate(l)
    <3>1. PICK p \in Path : /\ 1 \in DOMAIN todo[l] /\ p = todo[l][1]
                            /\ Skips(l, p) \/ \E m \in Module : Draws(l, p, m)
      BY <2>3, InstantiateEffect
    <3>2. UNCHANGED <<extensions, tools>> /\ loader[l] = "load"
      BY <2>3, InstantiateEffect
    <3>3. \A k \in Loader : k # l => new'[k] = new[k] /\ loader'[k] = loader[k]
      BY <3>1 DEF Skips, Draws, Types
    <3> QED
      BY <1>a, <3>2, <3>3 DEF Registering, Holder
  <2>4. CASE List(l)
    <3>1. /\ UNCHANGED <<tools, new>> /\ extensions' = extensions \cup {new[l]}
          /\ loader'[l] = "lock" /\ \A k \in Loader : k # l => loader'[k] = loader[k]
          /\ loader[l] = "list"
      BY <2>4 DEF List, Types
    <3> QED
      BY <1>a, <3>1 DEF Registering, Holder
  <2>5. CASE LockInit(l) \/ FailInit(l) \/ Subscribe(l)
    <3>1. /\ UNCHANGED <<extensions, tools, new>>
          /\ loader'[l] \in {"init", "subscribed", "remove"}
          /\ \A k \in Loader : k # l => loader'[k] = loader[k]
      BY <2>5 DEF LockInit, FailInit, Subscribe, Types
    <3> QED
      BY <1>a, <3>1 DEF Registering, Holder
  <2>6. CASE RegisterTool(l)
    <3>1. /\ UNCHANGED <<extensions, new>>
          /\ \A k \in Loader : k # l => loader'[k] = loader[k]
      BY <2>6 DEF RegisterTool, Types
    <3>2. \E t \in tools' : t[1] = ToolName[new[l][1]]
      BY <2>6, RegistersOne
    <3>3. \A n : (\E t \in tools : t[1] = n) => \E t \in tools' : t[1] = n
      BY <2>6, RegistersOne
    <3> QED
      BY <1>a, <3>1, <3>2, <3>3 DEF Registering, Holder
  <2>7. CASE Loaded(l)
    <3>1. /\ UNCHANGED <<extensions, tools, new>> /\ loader[l] = "load"
          /\ \A k \in Loader : k # l => loader'[k] = loader[k]
      BY <2>7 DEF Loaded, Types
    <3> QED
      BY <1>a, <3>1 DEF Registering, Holder
  <2>8. CASE ReturnInit(l) \/ CloseFailed(l)
    <3>1. /\ UNCHANGED <<extensions, tools>> /\ loader[l] \in {"registered", "drop"}
          /\ \A k \in Loader : k # l => new'[k] = new[k] /\ loader'[k] = loader[k]
      BY <2>8 DEF ReturnInit, CloseFailed, Types
    <3> QED
      BY <1>a, <3>1 DEF Registering, Holder
  <2>9. CASE removeExtension(l)
    <3>1. /\ UNCHANGED <<tools, new>> /\ extensions' = extensions \ {new[l]}
          /\ \A k \in Loader : k # l => loader'[k] = loader[k]
      BY <2>9 DEF removeExtension, Types
    <3> QED
      BY <1>a, <3>1 DEF Registering, Holder
  <2> QED
    BY <1>1, <2>1, <2>2, <2>3, <2>4, <2>5, <2>6, <2>7, <2>8, <2>9 DEF LoaderStep
<1>2. ASSUME NEW l \in Loader, LoaderStep(l) PROVE Owned'
  <2>1. CASE Swap(l)
    BY <2>1 DEF Swap
  <2>2. ASSUME ~Swap(l), NEW t \in tools', t[1] \notin NativeTool PROVE Backed(t[2])'
    <3>1. CASE t \in tools
      <4>1. t[2] \in Path /\ Backed(t[2])
        BY <1>0, <1>a, <2>2, <3>1
      <4> QED
        BY <1>2, <2>2, <4>1, BackedStep
    <3>2. CASE t \notin tools
      <4>1. RegisterTool(l)
        BY <1>2, <2>2, <3>2 DEF LoaderStep, CloseOld, Instantiate, List, LockInit, Subscribe,
           ReturnInit, FailInit, removeExtension, CloseFailed, Loaded
      <4>2. t = <<ToolName[new[l][1]], new[l][1]>>
        BY <2>2, <3>2, <4>1, RegistersOne
      <4>3. t[2] = new[l][1] /\ loader'[l] = "registered" /\ new' = new
        BY <4>1, <4>2 DEF RegisterTool, Types
      <4> QED
        BY <4>3, PhaseNames DEF Backed
    <3> QED
      BY <3>1, <3>2
  <2> QED
    BY <2>1, <2>2
<1>3. ASSUME NEW d \in Dispatcher, DispatcherStep(d) PROVE Given' /\ Owned'
  <2>1. UNCHANGED <<extensions, stage, tools, loader, todo, new>>
    BY <1>3, DispatcherLeaves
  <2>2. Given'
    BY <1>a, <2>1 DEF Registering, Holder
  <2>3. Owned'
    BY <1>a, <2>1 DEF Backed, Awaited
  <2> QED
    BY <2>2, <2>3
<1> QED
  BY <1>b, <1>1, <1>2, <1>3, StepsSplit

-----------------------------------------------------------------------------
(* The invariant.                                                          *)

\* At the start nothing is listed and the start has every path to load.
LEMMA HostInitial == ExtInit => HostInv
<1> SUFFICES ASSUME ExtInit PROVE HostInv
  OBVIOUS
<1>0. /\ Start \in Loader /\ Reloader \subseteq Loader /\ Start \notin Reloader
      /\ MaxLoads \in Nat
      /\ << >> \in Seq(Path) /\ DOMAIN << >> = {}
  BY HostAssumption DEF Loader
<1>1. /\ \A l \in Loader : loader[l] = (IF l = Start THEN "load" ELSE "idle")
      /\ \A l \in Loader : todo[l] = (IF l = Start THEN Builtins \o Paths ELSE << >>)
      /\ \A l \in Loader : old[l] = {} /\ new[l] = NoModule /\ loader[l] \notin Busy
      /\ extensions = {} /\ subscribed = {} /\ borrowed = {}
      /\ tools = NativeTool \X {"native"}
      /\ \A p \in Path : named[p] = 0 /\ made[p] = 0
      /\ \A m \in Module : stage[m] = "none"
      /\ \A d \in Dispatcher : target[d] = NoModule
  BY PhaseNames DEF ExtInit
<1>2. Types
  <2>1. /\ named \in [Path -> Nat] /\ made \in [Path -> 0 .. MaxLoads]
        /\ stage \in [Module -> {"none", "init", "up", "failed"}]
        /\ calls \in [Module -> {Unlocked} \cup Loader \cup Dispatcher]
    BY <1>0 DEF ExtInit
  <2>2. /\ loader \in [Loader -> {"idle", "load", "done"} \cup Busy]
        /\ todo \in [Loader -> Seq(Path)]
    BY <1>0, PathsAreSequences DEF ExtInit
  <2>3. /\ old \in [Loader -> SUBSET Module] /\ new \in [Loader -> Module \cup {NoModule}]
        /\ walk \in [Dispatcher -> SUBSET Module]
        /\ target \in [Dispatcher -> Module \cup {NoModule}]
    BY DEF ExtInit
  <2> QED
    BY <1>1, <2>1, <2>2, <2>3 DEF Types
<1>3. Phases
  BY <1>0, <1>1 DEF Phases, PhaseOf, Loader
<1>4. Numbers
  BY <1>1 DEF Numbers
<1>5. Names
  BY <1>1, PhaseNames DEF Names
<1>6. Stages
  BY <1>1, PhasesApart DEF Stages
<1>7. Subscriptions
  BY <1>1 DEF Subscriptions
<1>8. Provided
  <2> SUFFICES ASSUME NEW j \in DOMAIN Paths PROVE Awaited(Paths[j])
    BY DEF Provided
  <2>1. /\ Len(Builtins) + j \in DOMAIN (Builtins \o Paths)
        /\ (Builtins \o Paths)[Len(Builtins) + j] = Paths[j]
    BY PathsAreSequences
  <2> QED
    BY <1>0, <1>1, <2>1, ZenonT(60) DEF Awaited
<1>9. Registered /\ Table
  <2>1. \A t \in tools : t[1] \in NativeTool /\ t = <<t[1], "native">>
    BY <1>1
  <2>2. \A n \in NativeTool : <<n, "native">> \in tools /\ <<n, "native">>[1] = n
    BY <1>1
  <2>3. \A s, t \in tools : s[1] = t[1] => s = t
    BY <2>1
  <2>4. NativeTool \subseteq {t[1] : t \in tools}
    BY <2>2
  <2> QED
    BY <1>1, <2>1, <2>3, <2>4 DEF Registered, Table
<1> QED
  BY <1>2, <1>3, <1>4, <1>5, <1>6, <1>7, <1>8, <1>9 DEF HostInv

\* Every step keeps the invariant.
LEMMA HostKept == HostInv /\ [ExtNext]_extVars => HostInv'
<1>1. ASSUME HostInv, ExtNext PROVE HostInv'
  <2>1. Types' /\ Table' /\ Phases'
    BY <1>1, TypesStep, TableStep, PhasesStep DEF HostInv
  <2>2. Numbers' /\ Names' /\ Stages'
    BY <1>1, NumbersStep, NamesStep, StagesStep DEF HostInv
  <2>3. Subscriptions' /\ Provided' /\ Registered'
    BY <1>1, SubscriptionsStep, ProvidedStep, RegisteredStep DEF HostInv
  <2> QED
    BY <2>1, <2>2, <2>3 DEF HostInv
<1>2. ASSUME HostInv, UNCHANGED extVars PROVE HostInv'
  <2>0. UNCHANGED <<extensions, named, made, stage, subscribed, tools, calls, loader, todo, old,
                    new, walk, target, borrowed>>
    BY <1>2 DEF extVars, loading, dispatch
  <2>1. Types' /\ Table' /\ Phases'
    BY <1>2, <2>0 DEF HostInv, Types, Table, Phases, PhaseOf
  <2>2. Numbers' /\ Names' /\ Stages'
    BY <1>2, <2>0, SMTT(60) DEF HostInv, Numbers, Names, Stages, Closed
  <2>3. Subscriptions' /\ Provided' /\ Registered'
    BY <1>2, <2>0 DEF HostInv, Subscriptions, Provided, Registered, Awaited, Holder
  <2> QED
    BY <2>1, <2>2, <2>3 DEF HostInv
<1> QED
  BY <1>1, <1>2

\* The invariant holds.
LEMMA HostInvariant == ExtSpec => []HostInv
BY HostInitial, HostKept, PTL DEF ExtSpec

-----------------------------------------------------------------------------
(* What follows.                                                           *)

\* The invariant has the types in it.
LEMMA HostTypes == HostInv => ExtTypeOK
<1> SUFFICES ASSUME HostInv PROVE ExtTypeOK
  OBVIOUS
<1>1. extensions \subseteq Module /\ subscribed \subseteq Module
  BY DEF HostInv, Types
<1>t. /\ \A t \in tools : \/ t[1] \in NativeTool
                          \/ t[2] \in Path /\ t[1] = ToolName[t[2]]
      /\ \A s, t \in tools : s[1] = t[1] => s = t
      /\ NativeTool \subseteq {t[1] : t \in tools}
  BY DEF HostInv, Table
<1>2. \A m, n \in extensions : m[1] = n[1] => m = n
  BY <1>1, ModulePairs DEF HostInv, Names
<1>3. \A p \in Path : named[p] \in {0, made[p]}
  BY DEF HostInv, Numbers
<1>4. \A l \in Loader : loader[l] \in {"init", "subscribed", "registered"} =>
        calls[new[l]] = l /\ stage[new[l]] = "init"
  BY DEF HostInv, Stages, InInit
<1> QED
  BY <1>1, <1>t, <1>2, <1>3, <1>4 DEF ExtTypeOK

\* One module of a path is listed, the one with its name, and a module has one
\* call inside it while its _init runs.
THEOREM ExtTypeCorrect == ExtSpec => []ExtTypeOK
<1>1. HostInv => ExtTypeOK
  BY HostTypes
<1> QED
  BY HostInvariant, <1>1, PTL

\* No event enters a module before its _init has returned or failed, unless a
\* call inside another module of its path subscribed it (host.go:
\* dispatchToExtension, loadExtension).
THEOREM InitFirstCorrect == ExtSpec => InitFirst
<1>1. ASSUME HostInv, ExtNext, NEW d \in Dispatcher, NEW m \in Module,
             calls[m] # d, calls'[m] = d
      PROVE  stage[m] \in {"up", "failed"} \/ m \in borrowed
  <2>0. /\ calls \in [Module -> {Unlocked} \cup Loader \cup Dispatcher]
        /\ stage[m] \in {"none", "init", "up", "failed"}
        /\ Unlocked \notin Loader \cup Dispatcher /\ Loader \cap Dispatcher = {}
    BY <1>1, HostAssumption DEF HostInv, Types
  <2>1. ASSUME NEW l \in Loader, LoaderStep(l) PROVE FALSE
    BY <1>1, <2>0, <2>1 DEF LoaderStep, Swap, CloseOld, Instantiate, List, LockInit, Subscribe,
       RegisterTool, ReturnInit, FailInit, removeExtension, CloseFailed, Loaded
  <2>2. PICK e \in Dispatcher : DispatcherStep(e)
    BY <1>1, <2>1, StepsSplit
  <2>3. Enter(e)
    BY <1>1, <2>0, <2>2 DEF DispatcherStep, Dispatch, Consider, HandlerSubscribes, Leave
  <2>4. target[e] = m /\ calls[m] = Unlocked /\ m # NoModule
    BY <1>1, <2>0, <2>3, ModulePairs DEF Enter
  <2>5. stage[m] # "none" \/ m \in borrowed
    BY <1>1, <2>4 DEF HostInv, Subscriptions
  <2>6. stage[m] # "init"
    BY <1>1, <2>0, <2>4 DEF HostInv, Stages
  <2> QED
    BY <2>0, <2>5, <2>6
<1>2. ASSUME HostInv, [ExtNext]_extVars
      PROVE  [\A d \in Dispatcher, m \in Module :
                calls[m] # d /\ calls'[m] = d =>
                  stage[m] \in {"up", "failed"} \/ m \in borrowed]_extVars
  BY <1>1, <1>2
<1> QED
  BY HostInvariant, <1>2, PTL DEF ExtSpec, InitFirst

\* When no load is under way nothing is being loaded, closed or waited for.
LEMMA SettledRests ==
  ASSUME HostInv, Settled
  PROVE  /\ \A l \in Loader : loader[l] \notin Busy /\ new[l] = NoModule /\ old[l] = {}
         /\ \A p : ~Awaited(p)
<1>1. \A l \in Loader : loader[l] \in {"idle", "done"}
  BY DEF Settled
<1>2. \A l \in Loader : loader[l] \notin Busy
  BY <1>1, PhaseNames
<1>3. \A l \in Loader : todo[l] = << >> /\ old[l] = {} /\ new[l] = NoModule
  BY <1>1, <1>2 DEF HostInv, Phases, PhaseOf
<1>4. DOMAIN << >> = {}
  OBVIOUS
<1> QED
  BY <1>2, <1>3, <1>4 DEF Awaited

\* When no load is under way each of the user's extensions that does not fail is
\* listed once, initialised and subscribed, however reloads interleave
\* (host.go: Reload, loadExtension).
THEOREM LoadedOnceCorrect == ExtSpec => []LoadedOnce
<1>1. HostInv => LoadedOnce
  <2> SUFFICES ASSUME HostInv, Settled, NEW i \in DOMAIN Paths, Paths[i] \notin Faulty
               PROVE  LET m == <<Paths[i], named[Paths[i]]>>
                      IN /\ named[Paths[i]] # 0 /\ m \in extensions
                         /\ stage[m] = "up" /\ m \in subscribed
    BY DEF LoadedOnce
  <2> DEFINE p == Paths[i]
             m == <<p, named[p]>>
  <2>1. p \in Path
    BY PathsAreSequences
  <2>2. named[p] # 0
    BY SettledRests DEF HostInv, Provided
  <2>3. m # NoModule
    BY DEF NoModule
  <2>4. m \in extensions
    BY <2>1, <2>2, <2>3, SettledRests DEF HostInv, Names
  <2>5. stage[m] = "up"
    BY <2>3, <2>4, SettledRests DEF HostInv, Stages
  <2>6. m \in subscribed
    BY <2>3, <2>4, SettledRests DEF HostInv, Subscriptions
  <2> QED
    BY <2>2, <2>4, <2>5, <2>6
<1> QED
  BY HostInvariant, <1>1, PTL

\* When no load is under way every listed extension's tool is offered by its name,
\* and a tool offered has a native name or is that of a listed extension or of one
\* whose _init failed after it registered it
\* (host.go: Reload, register_tool, removeExtension).
THEOREM ToolsOfLoadedCorrect == ExtSpec => []ToolsOfLoaded
<1>1. HostInv => ToolsOfLoaded
  <2> SUFFICES ASSUME HostInv, Settled
               PROVE  /\ \A m \in extensions : Holder(ToolName[m[1]]) # {}
                      /\ \A t \in tools :
                           \/ t[1] \in NativeTool
                           \/ \E m \in extensions : m[1] = t[2]
                           \/ \E m \in Module : stage[m] = "failed" /\ m[1] = t[2]
    BY DEF ToolsOfLoaded
  <2>1. \A m \in extensions : m \in Module /\ m # NoModule
    BY ModulePairs DEF HostInv, Types
  <2>2. \A m \in extensions : Holder(ToolName[m[1]]) # {}
    BY <2>1, SettledRests DEF HostInv, Registered
  <2>3. \A t \in tools : \/ t[1] \in NativeTool
                         \/ \E m \in extensions : m[1] = t[2]
                         \/ \E m \in Module : stage[m] = "failed" /\ m[1] = t[2]
    BY SettledRests DEF HostInv, Registered
  <2> QED
    BY <2>2, <2>3
<1> QED
  BY HostInvariant, <1>1, PTL
=============================================================================
