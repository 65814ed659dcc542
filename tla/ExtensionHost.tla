---------------------------- MODULE ExtensionHost ----------------------------
(***************************************************************************)
(* The extensions of the host (modules/extension/host.go): loading them at *)
(* the start and again by any number of concurrent reloads, their _init,   *)
(* the host calls that subscribe and register tools, and the dispatch of   *)
(* events by any number of goroutines.                                     *)
(*                                                                         *)
(* The mutex of the host is held for a look at its list and maps only.  A  *)
(* module of the WASM runtime has the path as its name, which one open     *)
(* module can have; closing a module does not end a call inside it.        *)
(***************************************************************************)
EXTENDS Integers, Sequences

CONSTANTS
  Builtins,   \* built-in extensions, loaded at the start
  Paths,      \* paths of the user's extensions, in the order of loading
  Faulty,     \* those whose _init may fail
  NativeTool, \* names of the tools that are Go functions
  ToolName,   \* the name of the tool of each extension, maybe the same for several
  Override,   \* extensions that may register theirs as an override
  Start,      \* the goroutine that loads the extensions at the start
  Reloader,   \* goroutines that reload, each of them once
  Dispatcher, \* goroutines that dispatch events
  Unlocked,   \* nobody
  MaxLoads    \* bound on the modules of one path

Loader == {Start} \cup Reloader
Path == {Builtins[i] : i \in DOMAIN Builtins} \cup {Paths[i] : i \in DOMAIN Paths}
Module == Path \X (1 .. MaxLoads)
NoModule == <<>>

ASSUME HostAssumption ==
  /\ Builtins \in Seq(Path) /\ Paths \in Seq(Path)
  /\ Faulty \subseteq Path /\ Override \subseteq Path /\ DOMAIN ToolName = Path
  /\ Loader \cap Dispatcher = {} /\ Unlocked \notin Loader \cup Dispatcher
  /\ Start \notin Reloader /\ MaxLoads \in Nat \ {0}

VARIABLES
  extensions,  \* the modules in the list of the host
  named,       \* the number of the module that has the name of a path, or 0
  made,        \* modules made of each path
  stage,       \* what a module has been through: "none", "init" (running),
               \* "up" or "failed"
  subscribed,  \* modules with a subscription
  tools,       \* registeredTools: the names, and whose tool has each of them
  calls,       \* callMu: who is inside a module
  loader,      \* what each loader does
  todo,        \* the paths it has to load
  old,         \* the modules it has to close
  new,         \* the module it is loading
  walk,        \* the modules each dispatcher has yet to look at
  target,      \* the module it has found subscribed
  borrowed     \* history: modules subscribed by a call inside another one

loading  == <<loader, todo, old, new>>
dispatch == <<walk, target>>
extVars  == <<extensions, named, made, stage, subscribed, tools, calls, loading,
              dispatch, borrowed>>

ExtInit ==
  /\ extensions = {} /\ named = [p \in Path |-> 0] /\ made = [p \in Path |-> 0]
  /\ stage = [m \in Module |-> "none"] /\ subscribed = {}
  /\ tools = NativeTool \X {"native"}
  /\ calls = [m \in Module |-> Unlocked]
  /\ loader = [l \in Loader |-> IF l = Start THEN "load" ELSE "idle"]
  /\ todo = [l \in Loader |-> IF l = Start THEN Builtins \o Paths ELSE << >>]
  /\ old = [l \in Loader |-> {}] /\ new = [l \in Loader |-> NoModule]
  /\ walk = [d \in Dispatcher |-> {}] /\ target = [d \in Dispatcher |-> NoModule]
  /\ borrowed = {}

-----------------------------------------------------------------------------
(* Reload and loadExtension.                                               *)

\* Mutant: the tools stay.
SwapKeepingTools(l) ==
  /\ loader[l] = "idle" /\ loader[Start] = "done"
  /\ loader' = [loader EXCEPT ![l] = "load"]
  /\ todo' = [todo EXCEPT ![l] = Paths] /\ old' = [old EXCEPT ![l] = extensions]
  /\ extensions' = {}
  /\ UNCHANGED <<named, made, stage, subscribed, tools, calls, new, dispatch, borrowed>>

\* Reload takes the list and drops every tool but those with a native name.
Swap(l) ==
  /\ loader[l] = "idle" /\ loader[Start] = "done"
  /\ loader' = [loader EXCEPT ![l] = "load"]
  /\ todo' = [todo EXCEPT ![l] = Paths] /\ old' = [old EXCEPT ![l] = extensions]
  /\ extensions' = {} /\ tools' = {t \in tools : t[1] \in NativeTool}
  /\ UNCHANGED <<named, made, stage, subscribed, calls, new, dispatch, borrowed>>

\* The name of a module that is closed is free.
Freed(m) == [named EXCEPT ![m[1]] = IF @ = m[2] THEN 0 ELSE @]

CloseOld(l) ==
  /\ \E m \in old[l] : old' = [old EXCEPT ![l] = @ \ {m}] /\ named' = Freed(m)
  /\ UNCHANGED <<extensions, made, stage, subscribed, tools, calls, loader, todo, new,
                 dispatch, borrowed>>

\* The next path is instantiated, which fails when its name is taken; a
\* failure is logged and the next path follows.
Instantiate(l) ==
  LET p == Head(todo[l])
      m == <<p, made[p] + 1>>
  IN /\ loader[l] = "load" /\ old[l] = {} /\ todo[l] # << >>
     /\ todo' = [todo EXCEPT ![l] = Tail(@)]
     /\ IF named[p] # 0
        THEN UNCHANGED <<named, made, new, loader>>
        ELSE /\ made[p] < MaxLoads
             /\ made' = [made EXCEPT ![p] = m[2]] /\ named' = [named EXCEPT ![p] = m[2]]
             /\ new' = [new EXCEPT ![l] = m] /\ loader' = [loader EXCEPT ![l] = "list"]
     /\ UNCHANGED <<extensions, stage, subscribed, tools, calls, old, dispatch, borrowed>>

\* The extension is listed before its _init runs.
List(l) ==
  /\ loader[l] = "list"
  /\ extensions' = extensions \cup {new[l]}
  /\ loader' = [loader EXCEPT ![l] = "lock"]
  /\ UNCHANGED <<named, made, stage, subscribed, tools, calls, todo, old, new, dispatch,
                 borrowed>>

\* Mutant: _init runs without callMu.
LockInitFree(l) ==
  /\ loader[l] = "lock"
  /\ stage' = [stage EXCEPT ![new[l]] = "init"]
  /\ loader' = [loader EXCEPT ![l] = "init"]
  /\ UNCHANGED <<extensions, named, made, subscribed, tools, calls, todo, old, new, dispatch,
                 borrowed>>

\* _init runs with callMu held.
LockInit(l) ==
  /\ loader[l] = "lock" /\ calls[new[l]] = Unlocked
  /\ calls' = [calls EXCEPT ![new[l]] = l]
  /\ stage' = [stage EXCEPT ![new[l]] = "init"]
  /\ loader' = [loader EXCEPT ![l] = "init"]
  /\ UNCHANGED <<extensions, named, made, subscribed, tools, todo, old, new, dispatch,
                 borrowed>>

\* subscribe, called inside a module: the extension is looked up by the name of
\* the module, which another one may have by now.
subscribe(m) ==
  LET found == {x \in extensions : x[1] = m[1]}
  IN /\ subscribed' = subscribed \cup found
     /\ borrowed' = borrowed \cup (found \ {m})

Subscribe(l) ==
  /\ loader[l] = "init"
  /\ subscribe(new[l])
  /\ loader' = [loader EXCEPT ![l] = "subscribed"]
  /\ UNCHANGED <<extensions, named, made, stage, tools, calls, todo, old, new, dispatch>>

\* register_tool, whoever calls it: a name that is free, or overridden, is
\* taken; one that is taken is refused, which the caller may leave unread.
Holder(name) == {t \in tools : t[1] = name}

RegisterTool(l) ==
  LET p == new[l][1]
      name == ToolName[p]
  IN /\ loader[l] = "subscribed"
     /\ \/ /\ Holder(name) = {} \/ p \in Override
           /\ tools' = (tools \ Holder(name)) \cup {<<name, p>>}
        \/ Holder(name) # {} /\ UNCHANGED tools
     /\ loader' = [loader EXCEPT ![l] = "registered"]
     /\ UNCHANGED <<extensions, named, made, stage, subscribed, calls, todo, old, new, dispatch,
                    borrowed>>

\* _init returns, or fails at any time; a module that was closed under it
\* fails at the latest when _init returns.
Closed(m) == named[m[1]] # m[2]

ReturnInit(l) ==
  /\ loader[l] = "registered" /\ ~Closed(new[l])
  /\ calls' = [calls EXCEPT ![new[l]] = Unlocked]
  /\ stage' = [stage EXCEPT ![new[l]] = "up"]
  /\ loader' = [loader EXCEPT ![l] = "load"]
  /\ new' = [new EXCEPT ![l] = NoModule]
  /\ UNCHANGED <<extensions, named, made, subscribed, tools, todo, old, dispatch, borrowed>>

FailInit(l) ==
  /\ loader[l] \in {"init", "subscribed", "registered"}
  /\ new[l][1] \in Faulty \/ Closed(new[l])
  /\ calls' = [calls EXCEPT ![new[l]] = Unlocked]
  /\ stage' = [stage EXCEPT ![new[l]] = "failed"]
  /\ loader' = [loader EXCEPT ![l] = "remove"]
  /\ UNCHANGED <<extensions, named, made, subscribed, tools, todo, old, new, dispatch,
                 borrowed>>

\* Mutant: the extension is removed by its name.
RemoveByName(l) ==
  /\ loader[l] = "remove"
  /\ extensions' = {m \in extensions : m[1] # new[l][1]}
  /\ loader' = [loader EXCEPT ![l] = "drop"]
  /\ UNCHANGED <<named, made, stage, subscribed, tools, calls, todo, old, new, dispatch,
                 borrowed>>

\* The extension leaves the list; then the module is closed.
removeExtension(l) ==
  /\ loader[l] = "remove"
  /\ extensions' = extensions \ {new[l]}
  /\ loader' = [loader EXCEPT ![l] = "drop"]
  /\ UNCHANGED <<named, made, stage, subscribed, tools, calls, todo, old, new, dispatch,
                 borrowed>>

CloseFailed(l) ==
  /\ loader[l] = "drop"
  /\ named' = Freed(new[l])
  /\ loader' = [loader EXCEPT ![l] = "load"]
  /\ new' = [new EXCEPT ![l] = NoModule]
  /\ UNCHANGED <<extensions, made, stage, subscribed, tools, calls, todo, old, dispatch,
                 borrowed>>

Loaded(l) ==
  /\ loader[l] = "load" /\ old[l] = {} /\ todo[l] = << >>
  /\ loader' = [loader EXCEPT ![l] = "done"]
  /\ UNCHANGED <<extensions, named, made, stage, subscribed, tools, calls, todo, old, new,
                 dispatch, borrowed>>

-----------------------------------------------------------------------------
(* DispatchEvent.                                                          *)

\* The list is copied.
Dispatch(d) ==
  /\ walk[d] = {} /\ target[d] = NoModule /\ extensions # {}
  /\ walk' = [walk EXCEPT ![d] = extensions]
  /\ UNCHANGED <<extensions, named, made, stage, subscribed, tools, calls, loading, target,
                 borrowed>>

\* One after the other is looked at; one that is subscribed is called.
Consider(d, m) ==
  /\ target[d] = NoModule /\ m \in walk[d]
  /\ walk' = [walk EXCEPT ![d] = @ \ {m}]
  /\ target' = IF m \in subscribed THEN [target EXCEPT ![d] = m] ELSE target
  /\ UNCHANGED <<extensions, named, made, stage, subscribed, tools, calls, loading, borrowed>>

InModule(d) == target[d] # NoModule /\ calls[target[d]] = d

\* dispatchToExtension takes callMu.
Enter(d) ==
  /\ target[d] # NoModule /\ calls[target[d]] = Unlocked
  /\ calls' = [calls EXCEPT ![target[d]] = d]
  /\ UNCHANGED <<extensions, named, made, stage, subscribed, tools, loading, dispatch,
                 borrowed>>

\* A handler may subscribe to more.
HandlerSubscribes(d) ==
  /\ InModule(d)
  /\ subscribe(target[d])
  /\ UNCHANGED <<extensions, named, made, stage, tools, calls, loading, dispatch>>

\* _on_event returns or traps.
Leave(d) ==
  /\ InModule(d)
  /\ calls' = [calls EXCEPT ![target[d]] = Unlocked]
  /\ target' = [target EXCEPT ![d] = NoModule]
  /\ UNCHANGED <<extensions, named, made, stage, subscribed, tools, loading, walk, borrowed>>

ExtNext ==
  \/ \E l \in Reloader : Swap(l)
  \/ \E l \in Loader :
       \/ CloseOld(l) \/ Instantiate(l) \/ List(l) \/ LockInit(l) \/ Subscribe(l)
       \/ RegisterTool(l) \/ ReturnInit(l) \/ FailInit(l) \/ removeExtension(l)
       \/ CloseFailed(l) \/ Loaded(l)
  \/ \E d \in Dispatcher :
       \/ Dispatch(d) \/ Enter(d) \/ HandlerSubscribes(d) \/ Leave(d)
       \/ \E m \in Module : Consider(d, m)

ExtSpec == ExtInit /\ [][ExtNext]_extVars

-----------------------------------------------------------------------------
(* Properties.                                                             *)

\* The type invariant: one module of a path is listed, the one with its name, a
\* name has one tool, and a module has one call inside it.
ExtTypeOK ==
  /\ extensions \subseteq Module /\ subscribed \subseteq Module
  /\ \A m, n \in extensions : m[1] = n[1] => m = n
  /\ \A p \in Path : named[p] \in {0, made[p]}
  /\ \A t \in tools : \/ t[1] \in NativeTool
                      \/ t[2] \in Path /\ t[1] = ToolName[t[2]]
  /\ \A s, t \in tools : s[1] = t[1] => s = t
  /\ NativeTool \subseteq {t[1] : t \in tools}
  /\ \A l \in Loader : loader[l] \in {"init", "subscribed", "registered"} =>
       calls[new[l]] = l /\ stage[new[l]] = "init"

\* "Serialize _init with event dispatch": no event enters a module before its
\* _init has returned or failed, though it is listed and subscribed by then,
\* unless the subscription came from inside a closed module of its name.
InitFirst ==
  [][\A d \in Dispatcher, m \in Module :
       calls[m] # d /\ calls'[m] = d => stage[m] \in {"up", "failed"} \/ m \in borrowed]_extVars

Settled == \A l \in Loader : loader[l] \in {"idle", "done"}

\* "Reload closes all extensions and reloads them from the given paths": when
\* no load is under way each path has one module that is listed, initialised
\* and subscribed, though reloads run at the same time, take away each other's
\* modules and find names taken, and others fail.
LoadedOnce ==
  Settled /\ loader[Start] = "done" =>
    \A i \in DOMAIN Paths : Paths[i] \notin Faulty =>
      LET m == <<Paths[i], named[Paths[i]]>>
      IN named[Paths[i]] # 0 /\ m \in extensions /\ stage[m] = "up" /\ m \in subscribed

\* "Only clear WASM-owned tool registrations": when no load is under way the
\* tool of every listed extension is offered by its name, maybe as the tool of
\* another one that came first; and a tool offered has a native name, or is that
\* of a listed extension or of one whose _init failed after it registered it.
ToolsOfLoaded ==
  Settled =>
    /\ \A m \in extensions : Holder(ToolName[m[1]]) # {}
    /\ \A t \in tools :
         \/ t[1] \in NativeTool
         \/ \E m \in extensions : m[1] = t[2]
         \/ \E m \in Module : stage[m] = "failed" /\ m[1] = t[2]

=============================================================================
