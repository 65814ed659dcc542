------------------------------- MODULE MCCalls -------------------------------
(***************************************************************************)
(* Instances for TLC of the extension host and what calls through it:      *)
(* ToolCalls, with two identical calls, one after the other, and between   *)
(* them one of the same tool with other arguments; McpClient, with two     *)
(* requests; ExtensionHost, with two reloads at the same time; CallStacks, *)
(* with two extensions; and LogDrain, with two goroutines that log.  In a  *)
(* behaviour one of them moves, chosen in the initial state.               *)
(***************************************************************************)
EXTENDS ToolCalls, McpClient, ExtensionHost, CallStacks, LogDrain

VARIABLE part

CONSTANTS c1, c2, c3, k1, k2, tool, user, policy, i1, i2, bi, ext1

\* The permissions extension has priority 10, an extension of the user 100.
MCBefore == <<policy, user>>
MCAfter  == <<policy>>
MCToolOf == [k \in Key |-> tool]
MCKeyOf  == [c \in Call |-> IF c = c3 THEN k2 ELSE k1]
\* One provider reuses an ID.
MCIdOf   == [c \in Call |-> IF c = c2 THEN i2 ELSE i1]
MCInOrder == [c \in Call |-> IF c = c2 THEN {c3} ELSE IF c = c3 THEN {c1} ELSE {}]

\* A built-in extension, which may fail, and one of the user, with a tool of
\* the same name.
MCToolName == [p \in Path |-> tool]
MCBuiltins == <<bi>>
MCPaths == <<ext1>>
MCSubscriber == <<policy, user>>

CallsInit ==
  /\ part \in {"tools", "mcp", "host", "stacks", "log"}
  /\ Init /\ McpInit /\ ExtInit /\ StackInit /\ LogInit
  /\ part # "tools" => implementer = [t \in Tool |-> Native]

InTools  == part = "tools" /\ UNCHANGED <<part, mcpVars, extVars, stackVars, logVars>>
InMcp    == part = "mcp" /\ UNCHANGED <<part, vars, extVars, stackVars, logVars>>
InHost   == part = "host" /\ UNCHANGED <<part, vars, mcpVars, stackVars, logVars>>
InStacks == part = "stacks" /\ UNCHANGED <<part, vars, mcpVars, extVars, logVars>>
InLog    == part = "log" /\ UNCHANGED <<part, vars, mcpVars, extVars, stackVars>>

ToolsStep ==
  \/ \E c \in Call :
       \/ InTools /\ Run(c)
       \/ InTools /\ Expire(c)
       \/ InTools /\ EndTurn(c)
       \/ InTools /\ TakeResult(c)
       \/ InTools /\ Abandon(c)
       \/ InTools /\ ExecuteTool(c)
       \/ InTools /\ EnterExtension(c)
       \/ InTools /\ Implement(c)
       \/ InTools /\ LeaveExtension(c)
       \/ InTools /\ Block(c)
       \/ InTools /\ ExecuteNative(c)
       \/ InTools /\ Await(c)
       \/ InTools /\ ReceiveResult(c)
       \/ InTools /\ GiveUp(c)
       \/ InTools /\ Return(c)
  \/ \E k \in Key : InTools /\ CoolDown(k)

McpStep ==
  \/ \E r \in Request :
       \/ InMcp /\ Register(r)
       \/ InMcp /\ LockStdin(r)
       \/ InMcp /\ Write(r)
       \/ InMcp /\ ContextDone(r)
       \/ InMcp /\ Select(r)
       \/ InMcp /\ CleanUp(r)
       \/ InMcp /\ ServerReads(r)
       \/ InMcp /\ ServerAnswers(r)
  \/ InMcp /\ ReadLine
  \/ InMcp /\ Find
  \/ InMcp /\ SendAnswer
  \/ InMcp /\ EndOfOutput
  \/ InMcp /\ ServerExits

HostStep ==
  \/ \E l \in Reloader : InHost /\ Swap(l)
  \/ \E l \in Loader :
       \/ InHost /\ CloseOld(l)
       \/ InHost /\ Instantiate(l)
       \/ InHost /\ List(l)
       \/ InHost /\ LockInit(l)
       \/ InHost /\ Subscribe(l)
       \/ InHost /\ RegisterTool(l)
       \/ InHost /\ ReturnInit(l)
       \/ InHost /\ FailInit(l)
       \/ InHost /\ removeExtension(l)
       \/ InHost /\ CloseFailed(l)
       \/ InHost /\ Loaded(l)
  \/ \E d \in Dispatcher :
       \/ InHost /\ Dispatch(d)
       \/ \E m \in Module : InHost /\ Consider(d, m)
       \/ InHost /\ Enter(d)
       \/ InHost /\ HandlerSubscribes(d)
       \/ InHost /\ Leave(d)

StackStep ==
  \/ InStacks /\ Input
  \/ \E a \in Actor :
       \/ InStacks /\ PSend(a)
       \/ InStacks /\ Event(a)
       \/ InStacks /\ EnterCall(a)
       \/ InStacks /\ HostCall(a)
       \/ InStacks /\ LeaveCall(a)
       \/ InStacks /\ DeliverWake(a)
       \/ InStacks /\ SpawnDetached(a)
       \/ InStacks /\ SubmitTurn(a)
       \/ InStacks /\ TurnStart(a)
       \/ InStacks /\ AwaitStart(a)
       \/ InStacks /\ TurnOutput(a)
       \/ InStacks /\ TurnDoneReport(a)

LogStep ==
  \/ \E w \in Writer :
       \/ InLog /\ Handle(w)
       \/ InLog /\ Look(w)
       \/ InLog /\ AppendRing(w)
       \/ InLog /\ AppendQueue(w)
  \/ InLog /\ TakeRecord
  \/ InLog /\ Tick
  \/ InLog /\ flushRing
  \/ InLog /\ flushBatch
  \/ InLog /\ Dispatched
  \/ InLog /\ Stop
  \/ InLog /\ SinkComesOrGoes

CallsNext == ToolsStep \/ McpStep \/ HostStep \/ StackStep \/ LogStep

CallsSpec ==
  CallsInit /\ [][CallsNext]_<<part, vars, mcpVars, extVars, stackVars, logVars>>
    /\ Fairness /\ McpFairness

\* The type invariants of all five.
CallsTypeOK == TypeOK /\ McpTypeOK /\ ExtTypeOK /\ StackTypeOK /\ LogTypeOK
=============================================================================
