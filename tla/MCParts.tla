------------------------------- MODULE MCParts -------------------------------
(***************************************************************************)
(* Instances for TLC of the parts of the system that are modelled each on  *)
(* its own: the tree of agents, a conversation, the interface, the screen, *)
(* the guard against loops, the steps of a turn, and the breaker of the    *)
(* tools, with Go functions behind them and no interceptors.  In a         *)
(* behaviour one part moves, chosen in the initial state, and the others   *)
(* stay in theirs.                                                         *)
(***************************************************************************)
EXTENDS AgentTree, Conversation, Harness, Transcript, LoopGuard, ToolLoop, ToolCalls

CONSTANTS
  Moving, \* the parts that may move in a run
  c1, c2, c3, c4, k1, tool

VARIABLE part

\* A root with a child, which has a child.
MCParent == [id \in AgentId \ {Root} |-> IF id = "a" THEN Root ELSE "a"]
MCMaxSpawns == [id \in AgentId |-> IF id = "a" THEN 2 ELSE 1]

\* A conversation with one message of the user that asks for tools.
MCRestored == {<<msg("user", 0, 2), msg("assistant", 0, 3), msg("user", 0, 1),
                 msg("assistant", 0, 3), msg("user", 0, 3)>>}
MCPrompts == <<3>>

\* A conversation of two messages and the task of the turn; what a compaction
\* makes of it.
MCOpening == <<<<<<"said", 1>>, <<"said", 2>>, <<"said", 3>>>>,
               <<<<"digest", 1>>, <<"said", 3>>>>>>

\* Four identical calls.  Two are under way at a time, before the breaker trips and
\* when it is half open: those of an agent, and of one that was closed and spawned
\* again under its ID, whose old turn is still at work.
MCToolOf == [k \in Key |-> tool]
MCKeyOf  == [c \in Call |-> k1]
MCIdOf   == [c \in Call |-> c]
MCChain  == << >>
MCInOrder == [c \in Call |-> IF c \in {c3, c4} THEN {c1, c2} ELSE {}]

PartsInit ==
  /\ part \in Moving
  /\ TreeInit /\ ConvInit /\ HarnessInit /\ TranscriptInit /\ LoopGuardInit
  /\ LoopInit /\ Init
  /\ part # "transcript" => markdown
  /\ part # "breaker" => implementer = [t \in Tool |-> Native]

InTree == part = "tree" /\ UNCHANGED <<part, convVars, harnessVars, transcriptVars, guardVars, loopVars, vars>>
InConversation == part = "conversation" /\ UNCHANGED <<part, treeVars, harnessVars, transcriptVars, guardVars, loopVars, vars>>
InHarness == part = "harness" /\ UNCHANGED <<part, treeVars, convVars, transcriptVars, guardVars, loopVars, vars>>
InTranscript == part = "transcript" /\ UNCHANGED <<part, treeVars, convVars, harnessVars, guardVars, loopVars, vars>>
InGuard == part = "guard" /\ UNCHANGED <<part, treeVars, convVars, harnessVars, transcriptVars, loopVars, vars>>

InLoop == part = "loop" /\ UNCHANGED <<part, treeVars, convVars, harnessVars, transcriptVars, guardVars, vars>>
InBreaker == part = "breaker" /\ UNCHANGED <<part, treeVars, convVars, harnessVars, transcriptVars, guardVars, loopVars>>

TreeStep ==
  \/ \E id \in AgentId :
       \/ InTree /\ SpawnAgent(id)
       \/ InTree /\ LookUp(id)
       \/ InTree /\ Close(id)
       \/ InTree /\ CancelAgent(id)
       \/ InTree /\ FindMember(id)
       \/ InTree /\ AddMember(id)
       \/ InTree /\ RemoveMember(id)
       \/ InTree /\ CloseMember(id)
  \/ \E a \in Agent :
       \/ InTree /\ Reach(a)
       \/ InTree /\ StoreCancel(a)
       \/ InTree /\ TurnEnds(a)
       \/ InTree /\ CancelDoomed(a)
  \/ InTree /\ CreateTeam
  \/ InTree /\ CloseTeam

ConversationStep ==
  \/ \E by \in {"user", "system"}, size \in Sizes : InConversation /\ Queue(by, size)
  \/ InConversation /\ Prompt
  \/ InConversation /\ Drain
  \/ InConversation /\ TooLong
  \/ InConversation /\ Refuse
  \/ InConversation /\ Record
  \/ \E w \in {"turn", "manual"} : InConversation /\ Pass(w)
  \/ InConversation /\ SettleTurn
  \/ InConversation /\ Compact
  \/ InConversation /\ SettleManual
  \/ \E h \in Restored : InConversation /\ SetAgentHistory(h)

HarnessStep ==
  \/ InHarness /\ Enter
  \/ InHarness /\ Esc
  \/ InHarness /\ Focus
  \/ InHarness /\ CloseSub
  \/ InHarness /\ reconcileFocusedAgent
  \/ InHarness /\ ClearQueue
  \/ \E a \in Command : InHarness /\ SendInput(a)
  \/ InHarness /\ DeliverAppend
  \/ InHarness /\ NotifyWake
  \/ InHarness /\ DeliverSubmit
  \/ InHarness /\ TurnReady
  \/ InHarness /\ FinishTurn
  \/ \E r \in Report : InHarness /\ ReportDone(r)
  \/ InHarness /\ Abort
  \/ InHarness /\ FocusRoot
  \/ InHarness /\ HandleFocus
  \/ InHarness /\ HandleWakeup
  \/ InHarness /\ HandleAbort
  \/ InHarness /\ HandleDone

TranscriptStep ==
  \/ \E o \in Owner :
       \/ InTranscript /\ UserPrompt(o)
       \/ InTranscript /\ Token(o)
       \/ InTranscript /\ Rebuild(o)
       \/ InTranscript /\ TurnDone(o)
  \/ InTranscript /\ MessageEnd
  \/ InTranscript /\ ChatNotify
  \/ InTranscript /\ Patch
  \/ InTranscript /\ SendDirty
  \/ InTranscript /\ HandleDirty
  \/ InTranscript /\ Refresh
  \/ InTranscript /\ Resize
  \/ InTranscript /\ Clear

GuardStep ==
  \/ \E a \in Caller, call \in Signature :
       \/ InGuard /\ Allow(a, call)
       \/ InGuard /\ Deny(a, call)
  \/ InGuard /\ loadLoopGuard

LoopStep ==
  \/ InLoop /\ SteerSent
  \/ InLoop /\ TakeSteers
  \/ InLoop /\ Keep
  \/ InLoop /\ Fold
  \/ InLoop /\ StepDone
  \/ InLoop /\ StreamEnds
  \/ InLoop /\ Rejected
  \/ InLoop /\ Retry
  \/ InLoop /\ EndAtOnce

BreakerStep ==
  \/ \E c \in Call :
       \/ InBreaker /\ Run(c)
       \/ InBreaker /\ Expire(c)
       \/ InBreaker /\ EndTurn(c)
       \/ InBreaker /\ TakeResult(c)
       \/ InBreaker /\ Abandon(c)
       \/ InBreaker /\ ExecuteTool(c)
       \/ InBreaker /\ ExecuteNative(c)
       \/ InBreaker /\ Return(c)
  \/ \E k \in Key : InBreaker /\ CoolDown(k)

PartsNext == TreeStep \/ ConversationStep \/ HarnessStep \/ TranscriptStep \/ GuardStep
             \/ LoopStep \/ BreakerStep

PartsSpec ==
  PartsInit /\ [][PartsNext]_<<part, treeVars, convVars, harnessVars, transcriptVars,
                              guardVars, loopVars, vars>>

\* The type invariant of every part that has one; that of the tool calls is
\* checked with their extensions (MCCalls).
PartsTypeOK == TreeTypeOK /\ ConvTypeOK /\ HarnessTypeOK
               /\ TranscriptTypeOK /\ LoopGuardTypeOK
=============================================================================
