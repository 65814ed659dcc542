------------------------------ MODULE ToolCalls ------------------------------
(***************************************************************************)
(* Tool calls of the agents of one process: the adapter that bounds a call *)
(* by a watchdog and a circuit breaker (modules/tools/adapter.go), and the *)
(* extension host that sends it through the interceptors to the extension  *)
(* or native function behind the tool (modules/extension/host.go).         *)
(*                                                                         *)
(* A call is two goroutines: the agent's, inside Run, and the one Run      *)
(* starts for ExecuteTool, which Run abandons when the watchdog fires.     *)
(* Extensions are entered one at a time (callMu), and a call inside one    *)
(* cannot be interrupted.                                                  *)
(***************************************************************************)
EXTENDS Integers, Sequences, FiniteSets

CONSTANTS
  Call,         \* calls the models make, each of them once
  CallId,       \* tool call IDs, chosen by the providers
  IdOf,         \* the ID of each call
  Key,          \* what the breaker tells apart: agent, tool and raw input
  KeyOf,        \* the key of each call
  Tool, ToolOf, \* tools of an agent, and the one each key calls
  Ext,          \* loaded extensions
  Before,       \* subscribers of before_tool_call in the order of dispatch
  After,        \* subscribers of after_tool_call in the order of dispatch
  Behind,       \* what may be behind a tool: an extension or Native
  Native,       \* a Go function registered by RegisterNativeTool
  Blockers,     \* extensions that may block a call or its result
  NoCall,       \* nobody
  Threshold,    \* BreakerThreshold
  InOrder,      \* bound: a call is made when these are answered
  Cancellable   \* bound: calls whose turn may end while they run

ASSUME CallAssumption ==
  /\ IdOf \in [Call -> CallId] /\ KeyOf \in [Call -> Key]
  /\ ToolOf \in [Key -> Tool]
  /\ Behind \subseteq Ext \cup {Native} /\ Native \notin Ext
  /\ InOrder \in [Call -> SUBSET Call] /\ Cancellable \subseteq Call
ASSUME ChainAssumption ==
  /\ Before \in Seq(Ext) /\ After \in Seq(Ext) /\ Blockers \subseteq Ext
ASSUME ThresholdAssumption == Threshold \in Nat \ {0} /\ NoCall \notin Call

VARIABLES
  implementer, \* what is behind each tool, settled when it was registered
  run,       \* Run: "idle", "waiting", or what it answered the model
  phase,     \* ExecuteTool: how far it is
  idx,       \* ExecuteTool: position in the chain
  ctx,       \* execCtx: "live", "late" (the watchdog fired), "ended" (the turn
             \* was cancelled) or "done" (Run has returned)
  pending,   \* pendingTools: the call whose channel an ID has
  chan,      \* results in the channel of a call, which holds one
  callMu,    \* the call inside each extension
  ran,       \* calls whose tool has been executed
  fails,     \* breaker: consecutive timeouts of a key
  cooled,    \* breaker: BreakerCooldown has passed since the last one
  past       \* history: calls in the order Run let them through and answered
             \* them, each with what it did

adapter == <<implementer, run, ctx, past>>
breaker == <<fails, cooled>>
host    == <<phase, idx, pending, chan, callMu, ran>>
vars    == <<adapter, breaker, host>>

Answers == {"fast", "timeout", "cancelled", "failed", "blocked", "result"}

Init ==
  /\ implementer \in [Tool -> Behind]
  /\ run = [c \in Call |-> "idle"] /\ ctx = [c \in Call |-> "live"]
  /\ phase = [c \in Call |-> "none"] /\ idx = [c \in Call |-> 1]
  /\ pending = [i \in CallId |-> NoCall] /\ chan = [c \in Call |-> 0]
  /\ callMu = [e \in Ext |-> NoCall] /\ ran = {}
  /\ fails = [k \in Key |-> 0] /\ cooled = [k \in Key |-> FALSE]
  /\ past = << >>

-----------------------------------------------------------------------------
(* The adapter.                                                            *)

\* The breaker is open for a key.
tripped(k) == fails[k] >= Threshold /\ ~cooled[k]

\* Mutant: the count is taken one too low.
halfOpenByTwo(n) == IF n >= Threshold THEN Threshold - 2 ELSE n

\* What tripped leaves of a count when it lets the call through.
halfOpen(n) == IF n >= Threshold THEN Threshold - 1 ELSE n

\* What Run did with a call, in the order of events.
Note(c, what) == past' = Append(past, <<c, what>>)

\* Run fails the call fast, or starts ExecuteTool; a breaker whose cooldown
\* has passed half-opens.
Run(c) ==
  LET k == KeyOf[c]
  IN /\ run[c] = "idle" /\ \A d \in InOrder[c] : run[d] \in Answers
     /\ IF tripped(k)
        THEN /\ run' = [run EXCEPT ![c] = "fast"] /\ Note(c, "fast")
             /\ UNCHANGED <<phase, fails>>
        ELSE /\ run' = [run EXCEPT ![c] = "waiting"] /\ Note(c, "started")
             /\ phase' = [phase EXCEPT ![c] = "enter"]
             /\ fails' = [fails EXCEPT ![k] = halfOpen(@)]
     /\ UNCHANGED <<implementer, ctx, cooled, idx, pending, chan, callMu, ran>>

\* The watchdog fires.
Expire(c) ==
  /\ run[c] = "waiting" /\ ctx[c] = "live"
  /\ ctx' = [ctx EXCEPT ![c] = "late"]
  /\ UNCHANGED <<implementer, run, past, breaker, host>>

\* The turn of the call is cancelled.
EndTurn(c) ==
  /\ c \in Cancellable /\ run[c] = "waiting" /\ ctx[c] # "ended"
  /\ ctx' = [ctx EXCEPT ![c] = "ended"]
  /\ UNCHANGED <<implementer, run, past, breaker, host>>

\* The cooldown of a key passes (bound: when a call will ask).
CoolDown(k) ==
  /\ fails[k] > 0 /\ ~cooled[k] /\ \E c \in Call : KeyOf[c] = k /\ run[c] = "idle"
  /\ cooled' = [cooled EXCEPT ![k] = TRUE]
  /\ UNCHANGED <<fails, adapter, host>>

recordTimeout(k) ==
  /\ fails' = [fails EXCEPT ![k] = @ + 1]
  /\ cooled' = [cooled EXCEPT ![k] = FALSE]

SameTool(k) == {l \in Key : ToolOf[l] = ToolOf[k]}

recordSuccess(k) ==
  /\ fails' = [l \in Key |-> IF l \in SameTool(k) THEN 0 ELSE fails[l]]
  /\ cooled' = [l \in Key |-> IF l \in SameTool(k) THEN FALSE ELSE cooled[l]]

\* Run receives what ExecuteTool returned, though the context may be done
\* too.  An error counts neither way; a blocked call counts as a success.
TakeResult(c) ==
  /\ run[c] = "waiting" /\ phase[c] \in {"failed", "blocked", "result"}
  /\ run' = [run EXCEPT ![c] = phase[c]] /\ Note(c, phase[c])
  /\ ctx' = [ctx EXCEPT ![c] = "done"]
  /\ IF phase[c] = "failed" THEN UNCHANGED breaker ELSE recordSuccess(KeyOf[c])
  /\ UNCHANGED <<implementer, host>>

\* Mutant: Run waits for ExecuteTool however long it takes.
AbandonNever(c) == run[c] = "lost" /\ UNCHANGED vars

\* Run sees its context done and abandons ExecuteTool.
Abandon(c) ==
  /\ run[c] = "waiting" /\ ctx[c] # "live"
  /\ ctx' = [ctx EXCEPT ![c] = "done"]
  /\ IF ctx[c] = "ended"
     THEN /\ run' = [run EXCEPT ![c] = "cancelled"] /\ Note(c, "cancelled")
          /\ UNCHANGED breaker
     ELSE /\ run' = [run EXCEPT ![c] = "timeout"] /\ Note(c, "timeout")
          /\ recordTimeout(KeyOf[c])
  /\ UNCHANGED <<implementer, host>>

-----------------------------------------------------------------------------
(* The host.                                                               *)

ImplementerOf(c) == implementer[ToolOf[KeyOf[c]]]
IsNative(c) == ImplementerOf(c) = Native

Chain(c) == IF phase[c] = "before" THEN Before ELSE After
InChain(c) == phase[c] \in {"before", "after"} /\ idx[c] <= Len(Chain(c))
PastChain(c) == idx[c] > Len(Chain(c))
At(c) == Chain(c)[idx[c]]          \* the extension whose turn it is
Inside(c) == InChain(c) /\ callMu[At(c)] = c

\* Mutant: the entry stays in pendingTools.
sendAndKeep(id) ==
  /\ chan' = [c \in Call |-> IF pending[id] = c THEN chan[c] + 1 ELSE chan[c]]
  /\ UNCHANGED pending

\* handleToolResult and SendToolResult: the result goes to the channel the ID
\* has, if any, whose entry is removed.
send(id) ==
  /\ chan' = [c \in Call |-> IF pending[id] = c THEN chan[c] + 1 ELSE chan[c]]
  /\ pending' = [pending EXCEPT ![id] = NoCall]

\* ExecuteTool starts; an entry is made for every tool that is not native.
ExecuteTool(c) ==
  /\ phase[c] = "enter"
  /\ phase' = [phase EXCEPT ![c] = "before"]
  /\ pending' = IF IsNative(c) THEN pending ELSE [pending EXCEPT ![IdOf[c]] = c]
  /\ UNCHANGED <<idx, chan, callMu, ran, adapter, breaker>>

\* dispatchToExtension takes callMu.
EnterExtension(c) ==
  /\ InChain(c) /\ callMu[At(c)] = NoCall
  /\ callMu' = [callMu EXCEPT ![At(c)] = c]
  /\ UNCHANGED <<phase, idx, pending, chan, ran, adapter, breaker>>

\* The extension behind the tool executes it and calls tool_result.
Implement(c) ==
  /\ phase[c] = "before" /\ Inside(c) /\ At(c) = ImplementerOf(c) /\ c \notin ran
  /\ ran' = ran \cup {c}
  /\ send(IdOf[c])
  /\ UNCHANGED <<phase, idx, callMu, adapter, breaker>>

\* Its response changes the payload or nothing, or it trapped.
LeaveExtension(c) ==
  /\ Inside(c)
  /\ callMu' = [callMu EXCEPT ![At(c)] = NoCall]
  /\ idx' = [idx EXCEPT ![c] = @ + 1]
  /\ UNCHANGED <<phase, pending, chan, ran, adapter, breaker>>

\* It blocks the call, with or without a tool_result of its own; blocked after
\* the call, the result becomes the reason.
Block(c) ==
  /\ Inside(c) /\ At(c) \in Blockers
  /\ callMu' = [callMu EXCEPT ![At(c)] = NoCall]
  /\ IF phase[c] = "before"
     THEN /\ phase' = [phase EXCEPT ![c] = "blocked"]
          /\ \/ UNCHANGED chan
             \/ \E d \in Call :
                  pending[IdOf[c]] = d /\ chan' = [chan EXCEPT ![d] = @ + 1]
          /\ pending' = IF IsNative(c) /\ chan' = chan THEN pending
                        ELSE [pending EXCEPT ![IdOf[c]] = NoCall]
     ELSE phase' = [phase EXCEPT ![c] = "result"] /\ UNCHANGED <<chan, pending>>
  /\ idx' = [idx EXCEPT ![c] = 1]
  /\ UNCHANGED <<ran, adapter, breaker>>

\* Mutant: the function runs although the chain has not ended.
ExecuteNativeEarly(c) ==
  /\ phase[c] = "before" /\ IsNative(c) /\ c \notin ran /\ ~Inside(c)
  /\ ran' = ran \cup {c}
  /\ IF PastChain(c)
     THEN phase' = [phase EXCEPT ![c] = "after"] /\ idx' = [idx EXCEPT ![c] = 1]
     ELSE UNCHANGED <<phase, idx>>
  /\ UNCHANGED <<pending, chan, callMu, adapter, breaker>>

\* A native function runs when the chain let the call through.
ExecuteNative(c) ==
  /\ phase[c] = "before" /\ PastChain(c) /\ IsNative(c)
  /\ ran' = ran \cup {c}
  /\ phase' = [phase EXCEPT ![c] = "after"]
  /\ idx' = [idx EXCEPT ![c] = 1]
  /\ UNCHANGED <<pending, chan, callMu, adapter, breaker>>

\* The call is through the chain and waits for its result.
Await(c) ==
  /\ phase[c] = "before" /\ PastChain(c) /\ ~IsNative(c)
  /\ phase' = [phase EXCEPT ![c] = "await"]
  /\ idx' = [idx EXCEPT ![c] = 1]
  /\ UNCHANGED <<pending, chan, callMu, ran, adapter, breaker>>

ReceiveResult(c) ==
  /\ phase[c] = "await" /\ chan[c] > 0
  /\ chan' = [chan EXCEPT ![c] = @ - 1]
  /\ phase' = [phase EXCEPT ![c] = "after"]
  /\ UNCHANGED <<idx, pending, callMu, ran, adapter, breaker>>

\* Mutant: only the result is waited for.
GiveUpNever(c) == phase[c] = "lost" /\ UNCHANGED vars

\* The context is done; the entry of the ID is removed, whoever has it.
GiveUp(c) ==
  /\ phase[c] = "await" /\ ctx[c] # "live"
  /\ pending' = [pending EXCEPT ![IdOf[c]] = NoCall]
  /\ phase' = [phase EXCEPT ![c] = "failed"]
  /\ UNCHANGED <<idx, chan, callMu, ran, adapter, breaker>>

Return(c) ==
  /\ phase[c] = "after" /\ PastChain(c)
  /\ phase' = [phase EXCEPT ![c] = "result"]
  /\ idx' = [idx EXCEPT ![c] = 1]
  /\ UNCHANGED <<pending, chan, callMu, ran, adapter, breaker>>

-----------------------------------------------------------------------------
Next ==
  \/ \E c \in Call :
       \/ Run(c) \/ Expire(c) \/ EndTurn(c) \/ TakeResult(c) \/ Abandon(c)
       \/ ExecuteTool(c) \/ EnterExtension(c) \/ Implement(c)
       \/ LeaveExtension(c) \/ Block(c) \/ ExecuteNative(c)
       \/ Await(c) \/ ReceiveResult(c) \/ GiveUp(c) \/ Return(c)
  \/ \E k \in Key : CoolDown(k)

\* Timers fire, and a select of a goroutine takes a case when one is ready.
\* Extensions and native functions promise nothing: they may keep a call for
\* ever.
Fairness ==
  \A c \in Call :
    /\ WF_vars(Expire(c)) /\ WF_vars(TakeResult(c) \/ Abandon(c))
    /\ WF_vars(ReceiveResult(c) \/ GiveUp(c))

Spec == Init /\ [][Next]_vars /\ Fairness

-----------------------------------------------------------------------------
(* Properties.                                                             *)

\* The history holds what Run did with calls.
PastOK == past \in Seq(Call \X (Answers \cup {"started"}))

\* The type invariant; the channel of a call never gets a second result, so
\* the extension that sends one never waits inside its call.
TypeOK ==
  /\ implementer \in [Tool -> Behind]
  /\ run \in [Call -> {"idle", "waiting"} \cup Answers]
  /\ phase \in [Call -> {"none", "enter", "before", "await", "after",
                         "failed", "blocked", "result"}]
  /\ idx \in [Call -> Nat \ {0}]
  /\ ctx \in [Call -> {"live", "late", "ended", "done"}] /\ ran \subseteq Call
  /\ pending \in [CallId -> Call \cup {NoCall}]
  /\ chan \in [Call -> {0, 1}]
  /\ callMu \in [Ext -> Call \cup {NoCall}]
  /\ fails \in [Key -> Nat] /\ cooled \in [Key -> BOOLEAN]
  /\ PastOK

\* What happened to the calls of a key, read off the order of events alone.
KeyAt(n) == KeyOf[past[n][1]]
TimedOutAt(k, n) == KeyAt(n) = k /\ past[n][2] = "timeout"
SucceededAt(k, n) ==
  KeyAt(n) \in SameTool(k) /\ past[n][2] \in {"blocked", "result"}

\* Timeouts of a key since its tool last succeeded, with any arguments.
InARow(k) ==
  Cardinality({n \in DOMAIN past : TimedOutAt(k, n)
                 /\ \A m \in DOMAIN past : m > n => ~SucceededAt(k, m)})

\* Calls of a key that were let through since its last timeout.
Attempts(k) ==
  {n \in DOMAIN past : KeyAt(n) = k /\ past[n][2] = "started"
     /\ \A m \in DOMAIN past : m > n => ~TimedOutAt(k, m)}

\* "After BreakerThreshold consecutive timeouts of the identical call, the
\* breaker opens ... Distinct arguments are never blocked by another call's
\* open breaker ... half-opens after BreakerCooldown ... a fresh timeout
\* re-trips it": a call is failed fast exactly when, by the answers the models
\* got, its key has timed out that often since the tool last succeeded and the
\* last timeout is recent, whatever calls of the tool were under way when the
\* breaker tripped, half-opened or was cleared.
BreakerExact ==
  [][\A c \in Call : run[c] = "idle" /\ run'[c] # "idle" =>
       (run'[c] = "fast" <=>
          InARow(KeyOf[c]) >= Threshold /\ ~cooled[KeyOf[c]])]_vars

\* "Clean up the pending entry": pendingTools holds entries only of calls
\* that still wait for a result, so none outlives its call and none names a
\* channel nobody reads, even when providers reuse IDs.
NoPendingLeak ==
  \A i \in CallId : pending[i] # NoCall => phase[pending[i]] \in {"before", "await"}

\* "A block short-circuits before the implementer runs" (host.go:2174): a tool
\* whose call an interceptor blocked has not been executed.  It depends on the
\* order of the chain, and does not hold for tools of built-in extensions,
\* which have priority 0 (see the README).
BlockedNeverRuns == \A c \in Call : phase[c] = "blocked" => c \notin ran

\* "A tool call cannot hang a turn": with every extension free to keep a call
\* inside it for ever, and to block every other call that has to enter it,
\* Run answers each call.
CallAnswered == \A c \in Call : run[c] = "waiting" ~> run[c] \in Answers

\* ExecuteTool does not wait for ever for a result that nobody sends.
AwaitEnds == \A c \in Call : phase[c] = "await" ~> phase[c] # "await"

-----------------------------------------------------------------------------
(* A claim of the sources that the code does not keep (see the README).    *)

\* "Half-open: allow one attempt through; the next timeout re-trips it": of a
\* key that has timed out Threshold times in a row, one call at most is let
\* through until it times out again or the tool succeeds.
OneAttempt ==
  \A k \in Key : InARow(k) >= Threshold => Cardinality(Attempts(k)) <= 1

=============================================================================
