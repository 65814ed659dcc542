------------------------------- MODULE Harness -------------------------------
(***************************************************************************)
(* The terminal interface around the turns of the root agent               *)
(* (modules/harness/model.go): Enter, Esc, the streaming indicator, and    *)
(* the delivery of queued messages after a cancel.                         *)
(*                                                                         *)
(* Update handles one message of the program after the other.  Commands it *)
(* returns run on goroutines; turns report by a message that they send     *)
(* after the agent was released, so that a new turn may run by then.  Of a *)
(* turn there is its start, in which a cancel does not reach it, and its   *)
(* end; the rest is in AgentTurn.  Turns of the root have no timeout       *)
(* (cmd/main.go:149).                                                      *)
(***************************************************************************)
EXTENDS Integers, Sequences

CONSTANTS
  MaxInputs, \* bound: messages the user types
  MaxWakes,  \* bound: messages other agents deliver to the root
  MaxEsc     \* bound: times Esc is pressed, or an extension aborts the turn

ASSUME HarnessAssumption ==
  MaxInputs \in Nat /\ MaxWakes \in Nat /\ MaxEsc \in Nat

VARIABLES
  streaming,        \* Model.streaming
  cancelFlushQueue, \* Model.cancelFlushQueue
  focusedAgent,     \* "main" or "sub"
  subOpen,          \* the sub-agent is in the pool
  turn,             \* of the root: "idle", "starting" (isRunning is set, the
                    \* stored cancel function is that of an earlier turn),
                    \* "run" or "cancelled"
  inbox,            \* messages queued for the root
  waking,           \* Deliver: "none", "appended", "notified"
  sending,          \* commands of Update that have yet to run: sends to an
                    \* agent, and requests to focus the root
  reports,          \* reports of ended turns that have yet to be sent
  msgs,             \* messages to Update
  inputs, wakes, escs,
  subFed     \* history: since the last report, input went to the sub-agent

harnessVars == <<streaming, cancelFlushQueue, focusedAgent, subOpen, turn, inbox,
                 waking, sending, reports, msgs, inputs, wakes, escs, subFed>>
keyboard == <<streaming, cancelFlushQueue, focusedAgent, inputs, escs>>
bounds == <<inputs, wakes, escs>>

Report == {"ok", "cancelled", "failed"}
Command == {"main", "sub", "focus"}

HarnessInit ==
  /\ streaming = FALSE /\ cancelFlushQueue = FALSE
  /\ focusedAgent = "main" /\ subOpen = TRUE
  /\ turn = "idle" /\ inbox = 0 /\ waking = "none"
  /\ sending = [k \in Command |-> 0]
  /\ reports = [r \in Report |-> 0] /\ msgs = << >>
  /\ inputs = 0 /\ wakes = 0 /\ escs = 0 /\ subFed = FALSE

-----------------------------------------------------------------------------
(* The keyboard.                                                           *)

\* submitToAgent: the indicator goes on, whoever has the focus, and a command
\* sends to the agent that has it.
Enter ==
  /\ inputs < MaxInputs /\ inputs' = inputs + 1
  /\ streaming' = TRUE
  /\ sending' = [sending EXCEPT ![focusedAgent] = @ + 1]
  /\ UNCHANGED <<cancelFlushQueue, focusedAgent, subOpen, turn, inbox, waking,
                 reports, msgs, wakes, escs, subFed>>

mainTurnActive == streaming \/ turn # "idle"

\* cancelMainTurn calls the stored cancel function, which is that of the turn
\* when the turn has stored it.
cancelMainTurn == turn' = IF turn = "run" THEN "cancelled" ELSE turn

\* Esc has the window of a sub-agent closed, or cancels the turn of the root
\* and arms the flush of its queue.
Esc ==
  /\ escs < MaxEsc /\ escs' = escs + 1
  /\ IF focusedAgent # "main"
     THEN /\ sending' = [sending EXCEPT !["focus"] = @ + 1]
          /\ UNCHANGED <<cancelFlushQueue, turn>>
     ELSE IF mainTurnActive
     THEN /\ cancelFlushQueue' = TRUE
          /\ cancelMainTurn
          /\ UNCHANGED sending
     ELSE UNCHANGED <<cancelFlushQueue, turn, sending>>
  /\ UNCHANGED <<streaming, focusedAgent, subOpen, inbox, waking, reports, msgs,
                 inputs, wakes, subFed>>

\* A second Esc in the input, or an extension, has the turn aborted.
Abort ==
  /\ escs < MaxEsc /\ escs' = escs + 1
  /\ msgs' = Append(msgs, "abortStreamMsg")
  /\ UNCHANGED <<streaming, cancelFlushQueue, focusedAgent, subOpen, turn, inbox, waking,
                 sending, reports, inputs, wakes, subFed>>

\* The extension that was asked to focus the root does.
FocusRoot ==
  /\ sending["focus"] > 0
  /\ sending' = [sending EXCEPT !["focus"] = @ - 1]
  /\ msgs' = Append(msgs, "FocusAgentMsg")
  /\ UNCHANGED <<keyboard, subOpen, turn, inbox, waking, reports, wakes, subFed>>

\* The sub-agent gets the focus, is closed, and loses the focus at a tick.
Focus ==
  /\ focusedAgent = "main" /\ subOpen /\ focusedAgent' = "sub"
  /\ UNCHANGED <<streaming, cancelFlushQueue, subOpen, turn, inbox, waking, sending,
                 reports, msgs, bounds, subFed>>

CloseSub ==
  /\ subOpen /\ subOpen' = FALSE
  /\ UNCHANGED <<keyboard, turn, inbox, waking, sending, reports, msgs, wakes,
                 subFed>>

reconcileFocusedAgent ==
  /\ focusedAgent = "sub" /\ ~subOpen /\ focusedAgent' = "main"
  /\ UNCHANGED <<streaming, cancelFlushQueue, subOpen, turn, inbox, waking, sending,
                 reports, msgs, bounds, subFed>>

\* clearMainQueue.
ClearQueue ==
  /\ inbox > 0 /\ waking = "none" /\ inbox' = 0
  /\ UNCHANGED <<keyboard, subOpen, turn, waking, sending, reports, msgs, wakes,
                 subFed>>

-----------------------------------------------------------------------------
(* The root agent.                                                         *)

\* Submit on the root agent: a turn takes the queue, or what was typed is
\* queued behind it.
SubmitRoot(typed) ==
  IF turn = "idle" THEN turn' = "starting" /\ inbox' = 0
  ELSE inbox' = inbox + typed /\ UNCHANGED turn

\* The command sends; input for a closed agent goes to the root.
SendInput(target) ==
  /\ target # "focus" /\ sending[target] > 0
  /\ sending' = [sending EXCEPT ![target] = @ - 1]
  /\ IF target = "sub" /\ subOpen
     THEN subFed' = TRUE /\ UNCHANGED <<turn, inbox>>
     ELSE SubmitRoot(1) /\ UNCHANGED subFed
  /\ UNCHANGED <<keyboard, subOpen, waking, reports, msgs, wakes>>

\* Deliver: append, tell the interface, submit.
DeliverAppend ==
  /\ waking = "none" /\ wakes < MaxWakes /\ wakes' = wakes + 1
  /\ inbox' = inbox + 1 /\ waking' = "appended"
  /\ UNCHANGED <<keyboard, subOpen, turn, sending, reports, msgs, subFed>>

NotifyWake ==
  /\ waking = "appended" /\ waking' = "notified"
  /\ msgs' = Append(msgs, "agentWakeupMsg")
  /\ UNCHANGED <<keyboard, subOpen, turn, inbox, sending, reports, wakes, subFed>>

DeliverSubmit ==
  /\ waking = "notified" /\ waking' = "none"
  /\ SubmitRoot(0)
  /\ UNCHANGED <<keyboard, subOpen, sending, reports, msgs, wakes, subFed>>

\* The turn has a context of its own, and its cancel function is stored.
TurnReady ==
  /\ turn = "starting" /\ turn' = "run"
  /\ UNCHANGED <<keyboard, subOpen, inbox, waking, sending, reports, msgs, wakes, subFed>>

Release(report) ==
  /\ turn' = "idle"
  /\ reports' = [reports EXCEPT ![report] = @ + 1]

\* finishTurn: a turn that sees no cancel takes the queue into a follow-up
\* turn.  A cancelled turn keeps the queue; its error is the cancel, or none
\* when its stream had ended before; where it ended before the stream, the
\* cancel is not seen.
FinishTurn ==
  /\ turn \in {"run", "cancelled"}
  /\ IF turn = "run"
     THEN IF inbox > 0 THEN inbox' = 0 /\ turn' = "starting" /\ UNCHANGED reports
          ELSE (\E r \in {"ok", "failed"} : Release(r)) /\ UNCHANGED inbox
     ELSE \/ (\E r \in {"ok", "cancelled"} : Release(r)) /\ UNCHANGED inbox
          \/ IF inbox > 0 THEN inbox' = 0 /\ turn' = "starting" /\ UNCHANGED reports
             ELSE Release("cancelled") /\ UNCHANGED inbox
  /\ UNCHANGED <<keyboard, subOpen, waking, sending, msgs, wakes, subFed>>

\* onDone, after the release.
ReportDone(r) ==
  /\ reports[r] > 0
  /\ reports' = [reports EXCEPT ![r] = @ - 1]
  /\ msgs' = Append(msgs, r)
  /\ UNCHANGED <<keyboard, subOpen, turn, inbox, waking, sending, wakes, subFed>>

-----------------------------------------------------------------------------
(* Update.                                                                 *)

HandleFocus ==
  /\ msgs # << >> /\ Head(msgs) = "FocusAgentMsg" /\ msgs' = Tail(msgs)
  /\ focusedAgent' = "main"
  /\ UNCHANGED <<streaming, cancelFlushQueue, subOpen, turn, inbox, waking, sending,
                 reports, bounds, subFed>>

HandleWakeup ==
  /\ msgs # << >> /\ Head(msgs) = "agentWakeupMsg" /\ msgs' = Tail(msgs)
  /\ streaming' = TRUE
  /\ UNCHANGED <<cancelFlushQueue, focusedAgent, subOpen, turn, inbox, waking, sending,
                 reports, bounds, subFed>>

\* The flush is armed in whatever window the user is.
HandleAbort ==
  /\ msgs # << >> /\ Head(msgs) = "abortStreamMsg" /\ msgs' = Tail(msgs)
  /\ cancelFlushQueue' = (cancelFlushQueue \/ mainTurnActive)
  /\ cancelMainTurn
  /\ UNCHANGED <<streaming, focusedAgent, subOpen, inbox, waking, sending, reports,
                 bounds, subFed>>

\* Mutant: the indicator goes off after the flush.
HandleDoneLast ==
  /\ msgs # << >> /\ Head(msgs) \in Report /\ msgs' = Tail(msgs)
  /\ cancelFlushQueue' = FALSE /\ subFed' = FALSE
  /\ IF cancelFlushQueue /\ Head(msgs) = "cancelled" /\ inbox > 0
     THEN streaming' = FALSE /\ SubmitRoot(0)
     ELSE UNCHANGED <<streaming, turn, inbox>>
  /\ UNCHANGED <<focusedAgent, subOpen, waking, sending, reports, bounds>>

\* Mutant: the flush is disarmed when there is something to send.
HandleDoneArmed ==
  /\ msgs # << >> /\ Head(msgs) \in Report /\ msgs' = Tail(msgs)
  /\ subFed' = FALSE
  /\ IF cancelFlushQueue /\ Head(msgs) = "cancelled" /\ inbox > 0
     THEN cancelFlushQueue' = FALSE /\ streaming' = TRUE /\ SubmitRoot(0)
     ELSE streaming' = FALSE /\ UNCHANGED <<cancelFlushQueue, turn, inbox>>
  /\ UNCHANGED <<focusedAgent, subOpen, waking, sending, reports, bounds>>

\* StreamDoneMsg: the indicator goes off; when the user cancelled and the
\* report says so, the queue is sent.
HandleDone ==
  /\ msgs # << >> /\ Head(msgs) \in Report /\ msgs' = Tail(msgs)
  /\ cancelFlushQueue' = FALSE /\ subFed' = FALSE
  /\ IF cancelFlushQueue /\ Head(msgs) = "cancelled" /\ inbox > 0
     THEN streaming' = TRUE /\ SubmitRoot(0)
     ELSE streaming' = FALSE /\ UNCHANGED <<turn, inbox>>
  /\ UNCHANGED <<focusedAgent, subOpen, waking, sending, reports, bounds>>

HarnessNext ==
  \/ Enter \/ Esc \/ Focus \/ CloseSub \/ reconcileFocusedAgent \/ ClearQueue
  \/ \E a \in Command : SendInput(a)
  \/ DeliverAppend \/ NotifyWake \/ DeliverSubmit \/ TurnReady \/ FinishTurn
  \/ \E r \in Report : ReportDone(r)
  \/ Abort \/ FocusRoot \/ HandleFocus \/ HandleWakeup \/ HandleAbort \/ HandleDone

HarnessSpec == HarnessInit /\ [][HarnessNext]_harnessVars

-----------------------------------------------------------------------------
(* Properties.                                                             *)

\* Nothing is under way.
AtRest ==
  /\ turn = "idle" /\ waking = "none" /\ msgs = << >>
  /\ sending = [k \in Command |-> 0] /\ reports = [r \in Report |-> 0]

HarnessTypeOK ==
  /\ streaming \in BOOLEAN /\ cancelFlushQueue \in BOOLEAN
  /\ focusedAgent \in {"main", "sub"} /\ subOpen \in BOOLEAN
  /\ turn \in {"idle", "starting", "run", "cancelled"}
  /\ inbox \in 0 .. MaxInputs + MaxWakes
  /\ waking \in {"none", "appended", "notified"}
  /\ sending \in [Command -> 0 .. MaxInputs + MaxEsc] /\ reports \in [Report -> Nat]
  /\ msgs \in Seq(Report \cup {"agentWakeupMsg", "FocusAgentMsg", "abortStreamMsg"})
  /\ inputs \in 0 .. MaxInputs /\ wakes \in 0 .. MaxWakes /\ escs \in 0 .. MaxEsc

\* The indicator does not stay on: when nothing is under way it is off, in
\* whatever order wakes, reports and flushes were handled, unless input went to
\* a sub-agent, whose turns send no report to the interface.
IndicatorGoesOff == AtRest /\ streaming => subFed

\* "Only a user-initiated cancel arms this": an armed flush is disarmed by a
\* report.  When nothing is under way it is not armed, so that a later cancel
\* that is not the user's starts nothing, in whatever order cancels, reports
\* and wakes were handled; input for a sub-agent, which keeps the indicator on
\* and has Esc arm the flush with no turn, is exempt.
FlushIsSpent == AtRest /\ cancelFlushQueue => subFed

\* Claim of the code: "With no sub-agent window open, esc during an active
\* main-agent turn cancels it".
EscCancels ==
  [][Esc /\ focusedAgent = "main" /\ turn # "idle" => turn' = "cancelled"]_harnessVars

\* Claim of the code: after a cancel the queue is delivered "as a fresh turn
\* instead of being stranded": when nothing is under way, nothing is queued.
CancelDelivers == AtRest => inbox = 0

=============================================================================
