----------------------------- MODULE AgentTurn -----------------------------
(***************************************************************************)
(* The turn engine of one agent (modules/agent/agent.go): the inbox that   *)
(* any goroutine may append to, Submit, which drains it and claims the     *)
(* agent with a compare-and-swap of isRunning, the turn goroutine Submit   *)
(* launches, and finishTurn, which drains again and either hands the agent *)
(* to a follow-up turn, shuts it down, or releases it.                     *)
(*                                                                         *)
(* The drain, the compare-and-swap and the re-queueing of a losing Submit  *)
(* are separate steps, as they are in the code: no lock spans them.        *)
(*                                                                         *)
(* Messages are identities.  Every container is a set: the order inside    *)
(* the inbox is the subject of module Mailbox, and nothing here depends on *)
(* it (re-queueing takes the messages of a batch in an arbitrary order).   *)
(***************************************************************************)
EXTENDS Naturals, FiniteSets

CONSTANTS
  Msg,       \* messages and prompts the environment may send, each once
  Kind,      \* the type of a message, see Kinds
  Caller,    \* goroutines outside the engine that call into the agent
  Worker,    \* turn goroutines alive at the same time: the bound on them
  NoWorker,  \* "no turn has installed its cancel function yet"
  Env,       \* the operations the environment performs in an instance
  IsRoot     \* TRUE for the main agent, which pool.Close refuses to remove


\* Definitions marked "Mutant" are faulty variants of the definition that
\* follows them; no specification uses them.  See the README.

\* "normal" stands for the model-visible types (normal, protocol), "control"
\* for the system and steering messages Go consumes itself, other than a
\* shutdown_request.
Kinds == {"normal", "steer", "control", "shutdown"}

EnvOps == {"deliver", "queue", "prompt", "cancel", "timeout", "clear",
           "delete", "close", "panic"}

ASSUME KindAssumption   == Kind \in [Msg -> Kinds]
ASSUME ProcAssumption   == Caller \cap Worker = {} /\ NoWorker \notin Worker
ASSUME EnvAssumption    == Env \subseteq EnvOps
ASSUME IsRootAssumption == IsRoot \in BOOLEAN

Proc == Caller \cup Worker

VARIABLES
  inbox,      \* mailbox.msgs
  running,    \* Agent.isRunning
  pendingShutdown,   \* Agent.pendingShutdownFrom is set
  shutdownRequested, \* Agent.shutdownRequested
  cancelFn,   \* the turn whose context Agent.cancel cancels
  closed,     \* the pool no longer holds the agent
  pc,         \* where each goroutine is
  hold,       \* per goroutine: messages it still has to AppendInbox
  wake,       \* per goroutine: a Submit("") follows those appends
  got,        \* per goroutine: what the DrainInbox of its Submit returned
  content,    \* per goroutine: content of its Submit, {} for ""
  batch,      \* per turn: the inbox messages it consumed (inboxMsgs)
  prompt,     \* per turn: its explicit content, {} for ""
  steered,    \* per turn: messages the steer injector delivered to it
  failed,     \* per turn: err # nil at finishTurn
  cancelled,  \* per turn: childCtx is cancelled
  ctxErr,     \* per turn: the ctxErr argument of finishTurn is not nil
  stopping,   \* per turn: finishTurn found shutdownFrom # ""
  recovered,  \* per turn: its goroutine runs its deferred recovery
  busy,       \* what onTurnStart and onDone last told the host
  sent,       \* messages handed to the agent so far
  done,       \* messages a turn consumed and finished with
  dropped,    \* messages cleared or deleted while queued
  farewells   \* AGENT_SHUTDOWN messages the agent has sent

inboxVars == <<inbox, sent, dropped>>
stopVars  == <<pendingShutdown, shutdownRequested, closed, farewells>>
procVars  == <<hold, wake, got, content>>
turnVars  == <<batch, prompt, steered, failed, cancelled, ctxErr, stopping,
               recovered>>
vars == <<inboxVars, stopVars, procVars, turnVars, running, cancelFn, pc,
          busy, done>>

CallerPC == {"idle", "append", "check", "drain", "cas", "launch", "cancel"}
TurnPC   == {"start", "stream", "finish", "giveback", "notify", "farewell",
             "leave", "release"}

Init ==
  /\ inbox = {} /\ sent = {} /\ dropped = {} /\ done = {}
  /\ running = FALSE /\ busy = FALSE /\ closed = FALSE
  /\ pendingShutdown = FALSE /\ shutdownRequested = FALSE
  /\ farewells = 0
  /\ cancelFn = NoWorker
  /\ pc = [p \in Proc |-> "idle"]
  /\ hold = [p \in Proc |-> {}]
  /\ wake = [p \in Proc |-> FALSE]
  /\ got = [p \in Proc |-> {}]
  /\ content = [p \in Proc |-> {}]
  /\ batch = [w \in Worker |-> {}]
  /\ prompt = [w \in Worker |-> {}]
  /\ steered = [w \in Worker |-> {}]
  /\ failed = [w \in Worker |-> FALSE]
  /\ cancelled = [w \in Worker |-> FALSE]
  /\ ctxErr = [w \in Worker |-> FALSE]
  /\ stopping = [w \in Worker |-> FALSE]
  /\ recovered = [w \in Worker |-> FALSE]

Goto(p, l) == pc' = [pc EXCEPT ![p] = l]

-----------------------------------------------------------------------------
(* What callers start.                                                     *)

\* pool.Deliver (wk) and pool.SendMessage (~wk): look the agent up, then
\* AppendInbox and, with wake, Submit(""), in the steps below.
Deliver(c, m, wk) ==
  /\ (IF wk THEN "deliver" ELSE "queue") \in Env
  /\ pc[c] = "idle" /\ ~closed
  /\ m \in Msg \ sent
  /\ sent' = sent \cup {m}
  /\ hold' = [hold EXCEPT ![c] = {m}]
  /\ wake' = [wake EXCEPT ![c] = wk]
  /\ Goto(c, "append")
  /\ UNCHANGED <<inbox, dropped, stopVars, got, content, turnVars, running,
                 cancelFn, busy, done>>

\* Submit(ctx, content) with a user prompt.
Prompt(c, m) ==
  /\ "prompt" \in Env
  /\ pc[c] = "idle" /\ ~closed
  /\ m \in Msg \ sent /\ Kind[m] = "normal"
  /\ sent' = sent \cup {m}
  /\ content' = [content EXCEPT ![c] = {m}]
  /\ Goto(c, "drain")
  /\ UNCHANGED <<inbox, dropped, stopVars, hold, wake, got, turnVars,
                 running, cancelFn, busy, done>>

\* ClearInbox: not gated on isRunning.
Clear(c) ==
  /\ "clear" \in Env
  /\ pc[c] = "idle" /\ inbox # {}
  /\ dropped' = dropped \cup inbox
  /\ inbox' = {}
  /\ UNCHANGED <<sent, stopVars, procVars, turnVars, running, cancelFn, pc,
                 busy, done>>

\* DeleteFromInbox by message ID: not gated on isRunning either.
Delete(c, m) ==
  /\ "delete" \in Env
  /\ pc[c] = "idle" /\ m \in inbox
  /\ dropped' = dropped \cup {m}
  /\ inbox' = inbox \ {m}
  /\ UNCHANGED <<sent, stopVars, procVars, turnVars, running, cancelFn, pc,
                 busy, done>>

\* pool.Close from outside: the agent leaves the map under the pool lock, its
\* turn is cancelled after the lock is released.
Close(c) ==
  /\ "close" \in Env /\ ~IsRoot
  /\ pc[c] = "idle" /\ ~closed
  /\ closed' = TRUE
  /\ Goto(c, "cancel")
  /\ UNCHANGED <<inboxVars, pendingShutdown, shutdownRequested, farewells,
                 procVars, turnVars, running, cancelFn, busy, done>>

\* A turn's context outlives nothing: cancelling one that has ended, or whose
\* finishTurn already read its error, changes nothing.
Cancellable(w) == pc[w] \in {"start", "stream"}

\* Agent.Cancel calls the cancel function stored last, whichever turn it
\* belongs to.
CancelStored ==
  cancelled' = [w \in Worker |->
                  cancelled[w] \/ (w = cancelFn /\ Cancellable(w))]

Cancel(c) ==
  /\ \/ "cancel" \in Env /\ pc[c] = "idle" /\ cancelFn \in Worker
        /\ Cancellable(cancelFn) /\ ~cancelled[cancelFn] /\ UNCHANGED pc
     \/ pc[c] = "cancel" /\ Goto(c, "idle")
  /\ CancelStored
  /\ UNCHANGED <<inboxVars, stopVars, procVars, batch, prompt, steered,
                 failed, ctxErr, stopping, recovered, running, cancelFn, busy,
                 done>>

\* The turn's own deadline (TurnTimeout) or the cancellation of the context
\* Submit was given.
Expire(w) ==
  /\ "timeout" \in Env
  /\ Cancellable(w) /\ ~cancelled[w]
  /\ cancelled' = [cancelled EXCEPT ![w] = TRUE]
  /\ UNCHANGED <<inboxVars, stopVars, procVars, batch, prompt, steered,
                 failed, ctxErr, stopping, recovered, running, cancelFn, pc,
                 busy, done>>

-----------------------------------------------------------------------------
(* AppendInbox and Submit, run by a caller or by a turn that hands off.    *)

\* AppendInbox of one message: mailbox.append, then the shutdown check.
Append(p) ==
  /\ pc[p] = "append"
  /\ \E m \in hold[p] :
       /\ inbox' = inbox \cup {m}
       /\ hold' = [hold EXCEPT ![p] = @ \ {m}]
       /\ Goto(p, IF Kind[m] = "shutdown" THEN "check" ELSE "append")
  /\ UNCHANGED <<sent, dropped, stopVars, wake, got, content, turnVars,
                 running, cancelFn, busy, done>>

\* A shutdown_request marks the agent and, if the agent looks idle, Submits.
CheckIdle(p) ==
  /\ pc[p] = "check"
  /\ shutdownRequested' = TRUE
  /\ Goto(p, IF running THEN "append" ELSE "drain")
  /\ UNCHANGED <<inboxVars, pendingShutdown, closed, farewells, procVars,
                 turnVars, running, cancelFn, busy, done>>

\* Everything appended: Submit("") if a wake is owed, otherwise return.
Appended(p) ==
  /\ pc[p] = "append" /\ hold[p] = {}
  /\ wake' = [wake EXCEPT ![p] = FALSE]
  /\ Goto(p, IF wake[p] THEN "drain" ELSE "idle")
  /\ UNCHANGED <<inboxVars, stopVars, hold, got, content, turnVars, running,
                 cancelFn, busy, done>>

\* Submit drains the inbox before it knows whether it can run a turn.
Drain(p) ==
  /\ pc[p] = "drain"
  /\ got' = [got EXCEPT ![p] = inbox]
  /\ inbox' = {}
  /\ Goto(p, "cas")
  /\ UNCHANGED <<sent, dropped, stopVars, hold, wake, content, turnVars,
                 running, cancelFn, busy, done>>

\* Mutant: the flag is stored without comparing it.
ClaimWithoutCompare(p) ==
  /\ pc[p] = "cas"
  /\ running' = TRUE
  /\ Goto(p, "launch")
  /\ UNCHANGED <<inboxVars, stopVars, procVars, turnVars, cancelFn, busy,
                 done>>

\* The compare-and-swap wins: this goroutine owns the agent.
Claim(p) ==
  /\ pc[p] = "cas" /\ ~running
  /\ running' = TRUE
  /\ Goto(p, "launch")
  /\ UNCHANGED <<inboxVars, stopVars, procVars, turnVars, cancelFn, busy,
                 done>>

\* The compare-and-swap fails: the drained messages and the content go back
\* through AppendInbox, before whatever an outer Submit still had to re-queue.
Requeue(p) ==
  /\ pc[p] = "cas" /\ running
  /\ hold' = [hold EXCEPT ![p] = @ \cup got[p] \cup content[p]]
  /\ got' = [got EXCEPT ![p] = {}]
  /\ content' = [content EXCEPT ![p] = {}]
  /\ Goto(p, "append")
  /\ UNCHANGED <<inboxVars, stopVars, wake, turnVars, running, cancelFn,
                 busy, done>>

\* Mutant: the cancel function stored is not the new turn's.
LaunchStoresCaller(p, w) ==
  /\ pc[p] = "launch"
  /\ w \in Worker /\ pc[w] = "idle"
  /\ pc' = [pc EXCEPT ![p] = "append", ![w] = "start"]
  /\ cancelFn' = p
  /\ batch' = [batch EXCEPT ![w] = got[p]]
  /\ prompt' = [prompt EXCEPT ![w] = content[p]]
  /\ got' = [got EXCEPT ![p] = {}]
  /\ content' = [content EXCEPT ![p] = {}]
  /\ busy' = TRUE
  /\ recovered' = [recovered EXCEPT ![w] = FALSE]
  /\ UNCHANGED <<inboxVars, stopVars, hold, wake, steered, failed, cancelled,
                 ctxErr, stopping, running, done>>

\* Submit stores the new turn's cancel function, announces the turn and
\* starts its goroutine, then returns to whoever called it.
Launch(p, w) ==
  /\ pc[p] = "launch"
  /\ w \in Worker /\ pc[w] = "idle"
  /\ pc' = [pc EXCEPT ![p] = "append", ![w] = "start"]
  /\ cancelFn' = w
  /\ batch' = [batch EXCEPT ![w] = got[p]]
  /\ prompt' = [prompt EXCEPT ![w] = content[p]]
  /\ got' = [got EXCEPT ![p] = {}]
  /\ content' = [content EXCEPT ![p] = {}]
  /\ busy' = TRUE
  /\ recovered' = [recovered EXCEPT ![w] = FALSE]
  /\ UNCHANGED <<inboxVars, stopVars, hold, wake, steered, failed, cancelled,
                 ctxErr, stopping, running, done>>

-----------------------------------------------------------------------------
(* The turn goroutine: executeTurn, then finishTurn.                       *)

\* Every call of finishTurn: err and ctxErr are its arguments.
EnterFinish(w, err, cerr) ==
  /\ failed' = [failed EXCEPT ![w] = err]
  /\ ctxErr' = [ctxErr EXCEPT ![w] = cerr]
  /\ Goto(w, "finish")
  /\ UNCHANGED <<inboxVars, stopVars, procVars, batch, prompt, steered,
                 cancelled, stopping, running, cancelFn, busy, done>>

\* finishTurn called by executeTurn, on its every way out.
Finishing(w, err, cerr) ==
  /\ EnterFinish(w, err, cerr)
  /\ UNCHANGED recovered

ControlOnly(w) ==
  /\ prompt[w] = {} /\ batch[w] # {}
  /\ \A m \in batch[w] : Kind[m] \in {"control", "shutdown"}

\* A turn of control messages alone makes no provider request.
ShortCircuit(w) ==
  /\ pc[w] = "start" /\ ControlOnly(w)
  /\ Finishing(w, FALSE, FALSE)

\* No model, unknown context window, a blocked request, a failed compaction
\* before the request or after the provider rejected it: finishTurn is called
\* with a nil ctxErr, whatever the state of the turn's context.
Abandon(w) ==
  /\ pc[w] \in {"start", "stream"}
  /\ Finishing(w, TRUE, FALSE)

BeginStream(w) ==
  /\ pc[w] = "start" /\ ~ControlOnly(w)
  /\ Goto(w, "stream")
  /\ UNCHANGED <<inboxVars, stopVars, procVars, turnVars, running, cancelFn,
                 busy, done>>

\* Mutant: the steer messages are copied, not taken.
SteerKeepsQueued(w) ==
  /\ pc[w] = "stream"
  /\ {m \in inbox : Kind[m] = "steer"} \ steered[w] # {}
  /\ steered' = [steered EXCEPT ![w] =
                   @ \cup {m \in inbox : Kind[m] = "steer"}]
  /\ UNCHANGED <<inboxVars, stopVars, procVars, batch, prompt, failed,
                 cancelled, ctxErr, stopping, recovered, running, cancelFn, pc,
                 busy, done>>

\* steerInjector.drain at a step boundary: only steer messages are taken.
Steer(w) ==
  /\ pc[w] = "stream"
  /\ LET taken == {m \in inbox : Kind[m] = "steer"} IN
       /\ taken # {}
       /\ steered' = [steered EXCEPT ![w] = @ \cup taken]
       /\ inbox' = inbox \ taken
  /\ UNCHANGED <<sent, dropped, stopVars, procVars, batch, prompt, failed,
                 cancelled, ctxErr, stopping, recovered, running, cancelFn, pc,
                 busy, done>>

\* The deferred recovery of the turn goroutine takes a panic: a second one in
\* the same goroutine, inside the recovery, ends the process.  (Remembered only
\* in instances where there can be a second one.)
Recover(w) ==
  /\ ~recovered[w]
  /\ recovered' = [recovered EXCEPT ![w] = "panic" \in Env]

\* A panic in executeTurn, before finishTurn: the recovery finds isRunning
\* set and calls finishTurn with the panic and childCtx.Err().
Panic(w) ==
  /\ pc[w] \in {"start", "stream"}
  /\ Recover(w)
  /\ EnterFinish(w, TRUE, cancelled[w])

\* The stream ends: finishTurn gets the turn's error and childCtx.Err().
EndStream(w) ==
  /\ pc[w] = "stream"
  /\ \E err \in BOOLEAN : Finishing(w, err, cancelled[w])

\* A cancelled turn leaves the queue alone (issue #48).
SkipDrain(w) ==
  /\ pc[w] = "finish" /\ ctxErr[w]
  /\ Goto(w, "release")
  /\ UNCHANGED <<inboxVars, stopVars, procVars, turnVars, running, cancelFn,
                 busy, done>>

ShutdownRequests(S) == {m \in S : Kind[m] = "shutdown"}

\* The messages finishTurn puts back for the next turn.
GiveBackConsumed(w) == (inbox \cup batch[w]) \ ShutdownRequests(inbox)

ToGiveBack(w) == inbox \ ShutdownRequests(inbox)

\* A shutdown request is in the inbox, was the content of this turn, or was
\* deferred by an earlier one.
StopIgnoresBatch(w) == ShutdownRequests(inbox) # {} \/ pendingShutdown

StopIgnoresDeferred(w) == ShutdownRequests(inbox \cup batch[w]) # {}

StopRequested(w) ==
  ShutdownRequests(inbox \cup batch[w]) # {} \/ pendingShutdown

\* finishTurn's drain: shutdown requests are consumed, the other messages are
\* to be given back, and what the turn does next is decided.
Settle(w) ==
  /\ pc[w] = "finish" /\ ~ctxErr[w]
  /\ stopping' = [stopping EXCEPT ![w] = StopRequested(w)]
  /\ hold' = [hold EXCEPT ![w] = ToGiveBack(w)]
  /\ done' = done \cup ShutdownRequests(inbox)
  /\ inbox' = {}
  /\ Goto(w, IF ToGiveBack(w) # {} THEN "giveback"
             ELSE IF StopRequested(w) THEN "farewell"
             ELSE IF failed[w] THEN "release" ELSE "notify")
  /\ UNCHANGED <<sent, dropped, stopVars, wake, got, content, batch, prompt,
                 steered, failed, cancelled, ctxErr, recovered, running, cancelFn,
                 busy>>

\* The messages of a turn that ends count as handled; its slot is free again.
EndTurn(w) ==
  /\ done' = done \cup batch[w] \cup prompt[w] \cup steered[w]
  /\ batch' = [batch EXCEPT ![w] = {}]
  /\ prompt' = [prompt EXCEPT ![w] = {}]
  /\ steered' = [steered EXCEPT ![w] = {}]
  /\ cancelled' = [cancelled EXCEPT ![w] = FALSE]
  /\ failed' = [failed EXCEPT ![w] = FALSE]
  /\ ctxErr' = [ctxErr EXCEPT ![w] = FALSE]
  /\ stopping' = [stopping EXCEPT ![w] = FALSE]

GiveBack(w) ==
  /\ pc[w] = "giveback"
  /\ \E m \in hold[w] :
       /\ inbox' = inbox \cup {m}
       /\ hold' = [hold EXCEPT ![w] = @ \ {m}]
  /\ UNCHANGED <<sent, dropped, stopVars, wake, got, content, turnVars,
                 running, cancelFn, pc, busy, done>>

\* Mutant: only a request of this turn's own batch is deferred.
HandOffForgets(w) ==
  /\ pc[w] = "giveback" /\ hold[w] = {}
  /\ pendingShutdown' = (ShutdownRequests(batch[w]) # {})
  /\ running' = FALSE
  /\ EndTurn(w)
  /\ Goto(w, "drain")
  /\ UNCHANGED <<inboxVars, shutdownRequested, closed, farewells, procVars,
                 recovered, cancelFn, busy>>

\* Defer the shutdown, release the agent and Submit("") on this goroutine.
HandOff(w) ==
  /\ pc[w] = "giveback" /\ hold[w] = {}
  /\ pendingShutdown' = stopping[w]
  /\ running' = FALSE
  /\ EndTurn(w)
  /\ Goto(w, "drain")
  /\ UNCHANGED <<inboxVars, shutdownRequested, closed, farewells, procVars,
                 recovered, cancelFn, busy>>

\* The idle notification to the creator, sent while isRunning is still set.
Notify(w) ==
  /\ pc[w] = "notify"
  /\ Goto(w, "release")
  /\ UNCHANGED <<inboxVars, stopVars, procVars, turnVars, running, cancelFn,
                 busy, done>>

\* Mutant: the deferred request is not cleared when it is answered.
FarewellKeepsDeferral(w) ==
  /\ pc[w] = "farewell"
  /\ shutdownRequested' = FALSE
  /\ farewells' = farewells + 1
  /\ Goto(w, "leave")
  /\ UNCHANGED <<inboxVars, pendingShutdown, closed, procVars, turnVars,
                 running, cancelFn, busy, done>>

\* Clear the shutdown state and send AGENT_SHUTDOWN.
Farewell(w) ==
  /\ pc[w] = "farewell"
  /\ pendingShutdown' = FALSE
  /\ shutdownRequested' = FALSE
  /\ farewells' = farewells + 1
  /\ Goto(w, "leave")
  /\ UNCHANGED <<inboxVars, closed, procVars, turnVars, running, cancelFn,
                 busy, done>>

\* pool.Close of the agent by itself; refused for the root agent.
Leave(w) ==
  /\ pc[w] = "leave"
  /\ closed' = (closed \/ ~IsRoot)
  /\ Goto(w, "release")
  /\ UNCHANGED <<inboxVars, pendingShutdown, shutdownRequested, farewells,
                 procVars, turnVars, running, cancelFn, busy, done>>

Release(w) ==
  /\ pc[w] = "release"
  /\ running' = FALSE
  /\ EndTurn(w)
  /\ Goto(w, "report")
  /\ UNCHANGED <<inboxVars, stopVars, procVars, recovered, cancelFn, busy>>

\* onDone, after the flag is cleared.
Report(w) ==
  /\ pc[w] = "report"
  /\ busy' = FALSE
  /\ Goto(w, "idle")
  /\ UNCHANGED <<inboxVars, stopVars, procVars, turnVars, running, cancelFn,
                 done>>

-----------------------------------------------------------------------------
(* Panics once finishTurn has begun, in the calls that leave the engine:   *)
(* pool.Deliver, pool.Close, onDone and the turn observer.                 *)

\* Mutant: the recovery calls onDone and leaves the agent marked running.
BareRecovery(w) ==
  /\ "panic" \in Env /\ pc[w] \in {"notify", "farewell", "leave"}
  /\ Recover(w)
  /\ Goto(w, "report")
  /\ UNCHANGED <<inboxVars, stopVars, procVars, batch, prompt, steered,
                 failed, cancelled, ctxErr, stopping, running, cancelFn, busy,
                 done>>

\* In the idle notification, in the farewell (its deferral already cleared)
\* or in pool.Close: isRunning is still set, so finishTurn runs once more,
\* with the panic.  The turn's context may have been cancelled meanwhile.
PanicInFinish(w) ==
  /\ "panic" \in Env /\ pc[w] \in {"notify", "farewell", "leave"}
  /\ Recover(w)
  /\ failed' = [failed EXCEPT ![w] = TRUE]
  /\ \E cerr \in BOOLEAN : ctxErr' = [ctxErr EXCEPT ![w] = cerr]
  /\ pendingShutdown' = (pendingShutdown /\ pc[w] # "farewell")
  /\ shutdownRequested' = (shutdownRequested /\ pc[w] # "farewell")
  /\ Goto(w, "finish")
  /\ UNCHANGED <<inboxVars, closed, farewells, procVars, batch, prompt,
                 steered, cancelled, stopping, running, cancelFn, busy, done>>

\* Bound of the two panics below: once the turn's slot is free the recovery
\* still hands finishTurn the messages of the first pass.  Only a request
\* among them would matter, so no turn has consumed one yet.
NoRequestYet == ShutdownRequests(done) = {}

\* In onDone, after the release.  Usually isRunning is clear and the recovery
\* calls onDone itself (Report); but when another goroutine has claimed the
\* agent in between, the recovery takes that turn's flag for its own.
PanicInOnDone(w) ==
  /\ "panic" \in Env /\ NoRequestYet /\ pc[w] = "report"
  /\ Recover(w)
  /\ IF running
       THEN \E cerr \in BOOLEAN : EnterFinish(w, TRUE, cerr)
       ELSE UNCHANGED <<inboxVars, stopVars, procVars, batch, prompt, steered,
                        failed, cancelled, ctxErr, stopping, running,
                        cancelFn, pc, busy, done>>

\* In the observer that the Submit of a hand-off calls after its
\* compare-and-swap: what that Submit drained is gone with its stack.
PanicInHandOff(w) ==
  /\ "panic" \in Env /\ NoRequestYet /\ pc[w] = "launch"
  /\ Recover(w)
  /\ failed' = [failed EXCEPT ![w] = TRUE]
  /\ \E cerr \in BOOLEAN : ctxErr' = [ctxErr EXCEPT ![w] = cerr]
  /\ hold' = [hold EXCEPT ![w] = {}]
  /\ got' = [got EXCEPT ![w] = {}]
  /\ Goto(w, "finish")
  /\ UNCHANGED <<inboxVars, stopVars, wake, content, batch, prompt, steered,
                 cancelled, stopping, running, cancelFn, busy, done>>

-----------------------------------------------------------------------------
Submit(p) ==
  \/ Append(p) \/ CheckIdle(p) \/ Appended(p) \/ Drain(p)
  \/ Claim(p) \/ Requeue(p) \/ \E w \in Worker : Launch(p, w)

ExecuteTurn(w) ==
  \/ ShortCircuit(w) \/ Abandon(w) \/ BeginStream(w) \/ EndStream(w)
  \/ Panic(w)

FinishTurn(w) ==
  \/ SkipDrain(w) \/ Settle(w) \/ GiveBack(w) \/ HandOff(w) \/ Notify(w)
  \/ Farewell(w) \/ Leave(w) \/ Release(w) \/ Report(w)

LatePanic(w) == PanicInFinish(w) \/ PanicInOnDone(w) \/ PanicInHandOff(w)

Environment(c) ==
  \/ \E m \in Msg, wk \in BOOLEAN : Deliver(c, m, wk)
  \/ \E m \in Msg : Prompt(c, m) \/ Delete(c, m)
  \/ Clear(c) \/ Close(c) \/ Cancel(c)

Next ==
  \/ \E c \in Caller : Environment(c)
  \/ \E p \in Proc : Submit(p)
  \/ \E w \in Worker :
       Expire(w) \/ ExecuteTurn(w) \/ Steer(w) \/ FinishTurn(w) \/ LatePanic(w)

Spec == Init /\ [][Next]_vars

\* Goroutines are scheduled and a provider request ends (the turn timeout
\* bounds it); nothing is assumed of the environment.
Fairness ==
  /\ \A p \in Proc : WF_vars(Submit(p))
  /\ \A w \in Worker : WF_vars(ExecuteTurn(w)) /\ WF_vars(FinishTurn(w))
  /\ \A c \in Caller : WF_vars(pc[c] = "cancel" /\ Cancel(c))

FairSpec == Spec /\ Fairness

-----------------------------------------------------------------------------
(* Properties.                                                             *)

\* Goroutine p holds the ownership isRunning stands for.
Owns(p) == pc[p] = "launch" \/ (p \in Worker /\ pc[p] \in TurnPC)

AllIdle == \A p \in Proc : pc[p] = "idle"

\* The type invariant: every message container holds messages that were sent,
\* and every goroutine is at a place its kind can be.
TypeOK ==
  /\ sent \subseteq Msg
  /\ inbox \subseteq sent /\ done \subseteq sent /\ dropped \subseteq sent
  /\ running \in BOOLEAN /\ busy \in BOOLEAN /\ closed \in BOOLEAN
  /\ pendingShutdown \in BOOLEAN /\ shutdownRequested \in BOOLEAN
  /\ farewells \in Nat
  /\ cancelFn \in Worker \cup {NoWorker}
  /\ pc \in [Proc -> CallerPC \cup TurnPC \cup {"report"}]
  /\ \A c \in Caller : pc[c] \in CallerPC
  /\ wake \in [Proc -> BOOLEAN]
  /\ hold \in [Proc -> SUBSET sent] /\ got \in [Proc -> SUBSET sent]
  /\ content \in [Proc -> SUBSET sent]
  /\ batch \in [Worker -> SUBSET sent] /\ prompt \in [Worker -> SUBSET sent]
  /\ steered \in [Worker -> SUBSET sent]
  /\ failed \in [Worker -> BOOLEAN] /\ cancelled \in [Worker -> BOOLEAN]
  /\ ctxErr \in [Worker -> BOOLEAN] /\ stopping \in [Worker -> BOOLEAN]
  /\ recovered \in [Worker -> BOOLEAN]

\* "Only one goroutine runs per agent turn": isRunning is set exactly while
\* one goroutine owns the agent, from the compare-and-swap in Submit to the
\* release in finishTurn, hand-offs included.
OneTurn ==
  /\ \A p, q \in Proc : Owns(p) /\ Owns(q) => p = q
  /\ running <=> \E p \in Proc : Owns(p)

\* Where a message can be: the queue side and the turn side of the engine.
Queued(p) == hold[p] \cup got[p] \cup content[p]
InTurn(w) == batch[w] \cup prompt[w] \cup steered[w]

InQueues == {m \in Msg : \E p \in Proc : m \in Queued(p)}
InTurns  == {m \in Msg : \E w \in Worker : m \in InTurn(w)}

\* No message is lost or duplicated by the drain, the losing Submit's
\* re-queueing, the steer injector or finishTurn: each message sent is in
\* exactly one place.
ExactlyOnce ==
  /\ sent = inbox \cup done \cup dropped \cup InQueues \cup InTurns
  /\ inbox \cap (done \cup dropped) = {} /\ done \cap dropped = {}
  /\ \A p \in Proc :
       /\ Queued(p) \cap (inbox \cup done \cup dropped) = {}
       /\ hold[p] \cap (got[p] \cup content[p]) = {}
       /\ got[p] \cap content[p] = {}
       /\ \A q \in Proc \ {p} : Queued(p) \cap Queued(q) = {}
       /\ \A w \in Worker : Queued(p) \cap InTurn(w) = {}
  /\ \A w \in Worker :
       /\ InTurn(w) \cap (inbox \cup done \cup dropped) = {}
       /\ batch[w] \cap (prompt[w] \cup steered[w]) = {}
       /\ prompt[w] \cap steered[w] = {}
       /\ \A x \in Worker \ {w} : InTurn(w) \cap InTurn(x) = {}

\* When every goroutine has come to rest the agent is free and the host was
\* told so: no exit path of the turn goroutine skips finishTurn's release
\* ("the agent wedges as permanently running") or its onDone.
RestIsReported == AllIdle => ~running /\ ~busy

\* One AGENT_SHUTDOWN per request: the farewells sent and the one deferred in
\* pendingShutdownFrom never outnumber the shutdown requests consumed.
FarewellsOwed ==
  farewells + (IF pendingShutdown THEN 1 ELSE 0)
    <= Cardinality(ShutdownRequests(done)
                   \cup UNION {ShutdownRequests(batch[w]) : w \in Worker})

\* A deferred shutdown survives every later turn: pendingShutdownFrom is
\* cleared only by the finishTurn that sends the farewell.
DeferralKept ==
  [][pendingShutdown /\ ~pendingShutdown' => farewells' = farewells + 1]_vars

\* A shutdown request that a turn consumed is acted on: it has been answered,
\* or is deferred, or the turn at work is about to do either.
RequestHonoured ==
  ShutdownRequests(done) # {} =>
    farewells > 0 \/ pendingShutdown \/ \E w \in Worker : stopping[w]

\* The chain of follow-up turns ends: a finite number of messages leads to a
\* finite number of turns, whatever fails, and every goroutine comes to rest.
ComesToRest == <>[]AllIdle

\* Once a turn has consumed a shutdown request, the agent leaves the pool,
\* however many deferring turns come in between.
RequestCloses == (ShutdownRequests(done) # {}) ~> closed

\* Two-level view: what the engine promises about messages and turns, see
\* TurnContract.
Contract == INSTANCE TurnContract WITH
  waiting  <- inbox \cup InQueues,
  active   <- \E w \in Worker : pc[w] \in TurnPC,
  handling <- InTurns

KeepsContract == Contract!Spec

-----------------------------------------------------------------------------
(* Claims of the sources that the code does not keep (see the README).     *)

\* pool.Deliver is "the single atomic deliver and make sure it gets processed
\* primitive" (pool.go): with only waking deliveries and no cancel, an agent
\* at rest has an empty inbox.
NoStrandedMessage == AllIdle /\ ~closed => inbox = {}

\* "The agent itself never auto-drains a canceled turn" (agent.go): a turn
\* that fails after its context was cancelled reaches finishTurn with ctxErr.
CancelReachesFinish ==
  [][\A w \in Worker :
       cancelled[w] /\ pc[w] # "finish" /\ pc'[w] = "finish" /\ failed'[w]
         => ctxErr'[w]]_vars

=============================================================================
