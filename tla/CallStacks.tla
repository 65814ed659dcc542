------------------------------ MODULE CallStacks ------------------------------
(***************************************************************************)
(* Who waits for whom: the goroutines that call into extensions, the call  *)
(* mutex of each extension, which is not reentrant, and the bubbletea loop, *)
(* which takes a message only when Update has returned (modules/harness,   *)
(* modules/agent/agent.go, modules/extension/host.go).                     *)
(*                                                                         *)
(* A goroutine is a stack of what it is in and has yet to do, top first.   *)
(* One agent stands for all, so that a wake always notifies the loop.      *)
(***************************************************************************)
EXTENDS Integers, Sequences, FiniteSets

CONSTANTS
  Goroutine,  \* bound on the goroutines at a time, numbered
  Loop,       \* the goroutine that runs Update
  Subscriber, \* extensions in the order of dispatch
  SelfSend,   \* messages considered whose Update sends a message itself
  MaxWork     \* bound on keys, host calls and outputs of turns

Actor == Goroutine \cup {Loop}
Nobody0 == 0

ASSUME StackAssumption ==
  /\ Goroutine \subseteq Nat \ {0} /\ Loop \notin Goroutine \cup {Nobody0}
  /\ SelfSend \subseteq {"steer", "status"} /\ MaxWork \in Nat

VARIABLES
  stack,    \* per goroutine
  entered,  \* callMu of each extension: the goroutine inside it, or 0
  running,  \* the agent has a turn
  starting, \* the turn-start callback has yet to return
  work

stackVars == <<stack, entered, running, starting, work>>

StackInit ==
  /\ stack = [a \in Actor |-> << >>] /\ entered = [i \in DOMAIN Subscriber |-> Nobody0]
  /\ running = FALSE /\ starting = FALSE /\ work = 0

Doing(a, what) == stack[a] # << >> /\ Head(stack[a])[1] = what
Arg(a) == Head(stack[a])[2]

\* What is on top is done, and what it leads to is done next.
Then(a, ops) == [stack EXCEPT ![a] = ops \o Tail(@)]

FreeOf(s) == {g \in Goroutine : s[g] = << >>}
Go(s, ops) == [s EXCEPT ![CHOOSE g \in FreeOf(s) : TRUE] = ops]
CanGo(n) == Cardinality(FreeOf(stack)) >= n
Work == work < MaxWork /\ work' = work + 1

-----------------------------------------------------------------------------
(* The loop.                                                               *)

\* What Update starts for a message: the commands it returns, and notifications
\* to extensions.  The result of a command is a message.
Started(m) == CASE m = "notify" -> << <<"event">> >>
                [] m = "tick"   -> << <<"event">>, <<"send", "draw">> >>
                [] m = "submit" -> << <<"submit">> >>
                [] OTHER        -> << >>

\* What Update does itself.
Update(m) == CASE m = "steer"  -> << <<"deliver">> >>
               [] m = "status" -> << <<"send", "draw">> >>
               [] OTHER        -> << >>

Handled(s, m) ==
  LET t == [s EXCEPT ![Loop] = Update(m)]
  IN IF Started(m) = << >> THEN t ELSE Go(t, Started(m))

\* The terminal or a timer.
Input ==
  /\ stack[Loop] = << >> /\ CanGo(1) /\ Work
  /\ \E m \in {"submit", "tick"} \cup (SelfSend \cap {"steer"}) : stack' = Handled(stack, m)
  /\ UNCHANGED <<entered, running, starting>>

\* p.Send: the loop takes the message when it is not in Update.
PSend(a) ==
  /\ Doing(a, "send") /\ stack[Loop] = << >> /\ CanGo(1)
  /\ stack' = Handled(Then(a, << >>), Arg(a))
  /\ UNCHANGED <<entered, running, starting, work>>

-----------------------------------------------------------------------------
(* Extensions.                                                             *)

\* DispatchEvent or DispatchEventChain: the extensions that are subscribed to
\* the event, one after the other.
Event(a) ==
  /\ Doing(a, "event")
  /\ \E n \in 0 .. Len(Subscriber) : \E x \in [1 .. n -> DOMAIN Subscriber] :
       /\ \A j, k \in 1 .. n : j < k => x[j] < x[k]
       /\ stack' = Then(a, [k \in 1 .. n |-> <<"enter", x[k]>>])
  /\ UNCHANGED <<entered, running, starting, work>>

EnterCall(a) ==
  /\ Doing(a, "enter") /\ entered[Arg(a)] = Nobody0
  /\ entered' = [entered EXCEPT ![Arg(a)] = a]
  /\ stack' = Then(a, << <<"in", Arg(a)>> >>)
  /\ UNCHANGED <<running, starting, work>>

\* A handler calls the host: the bridges send a message to the loop, deliver to
\* an agent, run it, or spawn one.
HostCall(a) ==
  /\ Doing(a, "in") /\ Work
  /\ \E op \in {<<"send", "draw">>, <<"send", "notify">>, <<"deliver">>, <<"spawn">>}
               \cup {<<"send", m>> : m \in SelfSend \cap {"status"}} :
       stack' = [stack EXCEPT ![a] = <<op>> \o @]
  /\ UNCHANGED <<entered, running, starting>>

LeaveCall(a) ==
  /\ Doing(a, "in")
  /\ entered' = [entered EXCEPT ![Arg(a)] = Nobody0]
  /\ stack' = Then(a, << >>)
  /\ UNCHANGED <<running, starting, work>>

-----------------------------------------------------------------------------
(* Agents.                                                                 *)

\* The wake notifier sends a message, then the agent is submitted to.
DeliverWake(a) ==
  /\ Doing(a, "deliver")
  /\ stack' = Then(a, << <<"send", "draw">>, <<"submit">> >>)
  /\ UNCHANGED <<entered, running, starting, work>>

\* Spawn starts the first turn on a goroutine of its own.
SpawnDetached(a) ==
  /\ Doing(a, "spawn") /\ CanGo(1)
  /\ stack' = Go(Then(a, << >>), << <<"submit">> >>)
  /\ UNCHANGED <<entered, running, starting, work>>

\* Mutant: the start of the turn is dispatched on the stack of the caller.
SubmitInline(a) ==
  /\ Doing(a, "submit") /\ CanGo(2)
  /\ IF running THEN stack' = Then(a, << >>) /\ UNCHANGED <<running, starting>>
     ELSE /\ running' = TRUE /\ UNCHANGED starting
          /\ stack' = Go(Then(a, << <<"event">> >>), << <<"turn">> >>)
  /\ UNCHANGED <<entered, work>>

\* Submit: the callback and the turn get goroutines, and the turn waits for the
\* callback.
SubmitTurn(a) ==
  /\ Doing(a, "submit") /\ CanGo(2)
  /\ IF running THEN stack' = Then(a, << >>) /\ UNCHANGED <<running, starting>>
     ELSE /\ running' = TRUE /\ starting' = TRUE
          /\ stack' = Go(Go(Then(a, << >>), << <<"turnStart">> >>),
                         << <<"await">>, <<"turn">> >>)
  /\ UNCHANGED <<entered, work>>

\* onTurnStart: dispatchTurnStart and dispatchAgentPrompt dispatch on yet
\* another goroutine.
TurnStart(a) ==
  /\ Doing(a, "turnStart") /\ CanGo(1)
  /\ stack' = Go(Then(a, << >>), << <<"event">> >>) /\ starting' = FALSE
  /\ UNCHANGED <<entered, running, work>>

AwaitStart(a) ==
  /\ Doing(a, "await") /\ ~starting
  /\ stack' = Then(a, << >>)
  /\ UNCHANGED <<entered, running, starting, work>>

\* Output of the turn: tokens and tool calls are sent to the loop and
\* dispatched to extensions on the goroutine of the turn.
TurnOutput(a) ==
  /\ Doing(a, "turn") /\ Work
  /\ stack' = [stack EXCEPT ![a] = << <<"send", "draw">>, <<"event">> >> \o @]
  /\ UNCHANGED <<entered, running, starting>>

\* The turn is released and reported: the root's to the loop, that of a child
\* that failed to its creator.
TurnDoneReport(a) ==
  /\ Doing(a, "turn") /\ running' = FALSE
  /\ \E op \in {<<"send", "draw">>, <<"deliver">>} :
       (op = <<"deliver">> => work < MaxWork)
         /\ work' = (IF op = <<"deliver">> THEN work + 1 ELSE work)
         /\ stack' = Then(a, <<op>>)
  /\ UNCHANGED <<entered, starting>>

StackNext ==
  \/ Input
  \/ \E a \in Actor :
       \/ PSend(a) \/ Event(a) \/ EnterCall(a) \/ HostCall(a) \/ LeaveCall(a)
       \/ DeliverWake(a) \/ SpawnDetached(a) \/ SubmitTurn(a) \/ TurnStart(a)
       \/ AwaitStart(a) \/ TurnOutput(a) \/ TurnDoneReport(a)

StackSpec == StackInit /\ [][StackNext]_stackVars

-----------------------------------------------------------------------------
(* Properties.                                                             *)

\* The type invariant: the goroutine inside an extension has it on its stack.
StackTypeOK ==
  /\ running \in BOOLEAN /\ starting \in BOOLEAN /\ work \in 0 .. MaxWork
  /\ \A i \in DOMAIN entered : \A a \in Actor :
       entered[i] = a <=> \E j \in DOMAIN stack[a] : stack[a][j] = <<"in", i>>

WaitsFor(a) ==
  CASE Doing(a, "enter") -> {entered[Arg(a)]} \ {Nobody0}
    [] Doing(a, "send")  -> IF stack[Loop] # << >> THEN {Loop} ELSE {}
    [] Doing(a, "await") -> {g \in Actor : Doing(g, "turnStart")}
    [] OTHER             -> {}

\* "No agent callback may be invoked on a stack that a host call can be on":
\* no goroutines wait for each other in a circle, through the call mutexes of
\* extensions, the loop, and turns that wait for their start to be announced.
NoCircularWait ==
  \A S \in SUBSET {a \in Actor : WaitsFor(a) # {}} :
    S # {} => \E a \in S : WaitsFor(a) \cap S = {}

\* "submitSteer never blocks the bubbletea loop -- Deliver is non-blocking".
SteerNeverBlocks == Loop \notin WaitsFor(Loop)

=============================================================================
