-------------------------- MODULE AgentTurn_proofs --------------------------
(* Theorems about AgentTurn, for any messages, callers and turn goroutines. *)
EXTENDS AgentTurn, FiniteSetTheorems, TLAPS

\* The containers and flags have their types in every reachable state.
THEOREM TypeCorrect == Spec => []TypeOK
<1>1. Init => TypeOK
  <2> SUFFICES ASSUME Init PROVE TypeOK
    OBVIOUS
  <2>1. /\ pc \in [Proc -> CallerPC \cup TurnPC \cup {"report"}]
        /\ \A c \in Caller : pc[c] \in CallerPC
    BY DEF Init, Proc, CallerPC
  <2>2. /\ wake \in [Proc -> BOOLEAN]
        /\ hold \in [Proc -> SUBSET sent] /\ got \in [Proc -> SUBSET sent]
        /\ content \in [Proc -> SUBSET sent]
    BY DEF Init
  <2>3. /\ batch \in [Worker -> SUBSET sent]
        /\ prompt \in [Worker -> SUBSET sent]
        /\ steered \in [Worker -> SUBSET sent]
    BY DEF Init
  <2>4. /\ failed \in [Worker -> BOOLEAN] /\ cancelled \in [Worker -> BOOLEAN]
        /\ ctxErr \in [Worker -> BOOLEAN] /\ stopping \in [Worker -> BOOLEAN]
        /\ recovered \in [Worker -> BOOLEAN]
    BY DEF Init
  <2> QED
    BY <2>1, <2>2, <2>3, <2>4 DEF Init, TypeOK
<1>2. TypeOK /\ [Next]_vars => TypeOK'
  <2> SUFFICES ASSUME TypeOK, [Next]_vars PROVE TypeOK'
    OBVIOUS
  <2> USE ProcAssumption DEF TypeOK, Proc, CallerPC, TurnPC, Goto,
        inboxVars, stopVars, procVars, turnVars
  <2>1. ASSUME NEW c \in Caller, NEW m \in Msg, NEW wk \in BOOLEAN,
               Deliver(c, m, wk)
        PROVE  TypeOK'
    BY <2>1 DEF Deliver
  <2>2. ASSUME NEW c \in Caller, NEW m \in Msg, Prompt(c, m) PROVE TypeOK'
    BY <2>2 DEF Prompt
  <2>3. ASSUME NEW c \in Caller, NEW m \in Msg, Delete(c, m) PROVE TypeOK'
    BY <2>3 DEF Delete
  <2>4. ASSUME NEW c \in Caller, Clear(c) PROVE TypeOK'
    BY <2>4 DEF Clear
  <2>5. ASSUME NEW c \in Caller, Close(c) PROVE TypeOK'
    BY <2>5 DEF Close
  <2>6. ASSUME NEW c \in Caller, Cancel(c) PROVE TypeOK'
    BY <2>6 DEF Cancel, CancelStored, Cancellable
  <2>7. ASSUME NEW p \in Proc, Append(p) PROVE TypeOK'
    BY <2>7 DEF Append
  <2>8. ASSUME NEW p \in Proc, CheckIdle(p) PROVE TypeOK'
    BY <2>8 DEF CheckIdle
  <2>9. ASSUME NEW p \in Proc, Appended(p) PROVE TypeOK'
    BY <2>9 DEF Appended
  <2>10. ASSUME NEW p \in Proc, Drain(p) PROVE TypeOK'
    BY <2>10 DEF Drain
  <2>11. ASSUME NEW p \in Proc, Claim(p) PROVE TypeOK'
    BY <2>11 DEF Claim
  <2>12. ASSUME NEW p \in Proc, Requeue(p) PROVE TypeOK'
    BY <2>12 DEF Requeue
  <2>13. ASSUME NEW p \in Proc, NEW w \in Worker, Launch(p, w) PROVE TypeOK'
    BY <2>13 DEF Launch
  <2>14. ASSUME NEW w \in Worker, Expire(w) PROVE TypeOK'
    BY <2>14 DEF Expire, Cancellable
  <2>15. ASSUME NEW w \in Worker, ExecuteTurn(w) PROVE TypeOK'
    <3>1. CASE BeginStream(w)
      BY <3>1 DEF BeginStream
    <3>2. CASE Panic(w)
      BY <3>2 DEF Panic, Recover, EnterFinish
    <3>3. ASSUME NEW err \in BOOLEAN, NEW cerr \in BOOLEAN,
                 Finishing(w, err, cerr)
          PROVE  TypeOK'
      BY <3>3 DEF Finishing, EnterFinish
    <3> QED
      BY <2>15, <3>1, <3>2, <3>3
         DEF ExecuteTurn, ShortCircuit, Abandon, EndStream
  <2>16. ASSUME NEW w \in Worker, Steer(w) PROVE TypeOK'
    BY <2>16 DEF Steer
  <2>17. ASSUME NEW w \in Worker, SkipDrain(w) PROVE TypeOK'
    BY <2>17 DEF SkipDrain
  <2>18. ASSUME NEW w \in Worker, Settle(w) PROVE TypeOK'
    BY <2>18 DEF Settle, ToGiveBack, ShutdownRequests, StopRequested
  <2>19. ASSUME NEW w \in Worker, GiveBack(w) PROVE TypeOK'
    BY <2>19 DEF GiveBack
  <2>20. ASSUME NEW w \in Worker, HandOff(w) PROVE TypeOK'
    BY <2>20 DEF HandOff, EndTurn
  <2>21. ASSUME NEW w \in Worker, Notify(w) PROVE TypeOK'
    BY <2>21 DEF Notify
  <2>22. ASSUME NEW w \in Worker, Farewell(w) PROVE TypeOK'
    <3>1. farewells' \in Nat
      BY <2>22 DEF Farewell
    <3> QED
      BY <2>22, <3>1 DEF Farewell
  <2>23. ASSUME NEW w \in Worker, Leave(w) PROVE TypeOK'
    BY <2>23, IsRootAssumption DEF Leave
  <2>24. ASSUME NEW w \in Worker, Release(w) PROVE TypeOK'
    BY <2>24 DEF Release, EndTurn
  <2>25. ASSUME NEW w \in Worker, Report(w) PROVE TypeOK'
    BY <2>25 DEF Report
  <2>26. CASE UNCHANGED vars
    BY <2>26 DEF vars
  <2>27. ASSUME NEW w \in Worker, PanicInFinish(w) PROVE TypeOK'
    BY <2>27 DEF PanicInFinish, Recover
  <2>28. ASSUME NEW w \in Worker, PanicInOnDone(w) PROVE TypeOK'
    <3>1. CASE running
      <4>1. PICK cerr \in BOOLEAN : EnterFinish(w, TRUE, cerr)
        BY <2>28, <3>1 DEF PanicInOnDone
      <4> QED
        BY <2>28, <4>1 DEF PanicInOnDone, Recover, EnterFinish
    <3>2. CASE ~running
      BY <2>28, <3>2 DEF PanicInOnDone, Recover
    <3> QED
      BY <3>1, <3>2
  <2>29. ASSUME NEW w \in Worker, PanicInHandOff(w) PROVE TypeOK'
    BY <2>29 DEF PanicInHandOff, Recover
  <2> HIDE DEF TypeOK, Proc
  <2> QED
    BY <2>1, <2>2, <2>3, <2>4, <2>5, <2>6, <2>7, <2>8, <2>9, <2>10, <2>11,
       <2>12, <2>13, <2>14, <2>15, <2>16, <2>17, <2>18, <2>19, <2>20, <2>21,
       <2>22, <2>23, <2>24, <2>25, <2>26, <2>27, <2>28, <2>29
       DEF Next, Environment, Submit, FinishTurn, LatePanic
<1> QED
  BY <1>1, <1>2, PTL DEF Spec

-----------------------------------------------------------------------------
(* Reporting: why the host is never left believing the agent works.        *)

\* isRunning is set only while some goroutine will clear it; while the host
\* shows the agent busy, some goroutine owns the agent, still has its onDone
\* to call, or is about to claim the agent for a follow-up.
BusyOwed ==
  /\ running => \E p \in Proc : Owns(p)
  /\ busy => \E p \in Proc : Owns(p) \/ pc[p] \in {"drain", "cas", "report"}

\* Every step keeps what owes the host its onDone.
LEMMA BusyStep ==
  ASSUME TypeOK, BusyOwed, [Next]_vars
  PROVE  BusyOwed'
<1> USE ProcAssumption DEF TypeOK, Proc, Goto, BusyOwed, Owns, TurnPC, CallerPC
<1>1. ASSUME NEW c \in Caller, Environment(c) PROVE BusyOwed'
  <2>1. ASSUME NEW m \in Msg, NEW wk \in BOOLEAN, Deliver(c, m, wk)
        PROVE  BusyOwed'
    BY <2>1 DEF Deliver
  <2>2. ASSUME NEW m \in Msg, Prompt(c, m) PROVE BusyOwed'
    BY <2>2 DEF Prompt
  <2>3. ASSUME NEW m \in Msg, Delete(c, m) PROVE BusyOwed'
    BY <2>3 DEF Delete
  <2>4. CASE Clear(c)
    BY <2>4 DEF Clear
  <2>5. CASE Close(c)
    BY <2>5 DEF Close
  <2>6. CASE Cancel(c)
    BY <2>6 DEF Cancel
  <2> HIDE DEF TypeOK, BusyOwed
  <2> QED
    BY <1>1, <2>1, <2>2, <2>3, <2>4, <2>5, <2>6 DEF Environment
<1>2. ASSUME NEW p \in Proc, Append(p) \/ CheckIdle(p) \/ Appended(p)
               \/ Drain(p) \/ Requeue(p) \/ Claim(p)
      PROVE  BusyOwed'
  BY <1>2 DEF Append, CheckIdle, Appended, Drain, Requeue, Claim
<1>3. ASSUME NEW p \in Proc, NEW w \in Worker, Launch(p, w) PROVE BusyOwed'
  BY <1>3 DEF Launch
<1>4. ASSUME NEW w \in Worker, Expire(w) \/ Steer(w) PROVE BusyOwed'
  BY <1>4 DEF Expire, Steer
<1>5. ASSUME NEW w \in Worker, ExecuteTurn(w) PROVE BusyOwed'
  BY <1>5 DEF ExecuteTurn, ShortCircuit, Abandon, BeginStream, EndStream,
              Panic, Finishing, Recover, EnterFinish
<1>6. ASSUME NEW w \in Worker, SkipDrain(w) \/ Settle(w) \/ GiveBack(w)
               \/ Notify(w) \/ Farewell(w) \/ Leave(w) \/ Report(w)
      PROVE  BusyOwed'
  BY <1>6 DEF SkipDrain, Settle, GiveBack, Notify, Farewell, Leave, Report
<1>7. ASSUME NEW w \in Worker, HandOff(w) \/ Release(w) PROVE BusyOwed'
  BY <1>7 DEF HandOff, Release
<1>8. CASE UNCHANGED vars
  BY <1>8 DEF vars
<1>9. ASSUME NEW w \in Worker, LatePanic(w) PROVE BusyOwed'
  BY <1>9 DEF LatePanic, PanicInFinish, PanicInOnDone, PanicInHandOff, Recover,
              EnterFinish
<1> HIDE DEF TypeOK, BusyOwed
<1> QED
  BY <1>1, <1>2, <1>3, <1>4, <1>5, <1>6, <1>7, <1>8, <1>9
     DEF Next, Submit, FinishTurn

\* When every goroutine is back at rest, isRunning is clear and onDone was
\* called: no path out of a turn leaves the agent wedged, whatever panics.
THEOREM RestIsReportedCorrect == Spec => []RestIsReported
<1>1. Init => BusyOwed
  BY DEF Init, BusyOwed
<1>2. BusyOwed /\ TypeOK => RestIsReported
  BY ProcAssumption DEF BusyOwed, TypeOK, RestIsReported, AllIdle,
     Owns, TurnPC, Proc
<1> QED
  BY <1>1, <1>2, BusyStep, TypeCorrect, PTL DEF Spec

-----------------------------------------------------------------------------
(* Ownership, as long as no turn panics once finishTurn has begun.         *)

NoPanics == "panic" \notin Env

\* Without panics in it, the environment takes no step of a late panic.
LEMMA NoLatePanic ==
  ASSUME NoPanics
  PROVE  \A w \in Worker : ~LatePanic(w)
BY DEF NoPanics, LatePanic, PanicInFinish, PanicInOnDone, PanicInHandOff

\* Steps that neither take nor give up the ownership of the agent.
KeepsOwner ==
  /\ running' = running
  /\ \A p \in Proc : Owns(p)' <=> Owns(p)

\* Every step either leaves the ownership alone, takes it when nobody has it,
\* hands it from a Submit to the turn it launches, or gives it up.
LEMMA OwnershipSteps ==
  ASSUME NoPanics, TypeOK, [Next]_vars
  PROVE  \/ KeepsOwner
         \/ \E p \in Proc : Claim(p)
         \/ \E p \in Proc, w \in Worker : Launch(p, w)
         \/ \E w \in Worker : HandOff(w) \/ Release(w)
<1> USE ProcAssumption DEF TypeOK, Proc, Owns, CallerPC, TurnPC, Goto,
      KeepsOwner
<1>1. ASSUME NEW c \in Caller, Environment(c) PROVE KeepsOwner
  <2>1. ASSUME NEW m \in Msg, NEW wk \in BOOLEAN, Deliver(c, m, wk)
        PROVE  KeepsOwner
    BY <2>1 DEF Deliver
  <2>2. ASSUME NEW m \in Msg, Prompt(c, m) PROVE KeepsOwner
    BY <2>2 DEF Prompt
  <2>3. ASSUME NEW m \in Msg, Delete(c, m) PROVE KeepsOwner
    BY <2>3 DEF Delete
  <2>4. CASE Clear(c)
    BY <2>4 DEF Clear
  <2>5. CASE Close(c)
    BY <2>5 DEF Close
  <2>6. CASE Cancel(c)
    BY <2>6 DEF Cancel
  <2> HIDE DEF TypeOK, KeepsOwner
  <2> QED
    BY <1>1, <2>1, <2>2, <2>3, <2>4, <2>5, <2>6 DEF Environment
<1>2. ASSUME NEW p \in Proc, Append(p) \/ CheckIdle(p) \/ Appended(p)
                             \/ Drain(p) \/ Requeue(p)
      PROVE  KeepsOwner
  BY <1>2 DEF Append, CheckIdle, Appended, Drain, Requeue
<1>3. ASSUME NEW w \in Worker, Expire(w) \/ Steer(w) PROVE KeepsOwner
  BY <1>3 DEF Expire, Steer
<1>4. ASSUME NEW w \in Worker, ExecuteTurn(w) PROVE KeepsOwner
  BY <1>4 DEF ExecuteTurn, ShortCircuit, Abandon, BeginStream, EndStream,
              Panic, Finishing, Recover, EnterFinish
<1>5. ASSUME NEW w \in Worker, SkipDrain(w) \/ Settle(w) \/ GiveBack(w)
               \/ Notify(w) \/ Farewell(w) \/ Leave(w) \/ Report(w)
      PROVE  KeepsOwner
  BY <1>5 DEF SkipDrain, Settle, GiveBack, Notify, Farewell, Leave, Report
<1>6. CASE UNCHANGED vars
  BY <1>6 DEF vars
<1> HIDE DEF TypeOK, KeepsOwner
<1> QED
  BY <1>1, <1>2, <1>3, <1>4, <1>5, <1>6, NoLatePanic DEF Next, Submit, FinishTurn

\* isRunning is exact: it is set exactly while one goroutine owns the agent.
THEOREM OneTurnCorrect ==
  ASSUME NoPanics
  PROVE  Spec => []OneTurn
<1>1. Init => OneTurn
  BY ProcAssumption DEF Init, OneTurn, Owns, TurnPC, Proc
<1>2. TypeOK /\ OneTurn /\ [Next]_vars => OneTurn'
  <2> SUFFICES ASSUME TypeOK, OneTurn, [Next]_vars PROVE OneTurn'
    OBVIOUS
  <2> USE ProcAssumption DEF OneTurn
  <2>1. CASE KeepsOwner
    BY <2>1 DEF KeepsOwner
  <2>2. ASSUME NEW p \in Proc, Claim(p) PROVE OneTurn'
    <3>1. /\ Owns(p)' /\ running'
          /\ \A q \in Proc \ {p} : ~Owns(q)'
      BY <2>2 DEF Claim, Goto, Owns, TypeOK, TurnPC
    <3> QED
      BY <3>1
  <2>3. ASSUME NEW p \in Proc, NEW w \in Worker, Launch(p, w) PROVE OneTurn'
    <3>1. Owns(p) /\ running
      BY <2>3 DEF Launch, Owns
    <3>2. /\ Owns(w)' /\ running'
          /\ \A q \in Proc \ {w} : ~Owns(q)'
      BY <2>3, <3>1 DEF Launch, Owns, TypeOK, TurnPC, Proc
    <3> QED
      BY <3>2 DEF Proc
  <2>4. ASSUME NEW w \in Worker, HandOff(w) \/ Release(w) PROVE OneTurn'
    <3>1. Owns(w)
      BY <2>4 DEF HandOff, Release, Owns, TurnPC
    <3>2. ~running' /\ \A q \in Proc : ~Owns(q)'
      BY <2>4, <3>1 DEF HandOff, Release, Goto, Owns, TypeOK, TurnPC, Proc
    <3> QED
      BY <3>2
  <2> QED
    BY <2>1, <2>2, <2>3, <2>4, OwnershipSteps
<1> QED
  BY <1>1, <1>2, TypeCorrect, PTL DEF Spec

-----------------------------------------------------------------------------
(* The deferred shutdown.                                                  *)

\* A turn that gives messages back knows of the request deferred before it.
DeferralSeen ==
  pendingShutdown => \A w \in Worker : pc[w] = "giveback" => stopping[w]

\* Every step keeps a deferral visible to the turn that reads it.
LEMMA DeferralSeenStep ==
  ASSUME NoPanics, TypeOK, OneTurn, DeferralSeen, [Next]_vars
  PROVE  DeferralSeen'
<1> USE ProcAssumption DEF TypeOK, Proc, Goto, DeferralSeen, stopVars, turnVars
<1>1. ASSUME NEW c \in Caller, Environment(c) PROVE DeferralSeen'
  <2>1. ASSUME NEW m \in Msg, NEW wk \in BOOLEAN, Deliver(c, m, wk)
        PROVE  DeferralSeen'
    BY <2>1 DEF Deliver
  <2>2. ASSUME NEW m \in Msg, Prompt(c, m) PROVE DeferralSeen'
    BY <2>2 DEF Prompt
  <2>3. ASSUME NEW m \in Msg, Delete(c, m) PROVE DeferralSeen'
    BY <2>3 DEF Delete
  <2>4. CASE Clear(c)
    BY <2>4 DEF Clear
  <2>5. CASE Close(c)
    BY <2>5 DEF Close
  <2>6. CASE Cancel(c)
    BY <2>6 DEF Cancel
  <2> HIDE DEF TypeOK, DeferralSeen
  <2> QED
    BY <1>1, <2>1, <2>2, <2>3, <2>4, <2>5, <2>6 DEF Environment
<1>2. ASSUME NEW p \in Proc, Append(p) \/ CheckIdle(p) \/ Appended(p)
               \/ Drain(p) \/ Requeue(p) \/ Claim(p)
               \/ \E w \in Worker : Launch(p, w)
      PROVE  DeferralSeen'
  BY <1>2 DEF Append, CheckIdle, Appended, Drain, Requeue, Claim, Launch
<1>3. ASSUME NEW w \in Worker, Expire(w) \/ Steer(w) PROVE DeferralSeen'
  BY <1>3 DEF Expire, Steer
<1>4. ASSUME NEW w \in Worker, ExecuteTurn(w) PROVE DeferralSeen'
  BY <1>4 DEF ExecuteTurn, ShortCircuit, Abandon, BeginStream, EndStream,
              Panic, Finishing, Recover, EnterFinish
<1>5. ASSUME NEW w \in Worker, Settle(w) PROVE DeferralSeen'
  <2>1. pendingShutdown => stopping'[w]
    BY <1>5 DEF Settle, StopRequested
  <2>2. \A x \in Worker \ {w} : stopping'[x] = stopping[x] /\ pc'[x] = pc[x]
    BY <1>5 DEF Settle
  <2> QED
    BY <1>5, <2>1, <2>2 DEF Settle
<1>6. ASSUME NEW w \in Worker, SkipDrain(w) \/ GiveBack(w) \/ Notify(w)
               \/ Farewell(w) \/ Leave(w) \/ Report(w) \/ Release(w)
      PROVE  DeferralSeen'
  BY <1>6 DEF SkipDrain, GiveBack, Notify, Farewell, Leave, Report, Release,
              EndTurn
<1>7. ASSUME NEW w \in Worker, HandOff(w) PROVE DeferralSeen'
  <2>1. \A x \in Worker : pc[x] = "giveback" => x = w
    BY <1>7 DEF HandOff, OneTurn, Owns, TurnPC
  <2> QED
    BY <1>7, <2>1 DEF HandOff
<1>8. CASE UNCHANGED vars
  BY <1>8 DEF vars
<1> HIDE DEF TypeOK, DeferralSeen
<1> QED
  BY <1>1, <1>2, <1>3, <1>4, <1>5, <1>6, <1>7, <1>8, NoLatePanic
     DEF Next, Submit, FinishTurn

\* A deferred shutdown request is dropped by no later turn: only the step
\* that sends the farewell clears it.
THEOREM DeferralKeptCorrect ==
  ASSUME NoPanics
  PROVE  Spec => DeferralKept
<1>1. Init => DeferralSeen
  BY DEF Init, DeferralSeen
<1>2. TypeOK /\ DeferralSeen /\ [Next]_vars
        => [pendingShutdown /\ ~pendingShutdown' => farewells' = farewells + 1]_vars
  <2> SUFFICES ASSUME TypeOK, DeferralSeen, [Next]_vars,
                      pendingShutdown, ~pendingShutdown'
               PROVE  farewells' = farewells + 1
    OBVIOUS
  <2> USE DEF stopVars
  <2>1. ASSUME NEW w \in Worker, HandOff(w) PROVE FALSE
    BY <2>1 DEF HandOff, DeferralSeen
  <2>2. ASSUME NEW w \in Worker, Farewell(w) PROVE farewells' = farewells + 1
    BY <2>2 DEF Farewell
  <2>3. ASSUME NEW c \in Caller, Environment(c) PROVE FALSE
    BY <2>3 DEF Environment, Deliver, Prompt, Delete, Clear, Close, Cancel
  <2>4. ASSUME NEW p \in Proc, Submit(p) PROVE FALSE
    BY <2>4 DEF Submit, Append, CheckIdle, Appended, Drain, Claim, Requeue,
                Launch
  <2>5. ASSUME NEW w \in Worker, Expire(w) \/ ExecuteTurn(w) \/ Steer(w)
        PROVE  FALSE
    BY <2>5 DEF Expire, ExecuteTurn, ShortCircuit, Abandon, BeginStream,
                EndStream, Panic, Finishing, Recover, EnterFinish, Steer
  <2>6. ASSUME NEW w \in Worker, SkipDrain(w) \/ Settle(w) \/ GiveBack(w)
                 \/ Notify(w) \/ Leave(w) \/ Release(w) \/ Report(w)
        PROVE  FALSE
    BY <2>6 DEF SkipDrain, Settle, GiveBack, Notify, Leave, Release, Report
  <2>7. CASE UNCHANGED vars
    BY <2>7 DEF vars
  <2> QED
    BY <2>1, <2>2, <2>3, <2>4, <2>5, <2>6, <2>7, NoLatePanic DEF Next, FinishTurn
<1>3. TypeOK /\ OneTurn /\ DeferralSeen /\ [Next]_vars => DeferralSeen'
  BY DeferralSeenStep
<1>4. Spec => []OneTurn
  BY OneTurnCorrect
<1> QED
  BY <1>1, <1>2, <1>3, <1>4, TypeCorrect, PTL DEF Spec, DeferralKept

-----------------------------------------------------------------------------
(* Custody of the messages.                                                *)

\* A goroutine holds messages only where its code has them in a variable.
Emptied ==
  /\ \A p \in Proc :
       /\ pc[p] \notin {"cas", "launch"} => got[p] = {}
       /\ pc[p] \notin {"drain", "cas", "launch"} => content[p] = {}
       /\ pc[p] \notin {"append", "check", "drain", "cas", "launch", "giveback"}
            => hold[p] = {}
  /\ \A w \in Worker :
       pc[w] \notin TurnPC => batch[w] = {} /\ prompt[w] = {} /\ steered[w] = {}

\* Every step keeps what a goroutine has handed on empty.
LEMMA EmptiedStep ==
  ASSUME NoPanics, TypeOK, Emptied, [Next]_vars
  PROVE  Emptied'
<1> USE ProcAssumption DEF TypeOK, Proc, Goto, Emptied, CallerPC, TurnPC,
      procVars, turnVars
<1>1. ASSUME NEW c \in Caller, Environment(c) PROVE Emptied'
  <2>1. ASSUME NEW m \in Msg, NEW wk \in BOOLEAN, Deliver(c, m, wk)
        PROVE  Emptied'
    BY <2>1 DEF Deliver
  <2>2. ASSUME NEW m \in Msg, Prompt(c, m) PROVE Emptied'
    BY <2>2 DEF Prompt
  <2>3. ASSUME NEW m \in Msg, Delete(c, m) PROVE Emptied'
    BY <2>3 DEF Delete
  <2>4. CASE Clear(c)
    BY <2>4 DEF Clear
  <2>5. CASE Close(c)
    BY <2>5 DEF Close
  <2>6. CASE Cancel(c)
    BY <2>6 DEF Cancel
  <2> HIDE DEF TypeOK, Emptied
  <2> QED
    BY <1>1, <2>1, <2>2, <2>3, <2>4, <2>5, <2>6 DEF Environment
<1>2. ASSUME NEW p \in Proc, Append(p) \/ CheckIdle(p) \/ Appended(p)
               \/ Drain(p) \/ Requeue(p) \/ Claim(p)
      PROVE  Emptied'
  BY <1>2, SMTT(60) DEF Append, CheckIdle, Appended, Drain, Requeue, Claim
<1>3. ASSUME NEW p \in Proc, NEW w \in Worker, Launch(p, w) PROVE Emptied'
  BY <1>3 DEF Launch
<1>4. ASSUME NEW w \in Worker, Expire(w) \/ Steer(w) PROVE Emptied'
  BY <1>4 DEF Expire, Steer
<1>5. ASSUME NEW w \in Worker, ExecuteTurn(w) PROVE Emptied'
  BY <1>5 DEF ExecuteTurn, ShortCircuit, Abandon, BeginStream, EndStream,
              Panic, Finishing, Recover, EnterFinish
<1>6. ASSUME NEW w \in Worker, Settle(w) PROVE Emptied'
  BY <1>6 DEF Settle
<1>7. ASSUME NEW w \in Worker, SkipDrain(w) \/ GiveBack(w)
               \/ Notify(w) \/ Farewell(w) \/ Leave(w) \/ Report(w)
      PROVE  Emptied'
  BY <1>7 DEF SkipDrain, GiveBack, Notify, Farewell, Leave, Report
<1>8. ASSUME NEW w \in Worker, HandOff(w) \/ Release(w) PROVE Emptied'
  BY <1>8, SMTT(60) DEF HandOff, Release, EndTurn
<1>9. CASE UNCHANGED vars
  BY <1>9 DEF vars
<1> HIDE DEF TypeOK, Emptied
<1> QED
  BY <1>1, <1>2, <1>3, <1>4, <1>5, <1>6, <1>7, <1>8, <1>9, NoLatePanic
     DEF Next, Submit, FinishTurn

\* ExactlyOnce said message by message: somewhere, and in one place only.
Somewhere ==
  \A m \in sent :
    m \in inbox \/ m \in done \/ m \in dropped
      \/ (\E p \in Proc : m \in Queued(p)) \/ (\E w \in Worker : m \in InTurn(w))

OnePlace ==
  \A m \in sent :
    /\ m \in inbox => m \notin done /\ m \notin dropped
    /\ m \in done => m \notin dropped
    /\ \A p \in Proc : m \in Queued(p) =>
         /\ m \notin inbox /\ m \notin done /\ m \notin dropped
         /\ m \in hold[p] => m \notin got[p] /\ m \notin content[p]
         /\ m \in got[p] => m \notin content[p]
         /\ \A q \in Proc : m \in Queued(q) => q = p
         /\ \A w \in Worker : m \notin InTurn(w)
    /\ \A w \in Worker : m \in InTurn(w) =>
         /\ m \notin inbox /\ m \notin done /\ m \notin dropped
         /\ m \in batch[w] => m \notin prompt[w] /\ m \notin steered[w]
         /\ m \in prompt[w] => m \notin steered[w]
         /\ \A x \in Worker : m \in InTurn(x) => x = w

\* ExactlyOnce says that each message sent is somewhere, and in one place.
LEMMA PlacesArePartition ==
  ASSUME TypeOK
  PROVE  ExactlyOnce <=> Somewhere /\ OnePlace
<1>1. /\ \A p \in Proc : Queued(p) \subseteq sent
      /\ \A w \in Worker : InTurn(w) \subseteq sent
  BY DEF TypeOK, Queued, InTurn
<1>2. ASSUME Somewhere, OnePlace PROVE ExactlyOnce
  <2>1. sent = inbox \cup done \cup dropped \cup InQueues \cup InTurns
    BY <1>1, <1>2 DEF TypeOK, Somewhere, InQueues, InTurns
  <2>2. /\ inbox \cap (done \cup dropped) = {} /\ done \cap dropped = {}
    BY <1>2 DEF TypeOK, OnePlace
  <2>3. ASSUME NEW p \in Proc
        PROVE  /\ Queued(p) \cap (inbox \cup done \cup dropped) = {}
               /\ hold[p] \cap (got[p] \cup content[p]) = {}
               /\ got[p] \cap content[p] = {}
               /\ \A q \in Proc \ {p} : Queued(p) \cap Queued(q) = {}
               /\ \A w \in Worker : Queued(p) \cap InTurn(w) = {}
    <3>1. hold[p] \subseteq Queued(p) /\ got[p] \subseteq Queued(p)
      BY DEF Queued
    <3> QED
      BY <1>1, <1>2, <3>1 DEF OnePlace
  <2>4. ASSUME NEW w \in Worker
        PROVE  /\ InTurn(w) \cap (inbox \cup done \cup dropped) = {}
               /\ batch[w] \cap (prompt[w] \cup steered[w]) = {}
               /\ prompt[w] \cap steered[w] = {}
               /\ \A x \in Worker \ {w} : InTurn(w) \cap InTurn(x) = {}
    <3>1. batch[w] \subseteq InTurn(w) /\ prompt[w] \subseteq InTurn(w)
      BY DEF InTurn
    <3> QED
      BY <1>1, <1>2, <3>1 DEF OnePlace
  <2> QED
    BY <2>1, <2>2, <2>3, <2>4 DEF ExactlyOnce
<1>3. ASSUME ExactlyOnce PROVE Somewhere /\ OnePlace
  <2>1. Somewhere
    BY <1>3 DEF ExactlyOnce, Somewhere, InQueues, InTurns
  <2>2. ASSUME NEW m \in sent
        PROVE  /\ m \in inbox => m \notin done /\ m \notin dropped
               /\ m \in done => m \notin dropped
    BY <1>3 DEF ExactlyOnce
  <2>3. ASSUME NEW p \in Proc, NEW m \in Queued(p)
        PROVE  /\ m \notin inbox /\ m \notin done /\ m \notin dropped
               /\ m \in hold[p] => m \notin got[p] /\ m \notin content[p]
               /\ m \in got[p] => m \notin content[p]
               /\ \A q \in Proc : m \in Queued(q) => q = p
               /\ \A w \in Worker : m \notin InTurn(w)
    BY <1>3, <2>3 DEF ExactlyOnce
  <2>4. ASSUME NEW w \in Worker, NEW m \in InTurn(w)
        PROVE  /\ m \notin inbox /\ m \notin done /\ m \notin dropped
               /\ m \in batch[w] => m \notin prompt[w] /\ m \notin steered[w]
               /\ m \in prompt[w] => m \notin steered[w]
               /\ \A x \in Worker : m \in InTurn(x) => x = w
    BY <1>3, <2>4 DEF ExactlyOnce
  <2> QED
    BY <2>1, <2>2, <2>3, <2>4 DEF OnePlace
<1> QED
  BY <1>2, <1>3

\* Each step moves messages from one place to one other place.
LEMMA PlacesStep ==
  ASSUME NoPanics, TypeOK, Emptied, Somewhere, OnePlace, [Next]_vars
  PROVE  Somewhere' /\ OnePlace'
<1> DEFINE Placed == Somewhere /\ OnePlace
<1> USE ProcAssumption DEF TypeOK, Proc, Goto, Emptied, CallerPC, TurnPC,
      Placed, Somewhere, OnePlace, Queued, InTurn, inboxVars, procVars, turnVars
<1>1. ASSUME NEW c \in Caller, NEW m \in Msg, NEW wk \in BOOLEAN,
             Deliver(c, m, wk)
      PROVE  Placed'
  BY <1>1, SMTT(60) DEF Deliver
<1>2. ASSUME NEW c \in Caller, NEW m \in Msg, Prompt(c, m) PROVE Placed'
  BY <1>2, SMTT(60) DEF Prompt
<1>3. ASSUME NEW c \in Caller, NEW m \in Msg, Delete(c, m) PROVE Placed'
  BY <1>3 DEF Delete
<1>4. ASSUME NEW c \in Caller, Clear(c) PROVE Placed'
  BY <1>4, SMTT(60) DEF Clear
<1>5. ASSUME NEW c \in Caller, Close(c) \/ Cancel(c) PROVE Placed'
  BY <1>5, SMTT(60) DEF Close, Cancel
<1>6. ASSUME NEW p \in Proc, Append(p) PROVE Placed'
  BY <1>6, SMTT(60) DEF Append
<1>7. ASSUME NEW p \in Proc, CheckIdle(p) \/ Appended(p) \/ Claim(p)
      PROVE  Placed'
  BY <1>7, SMTT(60) DEF CheckIdle, Appended, Claim
<1>8. ASSUME NEW p \in Proc, Drain(p) PROVE Placed'
  BY <1>8, SMTT(60) DEF Drain
<1>9. ASSUME NEW p \in Proc, Requeue(p) PROVE Placed'
  BY <1>9, SMTT(60) DEF Requeue
<1>10. ASSUME NEW p \in Proc, NEW w \in Worker, Launch(p, w) PROVE Placed'
  BY <1>10, SMTT(60) DEF Launch
<1>11. ASSUME NEW w \in Worker, Expire(w) \/ ExecuteTurn(w) PROVE Placed'
  BY <1>11 DEF Expire, ExecuteTurn, ShortCircuit, Abandon, BeginStream,
               EndStream, Panic, Finishing, Recover, EnterFinish
<1>12. ASSUME NEW w \in Worker, Steer(w) PROVE Placed'
  BY <1>12 DEF Steer
<1>13. ASSUME NEW w \in Worker, Settle(w) PROVE Placed'
  BY <1>13 DEF Settle, ToGiveBack, ShutdownRequests
<1>14. ASSUME NEW w \in Worker, GiveBack(w) PROVE Placed'
  BY <1>14 DEF GiveBack
<1>15. ASSUME NEW w \in Worker, HandOff(w) \/ Release(w) PROVE Placed'
  <2>1. /\ done' = done \cup InTurn(w)
        /\ UNCHANGED <<inbox, sent, dropped, hold, got, content>>
    BY <1>15 DEF HandOff, Release, EndTurn
  <2>2. /\ batch'[w] = {} /\ prompt'[w] = {} /\ steered'[w] = {}
        /\ \A x \in Worker \ {w} : /\ batch'[x] = batch[x]
                                   /\ prompt'[x] = prompt[x]
                                   /\ steered'[x] = steered[x]
    BY <1>15 DEF HandOff, Release, EndTurn
  <2>3. Somewhere'
    BY <2>1, <2>2
  <2>4. OnePlace'
    BY <2>1, <2>2
  <2> QED
    BY <2>3, <2>4
<1>16. ASSUME NEW w \in Worker, SkipDrain(w) \/ Notify(w) \/ Farewell(w)
                \/ Leave(w) \/ Report(w)
      PROVE  Placed'
  BY <1>16, SMTT(60) DEF SkipDrain, Notify, Farewell, Leave, Report
<1>17. CASE UNCHANGED vars
  BY <1>17 DEF vars
<1> HIDE DEF TypeOK, Emptied, Somewhere, OnePlace
<1> QED
  BY <1>1, <1>2, <1>3, <1>4, <1>5, <1>6, <1>7, <1>8, <1>9, <1>10, <1>11,
     <1>12, <1>13, <1>14, <1>15, <1>16, <1>17, NoLatePanic
     DEF Next, Environment, Submit, FinishTurn

\* No message is lost or duplicated: whatever the interleaving of drains,
\* losing Submits, steering and finishTurn, each message sent is in one place.
THEOREM ExactlyOnceCorrect ==
  ASSUME NoPanics
  PROVE  Spec => []ExactlyOnce
<1>1. Init => Emptied /\ ExactlyOnce
  BY DEF Init, Emptied, ExactlyOnce, InQueues, InTurns, Queued, InTurn
<1>2. TypeOK /\ TypeOK' /\ Emptied /\ ExactlyOnce /\ [Next]_vars
        => Emptied' /\ ExactlyOnce'
  <2> SUFFICES ASSUME TypeOK, TypeOK', Emptied, ExactlyOnce, [Next]_vars
               PROVE  Emptied' /\ ExactlyOnce'
    OBVIOUS
  <2>1. Somewhere' /\ OnePlace'
    BY PlacesArePartition, PlacesStep
  <2>2. TypeOK' => (ExactlyOnce' <=> Somewhere' /\ OnePlace')
    BY PlacesArePartition, PTL
  <2> QED
    BY <2>1, <2>2, EmptiedStep
<1> QED
  BY <1>1, <1>2, TypeCorrect, PTL DEF Spec

\* What ExactlyOnceCorrect rests on holds too.
LEMMA PlacesInvariant ==
  ASSUME NoPanics
  PROVE  Spec => [](Emptied /\ OnePlace)
<1>1. Init => Emptied
  BY DEF Init, Emptied
<1>2. TypeOK /\ ExactlyOnce => OnePlace
  BY PlacesArePartition
<1>3. TypeOK /\ Emptied /\ [Next]_vars => Emptied'
  BY EmptiedStep
<1>4. Spec => []ExactlyOnce
  BY ExactlyOnceCorrect
<1> QED
  BY <1>1, <1>2, <1>3, <1>4, TypeCorrect, PTL DEF Spec

-----------------------------------------------------------------------------
(* The engine implements TurnContract.                                     *)

Waiting == inbox \cup InQueues
Active  == \E w \in Worker : pc[w] \in TurnPC

\* Every step of the engine is a step of the contract, or changes nothing
\* the contract speaks of.
LEMMA ContractStep ==
  ASSUME NoPanics, TypeOK, Emptied, Emptied', OnePlace, OneTurn, OneTurn',
         [Next]_vars
  PROVE  [Contract!Next]_(Contract!vars)
<1> DEFINE Abstract == [Contract!Next]_(Contract!vars)
           Quiet == /\ Waiting' = Waiting /\ Active' = Active
                    /\ UNCHANGED <<sent, done, dropped, InTurns>>
<1>quiet. Quiet => Abstract
  BY DEF Contract!vars, Waiting, Active
<1> USE ProcAssumption DEF TypeOK, Proc, Goto, CallerPC, TurnPC, inboxVars,
      procVars, turnVars
<1>1. ASSUME NEW c \in Caller, NEW m \in Msg, NEW wk \in BOOLEAN,
             Deliver(c, m, wk)
      PROVE  Abstract
  <2>1. Waiting' = Waiting \cup {m}
    BY <1>1 DEF Deliver, Waiting, InQueues, Queued, Emptied
  <2>2. Active' = Active
    BY <1>1 DEF Deliver, Active
  <2>3. UNCHANGED <<InTurns, done, dropped>>
    BY <1>1 DEF Deliver, InTurns, InTurn
  <2>4. m \in Msg \ sent /\ sent' = sent \cup {m}
    BY <1>1 DEF Deliver
  <2>5. Contract!Accept(m)
    BY <2>1, <2>2, <2>3, <2>4 DEF Contract!Accept, Waiting, Active
  <2> QED
    BY <2>5 DEF Contract!Next
<1>2. ASSUME NEW c \in Caller, NEW m \in Msg, Prompt(c, m) PROVE Abstract
  <2>1. Waiting' = Waiting \cup {m}
    BY <1>2 DEF Prompt, Waiting, InQueues, Queued, Emptied
  <2>2. Active' = Active
    BY <1>2 DEF Prompt, Active
  <2>3. UNCHANGED <<InTurns, done, dropped>>
    BY <1>2 DEF Prompt, InTurns, InTurn
  <2>4. m \in Msg \ sent /\ sent' = sent \cup {m}
    BY <1>2 DEF Prompt
  <2>5. Contract!Accept(m)
    BY <2>1, <2>2, <2>3, <2>4 DEF Contract!Accept, Waiting, Active
  <2> QED
    BY <2>5 DEF Contract!Next
<1>3. ASSUME NEW S \in SUBSET inbox,
             /\ inbox' = inbox \ S /\ dropped' = dropped \cup S
             /\ UNCHANGED <<sent, procVars, turnVars, pc, done>>
      PROVE  Abstract
  <2>1. Waiting' = Waiting \ S /\ S \subseteq Waiting
    BY <1>3 DEF Waiting, InQueues, Queued, OnePlace
  <2>2. Active' = Active
    BY <1>3 DEF Active
  <2>3. UNCHANGED InTurns
    BY <1>3 DEF InTurns, InTurn
  <2>4. Contract!Discard(S)
    BY <1>3, <2>1, <2>2, <2>3 DEF Contract!Discard, Waiting, Active
  <2> QED
    BY <2>1, <2>4 DEF Contract!Next, Waiting
<1>4. ASSUME NEW c \in Caller, Clear(c) \/ \E m \in Msg : Delete(c, m)
      PROVE  Abstract
  <2>1. CASE Clear(c)
    BY <2>1, <1>3, SMTT(60) DEF Clear
  <2>2. ASSUME NEW m \in Msg, Delete(c, m) PROVE Abstract
    <3>1. {m} \in SUBSET inbox /\ inbox' = inbox \ {m}
      BY <2>2 DEF Delete
    <3>2. /\ dropped' = dropped \cup {m}
          /\ UNCHANGED <<sent, procVars, turnVars, pc, done>>
      BY <2>2 DEF Delete
    <3> HIDE DEF Abstract
    <3> QED
      BY <3>1, <3>2, <1>3
  <2> QED
    BY <1>4, <2>1, <2>2
<1>5. ASSUME NEW c \in Caller, Close(c) \/ Cancel(c) PROVE Quiet
  BY <1>5 DEF Close, Cancel, Waiting, Active, InQueues, Queued, InTurns, InTurn
<1>6. ASSUME NEW p \in Proc, Append(p) \/ CheckIdle(p) \/ Appended(p)
               \/ Drain(p) \/ Requeue(p) \/ Claim(p)
      PROVE  Quiet
  <2>1. UNCHANGED <<sent, done, dropped, batch, prompt, steered>>
    BY <1>6 DEF Append, CheckIdle, Appended, Drain, Requeue, Claim
  <2>2. Active' = Active
    BY <1>6 DEF Append, CheckIdle, Appended, Drain, Requeue, Claim, Active
  <2>3. Waiting' = Waiting
    <3> USE DEF Waiting, InQueues, Queued
    <3>1. CASE Append(p)
      BY <3>1 DEF Append
    <3>2. CASE CheckIdle(p) \/ Appended(p) \/ Claim(p)
      BY <3>2 DEF CheckIdle, Appended, Claim
    <3>3. CASE Drain(p)
      BY <3>3 DEF Drain, Emptied
    <3>4. CASE Requeue(p)
      BY <3>4 DEF Requeue
    <3> HIDE DEF Waiting
    <3> QED
      BY <1>6, <3>1, <3>2, <3>3, <3>4
  <2> QED
    BY <2>1, <2>2, <2>3 DEF InTurns, InTurn
<1>7. ASSUME NEW p \in Proc, NEW w \in Worker, Launch(p, w) PROVE Abstract
  <2> DEFINE S == got[p] \cup content[p]
  <2>1. ~Active
    BY <1>7 DEF Launch, OneTurn, Owns, Active
  <2>2. Active'
    BY <1>7 DEF Launch, Active
  <2>3. S \subseteq Waiting /\ Waiting' = Waiting \ S
    BY <1>7 DEF Launch, Waiting, InQueues, Queued, OnePlace
  <2>4. InTurns' = S
    BY <1>7, <2>1 DEF Launch, InTurns, InTurn, Emptied, Active
  <2>5. UNCHANGED <<sent, done, dropped>>
    BY <1>7 DEF Launch
  <2>6. S \in SUBSET (inbox \cup InQueues)
    BY <2>3 DEF Waiting
  <2>7. \E T \in SUBSET (inbox \cup InQueues) : Contract!Start(T)
    BY <2>1, <2>2, <2>3, <2>4, <2>5, <2>6 DEF Contract!Start, Waiting, Active
  <2> QED
    BY <2>7 DEF Contract!Next
<1>8. ASSUME NEW w \in Worker, Expire(w) \/ ExecuteTurn(w) PROVE Quiet
  BY <1>8 DEF Expire, ExecuteTurn, ShortCircuit, Abandon, BeginStream,
              EndStream, Panic, Finishing, Recover, EnterFinish, Waiting, Active,
              InQueues, Queued, InTurns, InTurn
<1>9. ASSUME NEW w \in Worker, Steer(w) PROVE Abstract
  <2> DEFINE S == {m \in inbox : Kind[m] = "steer"}
  <2>1. Active /\ Active'
    BY <1>9 DEF Steer, Active
  <2>2. S \subseteq Waiting /\ Waiting' = Waiting \ S
    BY <1>9 DEF Steer, Waiting, InQueues, Queued, OnePlace
  <2>3. InTurns' = InTurns \cup S
    BY <1>9 DEF Steer, InTurns, InTurn
  <2>4. UNCHANGED <<sent, done, dropped>>
    BY <1>9 DEF Steer
  <2>5. Contract!Inject(S)
    BY <2>1, <2>2, <2>3, <2>4 DEF Contract!Inject, Waiting, Active
  <2> QED
    BY <2>2, <2>5 DEF Contract!Next, Waiting
<1>10. ASSUME NEW w \in Worker, Settle(w) PROVE Abstract
  <2> DEFINE S == ShutdownRequests(inbox)
  <2>1. Active /\ Active'
    BY <1>10 DEF Settle, Active
  <2>2. S \subseteq Waiting /\ Waiting' = Waiting \ S
    BY <1>10 DEF Settle, Waiting, InQueues, Queued, OnePlace, ToGiveBack,
                 ShutdownRequests, Emptied
  <2>3. UNCHANGED <<InTurns, sent, dropped>> /\ done' = done \cup S
    BY <1>10 DEF Settle, InTurns, InTurn
  <2>4. Contract!Consume(S)
    BY <2>1, <2>2, <2>3 DEF Contract!Consume, Waiting, Active
  <2> QED
    BY <2>2, <2>4 DEF Contract!Next, Waiting
<1>11. ASSUME NEW w \in Worker, HandOff(w) \/ Release(w) PROVE Abstract
  <2>1. Active
    BY <1>11 DEF HandOff, Release, Active
  <2>2. \A x \in Worker \ {w} : pc[x] \notin TurnPC
    BY <1>11 DEF HandOff, Release, OneTurn, Owns
  <2>3. ~Active'
    BY <1>11, <2>2 DEF HandOff, Release, Active
  <2>4. InTurns = InTurn(w) /\ InTurns' = {}
    BY <1>11, <2>2, <2>3 DEF HandOff, Release, EndTurn, InTurns, InTurn,
       Emptied, Active
  <2>5. done' = done \cup InTurn(w) /\ UNCHANGED <<sent, dropped>>
    BY <1>11 DEF HandOff, Release, EndTurn, InTurn
  <2>6. Waiting' = Waiting
    BY <1>11 DEF HandOff, Release, Waiting, InQueues, Queued
  <2>7. Contract!Finish
    BY <2>1, <2>3, <2>4, <2>5, <2>6 DEF Contract!Finish, Waiting, Active
  <2> QED
    BY <2>7 DEF Contract!Next
<1>12. ASSUME NEW w \in Worker, SkipDrain(w) \/ GiveBack(w) \/ Notify(w)
                \/ Farewell(w) \/ Leave(w) \/ Report(w)
      PROVE  Quiet
  <2>1. UNCHANGED <<sent, done, dropped, batch, prompt, steered>>
    BY <1>12 DEF SkipDrain, GiveBack, Notify, Farewell, Leave, Report
  <2>2. Active' = Active
    BY <1>12 DEF SkipDrain, GiveBack, Notify, Farewell, Leave, Report, Active
  <2>3. Waiting' = Waiting
    BY <1>12 DEF SkipDrain, GiveBack, Notify, Farewell, Leave, Report, Waiting,
                 InQueues, Queued
  <2> QED
    BY <2>1, <2>2, <2>3 DEF InTurns, InTurn
<1>13. ASSUME UNCHANGED vars PROVE Quiet
  BY <1>13 DEF vars, Waiting, Active, InQueues, Queued, InTurns, InTurn
<1> HIDE DEF Abstract, Quiet, TypeOK
<1> QED
  <2>1. Abstract
    BY <1>quiet, <1>1, <1>2, <1>4, <1>5, <1>6, <1>7, <1>8, <1>9, <1>10, <1>11,
       <1>12, <1>13, NoLatePanic DEF Next, Environment, Submit, FinishTurn
  <2> QED
    BY <2>1 DEF Abstract

\* The engine implements the contract: turns never overlap, and each message
\* goes once from waiting to one turn, or is discarded while it waits.
THEOREM ContractKept ==
  ASSUME NoPanics
  PROVE  Spec => KeepsContract
<1>1. Init => Contract!Init
  BY DEF Init, Contract!Init, InQueues, Queued, InTurns, InTurn, TurnPC, Proc
<1>2. Spec => []OneTurn
  BY OneTurnCorrect
<1>3. Spec => [](Emptied /\ OnePlace)
  BY PlacesInvariant
<1>4. /\ TypeOK /\ Emptied /\ Emptied' /\ OnePlace /\ OneTurn /\ OneTurn'
      /\ [Next]_vars
      => [Contract!Next]_(Contract!vars)
  BY ContractStep
<1> QED
  BY <1>1, <1>2, <1>3, <1>4, TypeCorrect, PTL
     DEF Spec, KeepsContract, Contract!Spec

-----------------------------------------------------------------------------
(* The farewells.                                                          *)

\* The turns that have decided what to do about shutdown requests.
Settled(w) == pc[w] \in {"giveback", "notify", "farewell", "leave", "release"}

\* The shutdown requests that have been decided about.
Taken == {m \in sent : /\ Kind[m] = "shutdown"
                       /\ m \in done \/ \E w \in Worker : Settled(w) /\ m \in batch[w]}

\* A farewell is deferred, or about to be deferred or sent.
Owed == pendingShutdown \/ \E w \in Worker : pc[w] \in {"giveback", "farewell"} /\ stopping[w]

\* Each request that was taken accounts for one farewell, sent or owed.
Counted ==
  /\ IsFiniteSet(sent)
  /\ \A w \in Worker : pc[w] = "farewell" => stopping[w]
  /\ farewells + (IF Owed THEN 1 ELSE 0) <= Cardinality(Taken)

\* A larger finite set has more elements.
LEMMA Larger ==
  ASSUME NEW T, IsFiniteSet(T), NEW S \in SUBSET T
  PROVE  /\ Cardinality(S) \in Nat /\ Cardinality(T) \in Nat
         /\ Cardinality(S) <= Cardinality(T)
         /\ S # T => Cardinality(S) + 1 <= Cardinality(T)
<1>1. IsFiniteSet(S) /\ Cardinality(S) <= Cardinality(T)
      /\ (Cardinality(T) = Cardinality(S) => T = S)
  BY FS_Subset
<1>2. Cardinality(S) \in Nat /\ Cardinality(T) \in Nat
  BY <1>1, FS_CardinalityType
<1> QED
  BY <1>1, <1>2

\* A step that sends no farewell and comes to owe none takes no request back.
LEMMA CountKept ==
  ASSUME TypeOK, Counted, IsFiniteSet(sent'), Taken \subseteq Taken',
         farewells' = farewells, Owed' => Owed,
         \A w \in Worker : pc'[w] = "farewell" => stopping'[w]
  PROVE  Counted'
<1>1. IsFiniteSet(Taken')
  BY FS_Subset DEF Taken
<1>2. Cardinality(Taken) <= Cardinality(Taken') /\ Cardinality(Taken) \in Nat
      /\ Cardinality(Taken') \in Nat
  BY <1>1, Larger
<1>3. farewells \in Nat
  BY DEF TypeOK
<1> QED
  BY <1>2, <1>3 DEF Counted

\* Every step keeps the count.
LEMMA CountStep ==
  ASSUME NoPanics, TypeOK, TypeOK', OneTurn, Emptied, OnePlace, Counted, [Next]_vars
  PROVE  Counted'
<1> USE ProcAssumption DEF Proc, CallerPC, TurnPC, Goto, inboxVars, stopVars, procVars, turnVars
<1>a. IsFiniteSet(sent) /\ \A w \in Worker : pc[w] = "farewell" => stopping[w]
  BY DEF Counted
<1>b. ASSUME NEW w \in Worker, Settled(w) PROVE \A x \in Worker : Settled(x) => x = w
  BY <1>b DEF OneTurn, Owns, Settled
<1>1. ASSUME NEW m \in Msg, sent' = sent \cup {m} \/ sent' = sent,
             UNCHANGED <<stopping, batch, done, pendingShutdown, farewells>>,
             \A w \in Worker : Settled(w)' = Settled(w)
                               /\ (pc'[w] = pc[w] \/ ~Settled(w))
      PROVE  Counted'
  <2>1. IsFiniteSet(sent')
    BY <1>a, <1>1, FS_AddElement
  <2>2. Taken \subseteq Taken' /\ (Owed' => Owed)
    BY <1>1 DEF Taken, Owed, Settled
  <2>3. \A w \in Worker : pc'[w] = "farewell" => stopping'[w]
    BY <1>a, <1>1 DEF Settled
  <2> QED
    BY <1>1, <2>1, <2>2, <2>3, CountKept
<1>2. ASSUME NEW c \in Caller, Environment(c) PROVE Counted'
  <2>1. ASSUME NEW m \in Msg, NEW wk \in BOOLEAN, Deliver(c, m, wk)
        PROVE  Counted'
    BY <1>1, <2>1 DEF Deliver, TypeOK, Settled
  <2>2. ASSUME NEW m \in Msg, Prompt(c, m) PROVE Counted'
    BY <1>1, <2>2 DEF Prompt, TypeOK, Settled
  <2>3. CASE ~\E m \in Msg : Prompt(c, m) \/ \E wk \in BOOLEAN : Deliver(c, m, wk)
    <3>1. /\ UNCHANGED <<sent, stopping, batch, done, pendingShutdown, farewells>>
          /\ \A w \in Worker : pc'[w] = pc[w]
      BY <1>2, <2>3 DEF Environment, Delete, Clear, Close, Cancel, TypeOK
    <3>2. Taken \subseteq Taken' /\ (Owed' => Owed)
      BY <3>1 DEF Taken, Owed, Settled
    <3> QED
      BY <1>a, <3>1, <3>2, CountKept
  <2> QED
    BY <2>1, <2>2, <2>3
<1>3. ASSUME NEW p \in Proc,
             \/ Append(p) \/ CheckIdle(p) \/ Appended(p) \/ Drain(p) \/ Claim(p) \/ Requeue(p)
      PROVE  Counted'
  <2>1. /\ UNCHANGED <<sent, stopping, batch, done, pendingShutdown, farewells>>
        /\ \A w \in Worker : pc'[w] = pc[w] \/ (~Settled(w) /\ ~Settled(w)')
    BY <1>3 DEF Append, CheckIdle, Appended, Drain, Claim, Requeue, TypeOK, Settled
  <2>2. Taken \subseteq Taken' /\ (Owed' => Owed)
    BY <2>1 DEF Taken, Owed, Settled
  <2> QED
    BY <1>a, <2>1, <2>2, CountKept DEF Settled
<1>4. ASSUME NEW p \in Proc, NEW w \in Worker, Launch(p, w) PROVE Counted'
  <2>1. /\ UNCHANGED <<sent, stopping, done, pendingShutdown, farewells>>
        /\ ~Settled(w) /\ ~Settled(w)'
        /\ \A x \in Worker \ {w} : batch'[x] = batch[x]
        /\ \A x \in Worker \ {w} : pc'[x] = pc[x] \/ (~Settled(x) /\ ~Settled(x)')
    BY <1>4 DEF Launch, TypeOK, Settled
  <2>2. Taken \subseteq Taken' /\ (Owed' => Owed)
    BY <2>1 DEF Taken, Owed, Settled
  <2> QED
    BY <1>a, <2>1, <2>2, CountKept DEF Settled
<1>5. ASSUME NEW w \in Worker, Expire(w) \/ ExecuteTurn(w) \/ Steer(w) PROVE Counted'
  <2>1. /\ UNCHANGED <<sent, stopping, batch, done, pendingShutdown, farewells>>
        /\ \A x \in Worker : pc'[x] = pc[x] \/ (~Settled(x) /\ ~Settled(x)')
    BY <1>5 DEF Expire, ExecuteTurn, ShortCircuit, Abandon, BeginStream, EndStream, Panic,
       Finishing, Recover, EnterFinish, Steer, TypeOK, Settled
  <2>2. Taken \subseteq Taken' /\ (Owed' => Owed)
    BY <2>1 DEF Taken, Owed, Settled
  <2> QED
    BY <1>a, <2>1, <2>2, CountKept DEF Settled
<1>6. ASSUME NEW w \in Worker, SkipDrain(w) \/ GiveBack(w) \/ Notify(w) \/ Leave(w)
      PROVE  Counted'
  <2>1. /\ UNCHANGED <<sent, stopping, batch, done, pendingShutdown, farewells>>
        /\ \A x \in Worker : Settled(x) => Settled(x)'
        /\ \A x \in Worker : pc'[x] = pc[x] \/ pc'[x] = "release"
    BY <1>6 DEF SkipDrain, GiveBack, Notify, Leave, TypeOK, Settled
  <2>2. Taken \subseteq Taken' /\ (Owed' => Owed)
    BY <2>1 DEF Taken, Owed
  <2> QED
    BY <1>a, <2>1, <2>2, CountKept
<1>7. ASSUME NEW w \in Worker, Settle(w) PROVE Counted'
  <2>1. /\ UNCHANGED <<sent, batch, pendingShutdown, farewells>>
        /\ done' = done \cup ShutdownRequests(inbox)
        /\ stopping'[w] = StopRequested(w) /\ Settled(w)' /\ ~Settled(w)
        /\ pc'[w] = "farewell" => StopRequested(w)
        /\ \A x \in Worker \ {w} : pc'[x] = pc[x] /\ stopping'[x] = stopping[x]
    BY <1>7 DEF Settle, TypeOK, Settled
  <2>2. Taken \subseteq Taken'
    BY <2>1 DEF Taken, Settled
  <2>3. \A x \in Worker : pc'[x] = "farewell" => stopping'[x]
    BY <1>a, <2>1
  <2>4. CASE Owed' => Owed
    BY <1>a, <2>1, <2>2, <2>3, <2>4, CountKept
  <2>5. CASE Owed' /\ ~Owed
    <3>1. StopRequested(w) /\ ~pendingShutdown
      BY <2>1, <2>5 DEF Owed
    <3>2. PICK m \in inbox \cup batch[w] : Kind[m] = "shutdown"
      BY <3>1 DEF StopRequested, ShutdownRequests
    <3>3. m \in sent /\ m \notin done
          /\ \A x \in Worker \ {w} : m \notin batch[x]
      BY <3>2, <1>7 DEF TypeOK, OnePlace, InTurn
    <3>4. ~Settled(w) /\ (m \in inbox => \A x \in Worker : m \notin batch[x])
      BY <2>1, <3>3 DEF OnePlace, InTurn
    <3>5. m \notin Taken
      BY <3>2, <3>3, <3>4 DEF Taken
    <3>6. m \in Taken'
      BY <2>1, <3>2, <3>3 DEF Taken, ShutdownRequests, TypeOK
    <3>7. IsFiniteSet(Taken')
      BY <1>a, <2>1, FS_Subset DEF Taken
    <3>8. /\ Cardinality(Taken) + 1 <= Cardinality(Taken')
          /\ Cardinality(Taken) \in Nat /\ Cardinality(Taken') \in Nat
      BY <2>2, <3>5, <3>6, <3>7, Larger
    <3>9. farewells \in Nat /\ farewells <= Cardinality(Taken)
      BY <2>5 DEF Counted, TypeOK
    <3> QED
      BY <1>a, <2>1, <2>3, <2>5, <3>8, <3>9 DEF Counted
  <2> QED
    BY <2>4, <2>5
<1>8. ASSUME NEW w \in Worker, HandOff(w) \/ Release(w) PROVE Counted'
  <2>1. /\ UNCHANGED <<sent, farewells>>
        /\ done \cup batch[w] \subseteq done'
        /\ \A x \in Worker \ {w} : batch'[x] = batch[x] /\ pc'[x] = pc[x]
                                   /\ stopping'[x] = stopping[x]
        /\ ~Settled(w)' /\ Settled(w)
        /\ \/ pendingShutdown' = pendingShutdown
           \/ pendingShutdown' = stopping[w] /\ pc[w] = "giveback"
    BY <1>8 DEF HandOff, Release, EndTurn, TypeOK, Settled
  <2>2. Taken \subseteq Taken'
    BY <2>1 DEF Taken, Settled
  <2>3. Owed' => Owed
    BY <2>1 DEF Owed, Settled
  <2> QED
    BY <1>a, <2>1, <2>2, <2>3, CountKept DEF Settled
<1>9. ASSUME NEW w \in Worker, Farewell(w) PROVE Counted'
  <2>1. /\ UNCHANGED <<sent, stopping, batch, done>>
        /\ pc[w] = "farewell" /\ pc'[w] = "leave" /\ farewells' = farewells + 1
        /\ ~pendingShutdown'
        /\ \A x \in Worker \ {w} : pc'[x] = pc[x]
    BY <1>9 DEF Farewell, TypeOK
  <2>2. \A x \in Worker \ {w} : ~Settled(x)
    BY <1>b, <2>1 DEF Settled
  <2>3. Owed /\ ~Owed'
    BY <1>a, <2>1, <2>2 DEF Owed, Settled
  <2>4. Taken' = Taken
    BY <2>1 DEF Taken, Settled
  <2>5. \A x \in Worker : pc'[x] # "farewell"
    BY <2>1, <2>2 DEF Settled
  <2>6. farewells \in Nat /\ farewells + 1 <= Cardinality(Taken)
    BY <2>3 DEF Counted, TypeOK
  <2> QED
    BY <1>a, <2>1, <2>3, <2>4, <2>5, <2>6 DEF Counted
<1>10. ASSUME NEW w \in Worker, Report(w) PROVE Counted'
  <2>1. /\ UNCHANGED <<sent, stopping, batch, done, pendingShutdown, farewells>>
        /\ \A x \in Worker : pc'[x] = pc[x] \/ (~Settled(x) /\ ~Settled(x)')
    BY <1>10 DEF Report, TypeOK, Settled
  <2>2. Taken \subseteq Taken' /\ (Owed' => Owed)
    BY <2>1 DEF Taken, Owed, Settled
  <2> QED
    BY <1>a, <2>1, <2>2, CountKept DEF Settled
<1>11. CASE UNCHANGED vars
  <2>1. UNCHANGED <<sent, stopping, batch, done, pendingShutdown, farewells, pc>>
    BY <1>11 DEF vars
  <2>2. Taken \subseteq Taken' /\ (Owed' => Owed)
    BY <2>1 DEF Taken, Owed, Settled
  <2> QED
    BY <1>a, <2>1, <2>2, CountKept
<1> QED
  BY <1>2, <1>3, <1>4, <1>5, <1>6, <1>7, <1>8, <1>9, <1>10, <1>11, NoLatePanic
     DEF Next, Submit, FinishTurn

\* One AGENT_SHUTDOWN per request: the farewells sent and the one deferred never
\* outnumber the shutdown requests that turns have consumed (agent.go:
\* finishTurn).
THEOREM FarewellsOwedCorrect ==
  ASSUME NoPanics
  PROVE  Spec => []FarewellsOwed
<1>1. Init => Counted
  <2> SUFFICES ASSUME Init PROVE Counted
    OBVIOUS
  <2>1. sent = {} /\ Taken = {} /\ ~Owed /\ farewells = 0
    BY DEF Init, Taken, Owed, Proc
  <2> QED
    BY <2>1, FS_EmptySet DEF Init, Counted, Proc
<1>2. TypeOK /\ Counted => FarewellsOwed
  <2> SUFFICES ASSUME TypeOK, Counted PROVE FarewellsOwed
    OBVIOUS
  <2> DEFINE All == ShutdownRequests(done) \cup UNION {ShutdownRequests(batch[w]) : w \in Worker}
  <2>1. All \in SUBSET sent
    BY DEF TypeOK, ShutdownRequests
  <2>2. IsFiniteSet(All)
    BY <2>1, FS_Subset DEF Counted
  <2>3. Taken \in SUBSET All
    BY DEF Taken, ShutdownRequests
  <2>4. /\ Cardinality(Taken) <= Cardinality(All)
        /\ Cardinality(Taken) \in Nat /\ Cardinality(All) \in Nat
    BY <2>2, <2>3, Larger
  <2>5. farewells \in Nat /\ (pendingShutdown => Owed)
    BY DEF TypeOK, Owed
  <2>6. farewells + (IF pendingShutdown THEN 1 ELSE 0) <= Cardinality(Taken)
    BY <2>4, <2>5 DEF Counted
  <2>7. farewells + (IF pendingShutdown THEN 1 ELSE 0) <= Cardinality(All)
    BY <2>4, <2>5, <2>6
  <2> QED
    BY <2>7 DEF FarewellsOwed
<1>3. TypeOK /\ TypeOK' /\ OneTurn /\ Emptied /\ OnePlace /\ Counted /\ [Next]_vars
        => Counted'
  BY CountStep
<1>4. Spec => [](OneTurn /\ Emptied /\ OnePlace)
  <2>1. Spec => []OneTurn
    BY OneTurnCorrect
  <2>2. Spec => [](Emptied /\ OnePlace)
    BY PlacesInvariant
  <2> QED
    BY <2>1, <2>2, PTL
<1> QED
  BY <1>1, <1>2, <1>3, <1>4, TypeCorrect, PTL DEF Spec

-----------------------------------------------------------------------------
(* Shutdown requests are acted on, when turns are not cancelled.           *)

\* Nothing cancels a turn, neither a caller nor its deadline nor a close.
Uncancelled ==
  /\ \A w \in Worker : ~cancelled[w] /\ ~ctxErr[w]
  /\ \A c \in Caller : pc[c] # "cancel"

\* Content is from the user, and what is injected is steering: of what a turn
\* handles only its batch can hold a shutdown request.
OwnKinds ==
  /\ \A p \in Proc : ShutdownRequests(content[p]) = {}
  /\ \A w \in Worker : ShutdownRequests(prompt[w]) = {} /\ ShutdownRequests(steered[w]) = {}

\* A turn that has decided to stop owes the farewell, or has sent it.
Stops ==
  \A w \in Worker :
    /\ stopping[w] => pc[w] \in {"giveback", "farewell", "leave", "release"}
    /\ stopping[w] /\ pc[w] \in {"leave", "release"} => farewells > 0
    /\ Settled(w) /\ ShutdownRequests(batch[w]) # {} => stopping[w]

HonourInv == Uncancelled /\ OwnKinds /\ Stops /\ RequestHonoured

\* A step that takes no request and withdraws no answer.
LEMMA HonourKept ==
  ASSUME HonourInv, TypeOK',
         ShutdownRequests(done') = ShutdownRequests(done),
         UNCHANGED <<stopping, farewells, pendingShutdown>>,
         \A w \in Worker :
           \/ pc'[w] = pc[w] /\ batch'[w] = batch[w]
           \/ ~Settled(w) /\ ~Settled(w)' /\ ~stopping[w]
  PROVE  Stops' /\ RequestHonoured'
<1>1. Stops'
  BY DEF HonourInv, Stops, Settled, ShutdownRequests
<1>2. RequestHonoured'
  BY DEF HonourInv, RequestHonoured
<1> QED
  BY <1>1, <1>2

\* Every step keeps the invariant.
LEMMA HonourStep ==
  ASSUME NoPanics, Env \cap {"cancel", "timeout", "close"} = {},
         TypeOK, TypeOK', OneTurn, DeferralSeen, Emptied, HonourInv, [Next]_vars
  PROVE  HonourInv'
<1> USE ProcAssumption DEF Proc, CallerPC, TurnPC, Goto, inboxVars, stopVars, procVars, turnVars
<1>a. Uncancelled /\ OwnKinds /\ Stops /\ RequestHonoured
  BY DEF HonourInv
<1>b. ASSUME NEW w \in Worker, Settled(w) PROVE \A x \in Worker : Settled(x) => x = w
  BY <1>b DEF OneTurn, Owns, Settled
<1>1. ASSUME NEW c \in Caller, Environment(c) PROVE HonourInv'
  <2>1. ~Close(c) /\ ~Cancel(c)
    BY <1>a DEF Close, Cancel, Uncancelled
  <2>2. /\ UNCHANGED <<done, stopping, farewells, pendingShutdown, batch, prompt, steered,
                       cancelled, ctxErr>>
        /\ \A p \in Proc : p # c => pc'[p] = pc[p]
        /\ pc'[c] \in {"idle", "append", "drain"}
        /\ \A p \in Proc : content'[p] = content[p]
                           \/ \E m \in Msg : content'[p] = {m} /\ Kind[m] = "normal"
    BY <1>1, <2>1 DEF Environment, Deliver, Prompt, Delete, Clear, TypeOK
  <2>3. Uncancelled'
    BY <1>a, <2>2 DEF Uncancelled
  <2>4. OwnKinds'
    BY <1>a, <2>2 DEF OwnKinds, ShutdownRequests
  <2>5. Stops' /\ RequestHonoured'
    BY <2>2, HonourKept
  <2> QED
    BY <2>3, <2>4, <2>5 DEF HonourInv
<1>2. ASSUME NEW p \in Proc,
             \/ Append(p) \/ CheckIdle(p) \/ Appended(p) \/ Drain(p) \/ Claim(p) \/ Requeue(p)
      PROVE  HonourInv'
  <2>1. /\ UNCHANGED <<done, stopping, farewells, pendingShutdown, batch, prompt, steered,
                       cancelled, ctxErr>>
        /\ \A q \in Proc : q # p => pc'[q] = pc[q]
        /\ pc[p] \in {"append", "check", "drain", "cas"}
        /\ pc'[p] \in {"append", "check", "drain", "cas", "launch", "idle"}
        /\ \A q \in Proc : content'[q] \in {content[q], {}}
    BY <1>2 DEF Append, CheckIdle, Appended, Drain, Claim, Requeue, TypeOK
  <2>2. Uncancelled'
    BY <1>a, <2>1 DEF Uncancelled
  <2>3. OwnKinds'
    BY <1>a, <2>1 DEF OwnKinds, ShutdownRequests
  <2>4. Stops' /\ RequestHonoured'
    BY <1>a, <2>1, HonourKept DEF Settled, Stops
  <2> QED
    BY <2>2, <2>3, <2>4 DEF HonourInv
<1>3. ASSUME NEW p \in Proc, NEW w \in Worker, Launch(p, w) PROVE HonourInv'
  <2>1. /\ UNCHANGED <<done, stopping, farewells, pendingShutdown, steered, cancelled, ctxErr>>
        /\ \A x \in Worker \ {w} : batch'[x] = batch[x] /\ prompt'[x] = prompt[x]
        /\ prompt'[w] = content[p]
        /\ \A q \in Proc \ {p, w} : pc'[q] = pc[q]
        /\ pc[p] = "launch" /\ pc[w] = "idle" /\ pc'[p] = "append" /\ pc'[w] = "start"
        /\ \A q \in Proc : content'[q] \in {content[q], {}}
    BY <1>3 DEF Launch, TypeOK
  <2>2. Uncancelled'
    BY <1>a, <2>1 DEF Uncancelled
  <2>3. OwnKinds'
    BY <1>a, <2>1 DEF OwnKinds, ShutdownRequests
  <2>4. \A x \in Worker : \/ pc'[x] = pc[x] /\ batch'[x] = batch[x]
                          \/ ~Settled(x) /\ ~Settled(x)' /\ ~stopping[x]
    BY <1>a, <2>1 DEF Settled, Stops
  <2>5. Stops' /\ RequestHonoured'
    BY <2>1, <2>4, HonourKept
  <2> QED
    BY <2>2, <2>3, <2>5 DEF HonourInv
<1>4. ASSUME NEW w \in Worker, Expire(w) PROVE HonourInv'
  BY <1>4 DEF Expire
<1>5. ASSUME NEW w \in Worker, ExecuteTurn(w) \/ Steer(w) PROVE HonourInv'
  <2>1. /\ UNCHANGED <<done, stopping, farewells, pendingShutdown, batch, prompt, content,
                       cancelled>>
        /\ \A q \in Proc : q # w => pc'[q] = pc[q]
        /\ pc[w] \in {"start", "stream"} /\ pc'[w] \in {"stream", "finish"}
        /\ \A x \in Worker : steered'[x] = steered[x]
             \/ steered'[x] = steered[x] \cup {m \in inbox : Kind[m] = "steer"}
    BY <1>5 DEF ExecuteTurn, ShortCircuit, Abandon, BeginStream, EndStream, Panic,
       Finishing, Recover, EnterFinish, Steer, TypeOK
  <2>2. Uncancelled'
    <3>1. ~cancelled[w]
      BY <1>a DEF Uncancelled
    <3>2. UNCHANGED ctxErr \/ ctxErr' = [ctxErr EXCEPT ![w] = FALSE]
          \/ ctxErr' = [ctxErr EXCEPT ![w] = cancelled[w]]
      BY <1>5 DEF ExecuteTurn, ShortCircuit, Abandon, BeginStream, EndStream, Panic,
         Finishing, Recover, EnterFinish, Steer
    <3>3. cancelled[w] = FALSE
      BY <3>1 DEF TypeOK
    <3>4. ctxErr' = ctxErr \/ ctxErr' = [ctxErr EXCEPT ![w] = FALSE]
      BY <3>2, <3>3
    <3>5. ASSUME NEW x \in Worker PROVE ~ctxErr'[x]
      <4>1. ~ctxErr[x] /\ x \in DOMAIN ctxErr
        BY <1>a DEF Uncancelled, TypeOK
      <4>2. [ctxErr EXCEPT ![w] = FALSE][x] = IF x = w THEN FALSE ELSE ctxErr[x]
        BY <4>1
      <4> QED
        BY <3>4, <4>1, <4>2, Zenon
    <3> QED
      BY <1>a, <2>1, <3>5 DEF Uncancelled
  <2>3. OwnKinds'
    BY <1>a, <2>1 DEF OwnKinds, ShutdownRequests
  <2>4. Stops' /\ RequestHonoured'
    BY <1>a, <2>1, HonourKept DEF Settled, Stops
  <2> QED
    BY <2>2, <2>3, <2>4 DEF HonourInv
<1>6. ASSUME NEW w \in Worker, SkipDrain(w) PROVE HonourInv'
  BY <1>a, <1>6 DEF SkipDrain, Uncancelled
<1>7. ASSUME NEW w \in Worker, Settle(w) PROVE HonourInv'
  <2>1. /\ UNCHANGED <<farewells, pendingShutdown, batch, prompt, steered, content,
                       cancelled, ctxErr>>
        /\ done' = done \cup ShutdownRequests(inbox)
        /\ stopping'[w] = StopRequested(w) /\ pc[w] = "finish"
        /\ pc'[w] \in {"giveback", "farewell", "release", "notify"}
        /\ pc'[w] \in {"release", "notify"} => ~StopRequested(w)
        /\ \A x \in Worker \ {w} : stopping'[x] = stopping[x]
        /\ \A q \in Proc : q # w => pc'[q] = pc[q]
    BY <1>7 DEF Settle, TypeOK
  <2>2. Uncancelled'
    BY <1>a, <2>1 DEF Uncancelled
  <2>3. OwnKinds'
    BY <1>a, <2>1 DEF OwnKinds
  <2>4. ShutdownRequests(batch[w]) # {} => StopRequested(w)
    BY DEF StopRequested, ShutdownRequests
  <2>5. Stops'
    BY <1>a, <2>1, <2>4 DEF Stops, Settled, ShutdownRequests
  <2>6. ~stopping[w]
    BY <1>a, <2>1 DEF Stops
  <2>7. ShutdownRequests(done') # {} => ShutdownRequests(done) # {} \/ StopRequested(w)
    BY <2>1 DEF ShutdownRequests, StopRequested
  <2>8. RequestHonoured'
    BY <1>a, <2>1, <2>6, <2>7 DEF RequestHonoured
  <2> QED
    BY <2>2, <2>3, <2>5, <2>8 DEF HonourInv
<1>8. ASSUME NEW w \in Worker, GiveBack(w) \/ Notify(w) \/ Leave(w) \/ Report(w)
      PROVE  HonourInv'
  <2>1. /\ UNCHANGED <<done, stopping, farewells, pendingShutdown, batch, prompt, steered,
                       content, cancelled, ctxErr>>
        /\ \A q \in Proc : q # w => pc'[q] = pc[q]
        /\ \/ pc'[w] = pc[w]
           \/ pc[w] = "notify" /\ pc'[w] = "release"
           \/ pc[w] = "leave" /\ pc'[w] = "release"
           \/ pc[w] = "report" /\ pc'[w] = "idle"
    BY <1>8 DEF GiveBack, Notify, Leave, Report, TypeOK
  <2>2. Uncancelled' /\ OwnKinds'
    BY <1>a, <2>1 DEF Uncancelled, OwnKinds
  <2>3. Stops'
    BY <1>a, <2>1 DEF Stops, Settled, ShutdownRequests
  <2>4. RequestHonoured'
    BY <1>a, <2>1 DEF RequestHonoured
  <2> QED
    BY <2>2, <2>3, <2>4 DEF HonourInv
<1>9. ASSUME NEW w \in Worker, HandOff(w) \/ Release(w) PROVE HonourInv'
  <2>1. /\ UNCHANGED <<farewells, content>>
        /\ done' = done \cup batch[w] \cup prompt[w] \cup steered[w]
        /\ batch'[w] = {} /\ prompt'[w] = {} /\ steered'[w] = {}
        /\ ~cancelled'[w] /\ ~ctxErr'[w] /\ ~stopping'[w]
        /\ \A x \in Worker \ {w} :
             /\ batch'[x] = batch[x] /\ prompt'[x] = prompt[x] /\ steered'[x] = steered[x]
             /\ cancelled'[x] = cancelled[x] /\ ctxErr'[x] = ctxErr[x]
             /\ stopping'[x] = stopping[x]
        /\ \A q \in Proc : q # w => pc'[q] = pc[q]
        /\ pc'[w] \in {"drain", "report"} /\ pc[w] \in {"giveback", "release"}
    BY <1>9 DEF HandOff, Release, EndTurn, TypeOK
  <2>2. Uncancelled'
    BY <1>a, <2>1 DEF Uncancelled
  <2>3. OwnKinds'
    BY <1>a, <2>1 DEF OwnKinds, ShutdownRequests
  <2>4. Stops'
    BY <1>a, <2>1 DEF Stops, Settled, ShutdownRequests
  <2>5. \A x \in Worker : stopping[x] => x = w
    BY <1>a, <1>b, <2>1 DEF Stops, Settled
  <2>6. ShutdownRequests(done') # {} => ShutdownRequests(done) # {} \/ stopping[w]
    BY <1>a, <2>1 DEF ShutdownRequests, OwnKinds, Stops, Settled
  <2>7. ShutdownRequests(done') # {} => farewells > 0 \/ pendingShutdown \/ stopping[w]
    BY <1>a, <2>5, <2>6 DEF RequestHonoured
  <2>8. CASE HandOff(w)
    <3>1. pendingShutdown' = stopping[w] /\ pc[w] = "giveback"
      BY <2>8 DEF HandOff
    <3>2. pendingShutdown => stopping[w]
      BY <3>1 DEF DeferralSeen
    <3> QED
      BY <2>1, <2>2, <2>3, <2>4, <2>7, <3>1, <3>2 DEF HonourInv, RequestHonoured
  <2>9. CASE Release(w)
    <3>1. UNCHANGED pendingShutdown /\ pc[w] = "release"
      BY <2>9 DEF Release
    <3>2. stopping[w] => farewells > 0
      BY <1>a, <3>1 DEF Stops
    <3> QED
      BY <2>1, <2>2, <2>3, <2>4, <2>7, <3>1, <3>2 DEF HonourInv, RequestHonoured
  <2> QED
    BY <1>9, <2>8, <2>9
<1>10. ASSUME NEW w \in Worker, Farewell(w) PROVE HonourInv'
  <2>1. /\ UNCHANGED <<done, stopping, batch, prompt, steered, content, cancelled, ctxErr>>
        /\ \A q \in Proc : q # w => pc'[q] = pc[q]
        /\ pc[w] = "farewell" /\ pc'[w] = "leave"
        /\ farewells' = farewells + 1
    BY <1>10 DEF Farewell, TypeOK
  <2>2. farewells' > 0
    BY <2>1 DEF TypeOK
  <2>3. Uncancelled' /\ OwnKinds'
    BY <1>a, <2>1 DEF Uncancelled, OwnKinds
  <2>4. Stops'
    BY <1>a, <2>1, <2>2 DEF Stops, Settled, ShutdownRequests
  <2> QED
    BY <2>2, <2>3, <2>4 DEF HonourInv, RequestHonoured
<1>11. CASE UNCHANGED vars
  <2>1. UNCHANGED <<done, stopping, farewells, pendingShutdown, batch, prompt, steered,
                    content, cancelled, ctxErr, pc>>
    BY <1>11 DEF vars
  <2>2. Uncancelled' /\ OwnKinds'
    BY <1>a, <2>1 DEF Uncancelled, OwnKinds
  <2>3. Stops' /\ RequestHonoured'
    BY <1>a, <2>1 DEF Stops, Settled, RequestHonoured, ShutdownRequests
  <2> QED
    BY <2>2, <2>3 DEF HonourInv
<1> QED
  BY <1>1, <1>2, <1>3, <1>4, <1>5, <1>6, <1>7, <1>8, <1>9, <1>10, <1>11, NoLatePanic
     DEF Next, Submit, FinishTurn

\* A shutdown request that a turn consumed is answered or deferred, or the turn
\* at work is about to do either, as long as no turn is cancelled (agent.go:
\* finishTurn).  A turn that is cancelled skips the drain, and with it the
\* requests of its own batch.
THEOREM RequestHonouredCorrect ==
  ASSUME NoPanics, Env \cap {"cancel", "timeout", "close"} = {}
  PROVE  Spec => []RequestHonoured
<1>1. Init => HonourInv /\ DeferralSeen
  BY ProcAssumption DEF Init, HonourInv, Uncancelled, OwnKinds, Stops, RequestHonoured,
     ShutdownRequests, DeferralSeen, Settled, Proc
<1>2. HonourInv => RequestHonoured
  BY DEF HonourInv
<1>3. TypeOK /\ TypeOK' /\ OneTurn /\ DeferralSeen /\ Emptied /\ HonourInv /\ [Next]_vars
        => HonourInv'
  BY HonourStep
<1>4. TypeOK /\ OneTurn /\ DeferralSeen /\ [Next]_vars => DeferralSeen'
  BY DeferralSeenStep
<1>5. Spec => []OneTurn
  BY OneTurnCorrect
<1>6. Spec => [](Emptied /\ OnePlace)
  BY PlacesInvariant
<1> QED
  BY <1>1, <1>2, <1>3, <1>4, <1>5, <1>6, TypeCorrect, PTL DEF Spec

=============================================================================
