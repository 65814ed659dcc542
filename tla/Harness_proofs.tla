---------------------------- MODULE Harness_proofs ----------------------------
(* Theorems about Harness, for any number of inputs, wakes and escapes.     *)
EXTENDS Harness, TLAPS

Msg == Report \cup {"agentWakeupMsg", "FocusAgentMsg", "abortStreamMsg"}

\* A turn of the root runs, is about to, or has ended and not reported yet.
InFlight == waking = "notified" \/ turn # "idle" \/ \E r \in Report : reports[r] > 0

\* A report waits for Update behind position i of its queue.
ReportAfter(i) == \E j \in i + 1 .. Len(msgs) : msgs[j] \in Report

Owed(i) == InFlight \/ ReportAfter(i)

\* A wakeup, which will switch the indicator on, has a report behind it.
WakesOwed == \A i \in 1 .. Len(msgs) : msgs[i] = "agentWakeupMsg" => Owed(i)

\* So has the indicator, once what was typed has been sent to the root, and an
\* armed flush.
Typed == sending["main"] > 0 \/ sending["sub"] > 0

LightOwed == (streaming \/ cancelFlushQueue) /\ ~subFed => Typed \/ Owed(0)

\* Everything queued was typed or delivered.
Counted ==
  /\ inbox + sending["main"] + sending["sub"] <= inputs + wakes
  /\ sending["main"] + sending["sub"] <= inputs
  /\ sending["focus"] <= escs

\* The type invariant without its bounds.
Booleans == {streaming, cancelFlushQueue, subFed, subOpen} \subseteq BOOLEAN

Types ==
  /\ focusedAgent \in {"main", "sub"}
  /\ turn \in {"idle", "starting", "run", "cancelled"} /\ inbox \in Nat
  /\ waking \in {"none", "appended", "notified"}
  /\ sending \in [Command -> Nat] /\ reports \in [Report -> Nat]
  /\ msgs \in Seq(Msg)
  /\ inputs \in 0 .. MaxInputs /\ wakes \in 0 .. MaxWakes /\ escs \in 0 .. MaxEsc

HarnessInv == Booleans /\ Types /\ Counted /\ WakesOwed /\ LightOwed

\* The invariant holds at the start.
LEMMA HarnessInitial == HarnessInit => HarnessInv
<1> SUFFICES ASSUME HarnessInit PROVE HarnessInv
  OBVIOUS
<1>1. msgs = << >> /\ Len(msgs) = 0 /\ msgs \in Seq(Msg)
  BY DEF HarnessInit
<1>2. Types
  BY <1>1, HarnessAssumption DEF HarnessInit, Types
<1>6. Booleans
  BY Zenon DEF HarnessInit, Booleans
<1>3. Counted
  BY DEF HarnessInit, Counted, Command
<1>4. WakesOwed
  BY <1>1 DEF WakesOwed
<1>5. LightOwed
  BY DEF HarnessInit, LightOwed
<1> QED
  BY <1>2, <1>3, <1>4, <1>5, <1>6 DEF HarnessInv

\* The invariant implies the type invariant.
LEMMA HarnessInvTypes == HarnessInv => HarnessTypeOK
<1> SUFFICES ASSUME HarnessInv PROVE HarnessTypeOK
  OBVIOUS
<1>1. /\ Types /\ Counted /\ MaxInputs \in Nat /\ MaxWakes \in Nat /\ MaxEsc \in Nat
  BY HarnessAssumption DEF HarnessInv
<1>2. /\ sending["main"] \in Nat /\ sending["sub"] \in Nat /\ sending["focus"] \in Nat
      /\ inbox \in Nat /\ inputs \in 0 .. MaxInputs /\ wakes \in 0 .. MaxWakes
      /\ escs \in 0 .. MaxEsc
  BY <1>1 DEF Types, Command
<1>3. inbox \in 0 .. MaxInputs + MaxWakes
  BY <1>1, <1>2 DEF Counted
<1>4. \A k \in Command : sending[k] \in 0 .. MaxInputs + MaxEsc
  BY <1>1, <1>2 DEF Counted, Command
<1>5. sending \in [Command -> 0 .. MaxInputs + MaxEsc]
  BY <1>1, <1>4 DEF Types
<1>6. /\ streaming \in BOOLEAN /\ cancelFlushQueue \in BOOLEAN
      /\ subOpen \in BOOLEAN
  BY DEF HarnessInv, Booleans
<1> QED
  BY <1>1, <1>3, <1>5, <1>6 DEF Types, HarnessTypeOK, Msg

-----------------------------------------------------------------------------
(* The queue of Update.                                                    *)

\* What is at each place of a sequence that grew by one.
LEMMA Appended ==
  ASSUME msgs \in Seq(Msg), NEW m \in Msg, msgs' = Append(msgs, m)
  PROVE  /\ msgs' \in Seq(Msg) /\ Len(msgs') = Len(msgs) + 1 /\ Len(msgs) \in Nat
         /\ \A i \in 1 .. Len(msgs) : msgs'[i] = msgs[i]
         /\ msgs'[Len(msgs) + 1] = m
         /\ \A i \in Nat : ReportAfter(i) => ReportAfter(i)'
         /\ m \in Report => \A i \in 0 .. Len(msgs) : ReportAfter(i)'
<1>1. /\ msgs' \in Seq(Msg) /\ Len(msgs') = Len(msgs) + 1 /\ Len(msgs) \in Nat
      /\ \A i \in 1 .. Len(msgs) : msgs'[i] = msgs[i]
      /\ msgs'[Len(msgs) + 1] = m
  OBVIOUS
<1>2. ASSUME NEW i \in Nat, ReportAfter(i) PROVE ReportAfter(i)'
  <2>1. PICK j \in i + 1 .. Len(msgs) : msgs[j] \in Report
    BY <1>2 DEF ReportAfter
  <2>2. j \in i + 1 .. Len(msgs') /\ j \in 1 .. Len(msgs)
    BY <1>1
  <2> QED
    BY <1>1, <2>1, <2>2 DEF ReportAfter
<1>3. ASSUME m \in Report, NEW i \in 0 .. Len(msgs) PROVE ReportAfter(i)'
  <2>1. Len(msgs) + 1 \in i + 1 .. Len(msgs')
    BY <1>1
  <2> QED
    BY <1>1, <1>3, <2>1 DEF ReportAfter
<1> QED
  BY <1>1, <1>2, <1>3

\* What is at each place of a sequence without its first.
LEMMA Taken ==
  ASSUME msgs \in Seq(Msg), msgs # << >>, msgs' = Tail(msgs)
  PROVE  /\ msgs' \in Seq(Msg) /\ Len(msgs) = Len(msgs') + 1 /\ Len(msgs') \in Nat
         /\ \A i \in 1 .. Len(msgs') : msgs'[i] = msgs[i + 1]
         /\ msgs[1] = Head(msgs)
         /\ \A i \in 1 .. Len(msgs) : ReportAfter(i) => ReportAfter(i - 1)'
         /\ Head(msgs) \notin Report /\ ReportAfter(0) => ReportAfter(0)'
<1>1. /\ msgs' \in Seq(Msg) /\ Len(msgs) = Len(msgs') + 1 /\ Len(msgs') \in Nat
      /\ \A i \in 1 .. Len(msgs') : msgs'[i] = msgs[i + 1]
      /\ msgs[1] = Head(msgs)
  OBVIOUS
<1>2. ASSUME NEW i \in Nat, NEW j \in i + 1 .. Len(msgs), msgs[j] \in Report, j # 1
      PROVE  \E k \in Nat : k = j - 1 /\ k \in 1 .. Len(msgs') /\ k >= i /\ msgs'[k] \in Report
  <2>1. j - 1 \in 1 .. Len(msgs') /\ j - 1 >= i
    BY <1>1, <1>2
  <2>2. PICK k \in 1 .. Len(msgs') : k = j - 1
    BY <2>1
  <2>3. k + 1 = j
    BY <1>1, <2>2
  <2> QED
    BY <1>1, <1>2, <2>1, <2>2, <2>3
<1>3. ASSUME NEW i \in 1 .. Len(msgs), ReportAfter(i) PROVE ReportAfter(i - 1)'
  <2>1. PICK j \in i + 1 .. Len(msgs) : msgs[j] \in Report
    BY <1>3 DEF ReportAfter
  <2>2. j # 1 /\ i \in Nat
    BY <1>1
  <2>3. PICK k \in Nat : k = j - 1 /\ k \in 1 .. Len(msgs') /\ k >= i /\ msgs'[k] \in Report
    BY <1>2, <2>1, <2>2
  <2>4. k \in (i - 1) + 1 .. Len(msgs')
    BY <1>1, <2>3
  <2> QED
    BY <2>3, <2>4 DEF ReportAfter
<1>4. ASSUME Head(msgs) \notin Report, ReportAfter(0) PROVE ReportAfter(0)'
  <2>1. PICK j \in 0 + 1 .. Len(msgs) : msgs[j] \in Report
    BY <1>4 DEF ReportAfter
  <2>2. j # 1
    BY <1>1, <1>4, <2>1
  <2>3. PICK k \in Nat : k = j - 1 /\ k \in 1 .. Len(msgs') /\ k >= 0 /\ msgs'[k] \in Report
    BY <1>2, <2>1, <2>2
  <2>4. k \in 0 + 1 .. Len(msgs')
    BY <1>1, <2>3
  <2> QED
    BY <2>3, <2>4 DEF ReportAfter
<1> QED
  BY <1>1, <1>3, <1>4

\* What the wakeups are owed stays owed when a turn is still in flight, or was not.
LEMMA WakesKept ==
  ASSUME WakesOwed, UNCHANGED msgs, InFlight => InFlight'
  PROVE  WakesOwed'
<1>1. \A i : Owed(i) => Owed(i)'
  BY DEF Owed, ReportAfter
<1> QED
  BY <1>1 DEF WakesOwed

\* A message that is appended leaves every wakeup with a report behind it or a turn in
\* flight, if it is a report or no wakeup without a turn.
LEMMA WakesAfterAppend ==
  ASSUME WakesOwed, msgs \in Seq(Msg), NEW m \in Msg, msgs' = Append(msgs, m),
         \/ m \in Report
         \/ /\ InFlight => InFlight'
            /\ m = "agentWakeupMsg" => InFlight'
  PROVE  WakesOwed'
<1> SUFFICES ASSUME NEW i \in 1 .. Len(msgs'), msgs'[i] = "agentWakeupMsg"
             PROVE  Owed(i)'
  BY DEF WakesOwed
<1>1. /\ Len(msgs') = Len(msgs) + 1 /\ Len(msgs) \in Nat
      /\ \A k \in 1 .. Len(msgs) : msgs'[k] = msgs[k]
      /\ msgs'[Len(msgs) + 1] = m
      /\ \A k \in Nat : ReportAfter(k) => ReportAfter(k)'
      /\ m \in Report => \A k \in 0 .. Len(msgs) : ReportAfter(k)'
  BY Appended
<1>2. CASE i = Len(msgs) + 1
  BY <1>1, <1>2 DEF Owed, Report
<1>3. CASE i \in 1 .. Len(msgs)
  <2>1. Owed(i)
    BY <1>1, <1>3 DEF WakesOwed
  <2>2. i \in Nat /\ i \in 0 .. Len(msgs)
    BY <1>1, <1>3
  <2> QED
    BY <1>1, <2>1, <2>2 DEF Owed
<1> QED
  BY <1>1, <1>2, <1>3

\* The wakeups that are left when the first message is taken keep what is owed to them.
LEMMA WakesAfterTail ==
  ASSUME WakesOwed, msgs \in Seq(Msg), msgs # << >>, msgs' = Tail(msgs),
         InFlight => InFlight'
  PROVE  WakesOwed'
<1> SUFFICES ASSUME NEW i \in 1 .. Len(msgs'), msgs'[i] = "agentWakeupMsg"
             PROVE  Owed(i)'
  BY DEF WakesOwed
<1>1. /\ Len(msgs) = Len(msgs') + 1 /\ Len(msgs') \in Nat
      /\ msgs'[i] = msgs[i + 1]
      /\ \A k \in 1 .. Len(msgs) : ReportAfter(k) => ReportAfter(k - 1)'
  BY Taken
<1>2. i + 1 \in 1 .. Len(msgs) /\ (i + 1) - 1 = i
  BY <1>1
<1>3. Owed(i + 1)
  BY <1>1, <1>2 DEF WakesOwed
<1>4. ReportAfter(i + 1) => ReportAfter((i + 1) - 1)'
  BY <1>1, <1>2
<1>5. ReportAfter((i + 1) - 1)' => ReportAfter(i)'
  BY <1>2
<1> QED
  BY <1>3, <1>4, <1>5 DEF Owed

-----------------------------------------------------------------------------
(* The steps: types and counts.                                            *)

\* Every step keeps the types.
LEMMA TypesStep ==
  ASSUME Types, HarnessNext
  PROVE  Types'
<1> USE HarnessAssumption
<1>0. /\ "agentWakeupMsg" \in Msg /\ "FocusAgentMsg" \in Msg /\ Report \subseteq Msg
      /\ \A m \in Msg : Append(msgs, m) \in Seq(Msg)
      /\ msgs # << >> => Tail(msgs) \in Seq(Msg)
  BY DEF Types, Msg
<1>13. CASE Abort
  <2>1. escs' \in 0 .. MaxEsc /\ "abortStreamMsg" \in Msg
    BY <1>13 DEF Abort, Types, Msg
  <2> QED
    BY <1>0, <1>13, <2>1 DEF Abort, Types
<1>14. CASE TurnReady
  BY <1>14 DEF TurnReady, keyboard, Types
<1>15. CASE HandleAbort
  BY <1>0, <1>15 DEF HandleAbort, cancelMainTurn, bounds, Types
<1>1. CASE Enter
  <2>1. focusedAgent \in Command
    BY DEF Types, Command
  <2>2. sending' \in [Command -> Nat]
    BY <1>1, <2>1 DEF Enter, Types
  <2>3. inputs' \in 0 .. MaxInputs
    BY <1>1 DEF Enter, Types
  <2> QED
    BY <1>1, <2>2, <2>3 DEF Enter, Types
<1>2. CASE Esc
  <2>1. escs' \in 0 .. MaxEsc
    BY <1>2 DEF Esc, Types
  <2>2. sending' \in [Command -> Nat]
    <3>1. "focus" \in Command
      BY DEF Command
    <3> QED
      BY <1>2, <3>1 DEF Esc, Types
  <2>3. turn' \in {"idle", "starting", "run", "cancelled"}
    BY <1>2 DEF Esc, cancelMainTurn, Types
  <2> QED
    BY <1>2, <2>1, <2>2, <2>3 DEF Esc, Types
<1>3. CASE Focus \/ CloseSub \/ reconcileFocusedAgent \/ ClearQueue
  BY <1>3 DEF Focus, CloseSub, reconcileFocusedAgent, ClearQueue, keyboard, bounds, Types
<1>4. ASSUME NEW k \in Command, SendInput(k) PROVE Types'
  <2>1. sending' \in [Command -> Nat]
    BY <1>4 DEF SendInput, Types
  <2>2. turn' \in {"idle", "starting", "run", "cancelled"} /\ inbox' \in Nat
    BY <1>4 DEF SendInput, SubmitRoot, Types
  <2> QED
    BY <1>4, <2>1, <2>2 DEF SendInput, keyboard, Types
<1>5. CASE DeliverAppend
  <2>1. wakes' \in 0 .. MaxWakes /\ inbox' \in Nat
    BY <1>5 DEF DeliverAppend, Types
  <2> QED
    BY <1>5, <2>1 DEF DeliverAppend, keyboard, Types
<1>6. CASE NotifyWake
  BY <1>0, <1>6 DEF NotifyWake, keyboard, Types
<1>7. CASE DeliverSubmit
  BY <1>7 DEF DeliverSubmit, SubmitRoot, keyboard, Types
<1>8. CASE FinishTurn
  <2>1. /\ turn' \in {"idle", "starting", "run", "cancelled"} /\ inbox' \in Nat
        /\ reports' = reports \/ \E r \in Report : reports' = [reports EXCEPT ![r] = @ + 1]
    BY <1>8 DEF FinishTurn, Release, Types, Report
  <2>2. reports' \in [Report -> Nat]
    BY <2>1 DEF Types
  <2> QED
    BY <1>8, <2>1, <2>2 DEF FinishTurn, keyboard, Types
<1>9. ASSUME NEW r \in Report, ReportDone(r) PROVE Types'
  <2>1. reports' \in [Report -> Nat]
    BY <1>9 DEF ReportDone, Types
  <2> QED
    BY <1>0, <1>9, <2>1 DEF ReportDone, keyboard, Types
<1>10. CASE FocusRoot
  <2>1. sending' \in [Command -> Nat]
    <3>1. "focus" \in Command
      BY DEF Command
    <3> QED
      BY <1>10, <3>1 DEF FocusRoot, Types
  <2> QED
    BY <1>0, <1>10, <2>1 DEF FocusRoot, keyboard, Types
<1>11. CASE HandleFocus \/ HandleWakeup
  BY <1>0, <1>11 DEF HandleFocus, HandleWakeup, bounds, Types
<1>12. CASE HandleDone
  <2>1. turn' \in {"idle", "starting", "run", "cancelled"} /\ inbox' \in Nat
    BY <1>12 DEF HandleDone, SubmitRoot, Types
  <2> QED
    BY <1>0, <1>12, <2>1 DEF HandleDone, bounds, Types
<1> QED
  BY <1>1, <1>2, <1>3, <1>4, <1>5, <1>6, <1>7, <1>8, <1>9, <1>10, <1>11, <1>12, <1>13,
     <1>14, <1>15 DEF HarnessNext

\* Every step keeps the flags.
LEMMA BooleansStep ==
  ASSUME Booleans, HarnessNext
  PROVE  Booleans'
<1>1. /\ streaming' = streaming \/ streaming' = TRUE \/ streaming' = FALSE
      /\ cancelFlushQueue' = cancelFlushQueue \/ cancelFlushQueue' = TRUE
                                               \/ cancelFlushQueue' = FALSE
      /\ subFed' = subFed \/ subFed' = TRUE \/ subFed' = FALSE
      /\ subOpen' = subOpen \/ subOpen' = TRUE \/ subOpen' = FALSE
  <2>1. CASE HandleAbort
    <3>1. cancelFlushQueue' = TRUE \/ cancelFlushQueue' = FALSE
      BY <2>1, Zenon DEF HandleAbort
    <3> QED
      BY <2>1, <3>1, Zenon DEF HandleAbort
  <2>2. CASE ~HandleAbort
    BY <2>2, ZenonT(60)
    DEF HarnessNext, Enter, Esc, Abort, Focus, CloseSub, reconcileFocusedAgent, ClearQueue,
        SendInput, DeliverAppend, NotifyWake, DeliverSubmit, TurnReady, FinishTurn, ReportDone,
        FocusRoot, HandleFocus, HandleWakeup, HandleDone, keyboard, bounds
  <2> QED
    BY <2>1, <2>2
<1> QED
  BY <1>1, Zenon DEF Booleans

\* Every step keeps the count of what is queued.
LEMMA CountedStep ==
  ASSUME Types, Counted, HarnessNext
  PROVE  Counted'
<1>0. /\ sending["main"] \in Nat /\ sending["sub"] \in Nat /\ sending["focus"] \in Nat
      /\ inbox \in Nat /\ inputs \in Nat /\ wakes \in Nat /\ escs \in Nat
      /\ sending \in [Command -> Nat]
      /\ "main" \in Command /\ "sub" \in Command /\ "focus" \in Command
  BY HarnessAssumption DEF Types, Command
<1>1. CASE Enter
  <2>1. /\ inputs' = inputs + 1 /\ UNCHANGED <<inbox, wakes, escs>>
        /\ sending' = [sending EXCEPT ![focusedAgent] = @ + 1]
    BY <1>1 DEF Enter
  <2>2. CASE focusedAgent = "main"
    BY <1>0, <2>1, <2>2 DEF Counted
  <2>3. CASE focusedAgent = "sub"
    BY <1>0, <2>1, <2>3 DEF Counted
  <2> QED
    BY <2>2, <2>3 DEF Types
<1>2. CASE Esc
  BY <1>0, <1>2 DEF Esc, Counted
<1>13. CASE Abort
  BY <1>0, <1>13 DEF Abort, Counted
<1>14. CASE TurnReady
  BY <1>0, <1>14 DEF TurnReady, keyboard, Counted
<1>15. CASE HandleAbort
  BY <1>0, <1>15 DEF HandleAbort, bounds, Counted
<1>3. CASE Focus \/ CloseSub \/ reconcileFocusedAgent \/ ClearQueue
  BY <1>0, <1>3 DEF Focus, CloseSub, reconcileFocusedAgent, ClearQueue, keyboard, bounds, Counted
<1>4. ASSUME NEW k \in Command, SendInput(k) PROVE Counted'
  <2>1. /\ UNCHANGED <<inputs, wakes, escs>> /\ sending' = [sending EXCEPT ![k] = @ - 1]
        /\ k \in {"main", "sub"} /\ sending[k] > 0
        /\ inbox' \in {0, inbox, inbox + 1}
    BY <1>4 DEF SendInput, SubmitRoot, keyboard, Command
  <2> QED
    BY <1>0, <1>4, <2>1 DEF Counted, SendInput
<1>5. CASE DeliverAppend
  BY <1>0, <1>5 DEF DeliverAppend, keyboard, Counted
<1>6. CASE NotifyWake
  BY <1>0, <1>6 DEF NotifyWake, keyboard, Counted
<1>7. CASE DeliverSubmit
  BY <1>0, <1>7 DEF DeliverSubmit, SubmitRoot, keyboard, Counted
<1>8. CASE FinishTurn
  <2>1. inbox' \in {0, inbox} /\ UNCHANGED <<sending, inputs, wakes, escs>>
    BY <1>8 DEF FinishTurn, Release, keyboard
  <2> QED
    BY <1>0, <2>1 DEF Counted
<1>9. ASSUME NEW r \in Report, ReportDone(r) PROVE Counted'
  BY <1>0, <1>9 DEF ReportDone, keyboard, Counted
<1>10. CASE FocusRoot
  BY <1>0, <1>10 DEF FocusRoot, keyboard, Counted
<1>11. CASE HandleFocus \/ HandleWakeup
  BY <1>0, <1>11 DEF HandleFocus, HandleWakeup, bounds, Counted
<1>12. CASE HandleDone
  <2>1. inbox' \in {0, inbox, inbox + 0} /\ UNCHANGED <<sending, inputs, wakes, escs>>
    BY <1>12 DEF HandleDone, SubmitRoot, bounds
  <2> QED
    BY <1>0, <2>1 DEF Counted
<1> QED
  BY <1>1, <1>2, <1>3, <1>4, <1>5, <1>6, <1>7, <1>8, <1>9, <1>10, <1>11, <1>12, <1>13,
     <1>14, <1>15 DEF HarnessNext

-----------------------------------------------------------------------------
(* The steps: what is owed.                                                *)

\* A turn in flight stays so until its report is queued.
LEMMA InFlightKept ==
  ASSUME Types, HarnessNext, ~\E r \in Report : ReportDone(r)
  PROVE  InFlight => InFlight'
<1>0. \A r \in Report : reports[r] \in Nat
  BY DEF Types
<1>1. CASE FinishTurn
  <2>1. CASE UNCHANGED <<turn, waking>>
    <3>1. turn # "idle"
      BY <1>1 DEF FinishTurn
    <3> QED
      BY <2>1, <3>1 DEF InFlight
  <2>2. CASE turn' = "starting"
    BY <2>2 DEF InFlight
  <2>3. CASE \E r \in Report : Release(r)
    <3>1. PICK r \in Report : reports' = [reports EXCEPT ![r] = @ + 1]
      BY <2>3 DEF Release
    <3>2. reports'[r] = reports[r] + 1
      BY <3>1 DEF Types
    <3>3. reports'[r] > 0
      BY <1>0, <3>2
    <3> QED
      BY <3>3 DEF InFlight
  <2> QED
    BY <1>1, <2>1, <2>2, <2>3 DEF FinishTurn, Report
<1>2. CASE DeliverSubmit
  <2>1. turn' # "idle"
    BY <1>2 DEF DeliverSubmit, SubmitRoot
  <2> QED
    BY <2>1 DEF InFlight
<1>3. ASSUME UNCHANGED reports,
             turn # "idle" => turn' # "idle", waking = "notified" => waking' = "notified"
      PROVE  InFlight => InFlight'
  BY <1>3 DEF InFlight
<1>4. CASE Enter \/ Esc \/ Abort \/ Focus \/ CloseSub \/ reconcileFocusedAgent \/ ClearQueue
  BY <1>3, <1>4 DEF Enter, Esc, cancelMainTurn, Abort, Focus, CloseSub, reconcileFocusedAgent, ClearQueue
<1>5. CASE \/ \E a \in Command : SendInput(a)
           \/ DeliverAppend \/ NotifyWake \/ TurnReady \/ FocusRoot
  BY <1>3, <1>5 DEF SendInput, SubmitRoot, DeliverAppend, NotifyWake, TurnReady, FocusRoot
<1>6. CASE HandleFocus \/ HandleWakeup \/ HandleAbort \/ HandleDone
  BY <1>3, <1>6 DEF SubmitRoot, HandleFocus, HandleWakeup, HandleAbort, cancelMainTurn, HandleDone
<1> QED
  BY <1>1, <1>2, <1>4, <1>5, <1>6 DEF HarnessNext

\* Every step keeps a report behind each wakeup.
LEMMA WakesStep ==
  ASSUME Types, WakesOwed, HarnessNext
  PROVE  WakesOwed'
<1>0. msgs \in Seq(Msg) /\ Report \subseteq Msg
      /\ "agentWakeupMsg" \in Msg /\ "FocusAgentMsg" \in Msg /\ "abortStreamMsg" \in Msg
  BY DEF Types, Msg
<1>1. ASSUME NEW r \in Report, ReportDone(r) PROVE WakesOwed'
  BY <1>0, <1>1, WakesAfterAppend DEF ReportDone
<1>2. CASE NotifyWake
  <2>1. InFlight' /\ msgs' = Append(msgs, "agentWakeupMsg")
    BY <1>2 DEF NotifyWake, InFlight
  <2> QED
    BY <1>0, <2>1, WakesAfterAppend
<1>3. CASE FocusRoot \/ Abort
  <2>1. /\ msgs' = Append(msgs, "FocusAgentMsg") \/ msgs' = Append(msgs, "abortStreamMsg")
        /\ UNCHANGED <<turn, waking, reports>>
    BY <1>3 DEF FocusRoot, Abort
  <2>2. InFlight => InFlight'
    BY <2>1 DEF InFlight
  <2> QED
    BY <1>0, <2>1, <2>2, WakesAfterAppend
<1>4. CASE HandleFocus \/ HandleWakeup \/ HandleAbort \/ HandleDone
  <2>1. msgs # << >> /\ msgs' = Tail(msgs)
    BY <1>4 DEF HandleFocus, HandleWakeup, HandleAbort, HandleDone
  <2>2. ASSUME NEW r \in Report, ReportDone(r) PROVE InFlight => InFlight'
    <3>1. Len(msgs') = Len(msgs) + 1 /\ Len(msgs') = Len(msgs) - 1 /\ Len(msgs) \in Nat
      BY <1>0, <2>1, <2>2 DEF ReportDone
    <3> QED
      BY <3>1
  <2>3. InFlight => InFlight'
    BY <2>2, InFlightKept
  <2> QED
    BY <1>0, <2>1, <2>3, WakesAfterTail
<1>5. CASE /\ UNCHANGED msgs
           /\ ~\E r \in Report : ReportDone(r)
  BY <1>5, InFlightKept, WakesKept
<1>6. \/ UNCHANGED msgs \/ NotifyWake \/ FocusRoot \/ Abort
      \/ HandleFocus \/ HandleWakeup \/ HandleAbort \/ HandleDone
      \/ \E r \in Report : ReportDone(r)
  BY DEF HarnessNext, Enter, Esc, Focus, CloseSub, reconcileFocusedAgent, ClearQueue,
         SendInput, DeliverAppend, DeliverSubmit, TurnReady, FinishTurn
<1> QED
  BY <1>1, <1>2, <1>3, <1>4, <1>5, <1>6

\* A report stays ahead until Update takes one.
LEMMA OwedKept ==
  ASSUME Types, HarnessNext, ~HandleDone
  PROVE  Owed(0) => Owed(0)'
<1>0. msgs \in Seq(Msg) /\ Report \subseteq Msg
      /\ "agentWakeupMsg" \in Msg /\ "FocusAgentMsg" \in Msg /\ "abortStreamMsg" \in Msg
      /\ "agentWakeupMsg" \notin Report /\ "FocusAgentMsg" \notin Report
      /\ "abortStreamMsg" \notin Report
  BY DEF Types, Msg, Report
<1>1. ASSUME NEW r \in Report, ReportDone(r) PROVE Owed(0)'
  <2>1. Len(msgs) \in Nat /\ 0 \in 0 .. Len(msgs)
    BY <1>0
  <2>2. ReportAfter(0)'
    BY <1>0, <1>1, <2>1, Appended DEF ReportDone
  <2> QED
    BY <2>2 DEF Owed
<1>2. CASE ~\E r \in Report : ReportDone(r)
  <2>1. InFlight => InFlight'
    BY <1>2, InFlightKept
  <2>2. ReportAfter(0) => ReportAfter(0)'
    <3>1. CASE UNCHANGED msgs
      BY <3>1 DEF ReportAfter
    <3>2. CASE NotifyWake \/ FocusRoot \/ Abort
      BY <1>0, <3>2, Appended DEF NotifyWake, FocusRoot, Abort
    <3>3. CASE HandleFocus \/ HandleWakeup \/ HandleAbort
      BY <1>0, <3>3, Taken DEF HandleFocus, HandleWakeup, HandleAbort
    <3> QED
      BY <1>2, <3>1, <3>2, <3>3
      DEF HarnessNext, Enter, Esc, Focus, CloseSub, reconcileFocusedAgent, ClearQueue,
          SendInput, DeliverAppend, DeliverSubmit, TurnReady, FinishTurn
  <2> QED
    BY <2>1, <2>2 DEF Owed
<1> QED
  BY <1>1, <1>2

\* Every step keeps what will put the indicator out.
LEMMA LightStep ==
  ASSUME Types, WakesOwed, LightOwed, HarnessNext
  PROVE  LightOwed'
<1>0. /\ msgs \in Seq(Msg)
      /\ sending \in [Command -> Nat]
      /\ "main" \in Command /\ "sub" \in Command /\ "focus" \in Command
      /\ sending["main"] \in Nat /\ sending["sub"] \in Nat
  BY DEF Types, Command
<1>1. CASE Enter
  <2>1. Typed'
    <3>1. CASE focusedAgent = "main"
      BY <1>0, <1>1, <3>1 DEF Enter, Typed
    <3>2. CASE focusedAgent = "sub"
      BY <1>0, <1>1, <3>2 DEF Enter, Typed
    <3> QED
      BY <3>1, <3>2 DEF Types
  <2> QED
    BY <2>1 DEF LightOwed
<1>2. ASSUME NEW k \in Command, SendInput(k) PROVE LightOwed'
  <2>1. CASE k = "sub" /\ subOpen
    BY <1>2, <2>1, Zenon DEF SendInput, LightOwed
  <2>2. CASE ~(k = "sub" /\ subOpen)
    <3>1. turn' # "idle"
      BY <1>2, <2>2 DEF SendInput, SubmitRoot
    <3> QED
      BY <3>1 DEF LightOwed, Owed, InFlight
  <2> QED
    BY <2>1, <2>2
<1>3. CASE HandleWakeup
  <2>1. /\ msgs # << >> /\ msgs' = Tail(msgs) /\ Head(msgs) = "agentWakeupMsg"
        /\ UNCHANGED <<turn, waking, reports>>
    BY <1>3 DEF HandleWakeup
  <2>2. /\ Len(msgs) = Len(msgs') + 1 /\ Len(msgs') \in Nat /\ msgs[1] = "agentWakeupMsg"
        /\ \A i \in 1 .. Len(msgs) : ReportAfter(i) => ReportAfter(i - 1)'
    BY <1>0, <2>1, Taken
  <2>3. 1 \in 1 .. Len(msgs) /\ 1 - 1 = 0
    BY <2>2
  <2>4. Owed(1)
    BY <2>2, <2>3 DEF WakesOwed
  <2>5. ReportAfter(1) => ReportAfter(1 - 1)'
    BY <2>2, <2>3
  <2>6. ReportAfter(1 - 1)' => ReportAfter(0)'
    BY <2>3
  <2>7. InFlight => InFlight'
    BY <2>1 DEF InFlight
  <2>8. Owed(0)'
    BY <2>4, <2>5, <2>6, <2>7 DEF Owed
  <2> QED
    BY <2>8 DEF LightOwed
<1>4. CASE HandleDone
  <2>1. CASE cancelFlushQueue /\ Head(msgs) = "cancelled" /\ inbox > 0
    <3>1. turn' # "idle"
      BY <1>4, <2>1 DEF HandleDone, SubmitRoot
    <3> QED
      BY <3>1 DEF LightOwed, Owed, InFlight
  <2>2. CASE ~(cancelFlushQueue /\ Head(msgs) = "cancelled" /\ inbox > 0)
    BY <1>4, <2>2, Zenon DEF HandleDone, LightOwed
  <2> QED
    BY <2>1, <2>2
<1>5. ASSUME UNCHANGED <<streaming, subFed, cancelFlushQueue>>, Typed => Typed', ~HandleDone
      PROVE  LightOwed'
  BY <1>5, OwedKept DEF LightOwed
<1>6. CASE FocusRoot
  <2>1. sending'["main"] = sending["main"] /\ sending'["sub"] = sending["sub"]
    BY <1>0, <1>6 DEF FocusRoot
  <2>2. UNCHANGED <<streaming, subFed, cancelFlushQueue>>
    BY <1>6 DEF FocusRoot, keyboard
  <2> QED
    BY <1>4, <1>5, <2>1, <2>2 DEF Typed
<1>7. CASE Esc \/ HandleAbort
  <2>1. /\ Typed => Typed'
        /\ streaming' = streaming /\ subFed' = subFed
        /\ cancelFlushQueue' => cancelFlushQueue \/ mainTurnActive
    <3>1. CASE Esc
      <4>1. sending'["main"] = sending["main"] /\ sending'["sub"] = sending["sub"]
        BY <1>0, <3>1 DEF Esc
      <4>2. cancelFlushQueue' => cancelFlushQueue \/ mainTurnActive
        BY <3>1, Zenon DEF Esc
      <4> QED
        BY <3>1, <4>1, <4>2 DEF Esc, Typed
    <3>2. CASE HandleAbort
      <4>1. cancelFlushQueue' => cancelFlushQueue \/ mainTurnActive
        BY <3>2, Zenon DEF HandleAbort
      <4> QED
        BY <3>2, <4>1 DEF HandleAbort, Typed
    <3> QED
      BY <1>7, <3>1, <3>2
  <2>2. Owed(0) => Owed(0)'
    <3>1. ~HandleDone
      <4>1. ASSUME HandleDone, Esc PROVE FALSE
        BY <1>0, <4>1, Taken DEF HandleDone, Esc
      <4>2. ASSUME HandleDone, HandleAbort PROVE FALSE
        BY <4>2 DEF HandleDone, HandleAbort, Report
      <4> QED
        BY <1>7, <4>1, <4>2
    <3> QED
      BY <3>1, OwedKept
  <2>3. turn # "idle" => Owed(0)
    BY DEF Owed, InFlight
  <2>4. cancelFlushQueue' => cancelFlushQueue \/ streaming \/ turn # "idle"
    BY <2>1 DEF mainTurnActive
  <2> QED
    BY <2>1, <2>2, <2>3, <2>4, Zenon DEF LightOwed
<1>8. ASSUME UNCHANGED <<streaming, subFed, cancelFlushQueue, sending>> PROVE LightOwed'
  BY <1>4, <1>5, <1>8 DEF Typed
<1>9. CASE Focus \/ CloseSub \/ reconcileFocusedAgent \/ ClearQueue
  BY <1>8, <1>9 DEF Focus, CloseSub, reconcileFocusedAgent, ClearQueue, keyboard
<1>10. CASE \/ DeliverAppend \/ NotifyWake \/ DeliverSubmit \/ TurnReady \/ FinishTurn
            \/ Abort \/ HandleFocus
            \/ \E r \in Report : ReportDone(r)
  BY <1>8, <1>10 DEF DeliverAppend, NotifyWake, DeliverSubmit, TurnReady, FinishTurn, Abort,
                     HandleFocus, ReportDone, keyboard
<1> QED
  BY <1>1, <1>2, <1>3, <1>4, <1>6, <1>7, <1>9, <1>10 DEF HarnessNext

\* Every step keeps the invariant.
LEMMA HarnessKept == HarnessInv /\ [HarnessNext]_harnessVars => HarnessInv'
<1> SUFFICES ASSUME HarnessInv, [HarnessNext]_harnessVars PROVE HarnessInv'
  OBVIOUS
<1>1. CASE HarnessNext
  BY <1>1, TypesStep, BooleansStep, CountedStep, WakesStep, LightStep DEF HarnessInv
<1>2. CASE UNCHANGED harnessVars
  <2>1. Types' /\ Counted'
    BY <1>2 DEF harnessVars, HarnessInv, Types, Counted
  <2>2. Booleans'
    BY <1>2 DEF harnessVars, HarnessInv, Booleans
  <2>3. WakesOwed'
    BY <1>2 DEF harnessVars, HarnessInv, WakesOwed, Owed, InFlight, ReportAfter
  <2>4. LightOwed'
    BY <1>2 DEF harnessVars, HarnessInv, LightOwed, Typed, Owed, InFlight, ReportAfter
  <2> QED
    BY <2>1, <2>2, <2>3, <2>4 DEF HarnessInv
<1> QED
  BY <1>1, <1>2

-----------------------------------------------------------------------------
(* What follows.                                                           *)

\* The flags, the queue of Update and the counts keep their types and bounds:
\* nothing is queued for the root but what was typed or delivered.
THEOREM HarnessTypeCorrect == HarnessSpec => []HarnessTypeOK
BY HarnessInitial, HarnessKept, HarnessInvTypes, PTL DEF HarnessSpec

\* At rest nothing that was owed is left to come.
LEMMA NothingOwed == HarnessInv /\ AtRest => (~streaming /\ ~cancelFlushQueue) \/ subFed
<1> SUFFICES ASSUME HarnessInv, AtRest, streaming \/ cancelFlushQueue, ~subFed PROVE FALSE
  BY Zenon
<1>1. Typed \/ InFlight \/ ReportAfter(0)
  BY DEF HarnessInv, LightOwed, Owed
<1>2. ~Typed
  BY DEF AtRest, Typed, Command
<1>3. ~InFlight
  BY DEF AtRest, InFlight
<1>4. ~ReportAfter(0)
  <2>1. Len(msgs) = 0
    BY DEF AtRest
  <2> QED
    BY <2>1 DEF ReportAfter
<1> QED
  BY <1>1, <1>2, <1>3, <1>4

\* The streaming indicator is off when nothing is under way, for any number of
\* inputs, wakes and cancels in any order, unless input went to a sub-agent
\* (model.go: the handlers of agentWakeupMsg and StreamDoneMsg).
THEOREM IndicatorGoesOffCorrect == HarnessSpec => []IndicatorGoesOff
<1>1. HarnessInv => IndicatorGoesOff
  BY NothingOwed, Zenon DEF IndicatorGoesOff
<1> QED
  BY HarnessInitial, HarnessKept, <1>1, PTL DEF HarnessSpec

\* The flush of the queue is not armed when nothing is under way, for any number
\* of cancels, also of those that meet no turn, the report of an earlier turn, or
\* a turn that they do not reach, unless input went to a sub-agent (model.go: Esc,
\* abortStreamMsg and StreamDoneMsg).
THEOREM FlushIsSpentCorrect == HarnessSpec => []FlushIsSpent
<1>1. HarnessInv => FlushIsSpent
  BY NothingOwed, Zenon DEF FlushIsSpent
<1> QED
  BY HarnessInitial, HarnessKept, <1>1, PTL DEF HarnessSpec

=============================================================================
