---------------------------- MODULE Calls_proofs ----------------------------
(* Theorems about McpClient, for any requests and any size of the pipes;   *)
(* about CallStacks, for any extensions and goroutines; and about LogDrain, *)
(* for any goroutines that log and any sizes of the ring and the queue.     *)
EXTENDS MCCalls, ToolCalls_proofs, ExtensionHost_proofs, FiniteSetTheorems, SequenceTheorems

-----------------------------------------------------------------------------
(* McpClient.                                                              *)

\* What is in the pipes, with the server or with the read loop was asked.
AskedOnly ==
  /\ \A r \in stdin \cup owed : rpc[r] # "none"
  /\ \A i \in 1..Len(stdout) : stdout[i] \in Request /\ rpc[stdout[i]] # "none"
  /\ reader[1] \in {"find", "send"} =>
       reader[2] \in Request /\ rpc[reader[2]] # "none"

McpInv ==
  /\ McpTypeOK /\ AskedOnly
  /\ stdout \in Seq(Request)
  /\ reader = <<reader[1], reader[2]>>

\* At the start nothing was asked.
LEMMA McpInitial == McpInit => McpInv
<1> SUFFICES ASSUME McpInit PROVE McpInv
  OBVIOUS
<1>1. stdout = << >> /\ Len(stdout) = 0 /\ reader = <<"scan", Nobody>>
  BY DEF McpInit
<1>2. McpTypeOK
  <2>1. /\ rpc \in [Request -> {"none", "ready", "writing", "waiting", "leaving", "done"}]
        /\ respCh \in [Request -> {0, 1}]
    BY DEF McpInit
  <2>2. pend = {r \in Request : rpc[r] \notin {"none", "done"}}
    BY DEF McpInit
  <2>3. exited \in BOOLEAN
    BY Zenon DEF McpInit
  <2>6. reader[1] = "scan" /\ mu \notin Request
    BY <1>1, McpAssumption DEF McpInit
  <2>4. Len(stdout) <= PipeSize
    BY <1>1, McpAssumption
  <2>5. expired \subseteq Request /\ owed \subseteq Request /\ stdin \subseteq Request
    BY DEF McpInit
  <2> QED
    BY <2>1, <2>2, <2>3, <2>4, <2>5, <2>6 DEF McpTypeOK
<1> QED
  BY <1>1, <1>2 DEF McpInit, McpInv, AskedOnly

\* Every step keeps the connection in order.
LEMMA McpKept == McpInv /\ [McpNext]_mcpVars => McpInv'
<1> SUFFICES ASSUME McpInv, [McpNext]_mcpVars PROVE McpInv'
  OBVIOUS
<1> USE McpAssumption DEF McpInv, McpTypeOK, AskedOnly
<1>1. ASSUME NEW r \in Request, Register(r) PROVE McpInv'
  BY <1>1 DEF Register
<1>2. ASSUME NEW r \in Request, LockStdin(r) PROVE McpInv'
  BY <1>2 DEF LockStdin
<1>3. ASSUME NEW r \in Request, Write(r) PROVE McpInv'
  BY <1>3 DEF Write
<1>4. ASSUME NEW r \in Request, ContextDone(r) PROVE McpInv'
  BY <1>4 DEF ContextDone
<1>5. ASSUME NEW r \in Request, Select(r) PROVE McpInv'
  BY <1>5 DEF Select
<1>6. ASSUME NEW r \in Request, CleanUp(r) PROVE McpInv'
  BY <1>6 DEF CleanUp
<1>7. CASE ReadLine
  <2>1. /\ Head(stdout) = stdout[1] /\ 1 \in 1..Len(stdout)
        /\ Tail(stdout) \in Seq(Request) /\ Len(Tail(stdout)) = Len(stdout) - 1
        /\ \A i \in 1..Len(Tail(stdout)) :
             Tail(stdout)[i] = stdout[i + 1] /\ i + 1 \in 1..Len(stdout)
    BY <1>7 DEF ReadLine
  <2> QED
    BY <1>7, <2>1 DEF ReadLine
<1>8. CASE Find
  BY <1>8 DEF Find
<1>9. CASE SendAnswer
  BY <1>9 DEF SendAnswer
<1>10. CASE EndOfOutput
  BY <1>10 DEF EndOfOutput
<1>11. ASSUME NEW r \in Request, ServerReads(r) PROVE McpInv'
  BY <1>11 DEF ServerReads
<1>12. ASSUME NEW r \in Request, ServerAnswers(r) PROVE McpInv'
  <2>1. /\ stdout' \in Seq(Request) /\ Len(stdout') = Len(stdout) + 1
        /\ \A i \in 1..Len(stdout) : stdout'[i] = stdout[i]
        /\ stdout'[Len(stdout) + 1] = r
    BY <1>12 DEF ServerAnswers
  <2> QED
    BY <1>12, <2>1 DEF ServerAnswers
<1>13. CASE ServerExits
  BY <1>13 DEF ServerExits
<1>14. CASE UNCHANGED mcpVars
  BY <1>14 DEF mcpVars
<1> QED
  BY <1>1, <1>2, <1>3, <1>4, <1>5, <1>6, <1>7, <1>8, <1>9, <1>10, <1>11,
     <1>12, <1>13, <1>14 DEF McpNext

\* The connection stays in order.
LEMMA McpSteps == McpSpec => []McpInv
BY McpInitial, McpKept, PTL DEF McpSpec

\* The map holds exactly the calls under way, a channel never gets a second
\* answer while it has one, and the mutex is held by a writer only.
THEOREM McpTypeCorrect == McpSpec => []McpTypeOK
<1>1. McpInv => McpTypeOK
  BY DEF McpInv
<1> QED
  BY <1>1, McpSteps, PTL

\* The read loop drops an answer only when its call has ended, for any number of
\* calls and answers that come at once, late or twice.
THEOREM NoAnswerDroppedCorrect == McpSpec => NoAnswerDropped
<1>1. McpInv /\ [McpNext]_mcpVars
        => [reader[1] = "find" /\ reader'[1] = "scan" => rpc[reader[2]] = "done"]_mcpVars
  <2> SUFFICES ASSUME McpInv, McpNext, reader[1] = "find", reader'[1] = "scan"
               PROVE  rpc[reader[2]] = "done"
    OBVIOUS
  <2>1. Find
    BY DEF McpNext, Register, LockStdin, Write, ContextDone, Select, CleanUp,
           ReadLine, SendAnswer, EndOfOutput, ServerReads, ServerAnswers, ServerExits
  <2>2. reader[2] \in Request /\ rpc[reader[2]] # "none"
    BY DEF McpInv, AskedOnly
  <2>3. reader[2] \notin pend
    BY <2>1 DEF Find, McpInv
  <2> QED
    BY <2>2, <2>3 DEF McpInv, McpTypeOK
<1> QED
  BY <1>1, McpSteps, PTL DEF McpSpec, NoAnswerDropped

-----------------------------------------------------------------------------
(* CallStacks: the shape of the stacks.                                    *)

\* What can be on a stack, and what can be above a call inside an extension:
\* nothing of it waits for another goroutine while the loop is not in Update.
Above == {"send", "deliver", "submit", "spawn"}

Op == {<<"event">>, <<"submit">>, <<"deliver">>, <<"spawn">>, <<"turn">>, <<"turnStart">>,
       <<"await">>, <<"send", "draw">>, <<"send", "notify">>}
      \cup {<<"enter", i>> : i \in DOMAIN Subscriber} \cup {<<"in", i>> : i \in DOMAIN Subscriber}

NoIn(q) == \A j \in DOMAIN q : q[j][1] # "in"
HasIn(q, i) == \E j \in DOMAIN q : q[j] = <<"in", i>>

Shaped(q) == \A j, k \in DOMAIN q : j < k /\ q[k][1] = "in" => q[j][1] \in Above

\* The stacks fit the mutexes of the extensions.
Fits(s) ==
  /\ s \in [Actor -> Seq(Op)] /\ s[Loop] = << >>
  /\ \A a \in Actor : Shaped(s[a])
  /\ \A a \in Actor, i \in DOMAIN Subscriber : entered[i] = a <=> HasIn(s[a], i)

StackInv ==
  /\ Fits(stack)
  /\ entered \in [DOMAIN Subscriber -> Actor \cup {Nobody0}]
  /\ running \in BOOLEAN /\ starting \in BOOLEAN /\ work \in 0 .. MaxWork

\* A stack without its top.
LEMMA Popped ==
  ASSUME NEW q \in Seq(Op), q # << >>, Shaped(q)
  PROVE  /\ Tail(q) \in Seq(Op) /\ Head(q) \in Op /\ Shaped(Tail(q))
         /\ Head(q)[1] \notin Above => NoIn(Tail(q))
         /\ Head(q)[1] # "in" => \A i : HasIn(Tail(q), i) <=> HasIn(q, i)
         /\ \A i : Head(q) = <<"in", i>> => HasIn(q, i)
<1>1. /\ Tail(q) \in Seq(Op) /\ Head(q) \in Op /\ Len(q) \in Nat \ {0}
      /\ DOMAIN q = 1 .. Len(q) /\ DOMAIN Tail(q) = 1 .. Len(q) - 1
      /\ \A j \in 1 .. Len(q) - 1 : Tail(q)[j] = q[j + 1]
      /\ Head(q) = q[1]
  OBVIOUS
<1>2. Shaped(Tail(q))
  BY <1>1 DEF Shaped
<1>3. Head(q)[1] \notin Above => NoIn(Tail(q))
  BY <1>1 DEF Shaped, NoIn
<1>4. ASSUME Head(q)[1] # "in", NEW i PROVE HasIn(Tail(q), i) <=> HasIn(q, i)
  <2>1. q[1] # <<"in", i>>
    BY <1>1, <1>4
  <2>2. ASSUME NEW j \in DOMAIN q, q[j] = <<"in", i>>
        PROVE  j - 1 \in DOMAIN Tail(q) /\ Tail(q)[j - 1] = <<"in", i>>
    BY <1>1, <2>1, <2>2
  <2> QED
    BY <1>1, <2>2 DEF HasIn
<1>5. \A i : Head(q) = <<"in", i>> => HasIn(q, i)
  BY <1>1 DEF HasIn
<1> QED
  BY <1>1, <1>2, <1>3, <1>4, <1>5

\* A stack with more on it.
LEMMA Stacked ==
  ASSUME NEW q \in Seq(Op), NEW ops \in Seq(Op), Shaped(q), NoIn(ops),
         NoIn(q) \/ \A j \in DOMAIN ops : ops[j][1] \in Above
  PROVE  /\ ops \o q \in Seq(Op) /\ Shaped(ops \o q)
         /\ \A i : HasIn(ops \o q, i) <=> HasIn(q, i)
<1> DEFINE r == ops \o q
<1>1. /\ r \in Seq(Op) /\ Len(r) = Len(ops) + Len(q) /\ Len(q) \in Nat /\ Len(ops) \in Nat
      /\ DOMAIN r = 1 .. Len(ops) + Len(q) /\ DOMAIN ops = 1 .. Len(ops)
      /\ DOMAIN q = 1 .. Len(q)
      /\ \A j \in 1 .. Len(ops) : r[j] = ops[j]
      /\ \A j \in 1 .. Len(q) : r[Len(ops) + j] = q[j]
  OBVIOUS
<1> HIDE DEF r
<1>2. ASSUME NEW k \in DOMAIN r, r[k][1] = "in"
      PROVE  /\ k - Len(ops) \in DOMAIN q /\ r[k] = q[k - Len(ops)]
             /\ q[k - Len(ops)][1] = "in"
  <2>1. k \notin 1 .. Len(ops)
    BY <1>1, <1>2 DEF NoIn
  <2>2. k - Len(ops) \in 1 .. Len(q) /\ Len(ops) + (k - Len(ops)) = k
    BY <1>1, <2>1
  <2> QED
    BY <1>1, <1>2, <2>2
<1>3. Shaped(r)
  <2> SUFFICES ASSUME NEW j \in DOMAIN r, NEW k \in DOMAIN r, j < k, r[k][1] = "in"
               PROVE  r[j][1] \in Above
    BY DEF Shaped
  <2>1. k - Len(ops) \in DOMAIN q /\ q[k - Len(ops)][1] = "in"
    BY <1>2
  <2>2. CASE j \in 1 .. Len(ops)
    BY <1>1, <2>1, <2>2 DEF NoIn
  <2>3. CASE j \notin 1 .. Len(ops)
    <3>1. /\ j - Len(ops) \in DOMAIN q /\ Len(ops) + (j - Len(ops)) = j
          /\ j - Len(ops) < k - Len(ops)
      BY <1>1, <2>3
    <3> QED
      BY <1>1, <2>1, <3>1 DEF Shaped
  <2> QED
    BY <2>2, <2>3
<1>4. ASSUME NEW i PROVE HasIn(r, i) <=> HasIn(q, i)
  <2>1. HasIn(r, i) => HasIn(q, i)
    <3> SUFFICES ASSUME NEW k \in DOMAIN r, r[k] = <<"in", i>> PROVE HasIn(q, i)
      BY DEF HasIn
    <3>1. r[k][1] = "in"
      OBVIOUS
    <3> QED
      BY <1>2, <3>1 DEF HasIn
  <2>2. HasIn(q, i) => HasIn(r, i)
    <3> SUFFICES ASSUME NEW k \in DOMAIN q, q[k] = <<"in", i>> PROVE HasIn(r, i)
      BY DEF HasIn
    <3>1. Len(ops) + k \in DOMAIN r /\ r[Len(ops) + k] = <<"in", i>>
      BY <1>1
    <3> QED
      BY <3>1 DEF HasIn
  <2> QED
    BY <2>1, <2>2
<1> QED
  BY <1>1, <1>3, <1>4 DEF r

\* What is done makes room for what it leads to.
LEMMA ThenFits ==
  ASSUME Fits(stack), NEW a \in Actor, stack[a] # << >>, Head(stack[a])[1] # "in",
         NEW ops \in Seq(Op), NoIn(ops),
         Head(stack[a])[1] \in Above => \A j \in DOMAIN ops : ops[j][1] \in Above
  PROVE  Fits(Then(a, ops)) /\ FreeOf(stack) \subseteq FreeOf(Then(a, ops))
<1> DEFINE q == stack[a]
           r == ops \o Tail(q)
<1>1. q \in Seq(Op) /\ Shaped(q) /\ a # Loop
  BY DEF Fits
<1>2. /\ r \in Seq(Op) /\ Shaped(r)
      /\ \A i : HasIn(r, i) <=> HasIn(q, i)
  BY <1>1, Popped, Stacked
<1>3. Then(a, ops) = [stack EXCEPT ![a] = r]
  BY DEF Then
<1> HIDE DEF r
<1>4. Fits(Then(a, ops))
  BY <1>1, <1>2, <1>3 DEF Fits
<1>5. FreeOf(stack) \subseteq FreeOf(Then(a, ops))
  BY <1>3 DEF FreeOf, Fits
<1> QED
  BY <1>4, <1>5

\* A goroutine starts.
LEMMA GoFits ==
  ASSUME NEW s, Fits(s), FreeOf(s) # {}, NEW ops \in Seq(Op), NoIn(ops)
  PROVE  /\ Fits(Go(s, ops))
         /\ \E g \in FreeOf(s) : FreeOf(s) \ {g} \subseteq FreeOf(Go(s, ops))
<1>1. PICK g \in FreeOf(s) : Go(s, ops) = [s EXCEPT ![g] = ops]
  BY DEF Go
<1>2. g \in Actor /\ g # Loop /\ s[g] = << >>
  BY StackAssumption DEF FreeOf, Actor
<1>3. Shaped(ops)
  BY DEF Shaped, NoIn
<1>4. \A i : ~HasIn(ops, i) /\ ~HasIn(<< >>, i)
  BY DEF HasIn, NoIn
<1>5. Fits(Go(s, ops))
  BY <1>1, <1>2, <1>3, <1>4 DEF Fits
<1>6. FreeOf(s) \ {g} \subseteq FreeOf(Go(s, ops))
  BY <1>1 DEF FreeOf, Fits
<1> QED
  BY <1>1, <1>5, <1>6

\* Room for one goroutine, and for two.
LEMMA Room ==
  /\ CanGo(1) => FreeOf(stack) # {}
  /\ CanGo(2) => \A g : FreeOf(stack) \ {g} # {}
<1>1. ASSUME CanGo(1), FreeOf(stack) = {} PROVE FALSE
  BY <1>1, FS_EmptySet DEF CanGo
<1>2. ASSUME CanGo(2), NEW g, FreeOf(stack) \ {g} = {} PROVE FALSE
  <2>1. Cardinality({}) = 0 /\ Cardinality({g}) = 1
    BY FS_EmptySet, FS_Singleton
  <2>2. Cardinality(FreeOf(stack)) >= 2
    BY <1>2 DEF CanGo
  <2>3. FreeOf(stack) # {} /\ FreeOf(stack) # {g}
    BY <2>1, <2>2
  <2>4. FreeOf(stack) = {} \/ FreeOf(stack) = {g}
    BY <1>2
  <2> QED
    BY <2>3, <2>4
<1> QED
  BY <1>1, <1>2

\* The stacks of the operations that begin something, and no others.
LEMMA ShortStacks ==
  /\ << >> \in Seq(Op) /\ NoIn(<< >>)
  /\ \A x \in Op : x[1] # "in" => <<x>> \in Seq(Op) /\ NoIn(<<x>>)
  /\ \A x, y \in Op : x[1] # "in" /\ y[1] # "in" => <<x, y>> \in Seq(Op) /\ NoIn(<<x, y>>)
BY DEF NoIn

\* Update handles a message that sends none itself.
LEMMA HandledFits ==
  ASSUME NEW s, Fits(s), FreeOf(s) # {}, NEW m \in {"submit", "tick", "draw", "notify"}
  PROVE  Fits(Handled(s, m))
<1>1. Update(m) = << >>
  BY DEF Update
<1>2. [s EXCEPT ![Loop] = Update(m)] = s
  BY <1>1 DEF Fits, Actor
<1>3. Started(m) \in Seq(Op) /\ NoIn(Started(m))
  <2>1. <<"event">> \in Op /\ <<"submit">> \in Op /\ <<"send", "draw">> \in Op
    BY DEF Op
  <2>2. <<"event">>[1] # "in" /\ <<"submit">>[1] # "in" /\ <<"send", "draw">>[1] # "in"
    OBVIOUS
  <2> QED
    BY <2>1, <2>2, ShortStacks DEF Started
<1>4. Fits(Go(s, Started(m)))
  BY <1>3, GoFits
<1> QED
  BY <1>2, <1>4 DEF Handled

\* A goroutine does something new before it goes on.
LEMMA PushFits ==
  ASSUME Fits(stack), NEW a \in Actor, stack[a] # << >>, NEW ops \in Seq(Op), NoIn(ops),
         NoIn(stack[a]) \/ \A j \in DOMAIN ops : ops[j][1] \in Above
  PROVE  Fits([stack EXCEPT ![a] = ops \o @])
<1> DEFINE q == stack[a]
           r == ops \o q
<1>1. q \in Seq(Op) /\ Shaped(q) /\ a # Loop
  BY DEF Fits
<1>2. /\ r \in Seq(Op) /\ Shaped(r)
      /\ \A i : HasIn(r, i) <=> HasIn(q, i)
  BY <1>1, Stacked
<1> HIDE DEF r
<1>3. Fits([stack EXCEPT ![a] = r])
  BY <1>1, <1>2 DEF Fits
<1> QED
  BY <1>3 DEF r

\* The mutex of an extension is taken by a goroutine that is in no other.
LEMMA EnterFits ==
  ASSUME StackInv, NEW a \in Actor, EnterCall(a)
  PROVE  StackInv'
<1> DEFINE q == stack[a]
           i == Arg(a)
           r == << <<"in", i>> >> \o Tail(q)
<1>1. /\ q \in Seq(Op) /\ Shaped(q) /\ a # Loop /\ q # << >> /\ Head(q)[1] = "enter"
      /\ entered[i] = Nobody0
  BY DEF StackInv, Fits, EnterCall, Doing
<1>2. Tail(q) \in Seq(Op) /\ Head(q) \in Op /\ NoIn(Tail(q)) /\ \A j : HasIn(Tail(q), j) <=> HasIn(q, j)
  BY <1>1, Popped DEF Above
<1>3. i \in DOMAIN Subscriber
  BY <1>1, <1>2 DEF Op, Arg
<1>4. <<"in", i>> \in Op
  BY <1>3 DEF Op
<1>5. /\ stack' = [stack EXCEPT ![a] = r]
      /\ entered' = [entered EXCEPT ![i] = a]
      /\ UNCHANGED <<running, starting, work>>
  BY DEF EnterCall, Then
<1>6. /\ r \in Seq(Op) /\ DOMAIN r = 1 .. Len(Tail(q)) + 1 /\ Len(Tail(q)) \in Nat
      /\ r[1] = <<"in", i>> /\ \A j \in 1 .. Len(Tail(q)) : r[j + 1] = Tail(q)[j]
  BY <1>2, <1>4
<1> HIDE DEF r
<1>7. ASSUME NEW k \in DOMAIN r, r[k][1] = "in" PROVE k = 1
  <2> SUFFICES ASSUME k # 1 PROVE FALSE
    OBVIOUS
  <2>1. k - 1 \in 1 .. Len(Tail(q)) /\ (k - 1) + 1 = k
    BY <1>6
  <2>2. Tail(q)[k - 1][1] = "in" /\ k - 1 \in DOMAIN Tail(q)
    BY <2>1, <1>2, <1>6, <1>7
  <2> QED
    BY <2>2, <1>2 DEF NoIn
<1>8. Shaped(r)
  BY <1>6, <1>7 DEF Shaped
<1>9. ASSUME NEW j PROVE HasIn(r, j) <=> j = i
  <2>1. HasIn(r, j) => j = i
    BY <1>6, <1>7 DEF HasIn
  <2> QED
    BY <2>1, <1>6 DEF HasIn
<1>10. ASSUME NEW j PROVE ~HasIn(q, j)
  <2>1. ~HasIn(Tail(q), j)
    BY <1>2 DEF NoIn, HasIn
  <2> QED
    BY <2>1, <1>2
<1> HIDE DEF i, q
<1>11. ASSUME NEW b \in Actor, NEW j \in DOMAIN Subscriber
       PROVE  entered'[j] = b <=> HasIn(stack'[b], j)
  <2>1. entered[j] = b <=> HasIn(stack[b], j)
    BY DEF StackInv, Fits
  <2>2. entered'[j] = (IF j = i THEN a ELSE entered[j])
    BY <1>5 DEF StackInv
  <2>3. stack'[b] = (IF b = a THEN r ELSE stack[b])
    BY <1>5 DEF StackInv, Fits
  <2>4. b # Nobody0 /\ a # Nobody0
    BY StackAssumption DEF Actor, Nobody0
  <2>5. CASE b = a
    BY <2>1, <2>2, <2>3, <2>5, <1>9, <1>10 DEF q
  <2>6. CASE b # a
    BY <2>1, <2>2, <2>3, <2>4, <2>6, <1>1
  <2> QED
    BY <2>5, <2>6
<1>12. stack' \in [Actor -> Seq(Op)] /\ stack'[Loop] = << >> /\ \A b \in Actor : Shaped(stack'[b])
  BY <1>1, <1>5, <1>6, <1>8 DEF StackInv, Fits, Actor
<1>13. entered' \in [DOMAIN Subscriber -> Actor \cup {Nobody0}]
  BY <1>5 DEF StackInv
<1> QED
  BY <1>5, <1>11, <1>12, <1>13 DEF StackInv, Fits

\* The mutex of an extension is released by the goroutine that is in it.
LEMMA LeaveFits ==
  ASSUME StackInv, NEW a \in Actor, LeaveCall(a)
  PROVE  StackInv'
<1> DEFINE q == stack[a]
           i == Arg(a)
           r == << >> \o Tail(q)
<1>1. /\ q \in Seq(Op) /\ Shaped(q) /\ a # Loop /\ q # << >> /\ Head(q)[1] = "in"
  BY DEF StackInv, Fits, LeaveCall, Doing
<1>2. Tail(q) \in Seq(Op) /\ Head(q) \in Op /\ NoIn(Tail(q)) /\ Shaped(Tail(q))
  BY <1>1, Popped DEF Above
<1>3. Head(q) = <<"in", i>> /\ i \in DOMAIN Subscriber
  BY <1>1, <1>2 DEF Op, Arg
<1>4. r = Tail(q)
  BY <1>2
<1>5. /\ stack' = [stack EXCEPT ![a] = r]
      /\ entered' = [entered EXCEPT ![i] = Nobody0]
      /\ UNCHANGED <<running, starting, work>>
  BY DEF LeaveCall, Then
<1>6. \A j : ~HasIn(r, j)
  BY <1>2, <1>4 DEF NoIn, HasIn
<1>7. ASSUME NEW j PROVE HasIn(q, j) <=> j = i
  <2>1. HasIn(q, j) => j = i
    <3> SUFFICES ASSUME NEW k \in DOMAIN q, q[k] = <<"in", j>> PROVE j = i
      BY DEF HasIn
    <3>1. k = 1
      <4> SUFFICES ASSUME k # 1 PROVE FALSE
        OBVIOUS
      <4>1. k - 1 \in DOMAIN Tail(q) /\ Tail(q)[k - 1] = q[k]
        BY <1>1
      <4> QED
        BY <4>1, <1>2 DEF NoIn
    <3>2. q[1] = Head(q)
      BY <1>1
    <3> QED
      BY <3>1, <3>2, <1>3
  <2>2. 1 \in DOMAIN q /\ q[1] = Head(q)
    BY <1>1
  <2> QED
    BY <2>1, <2>2, <1>3 DEF HasIn
<1> HIDE DEF i, q, r
<1>8. ASSUME NEW b \in Actor, NEW j \in DOMAIN Subscriber
      PROVE  entered'[j] = b <=> HasIn(stack'[b], j)
  <2>1. entered[j] = b <=> HasIn(stack[b], j)
    BY DEF StackInv, Fits
  <2>2. entered'[j] = (IF j = i THEN Nobody0 ELSE entered[j])
    BY <1>5 DEF StackInv
  <2>3. stack'[b] = (IF b = a THEN r ELSE stack[b])
    BY <1>5 DEF StackInv, Fits
  <2>4. b # Nobody0
    BY StackAssumption DEF Actor, Nobody0
  <2>5. CASE b = a
    BY <2>1, <2>2, <2>3, <2>4, <2>5, <1>6, <1>7 DEF q
  <2>6. CASE b # a
    <3>1. entered[i] = a
      BY <1>3, <1>7 DEF StackInv, Fits, q
    <3> QED
      BY <2>1, <2>2, <2>3, <2>4, <2>6, <3>1
  <2> QED
    BY <2>5, <2>6
<1>9. stack' \in [Actor -> Seq(Op)] /\ stack'[Loop] = << >> /\ \A b \in Actor : Shaped(stack'[b])
  BY <1>1, <1>2, <1>4, <1>5 DEF StackInv, Fits, Actor
<1>10. entered' \in [DOMAIN Subscriber -> Actor \cup {Nobody0}]
  BY <1>5 DEF StackInv
<1> QED
  BY <1>5, <1>8, <1>9, <1>10 DEF StackInv, Fits

\* The invariant holds at first.
LEMMA StackInitial ==
  StackInit => StackInv
<1> SUFFICES ASSUME StackInit PROVE StackInv
  OBVIOUS
<1>1. << >> \in Seq(Op) /\ Shaped(<< >>) /\ \A i : ~HasIn(<< >>, i)
  BY DEF Shaped, HasIn
<1>2. stack = [a \in Actor |-> << >>] /\ Loop \in Actor
  BY DEF StackInit, Actor
<1>3. \A a \in Actor : stack[a] = << >>
  BY <1>2
<1>4. stack \in [Actor -> Seq(Op)]
  BY <1>1, <1>2
<1>5. \A a \in Actor, i \in DOMAIN Subscriber : entered[i] # a
  BY StackAssumption DEF StackInit, Actor, Nobody0
<1>6. Fits(stack)
  BY <1>1, <1>2, <1>3, <1>4, <1>5 DEF Fits
<1>7. entered \in [DOMAIN Subscriber -> Actor \cup {Nobody0}]
  BY DEF StackInit
<1>8. work = 0 /\ 0 \in 0 .. MaxWork
  BY StackAssumption DEF StackInit
<1>9. running = FALSE /\ starting = FALSE
  BY DEF StackInit
<1> QED
  BY <1>6, <1>7, <1>8, <1>9 DEF StackInv

\* A step that leaves the mutexes alone only has to keep the stacks in shape.
LEMMA Unentered ==
  ASSUME StackInv, Fits(stack'), UNCHANGED entered,
         running' \in BOOLEAN, starting' \in BOOLEAN, work' \in 0 .. MaxWork
  PROVE  StackInv'
BY DEF StackInv, Fits

\* Every step keeps the invariant.
LEMMA StackKept ==
  ASSUME SelfSend = {}, StackInv, [StackNext]_stackVars
  PROVE  StackInv'
<1>1. Fits(stack) /\ Loop \in Actor
  BY DEF StackInv, Actor
<1>2. /\ running \in BOOLEAN /\ starting \in BOOLEAN /\ work \in 0 .. MaxWork
  BY DEF StackInv
<1>3. Work => work' \in 0 .. MaxWork
  BY <1>2, StackAssumption DEF Work
<1>4. /\ <<"event">> \in Op /\ <<"submit">> \in Op /\ <<"deliver">> \in Op /\ <<"spawn">> \in Op
      /\ <<"turn">> \in Op /\ <<"turnStart">> \in Op /\ <<"await">> \in Op
      /\ <<"send", "draw">> \in Op /\ <<"send", "notify">> \in Op
  BY DEF Op
<1>5. /\ << <<"event">> >> \in Seq(Op) /\ NoIn(<< <<"event">> >>)
      /\ << <<"submit">> >> \in Seq(Op) /\ NoIn(<< <<"submit">> >>)
      /\ << <<"turnStart">> >> \in Seq(Op) /\ NoIn(<< <<"turnStart">> >>)
      /\ << <<"await">>, <<"turn">> >> \in Seq(Op) /\ NoIn(<< <<"await">>, <<"turn">> >>)
      /\ << <<"send", "draw">>, <<"submit">> >> \in Seq(Op)
      /\ NoIn(<< <<"send", "draw">>, <<"submit">> >>)
      /\ << <<"send", "draw">>, <<"event">> >> \in Seq(Op)
      /\ NoIn(<< <<"send", "draw">>, <<"event">> >>)
  <2>1. /\ <<"event">>[1] # "in" /\ <<"submit">>[1] # "in" /\ <<"turn">>[1] # "in"
        /\ <<"turnStart">>[1] # "in" /\ <<"await">>[1] # "in" /\ <<"send", "draw">>[1] # "in"
    OBVIOUS
  <2> QED
    BY <1>4, <2>1, ShortStacks
<1>6. ASSUME NEW a \in Actor, stack[a] # << >>, Head(stack[a])[1] # "in"
      PROVE  Fits(Then(a, << >>)) /\ FreeOf(stack) \subseteq FreeOf(Then(a, << >>))
  <2>1. << >> \in Seq(Op) /\ NoIn(<< >>) /\ DOMAIN << >> = {}
    BY ShortStacks
  <2> QED
    BY <1>1, <1>6, <2>1, ThenFits
<1>7. CASE Input
  <2>1. PICK m \in {"submit", "tick"} : stack' = Handled(stack, m)
    BY <1>7 DEF Input
  <2>2. Fits(stack')
    BY <2>1, <1>1, <1>7, Room, HandledFits DEF Input
  <2> QED
    BY <2>2, <1>2, <1>3, <1>7, Unentered DEF Input
<1>8. ASSUME NEW a \in Actor, PSend(a) PROVE StackInv'
  <2>1. /\ stack[a] # << >> /\ Head(stack[a])[1] = "send" /\ CanGo(1)
        /\ stack' = Handled(Then(a, << >>), Arg(a))
    BY <1>8 DEF PSend, Doing
  <2>2. Head(stack[a]) \in Op
    BY <2>1, <1>1 DEF Fits
  <2>3. Arg(a) \in {"draw", "notify"}
    BY <2>1, <2>2 DEF Op, Arg
  <2>4. Fits(Then(a, << >>)) /\ FreeOf(Then(a, << >>)) # {}
    BY <2>1, <1>6, Room
  <2>5. Fits(stack')
    BY <2>1, <2>3, <2>4, HandledFits
  <2> QED
    BY <2>5, <1>2, <1>8, Unentered DEF PSend
<1>9. ASSUME NEW a \in Actor, Event(a) PROVE StackInv'
  <2>1. PICK n \in 0 .. Len(Subscriber) : \E x \in [1 .. n -> DOMAIN Subscriber] :
          stack' = Then(a, [k \in 1 .. n |-> <<"enter", x[k]>>])
    BY <1>9 DEF Event
  <2>2. PICK x \in [1 .. n -> DOMAIN Subscriber] :
          stack' = Then(a, [k \in 1 .. n |-> <<"enter", x[k]>>])
    BY <2>1
  <2> DEFINE ops == [k \in 1 .. n |-> <<"enter", x[k]>>]
  <2>3. \A k \in 1 .. n : ops[k] \in Op /\ ops[k][1] # "in"
    BY DEF Op
  <2>4. ops \in Seq(Op) /\ DOMAIN ops = 1 .. n
    BY <2>3
  <2>5. NoIn(ops)
    BY <2>3, <2>4 DEF NoIn
  <2>6. stack[a] # << >> /\ Head(stack[a])[1] = "event"
    BY <1>9 DEF Event, Doing
  <2> HIDE DEF ops
  <2>7. Fits(Then(a, ops))
    BY <2>4, <2>5, <2>6, <1>1, ThenFits DEF Above
  <2> QED
    BY <2>2, <2>7, <1>2, <1>9, Unentered DEF Event, ops
<1>10. ASSUME NEW a \in Actor, HostCall(a) PROVE StackInv'
  <2>1. PICK op \in {<<"send", "draw">>, <<"send", "notify">>, <<"deliver">>, <<"spawn">>} :
          stack' = [stack EXCEPT ![a] = <<op>> \o @]
    BY <1>10 DEF HostCall
  <2>2. op \in Op /\ op[1] \in Above /\ op[1] # "in"
    BY <1>4 DEF Above
  <2>3. <<op>> \in Seq(Op) /\ NoIn(<<op>>) /\ \A j \in DOMAIN <<op>> : <<op>>[j][1] \in Above
    BY <2>2, ShortStacks
  <2>4. stack[a] # << >>
    BY <1>10 DEF HostCall, Doing
  <2>5. Fits(stack')
    BY <2>1, <2>3, <2>4, <1>1, PushFits
  <2> QED
    BY <2>5, <1>2, <1>3, <1>10, Unentered DEF HostCall
<1>11. ASSUME NEW a \in Actor, DeliverWake(a) PROVE StackInv'
  <2>1. stack[a] # << >> /\ Head(stack[a])[1] = "deliver"
    BY <1>11 DEF DeliverWake, Doing
  <2> DEFINE ops == << <<"send", "draw">>, <<"submit">> >>
  <2>2. \A j \in DOMAIN ops : ops[j][1] \in Above
    BY DEF Above
  <2>3. Fits(Then(a, ops))
    BY <2>1, <2>2, <1>1, <1>5, ThenFits
  <2> QED
    BY <2>3, <1>2, <1>11, Unentered DEF DeliverWake
<1>12. ASSUME NEW a \in Actor, SpawnDetached(a) PROVE StackInv'
  <2>1. stack[a] # << >> /\ Head(stack[a])[1] = "spawn" /\ CanGo(1)
    BY <1>12 DEF SpawnDetached, Doing
  <2>2. Fits(Then(a, << >>)) /\ FreeOf(Then(a, << >>)) # {}
    BY <2>1, <1>6, Room
  <2>3. Fits(Go(Then(a, << >>), << <<"submit">> >>))
    BY <2>2, <1>5, GoFits
  <2> QED
    BY <2>3, <1>2, <1>12, Unentered DEF SpawnDetached
<1>13. ASSUME NEW a \in Actor, SubmitTurn(a) PROVE StackInv'
  <2> DEFINE s == Then(a, << >>)
             t == Go(s, << <<"turnStart">> >>)
  <2>1. stack[a] # << >> /\ Head(stack[a])[1] = "submit" /\ CanGo(2)
    BY <1>13 DEF SubmitTurn, Doing
  <2>2. Fits(s) /\ FreeOf(stack) \subseteq FreeOf(s)
    BY <2>1, <1>6
  <2>3. \A g : FreeOf(s) \ {g} # {}
    BY <2>1, <2>2, Room
  <2> HIDE DEF s
  <2>4. FreeOf(s) # {}
    BY <2>3
  <2>5. Fits(t) /\ FreeOf(t) # {}
    BY <2>2, <2>3, <2>4, <1>5, GoFits
  <2> HIDE DEF t
  <2>6. Fits(Go(t, << <<"await">>, <<"turn">> >>))
    BY <2>5, <1>5, GoFits
  <2>7. Fits(stack') /\ running' \in BOOLEAN /\ starting' \in BOOLEAN
    BY <2>2, <2>6, <1>2, <1>13 DEF SubmitTurn, s, t
  <2> QED
    BY <2>7, <1>2, <1>13, Unentered DEF SubmitTurn
<1>14. ASSUME NEW a \in Actor, TurnStart(a) PROVE StackInv'
  <2>1. stack[a] # << >> /\ Head(stack[a])[1] = "turnStart" /\ CanGo(1)
    BY <1>14 DEF TurnStart, Doing
  <2>2. Fits(Then(a, << >>)) /\ FreeOf(Then(a, << >>)) # {}
    BY <2>1, <1>6, Room
  <2>3. Fits(Go(Then(a, << >>), << <<"event">> >>))
    BY <2>2, <1>5, GoFits
  <2> QED
    BY <2>3, <1>2, <1>14, Unentered DEF TurnStart
<1>15. ASSUME NEW a \in Actor, AwaitStart(a) PROVE StackInv'
  <2>1. stack[a] # << >> /\ Head(stack[a])[1] = "await"
    BY <1>15 DEF AwaitStart, Doing
  <2> QED
    BY <2>1, <1>2, <1>6, <1>15, Unentered DEF AwaitStart
<1>16. ASSUME NEW a \in Actor, TurnOutput(a) PROVE StackInv'
  <2>1. stack[a] # << >> /\ Head(stack[a])[1] = "turn"
    BY <1>16 DEF TurnOutput, Doing
  <2>2. NoIn(stack[a])
    <3>1. stack[a] \in Seq(Op) /\ Shaped(stack[a])
      BY <1>1 DEF Fits
    <3>2. stack[a][1][1] = "turn" /\ 1 \in DOMAIN stack[a] /\ "turn" \notin Above
      BY <2>1, <3>1 DEF Above
    <3>3. \A j \in DOMAIN stack[a] : j = 1 \/ 1 < j
      BY <3>1
    <3> QED
      BY <3>1, <3>2, <3>3 DEF NoIn, Shaped
  <2>3. Fits(stack')
    BY <2>1, <2>2, <1>1, <1>5, <1>16, PushFits DEF TurnOutput
  <2> QED
    BY <2>3, <1>2, <1>3, <1>16, Unentered DEF TurnOutput
<1>17. ASSUME NEW a \in Actor, TurnDoneReport(a) PROVE StackInv'
  <2>1. PICK op \in {<<"send", "draw">>, <<"deliver">>} :
          /\ op = <<"deliver">> => work < MaxWork
          /\ work' = (IF op = <<"deliver">> THEN work + 1 ELSE work)
          /\ stack' = Then(a, <<op>>)
    BY <1>17 DEF TurnDoneReport
  <2>2. op \in Op /\ op[1] # "in"
    BY <1>4
  <2>3. <<op>> \in Seq(Op) /\ NoIn(<<op>>)
    BY <2>2, ShortStacks
  <2>4. stack[a] # << >> /\ Head(stack[a])[1] = "turn"
    BY <1>17 DEF TurnDoneReport, Doing
  <2>5. Fits(stack')
    BY <2>1, <2>3, <2>4, <1>1, ThenFits DEF Above
  <2>6. work' \in 0 .. MaxWork
    BY <2>1, <1>2, StackAssumption
  <2> QED
    BY <2>5, <2>6, <1>2, <1>17, Unentered DEF TurnDoneReport
<1>18. CASE UNCHANGED stackVars
  BY <1>18 DEF stackVars, StackInv, Fits
<1> QED
  BY <1>7, <1>8, <1>9, <1>10, <1>11, <1>12, <1>13, <1>14, <1>15, <1>16, <1>17, <1>18,
     EnterFits, LeaveFits DEF StackNext

\* Whoever is waited for waits for nobody.
LEMMA WaitedForRuns ==
  ASSUME StackInv, NEW a \in Actor, NEW b \in WaitsFor(a)
  PROVE  WaitsFor(b) = {}
<1>1. stack[Loop] = << >>
  BY DEF StackInv, Fits
<1>2. \A g : ~Doing(g, "enter") /\ ~Doing(g, "await") => WaitsFor(g) = {}
  BY <1>1 DEF WaitsFor
<1>3. CASE Doing(a, "enter")
  <2> DEFINE q == stack[b]
  <2>1. b = entered[Arg(a)] /\ b # Nobody0
    <3>1. ~Doing(a, "send") /\ ~Doing(a, "await")
      BY <1>3 DEF Doing
    <3> QED
      BY <1>3, <3>1 DEF WaitsFor
  <2>2. Arg(a) \in DOMAIN Subscriber
    <3>1. Head(stack[a]) \in Op
      BY <1>3 DEF StackInv, Fits, Doing
    <3> QED
      BY <3>1, <1>3 DEF Op, Doing, Arg
  <2>3. b \in Actor /\ HasIn(stack[b], Arg(a))
    BY <2>1, <2>2 DEF StackInv, Fits
  <2>4. q \in Seq(Op) /\ Shaped(q)
    BY <2>3 DEF StackInv, Fits
  <2>5. PICK k \in DOMAIN q : q[k][1] = "in"
    BY <2>3 DEF HasIn
  <2>6. 1 \in DOMAIN q /\ q # << >> /\ Head(q) = q[1] /\ (k = 1 \/ 1 < k)
    BY <2>4, <2>5
  <2>7. q[1][1] = "in" \/ q[1][1] \in Above
    BY <2>4, <2>5, <2>6 DEF Shaped
  <2>8. ~Doing(b, "enter") /\ ~Doing(b, "await")
    BY <2>6, <2>7 DEF Doing, Above
  <2> QED
    BY <1>2, <2>8
<1>4. CASE ~Doing(a, "enter")
  <2>1. Doing(a, "await") /\ Doing(b, "turnStart")
    BY <1>1, <1>4 DEF WaitsFor
  <2> QED
    BY <1>2, <2>1 DEF Doing
<1> QED
  BY <1>3, <1>4

\* No goroutines wait for each other in a circle, whatever extensions there are,
\* as long as no message is handled that makes Update send one itself: the
\* goroutine that is inside an extension is there or about to send, deliver,
\* submit or spawn, which waits for nobody while the loop is not in Update, and
\* turns wait for callbacks that only dispatch on other goroutines.
THEOREM NoCircularWaitCorrect ==
  ASSUME SelfSend = {}
  PROVE  StackSpec => []NoCircularWait
<1>1. StackInit => StackInv
  BY StackInitial
<1>2. StackInv /\ [StackNext]_stackVars => StackInv'
  BY StackKept
<1>3. StackInv => NoCircularWait
  <2> SUFFICES ASSUME StackInv,
                      NEW S \in SUBSET {a \in Actor : WaitsFor(a) # {}}, S # {}
               PROVE  \E a \in S : WaitsFor(a) \cap S = {}
    BY DEF NoCircularWait
  <2>1. PICK a \in S : a \in Actor
    OBVIOUS
  <2>2. WaitsFor(a) \cap S = {}
    BY <2>1, WaitedForRuns
  <2> QED
    BY <2>2
<1> QED
  BY <1>1, <1>2, <1>3, PTL DEF StackSpec

\* The invariant has the types in it.
LEMMA StackTypes == StackInv => StackTypeOK
<1> SUFFICES ASSUME StackInv, NEW i \in DOMAIN entered, NEW a \in Actor
             PROVE  entered[i] = a <=> \E j \in DOMAIN stack[a] : stack[a][j] = <<"in", i>>
  BY DEF StackInv, StackTypeOK
<1>1. i \in DOMAIN Subscriber
  BY DEF StackInv
<1> QED
  BY <1>1 DEF StackInv, Fits, HasIn

\* An extension is entered by the goroutine that has it on its stack, and by that
\* one alone.
THEOREM StackTypeCorrect ==
  ASSUME SelfSend = {}
  PROVE  StackSpec => []StackTypeOK
<1>1. StackInit => StackInv
  BY StackInitial
<1>2. StackInv /\ [StackNext]_stackVars => StackInv'
  BY StackKept
<1>3. StackInv => StackTypeOK
  BY StackTypes
<1> QED
  BY <1>1, <1>2, <1>3, PTL DEF StackSpec

-----------------------------------------------------------------------------
(* LogDrain.                                                               *)

LogRecord == Writer \X Nat
Has(q, r) == \E i \in DOMAIN q : q[i] = r
Ordered(q) == \A i, j \in DOMAIN q : i < j /\ q[i][1] = q[j][1] => q[i][2] < q[j][2]

\* What was not dropped and has been handed over.
OnTheWay(w, n) == /\ n \in 1 .. logs[w] /\ <<w, n>> \notin lost
                  /\ handling[w] # "idle" => n < logs[w]

LogSequences ==
  /\ sunk \in Seq(LogRecord) /\ flight \in Seq(LogRecord) /\ ring \in Seq(LogRecord)
  /\ batch \in Seq(LogRecord) /\ queue \in Seq(LogRecord)

\* Until the ring is flushed it is all there is; then it is empty.
LogPhases ==
  /\ flushed \in BOOLEAN
  /\ flushed => ring = << >>
  /\ ~flushed => /\ sunk = << >> /\ flight = << >> /\ batch = << >> /\ queue = << >>
                 /\ \A w \in Writer : handling[w] # "queue"
  /\ inDispatch <=> drain \in {"ring", "batch", "lastBatch"}
  /\ flight # << >> => drain \in {"ring", "batch", "lastBatch"}
  /\ drain \in {"ring", "batch", "lastBatch", "flush"} => flushed

\* A record that is being handled is not lost, and no record is before it is made.
LostBefore ==
  \A w \in Writer : \A n \in Nat :
    <<w, n>> \in lost => n <= logs[w] /\ (handling[w] # "idle" => n < logs[w])

LogInv ==
  /\ logs \in [Writer -> Nat] /\ \A w \in Writer : handling[w] # "idle" => logs[w] > 0
  /\ handling \in [Writer -> {"idle", "kept", "ring", "queue"}]
  /\ LogSequences /\ LogPhases /\ LostBefore
  /\ Ordered(Line)
  /\ \A w \in Writer : \A n \in Nat : Has(Line, <<w, n>>) <=> OnTheWay(w, n)

\* Two sequences of records, one after the other.
LEMMA Joined ==
  ASSUME NEW p \in Seq(LogRecord), NEW q \in Seq(LogRecord)
  PROVE  /\ p \o q \in Seq(LogRecord)
         /\ \A r : Has(p \o q, r) <=> Has(p, r) \/ Has(q, r)
<1> DEFINE s == p \o q
<1>1. /\ s \in Seq(LogRecord) /\ DOMAIN s = 1 .. Len(p) + Len(q)
      /\ DOMAIN p = 1 .. Len(p) /\ DOMAIN q = 1 .. Len(q)
      /\ Len(p) \in Nat /\ Len(q) \in Nat
      /\ \A i \in 1 .. Len(p) : s[i] = p[i]
      /\ \A i \in 1 .. Len(q) : s[Len(p) + i] = q[i]
  OBVIOUS
<1> HIDE DEF s
<1>2. ASSUME NEW r PROVE Has(s, r) <=> Has(p, r) \/ Has(q, r)
  <2>1. ASSUME NEW i \in DOMAIN s, s[i] = r PROVE Has(p, r) \/ Has(q, r)
    <3>1. CASE i \in 1 .. Len(p)
      BY <1>1, <2>1, <3>1 DEF Has
    <3>2. CASE i \notin 1 .. Len(p)
      <4>1. i - Len(p) \in 1 .. Len(q) /\ Len(p) + (i - Len(p)) = i
        BY <1>1, <3>2
      <4>2. q[i - Len(p)] = r
        BY <1>1, <2>1, <4>1
      <4> QED
        BY <1>1, <4>1, <4>2 DEF Has
    <3> QED
      BY <3>1, <3>2
  <2>2. Has(p, r) => Has(s, r)
    <3>1. \A i \in 1 .. Len(p) : i \in DOMAIN s
      BY <1>1
    <3> QED
      BY <1>1, <3>1 DEF Has
  <2>3. Has(q, r) => Has(s, r)
    <3>1. \A i \in 1 .. Len(q) : Len(p) + i \in DOMAIN s
      BY <1>1
    <3> QED
      BY <1>1, <3>1 DEF Has
  <2> QED
    BY <2>1, <2>2, <2>3 DEF Has
<1> QED
  BY <1>1, <1>2 DEF s

\* A record at the end, later than those of its goroutine.
LEMMA Extended ==
  ASSUME NEW q \in Seq(LogRecord), NEW r \in LogRecord
  PROVE  /\ Append(q, r) \in Seq(LogRecord)
         /\ \A x : Has(Append(q, r), x) <=> Has(q, x) \/ x = r
         /\ Ordered(q) /\ (\A n \in Nat : Has(q, <<r[1], n>>) => n < r[2])
              => Ordered(Append(q, r))
<1> DEFINE s == Append(q, r)
<1>1. /\ s \in Seq(LogRecord) /\ DOMAIN s = 1 .. Len(q) + 1 /\ DOMAIN q = 1 .. Len(q)
      /\ Len(q) \in Nat /\ s[Len(q) + 1] = r
      /\ \A i \in 1 .. Len(q) : s[i] = q[i]
  OBVIOUS
<1> HIDE DEF s
<1>2. \A i \in DOMAIN s : i \in 1 .. Len(q) \/ i = Len(q) + 1
  BY <1>1
<1>3. Len(q) + 1 \in DOMAIN s /\ \A i \in 1 .. Len(q) : i \in DOMAIN s
  BY <1>1
<1>4. ASSUME NEW x PROVE Has(s, x) <=> Has(q, x) \/ x = r
  BY <1>1, <1>2, <1>3 DEF Has
<1>5. ASSUME Ordered(q), \A n \in Nat : Has(q, <<r[1], n>>) => n < r[2] PROVE Ordered(s)
  <2> SUFFICES ASSUME NEW i \in DOMAIN s, NEW j \in DOMAIN s, i < j, s[i][1] = s[j][1]
               PROVE  s[i][2] < s[j][2]
    BY DEF Ordered
  <2>1. i \in 1 .. Len(q)
    BY <1>1
  <2>2. CASE j \in 1 .. Len(q)
    BY <1>1, <1>5, <2>1, <2>2 DEF Ordered
  <2>3. CASE j = Len(q) + 1
    <3>1. q[i] \in LogRecord /\ q[i][1] = r[1]
      BY <1>1, <2>1, <2>3
    <3>2. q[i] = <<r[1], q[i][2]>> /\ q[i][2] \in Nat
      BY <3>1 DEF LogRecord
    <3>3. Has(q, <<r[1], q[i][2]>>)
      BY <1>1, <2>1, <3>2 DEF Has
    <3> QED
      BY <1>1, <1>5, <2>1, <2>3, <3>2, <3>3
  <2> QED
    BY <1>2, <2>2, <2>3
<1> QED
  BY <1>1, <1>4, <1>5 DEF s

\* A part of what is in order is taken out.
LEMMA TakenOut ==
  ASSUME NEW p \in Seq(LogRecord), NEW q \in Seq(LogRecord), NEW t \in Seq(LogRecord),
         Ordered((p \o q) \o t)
  PROVE  /\ Ordered(p \o t)
         /\ \A r \in LogRecord : Has(p \o t, r) <=> Has((p \o q) \o t, r) /\ ~Has(q, r)
<1> DEFINE s == (p \o q) \o t
           u == p \o t
<1>1. /\ DOMAIN s = 1 .. Len(p) + Len(q) + Len(t) /\ DOMAIN u = 1 .. Len(p) + Len(t)
      /\ DOMAIN p = 1 .. Len(p) /\ DOMAIN q = 1 .. Len(q) /\ DOMAIN t = 1 .. Len(t)
      /\ Len(p) \in Nat /\ Len(q) \in Nat /\ Len(t) \in Nat
      /\ \A i \in 1 .. Len(p) : s[i] = p[i] /\ u[i] = p[i]
      /\ \A i \in 1 .. Len(q) : s[Len(p) + i] = q[i]
      /\ \A i \in 1 .. Len(t) : s[Len(p) + Len(q) + i] = t[i] /\ u[Len(p) + i] = t[i]
  OBVIOUS
<1>2. s \in Seq(LogRecord) /\ Ordered(s)
  OBVIOUS
<1> DEFINE at(i) == IF i <= Len(p) THEN i ELSE i + Len(q)
<1> HIDE DEF s, u
<1>3. \A i \in DOMAIN u : at(i) \in DOMAIN s /\ u[i] = s[at(i)] /\ at(i) \notin Len(p) + 1 .. Len(p) + Len(q)
  <2> SUFFICES ASSUME NEW i \in DOMAIN u
               PROVE  at(i) \in DOMAIN s /\ u[i] = s[at(i)] /\ at(i) \notin Len(p) + 1 .. Len(p) + Len(q)
    OBVIOUS
  <2>1. CASE i <= Len(p)
    BY <1>1, <2>1
  <2>2. CASE i > Len(p)
    <3>1. i - Len(p) \in 1 .. Len(t) /\ Len(p) + (i - Len(p)) = i
          /\ Len(p) + Len(q) + (i - Len(p)) = at(i)
      BY <1>1, <2>2
    <3>2. u[i] = s[at(i)]
      BY <1>1, <3>1
    <3> QED
      BY <1>1, <2>2, <3>2
  <2> QED
    BY <1>1, <2>1, <2>2
<1>4. \A i, j \in DOMAIN u : i < j => at(i) < at(j)
  BY <1>1
<1>5. Ordered(u)
  <2> HIDE DEF at
  <2> QED
    BY <1>2, <1>3, <1>4 DEF Ordered
<1>6. ASSUME NEW r \in LogRecord PROVE Has(u, r) <=> Has(s, r) /\ ~Has(q, r)
  <2>1. ASSUME NEW i \in DOMAIN s, NEW j \in DOMAIN s, s[i] = r, s[j] = r PROVE i = j
    <3>1. r[2] \in Nat
      BY DEF LogRecord
    <3>2. ~(i < j) /\ ~(j < i)
      BY <1>2, <2>1, <3>1 DEF Ordered
    <3> QED
      BY <1>1, <3>2
  <2>2. ASSUME NEW i \in DOMAIN u, u[i] = r, NEW k \in DOMAIN q, q[k] = r PROVE FALSE
    <3>1. Len(p) + k \in DOMAIN s /\ s[Len(p) + k] = r
      BY <1>1, <2>2
    <3>2. at(i) = Len(p) + k
      BY <1>3, <2>1, <2>2, <3>1
    <3> QED
      BY <1>1, <1>3, <3>2
  <2>3. Has(s, r) <=> Has(p, r) \/ Has(q, r) \/ Has(t, r)
    BY Joined DEF s
  <2>4. Has(u, r) <=> Has(p, r) \/ Has(t, r)
    BY Joined DEF u
  <2> QED
    BY <2>2, <2>3, <2>4 DEF Has
<1> QED
  BY <1>5, <1>6 DEF s, u

\* What a step has to show of the line it leaves.
LEMMA NextLine ==
  ASSUME LogSequences', LogPhases', LostBefore', logs' \in [Writer -> Nat],
         \A w \in Writer : handling'[w] # "idle" => logs'[w] > 0,
         handling' \in [Writer -> {"idle", "kept", "ring", "queue"}],
         NEW m, Line' = m, Ordered(m),
         \A w \in Writer : \A n \in Nat : Has(m, <<w, n>>) <=> OnTheWay(w, n)'
  PROVE  LogInv'
<1>1. Ordered(Line') /\ \A w \in Writer : \A n \in Nat : Has(Line', <<w, n>>) <=> OnTheWay(w, n)'
  OBVIOUS
<1>2. Ordered(Line)'
  BY <1>1 DEF Ordered
<1>3. \A w \in Writer : \A n \in Nat : (Has(Line, <<w, n>>) <=> OnTheWay(w, n))'
  BY <1>1 DEF Has
<1> QED
  BY <1>2, <1>3 DEF LogInv

\* What a step that hands nothing over has to keep.
LEMMA SameLine ==
  ASSUME LogInv, LogSequences', LogPhases', LostBefore', Line' = Line,
         logs' \in [Writer -> Nat], \A w \in Writer : handling'[w] # "idle" => logs'[w] > 0,
         handling' \in [Writer -> {"idle", "kept", "ring", "queue"}],
         \A w \in Writer : \A n \in Nat : OnTheWay(w, n)' <=> OnTheWay(w, n)
  PROVE  LogInv'
<1>1. Ordered(Line) /\ \A w \in Writer : \A n \in Nat : Has(Line, <<w, n>>) <=> OnTheWay(w, n)'
  BY DEF LogInv
<1> QED
  BY <1>1, NextLine

\* Line as one sequence, and where it can be taken apart.
LEMMA Sections ==
  ASSUME LogSequences
  PROVE  /\ Line \in Seq(LogRecord)
         /\ sunk \o flight \in Seq(LogRecord) /\ ring \o batch \o queue \in Seq(LogRecord)
         /\ Line = (sunk \o flight) \o (ring \o batch \o queue)
         /\ Line = (sunk \o flight \o ring \o batch) \o queue
         /\ sunk \o flight \o ring \in Seq(LogRecord)
         /\ sunk \o flight \o ring \o batch \in Seq(LogRecord)
<1>1. /\ sunk \o flight \in Seq(LogRecord) /\ ring \o batch \in Seq(LogRecord)
      /\ sunk \o flight \o ring \in Seq(LogRecord)
  BY Joined DEF LogSequences
<1>2. sunk \o flight \o ring \o batch \in Seq(LogRecord) /\ ring \o batch \o queue \in Seq(LogRecord)
  BY <1>1, Joined DEF LogSequences
<1>3. \A s, u, v \in Seq(LogRecord) : (s \o u) \o v = s \o (u \o v)
  BY ConcatAssociative
<1>4. Line = (sunk \o flight) \o (ring \o batch \o queue)
  <2> DEFINE a == sunk \o flight
             b == ring \o batch
  <2>1. a \in Seq(LogRecord) /\ b \in Seq(LogRecord) /\ Line = ((a \o ring) \o batch) \o queue
    BY <1>1 DEF Line
  <2>2. (a \o ring) \o batch = a \o (ring \o batch)
    <3>1. ring \in Seq(LogRecord) /\ batch \in Seq(LogRecord)
      BY DEF LogSequences
    <3> HIDE DEF a
    <3> QED
      BY <1>3, <2>1, <3>1, Zenon
  <2>3. (a \o b) \o queue = a \o (b \o queue)
    <3>1. queue \in Seq(LogRecord)
      BY DEF LogSequences
    <3> HIDE DEF a, b
    <3> QED
      BY <1>3, <2>1, <3>1, Zenon
  <2> QED
    BY <2>1, <2>2, <2>3
<1> QED
  BY <1>1, <1>2, <1>4, Joined DEF LogSequences, Line

\* A goroutine hands its record over, behind what is left of the line.
LEMMA HandedOver ==
  ASSUME LogInv, NEW w \in Writer, handling[w] # "idle",
         handling' = [handling EXCEPT ![w] = "idle"], logs' = logs,
         NEW q \in Seq(LogRecord), Ordered(q), NEW gone, \A r \in gone : Has(Line, r),
         \A r \in LogRecord : Has(q, r) <=> Has(Line, r) /\ r \notin gone,
         lost' = lost \cup gone
  PROVE  /\ Append(q, record(w)) \in Seq(LogRecord) /\ Ordered(Append(q, record(w)))
         /\ \A v \in Writer : \A n \in Nat :
              Has(Append(q, record(w)), <<v, n>>) <=> OnTheWay(v, n)'
         /\ LostBefore'
<1>1. record(w) \in LogRecord /\ record(w)[1] = w /\ record(w)[2] = logs[w] /\ logs[w] \in Nat
  BY DEF LogInv, record, LogRecord
<1>2. \A v \in Writer : \A n \in Nat : <<v, n>> \in LogRecord
  BY DEF LogRecord
<1>3. \A v \in Writer : \A n \in Nat :
        Has(q, <<v, n>>) <=> OnTheWay(v, n) /\ <<v, n>> \notin gone
  BY <1>2 DEF LogInv
<1>4. \A n \in Nat : Has(q, <<w, n>>) => n < logs[w]
  BY <1>3 DEF OnTheWay
<1>5. Append(q, record(w)) \in Seq(LogRecord) /\ Ordered(Append(q, record(w)))
  BY <1>1, <1>4, Extended
<1>6. \A v \in Writer : \A n \in Nat :
        Has(Append(q, record(w)), <<v, n>>) <=> Has(q, <<v, n>>) \/ (v = w /\ n = logs[w])
  BY <1>1, Extended DEF record
<1>7. \A v \in Writer : handling'[v] = (IF v = w THEN "idle" ELSE handling[v])
  BY DEF LogInv
<1>8. ASSUME NEW v \in Writer, NEW n \in Nat, <<v, n>> \in gone PROVE OnTheWay(v, n)
  BY <1>8 DEF LogInv
<1>9. LostBefore'
  <2> SUFFICES ASSUME NEW v \in Writer, NEW n \in Nat, <<v, n>> \in lost'
               PROVE  n <= logs'[v] /\ (handling'[v] # "idle" => n < logs'[v])
    BY DEF LostBefore
  <2>1. CASE <<v, n>> \in lost
    BY <2>1, <1>7 DEF LogInv, LostBefore
  <2>2. CASE <<v, n>> \in gone
    BY <2>2, <1>7, <1>8 DEF OnTheWay, LogInv
  <2> QED
    BY <2>1, <2>2
<1>10. ASSUME NEW v \in Writer, NEW n \in Nat
       PROVE  Has(Append(q, record(w)), <<v, n>>) <=> OnTheWay(v, n)'
  <2>1. OnTheWay(v, n)' <=> /\ n \in 1 .. logs[v] /\ <<v, n>> \notin lost /\ <<v, n>> \notin gone
                            /\ handling'[v] # "idle" => n < logs[v]
    BY DEF OnTheWay
  <2>2. CASE v = w /\ n = logs[w]
    <3>1. <<w, n>> \notin lost
      BY <2>2, <1>1 DEF LogInv, LostBefore
    <3>2. <<w, n>> \notin gone
      BY <2>2, <1>1, <1>8 DEF OnTheWay
    <3>3. n \in 1 .. logs[w]
      BY <2>2, <1>1 DEF LogInv
    <3> QED
      BY <2>1, <2>2, <3>1, <3>2, <3>3, <1>6, <1>7
  <2>3. CASE ~(v = w /\ n = logs[w])
    <3>1. Has(Append(q, record(w)), <<v, n>>) <=> OnTheWay(v, n) /\ <<v, n>> \notin gone
      BY <2>3, <1>3, <1>6
    <3>2. logs[v] \in Nat /\ handling[v] \in {"idle", "kept", "ring", "queue"}
      BY DEF LogInv
    <3> QED
      BY <2>1, <2>3, <3>1, <3>2, <1>7 DEF OnTheWay
  <2> QED
    BY <2>2, <2>3
<1> QED
  BY <1>5, <1>9, <1>10

\* Handle and enqueue keep the invariant.
LEMMA WriterStep ==
  ASSUME LogInv, NEW w \in Writer, Handle(w) \/ Look(w) \/ AppendRing(w) \/ AppendQueue(w)
  PROVE  LogInv'
<1>1. LogSequences /\ LogPhases /\ LostBefore /\ Ordered(Line)
  BY DEF LogInv
<1>2. CASE Handle(w)
  <2>1. /\ UNCHANGED <<ring, queue, flushed, inDispatch, drain, batch, flight, sunk>>
        /\ logs' = [logs EXCEPT ![w] = @ + 1] /\ handling[w] = "idle"
        /\ \/ lost' = lost \cup {<<w, logs[w] + 1>>} /\ handling' = handling
           \/ handling' = [handling EXCEPT ![w] = "kept"] /\ lost' = lost
    BY <1>2 DEF Handle
  <2>2. /\ logs' \in [Writer -> Nat]
        /\ \A v \in Writer : logs'[v] = (IF v = w THEN logs[w] + 1 ELSE logs[v]) /\ logs[v] \in Nat
    BY <2>1 DEF LogInv
  <2>3. handling' \in [Writer -> {"idle", "kept", "ring", "queue"}]
    BY <2>1 DEF LogInv
  <2>4. \A v \in Writer : /\ handling'[v] = handling[v] \/ (v = w /\ handling'[v] = "kept")
                          /\ v = w /\ handling'[v] = "idle" => <<w, logs[w] + 1>> \in lost'
    BY <2>1 DEF LogInv
  <2>5. \A v \in Writer : handling'[v] # "idle" => logs'[v] > 0
    BY <2>2, <2>4 DEF LogInv
  <2>6. LogSequences' /\ Line' = Line
    BY <1>1, <2>1 DEF LogSequences, Line
  <2>7. LogPhases'
    BY <1>1, <2>1, <2>4 DEF LogPhases
  <2>8. ASSUME NEW v \in Writer, NEW n \in Nat
        PROVE  /\ <<v, n>> \in lost => <<v, n>> \in lost'
               /\ <<v, n>> \in lost' => \/ <<v, n>> \in lost
                                        \/ /\ v = w /\ n = logs[w] + 1
                                           /\ handling'[v] = "idle"
    BY <2>1
  <2>9. LostBefore'
    BY <1>1, <2>1, <2>2, <2>4, <2>8 DEF LostBefore
  <2>10. ASSUME NEW v \in Writer, NEW n \in Nat PROVE OnTheWay(v, n)' <=> OnTheWay(v, n)
    <3>1. OnTheWay(v, n)' <=> /\ n \in 1 .. logs'[v] /\ <<v, n>> \notin lost'
                              /\ handling'[v] # "idle" => n < logs'[v]
      BY DEF OnTheWay
    <3>2. CASE v = w
      <4>1. CASE n = logs[w] + 1
        BY <3>1, <3>2, <4>1, <2>1, <2>2, <2>4 DEF OnTheWay
      <4>2. CASE n # logs[w] + 1
        BY <3>1, <3>2, <4>2, <2>1, <2>2, <2>4, <2>8 DEF OnTheWay
      <4> QED
        BY <4>1, <4>2
    <3>3. CASE v # w
      BY <3>1, <3>3, <2>2, <2>4, <2>8 DEF OnTheWay
    <3> QED
      BY <3>2, <3>3
  <2> QED
    BY <2>2, <2>3, <2>5, <2>6, <2>7, <2>9, <2>10, SameLine
<1>3. ASSUME NEW h \in {"queue", "ring"}, handling[w] \in {"kept", "ring"},
             handling' = [handling EXCEPT ![w] = h], h = "queue" => flushed,
             UNCHANGED <<logs, ring, queue, flushed, inDispatch, drain, batch, flight, sunk, lost>>
      PROVE  LogInv'
  <2>1. handling' \in [Writer -> {"idle", "kept", "ring", "queue"}]
    BY <1>3 DEF LogInv
  <2>2. \A v \in Writer : /\ handling'[v] = "idle" <=> handling[v] = "idle"
                          /\ handling'[v] = "queue" => flushed \/ handling[v] = "queue"
    BY <1>3 DEF LogInv
  <2>3. LogSequences' /\ Line' = Line
    BY <1>1, <1>3 DEF LogSequences, Line
  <2>4. LogPhases'
    BY <1>1, <1>3, <2>2 DEF LogPhases
  <2>5. LostBefore'
    BY <1>1, <1>3, <2>2 DEF LostBefore
  <2>6. \A v \in Writer : \A n \in Nat : OnTheWay(v, n)' <=> OnTheWay(v, n)
    BY <1>3, <2>2 DEF OnTheWay
  <2>7. logs' \in [Writer -> Nat] /\ \A v \in Writer : handling'[v] # "idle" => logs'[v] > 0
    BY <1>3, <2>2 DEF LogInv
  <2> QED
    BY <2>1, <2>3, <2>4, <2>5, <2>6, <2>7, SameLine
<1>4. CASE Look(w)
  <2>1. handling' = [handling EXCEPT ![w] = IF flushed THEN "queue" ELSE "ring"]
    BY <1>4 DEF Look
  <2>2. CASE flushed
    BY <1>3, <1>4, <2>1, <2>2 DEF Look
  <2>3. CASE ~flushed
    BY <1>3, <1>4, <2>1, <2>3 DEF Look
  <2> QED
    BY <2>2, <2>3
<1>5. CASE AppendRing(w) /\ flushed
  BY <1>3, <1>5 DEF AppendRing
\* What is common to handing over to the ring and to the queue.
<1>6. ASSUME handling[w] # "idle", handling' = [handling EXCEPT ![w] = "idle"], logs' = logs
      PROVE  /\ handling' \in [Writer -> {"idle", "kept", "ring", "queue"}]
             /\ logs' \in [Writer -> Nat]
             /\ \A v \in Writer : handling'[v] # "idle" => logs'[v] > 0 /\ handling'[v] = handling[v]
  BY <1>6 DEF LogInv
<1>7. record(w) \in LogRecord
  BY DEF LogInv, record, LogRecord
<1>8. CASE AppendRing(w) /\ ~flushed
  <2> DEFINE full == Len(ring) >= RingSize
             q == IF full THEN Tail(ring) ELSE ring
             gone == IF full THEN {Head(ring)} ELSE {}
  <2>1. /\ handling[w] = "ring" /\ handling' = [handling EXCEPT ![w] = "idle"]
        /\ UNCHANGED <<logs, queue, flushed, inDispatch, drain, batch, flight, sunk>>
        /\ ring' = Append(q, record(w)) /\ lost' = lost \cup gone
    BY <1>8 DEF AppendRing
  <2>2. ring \in Seq(LogRecord) /\ Line = ring
    <3>1. ring \in Seq(LogRecord)
      BY <1>1 DEF LogSequences
    <3>2. Line = (((<< >> \o << >>) \o ring) \o << >>) \o << >>
      BY <1>1, <1>8 DEF LogPhases, Line
    <3>3. << >> \o << >> = << >> /\ << >> \o ring = ring /\ ring \o << >> = ring
      BY <3>1, ConcatEmptySeq
    <3> QED
      BY <3>1, <3>2, <3>3
  <2>3. /\ q \in Seq(LogRecord) /\ Ordered(q) /\ \A r \in gone : Has(Line, r)
        /\ \A r \in LogRecord : Has(q, r) <=> Has(Line, r) /\ r \notin gone
    <3>1. CASE full
      <4> DEFINE e == << >>
                 h == <<Head(ring)>>
                 l == Tail(ring)
      <4>1. ring # << >>
        BY <2>2, <3>1, LogAssumption
      <4>2. /\ Head(ring) \in LogRecord /\ h \in Seq(LogRecord) /\ l \in Seq(LogRecord)
            /\ e \in Seq(LogRecord)
            /\ ring = h \o l
        BY <2>2, <4>1
      <4>3. e \o h = h /\ e \o l = l
        BY <4>2, ConcatEmptySeq
      <4>4. \A r : Has(h, r) <=> r = Head(ring)
        BY DEF Has
      <4>5. Ordered((e \o h) \o l)
        BY <1>1, <2>2, <4>2, <4>3
      <4> HIDE DEF e, h, l
      <4>6. Ordered(l) /\ \A r \in LogRecord : Has(l, r) <=> Has(ring, r) /\ ~Has(h, r)
        <5>1. /\ Ordered(e \o l)
              /\ \A r \in LogRecord : Has(e \o l, r) <=> Has((e \o h) \o l, r) /\ ~Has(h, r)
          BY <4>2, <4>5, TakenOut
        <5>2. (e \o h) \o l = ring
          BY <4>2, <4>3
        <5> QED
          BY <4>3, <5>1, <5>2
      <4>7. Has(ring, Head(ring))
        BY <4>2, <4>4, Joined
      <4> QED
        BY <2>2, <3>1, <4>2, <4>4, <4>6, <4>7 DEF l
    <3>2. CASE ~full
      BY <1>1, <2>2, <3>2
    <3> QED
      BY <3>1, <3>2
  <2> HIDE DEF q, gone
  <2>4. /\ Append(q, record(w)) \in Seq(LogRecord) /\ Ordered(Append(q, record(w)))
        /\ \A v \in Writer : \A n \in Nat :
             Has(Append(q, record(w)), <<v, n>>) <=> OnTheWay(v, n)'
        /\ LostBefore'
    BY <2>1, <2>3, HandedOver
  <2>5. LogSequences'
    BY <1>1, <2>1, <2>4 DEF LogSequences
  <2>6. Line' = ring'
    <3>1. ring' \in Seq(LogRecord)
      BY <2>1, <2>4
    <3>2. Line' = (((<< >> \o << >>) \o ring') \o << >>) \o << >>
      BY <1>1, <1>8, <2>1 DEF LogPhases, Line
    <3>3. << >> \o << >> = << >> /\ << >> \o ring' = ring' /\ ring' \o << >> = ring'
      BY <3>1, ConcatEmptySeq
    <3> QED
      BY <3>1, <3>2, <3>3
  <2>7. LogPhases'
    BY <1>1, <1>6, <1>8, <2>1 DEF LogPhases
  <2> QED
    BY <1>6, <2>1, <2>4, <2>5, <2>6, <2>7, NextLine
<1>9. CASE AppendQueue(w)
  <2>1. /\ handling[w] = "queue" /\ handling' = [handling EXCEPT ![w] = "idle"]
        /\ UNCHANGED <<logs, ring, flushed, inDispatch, drain, batch, flight, sunk>>
    BY <1>9 DEF AppendQueue
  <2>2. flushed
    BY <1>1, <2>1 DEF LogPhases
  <2>3. LogPhases'
    BY <1>1, <1>6, <2>1, <2>2 DEF LogPhases
  <2>4. Line \in Seq(LogRecord)
    BY <1>1, Sections
  <2>5. CASE queue' = Append(queue, record(w)) /\ lost' = lost
    <3> DEFINE p == sunk \o flight \o ring \o batch
    <3>1. /\ Append(Line, record(w)) \in Seq(LogRecord) /\ Ordered(Append(Line, record(w)))
          /\ \A v \in Writer : \A n \in Nat :
               Has(Append(Line, record(w)), <<v, n>>) <=> OnTheWay(v, n)'
          /\ LostBefore'
      <4> DEFINE gone == {}
      <4>1. /\ \A r \in gone : Has(Line, r)
            /\ \A r \in LogRecord : Has(Line, r) <=> Has(Line, r) /\ r \notin gone
            /\ lost' = lost \cup gone
        BY <2>5
      <4>2. handling[w] # "idle" /\ logs' = logs
        BY <2>1
      <4> HIDE DEF gone
      <4> QED
        BY <1>1, <2>1, <2>4, <4>1, <4>2, HandedOver
    <3>2. p \in Seq(LogRecord) /\ queue \in Seq(LogRecord) /\ Line = p \o queue
      BY <1>1, Sections DEF LogSequences
    <3>3. Line' = p \o Append(queue, record(w))
      BY <2>1, <2>5 DEF Line
    <3> HIDE DEF p
    <3>4. p \o Append(queue, record(w)) = Append(p \o queue, record(w))
      BY <1>7, <3>2
    <3>5. LogSequences'
      <4>1. queue' \in Seq(LogRecord)
        BY <1>7, <2>5, <3>2
      <4> QED
        BY <1>1, <2>1, <4>1 DEF LogSequences
    <3> QED
      BY <1>6, <2>1, <2>3, <3>1, <3>2, <3>3, <3>4, <3>5, NextLine
  <2>6. CASE queue' = queue /\ lost' = lost \cup {record(w)}
    <3>1. LogSequences' /\ Line' = Line
      BY <1>1, <2>1, <2>6 DEF LogSequences, Line
    <3>2. \A v \in Writer : handling'[v] = (IF v = w THEN "idle" ELSE handling[v])
      BY <2>1 DEF LogInv
    <3>3. \A v \in Writer : \A n \in Nat :
            <<v, n>> \in lost' <=> <<v, n>> \in lost \/ (v = w /\ n = logs[w])
      BY <2>6 DEF record
    <3>4. logs \in [Writer -> Nat] /\ logs' = logs /\ handling[w] # "idle"
      BY <2>1 DEF LogInv
    <3>5. LostBefore'
      BY <1>1, <3>2, <3>3, <3>4 DEF LostBefore
    <3>6. ASSUME NEW v \in Writer, NEW n \in Nat PROVE OnTheWay(v, n)' <=> OnTheWay(v, n)
      <4>1. OnTheWay(v, n)' <=> /\ n \in 1 .. logs[v] /\ <<v, n>> \notin lost'
                                /\ handling'[v] # "idle" => n < logs[v]
        BY <3>4 DEF OnTheWay
      <4>2. logs[v] \in Nat
        BY <3>4
      <4> QED
        BY <3>2, <3>3, <3>4, <4>1, <4>2 DEF OnTheWay
    <3> QED
      BY <1>6, <2>1, <2>3, <3>1, <3>5, <3>6, SameLine
  <2> QED
    BY <1>9, <2>5, <2>6 DEF AppendQueue
<1> QED
  BY <1>2, <1>4, <1>5, <1>8, <1>9

\* The drain goroutine keeps the invariant.
LEMMA DrainStep ==
  ASSUME LogInv, TakeRecord \/ Tick \/ flushRing \/ flushBatch \/ Dispatched \/ Stop
                   \/ SinkComesOrGoes \/ UNCHANGED logVars
  PROVE  LogInv'
<1>1. LogSequences /\ LogPhases /\ LostBefore /\ Ordered(Line)
  BY DEF LogInv
<1>2. UNCHANGED <<logs, handling>>
  BY DEF TakeRecord, Tick, flushRing, flushBatch, Dispatched, Stop, SinkComesOrGoes, logVars
<1>3. /\ logs' \in [Writer -> Nat] /\ \A w \in Writer : handling'[w] # "idle" => logs'[w] > 0
      /\ handling' \in [Writer -> {"idle", "kept", "ring", "queue"}]
  BY <1>2 DEF LogInv
<1>4. ASSUME lost' = lost, LogSequences', LogPhases', Line' = Line PROVE LogInv'
  <2>1. LostBefore'
    BY <1>1, <1>2, <1>4 DEF LostBefore
  <2>2. \A w \in Writer : \A n \in Nat : OnTheWay(w, n)' <=> OnTheWay(w, n)
    BY <1>2, <1>4 DEF OnTheWay
  <2> QED
    BY <1>3, <1>4, <2>1, <2>2, SameLine
<1>5. ASSUME NEW q \in Seq(LogRecord) PROVE q \o << >> = q /\ << >> \o q = q
  BY ConcatEmptySeq
<1>6. \A s, u, v \in Seq(LogRecord) : (s \o u) \o v = s \o (u \o v)
  BY ConcatAssociative
<1>7. CASE TakeRecord
  <2> DEFINE p == sunk \o flight \o ring
             h == <<Head(queue)>>
             l == Tail(queue)
  <2>1. /\ queue # << >> /\ batch' = Append(batch, Head(queue)) /\ queue' = l
        /\ UNCHANGED <<ring, flushed, inDispatch, drain, flight, sunk, lost>>
    BY <1>7 DEF TakeRecord
  <2>2. /\ batch \in Seq(LogRecord) /\ queue \in Seq(LogRecord) /\ p \in Seq(LogRecord)
        /\ Line = (p \o batch) \o queue
    BY <1>1, Sections DEF LogSequences, Line
  <2>3. /\ h \in Seq(LogRecord) /\ l \in Seq(LogRecord) /\ queue = h \o l
        /\ Append(batch, Head(queue)) = batch \o h
        /\ Append(batch, Head(queue)) \in Seq(LogRecord)
    <3>1. Head(queue) \in LogRecord /\ l \in Seq(LogRecord) /\ queue = h \o l
      BY <2>1, <2>2
    <3> DEFINE e == Head(queue)
    <3>2. e \in LogRecord
      BY <3>1
    <3> HIDE DEF e
    <3>3. Append(batch, e) = batch \o <<e>> /\ Append(batch, e) \in Seq(LogRecord)
      BY <2>2, <3>2, AppendIsConcat
    <3> QED
      BY <3>1, <3>3 DEF e
  <2>4. Line' = (p \o (batch \o h)) \o l
    BY <2>1, <2>3 DEF Line
  <2>5. LogSequences'
    BY <1>1, <2>1, <2>3 DEF LogSequences
  <2>6. LogPhases'
    BY <1>1, <1>2, <2>1, <2>3 DEF LogPhases
  <2>7. Line' = Line
    <3> HIDE DEF p, h, l
    <3>1. p \o (batch \o h) = (p \o batch) \o h /\ p \o batch \in Seq(LogRecord)
      <4>1. p \o batch \in Seq(LogRecord)
        BY <2>2, Joined
      <4>2. p \in Seq(LogRecord) /\ batch \in Seq(LogRecord) /\ h \in Seq(LogRecord)
        BY <2>2, <2>3
      <4>3. (p \o batch) \o h = p \o (batch \o h)
        BY <1>6, <4>2, Zenon
      <4> QED
        BY <4>1, <4>3
    <3>2. ((p \o batch) \o h) \o l = (p \o batch) \o (h \o l)
      BY <1>6, <2>3, <3>1, Zenon
    <3> QED
      BY <2>2, <2>3, <2>4, <3>1, <3>2
  <2> QED
    BY <1>4, <2>1, <2>5, <2>6, <2>7
<1>8. CASE Tick \/ Stop \/ SinkComesOrGoes \/ UNCHANGED logVars
  <2>1. /\ UNCHANGED <<ring, queue, flushed, inDispatch, batch, flight, sunk, lost>>
        /\ \/ drain' = drain
           \/ drain = "select" /\ drain' \in {"tick", "last"}
           \/ drain = "select" /\ flushed /\ drain' = "flush"
    BY <1>8 DEF Tick, Stop, SinkComesOrGoes, logVars
  <2>2. LogSequences' /\ Line' = Line
    BY <1>1, <2>1 DEF LogSequences, Line
  <2>3. LogPhases'
    BY <1>1, <1>2, <2>1 DEF LogPhases
  <2> QED
    BY <1>4, <2>1, <2>2, <2>3
<1>9. CASE flushRing
  <2>1. /\ drain = "tick" /\ ring' = << >> /\ flushed' = TRUE /\ flight' = ring
        /\ inDispatch' = (ring # << >>)
        /\ drain' = IF ring = << >> THEN "flush" ELSE "ring"
        /\ UNCHANGED <<queue, batch, sunk, lost>>
    BY <1>9 DEF flushRing
  <2>2. flight = << >>
    BY <1>1, <2>1 DEF LogPhases
  <2>3. LogSequences'
    BY <1>1, <2>1, Joined DEF LogSequences
  <2>4. LogPhases'
    <3>1. CASE ring = << >>
      BY <1>1, <2>1, <3>1 DEF LogPhases
    <3>2. CASE ring # << >>
      BY <1>1, <2>1, <3>2 DEF LogPhases
    <3> QED
      BY <3>1, <3>2
  <2>5. Line' = Line
    <3>1. sunk \o << >> = sunk /\ (sunk \o ring) \o << >> = sunk \o ring
      BY <1>1, <1>5, Joined DEF LogSequences
    <3>2. Line = ((sunk \o << >>) \o ring) \o batch \o queue
      BY <2>2 DEF Line
    <3>3. Line' = ((sunk \o ring) \o << >>) \o batch \o queue
      BY <2>1 DEF Line
    <3> QED
      BY <3>1, <3>2, <3>3
  <2> QED
    BY <1>4, <2>1, <2>3, <2>4, <2>5
<1>10. CASE flushBatch /\ batch = << >>
  <2>1. /\ drain \in {"flush", "last"} /\ drain' \in {"ended", "select"}
        /\ UNCHANGED <<ring, queue, flushed, inDispatch, batch, flight, sunk, lost>>
    BY <1>10 DEF flushBatch
  <2>2. LogSequences' /\ Line' = Line
    BY <1>1, <2>1 DEF LogSequences, Line
  <2>3. LogPhases'
    BY <1>1, <1>2, <2>1 DEF LogPhases
  <2> QED
    BY <1>4, <2>1, <2>2, <2>3
<1>11. CASE flushBatch /\ batch # << >>
  <2>1. /\ drain \in {"flush", "last"} /\ drain' \in {"lastBatch", "batch"}
        /\ flight' = batch /\ batch' = << >> /\ inDispatch' = TRUE
        /\ UNCHANGED <<ring, queue, flushed, sunk, lost>>
    BY <1>11 DEF flushBatch
  <2>2. flight = << >> /\ flushed /\ ring = << >>
    BY <1>1, <1>11, <2>1 DEF LogPhases
  <2>3. LogSequences'
    BY <1>1, <2>1, Joined DEF LogSequences
  <2>4. LogPhases'
    BY <1>1, <2>1, <2>2 DEF LogPhases
  <2>5. Line' = Line
    <3>1. sunk \o << >> = sunk /\ (sunk \o batch) \o << >> = sunk \o batch
      BY <1>1, <1>5, Joined DEF LogSequences
    <3>2. Line = ((sunk \o << >>) \o << >>) \o batch \o queue
      BY <2>2 DEF Line
    <3>3. Line' = ((sunk \o batch) \o << >>) \o << >> \o queue
      BY <2>1, <2>2 DEF Line
    <3> QED
      BY <3>1, <3>2, <3>3
  <2> QED
    BY <1>4, <2>1, <2>3, <2>4, <2>5
<1>12. CASE Dispatched
  <2>1. /\ drain \in {"ring", "batch", "lastBatch"} /\ drain' \in {"flush", "select", "ended"}
        /\ inDispatch' = FALSE /\ flight' = << >>
        /\ UNCHANGED <<ring, queue, flushed, batch>>
    BY <1>12 DEF Dispatched
  <2>2. flushed
    BY <1>1, <2>1 DEF LogPhases
  <2>3. LogPhases'
    BY <1>1, <2>1, <2>2 DEF LogPhases
  <2>4. CASE sunk' = sunk \o flight /\ lost' = lost
    <3>1. LogSequences'
      BY <1>1, <2>1, <2>4, Joined DEF LogSequences
    <3>2. (sunk \o flight) \o << >> = sunk \o flight
      BY <1>1, <1>5, Joined DEF LogSequences
    <3>3. Line' = ((sunk \o flight) \o << >>) \o ring \o batch \o queue
      BY <2>1, <2>4 DEF Line
    <3> QED
      BY <1>4, <2>3, <2>4, <3>1, <3>2, <3>3 DEF Line
  <2>5. CASE sunk' = sunk /\ lost' = lost \cup ToSet(flight)
    <3> DEFINE c == ring \o batch \o queue
    <3>1. LogSequences'
      BY <1>1, <2>1, <2>5, Joined DEF LogSequences
    <3>2. /\ sunk \in Seq(LogRecord) /\ flight \in Seq(LogRecord) /\ c \in Seq(LogRecord)
          /\ Line = (sunk \o flight) \o c
      BY <1>1, Sections DEF LogSequences
    <3>3. Line' = sunk \o c
      <4>1. Line' = ((((sunk \o << >>) \o ring) \o batch) \o queue)
        BY <2>1, <2>5 DEF Line
      <4>2. sunk \o << >> = sunk
        BY <1>5, <3>2
      <4>3. /\ ring \in Seq(LogRecord) /\ batch \in Seq(LogRecord) /\ queue \in Seq(LogRecord)
            /\ ring \o batch \in Seq(LogRecord)
        BY <1>1, Joined DEF LogSequences
      <4>4. (sunk \o ring) \o batch = sunk \o (ring \o batch)
        <5>1. sunk \in Seq(LogRecord) /\ ring \in Seq(LogRecord) /\ batch \in Seq(LogRecord)
          BY <3>2, <4>3
        <5> QED
          BY <1>6, <5>1, Zenon
      <4>5. (sunk \o (ring \o batch)) \o queue = sunk \o ((ring \o batch) \o queue)
        <5> DEFINE d == ring \o batch
        <5>1. sunk \in Seq(LogRecord) /\ d \in Seq(LogRecord) /\ queue \in Seq(LogRecord)
          BY <3>2, <4>3
        <5> HIDE DEF d
        <5>2. (sunk \o d) \o queue = sunk \o (d \o queue)
          BY <1>6, <5>1, Zenon
        <5> QED
          BY <5>2 DEF d
      <4> QED
        BY <4>1, <4>2, <4>4, <4>5
    <3> HIDE DEF c
    <3>4. \A r : Has(flight, r) <=> r \in ToSet(flight)
      BY <3>2 DEF Has, ToSet
    <3>5. /\ Ordered(sunk \o c)
          /\ \A r \in LogRecord : Has(sunk \o c, r) <=> Has(Line, r) /\ r \notin ToSet(flight)
      BY <1>1, <3>2, <3>4, TakenOut
    <3>6. \A r \in ToSet(flight) : Has(Line, r)
      BY <3>2, <3>4, Joined
    <3>7. ASSUME NEW w \in Writer, NEW n \in Nat
          PROVE  /\ Has(sunk \o c, <<w, n>>) <=> OnTheWay(w, n)'
                 /\ <<w, n>> \in lost' => n <= logs[w] /\ (handling[w] # "idle" => n < logs[w])
      <4>1. <<w, n>> \in LogRecord
        BY DEF LogRecord
      <4>2. Has(Line, <<w, n>>) <=> OnTheWay(w, n)
        BY DEF LogInv
      <4>3. OnTheWay(w, n)' <=> OnTheWay(w, n) /\ <<w, n>> \notin ToSet(flight)
        BY <1>2, <2>5 DEF OnTheWay
      <4>4. <<w, n>> \in lost => n <= logs[w] /\ (handling[w] # "idle" => n < logs[w])
        BY <1>1 DEF LostBefore
      <4>5. OnTheWay(w, n) => n <= logs[w] /\ (handling[w] # "idle" => n < logs[w])
        BY DEF OnTheWay, LogInv
      <4> QED
        BY <2>5, <3>5, <3>6, <4>1, <4>2, <4>3, <4>4, <4>5
    <3>8. LostBefore'
      BY <1>2, <3>7 DEF LostBefore
    <3> QED
      BY <1>3, <2>3, <3>1, <3>3, <3>5, <3>7, <3>8, NextLine
  <2> QED
    BY <1>12, <2>4, <2>5 DEF Dispatched
<1> QED
  BY <1>7, <1>8, <1>9, <1>10, <1>11, <1>12

\* No record has been made at first.
LEMMA LogInitial == LogInit => LogInv
<1> SUFFICES ASSUME LogInit PROVE LogInv
  OBVIOUS
<1>1. << >> \in Seq(LogRecord) /\ << >> \o << >> = << >>
  OBVIOUS
<1>2. Line = << >> /\ LogSequences
  BY <1>1 DEF LogInit, Line, LogSequences
<1>3. \A r : ~Has(<< >>, r)
  BY DEF Has
<1>4. Ordered(<< >>)
  BY DEF Ordered
<1>5. logs \in [Writer -> Nat] /\ \A w \in Writer : logs[w] = 0 /\ handling[w] = "idle"
  BY DEF LogInit
<1>6. handling \in [Writer -> {"idle", "kept", "ring", "queue"}]
  BY DEF LogInit
<1>7. LogPhases
  BY <1>5 DEF LogInit, LogPhases
<1>8. LostBefore
  BY DEF LogInit, LostBefore
<1>9. \A w \in Writer : \A n \in Nat : ~OnTheWay(w, n)
  BY <1>5 DEF OnTheWay
<1> QED
  BY <1>2, <1>3, <1>4, <1>5, <1>6, <1>7, <1>8, <1>9 DEF LogInv

\* Every step keeps the invariant.
LEMMA LogKept == LogInv /\ [LogNext]_logVars => LogInv'
BY WriterStep, DrainStep DEF LogNext

\* A record that was not dropped is on its way to the sink exactly once, the
\* records of a goroutine in their order, and the ring is empty for good once
\* it has been flushed, for any goroutines and any sizes of ring, queue and
\* batch: until the flush the ring is the whole line, a writer that found the
\* ring unflushed asks again with the mutex held, and what a full ring, a full
\* queue or a missing sink drops is taken out of the line and put down as lost.
THEOREM LogKeptInOrderCorrect == LogSpec => []LogKeptInOrder
<1>1. LogInv => LogKeptInOrder
  <2> SUFFICES ASSUME LogInv PROVE LogKeptInOrder
    OBVIOUS
  <2>1. flushed => ring = << >>
    BY DEF LogInv, LogPhases
  <2>2. Line \in Seq(LogRecord)
    BY Sections DEF LogInv
  <2>3. \A i \in DOMAIN Line : /\ Line[i] = <<Line[i][1], Line[i][2]>>
                               /\ Line[i][1] \in Writer /\ Line[i][2] \in Nat
    BY <2>2 DEF LogRecord
  <2>4. ASSUME NEW w \in Writer
        PROVE  LET mine == {i \in DOMAIN Line : Line[i][1] = w}
                   kept == {n \in 1 .. logs[w] : /\ <<w, n>> \notin lost
                                                 /\ handling[w] # "idle" => n < logs[w]}
               IN /\ {Line[i][2] : i \in mine} = kept
                  /\ \A i, j \in mine : i < j => Line[i][2] < Line[j][2]
    <3> DEFINE mine == {i \in DOMAIN Line : Line[i][1] = w}
               kept == {n \in 1 .. logs[w] : /\ <<w, n>> \notin lost
                                             /\ handling[w] # "idle" => n < logs[w]}
    <3>1. \A n : n \in kept <=> n \in Nat /\ OnTheWay(w, n)
      BY DEF OnTheWay, LogInv
    <3>2. \A n \in Nat : OnTheWay(w, n) <=> \E i \in DOMAIN Line : Line[i] = <<w, n>>
      BY DEF LogInv, Has
    <3>3. \A n : n \in {Line[i][2] : i \in mine} <=> n \in Nat /\ \E i \in DOMAIN Line : Line[i] = <<w, n>>
      BY <2>3
    <3>4. {Line[i][2] : i \in mine} = kept
      BY <3>1, <3>2, <3>3
    <3>5. \A i, j \in mine : i < j => Line[i][2] < Line[j][2]
      BY DEF LogInv, Ordered
    <3> QED
      BY <3>4, <3>5
  <2> QED
    BY <2>1, <2>4 DEF LogKeptInOrder
<1> QED
  BY <1>1, LogInitial, LogKept, PTL DEF LogSpec

\* The ring and the queue never hold more than their size, and the flag of the
\* dispatch is set exactly while the drain goroutine dispatches.
LogBounds ==
  /\ sink \in BOOLEAN /\ \A w \in Writer : logs[w] <= MaxLogs
  /\ Len(ring) <= RingSize /\ Len(queue) <= QueueSize

\* A full ring loses its oldest record to a new one, a full queue takes none.
LEMMA LogBoundsStep == LogInv /\ LogBounds /\ [LogNext]_logVars => LogBounds'
<1> SUFFICES ASSUME LogInv, LogBounds, [LogNext]_logVars PROVE LogBounds'
  OBVIOUS
<1>1. /\ logs \in [Writer -> Nat] /\ ring \in Seq(LogRecord) /\ queue \in Seq(LogRecord)
      /\ MaxLogs \in Nat /\ RingSize \in Nat \ {0} /\ QueueSize \in Nat \ {0}
  BY LogAssumption DEF LogInv, LogSequences
<1>2. Len(ring) \in Nat /\ Len(queue) \in Nat
  BY <1>1
<1>3. ASSUME NEW w \in Writer, Handle(w) PROVE LogBounds'
  <2>1. \A v \in Writer : logs'[v] = logs[v] \/ logs'[v] = logs[w] + 1
    BY <1>1, <1>3 DEF Handle
  <2>2. UNCHANGED <<sink, ring, queue>> /\ logs[w] + 1 <= MaxLogs
    BY <1>1, <1>3 DEF Handle
  <2> QED
    BY <2>1, <2>2 DEF LogBounds
<1>4. ASSUME NEW w \in Writer, Look(w) PROVE LogBounds'
  BY <1>4 DEF Look, LogBounds
<1>5. ASSUME NEW w \in Writer, AppendRing(w) PROVE LogBounds'
  <2>1. UNCHANGED <<sink, logs, queue>>
    BY <1>5 DEF AppendRing
  <2>2. record(w) \in LogRecord
    BY <1>1 DEF record, LogRecord
  <2>3. CASE ring' = ring
    BY <2>1, <2>3 DEF LogBounds
  <2>4. CASE ring' = Append(Tail(ring), record(w)) /\ Len(ring) >= RingSize
    <3>1. ring # << >> /\ Tail(ring) \in Seq(LogRecord) /\ Len(Tail(ring)) = Len(ring) - 1
      BY <1>1, <2>4
    <3>2. Len(ring') = Len(ring)
      BY <1>2, <2>2, <2>4, <3>1
    <3> QED
      BY <2>1, <3>2 DEF LogBounds
  <2>5. CASE ring' = Append(ring, record(w)) /\ ~(Len(ring) >= RingSize)
    <3>1. Len(ring') = Len(ring) + 1
      BY <1>1, <2>2, <2>5
    <3>2. Len(ring') <= RingSize
      BY <1>1, <1>2, <2>5, <3>1
    <3> QED
      BY <2>1, <3>2 DEF LogBounds
  <2> QED
    BY <1>5, <2>3, <2>4, <2>5 DEF AppendRing
<1>6. ASSUME NEW w \in Writer, AppendQueue(w) PROVE LogBounds'
  <2>1. UNCHANGED <<sink, logs, ring>>
    BY <1>6 DEF AppendQueue
  <2>2. record(w) \in LogRecord
    BY <1>1 DEF record, LogRecord
  <2>3. CASE queue' = queue
    BY <2>1, <2>3 DEF LogBounds
  <2>4. CASE queue' = Append(queue, record(w)) /\ Len(queue) < QueueSize
    <3>1. Len(queue') = Len(queue) + 1
      BY <1>1, <2>2, <2>4
    <3>2. Len(queue') <= QueueSize
      BY <1>1, <1>2, <2>4, <3>1
    <3> QED
      BY <2>1, <3>2 DEF LogBounds
  <2> QED
    BY <1>6, <2>3, <2>4 DEF AppendQueue
<1>7. CASE TakeRecord
  <2>1. UNCHANGED <<sink, logs, ring>> /\ queue # << >> /\ queue' = Tail(queue)
    BY <1>7 DEF TakeRecord
  <2>2. Len(queue') = Len(queue) - 1
    BY <1>1, <2>1
  <2>3. Len(queue') <= QueueSize
    BY <1>1, <1>2, <2>2 DEF LogBounds
  <2> QED
    BY <2>1, <2>3 DEF LogBounds
<1>8. CASE flushRing
  <2>1. UNCHANGED <<sink, logs, queue>> /\ ring' = << >>
    BY <1>8 DEF flushRing
  <2>2. Len(ring') = 0
    BY <2>1
  <2>3. Len(ring') <= RingSize
    BY <1>1, <2>2
  <2> QED
    BY <2>1, <2>3 DEF LogBounds
<1>9. CASE Tick \/ flushBatch \/ Dispatched \/ Stop \/ UNCHANGED logVars
  <2>1. UNCHANGED <<sink, logs, ring, queue>>
    BY <1>9 DEF Tick, flushBatch, Dispatched, Stop, logVars
  <2> QED
    BY <2>1 DEF LogBounds
<1>10. CASE SinkComesOrGoes
  BY <1>10 DEF SinkComesOrGoes, LogBounds
<1> QED
  BY <1>3, <1>4, <1>5, <1>6, <1>7, <1>8, <1>9, <1>10 DEF LogNext

\* At the start nothing is logged.
LEMMA LogBoundsInitial == LogInit => LogBounds
<1> SUFFICES ASSUME LogInit PROVE LogBounds
  OBVIOUS
<1>1. Len(<< >>) = 0
  OBVIOUS
<1>2. Len(ring) = 0 /\ Len(queue) = 0 /\ sink \in BOOLEAN
  BY <1>1 DEF LogInit
<1>3. \A w \in Writer : logs[w] = 0
  BY DEF LogInit
<1> QED
  BY <1>2, <1>3, LogAssumption DEF LogBounds

\* The invariant and the bounds have the types in them.
LEMMA LogTypes == LogInv /\ LogBounds => LogTypeOK
<1> SUFFICES ASSUME LogInv, LogBounds PROVE LogTypeOK
  OBVIOUS
<1>1. /\ logs \in [Writer -> Nat] /\ MaxLogs \in Nat
      /\ handling \in [Writer -> {"idle", "kept", "ring", "queue"}]
  BY LogAssumption DEF LogInv
<1>2. logs \in [Writer -> 0 .. MaxLogs]
  <2>1. \A w \in Writer : logs[w] \in 0 .. MaxLogs
    BY <1>1 DEF LogBounds
  <2> QED
    BY <1>1, <2>1
<1>3. LogPhases
  BY DEF LogInv
<1> QED
  BY <1>1, <1>2, <1>3 DEF LogTypeOK, LogBounds, LogPhases

\* The ring, the queue and the flag of the dispatch keep their bounds and meaning.
THEOREM LogTypeCorrect == LogSpec => []LogTypeOK
<1>1. LogInit => LogBounds
  BY LogBoundsInitial
<1>2. LogInv /\ LogBounds => LogTypeOK
  BY LogTypes
<1> QED
  BY <1>1, <1>2, LogInitial, LogKept, LogBoundsStep, PTL DEF LogSpec

-----------------------------------------------------------------------------
(* The composition.                                                        *)

\* A step of the composition is a step of one component, and the others stay
\* where they are.
LEMMA OneCalls ==
  CallsNext => /\ [Next]_vars /\ [McpNext]_mcpVars /\ [ExtNext]_extVars
               /\ [StackNext]_stackVars /\ [LogNext]_logVars
<1>1. ASSUME ToolsStep
      PROVE  Next /\ UNCHANGED <<mcpVars, extVars, stackVars, logVars>>
  BY <1>1 DEF ToolsStep, InTools, Next
<1>2. ASSUME McpStep
      PROVE  McpNext /\ UNCHANGED <<vars, extVars, stackVars, logVars>>
  BY <1>2 DEF McpStep, InMcp, McpNext
<1>3. ASSUME HostStep
      PROVE  ExtNext /\ UNCHANGED <<vars, mcpVars, stackVars, logVars>>
  BY <1>3 DEF HostStep, InHost, ExtNext
<1>4. ASSUME StackStep
      PROVE  StackNext /\ UNCHANGED <<vars, mcpVars, extVars, logVars>>
  BY <1>4 DEF StackStep, InStacks, StackNext
<1>5. ASSUME LogStep
      PROVE  LogNext /\ UNCHANGED <<vars, mcpVars, extVars, stackVars>>
  BY <1>5 DEF LogStep, InLog, LogNext
<1> QED
  BY <1>1, <1>2, <1>3, <1>4, <1>5 DEF CallsNext

\* The types of all that calls through the host hold together: each component
\* keeps its invariant whichever of them moves.
THEOREM CallsTypeCorrect ==
  ASSUME SelfSend = {}
  PROVE  CallsSpec => []CallsTypeOK
<1> DEFINE CallsVars == <<part, vars, mcpVars, extVars, stackVars, logVars>>
           CallsInv == EntryInv /\ McpInv /\ HostInv /\ StackInv /\ LogInv /\ LogBounds
<1>1. CallsInit => CallsInv
  BY EntryInitial, McpInitial, HostInitial, StackInitial, LogInitial, LogBoundsInitial
     DEF CallsInit
<1>2. CallsInv /\ [CallsNext]_CallsVars => CallsInv'
  <2> SUFFICES ASSUME CallsInv, [CallsNext]_CallsVars PROVE CallsInv'
    OBVIOUS
  <2>1. /\ [Next]_vars /\ [McpNext]_mcpVars /\ [ExtNext]_extVars
        /\ [StackNext]_stackVars /\ [LogNext]_logVars
    BY OneCalls
  <2> QED
    BY <2>1, EntryKept, McpKept, HostKept, StackKept, LogKept, LogBoundsStep
<1>3. CallsInv => CallsTypeOK
  <2> SUFFICES ASSUME CallsInv PROVE CallsTypeOK
    OBVIOUS
  <2>1. TypeOK /\ McpTypeOK
    BY DEF EntryInv, McpInv
  <2> QED
    BY <2>1, HostTypes, StackTypes, LogTypes DEF CallsTypeOK
<1> QED
  BY <1>1, <1>2, <1>3, PTL DEF CallsSpec

=============================================================================
