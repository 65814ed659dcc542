----------------------- MODULE AgentsExtension_proofs -----------------------
(* Theorems about what the agents extension does: LoopGuard, for any agents, *)
(* calls and configuration; and Transcript, for any agents, any number of    *)
(* pieces and turns.                                                         *)
EXTENDS MCParts, Agents_proofs, Harness_proofs

-----------------------------------------------------------------------------
(* LoopGuard.                                                              *)

\* The configuration the code computes is positive where it has to be.
LEMMA ConfigBounds ==
  /\ GuardWindow \in Nat \ {0} /\ MinRepeats \in Nat /\ MinRepeats >= 2
  /\ MaxPeriod \in Nat \ {0}
BY LoopGuardAssumption DEF GuardWindow, MinRepeats, MaxPeriod

\* The last n elements, position by position.
LEMMA LastOfProperties ==
  ASSUME NEW S, NEW s \in Seq(S), NEW n \in Nat \ {0}
  PROVE  /\ LastOf(s, n) \in Seq(S)
         /\ Len(LastOf(s, n)) = IF Len(s) > n THEN n ELSE Len(s)
         /\ \A i \in 1..Len(LastOf(s, n)) :
              LastOf(s, n)[i] = s[Len(s) - Len(LastOf(s, n)) + i]
<1>1. Len(s) \in Nat
  OBVIOUS
<1>2. CASE Len(s) > n
  <2>1. LastOf(s, n) = SubSeq(s, Len(s) - n + 1, Len(s))
    BY <1>2 DEF LastOf
  <2>2. /\ Len(s) - n + 1 \in 1..Len(s) /\ Len(s) \in 1..Len(s)
        /\ Len(s) - (Len(s) - n + 1) + 1 = n
    BY <1>1, <1>2
  <2>3. LastOf(s, n) \in Seq(S) /\ Len(LastOf(s, n)) = n
    BY <1>1, <2>1, <2>2
  <2>4. \A i \in 1..n : LastOf(s, n)[i] = s[Len(s) - n + i]
    BY <1>1, <2>1, <2>2
  <2> QED
    BY <1>2, <2>3, <2>4
<1>3. CASE ~(Len(s) > n)
  BY <1>1, <1>3 DEF LastOf
<1> QED
  BY <1>2, <1>3

\* Cutting before appending changes nothing: what the guard looks at is the end
\* of everything that was executed.
LEMMA LastOfAppended ==
  ASSUME NEW S, NEW s \in Seq(S), NEW n \in Nat \ {0}, NEW x \in S
  PROVE  LastOf(Append(LastOf(s, n), x), n) = LastOf(Append(s, x), n)
<1> DEFINE t == LastOf(s, n)
           u == Append(t, x)
           w == Append(s, x)
           a == LastOf(u, n)
           b == LastOf(w, n)
<1>1. /\ t \in Seq(S) /\ Len(t) = IF Len(s) > n THEN n ELSE Len(s)
      /\ \A i \in 1..Len(t) : t[i] = s[Len(s) - Len(t) + i]
      /\ Len(s) \in Nat
  BY LastOfProperties
<1> HIDE DEF t
<1>2. /\ u \in Seq(S) /\ Len(u) = Len(t) + 1
      /\ \A i \in 1..Len(t) : u[i] = t[i]
      /\ u[Len(t) + 1] = x
  BY <1>1
<1>3. /\ w \in Seq(S) /\ Len(w) = Len(s) + 1
      /\ \A i \in 1..Len(s) : w[i] = s[i]
      /\ w[Len(s) + 1] = x
  OBVIOUS
<1> HIDE DEF u, w
<1>4. /\ a \in Seq(S) /\ Len(a) = IF Len(u) > n THEN n ELSE Len(u)
      /\ \A i \in 1..Len(a) : a[i] = u[Len(u) - Len(a) + i]
  BY <1>2, LastOfProperties
<1>5. /\ b \in Seq(S) /\ Len(b) = IF Len(w) > n THEN n ELSE Len(w)
      /\ \A i \in 1..Len(b) : b[i] = w[Len(w) - Len(b) + i]
  BY <1>3, LastOfProperties
<1> HIDE DEF a, b
<1>6. /\ Len(s) \in Nat /\ Len(t) \in Nat /\ Len(t) <= Len(s)
      /\ Len(a) \in Nat /\ Len(a) <= Len(t) + 1 /\ Len(a) = Len(b)
      /\ Len(u) = Len(t) + 1 /\ Len(w) = Len(s) + 1
  BY <1>1, <1>2, <1>3, <1>4, <1>5
<1>7. ASSUME NEW i \in 1..Len(a) PROVE a[i] = b[i]
  <2>0. Len(u) - Len(a) + i \in 1..(Len(t) + 1)
    BY <1>6
  <2>1. PICK k \in 1..(Len(t) + 1) : k = Len(u) - Len(a) + i
    BY <2>0
  <2>2. a[i] = u[k]
    BY <1>4, <2>1
  <2>9. Len(s) - Len(t) + k \in 1..(Len(s) + 1)
    BY <1>6
  <2>3. PICK q \in 1..(Len(s) + 1) : q = Len(s) - Len(t) + k
    BY <2>9
  <2>4. q = Len(w) - Len(b) + i
    BY <1>6, <2>1, <2>3
  <2>5. b[i] = w[q]
    BY <1>5, <1>6, <2>4
  <2>6. CASE k = Len(t) + 1
    <3>1. q = Len(s) + 1
      BY <1>6, <2>3, <2>6
    <3> QED
      BY <1>2, <1>3, <2>2, <2>5, <2>6, <3>1
  <2>7. CASE k \in 1..Len(t)
    <3>1. q \in 1..Len(s)
      BY <1>6, <2>3, <2>7
    <3>2. t[k] = s[q]
      BY <1>1, <2>3, <2>7
    <3> QED
      BY <1>2, <1>3, <2>2, <2>5, <2>7, <3>1, <3>2
  <2> QED
    BY <1>6, <2>6, <2>7
<1>8. a = b
  BY <1>4, <1>5, <1>6, <1>7, SMTT(60)
<1> QED
  BY <1>8 DEF a, b, t, u, w

\* A stretch of p calls in s of which each equals the one m calls later.
Stretch(s, m, p) ==
  \E i \in 0 .. Len(s) - p : \A j \in 1 .. p - m : s[i + j] = s[i + j + m]

\* A sequence whose last p calls are such a stretch.
EndsInStretch(t, m, p) ==
  /\ p <= Len(t)
  /\ \A i \in Len(t) - p + 1 .. Len(t) - m : t[i] = t[i + m]

\* A stretch that one more call completes is at the end, where the guard sees it
\* when its window is long enough.
LEMMA NewStretchSeen ==
  ASSUME NEW S, NEW s \in Seq(S), NEW x \in S, NEW W \in Nat \ {0},
         NEW m \in Nat \ {0}, NEW p \in Nat \ {0}, m <= p, p <= W,
         Stretch(Append(s, x), m, p), ~Stretch(s, m, p)
  PROVE  EndsInStretch(LastOf(Append(s, x), W), m, p)
<1> DEFINE w == Append(s, x)
           t == LastOf(w, W)
<1>1. /\ w \in Seq(S) /\ Len(w) = Len(s) + 1 /\ Len(s) \in Nat
      /\ \A i \in 1..Len(s) : w[i] = s[i]
  OBVIOUS
<1>2. PICK i \in 0 .. Len(w) - p : \A j \in 1 .. p - m : w[i + j] = w[i + j + m]
  BY DEF Stretch
<1> HIDE DEF w
<1>3. /\ t \in Seq(S) /\ Len(t) = IF Len(w) > W THEN W ELSE Len(w)
      /\ \A k \in 1..Len(t) : t[k] = w[Len(w) - Len(t) + k]
  BY <1>1, LastOfProperties
<1> HIDE DEF t
<1>4. i = Len(w) - p
  <2> SUFFICES ASSUME i # Len(w) - p PROVE FALSE
    OBVIOUS
  <2>1. i \in 0 .. Len(s) - p
    BY <1>1
  <2>2. ASSUME NEW j \in 1 .. p - m PROVE s[i + j] = s[i + j + m]
    <3>1. i + j \in 1..Len(s) /\ i + j + m \in 1..Len(s)
      BY <1>1, <2>1
    <3> QED
      BY <1>1, <1>2, <3>1
  <2> QED
    BY <2>1, <2>2 DEF Stretch
<1>5. /\ p <= Len(t) /\ Len(t) \in Nat /\ Len(t) <= Len(w) /\ Len(w) \in Nat
  BY <1>1, <1>3, <1>4
<1>6. ASSUME NEW k \in Len(t) - p + 1 .. Len(t) - m PROVE t[k] = t[k + m]
  <2>1. k - (Len(t) - p) \in 1 .. p - m /\ k \in 1..Len(t) /\ k + m \in 1..Len(t)
    BY <1>5
  <2>2. PICK j \in 1 .. p - m : j = k - (Len(t) - p)
    BY <2>1
  <2>3. /\ i + j = Len(w) - Len(t) + k
        /\ i + j + m = Len(w) - Len(t) + (k + m)
    BY <1>4, <1>5, <2>2
  <2>4. t[k] = w[i + j] /\ t[k + m] = w[i + j + m]
    BY <1>3, <2>1, <2>3
  <2> QED
    BY <1>2, <2>4
<1> QED
  BY <1>5, <1>6 DEF EndsInStretch, t, w

\* What NoLoopRuns says of the run of one agent.
LoopFree(s) ==
  /\ MinRepeats <= GuardWindow => ~Stretch(s, 1, MinRepeats)
  /\ \A m \in 2 .. MaxPeriod : 2 * m <= GuardWindow => ~Stretch(s, m, 2 * m)

\* What is free of loops is what NoLoopRuns asks for.
LEMMA NoLoopRunsIsLoopFree ==
  (\A a \in Guarded : LoopFree(executed[a])) => NoLoopRuns
<1> DEFINE Repeats(q, m, k) == \E i \in 0 .. Len(q) - k * m :
                                \A j \in 1 .. (k - 1) * m : q[i + j] = q[i + j + m]
<1>1. \A q : Repeats(q, 1, MinRepeats) => Stretch(q, 1, MinRepeats)
  <2>1. MinRepeats * 1 = MinRepeats /\ (MinRepeats - 1) * 1 = MinRepeats - 1
    BY ConfigBounds
  <2> QED
    BY <2>1 DEF Stretch
<1>2. ASSUME NEW m \in 2 .. MaxPeriod, NEW q PROVE Repeats(q, m, 2) => Stretch(q, m, 2 * m)
  <2>1. (2 - 1) * m = 2 * m - m
    BY ConfigBounds
  <2> QED
    BY <2>1 DEF Stretch
<1> SUFFICES ASSUME \A a \in Guarded : LoopFree(executed[a]), NEW a \in Guarded
             PROVE  /\ MinRepeats <= GuardWindow => ~Repeats(executed[a], 1, MinRepeats)
                    /\ \A m \in 2 .. MaxPeriod :
                         2 * m <= GuardWindow => ~Repeats(executed[a], m, 2)
  BY DEF NoLoopRuns
<1> HIDE DEF Repeats
<1> QED
  BY <1>1, <1>2 DEF LoopFree

\* A call that the guard lets through leaves the run of its agent without loops.
LEMMA AllowedLoopFree ==
  ASSUME NEW S, NEW s \in Seq(S), NEW x \in S, LoopFree(s),
         ~detectToolLoop(Append(LastOf(s, GuardWindow), x))
  PROVE  LoopFree(Append(s, x))
<1> DEFINE t == LastOf(Append(s, x), GuardWindow)
<1>1. LastOf(Append(LastOf(s, GuardWindow), x), GuardWindow) = t
  BY ConfigBounds, LastOfAppended
<1>2. Len(t) \in Nat
  <2>1. Append(s, x) \in Seq(S)
    OBVIOUS
  <2> QED
    BY <2>1, ConfigBounds, LastOfProperties
<1>3. ASSUME Len(t) >= 2
      PROVE  /\ ~(Len(t) >= MinRepeats /\ blocksEqual(t, 1, MinRepeats))
             /\ \A m \in 2 .. MaxPeriod :
                  ~(2 * m <= GuardWindow /\ 2 * m <= Len(t) /\ blocksEqual(t, m, 2))
  BY <1>1, <1>3 DEF detectToolLoop
<1> HIDE DEF t
<1>4. ASSUME MinRepeats <= GuardWindow, Stretch(Append(s, x), 1, MinRepeats) PROVE FALSE
  <2>0. EndsInStretch(t, 1, MinRepeats)
    <3>1. ~Stretch(s, 1, MinRepeats)
      BY <1>4 DEF LoopFree
    <3>2. /\ GuardWindow \in Nat \ {0} /\ MinRepeats \in Nat \ {0}
          /\ 1 \in Nat \ {0} /\ 1 <= MinRepeats
      BY ConfigBounds
    <3> QED
      BY <1>4, <3>1, <3>2, NewStretchSeen DEF t
  <2>1. /\ MinRepeats <= Len(t)
        /\ \A i \in Len(t) - MinRepeats + 1 .. Len(t) - 1 : t[i] = t[i + 1]
    BY <2>0 DEF EndsInStretch
  <2>2. blocksEqual(t, 1, MinRepeats)
    <3>1. MinRepeats * 1 = MinRepeats
      BY ConfigBounds
    <3> QED
      BY <2>1, <3>1 DEF blocksEqual
  <2> QED
    BY <1>2, <1>3, <2>1, <2>2, ConfigBounds
<1>5. ASSUME NEW m \in 2 .. MaxPeriod, 2 * m <= GuardWindow,
             Stretch(Append(s, x), m, 2 * m)
      PROVE  FALSE
  <2>0. EndsInStretch(t, m, 2 * m)
    <3>1. ~Stretch(s, m, 2 * m)
      BY <1>5 DEF LoopFree
    <3>2. /\ GuardWindow \in Nat \ {0} /\ 2 * m \in Nat \ {0}
          /\ m \in Nat \ {0} /\ m <= 2 * m
      BY ConfigBounds
    <3> QED
      BY <1>5, <3>1, <3>2, NewStretchSeen DEF t
  <2>1. /\ 2 * m <= Len(t)
        /\ \A i \in Len(t) - 2 * m + 1 .. Len(t) - m : t[i] = t[i + m]
    BY <2>0 DEF EndsInStretch
  <2>2. blocksEqual(t, m, 2)
    BY <2>1 DEF blocksEqual
  <2>3. Len(t) >= 2
    BY <1>2, <2>1, ConfigBounds
  <2> QED
    BY <1>3, <1>5, <2>1, <2>2, <2>3
<1> QED
  BY <1>4, <1>5 DEF LoopFree

\* The inductive invariant: the guard's memory of an agent is the end of all the
\* agent has executed, which holds no loop.
GuardInv ==
  /\ LoopGuardTypeOK
  /\ \A a \in Guarded : /\ buffers[a] = LastOf(executed[a], GuardWindow)
                        /\ LoopFree(executed[a])

\* Nothing run is free of loops.
LEMMA EmptyLoopFree == LoopFree(<<>>) /\ LastOf(<<>>, GuardWindow) = <<>>
<1>1. Len(<<>>) = 0
  OBVIOUS
<1>2. ASSUME NEW m, NEW p \in Nat \ {0} PROVE ~Stretch(<<>>, m, p)
  BY <1>1 DEF Stretch
<1>3. \A m \in 2 .. MaxPeriod : 2 * m \in Nat \ {0}
  BY ConfigBounds
<1>4. LastOf(<<>>, GuardWindow) = <<>>
  BY <1>1, ConfigBounds DEF LastOf
<1>5. MinRepeats \in Nat \ {0}
  BY ConfigBounds
<1> QED
  BY <1>2, <1>3, <1>4, <1>5 DEF LoopFree

\* The invariant holds at the start.
LEMMA GuardInit == LoopGuardInit => GuardInv
<1> SUFFICES ASSUME LoopGuardInit PROVE GuardInv
  OBVIOUS
<1>1. <<>> \in Seq(Signature) /\ Len(<<>>) = 0
  OBVIOUS
<1>2. LoopGuardTypeOK
  BY <1>1, ConfigBounds, LoopGuardAssumption DEF LoopGuardInit, LoopGuardTypeOK
<1>3. \A a \in Guarded : buffers[a] = <<>> /\ executed[a] = <<>>
  BY DEF LoopGuardInit, Guarded
<1> QED
  BY <1>2, <1>3, EmptyLoopFree DEF GuardInv

\* Every step keeps the invariant.
LEMMA GuardKept == GuardInv /\ [LoopGuardNext]_guardVars => GuardInv'
<1> SUFFICES ASSUME GuardInv, [LoopGuardNext]_guardVars PROVE GuardInv'
  OBVIOUS
<1> USE DEF GuardInv
<1>1. ASSUME NEW a \in Caller, NEW call \in Signature, Allow(a, call)
      PROVE  GuardInv'
  <2> DEFINE kept == LastOf(Made(a, call), GuardWindow)
  <2>1. buffers[a] \in Seq(Signature) /\ executed[a] \in Seq(Signature)
    BY DEF LoopGuardTypeOK
  <2>2. Made(a, call) \in Seq(Signature)
    BY <2>1 DEF Made
  <2>3. kept \in Seq(Signature) /\ Len(kept) <= GuardWindow
    <3>1. Len(Made(a, call)) \in Nat
      BY <2>2
    <3> QED
      BY <2>2, <3>1, ConfigBounds, LastOfProperties
  <2> HIDE DEF kept
  <2>4. /\ buffers' \in [Caller -> Seq(Signature)]
        /\ \A b \in Caller : Len(buffers'[b]) <= GuardWindow
    BY <1>1, <2>3 DEF Allow, LoopGuardTypeOK, kept
  <2>5. executed' \in [Caller -> Seq(Signature)]
    <3>1. Append(executed[a], call) \in Seq(Signature)
      BY <2>1
    <3> QED
      BY <1>1, <3>1 DEF Allow, LoopGuardTypeOK
  <2>6. calls' \in 0 .. MaxCalls
    BY <1>1, LoopGuardAssumption DEF Allow, LoopGuardTypeOK
  <2>7. ASSUME NEW b \in Guarded
        PROVE  /\ buffers'[b] = LastOf(executed'[b], GuardWindow)
               /\ LoopFree(executed'[b])
    <3>0. b \in Caller
      BY DEF Guarded
    <3>1. CASE b # a
      <4>1. buffers'[b] = buffers[b] /\ executed'[b] = executed[b]
        BY <1>1, <3>0, <3>1 DEF Allow, LoopGuardTypeOK
      <4> QED
        BY <4>1
    <3>2. CASE b = a
      <4>1. /\ buffers'[a] = kept
            /\ executed'[a] = Append(executed[a], call)
        BY <1>1, <3>2 DEF Allow, LoopGuardTypeOK, kept
      <4>2. Made(a, call) = Append(LastOf(executed[a], GuardWindow), call)
        BY <3>2 DEF Made
      <4>3. kept = LastOf(Append(executed[a], call), GuardWindow)
        BY <2>1, <4>2, ConfigBounds, LastOfAppended DEF kept
      <4>4. ~detectToolLoop(Append(LastOf(executed[a], GuardWindow), call))
        BY <1>1, <3>2, <4>2 DEF Allow
      <4>5. LoopFree(Append(executed[a], call))
        BY <2>1, <3>2, <4>4, AllowedLoopFree
      <4> QED
        BY <3>2, <4>1, <4>3, <4>5
    <3> QED
      BY <3>1, <3>2
  <2> QED
    BY <2>4, <2>5, <2>6, <2>7 DEF LoopGuardTypeOK
<1>2. ASSUME NEW a \in Caller, NEW call \in Signature, Deny(a, call)
      PROVE  GuardInv'
  <2>1. calls' \in 0 .. MaxCalls
    BY <1>2, LoopGuardAssumption DEF Deny, LoopGuardTypeOK
  <2> QED
    BY <1>2, <2>1 DEF Deny, LoopGuardTypeOK
<1>3. CASE loadLoopGuard
  <2>1. <<>> \in Seq(Signature) /\ Len(<<>>) = 0
    OBVIOUS
  <2>2. LoopGuardTypeOK'
    BY <1>3, <2>1, ConfigBounds DEF loadLoopGuard, LoopGuardTypeOK
  <2>3. \A a \in Guarded : buffers'[a] = <<>> /\ executed'[a] = <<>>
    BY <1>3 DEF loadLoopGuard, Guarded
  <2> QED
    BY <2>2, <2>3, EmptyLoopFree
<1>4. CASE UNCHANGED guardVars
  BY <1>4 DEF guardVars, LoopGuardTypeOK
<1> QED
  BY <1>1, <1>2, <1>3, <1>4 DEF LoopGuardNext

\* The guard never remembers more calls of an agent than its window has.
THEOREM LoopGuardTypeCorrect == LoopGuardSpec => []LoopGuardTypeOK
<1>1. GuardInv => LoopGuardTypeOK
  BY DEF GuardInv
<1> QED
  BY GuardInit, GuardKept, <1>1, PTL DEF LoopGuardSpec

\* No agent in the scope of the guard executes the same call MinRepeats times in
\* a row, or a cycle of calls twice, for any configuration and however long the
\* session is: what the guard forgets it never needs again.
THEOREM NoLoopRunsCorrect == LoopGuardSpec => []NoLoopRuns
<1>1. GuardInv => NoLoopRuns
  BY NoLoopRunsIsLoopFree DEF GuardInv
<1> QED
  BY GuardInit, GuardKept, <1>1, PTL DEF LoopGuardSpec

-----------------------------------------------------------------------------
(* Transcript: whose pieces a box has.                                     *)

Text == Seq(Piece)
By(text, o) == \A k \in DOMAIN text : text[k][1] = o
Voiced(text) == text \in Text /\ \E o \in Owner : By(text, o)

VBox == [id : {"u", "a", "n"} \X Nat, text : Text]
PatchOf == [op : {"insert", "append", "replace"}, box : VBox] \cup {setRoot}

\* The box of an answer has a number that was given out and is not reserved; the
\* one that is being written has the pieces of the agent that has the focus.
GoodFor(b, sq, pn, as, fo) ==
  b.id[1] = "a" => /\ b.id[2] \in 1 .. sq
                   /\ b.id[2] # pn
                   /\ b.id[2] = as => By(b.text, fo)
Good(b) == GoodFor(b, seq, pend, asst, focused)

\* A patch puts the pieces of one agent into a box, and into a box that is there
\* those of the agent it belongs to.
PatchFor(p, sq, pn, as, fo) ==
  /\ Voiced(p.box.text)
  /\ p.op \in {"insert", "replace"} => GoodFor(p.box, sq, pn, as, fo)
  /\ p.op = "append" => as # 0 /\ p.box.id = <<"a", as>> /\ By(p.box.text, fo)
GoodPatch(p) == PatchFor(p, seq, pend, asst, focused)

GoodTodo ==
  \A k \in DOMAIN todo : IF todo[k].op = "set_root" THEN k = 1 ELSE GoodPatch(todo[k])

\* The scene is about to be emptied.
Doomed == todo # << >> /\ Head(todo).op = "set_root"

VoiceTypes ==
  /\ focused \in Owner /\ seq \in Nat /\ asst \in 0 .. seq /\ pend \in 0 .. seq
  /\ asst # 0 => pend = 0
  /\ pieces \in [Owner -> 0 .. MaxPieces] /\ turns \in [Owner -> Nat]
  /\ scene \in Seq(VBox) /\ todo \in Seq(PatchOf)

AnswersKept ==
  /\ answer \in Text /\ By(answer, "main")
  /\ endings \in Seq(Text) /\ \A i \in DOMAIN endings : By(endings[i], "main")

VoiceInv ==
  /\ VoiceTypes /\ AnswersKept /\ GoodTodo
  /\ \A i \in DOMAIN scene : Voiced(scene[i].text)
  /\ ~Doomed => \A i \in DOMAIN scene : Good(scene[i])

\* A piece, and pieces behind others of the same agent.
LEMMA PiecesBy ==
  /\ \A o \in Owner : \A n \in 0 .. MaxPieces : <<<<o, n>>>> \in Text /\ By(<<<<o, n>>>>, o)
  /\ << >> \in Text /\ \A o : By(<< >>, o)
  /\ \A s, t \in Text : s \o t \in Text /\ \A o : By(s, o) /\ By(t, o) => By(s \o t, o)
<1>1. \A o \in Owner : \A n \in 0 .. MaxPieces : <<<<o, n>>>> \in Text /\ By(<<<<o, n>>>>, o)
  BY DEF Text, Piece, By
<1>2. << >> \in Text /\ \A o : By(<< >>, o)
  BY DEF Text, By
<1>3. ASSUME NEW s \in Text, NEW t \in Text
      PROVE  s \o t \in Text /\ \A o : By(s, o) /\ By(t, o) => By(s \o t, o)
  <2> DEFINE u == s \o t
  <2>1. /\ u \in Text /\ DOMAIN u = 1 .. Len(s) + Len(t)
        /\ DOMAIN s = 1 .. Len(s) /\ DOMAIN t = 1 .. Len(t) /\ Len(s) \in Nat /\ Len(t) \in Nat
        /\ \A i \in 1 .. Len(s) : u[i] = s[i]
        /\ \A i \in 1 .. Len(t) : u[Len(s) + i] = t[i]
    BY DEF Text
  <2> HIDE DEF u
  <2>2. ASSUME NEW o, By(s, o), By(t, o), NEW k \in DOMAIN u PROVE u[k][1] = o
    <3>1. CASE k \in 1 .. Len(s)
      BY <2>1, <2>2, <3>1 DEF By
    <3>2. CASE k \notin 1 .. Len(s)
      <4>1. k - Len(s) \in 1 .. Len(t) /\ Len(s) + (k - Len(s)) = k
        BY <2>1, <3>2
      <4> QED
        BY <2>1, <2>2, <4>1 DEF By
    <3> QED
      BY <3>1, <3>2
  <2> QED
    BY <2>1, <2>2 DEF By, u
<1> QED
  BY <1>1, <1>2, <1>3

\* What an insert, an append and a replacement look like.
LEMMA Patches ==
  ASSUME NEW kind \in {"u", "a", "n"}, NEW nr \in Nat, NEW text \in Text
  PROVE  LET p == insert(kind, nr, text)
             q == appendText(nr, text)
             r == replaceText(nr, text)
         IN /\ p \in PatchOf /\ p.op = "insert" /\ p.box.id[1] = kind /\ p.box.id[2] = nr
            /\ p.box.text = text
            /\ q \in PatchOf /\ q.op = "append" /\ q.box.id = <<"a", nr>> /\ q.box.text = text
            /\ r \in PatchOf /\ r.op = "replace" /\ r.box.id[1] = "a" /\ r.box.id[2] = nr
            /\ r.box.text = text
BY DEF insert, appendText, replaceText, box, PatchOf, VBox

\* The extension is entered when all its patches are applied; it makes one.
LEMMA OnePatch ==
  ASSUME VoiceInv, Free, UNCHANGED scene, NEW p \in PatchOf, p.op # "set_root",
         todo' = <<p>>, VoiceTypes', AnswersKept', PatchFor(p, seq', pend', asst', focused'),
         \A i \in DOMAIN scene : GoodFor(scene[i], seq', pend', asst', focused')
  PROVE  VoiceInv'
<1>1. DOMAIN todo' = {1} /\ todo'[1] = p
  OBVIOUS
<1>2. GoodTodo'
  BY <1>1 DEF GoodTodo, GoodPatch
<1>3. ~Doomed'
  BY <1>1 DEF Doomed
<1> QED
  BY <1>2, <1>3 DEF VoiceInv, Good

\* It makes none.
LEMMA NoPatch ==
  ASSUME VoiceInv, UNCHANGED <<focused, seq, asst, pend, todo, scene>>, VoiceTypes', AnswersKept'
  PROVE  VoiceInv'
BY DEF VoiceInv, GoodTodo, GoodPatch, Doomed, Good

\* The invariant holds at first.
LEMMA VoiceInitial == TranscriptInit => VoiceInv
<1> SUFFICES ASSUME TranscriptInit PROVE VoiceInv
  OBVIOUS
<1>1. VoiceTypes
  BY TranscriptAssumption DEF TranscriptInit, VoiceTypes
<1>2. AnswersKept
  BY PiecesBy DEF TranscriptInit, AnswersKept
<1> QED
  BY <1>1, <1>2 DEF TranscriptInit, VoiceInv, GoodTodo, Doomed

\* While the extension handles nothing, all boxes are good.
LEMMA FreeGood ==
  ASSUME VoiceInv, Free
  PROVE  todo = << >> /\ \A i \in DOMAIN scene : Good(scene[i])
BY DEF VoiceInv, Free, Doomed

\* A turn starts.
LEMMA UserPromptVoice ==
  ASSUME VoiceInv, NEW o \in Owner, UserPrompt(o) PROVE VoiceInv'
<1>1. VoiceTypes /\ AnswersKept /\ Free /\ UNCHANGED <<turns, pieces, answer, endings, focused, scene>>
  BY DEF VoiceInv, UserPrompt
<1>2. AnswersKept'
  BY <1>1 DEF AnswersKept
<1>3. CASE ~owner(o)
  <2>1. UNCHANGED <<seq, pend, asst, todo>>
    BY <1>3 DEF UserPrompt
  <2>2. VoiceTypes'
    BY <1>1, <2>1 DEF VoiceTypes
  <2> QED
    BY <1>1, <1>2, <2>1, <2>2, NoPatch
<1>4. CASE owner(o)
  <2> DEFINE nr == seq + 1
             p == insert("u", nr, <<<<o, 0>>>>)
  <2>1. seq' = nr /\ pend' = nr /\ asst' = 0 /\ todo' = <<p>>
    BY <1>4 DEF UserPrompt
  <2>2. nr \in Nat /\ <<<<o, 0>>>> \in Text /\ By(<<<<o, 0>>>>, o)
    BY <1>1, TranscriptAssumption, PiecesBy DEF VoiceTypes
  <2>3. p \in PatchOf /\ p.op = "insert" /\ p.box.id[1] = "u" /\ p.box.text = <<<<o, 0>>>>
    BY <2>2, Patches
  <2> HIDE DEF p
  <2>4. VoiceTypes'
    BY <1>1, <2>1, <2>3 DEF VoiceTypes
  <2>5. PatchFor(p, seq', pend', asst', focused')
    BY <2>2, <2>3 DEF PatchFor, Voiced, GoodFor
  <2>6. \A i \in DOMAIN scene : GoodFor(scene[i], seq', pend', asst', focused')
    <3> SUFFICES ASSUME NEW i \in DOMAIN scene, scene[i].id[1] = "a"
                 PROVE  /\ scene[i].id[2] \in 1 .. nr /\ scene[i].id[2] # nr
                        /\ scene[i].id[2] # 0
      BY <1>1, <2>1 DEF Good, GoodFor
    <3>1. scene[i].id[2] \in 1 .. seq
      BY FreeGood, <1>1, SMTT(60) DEF Good, GoodFor
    <3> QED
      BY <3>1, <1>1, SMTT(60) DEF VoiceTypes
  <2> QED
    BY <1>1, <1>2, <2>1, <2>3, <2>4, <2>5, <2>6, OnePatch
<1> QED
  BY <1>3, <1>4

\* A piece of an answer.
LEMMA TokenVoice ==
  ASSUME VoiceInv, NEW o \in Owner, Token(o) PROVE VoiceInv'
<1> DEFINE piece == <<<<o, pieces[o] + 1>>>>
           nr == IF pend = 0 THEN seq + 1 ELSE pend
<1>1. VoiceTypes /\ AnswersKept /\ Free /\ UNCHANGED <<turns, endings, focused, scene>>
  BY DEF VoiceInv, Token
<1>2. piece \in Text /\ By(piece, o)
  <2>1. pieces[o] + 1 \in 0 .. MaxPieces
    BY <1>1, TranscriptAssumption DEF Token, VoiceTypes
  <2> QED
    BY <2>1, PiecesBy
<1>3. AnswersKept'
  <2>1. answer' = IF o = "main" THEN answer \o piece ELSE answer
    BY DEF Token
  <2>2. answer' \in Text /\ By(answer', "main")
    BY <1>1, <1>2, <2>1, PiecesBy DEF AnswersKept
  <2> QED
    BY <1>1, <2>2 DEF AnswersKept
<1>4. pieces' \in [Owner -> 0 .. MaxPieces]
  <2>1. pieces[o] + 1 \in 0 .. MaxPieces
    BY <1>1, TranscriptAssumption DEF Token, VoiceTypes
  <2> QED
    BY <1>1, <2>1 DEF Token, VoiceTypes
<1>5. CASE ~owner(o)
  <2>1. UNCHANGED <<seq, pend, asst, todo>>
    BY <1>5 DEF Token
  <2>2. VoiceTypes'
    BY <1>1, <1>4, <2>1 DEF VoiceTypes
  <2> QED
    BY <1>1, <1>3, <2>1, <2>2, NoPatch
<1>6. CASE owner(o) /\ asst # 0
  <2> DEFINE p == appendText(asst, piece)
  <2>1. UNCHANGED <<seq, pend, asst>> /\ todo' = <<p>> /\ o = focused
    BY <1>6 DEF Token, owner
  <2>2. asst \in Nat
    BY <1>1 DEF VoiceTypes
  <2>3. p \in PatchOf /\ p.op = "append" /\ p.box.id = <<"a", asst>> /\ p.box.text = piece
    BY <1>2, <2>2, Patches
  <2> HIDE DEF p, piece
  <2>4. VoiceTypes'
    BY <1>1, <1>4, <2>1, <2>3 DEF VoiceTypes
  <2>5. PatchFor(p, seq', pend', asst', focused')
    BY <1>1, <1>2, <1>6, <2>1, <2>3 DEF PatchFor, Voiced
  <2>6. \A i \in DOMAIN scene : GoodFor(scene[i], seq', pend', asst', focused')
    BY <1>1, <2>1, FreeGood DEF Good, GoodFor
  <2> QED
    BY <1>1, <1>3, <2>1, <2>3, <2>4, <2>5, <2>6, OnePatch
<1>7. CASE owner(o) /\ asst = 0
  <2> DEFINE p == insert("a", nr, piece)
  <2>1. /\ seq' = (IF pend = 0 THEN seq + 1 ELSE seq) /\ asst' = nr /\ pend' = 0
        /\ todo' = <<p>> /\ o = focused
    BY <1>7 DEF Token, owner
  <2>2. nr \in Nat /\ nr \in 1 .. seq' /\ seq' \in Nat
    BY <1>1, <2>1 DEF VoiceTypes
  <2>3. /\ p \in PatchOf /\ p.op = "insert" /\ p.box.id[1] = "a" /\ p.box.id[2] = nr
        /\ p.box.text = piece
    BY <1>2, <2>2, Patches
  <2>4. \A i \in DOMAIN scene : GoodFor(scene[i], seq', pend', asst', focused')
    <3> SUFFICES ASSUME NEW i \in DOMAIN scene, scene[i].id[1] = "a"
                 PROVE  /\ scene[i].id[2] \in 1 .. seq' /\ scene[i].id[2] # 0
                        /\ scene[i].id[2] # nr
      BY <1>1, <2>1 DEF Good, GoodFor
    <3>1. scene[i].id[2] \in 1 .. seq /\ scene[i].id[2] # pend
      BY FreeGood, <1>1 DEF Good, GoodFor
    <3> QED
      BY <3>1, <1>1, <2>1 DEF VoiceTypes
  <2> HIDE DEF p, piece, nr
  <2>5. VoiceTypes'
    BY <1>1, <1>4, <2>1, <2>2, <2>3 DEF VoiceTypes
  <2>6. PatchFor(p, seq', pend', asst', focused')
    BY <1>1, <1>2, <2>1, <2>2, <2>3 DEF PatchFor, Voiced, GoodFor
  <2> QED
    BY <1>1, <1>3, <2>1, <2>3, <2>4, <2>5, <2>6, OnePatch
<1> QED
  BY <1>5, <1>6, <1>7

\* The answer of the root is shown, whoever has the focus.
LEMMA MessageEndVoice ==
  ASSUME VoiceInv, MessageEnd PROVE VoiceInv'
<1> DEFINE display == IF markdown THEN <<<<"main", 0>>>> ELSE Head(endings)
           nr == IF pend = 0 THEN seq + 1 ELSE pend
<1>1. /\ VoiceTypes /\ AnswersKept /\ Free /\ endings # << >> /\ endings' = Tail(endings) /\ asst' = 0
      /\ UNCHANGED <<turns, pieces, answer, focused, scene>>
  BY DEF VoiceInv, MessageEnd
<1>2. "main" \in Owner
  BY TranscriptAssumption
<1>3. display \in Text /\ By(display, "main")
  <2>1. Head(endings) = endings[1] /\ 1 \in DOMAIN endings /\ Head(endings) \in Text
    BY <1>1 DEF AnswersKept
  <2>2. By(Head(endings), "main")
    BY <1>1, <2>1 DEF AnswersKept
  <2>3. 0 \in 0 .. MaxPieces
    BY TranscriptAssumption
  <2> QED
    BY <1>2, <2>1, <2>2, <2>3, PiecesBy
<1>4. AnswersKept'
  <2>1. endings' \in Seq(Text) /\ \A i \in DOMAIN endings' : i + 1 \in DOMAIN endings /\ endings'[i] = endings[i + 1]
    BY <1>1 DEF AnswersKept
  <2>2. \A i \in DOMAIN endings' : By(endings'[i], "main")
    BY <1>1, <2>1 DEF AnswersKept
  <2> QED
    BY <1>1, <2>1, <2>2 DEF AnswersKept
<1> HIDE DEF display
<1>5. CASE asst # 0
  <2> DEFINE p == replaceText(asst, display)
  <2>1. todo' = <<p>> /\ UNCHANGED <<seq, pend>>
    BY <1>5 DEF MessageEnd, display
  <2>2. asst \in Nat /\ asst \in 1 .. seq /\ pend = 0
    BY <1>1, <1>5 DEF VoiceTypes
  <2>3. /\ p \in PatchOf /\ p.op = "replace" /\ p.box.id[1] = "a" /\ p.box.id[2] = asst
        /\ p.box.text = display
    BY <1>3, <2>2, Patches
  <2> HIDE DEF p
  <2>4. VoiceTypes'
    BY <1>1, <2>1, <2>2, <2>3 DEF VoiceTypes
  <2>5. PatchFor(p, seq', pend', asst', focused')
    BY <1>1, <1>2, <1>3, <2>1, <2>2, <2>3 DEF PatchFor, Voiced, GoodFor
  <2>6. \A i \in DOMAIN scene : GoodFor(scene[i], seq', pend', asst', focused')
    <3> SUFFICES ASSUME NEW i \in DOMAIN scene, scene[i].id[1] = "a"
                 PROVE  scene[i].id[2] \in 1 .. seq /\ scene[i].id[2] # pend /\ scene[i].id[2] # 0
      BY <1>1, <2>1 DEF Good, GoodFor
    <3> QED
      BY <1>1, FreeGood DEF Good, GoodFor, VoiceTypes
  <2> QED
    BY <1>1, <1>4, <2>1, <2>3, <2>4, <2>5, <2>6, OnePatch
<1>6. CASE asst = 0
  <2> DEFINE p == insert("a", nr, display)
  <2>1. seq' = (IF pend = 0 THEN seq + 1 ELSE seq) /\ pend' = 0 /\ todo' = <<p>>
    BY <1>6 DEF MessageEnd, display
  <2>2. nr \in Nat /\ nr \in 1 .. seq' /\ seq' \in Nat
    BY <1>1, <2>1 DEF VoiceTypes
  <2>3. /\ p \in PatchOf /\ p.op = "insert" /\ p.box.id[1] = "a" /\ p.box.id[2] = nr
        /\ p.box.text = display
    BY <1>3, <2>2, Patches
  <2>4. \A i \in DOMAIN scene : GoodFor(scene[i], seq', pend', asst', focused')
    <3> SUFFICES ASSUME NEW i \in DOMAIN scene, scene[i].id[1] = "a"
                 PROVE  scene[i].id[2] \in 1 .. seq' /\ scene[i].id[2] # 0
      BY <1>1, <2>1 DEF Good, GoodFor
    <3>1. scene[i].id[2] \in 1 .. seq
      BY FreeGood, <1>1 DEF Good, GoodFor
    <3> QED
      BY <3>1, <1>1, <2>1, SMTT(60) DEF VoiceTypes
  <2> HIDE DEF p, nr
  <2>5. VoiceTypes'
    BY <1>1, <2>1, <2>2, <2>3 DEF VoiceTypes
  <2>6. PatchFor(p, seq', pend', asst', focused')
    BY <1>1, <1>2, <1>3, <2>1, <2>2, <2>3 DEF PatchFor, Voiced, GoodFor
  <2> QED
    BY <1>1, <1>4, <2>1, <2>3, <2>4, <2>5, <2>6, OnePatch
<1> QED
  BY <1>5, <1>6

\* A notification.
LEMMA ChatNotifyVoice ==
  ASSUME VoiceInv, ChatNotify PROVE VoiceInv'
<1> DEFINE p == insert("n", seq + 1, << >>)
<1>1. /\ VoiceTypes /\ AnswersKept /\ Free /\ seq' = seq + 1 /\ todo' = <<p>>
      /\ UNCHANGED <<turns, pieces, answer, endings, focused, asst, pend, scene>>
  BY DEF VoiceInv, ChatNotify, agents
<1>2. AnswersKept'
  BY <1>1 DEF AnswersKept
<1>3. p \in PatchOf /\ p.op = "insert" /\ p.box.id[1] = "n" /\ p.box.text = << >>
  BY <1>1, PiecesBy, Patches DEF VoiceTypes
<1> HIDE DEF p
<1>4. VoiceTypes'
  BY <1>1, <1>3 DEF VoiceTypes
<1>5. PatchFor(p, seq', pend', asst', focused')
  BY <1>1, <1>3, PiecesBy, TranscriptAssumption DEF PatchFor, Voiced, GoodFor
<1>6. \A i \in DOMAIN scene : GoodFor(scene[i], seq', pend', asst', focused')
  <2> SUFFICES ASSUME NEW i \in DOMAIN scene, scene[i].id[1] = "a"
               PROVE  /\ scene[i].id[2] \in 1 .. seq + 1 /\ scene[i].id[2] # pend
                      /\ scene[i].id[2] = asst => By(scene[i].text, focused)
    BY <1>1 DEF Good, GoodFor
  <2>1. /\ scene[i].id[2] \in 1 .. seq /\ scene[i].id[2] # pend
        /\ scene[i].id[2] = asst => By(scene[i].text, focused)
    BY FreeGood, <1>1 DEF Good, GoodFor
  <2> QED
    BY <1>1, <2>1 DEF VoiceTypes
<1> QED
  BY <1>1, <1>2, <1>3, <1>4, <1>5, <1>6, OnePatch

\* A rebuild: what is there is emptied before the history is put in.
LEMMA RebuildVoice ==
  ASSUME VoiceInv, NEW o \in Owner, Rebuild(o) PROVE VoiceInv'
<1> DEFINE n == 2 * turns[o]
           r == Replay(o)
<1>1. /\ VoiceTypes /\ AnswersKept /\ Free /\ focused' = o /\ asst' = 0 /\ pend' = 0
      /\ seq' = Len(r) /\ todo' = <<setRoot>> \o r
      /\ UNCHANGED <<turns, pieces, answer, endings, scene>>
  BY DEF VoiceInv, Rebuild, agents
<1>2. n \in Nat /\ <<<<o, 0>>>> \in Text /\ By(<<<<o, 0>>>>, o)
  <2>1. 0 \in 0 .. MaxPieces /\ n \in Nat
    BY <1>1, TranscriptAssumption DEF VoiceTypes
  <2> QED
    BY <2>1, PiecesBy
<1>3. \A i \in 1 .. n : \E kind \in {"u", "a"} : r[i] = insert(kind, i, <<<<o, 0>>>>)
  BY DEF Replay
<1>4. \A i \in 1 .. n : /\ r[i] \in PatchOf /\ r[i].op = "insert" /\ r[i].box.id[2] = i
                        /\ r[i].box.text = <<<<o, 0>>>>
  <2> SUFFICES ASSUME NEW i \in 1 .. n
               PROVE  /\ r[i] \in PatchOf /\ r[i].op = "insert" /\ r[i].box.id[2] = i
                      /\ r[i].box.text = <<<<o, 0>>>>
    OBVIOUS
  <2>1. PICK kind \in {"u", "a"} : r[i] = insert(kind, i, <<<<o, 0>>>>)
    BY <1>3
  <2> QED
    BY <1>2, <2>1, Patches
<1>5. r \in Seq(PatchOf) /\ Len(r) = n
  <2>1. r = [i \in 1 .. n |-> r[i]]
    BY DEF Replay
  <2> HIDE DEF r, n
  <2> QED
    BY <1>2, <1>4, <2>1
<1> HIDE DEF r, n
<1>6. /\ todo' \in Seq(PatchOf) /\ todo' # << >> /\ Head(todo') = setRoot
      /\ DOMAIN todo' = 1 .. n + 1 /\ \A i \in 1 .. n : todo'[i + 1] = r[i]
      /\ todo'[1] = setRoot
  <2>1. setRoot \in PatchOf
    BY DEF PatchOf
  <2> QED
    BY <1>1, <1>2, <1>5, <2>1
<1>7. setRoot.op = "set_root"
  BY DEF setRoot
<1>8. AnswersKept'
  BY <1>1 DEF AnswersKept
<1>9. VoiceTypes'
  BY <1>1, <1>2, <1>5, <1>6 DEF VoiceTypes
<1>10. GoodTodo'
  <2> SUFFICES ASSUME NEW k \in DOMAIN todo', k # 1
               PROVE  todo'[k].op # "set_root" /\ PatchFor(todo'[k], seq', pend', asst', focused')
    BY <1>6, <1>7 DEF GoodTodo, GoodPatch
  <2>1. k - 1 \in 1 .. n /\ todo'[k] = r[k - 1]
    <3>1. k - 1 \in 1 .. n /\ (k - 1) + 1 = k
      BY <1>2, <1>6
    <3> QED
      BY <1>6, <3>1
  <2>2. PICK p : p = todo'[k]
    OBVIOUS
  <2>3. p.op = "insert" /\ p.box.id[2] \in 1 .. seq' /\ p.box.text = <<<<o, 0>>>>
    BY <1>1, <1>4, <1>5, <2>1, <2>2
  <2>4. PatchFor(p, seq', pend', asst', focused')
    <3>1. p.box.id[2] # 0
      BY <1>9, <2>3 DEF VoiceTypes
    <3> QED
      BY <1>1, <1>2, <2>3, <3>1 DEF PatchFor, Voiced, GoodFor
  <2> QED
    BY <2>2, <2>3, <2>4
<1>11. Doomed'
  BY <1>6, <1>7 DEF Doomed
<1> QED
  BY <1>1, <1>8, <1>9, <1>10, <1>11 DEF VoiceInv

\* A patch that is no set_root changes a box, or adds one.
LEMMA ApplyOne ==
  ASSUME VoiceInv, todo # << >>, Head(todo).op # "set_root", todo' = Tail(todo),
         UNCHANGED <<focused, seq, asst, pend, pieces, turns, answer, endings>>,
         scene' \in Seq(VBox),
         \A i \in DOMAIN scene' : Voiced(scene'[i].text) /\ Good(scene'[i])
  PROVE  VoiceInv'
<1>1. todo \in Seq(PatchOf) /\ GoodTodo /\ VoiceTypes /\ AnswersKept
  BY DEF VoiceInv, VoiceTypes
<1>2. /\ todo' \in Seq(PatchOf) /\ DOMAIN todo = 1 .. Len(todo) /\ Len(todo) \in Nat \ {0}
      /\ DOMAIN todo' = 1 .. Len(todo) - 1
      /\ \A k \in 1 .. Len(todo) - 1 : todo'[k] = todo[k + 1]
  BY <1>1
<1>3. \A k \in DOMAIN todo' : todo'[k].op # "set_root" /\ GoodPatch(todo'[k])
  <2> SUFFICES ASSUME NEW k \in DOMAIN todo'
               PROVE  todo'[k].op # "set_root" /\ GoodPatch(todo'[k])
    OBVIOUS
  <2>1. k + 1 \in DOMAIN todo /\ k + 1 # 1 /\ todo'[k] = todo[k + 1]
    BY <1>2
  <2> QED
    BY <1>1, <2>1 DEF GoodTodo
<1>4. GoodTodo'
  BY <1>3 DEF GoodTodo, GoodPatch
<1>5. VoiceTypes' /\ AnswersKept'
  BY <1>1, <1>2 DEF VoiceTypes, AnswersKept
<1> QED
  BY <1>4, <1>5 DEF VoiceInv, Good

\* The bridge applies a patch.
LEMMA PatchVoice ==
  ASSUME VoiceInv, Patch PROVE VoiceInv'
<1> DEFINE p == Head(todo)
           at == {i \in DOMAIN scene : scene[i].id = p.box.id}
<1>1. /\ todo # << >> /\ todo' = Tail(todo) /\ todo \in Seq(PatchOf) /\ scene \in Seq(VBox)
      /\ UNCHANGED <<focused, seq, asst, pend, pieces, turns, answer, endings>>
      /\ VoiceTypes /\ AnswersKept /\ GoodTodo
      /\ \A i \in DOMAIN scene : Voiced(scene[i].text)
  BY DEF VoiceInv, VoiceTypes, Patch, agents
<1>2. p \in PatchOf /\ p = todo[1] /\ 1 \in DOMAIN todo
  BY <1>1
<1>3. CASE p.op = "set_root"
  <2>1. scene' = << >>
    BY <1>3 DEF Patch
  <2>2. /\ todo' \in Seq(PatchOf) /\ DOMAIN todo = 1 .. Len(todo) /\ Len(todo) \in Nat \ {0}
        /\ DOMAIN todo' = 1 .. Len(todo) - 1
        /\ \A k \in 1 .. Len(todo) - 1 : todo'[k] = todo[k + 1]
    BY <1>1
  <2>3. \A k \in DOMAIN todo' : k + 1 \in DOMAIN todo /\ k + 1 # 1 /\ todo'[k] = todo[k + 1]
    BY <2>2
  <2>4. \A k \in DOMAIN todo' : todo'[k].op # "set_root" /\ GoodPatch(todo'[k])
    BY <1>1, <2>3 DEF GoodTodo
  <2>5. GoodTodo'
    BY <1>1, <2>4 DEF GoodTodo, GoodPatch
  <2>6. VoiceTypes' /\ AnswersKept'
    BY <1>1, <2>1, <2>2 DEF VoiceTypes, AnswersKept
  <2> QED
    BY <2>1, <2>5, <2>6 DEF VoiceInv
<1>4. ASSUME p.op # "set_root"
      PROVE  /\ p.op \in {"insert", "append", "replace"} /\ p.box \in VBox /\ GoodPatch(p)
             /\ \A i \in DOMAIN scene : Good(scene[i])
  <2>1. p.op \in {"insert", "append", "replace"} /\ p.box \in VBox
    BY <1>2, <1>4 DEF PatchOf, setRoot
  <2>2. GoodPatch(p)
    BY <1>1, <1>2, <1>4 DEF GoodTodo
  <2>3. ~Doomed
    BY <1>1, <1>4 DEF Doomed
  <2> QED
    BY <2>1, <2>2, <2>3 DEF VoiceInv
<1>5. CASE p.op = "insert"
  <2>1. scene' = Append(scene, p.box)
    BY <1>5 DEF Patch
  <2>2. p.box \in VBox /\ Voiced(p.box.text) /\ Good(p.box)
    BY <1>4, <1>5 DEF GoodPatch, PatchFor, Good
  <2> DEFINE b == p.box
  <2> HIDE DEF b
  <2>3. b \in VBox /\ scene' = Append(scene, b) /\ Voiced(b.text) /\ Good(b)
    BY <2>1, <2>2 DEF b
  <2>4. /\ scene' \in Seq(VBox) /\ DOMAIN scene' = 1 .. Len(scene) + 1
        /\ DOMAIN scene = 1 .. Len(scene) /\ Len(scene) \in Nat
        /\ scene'[Len(scene) + 1] = b /\ \A i \in 1 .. Len(scene) : scene'[i] = scene[i]
    BY <1>1, <2>3
  <2>5. \A i \in DOMAIN scene' : i \in 1 .. Len(scene) \/ i = Len(scene) + 1
    BY <2>4
  <2>6. \A i \in DOMAIN scene' : Voiced(scene'[i].text) /\ Good(scene'[i])
    BY <1>1, <1>4, <1>5, <2>3, <2>4, <2>5
  <2> QED
    BY <1>1, <1>5, <2>4, <2>6, ApplyOne
<1>6. ASSUME p.op # "set_root", scene' = scene PROVE VoiceInv'
  BY <1>1, <1>4, <1>6, ApplyOne
<1>7. CASE p.op = "replace" /\ at # {}
  <2> DEFINE b == p.box
             new(i) == IF i \in at THEN b ELSE scene[i]
  <2>1. scene' = [i \in DOMAIN scene |-> new(i)]
    BY <1>7 DEF Patch
  <2>2. b \in VBox /\ Voiced(b.text) /\ Good(b)
    BY <1>4, <1>7 DEF GoodPatch, PatchFor, Good
  <2>3. \A i \in DOMAIN scene : new(i) \in VBox /\ Voiced(new(i).text) /\ Good(new(i))
    BY <1>1, <1>4, <1>7, <2>2
  <2> HIDE DEF new
  <2>4. scene' \in Seq(VBox) /\ DOMAIN scene' = DOMAIN scene /\ \A i \in DOMAIN scene : scene'[i] = new(i)
    BY <1>1, <2>1, <2>3, SMTT(60)
  <2>5. \A i \in DOMAIN scene' : Voiced(scene'[i].text) /\ Good(scene'[i])
    BY <2>3, <2>4
  <2> QED
    BY <1>1, <1>7, <2>4, <2>5, ApplyOne
<1>8. CASE p.op = "append" /\ at # {}
  <2> DEFINE b == p.box
             longer(i) == [b EXCEPT !.text = scene[i].text \o @]
             new(i) == IF i \in at THEN longer(i) ELSE scene[i]
  <2>1. scene' = [i \in DOMAIN scene |-> new(i)]
    BY <1>8 DEF Patch
  <2>2. b \in VBox /\ asst # 0 /\ b.id = <<"a", asst>> /\ By(b.text, focused)
    BY <1>4, <1>8 DEF GoodPatch, PatchFor
  <2>3. ASSUME NEW i \in DOMAIN scene
        PROVE  new(i) \in VBox /\ Voiced(new(i).text) /\ Good(new(i))
    <3>1. CASE i \notin at
      BY <1>1, <1>4, <1>8, <3>1
    <3>2. CASE i \in at
      <4>1. scene[i] \in VBox /\ scene[i].id = <<"a", asst>> /\ Good(scene[i])
        BY <1>1, <1>4, <1>8, <2>2, <3>2
      <4>2. By(scene[i].text, focused) /\ asst \in 1 .. seq /\ asst # pend
        BY <4>1 DEF Good, GoodFor
      <4>3. scene[i].text \in Text /\ b.text \in Text /\ focused \in Owner
        BY <1>1, <2>2, <4>1 DEF VBox, VoiceTypes
      <4> DEFINE u == scene[i].text \o b.text
      <4>4. u \in Text /\ By(u, focused)
        BY <2>2, <4>2, <4>3, PiecesBy
      <4>5. /\ longer(i) \in VBox /\ longer(i).text = u /\ longer(i).id = <<"a", asst>>
        <5> HIDE DEF b
        <5>1. longer(i) = [b EXCEPT !.text = u]
          OBVIOUS
        <5> HIDE DEF u, longer
        <5> QED
          BY <2>2, <4>4, <5>1 DEF VBox
      <4> HIDE DEF u, longer
      <4> QED
        BY <3>2, <4>2, <4>3, <4>4, <4>5 DEF Voiced, Good, GoodFor
    <3> QED
      BY <3>1, <3>2
  <2> HIDE DEF new
  <2>4. scene' \in Seq(VBox) /\ DOMAIN scene' = DOMAIN scene /\ \A i \in DOMAIN scene : scene'[i] = new(i)
    BY <1>1, <2>1, <2>3, SMTT(60)
  <2>5. \A i \in DOMAIN scene' : Voiced(scene'[i].text) /\ Good(scene'[i])
    BY <2>3, <2>4
  <2> QED
    BY <1>1, <1>8, <2>4, <2>5, ApplyOne
<1>9. CASE p.op \in {"append", "replace"} /\ at = {}
  <2>1. scene' = scene
    BY <1>9 DEF Patch
  <2> QED
    BY <1>6, <1>9, <2>1
<1> QED
  BY <1>3, <1>4, <1>5, <1>7, <1>8, <1>9

\* The end of a turn.
LEMMA TurnDoneVoice ==
  ASSUME VoiceInv, NEW o \in Owner, TurnDone(o) PROVE VoiceInv'
<1>1. VoiceTypes /\ AnswersKept /\ UNCHANGED <<pieces, focused, seq, asst, pend, todo, scene>>
  BY DEF VoiceInv, TurnDone, extension
<1>2. turns' \in [Owner -> Nat]
  BY <1>1 DEF TurnDone, VoiceTypes
<1>3. VoiceTypes'
  BY <1>1, <1>2 DEF VoiceTypes
<1>4. AnswersKept'
  <2>1. /\ answer' = answer \/ answer' = << >>
        /\ endings' = endings \/ endings' = Append(endings, answer)
    BY DEF TurnDone
  <2>2. answer' \in Text /\ By(answer', "main")
    BY <1>1, <2>1, PiecesBy DEF AnswersKept
  <2>3. CASE endings' = endings
    BY <1>1, <2>2, <2>3 DEF AnswersKept
  <2>4. CASE endings' = Append(endings, answer)
    <3>1. /\ endings' \in Seq(Text) /\ DOMAIN endings' = 1 .. Len(endings) + 1
          /\ DOMAIN endings = 1 .. Len(endings) /\ Len(endings) \in Nat
          /\ endings'[Len(endings) + 1] = answer
          /\ \A i \in 1 .. Len(endings) : endings'[i] = endings[i]
      BY <1>1, <2>4 DEF AnswersKept
    <3>2. \A i \in DOMAIN endings' : i \in 1 .. Len(endings) \/ i = Len(endings) + 1
      BY <3>1
    <3>3. \A i \in DOMAIN endings' : By(endings'[i], "main")
      BY <1>1, <3>1, <3>2 DEF AnswersKept
    <3> QED
      BY <2>2, <3>1, <3>3 DEF AnswersKept
  <2> QED
    BY <2>1, <2>3, <2>4
<1> QED
  BY <1>1, <1>3, <1>4, NoPatch

\* /clear empties the scene, whatever patches are still to come.
LEMMA ClearVoice ==
  ASSUME VoiceInv, Clear PROVE VoiceInv'
<1>1. /\ VoiceTypes /\ AnswersKept /\ GoodTodo /\ scene' = << >> /\ answer' = << >>
      /\ UNCHANGED <<turns, pieces, endings, focused, seq, asst, pend, todo>>
  BY DEF VoiceInv, Clear, extension
<1>2. VoiceTypes'
  BY <1>1 DEF VoiceTypes
<1>3. AnswersKept'
  BY <1>1, PiecesBy DEF AnswersKept
<1>4. GoodTodo'
  BY <1>1 DEF GoodTodo, GoodPatch
<1> QED
  BY <1>1, <1>2, <1>3, <1>4 DEF VoiceInv

\* The invariant is kept by every step.
LEMMA VoiceKept == VoiceInv /\ [TranscriptNext]_transcriptVars => VoiceInv'
<1> SUFFICES ASSUME VoiceInv, [TranscriptNext]_transcriptVars PROVE VoiceInv'
  OBVIOUS
<1>1. CASE SendDirty \/ HandleDirty \/ Refresh \/ Resize \/ UNCHANGED transcriptVars
  <2>1. UNCHANGED <<turns, pieces, answer, endings, focused, seq, asst, pend, todo, scene>>
    BY <1>1 DEF SendDirty, HandleDirty, Refresh, Resize, agents, extension, transcriptVars
  <2>2. VoiceTypes' /\ AnswersKept'
    BY <2>1 DEF VoiceInv, VoiceTypes, AnswersKept
  <2> QED
    BY <2>1, <2>2, NoPatch
<1> QED
  BY <1>1, UserPromptVoice, TokenVoice, RebuildVoice, TurnDoneVoice, MessageEndVoice,
     ChatNotifyVoice, PatchVoice, ClearVoice DEF TranscriptNext

\* No box mixes pieces of two agents, for any number of agents, pieces, turns
\* and rebuilds: what is appended goes into the box of the agent that has the
\* focus, whose number no other answer has, because numbers start again only when
\* the scene is emptied first, and a reserved number is in no box yet.
THEOREM OneVoiceCorrect == TranscriptSpec => []OneVoice
<1>1. VoiceInv => OneVoice
  <2> SUFFICES ASSUME VoiceInv, NEW i \in DOMAIN scene, NEW k \in DOMAIN scene[i].text
               PROVE  scene[i].text[k][1] = scene[i].text[1][1]
    BY DEF OneVoice
  <2>1. Voiced(scene[i].text)
    BY DEF VoiceInv
  <2>2. 1 \in DOMAIN scene[i].text
    <3> DEFINE u == scene[i].text
    <3>1. u \in Text /\ k \in DOMAIN u
      BY <2>1 DEF Voiced
    <3> HIDE DEF u
    <3>2. 1 \in DOMAIN u
      BY <3>1 DEF Text
    <3> QED
      BY <3>2 DEF u
  <2> QED
    BY <2>1, <2>2 DEF Voiced, By
<1> QED
  BY VoiceInitial, VoiceKept, <1>1, PTL DEF TranscriptSpec

-----------------------------------------------------------------------------
(* Transcript: what the screen is behind with.                             *)

DirtyMsg == [only : BOOLEAN, id : {<< >>} \cup ({"u", "a", "n"} \X Nat), text : Text]

\* The messages that Update has still to handle, in their order.
Coming == dirtyMsgs \o unsent

OnlyFrom(c, i) == \A j \in DOMAIN c : j >= i => c[j].only

\* A box that something was appended to since the last structural change.
Trail(c, ap, id) ==
  \/ \E i \in DOMAIN c : c[i].id = id /\ OnlyFrom(c, i)
  \/ ap.dirty /\ ap.id = id /\ OnlyFrom(c, 1)

\* Between two structural changes text is appended to one box only.
SameRun(c, ap) ==
  /\ \A i, j \in DOMAIN c : i <= j /\ (\A l \in i .. j : c[l].only) => c[i].id = c[j].id
  /\ ap.dirty => \A j \in DOMAIN c : (\A l \in 1 .. j : c[l].only) => c[j].id = ap.id

\* After such a box there are notifications only.
OnlyNotesBehind(sc, id) == \A i, j \in DOMAIN sc : i < j /\ sc[i].id = id => sc[j].id[1] = "n"

\* Without a structural change to come the screen differs in such a box only.
CloseTo(c, ap, sc, sh) ==
  OnlyFrom(c, 1) =>
    /\ Len(sh) = Len(sc)
    /\ \A i \in DOMAIN sc : /\ sh[i].id = sc[i].id
                            /\ sh[i] = sc[i] \/ Trail(c, ap, sc[i].id)

\* A structural change is about to be made.
ResetFirst(td) == td # << >> /\ Head(td).op \in {"insert", "set_root"}

\* While an answer is written one patch is made at a time, and a box that is put
\* in is a notification or the answer's own, which is not there yet.
Writing(td, as, sc) ==
  as # 0 => /\ OnlyNotesBehind(sc, <<"a", as>>) /\ Len(td) <= 1
            /\ td # << >> /\ Head(td).op = "insert" =>
                 \/ Head(td).box.id[1] = "n"
                 \/ /\ Head(td).box.id = <<"a", as>>
                    /\ \A i \in DOMAIN sc : sc[i].id # <<"a", as>>

\* What the trail ends in.
TrailOK(c, ap, td, as, sc) ==
  \A id : Trail(c, ap, id) =>
    /\ OnlyNotesBehind(sc, id) /\ id[1] = "a"
    /\ id = <<"a", as>> \/ as = 0 \/ ResetFirst(td)

\* What is kept for the next tick is kept only while one is under way.
Timer(ap, n) ==
  /\ ap \in [dirty : BOOLEAN, scheduled : BOOLEAN, id : {<< >>} \cup ({"u", "a", "n"} \X Nat),
             text : Text]
  /\ n \in Nat /\ (ap.dirty => ap.scheduled) /\ (ap.scheduled => n > 0)
  /\ ~ap.dirty => ap.id = << >>

QuietInv ==
  /\ shown \in Seq(VBox) /\ dirtyMsgs \in Seq(DirtyMsg)
  /\ unsent = << >> \/ \E m \in DirtyMsg : unsent = <<m>>
  /\ Timer(append, timers)
  /\ SameRun(Coming, append)
  /\ TrailOK(Coming, append, todo, asst, scene)
  /\ Writing(todo, asst, scene)
  /\ CloseTo(Coming, append, scene, shown)

\* Nothing is left of what was appended once it is rendered.
LEMMA Rendered ==
  ASSUME NEW c, NEW ap
  PROVE  /\ ~NoAppend.dirty /\ ~NoAppend.scheduled /\ NoAppend.id = << >>
         /\ SameRun(c, ap) => SameRun(c, NoAppend)
         /\ \A id : Trail(c, NoAppend, id) => Trail(c, ap, id)
         /\ \A sc : CloseTo(c, NoAppend, sc, sc)
BY DEF NoAppend, SameRun, Trail, CloseTo

\* A message more about the same box.
LEMMA OneMore ==
  ASSUME NEW c \in Seq(DirtyMsg), NEW m \in DirtyMsg, NEW ap, m.only, SameRun(c, ap),
         \A id : Trail(c, ap, id) => id = m.id
  PROVE  LET d == Append(c, m)
         IN /\ d \in Seq(DirtyMsg) /\ SameRun(d, ap)
            /\ \A id : Trail(d, ap, id) => id = m.id
            /\ \A id : Trail(c, ap, id) => Trail(d, ap, id)
            /\ Trail(d, ap, m.id)
            /\ OnlyFrom(d, 1) => OnlyFrom(c, 1)
<1> DEFINE d == Append(c, m)
           n == Len(c)
<1>1. /\ d \in Seq(DirtyMsg) /\ n \in Nat /\ DOMAIN c = 1 .. n /\ DOMAIN d = 1 .. n + 1
      /\ d[n + 1] = m /\ \A i \in 1 .. n : d[i] = c[i]
  OBVIOUS
<1> HIDE DEF d, n
<1>2. \A i \in DOMAIN d : (i \in DOMAIN c /\ d[i] = c[i]) \/ (i = n + 1 /\ d[i] = m)
  BY <1>1
<1>3. \A i : OnlyFrom(d, i) => OnlyFrom(c, i)
  BY <1>1 DEF OnlyFrom
<1>4. \A i : OnlyFrom(c, i) => OnlyFrom(d, i)
  BY <1>2 DEF OnlyFrom
<1>5. ASSUME NEW id, Trail(d, ap, id) PROVE id = m.id
  BY <1>2, <1>3, <1>5 DEF Trail
<1>6. ASSUME NEW id, Trail(c, ap, id) PROVE Trail(d, ap, id)
  <2>1. \A i \in DOMAIN c : i \in DOMAIN d /\ d[i] = c[i]
    BY <1>1
  <2> QED
    BY <1>4, <1>6, <2>1 DEF Trail
<1>7. Trail(d, ap, m.id)
  <2>1. n + 1 \in DOMAIN d /\ d[n + 1].id = m.id
    BY <1>1
  <2>2. OnlyFrom(d, n + 1)
    BY <1>1 DEF OnlyFrom
  <2> QED
    BY <2>1, <2>2 DEF Trail
<1>8. SameRun(d, ap)
  <2>1. ASSUME NEW i \in DOMAIN d, NEW j \in DOMAIN d, i <= j, \A l \in i .. j : d[l].only
        PROVE  d[i].id = d[j].id
    <3>1. CASE j \in DOMAIN c
      <4>1. i \in DOMAIN c /\ \A l \in i .. j : l \in DOMAIN c /\ c[l].only
        BY <1>1, <2>1, <3>1
      <4> QED
        BY <1>1, <2>1, <3>1, <4>1 DEF SameRun
    <3>2. CASE j = n + 1 /\ i = n + 1
      BY <3>2
    <3>3. CASE j = n + 1 /\ i \in DOMAIN c
      <4>1. \A l \in DOMAIN c : l >= i => c[l].only
        BY <1>1, <2>1, <3>3
      <4>2. Trail(c, ap, c[i].id)
        BY <3>3, <4>1 DEF Trail, OnlyFrom
      <4> QED
        BY <1>1, <3>3, <4>2
    <3> QED
      BY <1>2, <3>1, <3>2, <3>3
  <2>2. ASSUME ap.dirty, NEW j \in DOMAIN d, \A l \in 1 .. j : d[l].only
        PROVE  d[j].id = ap.id
    <3>1. CASE j \in DOMAIN c
      <4>1. \A l \in 1 .. j : c[l].only
        BY <1>1, <2>2, <3>1
      <4> QED
        BY <1>1, <2>2, <3>1, <4>1 DEF SameRun
    <3>2. CASE j = n + 1
      <4>1. \A l \in DOMAIN c : c[l].only
        BY <1>1, <2>2, <3>2
      <4>2. Trail(c, ap, ap.id)
        BY <2>2, <4>1 DEF Trail, OnlyFrom
      <4> QED
        BY <1>1, <3>2, <4>2
    <3> QED
      BY <1>2, <3>1, <3>2
  <2> QED
    BY <2>1, <2>2 DEF SameRun
<1> QED
  BY <1>1, <1>3, <1>5, <1>6, <1>7, <1>8 DEF d

\* A structural change more.
LEMMA Restructured ==
  ASSUME NEW c \in Seq(DirtyMsg), NEW m \in DirtyMsg, NEW ap, ~m.only, SameRun(c, ap)
  PROVE  LET d == Append(c, m)
         IN /\ d \in Seq(DirtyMsg) /\ SameRun(d, ap) /\ ~OnlyFrom(d, 1)
            /\ \A id : ~Trail(d, ap, id)
<1> DEFINE d == Append(c, m)
           n == Len(c)
<1>1. /\ d \in Seq(DirtyMsg) /\ n \in Nat /\ DOMAIN c = 1 .. n /\ DOMAIN d = 1 .. n + 1
      /\ d[n + 1] = m /\ \A i \in 1 .. n : d[i] = c[i]
  OBVIOUS
<1> HIDE DEF d, n
<1>2. \A i \in DOMAIN d : ~OnlyFrom(d, i)
  <2>1. n + 1 \in DOMAIN d /\ ~d[n + 1].only /\ \A i \in DOMAIN d : n + 1 >= i
    BY <1>1
  <2> QED
    BY <2>1 DEF OnlyFrom
<1>3. ~OnlyFrom(d, 1)
  BY <1>1, <1>2
<1>4. SameRun(d, ap)
  <2>1. ASSUME NEW i \in DOMAIN d, NEW j \in DOMAIN d, i <= j, \A l \in i .. j : d[l].only
        PROVE  i \in DOMAIN c /\ j \in DOMAIN c /\ \A l \in i .. j : c[l].only
    <3>1. j # n + 1
      BY <1>1, <2>1
    <3> QED
      BY <1>1, <2>1, <3>1
  <2>2. ASSUME NEW j \in DOMAIN d, \A l \in 1 .. j : d[l].only
        PROVE  j \in DOMAIN c /\ \A l \in 1 .. j : c[l].only
    <3>1. j # n + 1
      BY <1>1, <2>2
    <3> QED
      BY <1>1, <2>2, <3>1
  <2>3. ASSUME NEW i \in DOMAIN d, NEW j \in DOMAIN d, i <= j, \A l \in i .. j : d[l].only
        PROVE  d[i].id = d[j].id
    <3>1. c[i].id = c[j].id
      BY <2>1, <2>3 DEF SameRun
    <3>2. d[i] = c[i] /\ d[j] = c[j]
      BY <1>1, <2>1, <2>3
    <3> QED
      BY <3>1, <3>2
  <2>4. ASSUME ap.dirty, NEW j \in DOMAIN d, \A l \in 1 .. j : d[l].only
        PROVE  d[j].id = ap.id
    <3>1. c[j].id = ap.id
      BY <2>2, <2>4 DEF SameRun
    <3>2. d[j] = c[j]
      BY <1>1, <2>2, <2>4
    <3> QED
      BY <3>1, <3>2
  <2> QED
    BY <2>3, <2>4 DEF SameRun
<1> QED
  BY <1>1, <1>2, <1>3, <1>4 DEF d, Trail

\* A message is handled.
LEMMA OneLess ==
  ASSUME NEW c \in Seq(DirtyMsg), c # << >>, NEW ap, NEW aq, SameRun(c, ap),
         IF c[1].only THEN aq.dirty /\ aq.id = c[1].id ELSE ~aq.dirty
  PROVE  /\ SameRun(Tail(c), aq)
         /\ \A id : Trail(Tail(c), aq, id) => Trail(c, ap, id)
         /\ c[1].only => /\ \A id : Trail(c, ap, id) => Trail(Tail(c), aq, id)
                         /\ OnlyFrom(Tail(c), 1) => OnlyFrom(c, 1)
<1> DEFINE d == Tail(c)
           n == Len(c) - 1
<1>1. /\ d \in Seq(DirtyMsg) /\ n \in Nat /\ DOMAIN c = 1 .. n + 1 /\ DOMAIN d = 1 .. n
      /\ \A i \in 1 .. n : d[i] = c[i + 1]
  OBVIOUS
<1> HIDE DEF d, n
<1>2. \A i \in DOMAIN d : i + 1 \in DOMAIN c /\ d[i] = c[i + 1] /\ i + 1 > 1
  BY <1>1
<1>3. \A j \in DOMAIN c : j = 1 \/ (j - 1 \in DOMAIN d /\ d[j - 1] = c[j])
  <2> SUFFICES ASSUME NEW j \in DOMAIN c, j # 1 PROVE j - 1 \in DOMAIN d /\ d[j - 1] = c[j]
    OBVIOUS
  <2>1. j - 1 \in 1 .. n /\ (j - 1) + 1 = j
    BY <1>1
  <2> QED
    BY <1>1, <2>1
<1>4. ASSUME NEW i \in DOMAIN d PROVE OnlyFrom(d, i) <=> OnlyFrom(c, i + 1)
  <2>1. ASSUME OnlyFrom(d, i), NEW j \in DOMAIN c, j >= i + 1 PROVE c[j].only
    <3>1. j # 1 /\ j - 1 >= i
      BY <1>1, <2>1
    <3> QED
      BY <1>3, <2>1, <3>1 DEF OnlyFrom
  <2>2. ASSUME OnlyFrom(c, i + 1), NEW j \in DOMAIN d, j >= i PROVE d[j].only
    <3>1. j + 1 \in DOMAIN c /\ j + 1 >= i + 1 /\ d[j] = c[j + 1]
      BY <1>1, <2>2
    <3> QED
      BY <2>2, <3>1 DEF OnlyFrom
  <2> QED
    BY <2>1, <2>2 DEF OnlyFrom
<1>5. c[1].only => (OnlyFrom(d, 1) <=> OnlyFrom(c, 1))
  <2>1. ASSUME OnlyFrom(c, 1), NEW j \in DOMAIN d PROVE d[j].only
    BY <1>1, <1>2, <2>1 DEF OnlyFrom
  <2>2. ASSUME c[1].only, OnlyFrom(d, 1), NEW j \in DOMAIN c PROVE c[j].only
    <3>1. \A l \in DOMAIN d : d[l].only
      BY <1>1, <2>2 DEF OnlyFrom
    <3> QED
      BY <1>3, <2>2, <3>1
  <2> QED
    BY <2>1, <2>2 DEF OnlyFrom
<1>6. 1 \in DOMAIN c
  BY <1>1
<1>7. ASSUME NEW id, Trail(d, aq, id) PROVE Trail(c, ap, id)
  <2>1. CASE \E i \in DOMAIN d : d[i].id = id /\ OnlyFrom(d, i)
    BY <1>2, <1>4, <2>1 DEF Trail
  <2>2. CASE aq.dirty /\ aq.id = id /\ OnlyFrom(d, 1)
    BY <1>5, <1>6, <2>2 DEF Trail
  <2> QED
    BY <1>7, <2>1, <2>2 DEF Trail
<1>8. ASSUME c[1].only, NEW id, Trail(c, ap, id) PROVE Trail(d, aq, id)
  <2>1. CASE ap.dirty /\ ap.id = id /\ OnlyFrom(c, 1)
    <3>1. \A l \in 1 .. 1 : c[l].only
      BY <1>8
    <3>2. c[1].id = ap.id
      BY <1>6, <2>1, <3>1 DEF SameRun
    <3> QED
      BY <1>5, <1>8, <2>1, <3>2 DEF Trail
  <2>2. ASSUME NEW i \in DOMAIN c, c[i].id = id, OnlyFrom(c, i) PROVE Trail(d, aq, id)
    <3>1. CASE i = 1
      BY <1>5, <1>8, <2>2, <3>1 DEF Trail
    <3>2. CASE i # 1
      <4>1. i - 1 \in DOMAIN d /\ d[i - 1] = c[i] /\ (i - 1) + 1 = i
        BY <1>1, <1>3, <3>2
      <4> QED
        BY <1>4, <2>2, <4>1 DEF Trail
    <3> QED
      BY <3>1, <3>2
  <2> QED
    BY <1>8, <2>1, <2>2 DEF Trail
<1>9. SameRun(d, aq)
  <2>1. ASSUME NEW i \in DOMAIN d, NEW j \in DOMAIN d, i <= j, \A l \in i .. j : d[l].only
        PROVE  d[i].id = d[j].id
    <3>1. ASSUME NEW l \in i + 1 .. j + 1 PROVE c[l].only
      <4>1. l \in DOMAIN c /\ l # 1 /\ l - 1 \in i .. j
        BY <1>1, <3>1
      <4> QED
        BY <1>3, <2>1, <4>1
    <3>2. i + 1 <= j + 1 /\ i + 1 \in DOMAIN c /\ j + 1 \in DOMAIN c
      BY <1>1, <2>1
    <3>3. c[i + 1].id = c[j + 1].id
      BY <3>1, <3>2 DEF SameRun
    <3> QED
      BY <1>2, <3>3
  <2>2. ASSUME aq.dirty, NEW j \in DOMAIN d, \A l \in 1 .. j : d[l].only
        PROVE  d[j].id = aq.id
    <3>1. ASSUME NEW l \in 1 .. j + 1 PROVE c[l].only
      <4>1. l \in DOMAIN c /\ (l = 1 \/ l - 1 \in 1 .. j)
        BY <1>1, <3>1
      <4> QED
        BY <1>3, <2>2, <4>1
    <3>2. 1 <= j + 1 /\ j + 1 \in DOMAIN c
      BY <1>1, <2>2
    <3>3. c[1].id = c[j + 1].id
      BY <1>6, <3>1, <3>2 DEF SameRun
    <3> QED
      BY <1>2, <2>2, <3>3
  <2> QED
    BY <2>1, <2>2 DEF SameRun
<1> QED
  BY <1>5, <1>7, <1>8, <1>9 DEF d

\* What Update has still to handle is the messages sent and the one not sent yet.
LEMMA ComingTypes ==
  ASSUME QuietInv
  PROVE  /\ Coming \in Seq(DirtyMsg) /\ dirtyMsgs \in Seq(DirtyMsg) /\ unsent \in Seq(DirtyMsg)
         /\ unsent = << >> => Coming = dirtyMsgs
         /\ dirtyMsgs \o << >> = dirtyMsgs
<1>1. dirtyMsgs \in Seq(DirtyMsg) /\ unsent \in Seq(DirtyMsg)
  <2>1. dirtyMsgs \in Seq(DirtyMsg) /\ (unsent = << >> \/ \E m \in DirtyMsg : unsent = <<m>>)
    BY DEF QuietInv
  <2>2. << >> \in Seq(DirtyMsg) /\ \A m \in DirtyMsg : <<m>> \in Seq(DirtyMsg)
    OBVIOUS
  <2> QED
    BY <2>1, <2>2, Zenon
<1>2. dirtyMsgs \o << >> = dirtyMsgs
  BY <1>1
<1> QED
  BY <1>1, <1>2 DEF Coming

\* The invariant holds at first.
LEMMA QuietInitial == TranscriptInit => QuietInv
<1> SUFFICES ASSUME TranscriptInit PROVE QuietInv
  OBVIOUS
<1>1. /\ shown = << >> /\ dirtyMsgs = << >> /\ unsent = << >> /\ append = NoAppend
      /\ timers = 0 /\ asst = 0 /\ scene = << >>
  BY DEF TranscriptInit
<1>2. Coming = << >>
  BY <1>1 DEF Coming
<1>3. Timer(append, timers)
  BY <1>1 DEF Timer, NoAppend, Text
<1>4. DOMAIN Coming = {} /\ ~append.dirty
  BY <1>1, <1>2 DEF NoAppend
<1>5. SameRun(Coming, append) /\ \A id : ~Trail(Coming, append, id)
  BY <1>4 DEF SameRun, Trail
<1>6. TrailOK(Coming, append, todo, asst, scene) /\ Writing(todo, asst, scene)
  BY <1>1, <1>5 DEF TrailOK, Writing
<1>7. CloseTo(Coming, append, scene, shown)
  BY <1>1 DEF CloseTo
<1> QED
  BY <1>1, <1>3, <1>5, <1>6, <1>7 DEF QuietInv

\* The extension is entered: it goes on with its answer, ends it, or starts one
\* that has no box yet.
LEMMA Entered ==
  ASSUME QuietInv, Free, UNCHANGED <<scene, unsent, dirtyMsgs, timers, append, shown>>,
         \/ asst' = 0
         \/ /\ asst' = asst /\ Len(todo') <= 1
            /\ todo' # << >> /\ Head(todo').op = "insert" => Head(todo').box.id[1] = "n"
         \/ ResetFirst(todo') /\ Writing(todo', asst', scene)
  PROVE  QuietInv'
<1>1. /\ Coming' = Coming /\ todo = << >> /\ ~ResetFirst(todo)
      /\ TrailOK(Coming, append, todo, asst, scene) /\ Writing(todo, asst, scene)
  BY DEF QuietInv, Coming, Free, ResetFirst
<1>2. TrailOK(Coming, append, todo', asst', scene) /\ Writing(todo', asst', scene)
  <2>1. CASE asst' = 0
    BY <1>1, <2>1 DEF TrailOK, Writing
  <2>2. CASE /\ asst' = asst /\ Len(todo') <= 1
             /\ todo' # << >> /\ Head(todo').op = "insert" => Head(todo').box.id[1] = "n"
    BY <1>1, <2>2 DEF TrailOK, Writing
  <2>3. CASE ResetFirst(todo') /\ Writing(todo', asst', scene)
    BY <1>1, <2>3 DEF TrailOK
  <2> QED
    BY <2>1, <2>2, <2>3
<1> QED
  BY <1>1, <1>2 DEF QuietInv

\* The handlers of the extension.
LEMMA HandlersQuiet ==
  ASSUME VoiceInv, QuietInv,
         \/ \E o \in Owner : UserPrompt(o) \/ Token(o) \/ Rebuild(o)
         \/ MessageEnd \/ ChatNotify
  PROVE  QuietInv'
<1>1. Free /\ UNCHANGED <<scene, unsent, dirtyMsgs, timers, append, shown>>
  BY DEF UserPrompt, Token, Rebuild, MessageEnd, ChatNotify, interface
<1>2. todo = << >> /\ (\A i \in DOMAIN scene : Good(scene[i])) /\ VoiceTypes /\ AnswersKept
  BY <1>1, FreeGood DEF VoiceInv
<1>3. asst' = asst /\ todo' = todo => QuietInv'
  <2> SUFFICES ASSUME asst' = asst, todo' = todo PROVE QuietInv'
    OBVIOUS
  <2>1. Len(todo') <= 1 /\ todo' = << >>
    BY <1>2
  <2> QED
    BY <1>1, <2>1, Entered
<1>4. asst' = 0 => QuietInv'
  BY <1>1, Entered
<1>5. ASSUME NEW o \in Owner, UserPrompt(o) PROVE QuietInv'
  BY <1>3, <1>4, <1>5 DEF UserPrompt
<1>6. ASSUME NEW o \in Owner, Token(o) PROVE QuietInv'
  <2> DEFINE piece == <<<<o, pieces[o] + 1>>>>
             nr == IF pend = 0 THEN seq + 1 ELSE pend
  <2>1. piece \in Text /\ nr \in Nat
    <3>1. pieces[o] + 1 \in 0 .. MaxPieces /\ nr \in Nat
      BY <1>2, <1>6, TranscriptAssumption DEF Token, VoiceTypes
    <3> QED
      BY <3>1, PiecesBy
  <2> HIDE DEF piece
  <2>2. CASE ~owner(o)
    <3>1. UNCHANGED <<asst, todo>>
      BY <1>6, <2>2 DEF Token
    <3> QED
      BY <1>3, <3>1
  <2>3. CASE owner(o) /\ asst # 0
    <3>1. asst' = asst /\ todo' = <<appendText(asst, piece)>>
      BY <1>6, <2>3 DEF Token, piece
    <3>2. appendText(asst, piece).op = "append"
      BY DEF appendText
    <3>3. Len(todo') <= 1 /\ Head(todo').op # "insert"
      BY <3>1, <3>2
    <3> QED
      BY <1>1, <3>1, <3>3, Entered
  <2>4. CASE owner(o) /\ asst = 0
    <3>1. asst' = nr /\ todo' = <<insert("a", nr, piece)>>
      BY <1>6, <2>4 DEF Token, piece
    <3>2. /\ insert("a", nr, piece).op = "insert"
          /\ insert("a", nr, piece).box.id = <<"a", nr>>
      BY DEF insert, box
    <3>3. ASSUME NEW i \in DOMAIN scene PROVE scene[i].id # <<"a", nr>>
      <4>1. Good(scene[i])
        BY <1>2
      <4>2. scene[i].id[1] = "a" => scene[i].id[2] \in 1 .. seq /\ scene[i].id[2] # pend
        BY <4>1 DEF Good, GoodFor
      <4>3. nr = seq + 1 \/ nr = pend
        OBVIOUS
      <4> QED
        BY <1>2, <4>2, <4>3 DEF VoiceTypes
    <3> HIDE DEF nr
    <3>4. OnlyNotesBehind(scene, <<"a", nr>>)
      BY <3>3 DEF OnlyNotesBehind
    <3>5. /\ Len(todo') <= 1 /\ todo' # << >> /\ Head(todo').op = "insert"
          /\ Head(todo').box.id = <<"a", nr>>
      BY <3>1, <3>2
    <3>6. ResetFirst(todo') /\ Writing(todo', asst', scene)
      BY <3>1, <3>3, <3>4, <3>5 DEF ResetFirst, Writing
    <3> QED
      BY <1>1, <3>6, Entered
  <2> QED
    BY <2>2, <2>3, <2>4
<1>7. ASSUME NEW o \in Owner, Rebuild(o) PROVE QuietInv'
  BY <1>4, <1>7 DEF Rebuild
<1>8. CASE MessageEnd
  BY <1>4, <1>8 DEF MessageEnd
<1>9. CASE ChatNotify
  <2>1. asst' = asst /\ todo' = <<insert("n", seq + 1, << >>)>>
    BY <1>9 DEF ChatNotify
  <2>2. insert("n", seq + 1, << >>).box.id[1] = "n"
    BY DEF insert, box
  <2>3. Len(todo') <= 1 /\ Head(todo').box.id[1] = "n"
    BY <2>1, <2>2
  <2> QED
    BY <1>1, <2>1, <2>3, Entered
<1> QED
  BY <1>5, <1>6, <1>7, <1>8, <1>9

\* A structural change is made to the scene.
LEMMA ChangeQuiet ==
  ASSUME QuietInv, unsent = << >>, unsent' = <<Full>>,
         UNCHANGED <<dirtyMsgs, timers, append, shown>>, Writing(todo', asst', scene')
  PROVE  QuietInv'
<1>1. Full \in DirtyMsg /\ ~Full.only
  BY DEF Full, DirtyMsg, Text
<1>2. Coming \in Seq(DirtyMsg) /\ dirtyMsgs = Coming /\ SameRun(Coming, append)
  BY ComingTypes DEF QuietInv
<1>3. Coming' = Append(Coming, Full)
  <2> DEFINE m == Full
  <2> HIDE DEF m
  <2>1. dirtyMsgs \in Seq(DirtyMsg) /\ m \in DirtyMsg
    BY <1>1, <1>2 DEF m
  <2>2. dirtyMsgs \o <<m>> = Append(dirtyMsgs, m)
    BY <2>1
  <2> QED
    BY <1>2, <2>2 DEF Coming, m
<1>4. /\ SameRun(Coming', append) /\ ~OnlyFrom(Coming', 1)
      /\ \A id : ~Trail(Coming', append, id)
  BY <1>1, <1>2, <1>3, Restructured
<1>5. TrailOK(Coming', append, todo', asst', scene') /\ CloseTo(Coming', append, scene', shown)
  BY <1>4 DEF TrailOK, CloseTo
<1> QED
  BY <1>1, <1>4, <1>5 DEF QuietInv

\* The boxes of an answer keep their place while boxes are changed.
LEMMA SameIds ==
  ASSUME NEW sc, NEW sd, NEW id, DOMAIN sd = DOMAIN sc,
         \A i \in DOMAIN sc : sd[i].id = sc[i].id, OnlyNotesBehind(sc, id)
  PROVE  OnlyNotesBehind(sd, id)
BY DEF OnlyNotesBehind

\* A patch is made.
LEMMA PatchQuiet ==
  ASSUME VoiceInv, QuietInv, Patch PROVE QuietInv'
<1> DEFINE p == Head(todo)
           at == {i \in DOMAIN scene : scene[i].id = p.box.id}
<1>1. /\ todo # << >> /\ todo' = Tail(todo) /\ todo \in Seq(PatchOf) /\ scene \in Seq(VBox)
      /\ unsent = << >> /\ UNCHANGED <<dirtyMsgs, timers, append, shown, asst>>
      /\ VoiceTypes /\ GoodTodo
  BY DEF VoiceInv, VoiceTypes, Patch, interface
<1>2. p \in PatchOf /\ p = todo[1] /\ 1 \in DOMAIN todo /\ (Len(todo) <= 1 => todo' = << >>)
  BY <1>1
<1>3. TrailOK(Coming, append, todo, asst, scene) /\ Writing(todo, asst, scene)
  BY DEF QuietInv
<1>4. asst # 0 => todo' = << >> /\ Len(todo') <= 1 /\ OnlyNotesBehind(scene, <<"a", asst>>)
  <2>1. asst # 0 => todo' = << >> /\ OnlyNotesBehind(scene, <<"a", asst>>)
    BY <1>2, <1>3 DEF Writing
  <2>2. todo' = << >> => Len(todo') <= 1
    OBVIOUS
  <2> QED
    BY <2>1, <2>2
<1>5. CASE p.op = "set_root"
  <2>1. scene' = << >> /\ unsent' = <<Full>>
    BY <1>5 DEF Patch
  <2>2. Writing(todo', asst', scene')
    BY <1>1, <1>4, <2>1 DEF Writing, OnlyNotesBehind
  <2> QED
    BY <1>1, <2>1, <2>2, ChangeQuiet
<1>6. p.op # "set_root" => p.box \in VBox /\ GoodPatch(p)
  <2>1. p.op # "set_root" => p.box \in VBox
    BY <1>2 DEF PatchOf, setRoot
  <2>2. p.op # "set_root" => GoodPatch(p)
    BY <1>1, <1>2 DEF GoodTodo
  <2> QED
    BY <2>1, <2>2
<1>7. CASE p.op = "insert"
  <2>1. scene' = Append(scene, p.box) /\ unsent' = <<Full>> /\ p.box \in VBox
    BY <1>6, <1>7 DEF Patch
  <2>2. asst # 0 => \/ p.box.id[1] = "n"
                    \/ /\ p.box.id = <<"a", asst>>
                       /\ \A i \in DOMAIN scene : scene[i].id # <<"a", asst>>
    BY <1>1, <1>3, <1>7 DEF Writing
  <2> DEFINE b == p.box
  <2> HIDE DEF p
  <2>3. /\ DOMAIN scene = 1 .. Len(scene) /\ DOMAIN scene' = 1 .. Len(scene) + 1
        /\ Len(scene) \in Nat /\ scene'[Len(scene) + 1] = b
        /\ \A i \in 1 .. Len(scene) : scene'[i] = scene[i]
    BY <1>1, <2>1
  <2>4. ASSUME asst # 0 PROVE OnlyNotesBehind(scene', <<"a", asst>>)
    <3> SUFFICES ASSUME NEW i \in DOMAIN scene', NEW j \in DOMAIN scene', i < j,
                        scene'[i].id = <<"a", asst>>
                 PROVE  scene'[j].id[1] = "n"
      BY DEF OnlyNotesBehind
    <3>1. i \in DOMAIN scene /\ scene[i].id = <<"a", asst>>
      BY <2>3
    <3>2. CASE j \in DOMAIN scene
      BY <1>4, <2>3, <2>4, <3>1, <3>2 DEF OnlyNotesBehind
    <3>3. CASE j = Len(scene) + 1
      BY <2>2, <2>3, <2>4, <3>1, <3>3
    <3> QED
      BY <2>3, <3>2, <3>3
  <2>5. Writing(todo', asst', scene')
    BY <1>1, <1>4, <2>4 DEF Writing
  <2> QED
    BY <1>1, <2>1, <2>5, ChangeQuiet
<1>8. CASE p.op = "replace" /\ at # {}
  <2> DEFINE new(i) == IF i \in at THEN p.box ELSE scene[i]
  <2>1. scene' = [i \in DOMAIN scene |-> new(i)] /\ unsent' = <<Full>>
    BY <1>8 DEF Patch
  <2>2. \A i \in DOMAIN scene : new(i).id = scene[i].id
    OBVIOUS
  <2> HIDE DEF new
  <2>3. DOMAIN scene' = DOMAIN scene /\ \A i \in DOMAIN scene : scene'[i].id = scene[i].id
    BY <2>1, <2>2
  <2>4. asst # 0 => OnlyNotesBehind(scene', <<"a", asst>>)
    BY <1>4, <2>3, SameIds
  <2>5. Writing(todo', asst', scene')
    BY <1>1, <1>4, <2>4 DEF Writing
  <2> QED
    BY <1>1, <2>1, <2>5, ChangeQuiet
<1>9. CASE p.op = "append" /\ at # {}
  <2> DEFINE longer(i) == [p.box EXCEPT !.text = scene[i].text \o @]
             new(i) == IF i \in at THEN longer(i) ELSE scene[i]
             m == [only |-> TRUE, id |-> p.box.id, text |-> p.box.text]
             d == Append(Coming, m)
  <2>1. scene' = [i \in DOMAIN scene |-> new(i)] /\ unsent' = <<m>>
    BY <1>9 DEF Patch
  <2>2. /\ p.box \in VBox /\ asst # 0 /\ p.box.id = <<"a", asst>>
        /\ ~ResetFirst(todo)
    BY <1>6, <1>9 DEF GoodPatch, PatchFor, ResetFirst
  <2>3. \A i \in DOMAIN scene : new(i).id = scene[i].id /\ (new(i) = scene[i] \/ scene[i].id = p.box.id)
    <3> SUFFICES ASSUME NEW i \in DOMAIN scene
                 PROVE  new(i).id = scene[i].id /\ (new(i) = scene[i] \/ scene[i].id = p.box.id)
      OBVIOUS
    <3>1. longer(i).id = p.box.id
      <4> DEFINE b == p.box
      <4>1. b \in VBox
        BY <2>2
      <4> HIDE DEF b
      <4>2. [b EXCEPT !.text = scene[i].text \o @].id = b.id
        BY <4>1 DEF VBox
      <4> QED
        BY <4>2 DEF b
    <3> HIDE DEF longer
    <3> QED
      BY <3>1
  <2> HIDE DEF new
  <2>4. /\ DOMAIN scene' = DOMAIN scene
        /\ \A i \in DOMAIN scene : /\ scene'[i].id = scene[i].id
                                   /\ scene'[i] = scene[i] \/ scene[i].id = p.box.id
    BY <2>1, <2>3
  <2>5. /\ m \in DirtyMsg /\ m.only /\ m.id = p.box.id
        /\ Coming \in Seq(DirtyMsg) /\ dirtyMsgs = Coming /\ SameRun(Coming, append)
    BY <1>1, <2>2, ComingTypes DEF DirtyMsg, VBox, QuietInv
  <2>6. \A id : Trail(Coming, append, id) => id = m.id
    BY <1>3, <2>2, <2>5 DEF TrailOK
  <2> HIDE DEF m, p
  <2>7. /\ SameRun(d, append)
        /\ \A id : Trail(d, append, id) => id = m.id
        /\ \A id : Trail(Coming, append, id) => Trail(d, append, id)
        /\ Trail(d, append, m.id)
        /\ OnlyFrom(d, 1) => OnlyFrom(Coming, 1)
    BY <2>5, <2>6, OneMore
  <2>8. Coming' = d
    BY <1>1, <2>1, <2>5 DEF Coming
  <2> HIDE DEF d
  <2>9. OnlyNotesBehind(scene', m.id)
    BY <1>4, <2>2, <2>4, <2>5, SameIds
  <2>10. Writing(todo', asst', scene')
    BY <1>1, <1>4, <2>2, <2>5, <2>9 DEF Writing
  <2>11. TrailOK(d, append, todo', asst', scene')
    <3>1. m.id[1] = "a"
      BY <2>2, <2>5
    <3> QED
      BY <1>1, <2>2, <2>5, <2>7, <2>9, <3>1 DEF TrailOK
  <2>12. CloseTo(d, append, scene', shown)
    <3> SUFFICES ASSUME OnlyFrom(d, 1)
                 PROVE  /\ Len(shown) = Len(scene')
                        /\ \A i \in DOMAIN scene' :
                             /\ shown[i].id = scene'[i].id
                             /\ shown[i] = scene'[i] \/ Trail(d, append, scene'[i].id)
      BY DEF CloseTo
    <3>1. /\ Len(shown) = Len(scene)
          /\ \A i \in DOMAIN scene : /\ shown[i].id = scene[i].id
                                     /\ shown[i] = scene[i] \/ Trail(Coming, append, scene[i].id)
      BY <2>7 DEF QuietInv, CloseTo
    <3>2. Len(scene') = Len(scene)
      BY <1>1, <2>1
    <3> QED
      BY <2>4, <2>5, <2>7, <3>1, <3>2
  <2> QED
    BY <1>1, <2>1, <2>5, <2>7, <2>8, <2>10, <2>11, <2>12 DEF QuietInv
<1>10. CASE p.op \in {"append", "replace"} /\ at = {}
  <2>1. UNCHANGED <<scene, unsent>>
    BY <1>10 DEF Patch
  <2>2. Coming' = Coming /\ ~ResetFirst(todo)
    BY <1>1, <1>10, <2>1 DEF Coming, ResetFirst
  <2>3. Writing(todo', asst', scene')
    BY <1>1, <1>4, <2>1 DEF Writing
  <2>4. TrailOK(Coming, append, todo', asst', scene)
    BY <1>1, <1>3, <2>2 DEF TrailOK
  <2> QED
    BY <1>1, <2>1, <2>2, <2>3, <2>4 DEF QuietInv
<1> QED
  BY <1>5, <1>7, <1>8, <1>9, <1>10 DEF Patch

\* The message of a patch is sent.
LEMMA SendQuiet ==
  ASSUME QuietInv, SendDirty PROVE QuietInv'
<1>1. /\ unsent' = << >> /\ dirtyMsgs' = dirtyMsgs \o unsent
      /\ UNCHANGED <<todo, asst, scene, timers, append, shown>>
  BY DEF SendDirty, extension
<1>2. dirtyMsgs' = Coming /\ Coming \in Seq(DirtyMsg)
  BY <1>1, ComingTypes DEF Coming
<1>3. Coming \o << >> = Coming
  BY <1>2
<1>4. Coming' = Coming
  BY <1>1, <1>2, <1>3 DEF Coming
<1> QED
  BY <1>1, <1>2, <1>4 DEF QuietInv

\* Update handles a message.
LEMMA HandleQuiet ==
  ASSUME VoiceInv, QuietInv, HandleDirty PROVE QuietInv'
<1> DEFINE m == Head(dirtyMsgs)
<1>1. /\ dirtyMsgs # << >> /\ dirtyMsgs' = Tail(dirtyMsgs)
      /\ UNCHANGED <<todo, asst, scene, unsent>>
      /\ dirtyMsgs \in Seq(DirtyMsg) /\ Coming \in Seq(DirtyMsg) /\ unsent \in Seq(DirtyMsg)
      /\ SameRun(Coming, append) /\ Timer(append, timers) /\ scene \in Seq(VBox)
      /\ shown \in Seq(VBox) /\ CloseTo(Coming, append, scene, shown)
      /\ TrailOK(Coming, append, todo, asst, scene) /\ Writing(todo, asst, scene)
  BY ComingTypes DEF HandleDirty, extension, QuietInv, VoiceInv, VoiceTypes
<1>2. /\ Coming # << >> /\ Coming[1] = m /\ Tail(Coming) = Tail(dirtyMsgs) \o unsent
      /\ m \in DirtyMsg /\ dirtyMsgs' \in Seq(DirtyMsg)
  <2> DEFINE s == dirtyMsgs
             u == unsent
  <2>1. s \in Seq(DirtyMsg) /\ u \in Seq(DirtyMsg) /\ s # << >>
    BY <1>1
  <2> HIDE DEF s, u
  <2>2. s \o u # << >> /\ (s \o u)[1] = Head(s) /\ Tail(s \o u) = Tail(s) \o u
    BY <2>1
  <2>3. Head(s) \in DirtyMsg /\ Tail(s) \in Seq(DirtyMsg)
    BY <2>1
  <2> QED
    BY <1>1, <2>2, <2>3 DEF Coming, s, u
<1>3. Coming' = Tail(Coming)
  BY <1>1, <1>2 DEF Coming
<1> DEFINE d == Tail(Coming)
<1> HIDE DEF m
<1>4. CASE m.only
  <2>1. append.id \in {<< >>, m.id}
    <3>1. CASE ~append.dirty
      BY <1>1, <3>1 DEF Timer
    <3>2. CASE append.dirty
      <4>1. 1 \in DOMAIN Coming /\ \A l \in 1 .. 1 : Coming[l].only
        BY <1>1, <1>2, <1>4
      <4> QED
        BY <1>1, <1>2, <3>2, <4>1 DEF SameRun
    <3> QED
      BY <3>1, <3>2
  <2>2. /\ append' = [dirty |-> TRUE, scheduled |-> TRUE, id |-> m.id,
                      text |-> append.text \o m.text]
        /\ timers' = IF append.scheduled THEN timers ELSE timers + 1
        /\ shown' = shown
    BY <1>4, <2>1 DEF HandleDirty, m
  <2>3. append'.dirty = TRUE /\ append'.id = m.id /\ append'.scheduled = TRUE
    BY <2>2
  <2>4. Timer(append', timers')
    <3>1. append.text \in Text /\ m.text \in Text /\ m.id \in {<< >>} \cup ({"u", "a", "n"} \X Nat)
      BY <1>1, <1>2 DEF Timer, DirtyMsg
    <3>2. append.text \o m.text \in Text
      BY <3>1, PiecesBy
    <3>3. timers' \in Nat /\ timers' > 0
      BY <1>1, <2>2 DEF Timer
    <3> QED
      BY <2>2, <2>3, <3>1, <3>2, <3>3 DEF Timer
  <2>5. /\ SameRun(d, append')
        /\ \A id : Trail(d, append', id) => Trail(Coming, append, id)
        /\ \A id : Trail(Coming, append, id) => Trail(d, append', id)
        /\ OnlyFrom(d, 1) => OnlyFrom(Coming, 1)
    BY <1>1, <1>2, <1>4, <2>3, OneLess
  <2> HIDE DEF d
  <2>6. TrailOK(d, append', todo, asst, scene)
    BY <1>1, <2>5 DEF TrailOK
  <2>7. CloseTo(d, append', scene, shown)
    BY <1>1, <2>5 DEF CloseTo
  <2> QED
    BY <1>1, <1>2, <1>3, <2>2, <2>4, <2>5, <2>6, <2>7 DEF QuietInv, d
<1>5. CASE ~m.only
  <2>1. append' = NoAppend /\ shown' = scene /\ timers' = timers
    BY <1>5 DEF HandleDirty, m
  <2>2. ~append'.dirty
    BY <2>1 DEF NoAppend
  <2>3. SameRun(d, append') /\ \A id : Trail(d, append', id) => Trail(Coming, append, id)
    BY <1>1, <1>2, <1>5, <2>2, OneLess
  <2> HIDE DEF d
  <2>4. TrailOK(d, append', todo, asst, scene)
    BY <1>1, <2>3 DEF TrailOK
  <2>5. CloseTo(d, append', scene, scene)
    BY DEF CloseTo
  <2>6. Timer(append', timers)
    BY <1>1, <2>1 DEF Timer, NoAppend, Text
  <2> QED
    BY <1>1, <1>2, <1>3, <2>1, <2>3, <2>4, <2>5, <2>6 DEF QuietInv, d
<1> QED
  BY <1>4, <1>5

\* A tick: the box that grew is the last one, for the notifications that may
\* stand behind it are boxes of another kind.
LEMMA RefreshQuiet ==
  ASSUME VoiceInv, QuietInv, Refresh PROVE QuietInv'
<1>1. /\ timers > 0 /\ timers' = timers - 1
      /\ UNCHANGED <<todo, asst, scene, unsent, dirtyMsgs>> /\ Coming' = Coming
      /\ SameRun(Coming, append) /\ Timer(append, timers) /\ scene \in Seq(VBox)
      /\ shown \in Seq(VBox) /\ CloseTo(Coming, append, scene, shown)
      /\ TrailOK(Coming, append, todo, asst, scene) /\ Writing(todo, asst, scene)
  BY DEF Refresh, extension, QuietInv, VoiceInv, VoiceTypes, Coming
<1>2. timers' \in Nat
  BY <1>1 DEF Timer
<1>3. CASE ~append.dirty
  <2>1. append' = [append EXCEPT !.scheduled = FALSE] /\ shown' = shown
    BY <1>3 DEF Refresh
  <2>2. /\ append'.dirty = append.dirty /\ append'.id = append.id /\ append'.scheduled = FALSE
        /\ append' \in [dirty : BOOLEAN, scheduled : BOOLEAN,
                        id : {<< >>} \cup ({"u", "a", "n"} \X Nat), text : Text]
    BY <1>1, <2>1 DEF Timer
  <2>3. Timer(append', timers')
    <3>1. append.id = << >>
      BY <1>1, <1>3 DEF Timer
    <3> QED
      BY <1>2, <1>3, <2>2, <3>1 DEF Timer
  <2>4. SameRun(Coming, append') /\ \A id : Trail(Coming, append', id) <=> Trail(Coming, append, id)
    BY <1>1, <2>2 DEF SameRun, Trail
  <2>5. TrailOK(Coming, append', todo, asst, scene) /\ CloseTo(Coming, append', scene, shown)
    BY <1>1, <2>4 DEF TrailOK, CloseTo
  <2> QED
    BY <1>1, <2>1, <2>3, <2>4, <2>5 DEF QuietInv
<1>4. CASE append.dirty
  <2>1. append' = NoAppend
    BY <1>4 DEF Refresh
  <2>2. Timer(append', timers')
    BY <1>2, <2>1 DEF Timer, NoAppend, Text
  <2>3. SameRun(Coming, append') /\ \A id : Trail(Coming, append', id) => Trail(Coming, append, id)
    BY <1>1, <2>1, Rendered
  <2>4. TrailOK(Coming, append', todo, asst, scene)
    BY <1>1, <2>3 DEF TrailOK
  <2>5. shown' \in Seq(VBox) /\ (OnlyFrom(Coming, 1) => shown' = scene)
    <3>1. CASE ~\E i \in DOMAIN scene : AppendFits(scene[i])
      BY <1>1, <1>4, <3>1 DEF Refresh
    <3>2. CASE \E i \in DOMAIN scene : AppendFits(scene[i])
      <4> DEFINE j == CHOOSE i \in DOMAIN scene : AppendFits(scene[i])
                 n == Len(shown)
      <4>1. j \in DOMAIN scene /\ AppendFits(scene[j])
        BY <3>2
      <4>2. shown' = Append(SubSeq(shown, 1, Len(shown) - 1), scene[j])
        BY <1>4, <3>2 DEF Refresh
      <4> HIDE DEF j
      <4>3. scene[j].id = append.id /\ shown # << >> /\ shown[n].id[1] = scene[j].id[1]
        BY <4>1 DEF AppendFits
      <4>4. scene[j] \in VBox /\ n \in Nat \ {0}
        BY <1>1, <4>1, <4>3
      <4>5. /\ shown' \in Seq(VBox) /\ Len(shown') = n /\ shown'[n] = scene[j]
            /\ \A i \in 1 .. n - 1 : shown'[i] = shown[i]
        <5> DEFINE b == scene[j]
                   u == SubSeq(shown, 1, n - 1)
        <5>1. b \in VBox /\ shown \in Seq(VBox) /\ n \in Nat \ {0} /\ n = Len(shown)
          BY <1>1, <4>4
        <5>2. shown' = Append(u, b)
          BY <4>2
        <5> HIDE DEF b, n
        <5>3. u \in Seq(VBox) /\ Len(u) = n - 1 /\ \A i \in 1 .. n - 1 : u[i] = shown[i]
          BY <5>1
        <5> HIDE DEF u
        <5>4. /\ Append(u, b) \in Seq(VBox) /\ Len(Append(u, b)) = n /\ Append(u, b)[n] = b
              /\ \A i \in 1 .. n - 1 : Append(u, b)[i] = u[i]
          BY <5>1, <5>3
        <5>5. \A i \in 1 .. n - 1 : Append(u, b)[i] = shown[i]
          BY <5>3, <5>4
        <5> QED
          BY <5>2, <5>4, <5>5 DEF b, n
      <4>6. ASSUME OnlyFrom(Coming, 1) PROVE shown' = scene
        <5>1. Trail(Coming, append, append.id)
          BY <1>4, <4>6 DEF Trail
        <5>2. OnlyNotesBehind(scene, append.id) /\ append.id[1] = "a"
          BY <1>1, <5>1 DEF TrailOK
        <5>3. /\ Len(scene) = n
              /\ \A i \in 1 .. n : /\ shown[i].id = scene[i].id
                                   /\ shown[i] = scene[i] \/ Trail(Coming, append, scene[i].id)
          BY <1>1, <4>6 DEF CloseTo
        <5>4. j = n
          <6>1. n \in DOMAIN scene /\ n \in 1 .. n /\ j \in 1 .. n
            BY <1>1, <4>1, <4>4, <5>3
          <6>2. shown[n].id = scene[n].id
            <7> HIDE DEF n
            <7> QED
              BY <5>3, <6>1
          <6>3. scene[n].id[1] = "a"
            BY <4>3, <5>2, <6>2
          <6> QED
            BY <4>1, <4>3, <4>4, <5>2, <6>1, <6>3 DEF OnlyNotesBehind
        <5>5. ASSUME NEW id, Trail(Coming, append, id) PROVE id = append.id
          <6>1. CASE append.id = id
            BY <6>1
          <6>2. ASSUME NEW i \in DOMAIN Coming, Coming[i].id = id PROVE id = append.id
            <7>1. \A l \in 1 .. i : Coming[l].only
              <8>1. Coming \in Seq(DirtyMsg)
                BY ComingTypes
              <8>2. \A l \in 1 .. i : l \in DOMAIN Coming /\ l >= 1
                BY <6>2, <8>1
              <8> QED
                BY <4>6, <8>2 DEF OnlyFrom
            <7> QED
              BY <1>1, <1>4, <6>2, <7>1 DEF SameRun
          <6> QED
            BY <5>5, <6>1, <6>2 DEF Trail
        <5>6. ASSUME NEW i \in 1 .. n, i < n PROVE shown'[i] = scene[i]
          <6>1. scene[i].id # append.id
            <7>1. i \in DOMAIN scene /\ n \in DOMAIN scene
              BY <1>1, <4>4, <5>3, <5>6
            <7>2. scene[i].id = append.id => scene[n].id[1] = "n"
              BY <5>2, <5>6, <7>1 DEF OnlyNotesBehind
            <7>3. scene[n].id[1] = "a"
              BY <4>3, <5>2, <5>4
            <7> QED
              BY <7>2, <7>3
          <6>2. shown[i] = scene[i]
            BY <5>3, <5>5, <5>6, <6>1
          <6>3. i \in 1 .. n - 1
            BY <4>4, <5>6
          <6> QED
            BY <4>5, <6>2, <6>3
        <5>7. \A i \in 1 .. n : shown'[i] = scene[i]
          <6>1. \A i \in 1 .. n : i < n \/ i = n
            BY <4>4
          <6> QED
            BY <4>5, <5>4, <5>6, <6>1
        <5> QED
          BY <1>1, <4>5, <5>3, <5>7, SeqEqual
      <4> QED
        BY <4>5, <4>6
    <3> QED
      BY <3>1, <3>2
  <2>6. CloseTo(Coming, append', scene, shown')
    BY <2>5 DEF CloseTo
  <2> QED
    BY <1>1, <2>2, <2>3, <2>4, <2>5, <2>6 DEF QuietInv
<1> QED
  BY <1>3, <1>4

\* Everything is rendered, or emptied.
LEMMA WholeQuiet ==
  ASSUME VoiceInv, QuietInv, Resize \/ Clear \/ \E o \in Owner : TurnDone(o)
  PROVE  QuietInv'
<1>1. /\ UNCHANGED <<todo, asst, unsent, dirtyMsgs, timers>> /\ Coming' = Coming
      /\ SameRun(Coming, append) /\ Timer(append, timers) /\ scene \in Seq(VBox)
      /\ shown \in Seq(VBox) /\ CloseTo(Coming, append, scene, shown)
      /\ TrailOK(Coming, append, todo, asst, scene) /\ Writing(todo, asst, scene)
  BY DEF Resize, Clear, TurnDone, extension, QuietInv, VoiceInv, VoiceTypes, Coming
<1>2. CASE Resize
  <2>1. shown' = scene /\ scene' = scene /\ append' = append
    BY <1>2 DEF Resize
  <2>2. CloseTo(Coming, append, scene, scene)
    BY DEF CloseTo
  <2> QED
    BY <1>1, <2>1, <2>2 DEF QuietInv
<1>3. CASE Clear
  <2>1. shown' = << >> /\ scene' = << >> /\ append' = append
    BY <1>3 DEF Clear
  <2>2. CloseTo(Coming, append, << >>, << >>)
    BY DEF CloseTo
  <2>3. \A id : OnlyNotesBehind(<< >>, id)
    BY DEF OnlyNotesBehind
  <2>4. TrailOK(Coming, append, todo, asst, << >>) /\ Writing(todo, asst, << >>)
    BY <1>1, <2>3 DEF TrailOK, Writing
  <2> QED
    BY <1>1, <2>1, <2>2, <2>4 DEF QuietInv
<1>4. ASSUME NEW o \in Owner, TurnDone(o) PROVE QuietInv'
  <2>1. scene' = scene
    BY <1>4 DEF TurnDone
  <2>2. CASE o # "main"
    <3>1. append' = append /\ shown' = shown
      BY <1>4, <2>2 DEF TurnDone
    <3> QED
      BY <1>1, <2>1, <3>1 DEF QuietInv
  <2>3. CASE o = "main"
    <3>1. append' = NoAppend /\ shown' = scene
      BY <1>4, <2>3 DEF TurnDone
    <3>2. /\ SameRun(Coming, append') /\ CloseTo(Coming, append', scene, scene)
          /\ \A id : Trail(Coming, append', id) => Trail(Coming, append, id)
      BY <1>1, <3>1, Rendered
    <3>3. TrailOK(Coming, append', todo, asst, scene)
      BY <1>1, <3>2 DEF TrailOK
    <3>4. Timer(append', timers)
      BY <1>1, <3>1 DEF Timer, NoAppend, Text
    <3> QED
      BY <1>1, <2>1, <3>1, <3>2, <3>3, <3>4 DEF QuietInv
  <2> QED
    BY <2>2, <2>3
<1> QED
  BY <1>2, <1>3, <1>4

\* The invariant is kept by every step.
LEMMA QuietKept == VoiceInv /\ QuietInv /\ [TranscriptNext]_transcriptVars => QuietInv'
<1> SUFFICES ASSUME VoiceInv, QuietInv, [TranscriptNext]_transcriptVars PROVE QuietInv'
  OBVIOUS
<1>1. CASE UNCHANGED transcriptVars
  BY <1>1 DEF transcriptVars, QuietInv, Coming
<1> QED
  BY <1>1, HandlersQuiet, PatchQuiet, SendQuiet, HandleQuiet, RefreshQuiet, WholeQuiet
     DEF TranscriptNext

\* Whenever no patch, message or tick is under way the screen shows the scene,
\* for any number of pieces, turns, rebuilds, resizes and clears: the screen can
\* be behind only in the box of the answer, as long as its text is marked, and a
\* mark has a tick under way.
THEOREM QuietShowsSceneCorrect == TranscriptSpec => []QuietShowsScene
<1>1. VoiceInv /\ QuietInv => QuietShowsScene
  <2> SUFFICES ASSUME VoiceInv, QuietInv, Free, dirtyMsgs = << >>, timers = 0
               PROVE  shown = scene
    BY DEF QuietShowsScene
  <2>1. Coming = << >> /\ ~append.dirty
    BY DEF Coming, Free, QuietInv, Timer
  <2>2. DOMAIN Coming = {}
    BY <2>1
  <2>3. OnlyFrom(Coming, 1) /\ \A id : ~Trail(Coming, append, id)
    BY <2>1, <2>2 DEF OnlyFrom, Trail
  <2>4. Len(shown) = Len(scene) /\ \A i \in DOMAIN scene : shown[i] = scene[i]
    BY <2>3 DEF QuietInv, CloseTo
  <2>5. shown \in Seq(VBox) /\ scene \in Seq(VBox)
    BY DEF QuietInv, VoiceInv, VoiceTypes
  <2> QED
    BY <2>4, <2>5, SeqEqual
<1> QED
  BY VoiceInitial, VoiceKept, QuietInitial, QuietKept, <1>1, PTL DEF TranscriptSpec

\* Answers are rendered as markdown, or not.
LEMMA MarkdownInitial == TranscriptInit => markdown \in BOOLEAN
BY DEF TranscriptInit

\* No step changes how answers are rendered.
LEMMA MarkdownKept == markdown \in BOOLEAN /\ [TranscriptNext]_transcriptVars => (markdown \in BOOLEAN)'
BY DEF TranscriptNext, UserPrompt, Token, Rebuild, TurnDone, MessageEnd, ChatNotify, Patch,
       SendDirty, HandleDirty, Refresh, Resize, Clear, transcriptVars

\* The invariants have the types in them.
LEMMA TranscriptTypes == VoiceInv /\ QuietInv /\ markdown \in BOOLEAN => TranscriptTypeOK
<1> SUFFICES ASSUME VoiceInv, QuietInv, markdown \in BOOLEAN PROVE TranscriptTypeOK
  OBVIOUS
<1>1. VBox = Box
  BY DEF VBox, Box, Text
<1>2. focused \in Owner /\ asst \in 0 .. seq /\ pend \in 0 .. seq /\ scene \in Seq(VBox)
  BY DEF VoiceInv, VoiceTypes
<1>3. shown \in Seq(VBox) /\ (unsent = << >> \/ \E m \in DirtyMsg : unsent = <<m>>)
  BY DEF QuietInv
<1>4. Len(unsent) <= 1
  <2>1. Len(<< >>) = 0 /\ \A m : Len(<<m>>) = 1
    OBVIOUS
  <2> DEFINE l == Len(unsent)
  <2>2. l = 0 \/ l = 1
    BY <1>3, <2>1
  <2> HIDE DEF l
  <2>3. l <= 1
    BY <2>2
  <2> QED
    BY <2>3 DEF l
<1>5. (append.scheduled => timers > 0) /\ (append.dirty => append.scheduled)
  BY DEF QuietInv, Timer
<1> QED
  BY <1>1, <1>2, <1>3, <1>4, <1>5 DEF TranscriptTypeOK

\* The type invariant: nothing but boxes of known agents is in the scene and on
\* the screen, and a refresh is scheduled only while a tick is under way.
THEOREM TranscriptTypeCorrect == TranscriptSpec => []TranscriptTypeOK
<1>1. TranscriptInit => markdown \in BOOLEAN
  BY MarkdownInitial
<1>2. markdown \in BOOLEAN /\ [TranscriptNext]_transcriptVars => (markdown \in BOOLEAN)'
  BY MarkdownKept
<1>3. VoiceInv /\ QuietInv /\ markdown \in BOOLEAN => TranscriptTypeOK
  BY TranscriptTypes
<1> QED
  BY <1>1, <1>2, <1>3, VoiceInitial, VoiceKept, QuietInitial, QuietKept, PTL DEF TranscriptSpec

-----------------------------------------------------------------------------
(* The composition.                                                        *)

\* A step of the composition is a step of one part, and the others stay where
\* they are.
LEMMA OnePart ==
  PartsNext => /\ [TreeNext]_treeVars /\ [ConvNext]_convVars /\ [HarnessNext]_harnessVars
               /\ [TranscriptNext]_transcriptVars /\ [LoopGuardNext]_guardVars
<1>1. ASSUME TreeStep
      PROVE  TreeNext /\ UNCHANGED <<convVars, harnessVars, transcriptVars, guardVars>>
  BY <1>1 DEF TreeStep, InTree, TreeNext
<1>2. ASSUME ConversationStep
      PROVE  ConvNext /\ UNCHANGED <<treeVars, harnessVars, transcriptVars, guardVars>>
  BY <1>2 DEF ConversationStep, InConversation, ConvNext
<1>3. ASSUME HarnessStep
      PROVE  HarnessNext /\ UNCHANGED <<treeVars, convVars, transcriptVars, guardVars>>
  BY <1>3 DEF HarnessStep, InHarness, HarnessNext
<1>4. ASSUME TranscriptStep
      PROVE  TranscriptNext /\ UNCHANGED <<treeVars, convVars, harnessVars, guardVars>>
  BY <1>4 DEF TranscriptStep, InTranscript, TranscriptNext
<1>5. ASSUME GuardStep
      PROVE  LoopGuardNext /\ UNCHANGED <<treeVars, convVars, harnessVars, transcriptVars>>
  BY <1>5 DEF GuardStep, InGuard, LoopGuardNext
<1>6. ASSUME LoopStep
      PROVE  UNCHANGED <<treeVars, convVars, harnessVars, transcriptVars, guardVars>>
  BY <1>6 DEF LoopStep, InLoop
<1>7. ASSUME BreakerStep
      PROVE  UNCHANGED <<treeVars, convVars, harnessVars, transcriptVars, guardVars>>
  BY <1>7 DEF BreakerStep, InBreaker
<1> QED
  BY <1>1, <1>2, <1>3, <1>4, <1>5, <1>6, <1>7 DEF PartsNext

\* The types of all parts hold together: each part keeps its invariant whichever
\* of them moves.
THEOREM PartsTypeCorrect == PartsSpec => []PartsTypeOK
<1> DEFINE PartsVars == <<part, treeVars, convVars, harnessVars, transcriptVars, guardVars,
                         loopVars, vars>>
           PartsInv == /\ TreeInv /\ ConvInv /\ HarnessInv /\ VoiceInv /\ QuietInv
                       /\ markdown \in BOOLEAN /\ GuardInv
<1>1. PartsInit => PartsInv
  BY TreeInitial, ConvInitial, HarnessInitial, VoiceInitial, QuietInitial, MarkdownInitial,
     GuardInit DEF PartsInit
<1>2. PartsInv /\ [PartsNext]_PartsVars => PartsInv'
  <2> SUFFICES ASSUME PartsInv, [PartsNext]_PartsVars PROVE PartsInv'
    OBVIOUS
  <2>1. /\ [TreeNext]_treeVars /\ [ConvNext]_convVars /\ [HarnessNext]_harnessVars
        /\ [TranscriptNext]_transcriptVars /\ [LoopGuardNext]_guardVars
    BY OnePart
  <2> QED
    BY <2>1, TreeKept, ConvKept, HarnessKept, VoiceKept, QuietKept, MarkdownKept, GuardKept
<1>3. PartsInv => PartsTypeOK
  <2> SUFFICES ASSUME PartsInv PROVE PartsTypeOK
    OBVIOUS
  <2>1. TreeTypeOK /\ LoopGuardTypeOK
    BY DEF TreeInv, GuardInv
  <2> QED
    BY <2>1, ConvTypes, HarnessInvTypes, TranscriptTypes DEF PartsTypeOK
<1> QED
  BY <1>1, <1>2, <1>3, PTL DEF PartsSpec

=============================================================================
