-------------------------- MODULE ToolCalls_proofs --------------------------
(* Theorems about ToolCalls, for any calls, IDs, keys, tools and chains.    *)
EXTENDS ToolCalls, TLAPS, FiniteSetTheorems

-----------------------------------------------------------------------------
(* The entries of pendingTools.                                            *)

\* An entry is found under the ID of its call, which goes to an extension,
\* still waits, and has no result yet.
EntriesOwned ==
  \A i \in CallId : pending[i] # NoCall =>
    /\ IdOf[pending[i]] = i /\ ~IsNative(pending[i])
    /\ phase[pending[i]] \in {"before", "await"} /\ chan[pending[i]] = 0

\* A call that ExecuteTool has not looked at has no result.
FreshEmpty == \A c \in Call : phase[c] \in {"none", "enter"} => chan[c] = 0

\* Nothing happens to a call before Run.
IdleUntouched == \A c \in Call : run[c] = "idle" => phase[c] = "none"

EntryInv == TypeOK /\ EntriesOwned /\ FreshEmpty /\ IdleUntouched

\* Sending a result under an ID leaves the entries in order: the one result a
\* call gets goes into an empty channel.
LEMMA SendKeepsEntries ==
  ASSUME EntryInv, NEW id \in CallId, send(id), UNCHANGED phase, UNCHANGED implementer
  PROVE  /\ chan' \in [Call -> {0, 1}]
         /\ pending' \in [CallId -> Call \cup {NoCall}]
         /\ EntriesOwned' /\ FreshEmpty'
<1> USE CallAssumption, ThresholdAssumption
      DEF EntryInv, TypeOK, EntriesOwned, FreshEmpty, IdleUntouched, send, IsNative, ImplementerOf
<1>1. \A c \in Call : pending[id] = c => chan[c] = 0 /\ phase[c] \in {"before", "await"}
  OBVIOUS
<1>2. chan' \in [Call -> {0, 1}]
  BY <1>1
<1>3. pending' \in [CallId -> Call \cup {NoCall}]
  OBVIOUS
<1>4. EntriesOwned'
  <2> SUFFICES ASSUME NEW i \in CallId, pending'[i] # NoCall
               PROVE  /\ IdOf[pending'[i]] = i /\ ~IsNative(pending'[i])
                      /\ phase[pending'[i]] \in {"before", "await"}
                      /\ chan'[pending'[i]] = 0
    OBVIOUS
  <2>1. i # id /\ pending'[i] = pending[i] /\ pending[i] \in Call
    OBVIOUS
  <2>2. pending[id] # pending[i]
    BY <2>1
  <2> QED
    BY <2>1, <2>2
<1>5. FreshEmpty'
  BY <1>1
<1> QED
  BY <1>2, <1>3, <1>4, <1>5

\* What Run does with a call is put down in the history.
LEMMA HistoryKept == TypeOK /\ [Next]_vars => PastOK'
<1> SUFFICES ASSUME TypeOK, [Next]_vars PROVE PastOK'
  OBVIOUS
<1> DEFINE Events == Call \X (Answers \cup {"started"})
<1>1. ASSUME NEW c \in Call, NEW what \in Answers \cup {"started"}, Note(c, what)
      PROVE  PastOK'
  <2>1. <<c, what>> \in Events /\ past \in Seq(Events)
    BY DEF TypeOK, PastOK
  <2> QED
    BY <1>1, <2>1 DEF PastOK, Note
<1>2. CASE UNCHANGED past
  BY <1>2 DEF TypeOK, PastOK
<1>3. ASSUME NEW c \in Call, Run(c) PROVE PastOK'
  BY <1>1, <1>3 DEF Run, Answers
<1>4. ASSUME NEW c \in Call, TakeResult(c) PROVE PastOK'
  BY <1>1, <1>4 DEF TakeResult, Answers
<1>5. ASSUME NEW c \in Call, Abandon(c) PROVE PastOK'
  BY <1>1, <1>5 DEF Abandon, Answers
<1> QED
  BY <1>2, <1>3, <1>4, <1>5
     DEF Next, vars, adapter, Expire, EndTurn, ExecuteTool, EnterExtension, Implement,
         LeaveExtension, Block, ExecuteNative, Await, ReceiveResult, GiveUp, Return, CoolDown

\* At the start no call has an entry.
LEMMA EntryInitial == Init => EntryInv
BY CallAssumption, ThresholdAssumption
   DEF Init, PastOK, EntryInv, TypeOK, EntriesOwned, FreshEmpty, IdleUntouched

\* Every step keeps the entries, the channels and the types in order.
LEMMA EntryKept == EntryInv /\ [Next]_vars => EntryInv'
<1> SUFFICES ASSUME EntryInv, [Next]_vars PROVE EntryInv'
  OBVIOUS
<1>0. PastOK'
  BY HistoryKept DEF EntryInv
<1> USE <1>0, CallAssumption, ThresholdAssumption
      DEF EntryInv, TypeOK, EntriesOwned, FreshEmpty, IdleUntouched, IsNative, ImplementerOf,
          adapter, breaker, host
<1>1. ASSUME NEW c \in Call, Run(c) PROVE EntryInv'
  <2>1. KeyOf[c] \in Key /\ run[c] = "idle"
    BY <1>1 DEF Run
  <2>2. CASE tripped(KeyOf[c])
    BY <1>1, <2>2 DEF Run, Answers
  <2>3. CASE ~tripped(KeyOf[c])
    <3>1. halfOpen(fails[KeyOf[c]]) \in Nat
      BY <2>1, ThresholdAssumption DEF halfOpen
    <3>2. /\ fails' \in [Key -> Nat]
          /\ run' \in [Call -> {"idle", "waiting"} \cup Answers]
          /\ phase[c] = "none" /\ run' = [run EXCEPT ![c] = "waiting"]
      BY <1>1, <2>1, <2>3, <3>1, SMTT(60) DEF Run
    <3>3. phase' = [phase EXCEPT ![c] = "enter"]
      BY <1>1, <2>3 DEF Run
    <3>4. UNCHANGED <<implementer, ctx, cooled, idx, pending, chan, callMu, ran>>
      BY <1>1 DEF Run
    <3> QED
      BY <3>2, <3>3, <3>4
  <2> QED
    BY <2>2, <2>3
<1>2. ASSUME NEW c \in Call, Expire(c) PROVE EntryInv'
  BY <1>2 DEF Expire
<1>3. ASSUME NEW c \in Call, EndTurn(c) PROVE EntryInv'
  BY <1>3 DEF EndTurn
<1>4. ASSUME NEW c \in Call, TakeResult(c) PROVE EntryInv'
  <2>1. run' \in [Call -> {"idle", "waiting"} \cup Answers]
    BY <1>4 DEF TakeResult, Answers
  <2>2. CASE phase[c] = "failed"
    BY <1>4, <2>1, <2>2 DEF TakeResult
  <2>3. CASE phase[c] # "failed"
    <3>1. recordSuccess(KeyOf[c])
      BY <1>4, <2>3 DEF TakeResult
    <3>2. fails' \in [Key -> Nat]
      BY <3>1 DEF recordSuccess
    <3>3. cooled' \in [Key -> BOOLEAN]
      BY <3>1, Zenon DEF recordSuccess
    <3> QED
      BY <1>4, <2>1, <3>2, <3>3 DEF TakeResult
  <2> QED
    BY <2>2, <2>3
<1>5. ASSUME NEW c \in Call, Abandon(c) PROVE EntryInv'
  <2>1. run' \in [Call -> {"idle", "waiting"} \cup Answers]
    BY <1>5 DEF Abandon, Answers
  <2>2. CASE ctx[c] = "ended"
    BY <1>5, <2>1, <2>2 DEF Abandon
  <2>3. CASE ctx[c] # "ended"
    <3>1. recordTimeout(KeyOf[c])
      BY <1>5, <2>3 DEF Abandon
    <3>2. fails' \in [Key -> Nat]
      BY <3>1 DEF recordTimeout
    <3>3. cooled' \in [Key -> BOOLEAN]
      BY <3>1 DEF recordTimeout
    <3> QED
      BY <1>5, <2>1, <3>2, <3>3 DEF Abandon
  <2> QED
    BY <2>2, <2>3
<1>6. ASSUME NEW c \in Call, ExecuteTool(c) PROVE EntryInv'
  BY <1>6 DEF ExecuteTool
<1>7. ASSUME NEW c \in Call, EnterExtension(c) PROVE EntryInv'
  BY <1>7 DEF EnterExtension
<1>8. ASSUME NEW c \in Call, Implement(c) PROVE EntryInv'
  <2>1. IdOf[c] \in CallId /\ send(IdOf[c]) /\ UNCHANGED <<phase, implementer>>
    BY <1>8 DEF Implement
  <2> QED
    BY <1>8, <2>1, SendKeepsEntries DEF Implement
<1>9. ASSUME NEW c \in Call, LeaveExtension(c) PROVE EntryInv'
  <2>1. idx' \in [Call -> Nat \ {0}]
    BY <1>9 DEF LeaveExtension
  <2>2. callMu' \in [Ext -> Call \cup {NoCall}]
    BY <1>9 DEF LeaveExtension
  <2> QED
    BY <1>9, <2>1, <2>2 DEF LeaveExtension
<1>10. ASSUME NEW c \in Call, Block(c) PROVE EntryInv'
  <2>1. /\ phase[c] \in {"before", "after"} /\ IdOf[c] \in CallId
    BY <1>10 DEF Block, Inside, InChain
  <2>4. /\ idx' \in [Call -> Nat \ {0}]
        /\ callMu' \in [Ext -> Call \cup {NoCall}]
    <3>1. idx' = [idx EXCEPT ![c] = 1] /\ callMu' = [callMu EXCEPT ![At(c)] = NoCall]
      BY <1>10 DEF Block
    <3>2. idx' \in [Call -> Nat \ {0}]
      BY <3>1
    <3>3. callMu' \in [Ext -> Call \cup {NoCall}]
      BY <3>1
    <3> QED
      BY <3>2, <3>3
  <2>5. UNCHANGED <<implementer, run, ctx, past, fails, cooled, ran>>
    BY <1>10 DEF Block
  <2>2. CASE phase[c] = "before"
    <3>1. phase' = [phase EXCEPT ![c] = "blocked"]
      BY <1>10, <2>2 DEF Block
    <3>2. CASE UNCHANGED chan
      <4>1. pending' = IF IsNative(c) THEN pending
                       ELSE [pending EXCEPT ![IdOf[c]] = NoCall]
        BY <1>10, <2>2, <3>2 DEF Block
      <4>2. \A i \in CallId : pending'[i] # NoCall =>
              pending'[i] = pending[i] /\ pending[i] # c
        BY <2>1, <4>1
      <4> QED
        BY <2>1, <2>4, <2>5, <3>1, <3>2, <4>1, <4>2
    <3>3. ASSUME NEW d \in Call, pending[IdOf[c]] = d,
                 chan' = [chan EXCEPT ![d] = @ + 1]
          PROVE  EntryInv'
      <4>1. pending' = [pending EXCEPT ![IdOf[c]] = NoCall]
        BY <1>10, <2>1, <2>2, <3>3 DEF Block
      <4>2. \A i \in CallId : pending'[i] # NoCall =>
              /\ pending'[i] = pending[i] /\ i # IdOf[c]
              /\ pending[i] # c /\ pending[i] # d
        BY <2>1, <3>3, <4>1
      <4>3. chan' \in [Call -> {0, 1}] /\ pending' \in [CallId -> Call \cup {NoCall}]
        BY <2>1, <3>3, <4>1
      <4> QED
        BY <2>1, <2>4, <2>5, <3>1, <3>3, <4>2, <4>3
    <3> QED
      BY <1>10, <2>2, <3>2, <3>3 DEF Block
  <2>3. CASE phase[c] # "before"
    <3>1. phase' = [phase EXCEPT ![c] = "result"] /\ UNCHANGED <<chan, pending>>
      BY <1>10, <2>3 DEF Block
    <3> QED
      BY <2>1, <2>3, <2>4, <2>5, <3>1
  <2> QED
    BY <2>2, <2>3
<1>11. ASSUME NEW c \in Call, ExecuteNative(c) PROVE EntryInv'
  BY <1>11 DEF ExecuteNative
<1>12. ASSUME NEW c \in Call, Await(c) PROVE EntryInv'
  BY <1>12 DEF Await
<1>13. ASSUME NEW c \in Call, ReceiveResult(c) PROVE EntryInv'
  BY <1>13 DEF ReceiveResult
<1>14. ASSUME NEW c \in Call, GiveUp(c) PROVE EntryInv'
  BY <1>14 DEF GiveUp
<1>15. ASSUME NEW c \in Call, Return(c) PROVE EntryInv'
  BY <1>15 DEF Return
<1>16. ASSUME NEW k \in Key, CoolDown(k) PROVE EntryInv'
  BY <1>16 DEF CoolDown
<1>17. CASE UNCHANGED vars
  BY <1>17 DEF vars
<1> QED
  BY <1>1, <1>2, <1>3, <1>4, <1>5, <1>6, <1>7, <1>8, <1>9, <1>10, <1>11,
     <1>12, <1>13, <1>14, <1>15, <1>16, <1>17 DEF Next

\* The entries, the channels and the types stay in order.
LEMMA EntrySteps == Spec => []EntryInv
BY EntryInitial, EntryKept, PTL DEF Spec

\* The containers have their types, and the channel of a call, which holds one
\* result, never gets a second one.
THEOREM TypeCorrect == Spec => []TypeOK
BY EntrySteps, PTL DEF EntryInv

\* pendingTools holds entries only of calls that still wait for a result, for
\* any reuse of IDs by the providers and any order of results, blocks and
\* timeouts.
THEOREM NoPendingLeakCorrect == Spec => []NoPendingLeak
<1>1. EntryInv => NoPendingLeak
  BY DEF EntryInv, EntriesOwned, NoPendingLeak
<1> QED
  BY <1>1, EntrySteps, PTL

-----------------------------------------------------------------------------
(* The breaker.                                                            *)

\* The timeouts that count for a key.
InRow(k) ==
  {n \in DOMAIN past : TimedOutAt(k, n)
     /\ \A m \in DOMAIN past : m > n => ~SucceededAt(k, m)}

\* There are finitely many of them, and InARow is their number.
LEMMA RowFinite ==
  ASSUME TypeOK, NEW k \in Key
  PROVE  IsFiniteSet(InRow(k)) /\ InARow(k) = Cardinality(InRow(k)) /\ InARow(k) \in Nat
<1>1. DOMAIN past = 1..Len(past) /\ Len(past) \in Nat
  BY DEF TypeOK, PastOK
<1>2. IsFiniteSet(InRow(k))
  <2>1. IsFiniteSet(1..Len(past))
    BY <1>1, FS_Interval
  <2>2. InRow(k) \subseteq 1..Len(past)
    BY <1>1 DEF InRow
  <2> QED
    BY <2>1, <2>2, FS_Subset
<1>3. InARow(k) = Cardinality(InRow(k))
  BY DEF InARow, InRow
<1> QED
  BY <1>2, <1>3, FS_CardinalityType

\* What one more event does to the timeouts that count.
LEMMA RowGrows ==
  ASSUME TypeOK, NEW c \in Call, NEW what, Note(c, what), NEW k \in Key
  PROVE  /\ what = "timeout" /\ KeyOf[c] = k => InARow(k)' = InARow(k) + 1
         /\ what \in {"blocked", "result"} /\ KeyOf[c] \in SameTool(k) => InARow(k)' = 0
         /\ ~(what = "timeout" /\ KeyOf[c] = k)
              /\ ~(what \in {"blocked", "result"} /\ KeyOf[c] \in SameTool(k))
              => InARow(k)' = InARow(k)
<1>0. PICK N \in Nat : N = Len(past)
  BY DEF TypeOK, PastOK
<1>1. /\ DOMAIN past = 1..N /\ DOMAIN past' = 1..(N + 1)
      /\ \A n \in 1..N : past'[n] = past[n]
      /\ past'[N + 1] = <<c, what>>
  BY <1>0 DEF TypeOK, PastOK, Note
<1>2. \A n \in 1..N : TimedOutAt(k, n)' = TimedOutAt(k, n) /\ SucceededAt(k, n)' = SucceededAt(k, n)
  BY <1>1 DEF TimedOutAt, SucceededAt, KeyAt, SameTool
<1>3. /\ TimedOutAt(k, N + 1)' <=> KeyOf[c] = k /\ what = "timeout"
      /\ SucceededAt(k, N + 1)' <=> KeyOf[c] \in SameTool(k) /\ what \in {"blocked", "result"}
  BY <1>1 DEF TimedOutAt, SucceededAt, KeyAt, SameTool
<1>4. InARow(k)' = Cardinality(InRow(k)')
  BY DEF InARow, InRow
<1>5. \A n \in InRow(k)' :
        /\ n \in 1..(N + 1) /\ TimedOutAt(k, n)'
        /\ \A m \in 1..(N + 1) : m > n => ~SucceededAt(k, m)'
  BY <1>1 DEF InRow
<1>6. \A n \in 1..(N + 1) :
        TimedOutAt(k, n)' /\ (\A m \in 1..(N + 1) : m > n => ~SucceededAt(k, m)')
          => n \in InRow(k)'
  BY <1>1 DEF InRow
<1>7. CASE what = "timeout" /\ KeyOf[c] = k
  <2>1. InRow(k)' \subseteq InRow(k) \cup {N + 1}
    BY <1>1, <1>2, <1>5 DEF InRow
  <2>2. InRow(k) \cup {N + 1} \subseteq InRow(k)'
    <3>1. ~SucceededAt(k, N + 1)' /\ TimedOutAt(k, N + 1)'
      BY <1>3, <1>7
    <3>2. N + 1 \in InRow(k)'
      BY <1>1, <1>6, <3>1
    <3>3. ASSUME NEW n \in InRow(k) PROVE n \in InRow(k)'
      BY <1>1, <1>2, <1>6, <3>1, <3>3 DEF InRow
    <3> QED
      BY <3>2, <3>3
  <2>3. N + 1 \notin InRow(k)
    BY <1>1 DEF InRow
  <2>4. Cardinality(InRow(k)') = Cardinality(InRow(k)) + 1
    BY <2>1, <2>2, <2>3, RowFinite, FS_AddElement
  <2> QED
    BY <1>4, <1>7, <2>4, RowFinite
<1>8. CASE what \in {"blocked", "result"} /\ KeyOf[c] \in SameTool(k)
  <2>1. InRow(k)' = {}
    BY <1>1, <1>3, <1>5, <1>8
  <2> QED
    BY <1>4, <1>8, <2>1, FS_EmptySet
<1>9. CASE /\ ~(what = "timeout" /\ KeyOf[c] = k)
           /\ ~(what \in {"blocked", "result"} /\ KeyOf[c] \in SameTool(k))
  <2>1. InRow(k)' \subseteq InRow(k)
    BY <1>1, <1>2, <1>3, <1>5, <1>9 DEF InRow
  <2>2. InRow(k) \subseteq InRow(k)'
    BY <1>1, <1>2, <1>3, <1>6, <1>9 DEF InRow
  <2>3. InRow(k)' = InRow(k)
    BY <2>1, <2>2
  <2>4. InARow(k)' = InARow(k)
    BY <1>4, <2>3, RowFinite
  <2> QED
    BY <1>9, <2>4
<1> QED
  BY <1>7, <1>8, <1>9

\* The breaker counts the timeouts in a row as long as they are fewer than the
\* threshold, and from then on stays at it, or one below when a cooldown let a
\* call through.
CountFollowsStreak ==
  \A k \in Key :
    /\ InARow(k) < Threshold => fails[k] = InARow(k)
    /\ InARow(k) >= Threshold => fails[k] >= Threshold - 1
    /\ InARow(k) >= Threshold /\ ~cooled[k] => fails[k] >= Threshold

\* The count follows the history, whatever calls of a key time out, succeed and
\* half-open the breaker at the same time.
LEMMA CountSteps == Spec => []CountFollowsStreak
<1>1. Init => CountFollowsStreak
  <2> SUFFICES ASSUME Init, NEW k \in Key PROVE InARow(k) = 0 /\ fails[k] = 0
    BY ThresholdAssumption DEF CountFollowsStreak
  <2>1. InRow(k) = {}
    BY DEF Init, InRow
  <2> QED
    BY <2>1, FS_EmptySet DEF Init, InARow, InRow
<1>2. TypeOK /\ CountFollowsStreak /\ [Next]_vars => CountFollowsStreak'
  <2> SUFFICES ASSUME TypeOK, CountFollowsStreak, [Next]_vars
               PROVE  CountFollowsStreak'
    OBVIOUS
  <2>0. /\ Threshold \in Nat \ {0}
        /\ \A k \in Key : fails[k] \in Nat /\ InARow(k) \in Nat
    BY ThresholdAssumption, RowFinite DEF TypeOK
  <2>1. CASE UNCHANGED <<breaker, past>>
    <3>1. \A k \in Key : InARow(k)' = InARow(k)
      BY <2>1 DEF InARow, TimedOutAt, SucceededAt, KeyAt, SameTool
    <3> QED
      BY <2>1, <3>1 DEF CountFollowsStreak, breaker
  <2>2. ASSUME NEW c \in Call, NEW what, Note(c, what),
               what \notin {"timeout", "blocked", "result"}
        PROVE  \A k \in Key : InARow(k)' = InARow(k)
    BY <2>2, RowGrows
  <2>3. ASSUME NEW c \in Call, Run(c) PROVE CountFollowsStreak'
    <3>1. CASE tripped(KeyOf[c])
      <4>1. Note(c, "fast") /\ UNCHANGED <<fails, cooled>>
        BY <2>3, <3>1 DEF Run
      <4> QED
        BY <2>2, <4>1 DEF CountFollowsStreak
    <3>2. CASE ~tripped(KeyOf[c])
      <4>1. /\ fails' = [fails EXCEPT ![KeyOf[c]] = halfOpen(@)]
            /\ UNCHANGED cooled /\ KeyOf[c] \in Key /\ Note(c, "started")
        BY <2>3, <3>2, CallAssumption DEF Run
      <4>2. ASSUME NEW k \in Key, k # KeyOf[c] PROVE fails'[k] = fails[k]
        BY <4>1, <4>2 DEF TypeOK
      <4>3. fails'[KeyOf[c]] = halfOpen(fails[KeyOf[c]])
        BY <4>1 DEF TypeOK
      <4>4. fails[KeyOf[c]] >= Threshold => cooled[KeyOf[c]]
        BY <3>2 DEF tripped
      <4>5. \A k \in Key : InARow(k)' = InARow(k)
        BY <2>2, <4>1
      <4> QED
        BY <2>0, <4>1, <4>2, <4>3, <4>4, <4>5 DEF CountFollowsStreak, halfOpen
    <3> QED
      BY <3>1, <3>2
  <2>4. ASSUME NEW c \in Call, NEW k \in Key, k = KeyOf[c], Note(c, "timeout"), recordTimeout(k)
        PROVE  CountFollowsStreak'
    <3>1. /\ fails'[k] = fails[k] + 1 /\ ~cooled'[k]
          /\ \A l \in Key \ {k} : fails'[l] = fails[l] /\ cooled'[l] = cooled[l]
      BY <2>4 DEF recordTimeout, TypeOK
    <3>2. InARow(k)' = InARow(k) + 1 /\ \A l \in Key \ {k} : InARow(l)' = InARow(l)
      BY <2>4, RowGrows
    <3> QED
      BY <2>0, <3>1, <3>2 DEF CountFollowsStreak
  <2>5. ASSUME NEW c \in Call, NEW what \in {"blocked", "result"}, Note(c, what),
               KeyOf[c] \in Key, recordSuccess(KeyOf[c])
        PROVE  CountFollowsStreak'
    <3>1. \A l \in Key : l \in SameTool(KeyOf[c]) <=> KeyOf[c] \in SameTool(l)
      BY <2>5 DEF SameTool
    <3>2. \A l \in Key :
            IF KeyOf[c] \in SameTool(l) THEN fails'[l] = 0
            ELSE fails'[l] = fails[l] /\ cooled'[l] = cooled[l]
      BY <2>5, <3>1 DEF recordSuccess
    <3>3. \A l \in Key :
            IF KeyOf[c] \in SameTool(l) THEN InARow(l)' = 0 ELSE InARow(l)' = InARow(l)
      BY <2>5, RowGrows
    <3> QED
      BY <2>0, <3>2, <3>3 DEF CountFollowsStreak
  <2>6. ASSUME NEW c \in Call, TakeResult(c) PROVE CountFollowsStreak'
    <3>1. CASE phase[c] = "failed"
      <4>1. Note(c, "failed") /\ UNCHANGED <<fails, cooled>>
        BY <2>6, <3>1 DEF TakeResult, breaker
      <4> QED
        BY <2>2, <4>1 DEF CountFollowsStreak
    <3>2. CASE phase[c] # "failed"
      <4>1. /\ phase[c] \in {"blocked", "result"} /\ Note(c, phase[c])
            /\ KeyOf[c] \in Key /\ recordSuccess(KeyOf[c])
        BY <2>6, <3>2, CallAssumption DEF TakeResult
      <4> QED
        BY <2>5, <4>1
    <3> QED
      BY <3>1, <3>2
  <2>7. ASSUME NEW c \in Call, Abandon(c) PROVE CountFollowsStreak'
    <3>1. CASE ctx[c] = "ended"
      <4>1. Note(c, "cancelled") /\ UNCHANGED <<fails, cooled>>
        BY <2>7, <3>1 DEF Abandon, breaker
      <4> QED
        BY <2>2, <4>1 DEF CountFollowsStreak
    <3>2. CASE ctx[c] # "ended"
      <4>1. Note(c, "timeout") /\ KeyOf[c] \in Key /\ recordTimeout(KeyOf[c])
        BY <2>7, <3>2, CallAssumption DEF Abandon
      <4> QED
        BY <2>4, <4>1
    <3> QED
      BY <3>1, <3>2
  <2>8. ASSUME NEW k \in Key, CoolDown(k) PROVE CountFollowsStreak'
    <3>1. /\ UNCHANGED <<fails, past>>
          /\ \A l \in Key : ~cooled'[l] => ~cooled[l]
      BY <2>8 DEF CoolDown, TypeOK, adapter
    <3>2. \A l \in Key : InARow(l)' = InARow(l)
      BY <3>1 DEF InARow, TimedOutAt, SucceededAt, KeyAt, SameTool
    <3> QED
      BY <3>1, <3>2 DEF CountFollowsStreak
  <2> QED
    BY <2>1, <2>3, <2>6, <2>7, <2>8
       DEF Next, vars, adapter, Expire, EndTurn, ExecuteTool, EnterExtension, Implement,
           LeaveExtension, Block, ExecuteNative, Await, ReceiveResult, GiveUp, Return
<1> QED
  BY <1>1, <1>2, TypeCorrect, PTL DEF Spec

\* A call is failed fast exactly when, by the answers given so far, its key has
\* timed out Threshold times since the tool last succeeded and the last timeout
\* is recent, for any number of calls of the key under way and any threshold.
THEOREM BreakerExactCorrect == Spec => BreakerExact
<1>1. TypeOK /\ CountFollowsStreak /\ [Next]_vars
        => [\A c \in Call : run[c] = "idle" /\ run'[c] # "idle" =>
              (run'[c] = "fast" <=>
                 InARow(KeyOf[c]) >= Threshold /\ ~cooled[KeyOf[c]])]_vars
  <2> SUFFICES ASSUME TypeOK, CountFollowsStreak, Next,
                      NEW c \in Call, run[c] = "idle", run'[c] # "idle"
               PROVE  run'[c] = "fast" <=>
                        InARow(KeyOf[c]) >= Threshold /\ ~cooled[KeyOf[c]]
    OBVIOUS
  <2>1. Run(c)
    <3>1. ASSUME NEW d \in Call, d # c \/ ~Run(d),
                 \/ Run(d) \/ TakeResult(d) \/ Abandon(d)
          PROVE  run'[c] = run[c]
      BY <3>1 DEF Run, TakeResult, Abandon, TypeOK
    <3>2. run' # run
      OBVIOUS
    <3> QED
      BY <3>1, <3>2
         DEF Next, Expire, EndTurn, ExecuteTool, EnterExtension, Implement,
             LeaveExtension, Block, ExecuteNative, Await, ReceiveResult, GiveUp,
             Return, CoolDown, adapter
  <2>2. /\ KeyOf[c] \in Key /\ Threshold \in Nat \ {0}
        /\ fails[KeyOf[c]] \in Nat /\ InARow(KeyOf[c]) \in Nat
    BY CallAssumption, ThresholdAssumption, RowFinite DEF TypeOK
  <2>3. run'[c] = "fast" <=> tripped(KeyOf[c])
    BY <2>1 DEF Run, TypeOK
  <2>4. fails[KeyOf[c]] >= Threshold /\ ~cooled[KeyOf[c]]
          <=> InARow(KeyOf[c]) >= Threshold /\ ~cooled[KeyOf[c]]
    BY <2>2 DEF CountFollowsStreak
  <2> QED
    BY <2>3, <2>4 DEF tripped
<1> QED
  BY <1>1, TypeCorrect, CountSteps, PTL DEF Spec, BreakerExact

-----------------------------------------------------------------------------
(* Blocked calls.                                                          *)

\* Every extension that may be behind a tool comes later in the chain than every
\* extension that may block a call: what loadAll's priorities give an installed
\* extension, and do not give a built-in one.
BlockersFirst ==
  \A i, j \in 1..Len(Before) :
    Before[i] \in Behind /\ Before[j] \in Blockers => j < i

\* A call that has run and is still in the chain went through its implementer.
RanBehindBlockers ==
  \A c \in ran :
    /\ phase[c] \notin {"none", "enter", "blocked"}
    /\ phase[c] = "before" =>
         \E i \in 1..Len(Before) : Before[i] = ImplementerOf(c) /\ i <= idx[c]

\* In a chain so ordered, a tool whose call an interceptor blocked has not been
\* executed and never is.
THEOREM BlockedNeverRunsCorrect ==
  ASSUME BlockersFirst
  PROVE  Spec => []BlockedNeverRuns
<1>1. Init => RanBehindBlockers
  BY DEF Init, RanBehindBlockers
<1>2. EntryInv /\ RanBehindBlockers /\ [Next]_vars => RanBehindBlockers'
  <2> SUFFICES ASSUME EntryInv, RanBehindBlockers, [Next]_vars,
                      NEW d \in ran'
               PROVE  /\ phase'[d] \notin {"none", "enter", "blocked"}
                      /\ phase'[d] = "before" =>
                           \E i \in 1..Len(Before) :
                             Before[i] = ImplementerOf(d)' /\ i <= idx'[d]
    BY DEF RanBehindBlockers
  <2> DEFINE Good == /\ phase'[d] \notin {"none", "enter", "blocked"}
                     /\ phase'[d] = "before" =>
                          \E i \in 1..Len(Before) :
                            Before[i] = ImplementerOf(d)' /\ i <= idx'[d]
  <2>0. /\ ran \subseteq Call /\ idx \in [Call -> Nat \ {0}] /\ DOMAIN phase = Call
        /\ \A c \in Call : ImplementerOf(c) \in Behind
    BY CallAssumption DEF EntryInv, TypeOK, ImplementerOf
  <2>1. CASE UNCHANGED host /\ UNCHANGED implementer
    BY <2>1 DEF RanBehindBlockers, host, ImplementerOf
  <2>2. ASSUME NEW c \in Call, Run(c) PROVE Good
    BY <2>0, <2>2 DEF Run, RanBehindBlockers, ImplementerOf, EntryInv, IdleUntouched
  <2>3. ASSUME NEW c \in Call, ExecuteTool(c) PROVE Good
    BY <2>0, <2>3 DEF ExecuteTool, RanBehindBlockers, ImplementerOf, adapter
  <2>4. ASSUME NEW c \in Call, EnterExtension(c) PROVE Good
    BY <2>0, <2>4 DEF EnterExtension, RanBehindBlockers, ImplementerOf, adapter
  <2>5. ASSUME NEW c \in Call, Implement(c) PROVE Good
    BY <2>0, <2>5
       DEF Implement, Inside, InChain, Chain, At, RanBehindBlockers, ImplementerOf, adapter
  <2>6. ASSUME NEW c \in Call, LeaveExtension(c) PROVE Good
    BY <2>0, <2>6 DEF LeaveExtension, RanBehindBlockers, ImplementerOf, adapter
  <2>7. ASSUME NEW c \in Call, Block(c) PROVE Good
    <3>1. CASE phase[c] = "before"
      <4>1. /\ idx[c] \in 1..Len(Before) /\ Before[idx[c]] \in Blockers
            /\ phase' = [phase EXCEPT ![c] = "blocked"] /\ idx' = [idx EXCEPT ![c] = 1]
            /\ UNCHANGED <<ran, implementer>>
        BY <2>0, <2>7, <3>1, ChainAssumption DEF Block, Inside, InChain, Chain, At, adapter
      <4>2. c \notin ran
        BY <2>0, <3>1, <4>1 DEF BlockersFirst, RanBehindBlockers
      <4> QED
        BY <2>0, <4>1, <4>2 DEF RanBehindBlockers, ImplementerOf
    <3>2. CASE phase[c] # "before"
      BY <2>0, <2>7, <3>2 DEF Block, RanBehindBlockers, ImplementerOf, adapter
    <3> QED
      BY <3>1, <3>2
  <2>8. ASSUME NEW c \in Call, ExecuteNative(c) PROVE Good
    BY <2>0, <2>8 DEF ExecuteNative, RanBehindBlockers, ImplementerOf, adapter
  <2>9. ASSUME NEW c \in Call, Await(c) PROVE Good
    BY <2>0, <2>9 DEF Await, RanBehindBlockers, ImplementerOf, adapter
  <2>10. ASSUME NEW c \in Call, ReceiveResult(c) PROVE Good
    BY <2>0, <2>10 DEF ReceiveResult, RanBehindBlockers, ImplementerOf, adapter
  <2>11. ASSUME NEW c \in Call, GiveUp(c) PROVE Good
    BY <2>0, <2>11 DEF GiveUp, RanBehindBlockers, ImplementerOf, adapter
  <2>12. ASSUME NEW c \in Call, Return(c) PROVE Good
    BY <2>0, <2>12 DEF Return, RanBehindBlockers, ImplementerOf, adapter
  <2> QED
    BY <2>1, <2>2, <2>3, <2>4, <2>5, <2>6, <2>7, <2>8, <2>9, <2>10, <2>11, <2>12
       DEF Next, vars, adapter, Expire, EndTurn, TakeResult, Abandon, CoolDown
<1>3. RanBehindBlockers => BlockedNeverRuns
  BY DEF RanBehindBlockers, BlockedNeverRuns
<1> QED
  BY <1>1, <1>2, <1>3, EntrySteps, PTL DEF Spec
=============================================================================
