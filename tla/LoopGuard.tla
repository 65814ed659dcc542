------------------------------ MODULE LoopGuard ------------------------------
(***************************************************************************)
(* The tool-loop guard of the agents extension: an interceptor of          *)
(* before_tool_call that keeps the recent calls of every agent and blocks  *)
(* a call that would complete a repeating pattern.  A call is a signature, *)
(* its tool with its normalized input.  The guard forgets calls that leave *)
(* its window; `executed` does not, so that what it lets through can be    *)
(* compared with what it remembers.                                        *)
(***************************************************************************)
EXTENDS Sequences, Integers

CONSTANTS
  Caller,       \* agents that call tools
  MainAgent,    \* the one of them that is no sub-agent
  Scope,        \* "all" or "subagents"
  Signature,    \* distinguishable tool calls
  WindowCfg, MinRepeatsCfg, MaxPeriodCfg,   \* loop_guard: of the configuration
  MaxCalls      \* bound: calls in a behaviour

ASSUME LoopGuardAssumption ==
  /\ MainAgent \in Caller
  /\ Scope \in {"all", "subagents"}
  /\ {WindowCfg, MinRepeatsCfg, MaxPeriodCfg, MaxCalls} \subseteq Nat

VARIABLES
  buffers,      \* what the guard remembers of each agent
  executed,     \* every call of each agent that the guard let through
  calls         \* calls made so far

guardVars == <<buffers, executed, calls>>

\* Zero fields take the defaults of the code; a threshold of one counts as unset.
GuardWindow == IF WindowCfg = 0 THEN 10 ELSE WindowCfg
MinRepeats == IF MinRepeatsCfg <= 1 THEN 3 ELSE MinRepeatsCfg
MaxPeriod == IF MaxPeriodCfg = 0 THEN 5 ELSE MaxPeriodCfg

\* The agents the scope of the guard covers.
Guarded == IF Scope = "subagents" THEN Caller \ {MainAgent} ELSE Caller

LastOf(s, n) == IF Len(s) > n THEN SubSeq(s, Len(s) - n + 1, Len(s)) ELSE s

\* The last k blocks of m calls are all the same.
blocksEqual(s, m, k) ==
  \A i \in Len(s) - k * m + 1 .. Len(s) - m : s[i] = s[i + m]

\* The calls end in MinRepeats identical ones, or in two equal blocks of two
\* calls or more.
detectToolLoop(all) ==
  LET s == LastOf(all, GuardWindow)
      n == Len(s)
  IN /\ n >= 2
     /\ \/ n >= MinRepeats /\ blocksEqual(s, 1, MinRepeats)
        \/ \E m \in 2 .. MaxPeriod :
             2 * m <= GuardWindow /\ 2 * m <= n /\ blocksEqual(s, m, 2)

LoopGuardInit ==
  /\ buffers = [a \in Caller |-> <<>>]
  /\ executed = [a \in Caller |-> <<>>]
  /\ calls = 0

Made(a, call) == Append(buffers[a], call)

\* The call is let through and remembered; only a window of calls is kept.
Allow(a, call) ==
  /\ calls < MaxCalls
  /\ a \in Guarded => ~detectToolLoop(Made(a, call))
  /\ buffers' = IF a \in Guarded
                  THEN [buffers EXCEPT ![a] = LastOf(Made(a, call), GuardWindow)]
                  ELSE buffers
  /\ executed' = [executed EXCEPT ![a] = Append(@, call)]
  /\ calls' = calls + 1

\* Mutant: a denied call stays in the buffer and takes a slot of the window.
DenyRemembered(a, call) ==
  /\ calls < MaxCalls
  /\ a \in Guarded
  /\ detectToolLoop(Made(a, call))
  /\ buffers' = [buffers EXCEPT ![a] = LastOf(Made(a, call), GuardWindow)]
  /\ calls' = calls + 1
  /\ UNCHANGED executed

\* The call completes a loop: it is blocked and rolled back out of the buffer.
Deny(a, call) ==
  /\ calls < MaxCalls
  /\ a \in Guarded
  /\ detectToolLoop(Made(a, call))
  /\ calls' = calls + 1
  /\ UNCHANGED <<buffers, executed>>

\* session_start builds a new guard, with empty buffers.
loadLoopGuard ==
  /\ calls > 0
  /\ buffers' = [a \in Caller |-> <<>>]
  /\ executed' = [a \in Caller |-> <<>>]
  /\ UNCHANGED calls

LoopGuardNext ==
  \/ \E a \in Caller, call \in Signature : Allow(a, call) \/ Deny(a, call)
  \/ loadLoopGuard

LoopGuardSpec == LoopGuardInit /\ [][LoopGuardNext]_guardVars

LoopGuardTypeOK ==
  /\ buffers \in [Caller -> Seq(Signature)]
  /\ \A a \in Caller : Len(buffers[a]) <= GuardWindow
  /\ executed \in [Caller -> Seq(Signature)]
  /\ calls \in 0 .. MaxCalls

\* The whole run of calls an agent has executed in a session, however long ago
\* they left the window and whatever other agents called in between or was
\* denied on the way, holds no stretch of MinRepeats identical calls, and no
\* cycle of a length the guard looks for, repeated back to back
\* (loopguard.go: observe, detectToolLoop).
NoLoopRuns ==
  \A a \in Guarded :
    LET s == executed[a]
        Repeats(m, k) == \E i \in 0 .. Len(s) - k * m :
                           \A j \in 1 .. (k - 1) * m : s[i + j] = s[i + j + m]
    IN /\ MinRepeats <= GuardWindow => ~Repeats(1, MinRepeats)
       /\ \A m \in 2 .. MaxPeriod : 2 * m <= GuardWindow => ~Repeats(m, 2)
=============================================================================
