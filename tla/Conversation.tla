----------------------------- MODULE Conversation -----------------------------
(***************************************************************************)
(* The history of an agent, what a turn makes of it, and its compaction    *)
(* (modules/agent/agent.go, compaction.go).                                *)
(*                                                                         *)
(* A turn works on a copy of the history that Submit took, with the        *)
(* drained inbox behind it; the history it leaves is written under the     *)
(* mutex at the end, and whenever a compaction was settled.  A compaction  *)
(* runs one summary request per step of the model, and any number of other *)
(* operations between them.  A message is its author, number and size in   *)
(* estimated tokens.  The interleavings of turns are in AgentTurn.         *)
(***************************************************************************)
EXTENDS Integers, Sequences, FiniteSetsExt

CONSTANTS
  Window,       \* context window of the model
  Reserve,      \* reserveTokens
  MinKeep,      \* minKeepRecentTokens
  Percent,      \* CompactConfig.ThresholdPct, or 0 when compaction is off
  Fixed,        \* size of the system prompt and the tool definitions
  Notice, NoticeReserve, \* size of a truncation notice, and what is kept for it
  Marker,       \* size of the mark inside a truncated message
  SummarySizes, \* bound: sizes of summaries
  Prompts,      \* bound: sizes of the prompts of the user, in order
  Sizes,        \* bound: sizes of queued messages
  Restored,     \* bound: histories that SetAgentHistory may install
  MaxPasses,    \* compactionMaxPasses
  MaxSaid       \* bound: no message is queued and no /compact asked for after
                \* so many messages

Message == [by : {"user", "assistant", "system", "summary", "notice"},
            nr : Nat, size : Nat]

ASSUME ConversationAssumption ==
  /\ Window \in Nat \ {0} /\ Reserve \in Nat /\ MinKeep \in Nat \ {0}
  /\ Percent \in 0 .. 100 /\ Fixed \in Nat /\ Marker \in Nat
  /\ Notice \in Nat /\ NoticeReserve \in Nat /\ Notice <= NoticeReserve
  /\ SummarySizes \subseteq Nat /\ Sizes \subseteq Nat /\ Prompts \in Seq(Nat)
  /\ Restored \subseteq Seq(Message) /\ MaxPasses \in Nat \ {0}
  /\ MaxSaid \in Nat

VARIABLES
  history,    \* a.history
  queued,     \* the inbox
  talk,       \* the turn: how far it is, its prompt, batch and copy of history
  job,        \* the runCompaction under way for the turn or for /compact
  said,       \* messages written so far
  asked       \* prompts of the user so far

convVars == <<history, queued, talk, job, said, asked>>

Max2(a, b) == IF a > b THEN a ELSE b
Min2(a, b) == IF a < b THEN a ELSE b

\* RoleUser: summaries, notices and queued messages carry it too.
UserRole(m) == m.by # "assistant"
msg(by, nr, size) == [by |-> by, nr |-> nr, size |-> size]

estimateTokens(h) ==
  LET upTo[i \in 0 .. Len(h)] == IF i = 0 THEN 0 ELSE upTo[i - 1] + h[i].size
  IN upTo[Len(h)]
contextEstimate(h, prompt) == estimateTokens(h) + Fixed + estimateTokens(prompt)

\* newCompactionBudget.
Budget ==
  LET reserve == IF Window \div 4 > 0 THEN Min2(Reserve, Window \div 4) ELSE Reserve
      safety  == IF Window > reserve THEN Window - reserve ELSE Window \div 2
      part    == (Window * Percent) \div 100
      trigger == IF part > 0 THEN Min2(part, safety) ELSE safety
      goal    == (trigger * 8) \div 10
      band    == IF goal - reserve < MinKeep THEN trigger \div 2 ELSE goal - reserve
      keep    == Max2(Min2(Window \div 10, band), MinKeep)
  IN [Trigger |-> trigger, Safety |-> safety,
      Recovery |-> IF goal > 0 THEN goal ELSE trigger,
      KeepRecent |-> Max2(1, IF Window \div 4 > 0 THEN Min2(keep, Window \div 4) ELSE keep)]

-----------------------------------------------------------------------------
(* One pass of a compaction, and the truncation.                           *)

Users(h, from) == {j \in from .. Len(h) : UserRole(h[j])}

\* findCutPoint: the first user message behind the point where the newest
\* messages exceed the budget, or 0.
findCutPoint(h, keep) ==
  LET over == {i \in DOMAIN h : estimateTokens(SubSeq(h, i, Len(h))) > keep}
      cuts == IF over = {} THEN {} ELSE Users(h, Max(over))
  IN IF cuts = {} THEN 0 ELSE Min(cuts)

\* Where compactHistory cuts what follows the first message; a cut at 1 folds
\* nothing.
CutOf(h, keep) ==
  LET rest == Tail(h)
      cut  == findCutPoint(rest, keep)
      forced == Users(rest, 2)
  IN IF Len(h) < 2 THEN 0
     ELSE IF cut = 0 /\ forced # {} THEN Max(forced) ELSE cut

\* Mutant: the cut, an index behind the first message, is applied to all.
compactHistoryAtCut(h, cut, summary) == <<h[1], summary>> \o SubSeq(h, cut, Len(h))

\* compactHistory: the first message, the summary, and what is kept.
compactHistory(h, cut, summary) == <<h[1], summary>> \o SubSeq(h, cut + 1, Len(h))

\* append(anchor, compacted...) writes into the array of the history that it
\* was given: what lies behind the result stays there.
overwrite(buf, h) == h \o SubSeq(buf, Len(h) + 1, Len(buf))

\* truncateContent.
truncateContent(m, room) == IF m.size > room THEN [m EXCEPT !.size = room + Marker] ELSE m

\* As many of the newest messages as fit, the last of them cut to fit.
Newest(h, last, room) ==
  LET front == SubSeq(h, 1, Len(h) - 1)
      fits  == {i \in DOMAIN front :
                  last.size + estimateTokens(SubSeq(front, i, Len(front))) <= room}
  IN SubSeq(front, Min(fits \cup {Len(h)}), Len(front)) \o <<last>>

\* The first message when it is small, a notice, and the newest messages.
Shortened(h, room) ==
  LET anchor == IF Len(h) > 1 /\ h[1].size <= room \div 4 THEN <<h[1]>> ELSE << >>
      avail  == Max2(1, room - estimateTokens(anchor))
  IN anchor \o <<msg("notice", 0, Notice)>> \o Newest(h, truncateContent(h[Len(h)], avail), avail)

\* truncateHistory, or << >> when it cannot help.
truncateHistory(h, prompt) ==
  LET before == contextEstimate(h, prompt)
      room   == Max2(1, Budget.Safety - (Fixed + estimateTokens(prompt)) - NoticeReserve)
  IN IF before <= Budget.Safety \/ h = << >> THEN << >>
     ELSE LET short == Shortened(h, room)
          IN IF contextEstimate(short, prompt) >= before THEN << >> ELSE short

-----------------------------------------------------------------------------
(* runCompaction.                                                          *)

Idle == [at |-> "idle", prompt |-> << >>, batch |-> << >>, hist |-> << >>]
NoJob == [at |-> "none"]

NewJob(h, prompt) ==
  [at |-> "pass", buf |-> h, len |-> Len(h), keep |-> Budget.KeepRecent, pass |-> 1,
   prompt |-> prompt, before |-> contextEstimate(h, prompt), sum |-> 0, failed |-> FALSE]

\* The history the last pass returned: the front of the array.
Current(j) == SubSeq(j.buf, 1, j.len)

\* The progress guard: no further pass.
EnoughDone(j, h) ==
  \/ contextEstimate(h, j.prompt) <= Budget.Recovery \/ j.keep <= MinKeep
  \/ Fixed + estimateTokens(j.prompt) >= Budget.Recovery
  \/ j.pass = MaxPasses

\* A pass: nothing to fold, a summary request that fails, or a summary.
Pass(w) ==
  LET j == job[w]
      h == Current(j)
      cut == CutOf(h, j.keep)
  IN /\ j.at = "pass"
     /\ IF cut <= 1
        THEN job' = [job EXCEPT ![w].at = "settle"] /\ UNCHANGED said
        ELSE \/ job' = [job EXCEPT ![w].at = "settle", ![w].failed = TRUE] /\ UNCHANGED said
             \/ \E size \in SummarySizes :
                  LET short == compactHistory(h, cut, msg("summary", said + 1, size))
                  IN /\ job' = [job EXCEPT ![w] =
                       [j EXCEPT !.buf = overwrite(@, short), !.len = Len(short),
                                 !.sum = said + 1, !.pass = @ + 1,
                                 !.keep = Max2(@ \div 2, MinKeep),
                                 !.at = IF EnoughDone(j, short) THEN "settle" ELSE "pass"]]
                     /\ said' = said + 1
     /\ UNCHANGED <<history, queued, talk, asked>>

return(how, what) == [method |-> how, history |-> what]

\* The end of an automatic compaction: a truncation, or nothing.
Fallback(j, short) ==
  IF short # << >> THEN return("truncate", short)
  ELSE return(IF j.failed THEN "error" ELSE "none", j.buf)

\* What runCompaction returns.  A turn commits only a summary that shrinks its
\* request below the limit, and may truncate; /compact commits any summary,
\* but not one above the limit after a pass that failed.
Result(w) ==
  LET j == job[w]
      h == Current(j)
      est == contextEstimate(h, j.prompt)
      good == IF w = "manual" THEN est <= Budget.Safety \/ ~j.failed
              ELSE est <= Budget.Safety /\ est < j.before
  IN IF j.sum # 0 /\ good THEN return("summary", h)
     ELSE IF w = "manual" THEN return(IF j.failed THEN "error" ELSE "none", h)
     ELSE Fallback(j, truncateHistory(h, j.prompt))

-----------------------------------------------------------------------------
(* Turns.                                                                  *)

Control(m) == m.by = "system"

\* What is said to the model in a batch: its control messages are left out.
Said(h) ==
  LET upTo[i \in 0 .. Len(h)] ==
        IF i = 0 THEN << >>
        ELSE IF Control(h[i]) THEN upTo[i - 1] ELSE Append(upTo[i - 1], h[i])
  IN upTo[Len(h)]

\* A message is queued, a control message among them.
Queue(by, size) ==
  /\ queued = << >> /\ said < MaxSaid /\ said' = said + 1
  /\ queued' = <<msg(by, said + 1, size)>>
  /\ UNCHANGED <<history, talk, job, asked>>

\* Submit: with a prompt of the user, or for the queue alone; a turn of only
\* control messages ends at once.
StartTurn(prompt) ==
  LET hist == history \o queued
      turn == [at |-> "stream", prompt |-> prompt, batch |-> queued, hist |-> hist]
  IN /\ talk.at = "idle"
     /\ queued' = << >>
     /\ IF prompt = << >> /\ \A i \in DOMAIN queued : Control(queued[i])
        THEN UNCHANGED <<talk, job>>
        ELSE IF contextEstimate(hist, prompt) >= Budget.Trigger
        THEN /\ talk' = [turn EXCEPT !.at = "preflight"]
             /\ job' = [job EXCEPT !["turn"] = NewJob(hist, prompt)]
        ELSE talk' = turn /\ UNCHANGED job
     /\ UNCHANGED history

Prompt ==
  /\ asked < Len(Prompts) /\ asked' = asked + 1 /\ said' = said + 1
  /\ StartTurn(<<msg("user", said + 1, Prompts[asked + 1])>>)

Drain == queued # << >> /\ StartTurn(<< >>) /\ UNCHANGED <<said, asked>>

\* The turn commits what its compaction returned, also when that is nothing;
\* a reactive compaction that returned nothing ends it.
Settle(r) ==
  LET ends == r.method = "error" \/ (talk.at = "reactive" /\ r.method = "none")
  IN /\ job' = [job EXCEPT !["turn"] = NoJob]
     /\ talk' = IF ends THEN Idle
                ELSE [talk EXCEPT !.hist = r.history,
                                  !.at = IF @ = "preflight" THEN "stream" ELSE "retry"]
     /\ history' = IF ends THEN history ELSE r.history

SettleTurn ==
  /\ job["turn"].at = "settle"
  /\ Settle(Result("turn"))
  /\ UNCHANGED <<queued, said, asked>>

\* The provider finds the request too long, which it is told once.
TooLong ==
  /\ talk.at = "stream"
  /\ talk' = [talk EXCEPT !.at = "reactive"]
  /\ job' = [job EXCEPT !["turn"] = NewJob(talk.hist, talk.prompt)]
  /\ UNCHANGED <<history, queued, said, asked>>

\* An interceptor refuses the request.
Refuse ==
  /\ talk.at \in {"stream", "retry"}
  /\ talk' = Idle
  /\ UNCHANGED <<history, queued, job, said, asked>>

\* The stream ended, in an answer, an error or a cancel: the turn is recorded,
\* without the batch when there is a prompt.
Record ==
  LET turn == (IF talk.prompt # << >> THEN talk.prompt
               ELSE Said(talk.batch))
                 \o <<msg("assistant", said + 1, 1)>>
  IN /\ talk.at \in {"stream", "retry"}
     /\ talk' = Idle /\ said' = said + 1
     /\ history' = history \o turn
     /\ UNCHANGED <<queued, job, asked>>

-----------------------------------------------------------------------------
(* Operations of other goroutines.                                         *)

\* CompactMainAgent looks whether a turn runs, and starts CompactNow.
Compact ==
  /\ talk.at = "idle" /\ job["manual"].at = "none" /\ history # << >>
  /\ said < MaxSaid
  /\ job' = [job EXCEPT !["manual"] = NewJob(history, << >>)]
  /\ UNCHANGED <<history, queued, talk, said, asked>>

SettleManual ==
  LET r == Result("manual")
  IN /\ job["manual"].at = "settle"
     /\ job' = [job EXCEPT !["manual"] = NoJob]
     /\ history' = IF r.method = "summary" THEN r.history ELSE history
     /\ UNCHANGED <<queued, talk, said, asked>>

SetAgentHistory(h) ==
  /\ history # h /\ history' = h
  /\ UNCHANGED <<queued, talk, job, said, asked>>

-----------------------------------------------------------------------------
ConvInit ==
  /\ history = << >> /\ queued = << >>
  /\ talk = Idle /\ job = [w \in {"turn", "manual"} |-> NoJob]
  /\ said = 0 /\ asked = 0

ConvNext ==
  \/ \E by \in {"user", "system"}, size \in Sizes : Queue(by, size)
  \/ Prompt \/ Drain \/ TooLong \/ Refuse \/ Record
  \/ \E w \in {"turn", "manual"} : Pass(w)
  \/ SettleTurn \/ Compact \/ SettleManual
  \/ \E h \in Restored : SetAgentHistory(h)

ConvSpec == ConvInit /\ [][ConvNext]_convVars

-----------------------------------------------------------------------------
(* Properties.                                                             *)

\* The type invariant: the array of a compaction never shrinks.
ConvTypeOK ==
  /\ history \in Seq(Message) /\ queued \in Seq(Message)
  /\ talk.at \in {"idle", "preflight", "stream", "reactive", "retry"}
  /\ talk.hist \in Seq(Message) /\ talk.batch \in Seq(Message)
  /\ asked \in 0 .. Len(Prompts)
  /\ talk.at \in {"preflight", "reactive"} <=> job["turn"].at # "none"
  /\ \A w \in {"turn", "manual"} : job[w].at # "none" =>
       job[w].len \in 0 .. Len(job[w].buf) /\ job[w].pass \in 1 .. MaxPasses + 1

\* "The first message is always kept verbatim", and "compaction must not
\* produce a kept slice that starts with an assistant message": a summary, of
\* however many passes that share one array, leaves the first message, the
\* summary and an unchanged end of the conversation that begins with a user
\* message.
KeepsTail ==
  [][talk.at \in {"preflight", "reactive"} /\ talk'.at \in {"stream", "retry"}
       /\ Result("turn").method = "summary" =>
     /\ talk'.hist[1] = talk.hist[1] /\ talk'.hist[2].nr = job["turn"].sum
     /\ \E i \in 2 .. Len(talk.hist) :
          /\ UserRole(talk.hist[i])
          /\ SubSeq(talk'.hist, 3, Len(talk'.hist)) = SubSeq(talk.hist, i, Len(talk.hist))]_convVars

\* "Automatic compaction must actually reduce the estimate": what a turn
\* commits as a summary makes its request smaller, and it then fits the limit.
SummariesShrink ==
  [][talk.at \in {"preflight", "reactive"} /\ talk'.at \in {"stream", "retry"}
       /\ Result("turn").method = "summary" =>
     /\ estimateTokens(talk'.hist) < estimateTokens(talk.hist)
     /\ contextEstimate(talk'.hist, talk.prompt) <= Budget.Safety]_convVars

-----------------------------------------------------------------------------
(* Claims of the sources that the code does not keep (see the README).     *)

\* "Nothing reduced the request: leave history untouched rather than
\* committing a larger context": a turn whose compaction returned nothing goes
\* on with the history it had.  The array of that history has been written
\* into by then.
Untouched ==
  [][talk.at = "preflight" /\ talk'.at = "stream" /\ Result("turn").method = "none" =>
     talk'.hist = talk.hist]_convVars

\* "CompactMainAgent refuses while the main agent IsRunning() ...: compaction
\* rewrites a.history, which a running turn holds": it looked before it asked the
\* model for a summary, and commits what it made of the history of then.
NotUnderTurn ==
  [][job["manual"].at = "settle" /\ job'["manual"].at = "none" /\ history' # history =>
     talk.at = "idle"]_convVars

=============================================================================
