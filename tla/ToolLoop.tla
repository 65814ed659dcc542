------------------------------ MODULE ToolLoop ------------------------------
(***************************************************************************)
(* The loop of steps within one turn: toolLoopCompactor                    *)
(* (modules/agent/toolloopcompaction.go), which replaces the messages of   *)
(* the loop with one packet when the context fills up, steerInjector       *)
(* (steer.go), which puts the messages of /steer behind them, and the      *)
(* second attempt that executeTurn makes when the provider rejects the     *)
(* context (agent.go).                                                     *)
(*                                                                         *)
(* The library that runs the loop builds each request from the messages    *)
(* the attempt began with and those of the steps it has completed, and     *)
(* lets the preparation replace them.  A step stands for the messages it   *)
(* leaves, the call of a tool and its result.  Sizes are left out: each    *)
(* preparation may find the context full, and each packet may be longer    *)
(* than the 2,000 bytes that the next summary reads of it.                 *)
(***************************************************************************)
EXTENDS Naturals, Sequences

LOCAL INSTANCE SequencesExt

CONSTANTS
  Opening,   \* the messages each of the two attempts begins with, its task last
  Recent,    \* messages that a packet repeats, 40 in the code
  MaxSteps,  \* bound on the steps of an attempt
  MaxSteers  \* bound on the messages of /steer

ASSUME LoopAssumption ==
  /\ Len(Opening) = 2 /\ \A i \in 1 .. 2 : Len(Opening[i]) > 0
  /\ Recent \in Nat \ {0} /\ MaxSteps \in Nat /\ MaxSteers \in Nat

VARIABLES
  stage,     \* "boundary", "preparing", "sent", "rejected" or "ended"
  attempt,   \* 1, or 2 after the provider has rejected the context
  steps,     \* steps the attempt has completed
  cutStep,   \* of them, those its packet stands for
  packet,    \* the compactor's packet, or NoPacket
  mailbox,   \* messages of /steer in the inbox
  injected,  \* messages of /steer the injector has taken
  request,   \* messages of the last request
  recorded,  \* what the history of the agent gained
  steered,   \* history: messages of /steer taken from the inbox in this turn
  folded     \* history: steps of the attempt that compactions were given

compactor == <<cutStep, packet>>
loopVars == <<stage, attempt, steps, compactor, mailbox, injected, request,
              recorded, steered, folded>>

Step(n)  == <<"step", n>>
Steer(n) == <<"steer", n>>
Answer   == <<"answer", 0>>
Packet   == <<"packet", 0>>
NoPacket == [task |-> Packet, summary |-> {}, recent |-> <<>>]

Task == Last(Opening[attempt])
Compacted == packet # NoPacket
LastFew(s, n) == SubSeq(s, IF Len(s) > n THEN Len(s) - n + 1 ELSE 1, Len(s))

LoopInit ==
  /\ stage = "boundary" /\ attempt = 1 /\ steps = 0
  /\ cutStep = 0 /\ packet = NoPacket
  /\ mailbox = <<>> /\ injected = <<>> /\ request = <<>> /\ recorded = <<>>
  /\ steered = <<>> /\ folded = {}

\* What the provider would be sent next, the messages of /steer aside: the
\* packet and the steps after it, or all there is.
Messages ==
  IF Compacted THEN <<Packet>> \o [i \in 1 .. steps - cutStep |-> Step(cutStep + i)]
               ELSE Opening[attempt] \o [i \in 1 .. steps |-> Step(i)]

\* What a packet says, of which messages.
Tells(p) == {p.task} \cup p.summary \cup ToSet(p.recent)

\* What the summary reads of a packet: all of it, or its two ends, in which are
\* its task and the last of its recent messages.
ReadOf(p, whole) == IF whole THEN Tells(p) ELSE {p.task, Last(<<p.task>> \o p.recent)}

(* --------------------------- the inbox ---------------------------------- *)

\* /steer sends a message to the agent while the turn runs.
SteerSent ==
  /\ stage # "ended" /\ Len(steered \o mailbox) < MaxSteers
  /\ mailbox' = Append(mailbox, Steer(Len(steered \o mailbox) + 1))
  /\ UNCHANGED <<stage, attempt, steps, compactor, injected, request, recorded,
                 steered, folded>>

\* A step begins: the injector takes the messages of /steer that are there.
TakeSteers ==
  /\ stage = "boundary"
  /\ stage' = "preparing"
  /\ mailbox' = <<>>
  /\ injected' = injected \o mailbox
  /\ steered' = steered \o mailbox
  /\ UNCHANGED <<attempt, steps, compactor, request, recorded, folded>>

(* ------------------------- the preparation ------------------------------ *)

\* The context is not full yet, or there is nothing but the first request.
Keep ==
  /\ stage = "preparing"
  /\ stage' = "sent"
  /\ request' = Messages \o injected
  /\ UNCHANGED <<attempt, steps, compactor, mailbox, injected, recorded, steered,
                 folded>>


\* The context is full and the model has summarised it: what the summary reads
\* is the first message and the last ones of the others.
Fold ==
  /\ stage = "preparing" /\ steps > 0
  /\ \E whole \in BOOLEAN :
       LET others == LastFew(Tail(Messages), Recent)
           first == IF Compacted THEN ReadOf(packet, whole) ELSE {Head(Messages)}
       IN packet' = [task |-> IF Compacted THEN packet.task ELSE Head(Messages),
                     summary |-> first \cup ToSet(others), recent |-> others]
  /\ cutStep' = steps
  /\ folded' = folded \cup {Step(n) : n \in cutStep + 1 .. steps}
  /\ request' = <<Packet>> \o injected
  /\ stage' = "sent"
  /\ UNCHANGED <<attempt, steps, mailbox, injected, recorded, steered>>

(* ----------------------- the end of a request --------------------------- *)

\* The model calls a tool, and the tool returns.
StepDone ==
  /\ stage = "sent" /\ steps < MaxSteps
  /\ steps' = steps + 1
  /\ stage' = "boundary"
  /\ UNCHANGED <<attempt, compactor, mailbox, injected, request, recorded, steered,
                 folded>>

\* The stream ends, with an answer or an error; or the summary fails.  The turn
\* enters the history.
StreamEnds ==
  /\ stage = "sent" \/ (stage = "preparing" /\ steps > 0)
  /\ stage' = "ended"
  /\ recorded' = <<Task>> \o injected \o <<Answer>>
  /\ UNCHANGED <<attempt, steps, compactor, mailbox, injected, request, steered,
                 folded>>

\* The provider says of the request, or of the summary's, that it is too long.
\* Only the first attempt is answered with another.
Rejected ==
  /\ attempt = 1
  /\ stage = "sent" \/ (stage = "preparing" /\ steps > 0)
  /\ stage' = "rejected"
  /\ UNCHANGED <<attempt, steps, compactor, mailbox, injected, request, recorded,
                 steered, folded>>

\* Mutant: the second attempt has an injector of its own.
RetryAnew ==
  /\ stage = "rejected"
  /\ attempt' = 2 /\ steps' = 0
  /\ cutStep' = 0 /\ packet' = NoPacket /\ folded' = {}
  /\ stage' = "boundary" /\ injected' = <<>>
  /\ UNCHANGED <<mailbox, request, recorded, steered>>

\* The conversation is compacted and the turn streamed again, with a compactor of
\* its own and the injector of the first attempt.
Retry ==
  /\ stage = "rejected"
  /\ attempt' = 2 /\ steps' = 0
  /\ cutStep' = 0 /\ packet' = NoPacket /\ folded' = {}
  /\ stage' = "boundary"
  /\ UNCHANGED <<mailbox, injected, request, recorded, steered>>

\* The conversation cannot be compacted, or an extension blocks the request: the
\* turn ends at once.
EndAtOnce ==
  /\ stage = "rejected"
  /\ stage' = "ended"
  /\ UNCHANGED <<attempt, steps, compactor, mailbox, injected, request, recorded,
                 steered, folded>>

LoopNext ==
  \/ SteerSent
  \/ TakeSteers
  \/ Keep
  \/ Fold
  \/ StepDone
  \/ StreamEnds
  \/ Rejected
  \/ Retry
  \/ EndAtOnce

LoopSpec == LoopInit /\ [][LoopNext]_loopVars

(* ---------------------------- properties -------------------------------- *)

Of(kind, s) == SelectSeq(s, LAMBDA m : m[1] = kind)


\* A request ends with every message of /steer that the turn has taken from the
\* inbox, in their order: over later steps, over compactions, and over the
\* second attempt, as steer.go:15-25 sets out.
SteersStay ==
  stage = "sent" =>
    /\ IsSuffix(steered, request)
    /\ Of("steer", request) = steered

(* What the documents say and the code does not do. *)

\* SPECS.md:397 and 401 of modules/agent: the packet preserves the original task.
TaskKept == Compacted => Task \in Tells(packet)

\* toolloopcompaction.go:117-118: on later compactions the fresh summary already
\* incorporates the previous packet.
NothingForgotten ==
  [][Compacted /\ packet' # NoPacket => Tells(packet) \subseteq Tells(packet')]_loopVars

\* SPECS.md:1394 of modules/agent: messages delivered in the middle of a turn are
\* recorded at its end.
SteersRecorded == stage = "ended" => ToSet(steered) \subseteq ToSet(recorded)
=============================================================================
