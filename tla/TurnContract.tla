---------------------------- MODULE TurnContract ----------------------------
(***************************************************************************)
(* What an agent promises about its messages, with the goroutines left     *)
(* out: a message accepted waits until one turn takes it or it is          *)
(* discarded, turns follow one another without overlap, and a message is   *)
(* handled once.  AgentTurn implements this specification.                 *)
(***************************************************************************)
CONSTANT Msg

VARIABLES
  sent,      \* messages accepted so far
  waiting,   \* accepted, in no turn yet
  active,    \* a turn is in progress
  handling,  \* the messages of that turn
  done,      \* messages of turns that ended
  dropped    \* messages discarded while they waited

vars == <<sent, waiting, active, handling, done, dropped>>

Init ==
  /\ sent = {} /\ waiting = {} /\ handling = {} /\ done = {} /\ dropped = {}
  /\ active = FALSE

Accept(m) ==
  /\ m \in Msg \ sent
  /\ sent' = sent \cup {m}
  /\ waiting' = waiting \cup {m}
  /\ UNCHANGED <<active, handling, done, dropped>>

Discard(S) ==
  /\ S \subseteq waiting
  /\ waiting' = waiting \ S
  /\ dropped' = dropped \cup S
  /\ UNCHANGED <<sent, active, handling, done>>

\* A turn starts with some of the waiting messages, possibly none.
Start(S) ==
  /\ ~active
  /\ active' = TRUE
  /\ S \subseteq waiting
  /\ waiting' = waiting \ S
  /\ handling' = S
  /\ UNCHANGED <<sent, done, dropped>>

\* A message that arrives during the turn is steered into it.
Inject(S) ==
  /\ active
  /\ S \subseteq waiting
  /\ waiting' = waiting \ S
  /\ handling' = handling \cup S
  /\ UNCHANGED <<sent, active, done, dropped>>

\* A turn that settles consumes control messages that waited.
Consume(S) ==
  /\ active
  /\ S \subseteq waiting
  /\ waiting' = waiting \ S
  /\ done' = done \cup S
  /\ UNCHANGED <<sent, active, handling, dropped>>

Finish ==
  /\ active
  /\ active' = FALSE
  /\ handling' = {}
  /\ done' = done \cup handling
  /\ UNCHANGED <<sent, waiting, dropped>>

Next ==
  \/ \E m \in Msg : Accept(m)
  \/ \E S \in SUBSET waiting : Discard(S) \/ Start(S) \/ Inject(S) \/ Consume(S)
  \/ Finish

Spec == Init /\ [][Next]_vars

=============================================================================
