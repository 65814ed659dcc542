----------------------------- MODULE MCTurnRest -----------------------------
(***************************************************************************)
(* An instance of AgentTurn for what must come to pass, in two scenes.  In *)
(* one, messages are delivered, steered and prompted, and turns are        *)
(* cancelled.  In the other a shutdown request is sent, and nobody cancels:*)
(* a cancelled turn loses the request it has consumed.  In that scene the  *)
(* chain of turns need not end (AgentTurn_livelock).                       *)
(***************************************************************************)
EXTENDS MCAgentTurn

VARIABLE scene

RestInit == Init /\ scene \in {"steered", "shutdown"}

InSteered  == scene = "steered" /\ UNCHANGED scene
InShutdown == scene = "shutdown" /\ UNCHANGED scene
InEither   == UNCHANGED scene

RestNext ==
  \/ \E c \in Caller, m \in Msg \ {t1} :
       \/ InSteered /\ Deliver(c, m, TRUE)
       \/ InSteered /\ Prompt(c, m)
  \/ \E c \in Caller : InSteered /\ Cancel(c)
  \/ \E c \in Caller, m \in Msg \ {s1}, wk \in BOOLEAN : InShutdown /\ Deliver(c, m, wk)
  \/ \E p \in Proc : InEither /\ Submit(p)
  \/ \E w \in Worker :
       \/ InEither /\ ExecuteTurn(w)
       \/ InEither /\ Steer(w)
       \/ InEither /\ FinishTurn(w)

RestSpec == RestInit /\ [][RestNext]_<<vars, scene>> /\ Fairness

\* The chain of follow-up turns ends, whatever fails and is cancelled, and every
\* goroutine comes to rest, as long as no shutdown request is among the messages.
SteeredRests == scene = "steered" => ComesToRest
=============================================================================
