---------------------------- MODULE MCAgentTurn ----------------------------
(* Instances of AgentTurn for TLC: message kinds, environments, symmetry.  *)
EXTENDS AgentTurn, TLC

CONSTANTS n1, n2, s1, k1, t1, t2

\* One message of each kind that the settle and the injector tell apart, and
\* the smaller sets the longer runs use.
MCKind ==
  [m \in Msg |-> CASE m \in {n1, n2} -> "normal"
                   [] m = s1 -> "steer"
                   [] m = k1 -> "control"
                   [] m \in {t1, t2} -> "shutdown"]

MCSymmetry == Permutations(Caller) \cup Permutations(Worker)
=============================================================================
