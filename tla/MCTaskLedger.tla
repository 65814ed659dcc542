---------------------------- MODULE MCTaskLedger ----------------------------
(* Instances of TaskLedger for TLC: a task and one that depends on it.      *)
EXTENDS TaskLedger

CONSTANTS t1, t2

MCDependsOn == [t \in Task |-> IF t = t2 THEN {t1} ELSE {}]
=============================================================================
