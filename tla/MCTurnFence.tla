---------------------------- MODULE MCTurnFence -----------------------------
(* Small instances of TurnFence: a turn and its Retry, alone or after another turn. *)
EXTENDS TurnFence

CONSTANTS t1, t2

Retried == [r \in Runs |-> t1]

SecondRetried == [r \in Runs |-> IF r = 1 THEN t1 ELSE t2]

=============================================================================
