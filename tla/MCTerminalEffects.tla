------------------------- MODULE MCTerminalEffects -------------------------
(* Small instances of TerminalEffects: two responses of one turn, a task   *)
(* reminder that owes a follow-up turn, an event drain whose inline body   *)
(* is awaited, and the sleep-time lane, detached and coalesced.            *)
EXTENDS TerminalEffects, TLC

ResponseSymmetry == Permutations(Responses)

MCTurnOf == [s \in Responses |-> CHOOSE t \in Turns : TRUE]

MCPosition == [e \in Effects |-> IF e = "task_reminder" THEN 0 ELSE IF e = "event_drain" THEN 1 ELSE 2]

MCRosters == {Effects}
=============================================================================
