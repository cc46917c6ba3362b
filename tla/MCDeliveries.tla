---------------------------- MODULE MCDeliveries ----------------------------
(* Small instances of Deliveries: one id of each kind of input. *)
EXTENDS Deliveries

CONSTANTS w, t, o, r

MCKind == [i \in Ids |-> CASE i = w -> "words" [] i = t -> "turn" [] i = o -> "offer" [] i = r -> "retry"]

=============================================================================
