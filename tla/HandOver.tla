------------------------------ MODULE HandOver ------------------------------
(***************************************************************************)
(* What a workspace promises its producers about one agent's deliveries,   *)
(* whatever crashes, repeats or Stops come between: a committed delivery   *)
(* is owed until the agent takes it, answers it without taking it, or a    *)
(* Stop or a retirement cancels it; it is taken at most once; deliveries   *)
(* are admitted in the order they were committed; and nothing is taken after  *)
(* it was answered or cancelled.  A Stop is not instantaneous: what it     *)
(* finds on its way ("stopping") may be taken until the agent has heard of *)
(* the Stop, and what the agent was already admitting may be taken after.  *)
(***************************************************************************)
EXTENDS Naturals

CONSTANT MaxSeq          \* bound: deliveries ever committed

VARIABLES
    fate,        \* where each delivery stands, by its sequence
    takes        \* how often each delivery was taken and not handed back

vars == <<fate, takes>>

Seqs == 1..MaxSeq

Fates == {"uncommitted", "owed", "stopping", "admitting", "taken", "answered", "cancelled"}

\* Each delivery has one of the fates, and only deliveries are taken.
TypeOK ==
    /\ fate \in [Seqs -> Fates]
    /\ takes \in [Seqs -> {0, 1}]

Init ==
    /\ fate = [s \in Seqs |-> "uncommitted"]
    /\ takes = [s \in Seqs |-> 0]

Commit(s) ==
    /\ fate[s] = "uncommitted"
    /\ \A r \in 1..(s - 1) : fate[r] # "uncommitted"
    /\ fate' = [fate EXCEPT ![s] = "owed"]
    /\ UNCHANGED takes

\* Nothing committed after s was taken before it.
InOrder(s) == \A t \in Seqs : takes[t] > 0 => t < s

Admit(s) ==
    /\ fate[s] \in {"owed", "stopping"}
    /\ InOrder(s)
    /\ fate' = [fate EXCEPT ![s] = "admitting"]
    /\ UNCHANGED takes

Take(s) ==
    /\ fate[s] \in {"owed", "stopping", "admitting"}
    /\ fate[s] # "admitting" => InOrder(s)
    /\ fate' = [fate EXCEPT ![s] = "taken"]
    /\ takes' = [takes EXCEPT ![s] = 1]

\* The isolate that was admitting died before it took what it admitted.
Abandon ==
    /\ fate' \in {g \in [Seqs -> Fates] : \A s \in Seqs :
                      \/ g[s] = fate[s]
                      \/ fate[s] = "admitting" /\ g[s] \in {"owed", "stopping", "answered", "cancelled"}}
    /\ UNCHANGED takes

\* A Stop hands a person's words back while their admission is not answered:
\* they count as not taken, and are owed again if the Stop came before them.
HandBack ==
    /\ \E back \in SUBSET {s \in Seqs : fate[s] = "taken"} :
           /\ fate' \in {g \in [Seqs -> Fates] : \A s \in Seqs :
                             IF s \in back THEN g[s] \notin {"uncommitted", "taken"}
                             ELSE g[s] = IF fate[s] = "stopping" /\ g[s] = "cancelled" THEN "cancelled" ELSE fate[s]}
           /\ takes' = [s \in Seqs |-> IF s \in back THEN 0 ELSE takes[s]]

Answer(s) ==
    /\ fate[s] \in {"owed", "stopping", "admitting"}
    /\ fate' = [fate EXCEPT ![s] = "answered"]
    /\ UNCHANGED takes

\* A Stop's cutoff, or a retirement: all that is owed at once.
Stop ==
    /\ fate' \in {[s \in Seqs |-> IF fate[s] = "owed" THEN f ELSE fate[s]] : f \in {"stopping", "cancelled"}}
    /\ UNCHANGED takes

\* The agent has heard of a Stop: what was on its way at or below the Stop's
\* cutoff is cancelled.
Cut ==
    /\ \E cutoff \in Seqs :
           fate' = [s \in Seqs |-> IF fate[s] = "stopping" /\ s <= cutoff THEN "cancelled" ELSE fate[s]]
    /\ UNCHANGED takes

Next ==
    \/ \E s \in Seqs : Commit(s) \/ Admit(s) \/ Take(s) \/ Answer(s)
    \/ Abandon
    \/ HandBack
    \/ Stop
    \/ Cut

Spec == Init /\ [][Next]_vars

=============================================================================
