----------------------------- MODULE Deliveries -----------------------------
(***************************************************************************)
(* The deliveries a workspace owes one of its agents.  A producer commits  *)
(* a row to the outbox together with the agent's wake; the agent's lane    *)
(* crosses the rows, oldest first, into the agent's isolate, which keeps   *)
(* its own marks of what it took and of the newest Stop's cutoff, and the  *)
(* answer retires the row.  A Stop cancels what is owed and is itself owed *)
(* to the isolate until the isolate answers it.                            *)
(*                                                                         *)
(* Workspace and isolate fail independently: a reset of the workspace      *)
(* forgets its lane and the answers on their way, while the calls it made  *)
(* may still reach the isolate; a death of the isolate fails the calls it  *)
(* was serving.  Calls overtake one another (a call the platform refused   *)
(* asks for its slot again).  A call into the isolate is first "out", then *)
(* "in" while its handler awaits, then its answer is on its way "back".    *)
(*                                                                         *)
(* A null cutoff is 0: sequences start at 1.                               *)
(***************************************************************************)
EXTENDS Integers, Sequences, FiniteSets, FiniteSetsExt

CONSTANTS
    Ids,             \* delivery ids
    Kind,            \* the kind of input each id names
    MaxSeq,          \* bound: rows ever committed
    MaxStops,        \* bound: Stops
    MaxFaults,       \* bound: resets, deaths and lost calls
    LateCalls,       \* TRUE: a call sent before a reset of the workspace may
                     \* reach the isolate after it
    RepeatCrossing   \* TRUE: an id may be committed again while an earlier
                     \* delivery of it is still in the lane's pass

\* Of the schema's kinds, words, turns and Retries; an offer is a turn that yields to
\* the owner's words.  Runs, decisions and answers are left out.
Kinds == {"words", "turn", "offer", "retry"}

ASSUME DeliveriesAssumption ==
    /\ Kind \in [Ids -> Kinds]
    /\ MaxSeq \in Nat /\ MaxStops \in Nat /\ MaxFaults \in Nat
    /\ RepeatCrossing \in BOOLEAN /\ LateCalls \in BOOLEAN

VARIABLES
    rows,        \* the id of every row ever committed, by its sequence
    outbox,      \* the sequences in agent_deliveries
    stop,        \* agent_stops: the newest generation and cutoff, and what was retired
    wake,        \* the agent's wake intent stands
    live,        \* the agent is not retired
    lane,        \* the workspace's drain pass: the row it is at, and the rest of its snapshot
    asked,       \* a drain waits for the lane
    crossing,    \* cutoffs of Stops committed whose own crossing is yet to be sent
    calls,       \* calls between the workspace and the isolate
    marks,       \* input_marks: taken_through, cutoff and what the newest intent did
    held,        \* ids held in the isolate's store, their turn not run
    ran,         \* ids whose turn is on disk
    faults,
    cancelled,   \* history: sequences a Stop or a retirement cancelled
    answered,    \* history: sequences the agent answered for without keeping them taken
    takes        \* history: how often each sequence was taken and not handed back

wsVars   == <<rows, outbox, stop, wake, live, lane, asked, crossing>>
isoVars  == <<marks, held, ran>>
histVars == <<cancelled, answered, takes>>
vars     == <<wsVars, calls, isoVars, faults, histVars>>

Answers == {"taken", "duplicate", "yielded", "cancelled", "applied", "refused", "failed", "done"}

Call == [op : {"admit", "stop", "replay"}, seq : 0..MaxSeq, generation : 0..MaxStops,
         phase : {"out", "in", "back"}, answer : Answers \cup {"none"}, heard : BOOLEAN]

\* The same call, further on its way.
Moved(c, phase, answer) ==
    [op |-> c.op, seq |-> c.seq, generation |-> c.generation, phase |-> phase, answer |-> answer, heard |-> c.heard]

Pass(step, at, rest) == [step |-> step, at |-> at, rest |-> rest]

Idle == Pass("idle", 0, {})

Init ==
    /\ rows = <<>> /\ outbox = {}
    /\ stop = [generation |-> 0, retired |-> 0, cutoff |-> 0]
    /\ wake = FALSE /\ live = TRUE
    /\ lane = Idle /\ asked = FALSE /\ crossing = {}
    /\ calls = {}
    /\ marks = [taken |-> 0, cutoff |-> 0, applied |-> 0]
    /\ held = {} /\ ran = {}
    /\ faults = 0
    /\ cancelled = {} /\ answered = {} /\ takes = [s \in 1..MaxSeq |-> 0]

-----------------------------------------------------------------------------
(* Producers and the outbox. *)

Owed(i) == \E s \in outbox : rows[s] = i

StopOwed == stop.generation > stop.retired

\* Mutant: the sequence is read after the insert.
NextSeqAhead == Len(rows) + 2

\* The row's sequence is never used again, whatever was deleted.
NextSeq == Len(rows) + 1

\* A second delivery under an id still owed owes nothing new.
Add(i) ==
    IF Owed(i) THEN UNCHANGED <<rows, outbox>>
    ELSE /\ Len(rows) < MaxSeq
         /\ rows' = Append(rows, i)
         /\ outbox' = outbox \cup {NextSeq}

\* The ids the lane's pass has still to settle.
InPass == {rows[s] : s \in (lane.rest \cup {lane.at}) \ {0}}

\* Mutant: the delivery is committed without its wake intent.
CommitNoWake(i) ==
    /\ RepeatCrossing \/ i \notin InPass \/ Owed(i)
    /\ Add(i)
    /\ asked' = TRUE
    /\ UNCHANGED <<stop, wake, live, lane, crossing, calls, isoVars, faults, histVars>>

\* The producer's fact, the row and the wake intent are one commit.
Commit(i) ==
    /\ RepeatCrossing \/ i \notin InPass \/ Owed(i)
    /\ Add(i)
    /\ wake' = TRUE
    /\ asked' = TRUE
    /\ UNCHANGED <<stop, live, lane, crossing, calls, isoVars, faults, histVars>>

\* Every row, deleted and answered as cancelled.
CancelRows ==
    /\ outbox' = {}
    /\ cancelled' = cancelled \cup outbox

Cutoff == IF outbox = {} THEN 0 ELSE Max(outbox)

\* The owner's Stop: rows cancelled and the Stop owed in one commit.
StopAgent ==
    /\ live
    /\ stop.generation < MaxStops
    /\ CancelRows
    /\ stop' = [generation |-> stop.generation + 1, retired |-> stop.retired, cutoff |-> Max({stop.cutoff, Cutoff})]
    /\ crossing' = crossing \cup {Cutoff}
    /\ UNCHANGED <<rows, wake, live, lane, asked, calls, isoVars, faults, answered, takes>>

\* Mutant: a Stop is crossed at its own cutoff, the one still owed not joined.
StopCallUnjoined(op, cutoff) ==
    [op |-> op, seq |-> cutoff, generation |-> IF StopOwed THEN stop.generation ELSE 0,
     phase |-> "out", answer |-> "none", heard |-> TRUE]

\* stopCrossed reads the owed Stop as it sends: its generation is retired by
\* the answer, none when no Stop is owed.
StopCall(op, cutoff) ==
    [op |-> op, seq |-> IF StopOwed THEN Max({cutoff, stop.cutoff}) ELSE cutoff,
     generation |-> IF StopOwed THEN stop.generation ELSE 0,
     phase |-> "out", answer |-> "none", heard |-> TRUE]

SendStop(cutoff) ==
    /\ cutoff \in crossing
    /\ crossing' = crossing \ {cutoff}
    /\ calls' = calls \cup {StopCall("stop", cutoff)}
    /\ UNCHANGED <<rows, outbox, stop, wake, live, lane, asked, isoVars, faults, histVars>>

Retire ==
    /\ live
    /\ live' = FALSE
    /\ UNCHANGED <<rows, outbox, stop, wake, lane, asked, crossing, calls, isoVars, faults, histVars>>

\* What the retired agent was owed goes with its wake.
RetireCancels ==
    /\ ~live /\ wake
    /\ CancelRows
    /\ wake' = FALSE
    /\ UNCHANGED <<rows, stop, live, lane, asked, crossing, calls, isoVars, faults, answered, takes>>

\* A wake leases itself a lap ahead and drains first.
WakeFires ==
    /\ wake /\ live
    /\ ~asked /\ lane = Idle
    /\ asked' = TRUE
    /\ UNCHANGED <<rows, outbox, stop, wake, live, lane, crossing, calls, isoVars, faults, histVars>>

\* Mutant: rest ends the wake whatever is owed.
RestReportedAlone ==
    /\ wake /\ live
    /\ wake' = FALSE
    /\ UNCHANGED <<rows, outbox, stop, live, lane, asked, crossing, calls, isoVars, faults, histVars>>

\* The agent's report of rest ends its wake unless a delivery is owed it.
RestReported ==
    /\ wake /\ live
    /\ wake' = (outbox # {})
    /\ UNCHANGED <<rows, outbox, stop, live, lane, asked, crossing, calls, isoVars, faults, histVars>>

-----------------------------------------------------------------------------
(* The agent's lane. *)

AdmitCall(s) == [op |-> "admit", seq |-> s, generation |-> 0, phase |-> "out", answer |-> "none", heard |-> TRUE]

StartPass ==
    /\ lane.step = "idle" /\ asked
    /\ asked' = FALSE
    /\ lane' = Pass("next", 0, outbox)
    /\ UNCHANGED <<rows, outbox, stop, wake, live, crossing, calls, isoVars, faults, histVars>>

EndPass ==
    /\ lane.step = "next" /\ lane.rest = {}
    /\ lane' = Idle
    /\ UNCHANGED <<rows, outbox, stop, wake, live, asked, crossing, calls, isoVars, faults, histVars>>

\* The rows of the pass go in the order they were committed.
Oldest == Min(lane.rest)

\* Retired: everything owed is cancelled, and the pass goes on over its snapshot.
CrossRetired ==
    /\ lane.step = "next" /\ lane.rest # {}
    /\ ~live
    /\ CancelRows
    /\ lane' = Pass("next", 0, lane.rest \ {Oldest})
    /\ UNCHANGED <<rows, stop, wake, live, asked, crossing, calls, isoVars, faults, answered, takes>>

\* The wake is armed again, and an owed Stop crosses before the delivery does.
Cross ==
    /\ lane.step = "next" /\ lane.rest # {}
    /\ live
    /\ wake' = TRUE
    /\ lane' = Pass(IF StopOwed THEN "stop" ELSE "sent", Oldest, lane.rest \ {Oldest})
    /\ calls' = calls \cup {IF StopOwed THEN StopCall("replay", 0) ELSE AdmitCall(Oldest)}
    /\ UNCHANGED <<rows, outbox, stop, live, asked, crossing, isoVars, faults, histVars>>

\* Mutant: the pass goes on past a crossing that failed.
StopsNever(s) == FALSE /\ Owed(rows[s])

\* A failed crossing ends the pass while its delivery is still owed.
StopsAt(s) == Owed(rows[s])

PassFails ==
    lane' = IF StopsAt(lane.at) THEN Idle ELSE Pass("next", 0, lane.rest)

\* The answer of a Stop's crossing retires the Stop it was sent for.
StopAnswered(c) ==
    /\ c \in calls /\ c.op \in {"stop", "replay"} /\ c.phase = "back"
    /\ stop' = [stop EXCEPT !.retired = IF c.answer = "done" THEN Max({@, c.generation}) ELSE @]
    /\ IF c.op = "replay" /\ c.answer = "done"
       THEN /\ lane' = Pass("sent", lane.at, lane.rest)
            /\ calls' = (calls \ {c}) \cup {AdmitCall(lane.at)}
       ELSE /\ IF c.op = "replay" THEN PassFails ELSE UNCHANGED lane
            /\ calls' = calls \ {c}
    /\ UNCHANGED <<rows, outbox, wake, live, asked, crossing, isoVars, faults, histVars>>

\* The outbox row is deleted by its id.
Paid(s) == outbox' = {r \in outbox : rows[r] # rows[s]}

\* The lane hears the answer: any answer but a failure retires the row.
CrossAnswered(c) ==
    /\ c \in calls /\ c.op = "admit" /\ c.phase = "back"
    /\ calls' = calls \ {c}
    /\ IF c.answer = "failed"
       THEN /\ PassFails
            /\ UNCHANGED <<outbox, answered>>
       ELSE /\ Paid(c.seq)
            /\ lane' = Pass("next", 0, lane.rest)
            /\ answered' = IF c.answer \in {"yielded", "refused", "cancelled"} THEN answered \cup {c.seq} ELSE answered
    /\ UNCHANGED <<rows, stop, wake, live, asked, crossing, isoVars, faults, cancelled, takes>>

-----------------------------------------------------------------------------
(* The isolate. *)

Replied(c, answer) == (calls \ {c}) \cup (IF c.heard THEN {Moved(c, "back", answer)} ELSE {})

Awaiting(c) == (calls \ {c}) \cup {Moved(c, "in", c.answer)}

\* Where a delivery stands against the marks of its producer.
MarkOf(s) ==
    CASE s <= marks.cutoff -> "cancelled"
      [] s > marks.cutoff /\ s <= marks.taken -> "duplicate"
      [] OTHER -> "new"

\* taken_through only grows; what an intent did is kept for the newest alone.
Took(s, applied) == marks' = [taken |-> Max({marks.taken, s}), cutoff |-> marks.cutoff, applied |-> applied]

\* The input is held, its sequence taken once more.
Held(s) ==
    /\ held' = held \cup {rows[s]}
    /\ takes' = [takes EXCEPT ![s] = @ + 1]

Known(i) == i \in held \cup ran

Arrives(c, kinds) == c \in calls /\ c.op = "admit" /\ c.phase = "out" /\ Kind[rows[c.seq]] \in kinds

\* Not new: an intent that is still the newest taken is answered with what the
\* marks kept.
AdmitMarked(c) ==
    /\ Arrives(c, Kinds)
    /\ MarkOf(c.seq) # "new"
    /\ LET kept == MarkOf(c.seq) = "duplicate" /\ marks.taken = c.seq /\ marks.applied # 0
       IN calls' = Replied(c, IF kept THEN "applied" ELSE MarkOf(c.seq))
    /\ UNCHANGED <<wsVars, isoVars, faults, cancelled, answered, takes>>

AdmitKnown(c) ==
    /\ Arrives(c, {"words", "turn", "offer"})
    /\ MarkOf(c.seq) = "new" /\ Known(rows[c.seq])
    /\ calls' = Replied(c, "duplicate")
    /\ answered' = answered \cup {c.seq}
    /\ UNCHANGED <<wsVars, isoVars, faults, cancelled, takes>>

\* A person's words are held at once; the mark moves when the send answers,
\* which may wait for the running step to let go of its calls.
AdmitWords(c) ==
    /\ Arrives(c, {"words"})
    /\ MarkOf(c.seq) = "new" /\ ~Known(rows[c.seq])
    /\ Held(c.seq)
    /\ calls' = Awaiting(c)
    /\ UNCHANGED <<wsVars, marks, ran, faults, cancelled, answered>>

WordsTaken(c) ==
    /\ c \in calls /\ c.op = "admit" /\ c.phase = "in" /\ Kind[rows[c.seq]] = "words"
    /\ Took(c.seq, 0)
    /\ calls' = Replied(c, "taken")
    /\ UNCHANGED <<wsVars, held, ran, faults, histVars>>

AdmitTurn(c) ==
    /\ Arrives(c, {"turn"})
    /\ MarkOf(c.seq) = "new" /\ ~Known(rows[c.seq])
    /\ Held(c.seq)
    /\ Took(c.seq, 0)
    /\ calls' = Replied(c, "taken")
    /\ UNCHANGED <<wsVars, ran, faults, cancelled, answered>>

\* An offer reads whether the operator spoke, a Retry withdraws the answer and
\* reads its message: both await after the marks were read.
AdmitAwaits(c) ==
    /\ Arrives(c, {"offer", "retry"})
    /\ MarkOf(c.seq) = "new"
    /\ Kind[rows[c.seq]] = "offer" => ~Known(rows[c.seq])
    /\ Kind[rows[c.seq]] = "retry" => ~\E d \in calls : d.phase = "in" /\ Kind[rows[d.seq]] = "retry"
    /\ calls' = Awaiting(c)
    /\ UNCHANGED <<wsVars, isoVars, faults, histVars>>

\* A turn in flight, a newer message, or nothing to retry.
RetryRefused(c) ==
    /\ c \in calls /\ c.op = "admit" /\ c.phase \in {"out", "in"} /\ Kind[rows[c.seq]] = "retry"
    /\ c.phase = "out" => MarkOf(c.seq) = "new"
    /\ calls' = Replied(c, "refused")
    /\ UNCHANGED <<wsVars, isoVars, faults, histVars>>

OfferSettles(c) ==
    /\ c \in calls /\ c.op = "admit" /\ c.phase = "in" /\ Kind[rows[c.seq]] = "offer"
    /\ \/ /\ calls' = Replied(c, "yielded")
          /\ UNCHANGED <<marks, held, takes>>
       \/ /\ calls' = Replied(c, "taken")
          /\ Took(c.seq, 0)
          /\ IF Known(rows[c.seq]) THEN UNCHANGED <<held, takes>> ELSE Held(c.seq)
    /\ UNCHANGED <<wsVars, ran, faults, cancelled, answered>>

\* The reopened turn's row and the mark are one commit.
RetrySettles(c) ==
    /\ c \in calls /\ c.op = "admit" /\ c.phase = "in" /\ Kind[rows[c.seq]] = "retry"
    /\ Held(c.seq)
    /\ Took(c.seq, c.seq)
    /\ calls' = Replied(c, "applied")
    /\ UNCHANGED <<wsVars, ran, faults, cancelled, answered>>

\* A held input's turn opens: a Retry's row goes, anything else is on disk.
Runs(i) ==
    /\ i \in held
    /\ held' = held \ {i}
    /\ ran' = IF Kind[i] = "retry" THEN ran ELSE ran \cup {i}
    /\ UNCHANGED <<wsVars, calls, marks, faults, histVars>>

\* The Stop at the isolate: queued programmatic turns are cancelled, a person's
\* words handed back where no turn read them, and the cutoff kept.
StopArrives(c) ==
    /\ c \in calls /\ c.op \in {"stop", "replay"} /\ c.phase = "out"
    /\ marks' = [marks EXCEPT !.cutoff = Max({@, c.seq})]
    /\ \E handed \in SUBSET {i \in held : Kind[i] = "words"} :
           /\ held' = {i \in held : Kind[i] \in {"words", "retry"}} \ handed
           /\ LET back == {s \in 1..Len(rows) : takes[s] > 0 /\ rows[s] \in handed /\ s > marks.taken}
              IN /\ takes' = [s \in 1..MaxSeq |-> IF s \in back THEN 0 ELSE takes[s]]
                 /\ answered' = answered \cup back
    /\ calls' = Replied(c, "done")
    /\ UNCHANGED <<wsVars, ran, faults, cancelled>>

-----------------------------------------------------------------------------
(* Faults. *)

\* The lane, its waiting drains and the answers on their way are memory; the
\* start that follows intends the wake of what it finds owed.
WorkspaceResets ==
    /\ faults < MaxFaults /\ faults' = faults + 1
    /\ lane' = Idle /\ asked' = FALSE /\ crossing' = {}
    /\ \E late \in IF LateCalls THEN SUBSET {c \in calls : c.phase = "out"} ELSE {{}} :
           calls' = {[c EXCEPT !.heard = FALSE] : c \in late \cup {d \in calls : d.phase = "in"}}
    /\ wake' = (wake \/ outbox # {} \/ (live /\ StopOwed))
    /\ UNCHANGED <<rows, outbox, stop, live, isoVars, histVars>>

\* The isolate's own work is restored from what it held.
IsolateDies ==
    /\ faults < MaxFaults /\ faults' = faults + 1
    /\ calls' = {IF c.phase = "in" THEN Moved(c, "back", "failed") ELSE c :
                     c \in {d \in calls : d.phase # "in" \/ d.heard}}
    /\ UNCHANGED <<wsVars, isoVars, histVars>>

\* A call that never ran, or an answer the isolate's death or closing kept.
CallFails(c) ==
    /\ faults < MaxFaults /\ faults' = faults + 1
    /\ c \in calls /\ c.phase \in {"out", "back"} /\ c.answer # "failed"
    /\ calls' = Replied(c, "failed")
    /\ UNCHANGED <<wsVars, isoVars, histVars>>

-----------------------------------------------------------------------------

Lane == StartPass \/ EndPass \/ CrossRetired \/ Cross \/ \E c \in calls : StopAnswered(c) \/ CrossAnswered(c)

Isolate ==
    \E c \in calls : \/ AdmitMarked(c) \/ AdmitKnown(c) \/ AdmitWords(c) \/ WordsTaken(c)
                     \/ AdmitTurn(c) \/ AdmitAwaits(c) \/ RetryRefused(c)
                     \/ OfferSettles(c) \/ RetrySettles(c) \/ StopArrives(c)

Next ==
    \/ \E i \in Ids : Commit(i) \/ Runs(i)
    \/ StopAgent \/ (\E n \in crossing : SendStop(n))
    \/ Retire \/ RetireCancels \/ WakeFires \/ RestReported
    \/ Lane
    \/ Isolate
    \/ WorkspaceResets \/ IsolateDies \/ (\E c \in calls : CallFails(c))

Spec == Init /\ [][Next]_vars

\* The lane, the calls and the handlers of a live object run on, and an armed
\* wake fires; nobody is obliged to commit, stop or retire.
Fairness ==
    /\ WF_vars(Lane) /\ WF_vars(Isolate)
    /\ WF_vars(WakeFires) /\ WF_vars(RetireCancels)

FairSpec == Spec /\ Fairness

-----------------------------------------------------------------------------
(* Properties. *)

\* Sequences within what was committed, and a Stop retired only once it was asked
\* (initAgentDeliveriesTable, AgentStops.retire).
TypeOK ==
    /\ rows \in Seq(Ids) /\ Len(rows) <= MaxSeq
    /\ outbox \subseteq 1..Len(rows)
    /\ stop \in [generation : 0..MaxStops, retired : 0..MaxStops, cutoff : 0..MaxSeq]
    /\ stop.retired <= stop.generation
    /\ wake \in BOOLEAN /\ live \in BOOLEAN /\ asked \in BOOLEAN
    /\ lane \in [step : {"idle", "next", "stop", "sent"}, at : 0..Len(rows), rest : SUBSET (1..Len(rows))]
    /\ crossing \subseteq 0..MaxSeq
    /\ calls \subseteq Call
    /\ marks \in [taken : 0..MaxSeq, cutoff : 0..MaxSeq, applied : 0..MaxSeq]
    /\ held \subseteq Ids /\ ran \subseteq Ids
    /\ faults \in 0..MaxFaults

\* Where a delivery stands, as HandOver names it; "lost" is no fate of its.
Fate(s) ==
    IF s > Len(rows) THEN "uncommitted"
    ELSE IF takes[s] > 0 THEN "taken"
    ELSE IF \E c \in calls : c.op = "admit" /\ c.seq = s /\ c.phase = "in" /\ Kind[rows[s]] # "words" THEN "admitting"
    ELSE IF s \in outbox THEN "owed"
    ELSE IF s \in cancelled THEN IF s <= marks.cutoff THEN "cancelled" ELSE "stopping"
    ELSE IF s \in answered THEN "answered"
    ELSE "lost"

Promise == INSTANCE HandOver WITH fate <- [s \in 1..MaxSeq |-> Fate(s)], takes <- takes

\* The hand-over keeps the promise of HandOver: each delivery is taken at most
\* once, in commit order, and never after it was answered or cancelled
\* (DeliveryCoordinator.drain and cross, PendingSendStore.markOf and took).
KeepsPromise == Promise!Spec

\* A Stop counted as answered has reached the isolate: its cutoff is in the
\* isolate's marks, however Stops joined and whoever reset (AgentStops.retire,
\* stopCrossed).
RetiredStopIsCut == ~StopOwed => marks.cutoff >= stop.cutoff

\* Whatever a live agent is owed has its wake or a drain that will find it
\* (DeliveryCoordinator.committed, reconcile; agentOwes keeps the wake of an
\* agent at rest while a delivery is owed it).
OwedHasWake == live /\ outbox # {} => wake

\* A delivery does not stay owed for ever: it is taken, answered or cancelled
\* (the wake, wakeAgent's drain, and the retirement's cancel).
OwedResolves == \A s \in 1..MaxSeq : s \in outbox ~> s \notin outbox

=============================================================================
