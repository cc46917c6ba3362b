--------------------------- MODULE HandOverProofs ---------------------------
(***************************************************************************)
(* Deliveries implements HandOver, for any number of ids, rows, Stops and  *)
(* faults, where nothing is offered, no call reaches the isolate after the *)
(* workspace that sent it was reset, and no id is asked again while the    *)
(* lane crosses it.                                                        *)
(***************************************************************************)
EXTENDS DeliveriesProofs

\* Without offers, calls that begin after their sender's reset, and ids asked again on
\* their way: with any of the three the promise does not hold.
Plain == (\A i \in Ids : Kind[i] # "offer") /\ LateCalls = FALSE /\ RepeatCrossing = FALSE

\* The sequences of the lane's pass, and with the outbox all that is yet to cross.
Passing == (lane.rest \cup {lane.at}) \ {0}

Ahead == outbox \cup Passing

Behind(n) == \A x \in Ahead : n <= x

\* The pass goes over rows that are owed or were cancelled since, in their order, none
\* owed left out before one it has; no other row owed has the id of one of them.
PassKept ==
    /\ Passing \subseteq outbox \cup cancelled
    /\ \A q \in lane.rest : lane.at < q
    /\ \A x \in outbox, q \in Passing : x < q => x \in Passing
    /\ lane.step \in {"idle", "next"} => lane.at = 0
    /\ lane.step = "idle" => lane.rest = {}
    /\ \A x \in outbox, y \in Ahead : rows[x] = rows[y] => x = y

\* A Stop's cutoff is behind whatever is owed since.
CutsKept ==
    /\ \A x \in outbox : stop.cutoff < x
    /\ marks.cutoff <= stop.cutoff /\ stop.cutoff <= Len(rows)
    /\ \A n \in crossing : n <= stop.cutoff

\* A delivery was taken once, behind all that is yet to cross, and the marks or the
\* store know it; one that is not owed was taken, answered or cancelled.
Taken(s) == takes[s] = 1 /\ s <= Len(rows) /\ Behind(s) /\ (s <= marks.taken \/ (Kind[rows[s]] = "words" /\ Known(rows[s])))

TakesKept ==
    /\ cancelled \subseteq 1..Len(rows) /\ outbox \cap cancelled = {}
    /\ \A s \in 1..MaxSeq : takes[s] > 0 => Taken(s)
    /\ \A s \in 1..Len(rows) : takes[s] > 0 \/ s \in outbox \/ s \in cancelled \/ s \in answered
    /\ marks.taken <= Len(rows) /\ Behind(marks.taken)
    /\ marks.taken # 0 => takes[marks.taken] > 0 \/ marks.taken \in answered

\* A Retry whose handler awaits.
Retrying(c) == c.op = "admit" /\ c.phase = "in" /\ Kind[rows[c.seq]] = "retry"

OneRetry == \A c, d \in calls : Retrying(c) /\ Retrying(d) => c = d

\* The answers that say the agent has the delivery.
Kept == {"taken", "applied", "duplicate"}

\* A delivery on its way is the lane's, or what a reset left at its handler; words at
\* their handler are held, or were handed back; a Retry there is not taken yet; and one
\* answered as taken was taken, handed back or cancelled.
AdmitFits(c) ==
    /\ c.heard => c.seq = lane.at
    /\ Behind(c.seq)
    /\ c.phase = "in" => \/ Kind[rows[c.seq]] = "words" /\ (takes[c.seq] > 0 \/ c.seq \in answered)
                         \/ Kind[rows[c.seq]] = "retry" /\ takes[c.seq] = 0
    /\ c.phase = "back" =>
          /\ c.answer \in Answers \ {"done"}
          /\ c.answer \in Kept => takes[c.seq] > 0 \/ c.seq \in answered \/ c.seq \in cancelled

CallFits(c) ==
    /\ c.phase # "in" => c.heard
    /\ c.op # "admit" => c.phase # "in" /\ c.seq <= stop.cutoff
    /\ c.op = "admit" => AdmitFits(c)

PInv == PassKept /\ CutsKept /\ TakesKept /\ OneRetry /\ \A c \in calls : CallFits(c)

\* What Fate reads of the calls.
Admitting(s) == \E c \in calls : c.op = "admit" /\ c.seq = s /\ c.phase = "in" /\ Kind[rows[s]] # "words"

-----------------------------------------------------------------------------
(* The refinement mapping. *)

LEMMA FateStays ==
    ASSUME NEW s, (s > Len(rows))' <=> s > Len(rows), (takes[s] > 0)' <=> takes[s] > 0, Admitting(s)' <=> Admitting(s),
           s \in outbox' <=> s \in outbox, s \in cancelled' <=> s \in cancelled, s \in answered' <=> s \in answered,
           (s <= marks.cutoff)' <=> s <= marks.cutoff
    PROVE  Fate(s)' = Fate(s)
BY DEF Fate, Admitting

LEMMA Stutters ==
    ASSUME \A s \in 1..MaxSeq : Fate(s)' = Fate(s), takes' = takes
    PROVE  UNCHANGED Promise!vars
BY DEF Promise!vars

LEMMA OneFate ==
    ASSUME NEW s \in 1..MaxSeq, NEW f, Fate(s)' = f, \A x \in 1..MaxSeq : x # s => Fate(x)' = Fate(x)
    PROVE  [x \in 1..MaxSeq |-> Fate(x)]' = [[x \in 1..MaxSeq |-> Fate(x)] EXCEPT ![s] = f]
OBVIOUS

LEMMA Takes ==
    ASSUME NEW s \in 1..MaxSeq, Fate(s) \in {"owed", "stopping", "admitting"}, Fate(s) # "admitting" => Promise!InOrder(s),
           Fate(s)' = "taken", takes' = [takes EXCEPT ![s] = 1], \A x \in 1..MaxSeq : x # s => Fate(x)' = Fate(x)
    PROVE  Promise!Next
<1>1. Promise!Take(s)
    BY OneFate DEF Promise!Take
<1>. QED BY <1>1 DEF Promise!Next, Promise!Seqs

-----------------------------------------------------------------------------
(* What the parts of the invariant rest on. *)

LEMMA Ranges ==
    ASSUME IInv
    PROVE  /\ Len(rows) \in Nat /\ MaxSeq \in Nat /\ Len(rows) <= MaxSeq
           /\ outbox \subseteq 1..Len(rows) /\ Passing \subseteq 1..Len(rows) /\ Ahead \subseteq 1..Len(rows)
           /\ lane.at \in 0..Len(rows) /\ lane.rest \subseteq 1..Len(rows)
           /\ marks.taken \in Nat /\ marks.cutoff \in Nat /\ stop.cutoff \in Nat
           /\ \A s \in 1..Len(rows) : s \in 1..MaxSeq /\ rows[s] \in Ids
           /\ takes \in [1..MaxSeq -> Nat]
<1>1. Len(rows) \in Nat /\ MaxSeq \in Nat /\ Len(rows) <= MaxSeq /\ outbox \subseteq 1..Len(rows)
    BY DeliveriesAssumption DEF IInv, Typed, TypeOK
<1>2. lane.at \in 0..Len(rows) /\ lane.rest \subseteq 1..Len(rows)
    BY DEF IInv, Typed, TypeOK
<1>3. Passing \subseteq 1..Len(rows)
  <2>1. \A n \in 0..Len(rows) : n # 0 => n \in 1..Len(rows)
      BY <1>1
  <2>. QED BY <1>2, <2>1 DEF Passing
<1>4. Ahead \subseteq 1..Len(rows)
    BY <1>1, <1>3 DEF Ahead
<1>5. marks.taken \in Nat /\ marks.cutoff \in Nat /\ stop.cutoff \in Nat
    BY <1>1 DEF IInv, Typed, TypeOK
<1>6. \A s \in 1..Len(rows) : s \in 1..MaxSeq /\ rows[s] \in Ids
    BY <1>1 DEF IInv, Typed, TypeOK
<1>7. takes \in [1..MaxSeq -> Nat]
    BY DEF IInv, Typed
<1>. QED BY <1>1, <1>2, <1>3, <1>4, <1>5, <1>6, <1>7

LEMMA CallRanges ==
    ASSUME IInv, NEW c \in calls
    PROVE  /\ c \in Call /\ c.seq \in Nat /\ c.phase \in {"out", "in", "back"} /\ c.heard \in BOOLEAN
           /\ c.op = "admit" => c.seq \in 1..Len(rows) /\ c.seq \in 1..MaxSeq
<1>1. c \in Call /\ MaxSeq \in Nat
    BY DeliveriesAssumption DEF IInv, Typed, TypeOK
<1>2. c.seq \in Nat /\ c.phase \in {"out", "in", "back"} /\ c.heard \in BOOLEAN
    BY <1>1 DEF Call
<1>3. c.op = "admit" => c.seq \in 1..Len(rows)
    BY DEF IInv, Sent
<1>4. c.op = "admit" => c.seq \in 1..MaxSeq
    BY <1>3, Ranges
<1>. QED BY <1>1, <1>2, <1>3, <1>4

\* A delivery not yet at its handler is the one the lane is at.
LEMMA AtLane ==
    ASSUME IInv, PInv, NEW c \in calls, c.op = "admit", c.heard
    PROVE  /\ c.seq = lane.at /\ c.seq # 0 /\ c.seq \in Ahead /\ (c.seq \in outbox \/ c.seq \in cancelled)
           /\ lane.step = "sent" /\ \A d \in calls : OfLane(d) => d = c
<1>1. c.seq = lane.at
    BY DEF PInv, CallFits, AdmitFits
<1>2. lane.step = "sent"
    BY DEF IInv, Sent, OfLane
<1>3. c.seq # 0
    BY <1>1, <1>2 DEF IInv, Crossing
<1>4. c.seq \in Passing /\ c.seq \in Ahead
    BY <1>1, <1>3 DEF Passing, Ahead
<1>5. c.seq \in outbox \/ c.seq \in cancelled
    BY <1>4 DEF PInv, PassKept
<1>6. \A d \in calls : OfLane(d) => d = c
    BY DEF IInv, OneLaneCall, OfLane
<1>. QED BY <1>1, <1>2, <1>3, <1>4, <1>5, <1>6

LEMMA CallStaysFit ==
    ASSUME IInv, PInv, NEW c \in calls, stop.cutoff <= stop'.cutoff, stop'.cutoff \in Nat,
           c.op = "admit" => rows'[c.seq] = rows[c.seq],
           c.op = "admit" /\ c.heard => lane'.at = lane.at,
           \A x \in Ahead' : x \in Ahead \/ (x \in Nat /\ x > Len(rows)),
           answered \subseteq answered', cancelled \subseteq cancelled',
           c.op = "admit" /\ takes[c.seq] > 0 => takes'[c.seq] > 0 \/ c.seq \in answered',
           Retrying(c) => takes'[c.seq] = 0
    PROVE  CallFits(c)'
<1>1. CallFits(c)
    BY DEF PInv
<1>2. c.seq \in Nat /\ stop.cutoff \in Nat /\ Len(rows) \in Nat
    BY CallRanges, Ranges
<1>3. ASSUME c.op # "admit" PROVE CallFits(c)'
    BY <1>1, <1>2, <1>3 DEF CallFits
<1>4. ASSUME c.op = "admit" PROVE CallFits(c)'
  <2>1. AdmitFits(c)
      BY <1>1, <1>4 DEF CallFits
  <2>2. c.seq <= Len(rows)
      BY <1>2, <1>4, CallRanges
  <2>3. Behind(c.seq)'
    <3>1. SUFFICES ASSUME NEW x \in Ahead' PROVE c.seq <= x
        BY DEF Behind
    <3>2. x \in Ahead => c.seq <= x
        BY <2>1 DEF AdmitFits, Behind
    <3>3. x \in Nat /\ x > Len(rows) => c.seq <= x
        BY <1>2, <2>2
    <3>. QED BY <3>1, <3>2, <3>3
  <2>4. c.heard => c.seq = lane'.at
      BY <1>4, <2>1 DEF AdmitFits
  <2>5. c.phase = "in" => \/ Kind[rows'[c.seq]] = "words" /\ (takes'[c.seq] > 0 \/ c.seq \in answered')
                          \/ Kind[rows'[c.seq]] = "retry" /\ takes'[c.seq] = 0
      BY <1>4, <2>1 DEF AdmitFits, Retrying
  <2>6. c.phase = "back" => /\ c.answer \in Answers \ {"done"}
                            /\ c.answer \in Kept => takes'[c.seq] > 0 \/ c.seq \in answered' \/ c.seq \in cancelled'
      BY <1>4, <2>1 DEF AdmitFits
  <2>7. AdmitFits(c)'
      BY <2>3, <2>4, <2>5, <2>6 DEF AdmitFits
  <2>. QED BY <1>1, <1>4, <2>7 DEF CallFits
<1>. QED BY <1>3, <1>4

\* Nothing taken, marked or owed changes; what is known of words stays known.
LEMMA TakesStay ==
    ASSUME IInv, PInv, UNCHANGED <<rows, outbox, marks, cancelled, takes>>, answered \subseteq answered', Ahead' \subseteq Ahead,
           \A i \in Ids : Kind[i] = "words" /\ Known(i) => Known(i)'
    PROVE  TakesKept'
<1>1. ASSUME NEW n, Behind(n) PROVE Behind(n)'
    BY <1>1 DEF Behind
<1>2. ASSUME NEW s \in 1..MaxSeq, Taken(s) PROVE Taken(s)'
  <2>1. s \in 1..Len(rows)
      BY <1>2, Ranges DEF Taken
  <2>2. rows[s] \in Ids
      BY <2>1, Ranges
  <2>3. Behind(s)'
      BY <1>1, <1>2 DEF Taken
  <2>. QED BY <1>2, <2>2, <2>3 DEF Taken
<1>3. TakesKept
    BY DEF PInv
<1>4. Behind(marks.taken)'
    BY <1>3 DEF TakesKept, Behind
<1>5. \A s \in 1..MaxSeq : takes'[s] > 0 => Taken(s)'
    BY <1>2, <1>3 DEF TakesKept
<1>. QED BY <1>3, <1>4, <1>5 DEF TakesKept

\* The fates stay where the calls admitting do, and only what is owed or cancelled is answered.
LEMMA QuietFates ==
    ASSUME UNCHANGED <<rows, outbox, cancelled, takes>>, marks'.cutoff = marks.cutoff, answered \subseteq answered',
           \A s \in answered' : s \in answered \/ s \in outbox \/ s \in cancelled,
           \A s \in 1..MaxSeq : Admitting(s)' <=> Admitting(s)
    PROVE  UNCHANGED Promise!vars
<1>1. ASSUME NEW s \in 1..MaxSeq PROVE Fate(s)' = Fate(s)
  <2>1. Admitting(s)' <=> Admitting(s)
      OBVIOUS
  <2>2. CASE s \in answered' <=> s \in answered
      BY <2>1, <2>2, FateStays
  <2>3. CASE s \in outbox \/ s \in cancelled
      BY <2>1, <2>3 DEF Fate, Admitting
  <2>. QED BY <2>2, <2>3
<1>. QED BY <1>1, Stutters

LEMMA FateTyped ==
    ASSUME IInv, PInv, NEW s \in 1..MaxSeq
    PROVE  Fate(s) \in Promise!Fates
<1>1. Len(rows) \in Nat /\ s \in Nat
    BY Ranges
<1>2. s \in 1..Len(rows) \/ s > Len(rows)
    BY <1>1
<1>3. s \in 1..Len(rows) => takes[s] > 0 \/ s \in outbox \/ s \in cancelled \/ s \in answered
    BY DEF PInv, TakesKept
<1>. QED BY <1>2, <1>3 DEF Fate, Promise!Fates

-----------------------------------------------------------------------------
(* Steps that no delivery's fate shows. *)

LEMMA PassStays ==
    ASSUME PassKept, UNCHANGED <<rows, outbox, lane>>, cancelled \subseteq cancelled'
    PROVE  PassKept' /\ Passing' = Passing /\ Ahead' = Ahead
<1>1. Passing' = Passing /\ Ahead' = Ahead
    BY DEF Passing, Ahead
<1>. QED BY <1>1 DEF PassKept

LEMMA NothingMoves ==
    ASSUME IInv, PInv, UNCHANGED <<rows, outbox, stop, lane, crossing, calls, isoVars, histVars>>
    PROVE  PInv' /\ UNCHANGED Promise!vars
<1>1. UNCHANGED <<rows, outbox, stop, lane, crossing, calls, marks, held, ran, cancelled, answered, takes>>
    BY DEF isoVars, histVars
<1>2. PassKept' /\ Ahead' = Ahead
    BY <1>1, PassStays DEF PInv
<1>3. CutsKept'
    BY <1>1 DEF PInv, CutsKept
<1>4. TakesKept'
    BY <1>1, <1>2, TakesStay DEF Known
<1>5. ASSUME NEW c \in calls PROVE CallFits(c)'
  <2>1. Retrying(c) => takes[c.seq] = 0
      BY DEF PInv, CallFits, AdmitFits, Retrying
  <2>. QED BY <1>1, <1>2, <2>1, CallStaysFit, Ranges
<1>6. OneRetry'
    BY <1>1 DEF PInv, OneRetry, Retrying
<1>7. \A s \in 1..MaxSeq : Admitting(s)' <=> Admitting(s)
    BY <1>1 DEF Admitting
<1>8. PInv'
    BY <1>1, <1>2, <1>3, <1>4, <1>5, <1>6 DEF PInv
<1>9. UNCHANGED Promise!vars
    BY <1>1, <1>7, QuietFates
<1>. QED BY <1>8, <1>9

\* The lane goes over what it had, or less; calls that are not a Retry's handler come and go.
LEMMA LaneMovesQuietly ==
    ASSUME IInv, PInv, UNCHANGED <<rows, outbox, marks, held, ran, cancelled, answered, takes>>,
           PassKept', Ahead' \subseteq Ahead, crossing' \subseteq crossing, stop'.cutoff = stop.cutoff,
           NEW gone \in SUBSET calls, NEW sent,
           calls' = (calls \ gone) \cup sent, \A c \in gone : c.phase # "in", \A c \in sent : c.phase # "in" /\ CallFits(c)',
           \A c \in calls \ gone : c.op = "admit" /\ c.heard => lane'.at = lane.at
    PROVE  PInv' /\ UNCHANGED Promise!vars
<1>1. CutsKept'
    BY DEF PInv, CutsKept
<1>2. TakesKept'
    BY TakesStay DEF Known
<1>3. ASSUME NEW c \in calls \ gone PROVE CallFits(c)'
  <2>1. Retrying(c) => takes[c.seq] = 0
      BY DEF PInv, CallFits, AdmitFits, Retrying
  <2>2. stop.cutoff \in Nat
      BY Ranges
  <2>. QED BY <2>1, <2>2, CallStaysFit
<1>4. \A c \in calls' : CallFits(c)'
    BY <1>3
<1>5. OneRetry'
    BY DEF PInv, OneRetry, Retrying
<1>6. ASSUME NEW s \in 1..MaxSeq PROVE Admitting(s)' <=> Admitting(s)
    BY DEF Admitting
<1>7. PInv'
    BY <1>1, <1>2, <1>4, <1>5 DEF PInv
<1>8. UNCHANGED Promise!vars
    BY <1>6, QuietFates
<1>. QED BY <1>7, <1>8

\* A Stop on its way cuts off nothing committed since.
LEMMA StopCallFits ==
    ASSUME IInv, PInv, NEW op \in {"stop", "replay"}, NEW n \in 0..MaxSeq, n <= stop.cutoff, stop'.cutoff = stop.cutoff,
           NEW m, m = StopCall(op, n)
    PROVE  m.phase # "in" /\ CallFits(m)'
<1>1. stop.cutoff \in Nat /\ n \in Nat
    BY Ranges
<1>2. Max({n, stop.cutoff}) \in {n, stop.cutoff}
    BY <1>1, MaxOfTwo
<1>3. m.seq <= stop.cutoff
    BY <1>1, <1>2 DEF StopCall
<1>4. m.op = op /\ m.phase = "out" /\ m.heard
    BY DEF StopCall
<1>. QED BY <1>3, <1>4 DEF CallFits

LEMMA SendStopKeeps ==
    ASSUME IInv, PInv, NEW n \in crossing, SendStop(n)
    PROVE  PInv' /\ UNCHANGED Promise!vars
<1>. DEFINE m == StopCall("stop", n)
<1>1. /\ crossing' \subseteq crossing /\ calls' = (calls \ {}) \cup {m}
      /\ UNCHANGED <<rows, outbox, stop, lane, marks, held, ran, cancelled, answered, takes>>
    BY DEF SendStop, isoVars, histVars
<1>2. n \in 0..MaxSeq /\ n <= stop.cutoff
    BY DEF IInv, Typed, TypeOK, PInv, CutsKept
<1>3. PassKept' /\ Ahead' = Ahead
    BY <1>1, PassStays DEF PInv
<1>4. ASSUME NEW c \in {m} PROVE c.phase # "in" /\ CallFits(c)'
    BY <1>1, <1>2, StopCallFits
<1>5. {} \in SUBSET calls
    OBVIOUS
<1>6. PICK sent : sent = {m}
    OBVIOUS
<1>7. calls' = (calls \ {}) \cup sent /\ \A c \in sent : c.phase # "in" /\ CallFits(c)'
    BY <1>1, <1>4, <1>6
<1>. QED BY <1>1, <1>3, <1>5, <1>7, LaneMovesQuietly

LEMMA StartPassKeeps ==
    ASSUME IInv, PInv, StartPass
    PROVE  PInv' /\ UNCHANGED Promise!vars
<1>1. /\ lane.step = "idle" /\ lane'.step = "next" /\ lane'.at = 0 /\ lane'.rest = outbox
      /\ UNCHANGED <<rows, outbox, stop, crossing, calls, marks, held, ran, cancelled, answered, takes>>
    BY DEF StartPass, Pass, isoVars, histVars
<1>2. lane.at = 0 /\ lane.rest = {}
    BY <1>1 DEF PInv, PassKept
<1>3. outbox \subseteq 1..Len(rows) /\ Len(rows) \in Nat
    BY Ranges
<1>4. Passing' = outbox /\ Ahead' = outbox /\ Ahead = outbox
    BY <1>1, <1>2, <1>3 DEF Passing, Ahead
<1>5. \A q \in outbox : 0 < q
    BY <1>3
<1>6. \A x \in outbox, y \in outbox : rows[x] = rows[y] => x = y
    BY <1>4 DEF PInv, PassKept
<1>7. PassKept'
    BY <1>1, <1>4, <1>5, <1>6 DEF PassKept
<1>8. {} \in SUBSET calls /\ calls' = (calls \ {}) \cup {}
    BY <1>1
<1>. QED BY <1>1, <1>2, <1>4, <1>7, <1>8, LaneMovesQuietly

LEMMA EndPassKeeps ==
    ASSUME IInv, PInv, EndPass
    PROVE  PInv' /\ UNCHANGED Promise!vars
<1>1. /\ lane.step = "next" /\ lane'.step = "idle" /\ lane'.at = 0 /\ lane'.rest = {} /\ lane.rest = {}
      /\ UNCHANGED <<rows, outbox, stop, crossing, calls, marks, held, ran, cancelled, answered, takes>>
    BY DEF EndPass, Idle, Pass, isoVars, histVars
<1>2. lane.at = 0
    BY <1>1 DEF PInv, PassKept
<1>3. Passing' = {} /\ Passing = {} /\ Ahead' = Ahead
    BY <1>1, <1>2 DEF Passing, Ahead
<1>4. PassKept'
    BY <1>1, <1>3 DEF PInv, PassKept
<1>5. {} \in SUBSET calls /\ calls' = (calls \ {}) \cup {}
    BY <1>1
<1>. QED BY <1>1, <1>2, <1>3, <1>4, <1>5, LaneMovesQuietly

\* The lane sends what nothing owed or still in its pass comes before.
LEMMA AdmitCallFits ==
    ASSUME IInv', PassKept', lane'.at # 0, NEW m, m = AdmitCall(lane'.at)
    PROVE  m.phase # "in" /\ CallFits(m)'
<1>1. m.op = "admit" /\ m.seq = lane'.at /\ m.phase = "out" /\ m.heard
    BY DEF AdmitCall
<1>2. lane'.at \in Nat /\ outbox' \subseteq Nat /\ lane'.rest \subseteq Nat
    BY DEF IInv, Typed, TypeOK
<1>3. lane'.at \in Passing'
    BY DEF Passing
<1>4. ASSUME NEW x \in Ahead' PROVE lane'.at <= x
  <2>1. x \in Nat
      BY <1>2 DEF Ahead, Passing
  <2>2. \A q \in lane'.rest : lane'.at < q
      BY DEF PassKept
  <2>3. x \in Passing' => x = lane'.at \/ x \in lane'.rest
      BY DEF Passing
  <2>4. x \in Passing' => lane'.at <= x
      BY <1>2, <2>1, <2>2, <2>3
  <2>5. x \in outbox' /\ x < lane'.at => x \in Passing'
      BY <1>3 DEF PassKept
  <2>6. x \in outbox' \/ x \in Passing'
      BY DEF Ahead
  <2>. QED BY <1>2, <2>1, <2>4, <2>5, <2>6
<1>5. CallFits(m)'
    BY <1>1, <1>4 DEF CallFits, AdmitFits, Behind
<1>. QED BY <1>1, <1>5

LEMMA CrossKeeps ==
    ASSUME IInv, PInv, IInv', Cross
    PROVE  PInv' /\ UNCHANGED Promise!vars
<1>1. /\ lane.step = "next" /\ lane.rest # {} /\ lane'.step \in {"stop", "sent"} /\ lane'.at = Oldest
      /\ lane'.rest = lane.rest \ {Oldest}
      /\ UNCHANGED <<rows, outbox, stop, crossing, marks, held, ran, cancelled, answered, takes>>
    BY DEF Cross, Pass, isoVars, histVars
<1>2. lane.at = 0
    BY <1>1 DEF PInv, PassKept
<1>3. lane.rest \subseteq Nat /\ 0 \notin lane.rest
    BY Ranges
<1>4. Oldest \in lane.rest /\ \A q \in lane.rest : Oldest <= q
    BY <1>1, <1>3, MinOfNaturals DEF Oldest
<1>5. Passing' = Passing /\ Ahead' = Ahead
    BY <1>1, <1>2, <1>3, <1>4 DEF Passing, Ahead
<1>6. \A q \in lane'.rest : lane'.at < q
  <2>1. SUFFICES ASSUME NEW q \in lane'.rest PROVE Oldest < q
      BY <1>1
  <2>2. q \in lane.rest /\ q # Oldest
      BY <1>1
  <2>3. q \in Nat /\ Oldest \in Nat /\ Oldest <= q
      BY <1>3, <1>4, <2>2
  <2>. QED BY <2>2, <2>3
<1>7. PassKept'
    BY <1>1, <1>5, <1>6 DEF PInv, PassKept
<1>8. lane'.at # 0
    BY <1>1, <1>3, <1>4
<1>. DEFINE m == IF StopOwed THEN StopCall("replay", 0) ELSE AdmitCall(lane'.at)
<1>9. calls' = (calls \ {}) \cup {m}
    BY <1>1 DEF Cross
<1>10. ASSUME NEW c \in {m} PROVE c.phase # "in" /\ CallFits(c)'
  <2>1. 0 \in 0..MaxSeq /\ 0 <= stop.cutoff
      BY Ranges
  <2>. QED BY <1>1, <1>7, <1>8, <2>1, StopCallFits, AdmitCallFits
<1>11. \A c \in calls : ~(c.op = "admit" /\ c.heard)
    BY <1>1 DEF IInv, Sent, OfLane
<1>12. {} \in SUBSET calls
    OBVIOUS
<1>13. PICK sent : sent = {m}
    OBVIOUS
<1>14. calls' = (calls \ {}) \cup sent /\ \A c \in sent : c.phase # "in" /\ CallFits(c)'
    BY <1>9, <1>10, <1>13
<1>. QED BY <1>1, <1>5, <1>7, <1>11, <1>12, <1>14, LaneMovesQuietly

\* A pass that fails ends, or goes on past a row that is owed no more.
LEMMA PassFailsKeeps ==
    ASSUME IInv, PInv, PassFails, lane.at # 0, UNCHANGED <<rows, outbox, cancelled>>
    PROVE  PassKept' /\ Ahead' \subseteq Ahead
<1>1. CASE StopsAt(lane.at)
  <2>1. lane'.step = "idle" /\ lane'.at = 0 /\ lane'.rest = {}
      BY <1>1 DEF PassFails, Idle, Pass
  <2>2. Passing' = {} /\ Ahead' \subseteq Ahead /\ Ahead' = outbox
      BY <2>1 DEF Passing, Ahead
  <2>3. \A x \in outbox, y \in outbox : rows[x] = rows[y] => x = y
      BY DEF PInv, PassKept, Ahead
  <2>4. PassKept'
      BY <2>1, <2>2, <2>3 DEF PassKept
  <2>. QED BY <2>2, <2>4
<1>2. CASE ~StopsAt(lane.at)
  <2>1. lane'.step = "next" /\ lane'.at = 0 /\ lane'.rest = lane.rest
      BY <1>2 DEF PassFails, Pass
  <2>2. lane.rest \subseteq 1..Len(rows) /\ Len(rows) \in Nat
      BY Ranges
  <2>3. Passing' = lane.rest /\ Passing = lane.rest \cup {lane.at} /\ Ahead' \subseteq Ahead
      BY <2>1, <2>2 DEF Passing, Ahead
  <2>4. lane.at \notin outbox
      BY <1>2 DEF StopsAt, Owed
  <2>5. \A q \in lane.rest : 0 < q
      BY <2>2
  <2>6. \A x \in outbox, q \in lane.rest : x < q => x \in lane.rest
      BY <2>3, <2>4 DEF PInv, PassKept
  <2>7. \A x \in outbox, y \in Ahead' : rows[x] = rows[y] => x = y
      BY <2>3 DEF PInv, PassKept
  <2>8. PassKept'
      BY <2>1, <2>3, <2>5, <2>6, <2>7 DEF PInv, PassKept
  <2>. QED BY <2>3, <2>8
<1>. QED BY <1>1, <1>2

\* The lane goes on to the delivery the Stop was sent before.
LEMMA LaneStays ==
    ASSUME IInv, PInv, lane.at # 0, lane'.step = "sent", lane'.at = lane.at, lane'.rest = lane.rest,
           UNCHANGED <<rows, outbox, cancelled>>
    PROVE  PassKept' /\ Ahead' = Ahead
<1>1. Passing' = Passing /\ Ahead' = Ahead
    BY DEF Passing, Ahead
<1>2. PassKept'
    BY <1>1 DEF PInv, PassKept
<1>. QED BY <1>1, <1>2

LEMMA StopAnsweredKeeps ==
    ASSUME IInv, PInv, IInv', NEW c \in calls, StopAnswered(c)
    PROVE  PInv' /\ UNCHANGED Promise!vars
<1>1. /\ c.op \in {"stop", "replay"} /\ c.phase = "back" /\ stop'.cutoff = stop.cutoff
      /\ UNCHANGED <<rows, outbox, crossing, marks, held, ran, cancelled, answered, takes>>
    BY DEF StopAnswered, isoVars, histVars, IInv, Typed, TypeOK
<1>2. {c} \in SUBSET calls /\ \A d \in {c} : d.phase # "in"
    BY <1>1
<1>3. ASSUME c.op = "replay" PROVE lane.at # 0 /\ \A d \in calls \ {c} : ~(d.op = "admit" /\ d.heard)
    BY <1>1, <1>3 DEF IInv, Sent, OfLane, OneLaneCall, Crossing
<1>4. CASE c.op = "replay" /\ c.answer = "done"
  <2>. DEFINE m == AdmitCall(lane'.at)
  <2>1. /\ lane'.step = "sent" /\ lane'.at = lane.at /\ lane'.rest = lane.rest
        /\ calls' = (calls \ {c}) \cup {m}
    <3>1. lane' = Pass("sent", lane.at, lane.rest) /\ calls' = (calls \ {c}) \cup {AdmitCall(lane.at)}
        BY <1>4 DEF StopAnswered
    <3>2. lane'.step = "sent" /\ lane'.at = lane.at /\ lane'.rest = lane.rest
        BY <3>1 DEF Pass
    <3>. QED BY <3>1, <3>2
  <2>2. PassKept' /\ Ahead' = Ahead /\ lane'.at # 0
      BY <1>1, <1>3, <1>4, <2>1, LaneStays
  <2>3. ASSUME NEW d \in {m} PROVE d.phase # "in" /\ CallFits(d)'
      BY <2>2, AdmitCallFits
  <2>4. PICK sent : sent = {m}
      OBVIOUS
  <2>5. calls' = (calls \ {c}) \cup sent /\ \A d \in sent : d.phase # "in" /\ CallFits(d)'
      BY <2>1, <2>3, <2>4
  <2>. QED BY <1>1, <1>2, <1>3, <1>4, <2>2, <2>5, LaneMovesQuietly
<1>5. CASE ~(c.op = "replay" /\ c.answer = "done")
  <2>1. calls' = (calls \ {c}) \cup {} /\ IF c.op = "replay" THEN PassFails ELSE UNCHANGED lane
      BY <1>5 DEF StopAnswered
  <2>2. PassKept' /\ Ahead' \subseteq Ahead
      BY <1>1, <1>3, <2>1, PassFailsKeeps, PassStays DEF PInv
  <2>3. \A d \in calls \ {c} : d.op = "admit" /\ d.heard => lane'.at = lane.at
      BY <1>3, <2>1
  <2>4. PICK gone, sent : gone = {c} /\ sent = {}
      OBVIOUS
  <2>5. /\ gone \in SUBSET calls /\ calls' = (calls \ gone) \cup sent /\ \A d \in gone : d.phase # "in"
        /\ \A d \in sent : d.phase # "in" /\ CallFits(d)'
        /\ \A d \in calls \ gone : d.op = "admit" /\ d.heard => lane'.at = lane.at
      BY <1>2, <2>1, <2>3, <2>4
  <2>. QED BY <1>1, <2>2, <2>5, LaneMovesQuietly
<1>. QED BY <1>4, <1>5

-----------------------------------------------------------------------------
(* The answer of a delivery. *)

LEMMA FailedCrossingKeeps ==
    ASSUME IInv, PInv, NEW c \in calls, CrossAnswered(c), c.answer = "failed"
    PROVE  PInv' /\ UNCHANGED Promise!vars
<1>1. /\ c.op = "admit" /\ c.phase = "back" /\ PassFails /\ calls' = (calls \ {c}) \cup {}
      /\ UNCHANGED <<rows, outbox, stop, crossing, marks, held, ran, cancelled, answered, takes>>
    BY DEF CrossAnswered, isoVars
<1>2. c.heard /\ lane.at # 0 /\ \A d \in calls \ {c} : ~(d.op = "admit" /\ d.heard)
    BY <1>1, AtLane DEF IInv, Sent, OfLane
<1>3. PassKept' /\ Ahead' \subseteq Ahead
    BY <1>1, <1>2, PassFailsKeeps
<1>4. PICK gone, sent : gone = {c} /\ sent = {}
    OBVIOUS
<1>5. /\ gone \in SUBSET calls /\ calls' = (calls \ gone) \cup sent /\ \A d \in gone : d.phase # "in"
      /\ \A d \in sent : d.phase # "in" /\ CallFits(d)'
      /\ \A d \in calls \ gone : d.op = "admit" /\ d.heard => lane'.at = lane.at
    BY <1>1, <1>2, <1>4
<1>. QED BY <1>1, <1>3, <1>5, LaneMovesQuietly

\* Only the row that was answered is deleted: no other row owed has its id.
LEMMA RowPaid ==
    ASSUME IInv, PInv, NEW c \in calls, CrossAnswered(c), c.answer # "failed"
    PROVE  /\ c.op = "admit" /\ c.phase = "back" /\ c.heard /\ c.seq = lane.at /\ c.seq # 0
           /\ outbox' = outbox \ {c.seq} /\ calls' = calls \ {c}
           /\ lane'.step = "next" /\ lane'.at = 0 /\ lane'.rest = lane.rest
           /\ answered' = IF c.answer \in {"yielded", "refused", "cancelled"} THEN answered \cup {c.seq} ELSE answered
           /\ UNCHANGED <<rows, stop, crossing, marks, held, ran, cancelled, takes>>
<1>1. /\ c.op = "admit" /\ c.phase = "back" /\ Paid(c.seq) /\ calls' = calls \ {c}
      /\ lane' = Pass("next", 0, lane.rest)
      /\ answered' = IF c.answer \in {"yielded", "refused", "cancelled"} THEN answered \cup {c.seq} ELSE answered
      /\ UNCHANGED <<rows, stop, crossing, marks, held, ran, cancelled, takes>>
    BY DEF CrossAnswered, isoVars
<1>2. c.heard
    BY <1>1 DEF IInv, Sent
<1>3. c.seq = lane.at /\ c.seq # 0 /\ c.seq \in Ahead
    BY <1>1, <1>2, AtLane
<1>4. \A x \in outbox : rows[x] = rows[c.seq] => x = c.seq
    BY <1>3 DEF PInv, PassKept
<1>5. outbox' = outbox \ {c.seq}
    BY <1>1, <1>4 DEF Paid
<1>6. lane'.step = "next" /\ lane'.at = 0 /\ lane'.rest = lane.rest
    BY <1>1 DEF Pass
<1>. QED BY <1>1, <1>2, <1>3, <1>5, <1>6

LEMMA AnsweredKeeps ==
    ASSUME IInv, PInv, NEW c \in calls, CrossAnswered(c), c.answer # "failed"
    PROVE  PInv'
<1>1. /\ c.op = "admit" /\ c.phase = "back" /\ c.heard /\ c.seq = lane.at /\ c.seq # 0
      /\ outbox' = outbox \ {c.seq} /\ calls' = calls \ {c}
      /\ lane'.step = "next" /\ lane'.at = 0 /\ lane'.rest = lane.rest
      /\ answered' = IF c.answer \in {"yielded", "refused", "cancelled"} THEN answered \cup {c.seq} ELSE answered
      /\ UNCHANGED <<rows, stop, crossing, marks, held, ran, cancelled, takes>>
    BY RowPaid
<1>2. lane.rest \subseteq 1..Len(rows) /\ Len(rows) \in Nat /\ lane.at \in Nat /\ outbox \subseteq 1..Len(rows)
    BY Ranges
<1>3. lane.at \notin lane.rest /\ 0 \notin lane.rest
    BY <1>2 DEF PInv, PassKept
<1>4. Passing' = lane.rest /\ Passing = lane.rest \cup {lane.at} /\ Ahead' \subseteq Ahead
    BY <1>1, <1>3 DEF Passing, Ahead
<1>5. PassKept'
  <2>1. Passing' \subseteq outbox' \cup cancelled'
      BY <1>1, <1>3, <1>4 DEF PInv, PassKept
  <2>2. \A q \in lane'.rest : lane'.at < q
      BY <1>1, <1>2
  <2>3. \A x \in outbox', q \in Passing' : x < q => x \in Passing'
      BY <1>1, <1>4 DEF PInv, PassKept
  <2>4. \A x \in outbox', y \in Ahead' : rows'[x] = rows'[y] => x = y
      BY <1>1, <1>4 DEF PInv, PassKept
  <2>. QED BY <1>1, <2>1, <2>2, <2>3, <2>4 DEF PassKept
<1>6. CutsKept'
    BY <1>1 DEF PInv, CutsKept
<1>7. takes[c.seq] > 0 \/ c.seq \in cancelled \/ c.seq \in answered'
  <2>1. c.answer \in Answers \ {"done", "failed"} /\ (c.answer \in Kept => takes[c.seq] > 0 \/ c.seq \in answered \/ c.seq \in cancelled)
      BY <1>1 DEF PInv, CallFits, AdmitFits
  <2>. QED BY <1>1, <2>1 DEF Answers, Kept
<1>8. TakesKept'
  <2>1. ASSUME NEW s \in 1..MaxSeq, takes'[s] > 0 PROVE Taken(s)'
      BY <1>1, <1>4, <2>1 DEF PInv, TakesKept, Taken, Behind, Known
  <2>2. ASSUME NEW s \in 1..Len(rows') PROVE takes'[s] > 0 \/ s \in outbox' \/ s \in cancelled' \/ s \in answered'
      BY <1>1, <1>7 DEF PInv, TakesKept
  <2>3. Behind(marks.taken)'
      BY <1>1, <1>4 DEF PInv, TakesKept, Behind
  <2>4. cancelled' \subseteq 1..Len(rows') /\ outbox' \cap cancelled' = {}
      BY <1>1 DEF PInv, TakesKept
  <2>5. marks'.taken <= Len(rows') /\ (marks'.taken # 0 => takes'[marks'.taken] > 0 \/ marks'.taken \in answered')
      BY <1>1 DEF PInv, TakesKept
  <2>. QED BY <2>1, <2>2, <2>3, <2>4, <2>5 DEF TakesKept
<1>9. ASSUME NEW d \in calls' PROVE CallFits(d)'
  <2>1. d \in calls /\ ~(d.op = "admit" /\ d.heard)
      BY <1>1, AtLane DEF OfLane
  <2>2. Retrying(d) => takes[d.seq] = 0
      BY <2>1 DEF PInv, CallFits, AdmitFits, Retrying
  <2>3. answered \subseteq answered' /\ stop.cutoff \in Nat
      BY <1>1, Ranges
  <2>. QED BY <1>1, <1>4, <2>1, <2>2, <2>3, CallStaysFit
<1>10. OneRetry'
    BY <1>1 DEF PInv, OneRetry, Retrying
<1>. QED BY <1>5, <1>6, <1>8, <1>9, <1>10 DEF PInv

LEMMA AnsweredOnce ==
    ASSUME IInv, PInv, PInv', NEW c \in calls, CrossAnswered(c), c.answer # "failed"
    PROVE  Promise!Next \/ UNCHANGED Promise!vars
<1>1. /\ c.op = "admit" /\ c.phase = "back" /\ c.heard /\ c.seq = lane.at /\ c.seq # 0
      /\ outbox' = outbox \ {c.seq} /\ calls' = calls \ {c}
      /\ answered' = IF c.answer \in {"yielded", "refused", "cancelled"} THEN answered \cup {c.seq} ELSE answered
      /\ UNCHANGED <<rows, marks, cancelled, takes>>
    BY RowPaid
<1>2. c.seq \in 1..Len(rows) /\ c.seq \in 1..MaxSeq /\ Len(rows) \in Nat /\ c.seq \in Nat
    BY <1>1, CallRanges, Ranges
<1>3. ASSUME NEW s \in 1..MaxSeq PROVE Admitting(s)' <=> Admitting(s)
    BY <1>1 DEF Admitting
<1>4. ASSUME NEW s \in 1..MaxSeq, s # c.seq PROVE Fate(s)' = Fate(s)
  <2>1. Admitting(s)' <=> Admitting(s)
      BY <1>3
  <2>. QED BY <1>1, <1>4, <2>1, FateStays
<1>5. CASE takes[c.seq] > 0 \/ Admitting(c.seq) \/ c.seq \notin outbox
  <2>1. Admitting(c.seq)' <=> Admitting(c.seq)
      BY <1>1, <1>2, <1>3
  <2>2. c.seq \in outbox \/ c.seq \in cancelled
      BY <1>1, AtLane
  <2>3. Fate(c.seq)' = Fate(c.seq)
      BY <1>1, <1>5, <2>1, <2>2 DEF Fate, Admitting
  <2>4. \A s \in 1..MaxSeq : Fate(s)' = Fate(s)
      BY <1>4, <2>3
  <2>. QED BY <1>1, <2>4, Stutters
<1>6. CASE ~(takes[c.seq] > 0) /\ ~Admitting(c.seq) /\ c.seq \in outbox
  <2>1. Fate(c.seq) = "owed"
      BY <1>2, <1>6 DEF Fate, Admitting
  <2>2. ~Admitting(c.seq)'
      BY <1>1, <1>2, <1>3, <1>6
  <2>3. c.seq \notin outbox' /\ c.seq \notin cancelled'
      BY <1>1, <1>6 DEF PInv, TakesKept
  <2>4. c.seq \in answered'
      BY <1>1, <1>2, <1>6, <2>3 DEF PInv, TakesKept
  <2>5. Fate(c.seq)' = "answered"
      BY <1>1, <1>2, <1>6, <2>2, <2>3, <2>4 DEF Fate, Admitting
  <2>6. Promise!Answer(c.seq)
      BY <1>1, <1>2, <1>4, <2>1, <2>5, OneFate DEF Promise!Answer
  <2>. QED BY <1>2, <2>6 DEF Promise!Next, Promise!Seqs
<1>. QED BY <1>5, <1>6

-----------------------------------------------------------------------------
(* A delivery committed. *)

LEMMA NewRow ==
    ASSUME IInv, PInv, Plain, NEW i \in Ids, Commit(i), ~Owed(i), NEW n, n = Len(rows) + 1
    PROVE  /\ n \in 1..MaxSeq /\ n \in Nat /\ Len(rows') = n /\ outbox' = outbox \cup {n} /\ Passing' = Passing
           /\ Ahead' = Ahead \cup {n} /\ rows'[n] = i
           /\ \A s \in 1..Len(rows) : rows'[s] = rows[s] /\ s # n
           /\ \A s \in Ahead : rows[s] # i
           /\ UNCHANGED <<stop, lane, crossing, calls, marks, held, ran, cancelled, answered, takes>>
<1>1. /\ i \notin InPass /\ Len(rows) < MaxSeq /\ rows' = Append(rows, i) /\ outbox' = outbox \cup {n}
      /\ UNCHANGED <<stop, lane, crossing, calls, marks, held, ran, cancelled, answered, takes>>
    BY DEF Plain, Commit, Add, NextSeq, isoVars, histVars
<1>2. Len(rows) \in Nat /\ MaxSeq \in Nat /\ rows \in Seq(Ids)
    BY Ranges DEF IInv, Typed, TypeOK
<1>3. Len(rows') = n /\ rows'[n] = i /\ \A s \in 1..Len(rows) : rows'[s] = rows[s]
    BY <1>1, <1>2
<1>4. n \in 1..MaxSeq /\ n \in Nat /\ \A s \in 1..Len(rows) : s # n
    BY <1>1, <1>2
<1>5. Passing' = Passing /\ Ahead' = Ahead \cup {n}
    BY <1>1 DEF Passing, Ahead
<1>6. \A s \in Ahead : rows[s] # i
    BY <1>1 DEF Ahead, Passing, InPass, Owed
<1>. QED BY <1>1, <1>3, <1>4, <1>5, <1>6

LEMMA NewRowKeeps ==
    ASSUME IInv, PInv, Plain, NEW i \in Ids, Commit(i), ~Owed(i)
    PROVE  PInv'
<1>. DEFINE n == Len(rows) + 1
<1>1. /\ n \in 1..MaxSeq /\ n \in Nat /\ Len(rows') = n /\ outbox' = outbox \cup {n} /\ Passing' = Passing
      /\ Ahead' = Ahead \cup {n} /\ rows'[n] = i
      /\ \A s \in 1..Len(rows) : rows'[s] = rows[s] /\ s # n
      /\ \A s \in Ahead : rows[s] # i
      /\ UNCHANGED <<stop, lane, crossing, calls, marks, held, ran, cancelled, answered, takes>>
    BY NewRow
<1>2. /\ Len(rows) \in Nat /\ outbox \subseteq 1..Len(rows) /\ Passing \subseteq 1..Len(rows) /\ Ahead \subseteq 1..Len(rows)
      /\ marks.taken \in Nat /\ stop.cutoff \in Nat /\ n > Len(rows)
    BY Ranges
<1>3. \A s \in 1..Len(rows) : s \in 1..n /\ s < n
    BY <1>2
<1>. HIDE DEF n
<1>4. PassKept'
  <2>1. Passing' \subseteq outbox' \cup cancelled'
      BY <1>1 DEF PInv, PassKept
  <2>2. \A x \in outbox', q \in Passing' : x < q => x \in Passing'
    <3>1. \A q \in Passing : ~(n < q)
        BY <1>1, <1>2, <1>3
    <3>. QED BY <1>1, <3>1 DEF PInv, PassKept
  <2>3. ASSUME NEW x \in outbox', NEW y \in Ahead', rows'[x] = rows'[y] PROVE x = y
    <3>1. CASE x \in outbox /\ y \in Ahead
        BY <1>1, <1>2, <2>3, <3>1 DEF PInv, PassKept
    <3>2. CASE x = n /\ y \in Ahead
        BY <1>1, <1>2, <2>3, <3>2
    <3>3. CASE x \in outbox /\ y = n
        BY <1>1, <1>2, <2>3, <3>3 DEF Ahead
    <3>. QED BY <1>1, <3>1, <3>2, <3>3
  <2>4. \A q \in lane'.rest : lane'.at < q
      BY <1>1 DEF PInv, PassKept
  <2>5. (lane'.step \in {"idle", "next"} => lane'.at = 0) /\ (lane'.step = "idle" => lane'.rest = {})
      BY <1>1 DEF PInv, PassKept
  <2>. QED BY <2>1, <2>2, <2>3, <2>4, <2>5 DEF PassKept
<1>5. CutsKept'
  <2>1. stop.cutoff <= Len(rows)
      BY DEF PInv, CutsKept
  <2>2. stop.cutoff < n /\ stop.cutoff <= n
      BY <1>1, <1>2, <2>1
  <2>. QED BY <1>1, <2>2 DEF PInv, CutsKept
<1>6. TakesKept'
  <2>1. cancelled' \subseteq 1..Len(rows') /\ outbox' \cap cancelled' = {}
      BY <1>1, <1>3 DEF PInv, TakesKept
  <2>2. ASSUME NEW m \in Nat, m <= Len(rows), Behind(m) PROVE Behind(m)'
      BY <1>1, <1>2, <2>2 DEF Behind
  <2>3. ASSUME NEW s \in 1..MaxSeq, takes'[s] > 0 PROVE Taken(s)'
    <3>1. Taken(s) /\ s \in Nat
        BY <1>1, <2>3 DEF PInv, TakesKept
    <3>2. s \in 1..Len(rows)
        BY <1>2, <3>1 DEF Taken
    <3>3. Behind(s)'
        BY <2>2, <3>1 DEF Taken
    <3>4. rows'[s] = rows[s] /\ s <= Len(rows')
        BY <1>1, <1>2, <3>2
    <3>. QED BY <1>1, <3>1, <3>3, <3>4 DEF Taken, Known
  <2>4. ASSUME NEW s \in 1..Len(rows') PROVE takes'[s] > 0 \/ s \in outbox' \/ s \in cancelled' \/ s \in answered'
    <3>1. s \in 1..Len(rows) \/ s = n
        BY <1>1, <1>2 DEF n
    <3>. QED BY <1>1, <3>1 DEF PInv, TakesKept
  <2>5. marks.taken <= Len(rows) /\ Behind(marks.taken)
      BY DEF PInv, TakesKept
  <2>6. Behind(marks.taken)'
      BY <1>1, <1>2, <2>5 DEF Behind
  <2>7. marks'.taken <= Len(rows')
      BY <1>1, <1>2, <2>5
  <2>8. marks'.taken # 0 => takes'[marks'.taken] > 0 \/ marks'.taken \in answered'
      BY <1>1 DEF PInv, TakesKept
  <2>. QED BY <2>1, <2>3, <2>4, <2>6, <2>7, <2>8 DEF TakesKept
<1>7. ASSUME NEW c \in calls PROVE CallFits(c)'
  <2>1. Retrying(c) => takes[c.seq] = 0
      BY DEF PInv, CallFits, AdmitFits, Retrying
  <2>2. c.op = "admit" => rows'[c.seq] = rows[c.seq]
      BY <1>1, CallRanges
  <2>3. \A x \in Ahead' : x \in Ahead \/ (x \in Nat /\ x > Len(rows))
      BY <1>1, <1>2
  <2>. QED BY <1>1, <1>2, <2>1, <2>2, <2>3, CallStaysFit
<1>8. OneRetry'
  <2>1. \A c \in calls : Retrying(c)' <=> Retrying(c)
      BY <1>1, CallRanges DEF Retrying
  <2>. QED BY <1>1, <2>1 DEF PInv, OneRetry, Retrying
<1>. QED BY <1>1, <1>4, <1>5, <1>6, <1>7, <1>8 DEF PInv

LEMMA NewRowOwed ==
    ASSUME IInv, PInv, Plain, NEW i \in Ids, Commit(i), ~Owed(i)
    PROVE  Promise!Next
<1>. PICK n : n = Len(rows) + 1
    OBVIOUS
<1>1. /\ n \in 1..MaxSeq /\ n \in Nat /\ Len(rows') = n /\ outbox' = outbox \cup {n}
      /\ \A s \in 1..Len(rows) : rows'[s] = rows[s] /\ s # n
      /\ UNCHANGED <<calls, marks, cancelled, answered, takes>>
    BY NewRow
<1>2. Len(rows) \in Nat /\ MaxSeq \in Nat /\ n > Len(rows) /\ n = Len(rows) + 1
    BY Ranges
<1>3. Fate(n) = "uncommitted"
    BY <1>2 DEF Fate
<1>4. \A r \in 1..(n - 1) : r \in 1..MaxSeq /\ Fate(r) # "uncommitted"
  <2>1. SUFFICES ASSUME NEW r \in 1..(n - 1) PROVE r \in 1..MaxSeq /\ Fate(r) # "uncommitted"
      OBVIOUS
  <2>2. r \in 1..MaxSeq /\ ~(r > Len(rows))
      BY <1>1, <1>2
  <2>. QED BY <2>2 DEF Fate
<1>5. Fate(n)' = "owed"
  <2>1. ~(n > Len(rows'))
      BY <1>1
  <2>2. ~(takes'[n] > 0)
      BY <1>1, <1>2 DEF PInv, TakesKept, Taken
  <2>3. ~Admitting(n)'
    <3>1. \A c \in calls : c.op = "admit" => c.seq # n
        BY <1>1, CallRanges
    <3>. QED BY <1>1, <3>1 DEF Admitting
  <2>. QED BY <1>1, <2>1, <2>2, <2>3 DEF Fate, Admitting
<1>6. ASSUME NEW s \in 1..MaxSeq, s # n PROVE Fate(s)' = Fate(s)
  <2>1. CASE s > Len(rows)
    <3>1. s > Len(rows')
        BY <1>1, <1>2, <1>6, <2>1
    <3>. QED BY <2>1, <3>1 DEF Fate
  <2>2. CASE ~(s > Len(rows))
    <3>1. ~(s > Len(rows')) /\ s \in 1..Len(rows)
        BY <1>1, <1>2, <2>2
    <3>2. Admitting(s)' <=> Admitting(s)
        BY <1>1, <3>1 DEF Admitting
    <3>. QED BY <1>1, <1>6, <2>2, <3>1, <3>2, FateStays
  <2>. QED BY <2>1, <2>2
<1>7. Promise!Commit(n)
    BY <1>1, <1>3, <1>4, <1>5, <1>6, OneFate DEF Promise!Commit
<1>. QED BY <1>1, <1>7 DEF Promise!Next, Promise!Seqs

LEMMA CommitKeeps ==
    ASSUME IInv, PInv, Plain, NEW i \in Ids, Commit(i)
    PROVE  PInv' /\ (Promise!Next \/ UNCHANGED Promise!vars)
<1>1. CASE Owed(i)
    BY <1>1, NothingMoves DEF Commit, Add
<1>2. CASE ~Owed(i)
    BY <1>2, NewRowKeeps, NewRowOwed
<1>. QED BY <1>1, <1>2

-----------------------------------------------------------------------------
(* All that is owed, cancelled. *)

LEMMA CancelsKeep ==
    ASSUME IInv, PInv, CancelRows, UNCHANGED <<rows, calls, marks, held, ran, answered, takes>>,
           lane'.at = lane.at, lane'.step = lane.step, lane'.rest \subseteq lane.rest,
           stop.cutoff <= stop'.cutoff, stop'.cutoff \in Nat, stop'.cutoff <= Len(rows), \A n \in crossing' : n <= stop'.cutoff
    PROVE  PInv' /\ Promise!Next
<1>1. outbox' = {} /\ cancelled' = cancelled \cup outbox
    BY DEF CancelRows
<1>2. /\ Len(rows) \in Nat /\ MaxSeq \in Nat /\ outbox \subseteq 1..Len(rows) /\ stop.cutoff \in Nat /\ marks.cutoff \in Nat
      /\ marks.taken \in Nat
    BY Ranges
<1>3. Passing' \subseteq Passing /\ Ahead' \subseteq Ahead
    BY <1>1 DEF Passing, Ahead
<1>4. PassKept'
    BY <1>1, <1>3 DEF PInv, PassKept
<1>5. CutsKept'
    BY <1>1, <1>2 DEF PInv, CutsKept
<1>6. TakesKept'
  <2>1. ASSUME NEW s \in 1..MaxSeq, takes'[s] > 0 PROVE Taken(s)'
      BY <1>3, <2>1 DEF PInv, TakesKept, Taken, Behind, Known
  <2>2. ASSUME NEW s \in 1..Len(rows') PROVE takes'[s] > 0 \/ s \in outbox' \/ s \in cancelled' \/ s \in answered'
      BY <1>1 DEF PInv, TakesKept
  <2>3. Behind(marks.taken)'
      BY <1>3 DEF PInv, TakesKept, Behind
  <2>4. cancelled' \subseteq 1..Len(rows') /\ outbox' \cap cancelled' = {}
      BY <1>1, <1>2 DEF PInv, TakesKept
  <2>5. marks'.taken <= Len(rows') /\ (marks'.taken # 0 => takes'[marks'.taken] > 0 \/ marks'.taken \in answered')
      BY DEF PInv, TakesKept
  <2>. QED BY <2>1, <2>2, <2>3, <2>4, <2>5 DEF TakesKept
<1>7. ASSUME NEW c \in calls PROVE CallFits(c)'
  <2>1. Retrying(c) => takes[c.seq] = 0
      BY DEF PInv, CallFits, AdmitFits, Retrying
  <2>. QED BY <1>1, <1>3, <2>1, CallStaysFit
<1>8. OneRetry'
    BY DEF PInv, OneRetry, Retrying
<1>9. PInv'
    BY <1>4, <1>5, <1>6, <1>7, <1>8 DEF PInv
<1>10. ASSUME NEW s \in 1..MaxSeq PROVE Fate(s)' = IF Fate(s) = "owed" THEN "stopping" ELSE Fate(s)
  <2>1. Admitting(s)' <=> Admitting(s)
      BY DEF Admitting
  <2>2. CASE s \notin outbox
    <3>1. Fate(s)' = Fate(s)
        BY <1>1, <2>1, <2>2, FateStays
    <3>2. Fate(s) # "owed"
        BY <2>2 DEF Fate
    <3>. QED BY <3>1, <3>2
  <2>3. CASE s \in outbox
    <3>1. ~(s <= marks.cutoff)
        BY <1>2, <2>3 DEF PInv, CutsKept
    <3>2. s \in cancelled' /\ s \notin outbox'
        BY <1>1, <2>3
    <3>. QED BY <2>1, <2>3, <3>1, <3>2 DEF Fate, Admitting
  <2>. QED BY <2>2, <2>3
<1>11. Promise!Stop
  <2>1. [s \in 1..MaxSeq |-> Fate(s)]' =
            [s \in 1..MaxSeq |-> IF [x \in 1..MaxSeq |-> Fate(x)][s] = "owed" THEN "stopping" ELSE [x \in 1..MaxSeq |-> Fate(x)][s]]
      BY <1>10
  <2>. QED BY <2>1 DEF Promise!Stop, Promise!Seqs
<1>. QED BY <1>9, <1>11 DEF Promise!Next

LEMMA CutoffBehind ==
    ASSUME IInv
    PROVE  Cutoff \in Nat /\ Cutoff <= Len(rows)
<1>1. Len(rows) \in Nat /\ outbox \subseteq 0..Len(rows)
    BY Ranges
<1>2. outbox # {} => Max(outbox) \in outbox
    BY <1>1, MaxOfBounded
<1>3. ASSUME outbox # {} PROVE Max(outbox) \in Nat /\ Max(outbox) <= Len(rows)
  <2>1. PICK x \in outbox : x = Max(outbox)
      BY <1>2, <1>3
  <2>2. x \in Nat /\ x <= Len(rows)
      BY <1>1
  <2>. QED BY <2>1, <2>2
<1>. QED BY <1>1, <1>3 DEF Cutoff

LEMMA StopAgentKeeps ==
    ASSUME IInv, PInv, StopAgent
    PROVE  PInv' /\ Promise!Next
<1>1. stop.cutoff \in Nat /\ Cutoff \in Nat /\ Len(rows) \in Nat /\ Cutoff <= Len(rows) /\ stop.cutoff <= Len(rows)
  <2>1. Cutoff \in Nat /\ Cutoff <= Len(rows)
      BY CutoffBehind
  <2>2. stop.cutoff \in Nat /\ Len(rows) \in Nat
      BY Ranges
  <2>3. stop.cutoff <= Len(rows)
      BY DEF PInv, CutsKept
  <2>. QED BY <2>1, <2>2, <2>3
<1>2. PICK x : x = Max({stop.cutoff, Cutoff})
    OBVIOUS
<1>3. x \in {stop.cutoff, Cutoff} /\ stop.cutoff <= x /\ Cutoff <= x
    BY <1>1, <1>2, MaxOfTwo
<1>4. CancelRows /\ stop'.cutoff = x /\ crossing' = crossing \cup {Cutoff}
    BY <1>2 DEF StopAgent
<1>5. UNCHANGED <<rows, lane, calls, marks, held, ran, answered, takes>>
    BY DEF StopAgent, isoVars
<1>6. x \in Nat /\ x <= Len(rows)
    BY <1>1, <1>3
<1>7. \A n \in crossing : n <= x
  <2>1. SUFFICES ASSUME NEW n \in crossing PROVE n <= x
      OBVIOUS
  <2>2. n <= stop.cutoff /\ n \in Nat
      BY Ranges DEF PInv, CutsKept, IInv, Typed, TypeOK
  <2>. QED BY <1>1, <1>3, <1>6, <2>2
<1>. QED BY <1>3, <1>4, <1>5, <1>6, <1>7, CancelsKeep

LEMMA RetirementKeeps ==
    ASSUME IInv, PInv, RetireCancels \/ CrossRetired
    PROVE  PInv' /\ Promise!Next
<1>1. CancelRows /\ UNCHANGED <<rows, stop, crossing, calls, marks, held, ran, answered, takes>>
    BY DEF RetireCancels, CrossRetired, isoVars
<1>2. lane'.at = lane.at /\ lane'.step = lane.step /\ lane'.rest \subseteq lane.rest
    BY DEF RetireCancels, CrossRetired, Pass, PInv, PassKept
<1>3. stop.cutoff \in Nat /\ stop.cutoff <= Len(rows) /\ \A n \in crossing : n <= stop.cutoff
    BY Ranges DEF PInv, CutsKept
<1>. QED BY <1>1, <1>2, <1>3, CancelsKeep

-----------------------------------------------------------------------------
(* The handlers. *)

\* The call one answers, or awaits in, is where it was otherwise.
LEMMA CallGoesOn ==
    ASSUME IInv, PInv, NEW c \in calls, UNCHANGED <<rows, outbox, lane>>, stop'.cutoff = stop.cutoff
    PROVE  /\ c.op # "admit" => c.phase # "in" /\ c.seq <= stop'.cutoff
           /\ c.op = "admit" => (c.heard => c.seq = lane'.at) /\ Behind(c.seq)'
<1>1. CallFits(c) /\ Ahead' = Ahead
    BY PassStays DEF PInv, Ahead, Passing
<1>2. c.op = "admit" => AdmitFits(c)
    BY <1>1 DEF CallFits
<1>3. c.op = "admit" => Behind(c.seq)'
    BY <1>1, <1>2 DEF AdmitFits, Behind
<1>. QED BY <1>1, <1>2, <1>3 DEF CallFits, AdmitFits

LEMMA OthersFit ==
    ASSUME IInv, PInv, NEW c, UNCHANGED <<rows, outbox, lane>>, stop'.cutoff = stop.cutoff,
           answered \subseteq answered', cancelled \subseteq cancelled',
           \A d \in calls \ {c} : d.op = "admit" /\ takes[d.seq] > 0 => takes'[d.seq] > 0 \/ d.seq \in answered',
           \A d \in calls \ {c} : Retrying(d) => takes'[d.seq] = 0
    PROVE  \A d \in calls \ {c} : CallFits(d)'
<1>1. Ahead' = Ahead /\ stop.cutoff \in Nat
    BY Ranges DEF Ahead, Passing
<1>2. ASSUME NEW d \in calls \ {c} PROVE CallFits(d)'
    BY <1>1, CallStaysFit
<1>. QED BY <1>2

LEMMA HandlerKeeps ==
    ASSUME IInv, PInv, NEW c \in calls, NEW a \in Answers, calls' = Replied(c, a),
           UNCHANGED <<rows, outbox, lane, stop, crossing, cancelled>>, answered \subseteq answered',
           marks'.cutoff <= stop.cutoff, TakesKept',
           c.op = "admit" => /\ a # "done"
                             /\ a \in Kept => takes'[c.seq] > 0 \/ c.seq \in answered' \/ c.seq \in cancelled,
           \A d \in calls \ {c} : d.op = "admit" /\ takes[d.seq] > 0 => takes'[d.seq] > 0 \/ d.seq \in answered',
           \A d \in calls \ {c} : Retrying(d) => takes'[d.seq] = 0
    PROVE  PInv'
<1>1. \A d \in calls \ {c} : CallFits(d)'
    BY OthersFit
<1>2. PICK m : m = Moved(c, "back", a)
    OBVIOUS
<1>3. m.op = c.op /\ m.seq = c.seq /\ m.phase = "back" /\ m.answer = a /\ m.heard = c.heard
    BY <1>2 DEF Moved
<1>4. calls' \subseteq (calls \ {c}) \cup {m} /\ (m \in calls' => m \in calls \ {c} \/ c.heard)
    BY <1>2 DEF Replied
<1>5. c.heard => CallFits(m)'
  <2>1. /\ c.op # "admit" => c.seq <= stop'.cutoff
        /\ c.op = "admit" => (c.heard => c.seq = lane'.at) /\ Behind(c.seq)'
      BY CallGoesOn
  <2>2. c.heard /\ m.op = "admit" => AdmitFits(m)'
      BY <1>3, <2>1 DEF AdmitFits, Behind
  <2>. QED BY <1>3, <2>1, <2>2 DEF CallFits
<1>6. ASSUME NEW d \in calls' PROVE CallFits(d)'
  <2>1. CASE d \in calls \ {c}
      BY <1>1, <2>1
  <2>2. CASE d = m /\ c.heard
    <3>1. CallFits(m)'
        BY <1>5, <2>2
    <3>. QED BY <2>2, <3>1 DEF CallFits, AdmitFits, Behind
  <2>. QED BY <1>4, <2>1, <2>2
<1>7. OneRetry'
    BY <1>3, <1>4 DEF PInv, OneRetry, Retrying
<1>8. PassKept'
    BY PassStays DEF PInv
<1>9. CutsKept'
    BY DEF PInv, CutsKept
<1>. QED BY <1>6, <1>7, <1>8, <1>9 DEF PInv

LEMMA AwaitKeeps ==
    ASSUME IInv, PInv, NEW c \in calls, c.op = "admit", c.phase = "out", calls' = Awaiting(c),
           UNCHANGED <<wsVars, marks, cancelled, answered>>, TakesKept',
           \/ Kind[rows[c.seq]] = "words" /\ takes'[c.seq] > 0
           \/ Kind[rows[c.seq]] = "retry" /\ takes'[c.seq] = 0 /\ \A d \in calls : ~Retrying(d),
           \A d \in calls \ {c} : d.op = "admit" /\ takes[d.seq] > 0 => takes'[d.seq] > 0 \/ d.seq \in answered',
           \A d \in calls \ {c} : Retrying(d) => takes'[d.seq] = 0
    PROVE  PInv'
<1>1. UNCHANGED <<rows, outbox, lane, stop, crossing>>
    BY DEF wsVars
<1>2. \A d \in calls \ {c} : CallFits(d)'
    BY <1>1, OthersFit
<1>3. PICK m : m = Moved(c, "in", c.answer)
    OBVIOUS
<1>4. m.op = c.op /\ m.seq = c.seq /\ m.phase = "in" /\ m.heard = c.heard
    BY <1>3 DEF Moved
<1>5. calls' = (calls \ {c}) \cup {m}
    BY <1>3 DEF Awaiting
<1>6. CallFits(m)'
  <2>1. (c.heard => c.seq = lane'.at) /\ Behind(c.seq)'
      BY <1>1, CallGoesOn
  <2>2. AdmitFits(m)'
      BY <1>1, <1>4, <2>1 DEF AdmitFits, Behind
  <2>. QED BY <1>4, <2>2 DEF CallFits
<1>7. ASSUME NEW d \in calls' PROVE CallFits(d)'
  <2>1. CASE d \in calls \ {c}
      BY <1>2, <2>1
  <2>2. CASE d = m
      BY <1>6, <2>2 DEF CallFits, AdmitFits, Behind
  <2>. QED BY <1>5, <2>1, <2>2
<1>8. OneRetry'
    BY <1>1, <1>4, <1>5 DEF PInv, OneRetry, Retrying
<1>9. PassKept'
    BY <1>1, PassStays DEF PInv
<1>10. CutsKept'
    BY <1>1 DEF PInv, CutsKept
<1>. QED BY <1>7, <1>8, <1>9, <1>10 DEF PInv

\* A call that is no Retry's handler, answered.
LEMMA RepliedAdmitting ==
    ASSUME NEW c \in calls, NEW a, calls' = Replied(c, a), rows' = rows, NEW s,
           c.phase = "in" => Kind[rows[c.seq]] = "words" \/ s # c.seq
    PROVE  Admitting(s)' <=> Admitting(s)
<1>1. PICK m : m = Moved(c, "back", a)
    OBVIOUS
<1>2. m.op = c.op /\ m.seq = c.seq /\ m.phase = "back" /\ m.answer = a /\ m.heard = c.heard
    BY <1>1 DEF Moved
<1>3. calls \ {c} \subseteq calls' /\ calls' \subseteq (calls \ {c}) \cup {m}
    BY <1>1 DEF Replied
<1>. QED BY <1>2, <1>3 DEF Admitting

\* A handler that leaves the marks and what is taken alone.
LEMMA QuietHandler ==
    ASSUME IInv, PInv, NEW c \in calls, NEW a \in Answers, calls' = Replied(c, a),
           UNCHANGED <<wsVars, isoVars, cancelled, takes>>, answered \subseteq answered',
           \A s \in answered' : s \in answered \/ s \in outbox \/ s \in cancelled,
           c.op = "admit" => /\ a # "done"
                             /\ a \in Kept => takes[c.seq] > 0 \/ c.seq \in answered' \/ c.seq \in cancelled
    PROVE  /\ PInv'
           /\ (c.op = "admit" /\ c.phase = "in" => Kind[rows[c.seq]] = "words") => UNCHANGED Promise!vars
<1>1. UNCHANGED <<rows, outbox, lane, stop, crossing, marks, held, ran>>
    BY DEF wsVars, isoVars
<1>2. TakesKept'
  <2>1. Ahead' = Ahead
      BY <1>1 DEF Ahead, Passing
  <2>. QED BY <1>1, <2>1, TakesStay DEF Known
<1>3. marks'.cutoff <= stop.cutoff
    BY <1>1 DEF PInv, CutsKept
<1>4. \A d \in calls \ {c} : Retrying(d) => takes[d.seq] = 0
    BY DEF PInv, CallFits, AdmitFits, Retrying
<1>5. PInv'
    BY <1>1, <1>2, <1>3, <1>4, HandlerKeeps
<1>6. ASSUME c.op = "admit" /\ c.phase = "in" => Kind[rows[c.seq]] = "words" PROVE UNCHANGED Promise!vars
  <2>1. c.phase = "in" => Kind[rows[c.seq]] = "words"
      BY <1>6 DEF PInv, CallFits
  <2>2. \A s \in 1..MaxSeq : Admitting(s)' <=> Admitting(s)
      BY <1>1, <2>1, RepliedAdmitting
  <2>. QED BY <1>1, <2>2, QuietFates
<1>. QED BY <1>5, <1>6

\* A delivery that is at its handler's door is heard.
LEMMA AtDoor ==
    ASSUME IInv, PInv, NEW c \in calls, c.op = "admit", c.phase = "out"
    PROVE  /\ c.heard /\ c.seq \in Ahead /\ c.seq \in 1..Len(rows) /\ c.seq \in 1..MaxSeq /\ c.seq \in Nat /\ c.seq # 0
           /\ c.seq \in outbox \/ c.seq \in cancelled
           /\ Behind(c.seq)
<1>1. c.heard /\ Behind(c.seq)
    BY DEF PInv, CallFits, AdmitFits
<1>. QED BY <1>1, AtLane, CallRanges

\* What the marks answer for: nothing behind the newest taken is still to cross.
LEMMA AdmitMarkedKeeps ==
    ASSUME IInv, PInv, NEW c \in calls, AdmitMarked(c)
    PROVE  PInv' /\ UNCHANGED Promise!vars
<1>1. /\ c.op = "admit" /\ c.phase = "out" /\ MarkOf(c.seq) # "new"
      /\ UNCHANGED <<wsVars, isoVars, cancelled, answered, takes>>
    BY DEF AdmitMarked, Arrives
<1>2. PICK a : /\ a \in {"applied", "duplicate", "cancelled"} /\ calls' = Replied(c, a)
               /\ a \in Kept => MarkOf(c.seq) = "duplicate"
    BY DEF AdmitMarked, MarkOf, Kept
<1>3. ASSUME MarkOf(c.seq) = "duplicate" PROVE takes[c.seq] > 0 \/ c.seq \in answered
  <2>1. c.seq <= marks.taken
      BY <1>3 DEF MarkOf
  <2>2. marks.taken <= c.seq
      BY <1>1, AtDoor DEF PInv, TakesKept, Behind
  <2>3. marks.taken = c.seq /\ c.seq # 0
      BY <1>1, <2>1, <2>2, AtDoor, Ranges
  <2>. QED BY <2>3 DEF PInv, TakesKept
<1>4. a \in Answers /\ a # "done"
    BY <1>2 DEF Answers
<1>. QED BY <1>1, <1>2, <1>3, <1>4, QuietHandler

LEMMA AdmitKnownKeeps ==
    ASSUME IInv, PInv, NEW c \in calls, AdmitKnown(c)
    PROVE  PInv' /\ UNCHANGED Promise!vars
<1>1. /\ c.op = "admit" /\ c.phase = "out" /\ calls' = Replied(c, "duplicate") /\ answered' = answered \cup {c.seq}
      /\ UNCHANGED <<wsVars, isoVars, cancelled, takes>>
    BY DEF AdmitKnown, Arrives
<1>2. c.seq \in outbox \/ c.seq \in cancelled
    BY <1>1, AtDoor
<1>3. "duplicate" \in Answers /\ "duplicate" # "done"
    BY DEF Answers
<1>. QED BY <1>1, <1>2, <1>3, QuietHandler

LEMMA CallFailsKeeps ==
    ASSUME IInv, PInv, NEW c \in calls, CallFails(c)
    PROVE  PInv' /\ UNCHANGED Promise!vars
<1>1. /\ c.phase \in {"out", "back"} /\ calls' = Replied(c, "failed")
      /\ UNCHANGED <<wsVars, isoVars, cancelled, answered, takes>>
    BY DEF CallFails, histVars
<1>2. "failed" \in Answers /\ "failed" # "done" /\ "failed" \notin Kept
    BY DEF Answers, Kept
<1>. QED BY <1>1, <1>2, QuietHandler

\* What the marks have not seen, and the store does not know, was not taken.
LEMMA NotTaken ==
    ASSUME IInv, PInv, NEW c \in calls, c.op = "admit", c.phase = "out", MarkOf(c.seq) = "new",
           Kind[rows[c.seq]] = "words" => ~Known(rows[c.seq])
    PROVE  /\ takes[c.seq] = 0 /\ ~(c.seq <= marks.cutoff) /\ ~(c.seq <= marks.taken)
           /\ \A x \in 1..MaxSeq : takes[x] > 0 => x < c.seq
           /\ ~Admitting(c.seq) => Fate(c.seq) \in {"owed", "stopping"}
<1>1. ~(c.seq <= marks.cutoff) /\ ~(c.seq <= marks.taken)
  <2>1. c.seq \in Nat /\ marks.cutoff \in Nat /\ marks.taken \in Nat
      BY CallRanges, Ranges
  <2>. QED BY <2>1 DEF MarkOf
<1>2. /\ c.seq \in 1..MaxSeq /\ c.seq \in 1..Len(rows) /\ c.seq \in Ahead /\ c.seq \in Nat
      /\ c.seq \in outbox \/ c.seq \in cancelled
    BY AtDoor
<1>3. takes[c.seq] \in Nat /\ Len(rows) \in Nat
    BY <1>2, Ranges
<1>4. ~(takes[c.seq] > 0)
    BY <1>1, <1>2 DEF PInv, TakesKept, Taken
<1>5. ASSUME NEW x \in 1..MaxSeq, takes[x] > 0 PROVE x < c.seq
  <2>1. x <= c.seq
      BY <1>2, <1>5 DEF PInv, TakesKept, Taken, Behind
  <2>2. x # c.seq
      BY <1>4, <1>5
  <2>. QED BY <1>2, <2>1, <2>2
<1>6. ~Admitting(c.seq) => Fate(c.seq) \in {"owed", "stopping"}
    BY <1>1, <1>2, <1>3, <1>4 DEF Fate, Admitting
<1>. QED BY <1>1, <1>3, <1>4, <1>5, <1>6

\* A sequence taken once, behind what is yet to cross.
LEMMA TakenOnce ==
    ASSUME IInv, PInv, NEW s \in 1..Len(rows), takes[s] = 0, Held(s), Behind(s), UNCHANGED <<wsVars, ran, cancelled, answered>>,
           \/ marks' = marks /\ Kind[rows[s]] = "words"
           \/ \E applied : Took(s, applied)
    PROVE  TakesKept' /\ takes' = [takes EXCEPT ![s] = 1]
<1>1. takes' = [takes EXCEPT ![s] = 1] /\ s \in 1..MaxSeq /\ takes \in [1..MaxSeq -> Nat] /\ rows[s] \in held'
    BY Ranges DEF Held
<1>2. takes'[s] = 1 /\ \A x \in 1..MaxSeq : x # s => takes'[x] = takes[x]
    BY <1>1
<1>3. UNCHANGED <<rows, outbox, lane>> /\ Ahead' = Ahead /\ held \subseteq held'
    BY DEF wsVars, Ahead, Passing, Held
<1>4. marks.taken \in Nat /\ s \in Nat /\ Len(rows) \in Nat
    BY Ranges
<1>5. /\ marks'.taken \in {marks.taken, s} /\ marks.taken <= marks'.taken
      /\ s <= marks'.taken \/ Kind[rows[s]] = "words"
  <2>1. ASSUME NEW applied, Took(s, applied) PROVE marks'.taken = Max({marks.taken, s})
      BY <2>1 DEF Took
  <2>2. /\ Max({marks.taken, s}) \in {marks.taken, s} /\ marks.taken <= Max({marks.taken, s}) /\ s <= Max({marks.taken, s})
      BY <1>4, MaxOfTwo
  <2>. QED BY <1>4, <2>1, <2>2
<1>6. ASSUME NEW x \in 1..MaxSeq, takes'[x] > 0 PROVE Taken(x)'
  <2>1. CASE x = s
      BY <1>1, <1>2, <1>3, <1>5, <2>1 DEF Taken, Behind, Known
  <2>2. CASE x # s
    <3>1. Taken(x) /\ takes'[x] = takes[x]
        BY <1>2, <1>6, <2>2 DEF PInv, TakesKept
    <3>2. x <= marks.taken => x <= marks'.taken
        BY <1>4, <1>5
    <3>. QED BY <1>3, <3>1, <3>2 DEF Taken, Behind, Known
  <2>. QED BY <2>1, <2>2
<1>7. ASSUME NEW x \in 1..Len(rows') PROVE takes'[x] > 0 \/ x \in outbox' \/ x \in cancelled' \/ x \in answered'
  <2>1. x \in 1..MaxSeq /\ x \in 1..Len(rows)
      BY <1>3, Ranges
  <2>. QED BY <1>2, <1>3, <2>1 DEF PInv, TakesKept
<1>8. marks'.taken <= Len(rows') /\ Behind(marks.taken)'
  <2>1. Behind(marks.taken) /\ marks.taken <= Len(rows)
      BY DEF PInv, TakesKept
  <2>2. marks'.taken <= Len(rows')
      BY <1>3, <1>4, <1>5, <2>1
  <2>. QED BY <1>3, <1>5, <2>1, <2>2 DEF Behind
<1>9. marks'.taken # 0 => takes'[marks'.taken] > 0 \/ marks'.taken \in answered'
  <2>1. CASE marks'.taken = s
      BY <1>2, <2>1
  <2>2. CASE marks'.taken = marks.taken /\ marks.taken # s
    <3>1. marks.taken # 0 => takes[marks.taken] > 0 \/ marks.taken \in answered
        BY DEF PInv, TakesKept
    <3>2. marks.taken # 0 => marks.taken \in 1..MaxSeq
        BY <1>4, Ranges DEF PInv, TakesKept
    <3>. QED BY <1>2, <2>2, <3>1, <3>2
  <2>. QED BY <1>5, <2>1, <2>2
<1>10. cancelled' \subseteq 1..Len(rows') /\ outbox' \cap cancelled' = {}
    BY <1>3 DEF PInv, TakesKept
<1>11. TakesKept'
    BY <1>6, <1>7, <1>8, <1>9, <1>10 DEF TakesKept
<1>. QED BY <1>1, <1>11

LEMMA AdmitWordsTakes ==
    ASSUME IInv, PInv, NEW c \in calls, AdmitWords(c)
    PROVE  PInv' /\ Promise!Next
<1>1. /\ c.op = "admit" /\ c.phase = "out" /\ Kind[rows[c.seq]] = "words" /\ MarkOf(c.seq) = "new" /\ ~Known(rows[c.seq])
      /\ Held(c.seq) /\ calls' = Awaiting(c) /\ UNCHANGED <<wsVars, marks, ran, cancelled, answered>>
    BY DEF AdmitWords, Arrives
<1>2. c.seq \in 1..Len(rows) /\ c.seq \in 1..MaxSeq /\ Behind(c.seq)
    BY <1>1, AtDoor
<1>3. /\ takes[c.seq] = 0 /\ (\A x \in 1..MaxSeq : takes[x] > 0 => x < c.seq)
      /\ ~Admitting(c.seq) => Fate(c.seq) \in {"owed", "stopping"}
    BY <1>1, NotTaken
<1>4. TakesKept' /\ takes' = [takes EXCEPT ![c.seq] = 1]
    BY <1>1, <1>2, <1>3, TakenOnce
<1>5. takes \in [1..MaxSeq -> Nat] /\ UNCHANGED <<rows, outbox>>
    BY <1>1, Ranges DEF wsVars
<1>6. takes'[c.seq] = 1 /\ \A x \in 1..MaxSeq : x # c.seq => takes'[x] = takes[x]
    BY <1>2, <1>4, <1>5
<1>7. ASSUME NEW d \in calls, d.op = "admit"
      PROVE  (takes[d.seq] > 0 => takes'[d.seq] > 0) /\ (Retrying(d) => takes'[d.seq] = 0)
  <2>1. d.seq \in 1..MaxSeq /\ (Retrying(d) => takes[d.seq] = 0 /\ Kind[rows[d.seq]] = "retry")
      BY <1>7, CallRanges DEF PInv, CallFits, AdmitFits, Retrying
  <2>. QED BY <1>1, <1>6, <2>1
<1>8. PInv'
    BY <1>1, <1>4, <1>6, <1>7, AwaitKeeps DEF Retrying
<1>9. ~Admitting(c.seq)
    BY <1>1 DEF Admitting
<1>10. ASSUME NEW s \in 1..MaxSeq PROVE Admitting(s)' <=> Admitting(s)
  <2>1. PICK m : m = Moved(c, "in", c.answer)
      OBVIOUS
  <2>2. m.op = c.op /\ m.seq = c.seq /\ calls' = (calls \ {c}) \cup {m}
      BY <1>1, <2>1 DEF Moved, Awaiting
  <2>. QED BY <1>1, <1>5, <2>2 DEF Admitting
<1>11. ASSUME NEW s \in 1..MaxSeq, s # c.seq PROVE Fate(s)' = Fate(s)
  <2>1. Admitting(s)' <=> Admitting(s)
      BY <1>10
  <2>. QED BY <1>1, <1>5, <1>6, <1>11, <2>1, FateStays
<1>12. Fate(c.seq)' = "taken"
    BY <1>2, <1>5, <1>6, Ranges DEF Fate
<1>13. Promise!InOrder(c.seq)
    BY <1>3 DEF Promise!InOrder, Promise!Seqs
<1>14. Promise!Next
    BY <1>2, <1>3, <1>4, <1>9, <1>11, <1>12, <1>13, Takes
<1>. QED BY <1>8, <1>14

\* A delivery its handler answers as taken.
LEMMA ReplyTakes ==
    ASSUME IInv, PInv, NEW c \in calls, c.op = "admit", Held(c.seq), NEW applied, Took(c.seq, applied),
           NEW a \in {"taken", "applied"}, calls' = Replied(c, a), UNCHANGED <<wsVars, ran, cancelled, answered>>,
           takes[c.seq] = 0, \A d \in calls \ {c} : Retrying(d) => d.seq # c.seq,
           Fate(c.seq) \in {"owed", "stopping", "admitting"}, Fate(c.seq) # "admitting" => Promise!InOrder(c.seq)
    PROVE  PInv' /\ Promise!Next
<1>1. c.seq \in 1..Len(rows) /\ c.seq \in 1..MaxSeq /\ Len(rows) \in Nat /\ takes \in [1..MaxSeq -> Nat]
    BY CallRanges, Ranges
<1>2. Behind(c.seq)
    BY DEF PInv, CallFits, AdmitFits
<1>3. TakesKept' /\ takes' = [takes EXCEPT ![c.seq] = 1]
    BY <1>1, <1>2, TakenOnce
<1>4. takes'[c.seq] = 1 /\ \A x \in 1..MaxSeq : x # c.seq => takes'[x] = takes[x]
    BY <1>1, <1>3
<1>5. ASSUME NEW d \in calls \ {c}, d.op = "admit"
      PROVE  (takes[d.seq] > 0 => takes'[d.seq] > 0) /\ (Retrying(d) => takes'[d.seq] = 0)
  <2>1. d.seq \in 1..MaxSeq /\ (Retrying(d) => takes[d.seq] = 0 /\ d.seq # c.seq)
      BY <1>5, CallRanges DEF PInv, CallFits, AdmitFits, Retrying
  <2>. QED BY <1>4, <2>1
<1>6. UNCHANGED <<rows, outbox, lane, stop, crossing>> /\ marks'.cutoff = marks.cutoff /\ marks.cutoff <= stop.cutoff
    BY DEF wsVars, Took, PInv, CutsKept
<1>7. a \in Answers /\ a # "done"
    BY DEF Answers
<1>8. \A d \in calls \ {c} : Retrying(d) => takes'[d.seq] = 0
    BY <1>5 DEF Retrying
<1>9. PInv'
    BY <1>3, <1>4, <1>5, <1>6, <1>7, <1>8, HandlerKeeps
<1>10. ASSUME NEW s \in 1..MaxSeq, s # c.seq PROVE Fate(s)' = Fate(s)
  <2>1. Admitting(s)' <=> Admitting(s)
      BY <1>6, <1>10, RepliedAdmitting
  <2>. QED BY <1>4, <1>6, <1>10, <2>1, FateStays
<1>11. Fate(c.seq)' = "taken"
    BY <1>1, <1>4, <1>6 DEF Fate
<1>12. Promise!Next
    BY <1>1, <1>3, <1>10, <1>11, Takes
<1>. QED BY <1>9, <1>12

LEMMA AdmitTurnTakes ==
    ASSUME IInv, PInv, NEW c \in calls, AdmitTurn(c)
    PROVE  PInv' /\ Promise!Next
<1>1. /\ c.op = "admit" /\ c.phase = "out" /\ Kind[rows[c.seq]] = "turn" /\ MarkOf(c.seq) = "new"
      /\ Held(c.seq) /\ Took(c.seq, 0) /\ calls' = Replied(c, "taken") /\ UNCHANGED <<wsVars, ran, cancelled, answered>>
    BY DEF AdmitTurn, Arrives
<1>2. /\ takes[c.seq] = 0 /\ (\A x \in 1..MaxSeq : takes[x] > 0 => x < c.seq)
      /\ ~Admitting(c.seq) => Fate(c.seq) \in {"owed", "stopping"}
    BY <1>1, NotTaken
<1>3. ASSUME NEW d \in calls, d.op = "admit", d.seq = c.seq PROVE d.phase # "in"
    BY <1>1, <1>3 DEF PInv, CallFits, AdmitFits
<1>4. ~Admitting(c.seq)
    BY <1>3 DEF Admitting
<1>5. \A d \in calls : Retrying(d) => d.seq # c.seq
    BY <1>3 DEF Retrying
<1>6. Promise!InOrder(c.seq)
    BY <1>2 DEF Promise!InOrder, Promise!Seqs
<1>. QED BY <1>1, <1>2, <1>4, <1>5, <1>6, ReplyTakes

LEMMA RetrySettlesTakes ==
    ASSUME IInv, PInv, NEW c \in calls, RetrySettles(c)
    PROVE  PInv' /\ Promise!Next
<1>1. /\ c.op = "admit" /\ c.phase = "in" /\ Kind[rows[c.seq]] = "retry"
      /\ Held(c.seq) /\ Took(c.seq, c.seq) /\ calls' = Replied(c, "applied") /\ UNCHANGED <<wsVars, ran, cancelled, answered>>
    BY DEF RetrySettles
<1>2. takes[c.seq] = 0 /\ Retrying(c)
    BY <1>1 DEF PInv, CallFits, AdmitFits, Retrying
<1>3. \A d \in calls \ {c} : ~Retrying(d)
    BY <1>2 DEF PInv, OneRetry
<1>4. c.seq \in 1..Len(rows) /\ Len(rows) \in Nat
    BY <1>1, CallRanges, Ranges
<1>5. Fate(c.seq) = "admitting"
    BY <1>1, <1>2, <1>4 DEF Fate
<1>. QED BY <1>1, <1>2, <1>3, <1>5, ReplyTakes

LEMMA WordsTakenKeeps ==
    ASSUME IInv, PInv, NEW c \in calls, WordsTaken(c)
    PROVE  PInv' /\ UNCHANGED Promise!vars
<1>1. /\ c.op = "admit" /\ c.phase = "in" /\ Kind[rows[c.seq]] = "words" /\ Took(c.seq, 0) /\ calls' = Replied(c, "taken")
      /\ UNCHANGED <<rows, outbox, lane, stop, crossing, held, ran, cancelled, answered, takes>>
    BY DEF WordsTaken, wsVars, histVars
<1>2. takes[c.seq] > 0 \/ c.seq \in answered
    BY <1>1 DEF PInv, CallFits, AdmitFits
<1>3. Behind(c.seq) /\ Ahead' = Ahead
    BY <1>1 DEF PInv, CallFits, AdmitFits, Ahead, Passing
<1>4. c.seq \in Nat /\ c.seq <= Len(rows) /\ marks.taken \in Nat /\ Len(rows) \in Nat
    BY <1>1, CallRanges, Ranges
<1>5. marks'.taken \in {marks.taken, c.seq} /\ marks.taken <= marks'.taken /\ marks'.cutoff = marks.cutoff
  <2>1. marks'.taken = Max({marks.taken, c.seq}) /\ marks'.cutoff = marks.cutoff
      BY <1>1 DEF Took
  <2>. QED BY <1>4, <2>1, MaxOfTwo
<1>6. TakesKept'
  <2>1. ASSUME NEW s \in 1..MaxSeq, takes'[s] > 0 PROVE Taken(s)'
    <3>1. Taken(s)
        BY <1>1, <2>1 DEF PInv, TakesKept
    <3>2. s <= marks.taken => s <= marks'.taken
        BY <1>4, <1>5
    <3>. QED BY <1>1, <1>3, <3>1, <3>2 DEF Taken, Behind, Known
  <2>2. Behind(marks.taken)'
      BY <1>3, <1>5 DEF PInv, TakesKept, Behind
  <2>3. marks'.taken <= Len(rows') /\ (marks'.taken # 0 => takes'[marks'.taken] > 0 \/ marks'.taken \in answered')
      BY <1>1, <1>2, <1>4, <1>5 DEF PInv, TakesKept
  <2>4. \A s \in 1..Len(rows') : takes'[s] > 0 \/ s \in outbox' \/ s \in cancelled' \/ s \in answered'
      BY <1>1 DEF PInv, TakesKept
  <2>5. cancelled' \subseteq 1..Len(rows') /\ outbox' \cap cancelled' = {}
      BY <1>1 DEF PInv, TakesKept
  <2>. QED BY <2>1, <2>2, <2>3, <2>4, <2>5 DEF TakesKept
<1>7. \A d \in calls \ {c} : Retrying(d) => takes[d.seq] = 0
    BY DEF PInv, CallFits, AdmitFits, Retrying
<1>8. "taken" \in Answers /\ "taken" # "done" /\ marks'.cutoff <= stop.cutoff
    BY <1>5 DEF Answers, PInv, CutsKept
<1>9. PInv'
    BY <1>1, <1>2, <1>6, <1>7, <1>8, HandlerKeeps
<1>10. \A s \in 1..MaxSeq : Admitting(s)' <=> Admitting(s)
    BY <1>1, RepliedAdmitting
<1>11. UNCHANGED Promise!vars
    BY <1>1, <1>5, <1>10, QuietFates
<1>. QED BY <1>9, <1>11

\* Only a Retry awaits unheld, and it alone.
LEMMA AdmitAwaitsAdmits ==
    ASSUME IInv, PInv, Plain, NEW c \in calls, AdmitAwaits(c)
    PROVE  PInv' /\ Promise!Next
<1>1. /\ c.op = "admit" /\ c.phase = "out" /\ Kind[rows[c.seq]] \in {"offer", "retry"} /\ MarkOf(c.seq) = "new"
      /\ calls' = Awaiting(c) /\ UNCHANGED <<wsVars, isoVars, histVars>>
    BY DEF AdmitAwaits, Arrives
<1>2. c.seq \in 1..Len(rows) /\ c.seq \in 1..MaxSeq /\ rows[c.seq] \in Ids
    BY <1>1, AtDoor, Ranges
<1>3. Kind[rows[c.seq]] = "retry"
    BY <1>1, <1>2 DEF Plain
<1>4. \A d \in calls : ~Retrying(d)
    BY <1>3 DEF AdmitAwaits, Retrying
<1>5. /\ takes[c.seq] = 0 /\ (\A x \in 1..MaxSeq : takes[x] > 0 => x < c.seq)
      /\ ~Admitting(c.seq) => Fate(c.seq) \in {"owed", "stopping"}
    BY <1>1, <1>3, NotTaken
<1>6. UNCHANGED <<rows, outbox, lane, marks, held, ran, cancelled, answered, takes>>
    BY <1>1 DEF wsVars, isoVars, histVars
<1>7. TakesKept'
  <2>1. Ahead' = Ahead
      BY <1>6 DEF Ahead, Passing
  <2>. QED BY <1>6, <2>1, TakesStay DEF Known
<1>8. PInv'
    BY <1>1, <1>3, <1>4, <1>5, <1>6, <1>7, AwaitKeeps
<1>9. ~Admitting(c.seq)
    BY <1>3, <1>4 DEF Admitting, Retrying
<1>10. PICK m : m = Moved(c, "in", c.answer)
    OBVIOUS
<1>11. m.op = "admit" /\ m.seq = c.seq /\ m.phase = "in" /\ calls' = (calls \ {c}) \cup {m}
    BY <1>1, <1>10 DEF Moved, Awaiting
<1>12. ASSUME NEW s \in 1..MaxSeq, s # c.seq PROVE Fate(s)' = Fate(s)
  <2>1. Admitting(s)' <=> Admitting(s)
      BY <1>1, <1>6, <1>11, <1>12 DEF Admitting
  <2>. QED BY <1>6, <2>1, FateStays
<1>13. Fate(c.seq)' = "admitting"
    BY <1>2, <1>3, <1>5, <1>6, <1>11, Ranges DEF Fate
<1>14. Promise!InOrder(c.seq)
    BY <1>5 DEF Promise!InOrder, Promise!Seqs
<1>15. Promise!Admit(c.seq)
    BY <1>2, <1>5, <1>6, <1>9, <1>12, <1>13, <1>14, OneFate DEF Promise!Admit
<1>16. Promise!Next
    BY <1>2, <1>15 DEF Promise!Next, Promise!Seqs
<1>. QED BY <1>8, <1>16

LEMMA Abandons ==
    ASSUME IInv, PInv, takes' = takes,
           \A s \in 1..MaxSeq : \/ Fate(s)' = Fate(s)
                                \/ Fate(s) = "admitting" /\ Fate(s)' \in {"owed", "stopping", "answered", "cancelled"}
    PROVE  Promise!Next
<1>. DEFINE f == [s \in 1..MaxSeq |-> Fate(s)]
<1>1. PICK g : g = f'
    OBVIOUS
<1>2. g \in [1..MaxSeq -> Promise!Fates]
  <2>1. \A s \in 1..MaxSeq : Fate(s) \in Promise!Fates
      BY FateTyped
  <2>2. \A s \in 1..MaxSeq : Fate(s)' \in Promise!Fates
      BY <2>1 DEF Promise!Fates
  <2>. QED BY <1>1, <2>2
<1>3. \A s \in 1..MaxSeq : \/ g[s] = f[s]
                           \/ f[s] = "admitting" /\ g[s] \in {"owed", "stopping", "answered", "cancelled"}
    BY <1>1
<1>4. Promise!Abandon
    BY <1>1, <1>2, <1>3 DEF Promise!Abandon, Promise!Seqs
<1>. QED BY <1>4 DEF Promise!Next

\* What is admitted no more is owed, cancelled or answered.
LEMMA AdmittedNoMore ==
    ASSUME IInv, PInv, NEW s \in 1..MaxSeq, Fate(s) = "admitting", ~Admitting(s)',
           UNCHANGED <<rows, outbox, marks, cancelled, answered, takes>>
    PROVE  Fate(s)' \in {"owed", "stopping", "answered", "cancelled"}
<1>1. ~(s > Len(rows)) /\ ~(takes[s] > 0)
    BY DEF Fate
<1>2. s \in 1..Len(rows)
    BY <1>1, Ranges
<1>3. s \in outbox \/ s \in cancelled \/ s \in answered
    BY <1>1, <1>2 DEF PInv, TakesKept
<1>. QED BY <1>1, <1>3 DEF Fate, Admitting

LEMMA RetryRefusedKeeps ==
    ASSUME IInv, PInv, NEW c \in calls, RetryRefused(c)
    PROVE  PInv' /\ (Promise!Next \/ UNCHANGED Promise!vars)
<1>1. /\ c.op = "admit" /\ c.phase \in {"out", "in"} /\ Kind[rows[c.seq]] = "retry" /\ calls' = Replied(c, "refused")
      /\ UNCHANGED <<wsVars, isoVars, cancelled, answered, takes>>
    BY DEF RetryRefused, histVars
<1>2. "refused" \in Answers /\ "refused" # "done" /\ "refused" \notin Kept
    BY DEF Answers, Kept
<1>3. PInv' /\ (c.phase = "out" => UNCHANGED Promise!vars)
    BY <1>1, <1>2, QuietHandler
<1>4. ASSUME c.phase = "in" PROVE Promise!Next
  <2>1. UNCHANGED <<rows, outbox, marks, cancelled, answered, takes>>
      BY <1>1 DEF wsVars, isoVars
  <2>2. \A d \in calls \ {c} : ~Retrying(d)
      BY <1>1, <1>4 DEF PInv, OneRetry, Retrying
  <2>3. PICK m : m = Moved(c, "back", "refused")
      OBVIOUS
  <2>4. m.phase = "back" /\ calls' \subseteq (calls \ {c}) \cup {m}
      BY <1>1, <2>3 DEF Moved, Replied
  <2>5. ~Admitting(c.seq)'
      BY <1>1, <2>1, <2>2, <2>4 DEF Admitting, Retrying
  <2>6. ASSUME NEW s \in 1..MaxSeq
        PROVE  \/ Fate(s)' = Fate(s)
               \/ Fate(s) = "admitting" /\ Fate(s)' \in {"owed", "stopping", "answered", "cancelled"}
    <3>1. CASE s # c.seq
      <4>1. Admitting(s)' <=> Admitting(s)
          BY <1>1, <2>1, <3>1, RepliedAdmitting
      <4>. QED BY <2>1, <4>1, FateStays
    <3>2. CASE s = c.seq
      <4>1. ~Admitting(s)'
          BY <2>5, <3>2 DEF Admitting
      <4>2. takes[c.seq] = 0 /\ c.seq \in 1..Len(rows) /\ Len(rows) \in Nat
          BY <1>1, <1>4, CallRanges, Ranges DEF PInv, CallFits, AdmitFits
      <4>3. Fate(s) = "admitting"
          BY <1>1, <1>4, <3>2, <4>2 DEF Fate
      <4>. QED BY <2>1, <4>1, <4>3, AdmittedNoMore
    <3>. QED BY <3>1, <3>2
  <2>. QED BY <2>1, <2>6, Abandons
<1>. QED BY <1>1, <1>3, <1>4

LEMMA RunsKeeps ==
    ASSUME IInv, PInv, NEW i \in Ids, Runs(i)
    PROVE  PInv' /\ UNCHANGED Promise!vars
<1>1. UNCHANGED <<rows, outbox, stop, lane, crossing, calls, marks, cancelled, answered, takes>>
    BY DEF Runs, wsVars, histVars
<1>2. \A j \in Ids : Kind[j] = "words" /\ Known(j) => Known(j)'
    BY DEF Runs, Known
<1>3. PassKept' /\ Ahead' = Ahead
    BY <1>1, PassStays DEF PInv
<1>4. CutsKept'
    BY <1>1 DEF PInv, CutsKept
<1>5. TakesKept'
    BY <1>1, <1>2, <1>3, TakesStay
<1>6. ASSUME NEW c \in calls PROVE CallFits(c)'
  <2>1. Retrying(c) => takes[c.seq] = 0
      BY DEF PInv, CallFits, AdmitFits, Retrying
  <2>. QED BY <1>1, <1>3, <2>1, CallStaysFit, Ranges
<1>7. OneRetry'
    BY <1>1 DEF PInv, OneRetry, Retrying
<1>8. \A s \in 1..MaxSeq : Admitting(s)' <=> Admitting(s)
    BY <1>1 DEF Admitting
<1>9. UNCHANGED Promise!vars
    BY <1>1, <1>8, QuietFates
<1>. QED BY <1>1, <1>3, <1>4, <1>5, <1>6, <1>7, <1>9 DEF PInv

-----------------------------------------------------------------------------
(* The Stop at the isolate, and the faults. *)

\* What a Stop hands back was taken, and its mark had not moved.
LEMMA HandsBack ==
    ASSUME IInv, PInv, NEW c \in calls, StopArrives(c)
    PROVE  \E back \in SUBSET (1..Len(rows)) :
               /\ \A s \in back : takes[s] > 0 /\ s > marks.taken
               /\ takes' = [s \in 1..MaxSeq |-> IF s \in back THEN 0 ELSE takes[s]]
               /\ answered' = answered \cup back
               /\ \A s \in 1..Len(rows) : takes[s] > 0 /\ s > marks.taken /\ s \notin back /\ Kind[rows[s]] = "words" /\ Known(rows[s])
                                        => Known(rows[s])'
<1>1. PICK handed \in SUBSET {i \in held : Kind[i] = "words"} :
          /\ held' = {i \in held : Kind[i] \in {"words", "retry"}} \ handed
          /\ takes' = [s \in 1..MaxSeq |->
                           IF s \in {x \in 1..Len(rows) : takes[x] > 0 /\ rows[x] \in handed /\ x > marks.taken}
                           THEN 0 ELSE takes[s]]
          /\ answered' = answered \cup {x \in 1..Len(rows) : takes[x] > 0 /\ rows[x] \in handed /\ x > marks.taken}
    BY DEF StopArrives
<1>2. PICK back : back = {x \in 1..Len(rows) : takes[x] > 0 /\ rows[x] \in handed /\ x > marks.taken}
    OBVIOUS
<1>3. rows' = rows /\ ran' = ran
    BY DEF StopArrives, wsVars
<1>4. \A s \in 1..Len(rows) : takes[s] > 0 /\ s > marks.taken /\ s \notin back /\ Kind[rows[s]] = "words" /\ Known(rows[s])
                             => Known(rows[s])'
    BY <1>1, <1>2, <1>3 DEF Known
<1>5. back \in SUBSET (1..Len(rows)) /\ \A s \in back : takes[s] > 0 /\ s > marks.taken
    BY <1>2
<1>6. takes' = [s \in 1..MaxSeq |-> IF s \in back THEN 0 ELSE takes[s]] /\ answered' = answered \cup back
    BY <1>1, <1>2
<1>. QED BY <1>4, <1>5, <1>6

LEMMA StopArrivesCuts ==
    ASSUME IInv, PInv, NEW c \in calls, StopArrives(c)
    PROVE  /\ c.op # "admit" /\ c.phase = "out" /\ calls' = Replied(c, "done")
           /\ UNCHANGED <<rows, outbox, lane, stop, crossing, cancelled>>
           /\ marks'.taken = marks.taken /\ marks.cutoff <= marks'.cutoff /\ marks'.cutoff <= stop.cutoff /\ marks'.cutoff \in Nat
<1>1. /\ c.op # "admit" /\ c.phase = "out" /\ calls' = Replied(c, "done")
      /\ UNCHANGED <<rows, outbox, lane, stop, crossing, cancelled>>
      /\ marks' = [marks EXCEPT !.cutoff = Max({@, c.seq})]
    BY DEF StopArrives, wsVars
<1>2. marks.cutoff \in Nat /\ c.seq \in Nat
    BY CallRanges, Ranges
<1>3. PICK x : x = Max({marks.cutoff, c.seq})
    OBVIOUS
<1>4. x \in {marks.cutoff, c.seq} /\ marks.cutoff <= x
    BY <1>2, <1>3, MaxOfTwo
<1>5. marks.cutoff <= stop.cutoff /\ c.seq <= stop.cutoff
    BY <1>1 DEF PInv, CutsKept, CallFits
<1>6. marks'.taken = marks.taken /\ marks'.cutoff = x
  <2>1. marks' = [marks EXCEPT !.cutoff = x]
      BY <1>1, <1>3
  <2>. QED BY <2>1 DEF IInv, Typed, TypeOK
<1>. QED BY <1>1, <1>2, <1>4, <1>5, <1>6

LEMMA StopArrivesKeeps ==
    ASSUME IInv, PInv, NEW c \in calls, StopArrives(c)
    PROVE  PInv' /\ Promise!Next
<1>1. /\ c.op # "admit" /\ c.phase = "out" /\ calls' = Replied(c, "done")
      /\ UNCHANGED <<rows, outbox, lane, stop, crossing, cancelled>>
      /\ marks'.taken = marks.taken /\ marks.cutoff <= marks'.cutoff /\ marks'.cutoff <= stop.cutoff /\ marks'.cutoff \in Nat
    BY StopArrivesCuts
<1>2. PICK back \in SUBSET (1..Len(rows)) :
          /\ \A s \in back : takes[s] > 0 /\ s > marks.taken
          /\ takes' = [s \in 1..MaxSeq |-> IF s \in back THEN 0 ELSE takes[s]]
          /\ answered' = answered \cup back
          /\ \A s \in 1..Len(rows) : takes[s] > 0 /\ s > marks.taken /\ s \notin back /\ Kind[rows[s]] = "words" /\ Known(rows[s])
                                     => Known(rows[s])'
    BY HandsBack
<1>3. /\ Len(rows) \in Nat /\ MaxSeq \in Nat /\ marks.taken \in Nat /\ takes \in [1..MaxSeq -> Nat] /\ marks.cutoff \in Nat
      /\ \A s \in 1..Len(rows) : s \in 1..MaxSeq
    BY Ranges
<1>4. Ahead' = Ahead
    BY <1>1 DEF Ahead, Passing
<1>5. \A s \in 1..MaxSeq : takes'[s] = IF s \in back THEN 0 ELSE takes[s]
    BY <1>2
<1>6. TakesKept'
  <2>1. ASSUME NEW s \in 1..MaxSeq, takes'[s] > 0 PROVE Taken(s)'
    <3>1. s \notin back /\ takes'[s] = takes[s]
        BY <1>5, <2>1
    <3>2. Taken(s)
        BY <2>1, <3>1 DEF PInv, TakesKept
    <3>3. s \in 1..Len(rows)
        BY <1>3, <3>2 DEF Taken
    <3>4. s <= marks.taken \/ (s > marks.taken /\ Kind[rows[s]] = "words" /\ Known(rows[s])')
        BY <1>2, <1>3, <2>1, <3>1, <3>2, <3>3 DEF Taken
    <3>5. Behind(s)' /\ takes'[s] = 1 /\ s <= Len(rows')
        BY <1>1, <1>4, <3>1, <3>2 DEF Taken, Behind
    <3>. QED BY <1>1, <3>4, <3>5 DEF Taken, Known
  <2>2. ASSUME NEW s \in 1..Len(rows') PROVE takes'[s] > 0 \/ s \in outbox' \/ s \in cancelled' \/ s \in answered'
    <3>1. takes[s] > 0 \/ s \in outbox \/ s \in cancelled \/ s \in answered
        BY <1>1 DEF PInv, TakesKept
    <3>2. s \in 1..MaxSeq
        BY <1>1, <1>3
    <3>. QED BY <1>1, <1>2, <1>5, <3>1, <3>2
  <2>3. Behind(marks.taken)' /\ marks'.taken <= Len(rows')
      BY <1>1, <1>4 DEF PInv, TakesKept, Behind
  <2>4. marks'.taken # 0 => takes'[marks'.taken] > 0 \/ marks'.taken \in answered'
    <3>1. marks.taken <= Len(rows) /\ (marks.taken # 0 => takes[marks.taken] > 0 \/ marks.taken \in answered)
        BY DEF PInv, TakesKept
    <3>2. marks.taken # 0 => marks.taken \in 1..MaxSeq
        BY <1>3, <3>1
    <3>3. marks.taken \notin back
        BY <1>2, <1>3
    <3>. QED BY <1>1, <1>2, <1>5, <3>1, <3>2, <3>3
  <2>5. cancelled' \subseteq 1..Len(rows') /\ outbox' \cap cancelled' = {}
      BY <1>1 DEF PInv, TakesKept
  <2>. QED BY <2>1, <2>2, <2>3, <2>4, <2>5 DEF TakesKept
<1>7. ASSUME NEW d \in calls, d.op = "admit"
      PROVE  (takes[d.seq] > 0 => takes'[d.seq] > 0 \/ d.seq \in answered') /\ (Retrying(d) => takes'[d.seq] = 0)
  <2>1. d.seq \in 1..MaxSeq /\ (Retrying(d) => takes[d.seq] = 0)
      BY <1>7, CallRanges DEF PInv, CallFits, AdmitFits, Retrying
  <2>. QED BY <1>2, <1>5, <2>1
<1>8. "done" \in Answers /\ answered \subseteq answered' /\ \A d \in calls \ {c} : Retrying(d) => takes'[d.seq] = 0
    BY <1>2, <1>7 DEF Answers, Retrying
<1>9. PInv'
    BY <1>1, <1>6, <1>7, <1>8, HandlerKeeps
<1>10. ASSUME NEW s \in 1..MaxSeq PROVE Admitting(s)' <=> Admitting(s)
    BY <1>1, RepliedAdmitting
<1>11. ASSUME NEW s \in back
       PROVE  /\ Fate(s) = "taken" /\ s \in 1..MaxSeq
              /\ Fate(s)' \in {"owed", "stopping", "admitting", "answered", "cancelled"}
  <2>1. s \in 1..MaxSeq /\ ~(s > Len(rows)) /\ takes[s] > 0 /\ s \in answered'
      BY <1>2, <1>3
  <2>2. ~(takes'[s] > 0)
      BY <1>5, <2>1
  <2>. QED BY <1>1, <2>1, <2>2 DEF Fate
<1>12. ASSUME NEW s \in 1..MaxSeq, s \notin back
       PROVE  Fate(s)' = Fate(s) \/ (Fate(s) = "stopping" /\ Fate(s)' = "cancelled")
  <2>1. /\ takes'[s] = takes[s] /\ (s \in answered' <=> s \in answered) /\ (Admitting(s)' <=> Admitting(s))
        /\ s <= marks.cutoff => s <= marks'.cutoff
      BY <1>1, <1>2, <1>3, <1>5, <1>10, <1>12
  <2>. QED BY <1>1, <2>1 DEF Fate, Admitting
<1>13. Promise!HandBack
  <2>. DEFINE f == [s \in 1..MaxSeq |-> Fate(s)]
  <2>1. PICK g : g = f'
      OBVIOUS
  <2>2. \A s \in 1..MaxSeq : g[s] = Fate(s)'
      BY <2>1
  <2>3. back \in SUBSET {s \in 1..MaxSeq : f[s] = "taken"}
      BY <1>11
  <2>4. ASSUME NEW s \in 1..MaxSeq
        PROVE  /\ g[s] \in Promise!Fates
               /\ IF s \in back THEN g[s] \notin {"uncommitted", "taken"}
                  ELSE g[s] = IF f[s] = "stopping" /\ g[s] = "cancelled" THEN "cancelled" ELSE f[s]
    <3>1. CASE s \in back
        BY <1>11, <2>2, <3>1 DEF Promise!Fates
    <3>2. CASE s \notin back
      <4>1. Fate(s) \in Promise!Fates
          BY FateTyped
      <4>. QED BY <1>12, <2>2, <3>2, <4>1 DEF Promise!Fates
    <3>. QED BY <3>1, <3>2
  <2>5. g \in [1..MaxSeq -> Promise!Fates]
      BY <2>1, <2>4
  <2>6. takes' = [s \in 1..MaxSeq |-> IF s \in back THEN 0 ELSE takes[s]]
      BY <1>2
  <2>. QED BY <2>1, <2>3, <2>4, <2>5, <2>6 DEF Promise!HandBack, Promise!Seqs
<1>. QED BY <1>9, <1>13 DEF Promise!Next

LEMMA WorkspaceResetsKeeps ==
    ASSUME IInv, PInv, Plain, WorkspaceResets
    PROVE  PInv' /\ UNCHANGED Promise!vars
<1>1. /\ lane'.step = "idle" /\ lane'.at = 0 /\ lane'.rest = {} /\ crossing' = {}
      /\ UNCHANGED <<rows, outbox, stop, marks, held, ran, cancelled, answered, takes>>
    BY DEF WorkspaceResets, Idle, Pass, isoVars, histVars
<1>2. calls' = {[c EXCEPT !.heard = FALSE] : c \in {d \in calls : d.phase = "in"}}
    BY DEF Plain, WorkspaceResets
<1>3. ASSUME NEW m \in calls'
      PROVE  \E c \in calls : /\ c.phase = "in" /\ m = [c EXCEPT !.heard = FALSE]
                              /\ m.op = c.op /\ m.seq = c.seq /\ m.phase = "in" /\ ~m.heard
  <2>1. PICK c \in calls : c.phase = "in" /\ m = [c EXCEPT !.heard = FALSE]
      BY <1>2
  <2>2. c \in Call
      BY CallRanges
  <2>3. m.op = c.op /\ m.seq = c.seq /\ m.phase = "in" /\ ~m.heard
      BY <2>1, <2>2 DEF Call
  <2>. QED BY <2>1, <2>3
<1>4. ASSUME NEW c \in calls, c.phase = "in"
      PROVE  \E m \in calls' : m.op = c.op /\ m.seq = c.seq /\ m.phase = "in"
  <2>1. PICK m : m = [c EXCEPT !.heard = FALSE]
      OBVIOUS
  <2>2. m \in calls'
      BY <1>2, <1>4, <2>1
  <2>3. c \in Call
      BY CallRanges
  <2>4. m.op = c.op /\ m.seq = c.seq /\ m.phase = "in"
      BY <1>4, <2>1, <2>3 DEF Call
  <2>. QED BY <2>2, <2>4
<1>5. Passing' = {} /\ Ahead' = outbox /\ Ahead' \subseteq Ahead
    BY <1>1 DEF Passing, Ahead
<1>6. PassKept'
    BY <1>1, <1>5 DEF PInv, PassKept
<1>7. CutsKept'
    BY <1>1 DEF PInv, CutsKept
<1>8. TakesKept'
    BY <1>1, <1>5, TakesStay DEF Known
<1>9. ASSUME NEW m \in calls' PROVE CallFits(m)'
  <2>1. PICK c \in calls : c.phase = "in" /\ m.op = c.op /\ m.seq = c.seq /\ m.phase = "in" /\ ~m.heard
      BY <1>3
  <2>2. c.op = "admit" /\ AdmitFits(c)
      BY <2>1 DEF PInv, CallFits
  <2>3. AdmitFits(m)'
      BY <1>1, <1>5, <2>1, <2>2 DEF AdmitFits, Behind
  <2>. QED BY <2>1, <2>2, <2>3 DEF CallFits
<1>10. OneRetry'
  <2>1. SUFFICES ASSUME NEW m \in calls', NEW n \in calls', Retrying(m)', Retrying(n)' PROVE m = n
      BY DEF OneRetry
  <2>2. PICK c \in calls : c.phase = "in" /\ m = [c EXCEPT !.heard = FALSE] /\ m.op = c.op /\ m.seq = c.seq
      BY <1>3
  <2>3. PICK d \in calls : d.phase = "in" /\ n = [d EXCEPT !.heard = FALSE] /\ n.op = d.op /\ n.seq = d.seq
      BY <1>3
  <2>4. Retrying(c) /\ Retrying(d)
      BY <1>1, <2>1, <2>2, <2>3 DEF Retrying
  <2>5. c = d
      BY <2>4 DEF PInv, OneRetry
  <2>. QED BY <2>2, <2>3, <2>5
<1>11. \A s \in 1..MaxSeq : Admitting(s)' <=> Admitting(s)
    BY <1>1, <1>3, <1>4 DEF Admitting
<1>12. UNCHANGED Promise!vars
    BY <1>1, <1>11, QuietFates
<1>. QED BY <1>6, <1>7, <1>8, <1>9, <1>10, <1>12 DEF PInv

LEMMA IsolateDiesKeeps ==
    ASSUME IInv, PInv, IsolateDies
    PROVE  PInv' /\ Promise!Next
<1>1. UNCHANGED <<rows, outbox, lane, stop, crossing, marks, held, ran, cancelled, answered, takes>>
    BY DEF IsolateDies, wsVars, isoVars, histVars
<1>2. ASSUME NEW m \in calls'
      PROVE  m.phase # "in" /\ CallFits(m)'
  <2>1. PICK c \in calls : /\ c.phase # "in" \/ c.heard
                           /\ m = IF c.phase = "in" THEN Moved(c, "back", "failed") ELSE c
      BY DEF IsolateDies
  <2>2. CallFits(c)'
    <3>1. Retrying(c) => takes[c.seq] = 0
        BY DEF PInv, CallFits, AdmitFits, Retrying
    <3>2. Ahead' = Ahead /\ stop.cutoff \in Nat
        BY <1>1, Ranges DEF Ahead, Passing
    <3>. QED BY <1>1, <3>1, <3>2, CallStaysFit
  <2>3. CASE c.phase # "in"
    <3>1. m = c
        BY <2>1, <2>3
    <3>. QED BY <2>2, <2>3, <3>1 DEF CallFits, AdmitFits, Behind
  <2>4. CASE c.phase = "in"
    <3>1. m.op = c.op /\ m.seq = c.seq /\ m.phase = "back" /\ m.answer = "failed" /\ m.heard
        BY <2>1, <2>4 DEF Moved
    <3>2. m.op = "admit" /\ AdmitFits(c)'
        BY <2>2, <2>4, <3>1 DEF CallFits
    <3>3. "failed" \in Answers \ {"done"} /\ "failed" \notin Kept
        BY DEF Answers, Kept
    <3>4. AdmitFits(m)'
        BY <2>1, <2>4, <3>1, <3>2, <3>3 DEF AdmitFits, Behind
    <3>. QED BY <3>1, <3>2, <3>4 DEF CallFits
  <2>. QED BY <2>3, <2>4
<1>3. PassKept' /\ Ahead' = Ahead
    BY <1>1, PassStays DEF PInv
<1>4. CutsKept'
    BY <1>1 DEF PInv, CutsKept
<1>5. TakesKept'
    BY <1>1, <1>3, TakesStay DEF Known
<1>6. OneRetry'
    BY <1>2 DEF OneRetry, Retrying
<1>7. PInv'
    BY <1>2, <1>3, <1>4, <1>5, <1>6 DEF PInv
<1>8. ASSUME NEW s \in 1..MaxSeq
      PROVE  \/ Fate(s)' = Fate(s)
             \/ Fate(s) = "admitting" /\ Fate(s)' \in {"owed", "stopping", "answered", "cancelled"}
  <2>1. ~Admitting(s)'
      BY <1>2 DEF Admitting
  <2>2. CASE Fate(s) = "admitting"
      BY <1>1, <2>1, <2>2, AdmittedNoMore
  <2>3. CASE Fate(s) # "admitting"
      BY <1>1, <2>1, <2>3 DEF Fate, Admitting
  <2>. QED BY <2>2, <2>3
<1>9. Promise!Next
    BY <1>1, <1>8, Abandons
<1>. QED BY <1>7, <1>9

-----------------------------------------------------------------------------
(* The theorem. *)

LEMMA InitKeeps == Init => PInv /\ Promise!Init
<1>. SUFFICES ASSUME Init PROVE PInv /\ Promise!Init
    OBVIOUS
<1>1. /\ rows = <<>> /\ Len(rows) = 0 /\ outbox = {} /\ calls = {} /\ crossing = {} /\ cancelled = {} /\ answered = {}
      /\ takes = [s \in 1..MaxSeq |-> 0]
      /\ lane.step = "idle" /\ lane.at = 0 /\ lane.rest = {} /\ marks.taken = 0 /\ marks.cutoff = 0 /\ stop.cutoff = 0
    BY DEF Init, Idle, Pass
<1>2. Passing = {} /\ Ahead = {} /\ MaxSeq \in Nat
    BY <1>1, DeliveriesAssumption DEF Passing, Ahead
<1>3. PassKept /\ CutsKept /\ OneRetry
    BY <1>1, <1>2 DEF PassKept, CutsKept, OneRetry
<1>4. TakesKept
    BY <1>1, <1>2 DEF TakesKept, Behind
<1>5. PInv
    BY <1>1, <1>3, <1>4 DEF PInv
<1>6. \A s \in 1..MaxSeq : Fate(s) = "uncommitted"
    BY <1>1, <1>2 DEF Fate
<1>7. Promise!Init
    BY <1>1, <1>6 DEF Promise!Init, Promise!Seqs
<1>. QED BY <1>5, <1>7

LEMMA NextKeeps ==
    ASSUME Plain, IInv, IInv', PInv, Next
    PROVE  PInv' /\ (Promise!Next \/ UNCHANGED Promise!vars)
<1>1. CASE \E i \in Ids : Commit(i) \/ Runs(i)
    BY <1>1, CommitKeeps, RunsKeeps
<1>2. CASE StopAgent \/ \E n \in crossing : SendStop(n)
    BY <1>2, StopAgentKeeps, SendStopKeeps
<1>3. CASE Retire \/ WakeFires \/ RestReported
    BY <1>3, NothingMoves DEF Retire, WakeFires, RestReported
<1>4. CASE RetireCancels
    BY <1>4, RetirementKeeps
<1>5. CASE Lane
  <2>1. CASE StartPass \/ EndPass \/ CrossRetired \/ Cross
      BY <2>1, StartPassKeeps, EndPassKeeps, RetirementKeeps, CrossKeeps
  <2>2. ASSUME NEW c \in calls, StopAnswered(c) PROVE PInv' /\ UNCHANGED Promise!vars
      BY <2>2, StopAnsweredKeeps
  <2>3. ASSUME NEW c \in calls, CrossAnswered(c) PROVE PInv' /\ (Promise!Next \/ UNCHANGED Promise!vars)
    <3>1. CASE c.answer = "failed"
        BY <2>3, <3>1, FailedCrossingKeeps
    <3>2. CASE c.answer # "failed"
      <4>1. PInv'
          BY <2>3, <3>2, AnsweredKeeps
      <4>. QED BY <2>3, <3>2, <4>1, AnsweredOnce
    <3>. QED BY <3>1, <3>2
  <2>. QED BY <1>5, <2>1, <2>2, <2>3 DEF Lane
<1>6. CASE Isolate
  <2>1. PICK c \in calls : \/ AdmitMarked(c) \/ AdmitKnown(c) \/ AdmitWords(c) \/ WordsTaken(c)
                           \/ AdmitTurn(c) \/ AdmitAwaits(c) \/ RetryRefused(c)
                           \/ OfferSettles(c) \/ RetrySettles(c) \/ StopArrives(c)
      BY <1>6 DEF Isolate
  <2>2. CASE AdmitMarked(c) \/ AdmitKnown(c) \/ WordsTaken(c)
      BY <2>2, AdmitMarkedKeeps, AdmitKnownKeeps, WordsTakenKeeps
  <2>3. CASE AdmitWords(c) \/ AdmitTurn(c) \/ RetrySettles(c)
      BY <2>3, AdmitWordsTakes, AdmitTurnTakes, RetrySettlesTakes
  <2>4. CASE AdmitAwaits(c) \/ RetryRefused(c) \/ StopArrives(c)
      BY <2>4, AdmitAwaitsAdmits, RetryRefusedKeeps, StopArrivesKeeps
  <2>5. CASE OfferSettles(c)
    <3>1. c.op = "admit" /\ Kind[rows[c.seq]] = "offer"
        BY <2>5 DEF OfferSettles
    <3>2. rows[c.seq] \in Ids
        BY <3>1, CallRanges, Ranges
    <3>. QED BY <3>1, <3>2 DEF Plain
  <2>. QED BY <2>1, <2>2, <2>3, <2>4, <2>5
<1>7. CASE WorkspaceResets \/ IsolateDies \/ \E c \in calls : CallFails(c)
    BY <1>7, WorkspaceResetsKeeps, IsolateDiesKeeps, CallFailsKeeps
<1>. QED BY <1>1, <1>2, <1>3, <1>4, <1>5, <1>6, <1>7 DEF Next

LEMMA StepKeeps ==
    ASSUME Plain, IInv, IInv', PInv, [Next]_vars
    PROVE  PInv' /\ (Promise!Next \/ UNCHANGED Promise!vars)
<1>1. CASE Next
    BY <1>1, NextKeeps
<1>2. CASE UNCHANGED vars
    BY <1>2, NothingMoves DEF vars, wsVars
<1>. QED BY <1>1, <1>2

LEMMA PInvHolds ==
    ASSUME Plain
    PROVE  Spec => []PInv
<1>1. Init => PInv
    BY InitKeeps
<1>2. IInv /\ IInv' /\ PInv /\ [Next]_vars => PInv'
    BY StepKeeps
<1>. QED BY <1>1, <1>2, InvariantHolds, PTL DEF Spec

\* Every behaviour of the hand-over, its crashes, lost calls, refused calls and Stops included, is one
\* HandOver allows, where nothing is offered, no call begins after its sender's reset and no
\* id is asked again while the lane crosses it: a delivery is taken at most once, in commit
\* order, and never after it was answered or cancelled (DeliveryCoordinator.drain and cross,
\* PendingSendStore.markOf and took).
THEOREM HandOverKept ==
    ASSUME Plain
    PROVE  Spec => KeepsPromise
<1>1. Init => Promise!Init
    BY InitKeeps
<1>2. IInv /\ IInv' /\ PInv /\ [Next]_vars => [Promise!Next]_(Promise!vars)
    BY StepKeeps
<1>. QED BY <1>1, <1>2, InvariantHolds, PInvHolds, PTL DEF Spec, KeepsPromise, Promise!Spec

\* A step of the promise leaves what was answered or cancelled as it is.
LEMMA FinalFates ==
    ASSUME Promise!Next, NEW s \in 1..MaxSeq, Fate(s) \in {"answered", "cancelled"}
    PROVE  Fate(s)' = Fate(s)
<1>. DEFINE f == [x \in 1..MaxSeq |-> Fate(x)]
<1>1. PICK g, h : g = f' /\ h = f
    OBVIOUS
<1>2. g[s] = Fate(s)' /\ h[s] = Fate(s) /\ h \in [1..MaxSeq -> {h[x] : x \in 1..MaxSeq}]
    BY <1>1
<1>3. ASSUME NEW x \in 1..MaxSeq, Promise!Commit(x) \/ Promise!Admit(x) \/ Promise!Take(x) \/ Promise!Answer(x)
      PROVE  g[s] = h[s]
  <2>1. PICK v : g = [h EXCEPT ![x] = v] /\ h[x] \in {"uncommitted", "owed", "stopping", "admitting"}
      BY <1>1, <1>3 DEF Promise!Commit, Promise!Admit, Promise!Take, Promise!Answer
  <2>. QED BY <1>2, <2>1
<1>4. CASE Promise!Abandon
    BY <1>1, <1>2, <1>4 DEF Promise!Abandon, Promise!Seqs
<1>5. CASE Promise!HandBack
    BY <1>1, <1>2, <1>5 DEF Promise!HandBack, Promise!Seqs
<1>6. CASE Promise!Stop
    BY <1>1, <1>2, <1>6 DEF Promise!Stop, Promise!Seqs
<1>7. CASE Promise!Cut
    BY <1>1, <1>2, <1>7 DEF Promise!Cut, Promise!Seqs
<1>. QED BY <1>2, <1>3, <1>4, <1>5, <1>6, <1>7 DEF Promise!Next, Promise!Seqs

\* What was answered or cancelled stays so: neither a late answer nor a retried crossing, a
\* reset or a hand back by a Stop reopens a delivery whose row is gone from the outbox
\* (AgentDeliveries.paid and cancel, PendingSendStore.markOf).
THEOREM SettledForGood ==
    ASSUME Plain
    PROVE  Spec => [][\A s \in 1..MaxSeq : Fate(s) \in {"answered", "cancelled"} => Fate(s)' = Fate(s)]_vars
<1>. DEFINE Final == \A s \in 1..MaxSeq : Fate(s) \in {"answered", "cancelled"} => Fate(s)' = Fate(s)
<1>1. ASSUME IInv, IInv', PInv, [Next]_vars PROVE Final
  <2>1. CASE Promise!Next
      BY <2>1, FinalFates
  <2>2. CASE UNCHANGED Promise!vars
    <3>1. [x \in 1..MaxSeq |-> Fate(x)]' = [x \in 1..MaxSeq |-> Fate(x)]
        BY <2>2 DEF Promise!vars
    <3>2. \A s \in 1..MaxSeq : [x \in 1..MaxSeq |-> Fate(x)]'[s] = Fate(s)' /\ [x \in 1..MaxSeq |-> Fate(x)][s] = Fate(s)
        OBVIOUS
    <3>. QED BY <3>1, <3>2
  <2>. QED BY <1>1, <2>1, <2>2, StepKeeps
<1>2. IInv /\ IInv' /\ PInv /\ [Next]_vars => [Final]_vars
    BY <1>1
<1>. QED BY <1>2, InvariantHolds, PInvHolds, PTL DEF Spec

\* No delivery is lost and none is taken twice: one that was committed is in the agent's
\* hands once, or still in the outbox, or cancelled by a Stop, or answered, through every
\* fault between the workspace's transactions and the isolate's (AgentDeliveries.paid deletes a
\* row only for an answer, PendingSendStore.took).
THEOREM NoneLostNoneTwice ==
    ASSUME Plain
    PROVE  Spec => [](\A s \in 1..Len(rows) : Fate(s) # "lost" /\ takes[s] <= 1)
<1>. DEFINE Sound == \A s \in 1..Len(rows) : Fate(s) # "lost" /\ takes[s] <= 1
<1>1. IInv /\ PInv => Sound
  <2>. SUFFICES ASSUME IInv, PInv, NEW s \in 1..Len(rows) PROVE Fate(s) # "lost" /\ takes[s] <= 1
      OBVIOUS
  <2>1. Len(rows) \in Nat /\ Len(rows) <= MaxSeq /\ takes[s] \in Nat /\ s \in 1..MaxSeq
      BY Ranges, DeliveriesAssumption
  <2>2. takes[s] > 0 => takes[s] = 1
      BY <2>1 DEF PInv, TakesKept, Taken
  <2>3. takes[s] > 0 \/ s \in outbox \/ s \in cancelled \/ s \in answered
      BY DEF PInv, TakesKept
  <2>4. Fate(s) # "lost"
      BY <2>3 DEF Fate
  <2>. QED BY <2>1, <2>2, <2>4
<1>. QED BY <1>1, InvariantHolds, PInvHolds, PTL DEF Spec

=============================================================================
