-------------------------- MODULE DeliveriesProofs --------------------------
(***************************************************************************)
(* What holds of the deliveries owed to an agent for any number of ids,    *)
(* rows, Stops and faults, calls of a dead activation arriving late and    *)
(* ids asked again included: what is owed has its wake, and a Stop counted *)
(* as answered is in the isolate's marks.                                  *)
(***************************************************************************)
EXTENDS Deliveries, WellFoundedInduction, TLAPS

\* The lane's own calls, the ones it still hears the answers of.
OfLane(c) == c.heard /\ c.op # "stop"

\* A delivery on its way is a row; the lane is where its one call left it; only a call
\* that is heard is answered.
Sent(c) ==
    /\ c.op = "admit" => c.seq \in 1..Len(rows)
    /\ c.phase = "back" => c.heard
    /\ OfLane(c) => lane.step = IF c.op = "replay" THEN "stop" ELSE "sent"

\* A Stop on its way is of a generation that was asked; of the newest, it carries all the
\* newest cuts off; answered, its cutoff is in the isolate's marks.
Cuts(c) ==
    c.op # "admit" =>
        /\ c.generation <= stop.generation
        /\ c.generation = stop.generation => stop.cutoff <= c.seq
        /\ c.answer = "done" => c.seq <= marks.cutoff

OneLaneCall == \A c, d \in calls : OfLane(c) /\ OfLane(d) => c = d

Crossing == lane.step \in {"stop", "sent"} => lane.at # 0

Stopped ==
    /\ stop.generation = 0 => stop.cutoff = 0
    /\ stop.retired = stop.generation => stop.cutoff <= marks.cutoff

Typed == TypeOK /\ takes \in [1..MaxSeq -> Nat]

IInv ==
    /\ Typed /\ OneLaneCall /\ Crossing /\ Stopped /\ OwedHasWake
    /\ \A c \in calls : Sent(c) /\ Cuts(c)

-----------------------------------------------------------------------------
(* The operators. *)

LEMMA MaxOfTwo ==
    ASSUME NEW a \in Nat, NEW b \in Nat
    PROVE  Max({a, b}) \in {a, b} /\ a <= Max({a, b}) /\ b <= Max({a, b})
<1>1. \E x \in {a, b} : \A y \in {a, b} : x >= y
    OBVIOUS
<1>. QED BY <1>1 DEF Max

LEMMA LeastNatural ==
    ASSUME NEW S, S \subseteq Nat, S # {}
    PROVE  \E n \in S : \A m \in S : n <= m
<1>. DEFINE R == OpToRel(<, Nat)
<1>1. \A x, y \in Nat : <<y, x>> \in R <=> y < x
    BY DEF OpToRel
<1>2. IsWellFoundedOn(R, Nat)
    BY NatLessThanWellFounded
<1>. HIDE DEF R
<1>3. PICK n \in S : \A m \in S : ~(<<m, n>> \in R)
    BY <1>2, WFMin
<1>4. ASSUME NEW m \in S PROVE n <= m
  <2>1. n \in Nat /\ m \in Nat
      OBVIOUS
  <2>2. ~(m < n)
      BY <1>1, <1>3, <2>1
  <2>. QED BY <2>1, <2>2
<1>. QED BY <1>4

LEMMA MaxOfBounded ==
    ASSUME NEW n \in Nat, NEW S, S \subseteq 0..n, S # {}
    PROVE  Max(S) \in S
<1>. DEFINE D == {n - x : x \in S}
<1>1. D \subseteq Nat /\ D # {}
  <2>1. \A x \in 0..n : n - x \in Nat
      OBVIOUS
  <2>2. PICK x : x \in S
      OBVIOUS
  <2>3. n - x \in D
      BY <2>2
  <2>4. ASSUME NEW d \in D PROVE d \in Nat
    <3>1. PICK y \in S : d = n - y
        OBVIOUS
    <3>. QED BY <2>1, <3>1
  <2>. QED BY <2>3, <2>4
<1>. HIDE DEF D
<1>2. PICK d \in D : \A e \in D : d <= e
    BY <1>1, LeastNatural
<1>3. PICK x \in S : d = n - x
    BY DEF D
<1>4. \A y \in S : x >= y
    BY <1>2, <1>3 DEF D
<1>. QED BY <1>4 DEF Max

LEMMA MinOfNaturals ==
    ASSUME NEW S, S \subseteq Nat, S # {}
    PROVE  Min(S) \in S /\ \A x \in S : Min(S) <= x
<1>1. \E n \in S : \A m \in S : n <= m
    BY LeastNatural
<1>. QED BY <1>1 DEF Min

LEMMA MovedTyped ==
    ASSUME NEW c \in Call, NEW p \in {"out", "in", "back"}, NEW a \in Answers \cup {"none"}
    PROVE  /\ Moved(c, p, a) \in Call
           /\ Moved(c, p, a).op = c.op /\ Moved(c, p, a).seq = c.seq
           /\ Moved(c, p, a).generation = c.generation /\ Moved(c, p, a).phase = p /\ Moved(c, p, a).answer = a /\ Moved(c, p, a).heard = c.heard
BY DEF Moved, Call

LEMMA CutoffTyped ==
    ASSUME TypeOK
    PROVE  Cutoff \in 0..MaxSeq
<1>1. Len(rows) \in Nat /\ Len(rows) <= MaxSeq /\ outbox \subseteq 0..Len(rows)
    BY DEF TypeOK
<1>2. outbox # {} => Max(outbox) \in outbox
    BY <1>1, MaxOfBounded
<1>3. ASSUME outbox # {} PROVE Max(outbox) \in 0..MaxSeq
  <2>1. PICK x \in outbox : x = Max(outbox)
      BY <1>2, <1>3
  <2>2. x \in 0..MaxSeq
      BY <1>1, DeliveriesAssumption
  <2>. QED BY <2>1, <2>2
<1>4. 0 \in 0..MaxSeq
    BY DeliveriesAssumption
<1>. QED BY <1>3, <1>4 DEF Cutoff

LEMMA OldestTyped ==
    ASSUME TypeOK, lane.rest # {}
    PROVE  Oldest \in lane.rest /\ Oldest \in 1..Len(rows)
<1>1. lane.rest \subseteq 1..Len(rows) /\ Len(rows) \in Nat
    BY DEF TypeOK
<1>2. lane.rest \subseteq Nat
    BY <1>1
<1>3. Min(lane.rest) \in lane.rest
    BY <1>2, MinOfNaturals
<1>. QED BY <1>1, <1>3 DEF Oldest

LEMMA AdmitCallTyped ==
    ASSUME NEW s \in 0..MaxSeq
    PROVE  /\ AdmitCall(s) \in Call
           /\ AdmitCall(s).op = "admit" /\ AdmitCall(s).seq = s /\ AdmitCall(s).phase = "out" /\ AdmitCall(s).heard
BY DeliveriesAssumption DEF AdmitCall, Call

\* A Stop sent while one is owed carries the owed one's generation and all it cuts off.
LEMMA StopCallSent ==
    ASSUME IInv, NEW op \in {"stop", "replay"}, NEW n \in 0..MaxSeq
    PROVE  \E m \in Call : /\ m = StopCall(op, n) /\ m.op = op /\ m.phase = "out" /\ m.heard /\ m.answer = "none"
                           /\ m.generation <= stop.generation
                           /\ m.generation = stop.generation => stop.cutoff <= m.seq
<1>. DEFINE m == StopCall(op, n)
<1>1. stop.generation \in 0..MaxStops /\ stop.cutoff \in 0..MaxSeq /\ stop.retired \in 0..MaxStops
    BY DEF IInv, Typed, TypeOK
<1>2. MaxSeq \in Nat /\ MaxStops \in Nat
    BY DeliveriesAssumption
<1>3. CASE StopOwed
  <2>1. PICK x \in 0..MaxSeq : x = Max({n, stop.cutoff}) /\ stop.cutoff <= x
      BY <1>1, <1>2, MaxOfTwo
  <2>2. m = [op |-> op, seq |-> x, generation |-> stop.generation, phase |-> "out", answer |-> "none", heard |-> TRUE]
      BY <1>3, <2>1 DEF StopCall
  <2>3. /\ m \in Call /\ m.op = op /\ m.phase = "out" /\ m.heard /\ m.answer = "none"
        /\ m.generation = stop.generation /\ m.seq = x
      BY <1>1, <2>2 DEF Call
  <2>. HIDE DEF m
  <2>4. m.generation <= stop.generation /\ stop.cutoff <= m.seq
      BY <1>1, <1>2, <2>1, <2>3
  <2>5. m = StopCall(op, n)
      BY DEF m
  <2>. QED BY <2>3, <2>4, <2>5
<1>4. CASE ~StopOwed
  <2>1. m = [op |-> op, seq |-> n, generation |-> 0, phase |-> "out", answer |-> "none", heard |-> TRUE]
      BY <1>4 DEF StopCall
  <2>2. /\ m \in Call /\ m.op = op /\ m.phase = "out" /\ m.heard /\ m.answer = "none"
        /\ m.generation = 0 /\ m.seq = n
      BY <1>2, <2>1 DEF Call
  <2>. HIDE DEF m
  <2>3. stop.generation = 0 => stop.cutoff = 0
      BY DEF IInv, Stopped
  <2>4. 0 <= stop.generation /\ (0 = stop.generation => stop.cutoff <= n)
      BY <1>1, <1>2, <2>3
  <2>5. m = StopCall(op, n)
      BY DEF m
  <2>. QED BY <2>2, <2>4, <2>5
<1>. QED BY <1>3, <1>4

-----------------------------------------------------------------------------
(* What a step leaves of the calls. *)

\* Other calls are as they were: the lane, the Stops and the marks only move on.
LEMMA CallStays ==
    ASSUME IInv, NEW c \in calls, Len(rows) <= Len(rows'), Len(rows') \in Nat, lane' = lane, stop' = stop,
           marks.cutoff <= marks'.cutoff, marks'.cutoff \in Nat
    PROVE  Sent(c)' /\ Cuts(c)'
<1>1. Sent(c)'
    BY DEF IInv, Typed, TypeOK, Sent, OfLane
<1>2. Cuts(c)'
  <2>1. c.seq \in Nat /\ marks.cutoff \in Nat
      BY DEF IInv, Typed, TypeOK, Call
  <2>. QED BY <2>1 DEF IInv, Cuts
<1>. QED BY <1>1, <1>2

\* A step that takes no call further than its answer heard.
LEMMA CallsGo ==
    ASSUME IInv, Typed', calls' \subseteq calls, UNCHANGED <<lane, stop>>, marks.cutoff <= marks'.cutoff,
           Len(rows) <= Len(rows'), OwedHasWake'
    PROVE  IInv'
<1>1. Len(rows') \in Nat /\ marks'.cutoff \in Nat /\ marks.cutoff \in Nat /\ stop.cutoff \in Nat
    BY DEF IInv, Typed, TypeOK
<1>2. \A c \in calls' : Sent(c)' /\ Cuts(c)'
    BY <1>1, CallStays
<1>3. OneLaneCall'
    BY DEF IInv, OneLaneCall, OfLane
<1>4. Crossing' /\ Stopped'
    BY <1>1 DEF IInv, Crossing, Stopped
<1>. QED BY <1>2, <1>3, <1>4 DEF IInv

\* A step that takes one call further.
LEMMA OneMoves ==
    ASSUME IInv, Typed', NEW c \in calls, NEW m,
           m.op = c.op, m.seq = c.seq, m.generation = c.generation, m.heard = c.heard,
           m \in calls' /\ m.phase = "back" => m.heard,
           m.op # "admit" /\ m.answer = "done" => c.seq <= marks'.cutoff,
           calls' \subseteq (calls \ {c}) \cup {m}, UNCHANGED wsVars, marks.cutoff <= marks'.cutoff
    PROVE  IInv'
<1>1. Len(rows') \in Nat /\ Len(rows) <= Len(rows') /\ marks'.cutoff \in Nat /\ marks.cutoff \in Nat /\ stop.cutoff \in Nat
    BY DEF Typed, TypeOK, IInv, wsVars
<1>2. Sent(c)' /\ Cuts(c)'
    BY <1>1, CallStays DEF wsVars
<1>3. m \in calls' => Sent(m)'
    BY <1>2 DEF Sent, OfLane
<1>4. Cuts(m)'
    BY <1>2 DEF Cuts
<1>5. \A d \in calls' : Sent(d)' /\ Cuts(d)'
    BY <1>1, <1>3, <1>4, CallStays DEF wsVars
<1>6. OneLaneCall'
    BY DEF IInv, OneLaneCall, OfLane
<1>7. Crossing' /\ Stopped' /\ OwedHasWake'
    BY <1>1 DEF IInv, Crossing, Stopped, OwedHasWake, wsVars
<1>. QED BY <1>5, <1>6, <1>7 DEF IInv

-----------------------------------------------------------------------------
(* Producers and Stops. *)

LEMMA CommitPreserves ==
    ASSUME IInv, NEW i \in Ids, Commit(i)
    PROVE  IInv'
<1>. Typed
    BY DEF IInv
<1>1. /\ wake' = TRUE /\ asked' = TRUE
      /\ UNCHANGED <<stop, live, lane, crossing, calls, isoVars, faults, histVars>>
    BY DEF Commit
<1>2. Len(rows) \in Nat /\ rows \in Seq(Ids) /\ Len(rows) <= MaxSeq /\ outbox \subseteq 1..Len(rows)
    BY DEF Typed, TypeOK
<1>3. /\ rows' \in Seq(Ids) /\ Len(rows') <= MaxSeq /\ Len(rows) <= Len(rows') /\ Len(rows') \in Nat
      /\ outbox' \subseteq 1..Len(rows')
  <2>1. CASE UNCHANGED <<rows, outbox>>
      BY <1>2, <2>1
  <2>2. CASE Len(rows) < MaxSeq /\ rows' = Append(rows, i) /\ outbox' = outbox \cup {NextSeq}
    <3>1. rows' \in Seq(Ids) /\ Len(rows') = Len(rows) + 1
        BY <1>2, <2>2
    <3>2. Len(rows') <= MaxSeq /\ Len(rows) <= Len(rows') /\ Len(rows') \in Nat
        BY <1>2, <2>2, <3>1, DeliveriesAssumption
    <3>3. outbox' = outbox \cup {Len(rows) + 1}
        BY <2>2 DEF NextSeq
    <3>4. \A s \in 1..Len(rows) : s \in 1..(Len(rows) + 1)
        BY <1>2
    <3>5. Len(rows) + 1 \in 1..(Len(rows) + 1)
        BY <1>2
    <3>6. outbox' \subseteq 1..(Len(rows) + 1)
        BY <1>2, <3>3, <3>4, <3>5
    <3>. QED BY <3>1, <3>2, <3>6
  <2>. QED BY <2>1, <2>2 DEF Commit, Add
<1>4. lane \in [step : {"idle", "next", "stop", "sent"}, at : 0..Len(rows'), rest : SUBSET (1..Len(rows'))]
    BY <1>2, <1>3 DEF Typed, TypeOK
<1>5. Typed'
    BY <1>1, <1>3, <1>4 DEF Typed, TypeOK, isoVars, histVars
<1>6. marks.cutoff <= marks'.cutoff
    BY <1>1 DEF Typed, TypeOK, isoVars
<1>. QED BY <1>1, <1>3, <1>5, <1>6, CallsGo DEF OwedHasWake

LEMMA StopAgentPreserves ==
    ASSUME IInv, StopAgent
    PROVE  IInv'
<1>. Typed
    BY DEF IInv
<1>1. stop \in [generation : 0..MaxStops, retired : 0..MaxStops, cutoff : 0..MaxSeq] /\ stop.retired <= stop.generation
    BY DEF Typed, TypeOK
<1>2. PICK x \in 0..MaxSeq : x = Max({stop.cutoff, Cutoff})
  <2>1. Cutoff \in 0..MaxSeq /\ stop.cutoff \in 0..MaxSeq
      BY <1>1, CutoffTyped DEF Typed
  <2>. QED BY <2>1, MaxOfTwo, DeliveriesAssumption
<1>3. /\ stop' = [generation |-> stop.generation + 1, retired |-> stop.retired, cutoff |-> x]
      /\ stop.generation < MaxStops /\ outbox' = {} /\ crossing' = crossing \cup {Cutoff}
      /\ UNCHANGED <<rows, wake, live, lane, asked, calls, isoVars, faults, takes>>
    BY <1>2 DEF StopAgent, CancelRows
<1>4. /\ stop' \in [generation : 0..MaxStops, retired : 0..MaxStops, cutoff : 0..MaxSeq]
      /\ stop'.generation = stop.generation + 1 /\ stop'.retired = stop.retired /\ stop'.retired <= stop'.generation
    BY <1>1, <1>2, <1>3, DeliveriesAssumption
<1>5. crossing' \subseteq 0..MaxSeq
    BY <1>3, CutoffTyped DEF Typed, TypeOK
<1>6. Typed'
    BY <1>3, <1>4, <1>5 DEF Typed, TypeOK, isoVars
<1>7. ASSUME NEW c \in calls PROVE Sent(c)' /\ Cuts(c)'
  <2>1. Sent(c)'
      BY <1>3 DEF IInv, Sent, OfLane
  <2>2. c.generation \in Nat /\ stop.generation \in Nat
      BY <1>1, DeliveriesAssumption DEF Typed, TypeOK, Call
  <2>3. c.op # "admit" => c.generation <= stop.generation
      BY DEF IInv, Cuts
  <2>4. c.op # "admit" => c.generation < stop'.generation
      BY <1>4, <2>2, <2>3
  <2>5. c.op # "admit" /\ c.answer = "done" => c.seq <= marks'.cutoff
      BY <1>3 DEF IInv, Cuts, isoVars
  <2>6. c.op # "admit" => c.generation <= stop'.generation /\ c.generation # stop'.generation
      BY <1>4, <2>2, <2>4
  <2>. QED BY <2>1, <2>5, <2>6 DEF Cuts
<1>8. OneLaneCall' /\ Crossing'
    BY <1>3 DEF IInv, OneLaneCall, OfLane, Crossing
<1>9. Stopped'
    BY <1>1, <1>4, DeliveriesAssumption DEF Stopped
<1>10. OwedHasWake'
    BY <1>3 DEF OwedHasWake
<1>. QED BY <1>3, <1>6, <1>7, <1>8, <1>9, <1>10 DEF IInv

LEMMA SendStopPreserves ==
    ASSUME IInv, NEW n \in crossing, SendStop(n)
    PROVE  IInv'
<1>. Typed
    BY DEF IInv
<1>1. n \in 0..MaxSeq /\ "stop" \in {"stop", "replay"}
    BY DEF Typed, TypeOK
<1>2. PICK m \in Call : /\ m = StopCall("stop", n) /\ m.op = "stop" /\ m.phase = "out" /\ m.heard /\ m.answer = "none"
                        /\ m.generation <= stop.generation
                        /\ m.generation = stop.generation => stop.cutoff <= m.seq
    BY <1>1, StopCallSent
<1>3. /\ crossing' = crossing \ {n} /\ calls' = calls \cup {m}
      /\ UNCHANGED <<rows, outbox, stop, wake, live, lane, asked, isoVars, faults, histVars>>
    BY <1>2 DEF SendStop
<1>4. Typed'
    BY <1>2, <1>3 DEF Typed, TypeOK, isoVars, histVars
<1>5. Sent(m)' /\ Cuts(m)'
    BY <1>2, <1>3 DEF Sent, Cuts, OfLane
<1>6. marks.cutoff <= marks'.cutoff /\ marks'.cutoff \in Nat /\ Len(rows) <= Len(rows') /\ Len(rows') \in Nat
    BY <1>3 DEF Typed, TypeOK, isoVars
<1>7. \A c \in calls' : Sent(c)' /\ Cuts(c)'
    BY <1>3, <1>5, <1>6, CallStays
<1>8. OneLaneCall'
    BY <1>2, <1>3 DEF IInv, OneLaneCall, OfLane
<1>9. Crossing' /\ Stopped' /\ OwedHasWake'
    BY <1>3 DEF IInv, Crossing, Stopped, OwedHasWake, isoVars
<1>. QED BY <1>4, <1>7, <1>8, <1>9 DEF IInv

\* Retirement, wakes, and the agent's report of rest.
LEMMA WakesPreserve ==
    ASSUME IInv, Retire \/ RetireCancels \/ WakeFires \/ RestReported
    PROVE  IInv'
<1>. Typed
    BY DEF IInv
<1>1. /\ UNCHANGED <<rows, stop, lane, crossing, calls, isoVars, faults, takes>>
      /\ outbox' \in {outbox, {}} /\ wake' \in BOOLEAN /\ live' \in BOOLEAN /\ asked' \in BOOLEAN
    BY DEF Retire, RetireCancels, WakeFires, RestReported, CancelRows, histVars, Typed, TypeOK
<1>2. OwedHasWake'
    BY DEF Retire, RetireCancels, WakeFires, RestReported, CancelRows, IInv, OwedHasWake
<1>3. Typed'
    BY <1>1 DEF Typed, TypeOK, isoVars
<1>4. marks.cutoff <= marks'.cutoff /\ Len(rows) <= Len(rows')
    BY <1>1 DEF Typed, TypeOK, isoVars
<1>. QED BY <1>1, <1>2, <1>3, <1>4, CallsGo

-----------------------------------------------------------------------------
(* The agent's lane. *)

\* The lane moves while none of its calls is on its way.
LEMMA LaneMoves ==
    ASSUME IInv, Typed', \A c \in calls : ~OfLane(c), calls' \subseteq calls, UNCHANGED <<rows, stop, marks>>,
           Crossing', OwedHasWake'
    PROVE  IInv'
<1>1. ASSUME NEW c \in calls' PROVE Sent(c)' /\ Cuts(c)'
  <2>1. Sent(c)'
      BY DEF IInv, Sent, OfLane
  <2>2. Cuts(c)'
      BY DEF IInv, Cuts
  <2>. QED BY <2>1, <2>2
<1>2. OneLaneCall' /\ Stopped'
    BY DEF IInv, OneLaneCall, OfLane, Stopped
<1>. QED BY <1>1, <1>2 DEF IInv

LEMMA StartPassPreserves ==
    ASSUME IInv, StartPass
    PROVE  IInv'
<1>. Typed
    BY DEF IInv
<1>1. /\ asked' = FALSE /\ lane' = Pass("next", 0, outbox)
      /\ UNCHANGED <<rows, outbox, stop, wake, live, crossing, calls, isoVars, faults, histVars>>
    BY DEF StartPass
<1>2. \A c \in calls : ~OfLane(c)
    BY DEF StartPass, IInv, Sent
<1>3. /\ lane' \in [step : {"idle", "next", "stop", "sent"}, at : 0..Len(rows), rest : SUBSET (1..Len(rows))]
      /\ lane'.step = "next"
    BY <1>1 DEF Pass, Typed, TypeOK
<1>4. Typed'
    BY <1>1, <1>3 DEF Typed, TypeOK, isoVars, histVars
<1>5. Crossing' /\ OwedHasWake'
    BY <1>1, <1>3 DEF IInv, Crossing, OwedHasWake
<1>. QED BY <1>1, <1>2, <1>4, <1>5, LaneMoves DEF isoVars

LEMMA EndPassPreserves ==
    ASSUME IInv, EndPass
    PROVE  IInv'
<1>. Typed
    BY DEF IInv
<1>1. lane' = Idle /\ UNCHANGED <<rows, outbox, stop, wake, live, asked, crossing, calls, isoVars, faults, histVars>>
    BY DEF EndPass
<1>2. \A c \in calls : ~OfLane(c)
    BY DEF EndPass, IInv, Sent
<1>3. /\ lane' \in [step : {"idle", "next", "stop", "sent"}, at : 0..Len(rows), rest : SUBSET (1..Len(rows))]
      /\ lane'.step = "idle"
    BY <1>1 DEF Idle, Pass, Typed, TypeOK
<1>4. Typed'
    BY <1>1, <1>3 DEF Typed, TypeOK, isoVars, histVars
<1>5. Crossing' /\ OwedHasWake'
    BY <1>1, <1>3 DEF IInv, Crossing, OwedHasWake
<1>. QED BY <1>1, <1>2, <1>4, <1>5, LaneMoves DEF isoVars

LEMMA CrossRetiredPreserves ==
    ASSUME IInv, CrossRetired
    PROVE  IInv'
<1>. Typed
    BY DEF IInv
<1>1. /\ outbox' = {} /\ lane' = Pass("next", 0, lane.rest \ {Oldest})
      /\ UNCHANGED <<rows, stop, wake, live, asked, crossing, calls, isoVars, faults, takes>>
    BY DEF CrossRetired, CancelRows
<1>2. \A c \in calls : ~OfLane(c)
    BY DEF CrossRetired, IInv, Sent
<1>3. /\ lane' \in [step : {"idle", "next", "stop", "sent"}, at : 0..Len(rows), rest : SUBSET (1..Len(rows))]
      /\ lane'.step = "next"
    BY <1>1 DEF Pass, Typed, TypeOK
<1>4. Typed'
    BY <1>1, <1>3 DEF Typed, TypeOK, isoVars
<1>5. Crossing' /\ OwedHasWake'
    BY <1>1, <1>3 DEF Crossing, OwedHasWake
<1>. QED BY <1>1, <1>2, <1>4, <1>5, LaneMoves DEF isoVars

\* The lane sends the one call it then waits for.
LEMMA LaneSends ==
    ASSUME IInv, Typed', NEW m, OfLane(m), NEW rest, rest \subseteq calls, \A c \in rest : ~OfLane(c),
           calls' = rest \cup {m}, UNCHANGED <<rows, marks>>, m.phase = "out",
           lane'.step = IF m.op = "replay" THEN "stop" ELSE "sent", lane'.at # 0,
           m.op = "admit" => m.seq \in 1..Len(rows),
           Cuts(m)', \A c \in rest : Cuts(c)', Stopped', OwedHasWake'
    PROVE  IInv'
<1>1. ASSUME NEW c \in rest PROVE Sent(c)'
    BY DEF IInv, Sent, OfLane
<1>2. Sent(m)'
    BY DEF Sent, OfLane
<1>3. OneLaneCall'
    BY DEF OneLaneCall, OfLane
<1>4. Crossing'
    BY DEF Crossing
<1>. QED BY <1>1, <1>2, <1>3, <1>4 DEF IInv

LEMMA CrossPreserves ==
    ASSUME IInv, Cross
    PROVE  IInv'
<1>. Typed
    BY DEF IInv
<1>1. /\ wake' = TRUE /\ lane.step = "next" /\ lane.rest # {}
      /\ UNCHANGED <<rows, outbox, stop, live, asked, crossing, isoVars, faults, histVars>>
    BY DEF Cross
<1>2. PICK at \in 1..Len(rows) : at = Oldest
    BY <1>1, OldestTyped DEF Typed
<1>3. \A c \in calls : ~OfLane(c)
    BY <1>1 DEF IInv, Sent
<1>4. lane' = Pass(IF StopOwed THEN "stop" ELSE "sent", at, lane.rest \ {at})
    BY <1>2 DEF Cross
<1>5. /\ lane' \in [step : {"idle", "next", "stop", "sent"}, at : 0..Len(rows), rest : SUBSET (1..Len(rows))]
      /\ lane'.step = (IF StopOwed THEN "stop" ELSE "sent") /\ lane'.at # 0
    BY <1>2, <1>4 DEF Pass, Typed, TypeOK
<1>6. Len(rows) \in Nat /\ Len(rows) <= MaxSeq
    BY DEF Typed, TypeOK
<1>7. OwedHasWake' /\ Stopped' /\ UNCHANGED <<rows, marks>>
    BY <1>1 DEF OwedHasWake, IInv, Stopped, isoVars
<1>8. \A c \in calls : Cuts(c)'
    BY <1>1 DEF IInv, Cuts, isoVars
<1>9. CASE StopOwed
  <2>1. 0 \in 0..MaxSeq /\ "replay" \in {"stop", "replay"}
      BY DeliveriesAssumption
  <2>2. PICK m \in Call : /\ m = StopCall("replay", 0) /\ m.op = "replay" /\ m.phase = "out" /\ m.heard /\ m.answer = "none"
                          /\ m.generation <= stop.generation
                          /\ m.generation = stop.generation => stop.cutoff <= m.seq
      BY <2>1, StopCallSent
  <2>3. calls' = calls \cup {m}
      BY <1>9, <2>2 DEF Cross
  <2>4. Typed'
      BY <1>1, <1>5, <2>2, <2>3 DEF Typed, TypeOK, isoVars, histVars
  <2>5. Cuts(m)' /\ OfLane(m)
      BY <1>1, <2>2 DEF Cuts, OfLane
  <2>. QED BY <1>3, <1>5, <1>7, <1>8, <1>9, <2>2, <2>3, <2>4, <2>5, LaneSends
<1>10. CASE ~StopOwed
  <2>1. at \in 0..MaxSeq
      BY <1>6, DeliveriesAssumption
  <2>2. PICK m \in Call : m = AdmitCall(at) /\ m.op = "admit" /\ m.seq = at /\ m.phase = "out" /\ m.heard
    <3>. DEFINE n == AdmitCall(at)
    <3>1. n \in Call /\ n.op = "admit" /\ n.seq = at /\ n.phase = "out" /\ n.heard
        BY <2>1, AdmitCallTyped
    <3>. QED BY <3>1
  <2>3. calls' = calls \cup {m}
      BY <1>2, <1>10, <2>2 DEF Cross
  <2>4. Typed'
      BY <1>1, <1>5, <2>2, <2>3 DEF Typed, TypeOK, isoVars, histVars
  <2>5. Cuts(m)' /\ OfLane(m)
      BY <2>2 DEF Cuts, OfLane
  <2>. QED BY <1>3, <1>5, <1>7, <1>8, <1>10, <2>2, <2>3, <2>4, <2>5, LaneSends
<1>. QED BY <1>9, <1>10

LEMMA PassFailsTyped ==
    ASSUME Typed, PassFails
    PROVE  /\ lane' \in [step : {"idle", "next", "stop", "sent"}, at : 0..Len(rows), rest : SUBSET (1..Len(rows))]
           /\ lane'.step \in {"idle", "next"}
<1>1. CASE lane' = Idle
    BY <1>1 DEF Idle, Pass, Typed, TypeOK
<1>2. CASE lane' = Pass("next", 0, lane.rest)
    BY <1>2 DEF Pass, Typed, TypeOK
<1>. QED BY <1>1, <1>2 DEF PassFails

LEMMA StopAnsweredPreserves ==
    ASSUME IInv, NEW c \in calls, StopAnswered(c)
    PROVE  IInv'
<1>. Typed
    BY DEF IInv
<1>1. /\ c.op \in {"stop", "replay"} /\ c.phase = "back"
      /\ UNCHANGED <<rows, outbox, wake, live, asked, crossing, isoVars, faults, histVars>>
    BY DEF StopAnswered
<1>2. /\ stop \in [generation : 0..MaxStops, retired : 0..MaxStops, cutoff : 0..MaxSeq] /\ stop.retired <= stop.generation
      /\ c.generation \in 0..MaxStops /\ c.seq \in 0..MaxSeq /\ marks.cutoff \in 0..MaxSeq
    BY DEF Typed, TypeOK, Call
<1>3. Sent(c) /\ Cuts(c)
    BY DEF IInv
<1>4. PICK x \in {stop.retired, c.generation} : /\ stop' = [stop EXCEPT !.retired = x]
                                                /\ x = c.generation => x = stop.retired \/ c.answer = "done"
  <2>1. CASE c.answer = "done"
    <3>1. Max({stop.retired, c.generation}) \in {stop.retired, c.generation}
        BY <1>2, MaxOfTwo, DeliveriesAssumption
    <3>. QED BY <2>1, <3>1 DEF StopAnswered
  <2>2. CASE c.answer # "done"
      BY <2>2 DEF StopAnswered
  <2>. QED BY <2>1, <2>2
<1>5. c.generation <= stop.generation
    BY <1>1, <1>3 DEF Cuts
<1>6. /\ stop' \in [generation : 0..MaxStops, retired : 0..MaxStops, cutoff : 0..MaxSeq]
      /\ stop'.generation = stop.generation /\ stop'.cutoff = stop.cutoff /\ stop'.retired = x
      /\ stop'.retired <= stop'.generation
    BY <1>2, <1>4, <1>5
<1>7. Stopped'
  <2>1. x = stop.generation => stop.cutoff <= marks.cutoff
    <3>1. CASE x = stop.retired
        BY <3>1 DEF IInv, Stopped
    <3>2. CASE x = c.generation /\ c.answer = "done"
      <4>1. x = stop.generation => stop.cutoff <= c.seq /\ c.seq <= marks.cutoff
          BY <1>1, <1>3, <3>2 DEF Cuts
      <4>. QED BY <1>2, <4>1, DeliveriesAssumption
    <3>. QED BY <1>4, <3>1, <3>2
  <2>2. stop.generation = 0 => stop.cutoff = 0
      BY DEF IInv, Stopped
  <2>. QED BY <1>1, <1>6, <2>1, <2>2 DEF Stopped, isoVars
<1>8. \A d \in calls : Cuts(d)'
    BY <1>1, <1>6 DEF IInv, Cuts, isoVars
<1>9. OwedHasWake' /\ UNCHANGED <<rows, marks>>
    BY <1>1 DEF IInv, OwedHasWake, isoVars
<1>10. CASE c.op = "stop"
  <2>1. calls' = calls \ {c} /\ lane' = lane
      BY <1>10 DEF StopAnswered
  <2>2. Typed'
      BY <1>1, <1>6, <2>1 DEF Typed, TypeOK, isoVars, histVars
  <2>3. \A d \in calls' : Sent(d)'
      BY <1>9, <2>1 DEF IInv, Sent, OfLane
  <2>4. OneLaneCall' /\ Crossing'
      BY <2>1 DEF IInv, OneLaneCall, OfLane, Crossing
  <2>. QED BY <1>7, <1>8, <1>9, <2>1, <2>2, <2>3, <2>4 DEF IInv
<1>11. CASE c.op = "replay"
  <2>1. OfLane(c) /\ lane.step = "stop"
      BY <1>1, <1>3, <1>11 DEF Sent, OfLane
  <2>2. lane.at \in 1..Len(rows)
      BY <2>1 DEF IInv, Crossing, Typed, TypeOK
  <2>3. \A d \in calls \ {c} : ~OfLane(d)
      BY <2>1 DEF IInv, OneLaneCall
  <2>4. CASE c.answer = "done"
    <3>1. lane' = Pass("sent", lane.at, lane.rest) /\ calls' = (calls \ {c}) \cup {AdmitCall(lane.at)}
        BY <1>11, <2>4 DEF StopAnswered
    <3>2. /\ lane' \in [step : {"idle", "next", "stop", "sent"}, at : 0..Len(rows), rest : SUBSET (1..Len(rows))]
          /\ lane'.step = "sent" /\ lane'.at # 0
        BY <2>2, <3>1 DEF Pass, Typed, TypeOK
    <3>3. lane.at \in 0..MaxSeq
        BY <2>2, DeliveriesAssumption DEF Typed, TypeOK
    <3>4. PICK m \in Call : m = AdmitCall(lane.at) /\ m.op = "admit" /\ m.seq = lane.at /\ m.phase = "out" /\ m.heard
      <4>. DEFINE n == AdmitCall(lane.at)
      <4>1. n \in Call /\ n.op = "admit" /\ n.seq = lane.at /\ n.phase = "out" /\ n.heard
          BY <3>3, AdmitCallTyped
      <4>. QED BY <4>1
    <3>5. PICK rest : rest = calls \ {c}
        OBVIOUS
    <3>6. rest \subseteq calls /\ calls' = rest \cup {m} /\ (\A d \in rest : ~OfLane(d))
        BY <2>3, <3>1, <3>4, <3>5
    <3>7. Typed'
        BY <1>1, <1>6, <3>2, <3>4, <3>6 DEF Typed, TypeOK, isoVars, histVars
    <3>8. Cuts(m)' /\ OfLane(m) /\ \A d \in rest : Cuts(d)'
        BY <1>8, <3>4, <3>6 DEF Cuts, OfLane
    <3>. QED BY <1>7, <1>9, <2>2, <3>2, <3>4, <3>6, <3>7, <3>8, LaneSends
  <2>5. CASE c.answer # "done"
    <3>1. PassFails /\ calls' = calls \ {c}
        BY <1>11, <2>5 DEF StopAnswered
    <3>2. /\ lane' \in [step : {"idle", "next", "stop", "sent"}, at : 0..Len(rows), rest : SUBSET (1..Len(rows))]
          /\ lane'.step \in {"idle", "next"}
        BY <3>1, PassFailsTyped
    <3>3. Typed'
        BY <1>1, <1>6, <3>1, <3>2 DEF Typed, TypeOK, isoVars, histVars
    <3>4. \A d \in calls' : Sent(d)'
        BY <1>9, <2>3, <3>1 DEF IInv, Sent, OfLane
    <3>5. OneLaneCall' /\ Crossing'
        BY <2>3, <3>1, <3>2 DEF OneLaneCall, OfLane, Crossing
    <3>. QED BY <1>7, <1>8, <1>9, <3>1, <3>3, <3>4, <3>5 DEF IInv
  <2>. QED BY <2>4, <2>5
<1>. QED BY <1>1, <1>10, <1>11

LEMMA CrossAnsweredPreserves ==
    ASSUME IInv, NEW c \in calls, CrossAnswered(c)
    PROVE  IInv'
<1>. Typed
    BY DEF IInv
<1>1. /\ c.op = "admit" /\ c.phase = "back" /\ calls' = calls \ {c}
      /\ UNCHANGED <<rows, stop, wake, live, asked, crossing, isoVars, faults, takes>>
    BY DEF CrossAnswered
<1>2. OfLane(c)
    BY <1>1 DEF IInv, Sent, OfLane
<1>3. \A d \in calls \ {c} : ~OfLane(d)
    BY <1>2 DEF IInv, OneLaneCall
<1>4. outbox' \subseteq outbox
    BY DEF CrossAnswered, Paid
<1>5. /\ lane' \in [step : {"idle", "next", "stop", "sent"}, at : 0..Len(rows), rest : SUBSET (1..Len(rows))]
      /\ lane'.step \in {"idle", "next"}
  <2>1. CASE PassFails
      BY <2>1, PassFailsTyped
  <2>2. CASE lane' = Pass("next", 0, lane.rest)
      BY <2>2 DEF Pass, Typed, TypeOK
  <2>. QED BY <2>1, <2>2 DEF CrossAnswered
<1>6. Typed'
    BY <1>1, <1>4, <1>5 DEF Typed, TypeOK, isoVars
<1>7. ASSUME NEW d \in calls' PROVE Sent(d)' /\ Cuts(d)'
  <2>1. Sent(d)'
      BY <1>1, <1>3 DEF IInv, Sent, OfLane
  <2>2. Cuts(d)'
      BY <1>1 DEF IInv, Cuts, isoVars
  <2>. QED BY <2>1, <2>2
<1>8. OneLaneCall' /\ Crossing'
    BY <1>1, <1>3, <1>5 DEF OneLaneCall, OfLane, Crossing
<1>9. Stopped' /\ OwedHasWake'
    BY <1>1, <1>4 DEF IInv, Stopped, OwedHasWake, isoVars
<1>. QED BY <1>6, <1>7, <1>8, <1>9 DEF IInv

-----------------------------------------------------------------------------
(* The isolate. *)

\* A handler that answers: its call goes back if the workspace still hears it.
LEMMA HandlerAnswers ==
    ASSUME IInv, NEW c \in calls, NEW a \in Answers, calls' = Replied(c, a), UNCHANGED wsVars,
           c.op # "admit" /\ a = "done" => c.seq <= marks'.cutoff, marks.cutoff <= marks'.cutoff,
           marks' \in [taken : 0..MaxSeq, cutoff : 0..MaxSeq, applied : 0..MaxSeq],
           held' \subseteq Ids, ran' \subseteq Ids, faults' \in 0..MaxFaults, takes' \in [1..MaxSeq -> Nat]
    PROVE  IInv'
<1>. Typed
    BY DEF IInv
<1>1. c \in Call /\ "back" \in {"out", "in", "back"} /\ a \in Answers \cup {"none"}
    BY DEF Typed, TypeOK
<1>2. PICK m \in Call : /\ m = Moved(c, "back", a) /\ m.op = c.op /\ m.seq = c.seq /\ m.generation = c.generation
                        /\ m.phase = "back" /\ m.answer = a /\ m.heard = c.heard
  <2>. DEFINE n == Moved(c, "back", a)
  <2>1. /\ n \in Call /\ n.op = c.op /\ n.seq = c.seq /\ n.generation = c.generation
        /\ n.phase = "back" /\ n.answer = a /\ n.heard = c.heard
      BY <1>1, MovedTyped
  <2>. QED BY <2>1
<1>3. calls' = (calls \ {c}) \cup (IF c.heard THEN {m} ELSE {})
    BY <1>2 DEF Replied
<1>4. calls' \subseteq (calls \ {c}) \cup {m} /\ (m \in calls' => m.heard)
  <2>1. CASE c.heard
      BY <1>2, <1>3, <2>1
  <2>2. CASE ~c.heard
    <3>1. m \in calls => m.heard
        BY <1>2 DEF IInv, Sent
    <3>. QED BY <1>3, <2>2, <3>1
  <2>. QED BY <2>1, <2>2
<1>5. Typed'
    BY <1>2, <1>4 DEF Typed, TypeOK, wsVars
<1>. QED BY <1>2, <1>4, <1>5, OneMoves

\* A handler that awaits.
LEMMA HandlerAwaits ==
    ASSUME IInv, NEW c \in calls, c.op = "admit", calls' = Awaiting(c), UNCHANGED <<wsVars, marks, ran, faults>>,
           held' \subseteq Ids, takes' \in [1..MaxSeq -> Nat]
    PROVE  IInv'
<1>. Typed
    BY DEF IInv
<1>1. c \in Call /\ "in" \in {"out", "in", "back"} /\ c.answer \in Answers \cup {"none"}
    BY DEF Typed, TypeOK, Call
<1>2. PICK m \in Call : /\ m = Moved(c, "in", c.answer) /\ m.op = c.op /\ m.seq = c.seq
                        /\ m.generation = c.generation /\ m.phase = "in" /\ m.heard = c.heard
  <2>. DEFINE n == Moved(c, "in", c.answer)
  <2>1. /\ n \in Call /\ n.op = c.op /\ n.seq = c.seq /\ n.generation = c.generation
        /\ n.phase = "in" /\ n.heard = c.heard
      BY <1>1, MovedTyped
  <2>. QED BY <2>1
<1>3. calls' = (calls \ {c}) \cup {m}
    BY <1>2 DEF Awaiting
<1>4. Typed'
    BY <1>2, <1>3 DEF Typed, TypeOK, wsVars
<1>5. marks.cutoff <= marks'.cutoff
    BY DEF Typed, TypeOK
<1>. QED BY <1>2, <1>3, <1>4, <1>5, OneMoves

\* What a delivery does to the store.
LEMMA HeldTyped ==
    ASSUME IInv, NEW c \in calls, c.op = "admit", Held(c.seq)
    PROVE  held' \subseteq Ids /\ takes' \in [1..MaxSeq -> Nat]
<1>. Typed
    BY DEF IInv
<1>1. c.seq \in 1..Len(rows)
    BY DEF IInv, Sent
<1>2. rows[c.seq] \in Ids
    BY <1>1 DEF Typed, TypeOK
<1>3. c.seq \in 1..MaxSeq
    BY <1>1, DeliveriesAssumption DEF Typed, TypeOK
<1>4. held' \subseteq Ids
    BY <1>2 DEF Held, Typed, TypeOK
<1>5. takes' \in [1..MaxSeq -> Nat]
    BY <1>3 DEF Held, Typed
<1>. QED BY <1>4, <1>5

LEMMA TookTyped ==
    ASSUME Typed, NEW s \in 0..MaxSeq, NEW applied \in 0..MaxSeq, Took(s, applied)
    PROVE  /\ marks' \in [taken : 0..MaxSeq, cutoff : 0..MaxSeq, applied : 0..MaxSeq]
           /\ marks.cutoff <= marks'.cutoff
<1>1. marks.taken \in 0..MaxSeq /\ marks.cutoff \in 0..MaxSeq
    BY DEF Typed, TypeOK
<1>2. PICK x \in 0..MaxSeq : x = Max({marks.taken, s})
  <2>1. marks.taken \in Nat /\ s \in Nat
      BY <1>1, DeliveriesAssumption
  <2>2. Max({marks.taken, s}) \in {marks.taken, s}
      BY <2>1, MaxOfTwo
  <2>. QED BY <1>1, <2>2
<1>3. marks' = [taken |-> x, cutoff |-> marks.cutoff, applied |-> applied]
    BY <1>2 DEF Took
<1>4. marks'.cutoff = marks.cutoff
    BY <1>3
<1>. QED BY <1>1, <1>2, <1>3, <1>4, DeliveriesAssumption

\* A handler that leaves the isolate's store alone.
LEMMA AnswersOnly ==
    ASSUME IInv, NEW c \in calls, NEW a \in Answers \ {"done"}, calls' = Replied(c, a),
           UNCHANGED <<wsVars, isoVars, takes>>, faults' \in 0..MaxFaults
    PROVE  IInv'
<1>1. /\ marks' \in [taken : 0..MaxSeq, cutoff : 0..MaxSeq, applied : 0..MaxSeq] /\ marks.cutoff <= marks'.cutoff
      /\ held' \subseteq Ids /\ ran' \subseteq Ids /\ takes' \in [1..MaxSeq -> Nat]
    BY DEF IInv, Typed, TypeOK, isoVars
<1>. QED BY <1>1, HandlerAnswers

LEMMA AdmitMarkedPreserves ==
    ASSUME IInv, NEW c \in calls, AdmitMarked(c)
    PROVE  IInv'
<1>1. PICK a \in Answers \ {"done"} : calls' = Replied(c, a)
    BY DEF AdmitMarked, MarkOf, Answers
<1>. QED BY <1>1, AnswersOnly DEF AdmitMarked, IInv, Typed, TypeOK

LEMMA AdmitKnownPreserves ==
    ASSUME IInv, NEW c \in calls, AdmitKnown(c)
    PROVE  IInv'
<1>1. "duplicate" \in Answers \ {"done"}
    BY DEF Answers
<1>. QED BY <1>1, AnswersOnly DEF AdmitKnown, IInv, Typed, TypeOK

LEMMA RetryRefusedPreserves ==
    ASSUME IInv, NEW c \in calls, RetryRefused(c)
    PROVE  IInv'
<1>1. "refused" \in Answers \ {"done"}
    BY DEF Answers
<1>. QED BY <1>1, AnswersOnly DEF RetryRefused, IInv, Typed, TypeOK, histVars

LEMMA CallFailsPreserves ==
    ASSUME IInv, NEW c \in calls, CallFails(c)
    PROVE  IInv'
<1>1. "failed" \in Answers \ {"done"}
    BY DEF Answers
<1>2. faults' \in 0..MaxFaults
    BY DeliveriesAssumption DEF CallFails, IInv, Typed, TypeOK
<1>. QED BY <1>1, <1>2, AnswersOnly DEF CallFails, histVars

LEMMA AdmitWordsPreserves ==
    ASSUME IInv, NEW c \in calls, AdmitWords(c)
    PROVE  IInv'
<1>1. c.op = "admit" /\ Held(c.seq) /\ calls' = Awaiting(c) /\ UNCHANGED <<wsVars, marks, ran, faults>>
    BY DEF AdmitWords, Arrives
<1>. QED BY <1>1, HeldTyped, HandlerAwaits

LEMMA AdmitAwaitsPreserves ==
    ASSUME IInv, NEW c \in calls, AdmitAwaits(c)
    PROVE  IInv'
<1>1. /\ c.op = "admit" /\ calls' = Awaiting(c) /\ UNCHANGED <<wsVars, marks, ran, faults>>
      /\ held' \subseteq Ids /\ takes' \in [1..MaxSeq -> Nat]
    BY DEF AdmitAwaits, Arrives, isoVars, histVars, IInv, Typed, TypeOK
<1>. QED BY <1>1, HandlerAwaits

\* A delivery taken: its mark moves, and its input is held or was.
LEMMA TakingPreserves ==
    ASSUME IInv, NEW c \in calls, c.op = "admit", NEW a \in Answers, calls' = Replied(c, a),
           NEW applied \in 0..MaxSeq, Took(c.seq, applied),
           Held(c.seq) \/ UNCHANGED <<held, takes>>, UNCHANGED <<wsVars, ran, faults>>
    PROVE  IInv'
<1>. Typed
    BY DEF IInv
<1>1. c.seq \in 0..MaxSeq
    BY DEF Typed, TypeOK, Call
<1>2. /\ marks' \in [taken : 0..MaxSeq, cutoff : 0..MaxSeq, applied : 0..MaxSeq]
      /\ marks.cutoff <= marks'.cutoff
    BY <1>1, TookTyped
<1>3. held' \subseteq Ids /\ takes' \in [1..MaxSeq -> Nat]
    BY HeldTyped DEF Typed, TypeOK
<1>4. ran' \subseteq Ids /\ faults' \in 0..MaxFaults
    BY DEF Typed, TypeOK
<1>. QED BY <1>2, <1>3, <1>4, HandlerAnswers

LEMMA TakesPreserve ==
    ASSUME IInv, NEW c \in calls, WordsTaken(c) \/ AdmitTurn(c) \/ RetrySettles(c)
    PROVE  IInv'
<1>1. c.op = "admit" /\ UNCHANGED <<wsVars, ran, faults>> /\ (Held(c.seq) \/ UNCHANGED <<held, takes>>)
    BY DEF WordsTaken, AdmitTurn, RetrySettles, Arrives, histVars
<1>2. 0 \in 0..MaxSeq /\ c.seq \in 0..MaxSeq /\ {"taken", "applied"} \subseteq Answers
    BY DeliveriesAssumption DEF IInv, Typed, TypeOK, Call, Answers
<1>3. PICK applied \in 0..MaxSeq, a \in Answers : Took(c.seq, applied) /\ calls' = Replied(c, a)
    BY <1>2 DEF WordsTaken, AdmitTurn, RetrySettles
<1>. QED BY <1>1, <1>3, TakingPreserves

LEMMA OfferSettlesPreserves ==
    ASSUME IInv, NEW c \in calls, OfferSettles(c)
    PROVE  IInv'
<1>1. c.op = "admit" /\ UNCHANGED <<wsVars, ran, faults>>
    BY DEF OfferSettles
<1>2. CASE calls' = Replied(c, "yielded") /\ UNCHANGED <<marks, held, takes>>
  <2>1. "yielded" \in Answers \ {"done"} /\ faults' \in 0..MaxFaults
      BY <1>1 DEF Answers, IInv, Typed, TypeOK
  <2>. QED BY <1>1, <1>2, <2>1, AnswersOnly DEF isoVars
<1>3. CASE /\ calls' = Replied(c, "taken") /\ Took(c.seq, 0)
           /\ Held(c.seq) \/ UNCHANGED <<held, takes>>
  <2>1. "taken" \in Answers /\ 0 \in 0..MaxSeq
      BY DeliveriesAssumption DEF Answers
  <2>. QED BY <1>1, <1>3, <2>1, TakingPreserves
<1>. QED BY <1>2, <1>3 DEF OfferSettles

LEMMA StopArrivesPreserves ==
    ASSUME IInv, NEW c \in calls, StopArrives(c)
    PROVE  IInv'
<1>. Typed
    BY DEF IInv
<1>1. /\ calls' = Replied(c, "done") /\ UNCHANGED <<wsVars, ran, faults>>
      /\ marks' = [marks EXCEPT !.cutoff = Max({@, c.seq})]
    BY DEF StopArrives
<1>2. marks.cutoff \in 0..MaxSeq /\ c.seq \in 0..MaxSeq
    BY DEF Typed, TypeOK, Call
<1>3. PICK x \in 0..MaxSeq : x = Max({marks.cutoff, c.seq}) /\ marks.cutoff <= x /\ c.seq <= x
  <2>1. marks.cutoff \in Nat /\ c.seq \in Nat
      BY <1>2, DeliveriesAssumption
  <2>2. /\ Max({marks.cutoff, c.seq}) \in {marks.cutoff, c.seq}
        /\ marks.cutoff <= Max({marks.cutoff, c.seq}) /\ c.seq <= Max({marks.cutoff, c.seq})
      BY <2>1, MaxOfTwo
  <2>. QED BY <1>2, <2>2
<1>4. /\ marks' \in [taken : 0..MaxSeq, cutoff : 0..MaxSeq, applied : 0..MaxSeq]
      /\ marks'.cutoff = x
  <2>1. marks' = [marks EXCEPT !.cutoff = x]
      BY <1>1, <1>3
  <2>. QED BY <2>1 DEF Typed, TypeOK
<1>5. held' \subseteq Ids
    BY DEF StopArrives, Typed, TypeOK
<1>6. takes' \in [1..MaxSeq -> Nat]
  <2>1. PICK back : takes' = [s \in 1..MaxSeq |-> IF s \in back THEN 0 ELSE takes[s]]
      BY DEF StopArrives
  <2>. QED BY <2>1 DEF Typed
<1>7. ran' \subseteq Ids /\ faults' \in 0..MaxFaults /\ "done" \in Answers
    BY <1>1 DEF Typed, TypeOK, Answers
<1>. QED BY <1>1, <1>3, <1>4, <1>5, <1>6, <1>7, HandlerAnswers

LEMMA RunsPreserves ==
    ASSUME IInv, NEW i \in Ids, Runs(i)
    PROVE  IInv'
<1>. Typed
    BY DEF IInv
<1>1. UNCHANGED <<wsVars, calls, marks, faults, takes>>
    BY DEF Runs, histVars
<1>2. held' \subseteq Ids /\ ran' \subseteq Ids
    BY DEF Runs, Typed, TypeOK
<1>3. Typed'
    BY <1>1, <1>2 DEF Typed, TypeOK, wsVars
<1>4. marks.cutoff <= marks'.cutoff /\ Len(rows) <= Len(rows')
    BY <1>1 DEF Typed, TypeOK, wsVars
<1>5. OwedHasWake'
    BY <1>1 DEF IInv, OwedHasWake, wsVars
<1>. QED BY <1>1, <1>3, <1>4, <1>5, CallsGo DEF wsVars

-----------------------------------------------------------------------------
(* Faults. *)

\* What is on its way for a workspace that reset is heard no more.
LEMMA WorkspaceResetsPreserves ==
    ASSUME IInv, WorkspaceResets
    PROVE  IInv'
<1>. Typed
    BY DEF IInv
<1>1. /\ lane' = Idle /\ asked' = FALSE /\ crossing' = {} /\ faults < MaxFaults /\ faults' = faults + 1
      /\ wake' = (wake \/ outbox # {} \/ (live /\ StopOwed))
      /\ UNCHANGED <<rows, outbox, stop, live, isoVars, histVars>>
    BY DEF WorkspaceResets
<1>2. PICK S : S \subseteq {c \in calls : c.phase \in {"out", "in"}} /\ calls' = {[c EXCEPT !.heard = FALSE] : c \in S}
  <2>1. PICK late : /\ late \subseteq {c \in calls : c.phase = "out"}
                    /\ calls' = {[c EXCEPT !.heard = FALSE] : c \in late \cup {d \in calls : d.phase = "in"}}
      BY DEF WorkspaceResets
  <2>2. late \cup {d \in calls : d.phase = "in"} \subseteq {c \in calls : c.phase \in {"out", "in"}}
      BY <2>1
  <2>. QED BY <2>1, <2>2
<1>3. ASSUME NEW m \in calls'
      PROVE  m \in Call /\ ~m.heard /\ Sent(m)' /\ Cuts(m)'
  <2>1. PICK c \in S : m = [c EXCEPT !.heard = FALSE]
      BY <1>2
  <2>2. c \in calls /\ c \in Call /\ c.phase \in {"out", "in"}
      BY <1>2 DEF Typed, TypeOK
  <2>3. /\ m \in Call /\ m.op = c.op /\ m.seq = c.seq /\ m.generation = c.generation /\ m.phase = c.phase
        /\ m.answer = c.answer /\ ~m.heard
      BY <2>1, <2>2 DEF Call
  <2>4. Sent(c) /\ Cuts(c)
      BY <2>2 DEF IInv
  <2>5. Sent(m)'
      BY <1>1, <2>2, <2>3, <2>4 DEF Sent, OfLane
  <2>6. Cuts(m)'
      BY <1>1, <2>3, <2>4 DEF Cuts, isoVars
  <2>. QED BY <2>3, <2>5, <2>6
<1>4. /\ lane' \in [step : {"idle", "next", "stop", "sent"}, at : 0..Len(rows), rest : SUBSET (1..Len(rows))]
      /\ lane'.step = "idle"
    BY <1>1 DEF Idle, Pass, Typed, TypeOK
<1>5. faults' \in 0..MaxFaults /\ calls' \subseteq Call /\ wake' \in BOOLEAN
    BY <1>1, <1>3, DeliveriesAssumption DEF Typed, TypeOK
<1>6. Typed'
    BY <1>1, <1>4, <1>5 DEF Typed, TypeOK, isoVars, histVars
<1>7. OneLaneCall' /\ Crossing'
    BY <1>3, <1>4 DEF OneLaneCall, OfLane, Crossing
<1>8. Stopped' /\ OwedHasWake'
    BY <1>1 DEF IInv, Stopped, OwedHasWake, isoVars
<1>. QED BY <1>3, <1>6, <1>7, <1>8 DEF IInv

\* The calls an isolate was serving fail, the ones nobody hears go with it.
LEMMA IsolateDiesPreserves ==
    ASSUME IInv, IsolateDies
    PROVE  IInv'
<1>. Typed
    BY DEF IInv
<1>1. faults < MaxFaults /\ faults' = faults + 1 /\ UNCHANGED <<wsVars, isoVars, histVars>>
    BY DEF IsolateDies
<1>2. ASSUME NEW m \in calls'
      PROVE  /\ m \in Call /\ Sent(m)' /\ Cuts(m)'
             /\ \E c \in calls : (OfLane(m) => OfLane(c)) /\ m = IF c.phase = "in" THEN Moved(c, "back", "failed") ELSE c
  <2>1. PICK c \in calls : /\ c.phase # "in" \/ c.heard
                           /\ m = IF c.phase = "in" THEN Moved(c, "back", "failed") ELSE c
      BY DEF IsolateDies
  <2>2. c \in Call /\ "back" \in {"out", "in", "back"} /\ "failed" \in Answers \cup {"none"}
      BY DEF Typed, TypeOK, Answers
  <2>3. Sent(c) /\ Cuts(c)
      BY DEF IInv
  <2>4. CASE c.phase # "in"
    <3>1. Sent(c)' /\ Cuts(c)'
        BY <1>1, <2>3 DEF Sent, Cuts, OfLane, wsVars, isoVars
    <3>. QED BY <2>1, <2>2, <2>4, <3>1
  <2>5. CASE c.phase = "in"
    <3>1. /\ m \in Call /\ m.op = c.op /\ m.seq = c.seq /\ m.generation = c.generation
          /\ m.phase = "back" /\ m.answer = "failed" /\ m.heard = c.heard /\ c.heard
        BY <2>1, <2>2, <2>5, MovedTyped
    <3>2. Sent(m)'
        BY <1>1, <2>3, <3>1 DEF Sent, OfLane, wsVars
    <3>3. Cuts(m)'
        BY <1>1, <2>3, <3>1 DEF Cuts, wsVars, isoVars
    <3>4. OfLane(m) => OfLane(c)
        BY <3>1 DEF OfLane
    <3>. QED BY <2>1, <3>1, <3>2, <3>3, <3>4
  <2>. QED BY <2>4, <2>5
<1>3. OneLaneCall'
  <2>1. SUFFICES ASSUME NEW m \in calls', NEW n \in calls', OfLane(m), OfLane(n) PROVE m = n
      BY DEF OneLaneCall, OfLane
  <2>2. PICK c \in calls : OfLane(c) /\ m = IF c.phase = "in" THEN Moved(c, "back", "failed") ELSE c
      BY <1>2, <2>1
  <2>3. PICK d \in calls : OfLane(d) /\ n = IF d.phase = "in" THEN Moved(d, "back", "failed") ELSE d
      BY <1>2, <2>1
  <2>4. c = d
      BY <2>2, <2>3 DEF IInv, OneLaneCall
  <2>. QED BY <2>2, <2>3, <2>4
<1>4. faults' \in 0..MaxFaults /\ calls' \subseteq Call
    BY <1>1, <1>2, DeliveriesAssumption DEF Typed, TypeOK
<1>5. Typed'
    BY <1>1, <1>4 DEF Typed, TypeOK, wsVars, isoVars, histVars
<1>6. Crossing' /\ Stopped' /\ OwedHasWake'
    BY <1>1 DEF IInv, Crossing, Stopped, OwedHasWake, wsVars, isoVars
<1>. QED BY <1>2, <1>3, <1>5, <1>6 DEF IInv

-----------------------------------------------------------------------------
(* The theorems. *)

LEMMA InitInvariant == Init => IInv
<1>. SUFFICES ASSUME Init PROVE IInv
    OBVIOUS
<1>1. rows = <<>> /\ Len(rows) = 0 /\ rows \in Seq(Ids) /\ outbox = {} /\ calls = {} /\ crossing = {}
    BY DEF Init
<1>2. stop = [generation |-> 0, retired |-> 0, cutoff |-> 0] /\ marks = [taken |-> 0, cutoff |-> 0, applied |-> 0]
    BY DEF Init
<1>3. /\ stop \in [generation : 0..MaxStops, retired : 0..MaxStops, cutoff : 0..MaxSeq]
      /\ marks \in [taken : 0..MaxSeq, cutoff : 0..MaxSeq, applied : 0..MaxSeq]
      /\ stop.retired <= stop.generation /\ stop.cutoff = 0 /\ marks.cutoff = 0
    BY <1>2, DeliveriesAssumption
<1>4. /\ lane \in [step : {"idle", "next", "stop", "sent"}, at : 0..Len(rows), rest : SUBSET (1..Len(rows))]
      /\ lane.step = "idle"
    BY <1>1 DEF Init, Idle, Pass
<1>5. Len(rows) <= MaxSeq /\ faults \in 0..MaxFaults /\ takes \in [1..MaxSeq -> Nat]
    BY <1>1, DeliveriesAssumption DEF Init
<1>6. wake \in BOOLEAN /\ live \in BOOLEAN /\ asked \in BOOLEAN /\ held \subseteq Ids /\ ran \subseteq Ids
    BY DEF Init
<1>7. Typed
    BY <1>1, <1>3, <1>4, <1>5, <1>6 DEF Typed, TypeOK
<1>8. OneLaneCall /\ Crossing /\ Stopped /\ OwedHasWake
    BY <1>1, <1>3, <1>4 DEF OneLaneCall, Crossing, Stopped, OwedHasWake
<1>. QED BY <1>1, <1>7, <1>8 DEF IInv

LEMMA StutterInvariant ==
    ASSUME IInv, UNCHANGED vars
    PROVE  IInv'
BY DEF IInv, Typed, TypeOK, OneLaneCall, Crossing, Stopped, OwedHasWake, Sent, Cuts, OfLane, vars, wsVars, isoVars, histVars

LEMMA NextInvariant ==
    ASSUME IInv, Next
    PROVE  IInv'
<1>1. CASE \E i \in Ids : Commit(i) \/ Runs(i)
    BY <1>1, CommitPreserves, RunsPreserves
<1>2. CASE StopAgent \/ \E n \in crossing : SendStop(n)
    BY <1>2, StopAgentPreserves, SendStopPreserves
<1>3. CASE Retire \/ RetireCancels \/ WakeFires \/ RestReported
    BY <1>3, WakesPreserve
<1>4. CASE Lane
    BY <1>4, StartPassPreserves, EndPassPreserves, CrossRetiredPreserves, CrossPreserves,
       StopAnsweredPreserves, CrossAnsweredPreserves DEF Lane
<1>5. CASE Isolate
  <2>1. PICK c \in calls : \/ AdmitMarked(c) \/ AdmitKnown(c) \/ AdmitWords(c) \/ WordsTaken(c)
                           \/ AdmitTurn(c) \/ AdmitAwaits(c) \/ RetryRefused(c)
                           \/ OfferSettles(c) \/ RetrySettles(c) \/ StopArrives(c)
      BY <1>5 DEF Isolate
  <2>2. CASE AdmitMarked(c) \/ AdmitKnown(c) \/ AdmitWords(c) \/ AdmitAwaits(c) \/ RetryRefused(c)
      BY <2>2, AdmitMarkedPreserves, AdmitKnownPreserves, AdmitWordsPreserves, AdmitAwaitsPreserves,
         RetryRefusedPreserves
  <2>3. CASE WordsTaken(c) \/ AdmitTurn(c) \/ RetrySettles(c) \/ OfferSettles(c) \/ StopArrives(c)
      BY <2>3, TakesPreserve, OfferSettlesPreserves, StopArrivesPreserves
  <2>. QED BY <2>1, <2>2, <2>3
<1>6. CASE WorkspaceResets \/ IsolateDies \/ \E c \in calls : CallFails(c)
    BY <1>6, WorkspaceResetsPreserves, IsolateDiesPreserves, CallFailsPreserves
<1>. QED BY <1>1, <1>2, <1>3, <1>4, <1>5, <1>6 DEF Next

LEMMA InvariantHolds == Spec => []IInv
<1>1. IInv /\ [Next]_vars => IInv'
    BY NextInvariant, StutterInvariant
<1>. QED BY <1>1, InitInvariant, PTL DEF Spec

\* However deliveries, Stops, resets and late calls interleave, the outbox holds only committed
\* sequences and no Stop is retired that was not asked (initAgentDeliveriesTable,
\* AgentStops.owe and retire).
THEOREM DeliveriesTypeCorrect == Spec => []TypeOK
<1>1. IInv => TypeOK
    BY DEF IInv, Typed
<1>. QED BY <1>1, InvariantHolds, PTL

\* While a live agent is owed a delivery its wake intent stands: a report of rest, a reset of
\* the workspace or a failed crossing never leaves a row nothing will cross
\* (DeliveryCoordinator.committed and reconcile, AgentWakes.owes).
THEOREM OwedDeliveryHasWake == Spec => []OwedHasWake
<1>1. IInv => OwedHasWake
    BY DEF IInv
<1>. QED BY <1>1, InvariantHolds, PTL

LEMMA StoppedIsCut ==
    ASSUME IInv
    PROVE  RetiredStopIsCut
<1>1. stop.retired \in Nat /\ stop.generation \in Nat /\ stop.retired <= stop.generation
    BY DEF IInv, Typed, TypeOK
<1>2. ~StopOwed => stop.retired = stop.generation
    BY <1>1 DEF StopOwed
<1>3. stop.retired = stop.generation => stop.cutoff <= marks.cutoff
    BY DEF IInv, Stopped
<1>4. stop.cutoff \in Nat /\ marks.cutoff \in Nat
    BY DEF IInv, Typed, TypeOK
<1>. QED BY <1>2, <1>3, <1>4 DEF RetiredStopIsCut

\* A Stop that counts as answered is in the isolate's marks, whichever of several crossings of
\* it was the one answered and whoever reset meanwhile (stopCrossed, AgentStops.retire,
\* PendingSendStore's cutoff).
THEOREM AnsweredStopIsCut == Spec => []RetiredStopIsCut
<1>1. IInv => RetiredStopIsCut
    BY StoppedIsCut
<1>. QED BY <1>1, InvariantHolds, PTL

=============================================================================
