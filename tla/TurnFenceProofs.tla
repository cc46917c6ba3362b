-------------------------- MODULE TurnFenceProofs ---------------------------
(***************************************************************************)
(* What the fence's one row gives, for any number of runs, Stops, deaths   *)
(* and resets: no stopped run comes back, no execution older than one that *)
(* ran here runs again, and nothing closes the execution that goes on.     *)
(***************************************************************************)
EXTENDS TurnFence, TLAPS

Msgs == [op : {"start", "prepare", "work", "end", "rest", "stop", "stray stop", "owed"},
         run : 0..MaxRuns, epoch : Nat, phase : {"out", "joined", "account", "reading", "frozen", "rereading", "back", "closing"},
         answer : {"none", "ok", "refused", "no", "yes"}, from : Nat]

Acts == [run : 0..MaxRuns, epoch : Nat, step : {"none", "announced", "opening", "asking", "granted"},
         cut : BOOLEAN]

Works == [epoch : Nat, astray : BOOLEAN, shut : BOOLEAN]

Typed ==
    /\ fence \in [seq : Nat, run : 0..MaxRuns, ended : BOOLEAN, cancelled : BOOLEAN]
    /\ stop \in [generation : 0..MaxStops, retired : 0..MaxStops]
    /\ opened \in [Turns -> Nat] /\ chat \in Turns \cup {NoTurn} /\ cuts \subseteq Turns
    /\ calls \subseteq Msgs
    /\ seq \in Nat /\ runs \in [Runs -> {"new", "announced", "open", "closed"}] /\ stopReq \subseteq Runs
    /\ act \in Acts /\ told \in BOOLEAN /\ armed \in BOOLEAN
    /\ deaths \in Nat /\ resets \in Nat /\ deaths + resets <= MaxFaults
    /\ worked \in Works

\* Its epoch is minted, and the isolate goes on with it.
Claimed == act.step \in {"asking", "granted"}

\* The runs open one after the other.
InOrder == \A r, p \in Runs : runs[r] # "new" /\ p < r => runs[p] = "closed"

\* The isolate's execution is of the run its record holds open, under the newest epoch.
Executing ==
    /\ act.step = "none" => act = NoAct
    /\ act.step # "none" => act.run \in Runs
    /\ act.step = "announced" => runs[act.run] = "announced"
    /\ act.step \in {"opening", "asking", "granted"} => runs[act.run] = "open"
    /\ act.epoch = IF Claimed THEN seq ELSE 0

\* An epoch is minted once for a run, and once more for each death.
Minted ==
    /\ seq <= MaxRuns + deaths
    /\ \A r \in Runs :
          /\ runs[r] \in {"new", "announced"} => seq < r + deaths
          /\ runs[r] = "open" => seq <= r + deaths
          /\ runs[r] = "open" /\ ~Claimed => seq < r + deaths

\* A run that an epoch was minted for.
Opening(r, e) ==
    /\ r \in Runs /\ runs[r] \in {"open", "closed"} /\ e > 0 /\ e <= seq
    /\ Claimed /\ e = act.epoch => r = act.run

\* Openings are numbered in the order of their runs.
InStep(r, e, q, f) ==
    /\ e < f => r <= q
    /\ f < e => q <= r
    /\ e = f => r = q

\* What is on its way names epochs the agent minted, and runs in the state they were
\* left in.
Sent(c) ==
    /\ c.op = "start" => c.run \in Runs
    /\ c.op = "prepare" => Opening(c.run, c.epoch)
    /\ c.op = "end" => c.run \in Runs /\ runs[c.run] = "closed"
    /\ c.op \in {"stop", "stray stop"} => c.epoch <= MaxStops
    /\ c.op \notin {"stop", "stray stop"} => c.epoch <= seq

\* The opening the fence holds and the ones on their way are in step.
Fenced ==
    /\ fence.seq > 0 => Opening(fence.run, fence.seq)
    /\ fence.seq = 0 => ~fence.cancelled
    /\ \A c, d \in calls : c.op = "prepare" /\ d.op = "prepare" => InStep(c.run, c.epoch, d.run, d.epoch)
    /\ \A c \in calls : c.op = "prepare" /\ fence.seq > 0 => InStep(c.run, c.epoch, fence.run, fence.seq)

\* What the workspace heard is of the agent.
Heard ==
    /\ chat # NoTurn => \E r \in Runs : TurnOf[r] = chat
    /\ \A t \in Turns : opened[t] <= seq

\* A run a Stop cancelled is cancelled still, or another opened after it.
Cancels ==
    /\ revived = {} /\ stopped \subseteq Runs
    /\ \A r \in stopped : /\ fence.seq > 0 /\ r <= fence.run
                          /\ r = fence.run => fence.cancelled

\* No execution ran here that is newer than the fence's.
NothingNewer == worked.epoch <= fence.seq /\ ~worked.astray

\* The execution granted, and the one whose grant is on its way, stand.
Granted ==
    /\ act.step = "granted" => fence.seq = act.epoch /\ ~fence.ended
    /\ \A c \in calls :
          /\ c.op = "prepare" /\ c.phase = "back" /\ c.answer = "ok" /\ Claimed /\ c.epoch = act.epoch
                => fence.seq = act.epoch /\ ~fence.ended
          /\ c.op = "owed" /\ c.answer = "no" /\ Claimed => c.epoch < act.epoch

IInv ==
    /\ Typed /\ InOrder /\ Executing /\ Minted /\ (\A c \in calls : Sent(c))
    /\ Fenced /\ Heard /\ Cancels /\ NothingNewer /\ Granted

-----------------------------------------------------------------------------
(* What every step but an opening leaves of the calls. *)

\* A call further on its way: a grant is new only while the opening stands, a "no" only
\* while the isolate has claimed nothing.
Derived(d, c) ==
    /\ d.op = c.op \/ (c.op = "stop" /\ d.op = "stray stop")
    /\ d.run = c.run /\ d.epoch = c.epoch
    /\ d.op = "prepare" /\ d.phase = "back" /\ d.answer = "ok" =>
          (c.phase = "back" /\ c.answer = "ok") \/ (fence.seq = c.epoch /\ ~fence.ended)
    /\ d.op = "owed" /\ d.answer = "no" => c.answer = "no" \/ ~Claimed

New(d) == d.op # "prepare" /\ d.answer # "no" /\ Sent(d)'

CallsFrom == \A d \in calls' : New(d) \/ \E c \in calls : Derived(d, c)

\* The isolate claims no execution, and what it recorded of its runs stands.
AgentGoesOn ==
    /\ seq' = seq
    /\ \A r \in Runs : /\ runs[r] \in {"open", "closed"} => runs'[r] \in {"open", "closed"}
                       /\ runs[r] = "closed" => runs'[r] = "closed"
    /\ Claimed' => Claimed /\ act'.epoch = act.epoch /\ act'.run = act.run

\* The fence admits nothing, and ends no execution the isolate goes on with.
FenceGoesOn ==
    /\ fence'.seq = fence.seq /\ fence'.run = fence.run
    /\ Claimed' /\ fence.seq = act.epoch => fence'.ended = fence.ended
    /\ fence.seq = 0 => ~fence'.cancelled

\* A grant is of the opening that stands.
GrantGoesOn ==
    act'.step = "granted" =>
        \/ act.step = "granted"
        \/ \E c \in calls : c.op = "prepare" /\ c.phase = "back" /\ c.answer = "ok" /\ c.epoch = act.epoch

LEMMA OpeningKeeps ==
    ASSUME AgentGoesOn, NEW r, NEW e, Opening(r, e)
    PROVE  Opening(r, e)'
BY DEF AgentGoesOn, Opening

LEMMA SentKeeps ==
    ASSUME IInv, CallsFrom, AgentGoesOn
    PROVE  \A d \in calls' : Sent(d)'
<1>. \A c \in calls : Sent(c)
    BY DEF IInv
<1>. SUFFICES ASSUME NEW d \in calls' PROVE Sent(d)'
    OBVIOUS
<1>1. CASE New(d)
    BY <1>1 DEF New
<1>2. ASSUME NEW c \in calls, Derived(d, c) PROVE Sent(d)'
    BY <1>2, OpeningKeeps DEF Sent, Derived, AgentGoesOn
<1>. QED BY <1>1, <1>2 DEF CallsFrom

LEMMA CallsKeep ==
    ASSUME IInv, Typed', CallsFrom, AgentGoesOn, FenceGoesOn, GrantGoesOn
    PROVE  (\A c \in calls' : Sent(c)') /\ Fenced' /\ Granted'
<1>. Typed /\ Fenced /\ Granted
    BY DEF IInv
<1>1. \A d \in calls' : Sent(d)'
    BY SentKeeps
<1>2. Fenced'
  <2>1. ASSUME NEW d \in calls', d.op = "prepare"
        PROVE  \E c \in calls : c.op = "prepare" /\ d.run = c.run /\ d.epoch = c.epoch
      BY <2>1 DEF CallsFrom, New, Derived
  <2>2. \A c, d \in calls' : c.op = "prepare" /\ d.op = "prepare" => InStep(c.run, c.epoch, d.run, d.epoch)
      BY <2>1 DEF Fenced
  <2>3. \A c \in calls' : c.op = "prepare" /\ fence'.seq > 0 => InStep(c.run, c.epoch, fence'.run, fence'.seq)
      BY <2>1 DEF Fenced, FenceGoesOn
  <2>4. fence'.seq > 0 => Opening(fence.run, fence.seq)'
      BY OpeningKeeps DEF Fenced, FenceGoesOn, Opening, AgentGoesOn
  <2>. QED BY <2>2, <2>3, <2>4 DEF Fenced, FenceGoesOn, InStep
<1>3. Granted'
  <2>1. Claimed' => act'.epoch = act.epoch
      BY DEF AgentGoesOn
  <2>2. act'.step = "granted" => fence'.seq = act'.epoch /\ ~fence'.ended
      BY DEF Granted, GrantGoesOn, FenceGoesOn, AgentGoesOn, Claimed, Typed
  <2>3. ASSUME NEW d \in calls', d.op = "prepare", d.phase = "back", d.answer = "ok", Claimed', d.epoch = act'.epoch
        PROVE  fence'.seq = act'.epoch /\ ~fence'.ended
    <3>1. PICK c \in calls : Derived(d, c)
        BY <2>3 DEF CallsFrom, New
    <3>. QED BY <2>3, <3>1 DEF Derived, Granted, FenceGoesOn, AgentGoesOn, Typed
  <2>4. ASSUME NEW d \in calls', d.op = "owed", d.answer = "no", Claimed' PROVE d.epoch < act'.epoch
    <3>1. PICK c \in calls : Derived(d, c)
        BY <2>4 DEF CallsFrom, New
    <3>. QED BY <2>4, <3>1 DEF Derived, Granted, AgentGoesOn
  <2>. QED BY <2>2, <2>3, <2>4 DEF Granted
<1>. QED BY <1>1, <1>2, <1>3

LEMMA AgentStill ==
    ASSUME IInv, UNCHANGED <<seq, runs, act, deaths>>
    PROVE  InOrder' /\ Executing' /\ Minted' /\ AgentGoesOn /\ GrantGoesOn
<1>1. InOrder' /\ Executing'
    BY DEF IInv, InOrder, Executing, Claimed
<1>2. Minted'
    BY DEF IInv, Minted, Claimed
<1>3. AgentGoesOn /\ GrantGoesOn
    BY DEF AgentGoesOn, GrantGoesOn, Claimed
<1>. QED BY <1>1, <1>2, <1>3

LEMMA FenceStill ==
    ASSUME IInv, UNCHANGED <<fence, stopped, revived, opened, chat>>, seq <= seq',
           Typed', worked'.epoch = worked.epoch, worked'.astray = worked.astray
    PROVE  FenceGoesOn /\ Heard' /\ Cancels' /\ NothingNewer'
<1>1. FenceGoesOn
    BY DEF IInv, FenceGoesOn, Fenced
<1>2. Heard'
    BY DEF IInv, Heard, Typed
<1>3. Cancels' /\ NothingNewer'
    BY DEF IInv, Cancels, NothingNewer
<1>. QED BY <1>1, <1>2, <1>3

LEMMA StartSent ==
    ASSUME NEW m, m.op = "start", m.run \in Runs, m.epoch = 0, seq' \in Nat
    PROVE  Sent(m)'
BY DEF Sent, Opening

LEMMA MovedTyped ==
    ASSUME NEW c \in Msgs, NEW p \in {"out", "joined", "account", "reading", "frozen", "rereading", "back", "closing"},
           NEW a \in {"none", "ok", "refused", "no", "yes"}
    PROVE  /\ Moved(c, p, a) \in Msgs
           /\ Moved(c, p, a).op = c.op /\ Moved(c, p, a).run = c.run /\ Moved(c, p, a).epoch = c.epoch
           /\ Moved(c, p, a).phase = p /\ Moved(c, p, a).answer = a
BY DEF Moved, Msgs

LEMMA PrepareSent ==
    ASSUME NEW m, m.op = "prepare", Opening(m.run, m.epoch)'
    PROVE  Sent(m)'
BY DEF Sent, Opening

\* A call that is only carried along.
LEMMA SelfDerived == ASSUME NEW c PROVE Derived(c, c)
BY DEF Derived

\* At most one call is new, or further on its way.
LEMMA OneCall ==
    ASSUME NEW m, calls' \subseteq calls \cup {m}, New(m) \/ \E c \in calls : Derived(m, c)
    PROVE  CallsFrom
BY SelfDerived DEF CallsFrom

-----------------------------------------------------------------------------
(* The agent's isolate. *)

LEMMA OpenTurnPreserves ==
    ASSUME IInv, NEW r \in Runs, OpenTurn(r)
    PROVE  IInv'
<1>. Typed
    BY DEF IInv
<1>1. PICK m \in Msgs : /\ m = Msg("start", r, 0, "out")
                       /\ m.op = "start" /\ m.run = r /\ m.epoch = 0 /\ m.answer = "none"
  <2>. DEFINE n == Msg("start", r, 0, "out")
  <2>1. r \in 0..MaxRuns /\ deaths \in Nat
      BY TurnFenceAssumption DEF Runs, Typed
  <2>2. n \in Msgs /\ n.op = "start" /\ n.run = r /\ n.epoch = 0 /\ n.answer = "none"
      BY <2>1 DEF Msg, Msgs
  <2>. QED BY <2>2
<1>2. /\ act = NoAct /\ runs[r] \in {"new", "announced"} /\ \A p \in Runs : p < r => runs[p] = "closed"
      /\ runs' = [runs EXCEPT ![r] = "announced"] /\ act' = Exec(r, 0, "announced", FALSE)
      /\ calls' = calls \cup {m} /\ told' = FALSE /\ armed' = TRUE
      /\ UNCHANGED <<fence, stop, opened, chat, cuts, seq, stopReq, deaths, resets, stopped, revived, before, worked>>
    BY <1>1 DEF OpenTurn, Runs, faults, histVars
<1>3. /\ act' \in Acts /\ act'.run = r /\ act'.epoch = 0 /\ act'.step = "announced" /\ ~Claimed'
    BY <1>2 DEF Exec, Acts, Runs, Claimed
<1>4. Typed'
    BY <1>1, <1>2, <1>3 DEF Typed
<1>5. InOrder'
    BY <1>2 DEF IInv, Typed, InOrder, Runs
<1>6. Executing' /\ Minted'
  <2>1. Executing'
      BY <1>2, <1>3 DEF Typed, Executing
  <2>2. Minted'
      BY <1>2, <1>3 DEF IInv, Typed, Minted, Runs
  <2>. QED BY <2>1, <2>2
<1>7. AgentGoesOn /\ GrantGoesOn
    BY <1>2, <1>3 DEF Typed, AgentGoesOn, GrantGoesOn
<1>8. CallsFrom
  <2>1. seq' \in Nat
      BY <1>2 DEF Typed
  <2>2. Sent(m)'
      BY <1>1, <2>1, StartSent
  <2>. QED BY <1>1, <1>2, <2>2, OneCall DEF New
<1>9. seq <= seq' /\ FenceGoesOn /\ Heard' /\ Cancels' /\ NothingNewer'
  <2>1. seq <= seq'
      BY <1>2 DEF Typed
  <2>. QED BY <1>2, <1>4, <2>1, FenceStill
<1>. QED BY <1>4, <1>5, <1>6, <1>7, <1>8, <1>9, CallsKeep DEF IInv

LEMMA BeginPreserves ==
    ASSUME IInv, Begin
    PROVE  IInv'
<1>. Typed /\ Executing
    BY DEF IInv
<1>1. /\ act.run \in Runs /\ runs[act.run] = "announced"
      /\ runs' = [runs EXCEPT ![act.run] = "open"] /\ act' = Exec(act.run, act.epoch, "opening", act.cut)
      /\ UNCHANGED <<wsVars, calls, seq, stopReq, told, deaths, resets, stopped, revived, before, worked>>
    BY DEF Begin, Executing, faults, histVars
<1>2. act' \in Acts /\ act'.run = act.run /\ act'.epoch = act.epoch /\ act'.step = "opening" /\ ~Claimed' /\ ~Claimed
    BY <1>1 DEF Exec, Acts, Typed, Claimed, Begin
<1>3. Typed'
    BY <1>1, <1>2 DEF Typed, wsVars
<1>4. InOrder' /\ Executing'
    BY <1>1, <1>2 DEF IInv, Typed, InOrder, Executing
<1>5. Minted'
    BY <1>1, <1>2 DEF IInv, Typed, Minted, Runs
<1>6. AgentGoesOn /\ GrantGoesOn
    BY <1>1, <1>2 DEF Typed, AgentGoesOn, GrantGoesOn
<1>7. CallsFrom
    BY <1>1, SelfDerived DEF CallsFrom
<1>. QED BY <1>1, <1>3, <1>4, <1>5, <1>6, <1>7, FenceStill, CallsKeep DEF IInv, Typed, wsVars

LEMMA ReopenPreserves ==
    ASSUME IInv, NEW r \in Runs, Reopen(r)
    PROVE  IInv'
<1>. Typed
    BY DEF IInv
<1>1. PICK m \in Msgs : /\ m = Msg("start", r, 0, "out")
                       /\ m.op = "start" /\ m.run = r /\ m.epoch = 0 /\ m.answer = "none"
  <2>. DEFINE n == Msg("start", r, 0, "out")
  <2>1. r \in 0..MaxRuns /\ deaths \in Nat
      BY TurnFenceAssumption DEF Runs, Typed
  <2>2. n \in Msgs /\ n.op = "start" /\ n.run = r /\ n.epoch = 0 /\ n.answer = "none"
      BY <2>1 DEF Msg, Msgs
  <2>. QED BY <2>2
<1>2. PICK cut \in BOOLEAN : act' = Exec(r, 0, "opening", cut)
    BY DEF Reopen
<1>3. /\ act = NoAct /\ runs[r] = "open" /\ calls' = calls \cup {m} /\ told' = FALSE
      /\ UNCHANGED <<wsVars, seq, runs, stopReq, deaths, resets, stopped, revived, before, worked>>
    BY <1>1 DEF Reopen, OpenRun, faults, histVars
<1>4. act' \in Acts /\ act'.run = r /\ act'.epoch = 0 /\ act'.step = "opening" /\ ~Claimed' /\ ~Claimed
    BY <1>2, <1>3 DEF Exec, NoAct, Acts, Runs, Claimed
<1>5. Typed'
    BY <1>1, <1>3, <1>4 DEF Typed, wsVars
<1>6. InOrder' /\ Executing'
    BY <1>3, <1>4 DEF IInv, InOrder, Executing
<1>7. Minted'
    BY <1>3, <1>4 DEF IInv, Minted
<1>8. AgentGoesOn /\ GrantGoesOn
    BY <1>3, <1>4 DEF AgentGoesOn, GrantGoesOn
<1>9. CallsFrom
  <2>1. seq' \in Nat
      BY <1>3 DEF Typed
  <2>2. Sent(m)'
      BY <1>1, <2>1, StartSent
  <2>. QED BY <1>1, <1>3, <2>2, OneCall DEF New
<1>. QED BY <1>3, <1>5, <1>6, <1>7, <1>8, <1>9, FenceStill, CallsKeep DEF IInv, Typed, wsVars

LEMMA ClaimPreserves ==
    ASSUME IInv, Claim
    PROVE  IInv'
<1>. Typed /\ InOrder /\ Executing /\ Minted /\ (\A c \in calls : Sent(c)) /\ Fenced
    BY DEF IInv
<1>1. act.run \in Runs /\ runs[act.run] = "open" /\ ~Claimed /\ act.run \in Nat /\ seq \in Nat
    BY TurnFenceAssumption DEF Claim, Executing, Claimed, Runs, Typed
<1>2. PICK m \in Msgs : /\ m = Msg("prepare", act.run, seq + 1, "out") /\ m.op = "prepare" /\ m.run = act.run
                        /\ m.epoch = seq + 1 /\ m.phase = "out"
  <2>. DEFINE n == Msg("prepare", act.run, seq + 1, "out")
  <2>1. act.run \in 0..MaxRuns /\ deaths \in Nat /\ seq + 1 \in Nat
      BY DEF Typed, Acts
  <2>2. n \in Msgs /\ n.op = "prepare" /\ n.run = act.run /\ n.epoch = seq + 1 /\ n.phase = "out"
      BY <2>1 DEF Msg, Msgs
  <2>. QED BY <2>2
<1>3. /\ seq' = seq + 1 /\ act' = Exec(act.run, seq + 1, "asking", act.cut) /\ calls' = calls \cup {m}
      /\ UNCHANGED <<wsVars, runs, stopReq, told, deaths, resets, stopped, revived, before, worked>>
    BY <1>2 DEF Claim, faults, histVars
<1>4. act' \in Acts /\ act'.run = act.run /\ act'.epoch = seq + 1 /\ act'.step = "asking" /\ Claimed'
    BY <1>1, <1>3 DEF Exec, Acts, Typed, Claimed
<1>5. Typed'
    BY <1>2, <1>3, <1>4 DEF Typed, wsVars
<1>6. InOrder' /\ Executing'
    BY <1>1, <1>3, <1>4 DEF InOrder, Executing
<1>7. Minted'
    BY <1>1, <1>3, <1>4, TurnFenceAssumption, SMTT(20) DEF Minted, InOrder, Runs, Typed
<1>8. ASSUME NEW r, NEW e \in Nat, Opening(r, e) PROVE Opening(r, e)' /\ r <= act.run /\ e < seq + 1
    BY <1>1, <1>3, <1>4, <1>8, TurnFenceAssumption DEF Opening, InOrder, Runs
<1>9. Opening(m.run, m.epoch)'
    BY <1>1, <1>2, <1>3, <1>4 DEF Opening
<1>10. ASSUME NEW c \in calls PROVE Sent(c)' /\ (c.op = "prepare" => Opening(c.run, c.epoch)) /\ c.epoch \in Nat
  <2>1. c.epoch \in Nat
      BY DEF Typed, Msgs
  <2>2. c.op = "prepare" => Opening(c.run, c.epoch)
      BY DEF Sent
  <2>3. c.op = "prepare" => Sent(c)'
      BY <1>8, <2>1, <2>2, PrepareSent
  <2>4. c.op # "prepare" => Sent(c)'
    <3>1. runs' = runs /\ seq' = seq + 1 /\ seq \in Nat
        BY <1>1, <1>3
    <3>2. c.op \notin {"stop", "stray stop"} => c.epoch <= seq
        BY DEF Sent
    <3>3. c.op \notin {"stop", "stray stop"} => c.epoch <= seq'
      <4>1. \A x, y \in Nat : x <= y => x <= y + 1
          OBVIOUS
      <4>. QED BY <2>1, <3>1, <3>2, <4>1
    <3>. QED BY <3>1, <3>3 DEF Sent
  <2>. QED BY <2>1, <2>2, <2>3, <2>4
<1>11. Sent(m)'
    BY <1>2, <1>9, PrepareSent
<1>12. ASSUME NEW r, NEW e \in Nat, Opening(r, e)
       PROVE  InStep(m.run, m.epoch, r, e) /\ InStep(r, e, m.run, m.epoch)
  <2>1. r <= act.run /\ e < seq + 1
      BY <1>8, <1>12
  <2>. QED BY <1>1, <1>2, <2>1 DEF InStep
<1>13. Fenced'
  <2>1. fence.seq \in Nat /\ fence' = fence
      BY <1>3 DEF Typed, wsVars
  <2>2. fence'.seq > 0 => Opening(fence.run, fence.seq)'
      BY <1>8, <2>1 DEF Fenced, Opening
  <2>3. \A c, d \in calls' : c.op = "prepare" /\ d.op = "prepare" => InStep(c.run, c.epoch, d.run, d.epoch)
    <3>1. ASSUME NEW c \in calls, c.op = "prepare" PROVE InStep(m.run, m.epoch, c.run, c.epoch) /\ InStep(c.run, c.epoch, m.run, m.epoch)
        BY <1>10, <1>12, <3>1
    <3>2. InStep(m.run, m.epoch, m.run, m.epoch)
        BY <1>2, <1>1 DEF InStep
    <3>. QED BY <1>3, <3>1, <3>2 DEF Fenced
  <2>4. \A c \in calls' : c.op = "prepare" /\ fence.seq > 0 => InStep(c.run, c.epoch, fence.run, fence.seq)
      BY <1>3, <1>12, <2>1 DEF Fenced
  <2>. QED BY <2>1, <2>2, <2>3, <2>4 DEF Fenced
<1>14. Granted'
  <2>1. ASSUME NEW c \in calls', c.op = "prepare", c.phase = "back", c.epoch = act'.epoch PROVE FALSE
    <3>1. c \in calls
        BY <1>2, <1>3, <2>1
    <3>2. Opening(c.run, c.epoch) /\ c.epoch \in Nat
        BY <1>10, <2>1, <3>1
    <3>. QED BY <1>1, <1>4, <1>8, <2>1, <3>2
  <2>2. ASSUME NEW c \in calls', c.op = "owed" PROVE c.epoch < act'.epoch
    <3>1. c \in calls
        BY <1>2, <1>3, <2>2
    <3>2. c.epoch <= seq
        BY <2>2, <3>1 DEF Sent
    <3>3. c.epoch \in Nat
        BY <1>10, <3>1
    <3>. QED BY <1>1, <1>4, <3>2, <3>3
  <2>. QED BY <1>4, <2>1, <2>2 DEF Granted
<1>15. seq <= seq' /\ Heard' /\ Cancels' /\ NothingNewer'
  <2>1. seq <= seq'
      BY <1>1, <1>3
  <2>. QED BY <1>3, <1>5, <2>1, FenceStill DEF wsVars
<1>. QED BY <1>3, <1>5, <1>6, <1>7, <1>10, <1>11, <1>13, <1>14, <1>15 DEF IInv

\* The close of the execution's run, and the call that tells its end.
LEMMA EndTurnPreserves ==
    ASSUME IInv, act.step # "none", EndTurn, UNCHANGED <<wsVars, faults, histVars>>,
           NEW S, S \subseteq calls, calls' = (calls \ S) \cup {Msg("end", act.run, act.epoch, "out")}
    PROVE  IInv'
<1>. Typed /\ InOrder /\ Executing /\ Minted
    BY DEF IInv
<1>1. act.run \in Runs /\ seq \in Nat /\ act.epoch \in Nat /\ act.epoch <= seq /\ runs[act.run] \in {"announced", "open"}
    BY DEF Executing, Typed, Acts
<1>2. PICK m \in Msgs : /\ m = Msg("end", act.run, act.epoch, "out") /\ m.op = "end" /\ m.run = act.run
                        /\ m.epoch = act.epoch /\ m.phase = "out" /\ m.answer = "none"
  <2>. DEFINE n == Msg("end", act.run, act.epoch, "out")
  <2>1. act.run \in 0..MaxRuns /\ deaths \in Nat
      BY DEF Typed, Acts
  <2>2. n \in Msgs /\ n.op = "end" /\ n.run = act.run /\ n.epoch = act.epoch /\ n.phase = "out" /\ n.answer = "none"
      BY <1>1, <2>1 DEF Msg, Msgs
  <2>. QED BY <2>2
<1>3. /\ runs' = [runs EXCEPT ![act.run] = "closed"] /\ act' = NoAct /\ calls' = (calls \ S) \cup {m}
      /\ UNCHANGED <<wsVars, seq, stopReq, told, deaths, resets, stopped, revived, before, worked>>
    BY <1>2 DEF EndTurn, faults, histVars
<1>4. act' \in Acts /\ act'.step = "none" /\ act'.epoch = 0 /\ ~Claimed'
    BY <1>3, TurnFenceAssumption DEF NoAct, Exec, Acts, Claimed
<1>5. Typed'
    BY <1>2, <1>3, <1>4 DEF Typed, wsVars
<1>6. InOrder' /\ Executing'
    BY <1>1, <1>3, <1>4 DEF InOrder, Executing, Typed
<1>7. Minted'
  <2>1. ASSUME NEW r \in Runs, r # act.run PROVE runs'[r] = runs[r] /\ runs[r] # "open"
    <3>1. runs'[r] = runs[r]
        BY <1>3, <2>1 DEF Typed
    <3>2. r < act.run \/ act.run < r
        BY <1>1, <2>1, TurnFenceAssumption DEF Runs
    <3>3. r < act.run => runs[r] = "closed"
        BY <1>1 DEF InOrder
    <3>4. act.run < r => runs[r] = "new"
        BY <1>1 DEF InOrder
    <3>. QED BY <3>1, <3>2, <3>3, <3>4
  <2>2. runs'[act.run] = "closed"
      BY <1>1, <1>3 DEF Typed
  <2>. QED BY <1>3, <1>4, <2>1, <2>2 DEF Minted
<1>8. AgentGoesOn /\ GrantGoesOn
    BY <1>1, <1>3, <1>4 DEF AgentGoesOn, GrantGoesOn, Typed
<1>9. CallsFrom
  <2>1. runs'[m.run] = "closed" /\ m.run \in Runs /\ m.epoch <= seq'
      BY <1>1, <1>2, <1>3 DEF Typed
  <2>2. Sent(m)'
      BY <1>2, <2>1 DEF Sent
  <2>. QED BY <1>2, <1>3, <2>2, OneCall DEF New
<1>10. seq <= seq' /\ FenceGoesOn /\ Heard' /\ Cancels' /\ NothingNewer'
  <2>1. seq <= seq'
      BY <1>1, <1>3
  <2>. QED BY <1>3, <1>5, <2>1, FenceStill DEF wsVars
<1>. QED BY <1>5, <1>6, <1>7, <1>8, <1>9, <1>10, CallsKeep DEF IInv


LEMMA FinishPreserves ==
    ASSUME IInv, Finish
    PROVE  IInv'
<1>1. act.step # "none"
    BY DEF Finish
<1>2. calls' = (calls \ {}) \cup {Msg("end", act.run, act.epoch, "out")}
    BY DEF Finish, Ended
<1>. QED BY <1>1, <1>2, EndTurnPreserves DEF Finish

\* A step that only moves calls on, and notes what no execution depends on.
LEMMA OnlyCalls ==
    ASSUME IInv, Typed', CallsFrom, UNCHANGED <<fence, stopped, revived, opened, chat, seq, runs, act, deaths>>,
           worked'.epoch = worked.epoch, worked'.astray = worked.astray
    PROVE  IInv'
<1>1. InOrder' /\ Executing' /\ Minted' /\ AgentGoesOn /\ GrantGoesOn
    BY AgentStill
<1>2. seq <= seq'
    BY DEF IInv, Typed
<1>3. FenceGoesOn /\ Heard' /\ Cancels' /\ NothingNewer'
    BY <1>2, FenceStill
<1>. QED BY <1>1, <1>3, CallsKeep DEF IInv

LEMMA PreparedPreserves ==
    ASSUME IInv, NEW c \in calls, Prepared(c)
    PROVE  IInv'
<1>. Typed /\ Executing
    BY DEF IInv
<1>. /\ c.op = "prepare" /\ c.phase = "back"
     /\ UNCHANGED <<wsVars, faults, histVars>>
    BY DEF Prepared
<1>1. CASE calls' = calls \ {c} /\ UNCHANGED isoVars
  <2>1. Typed'
      BY <1>1 DEF Typed, wsVars, isoVars, faults, histVars
  <2>2. CallsFrom
      BY <1>1, SelfDerived DEF CallsFrom
  <2>. QED BY <1>1, <2>1, <2>2, OnlyCalls DEF wsVars, isoVars, faults, histVars
<1>2. CASE /\ act.step = "asking" /\ act.epoch = c.epoch /\ c.answer = "ok"
           /\ act' = Exec(act.run, act.epoch, "granted", act.cut)
           /\ calls' = calls \ {c} /\ UNCHANGED <<seq, runs, stopReq, told>>
  <2>1. act' \in Acts /\ act'.run = act.run /\ act'.epoch = act.epoch /\ act'.step = "granted" /\ Claimed' /\ Claimed
      BY <1>2 DEF Exec, Acts, Typed, Claimed
  <2>2. Typed'
      BY <1>2, <2>1 DEF Typed, wsVars, faults, histVars
  <2>3. InOrder' /\ Executing'
      BY <1>2, <2>1 DEF IInv, InOrder, Executing
  <2>4. Minted'
      BY <1>2, <2>1 DEF IInv, Minted, faults
  <2>5. AgentGoesOn /\ GrantGoesOn
      BY <1>2, <2>1 DEF AgentGoesOn, GrantGoesOn
  <2>6. CallsFrom
      BY <1>2, SelfDerived DEF CallsFrom
  <2>. QED BY <1>2, <2>2, <2>3, <2>4, <2>5, <2>6, FenceStill, CallsKeep DEF IInv, Typed, wsVars, histVars
<1>3. CASE act.step = "asking" /\ EndTurn /\ calls' = Ended({c})
    BY <1>3, EndTurnPreserves DEF Ended
<1>. QED BY <1>1, <1>2, <1>3 DEF Prepared

LEMMA WorkPreserves ==
    ASSUME IInv, Work
    PROVE  IInv'
<1>. Typed /\ Executing
    BY DEF IInv
<1>1. act.run \in 0..MaxRuns /\ act.epoch \in Nat /\ deaths \in Nat /\ act.epoch = seq
    BY DEF Typed, Acts, Executing, Work, Claimed
<1>2. PICK m \in Msgs : /\ m = Msg("work", act.run, act.epoch, "out") /\ m.op = "work"
                        /\ m.epoch = act.epoch /\ m.answer = "none"
  <2>. DEFINE n == Msg("work", act.run, act.epoch, "out")
  <2>2. n \in Msgs /\ n.op = "work" /\ n.epoch = act.epoch /\ n.answer = "none"
      BY <1>1 DEF Msg, Msgs
  <2>. QED BY <2>2
<1>3. calls' = calls \cup {m} /\ UNCHANGED <<wsVars, isoVars, faults, histVars>>
    BY <1>2 DEF Work
<1>4. Typed'
    BY <1>2, <1>3 DEF Typed, wsVars, isoVars, faults, histVars
<1>5. m.epoch <= seq' /\ seq' = seq
    BY <1>1, <1>2, <1>3 DEF isoVars
<1>6. Sent(m)'
    BY <1>2, <1>5 DEF Sent
<1>7. CallsFrom
    BY <1>2, <1>3, <1>6, OneCall DEF New
<1>. QED BY <1>3, <1>4, <1>7, OnlyCalls DEF wsVars, isoVars, faults, histVars

LEMMA StopArrivesPreserves ==
    ASSUME IInv, NEW c \in calls, StopArrives(c)
    PROVE  IInv'
<1>. Typed /\ Executing
    BY DEF IInv
<1>0. c \in Msgs
    BY DEF Typed
<1>1. UNCHANGED <<wsVars, seq, runs, told, faults, histVars>>
    BY DEF StopArrives
<1>2. PICK m \in Msgs : /\ m = Moved(c, "back", "ok") /\ m.op = c.op /\ m.run = c.run /\ m.epoch = c.epoch
  <2>. DEFINE n == Moved(c, "back", "ok")
  <2>1. n \in Msgs /\ n.op = c.op /\ n.run = c.run /\ n.epoch = c.epoch
      BY <1>0, MovedTyped
  <2>. QED BY <2>1
<1>3. calls' \subseteq calls \cup {m}
    BY <1>2 DEF StopArrives
<1>4. act' \in Acts /\ act'.run = act.run /\ act'.epoch = act.epoch /\ act'.step = act.step /\ (act = NoAct => act' = NoAct)
  <2>1. CASE act' = act
      BY <2>1 DEF Typed
  <2>2. CASE act # NoAct /\ act' = Exec(act.run, act.epoch, act.step, TRUE)
      BY <2>2 DEF Exec, Acts, Typed
  <2>. QED BY <2>1, <2>2 DEF StopArrives
<1>5. stopReq' \subseteq Runs
  <2>1. act.step # "none" => act.run \in Runs
      BY DEF Executing
  <2>2. act # NoAct => act.step # "none"
      BY DEF Executing
  <2>3. stopReq' = stopReq \/ (act # NoAct /\ stopReq' = stopReq \cup {act.run})
      BY DEF StopArrives
  <2>. QED BY <2>1, <2>2, <2>3 DEF Typed
<1>6. Typed'
    BY <1>1, <1>2, <1>3, <1>4, <1>5 DEF Typed, wsVars, faults, histVars
<1>7. Claimed' = Claimed
    BY <1>4 DEF Claimed
<1>8. InOrder' /\ Executing'
    BY <1>1, <1>4, <1>7 DEF IInv, InOrder, Executing
<1>9. Minted'
    BY <1>1, <1>7 DEF IInv, Minted, faults
<1>10. AgentGoesOn /\ GrantGoesOn
    BY <1>1, <1>4, <1>7 DEF AgentGoesOn, GrantGoesOn
<1>11. CallsFrom
  <2>1. c.op \in {"stop", "stray stop"}
      BY DEF StopArrives
  <2>2. Derived(m, c)
      BY <1>2, <2>1 DEF Derived
  <2>. QED BY <1>3, <2>2, OneCall
<1>12. seq <= seq' /\ UNCHANGED <<fence, stopped, revived, opened, chat, worked>>
  <2>1. seq \in Nat
      BY DEF Typed
  <2>. QED BY <1>1, <2>1 DEF wsVars, histVars
<1>13. FenceGoesOn /\ Heard' /\ Cancels' /\ NothingNewer'
    BY <1>6, <1>12, FenceStill
<1>. QED BY <1>6, <1>8, <1>9, <1>10, <1>11, <1>13, CallsKeep DEF IInv

LEMMA ReportRestPreserves ==
    ASSUME IInv, ReportRest
    PROVE  IInv'
<1>. Typed
    BY DEF IInv
<1>1. PICK r \in 0..MaxRuns : calls' = calls \cup {Msg("rest", r, 0, "out")}
    BY DEF ReportRest
<1>2. PICK m \in Msgs : /\ m = Msg("rest", r, 0, "out") /\ m.op = "rest" /\ m.epoch = 0 /\ m.answer = "none"
  <2>. DEFINE n == Msg("rest", r, 0, "out")
  <2>1. deaths \in Nat
      BY DEF Typed
  <2>2. n \in Msgs /\ n.op = "rest" /\ n.epoch = 0 /\ n.answer = "none"
      BY <2>1 DEF Msg, Msgs
  <2>. QED BY <2>2
<1>3. told' = TRUE /\ UNCHANGED <<wsVars, seq, runs, stopReq, act, faults, histVars>>
    BY DEF ReportRest
<1>4. Typed'
    BY <1>1, <1>2, <1>3 DEF Typed, wsVars, faults, histVars
<1>5. 0 <= seq'
    BY <1>3 DEF Typed
<1>6. Sent(m)'
    BY <1>2, <1>5 DEF Sent
<1>7. CallsFrom
    BY <1>1, <1>2, <1>6, OneCall DEF New
<1>. QED BY <1>3, <1>4, <1>7, OnlyCalls DEF wsVars, faults, histVars

LEMMA OwedAnswersPreserves ==
    ASSUME IInv, NEW c \in calls, OwedAnswers(c)
    PROVE  IInv'
<1>. Typed
    BY DEF IInv
<1>. c \in Msgs /\ c.op = "owed"
    BY DEF OwedAnswers, Typed
<1>1. PICK a \in {"no", "yes"} : calls' = (calls \ {c}) \cup {Moved(c, "back", a)} /\ (a = "yes" \/ act = NoAct)
    BY DEF OwedAnswers
<1>2. PICK m \in Msgs : /\ m = Moved(c, "back", a) /\ m.op = c.op /\ m.run = c.run /\ m.epoch = c.epoch
                        /\ m.answer = a
    BY MovedTyped
<1>3. calls' \subseteq calls \cup {m} /\ UNCHANGED <<wsVars, isoVars, faults, histVars>>
  <2>1. UNCHANGED <<wsVars, isoVars, faults, histVars>>
      BY DEF OwedAnswers
  <2>2. calls' = (calls \ {c}) \cup {m}
      BY <1>1, <1>2
  <2>. QED BY <2>1, <2>2
<1>4. Typed'
    BY <1>2, <1>3 DEF Typed, wsVars, isoVars, faults, histVars
<1>5. a = "yes" \/ ~Claimed
  <2>1. act = NoAct => ~Claimed
      BY DEF NoAct, Exec, Claimed
  <2>. QED BY <1>1, <2>1
<1>6. Derived(m, c)
    BY <1>1, <1>2, <1>5 DEF Derived
<1>. QED BY <1>3, <1>4, <1>6, OneCall, OnlyCalls DEF wsVars, isoVars, faults, histVars

-----------------------------------------------------------------------------
(* The workspace. *)

LEMMA StopSent ==
    ASSUME NEW m, m.op = "stop", m.epoch <= MaxStops
    PROVE  Sent(m)'
BY DEF Sent

\* What a step that admits no opening leaves of the fence's promises.
LEMMA FenceSame ==
    ASSUME IInv, UNCHANGED <<fence, stopped, revived>>, worked'.epoch = worked.epoch, worked'.astray = worked.astray
    PROVE  FenceGoesOn /\ Cancels' /\ NothingNewer'
<1>1. FenceGoesOn
    BY DEF IInv, FenceGoesOn, Fenced
<1>2. Cancels' /\ NothingNewer'
    BY DEF IInv, Cancels, NothingNewer
<1>. QED BY <1>1, <1>2

\* A step of the workspace that admits no opening and hears no start.
LEMMA WorkspaceGoesOn ==
    ASSUME IInv, Typed', CallsFrom, FenceGoesOn, Cancels', NothingNewer', Heard', UNCHANGED <<seq, runs, act, deaths>>
    PROVE  IInv'
BY AgentStill, CallsKeep DEF IInv

LEMMA Forgets ==
    ASSUME IInv, seq' = seq, chat' \in {chat, NoTurn}, \A t \in Turns : opened'[t] \in {opened[t], 0}
    PROVE  Heard'
<1>1. \A t \in Turns : opened[t] \in Nat
    BY DEF IInv, Typed
<1>2. seq \in Nat
    BY DEF IInv, Typed
<1>. QED BY <1>1, <1>2 DEF IInv, Heard

LEMMA StartHeardPreserves ==
    ASSUME IInv, NEW c \in calls, StartHeard(c)
    PROVE  IInv'
<1>. Typed
    BY DEF IInv
<1>1. c.run \in Runs
    BY DEF StartHeard, IInv, Sent
<1>2. /\ chat' = TurnOf[c.run] /\ calls' = calls \ {c}
      /\ UNCHANGED <<fence, stop, opened, cuts, armed, isoVars, faults, histVars>>
    BY DEF StartHeard
<1>3. chat' \in Turns
    BY <1>1, <1>2, TurnFenceAssumption
<1>4. Typed'
    BY <1>2, <1>3 DEF Typed, isoVars, faults, histVars
<1>5. CallsFrom
    BY <1>2, SelfDerived DEF CallsFrom
<1>6. FenceGoesOn /\ Cancels' /\ NothingNewer'
    BY <1>2, FenceSame DEF histVars
<1>7. Heard'
    BY <1>1, <1>2 DEF IInv, Heard, isoVars
<1>. QED BY <1>2, <1>4, <1>5, <1>6, <1>7, WorkspaceGoesOn DEF isoVars, faults

LEMMA StopAgentPreserves ==
    ASSUME IInv, StopAgent
    PROVE  IInv'
<1>. Typed
    BY DEF IInv
<1>1. stop.generation \in Nat /\ stop.generation + 1 \in 0..MaxStops /\ deaths \in Nat /\ 1 \in 0..MaxRuns
    BY TurnFenceAssumption DEF StopAgent, Typed
<1>2. PICK m \in Msgs : /\ m = Msg("stop", 1, stop.generation + 1, "out") /\ m.op = "stop"
                        /\ m.epoch = stop.generation + 1 /\ m.answer = "none"
  <2>. DEFINE n == Msg("stop", 1, stop.generation + 1, "out")
  <2>1. n \in Msgs /\ n.op = "stop" /\ n.epoch = stop.generation + 1 /\ n.answer = "none"
      BY <1>1 DEF Msg, Msgs
  <2>. QED BY <2>1
<1>3. /\ stop' = [stop EXCEPT !.generation = stop.generation + 1]
      /\ fence' = [fence EXCEPT !.cancelled = fence.cancelled \/ Live]
      /\ stopped' = IF Live THEN stopped \cup {fence.run} ELSE stopped
      /\ cuts' = cuts \cup ({chat} \ {NoTurn}) /\ calls' = calls \cup {m}
      /\ UNCHANGED <<opened, chat, armed, isoVars, faults, revived, worked>>
    BY <1>2 DEF StopAgent
<1>4. /\ fence' \in [seq : Nat, run : 0..MaxRuns, ended : BOOLEAN, cancelled : BOOLEAN]
      /\ fence'.seq = fence.seq /\ fence'.run = fence.run /\ fence'.ended = fence.ended
      /\ fence'.cancelled = (fence.cancelled \/ Live)
    BY <1>3 DEF Typed, Live
<1>5. stop' \in [generation : 0..MaxStops, retired : 0..MaxStops]
    BY <1>1, <1>3 DEF Typed
<1>6. Typed'
    BY <1>2, <1>3, <1>4, <1>5 DEF Typed, isoVars, faults
<1>7. CallsFrom
  <2>1. Sent(m)'
      BY <1>1, <1>2, StopSent
  <2>. QED BY <1>2, <1>3, <2>1, OneCall DEF New
<1>8. FenceGoesOn
    BY <1>4 DEF IInv, Fenced, FenceGoesOn, Live
<1>9. Cancels'
  <2>1. Live => fence.seq > 0 /\ fence.run \in Runs
      BY DEF Live, IInv, Fenced, Opening
  <2>2. fence.run <= fence.run
      BY DEF Typed
  <2>. QED BY <1>3, <1>4, <2>1, <2>2 DEF IInv, Cancels
<1>10. NothingNewer'
    BY <1>3, <1>4 DEF IInv, NothingNewer
<1>11. Heard'
    BY <1>3, Forgets DEF isoVars
<1>. QED BY <1>3, <1>6, <1>7, <1>8, <1>9, <1>10, <1>11, WorkspaceGoesOn DEF isoVars, faults

\* The Stop that crosses again.
LEMMA CrossingTyped ==
    ASSUME Typed
    PROVE  \E s \in Msgs : /\ s = Msg("stop", 0, stop.generation, "out")
                           /\ s.op = "stop" /\ s.epoch = stop.generation /\ s.answer = "none" /\ s.epoch <= MaxStops
<1>. DEFINE s == Msg("stop", 0, stop.generation, "out")
<1>1. 0 \in 0..MaxRuns /\ deaths \in Nat /\ stop.generation \in Nat /\ stop.generation <= MaxStops
    BY TurnFenceAssumption DEF Typed
<1>2. s \in Msgs /\ s.op = "stop" /\ s.epoch = stop.generation /\ s.answer = "none"
    BY <1>1 DEF Msg, Msgs
<1>3. s.epoch <= MaxStops
    BY <1>1, <1>2
<1>. QED BY <1>2, <1>3

LEMMA PrepareArrivesPreserves ==
    ASSUME IInv, NEW c \in calls, PrepareArrives(c)
    PROVE  IInv'
<1>. Typed
    BY DEF IInv
<1>1. c \in Msgs /\ c.answer \in {"none", "ok", "refused", "no", "yes"}
    BY DEF Typed, Msgs
<1>2. PICK s \in Msgs : /\ s = Msg("stop", 0, stop.generation, "out")
                        /\ s.op = "stop" /\ s.answer = "none" /\ s.epoch <= MaxStops
    BY CrossingTyped
<1>3. PICK k \in Msgs : /\ k.op = c.op /\ k.run = c.run /\ k.epoch = c.epoch /\ k.answer = c.answer /\ k.phase # "back"
                        /\ calls' \subseteq (calls \ {c}) \cup {k, s}
  <2>1. PICK p \in {"joined", "account"} : calls' \subseteq (calls \ {c}) \cup {Moved(c, p, c.answer), s}
      BY <1>2 DEF PrepareArrives, Joining
  <2>. DEFINE k == Moved(c, p, c.answer)
  <2>2. k \in Msgs /\ k.op = c.op /\ k.run = c.run /\ k.epoch = c.epoch /\ k.answer = c.answer /\ k.phase = p
      BY <1>1, MovedTyped
  <2>. HIDE DEF k
  <2>3. calls' \subseteq (calls \ {c}) \cup {k, s}
      BY <2>1 DEF k
  <2>. QED BY <2>2, <2>3
<1>4. UNCHANGED <<wsVars, isoVars, faults, histVars>> /\ c.op = "prepare"
    BY DEF PrepareArrives
<1>5. Typed'
    BY <1>2, <1>3, <1>4 DEF Typed, wsVars, isoVars, faults, histVars
<1>6. CallsFrom
  <2>1. New(s)
      BY <1>2, StopSent DEF New
  <2>2. Derived(k, c)
      BY <1>3, <1>4 DEF Derived
  <2>. QED BY <1>3, <2>1, <2>2, SelfDerived DEF CallsFrom
<1>. QED BY <1>4, <1>5, <1>6, OnlyCalls DEF wsVars, isoVars, faults, histVars

LEMMA StopAnsweredPreserves ==
    ASSUME IInv, NEW c \in calls, StopAnswered(c)
    PROVE  IInv'
<1>. Typed
    BY DEF IInv
<1>1. c.epoch \in 0..MaxStops
  <2>1. c.epoch \in Nat
      BY DEF Typed, Msgs
  <2>2. c.epoch <= MaxStops
      BY DEF IInv, Sent, StopAnswered
  <2>. QED BY <2>1, <2>2, TurnFenceAssumption
<1>2. UNCHANGED <<fence, opened, chat, cuts, armed, isoVars, faults, histVars>>
    BY DEF StopAnswered
<1>3. stop' \in [generation : 0..MaxStops, retired : 0..MaxStops]
    BY <1>1 DEF StopAnswered, Typed
<1>4. ASSUME NEW d \in calls' PROVE d \in Msgs /\ \E e \in calls : Derived(d, e)
  <2>1. PICK e \in calls : \/ d = e
                           \/ e.op = "owed" /\ d = Moved(e, "out", e.answer)
                           \/ d = Moved(e, "back", "refused")
      BY DEF StopAnswered
  <2>2. e \in Msgs /\ e.answer \in {"none", "ok", "refused", "no", "yes"}
      BY DEF Typed, Msgs
  <2>3. CASE d = e
      BY <2>2, <2>3, SelfDerived
  <2>4. CASE e.op = "owed" /\ d = Moved(e, "out", e.answer)
    <3>1. d \in Msgs /\ d.op = e.op /\ d.run = e.run /\ d.epoch = e.epoch /\ d.answer = e.answer
        BY <2>2, <2>4, MovedTyped
    <3>. QED BY <2>4, <3>1 DEF Derived
  <2>5. CASE d = Moved(e, "back", "refused")
    <3>1. d \in Msgs /\ d.op = e.op /\ d.run = e.run /\ d.epoch = e.epoch /\ d.answer = "refused"
        BY <2>2, <2>5, MovedTyped
    <3>. QED BY <3>1 DEF Derived
  <2>. QED BY <2>1, <2>3, <2>4, <2>5
<1>5. Typed'
    BY <1>2, <1>3, <1>4 DEF Typed, isoVars, faults, histVars
<1>. QED BY <1>2, <1>4, <1>5, OnlyCalls DEF CallsFrom, isoVars, faults, histVars

\* The one step that moves the fence: the opening is newer than every other, of the
\* newest run, and of a run no Stop cancelled.
LEMMA PrepareOpensPreserves ==
    ASSUME IInv, NEW c \in calls, PrepareOpens(c)
    PROVE  IInv'
<1>. Typed /\ Fenced /\ Executing
    BY DEF IInv
<1>1. c \in Msgs /\ c.answer \in {"none", "ok", "refused", "no", "yes"} /\ c.run \in 0..MaxRuns /\ c.epoch \in Nat
    BY DEF Typed, Msgs
<1>2. c.op = "prepare" /\ UNCHANGED <<stop, chat, cuts, armed, isoVars, faults, stopped, before, worked>>
    BY DEF PrepareOpens
<1>3. CASE ~Admits(c.run, c.epoch)
  <2>1. PICK m \in Msgs : /\ m = Moved(c, "back", "refused") /\ m.op = c.op /\ m.run = c.run /\ m.epoch = c.epoch
                          /\ m.answer = "refused"
    <3>. DEFINE n == Moved(c, "back", "refused")
    <3>1. n \in Msgs /\ n.op = c.op /\ n.run = c.run /\ n.epoch = c.epoch /\ n.answer = "refused"
        BY <1>1, MovedTyped
    <3>. QED BY <3>1
  <2>2. calls' = (calls \ {c}) \cup {m} /\ UNCHANGED <<fence, opened, revived>>
      BY <1>3, <2>1 DEF PrepareOpens
  <2>3. Typed'
      BY <1>2, <2>1, <2>2 DEF Typed, isoVars, faults
  <2>4. Derived(m, c)
      BY <1>2, <2>1 DEF Derived
  <2>5. CallsFrom
      BY <2>2, <2>4, OneCall
  <2>. QED BY <1>2, <2>2, <2>3, <2>5, OnlyCalls DEF isoVars, faults
<1>4. CASE Admits(c.run, c.epoch)
  <2>1. PICK m \in Msgs : /\ m = Moved(c, "reading", c.answer) /\ m.op = c.op /\ m.run = c.run /\ m.epoch = c.epoch
                          /\ m.phase = "reading"
    <3>. DEFINE n == Moved(c, "reading", c.answer)
    <3>1. n \in Msgs /\ n.op = c.op /\ n.run = c.run /\ n.epoch = c.epoch /\ n.phase = "reading"
        BY <1>1, MovedTyped
    <3>. QED BY <3>1
  <2>2. /\ fence' = [seq |-> c.epoch, run |-> c.run, ended |-> FALSE, cancelled |-> FALSE]
        /\ opened' = [opened EXCEPT ![TurnOf[c.run]] = c.epoch]
        /\ revived' = IF c.run \in stopped THEN revived \cup {c.run} ELSE revived
        /\ calls' = (calls \ {c}) \cup {m}
      BY <1>4, <2>1 DEF PrepareOpens
  <2>3. Opening(c.run, c.epoch) /\ c.run \in Runs /\ c.epoch <= seq /\ c.epoch > 0
      BY <1>2 DEF IInv, Sent, Opening
  <2>4. /\ fence' \in [seq : Nat, run : 0..MaxRuns, ended : BOOLEAN, cancelled : BOOLEAN]
        /\ fence'.seq = c.epoch /\ fence'.run = c.run /\ ~fence'.ended /\ ~fence'.cancelled
      BY <1>1, <2>2
  <2>5. fence.seq \in Nat /\ fence.run \in Nat /\ c.run \in Nat /\ seq \in Nat
      BY <1>1 DEF Typed
  <2>6. c.epoch > fence.seq /\ ~(fence.cancelled /\ fence.run = c.run)
      BY <1>4 DEF Admits
  <2>7. fence.seq > 0 => fence.run <= c.run
      BY <1>2, <2>5, <2>6, <1>1 DEF Fenced, InStep
  <2>8. opened' \in [Turns -> Nat] /\ \A t \in Turns : opened'[t] \in {opened[t], c.epoch}
      BY <1>1, <2>2 DEF Typed
  <2>9. Typed'
      BY <1>2, <2>1, <2>2, <2>4, <2>8 DEF Typed, isoVars, faults
  <2>10. InOrder' /\ Executing' /\ Minted' /\ AgentGoesOn
      BY <1>2, AgentStill DEF isoVars, faults
  <2>11. \A d \in calls' : \/ d \in calls
                           \/ d.op = "prepare" /\ d.run = c.run /\ d.epoch = c.epoch /\ d.phase = "reading"
      BY <1>2, <2>1, <2>2
  <2>12. \A d \in calls' : Sent(d)'
    <3>1. Derived(m, c)
        BY <1>2, <2>1 DEF Derived
    <3>2. CallsFrom
        BY <2>2, <3>1, OneCall
    <3>. QED BY <2>10, <3>2, SentKeeps
  <2>13. Fenced'
    <3>1. Opening(c.run, c.epoch)'
        BY <2>3, <2>10, OpeningKeeps
    <3>2. ASSUME NEW d \in calls', d.op = "prepare"
          PROVE  \E b \in calls : b.op = "prepare" /\ b.run = d.run /\ b.epoch = d.epoch
        BY <1>2, <2>11, <3>2
    <3>3. \A d, b \in calls' : d.op = "prepare" /\ b.op = "prepare" => InStep(d.run, d.epoch, b.run, b.epoch)
        BY <3>2 DEF Fenced
    <3>4. \A d \in calls' : d.op = "prepare" => InStep(d.run, d.epoch, fence'.run, fence'.seq)
        BY <1>2, <2>4, <3>2 DEF Fenced
    <3>5. fence'.seq # 0
        BY <2>3, <2>4
    <3>. QED BY <2>4, <3>1, <3>3, <3>4, <3>5 DEF Fenced, Opening, InStep
  <2>14. Heard'
    <3>1. seq' = seq /\ chat' = chat
        BY <1>2 DEF isoVars
    <3>. QED BY <2>3, <2>8, <3>1 DEF IInv, Heard
  <2>15. Cancels'
    <3>1. revived = {} /\ stopped \subseteq Runs /\ \A r \in stopped : fence.seq > 0 /\ r <= fence.run /\ (r = fence.run => fence.cancelled)
        BY DEF IInv, Cancels
    <3>2. c.run \notin stopped
        BY <2>5, <2>6, <2>7, <3>1
    <3>3. \A r \in stopped : r <= c.run
      <4>1. ASSUME NEW r \in stopped PROVE r <= c.run
        <5>1. r \in Nat
            BY <3>1, TurnFenceAssumption DEF Runs
        <5>. QED BY <2>5, <2>7, <3>1, <5>1
      <4>. QED BY <4>1
    <3>. QED BY <1>2, <2>2, <2>3, <2>4, <3>1, <3>2, <3>3 DEF Cancels
  <2>16. NothingNewer'
    <3>1. worked.epoch \in Nat
        BY DEF Typed, Works
    <3>. QED BY <1>1, <1>2, <2>4, <2>5, <2>6, <3>1 DEF IInv, NothingNewer
  <2>17. Granted'
    <3>1. Claimed => fence.seq # act.epoch
        BY <1>1, <2>3, <2>5, <2>6 DEF Executing
    <3>2. Claimed' = Claimed /\ act' = act
        BY <1>2 DEF isoVars, Claimed
    <3>3. act.step # "granted"
        BY <3>1 DEF IInv, Granted, Claimed
    <3>4. ASSUME NEW d \in calls', d.op = "prepare", d.phase = "back", d.answer = "ok", Claimed, d.epoch = act.epoch
          PROVE  FALSE
      <4>1. d \in calls
          BY <2>11, <3>4
      <4>. QED BY <3>1, <3>4, <4>1 DEF IInv, Granted
    <3>5. ASSUME NEW d \in calls', d.op = "owed", d.answer = "no", Claimed
          PROVE  d.epoch < act.epoch
      <4>1. d \in calls
          BY <2>11, <3>5
      <4>. QED BY <3>5, <4>1 DEF IInv, Granted
    <3>. QED BY <3>2, <3>3, <3>4, <3>5 DEF Granted
  <2>. QED BY <2>9, <2>10, <2>12, <2>13, <2>14, <2>15, <2>16, <2>17 DEF IInv
<1>. QED BY <1>3, <1>4

\* A turn this activation holds no more.
LEMMA CloseTurnForgets ==
    ASSUME Typed, NEW t \in Turns, CloseTurn(t)
    PROVE  /\ opened' \in [Turns -> Nat] /\ \A u \in Turns : opened'[u] \in {opened[u], 0}
           /\ cuts' \subseteq Turns
BY DEF Typed, CloseTurn

LEMMA PrepareReadsPreserves ==
    ASSUME IInv, NEW c \in calls, PrepareReads(c)
    PROVE  IInv'
<1>. Typed
    BY DEF IInv
<1>1. c \in Msgs
    BY DEF Typed
<1>2. c.op = "prepare" /\ UNCHANGED <<fence, stop, chat, armed, isoVars, faults, histVars>>
    BY DEF PrepareReads
<1>3. c.run \in Runs
    BY <1>2 DEF IInv, Sent, Opening
<1>4. PICK a \in {"ok", "refused"} : /\ calls' = (calls \ {c}) \cup {Moved(c, "back", a)}
                                     /\ a = "ok" => fence.seq = c.epoch /\ ~fence.ended
    BY DEF PrepareReads, StillOpen
<1>5. PICK m \in Msgs : m = Moved(c, "back", a) /\ m.op = c.op /\ m.run = c.run /\ m.epoch = c.epoch /\ m.answer = a
  <2>. DEFINE n == Moved(c, "back", a)
  <2>1. n \in Msgs /\ n.op = c.op /\ n.run = c.run /\ n.epoch = c.epoch /\ n.answer = a
      BY <1>1, <1>4, MovedTyped
  <2>. QED BY <2>1
<1>6. /\ opened' \in [Turns -> Nat] /\ \A u \in Turns : opened'[u] \in {opened[u], 0}
      /\ cuts' \subseteq Turns
  <2>1. CASE UNCHANGED <<opened, cuts>>
      BY <2>1 DEF Typed
  <2>2. CASE CloseTurn(TurnOf[c.run])
    <3>1. PICK t \in Turns : t = TurnOf[c.run]
        BY <1>3, TurnFenceAssumption
    <3>. QED BY <2>2, <3>1, CloseTurnForgets
  <2>. QED BY <2>1, <2>2 DEF PrepareReads
<1>7. calls' = (calls \ {c}) \cup {m}
    BY <1>4, <1>5
<1>8. Typed'
    BY <1>2, <1>5, <1>6, <1>7 DEF Typed, isoVars, faults, histVars
<1>9. CallsFrom
  <2>1. Derived(m, c)
      BY <1>2, <1>4, <1>5 DEF Derived
  <2>. QED BY <1>7, <2>1, OneCall
<1>10. FenceGoesOn /\ Cancels' /\ NothingNewer'
    BY <1>2, FenceSame DEF histVars
<1>11. Heard'
    BY <1>2, <1>6, Forgets DEF isoVars
<1>. QED BY <1>2, <1>8, <1>9, <1>10, <1>11, WorkspaceGoesOn DEF isoVars, faults

\* A call that runs is of the opening the fence holds.
LEMMA CallRunsInOrder ==
    ASSUME IInv, NEW c \in calls, CallRuns(c), fence.seq = c.epoch, fence' = fence
    PROVE  worked' \in Works /\ NothingNewer'
<1>1. c.epoch \in Nat /\ worked \in Works /\ worked.epoch \in Nat
    BY DEF IInv, Typed, Msgs, Works
<1>2. worked' = [worked EXCEPT !.epoch = c.epoch, !.astray = worked.astray \/ c.epoch < worked.epoch]
    BY DEF CallRuns
<1>3. worked' \in Works /\ worked'.epoch = c.epoch /\ (worked'.astray => worked.astray \/ c.epoch < worked.epoch)
    BY <1>1, <1>2 DEF Works
<1>4. ~(c.epoch < worked.epoch) /\ ~worked.astray
    BY <1>1 DEF IInv, NothingNewer
<1>. QED BY <1>1, <1>3, <1>4 DEF NothingNewer

LEMMA WorkArrivesPreserves ==
    ASSUME IInv, NEW c \in calls, WorkArrives(c)
    PROVE  IInv'
<1>. Typed
    BY DEF IInv
<1>1. c \in Msgs
    BY DEF Typed
<1>2. c.op = "work" /\ UNCHANGED <<wsVars, isoVars, faults, stopped, revived, before>>
    BY DEF WorkArrives
<1>3. PICK m \in Msgs : /\ m = Moved(c, "frozen", c.answer)
                        /\ m.op = c.op /\ m.run = c.run /\ m.epoch = c.epoch
  <2>. DEFINE n == Moved(c, "frozen", c.answer)
  <2>1. c.answer \in {"none", "ok", "refused", "no", "yes"}
      BY <1>1 DEF Msgs
  <2>2. n \in Msgs /\ n.op = c.op /\ n.run = c.run /\ n.epoch = c.epoch
      BY <1>1, <2>1, MovedTyped
  <2>. QED BY <2>2
<1>4. calls' \subseteq calls \cup {m}
    BY <1>3 DEF WorkArrives
<1>5. CallsFrom
  <2>1. Derived(m, c)
      BY <1>2, <1>3 DEF Derived
  <2>. QED BY <1>4, <2>1, OneCall
<1>6. worked' \in Works /\ NothingNewer'
  <2>1. CASE Holds(c.run, c.epoch) /\ Known(c)
    <3>1. CallRuns(c) /\ fence.seq = c.epoch /\ fence' = fence
        BY <1>2, <2>1 DEF WorkArrives, Holds, wsVars
    <3>. QED BY <3>1, CallRunsInOrder
  <2>2. CASE Holds(c.run, c.epoch) /\ ~Known(c)
    <3>1. worked' = worked /\ fence' = fence
        BY <1>2, <2>2 DEF WorkArrives, wsVars
    <3>. QED BY <3>1 DEF IInv, Typed, NothingNewer
  <2>3. CASE ~Holds(c.run, c.epoch)
    <3>1. PICK late \in BOOLEAN : worked' = [worked EXCEPT !.shut = worked.shut \/ late]
        BY <2>3 DEF WorkArrives
    <3>2. worked' \in Works /\ worked'.epoch = worked.epoch /\ worked'.astray = worked.astray
        BY <3>1 DEF Typed, Works
    <3>. QED BY <1>2, <3>2 DEF IInv, NothingNewer, wsVars
  <2>. QED BY <2>1, <2>2, <2>3
<1>7. Typed'
    BY <1>2, <1>4, <1>6 DEF Typed, wsVars, isoVars, faults
<1>8. FenceGoesOn /\ Cancels' /\ Heard'
    BY <1>2, <1>7 DEF IInv, FenceGoesOn, Fenced, Cancels, Heard, wsVars, isoVars
<1>. QED BY <1>2, <1>5, <1>6, <1>7, <1>8, WorkspaceGoesOn DEF isoVars, faults

LEMMA WorkReopensPreserves ==
    ASSUME IInv, NEW c \in calls, WorkReopens(c)
    PROVE  IInv'
<1>. Typed
    BY DEF IInv
<1>1. c \in Msgs /\ c.epoch \in Nat /\ c.epoch <= seq
  <2>1. c \in Msgs /\ c.epoch \in Nat
      BY DEF Typed, Msgs
  <2>2. c.epoch <= seq
      BY DEF IInv, Sent, WorkReopens
  <2>. QED BY <2>1, <2>2
<1>2. /\ c.op = "work" /\ opened' = [opened EXCEPT ![TurnOf[c.run]] = c.epoch]
      /\ UNCHANGED <<fence, stop, chat, cuts, armed, isoVars, faults, histVars>>
    BY DEF WorkReopens
<1>3. PICK m \in Msgs : /\ m = Moved(c, "rereading", c.answer)
                        /\ m.op = c.op /\ m.run = c.run /\ m.epoch = c.epoch
  <2>. DEFINE n == Moved(c, "rereading", c.answer)
  <2>1. c.answer \in {"none", "ok", "refused", "no", "yes"}
      BY <1>1 DEF Msgs
  <2>2. n \in Msgs /\ n.op = c.op /\ n.run = c.run /\ n.epoch = c.epoch
      BY <1>1, <2>1, MovedTyped
  <2>. QED BY <2>2
<1>4. calls' \subseteq calls \cup {m}
    BY <1>3 DEF WorkReopens
<1>5. CallsFrom
  <2>1. Derived(m, c)
      BY <1>2, <1>3 DEF Derived
  <2>. QED BY <1>4, <2>1, OneCall
<1>6. opened' \in [Turns -> Nat] /\ \A t \in Turns : opened'[t] \in {opened[t], c.epoch}
    BY <1>1, <1>2 DEF Typed
<1>7. Typed'
    BY <1>2, <1>4, <1>6 DEF Typed, isoVars, faults, histVars
<1>8. Heard'
  <2>1. seq' = seq /\ chat' = chat
      BY <1>2 DEF isoVars
  <2>. QED BY <1>1, <1>6, <2>1 DEF IInv, Heard
<1>9. FenceGoesOn /\ Cancels' /\ NothingNewer'
    BY <1>2 DEF IInv, FenceGoesOn, Fenced, Cancels, NothingNewer, histVars
<1>. QED BY <1>2, <1>5, <1>7, <1>8, <1>9, WorkspaceGoesOn DEF isoVars, faults

LEMMA WorkRereadsPreserves ==
    ASSUME IInv, NEW c \in calls, WorkRereads(c)
    PROVE  IInv'
<1>. Typed
    BY DEF IInv
<1>1. calls' = calls \ {c} /\ UNCHANGED <<fence, stop, chat, armed, isoVars, faults, stopped, revived, before>>
    BY DEF WorkRereads
<1>2. CallsFrom
    BY <1>1, SelfDerived DEF CallsFrom
<1>3. FenceGoesOn /\ Cancels'
    BY <1>1 DEF IInv, FenceGoesOn, Fenced, Cancels
<1>4. /\ opened' \in [Turns -> Nat] /\ \A u \in Turns : opened'[u] \in {opened[u], 0}
      /\ cuts' \subseteq Turns
  <2>1. CASE UNCHANGED <<opened, cuts>>
      BY <2>1 DEF Typed
  <2>2. CASE CloseTurn(TurnOf[c.run])
      BY <2>2 DEF CloseTurn, Typed
  <2>. QED BY <2>1, <2>2 DEF WorkRereads
<1>5. worked' \in Works /\ NothingNewer'
  <2>1. CASE StillOpen(c.epoch)
    <3>1. CallRuns(c) /\ fence.seq = c.epoch
        BY <2>1 DEF WorkRereads, StillOpen
    <3>. QED BY <1>1, <3>1, CallRunsInOrder
  <2>2. CASE ~StillOpen(c.epoch)
    <3>1. worked' = worked
        BY <2>2 DEF WorkRereads
    <3>. QED BY <1>1, <3>1 DEF IInv, Typed, NothingNewer
  <2>. QED BY <2>1, <2>2
<1>6. Typed'
    BY <1>1, <1>4, <1>5 DEF Typed, isoVars, faults
<1>7. Heard'
    BY <1>1, <1>4, Forgets DEF isoVars
<1>. QED BY <1>1, <1>2, <1>3, <1>5, <1>6, <1>7, WorkspaceGoesOn DEF isoVars, faults

\* The chat turn stands, or is heard of no more.
LEMMA ChatClosedForgets ==
    ASSUME Typed, NEW at, ChatClosed(at)
    PROVE  /\ opened' \in [Turns -> Nat] /\ \A u \in Turns : opened'[u] \in {opened[u], 0}
           /\ cuts' \subseteq Turns /\ chat' \in {chat, NoTurn}
<1>1. CASE UNCHANGED <<chat, opened, cuts>>
    BY <1>1 DEF Typed
<1>2. CASE chat # NoTurn /\ chat' = NoTurn /\ CloseTurn(chat)
  <2>1. PICK t \in Turns : t = chat
      BY <1>2 DEF Typed
  <2>. QED BY <1>2, <2>1, CloseTurnForgets
<1>. QED BY <1>1, <1>2 DEF ChatClosed

\* An end, told or lost, that is not of the execution the isolate goes on with.
LEMMA EndedPreserves ==
    ASSUME IInv, calls' \subseteq Msgs, CallsFrom,
           UNCHANGED <<stop, armed, isoVars, faults, histVars>>,
           \/ fence' = fence
           \/ fence' = [fence EXCEPT !.ended = TRUE] /\ ~(Claimed /\ fence.seq = act.epoch),
           UNCHANGED <<chat, opened, cuts>> \/ \E at \in Nat : ChatClosed(at)
    PROVE  IInv'
<1>. Typed
    BY DEF IInv
<1>1. /\ fence' \in [seq : Nat, run : 0..MaxRuns, ended : BOOLEAN, cancelled : BOOLEAN]
      /\ fence'.seq = fence.seq /\ fence'.run = fence.run /\ fence'.cancelled = fence.cancelled
      /\ Claimed /\ fence.seq = act.epoch => fence'.ended = fence.ended
  <2>1. CASE fence' = fence
      BY <2>1 DEF Typed
  <2>2. CASE fence' = [fence EXCEPT !.ended = TRUE] /\ ~(Claimed /\ fence.seq = act.epoch)
      BY <2>2 DEF Typed
  <2>. QED BY <2>1, <2>2
<1>2. /\ opened' \in [Turns -> Nat] /\ \A u \in Turns : opened'[u] \in {opened[u], 0}
      /\ cuts' \subseteq Turns /\ chat' \in {chat, NoTurn}
  <2>1. CASE UNCHANGED <<chat, opened, cuts>>
      BY <2>1 DEF Typed
  <2>2. ASSUME NEW at \in Nat, ChatClosed(at)
        PROVE  /\ opened' \in [Turns -> Nat] /\ \A u \in Turns : opened'[u] \in {opened[u], 0}
               /\ cuts' \subseteq Turns /\ chat' \in {chat, NoTurn}
      BY <2>2, ChatClosedForgets
  <2>. QED BY <2>1, <2>2
<1>3. chat' \in Turns \cup {NoTurn}
    BY <1>2 DEF Typed
<1>4. Typed'
    BY <1>1, <1>2, <1>3 DEF Typed, isoVars, faults, histVars
<1>6. FenceGoesOn
  <2>1. Claimed' = Claimed
      BY DEF isoVars, Claimed
  <2>. QED BY <1>1, <2>1 DEF IInv, Fenced, FenceGoesOn
<1>7. Cancels' /\ NothingNewer'
    BY <1>1 DEF IInv, Cancels, NothingNewer, histVars
<1>8. Heard'
    BY <1>2, Forgets DEF isoVars
<1>. QED BY <1>4, <1>6, <1>7, <1>8, WorkspaceGoesOn DEF isoVars, faults

LEMMA EndArrivesPreserves ==
    ASSUME IInv, NEW c \in calls, EndArrives(c)
    PROVE  IInv'
<1>. Typed
    BY DEF IInv
<1>1. calls' = calls \ {c} /\ UNCHANGED <<stop, armed, isoVars, faults, histVars>>
    BY DEF EndArrives
<1>2. c.run \in Runs /\ runs[c.run] = "closed"
    BY DEF EndArrives, IInv, Sent
<1>3. fence.seq \in Nat /\ (fence.seq # 0 => fence.seq > 0)
    BY DEF Typed
<1>4. fence.seq # 0 /\ fence.run = c.run => ~(Claimed /\ fence.seq = act.epoch)
  <2>1. Claimed => runs[act.run] = "open"
      BY DEF IInv, Executing, Claimed
  <2>2. fence.seq # 0 /\ Claimed /\ fence.seq = act.epoch => fence.run = act.run
      BY <1>3 DEF IInv, Fenced, Opening
  <2>. QED BY <1>2, <2>1, <2>2
<1>5. \/ fence' = fence
      \/ fence' = [fence EXCEPT !.ended = TRUE] /\ ~(Claimed /\ fence.seq = act.epoch)
    BY <1>4 DEF EndArrives
<1>6. UNCHANGED <<chat, opened, cuts>> \/ \E at \in Nat : ChatClosed(at)
  <2>1. UNCHANGED <<chat, opened, cuts>> \/ ChatClosed(0) \/ ChatClosed(fence.seq)
      BY DEF EndArrives
  <2>. QED BY <1>3, <2>1
<1>7. calls' \subseteq Msgs /\ CallsFrom
    BY <1>1, SelfDerived DEF Typed, CallsFrom
<1>. QED BY <1>1, <1>5, <1>6, <1>7, EndedPreserves

LEMMA LostEndsPreserves ==
    ASSUME IInv, NEW c \in calls, LostEnds(c)
    PROVE  IInv'
<1>. Typed
    BY DEF IInv
<1>1. c.op = "owed" /\ UNCHANGED <<stop, opened, chat, cuts, armed, isoVars, faults, histVars>>
    BY DEF LostEnds
<1>2. c \in Msgs /\ c.epoch \in Nat /\ act.epoch \in Nat /\ fence.seq \in Nat /\ fence.ended \in BOOLEAN
    BY DEF Typed, Msgs, Acts
<1>3. c.answer = "no" /\ Claimed => c.epoch < act.epoch
    BY <1>1 DEF IInv, Granted
<1>4. PICK ends \in BOOLEAN :
          /\ ends /\ c.epoch # 0 => c.answer = "no" /\ Current = c.epoch
          /\ calls' = (calls \ {c}) \cup (IF ends THEN {Moved(c, "closing", c.answer)} ELSE {})
          /\ fence' = [fence EXCEPT !.ended = fence.ended \/ (ends /\ c.epoch # 0)]
    BY DEF LostEnds, LostExpects
<1>5. \/ fence' = fence
      \/ fence' = [fence EXCEPT !.ended = TRUE] /\ ~(Claimed /\ fence.seq = act.epoch)
  <2>1. CASE ends /\ c.epoch # 0
    <3>1. fence.seq = c.epoch /\ c.answer = "no"
        BY <1>2, <1>4, <2>1 DEF Current
    <3>2. fence' = [fence EXCEPT !.ended = TRUE]
        BY <1>2, <1>4, <2>1
    <3>. QED BY <1>2, <1>3, <3>1, <3>2
  <2>2. CASE ~(ends /\ c.epoch # 0)
    <3>1. fence' = [fence EXCEPT !.ended = fence.ended]
        BY <1>2, <1>4, <2>2
    <3>. QED BY <3>1 DEF Typed
  <2>. QED BY <2>1, <2>2
<1>6. PICK m \in Msgs : /\ m = Moved(c, "closing", c.answer)
                        /\ m.op = c.op /\ m.run = c.run /\ m.epoch = c.epoch /\ m.answer = c.answer
  <2>. DEFINE n == Moved(c, "closing", c.answer)
  <2>1. c.answer \in {"none", "ok", "refused", "no", "yes"}
      BY <1>2 DEF Msgs
  <2>2. n \in Msgs /\ n.op = c.op /\ n.run = c.run /\ n.epoch = c.epoch /\ n.answer = c.answer
      BY <1>2, <2>1, MovedTyped
  <2>. QED BY <2>2
<1>7. calls' \subseteq calls \cup {m}
    BY <1>4, <1>6
<1>8. calls' \subseteq Msgs /\ CallsFrom
  <2>1. Derived(m, c)
      BY <1>1, <1>6 DEF Derived
  <2>. QED BY <1>7, <2>1, OneCall DEF Typed
<1>. QED BY <1>1, <1>5, <1>8, EndedPreserves

LEMMA LostClosesPreserves ==
    ASSUME IInv, NEW c \in calls, LostCloses(c)
    PROVE  IInv'
<1>. Typed
    BY DEF IInv
<1>1. calls' = calls \ {c} /\ fence' = fence /\ UNCHANGED <<stop, armed, isoVars, faults, histVars>>
    BY DEF LostCloses
<1>2. \E at \in Nat : ChatClosed(at)
  <2>1. c.epoch \in Nat
      BY DEF Typed, Msgs
  <2>. QED BY <2>1 DEF LostCloses
<1>3. calls' \subseteq Msgs /\ CallsFrom
    BY <1>1, SelfDerived DEF Typed, CallsFrom
<1>. QED BY <1>1, <1>2, <1>3, EndedPreserves

LEMMA RestArrivesPreserves ==
    ASSUME IInv, NEW c \in calls, RestArrives(c)
    PROVE  IInv'
<1>. Typed
    BY DEF IInv
<1>1. UNCHANGED <<fence, stop, opened, chat, cuts, isoVars, faults, histVars>> /\ armed' = (armed /\ Overtaken(c))
    BY DEF RestArrives
<1>2. CASE calls' = calls \ {c}
  <2>2. Typed'
      BY <1>1, <1>2 DEF Typed, isoVars, faults, histVars, Overtaken
  <2>3. CallsFrom
      BY <1>2, SelfDerived DEF CallsFrom
  <2>. QED BY <1>1, <2>2, <2>3, OnlyCalls DEF isoVars, faults, histVars
<1>3. CASE chat # NoTurn /\ calls' # calls \ {c}
  <2>1. PICK r \in Runs : r = CHOOSE q \in Runs : TurnOf[q] = chat
      BY <1>3 DEF IInv, Heard
  <2>2. PICK e \in Nat : e <= seq /\ e = IF opened[chat] # 0 THEN opened[chat] ELSE Current
    <3>1. chat \in Turns
        BY <1>3 DEF Typed
    <3>2. opened[chat] \in Nat /\ fence.seq \in Nat /\ seq \in Nat
        BY <3>1 DEF Typed
    <3>3. opened[chat] <= seq
        BY <3>1 DEF IInv, Heard
    <3>4. Current \in Nat /\ Current <= seq
        BY <3>2 DEF IInv, Fenced, Opening, Current
    <3>. QED BY <3>2, <3>3, <3>4
  <2>3. PICK q \in Msgs : /\ q = Msg("owed", r, e, "out") /\ q.op = "owed" /\ q.epoch = e /\ q.answer = "none"
    <3>. DEFINE n == Msg("owed", r, e, "out")
    <3>1. r \in 0..MaxRuns /\ deaths \in Nat
        BY TurnFenceAssumption DEF Runs, Typed
    <3>2. n \in Msgs /\ n.op = "owed" /\ n.epoch = e /\ n.answer = "none"
        BY <3>1 DEF Msg, Msgs
    <3>. QED BY <3>2
  <2>4. calls' = Joining(calls \ {c}, q, "out")
      BY <1>3, <2>1, <2>2, <2>3 DEF RestArrives
  <2>5. PICK s \in Msgs : /\ s = Msg("stop", 0, stop.generation, "out")
                          /\ s.op = "stop" /\ s.answer = "none" /\ s.epoch <= MaxStops
      BY CrossingTyped
  <2>6. PICK k \in Msgs : k.op = "owed" /\ k.epoch = e /\ k.answer = "none" /\ calls' \subseteq (calls \ {c}) \cup {k, s}
    <3>1. PICK p \in {"joined", "out"} : calls' \subseteq (calls \ {c}) \cup {Moved(q, p, q.answer), s}
        BY <2>4, <2>5 DEF Joining
    <3>. DEFINE k == Moved(q, p, q.answer)
    <3>2. k \in Msgs /\ k.op = q.op /\ k.epoch = q.epoch /\ k.answer = q.answer
        BY <2>3, MovedTyped
    <3>. HIDE DEF k
    <3>3. calls' \subseteq (calls \ {c}) \cup {k, s}
        BY <3>1 DEF k
    <3>. QED BY <2>3, <3>2, <3>3
  <2>7. Typed'
      BY <1>1, <2>5, <2>6 DEF Typed, isoVars, faults, histVars
  <2>8. CallsFrom
    <3>1. New(s)
        BY <2>5, StopSent DEF New
    <3>2. k.epoch <= seq'
        BY <1>1, <2>2, <2>6 DEF isoVars
    <3>3. Sent(k)'
        BY <2>6, <3>2 DEF Sent
    <3>4. New(k)
        BY <2>6, <3>3 DEF New
    <3>. QED BY <2>6, <3>1, <3>4, SelfDerived DEF CallsFrom
  <2>. QED BY <1>1, <2>7, <2>8, OnlyCalls DEF isoVars, faults, histVars
<1>. QED BY <1>2, <1>3 DEF RestArrives

LEMMA StopAgainPreserves ==
    ASSUME IInv, StopAgain
    PROVE  IInv'
<1>. Typed
    BY DEF IInv
<1>1. PICK s \in Msgs : /\ s = Msg("stop", 0, stop.generation, "out")
                        /\ s.op = "stop" /\ s.answer = "none" /\ s.epoch <= MaxStops
    BY CrossingTyped
<1>2. calls' = calls \cup {s} /\ UNCHANGED <<wsVars, isoVars, faults, histVars>>
    BY <1>1 DEF StopAgain
<1>3. Typed'
    BY <1>1, <1>2 DEF Typed, wsVars, isoVars, faults, histVars
<1>4. New(s)
    BY <1>1, StopSent DEF New
<1>. QED BY <1>2, <1>3, <1>4, OneCall, OnlyCalls DEF wsVars, isoVars, faults, histVars

-----------------------------------------------------------------------------
(* Faults. *)

LEMMA IsolateDiesPreserves ==
    ASSUME IInv, IsolateDies
    PROVE  IInv'
<1>. Typed /\ Minted
    BY DEF IInv
<1>1. /\ deaths' = deaths + 1 /\ act' = NoAct /\ told' = ~armed /\ deaths + resets < MaxFaults
      /\ UNCHANGED <<wsVars, seq, runs, stopReq, resets, histVars>>
    BY DEF IsolateDies
<1>2. deaths \in Nat /\ resets \in Nat /\ seq \in Nat
    BY DEF Typed
<1>3. ASSUME NEW d \in calls' PROVE d \in Msgs /\ \E e \in calls : Derived(d, e)
  <2>1. PICK e \in calls : d = e \/ \E a \in {e.answer, "refused"} : e.op = "stop" /\ d = Moved(e, "back", a)
      BY DEF IsolateDies
  <2>2. e \in Msgs /\ e.answer \in {"none", "ok", "refused", "no", "yes"}
      BY DEF Typed, Msgs
  <2>3. CASE d = e
      BY <2>2, <2>3, SelfDerived
  <2>4. ASSUME NEW a \in {e.answer, "refused"}, e.op = "stop", d = Moved(e, "back", a)
        PROVE  d \in Msgs /\ Derived(d, e)
    <3>1. a \in {"none", "ok", "refused", "no", "yes"}
        BY <2>2
    <3>2. d \in Msgs /\ d.op = e.op /\ d.run = e.run /\ d.epoch = e.epoch
        BY <2>2, <2>4, <3>1, MovedTyped
    <3>. QED BY <2>4, <3>2 DEF Derived
  <2>. QED BY <2>1, <2>3, <2>4
<1>4. act' \in Acts /\ act'.step = "none" /\ act'.epoch = 0 /\ ~Claimed'
    BY <1>1, TurnFenceAssumption DEF NoAct, Exec, Acts, Claimed
<1>5. deaths' \in Nat /\ deaths' + resets' <= MaxFaults
    BY <1>1, <1>2, TurnFenceAssumption
<1>6. Typed'
    BY <1>1, <1>3, <1>4, <1>5 DEF Typed, wsVars, histVars
<1>7. InOrder' /\ Executing'
    BY <1>1, <1>4 DEF IInv, InOrder, Executing
<1>8. Minted'
    BY <1>1, <1>2, <1>4, TurnFenceAssumption DEF Minted, Runs
<1>9. AgentGoesOn /\ GrantGoesOn
    BY <1>1, <1>4 DEF AgentGoesOn, GrantGoesOn
<1>10. seq <= seq' /\ UNCHANGED <<fence, stopped, revived, opened, chat, worked>>
    BY <1>1, <1>2 DEF wsVars, histVars
<1>11. FenceGoesOn /\ Heard' /\ Cancels' /\ NothingNewer'
    BY <1>6, <1>10, FenceStill
<1>12. CallsFrom
    BY <1>3 DEF CallsFrom
<1>. QED BY <1>6, <1>7, <1>8, <1>9, <1>11, <1>12, CallsKeep DEF IInv

LEMMA WorkspaceResetsPreserves ==
    ASSUME IInv, WorkspaceResets
    PROVE  IInv'
<1>. Typed
    BY DEF IInv
<1>1. /\ resets' = resets + 1 /\ deaths + resets < MaxFaults
      /\ opened' = [t \in Turns |-> 0] /\ chat' = NoTurn /\ cuts' = {}
      /\ armed' = (armed \/ Live) /\ told' = (told /\ ~armed /\ ~Live)
      /\ UNCHANGED <<fence, stop, seq, runs, stopReq, act, deaths, histVars>>
    BY DEF WorkspaceResets
<1>2. resets' \in Nat /\ deaths + resets' <= MaxFaults
    BY <1>1, TurnFenceAssumption DEF Typed
<1>3. ASSUME NEW d \in calls' PROVE d \in Msgs /\ \E e \in calls : Derived(d, e)
  <2>1. PICK e \in calls : \/ d = e
                           \/ e.op = "stop" /\ d = [e EXCEPT !.op = "stray stop"]
                           \/ e.op = "prepare" /\ e.phase = "back" /\ d = Moved(e, "back", e.answer)
                           \/ e.op = "prepare" /\ d = Moved(e, "back", "refused")
    <3>1. PICK late \in SUBSET calls :
             calls' = {IF c.op = "stop" THEN [c EXCEPT !.op = "stray stop"] ELSE c : c \in late}
                      \cup {Moved(c, "back", IF c.phase = "back" THEN c.answer ELSE "refused") :
                                c \in {d2 \in calls : d2.op = "prepare"}}
        BY Zenon DEF WorkspaceResets
    <3>2. CASE d \in {IF c.op = "stop" THEN [c EXCEPT !.op = "stray stop"] ELSE c : c \in late}
        BY <3>2
    <3>3. CASE d \in {Moved(c, "back", IF c.phase = "back" THEN c.answer ELSE "refused") :
                          c \in {d2 \in calls : d2.op = "prepare"}}
      <4>1. PICK c \in calls : c.op = "prepare" /\ d = Moved(c, "back", IF c.phase = "back" THEN c.answer ELSE "refused")
          BY <3>3
      <4>. QED BY <4>1
    <3>. QED BY <1>3, <3>1, <3>2, <3>3
  <2>2. e \in Msgs /\ e.answer \in {"none", "ok", "refused", "no", "yes"}
      BY DEF Typed, Msgs
  <2>3. CASE d = e
      BY <2>2, <2>3, SelfDerived
  <2>4. CASE e.op = "stop" /\ d = [e EXCEPT !.op = "stray stop"]
    <3>1. d \in Msgs /\ d.op = "stray stop" /\ d.run = e.run /\ d.epoch = e.epoch
        BY <2>2, <2>4 DEF Msgs
    <3>. QED BY <2>4, <3>1 DEF Derived
  <2>5. CASE e.op = "prepare" /\ e.phase = "back" /\ d = Moved(e, "back", e.answer)
    <3>1. d \in Msgs /\ d.op = e.op /\ d.run = e.run /\ d.epoch = e.epoch /\ d.answer = e.answer
        BY <2>2, <2>5, MovedTyped
    <3>. QED BY <2>5, <3>1 DEF Derived
  <2>6. CASE e.op = "prepare" /\ d = Moved(e, "back", "refused")
    <3>1. d \in Msgs /\ d.op = e.op /\ d.run = e.run /\ d.epoch = e.epoch /\ d.answer = "refused"
        BY <2>2, <2>6, MovedTyped
    <3>. QED BY <2>6, <3>1 DEF Derived
  <2>. QED BY <2>1, <2>3, <2>4, <2>5, <2>6
<1>4. opened' \in [Turns -> Nat] /\ \A t \in Turns : opened'[t] \in {opened[t], 0}
    BY <1>1
<1>5. Typed'
    BY <1>1, <1>2, <1>3, <1>4 DEF Typed, histVars
<1>6. CallsFrom
    BY <1>3 DEF CallsFrom
<1>7. FenceGoesOn /\ Cancels' /\ NothingNewer'
    BY <1>1, FenceSame DEF histVars
<1>8. Heard'
    BY <1>1, <1>4, Forgets
<1>. QED BY <1>1, <1>5, <1>6, <1>7, <1>8, WorkspaceGoesOn

-----------------------------------------------------------------------------
(* The invariant, and what it gives. *)

LEMMA InitInvariant == Init => IInv
<1>. SUFFICES ASSUME Init PROVE IInv
    OBVIOUS
<1>1. act \in Acts /\ act.step = "none" /\ act.epoch = 0 /\ act = NoAct /\ ~Claimed
    BY TurnFenceAssumption DEF Init, NoAct, Exec, Acts, Claimed
<1>2. Typed
  <2>1. /\ fence \in [seq : Nat, run : 0..MaxRuns, ended : BOOLEAN, cancelled : BOOLEAN]
        /\ stop \in [generation : 0..MaxStops, retired : 0..MaxStops]
        /\ opened \in [Turns -> Nat] /\ worked \in Works
      BY TurnFenceAssumption DEF Init, Works
  <2>2. deaths \in Nat /\ resets \in Nat /\ deaths + resets <= MaxFaults
      BY TurnFenceAssumption DEF Init
  <2>. QED BY <1>1, <2>1, <2>2 DEF Init, Typed
<1>3. InOrder /\ Executing
    BY <1>1 DEF Init, InOrder, Executing
<1>4. Minted
    BY <1>1, TurnFenceAssumption DEF Init, Minted, Runs
<1>5. Fenced /\ (\A c \in calls : Sent(c))
    BY DEF Init, Fenced
<1>6. Heard /\ Cancels /\ NothingNewer
    BY DEF Init, Heard, Cancels, NothingNewer
<1>7. Granted
    BY <1>1 DEF Init, Granted
<1>. QED BY <1>2, <1>3, <1>4, <1>5, <1>6, <1>7 DEF IInv

LEMMA StutterPreserves ==
    ASSUME IInv, UNCHANGED vars
    PROVE  IInv'
<1>1. Typed'
    BY DEF IInv, Typed, vars, wsVars, isoVars, faults, histVars
<1>2. CallsFrom
    BY SelfDerived DEF CallsFrom, vars
<1>. QED BY <1>1, <1>2, OnlyCalls DEF vars, wsVars, isoVars, faults, histVars

LEMMA NextPreserves == IInv /\ [Next]_vars => IInv'
<1>. SUFFICES ASSUME IInv, [Next]_vars PROVE IInv'
    OBVIOUS
<1>1. ASSUME NEW r \in Runs, OpenTurn(r) PROVE IInv'
    BY <1>1, OpenTurnPreserves
<1>2. CASE Work
    BY <1>2, WorkPreserves
<1>3. CASE StopAgent \/ StopAgain
    BY <1>3, StopAgentPreserves, StopAgainPreserves
<1>4. CASE Isolate
  <2>1. ASSUME NEW r \in Runs, Reopen(r) PROVE IInv'
      BY <2>1, ReopenPreserves
  <2>2. CASE Begin \/ Claim \/ Finish \/ ReportRest
      BY <2>2, BeginPreserves, ClaimPreserves, FinishPreserves, ReportRestPreserves
  <2>3. ASSUME NEW c \in calls, Prepared(c) \/ StopArrives(c) \/ OwedAnswers(c) PROVE IInv'
      BY <2>3, PreparedPreserves, StopArrivesPreserves, OwedAnswersPreserves
  <2>. QED BY <1>1, <1>4, <2>1, <2>2, <2>3 DEF Isolate
<1>5. CASE Workspace
  <2>1. ASSUME NEW c \in calls, StartHeard(c) \/ PrepareArrives(c) \/ StopAnswered(c) PROVE IInv'
      BY <2>1, StartHeardPreserves, PrepareArrivesPreserves, StopAnsweredPreserves
  <2>2. ASSUME NEW c \in calls, PrepareOpens(c) \/ PrepareReads(c) \/ WorkArrives(c) \/ WorkReopens(c) \/ WorkRereads(c) PROVE IInv'
      BY <2>2, PrepareOpensPreserves, PrepareReadsPreserves, WorkArrivesPreserves, WorkReopensPreserves, WorkRereadsPreserves
  <2>3. ASSUME NEW c \in calls, EndArrives(c) \/ RestArrives(c) \/ LostEnds(c) \/ LostCloses(c) PROVE IInv'
      BY <2>3, EndArrivesPreserves, RestArrivesPreserves, LostEndsPreserves, LostClosesPreserves
  <2>. QED BY <1>5, <2>1, <2>2, <2>3 DEF Workspace
<1>6. CASE IsolateDies \/ WorkspaceResets
    BY <1>6, IsolateDiesPreserves, WorkspaceResetsPreserves
<1>7. CASE UNCHANGED vars
    BY <1>7, StutterPreserves
<1>. QED BY <1>1, <1>2, <1>3, <1>4, <1>5, <1>6, <1>7 DEF Next

LEMMA InvariantHolds == Spec => []IInv
BY InitInvariant, NextPreserves, PTL DEF Spec

\* Every epoch the fence, this activation and a call hold is one the agent minted, and
\* the agent mints at most one for each run and one more for each death of its isolate
\* (TurnFences, the agent's sequence).
THEOREM FenceTypeCorrect == Spec => []TypeOK
<1>1. IInv => TypeOK
  <2>. SUFFICES ASSUME IInv PROVE TypeOK
      OBVIOUS
  <2>. Typed
      BY DEF IInv
  <2>1. seq \in Epochs
    <3>1. seq \in Nat /\ deaths \in Nat /\ deaths <= MaxFaults
        BY TurnFenceAssumption DEF Typed
    <3>. QED BY <3>1, TurnFenceAssumption DEF IInv, Minted, Epochs
  <2>2. \A e \in Nat : e <= seq => e \in Epochs
      BY <2>1, TurnFenceAssumption DEF Epochs
  <2>3. fence \in [seq : Epochs, run : 0..MaxRuns, ended : BOOLEAN, cancelled : BOOLEAN]
    <3>1. fence.seq \in Nat
        BY DEF Typed
    <3>2. fence.seq \in Epochs
        BY <2>1, <2>2, <3>1, TurnFenceAssumption DEF IInv, Fenced, Opening, Epochs
    <3>. QED BY <3>2 DEF Typed
  <2>4. opened \in [Turns -> Epochs]
      BY <2>2 DEF IInv, Typed, Heard
  <2>5. ASSUME NEW c \in calls PROVE c.epoch \in Epochs \cup 0..MaxStops /\ c.run \in 0..MaxRuns
    <3>1. c.epoch \in Nat /\ c.run \in 0..MaxRuns
        BY DEF Typed, Msgs
    <3>2. c.epoch <= seq \/ c.epoch <= MaxStops
        BY DEF IInv, Sent
    <3>. QED BY <2>2, <3>1, <3>2, TurnFenceAssumption
  <2>6. act.run \in 0..MaxRuns /\ act.epoch \in 0..seq
    <3>1. act.run \in 0..MaxRuns /\ act.epoch \in Nat /\ seq \in Nat
        BY DEF Typed, Acts
    <3>. QED BY <3>1 DEF IInv, Executing
  <2>. QED BY <2>1, <2>3, <2>4, <2>5, <2>6 DEF Typed, TypeOK
<1>. QED BY <1>1, InvariantHolds, PTL

\* No opening of a run whose opening a Stop cancelled is ever admitted again, though the
\* fence keeps one row and the cancellation goes with it when another run opens: an
\* opening newer than the row's is of the row's run or a later one, so the run a Stop
\* cancelled is the row's, still cancelled, or behind it for good (TurnFences.open, cancel).
THEOREM StoppedRunStaysStopped == Spec => []StaysStopped
<1>1. IInv => StaysStopped
    BY DEF IInv, Cancels, StaysStopped
<1>. QED BY <1>1, InvariantHolds, PTL

\* No call of an execution older than one whose call already ran is let through, whichever
\* isolate sent it: a call runs only under the newest opening, and the fence's sequence
\* never goes back (AgentTurns.holds, TurnFences.open).
THEOREM CallsRunInOrder == Spec => []WorkInOrder
<1>1. IInv => WorkInOrder
    BY DEF IInv, NothingNewer, WorkInOrder
<1>. QED BY <1>1, InvariantHolds, PTL

\* The execution its isolate goes on with is the one the fence holds, unended: an end told
\* names a run the agent closed, and a lost end an opening older than any the isolate
\* claimed after it answered (hostedTurnEnded, closeLostChatTurn).
THEOREM RunningTurnIsOpen == Spec => []LiveIsOpen
<1>1. IInv => LiveIsOpen
    BY DEF IInv, Granted, LiveIsOpen
<1>. QED BY <1>1, InvariantHolds, PTL

-----------------------------------------------------------------------------
(* What a step makes of the fence's row. *)

\* The fence of an execution: newest, unended and not cancelled.
Stands(e) == Live /\ fence.seq = e

\* What a step may make of the fence's row: its opening ends or is cancelled for good, or
\* gives way to a newer one, of the run after it or of its own if no Stop cancelled that.
FenceMoves ==
    \/ /\ fence'.seq = fence.seq /\ fence'.run = fence.run
       /\ fence.ended => fence'.ended
       /\ fence.cancelled => fence'.cancelled
    \/ /\ fence'.seq > fence.seq /\ ~fence'.ended /\ ~fence'.cancelled
       /\ fence.seq > 0 => fence'.run >= fence.run
       /\ fence.cancelled => fence'.run > fence.run

LEMMA StepMovesFence ==
    ASSUME IInv, [Next]_vars
    PROVE  FenceMoves
<1>. Typed /\ Fenced /\ (\A c \in calls : Sent(c))
    BY DEF IInv
<1>1. fence.seq \in Nat /\ fence.run \in Nat /\ fence.ended \in BOOLEAN /\ fence.cancelled \in BOOLEAN
    BY TurnFenceAssumption DEF Typed
<1>2. UNCHANGED fence => FenceMoves
    BY DEF FenceMoves
<1>3. fence' = [fence EXCEPT !.ended = TRUE] => FenceMoves
    BY DEF FenceMoves, Typed
<1>4. ASSUME NEW c \in calls, PrepareOpens(c) PROVE FenceMoves
  <2>1. CASE Admits(c.run, c.epoch)
    <3>1. fence' = [seq |-> c.epoch, run |-> c.run, ended |-> FALSE, cancelled |-> FALSE] /\ c.op = "prepare"
        BY <1>4, <2>1 DEF PrepareOpens
    <3>2. c.epoch > fence.seq /\ ~(fence.cancelled /\ fence.run = c.run)
        BY <2>1 DEF Admits
    <3>3. c.run \in Nat
      <4>1. c.run \in Runs
          BY <3>1 DEF Sent, Opening
      <4>. QED BY <4>1, TurnFenceAssumption DEF Runs
    <3>4. (fence.seq > 0 => c.run >= fence.run) /\ (fence.cancelled => c.run > fence.run)
      <4>1. CASE fence.seq > 0
        <5>1. InStep(c.run, c.epoch, fence.run, fence.seq)
            BY <3>1, <4>1 DEF Fenced
        <5>2. c.epoch \in Nat
            BY DEF Typed, Msgs
        <5>. QED BY <1>1, <3>2, <3>3, <5>1, <5>2 DEF InStep
      <4>2. CASE fence.seq = 0
          BY <1>1, <3>3, <4>2 DEF Fenced
      <4>. QED BY <1>1, <4>1, <4>2
    <3>. QED BY <3>1, <3>2, <3>4 DEF FenceMoves
  <2>2. CASE ~Admits(c.run, c.epoch)
      BY <1>2, <1>4, <2>2 DEF PrepareOpens
  <2>. QED BY <2>1, <2>2
<1>5. CASE StopAgent
  <2>1. fence' = [fence EXCEPT !.cancelled = fence.cancelled \/ Live]
      BY <1>5 DEF StopAgent
  <2>2. fence'.seq = fence.seq /\ fence'.run = fence.run /\ fence'.ended = fence.ended
        /\ fence'.cancelled = (fence.cancelled \/ Live)
      BY <2>1 DEF Typed
  <2>. QED BY <2>2 DEF FenceMoves
<1>6. ASSUME NEW c \in calls, EndArrives(c) \/ LostEnds(c) PROVE FenceMoves
  <2>1. CASE EndArrives(c)
      BY <1>2, <1>3, <2>1 DEF EndArrives
  <2>2. CASE LostEnds(c)
    <3>1. PICK ends \in BOOLEAN : fence' = [fence EXCEPT !.ended = fence.ended \/ ends]
        BY <2>2 DEF LostEnds
    <3>. QED BY <1>1, <3>1 DEF FenceMoves, Typed
  <2>. QED BY <1>6, <2>1, <2>2
<1>7. ASSUME NEW c \in calls,
             StartHeard(c) \/ PrepareArrives(c) \/ StopAnswered(c) \/ PrepareReads(c) \/ WorkArrives(c) \/ WorkReopens(c) \/ WorkRereads(c)
                \/ RestArrives(c) \/ LostCloses(c)
      PROVE  FenceMoves
    BY <1>2, <1>7 DEF StartHeard, PrepareArrives, StopAnswered, PrepareReads, WorkArrives, WorkReopens, WorkRereads, RestArrives, LostCloses, wsVars
<1>8. CASE Isolate \/ Work \/ StopAgain \/ IsolateDies \/ (\E r \in Runs : OpenTurn(r)) \/ UNCHANGED vars
  <2>1. UNCHANGED fence
      BY <1>8 DEF Isolate, Reopen, OpenTurn, Begin, Claim, Finish, EndTurn, ReportRest, Prepared, StopArrives, OwedAnswers,
                  Work, StopAgain, IsolateDies, vars, wsVars
  <2>. QED BY <1>2, <2>1
<1>9. CASE WorkspaceResets
  <2>1. UNCHANGED fence
      BY <1>9, Zenon DEF WorkspaceResets
  <2>. QED BY <1>2, <2>1
<1>. QED BY <1>4, <1>5, <1>6, <1>7, <1>8, <1>9 DEF Next, Workspace

\* What the fence refuses it refuses for good, as turn-fence.ts says, a reset of the
\* workspace included: an execution that was overtaken, ended or cancelled never stands
\* again, and the row gives way only to a newer opening of its run or a later one, never of
\* a run a Stop cancelled (TurnFences.open, cancel and ended).  That openings come in the
\* order of their runs, however late a preparation arrives, is the part an invariant gives.
THEOREM RefusedForGood ==
    Spec => [][/\ FenceMoves
               /\ \A e \in Nat : e <= fence.seq /\ ~Stands(e) => ~Stands(e)']_vars
<1>. DEFINE Final == \A e \in Nat : e <= fence.seq /\ ~Stands(e) => ~Stands(e)'
<1>1. ASSUME IInv, IInv', [Next]_vars PROVE FenceMoves /\ Final
  <2>1. fence.seq \in Nat /\ fence'.seq \in Nat
      BY <1>1 DEF IInv, Typed
  <2>2. FenceMoves
      BY <1>1, StepMovesFence
  <2>. QED BY <2>1, <2>2 DEF FenceMoves, Stands, Live
<1>2. IInv /\ IInv' /\ [Next]_vars => [FenceMoves /\ Final]_vars
    BY <1>1
<1>. QED BY <1>2, InvariantHolds, PTL DEF Spec

=============================================================================
