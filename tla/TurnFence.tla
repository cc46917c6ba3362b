----------------------------- MODULE TurnFence ------------------------------
(***************************************************************************)
(* A workspace's fence over the chat turns of one agent.  The agent's      *)
(* isolate mints an epoch for each execution it opens and asks the         *)
(* workspace to prepare it; the fence's one row admits only an opening     *)
(* newer than every other and never one of a run a Stop cancelled.  A call *)
(* that runs more of a turn is held against that row, and against the cuts *)
(* of this activation; an end names its run, a lost end the opening the    *)
(* workspace saw open before it asked.                                     *)
(*                                                                         *)
(* The workspace and the isolate fail independently.  What an isolate sent *)
(* may arrive after its death and out of order, save that the events of a  *)
(* turn are delivered in order and before the next turn opens, the start   *)
(* before its preparation.  A run is one number; a Retry is a new run of   *)
(* the same turn, and the agent has one run open.                          *)
(***************************************************************************)
EXTENDS Naturals

CONSTANTS
    Turns,
    TurnOf,        \* the turn of each run, the runs in the order they open
    MaxRuns,       \* bound: runs
    MaxStops,      \* bound: Stops
    MaxFaults      \* bound: deaths of the isolate and resets of the workspace

Runs == 1..MaxRuns

NoTurn == "none"

ASSUME TurnFenceAssumption ==
    /\ MaxRuns \in Nat \ {0} /\ MaxStops \in Nat /\ MaxFaults \in Nat
    /\ TurnOf \in [Runs -> Turns]
    /\ NoTurn \notin Turns

VARIABLES
    fence,       \* actor_turn_fence: the newest opening, whether ended or cancelled
    stop,        \* agent_stops: newest generation and the newest answered
    opened,      \* memory: the opening this activation prepared or read again, by turn
    chat,        \* memory: the chat turn last heard to start and not to end
    cuts,        \* memory: turns cut off here
    calls,       \* what is on its way between the two
    seq,         \* the agent's own sequence
    runs,        \* each run in the agent's record
    stopReq,     \* runs with a stop_requested row
    act,         \* the isolate's execution
    told,        \* the isolate has reported its rest
    armed,       \* the workspace holds a wake for the agent
    deaths, resets,
    stopped,     \* history: runs whose opening a Stop cancelled
    revived,     \* history: of these, the ones an opening was admitted for after
    before,      \* history: runs opened by the agent before the newest Stop
    worked       \* history: the newest execution whose call ran here, whether a call ran of
                 \* an older one, and whether one of a run no Stop followed was refused

wsVars   == <<fence, stop, opened, chat, cuts, armed>>
isoVars  == <<seq, runs, stopReq, act, told>>
faults   == <<deaths, resets>>
histVars == <<stopped, revived, before, worked>>
vars     == <<wsVars, calls, isoVars, faults, histVars>>

Epochs == 0..(MaxRuns + MaxFaults)

\* An execution at the isolate: its run, its epoch once minted, and whether a Stop cut it.
Exec(run, epoch, step, cut) == [run |-> run, epoch |-> epoch, step |-> step, cut |-> cut]

NoAct == Exec(0, 0, "none", FALSE)

\* What is on its way, and the isolate it came from.
Msg(op, r, e, phase) == [op |-> op, run |-> r, epoch |-> e, phase |-> phase, answer |-> "none", from |-> deaths]

\* The same, further on its way.
Moved(c, phase, answer) ==
    [op |-> c.op, run |-> c.run, epoch |-> c.epoch, phase |-> phase, answer |-> answer, from |-> c.from]

Init ==
    /\ fence = [seq |-> 0, run |-> 0, ended |-> FALSE, cancelled |-> FALSE]
    /\ stop = [generation |-> 0, retired |-> 0]
    /\ opened = [t \in Turns |-> 0] /\ chat = NoTurn /\ cuts = {}
    /\ calls = {}
    /\ seq = 0 /\ runs = [r \in Runs |-> "new"] /\ stopReq = {}
    /\ act = NoAct /\ told = TRUE /\ armed = FALSE
    /\ deaths = 0 /\ resets = 0
    /\ stopped = {} /\ revived = {} /\ before = {}
    /\ worked = [epoch |-> 0, astray |-> FALSE, shut |-> FALSE]

-----------------------------------------------------------------------------
(* The fence. *)

Live == fence.seq > 0 /\ ~fence.ended /\ ~fence.cancelled

\* Mutant: a Stop's cancellation is not read.
AdmitsUncancelled(r, e) == e > fence.seq /\ r \in Runs

Admits(r, e) == e > fence.seq /\ ~(fence.cancelled /\ fence.run = r)

\* Mutant: a reading that ends late is not held against the newest opening.
StillOpenAny(e) == e > 0 /\ ~fence.ended

\* The opening is the newest and unended.
StillOpen(e) == fence.seq = e /\ ~fence.ended

\* The opening still unended, 0 for none.
Current == IF fence.seq > 0 /\ ~fence.ended THEN fence.seq ELSE 0

StopOwed == stop.generation > stop.retired

\* A call that runs more of an execution: the fence holds its opening, and its
\* turn is not cut off in this activation.
Holds(r, e) ==
    /\ Live /\ fence.seq = e /\ fence.run = r
    /\ ~(opened[TurnOf[r]] # 0 /\ TurnOf[r] \in cuts)

\* Closing a turn drops what this activation holds of it.
CloseTurn(t) ==
    /\ opened' = [opened EXCEPT ![t] = 0]
    /\ cuts' = cuts \ {t}

\* The chat turn closes if it is the opening `at`; 0 closes whichever is open.
ChatClosed(at) ==
    IF chat = NoTurn \/ (at # 0 /\ opened[chat] # 0 /\ opened[chat] # at)
    THEN UNCHANGED <<chat, opened, cuts>>
    ELSE chat' = NoTurn /\ CloseTurn(chat)

-----------------------------------------------------------------------------
(* The agent's isolate. *)

OpenRun == {r \in Runs : runs[r] = "open"}

\* Every event this isolate emitted was delivered.
Flushed == ~\E c \in calls : c.op \in {"start", "end"} /\ c.from = deaths

\* Input, or the owner's Retry, which its workspace armed a wake for, opens the
\* next run and announces its turn; the words of one announced and lost with
\* its isolate are still held, and open it again.
OpenTurn(r) ==
    /\ act = NoAct /\ OpenRun = {} /\ Flushed
    /\ runs[r] \in {"new", "announced"} /\ \A p \in 1..(r - 1) : runs[p] = "closed"
    /\ runs' = [runs EXCEPT ![r] = "announced"]
    /\ act' = Exec(r, 0, "announced", FALSE)
    /\ told' = FALSE /\ armed' = TRUE
    /\ calls' = calls \cup {Msg("start", r, 0, "out")}
    /\ UNCHANGED <<fence, stop, opened, chat, cuts, seq, stopReq, faults, histVars>>

\* The run is recorded, and from here a Stop of it too.
Begin ==
    /\ act.step = "announced"
    /\ runs' = [runs EXCEPT ![act.run] = "open"]
    /\ act' = Exec(act.run, act.epoch, "opening", act.cut)
    /\ UNCHANGED <<wsVars, calls, seq, stopReq, told, faults, histVars>>

\* The run a death left open is re-opened first; one a Stop was recorded for, or
\* recovery gives up on, is closed as a Stop closes it.
Reopen(r) ==
    /\ act = NoAct /\ r \in OpenRun
    /\ \E giveUp \in BOOLEAN :
           act' = Exec(r, 0, "opening", giveUp \/ r \in stopReq)
    /\ told' = FALSE
    /\ calls' = calls \cup {Msg("start", r, 0, "out")}
    /\ UNCHANGED <<wsVars, seq, runs, stopReq, faults, histVars>>

\* Mutant: the epoch is minted without the counter's commit.
ClaimUnkept ==
    /\ act.step = "opening" /\ ~act.cut
    /\ act' = Exec(act.run, seq + 1, "asking", act.cut)
    /\ calls' = calls \cup {Msg("prepare", act.run, seq + 1, "out")}
    /\ UNCHANGED <<wsVars, seq, runs, stopReq, told, faults, histVars>>

\* The execution is claimed, its epoch minted, and its preparation asked.
Claim ==
    /\ act.step = "opening" /\ ~act.cut
    /\ seq' = seq + 1
    /\ act' = Exec(act.run, seq + 1, "asking", act.cut)
    /\ calls' = calls \cup {Msg("prepare", act.run, seq + 1, "out")}
    /\ UNCHANGED <<wsVars, runs, stopReq, told, faults, histVars>>

\* The run's close is one commit; its end is told after.
EndTurn ==
    /\ runs' = [runs EXCEPT ![act.run] = "closed"]
    /\ act' = NoAct
    /\ UNCHANGED <<seq, stopReq, told>>

Ended(c) == (calls \ c) \cup {Msg("end", act.run, act.epoch, "out")}

\* Cut off, it ends where it stands; granted, it may also end by itself.
Finish ==
    /\ act # NoAct
    /\ act.step = "granted" \/ (act.cut /\ act.step \in {"announced", "opening"})
    /\ EndTurn
    /\ calls' = Ended({})
    /\ UNCHANGED <<wsVars, faults, histVars>>

\* The preparation's answer: granted, or the turn ends on the refusal.
Prepared(c) ==
    /\ c \in calls /\ c.op = "prepare" /\ c.phase = "back"
    /\ IF act.step # "asking" \/ act.epoch # c.epoch
       THEN calls' = calls \ {c} /\ UNCHANGED isoVars
       ELSE IF c.answer = "ok" /\ ~act.cut
            THEN /\ act' = Exec(act.run, act.epoch, "granted", act.cut)
                 /\ calls' = calls \ {c}
                 /\ UNCHANGED <<seq, runs, stopReq, told>>
            ELSE EndTurn /\ calls' = Ended({c})
    /\ UNCHANGED <<wsVars, faults, histVars>>

\* A tool call of the running step.
Work ==
    /\ act.step = "granted" /\ ~act.cut
    /\ calls' = calls \cup {Msg("work", act.run, act.epoch, "out")}
    /\ UNCHANGED <<wsVars, isoVars, faults, histVars>>

\* The Stop at the isolate: the turn it runs is recorded as stopped and aborted.
\* A run a death left, not yet taken, is not touched.
StopArrives(c) ==
    /\ c \in calls /\ c.op \in {"stop", "stray stop"} /\ c.phase = "out"
    /\ calls' = (calls \ {c}) \cup (IF c.op = "stop" THEN {Moved(c, "back", "ok")} ELSE {})
    /\ IF act = NoAct THEN UNCHANGED <<act, stopReq>>
       ELSE /\ act' = Exec(act.run, act.epoch, act.step, TRUE)
            /\ stopReq' = IF act.step = "announced" THEN stopReq ELSE stopReq \cup {act.run}
    /\ UNCHANGED <<wsVars, seq, runs, told, faults, histVars>>

\* A report of rest, and the runs it comes after.
ReportRest ==
    /\ act = NoAct /\ \A r \in Runs : runs[r] \in {"new", "closed"}
    /\ Flushed /\ ~told
    /\ told' = TRUE
    /\ \E newest \in 0..MaxRuns :
          /\ \A r \in Runs : runs[r] = "closed" <=> r <= newest
          /\ calls' = calls \cup {Msg("rest", newest, 0, "out")}
    /\ UNCHANGED <<wsVars, seq, runs, stopReq, act, faults, histVars>>

\* Asked whether it holds a turn, the isolate answers as it stands.
OwedAnswers(c) ==
    /\ c \in calls /\ c.op = "owed" /\ c.phase = "out"
    /\ calls' = (calls \ {c}) \cup {Moved(c, "back",
                    IF act = NoAct /\ \A r \in Runs : runs[r] \in {"new", "closed"} THEN "no" ELSE "yes")}
    /\ UNCHANGED <<wsVars, isoVars, faults, histVars>>

-----------------------------------------------------------------------------
(* The workspace. *)

StartHeard(c) ==
    /\ c \in calls /\ c.op = "start"
    /\ chat' = TurnOf[c.run]
    /\ calls' = calls \ {c}
    /\ UNCHANGED <<fence, stop, opened, cuts, armed, isoVars, faults, histVars>>

Replaying == \E c \in calls : c.op = "stop" /\ c.run = 0

\* The owner's Stop: the open run and the owed Stop are one commit; the turns
\* heard of here are cut off, and the Stop crosses.
StopAgent ==
    /\ stop.generation < MaxStops
    /\ stop' = [stop EXCEPT !.generation = @ + 1]
    /\ fence' = [fence EXCEPT !.cancelled = @ \/ Live]
    /\ stopped' = IF Live THEN stopped \cup {fence.run} ELSE stopped
    /\ cuts' = cuts \cup ({chat} \ {NoTurn})
    /\ before' = OpenRun
    /\ calls' = calls \cup {Msg("stop", 1, stop.generation + 1, "out")}
    /\ UNCHANGED <<opened, chat, armed, isoVars, faults, revived, worked>>

\* What crosses, or is asked, while a Stop is owed joins the Stop's crossing.
Joining(cs, c, phase) ==
    IF StopOwed
    THEN cs \cup {Moved(c, "joined", c.answer)} \cup (IF Replaying THEN {} ELSE {Msg("stop", 0, stop.generation, "out")})
    ELSE cs \cup {Moved(c, phase, c.answer)}

\* A preparation asked while a Stop is owed joins its crossing; any other reads
\* the account's settings first.
PrepareArrives(c) ==
    /\ c \in calls /\ c.op = "prepare" /\ c.phase = "out"
    /\ ~\E s \in calls : s.op = "start" /\ s.from = c.from
    /\ calls' = Joining(calls \ {c}, c, "account")
    /\ UNCHANGED <<wsVars, isoVars, faults, histVars>>

\* A Stop's crossing answered: it is retired, an opening that joined it is
\* refused, and a question that did goes on.
StopAnswered(c) ==
    /\ c \in calls /\ c.op = "stop" /\ c.phase = "back"
    /\ stop' = [stop EXCEPT !.retired = IF c.answer = "ok" /\ c.epoch > @ THEN c.epoch ELSE @]
    /\ calls' = {IF c.run # 0 \/ d.phase # "joined" THEN d
                 ELSE IF d.op = "owed" /\ c.answer = "ok" THEN Moved(d, "out", d.answer)
                 ELSE Moved(d, "back", "refused") : d \in calls \ {c}}
    /\ UNCHANGED <<fence, opened, chat, cuts, armed, isoVars, faults, histVars>>

PrepareOpens(c) ==
    /\ c \in calls /\ c.op = "prepare" /\ c.phase = "account"
    /\ IF Admits(c.run, c.epoch)
       THEN /\ fence' = [seq |-> c.epoch, run |-> c.run, ended |-> FALSE, cancelled |-> FALSE]
            /\ opened' = [opened EXCEPT ![TurnOf[c.run]] = c.epoch]
            /\ revived' = IF c.run \in stopped THEN revived \cup {c.run} ELSE revived
            /\ calls' = (calls \ {c}) \cup {Moved(c, "reading", c.answer)}
       ELSE /\ calls' = (calls \ {c}) \cup {Moved(c, "back", "refused")}
            /\ UNCHANGED <<fence, opened, revived>>
    /\ UNCHANGED <<stop, chat, cuts, armed, isoVars, faults, stopped, before, worked>>

\* Read to its end, it is answered only if its opening still stands.
PrepareReads(c) ==
    /\ c \in calls /\ c.op = "prepare" /\ c.phase = "reading"
    /\ calls' = (calls \ {c}) \cup {Moved(c, "back", IF StillOpen(c.epoch) THEN "ok" ELSE "refused")}
    /\ IF StillOpen(c.epoch) \/ chat = TurnOf[c.run] THEN UNCHANGED <<opened, cuts>> ELSE CloseTurn(TurnOf[c.run])
    /\ UNCHANGED <<fence, stop, chat, armed, isoVars, faults, histVars>>

CallRuns(c) == worked' = [worked EXCEPT !.epoch = c.epoch, !.astray = @ \/ c.epoch < worked.epoch]

\* This activation holds the call's turn as it was prepared: its own opening, read to
\* its end.
Known(c) ==
    /\ opened[TurnOf[c.run]] = c.epoch
    /\ ~\E d \in calls : d.op = "work" /\ d.phase = "rereading" /\ d.epoch = c.epoch

\* A call is held as it arrives.  One that holds runs; if a reset forgot its turn, what
\* the turn froze is read first.
WorkArrives(c) ==
    /\ c \in calls /\ c.op = "work" /\ c.phase = "out"
    /\ calls' = (calls \ {c}) \cup (IF Holds(c.run, c.epoch) /\ ~Known(c) THEN {Moved(c, "frozen", c.answer)} ELSE {})
    /\ IF ~Holds(c.run, c.epoch)
       THEN worked' = [worked EXCEPT !.shut = @ \/ (act.step = "granted" /\ act.epoch = c.epoch /\ c.run \notin before)]
       ELSE IF Known(c) THEN CallRuns(c) ELSE UNCHANGED worked
    /\ UNCHANGED <<wsVars, isoVars, faults, stopped, revived, before>>

\* Its turn is put back in memory, over whichever opening stands there by now.
WorkReopens(c) ==
    /\ c \in calls /\ c.op = "work" /\ c.phase = "frozen"
    /\ calls' = (calls \ {c}) \cup {Moved(c, "rereading", c.answer)}
    /\ opened' = [opened EXCEPT ![TurnOf[c.run]] = c.epoch]
    /\ UNCHANGED <<fence, stop, chat, cuts, armed, isoVars, faults, histVars>>

\* Read again, it runs if its opening is still the newest and unended.  A Stop
\* meanwhile is not looked for.
WorkRereads(c) ==
    /\ c \in calls /\ c.op = "work" /\ c.phase = "rereading"
    /\ calls' = calls \ {c}
    /\ IF StillOpen(c.epoch) THEN CallRuns(c) ELSE UNCHANGED worked
    /\ IF StillOpen(c.epoch) \/ chat = TurnOf[c.run] THEN UNCHANGED <<opened, cuts>> ELSE CloseTurn(TurnOf[c.run])
    /\ UNCHANGED <<fence, stop, chat, armed, isoVars, faults, stopped, revived, before>>

\* The end its agent told, by its run.
EndArrives(c) ==
    /\ c \in calls /\ c.op = "end"
    /\ ~\E s \in calls : s.op = "start" /\ s.from = c.from
    /\ calls' = calls \ {c}
    /\ IF fence.seq = 0 THEN ChatClosed(0) /\ UNCHANGED fence
       ELSE IF fence.run = c.run /\ ~fence.ended
            THEN fence' = [fence EXCEPT !.ended = TRUE] /\ ChatClosed(fence.seq)
            ELSE UNCHANGED <<fence, chat, opened, cuts>>
    /\ UNCHANGED <<stop, armed, isoVars, faults, histVars>>

\* A newer report of its agent was sent: a run opened since.
Overtaken(c) == \E r \in Runs : r > c.run /\ runs[r] # "new"

\* Rest told ends the wake, unless a turn opened since; overtaken, it is dropped once
\* the newer report was taken.  While a turn is heard open the isolate is asked
\* again, the opening seen open kept.
RestArrives(c) ==
    /\ c \in calls /\ c.op = "rest"
    /\ LET expected == IF opened[chat] # 0 THEN opened[chat] ELSE Current
       IN \/ /\ chat = NoTurn \/ Overtaken(c)
             /\ calls' = calls \ {c}
          \/ /\ chat # NoTurn
             /\ calls' = Joining(calls \ {c}, Msg("owed", CHOOSE r \in Runs : TurnOf[r] = chat, expected, "out"), "out")
    /\ armed' = (armed /\ Overtaken(c))
    /\ UNCHANGED <<fence, stop, opened, chat, cuts, isoVars, faults, histVars>>

\* Mutant: whichever opening is the current one is ended.
LostExpectsAny(c) == IF Current # 0 THEN Current ELSE c.epoch

\* The opening a lost end ends: the one seen before the isolate was asked.
LostExpects(c) == c.epoch

LostEnds(c) ==
    /\ c \in calls /\ c.op = "owed" /\ c.phase = "back"
    /\ LET expected == LostExpects(c)
           ends == c.answer = "no" /\ IF expected = 0 THEN chat = TurnOf[c.run] ELSE Current = expected
       IN /\ calls' = (calls \ {c}) \cup (IF ends THEN {Moved(c, "closing", c.answer)} ELSE {})
          /\ fence' = [fence EXCEPT !.ended = @ \/ (ends /\ expected # 0)]
    /\ UNCHANGED <<stop, opened, chat, cuts, armed, isoVars, faults, histVars>>

\* The chat turn closes once its room has closed it; another may have been heard
\* to start meanwhile.
LostCloses(c) ==
    /\ c \in calls /\ c.op = "owed" /\ c.phase = "closing"
    /\ calls' = calls \ {c}
    /\ ChatClosed(c.epoch)
    /\ UNCHANGED <<fence, stop, armed, isoVars, faults, histVars>>

-----------------------------------------------------------------------------
(* Faults. *)

\* Calls that may arrive after the death of their isolate, or at the workspace's
\* next activation.
Strays == {"start", "prepare", "work", "end", "rest"}

\* The isolate dies: its execution is gone, and what it sent or was sent may be
\* lost with it; what the workspace already handles goes on, or fails as it asks the
\* isolate.  Its wake, if one stands, starts the next one.
IsolateDies ==
    /\ deaths + resets < MaxFaults /\ deaths' = deaths + 1
    /\ act' = NoAct /\ told' = ~armed
    /\ \E late \in SUBSET {c \in calls : IF c.op = "owed" THEN c.phase = "back"
                                       ELSE c.op \in Strays /\ c.phase = "out"} :
           calls' = late \cup {Moved(c, "back", IF c.phase = "back" THEN c.answer ELSE "refused") :
                                   c \in {d \in calls : d.op = "stop"}}
                         \cup {c \in calls : c.op = "prepare" /\ c.phase \in {"joined", "account", "reading"}}
                         \cup {c \in calls : c.phase \in {"frozen", "rereading", "closing"}}
    /\ UNCHANGED <<wsVars, seq, runs, stopReq, resets, histVars>>

\* The workspace resets: what it held in memory and was handling is gone.  The
\* isolate's preparation fails, an agent whose opening is live is woken, and
\* a Stop owed crosses again at the start.
WorkspaceResets ==
    /\ deaths + resets < MaxFaults /\ resets' = resets + 1
    /\ opened' = [t \in Turns |-> 0] /\ chat' = NoTurn /\ cuts' = {}
    /\ \E late \in SUBSET {c \in calls : c.phase = "out" /\ c.op \in (Strays \ {"prepare"}) \cup {"stop"}} :
           calls' = {IF c.op = "stop" THEN [c EXCEPT !.op = "stray stop"] ELSE c : c \in late}
                    \cup {Moved(c, "back", IF c.phase = "back" THEN c.answer ELSE "refused") :
                              c \in {d \in calls : d.op = "prepare"}}
    /\ armed' = (armed \/ Live) /\ told' = (told /\ ~armed /\ ~Live)
    /\ UNCHANGED <<fence, stop, seq, runs, stopReq, act, deaths, histVars>>

\* An owed Stop whose crossing was lost crosses again with the agent's wake.
StopAgain ==
    /\ StopOwed /\ ~\E c \in calls : c.op = "stop"
    /\ calls' = calls \cup {Msg("stop", 0, stop.generation, "out")}
    /\ UNCHANGED <<wsVars, isoVars, faults, histVars>>

-----------------------------------------------------------------------------

Isolate ==
    \/ \E r \in Runs : Reopen(r) \/ (runs[r] = "announced" /\ OpenTurn(r))
    \/ Begin \/ Claim \/ Finish \/ ReportRest
    \/ \E c \in calls : Prepared(c) \/ StopArrives(c) \/ OwedAnswers(c)

Workspace ==
    \E c \in calls : \/ StartHeard(c) \/ PrepareArrives(c) \/ StopAnswered(c) \/ PrepareOpens(c) \/ PrepareReads(c)
                     \/ WorkArrives(c) \/ WorkReopens(c) \/ WorkRereads(c) \/ EndArrives(c) \/ RestArrives(c)
                     \/ LostEnds(c) \/ LostCloses(c)

Next ==
    \/ \E r \in Runs : OpenTurn(r)
    \/ Work
    \/ StopAgent \/ StopAgain
    \/ Isolate
    \/ Workspace
    \/ IsolateDies \/ WorkspaceResets

Spec == Init /\ [][Next]_vars

-----------------------------------------------------------------------------
(* Properties. *)

\* Epochs within what the agent minted, and the isolate's own never ahead of its
\* sequence (TurnFences, the agent's record).
TypeOK ==
    /\ fence \in [seq : Epochs, run : 0..MaxRuns, ended : BOOLEAN, cancelled : BOOLEAN]
    /\ stop \in [generation : 0..MaxStops, retired : 0..MaxStops]
    /\ opened \in [Turns -> Epochs] /\ chat \in Turns \cup {NoTurn} /\ cuts \subseteq Turns
    /\ \A c \in calls : c.epoch \in Epochs \cup 0..MaxStops /\ c.run \in 0..MaxRuns
    /\ seq \in Epochs /\ runs \in [Runs -> {"new", "announced", "open", "closed"}]
    /\ stopReq \subseteq Runs
    /\ act.run \in 0..MaxRuns /\ act.epoch \in 0..seq

\* Only new input or a Retry opens the agent again after a Stop: no opening of a
\* run whose opening a Stop cancelled is admitted, through deaths and resets,
\* though the cancellation stands only until another run opens
\* (TurnFences.open, cancel).
StaysStopped == revived = {}

\* An execution its isolate was granted and goes on with is the one the fence
\* holds, unended: neither an end told late nor a lost end closes a turn that
\* still runs (hostedTurnEnded, closeLostChatTurn).
LiveIsOpen == act.step = "granted" /\ ~act.cut => fence.seq = act.epoch /\ ~fence.ended

\* The calls that run here never go back to an older execution, whichever
\* isolate sent them and however late (AgentTurns.holds).
WorkInOrder == ~worked.astray

\* A Retry opens the agent again after a Stop: no call of the execution its
\* isolate runs is refused unless a Stop followed its opening (TurnFences.open,
\* AgentTurns.cutOff).
RetryRuns == ~worked.shut

=============================================================================
