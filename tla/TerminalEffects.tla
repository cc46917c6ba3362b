-------------------------- MODULE TerminalEffects --------------------------
(***************************************************************************)
(* What a settled response owes, and how it is finished exactly as often   *)
(* as it should be: the ledger of owed effects (terminal_effects), the     *)
(* once-only claim of a response (a row of tool_effect_claims), and the    *)
(* chat loop of an agent's isolate that commits responses, runs their      *)
(* follow-up turns and keeps one durable wake with its workspace.          *)
(*                                                                         *)
(* The isolate runs one stretch without an await at a time: while a drive  *)
(* or a sweep has a step it does not wait for, nothing else happens, and   *)
(* what such a stretch writes commits together (a Durable Object's output  *)
(* gate).  An instant is abstracted to whether it has come: `due` holds    *)
(* the pending rows whose next_attempt_at is past, and `wake` says some    *)
(* instant is armed.  A crash loses everything declared "in memory".       *)
(***************************************************************************)
EXTENDS Naturals, Sequences, FiniteSets

CONSTANTS
    Responses,     \* the responses (turn id and message id) of one actor
    Turns,         \* turn ids
    TurnOf,        \* the turn a response belongs to
    Effects,       \* effect names
    Inline,        \* effects of the inline lane
    Sync,          \* inline effects whose body commits with its disposition
    FollowUps,     \* FOLLOW_UP_TURN_EFFECTS
    Coalesced,     \* COALESCED_EFFECTS
    Position,      \* the place of an effect in the roster
    Rosters,       \* what a response may declare
    None,
    Events,        \* what an instance lets the outside do
    MaxFaults,     \* bound: crashes and refused reports
    MaxTells       \* bound: reports outstanding when the outside calls in

Detached == Effects \ Inline

\* The identity of the follow-up turn an effect of a response owes.
Identities == Responses \X FollowUps

\* An open run: the response it is to commit, the follow-up turn it is, and whether it ran a tool.
Runs == [seq : Responses \cup {None}, item : Identities \cup {None}, tool : BOOLEAN]

ASSUME TerminalEffectsAssumption ==
    /\ TurnOf \in [Responses -> Turns]
    /\ FollowUps \subseteq Sync /\ Sync \subseteq Inline /\ Inline \subseteq Effects
    /\ Coalesced \subseteq Detached
    /\ Position \in [Effects -> Nat]
    /\ Rosters \subseteq SUBSET Effects
    /\ None \notin Responses \cup Identities \cup Runs
    /\ Events \subseteq {"question", "refusal", "tool"}
    /\ MaxFaults \in Nat /\ MaxTells \in Nat

VARIABLES
    \* durable
    claim,       \* the response's claim: none, open or settled
    row,         \* the status of each effect's row, "none" where there is none
    due,         \* the pending rows whose instant has come
    wake,        \* the workspace holds a wake for this agent
    run,         \* the open run: its response, follow-up and whether it ran a tool
    disk,        \* follow-up turns whose opening row is on disk
    receipts,    \* turns with tool receipts
    question,    \* a question to the owner is open
    \* outside the isolate
    broken,      \* the provider refuses with what only the owner can fix
    telling,     \* the workspace is about to tell the agent its settings changed
    \* in memory
    up,          \* the isolate has started since the last crash
    inFlight,    \* TerminalTransitions.inFlight
    drives,      \* calls of drive() up to the end of their close
    sweeps,      \* calls of resumeAll() and what follows them
    queue,       \* queued follow-up turns
    pump,        \* the turn the pump runs
    tells,       \* the reports chained to the workspace (telling), in order
    \* history
    ended,       \* how often each follow-up turn ran to an end
    answered,    \* effects whose body answered completed since the last crash
    repeated,    \* one of those was attempted again
    faults

durable == <<claim, row, due, wake, run, disk, receipts, question>>
owner   == <<broken, telling>>
memory  == <<up, inFlight, drives, sweeps, queue, pump, tells>>
history == <<ended, answered, repeated, faults>>
vars    == <<durable, owner, memory, history>>

----------------------------------------------------------------------------
(* The ledger's reads.                                                     *)

Rows == Responses \X Effects

StatusOf(x) == row[x[1]][x[2]]

\* Mutant of Owes: a row parked on the owner is not owed.
OwesPending(s) == \E e \in Effects : row[s][e] = "pending"

\* Mutant of Owes: a completed row is not left out.
OwesCompleted(s) == \E e \in Effects : row[s][e] # "none"

\* owed(): rows not yet due, or parked, are owed.
Owes(s) == \E e \in Effects : row[s][e] \in {"pending", "parked"}

\* nextRetryAt() is not null: something is owed on a clock.
OnClock == \E x \in Rows : StatusOf(x) = "pending"

\* nextRetryAt() is past: what is in flight is deferred, so not that.
DueBut(others) == \E x \in due : x[1] \notin others

WaitingOnOwner(s) ==
    /\ \E e \in Effects : row[s][e] = "parked"
    /\ \A e \in Effects : row[s][e] # "pending"

Incomplete == {s \in Responses : claim[s] = "open"}

HasIncomplete == \E s \in Incomplete : s \notin inFlight /\ ~WaitingOnOwner(s)

(* The chat loop's reads.                                                  *)

\* A report to the workspace: "rest" and the admission of an input say what
\* is owed; the others ask for a wake, for a drive before its effects or
\* after them, for a sweep at its end, for a drive or a close that failed, or
\* with nobody waiting.
Tell(of, by) == [of |-> of, by |-> by]

\* Two in a row that do the same are told as one.
Also(ts, t) == IF ts # <<>> /\ ts[Len(ts)] = t THEN ts ELSE Append(ts, t)

WithRest(ts) == Also(ts, Tell("rest", None))

WithAsk(ts) == Also(ts, Tell("ask", None))

Told(of, by) == tells # <<>> /\ Head(tells) = Tell(of, by)

InQueue(k) == \E i \in DOMAIN queue : queue[i] = k

\* A started isolate whose predecessor died inside a turn holds it at the
\* head of its queue (restoreOpenTurn).
Reopened == up /\ run # None /\ pump.at = "idle"

AnnouncementInFlight(k) == InQueue(k) \/ pump.item = k \/ (Reopened /\ run.item = k)

\* runnable(): while a question is open a follow-up turn does not run, unless
\* it is re-opened.
Runnable == (queue # <<>> /\ ~question) \/ Reopened

HeldClose(d) == d.stage \in {"detached", "rearm", "close"}

\* The closes not yet done, of these drives, sweeps and reports.
ClosingIn(ds, ws, ts) ==
    \/ \E d \in ds : HeldClose(d)
    \/ \E w \in ws : w.kind = "close"
    \/ \E i \in DOMAIN ts : ts[i].of \in {"close", "reclose"}

Closing == ClosingIn(drives, sweeps, tells)

\* Mutant of ChatOwes: the retry instants are not asked.
ChatOwesUntimed == pump.at # "idle" \/ Runnable \/ Closing \/ HasIncomplete

\* owed() of the chat: whether it names an instant.
ChatOwes == pump.at # "idle" \/ Runnable \/ Closing \/ HasIncomplete \/ OnClock

----------------------------------------------------------------------------
(* The ledger's writes, on a candidate row table.                          *)

\* The statement of claim(): insert what is not there, supersede the other
\* responses' coalesced rows, release every parked one.
ClaimRows(s, owed) ==
    [r \in Responses |-> [e \in Effects |->
        IF r = s THEN IF e \in owed /\ row[s][e] = "none" THEN "pending" ELSE row[s][e]
        ELSE IF e \in owed \cap Coalesced /\ row[r][e] \in {"pending", "parked"} THEN "completed"
        ELSE IF row[r][e] = "parked" THEN "pending" ELSE row[r][e]]]

\* Mutant of Written: a late answer writes over a completed row.
WrittenOver(s, e, status) ==
    IF row[s][e] = "none" THEN row ELSE [row EXCEPT ![s][e] = status]

\* record(), recordInline(): a completed row is never written again.
Written(s, e, status) ==
    IF row[s][e] \in {"none", "completed"} THEN row ELSE [row EXCEPT ![s][e] = status]

\* prune(): an owed row is kept.
Pruned(s) ==
    [row EXCEPT ![s] = [e \in Effects |-> IF row[s][e] = "completed" THEN "none" ELSE row[s][e]]]

\* Mutant of DueIn: the instants of rows that completed are read as well.
DueInAny(rows, marks) == marks

\* Only a pending row is due.
DueIn(rows, marks) == {x \in marks : rows[x[1]][x[2]] = "pending"}

\* Mutant of ReleasedRows: the owner's act releases nothing.
ReleasedNothing == row

ReleasedRows ==
    [r \in Responses |-> [e \in Effects |->
        IF row[r][e] = "parked" THEN "pending" ELSE row[r][e]]]

ParkedRows == {x \in Rows : StatusOf(x) = "parked"}

\* Attempts now running started before this release.
AfterRelease(ds) == {[d EXCEPT !.released = d.run # {}] : d \in ds}

\* release() of ownerActed(): parked rows fall due.
OwnerActed ==
    /\ row' = ReleasedRows
    /\ due' = due \cup ParkedRows
    /\ drives' = AfterRelease(drives)

----------------------------------------------------------------------------
(* Calls of drive(): the rows it read as due, the others are not           *)
(* attempted.  A row whose instant comes after the read and before its     *)
(* attempt is one whose instant came before the read.                      *)

Drive(s) ==
    [seq      |-> s,
     stage    |-> IF OnClock THEN "arm" ELSE "inline",
     todo     |-> {e \in Effects : <<s, e>> \in due},
     run      |-> {},
     released |-> FALSE,
     refused  |-> FALSE]

\* Mutant of Enter: a sweep does not look whether the response is in flight.
EnterAlways(s) == s \in Responses

Enter(s) == s \notin inFlight

\* drive() has not answered its caller, or armRecovery() has not.
Driving(s) ==
    \/ \E d \in drives : d.seq = s /\ d.stage \in {"arm", "inline"}
    \/ \E i \in DOMAIN tells : tells[i] = Tell("recovery", s)

SweepFree(w) == w.at = None \/ ~Driving(w.at)

\* A drive that waits for nothing.
Stretch(d) == d.run = {} /\ d.stage \in {"inline", "detached", "close"}

\* The isolate is in a stretch without an await: nothing else runs.
Busy == (\E d \in drives : Stretch(d)) \/ (\E w \in sweeps : SweepFree(w))

Replace(d, e) == (drives \ {d}) \cup {e}

\* The arm a drive of s asks for, if it has one to ask for.
WithArm(s) == IF OnClock THEN Append(tells, Tell("drive", s)) ELSE tells

Sweep(kind, by) == [kind |-> kind, by |-> by, todo |-> Incomplete, at |-> None]

Idle == [at |-> "idle", seq |-> None, item |-> None, again |-> FALSE]

\* What the pump takes from the queue.
Taken(s, k, again) == [at |-> "taken", seq |-> s, item |-> k, again |-> again]

Init ==
    /\ claim = [s \in Responses |-> "none"]
    /\ row = [s \in Responses |-> [e \in Effects |-> "none"]]
    /\ due = {} /\ run = None /\ disk = {} /\ receipts = {}
    /\ wake = FALSE /\ question = FALSE /\ broken = FALSE /\ telling = FALSE
    /\ up = TRUE /\ inFlight = {} /\ drives = {} /\ sweeps = {} /\ queue = <<>>
    /\ pump = Idle /\ tells = <<>>
    /\ ended = [k \in Identities |-> 0]
    /\ answered = {} /\ repeated = FALSE /\ faults = 0

----------------------------------------------------------------------------
(* The chat loop: one turn at a time, from the queue to its settle.        *)

Unsettled == {s \in Responses : claim[s] = "none"}

\* A message of the owner's: the workspace arms the agent's wake before it
\* crosses (preArmed), and its admission reports what is owed (taken).
TakeMessage(s) ==
    /\ ~Busy /\ Len(tells) < MaxTells
    /\ pump.at = "idle" /\ run = None
    /\ s \in Unsettled
    /\ up' = TRUE
    /\ pump' = Taken(s, None, FALSE)
    /\ wake' = TRUE
    /\ tells' = WithRest(tells)
    /\ UNCHANGED <<claim, row, due, run, disk, receipts, question, owner, inFlight, drives, sweeps, queue, history>>

\* A queued follow-up turn; the response it will commit is a new one, or
\* none where it ends without an answer.
TakeFollowUp(s) ==
    /\ ~Busy
    /\ pump.at = "idle" /\ run = None
    /\ Runnable
    /\ IF Unsettled = {} THEN s = None ELSE s \in Unsettled
    /\ pump' = Taken(s, Head(queue), FALSE)
    /\ queue' = Tail(queue)
    /\ UNCHANGED <<durable, owner, up, inFlight, drives, sweeps, tells, history>>

\* The turn the last process died inside.
TakeReopened ==
    /\ ~Busy
    /\ Reopened
    /\ pump' = Taken(run.seq, run.item, TRUE)
    /\ UNCHANGED <<durable, owner, up, inFlight, drives, sweeps, queue, tells, history>>

\* The run is opened, a re-opened one goes on; the owner's message closes the
\* open questions; the turn waits for the wake it asks for.
OpenTurn ==
    /\ ~Busy
    /\ pump.at = "taken"
    /\ pump' = [pump EXCEPT !.at = "opening"]
    /\ run' = IF run = None THEN [seq |-> pump.seq, item |-> pump.item, tool |-> FALSE] ELSE run
    /\ IF pump.item = None /\ question
         THEN /\ question' = FALSE
              /\ OwnerActed
              /\ tells' = Append(IF ParkedRows = {} THEN tells ELSE WithAsk(tells), Tell("turn", None))
         ELSE /\ tells' = Append(tells, Tell("turn", None))
              /\ UNCHANGED <<question, row, due, drives>>
    /\ UNCHANGED <<claim, wake, disk, receipts, owner, up, inFlight, sweeps, queue, history>>

TurnArmed ==
    /\ ~Busy
    /\ Told("turn", None)
    /\ tells' = Tail(tells)
    /\ wake' = TRUE
    /\ pump' = [pump EXCEPT !.at = "open"]
    /\ UNCHANGED <<claim, row, due, run, disk, receipts, question, owner, up, inFlight, drives, sweeps, queue, history>>

RunTool ==
    /\ ~Busy
    /\ "tool" \in Events
    /\ pump.at = "open" /\ pump.seq # None
    /\ run' = [run EXCEPT !.tool = TRUE]
    /\ receipts' = receipts \cup {TurnOf[pump.seq]}
    /\ UNCHANGED <<claim, row, due, wake, disk, question, owner, memory, history>>

AskOwner ==
    /\ ~Busy
    /\ "question" \in Events
    /\ pump.at = "open" /\ ~question
    /\ question' = TRUE
    /\ UNCHANGED <<claim, row, due, wake, run, disk, receipts, owner, memory, history>>

\* commitTurn(): the answer, its claim and its frozen roster, in one commit.
Record(s, owed) ==
    IF claim[s] = "none"
      THEN /\ claim' = [claim EXCEPT ![s] = "open"]
           /\ IF owed = {}
                THEN UNCHANGED <<row, due, drives>>
                ELSE LET rows == ClaimRows(s, owed) IN
                     /\ row' = rows
                     /\ due' = DueIn(rows, due \cup ParkedRows \cup {<<s, e>> : e \in owed})
                     /\ drives' = AfterRelease(drives)
      ELSE UNCHANGED <<claim, row, due, drives>>

\* endTurn(): the run closes, and a follow-up's opening row lands, with it.
CloseRun ==
    /\ run' = None
    /\ IF pump.item = None
         THEN UNCHANGED <<disk, ended>>
         ELSE /\ disk' = disk \cup {pump.item}
              /\ ended' = [ended EXCEPT ![pump.item] = @ + 1]

Commit(owed) ==
    /\ ~Busy
    /\ pump.at = "open" /\ pump.seq # None
    /\ Record(pump.seq, owed)
    /\ CloseRun
    /\ pump' = [pump EXCEPT !.at = "committed"]
    /\ UNCHANGED <<wake, receipts, question, owner, up, inFlight, sweeps, queue, tells, answered, repeated, faults>>

\* settle(): refused while the response is in flight, done when it settled;
\* otherwise its rows are driven, the roster as the commit froze it.
Settle ==
    /\ ~Busy
    /\ pump.at = "committed"
    /\ IF Enter(pump.seq) /\ claim[pump.seq] = "open"
         THEN /\ inFlight' = inFlight \cup {pump.seq}
              /\ drives' = drives \cup {Drive(pump.seq)}
              /\ tells' = WithArm(pump.seq)
              /\ pump' = [pump EXCEPT !.at = "settling"]
         ELSE /\ pump' = [pump EXCEPT !.at = "ending"]
              /\ UNCHANGED <<inFlight, drives, tells>>
    /\ UNCHANGED <<durable, owner, up, sweeps, queue, history>>

\* quiet() reaches atRest() when nothing is left to run, and it reports
\* only while nothing closes.
AtRest == tells' = IF ~Runnable /\ ~Closing THEN WithRest(tells) ELSE tells

\* The pump goes on once settle() answered: a follow-up turn's end makes the
\* rows that waited for it due, and resumeAll() drives them.  A re-opened one
\* tells nobody: its row waits for its instant.
EndTurn ==
    /\ ~Busy
    /\ pump.at = "ending" \/ (pump.at = "settling" /\ ~Driving(pump.seq))
    /\ LET marks == {x \in Rows : StatusOf(x) = "pending" /\ x[2] \in FollowUps} IN
       IF pump.item # None /\ ~pump.again
         THEN /\ due' = due \cup marks
              /\ sweeps' = IF marks = {} THEN sweeps ELSE sweeps \cup {Sweep("followUp", pump.item)}
         ELSE UNCHANGED <<due, sweeps>>
    /\ AtRest
    /\ pump' = Idle
    /\ UNCHANGED <<claim, row, wake, run, disk, receipts, question, owner, up, inFlight, drives, queue, history>>

\* A turn that could not open is told so, and its item is lost.
OpenFails ==
    /\ ~Busy
    /\ pump.at = "taken" /\ run = None
    /\ pump' = Idle
    /\ AtRest
    /\ UNCHANGED <<durable, owner, up, inFlight, drives, sweeps, queue, history>>

\* A turn that opened ends without an answer.
TurnFails ==
    /\ ~Busy
    /\ pump.at = "open"
    /\ CloseRun
    /\ pump' = [pump EXCEPT !.at = "ending"]
    /\ UNCHANGED <<claim, row, due, wake, receipts, question, owner, up, inFlight, drives, sweeps, queue, tells, answered, repeated, faults>>

----------------------------------------------------------------------------
(* drive(): arm, the inline lane in order, then the detached lane.         *)

\* The instant was read before the await, so the wake is armed whatever
\* happened since.
ArmWake(d) ==
    /\ ~Busy
    /\ d.stage \in {"arm", "rearm"} /\ Told("drive", d.seq)
    /\ wake' = TRUE
    /\ tells' = Tail(tells)
    /\ drives' = Replace(d, [d EXCEPT !.stage = IF @ = "arm" THEN "inline" ELSE "close"])
    /\ UNCHANGED <<claim, row, due, run, disk, receipts, question, owner, up, inFlight, sweeps, queue, pump, history>>

\* The wake refuses the arm: the response leaves, and armRecovery() asks for
\* a wake of its own.
ArmRefused(d) ==
    /\ ~Busy
    /\ faults < MaxFaults /\ faults' = faults + 1
    /\ d.stage \in {"arm", "rearm"} /\ Told("drive", d.seq)
    /\ tells' = Append(Tail(tells), Tell(IF d.stage = "arm" THEN "recovery" ELSE "reclose", d.seq))
    /\ inFlight' = inFlight \ {d.seq}
    /\ drives' = drives \ {d}
    /\ UNCHANGED <<claim, row, due, wake, run, disk, receipts, question, owner, up, sweeps, queue, pump, ended, answered, repeated>>

NextInline(d, e) ==
    /\ d.stage = "inline" /\ d.run = {}
    /\ e \in d.todo \cap Inline
    /\ \A f \in d.todo \cap Inline : Position[e] <= Position[f]

Running(x) == \E d \in drives : d.seq = x[1] /\ x[2] \in d.run

Attempted(xs) == repeated' = (repeated \/ \E x \in xs : x \in answered \/ Running(x))

\* owedTurnTerminalEffect: complete once the turn is on disk, queue it if it
\* is not in flight, wait on the owner behind an open question.
FollowUpStatus(k, q) ==
    CASE k \in disk                                                -> "completed"
      [] k \notin disk /\ question /\ (\E i \in DOMAIN q : q[i] = k) -> "parked"
      [] OTHER                                                     -> "pending"

\* Mutant of FollowUpQueue: only the queue is asked, not the running turn.
FollowUpQueueUnseen(k) ==
    IF k \in disk \/ InQueue(k) THEN queue ELSE Append(queue, k)

FollowUpQueue(k) ==
    IF k \in disk \/ AnnouncementInFlight(k) THEN queue ELSE Append(queue, k)

InlineSync(d, e) ==
    LET k == <<d.seq, e>> IN
    /\ NextInline(d, e) /\ e \in Sync
    /\ \E status \in (IF e \in FollowUps THEN {FollowUpStatus(k, FollowUpQueue(k))} ELSE {"completed", "pending"}) :
         /\ row' = Written(d.seq, e, status)
         /\ answered' = IF status = "completed" THEN answered \cup {k} ELSE answered
    /\ due' = due \ {k}
    /\ queue' = IF e \in FollowUps THEN FollowUpQueue(k) ELSE queue
    /\ drives' = Replace(d, [d EXCEPT !.todo = @ \ {e}])
    /\ Attempted({k})
    /\ UNCHANGED <<claim, wake, run, disk, receipts, question, owner, up, inFlight, sweeps, pump, tells, ended, faults>>

\* An awaited body: its attempt is recorded before it starts.
Begin(d, es, stage) ==
    /\ due' = due \ {<<d.seq, e>> : e \in es}
    /\ drives' = Replace(d, [seq |-> d.seq, stage |-> stage, todo |-> d.todo \ es, run |-> es,
                             released |-> FALSE, refused |-> broken /\ es # {}])
    /\ Attempted({<<d.seq, e>> : e \in es})
    /\ UNCHANGED <<claim, row, wake, run, disk, receipts, question, owner, up, inFlight, sweeps, queue, pump, tells, ended, answered, faults>>

BeginInline(d, e) ==
    /\ NextInline(d, e) /\ e \notin Sync
    /\ Begin(d, {e}, "inline")

\* The detached lane starts at once, when the inline lane is done.
BeginDetached(d) ==
    /\ d.stage = "inline" /\ d.run = {} /\ d.todo \cap Inline = {}
    /\ Begin(d, d.todo, "detached")

\* Mutant of Refused: a refusal parks whatever the owner did meanwhile.
RefusedOutdated(d, e) ==
    /\ row' = Written(d.seq, e, "parked")
    /\ due' = due \ {<<d.seq, e>>}

\* A refusal only the owner can fix; outdated if they acted since the attempt
\* began, and then the row is due again.
Refused(d, e) ==
    IF d.released
      THEN /\ row' = Written(d.seq, e, "pending")
           /\ due' = DueIn(row', due \cup {<<d.seq, e>>})
      ELSE /\ row' = Written(d.seq, e, "parked")
           /\ due' = due \ {<<d.seq, e>>}

\* What an awaited body ends as.  "owed" leaves the instant its attempt
\* recorded, "held" writes one of its own; "gone" is a row that ended without
\* completing (no handler, a definitive failure, an actor that stood down).
Disposed(d, e, outcome) ==
    LET x == <<d.seq, e>> IN
    \/ outcome = "completed" /\ row' = Written(d.seq, e, "completed") /\ due' = due \ {x}
    \/ outcome = "owed" /\ row' = Written(d.seq, e, "pending") /\ due' = due
    \/ outcome = "held" /\ row' = Written(d.seq, e, "pending") /\ due' = due \ {x}
    \/ outcome = "gone" /\ row' = [row EXCEPT ![d.seq][e] = "none"] /\ due' = due \ {x}
    \/ outcome = "refused" /\ Refused(d, e)

Finish(d, e, outcome) ==
    /\ ~Busy
    /\ e \in d.run
    /\ outcome = "refused" => d.refused
    /\ Disposed(d, e, outcome)
    /\ drives' = Replace(d, [seq |-> d.seq, stage |-> d.stage, todo |-> d.todo, run |-> d.run \ {e},
                             released |-> d.released /\ d.run # {e}, refused |-> d.refused /\ d.run # {e}])
    /\ answered' = IF outcome = "completed" THEN answered \cup {<<d.seq, e>>} ELSE answered
    /\ UNCHANGED <<claim, wake, run, disk, receipts, question, owner, up, inFlight, sweeps, queue, pump, tells, ended, repeated, faults>>

\* Every detached effect reported: the wake goes to what is left.
Reported(d) ==
    /\ d.stage = "detached" /\ d.run = {}
    /\ drives' = Replace(d, [d EXCEPT !.stage = IF OnClock THEN "rearm" ELSE "close"])
    /\ tells' = WithArm(d.seq)
    /\ UNCHANGED <<durable, owner, up, inFlight, sweeps, queue, pump, history>>

\* turnMayStillRun: the turn the pump runs, or an open run's.  (Between turns
\* the session still names its last one, which only keeps receipts longer.)
TurnIsLive(t) ==
    \/ pump.at \notin {"idle", "taken"} /\ pump.seq # None /\ TurnOf[pump.seq] = t
    \/ run # None /\ run.seq # None /\ TurnOf[run.seq] = t

\* Mutant of ReleasesReceipts: a turn mid-continuation is not looked for.
ReleasesReceiptsOfLive(s) == \A r \in Incomplete \ {s} : TurnOf[r] # TurnOf[s]

ReleasesReceipts(s) ==
    /\ \A r \in Incomplete \ {s} : TurnOf[r] # TurnOf[s]
    /\ ~TurnIsLive(TurnOf[s])

\* The close's own end: what fell due meanwhile is resumed here, else the
\* wake goes to what is left and the chat rests.
End(d) ==
    /\ d.stage = "close"
    /\ inFlight' = inFlight \ {d.seq}
    /\ drives' = drives \ {d}
    /\ IF Owes(d.seq)
         THEN UNCHANGED <<claim, row, receipts, answered>>
         ELSE /\ claim' = [claim EXCEPT ![d.seq] = "settled"]
              /\ row' = Pruned(d.seq)
              /\ receipts' = IF ReleasesReceipts(d.seq) THEN receipts \ {TurnOf[d.seq]} ELSE receipts
              /\ answered' = {x \in answered : x[1] # d.seq}
    /\ sweeps' = sweeps \cup {[kind |-> "close", by |-> d.seq, at |-> None,
                               todo |-> IF DueBut(inFlight') THEN {s \in Responses : claim'[s] = "open"} ELSE {}]}
    /\ UNCHANGED <<due, wake, run, disk, question, owner, up, queue, pump, tells, ended, repeated, faults>>

----------------------------------------------------------------------------
(* resumeAll(): one response after another, each past its inline lane.     *)

\* The sweep, past s.
Past(w, s, at) == [kind |-> w.kind, by |-> w.by, todo |-> w.todo \ {s}, at |-> at]

Resume(w, s) ==
    /\ SweepFree(w) /\ s \in w.todo
    /\ IF Enter(s) /\ ~WaitingOnOwner(s)
         THEN /\ inFlight' = inFlight \cup {s}
              /\ drives' = drives \cup {Drive(s)}
              /\ sweeps' = (sweeps \ {w}) \cup {Past(w, s, s)}
              /\ tells' = WithArm(s)
         ELSE /\ sweeps' = (sweeps \ {w}) \cup {Past(w, s, None)}
              /\ UNCHANGED <<inFlight, drives, tells>>
    /\ UNCHANGED <<durable, owner, up, queue, pump, history>>

\* A pass then kicks the pump and a close leaves the closes: either way the
\* chat rests if nothing is left.
RestsAfter(ws, ts) ==
    tells' = IF pump.at = "idle" /\ ~Runnable /\ ~ClosingIn(drives, ws, ts) THEN WithRest(ts) ELSE ts

\* replayOwedAndRearm() and closed() arm from what is left.
SweepEnds(w) ==
    /\ SweepFree(w) /\ w.todo = {}
    /\ sweeps' = sweeps \ {w}
    /\ \/ w.kind = "followUp" /\ UNCHANGED tells
       \/ w.kind # "followUp" /\ OnClock /\ tells' = Append(tells, Tell(w.kind, w.by))
       \/ w.kind # "followUp" /\ ~OnClock /\ RestsAfter(sweeps', tells)
    /\ UNCHANGED <<durable, owner, up, inFlight, drives, queue, pump, history>>

\* The workspace's wake comes: it is leased a lap ahead before the agent runs.
WakeFires ==
    /\ ~Busy /\ Len(tells) < MaxTells
    /\ wake
    /\ \A w \in sweeps : w.kind # "pass"
    /\ \A i \in DOMAIN tells : tells[i].of # "pass"
    /\ up' = TRUE
    /\ sweeps' = sweeps \cup {Sweep("pass", None)}
    /\ UNCHANGED <<durable, owner, inFlight, drives, queue, pump, tells, history>>

\* tell() at rest, or taken(): what the chat owes when the report leaves.
TellRest ==
    /\ ~Busy
    /\ Told("rest", None)
    /\ tells' = Tail(tells)
    /\ wake' = ChatOwes
    /\ UNCHANGED <<claim, row, due, run, disk, receipts, question, owner, up, inFlight, drives, sweeps, queue, pump, history>>

\* The arm at the end of a sweep.
SweepArmed ==
    /\ ~Busy
    /\ tells # <<>> /\ Head(tells).of \in {"pass", "close"}
    /\ wake' = TRUE
    /\ RestsAfter(sweeps, Tail(tells))
    /\ UNCHANGED <<claim, row, due, run, disk, receipts, question, owner, up, inFlight, drives, sweeps, queue, pump, history>>

\* An arm after which the isolate does nothing.
AskedArmed ==
    /\ ~Busy
    /\ tells # <<>> /\ Head(tells).of \in {"ask", "recovery", "reclose"}
    /\ wake' = TRUE
    /\ tells' = Tail(tells)
    /\ UNCHANGED <<claim, row, due, run, disk, receipts, question, owner, up, inFlight, drives, sweeps, queue, pump, history>>

\* A report that does not reach: a turn waiting for it ends unanswered, a
\* close asks for its recovery's wake, a pass goes on to the pump, and the
\* others are diagnosed and dropped.
TellRefused ==
    /\ ~Busy
    /\ faults < MaxFaults /\ faults' = faults + 1
    /\ tells # <<>> /\ Head(tells).of # "drive"
    /\ \/ Head(tells).of = "close" /\ tells' = Append(Tail(tells), Tell("reclose", Head(tells).by))
       \/ Head(tells).of = "pass" /\ RestsAfter(sweeps, Tail(tells))
       \/ Head(tells).of \notin {"close", "pass"} /\ tells' = Tail(tells)
    /\ IF Head(tells).of = "turn"
         THEN CloseRun /\ pump' = [pump EXCEPT !.at = "ending"]
         ELSE UNCHANGED <<run, disk, pump, ended>>
    /\ UNCHANGED <<claim, row, due, wake, receipts, question, owner, up, inFlight, drives, sweeps, queue, answered, repeated>>

----------------------------------------------------------------------------
(* The owner, the provider, time and crashes.                              *)

\* The owner's answer to the last question, or its dismissal: handed in with
\* a wake armed (preArmed), the release's own arm chained behind.
QuestionCloses ==
    /\ ~Busy /\ Len(tells) < MaxTells
    /\ up' = TRUE
    /\ question
    /\ question' = FALSE
    /\ OwnerActed
    /\ wake' = TRUE
    /\ tells' = WithRest(IF ParkedRows = {} THEN tells ELSE WithAsk(tells))
    /\ UNCHANGED <<claim, run, disk, receipts, owner, inFlight, sweeps, queue, pump, history>>

ProviderBreaks ==
    /\ ~Busy
    /\ "refusal" \in Events
    /\ ~broken
    /\ broken' = TRUE
    /\ drives' = {[d EXCEPT !.refused = d.run # {}] : d \in drives}
    /\ UNCHANGED <<durable, telling, up, inFlight, sweeps, queue, pump, tells, history>>

\* The owner changes the workspace's model settings.
OwnerFixes ==
    /\ ~Busy
    /\ broken
    /\ broken' = FALSE /\ telling' = TRUE
    /\ UNCHANGED <<durable, memory, history>>

\* modelSettingsChanged() of the agent's chat: the release arms its own wake.
OwnerTold ==
    /\ ~Busy /\ Len(tells) < MaxTells
    /\ up' = TRUE
    /\ telling
    /\ telling' = FALSE
    /\ OwnerActed
    /\ tells' = IF ParkedRows = {} THEN tells ELSE WithAsk(tells)
    /\ UNCHANGED <<claim, wake, run, disk, receipts, question, broken, inFlight, sweeps, queue, pump, history>>

\* The clock reaches a row's instant.
FallsDue(x) ==
    /\ ~Busy
    /\ StatusOf(x) = "pending" /\ x \notin due
    /\ due' = due \cup {x}
    /\ UNCHANGED <<claim, row, wake, run, disk, receipts, question, owner, memory, history>>

Crash ==
    /\ ~Busy
    /\ faults < MaxFaults /\ faults' = faults + 1
    /\ up' = FALSE /\ inFlight' = {} /\ drives' = {} /\ sweeps' = {} /\ queue' = <<>>
    /\ pump' = Idle /\ tells' = <<>> /\ answered' = {}
    /\ UNCHANGED <<durable, owner, ended, repeated>>

Outcomes == {"completed", "owed", "held", "gone", "refused"}

DriveStep(d) ==
    \/ \E e \in Effects : InlineSync(d, e) \/ BeginInline(d, e)
    \/ BeginDetached(d)
    \/ Reported(d)
    \/ End(d)

SweepStep(w) == SweepEnds(w) \/ \E s \in Responses : Resume(w, s)

AwaitFree == (\E d \in drives : DriveStep(d)) \/ (\E w \in sweeps : SweepStep(w))

Answer(d) == ArmWake(d) \/ \E e \in Effects, o \in Outcomes : Finish(d, e, o)

PumpStep ==
    \/ \E s \in Responses \cup {None} : TakeFollowUp(s)
    \/ TakeReopened
    \/ OpenTurn
    \/ TurnArmed
    \/ \E owed \in Rosters : Commit(owed)
    \/ Settle
    \/ EndTurn

OwnerStep == QuestionCloses \/ OwnerFixes \/ OwnerTold

Outside ==
    \/ PumpStep
    \/ \E s \in Responses : TakeMessage(s)
    \/ RunTool \/ AskOwner \/ OpenFails \/ TurnFails
    \/ \E d \in drives : Answer(d) \/ ArmRefused(d)
    \/ WakeFires \/ TellRest \/ SweepArmed \/ AskedArmed \/ TellRefused
    \/ OwnerStep \/ ProviderBreaks
    \/ \E x \in Rows : FallsDue(x)
    \/ Crash

Next == AwaitFree \/ Outside

Spec == Init /\ [][Next]_vars

----------------------------------------------------------------------------
\* Every variable has its type; drives, sweeps and reports are of known responses.
TypeOK ==
    /\ claim \in [Responses -> {"none", "open", "settled"}]
    /\ row \in [Responses -> [Effects -> {"none", "pending", "parked", "completed"}]]
    /\ due \subseteq {x \in Rows : StatusOf(x) = "pending"}
    /\ run \in Runs \cup {None}
    /\ up \in BOOLEAN /\ wake \in BOOLEAN /\ question \in BOOLEAN /\ broken \in BOOLEAN /\ telling \in BOOLEAN
    /\ disk \subseteq Identities /\ receipts \subseteq Turns
    /\ inFlight \subseteq Responses
    /\ drives \subseteq [seq : Responses, stage : {"arm", "inline", "detached", "rearm", "close"},
                         todo : SUBSET Effects, run : SUBSET Effects, released : BOOLEAN, refused : BOOLEAN]
    /\ sweeps \subseteq [kind : {"pass", "close", "followUp"}, by : Responses \cup Identities \cup {None},
                         todo : SUBSET Responses, at : Responses \cup {None}]
    /\ queue \in Seq(Identities)
    /\ pump \in [at : {"idle", "taken", "opening", "open", "committed", "settling", "ending"},
                 seq : Responses \cup {None}, item : Identities \cup {None}, again : BOOLEAN]
    /\ tells \in Seq([of : {"rest", "drive", "recovery", "reclose", "pass", "close", "turn", "ask"}, by : Responses \cup {None}])
    /\ ended \in [Identities -> Nat]
    /\ answered \subseteq Rows /\ repeated \in BOOLEAN /\ faults \in 0 .. MaxFaults

\* An effect owed on a clock and a turn that opened have a wake in every
\* state, whatever report of rest leaves the isolate late and wherever a crash
\* cuts it.  (Where the provider can refuse, the release of a settings change
\* breaks it: it is reported only after the rows are released.)
WakeCovers == OnClock \/ run # None => wake

\* A row waits on the owner only while the owner has something to do: a
\* refusal answered after they acted, or a question they have closed, never
\* parks an effect (T1).
ParkedWaitsOnOwner ==
    \A x \in ParkedRows : IF x[2] \in FollowUps THEN question ELSE broken \/ telling

\* The follow-up turn a response owes runs to an end at most once, however
\* often its effect is replayed, queued again after a crash, raced by the pump
\* or by the restart that re-opens it.
FollowUpOnce == \A k \in Identities : ended[k] <= 1

\* A response that is not open owes nothing: it is settled only on an empty
\* owed set, its rows go with it, and no later write brings one back.
SettledOwesNothing == \A s \in Responses : claim[s] # "open" => \A e \in Effects : row[s][e] = "none"

\* An actor owes at most one row of a coalesced effect (T2), although the
\* superseded one may still be running and answer later.
OneCoalesced ==
    \A e \in Coalesced : \A r, s \in Responses :
        row[r][e] \in {"pending", "parked"} /\ row[s][e] \in {"pending", "parked"} => r = s

\* The receipts of the tools a turn ran outlive the close of an earlier
\* response of the same turn while the turn may still run, here or re-opened
\* after a crash.
ReceiptsKept == run # None /\ run.tool => TurnOf[run.seq] \in receipts

\* Within one process an effect is not attempted while it runs, nor after it
\* answered that it completed, whatever wakes, follow-ups and closes sweep it.
AnsweredOnce == ~repeated

----------------------------------------------------------------------------
(* Liveness.  The isolate goes on with what it does not wait for; calls it *)
(* waits for answer; the workspace's wake comes; an effect tried again and *)
(* again in the end completes; a turn that opens ends; a queued turn that  *)
(* could not open in the end opens; the owner closes a question, and is    *)
(* heard.                                                                  *)

Completes(x) == \E d \in drives : d.seq = x[1] /\ Finish(d, x[2], "completed")

Sends == TellRest \/ TurnArmed \/ SweepArmed \/ AskedArmed \/ \E d \in drives : ArmWake(d)

TurnGoesOn ==
    \/ \E s \in Responses \cup {None} : TakeFollowUp(s)
    \/ TakeReopened \/ OpenTurn \/ OpenFails \/ TurnFails \/ Settle \/ EndTurn

Fairness ==
    /\ WF_vars(AwaitFree)
    /\ SF_vars(Sends)
    /\ SF_vars(WakeFires)
    /\ SF_vars(TurnGoesOn)
    /\ SF_vars(\E x \in Rows : FallsDue(x))
    /\ \A x \in Responses \X (Effects \ Sync) : SF_vars(Completes(x))
    /\ \A k \in Identities : SF_vars(OpenTurn /\ pump.item = k)
    /\ SF_vars(QuestionCloses \/ OwnerFixes \/ OwnerTold)

FairSpec == Spec /\ Fairness

\* All a response owes is in the end finished or ended, in both lanes, across a
\* crash at any point, deferrals, lost queued turns, parking and refused arms.
EffectsFinish ==
    \A s \in Responses :
        (\E e \in Effects : row[s][e] \in {"pending", "parked"}) ~> (\A e \in Effects : row[s][e] \notin {"pending", "parked"})

\* Every response that committed is in the end closed.
ResponsesSettle == \A s \in Responses : claim[s] = "open" ~> claim[s] = "settled"
=============================================================================
