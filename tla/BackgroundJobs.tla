--------------------------- MODULE BackgroundJobs ---------------------------
(***************************************************************************)
(* Tool calls that outrun their window and go on as background jobs.  One  *)
(* runner holds, in memory, the controller that stops each job's attempt,  *)
(* the cancels in flight and the outcomes they hold back; the store keeps  *)
(* each job's row, a fiber row the attempt that runs it, and the inbox the *)
(* word that its agent is owed.  An attempt writes the row only under the  *)
(* epoch it began with; a recovery takes the job under the next one.       *)
(*                                                                         *)
(* A crash loses everything in memory.  The next activation sweeps every   *)
(* running row and every fiber row an earlier one left, each recovery      *)
(* awaiting between what it reads and what it claims.                      *)
(***************************************************************************)
EXTENDS Integers, FiniteSets, Sequences

CONSTANTS
    Jobs,
    Kinds,         \* the kinds of work
    Cap,           \* MAX_CONCURRENT_DETACHED_JOBS
    MaxEpoch,      \* bound: recoveries of a job
    MaxFaults      \* bound: crashes, lost contexts, cancels and Stops together

ASSUME JobsAssumption ==
    /\ Kinds \subseteq {"search", "process", "command"}
    /\ Cap \in Nat /\ MaxEpoch \in Nat /\ MaxFaults \in Nat

VARIABLES
    kind,       \* each job's kind: a search is re-driven, a process's end is told from
                \* outside, a command may outlive a restart and is never re-driven
    row,        \* background_jobs
    fibers,     \* the fiber rows of each job, by the epoch of their attempt
    told,       \* the status each job's agent was sent, under the job's one key
    armed,      \* the durable wake that asks for due resumes
    up,         \* the activation runs
    toSweep,    \* the running rows its sweep has yet to reach
    call,       \* the foreground call each job is made of
    ctl,        \* controllers: the epoch of the attempt a job's controller stops
    att,        \* each attempt's phase
    stopped,    \* the attempts whose controller was aborted
    heard,      \* the attempt whose context is watched
    silent,     \* the attempts whose context stopped answering
    cancel,     \* a cancel in flight: who asks, and where it stands
    fenced,     \* the outcome a cancel in flight holds back, and its attempt's epoch
    recov,      \* the recoveries in flight
    completing, \* a completion told from outside has yet to send its wake
    faults,
    noticed,    \* history: the statuses announced to onSettled
    cut,        \* history: jobs whose controller a Stop of the turn aborted
    overheld,   \* history: jobs whose held outcome an older attempt's replaced
    inFiber     \* history: jobs an attempt settled within its own fiber

rowVars  == <<row, fibers, told, armed>>
memVars  == <<toSweep, call, ctl, att, stopped, heard, silent, cancel, fenced, recov, completing>>
histVars == <<noticed, cut, overheld, inFiber>>
vars     == <<kind, rowVars, up, memVars, faults, histVars>>

Epochs == 0..MaxEpoch

None == -1

Statuses == {"none", "running", "completed", "failed", "cancelled"}

Outcomes == {"completed", "failed", "bounded"}

Resumes == {"none", "later", "due"}

\* A row of background_jobs: its status, the epoch of the attempt that holds it, the
\* instant of the next attempt (resume_at), and history: the epoch that settled it.
Row(status, epoch, resume, by) == [status |-> status, epoch |-> epoch, resume |-> resume, by |-> by]

NoRow == Row("none", 0, "none", None)

NewRow == Row("running", 0, "none", None)

Nothing == [epoch |-> None, outcome |-> "none"]

Phases == {"none", "starting", "begun", "loose", "completed", "failed", "bounded",
           "keeping", "telling", "over", "dead"}

Init ==
    /\ kind = [j \in Jobs |-> "none"]
    /\ row = [j \in Jobs |-> NoRow] /\ fibers = [j \in Jobs |-> {}]
    /\ told = [j \in Jobs |-> "none"] /\ armed = FALSE
    /\ up = TRUE /\ toSweep = {}
    /\ call = [j \in Jobs |-> "none"]
    /\ ctl = [j \in Jobs |-> None]
    /\ att = [j \in Jobs |-> [e \in Epochs |-> "none"]]
    /\ stopped = [j \in Jobs |-> {}] /\ heard = [j \in Jobs |-> None]
    /\ silent = [j \in Jobs |-> {}]
    /\ cancel = [j \in Jobs |-> "none"] /\ fenced = [j \in Jobs |-> Nothing]
    /\ recov = [j \in Jobs |-> {}] /\ completing = {}
    /\ faults = 0
    /\ noticed = [j \in Jobs |-> <<>>] /\ cut = {} /\ overheld = {} /\ inFiber = {}

-----------------------------------------------------------------------------
(* The store's conditional writes. *)

Running(j) == row[j].status = "running"

\* Mutant: the write reads no epoch.
OwnsAnyEpoch(j, e) == Running(j) /\ e \in Epochs

\* Mutant: the write does not ask that the job still runs.
OwnsSettled(j, e) == row[j].epoch = e

\* The row is still the attempt's to write.
Owns(j, e) == Running(j) /\ row[j].epoch = e

\* A terminal write that was admitted, and its one announcement to onSettled.
Settle(j, e, s) ==
    /\ row' = [row EXCEPT ![j] = Row(s, @.epoch, @.resume, e)]
    /\ noticed' = [noticed EXCEPT ![j] = Append(@, s)]

\* A wake: the agent is sent the row's status, a repeat under the same key is dropped.
Wake(j) ==
    told' = IF told[j] = "none" /\ row[j].status # "none"
            THEN [told EXCEPT ![j] = row[j].status] ELSE told

\* Jobs driven by no attempt here and waiting for a later instant take no slot.
LiveDetached == {j \in Jobs : Running(j) /\ ~(row[j].resume = "later" /\ ctl[j] = None)}

\* The running jobs with an armed instant that no runner drives.
OwedResumes == {j \in Jobs : Running(j) /\ row[j].resume # "none" /\ ctl[j] = None}

Drive(j, e) ==
    /\ ctl' = [ctl EXCEPT ![j] = e]
    /\ att' = [att EXCEPT ![j][e] = "starting"]

Fault == faults < MaxFaults /\ faults' = faults + 1

-----------------------------------------------------------------------------
(* A call, its window, and the job it becomes. *)

Call(j, k) ==
    /\ up /\ call[j] = "none"
    /\ kind' = [kind EXCEPT ![j] = k]
    /\ call' = [call EXCEPT ![j] = "open"]
    /\ UNCHANGED <<rowVars, up, toSweep, ctl, att, stopped, heard, silent, cancel, fenced, recov, completing, faults, histVars>>

\* The work answers its caller: before its window ends, or after a detach was refused.
AnswerInline(j) ==
    /\ up /\ call[j] \in {"open", "kept"}
    /\ call' = [call EXCEPT ![j] = "inline"]
    /\ UNCHANGED <<kind, rowVars, up, toSweep, ctl, att, stopped, heard, silent, cancel, fenced, recov, completing, faults, histVars>>

\* The window ends, or a person's word releases the call: past the cap, which the
\* workspace's other agents' jobs count against, the work stays its caller's;
\* otherwise a job's row and controller are made.
Expire(j) ==
    /\ up /\ call[j] = "open"
    /\ \E others \in 0..Cap :
       IF Cardinality(LiveDetached) + others >= Cap
       THEN /\ call' = [call EXCEPT ![j] = "kept"]
            /\ UNCHANGED <<row, ctl, att>>
       ELSE /\ call' = [call EXCEPT ![j] = "moving"]
            /\ row' = [row EXCEPT ![j] = NewRow]
            /\ Drive(j, 0)
    /\ UNCHANGED <<kind, fibers, told, armed, up, toSweep, stopped, heard, silent, cancel, fenced, recov, completing, faults, histVars>>

\* The attempt's fiber begins: its stash names the job, its context is watched, its
\* epoch and controller are read.  A job with no row left ends here; a controller
\* aborted already ends the attempt's hold, and whoever aborted it decides the job.
Begin(j, e) ==
    /\ up /\ att[j][e] = "starting"
    /\ call' = [call EXCEPT ![j] = IF @ = "moving" THEN "handed" ELSE @]
    /\ IF row[j].status = "none" \/ (ctl[j] = e /\ e \in stopped[j])
       THEN /\ att' = [att EXCEPT ![j][e] = "over"]
            /\ ctl' = [ctl EXCEPT ![j] = IF @ = e THEN None ELSE @]
            /\ UNCHANGED <<fibers, heard>>
       ELSE /\ att' = [att EXCEPT ![j][e] = IF ctl[j] = e THEN "begun" ELSE "loose"]
            /\ fibers' = [fibers EXCEPT ![j] = @ \cup {e}]
            /\ heard' = [heard EXCEPT ![j] = e]
            /\ UNCHANGED ctl
    /\ UNCHANGED <<kind, row, told, armed, up, toSweep, stopped, silent, cancel, fenced, recov, completing, faults, histVars>>

-----------------------------------------------------------------------------
(* An attempt's end. *)

\* The work answers before any abort: done, failed, or found not to resume.  A
\* process's work is the end told from outside, which settles the row first.
Finish(j, e, o) ==
    /\ up /\ \/ att[j][e] = "begun" /\ e \notin stopped[j]
             \/ att[j][e] = "loose"
    /\ o = "bounded" => kind[j] # "command" /\ e > 0
    /\ kind[j] = "process" => o = "completed" /\ ~Running(j)
    /\ att' = [att EXCEPT ![j][e] = o]
    /\ UNCHANGED <<kind, rowVars, up, toSweep, call, ctl, stopped, heard, silent, cancel, fenced, recov, completing, faults, histVars>>

\* The fiber ends: its row goes, and its context is no longer watched.
FiberEnds(j, e) ==
    /\ fibers' = [fibers EXCEPT ![j] = @ \ {e}]
    /\ heard' = [heard EXCEPT ![j] = IF @ = e THEN None ELSE @]

\* The outcome is recorded under the attempt's epoch: a bounded one awaits what the
\* work left first, a refused write owes no word, an admitted one owes a wake.
Record(j, e, o) ==
    IF o = "bounded"
    THEN att' = [att EXCEPT ![j][e] = "keeping"] /\ UNCHANGED <<row, noticed, inFiber>>
    ELSE IF Owns(j, e)
         THEN /\ Settle(j, e, o) /\ att' = [att EXCEPT ![j][e] = "telling"]
              /\ inFiber' = IF e \in fibers[j] THEN inFiber \cup {j} ELSE inFiber
         ELSE att' = [att EXCEPT ![j][e] = "over"] /\ UNCHANGED <<row, noticed, inFiber>>

\* A cancel in flight decides the row.
HoldsBack(j) == cancel[j] \in {"cancel", "retire"}

\* What follows the race of the work and its stop.  The controller is released if it
\* is still this attempt's.  A stopped attempt that did not complete says nothing,
\* nor does one whose job was cancelled; a cancel in flight holds the outcome back.
Return(j, e) ==
    /\ up /\ \/ att[j][e] \in {"completed", "failed", "bounded"}
             \/ att[j][e] = "begun" /\ e \in stopped[j]
    /\ ctl' = [ctl EXCEPT ![j] = IF @ = e THEN None ELSE @]
    /\ LET o == att[j][e]
           silenced == (o # "completed" /\ e \in stopped[j]) \/ row[j].status = "cancelled"
       IN \/ /\ silenced
             /\ att' = [att EXCEPT ![j][e] = "over"]
             /\ FiberEnds(j, e) /\ UNCHANGED <<row, fenced, noticed, overheld, inFiber>>
          \/ /\ ~silenced /\ HoldsBack(j)
             /\ att' = [att EXCEPT ![j][e] = "over"]
             /\ fenced' = [fenced EXCEPT ![j] = [epoch |-> e, outcome |-> o]]
             /\ overheld' = IF fenced[j].epoch > e THEN overheld \cup {j} ELSE overheld
             /\ FiberEnds(j, e) /\ UNCHANGED <<row, noticed, inFiber>>
          \/ /\ ~silenced /\ ~HoldsBack(j)
             /\ Record(j, e, o)
             /\ UNCHANGED <<fenced, overheld>>
             /\ IF att'[j][e] = "over" THEN FiberEnds(j, e) ELSE UNCHANGED <<fibers, heard>>
    /\ UNCHANGED <<kind, told, armed, up, toSweep, call, stopped, silent, cancel, recov, completing, faults, cut>>

\* What a bounded attempt's work had produced was read: a part kept completes it.
Harvested(j, e, o) ==
    /\ up /\ att[j][e] = "keeping" /\ o \in {"completed", "failed"}
    /\ Record(j, e, o)
    /\ IF att'[j][e] = "over" THEN FiberEnds(j, e) ELSE UNCHANGED <<fibers, heard>>
    /\ UNCHANGED <<kind, told, armed, up, toSweep, call, ctl, stopped, silent, cancel, fenced, recov, completing, faults, cut, overheld>>

\* The wake is sent, and the fiber ends.
Tell(j, e) ==
    /\ up /\ att[j][e] = "telling"
    /\ Wake(j)
    /\ att' = [att EXCEPT ![j][e] = "over"]
    /\ FiberEnds(j, e)
    /\ UNCHANGED <<kind, row, armed, up, toSweep, call, ctl, stopped, silent, cancel, fenced, recov, completing, faults, histVars>>

-----------------------------------------------------------------------------
(* Cancels, completions from outside, dismissals and the turn's Stop. *)

\* A cancel by the owner, or a retirement of the agent; the external owner is asked.
AskCancel(j, who) ==
    /\ up /\ Running(j) /\ cancel[j] = "none" /\ Fault
    /\ cancel' = [cancel EXCEPT ![j] = who]
    /\ UNCHANGED <<kind, rowVars, up, toSweep, call, ctl, att, stopped, heard, silent, fenced, recov, completing, histVars>>

\* The external owner refused: the outcome held back is recorded now, its fiber gone.
Refused(j) ==
    /\ up /\ HoldsBack(j)
    /\ cancel' = [cancel EXCEPT ![j] = "none"]
    /\ fenced' = [fenced EXCEPT ![j] = Nothing]
    /\ IF fenced[j] = Nothing THEN UNCHANGED <<row, att, noticed, inFiber>>
       ELSE Record(j, fenced[j].epoch, fenced[j].outcome)
    /\ UNCHANGED <<kind, fibers, told, armed, up, toSweep, call, ctl, stopped, heard, silent, recov, completing, faults, cut, overheld>>

\* The external owner confirmed: a row still running is cancelled under the epoch it
\* has now, its controller aborted and released, the outcome held back dropped.
Confirmed(j) ==
    /\ up /\ HoldsBack(j)
    /\ fenced' = [fenced EXCEPT ![j] = Nothing]
    /\ IF Running(j)
       THEN /\ row' = [row EXCEPT ![j] = Row("cancelled", @.epoch, @.resume, @.by)]
            /\ stopped' = [stopped EXCEPT ![j] = IF ctl[j] = None THEN @ ELSE @ \cup {ctl[j]}]
            /\ ctl' = [ctl EXCEPT ![j] = None]
            /\ cancel' = [cancel EXCEPT ![j] = IF @ = "cancel" THEN "wake" ELSE "none"]
       ELSE /\ cancel' = [cancel EXCEPT ![j] = "none"]
            /\ UNCHANGED <<row, stopped, ctl>>
    /\ UNCHANGED <<kind, fibers, told, armed, up, toSweep, call, att, heard, silent, recov, completing, faults, histVars>>

\* The owner's cancel wakes the agent, which was told to wait.
CancelWakes(j) ==
    /\ up /\ cancel[j] = "wake"
    /\ Wake(j)
    /\ cancel' = [cancel EXCEPT ![j] = "none"]
    /\ UNCHANGED <<kind, row, fibers, armed, up, toSweep, call, ctl, att, stopped, heard, silent, fenced, recov, completing, faults, histVars>>

\* A process's end told from outside settles the row under the epoch it has now,
\* once no cancel is deciding it or recording what it held back.
Complete(j) ==
    /\ up /\ kind[j] = "process" /\ Running(j) /\ ~HoldsBack(j)
    /\ \A e \in Epochs : att[j][e] = "keeping" => e \in fibers[j]
    /\ Settle(j, row[j].epoch, "completed")
    /\ completing' = completing \cup {j}
    /\ UNCHANGED <<kind, fibers, told, armed, up, toSweep, call, ctl, att, stopped, heard, silent, cancel, fenced, recov, faults, cut, overheld, inFiber>>

\* Its wake is sent, and the promise that waited for the end is released.
CompleteWakes(j) ==
    /\ up /\ j \in completing
    /\ Wake(j)
    /\ completing' = completing \ {j}
    /\ UNCHANGED <<kind, row, fibers, armed, up, toSweep, call, ctl, att, stopped, heard, silent, cancel, fenced, recov, faults, histVars>>

Dismiss(j) ==
    /\ up /\ row[j].status \in {"completed", "failed", "cancelled"} /\ Fault
    /\ row' = [row EXCEPT ![j] = NoRow]
    /\ UNCHANGED <<kind, fibers, told, armed, up, memVars, histVars>>

\* A Stop of the turn aborts the controller of every call still in the foreground,
\* one whose job is being made included.
StopTurn ==
    LET open == {j \in Jobs : call[j] \in {"open", "kept", "moving"}}
    IN /\ up /\ open # {} /\ Fault
       /\ stopped' = [j \in Jobs |-> stopped[j] \cup (IF j \in open THEN {0} ELSE {})]
       /\ cut' = cut \cup open
       /\ UNCHANGED <<kind, rowVars, up, toSweep, call, ctl, att, heard, silent, cancel, fenced, recov, completing, noticed, overheld, inFiber>>

-----------------------------------------------------------------------------
(* Recovery. *)

\* What a recovery read of its job, and the fiber row it carries, if any.
Recovery(lane, epoch, resume, step) ==
    [lane |-> lane, epoch |-> epoch, resume |-> resume, step |-> step]

Read(j, lane) == Recovery(lane, row[j].epoch, row[j].resume, "asking")

\* Mutant: a job this runner drives is recovered too.
RecoverDriven(j, lane) ==
    /\ recov' = [recov EXCEPT ![j] = IF Running(j) THEN @ \cup {Read(j, lane)} ELSE @]
    /\ IF row[j].status \in {"completed", "failed"} THEN Wake(j) ELSE UNCHANGED told

\* Mutant: a settled job is left alone.
RecoverUntold(j, lane) ==
    /\ recov' = [recov EXCEPT ![j] = IF ctl[j] = None /\ Running(j) THEN @ \cup {Read(j, lane)} ELSE @]
    /\ UNCHANGED told

\* Mutant: whatever a recovery finds is told.
RecoverTelling(j, lane) ==
    /\ recov' = [recov EXCEPT ![j] = IF ctl[j] = None /\ Running(j) THEN @ \cup {Read(j, lane)} ELSE @]
    /\ IF ctl[j] = None THEN Wake(j) ELSE UNCHANGED told

\* A job driven here, cancelled or gone is left alone; a settled one is told again;
\* a running one is asked whether it resumes.
Recover(j, lane) ==
    /\ recov' = [recov EXCEPT ![j] = IF ctl[j] = None /\ Running(j) THEN @ \cup {Read(j, lane)} ELSE @]
    /\ IF ctl[j] = None /\ row[j].status \in {"completed", "failed"} THEN Wake(j) ELSE UNCHANGED told

\* The start-of-life sweep, and a due pass's, reach a row that was running.
Sweep(j) ==
    /\ up /\ j \in toSweep
    /\ toSweep' = toSweep \ {j}
    /\ Recover(j, None)
    /\ UNCHANGED <<kind, row, fibers, armed, up, call, ctl, att, stopped, heard, silent, cancel, fenced, completing, faults, histVars>>

\* A fiber row a dead activation left: taken, its job recovered, and the row kept
\* until that is done.
RedriveFiber(j, e) ==
    /\ up /\ e \in fibers[j] /\ att[j][e] = "dead"
    /\ \A r \in recov[j] : r.lane # e
    /\ Recover(j, e)
    /\ IF recov'[j] = recov[j]
       THEN fibers' = [fibers EXCEPT ![j] = @ \ {e}]
       ELSE UNCHANGED fibers
    /\ UNCHANGED <<kind, row, armed, up, toSweep, call, ctl, att, stopped, heard, silent, cancel, fenced, completing, faults, histVars>>

\* A watched context unheard past the bound: its attempt is let go and its job
\* recovered.
RecoverLost(j) ==
    /\ up /\ heard[j] # None /\ heard[j] \in silent[j]
    /\ heard' = [heard EXCEPT ![j] = None]
    /\ stopped' = [stopped EXCEPT ![j] = IF ctl[j] = None THEN @ ELSE @ \cup {ctl[j]}]
    /\ ctl' = [ctl EXCEPT ![j] = None]
    /\ recov' = [recov EXCEPT ![j] = IF Running(j) THEN @ \cup {Read(j, None)} ELSE @]
    /\ IF row[j].status \in {"completed", "failed"} THEN Wake(j) ELSE UNCHANGED told
    /\ UNCHANGED <<kind, row, fibers, armed, up, toSweep, call, att, silent, cancel, fenced, completing, faults, histVars>>

\* A recovery is over; one of a fiber row lets that row go.
Recovered(j, r) ==
    /\ recov' = [recov EXCEPT ![j] = @ \ {r}]
    /\ fibers' = [fibers EXCEPT ![j] = @ \ {r.lane}]

\* The job is taken under a new epoch and driven, unless another took it meanwhile.
Take(j, r, resume) ==
    IF Owns(j, r.epoch)
    THEN /\ row' = [row EXCEPT ![j] = Row(@.status, @.epoch + 1, resume, @.by)]
         /\ Drive(j, r.epoch + 1)
    ELSE UNCHANGED <<row, ctl, att>>

\* One that resumes waits for its instant, its wake armed, or is re-driven, the
\* instant of the attempt after it written first.
Redrive(j, r) ==
    /\ up /\ kind[j] # "command" /\ r.step = "asking" /\ r.epoch < MaxEpoch
    /\ Recovered(j, r)
    /\ IF r.resume = "later" /\ row[j].resume # "due"
       THEN armed' = TRUE /\ UNCHANGED <<row, ctl, att>>
       ELSE Take(j, r, "later") /\ UNCHANGED armed
    /\ UNCHANGED <<kind, told, up, toSweep, call, stopped, heard, silent, cancel, fenced, completing, faults, histVars>>

\* One whose processes outlived the restart is watched under a new epoch.
Reattach(j, r) ==
    /\ up /\ kind[j] = "command" /\ r.step = "asking" /\ r.epoch < MaxEpoch
    /\ Recovered(j, r)
    /\ Take(j, r, "none")
    /\ UNCHANGED <<kind, told, armed, up, toSweep, call, stopped, heard, silent, cancel, fenced, completing, faults, histVars>>

\* One that cannot pick up ends with what it had produced.
GiveUp(j, r) ==
    /\ up /\ kind[j] = "command" /\ r.step = "asking"
    /\ IF Owns(j, r.epoch)
       THEN /\ \E o \in {"completed", "failed"} : Settle(j, r.epoch, o)
            /\ recov' = [recov EXCEPT ![j] = (@ \ {r}) \cup {Recovery(r.lane, r.epoch, r.resume, "telling")}]
            /\ UNCHANGED fibers
       ELSE Recovered(j, r) /\ UNCHANGED <<row, noticed>>
    /\ UNCHANGED <<kind, told, armed, up, toSweep, call, ctl, att, stopped, heard, silent, cancel, fenced, completing, faults, cut, overheld, inFiber>>

GiveUpWakes(j, r) ==
    /\ up /\ r.step = "telling"
    /\ Wake(j) /\ Recovered(j, r)
    /\ UNCHANGED <<kind, row, armed, up, toSweep, call, ctl, att, stopped, heard, silent, cancel, fenced, completing, faults, histVars>>

\* The durable wake: with nothing owed it goes; with something due every running row
\* is swept; until then it stays armed.
RecoverDue ==
    /\ up /\ armed
    /\ \/ OwedResumes = {} /\ armed' = FALSE /\ UNCHANGED toSweep
       \/ /\ \E j \in OwedResumes : row[j].resume = "due"
          /\ toSweep' = toSweep \cup {j \in Jobs : Running(j)}
          /\ UNCHANGED armed
    /\ UNCHANGED <<kind, row, fibers, told, up, call, ctl, att, stopped, heard, silent, cancel, fenced, recov, completing, faults, histVars>>

-----------------------------------------------------------------------------
(* The platform. *)

\* A deferred attempt's instant comes.
Due(j) ==
    /\ Running(j) /\ row[j].resume = "later"
    /\ row' = [row EXCEPT ![j] = Row(@.status, @.epoch, "due", @.by)]
    /\ UNCHANGED <<kind, fibers, told, armed, up, memVars, faults, histVars>>

\* A context is dropped: what runs in it says nothing in time.
GoSilent(j) ==
    /\ up /\ heard[j] # None /\ heard[j] \notin silent[j] /\ Fault
    /\ silent' = [silent EXCEPT ![j] = @ \cup {heard[j]}]
    /\ UNCHANGED <<kind, rowVars, up, toSweep, call, ctl, att, stopped, heard, cancel, fenced, recov, completing, histVars>>

Crash ==
    /\ up /\ Fault
    /\ up' = FALSE /\ toSweep' = {}
    /\ call' = [j \in Jobs |-> IF call[j] \in {"open", "kept", "moving"} THEN "lost" ELSE call[j]]
    /\ ctl' = [j \in Jobs |-> None]
    /\ att' = [j \in Jobs |-> [e \in Epochs |->
                IF att[j][e] = "none" THEN "none" ELSE IF e \in fibers[j] THEN "dead" ELSE "over"]]
    /\ stopped' = [j \in Jobs |-> {}] /\ heard' = [j \in Jobs |-> None]
    /\ silent' = [j \in Jobs |-> {}]
    /\ cancel' = [j \in Jobs |-> "none"] /\ fenced' = [j \in Jobs |-> Nothing]
    /\ recov' = [j \in Jobs |-> {}] /\ completing' = {}
    /\ cut' = {} /\ overheld' = {}
    /\ UNCHANGED <<kind, rowVars, noticed, inFiber>>

\* Mutant: only the jobs whose fiber row is left are taken up.
StartUnswept ==
    /\ ~up /\ up' = TRUE
    /\ toSweep' = {} /\ UNCHANGED armed
    /\ UNCHANGED <<kind, row, fibers, told, call, ctl, att, stopped, heard, silent, cancel, fenced, recov, completing, faults, histVars>>

\* The next activation: every running row is to be swept, and the wake armed for one.
Start ==
    /\ ~up /\ up' = TRUE
    /\ toSweep' = {j \in Jobs : Running(j)}
    /\ armed' = (armed \/ toSweep' # {})
    /\ UNCHANGED <<kind, row, fibers, told, call, ctl, att, stopped, heard, silent, cancel, fenced, recov, completing, faults, histVars>>

Next ==
    \/ \E j \in Jobs : (\E k \in Kinds : Call(j, k)) \/ AnswerInline(j) \/ Expire(j)
    \/ \E j \in Jobs, e \in Epochs : Begin(j, e) \/ Return(j, e) \/ Tell(j, e) \/ RedriveFiber(j, e)
    \/ \E j \in Jobs, e \in Epochs, o \in Outcomes : Finish(j, e, o) \/ Harvested(j, e, o)
    \/ \E j \in Jobs, who \in {"cancel", "retire"} : AskCancel(j, who)
    \/ \E j \in Jobs : Refused(j) \/ Confirmed(j) \/ CancelWakes(j) \/ Complete(j) \/ CompleteWakes(j)
    \/ \E j \in Jobs : Dismiss(j) \/ Sweep(j) \/ RecoverLost(j) \/ Due(j) \/ GoSilent(j)
    \/ \E j \in Jobs : \E r \in recov[j] : Redrive(j, r) \/ Reattach(j, r) \/ GiveUp(j, r) \/ GiveUpWakes(j, r)
    \/ StopTurn \/ RecoverDue \/ Crash \/ Start

Spec == Init /\ [][Next]_vars

-----------------------------------------------------------------------------
(* Properties. *)

Rows == [status : Statuses, epoch : Epochs, resume : Resumes, by : Epochs \cup {None}]

Held == [epoch : Epochs, outcome : Outcomes]

Recoveries == [lane : Epochs \cup {None}, epoch : Epochs, resume : Resumes, step : {"asking", "telling"}]

\* The state of the runner, its store and its fibers: statuses, epochs and phases the
\* code knows, and nothing told of a job that still runs.
TypeOK ==
    /\ kind \in [Jobs -> Kinds \cup {"none"}]
    /\ row \in [Jobs -> Rows]
    /\ fibers \in [Jobs -> SUBSET Epochs]
    /\ told \in [Jobs -> Statuses \ {"running"}] /\ armed \in BOOLEAN /\ up \in BOOLEAN
    /\ toSweep \subseteq Jobs /\ completing \subseteq Jobs /\ cut \subseteq Jobs /\ overheld \subseteq Jobs /\ inFiber \subseteq Jobs
    /\ call \in [Jobs -> {"none", "open", "kept", "moving", "handed", "inline", "lost"}]
    /\ ctl \in [Jobs -> Epochs \cup {None}] /\ heard \in [Jobs -> Epochs \cup {None}]
    /\ att \in [Jobs -> [Epochs -> Phases]]
    /\ stopped \in [Jobs -> SUBSET Epochs] /\ silent \in [Jobs -> SUBSET Epochs]
    /\ cancel \in [Jobs -> {"none", "cancel", "retire", "wake"}]
    /\ fenced \in [Jobs -> {Nothing} \cup Held]
    /\ recov \in [Jobs -> SUBSET Recoveries]
    /\ noticed \in [Jobs -> Seq(Statuses)]
    /\ faults \in 0..MaxFaults

\* A job ends once: onSettled hears of it at most once, and what it and the agent
\* were told is what the row still says, unless the owner dismissed it.
EndsOnce ==
    \A j \in Jobs :
        /\ Len(noticed[j]) <= 1
        /\ noticed[j] # <<>> => row[j].status \in {noticed[j][1], "none"}
        /\ told[j] # "none" => row[j].status \in {told[j], "none"}

\* The attempt (or recovery) that settled a job is the one that held it: one given
\* up for another, or cut off by a restart, wrote nothing.
HolderSettles ==
    \A j \in Jobs : row[j].by # None => row[j].by = row[j].epoch

\* The attempts of a job at work and not told to stop.
Working(j) == {e \in Epochs : att[j][e] \in {"starting", "begun"} /\ e \notin stopped[j]}

\* No job is at work twice.
OneAttempt == \A j \in Jobs : Cardinality(Working(j)) <= 1

\* Something will end a running job, or take it up: an attempt that still has its say,
\* a cancel holding an outcome back, a recovery in flight, the sweep, a wake armed
\* for its instant, or the next activation.
Carried(j) ==
    \/ ~up \/ j \in toSweep
    \/ \E e \in Epochs :
          \/ att[j][e] = "starting"
          \/ att[j][e] \in {"begun", "failed", "bounded"} /\ e \notin stopped[j] /\ Owns(j, e)
          \/ att[j][e] \in {"completed", "keeping"} /\ Owns(j, e)
    \/ HoldsBack(j) /\ fenced[j] # Nothing /\ Owns(j, fenced[j].epoch)
    \/ \E r \in recov[j] : Owns(j, r.epoch)
    \/ armed /\ row[j].resume # "none" /\ ctl[j] = None

\* No running job is forgotten: in a live activation, whatever sweeps, cancels, lost
\* contexts and crashes came before, every row the store calls running is carried.
\* Left out are jobs whose controller a Stop of the turn aborted (JobOutlivesStop) and
\* those whose newer held outcome an older attempt's replaced.
RunningIsCarried == \A j \in Jobs : Running(j) /\ j \notin cut \cup overheld => Carried(j)

\* A Stop of the turn (cancelCurrentWork) forgets none either. read-models/background-jobs.ts
\* says of it: "detached jobs outlive their turn and stop only through
\* {@link cancelBackgroundJob} by id".
JobOutlivesStop == \A j \in Jobs : Running(j) => Carried(j)

\* An attempt that settles its job in its own fiber leaves that fiber's row, whatever
\* crash comes first, until its agent is told.
SettledIsTold ==
    \A j \in inFiber :
        row[j].status # "none" /\ told[j] = "none" =>
            \E e \in fibers[j] : att[j][e] \in {"telling", "dead"}

=============================================================================
