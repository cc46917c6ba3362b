------------------------ MODULE BackgroundJobsProofs ------------------------
(***************************************************************************)
(* What a background job's epoch, controller and fiber rows give, for any  *)
(* number of jobs, recoveries and faults.                                  *)
(***************************************************************************)
EXTENDS BackgroundJobs, FiniteSetTheorems, TLAPS

\* A call that is no job yet has left no trace.
Unmade(j) ==
    call[j] \in {"none", "open", "kept", "inline"} =>
        /\ row[j] = NoRow /\ told[j] = "none" /\ noticed[j] = <<>>
        /\ ctl[j] = None /\ fenced[j] = Nothing /\ cancel[j] = "none"
        /\ recov[j] = {} /\ fibers[j] = {} /\ j \notin completing /\ j \notin inFiber
        /\ \A e \in Epochs : att[j][e] = "none"
        /\ \A e \in stopped[j] : e = 0 /\ j \in cut

\* A running job was settled by nobody and nobody was told of it; whoever is about
\* to tell knows it settled.
Unsettled(j) ==
    Running(j) =>
        /\ row[j].by = None /\ noticed[j] = <<>> /\ told[j] = "none"
        /\ cancel[j] # "wake" /\ j \notin completing /\ j \notin inFiber
        /\ \A e \in Epochs : att[j][e] # "telling"
        /\ \A r \in recov[j] : r.step = "asking"

\* A job settled was settled under the epoch it has, and told as it is.
Settled(j) ==
    /\ row[j].by # None => row[j].by = row[j].epoch
    /\ Len(noticed[j]) <= 1
    /\ noticed[j] # <<>> => row[j].status \in {noticed[j][1], "none"}
    /\ told[j] # "none" => row[j].status \in {told[j], "none"}

\* Epochs above the row's were never tried.
Untried(j) ==
    row[j].status # "none" =>
        \A e \in Epochs : e > row[j].epoch => att[j][e] = "none" /\ e \notin stopped[j]

\* The controller stops the newest attempt, which has not been returned from; an attempt
\* at work and not told to stop has the controller.
Controls(j) ==
    /\ ctl[j] # None =>
          /\ att[j][ctl[j]] \in {"starting", "begun", "completed", "failed", "bounded"}
          /\ Running(j) => ctl[j] = row[j].epoch
          /\ ctl[j] \in stopped[j] => j \in cut
    /\ \A e \in Epochs : att[j][e] \in {"starting", "begun"} /\ e \notin stopped[j] => ctl[j] = e

\* A recovery that may still take its job found it driven by nobody, and nobody drives
\* it since.
Recovering(j) ==
    \A r \in recov[j] :
        /\ Owns(j, r.epoch) => ctl[j] = None /\ (r.resume # "none" => row[j].resume # "none")
        /\ row[j].status # "none" => r.epoch <= row[j].epoch
        /\ r.lane # None => att[j][r.lane] = "dead"

\* A fiber row is there only while its attempt is; what a cancel holds back is of an
\* attempt that is over.
Fibered(j) ==
    /\ \A e \in fibers[j] : att[j][e] \notin {"none", "starting", "over"}
    /\ fenced[j] # Nothing => att[j][fenced[j].epoch] = "over"

\* A job settled in its fiber and not told has a fiber row that no recovery from before
\* the settle will take away.
ToldLater(j) ==
    j \in inFiber =>
        /\ ctl[j] = None /\ row[j].status # "cancelled"
        /\ row[j].status # "none" /\ told[j] = "none" =>
              \E e \in fibers[j] :
                  \/ att[j][e] = "telling"
                  \/ att[j][e] = "dead" /\ \A r \in recov[j] : r.lane # e

\* Who will end a running job or take it up, as Carried says, an attempt that starts
\* being the one that holds the job.
Borne(j) ==
    \/ ~up \/ j \in toSweep
    \/ \E e \in Epochs : /\ Owns(j, e)
                         /\ \/ att[j][e] \in {"starting", "begun", "failed", "bounded"} /\ e \notin stopped[j]
                            \/ att[j][e] \in {"completed", "keeping"}
    \/ HoldsBack(j) /\ fenced[j] # Nothing /\ Owns(j, fenced[j].epoch)
    \/ \E r \in recov[j] : Owns(j, r.epoch)
    \/ armed /\ row[j].resume # "none" /\ ctl[j] = None

Kept(j) == Running(j) /\ j \notin cut \cup overheld => Borne(j)

JobInv(j) ==
    /\ Unmade(j) /\ Unsettled(j) /\ Settled(j) /\ Untried(j) /\ Controls(j)
    /\ Recovering(j) /\ Fibered(j) /\ ToldLater(j) /\ Kept(j)

IInv == TypeOK /\ \A j \in Jobs : JobInv(j)

\* TypeOK, of one job.
JobTyped(j) ==
    /\ row[j] \in Rows /\ fibers[j] \subseteq Epochs /\ told[j] \in Statuses \ {"running"}
    /\ ctl[j] \in Epochs \cup {None} /\ att[j] \in [Epochs -> Phases] /\ stopped[j] \subseteq Epochs
    /\ cancel[j] \in {"none", "cancel", "retire", "wake"} /\ fenced[j] \in {Nothing} \cup Held
    /\ recov[j] \subseteq Recoveries /\ noticed[j] \in Seq(Statuses) /\ heard[j] \in Epochs \cup {None}
    /\ up \in BOOLEAN /\ armed \in BOOLEAN

\* What an action on another job leaves of a job.
Same(k) ==
    /\ row'[k] = row[k] /\ told'[k] = told[k] /\ noticed'[k] = noticed[k] /\ ctl'[k] = ctl[k]
    /\ fenced'[k] = fenced[k] /\ cancel'[k] = cancel[k] /\ recov'[k] = recov[k] /\ fibers'[k] = fibers[k]
    /\ att'[k] = att[k] /\ stopped'[k] = stopped[k] /\ call'[k] = call[k]
    /\ k \in completing' <=> k \in completing
    /\ k \in inFiber' <=> k \in inFiber
    /\ k \in cut' <=> k \in cut
    /\ k \in overheld' <=> k \in overheld
    /\ k \in toSweep' <=> k \in toSweep
    /\ up' = up /\ (armed => armed')

LEMMA SameKeeps ==
    ASSUME NEW k \in Jobs, JobInv(k), Same(k)
    PROVE  JobInv(k)'
<1>1. Unmade(k)' /\ Unsettled(k)' /\ Settled(k)'
    BY DEF JobInv, Same, Unmade, Unsettled, Settled, Running
<1>2. Untried(k)' /\ Controls(k)' /\ Recovering(k)'
    BY DEF JobInv, Same, Untried, Controls, Recovering, Owns, Running
<1>3. Fibered(k)' /\ ToldLater(k)'
    BY DEF JobInv, Same, Fibered, ToldLater
<1>4. Kept(k)'
    BY DEF JobInv, Same, Kept, Borne, Running, Owns, HoldsBack
<1>. QED BY <1>1, <1>2, <1>3, <1>4 DEF JobInv

-----------------------------------------------------------------------------
(* What the operators the actions are built of keep of the types. *)

LEMMA EpochsTyped == 0 \in Epochs /\ None \notin Epochs
BY JobsAssumption DEF Epochs, None

LEMMA SettleTyped ==
    ASSUME TypeOK, NEW j \in Jobs, NEW e \in Epochs, NEW s \in Statuses, Settle(j, e, s)
    PROVE  row' \in [Jobs -> Rows] /\ noticed' \in [Jobs -> Seq(Statuses)]
<1>1. row[j] \in Rows
    BY DEF TypeOK
<1>2. Row(s, row[j].epoch, row[j].resume, e) \in Rows
    BY <1>1 DEF Row, Rows
<1>3. row' = [row EXCEPT ![j] = Row(s, row[j].epoch, row[j].resume, e)]
    BY DEF Settle
<1>4. row' \in [Jobs -> Rows]
    BY <1>2, <1>3 DEF TypeOK
<1>5. noticed' \in [Jobs -> Seq(Statuses)]
    BY DEF Settle, TypeOK
<1>. QED BY <1>4, <1>5

LEMMA PhaseTyped ==
    ASSUME TypeOK, NEW j \in Jobs, NEW e \in Epochs, NEW p \in Phases, att' = [att EXCEPT ![j][e] = p]
    PROVE  att' \in [Jobs -> [Epochs -> Phases]]
BY DEF TypeOK

LEMMA RecordTyped ==
    ASSUME TypeOK, NEW j \in Jobs, NEW e \in Epochs, NEW o \in Outcomes, Record(j, e, o)
    PROVE  /\ row' \in [Jobs -> Rows] /\ noticed' \in [Jobs -> Seq(Statuses)]
           /\ att' \in [Jobs -> [Epochs -> Phases]] /\ inFiber' \subseteq Jobs
<1>1. att' \in [Jobs -> [Epochs -> Phases]]
  <2>1. PICK p \in {"keeping", "telling", "over"} : att' = [att EXCEPT ![j][e] = p]
      BY DEF Record
  <2>2. p \in Phases
      BY DEF Phases
  <2>. QED BY <2>1, <2>2, PhaseTyped
<1>2. inFiber' \subseteq Jobs
    BY DEF Record, TypeOK
<1>3. CASE UNCHANGED <<row, noticed>>
    BY <1>1, <1>2, <1>3 DEF TypeOK
<1>4. CASE Settle(j, e, o) /\ o # "bounded"
  <2>1. o \in Statuses
      BY <1>4 DEF Outcomes, Statuses
  <2>. QED BY <1>1, <1>2, <1>4, <2>1, SettleTyped
<1>. QED BY <1>3, <1>4 DEF Record

\* What a record leaves: the attempt kept for its harvest, the job settled, or the
\* write refused.
LEMMA RecordSays ==
    ASSUME TypeOK, NEW j \in Jobs, NEW e \in Epochs, NEW o \in Outcomes, Record(j, e, o)
    PROVE  /\ \A d \in Epochs : d # e => att'[j][d] = att[j][d]
           /\ \/ /\ row' = row /\ inFiber' = inFiber /\ att'[j][e] \in {"keeping", "over"}
                 /\ Owns(j, e) => att'[j][e] = "keeping"
              \/ /\ Owns(j, e) /\ att'[j][e] = "telling" /\ o \in {"completed", "failed"}
                 /\ row'[j].status = o /\ row'[j].epoch = row[j].epoch
                 /\ inFiber' = IF e \in fibers[j] THEN inFiber \cup {j} ELSE inFiber
<1>1. PICK p : att' = [att EXCEPT ![j][e] = p]
    BY DEF Record
<1>2. att'[j][e] = p /\ \A d \in Epochs : d # e => att'[j][d] = att[j][d]
    BY <1>1 DEF TypeOK
<1>3. CASE o = "bounded"
    BY <1>2, <1>3 DEF Record, TypeOK
<1>4. CASE o # "bounded" /\ Owns(j, e)
  <2>1. Settle(j, e, o) /\ inFiber' = IF e \in fibers[j] THEN inFiber \cup {j} ELSE inFiber
      BY <1>4 DEF Record
  <2>2. row'[j] = Row(o, row[j].epoch, row[j].resume, e)
      BY <2>1 DEF Settle, TypeOK
  <2>3. att'[j][e] = "telling"
      BY <1>4 DEF Record, TypeOK
  <2>. QED BY <1>2, <1>4, <2>1, <2>2, <2>3 DEF Row, Outcomes
<1>5. CASE o # "bounded" /\ ~Owns(j, e)
    BY <1>2, <1>5 DEF Record, TypeOK
<1>. QED BY <1>3, <1>4, <1>5

\* An attempt that is not dead moves on, and its job at most settles: recoveries are as
\* they were.
LEMMA RecoveringKept ==
    ASSUME TypeOK, NEW j \in Jobs, Recovering(j), NEW e \in Epochs, att[j][e] # "dead",
           \A d \in Epochs : d # e => att'[j][d] = att[j][d],
           ctl'[j] \in {ctl[j], None}, recov'[j] = recov[j],
           \/ row'[j] = row[j]
           \/ row[j].status = "running" /\ row'[j].status \in {"completed", "failed"} /\ row'[j].epoch = row[j].epoch
    PROVE  Recovering(j)'
<1>. SUFFICES ASSUME NEW r \in recov[j]
              PROVE  /\ Owns(j, r.epoch)' => ctl'[j] = None /\ (r.resume # "none" => row'[j].resume # "none")
                     /\ row'[j].status # "none" => r.epoch <= row'[j].epoch
                     /\ r.lane # None => att'[j][r.lane] = "dead"
    BY DEF Recovering
<1>1. r.lane # None => r.lane \in Epochs /\ r.lane # e /\ att[j][r.lane] = "dead"
    BY DEF Recovering, TypeOK, Recoveries
<1>2. Owns(j, r.epoch)' => Owns(j, r.epoch) /\ row'[j] = row[j]
    BY DEF Owns, Running
<1>. QED BY <1>1, <1>2 DEF Recovering

\* The fiber row that will tell of a job stays while another attempt moves on.
LEMMA ToldLaterKept ==
    ASSUME TypeOK, NEW j \in Jobs, ToldLater(j), j \in inFiber, NEW e \in Epochs, att[j][e] \notin {"telling", "dead"},
           \A d \in Epochs : d # e => att'[j][d] = att[j][d],
           ctl'[j] \in {ctl[j], None}, recov'[j] = recov[j], row'[j] = row[j], told'[j] = told[j],
           fibers[j] \ {e} \subseteq fibers'[j]
    PROVE  ToldLater(j)'
<1>1. ASSUME NEW d \in fibers[j], att[j][d] \in {"telling", "dead"} PROVE d \in fibers'[j] /\ att'[j][d] = att[j][d]
    BY <1>1 DEF TypeOK
<1>. QED BY <1>1 DEF ToldLater

LEMMA FiberEndsTyped ==
    ASSUME TypeOK, NEW j \in Jobs, NEW e \in Epochs, FiberEnds(j, e)
    PROVE  fibers' \in [Jobs -> SUBSET Epochs] /\ heard' \in [Jobs -> Epochs \cup {None}]
BY DEF FiberEnds, TypeOK

LEMMA WakeTyped ==
    ASSUME TypeOK, NEW j \in Jobs, ~Running(j), Wake(j)
    PROVE  told' \in [Jobs -> Statuses \ {"running"}]
<1>1. row[j].status \in Statuses
    BY DEF TypeOK, Rows
<1>. QED BY <1>1 DEF TypeOK, Wake, Running

LEMMA ReadTyped ==
    ASSUME TypeOK, NEW j \in Jobs, NEW lane \in Epochs \cup {None}
    PROVE  Read(j, lane) \in Recoveries
BY DEF TypeOK, Rows, Read, Recovery, Recoveries

LEMMA RecoverTyped ==
    ASSUME TypeOK, NEW j \in Jobs, NEW lane \in Epochs \cup {None}, Recover(j, lane)
    PROVE  recov' \in [Jobs -> SUBSET Recoveries] /\ told' \in [Jobs -> Statuses \ {"running"}]
<1>1. recov' \in [Jobs -> SUBSET Recoveries]
    BY ReadTyped DEF Recover, TypeOK
<1>2. CASE UNCHANGED told
    BY <1>1, <1>2 DEF TypeOK
<1>3. CASE row[j].status \in {"completed", "failed"} /\ Wake(j)
  <2>1. ~Running(j)
      BY <1>3 DEF Running
  <2>. QED BY <1>1, <1>3, <2>1, WakeTyped
<1>. QED BY <1>2, <1>3 DEF Recover

LEMMA RecoveredTyped ==
    ASSUME TypeOK, NEW j \in Jobs, NEW r, Recovered(j, r)
    PROVE  recov' \in [Jobs -> SUBSET Recoveries] /\ fibers' \in [Jobs -> SUBSET Epochs]
BY DEF Recovered, TypeOK

LEMMA TakeTyped ==
    ASSUME TypeOK, NEW j \in Jobs, NEW r \in Recoveries, r.epoch < MaxEpoch,
           NEW resume \in Resumes, Take(j, r, resume)
    PROVE  /\ row' \in [Jobs -> Rows] /\ ctl' \in [Jobs -> Epochs \cup {None}]
           /\ att' \in [Jobs -> [Epochs -> Phases]]
<1>1. r.epoch \in Epochs /\ r.epoch + 1 \in Epochs
    BY JobsAssumption DEF Recoveries, Epochs
<1>2. CASE UNCHANGED <<row, ctl, att>>
    BY <1>2 DEF TypeOK
<1>3. CASE Owns(j, r.epoch)
  <2>1. row' = [row EXCEPT ![j] = Row(row[j].status, r.epoch + 1, resume, row[j].by)]
      BY <1>3 DEF Take, Owns
  <2>2. Row(row[j].status, r.epoch + 1, resume, row[j].by) \in Rows
      BY <1>1 DEF TypeOK, Row, Rows
  <2>3. row' \in [Jobs -> Rows]
      BY <2>1, <2>2 DEF TypeOK
  <2>4. Drive(j, r.epoch + 1)
      BY <1>3 DEF Take
  <2>5. ctl' \in [Jobs -> Epochs \cup {None}]
      BY <1>1, <2>4 DEF Drive, TypeOK
  <2>6. att' \in [Jobs -> [Epochs -> Phases]]
      BY <1>1, <2>4, PhaseTyped DEF Drive, Phases
  <2>. QED BY <2>3, <2>5, <2>6
<1>. QED BY <1>2, <1>3 DEF Take

LEMMA CallPreserves ==
    ASSUME IInv, NEW j \in Jobs, NEW c \in Kinds, Call(j, c)
    PROVE  IInv'
<1>. TypeOK /\ JobInv(j)
    BY DEF IInv
<1>1. TypeOK'
    BY JobsAssumption DEF TypeOK, Call, rowVars, histVars
<1>2. JobInv(j)'
  <2>1. Unmade(j)' /\ Unsettled(j)' /\ Settled(j)' /\ Untried(j)' /\ Controls(j)' /\ Recovering(j)' /\ Fibered(j)' /\ ToldLater(j)' /\ Kept(j)'
      BY DEF JobInv, Unmade, Unsettled, Running, Settled, Untried, Controls, Recovering, Owns, Fibered, ToldLater, Kept, Borne, HoldsBack, Call, rowVars, histVars
  <2>. QED BY <2>1 DEF JobInv
<1>3. ASSUME NEW k \in Jobs, k # j PROVE JobInv(k)'
  <2>1. Same(k)
      BY <1>3 DEF TypeOK, Same, Call, rowVars, histVars
  <2>. QED BY <2>1, SameKeeps DEF IInv
<1>. QED BY <1>1, <1>2, <1>3 DEF IInv

LEMMA AnswerInlinePreserves ==
    ASSUME IInv, NEW j \in Jobs, AnswerInline(j)
    PROVE  IInv'
<1>. TypeOK /\ JobInv(j)
    BY DEF IInv
<1>1. TypeOK'
    BY JobsAssumption DEF TypeOK, AnswerInline, rowVars, histVars
<1>2. JobInv(j)'
  <2>1. Unmade(j)' /\ Unsettled(j)' /\ Settled(j)' /\ Untried(j)' /\ Controls(j)' /\ Recovering(j)' /\ Fibered(j)' /\ ToldLater(j)' /\ Kept(j)'
      BY DEF JobInv, Unmade, Unsettled, Running, Settled, Untried, Controls, Recovering, Owns, Fibered, ToldLater, Kept, Borne, HoldsBack, AnswerInline, rowVars, histVars
  <2>. QED BY <2>1 DEF JobInv
<1>3. ASSUME NEW k \in Jobs, k # j PROVE JobInv(k)'
  <2>1. Same(k)
      BY <1>3 DEF TypeOK, Same, AnswerInline, rowVars, histVars
  <2>. QED BY <2>1, SameKeeps DEF IInv
<1>. QED BY <1>1, <1>2, <1>3 DEF IInv

LEMMA ExpirePreserves ==
    ASSUME IInv, NEW j \in Jobs, Expire(j)
    PROVE  IInv'
<1>. TypeOK /\ JobInv(j)
    BY DEF IInv
<1>1. TypeOK'
  <2>1. row' \in [Jobs -> Rows]
    <3>1. CASE UNCHANGED row
        BY <3>1 DEF TypeOK
    <3>2. CASE row' = [row EXCEPT ![j] = NewRow]
        BY <3>2, JobsAssumption DEF TypeOK, NewRow, Row, Rows, Statuses, Epochs, Resumes, None
    <3>. QED BY <3>1, <3>2 DEF Expire
  <2>2. att' \in [Jobs -> [Epochs -> Phases]]
    <3>1. CASE UNCHANGED att
        BY <3>1 DEF TypeOK
    <3>2. CASE att' = [att EXCEPT ![j][0] = "starting"]
        BY <3>2, EpochsTyped, PhaseTyped DEF Phases
    <3>. QED BY <3>1, <3>2 DEF Expire, Drive
  <2>3. ctl' \in [Jobs -> Epochs \cup {None}]
    <3>1. CASE UNCHANGED ctl
        BY <3>1 DEF TypeOK
    <3>2. CASE ctl' = [ctl EXCEPT ![j] = 0]
        BY <3>2, EpochsTyped DEF TypeOK
    <3>. QED BY <3>1, <3>2 DEF Expire, Drive
  <2>4. call' \in [Jobs -> {"none", "open", "kept", "moving", "handed", "inline", "lost"}]
    <3>1. PICK x \in {"kept", "moving"} : call' = [call EXCEPT ![j] = x]
        BY DEF Expire
    <3>. QED BY <3>1 DEF TypeOK
  <2>5. UNCHANGED <<kind, fibers, told, armed, up, toSweep, stopped, heard, silent, cancel, fenced, recov, completing, faults, histVars>>
      BY DEF Expire
  <2>. QED BY <2>1, <2>2, <2>3, <2>4, <2>5 DEF TypeOK, histVars
<1>2. JobInv(j)'
  <2>1. Unmade(j)'
      BY <1>1 DEF TypeOK, JobInv, Unmade, Row, NoRow, Nothing, Expire, Drive, NewRow, histVars
  <2>2. Unsettled(j)'
    <3>1. /\ row[j] = NoRow /\ told[j] = "none" /\ noticed[j] = <<>> /\ cancel[j] = "none"
          /\ recov[j] = {} /\ j \notin completing /\ j \notin inFiber
          /\ \A d \in Epochs : att[j][d] = "none"
        BY DEF JobInv, Unmade, Expire
    <3>2. row'[j] = row[j] \/ row'[j] = NewRow
        BY DEF TypeOK, Expire
    <3>3. \A d \in Epochs : att'[j][d] # "telling"
      <4>1. CASE UNCHANGED att
          BY <3>1, <4>1
      <4>2. CASE att' = [att EXCEPT ![j][0] = "starting"]
          BY <3>1, <4>2 DEF TypeOK
      <4>. QED BY <4>1, <4>2 DEF Expire, Drive
    <3>. QED BY <3>1, <3>2, <3>3 DEF Unsettled, Running, NoRow, NewRow, Row, Expire, histVars
  <2>3. Settled(j)'
      BY <1>1 DEF TypeOK, JobInv, Unmade, Settled, Unsettled, Running, Owns, NoRow, Row, Rows, Epochs, None, Expire, Drive, NewRow, histVars
  <2>4. Untried(j)'
      BY <1>1, JobsAssumption DEF TypeOK, JobInv, Unmade, Untried, Controls, Running, Owns, NoRow, Row, Recovery, Epochs, None, Rows, Statuses, Outcomes, Resumes, Phases, Held, Recoveries, Expire, Drive, NewRow, histVars
  <2>5. Controls(j)'
      BY <1>1, JobsAssumption DEF TypeOK, JobInv, Unmade, Untried, Controls, Recovering, Fibered, Running, Owns, NoRow, Row, Recovery, Epochs, None, Rows, Statuses, Outcomes, Resumes, Phases, Held, Recoveries, Expire, Drive, NewRow, histVars
  <2>6. Recovering(j)'
      BY <1>1 DEF TypeOK, JobInv, Unmade, Untried, Unsettled, Controls, Recovering, Fibered, Running, Owns, NoRow, Expire, Drive, NewRow, histVars
  <2>7. Fibered(j)'
      BY <1>1 DEF TypeOK, JobInv, Unmade, Untried, Fibered, Running, Owns, NoRow, Nothing, Expire, Drive, NewRow, histVars
  <2>8. ToldLater(j)'
      BY <1>1 DEF TypeOK, JobInv, Unmade, ToldLater, Unsettled, Untried, Controls, Recovering, Fibered, Running, Owns, NoRow, Expire, Drive, NewRow, histVars
  <2>9. Kept(j)'
      BY <1>1, JobsAssumption DEF TypeOK, JobInv, Unmade, Unsettled, Untried, Kept, Borne, Controls, Recovering, Fibered, Running, Owns, HoldsBack, NoRow, Nothing, Row, Recovery, Epochs, None, Rows, Statuses, Outcomes, Resumes, Phases, Held, Recoveries, Expire, Drive, NewRow, histVars
  <2>. QED BY <2>1, <2>2, <2>3, <2>4, <2>5, <2>6, <2>7, <2>8, <2>9 DEF JobInv
<1>3. ASSUME NEW k \in Jobs, k # j PROVE JobInv(k)'
  <2>1. Same(k)
      BY <1>3 DEF TypeOK, Same, Expire, Drive, NewRow, histVars
  <2>. QED BY <2>1, SameKeeps DEF IInv
<1>. QED BY <1>1, <1>2, <1>3 DEF IInv

LEMMA BeginPreserves ==
    ASSUME IInv, NEW j \in Jobs, NEW e \in Epochs, Begin(j, e)
    PROVE  IInv'
<1>. TypeOK /\ JobInv(j)
    BY DEF IInv
<1>1. TypeOK'
  <2>1. att' \in [Jobs -> [Epochs -> Phases]]
    <3>1. PICK p \in {"over", "begun", "loose"} : att' = [att EXCEPT ![j][e] = p]
        BY DEF Begin
    <3>. QED BY <3>1, PhaseTyped DEF Phases
  <2>2. ctl' \in [Jobs -> Epochs \cup {None}]
    <3>1. PICK x \in Epochs \cup {None} : ctl' = [ctl EXCEPT ![j] = x] \/ ctl' = ctl
        BY DEF TypeOK, Begin
    <3>. QED BY <3>1 DEF TypeOK
  <2>3. fibers' \in [Jobs -> SUBSET Epochs]
    <3>1. CASE UNCHANGED fibers
        BY <3>1 DEF TypeOK
    <3>2. CASE fibers' = [fibers EXCEPT ![j] = @ \cup {e}]
        BY <3>2 DEF TypeOK
    <3>. QED BY <3>1, <3>2 DEF Begin
  <2>4. heard' \in [Jobs -> Epochs \cup {None}]
    <3>1. heard' = heard \/ heard' = [heard EXCEPT ![j] = e]
        BY DEF Begin
    <3>. QED BY <3>1 DEF TypeOK
  <2>. QED BY <2>1, <2>2, <2>3, <2>4, JobsAssumption DEF TypeOK, Begin, histVars
<1>2. JobInv(j)'
  <2>1. Unmade(j)' /\ Settled(j)'
      BY DEF JobInv, Unmade, Settled, Begin, histVars
  <2>2. Unsettled(j)' /\ Untried(j)' /\ Controls(j)'
      BY <1>1 DEF TypeOK, JobInv, Unsettled, Running, Untried, Controls, Row, NoRow, Nothing, Begin, histVars
  <2>3. Recovering(j)'
      BY <1>1, JobsAssumption DEF TypeOK, JobInv, Unmade, Untried, Unsettled, Controls, Recovering, Fibered, Running, Owns, NoRow, Row, Recovery, Epochs, None, Rows, Statuses, Outcomes, Resumes, Phases, Held, Recoveries, Begin, histVars
  <2>4. Fibered(j)'
    <3>1. fibers[j] \subseteq Epochs /\ e \notin fibers[j]
        BY DEF TypeOK, JobInv, Fibered, Begin
    <3>2. \A d \in fibers'[j] : att'[j][d] \notin {"none", "starting", "over"}
      <4>1. CASE fibers' = fibers
          BY <3>1, <4>1 DEF TypeOK, JobInv, Fibered, Begin
      <4>2. CASE /\ fibers' = [fibers EXCEPT ![j] = @ \cup {e}]
                 /\ att' = [att EXCEPT ![j][e] = IF ctl[j] = e THEN "begun" ELSE "loose"]
          BY <3>1, <4>2 DEF TypeOK, JobInv, Fibered
      <4>. QED BY <4>1, <4>2 DEF Begin
    <3>3. fenced[j] # Nothing => fenced[j].epoch \in Epochs /\ fenced[j].epoch # e
        BY DEF TypeOK, Held, JobInv, Fibered, Begin
    <3>. QED BY <3>2, <3>3 DEF TypeOK, JobInv, Fibered, Begin
  <2>5. ToldLater(j)'
      BY <1>1, JobsAssumption DEF TypeOK, JobInv, Unmade, ToldLater, Unsettled, Untried, Controls, Recovering, Fibered, Running, Owns, NoRow, Row, Recovery, Epochs, None, Rows, Statuses, Outcomes, Resumes, Phases, Held, Recoveries, Begin, histVars
  <2>6. Kept(j)'
      BY <1>1 DEF TypeOK, JobInv, Unmade, Unsettled, Untried, Kept, Borne, Controls, Recovering, Fibered, Running, Owns, HoldsBack, NoRow, Nothing, Begin, histVars
  <2>. QED BY <2>1, <2>2, <2>3, <2>4, <2>5, <2>6 DEF JobInv
<1>3. ASSUME NEW k \in Jobs, k # j PROVE JobInv(k)'
  <2>1. Same(k)
      BY <1>3 DEF TypeOK, Same, Begin, histVars
  <2>. QED BY <2>1, SameKeeps DEF IInv
<1>. QED BY <1>1, <1>2, <1>3 DEF IInv

LEMMA FinishPreserves ==
    ASSUME IInv, NEW j \in Jobs, NEW e \in Epochs, NEW o \in Outcomes, Finish(j, e, o)
    PROVE  IInv'
<1>. TypeOK /\ JobInv(j)
    BY DEF IInv
<1>1. TypeOK'
  <2>1. att' \in [Jobs -> [Epochs -> Phases]]
      BY DEF TypeOK, Phases, Outcomes, Finish
  <2>. QED BY <2>1, JobsAssumption DEF TypeOK, Finish, rowVars, histVars
<1>2. JobInv(j)'
  <2>1. Unmade(j)' /\ Settled(j)' /\ Untried(j)' /\ Recovering(j)' /\ ToldLater(j)'
      BY DEF JobInv, Unmade, Settled, Untried, Recovering, Owns, Running, ToldLater, Finish, rowVars, histVars
  <2>2. Unsettled(j)'
      BY <1>1, JobsAssumption DEF TypeOK, JobInv, Unmade, Unsettled, Running, NoRow, Row, Recovery, Epochs, None, Rows, Statuses, Outcomes, Resumes, Phases, Held, Recoveries, Finish, rowVars, histVars
  <2>3. Controls(j)'
      BY <1>1, JobsAssumption DEF TypeOK, JobInv, Unmade, Untried, Controls, Recovering, Fibered, Running, Owns, NoRow, Row, Recovery, Epochs, None, Rows, Statuses, Outcomes, Resumes, Phases, Held, Recoveries, Finish, rowVars, histVars
  <2>4. Fibered(j)'
      BY <1>1, JobsAssumption DEF TypeOK, JobInv, Unmade, Untried, Fibered, Running, Owns, NoRow, Nothing, Row, Recovery, Epochs, None, Rows, Statuses, Outcomes, Resumes, Phases, Held, Recoveries, Finish, rowVars, histVars
  <2>5. Kept(j)'
      BY <1>1, JobsAssumption DEF TypeOK, JobInv, Unmade, Unsettled, Untried, Kept, Borne, Controls, Recovering, Fibered, Running, Owns, HoldsBack, NoRow, Nothing, Row, Recovery, Epochs, None, Rows, Statuses, Outcomes, Resumes, Phases, Held, Recoveries, Finish, rowVars, histVars
  <2>. QED BY <2>1, <2>2, <2>3, <2>4, <2>5 DEF JobInv
<1>3. ASSUME NEW k \in Jobs, k # j PROVE JobInv(k)'
  <2>1. Same(k)
      BY <1>3 DEF TypeOK, Same, Finish, rowVars, histVars
  <2>. QED BY <2>1, SameKeeps DEF IInv
<1>. QED BY <1>1, <1>2, <1>3 DEF IInv

LEMMA ReturnPreserves ==
    ASSUME IInv, NEW j \in Jobs, NEW e \in Epochs, Return(j, e)
    PROVE  IInv'
<1>. TypeOK /\ JobInv(j)
    BY DEF IInv
<1>1. TypeOK'
  <2>1. /\ row' \in [Jobs -> Rows] /\ noticed' \in [Jobs -> Seq(Statuses)]
        /\ att' \in [Jobs -> [Epochs -> Phases]] /\ inFiber' \subseteq Jobs
    <3>1. CASE att' = [att EXCEPT ![j][e] = "over"] /\ UNCHANGED <<row, noticed, inFiber>>
        BY <3>1, PhaseTyped DEF TypeOK, Phases
    <3>2. CASE att[j][e] \in Outcomes /\ Record(j, e, att[j][e])
        BY <3>2, RecordTyped
    <3>. QED BY <3>1, <3>2 DEF Return, Outcomes
  <2>2. ctl' \in [Jobs -> Epochs \cup {None}]
      BY DEF TypeOK, Return
  <2>3. fibers' \in [Jobs -> SUBSET Epochs] /\ heard' \in [Jobs -> Epochs \cup {None}]
    <3>1. CASE FiberEnds(j, e)
        BY <3>1, FiberEndsTyped
    <3>2. CASE UNCHANGED <<fibers, heard>>
        BY <3>2 DEF TypeOK
    <3>. QED BY <3>1, <3>2 DEF Return
  <2>4. fenced' \in [Jobs -> {Nothing} \cup Held]
    <3>1. CASE UNCHANGED fenced
        BY <3>1 DEF TypeOK
    <3>2. CASE /\ att[j][e] \in {"completed", "failed", "bounded"}
               /\ fenced' = [fenced EXCEPT ![j] = [epoch |-> e, outcome |-> att[j][e]]]
      <4>1. [epoch |-> e, outcome |-> att[j][e]] \in Held
          BY <3>2 DEF Held, Outcomes
      <4>. QED BY <3>2, <4>1 DEF TypeOK
    <3>. QED BY <3>1, <3>2 DEF Return
  <2>. QED BY <2>1, <2>2, <2>3, <2>4, JobsAssumption DEF TypeOK, Return, Record, Settle, FiberEnds
<1>a. /\ att[j][e] # "dead" /\ ctl'[j] \in {ctl[j], None}
      /\ \A d \in Epochs : d # e => att'[j][d] = att[j][d]
      /\ \/ row'[j] = row[j]
         \/ row[j].status = "running" /\ row'[j].status \in {"completed", "failed"} /\ row'[j].epoch = row[j].epoch
  <2>1. att[j][e] # "dead" /\ ctl'[j] \in {ctl[j], None}
      BY DEF Return, TypeOK
  <2>2. CASE att' = [att EXCEPT ![j][e] = "over"] /\ UNCHANGED row
      BY <2>1, <2>2 DEF TypeOK
  <2>3. CASE att[j][e] \in Outcomes /\ Record(j, e, att[j][e])
      BY <2>1, <2>3, RecordSays DEF Owns, Running
  <2>. QED BY <2>2, <2>3 DEF Return, Outcomes
<1>2. JobInv(j)'
  <2>1. Unmade(j)'
      BY DEF JobInv, Unmade, Return, Record, Settle, FiberEnds
  <2>2. Unsettled(j)' /\ Controls(j)'
      BY <1>1 DEF TypeOK, JobInv, Unsettled, Running, Controls, Row, NoRow, Nothing, Return, Record, Settle, FiberEnds
  <2>3. Settled(j)'
      BY <1>1 DEF TypeOK, JobInv, Unmade, Settled, Unsettled, Running, Owns, NoRow, Row, Rows, Epochs, None, Return, Record, Settle, FiberEnds
  <2>4. Untried(j)'
      BY <1>1, JobsAssumption DEF TypeOK, JobInv, Unmade, Untried, Controls, Running, Owns, NoRow, Row, Recovery, Epochs, None, Rows, Statuses, Outcomes, Resumes, Phases, Held, Recoveries, Return, Record, Settle, FiberEnds
  <2>5. Recovering(j)'
      BY <1>a, RecoveringKept DEF JobInv, Return
  <2>6. Fibered(j)'
    <3>1. fibers'[j] \subseteq fibers[j] /\ (att'[j][e] = "over" => e \notin fibers'[j])
        BY <1>1 DEF Return, FiberEnds, TypeOK
    <3>2. att'[j][e] \in {"keeping", "telling", "over"}
      <4>1. CASE att' = [att EXCEPT ![j][e] = "over"]
          BY <4>1 DEF TypeOK
      <4>2. CASE att[j][e] \in Outcomes /\ Record(j, e, att[j][e])
          BY <4>2, RecordSays
      <4>. QED BY <4>1, <4>2 DEF Return, Outcomes
    <3>3. ASSUME NEW d \in fibers'[j] PROVE att'[j][d] \notin {"none", "starting", "over"}
        BY <1>a, <3>1, <3>2, <3>3 DEF JobInv, Fibered, TypeOK
    <3>4. CASE fenced' = fenced
      <4>1. ASSUME fenced[j] # Nothing PROVE fenced[j].epoch \in Epochs /\ fenced[j].epoch # e /\ att[j][fenced[j].epoch] = "over"
          BY <4>1 DEF JobInv, Fibered, TypeOK, Held, Return
      <4>. QED BY <1>a, <3>3, <3>4, <4>1 DEF Fibered
    <3>5. CASE fenced' = [fenced EXCEPT ![j] = [epoch |-> e, outcome |-> att[j][e]]] /\ att' = [att EXCEPT ![j][e] = "over"]
        BY <3>3, <3>5 DEF Fibered, TypeOK
    <3>. QED BY <3>4, <3>5 DEF Return
  <2>7. ToldLater(j)'
    <3>1. CASE j \in inFiber
      <4>1. ~Running(j) /\ row' = row /\ ctl'[j] = None
          BY <3>1 DEF JobInv, Unsettled, ToldLater, Return, Record, Owns, TypeOK
      <4>2. ASSUME NEW d \in fibers[j], att[j][d] \in {"telling", "dead"}
            PROVE  d \in fibers'[j] /\ att'[j][d] = att[j][d]
        <5>1. d \in Epochs /\ d # e
            BY <4>2 DEF TypeOK, Return
        <5>2. att'[j][d] = att[j][d]
            BY <5>1 DEF Return, Record, TypeOK
        <5>3. fibers'[j] = fibers[j] \/ fibers'[j] = fibers[j] \ {e}
            BY DEF Return, FiberEnds, TypeOK
        <5>. QED BY <5>1, <5>2, <5>3
      <4>3. UNCHANGED <<told, recov>>
          BY DEF Return
      <4>. QED BY <3>1, <4>1, <4>2, <4>3 DEF JobInv, ToldLater
    <3>2. CASE j \notin inFiber /\ j \in inFiber'
      <4>1. /\ Owns(j, e) /\ e \in fibers[j] /\ fibers' = fibers
            /\ att' = [att EXCEPT ![j][e] = "telling"] /\ Settle(j, e, att[j][e])
          BY <3>2 DEF Return, Record, TypeOK
      <4>2. att'[j][e] = "telling" /\ row'[j].status = att[j][e] /\ att[j][e] # "cancelled"
          BY <4>1 DEF Settle, Row, Return, TypeOK
      <4>3. ctl'[j] = None
          BY <4>1 DEF JobInv, Controls, Owns, Return, TypeOK
      <4>. QED BY <4>1, <4>2, <4>3 DEF ToldLater
    <3>. QED BY <3>1, <3>2 DEF ToldLater
  <2>8. Kept(j)'
    <3>. SUFFICES ASSUME Running(j)', j \notin cut' \cup overheld' PROVE Borne(j)'
        BY DEF Kept
    <3>1. row'[j] = row[j] /\ Running(j) /\ \A d : Owns(j, d)' <=> Owns(j, d)
        BY <1>a DEF Running, Owns
    <3>2. Borne(j)
        BY <3>1 DEF JobInv, Kept, Return
    <3>3. UNCHANGED <<up, toSweep, stopped, cancel, recov, armed>>
        BY DEF Return
    <3>4. CASE ~up \/ j \in toSweep \/ (\E r \in recov[j] : Owns(j, r.epoch)) \/ (armed /\ row[j].resume # "none" /\ ctl[j] = None)
        BY <1>a, <3>1, <3>3, <3>4 DEF Borne
    <3>5. ASSUME NEW d \in Epochs, Owns(j, d), d # e,
                 \/ att[j][d] \in {"starting", "begun", "failed", "bounded"} /\ d \notin stopped[j]
                 \/ att[j][d] \in {"completed", "keeping"}
          PROVE  Borne(j)'
        BY <1>a, <3>1, <3>3, <3>5 DEF Borne
    <3>6. ASSUME Owns(j, e), att[j][e] = "completed" \/ e \notin stopped[j] PROVE Borne(j)'
      <4>1. ~((att[j][e] # "completed" /\ e \in stopped[j]) \/ row[j].status = "cancelled")
          BY <3>1, <3>6 DEF Running
      <4>2. CASE HoldsBack(j)
        <5>1. fenced'[j] = [epoch |-> e, outcome |-> att[j][e]]
            BY <4>1, <4>2 DEF Return, TypeOK
        <5>2. fenced'[j] # Nothing /\ fenced'[j].epoch = e
            BY <5>1, EpochsTyped DEF Nothing
        <5>. QED BY <3>1, <3>3, <3>6, <4>2, <5>2 DEF Borne, HoldsBack
      <4>3. CASE ~HoldsBack(j)
        <5>1. Record(j, e, att[j][e]) /\ att[j][e] \in Outcomes
            BY <3>6, <4>1, <4>3 DEF Return, Outcomes
        <5>2. att'[j][e] = "keeping"
            BY <3>1, <3>6, <5>1, RecordSays DEF Running
        <5>. QED BY <3>1, <3>6, <5>2 DEF Borne
      <4>. QED BY <4>2, <4>3
    <3>7. CASE HoldsBack(j) /\ fenced[j] # Nothing /\ Owns(j, fenced[j].epoch)
      <4>1. CASE UNCHANGED fenced
          BY <3>1, <3>3, <3>7, <4>1 DEF Borne, HoldsBack
      <4>2. CASE /\ fenced' = [fenced EXCEPT ![j] = [epoch |-> e, outcome |-> att[j][e]]]
                 /\ ~(fenced[j].epoch > e)
        <5>1. fenced[j].epoch \in Epochs /\ row[j].epoch = fenced[j].epoch
            BY <3>7 DEF TypeOK, Held, Owns
        <5>2. ~(e > row[j].epoch)
            BY <3>1 DEF JobInv, Untried, Running, Return
        <5>3. Owns(j, e)
            BY <3>7, <4>2, <5>1, <5>2 DEF Epochs, Owns
        <5>4. fenced'[j] # Nothing /\ fenced'[j].epoch = e
            BY <4>2, EpochsTyped DEF Nothing, TypeOK
        <5>. QED BY <3>1, <3>3, <3>7, <5>3, <5>4 DEF Borne, HoldsBack
      <4>. QED BY <4>1, <4>2 DEF Return
    <3>8. att[j][e] # "keeping"
        BY DEF Return
    <3>. QED BY <3>2, <3>4, <3>5, <3>6, <3>7, <3>8 DEF Borne
  <2>. QED BY <2>1, <2>2, <2>3, <2>4, <2>5, <2>6, <2>7, <2>8 DEF JobInv
<1>3. ASSUME NEW k \in Jobs, k # j PROVE JobInv(k)'
  <2>1. Same(k)
      BY <1>3 DEF TypeOK, Same, Return, Record, Settle, FiberEnds
  <2>. QED BY <2>1, SameKeeps DEF IInv
<1>. QED BY <1>1, <1>2, <1>3 DEF IInv

LEMMA HarvestedPreserves ==
    ASSUME IInv, NEW j \in Jobs, NEW e \in Epochs, NEW o \in Outcomes, Harvested(j, e, o)
    PROVE  IInv'
<1>. TypeOK /\ JobInv(j)
    BY DEF IInv
<1>1. TypeOK'
  <2>1. /\ row' \in [Jobs -> Rows] /\ noticed' \in [Jobs -> Seq(Statuses)]
        /\ att' \in [Jobs -> [Epochs -> Phases]] /\ inFiber' \subseteq Jobs
      BY RecordTyped DEF Harvested
  <2>2. fibers' \in [Jobs -> SUBSET Epochs] /\ heard' \in [Jobs -> Epochs \cup {None}]
    <3>1. CASE FiberEnds(j, e)
        BY <3>1, FiberEndsTyped
    <3>2. CASE UNCHANGED <<fibers, heard>>
        BY <3>2 DEF TypeOK
    <3>. QED BY <3>1, <3>2 DEF Harvested
  <2>. QED BY <2>1, <2>2, JobsAssumption DEF TypeOK, Harvested, Record, Settle, FiberEnds
<1>a. Record(j, e, o) /\ att[j][e] = "keeping"
    BY DEF Harvested
<1>2. JobInv(j)'
  <2>1. Unmade(j)'
      BY DEF JobInv, Unmade, Harvested, Record, Settle, FiberEnds
  <2>2. Unsettled(j)' /\ Controls(j)'
      BY <1>1 DEF TypeOK, JobInv, Unsettled, Running, Controls, Row, NoRow, Nothing, Harvested, Record, Settle, FiberEnds
  <2>3. Settled(j)'
      BY <1>1 DEF TypeOK, JobInv, Unmade, Settled, Unsettled, Running, Owns, NoRow, Row, Rows, Epochs, None, Harvested, Record, Settle, FiberEnds
  <2>4. Untried(j)'
      BY <1>1, JobsAssumption DEF TypeOK, JobInv, Unmade, Untried, Controls, Running, Owns, NoRow, Row, Recovery, Epochs, None, Rows, Statuses, Outcomes, Resumes, Phases, Held, Recoveries, Harvested, Record, Settle, FiberEnds
  <2>5. Recovering(j)'
      BY <1>a, RecordSays, RecoveringKept DEF JobInv, Harvested, Owns, Running
  <2>6. Fibered(j)'
      BY <1>1, JobsAssumption DEF TypeOK, JobInv, Unmade, Untried, Fibered, Running, Owns, NoRow, Nothing, Row, Recovery, Epochs, None, Rows, Statuses, Outcomes, Resumes, Phases, Held, Recoveries, Harvested, Record, Settle, FiberEnds
  <2>7. ToldLater(j)'
    <3>1. CASE j \in inFiber
      <4>1. ~Owns(j, e)
          BY <3>1 DEF JobInv, Unsettled, Owns
      <4>2. row' = row /\ \A d \in Epochs : d # e => att'[j][d] = att[j][d]
          BY <1>a, <4>1, RecordSays
      <4>3. fibers[j] \ {e} \subseteq fibers'[j] /\ UNCHANGED <<told, recov, ctl>>
          BY DEF Harvested, FiberEnds, TypeOK
      <4>. QED BY <1>a, <3>1, <4>2, <4>3, ToldLaterKept DEF JobInv
    <3>2. CASE j \notin inFiber /\ j \in inFiber'
      <4>1. /\ Owns(j, e) /\ att'[j][e] = "telling" /\ row'[j].status = o /\ o \in {"completed", "failed"} /\ e \in fibers[j]
          BY <1>a, <3>2, RecordSays
      <4>2. UNCHANGED <<fibers, ctl>>
          BY <4>1 DEF Harvested
      <4>3. ctl[j] = None
          BY <1>a, <4>1 DEF JobInv, Controls, Owns
      <4>. QED BY <4>1, <4>2, <4>3 DEF ToldLater
    <3>. QED BY <3>1, <3>2 DEF ToldLater
  <2>8. Kept(j)'
      BY <1>1 DEF TypeOK, JobInv, Kept, Borne, Owns, Running, HoldsBack, Row, NoRow, Nothing, Harvested, Record, Settle, FiberEnds
  <2>. QED BY <2>1, <2>2, <2>3, <2>4, <2>5, <2>6, <2>7, <2>8 DEF JobInv
<1>3. ASSUME NEW k \in Jobs, k # j PROVE JobInv(k)'
  <2>1. Same(k)
      BY <1>3 DEF TypeOK, Same, Harvested, Record, Settle, FiberEnds
  <2>. QED BY <2>1, SameKeeps DEF IInv
<1>. QED BY <1>1, <1>2, <1>3 DEF IInv

LEMMA TellPreserves ==
    ASSUME IInv, NEW j \in Jobs, NEW e \in Epochs, Tell(j, e)
    PROVE  IInv'
<1>. TypeOK /\ JobInv(j)
    BY DEF IInv
<1>1. TypeOK'
  <2>1. told' \in [Jobs -> Statuses \ {"running"}]
    <3>1. ~Running(j)
        BY DEF JobInv, Unsettled, Tell
    <3>. QED BY <3>1, WakeTyped DEF Tell
  <2>2. att' \in [Jobs -> [Epochs -> Phases]]
      BY PhaseTyped DEF Tell, Phases
  <2>3. fibers' \in [Jobs -> SUBSET Epochs] /\ heard' \in [Jobs -> Epochs \cup {None}]
      BY FiberEndsTyped DEF Tell
  <2>. QED BY <2>1, <2>2, <2>3, JobsAssumption DEF TypeOK, Tell, Wake, FiberEnds, histVars
<1>2. JobInv(j)'
  <2>1. Unmade(j)' /\ Unsettled(j)' /\ Settled(j)' /\ Untried(j)' /\ Controls(j)' /\ Recovering(j)' /\ Kept(j)'
      BY DEF JobInv, Unmade, Unsettled, Running, Settled, Untried, Controls, Recovering, Owns, Kept, Borne, HoldsBack, Tell, Wake, FiberEnds, histVars
  <2>2. Fibered(j)' /\ ToldLater(j)'
      BY <1>1 DEF TypeOK, JobInv, Fibered, ToldLater, Row, NoRow, Nothing, Tell, Wake, FiberEnds, histVars
  <2>. QED BY <2>1, <2>2 DEF JobInv
<1>3. ASSUME NEW k \in Jobs, k # j PROVE JobInv(k)'
  <2>1. Same(k)
      BY <1>3 DEF TypeOK, Same, Tell, Wake, FiberEnds, histVars
  <2>. QED BY <2>1, SameKeeps DEF IInv
<1>. QED BY <1>1, <1>2, <1>3 DEF IInv

LEMMA AskCancelPreserves ==
    ASSUME IInv, NEW j \in Jobs, NEW who \in {"cancel", "retire"}, AskCancel(j, who)
    PROVE  IInv'
<1>. TypeOK /\ JobInv(j)
    BY DEF IInv
<1>1. TypeOK'
    BY JobsAssumption DEF TypeOK, AskCancel, Fault, Running, rowVars, histVars
<1>2. JobInv(j)'
  <2>1. Unmade(j)'
      BY <1>1 DEF TypeOK, JobInv, Unmade, Row, NoRow, Nothing, AskCancel, Fault, Running, rowVars, histVars
  <2>2. Unsettled(j)' /\ Settled(j)' /\ Untried(j)' /\ Controls(j)' /\ Recovering(j)' /\ Fibered(j)' /\ ToldLater(j)' /\ Kept(j)'
      BY DEF JobInv, Unsettled, Running, Settled, Untried, Controls, Recovering, Owns, Fibered, ToldLater, Kept, Borne, HoldsBack, AskCancel, Fault, rowVars, histVars
  <2>. QED BY <2>1, <2>2 DEF JobInv
<1>3. ASSUME NEW k \in Jobs, k # j PROVE JobInv(k)'
  <2>1. Same(k)
      BY <1>3 DEF TypeOK, Same, AskCancel, Fault, Running, rowVars, histVars
  <2>. QED BY <2>1, SameKeeps DEF IInv
<1>. QED BY <1>1, <1>2, <1>3 DEF IInv

LEMMA RefusedRecords ==
    ASSUME TypeOK, NEW j \in Jobs, JobInv(j), Refused(j)
    PROVE  \/ fenced[j] = Nothing /\ UNCHANGED <<row, att, noticed, inFiber>>
           \/ /\ fenced[j] \in Held /\ att[j][fenced[j].epoch] = "over"
              /\ Owns(j, fenced[j].epoch) /\ fenced[j].outcome \in {"completed", "failed"}
              /\ Settle(j, fenced[j].epoch, fenced[j].outcome)
              /\ att' = [att EXCEPT ![j][fenced[j].epoch] = "telling"]
           \/ /\ fenced[j] \in Held /\ att[j][fenced[j].epoch] = "over"
              /\ UNCHANGED <<row, noticed, inFiber>>
              /\ \E p \in {"keeping", "over"} :
                    /\ att' = [att EXCEPT ![j][fenced[j].epoch] = p]
                    /\ Owns(j, fenced[j].epoch) => p = "keeping"
<1>1. CASE fenced[j] = Nothing
    BY <1>1 DEF Refused
<1>2. CASE fenced[j] # Nothing
  <2>1. fenced[j] \in Held /\ att[j][fenced[j].epoch] = "over"
      BY <1>2 DEF TypeOK, JobInv, Fibered
  <2>2. fenced[j].outcome \in Outcomes /\ Record(j, fenced[j].epoch, fenced[j].outcome)
      BY <1>2, <2>1 DEF Refused, Held
  <2>. QED BY <2>1, <2>2 DEF Record, Outcomes
<1>. QED BY <1>1, <1>2

LEMMA RefusedPreserves ==
    ASSUME IInv, NEW j \in Jobs, Refused(j)
    PROVE  IInv'
<1>. TypeOK /\ JobInv(j)
    BY DEF IInv
<1>1. TypeOK'
  <2>1. /\ row' \in [Jobs -> Rows] /\ noticed' \in [Jobs -> Seq(Statuses)]
        /\ att' \in [Jobs -> [Epochs -> Phases]] /\ inFiber' \subseteq Jobs
    <3>1. CASE UNCHANGED <<row, att, noticed, inFiber>>
        BY <3>1 DEF TypeOK
    <3>2. CASE fenced[j] \in Held /\ Record(j, fenced[j].epoch, fenced[j].outcome)
        BY <3>2, RecordTyped DEF Held
    <3>. QED BY <3>1, <3>2 DEF Refused, TypeOK
  <2>2. fenced' \in [Jobs -> {Nothing} \cup Held]
      BY DEF TypeOK, Refused
  <2>3. cancel' \in [Jobs -> {"none", "cancel", "retire", "wake"}]
      BY DEF TypeOK, Refused
  <2>. QED BY <2>1, <2>2, <2>3, JobsAssumption DEF TypeOK, Refused, Record, Settle
<1>2. JobInv(j)'
  <2>1. Unmade(j)'
      BY DEF JobInv, Unmade, Refused, Record, Settle
  <2>2. Unsettled(j)'
    <3>. DEFINE f == fenced[j].epoch
    <3>1. CASE fenced[j] = Nothing /\ UNCHANGED <<row, att, noticed, inFiber>>
        BY <3>1 DEF JobInv, Unsettled, Running, Refused
    <3>2. CASE /\ fenced[j] \in Held /\ att[j][f] = "over" /\ Owns(j, f) /\ fenced[j].outcome \in {"completed", "failed"}
               /\ Settle(j, f, fenced[j].outcome) /\ att' = [att EXCEPT ![j][f] = "telling"]
        BY <3>2 DEF Unsettled, Running, Settle, Row, TypeOK
    <3>3. CASE /\ fenced[j] \in Held /\ att[j][f] = "over" /\ UNCHANGED <<row, noticed, inFiber>>
               /\ \E p \in {"keeping", "over"} : att' = [att EXCEPT ![j][f] = p] /\ (Owns(j, f) => p = "keeping")
        BY <3>3 DEF JobInv, Unsettled, Running, Refused, Held, TypeOK
    <3>. QED BY <3>1, <3>2, <3>3, RefusedRecords
  <2>3. Settled(j)'
      BY <1>1 DEF TypeOK, JobInv, Unmade, Settled, Unsettled, Running, Owns, NoRow, Row, Rows, Epochs, None, Refused, Record, Settle
  <2>4. Untried(j)'
    <3>. DEFINE f == fenced[j].epoch
    <3>1. CASE fenced[j] = Nothing /\ UNCHANGED <<row, att, noticed, inFiber>>
        BY <3>1 DEF JobInv, Untried, Refused
    <3>2. CASE /\ fenced[j] \in Held /\ att[j][f] = "over" /\ Owns(j, f) /\ fenced[j].outcome \in {"completed", "failed"}
               /\ Settle(j, f, fenced[j].outcome) /\ att' = [att EXCEPT ![j][f] = "telling"]
        BY <3>2, EpochsTyped DEF JobInv, Untried, Owns, Running, Settle, Row, TypeOK, Refused, Held
    <3>3. CASE /\ fenced[j] \in Held /\ att[j][f] = "over" /\ UNCHANGED <<row, noticed, inFiber>>
               /\ \E p \in {"keeping", "over"} : att' = [att EXCEPT ![j][f] = p] /\ (Owns(j, f) => p = "keeping")
        BY <3>3, EpochsTyped DEF JobInv, Untried, Refused, TypeOK, Held
    <3>. QED BY <3>1, <3>2, <3>3, RefusedRecords
  <2>5. Controls(j)'
      BY <1>1 DEF TypeOK, JobInv, Unmade, Untried, Controls, Recovering, Fibered, Running, Owns, NoRow, Refused, Record, Settle
  <2>6. Recovering(j)'
    <3>. DEFINE f == fenced[j].epoch
    <3>1. CASE fenced[j] = Nothing /\ UNCHANGED <<row, att, noticed, inFiber>>
        BY <3>1 DEF JobInv, Recovering, Owns, Running, Refused
    <3>2. CASE /\ fenced[j] \in Held /\ att[j][f] = "over" /\ Owns(j, f) /\ fenced[j].outcome \in {"completed", "failed"}
               /\ Settle(j, f, fenced[j].outcome) /\ att' = [att EXCEPT ![j][f] = "telling"]
        BY <3>2 DEF JobInv, Recovering, Owns, Running, Settle, Row, TypeOK, Refused, Held, Recoveries
    <3>3. CASE /\ fenced[j] \in Held /\ att[j][f] = "over" /\ UNCHANGED <<row, noticed, inFiber>>
               /\ \E p \in {"keeping", "over"} : att' = [att EXCEPT ![j][f] = p] /\ (Owns(j, f) => p = "keeping")
        BY <3>3 DEF JobInv, Recovering, Owns, Running, Refused, TypeOK, Held, Recoveries
    <3>. QED BY <3>1, <3>2, <3>3, RefusedRecords
  <2>7. Fibered(j)'
      BY <1>1 DEF TypeOK, JobInv, Fibered, Row, NoRow, Nothing, Refused, Record, Settle
  <2>8. ToldLater(j)'
    <3>1. UNCHANGED <<fibers, told, ctl, recov>>
        BY DEF Refused
    <3>2. CASE fenced[j] = Nothing /\ UNCHANGED <<row, att, noticed, inFiber>>
        BY <3>1, <3>2 DEF JobInv, ToldLater
    <3>3. CASE fenced[j] \in Held
      <4>. DEFINE f == fenced[j].epoch
      <4>1. f \in Epochs /\ fenced[j].outcome \in Outcomes /\ att[j][f] = "over" /\ f \notin fibers[j]
          BY <3>3, EpochsTyped DEF Held, JobInv, Fibered, Nothing
      <4>2. Record(j, f, fenced[j].outcome)
          BY <3>3, <4>1, EpochsTyped DEF Refused, Nothing
      <4>3. inFiber' = inFiber /\ \A d \in Epochs : d # f => att'[j][d] = att[j][d]
          BY <4>1, <4>2, RecordSays
      <4>4. CASE j \in inFiber
        <5>1. ~Owns(j, f)
            BY <4>4 DEF JobInv, Unsettled, Owns
        <5>2. row' = row
            BY <4>1, <4>2, <5>1, RecordSays
        <5>. QED BY <3>1, <4>1, <4>3, <4>4, <5>2, ToldLaterKept DEF JobInv
      <4>. QED BY <4>3, <4>4 DEF ToldLater
    <3>. QED BY <3>2, <3>3 DEF Refused, TypeOK
  <2>9. Kept(j)'
    <3>. DEFINE f == fenced[j].epoch
    <3>1. CASE fenced[j] = Nothing /\ UNCHANGED <<row, att, noticed, inFiber>>
        BY <3>1 DEF JobInv, Kept, Borne, Owns, Running, HoldsBack, Refused
    <3>2. CASE /\ fenced[j] \in Held /\ att[j][f] = "over" /\ Owns(j, f) /\ fenced[j].outcome \in {"completed", "failed"}
               /\ Settle(j, f, fenced[j].outcome) /\ att' = [att EXCEPT ![j][f] = "telling"]
        BY <3>2 DEF Kept, Running, Settle, Row, TypeOK
    <3>3. CASE /\ fenced[j] \in Held /\ att[j][f] = "over" /\ UNCHANGED <<row, noticed, inFiber>>
               /\ \E p \in {"keeping", "over"} : att' = [att EXCEPT ![j][f] = p] /\ (Owns(j, f) => p = "keeping")
        BY <3>3 DEF JobInv, Kept, Borne, Owns, Running, HoldsBack, Refused, TypeOK, Held
    <3>. QED BY <3>1, <3>2, <3>3, RefusedRecords
  <2>. QED BY <2>1, <2>2, <2>3, <2>4, <2>5, <2>6, <2>7, <2>8, <2>9 DEF JobInv
<1>3. ASSUME NEW k \in Jobs, k # j PROVE JobInv(k)'
  <2>1. Same(k)
      BY <1>3 DEF TypeOK, Same, Refused, Record, Settle
  <2>. QED BY <2>1, SameKeeps DEF IInv
<1>. QED BY <1>1, <1>2, <1>3 DEF IInv

LEMMA ConfirmedPreserves ==
    ASSUME IInv, NEW j \in Jobs, Confirmed(j)
    PROVE  IInv'
<1>. TypeOK /\ JobInv(j)
    BY DEF IInv
<1>1. TypeOK'
  <2>1. row' \in [Jobs -> Rows]
    <3>1. CASE UNCHANGED row
        BY <3>1 DEF TypeOK
    <3>2. CASE row' = [row EXCEPT ![j] = Row("cancelled", row[j].epoch, row[j].resume, row[j].by)]
        BY <3>2 DEF TypeOK, Row, Rows, Statuses
    <3>. QED BY <3>1, <3>2 DEF Confirmed
  <2>2. ctl' \in [Jobs -> Epochs \cup {None}]
      BY DEF TypeOK, Confirmed
  <2>3. stopped' \in [Jobs -> SUBSET Epochs]
    <3>1. CASE UNCHANGED stopped
        BY <3>1 DEF TypeOK
    <3>2. CASE stopped' = [stopped EXCEPT ![j] = IF ctl[j] = None THEN @ ELSE @ \cup {ctl[j]}]
        BY <3>2 DEF TypeOK
    <3>. QED BY <3>1, <3>2 DEF Confirmed
  <2>4. cancel' \in [Jobs -> {"none", "cancel", "retire", "wake"}]
      BY DEF TypeOK, Confirmed
  <2>5. fenced' \in [Jobs -> {Nothing} \cup Held]
      BY DEF TypeOK, Confirmed
  <2>. QED BY <2>1, <2>2, <2>3, <2>4, <2>5, JobsAssumption DEF TypeOK, Confirmed, histVars
<1>2. JobInv(j)'
  <2>1. Unmade(j)'
    <3>1. CASE call[j] \in {"none", "open", "kept", "inline"}
      <4>1. row[j] = NoRow /\ cancel[j] = "none"
          BY <3>1 DEF JobInv, Unmade
      <4>. QED BY <4>1 DEF NoRow, Row, HoldsBack, Confirmed
    <3>2. CASE call[j] \notin {"none", "open", "kept", "inline"}
        BY <3>2 DEF Unmade, Confirmed
    <3>. QED BY <3>1, <3>2
  <2>2. Unsettled(j)' /\ Controls(j)' /\ Recovering(j)' /\ Kept(j)'
      BY <1>1 DEF TypeOK, JobInv, Unsettled, Running, Controls, Recovering, Owns, Kept, Borne, HoldsBack, Row, NoRow, Nothing, Confirmed, histVars
  <2>3. Settled(j)'
      BY <1>1 DEF TypeOK, JobInv, Unmade, Settled, Unsettled, Running, Owns, NoRow, Row, Rows, Epochs, None, Confirmed, histVars
  <2>4. Untried(j)'
      BY <1>1 DEF TypeOK, JobInv, Unmade, Untried, Controls, Running, Owns, NoRow, Row, Rows, Epochs, None, Confirmed, histVars
  <2>5. Fibered(j)'
      BY DEF JobInv, Fibered, Confirmed, histVars
  <2>6. ToldLater(j)'
      BY <1>1 DEF TypeOK, JobInv, Unmade, ToldLater, Unsettled, Untried, Controls, Recovering, Fibered, Running, Owns, NoRow, Confirmed, histVars
  <2>. QED BY <2>1, <2>2, <2>3, <2>4, <2>5, <2>6 DEF JobInv
<1>3. ASSUME NEW k \in Jobs, k # j PROVE JobInv(k)'
  <2>1. Same(k)
      BY <1>3 DEF TypeOK, Same, Confirmed, histVars
  <2>. QED BY <2>1, SameKeeps DEF IInv
<1>. QED BY <1>1, <1>2, <1>3 DEF IInv

LEMMA CancelWakesPreserves ==
    ASSUME IInv, NEW j \in Jobs, CancelWakes(j)
    PROVE  IInv'
<1>. TypeOK /\ JobInv(j)
    BY DEF IInv
<1>1. TypeOK'
  <2>1. told' \in [Jobs -> Statuses \ {"running"}]
    <3>1. ~Running(j)
        BY DEF JobInv, Unsettled, CancelWakes
    <3>. QED BY <3>1, WakeTyped DEF CancelWakes
  <2>2. cancel' \in [Jobs -> {"none", "cancel", "retire", "wake"}]
      BY DEF TypeOK, CancelWakes
  <2>. QED BY <2>1, <2>2, JobsAssumption DEF TypeOK, CancelWakes, Wake, histVars
<1>2. JobInv(j)'
  <2>1. Unmade(j)' /\ Unsettled(j)' /\ Settled(j)' /\ Untried(j)' /\ Controls(j)' /\ Recovering(j)' /\ Fibered(j)' /\ ToldLater(j)' /\ Kept(j)'
      BY DEF JobInv, Unmade, Unsettled, Running, Settled, Untried, Controls, Recovering, Owns, Fibered, ToldLater, Kept, Borne, HoldsBack, CancelWakes, Wake, histVars
  <2>. QED BY <2>1 DEF JobInv
<1>3. ASSUME NEW k \in Jobs, k # j PROVE JobInv(k)'
  <2>1. Same(k)
      BY <1>3 DEF TypeOK, Same, CancelWakes, Wake, histVars
  <2>. QED BY <2>1, SameKeeps DEF IInv
<1>. QED BY <1>1, <1>2, <1>3 DEF IInv

LEMMA CompletePreserves ==
    ASSUME IInv, NEW j \in Jobs, Complete(j)
    PROVE  IInv'
<1>. TypeOK /\ JobInv(j)
    BY DEF IInv
<1>1. TypeOK'
  <2>1. row' \in [Jobs -> Rows] /\ noticed' \in [Jobs -> Seq(Statuses)]
    <3>1. row[j].epoch \in Epochs /\ "completed" \in Statuses
        BY DEF TypeOK, Rows, Statuses
    <3>. QED BY <3>1, SettleTyped DEF Complete
  <2>. QED BY <2>1, JobsAssumption DEF TypeOK, Complete, Settle
<1>2. JobInv(j)'
  <2>1. Unmade(j)'
    <3>1. CASE call[j] \in {"none", "open", "kept", "inline"}
      <4>1. row[j] = NoRow /\ cancel[j] = "none"
          BY <3>1 DEF JobInv, Unmade
      <4>. QED BY <4>1 DEF NoRow, Row, Running, Complete
    <3>2. CASE call[j] \notin {"none", "open", "kept", "inline"}
        BY <3>2 DEF Unmade, Complete
    <3>. QED BY <3>1, <3>2
  <2>2. Unsettled(j)' /\ Controls(j)' /\ Recovering(j)' /\ Kept(j)'
      BY <1>1 DEF TypeOK, JobInv, Unsettled, Running, Controls, Recovering, Owns, Kept, Borne, HoldsBack, Row, NoRow, Nothing, Complete, Settle
  <2>3. Settled(j)'
      BY <1>1 DEF TypeOK, JobInv, Unmade, Settled, Unsettled, Running, Owns, NoRow, Row, Rows, Epochs, None, Complete, Settle
  <2>4. Untried(j)'
      BY <1>1 DEF TypeOK, JobInv, Unmade, Untried, Controls, Running, Owns, NoRow, Row, Rows, Epochs, None, Complete, Settle
  <2>5. Fibered(j)'
      BY DEF JobInv, Fibered, Complete, Settle
  <2>6. ToldLater(j)'
      BY <1>1 DEF TypeOK, JobInv, Unmade, ToldLater, Unsettled, Untried, Controls, Recovering, Fibered, Running, Owns, NoRow, Complete, Settle
  <2>. QED BY <2>1, <2>2, <2>3, <2>4, <2>5, <2>6 DEF JobInv
<1>3. ASSUME NEW k \in Jobs, k # j PROVE JobInv(k)'
  <2>1. Same(k)
      BY <1>3 DEF TypeOK, Same, Complete, Settle
  <2>. QED BY <2>1, SameKeeps DEF IInv
<1>. QED BY <1>1, <1>2, <1>3 DEF IInv

LEMMA CompleteWakesPreserves ==
    ASSUME IInv, NEW j \in Jobs, CompleteWakes(j)
    PROVE  IInv'
<1>. TypeOK /\ JobInv(j)
    BY DEF IInv
<1>1. TypeOK'
  <2>1. told' \in [Jobs -> Statuses \ {"running"}]
    <3>1. ~Running(j)
        BY DEF JobInv, Unsettled, CompleteWakes
    <3>. QED BY <3>1, WakeTyped DEF CompleteWakes
  <2>. QED BY <2>1, JobsAssumption DEF TypeOK, CompleteWakes, Wake, histVars
<1>2. JobInv(j)'
  <2>1. Unmade(j)' /\ Unsettled(j)' /\ Settled(j)' /\ Untried(j)' /\ Controls(j)' /\ Recovering(j)' /\ Fibered(j)' /\ ToldLater(j)' /\ Kept(j)'
      BY DEF JobInv, Unmade, Unsettled, Running, Settled, Untried, Controls, Recovering, Owns, Fibered, ToldLater, Kept, Borne, HoldsBack, CompleteWakes, Wake, histVars
  <2>. QED BY <2>1 DEF JobInv
<1>3. ASSUME NEW k \in Jobs, k # j PROVE JobInv(k)'
  <2>1. Same(k)
      BY <1>3 DEF TypeOK, Same, CompleteWakes, Wake, histVars
  <2>. QED BY <2>1, SameKeeps DEF IInv
<1>. QED BY <1>1, <1>2, <1>3 DEF IInv

LEMMA DismissPreserves ==
    ASSUME IInv, NEW j \in Jobs, Dismiss(j)
    PROVE  IInv'
<1>. TypeOK /\ JobInv(j)
    BY DEF IInv
<1>1. TypeOK'
  <2>1. row' \in [Jobs -> Rows]
      BY JobsAssumption DEF TypeOK, NoRow, Row, Rows, Statuses, Epochs, Resumes, None, Dismiss
  <2>. QED BY <2>1, JobsAssumption DEF TypeOK, Dismiss, Fault, memVars, histVars
<1>2. JobInv(j)'
  <2>1. Unmade(j)' /\ Fibered(j)'
      BY DEF JobInv, Unmade, Fibered, Dismiss, Fault, memVars, histVars
  <2>2. Unsettled(j)' /\ Settled(j)' /\ Untried(j)' /\ Controls(j)' /\ Recovering(j)' /\ ToldLater(j)' /\ Kept(j)'
      BY <1>1 DEF TypeOK, JobInv, Unsettled, Running, Settled, Untried, Controls, Recovering, Owns, ToldLater, Kept, Borne, HoldsBack, Row, NoRow, Nothing, Dismiss, Fault, memVars, histVars
  <2>. QED BY <2>1, <2>2 DEF JobInv
<1>3. ASSUME NEW k \in Jobs, k # j PROVE JobInv(k)'
  <2>1. Same(k)
      BY <1>3 DEF TypeOK, Same, Dismiss, Fault, memVars, histVars
  <2>. QED BY <2>1, SameKeeps DEF IInv
<1>. QED BY <1>1, <1>2, <1>3 DEF IInv

LEMMA SweepPreserves ==
    ASSUME IInv, NEW j \in Jobs, Sweep(j)
    PROVE  IInv'
<1>. TypeOK /\ JobInv(j)
    BY DEF IInv
<1>1. TypeOK'
  <2>1. recov' \in [Jobs -> SUBSET Recoveries] /\ told' \in [Jobs -> Statuses \ {"running"}]
      BY RecoverTyped DEF Sweep
  <2>. QED BY <2>1, JobsAssumption DEF TypeOK, Sweep, Recover, Read, Wake, histVars
<1>2. JobInv(j)'
  <2>1. Unmade(j)'
    <3>1. CASE call[j] \in {"none", "open", "kept", "inline"}
      <4>1. row[j] = NoRow
          BY <3>1 DEF JobInv, Unmade
      <4>2. row[j].status = "none"
          BY <4>1 DEF NoRow, Row
      <4>3. recov'[j] = recov[j] /\ UNCHANGED told
          BY <4>2 DEF Recover, Running, Sweep, TypeOK
      <4>. QED BY <4>3 DEF JobInv, Unmade, Sweep, histVars
    <3>2. CASE call[j] \notin {"none", "open", "kept", "inline"}
        BY <3>2 DEF Unmade, Sweep
    <3>. QED BY <3>1, <3>2
  <2>2. Unsettled(j)'
      BY <1>1 DEF TypeOK, JobInv, Unmade, Unsettled, Running, NoRow, Row, Recovery, Recoveries, Rows, Epochs, None, Held, Sweep, Recover, Read, Wake, histVars
  <2>3. Settled(j)'
      BY <1>1 DEF TypeOK, JobInv, Settled, Row, NoRow, Nothing, Sweep, Recover, Read, Wake, histVars
  <2>4. Untried(j)' /\ Controls(j)' /\ Fibered(j)'
      BY DEF JobInv, Untried, Controls, Running, Fibered, Sweep, Recover, Read, Wake, histVars
  <2>5. Recovering(j)'
      BY <1>1 DEF TypeOK, JobInv, Unmade, Untried, Unsettled, Controls, Recovering, Fibered, Running, Owns, NoRow, Row, Recovery, Recoveries, Rows, Epochs, None, Held, Sweep, Recover, Read, Wake, histVars
  <2>6. ToldLater(j)'
      BY <1>1 DEF TypeOK, JobInv, Unmade, ToldLater, Unsettled, Untried, Controls, Recovering, Fibered, Running, Owns, NoRow, Sweep, Recover, Read, Wake, histVars
  <2>7. Kept(j)'
    <3>. SUFFICES ASSUME Running(j), j \notin cut PROVE Borne(j)'
        BY DEF Kept, Running, Sweep, histVars
    <3>1. CASE ctl[j] = None
      <4>1. Read(j, None) \in recov'[j] /\ Read(j, None).epoch = row[j].epoch
          BY <3>1 DEF Sweep, Recover, TypeOK, Read, Recovery
      <4>. QED BY <4>1 DEF Borne, Owns, Running, Sweep
    <3>2. CASE ctl[j] # None
      <4>1. /\ ctl[j] \in Epochs /\ ctl[j] = row[j].epoch /\ ctl[j] \notin stopped[j]
            /\ att[j][ctl[j]] \in {"starting", "begun", "completed", "failed", "bounded"}
          BY <3>2 DEF JobInv, Controls, TypeOK
      <4>. QED BY <4>1 DEF Borne, Owns, Running, Sweep
    <3>. QED BY <3>1, <3>2
  <2>. QED BY <2>1, <2>2, <2>3, <2>4, <2>5, <2>6, <2>7 DEF JobInv
<1>3. ASSUME NEW k \in Jobs, k # j PROVE JobInv(k)'
  <2>1. Same(k)
      BY <1>3 DEF TypeOK, Same, Sweep, Recover, Read, Wake, histVars
  <2>. QED BY <2>1, SameKeeps DEF IInv
<1>. QED BY <1>1, <1>2, <1>3 DEF IInv

LEMMA RedriveFiberPreserves ==
    ASSUME IInv, NEW j \in Jobs, NEW e \in Epochs, RedriveFiber(j, e)
    PROVE  IInv'
<1>. TypeOK /\ JobInv(j)
    BY DEF IInv
<1>1. TypeOK'
  <2>1. recov' \in [Jobs -> SUBSET Recoveries] /\ told' \in [Jobs -> Statuses \ {"running"}]
      BY RecoverTyped DEF RedriveFiber
  <2>2. fibers' \in [Jobs -> SUBSET Epochs]
    <3>1. CASE UNCHANGED fibers
        BY <3>1 DEF TypeOK
    <3>2. CASE fibers' = [fibers EXCEPT ![j] = @ \ {e}]
        BY <3>2 DEF TypeOK
    <3>. QED BY <3>1, <3>2 DEF RedriveFiber
  <2>. QED BY <2>1, <2>2, JobsAssumption DEF TypeOK, RedriveFiber, Recover, Read, Wake, histVars
<1>2. JobInv(j)'
  <2>1. Unmade(j)' /\ Untried(j)' /\ Controls(j)' /\ Kept(j)'
      BY DEF JobInv, Unmade, Untried, Controls, Running, Kept, Borne, Owns, HoldsBack, RedriveFiber, Recover, Read, Wake, histVars
  <2>2. Unsettled(j)'
      BY <1>1 DEF TypeOK, JobInv, Unmade, Unsettled, Running, NoRow, Row, Recovery, Recoveries, Rows, Epochs, None, Held, RedriveFiber, Recover, Read, Wake, histVars
  <2>3. Settled(j)' /\ Fibered(j)'
      BY <1>1 DEF TypeOK, JobInv, Settled, Fibered, Row, NoRow, Nothing, RedriveFiber, Recover, Read, Wake, histVars
  <2>4. Recovering(j)'
      BY <1>1 DEF TypeOK, JobInv, Unmade, Untried, Unsettled, Controls, Recovering, Fibered, Running, Owns, NoRow, Row, Recovery, Recoveries, Rows, Epochs, None, Held, RedriveFiber, Recover, Read, Wake, histVars
  <2>5. ToldLater(j)'
      BY <1>1, JobsAssumption DEF TypeOK, JobInv, Unmade, ToldLater, Unsettled, Untried, Controls, Recovering, Fibered, Running, Owns, NoRow, Row, Recovery, Epochs, None, Rows, Statuses, Outcomes, Resumes, Phases, Held, Recoveries, RedriveFiber, Recover, Read, Wake, histVars
  <2>. QED BY <2>1, <2>2, <2>3, <2>4, <2>5 DEF JobInv
<1>3. ASSUME NEW k \in Jobs, k # j PROVE JobInv(k)'
  <2>1. Same(k)
      BY <1>3 DEF TypeOK, Same, RedriveFiber, Recover, Read, Wake, histVars
  <2>. QED BY <2>1, SameKeeps DEF IInv
<1>. QED BY <1>1, <1>2, <1>3 DEF IInv

LEMMA RecoverLostPreserves ==
    ASSUME IInv, NEW j \in Jobs, RecoverLost(j)
    PROVE  IInv'
<1>. TypeOK /\ JobInv(j)
    BY DEF IInv
<1>1. TypeOK'
  <2>1. told' \in [Jobs -> Statuses \ {"running"}]
    <3>1. CASE UNCHANGED told
        BY <3>1 DEF TypeOK
    <3>2. CASE Wake(j) /\ ~Running(j)
        BY <3>2, WakeTyped
    <3>. QED BY <3>1, <3>2 DEF RecoverLost, Running
  <2>2. recov' \in [Jobs -> SUBSET Recoveries]
      BY ReadTyped DEF RecoverLost, TypeOK
  <2>3. ctl' \in [Jobs -> Epochs \cup {None}]
      BY DEF TypeOK, RecoverLost
  <2>4. stopped' \in [Jobs -> SUBSET Epochs]
      BY DEF TypeOK, RecoverLost
  <2>5. heard' \in [Jobs -> Epochs \cup {None}]
      BY DEF TypeOK, RecoverLost
  <2>. QED BY <2>1, <2>2, <2>3, <2>4, <2>5, JobsAssumption DEF TypeOK, RecoverLost, Read, Wake, histVars
<1>2. JobInv(j)'
  <2>1. Unmade(j)'
    <3>1. CASE call[j] \in {"none", "open", "kept", "inline"}
      <4>1. row[j] = NoRow /\ ctl[j] = None
          BY <3>1 DEF JobInv, Unmade
      <4>. QED BY <4>1 DEF JobInv, NoRow, Row, Running, Wake, RecoverLost, Unmade, TypeOK, histVars
    <3>2. CASE call[j] \notin {"none", "open", "kept", "inline"}
        BY <3>2 DEF Unmade, RecoverLost
    <3>. QED BY <3>1, <3>2
  <2>2. Unsettled(j)'
      BY <1>1 DEF TypeOK, JobInv, Unmade, Unsettled, Running, NoRow, Row, Recovery, Recoveries, Rows, Epochs, None, Held, RecoverLost, Read, Wake, histVars
  <2>3. Settled(j)' /\ Controls(j)'
      BY <1>1 DEF TypeOK, JobInv, Settled, Controls, Running, Row, NoRow, Nothing, RecoverLost, Read, Wake, histVars
  <2>4. Untried(j)'
      BY <1>1 DEF TypeOK, JobInv, Unmade, Untried, Controls, Running, Owns, NoRow, RecoverLost, Read, Wake, histVars
  <2>5. Recovering(j)'
      BY <1>1 DEF TypeOK, JobInv, Unmade, Untried, Unsettled, Controls, Recovering, Fibered, Running, Owns, NoRow, Row, Recovery, Recoveries, Rows, Epochs, None, Held, RecoverLost, Read, Wake, histVars
  <2>6. Fibered(j)'
      BY DEF JobInv, Fibered, RecoverLost, Read, Wake, histVars
  <2>7. ToldLater(j)'
      BY <1>1 DEF TypeOK, JobInv, Unmade, ToldLater, Unsettled, Untried, Controls, Recovering, Fibered, Running, Owns, NoRow, RecoverLost, Read, Wake, histVars
  <2>8. Kept(j)'
    <3>. SUFFICES ASSUME Running(j), j \notin cut PROVE Borne(j)'
        BY DEF Kept, Running, RecoverLost, histVars
    <3>1. Read(j, None) \in recov'[j] /\ Read(j, None).epoch = row[j].epoch
        BY DEF RecoverLost, TypeOK, Read, Recovery
    <3>. QED BY <3>1 DEF Borne, Owns, Running, RecoverLost
  <2>. QED BY <2>1, <2>2, <2>3, <2>4, <2>5, <2>6, <2>7, <2>8 DEF JobInv
<1>3. ASSUME NEW k \in Jobs, k # j PROVE JobInv(k)'
  <2>1. Same(k)
      BY <1>3 DEF TypeOK, Same, RecoverLost, Read, Wake, histVars
  <2>. QED BY <2>1, SameKeeps DEF IInv
<1>. QED BY <1>1, <1>2, <1>3 DEF IInv

LEMMA DuePreserves ==
    ASSUME IInv, NEW j \in Jobs, Due(j)
    PROVE  IInv'
<1>. TypeOK /\ JobInv(j)
    BY DEF IInv
<1>1. TypeOK'
  <2>1. row' \in [Jobs -> Rows]
      BY DEF TypeOK, Row, Rows, Resumes, Due
  <2>. QED BY <2>1, JobsAssumption DEF TypeOK, Due, memVars, histVars
<1>2. JobInv(j)'
  <2>1. Unmade(j)' /\ Unsettled(j)' /\ Settled(j)' /\ Untried(j)' /\ Controls(j)' /\ Recovering(j)' /\ ToldLater(j)' /\ Kept(j)'
      BY <1>1 DEF TypeOK, JobInv, Unmade, Unsettled, Running, Settled, Untried, Controls, Recovering, Owns, ToldLater, Kept, Borne, HoldsBack, Row, NoRow, Nothing, Due, memVars, histVars
  <2>2. Fibered(j)'
      BY DEF JobInv, Fibered, Due, memVars, histVars
  <2>. QED BY <2>1, <2>2 DEF JobInv
<1>3. ASSUME NEW k \in Jobs, k # j PROVE JobInv(k)'
  <2>1. Same(k)
      BY <1>3 DEF TypeOK, Same, Due, memVars, histVars
  <2>. QED BY <2>1, SameKeeps DEF IInv
<1>. QED BY <1>1, <1>2, <1>3 DEF IInv

LEMMA GoSilentPreserves ==
    ASSUME IInv, NEW j \in Jobs, GoSilent(j)
    PROVE  IInv'
<1>. TypeOK /\ JobInv(j)
    BY DEF IInv
<1>1. TypeOK'
    BY JobsAssumption DEF TypeOK, GoSilent, Fault, rowVars, histVars
<1>2. JobInv(j)'
  <2>1. Unmade(j)' /\ Unsettled(j)' /\ Settled(j)' /\ Untried(j)' /\ Controls(j)' /\ Recovering(j)' /\ Fibered(j)' /\ ToldLater(j)' /\ Kept(j)'
      BY DEF JobInv, Unmade, Unsettled, Running, Settled, Untried, Controls, Recovering, Owns, Fibered, ToldLater, Kept, Borne, HoldsBack, GoSilent, Fault, rowVars, histVars
  <2>. QED BY <2>1 DEF JobInv
<1>3. ASSUME NEW k \in Jobs, k # j PROVE JobInv(k)'
  <2>1. Same(k)
      BY <1>3 DEF TypeOK, Same, GoSilent, Fault, rowVars, histVars
  <2>. QED BY <2>1, SameKeeps DEF IInv
<1>. QED BY <1>1, <1>2, <1>3 DEF IInv

-----------------------------------------------------------------------------
(* A recovery's end: its job taken under the next epoch, left to its wake, or *)
(* found to be another's.                                                     *)

\* What a recovery's end leaves alone.
RecoveryFrame == UNCHANGED <<up, toSweep, call, stopped, cancel, fenced, completing, cut, overheld, inFiber>>

LEMMA RecoveredKeeps ==
    ASSUME TypeOK, TypeOK', NEW j \in Jobs, JobInv(j), NEW r \in recov[j],
           Recovered(j, r), RecoveryFrame, UNCHANGED <<row, noticed, ctl, att>>,
           armed => armed',
           Owns(j, r.epoch) => r.resume # "none" /\ armed',
           \/ told'[j] = told[j]
           \/ /\ told'[j] = row[j].status /\ ~Running(j)
              /\ call[j] \notin {"none", "open", "kept", "inline"}
    PROVE  JobInv(j)'
<1>1. /\ recov'[j] = recov[j] \ {r} /\ fibers'[j] = fibers[j] \ {r.lane}
      /\ row' = row /\ ctl' = ctl /\ att' = att /\ noticed' = noticed
    BY DEF Recovered, TypeOK
<1>2. Unmade(j)'
    BY <1>1 DEF JobInv, Unmade, RecoveryFrame
<1>3. Unsettled(j)'
    BY <1>1 DEF JobInv, Unsettled, Running, RecoveryFrame
<1>4. Settled(j)'
    BY <1>1 DEF JobInv, Settled, RecoveryFrame
<1>5. Untried(j)' /\ Controls(j)'
    BY <1>1 DEF JobInv, Untried, Controls, Running, RecoveryFrame
<1>6. Recovering(j)'
    BY <1>1 DEF JobInv, Recovering, Owns, Running
<1>7. Fibered(j)'
    BY <1>1 DEF JobInv, Fibered, RecoveryFrame
<1>8. ToldLater(j)'
  <2>1. CASE j \in inFiber /\ row[j].status # "none" /\ told'[j] = "none"
    <3>1. PICK e \in fibers[j] : \/ att[j][e] = "telling"
                                 \/ att[j][e] = "dead" /\ \A q \in recov[j] : q.lane # e
        BY <2>1 DEF JobInv, ToldLater
    <3>2. e # None
        BY EpochsTyped DEF TypeOK
    <3>3. e # r.lane
        BY <3>1, <3>2 DEF JobInv, Recovering
    <3>. QED BY <1>1, <2>1, <3>1, <3>3 DEF JobInv, ToldLater, RecoveryFrame
  <2>2. CASE ~(j \in inFiber /\ row[j].status # "none" /\ told'[j] = "none")
      BY <1>1, <2>2 DEF JobInv, ToldLater, RecoveryFrame
  <2>. QED BY <2>1, <2>2
<1>9. Kept(j)'
    BY <1>1 DEF JobInv, Kept, Borne, Recovering, Owns, Running, HoldsBack, RecoveryFrame
<1>. QED BY <1>2, <1>3, <1>4, <1>5, <1>6, <1>7, <1>8, <1>9 DEF JobInv

LEMMA TakenKeeps ==
    ASSUME TypeOK, TypeOK', NEW j \in Jobs, JobInv(j), NEW r \in recov[j], r.epoch < MaxEpoch,
           NEW resume, Owns(j, r.epoch), Take(j, r, resume), Recovered(j, r), RecoveryFrame,
           UNCHANGED <<told, noticed>>
    PROVE  JobInv(j)'
<1>. DEFINE n == r.epoch + 1
<1>1. /\ r.epoch \in Epochs /\ n \in Epochs /\ row[j].epoch = r.epoch /\ row[j].status = "running"
    BY JobsAssumption DEF TypeOK, Recoveries, Epochs, Owns, Running
<1>2. /\ recov'[j] = recov[j] \ {r} /\ fibers'[j] \subseteq fibers[j]
      /\ ctl'[j] = n /\ att' = [att EXCEPT ![j][n] = "starting"]
    BY <1>1 DEF Recovered, Take, Drive, TypeOK
<1>3. row'[j] = Row("running", n, resume, row[j].by)
    BY <1>1 DEF Take, TypeOK
<1>4. row'[j].status = "running" /\ row'[j].epoch = n /\ row'[j].by = row[j].by
    BY <1>3 DEF Row
<1>5. att'[j][n] = "starting" /\ \A d \in Epochs : d # n => att'[j][d] = att[j][d]
    BY <1>1, <1>2 DEF TypeOK
<1>6. ctl[j] = None /\ att[j][n] = "none" /\ n \notin stopped[j]
    BY <1>1 DEF JobInv, Recovering, Untried, Epochs
<1>7. Unmade(j)'
    BY DEF JobInv, Unmade, RecoveryFrame
<1>8. Unsettled(j)'
    BY <1>1, <1>2, <1>4, <1>5 DEF JobInv, Unsettled, Running, RecoveryFrame
<1>9. Settled(j)'
    BY <1>1, <1>4 DEF JobInv, Settled, Unsettled, Running
<1>10. Untried(j)'
    BY <1>1, <1>4, <1>5 DEF JobInv, Untried, RecoveryFrame, Epochs
<1>11. Controls(j)'
    BY <1>1, <1>2, <1>4, <1>5, <1>6, EpochsTyped DEF JobInv, Controls, Running, RecoveryFrame
<1>12. Recovering(j)'
  <2>1. ASSUME NEW s \in recov'[j] PROVE s \in recov[j] /\ s.epoch < n
      BY <1>1, <1>2 DEF JobInv, Recovering, TypeOK, Recoveries, Epochs
  <2>2. ASSUME NEW s \in recov'[j], s.lane # None PROVE att'[j][s.lane] = "dead"
    <3>1. s.lane \in Epochs
        BY <2>1, <2>2 DEF TypeOK, Recoveries
    <3>2. att[j][s.lane] = "dead"
        BY <2>1, <2>2 DEF JobInv, Recovering
    <3>. QED BY <1>5, <1>6, <3>1, <3>2
  <2>3. ASSUME NEW s \in recov'[j] PROVE s.epoch # n /\ s.epoch <= n
      BY <1>1, <2>1 DEF TypeOK, Recoveries, Epochs
  <2>. QED BY <1>4, <2>2, <2>3 DEF Recovering, Owns
<1>13. Fibered(j)'
  <2>1. fenced[j] # Nothing => fenced[j].epoch \in Epochs
      BY DEF TypeOK, Held
  <2>. QED BY <1>2, <1>5, <1>6, <2>1 DEF JobInv, Fibered, TypeOK, RecoveryFrame
<1>14. ToldLater(j)'
    BY <1>1 DEF JobInv, Unsettled, Running, ToldLater, RecoveryFrame
<1>15. Kept(j)'
    BY <1>1, <1>4, <1>5, <1>6 DEF Kept, Borne, Owns, Running, RecoveryFrame
<1>. QED BY <1>7, <1>8, <1>9, <1>10, <1>11, <1>12, <1>13, <1>14, <1>15 DEF JobInv

LEMMA RedrivePreserves ==
    ASSUME IInv, NEW j \in Jobs, NEW r \in recov[j], Redrive(j, r)
    PROVE  IInv'
<1>. TypeOK /\ JobInv(j) /\ r \in Recoveries
    BY DEF IInv, TypeOK
<1>1. recov' \in [Jobs -> SUBSET Recoveries] /\ fibers' \in [Jobs -> SUBSET Epochs]
    BY RecoveredTyped DEF Redrive
<1>2. TypeOK'
  <2>1. /\ row' \in [Jobs -> Rows] /\ ctl' \in [Jobs -> Epochs \cup {None}]
        /\ att' \in [Jobs -> [Epochs -> Phases]]
    <3>1. CASE UNCHANGED <<row, ctl, att>>
        BY <3>1 DEF TypeOK
    <3>2. CASE Take(j, r, "later")
        BY <3>2, TakeTyped DEF Redrive, Resumes
    <3>. QED BY <3>1, <3>2 DEF Redrive
  <2>. QED BY <1>1, <2>1 DEF TypeOK, Redrive, histVars
<1>3. RecoveryFrame /\ Recovered(j, r) /\ UNCHANGED <<told, noticed>> /\ (armed => armed') /\ r.epoch < MaxEpoch
    BY DEF RecoveryFrame, Redrive, histVars
<1>8. JobInv(j)'
  <2>4. CASE r.resume = "later" /\ armed' = TRUE /\ UNCHANGED <<row, ctl, att>>
      BY <1>2, <1>3, <2>4, RecoveredKeeps
  <2>5. CASE Owns(j, r.epoch) /\ Take(j, r, "later")
      BY <1>2, <1>3, <2>5, TakenKeeps
  <2>6. CASE ~Owns(j, r.epoch) /\ UNCHANGED <<row, ctl, att>>
      BY <1>2, <1>3, <2>6, RecoveredKeeps
  <2>. QED BY <2>4, <2>5, <2>6 DEF Redrive, Take
<1>9. ASSUME NEW k \in Jobs, k # j PROVE JobInv(k)'
  <2>1. Same(k)
      BY <1>9 DEF TypeOK, Same, Redrive, Recovered, Take, Drive, histVars
  <2>. QED BY <2>1, SameKeeps DEF IInv
<1>. QED BY <1>2, <1>8, <1>9 DEF IInv

LEMMA ReattachPreserves ==
    ASSUME IInv, NEW j \in Jobs, NEW r \in recov[j], Reattach(j, r)
    PROVE  IInv'
<1>. TypeOK /\ JobInv(j) /\ r \in Recoveries
    BY DEF IInv, TypeOK
<1>1. recov' \in [Jobs -> SUBSET Recoveries] /\ fibers' \in [Jobs -> SUBSET Epochs]
    BY RecoveredTyped DEF Reattach
<1>2. TypeOK'
  <2>1. /\ row' \in [Jobs -> Rows] /\ ctl' \in [Jobs -> Epochs \cup {None}]
        /\ att' \in [Jobs -> [Epochs -> Phases]]
      BY TakeTyped DEF Reattach, Resumes
  <2>. QED BY <1>1, <2>1 DEF TypeOK, Reattach, histVars
<1>3. RecoveryFrame /\ Recovered(j, r) /\ UNCHANGED <<told, noticed>> /\ (armed => armed') /\ r.epoch < MaxEpoch
    BY DEF RecoveryFrame, Reattach, histVars
<1>8. JobInv(j)'
  <2>5. CASE Owns(j, r.epoch) /\ Take(j, r, "none")
      BY <1>2, <1>3, <2>5, TakenKeeps
  <2>6. CASE ~Owns(j, r.epoch) /\ UNCHANGED <<row, ctl, att>>
      BY <1>2, <1>3, <2>6, RecoveredKeeps
  <2>. QED BY <2>5, <2>6 DEF Reattach, Take
<1>9. ASSUME NEW k \in Jobs, k # j PROVE JobInv(k)'
  <2>1. Same(k)
      BY <1>9 DEF TypeOK, Same, Reattach, Recovered, Take, Drive, histVars
  <2>. QED BY <2>1, SameKeeps DEF IInv
<1>. QED BY <1>2, <1>8, <1>9 DEF IInv

LEMMA GiveUpPreserves ==
    ASSUME IInv, NEW j \in Jobs, NEW r \in recov[j], GiveUp(j, r)
    PROVE  IInv'
<1>. TypeOK /\ JobInv(j) /\ r \in Recoveries
    BY DEF IInv, TypeOK
<1>1. CASE ~Owns(j, r.epoch)
  <2>1. Recovered(j, r) /\ UNCHANGED <<row, noticed>>
      BY <1>1 DEF GiveUp
  <2>2. TypeOK'
      BY <2>1, RecoveredTyped DEF TypeOK, GiveUp
  <2>3. RecoveryFrame /\ UNCHANGED <<told, ctl, att, armed>>
      BY DEF RecoveryFrame, GiveUp
  <2>4. JobInv(j)'
      BY <1>1, <2>1, <2>2, <2>3, RecoveredKeeps
  <2>5. ASSUME NEW k \in Jobs, k # j PROVE JobInv(k)'
    <3>1. Same(k)
        BY <2>1, <2>5 DEF TypeOK, Same, Recovered, GiveUp
    <3>. QED BY <3>1, SameKeeps DEF IInv
  <2>. QED BY <2>2, <2>4, <2>5 DEF IInv
<1>2. CASE Owns(j, r.epoch)
  <2>. DEFINE t == Recovery(r.lane, r.epoch, r.resume, "telling")
  <2>1. PICK o \in {"completed", "failed"} : Settle(j, r.epoch, o)
      BY <1>2 DEF GiveUp
  <2>2. recov' = [recov EXCEPT ![j] = (@ \ {r}) \cup {t}] /\ UNCHANGED fibers
      BY <1>2 DEF GiveUp
  <2>3. /\ t \in Recoveries /\ t.lane = r.lane /\ t.epoch = r.epoch
        /\ r.epoch \in Epochs /\ o \in Statuses
      BY DEF Recovery, Recoveries, Statuses
  <2>4. row' \in [Jobs -> Rows] /\ noticed' \in [Jobs -> Seq(Statuses)]
      BY <2>1, <2>3, SettleTyped
  <2>5. recov' \in [Jobs -> SUBSET Recoveries]
      BY <2>2, <2>3 DEF TypeOK
  <2>6. TypeOK'
      BY <2>2, <2>4, <2>5 DEF TypeOK, GiveUp
  <2>7. /\ row'[j] = Row(o, row[j].epoch, row[j].resume, r.epoch) /\ noticed'[j] = Append(noticed[j], o)
        /\ row[j].status = "running" /\ row[j].epoch = r.epoch
      BY <1>2, <2>1 DEF Settle, TypeOK, Owns, Running
  <2>8. row'[j].status = o /\ row'[j].epoch = r.epoch /\ row'[j].by = r.epoch
      BY <2>7 DEF Row
  <2>9. noticed[j] = <<>> /\ told[j] = "none" /\ j \notin inFiber
      BY <2>7 DEF JobInv, Unsettled, Running
  <2>10. Unmade(j)'
      BY DEF JobInv, Unmade, GiveUp
  <2>11. Unsettled(j)' /\ Kept(j)'
      BY <2>8 DEF Unsettled, Kept, Running
  <2>12. noticed'[j] = <<o>>
      BY <2>7, <2>9
  <2>13. Settled(j)'
      BY <2>8, <2>9, <2>12 DEF Settled, GiveUp
  <2>14. Untried(j)' /\ Controls(j)'
      BY <2>7, <2>8 DEF JobInv, Untried, Controls, Running, GiveUp
  <2>15. \A s \in recov'[j] : s \in recov[j] \/ s = t
      BY <2>2 DEF TypeOK
  <2>16. Recovering(j)'
      BY <2>3, <2>7, <2>8, <2>15 DEF JobInv, Recovering, Owns, Running, GiveUp, TypeOK, Recoveries, Epochs
  <2>17. Fibered(j)'
      BY <2>2 DEF JobInv, Fibered, GiveUp
  <2>18. ToldLater(j)'
      BY <2>9 DEF ToldLater, GiveUp
  <2>19. ASSUME NEW k \in Jobs, k # j PROVE JobInv(k)'
    <3>1. Same(k)
        BY <2>1, <2>2, <2>19 DEF TypeOK, Same, Settle, GiveUp
    <3>. QED BY <3>1, SameKeeps DEF IInv
  <2>. QED BY <2>6, <2>10, <2>11, <2>13, <2>14, <2>16, <2>17, <2>18, <2>19 DEF IInv, JobInv
<1>. QED BY <1>1, <1>2

LEMMA GiveUpWakesPreserves ==
    ASSUME IInv, NEW j \in Jobs, NEW r \in recov[j], GiveUpWakes(j, r)
    PROVE  IInv'
<1>. TypeOK /\ JobInv(j) /\ r \in Recoveries
    BY DEF IInv, TypeOK
<1>1. ~Running(j) /\ call[j] \notin {"none", "open", "kept", "inline"}
    BY DEF JobInv, Unsettled, Unmade, GiveUpWakes
<1>2. TypeOK'
    BY <1>1, WakeTyped, RecoveredTyped DEF TypeOK, GiveUpWakes, histVars
<1>3. told'[j] = told[j] \/ told'[j] = row[j].status
    BY DEF TypeOK, Wake, GiveUpWakes
<1>4. RecoveryFrame /\ UNCHANGED <<row, noticed, ctl, att, armed>>
    BY DEF RecoveryFrame, GiveUpWakes, histVars
<1>5. ~Owns(j, r.epoch)
    BY <1>1 DEF Owns
<1>8. JobInv(j)'
    BY <1>1, <1>2, <1>3, <1>4, <1>5, RecoveredKeeps DEF GiveUpWakes
<1>9. ASSUME NEW k \in Jobs, k # j PROVE JobInv(k)'
  <2>1. Same(k)
      BY <1>9 DEF TypeOK, Same, GiveUpWakes, Recovered, Wake, histVars
  <2>. QED BY <2>1, SameKeeps DEF IInv
<1>. QED BY <1>2, <1>8, <1>9 DEF IInv

-----------------------------------------------------------------------------
(* The steps that reach every job. *)

LEMMA StopTurnPreserves ==
    ASSUME IInv, StopTurn
    PROVE  IInv'
<1>. TypeOK
    BY DEF IInv
<1>. DEFINE open == {j \in Jobs : call[j] \in {"open", "kept", "moving"}}
<1>1. /\ stopped' = [j \in Jobs |-> stopped[j] \cup (IF j \in open THEN {0} ELSE {})]
      /\ cut' = cut \cup open /\ faults' \in 0..MaxFaults
      /\ UNCHANGED <<kind, rowVars, up, toSweep, call, ctl, att, heard, silent, cancel, fenced, recov,
                     completing, noticed, overheld, inFiber>>
    BY JobsAssumption DEF StopTurn, Fault, TypeOK
<1>2. TypeOK'
    BY <1>1, EpochsTyped DEF TypeOK, rowVars
<1>3. ASSUME NEW j \in Jobs PROVE JobInv(j)'
  <2>. JobInv(j)
      BY DEF IInv
  <2>1. /\ UNCHANGED <<row, fibers, told, armed, up, toSweep, call, ctl, att, cancel, fenced, recov,
                       completing, noticed, overheld, inFiber>>
        /\ stopped[j] \subseteq stopped'[j] /\ (j \in cut => j \in cut')
        /\ \/ j \in cut' /\ stopped'[j] = stopped[j] \cup {0} /\ call[j] \in {"open", "kept", "moving"}
           \/ stopped'[j] = stopped[j]
      BY <1>1 DEF TypeOK, rowVars
  <2>2. Unmade(j)'
      BY <2>1 DEF JobInv, Unmade
  <2>3. Unsettled(j)' /\ Settled(j)'
      BY <2>1 DEF JobInv, Unsettled, Settled, Running
  <2>4. Untried(j)'
      BY <2>1, JobsAssumption DEF JobInv, Untried, TypeOK, Rows, Epochs
  <2>5. Controls(j)'
      BY <2>1, EpochsTyped DEF JobInv, Controls, Running
  <2>6. Recovering(j)' /\ Fibered(j)' /\ ToldLater(j)'
      BY <2>1 DEF JobInv, Recovering, Fibered, ToldLater, Owns, Running
  <2>7. Kept(j)'
      BY <2>1 DEF JobInv, Kept, Borne, Owns, Running, HoldsBack
  <2>. QED BY <2>2, <2>3, <2>4, <2>5, <2>6, <2>7 DEF JobInv
<1>. QED BY <1>2, <1>3 DEF IInv

LEMMA RecoverDuePreserves ==
    ASSUME IInv, RecoverDue
    PROVE  IInv'
<1>. TypeOK
    BY DEF IInv
<1>1. TypeOK'
    BY DEF TypeOK, RecoverDue, histVars
<1>2. ASSUME NEW j \in Jobs PROVE JobInv(j)'
  <2>. JobInv(j)
      BY DEF IInv
  <2>1. Unmade(j)' /\ Unsettled(j)' /\ Settled(j)' /\ Untried(j)' /\ Controls(j)'
      BY DEF RecoverDue, histVars, JobInv, Unmade, Unsettled, Settled, Untried, Controls, Running
  <2>2. Recovering(j)' /\ Fibered(j)' /\ ToldLater(j)'
      BY DEF RecoverDue, histVars, JobInv, Recovering, Fibered, ToldLater, Owns, Running
  <2>3. Kept(j)'
    <3>1. CASE OwedResumes = {} /\ UNCHANGED toSweep
      <4>1. ~(Running(j) /\ row[j].resume # "none" /\ ctl[j] = None)
          BY <3>1 DEF OwedResumes
      <4>. QED BY <3>1, <4>1 DEF RecoverDue, histVars, JobInv, Kept, Borne, Owns, Running, HoldsBack
    <3>2. CASE toSweep' = toSweep \cup {k \in Jobs : Running(k)}
        BY <3>2 DEF RecoverDue, Kept, Borne, Running
    <3>. QED BY <3>1, <3>2 DEF RecoverDue
  <2>. QED BY <2>1, <2>2, <2>3 DEF JobInv
<1>. QED BY <1>1, <1>2 DEF IInv

LEMMA StartPreserves ==
    ASSUME IInv, Start
    PROVE  IInv'
<1>. TypeOK
    BY DEF IInv
<1>1. TypeOK'
    BY DEF TypeOK, Start, histVars
<1>2. ASSUME NEW j \in Jobs PROVE JobInv(j)'
  <2>. JobInv(j)
      BY DEF IInv
  <2>1. Unmade(j)' /\ Unsettled(j)' /\ Settled(j)' /\ Untried(j)' /\ Controls(j)'
      BY DEF Start, histVars, JobInv, Unmade, Unsettled, Settled, Untried, Controls, Running
  <2>2. Recovering(j)' /\ Fibered(j)' /\ ToldLater(j)'
      BY DEF Start, histVars, JobInv, Recovering, Fibered, ToldLater, Owns, Running
  <2>3. Kept(j)'
      BY DEF Start, Kept, Borne, Running
  <2>. QED BY <2>1, <2>2, <2>3 DEF JobInv
<1>. QED BY <1>1, <1>2 DEF IInv

LEMMA CrashPreserves ==
    ASSUME IInv, Crash
    PROVE  IInv'
<1>. TypeOK
    BY DEF IInv
<1>1. att' \in [Jobs -> [Epochs -> Phases]]
    BY DEF Crash, Phases
<1>2. TypeOK'
  <2>1. call' \in [Jobs -> {"none", "open", "kept", "moving", "handed", "inline", "lost"}]
      BY DEF Crash, TypeOK
  <2>2. faults' \in 0..MaxFaults
      BY JobsAssumption DEF Crash, Fault, TypeOK
  <2>. QED BY <1>1, <2>1, <2>2 DEF TypeOK, Crash, rowVars
<1>3. ASSUME NEW j \in Jobs PROVE JobInv(j)'
  <2>. JobInv(j)
      BY DEF IInv
  <2>1. /\ UNCHANGED <<row, fibers, told, armed, noticed, inFiber>> /\ up' = FALSE
        /\ ctl'[j] = None /\ stopped'[j] = {} /\ cancel'[j] = "none" /\ fenced'[j] = Nothing
        /\ recov'[j] = {} /\ completing' = {}
        /\ call'[j] = IF call[j] \in {"open", "kept", "moving"} THEN "lost" ELSE call[j]
      BY DEF Crash, rowVars
  <2>2. \A e \in Epochs : att'[j][e] = IF att[j][e] = "none" THEN "none"
                                      ELSE IF e \in fibers[j] THEN "dead" ELSE "over"
      BY DEF Crash
  <2>3. Unmade(j)'
      BY <2>1, <2>2 DEF JobInv, Unmade
  <2>4. Unsettled(j)' /\ Settled(j)' /\ Untried(j)'
      BY <2>1, <2>2 DEF JobInv, Unsettled, Settled, Untried, Running
  <2>5. Controls(j)' /\ Recovering(j)'
      BY <2>1, <2>2 DEF Controls, Recovering
  <2>6. Fibered(j)'
      BY <2>1, <2>2 DEF JobInv, Fibered, TypeOK
  <2>7. ToldLater(j)'
      BY <2>1, <2>2 DEF JobInv, ToldLater, Fibered, TypeOK
  <2>8. Kept(j)'
      BY <2>1 DEF Kept, Borne
  <2>. QED BY <2>3, <2>4, <2>5, <2>6, <2>7, <2>8 DEF JobInv
<1>. QED BY <1>2, <1>3 DEF IInv

-----------------------------------------------------------------------------
(* The invariant, and what it gives. *)

LEMMA InitEstablishes == Init => IInv
<1>. SUFFICES ASSUME Init PROVE IInv
    OBVIOUS
<1>1. TypeOK
  <2>1. NoRow \in Rows
      BY EpochsTyped DEF NoRow, Row, Rows, Statuses, Resumes
  <2>2. att \in [Jobs -> [Epochs -> Phases]]
      BY DEF Init, Phases
  <2>3. noticed \in [Jobs -> Seq(Statuses)] /\ faults \in 0..MaxFaults
      BY JobsAssumption DEF Init
  <2>4. told \in [Jobs -> Statuses \ {"running"}]
      BY DEF Init, Statuses
  <2>. QED BY <2>1, <2>2, <2>3, <2>4 DEF Init, TypeOK
<1>2. ASSUME NEW j \in Jobs PROVE JobInv(j)
  <2>1. row[j].status = "none" /\ row[j].by = None
      BY DEF Init, NoRow, Row
  <2>2. Unmade(j)
      BY DEF Init, Unmade
  <2>3. Unsettled(j) /\ Settled(j) /\ Untried(j) /\ Kept(j)
      BY <2>1 DEF Init, Unsettled, Settled, Untried, Kept, Running
  <2>4. Controls(j) /\ Recovering(j) /\ Fibered(j) /\ ToldLater(j)
      BY DEF Init, Controls, Recovering, Fibered, ToldLater
  <2>. QED BY <2>2, <2>3, <2>4 DEF JobInv
<1>. QED BY <1>1, <1>2 DEF IInv

LEMMA StutterPreserves == ASSUME IInv, UNCHANGED vars PROVE IInv'
<1>1. TypeOK'
    BY DEF IInv, TypeOK, vars, rowVars, memVars, histVars
<1>2. ASSUME NEW k \in Jobs PROVE JobInv(k)'
  <2>1. Same(k)
      BY DEF Same, vars, rowVars, memVars, histVars
  <2>. QED BY <2>1, SameKeeps DEF IInv
<1>. QED BY <1>1, <1>2 DEF IInv

LEMMA NextPreserves == IInv /\ [Next]_vars => IInv'
<1>. SUFFICES ASSUME IInv, [Next]_vars PROVE IInv'
    OBVIOUS
<1>1. CASE \E j \in Jobs : (\E k \in Kinds : Call(j, k)) \/ AnswerInline(j) \/ Expire(j)
    BY <1>1, CallPreserves, AnswerInlinePreserves, ExpirePreserves
<1>2. CASE \E j \in Jobs, e \in Epochs : Begin(j, e) \/ Return(j, e) \/ Tell(j, e) \/ RedriveFiber(j, e)
    BY <1>2, BeginPreserves, ReturnPreserves, TellPreserves, RedriveFiberPreserves
<1>3. CASE \E j \in Jobs, e \in Epochs, o \in Outcomes : Finish(j, e, o) \/ Harvested(j, e, o)
    BY <1>3, FinishPreserves, HarvestedPreserves
<1>4. CASE \E j \in Jobs, who \in {"cancel", "retire"} : AskCancel(j, who)
    BY <1>4, AskCancelPreserves
<1>5. CASE \E j \in Jobs : Refused(j) \/ Confirmed(j) \/ CancelWakes(j) \/ Complete(j) \/ CompleteWakes(j)
    BY <1>5, RefusedPreserves, ConfirmedPreserves, CancelWakesPreserves, CompletePreserves,
       CompleteWakesPreserves
<1>6. CASE \E j \in Jobs : Dismiss(j) \/ Sweep(j) \/ RecoverLost(j) \/ Due(j) \/ GoSilent(j)
    BY <1>6, DismissPreserves, SweepPreserves, RecoverLostPreserves, DuePreserves, GoSilentPreserves
<1>7. CASE \E j \in Jobs : \E r \in recov[j] :
              Redrive(j, r) \/ Reattach(j, r) \/ GiveUp(j, r) \/ GiveUpWakes(j, r)
    BY <1>7, RedrivePreserves, ReattachPreserves, GiveUpPreserves, GiveUpWakesPreserves
<1>8. CASE StopTurn \/ RecoverDue \/ Crash \/ Start
    BY <1>8, StopTurnPreserves, RecoverDuePreserves, CrashPreserves, StartPreserves
<1>9. CASE UNCHANGED vars
    BY <1>9, StutterPreserves
<1>. QED BY <1>1, <1>2, <1>3, <1>4, <1>5, <1>6, <1>7, <1>8, <1>9 DEF Next

LEMMA InvariantHolds == Spec => []IInv
BY InitEstablishes, NextPreserves, PTL DEF Spec

\* The store, the fibers and the runner's memory keep the states the code knows,
\* whatever attempts, cancels, recoveries and crashes interleave (BackgroundJobStore,
\* BackgroundJobRunner).
THEOREM JobsTypeCorrect == Spec => []TypeOK
<1>1. IInv => TypeOK
    BY DEF IInv
<1>. QED BY InvariantHolds, <1>1, PTL

\* A job ends once (BackgroundJobStore.settle): onSettled hears of it at most once, and
\* neither it nor the agent was ever told a status the row does not keep.
THEOREM JobEndsOnce == Spec => []EndsOnce
<1>1. IInv => EndsOnce
    BY DEF IInv, JobInv, Settled, EndsOnce
<1>. QED BY InvariantHolds, <1>1, PTL

\* The epoch fences the row: only the attempt or recovery that holds a job settles it,
\* never one that a newer attempt, a lost context or a restart replaced.
THEOREM JobSettledByHolder == Spec => []HolderSettles
<1>1. IInv => HolderSettles
    BY DEF IInv, JobInv, Settled, HolderSettles
<1>. QED BY InvariantHolds, <1>1, PTL

\* No job has two attempts at work that nobody told to stop: a recovery takes a job
\* only when no controller drives it, and the epoch it takes is a new one.
THEOREM JobRunsOnce == Spec => []OneAttempt
<1>1. ASSUME IInv PROVE OneAttempt
  <2>. SUFFICES ASSUME NEW j \in Jobs PROVE Cardinality(Working(j)) <= 1
      BY DEF OneAttempt
  <2>1. Working(j) \subseteq {ctl[j]}
      BY <1>1 DEF IInv, JobInv, Controls, Working
  <2>2. IsFiniteSet({ctl[j]}) /\ Cardinality({ctl[j]}) = 1
      BY FS_Singleton
  <2>3. Cardinality(Working(j)) <= Cardinality({ctl[j]})
      BY <2>1, <2>2, FS_Subset
  <2>. QED BY <2>2, <2>3
<1>. QED BY InvariantHolds, <1>1, PTL

\* No running row is forgotten (BackgroundJobRunner.recover, recoverDue): an attempt, a
\* cancel, a recovery, the sweep, an armed wake or the next activation carries it.
THEOREM RunningJobIsCarried == Spec => []RunningIsCarried
<1>1. ASSUME IInv PROVE RunningIsCarried
  <2>. SUFFICES ASSUME NEW j \in Jobs, Running(j), j \notin cut \cup overheld PROVE Carried(j)
      BY DEF RunningIsCarried
  <2>1. Borne(j)
      BY <1>1 DEF IInv, JobInv, Kept
  <2>. QED BY <2>1 DEF Borne, Carried
<1>. QED BY InvariantHolds, <1>1, PTL

\* An attempt's settle reaches its agent across any crash: until the wake is sent, the
\* attempt's fiber row stays, for the attempt itself or the next activation to tell.
THEOREM SettledJobIsTold == Spec => []SettledIsTold
<1>1. ASSUME IInv PROVE SettledIsTold
    BY <1>1 DEF IInv, TypeOK, JobInv, ToldLater, SettledIsTold
<1>. QED BY InvariantHolds, <1>1, PTL

-----------------------------------------------------------------------------
(* What a step makes of a job's row. *)

\* A call that was made a job.
Made(j) == call[j] \notin {"none", "open", "kept", "inline"}

\* What a step may make of a job's row: a running one is taken up or settled, under its
\* epoch or the next; one settled is kept as it is or dismissed, and stays gone.
RowMoves(j) ==
    /\ Running(j) => row'[j].status # "none" /\ row'[j].epoch >= row[j].epoch
    /\ ~Running(j) => row'[j] \in {row[j], NoRow}
    /\ row[j].status = "none" => row'[j] = row[j]

\* One job's row is written, and the others stay.
LEMMA RowWritten ==
    ASSUME TypeOK, NEW j \in Jobs, NEW k \in Jobs, NEW v, row' = [row EXCEPT ![j] = v],
           RowMoves(j) \/ ~Made(j)
    PROVE  Made(k) => RowMoves(k)
<1>1. row'[k] = row[k] \/ k = j
    BY DEF TypeOK
<1>2. row[k].epoch \in Nat
    BY JobsAssumption DEF TypeOK, Rows, Epochs
<1>. QED BY <1>1, <1>2 DEF RowMoves, Running

LEMMA RowStays ==
    ASSUME TypeOK, UNCHANGED row, NEW k \in Jobs
    PROVE  RowMoves(k)
<1>1. row[k].epoch \in Nat
    BY JobsAssumption DEF TypeOK, Rows, Epochs
<1>. QED BY <1>1 DEF RowMoves, Running

\* A running row's settle, or the taking of it.
LEMMA RunningMoves ==
    ASSUME TypeOK, NEW j \in Jobs, Running(j), NEW s \in Statuses \ {"none"}, NEW u, NEW b, NEW n \in {0, 1},
           row' = [row EXCEPT ![j] = Row(s, @.epoch + n, u, b)]
    PROVE  \A k \in Jobs : Made(k) => RowMoves(k)
<1>1. row[j].epoch \in Nat
    BY JobsAssumption DEF TypeOK, Rows, Epochs
<1>2. row'[j] = Row(s, row[j].epoch + n, u, b)
    BY DEF TypeOK
<1>3. RowMoves(j)
    BY <1>1, <1>2 DEF RowMoves, Running, Row
<1>. QED BY <1>3, RowWritten

LEMMA SettleMoves ==
    ASSUME TypeOK, NEW j \in Jobs, Running(j), NEW e, NEW s \in Statuses \ {"none"}, Settle(j, e, s)
    PROVE  \A k \in Jobs : Made(k) => RowMoves(k)
<1>1. row[j].epoch + 0 = row[j].epoch
    BY JobsAssumption DEF TypeOK, Rows, Epochs
<1>2. row' = [row EXCEPT ![j] = Row(s, @.epoch + 0, @.resume, e)]
    BY <1>1 DEF Settle
<1>. QED BY <1>2, RunningMoves

LEMMA RecordMoves ==
    ASSUME TypeOK, NEW j \in Jobs, NEW e, NEW o \in Outcomes, Record(j, e, o)
    PROVE  \A k \in Jobs : Made(k) => RowMoves(k)
<1>1. CASE Settle(j, e, o) /\ Owns(j, e) /\ o # "bounded"
    BY <1>1, SettleMoves DEF Owns, Outcomes, Statuses
<1>2. CASE UNCHANGED row
    BY <1>2, RowStays
<1>. QED BY <1>1, <1>2 DEF Record

LEMMA TakeMoves ==
    ASSUME TypeOK, NEW j \in Jobs, NEW r, NEW u, Take(j, r, u)
    PROVE  \A k \in Jobs : Made(k) => RowMoves(k)
<1>1. CASE Owns(j, r.epoch)
  <2>1. row[j].status \in Statuses \ {"none"} /\ Running(j)
      BY <1>1 DEF Owns, Running, Statuses
  <2>2. row' = [row EXCEPT ![j] = Row(row[j].status, @.epoch + 1, u, row[j].by)]
      BY <1>1 DEF Take
  <2>. QED BY <2>1, <2>2, RunningMoves
<1>2. CASE ~Owns(j, r.epoch)
    BY <1>2, RowStays DEF Take
<1>. QED BY <1>1, <1>2

LEMMA StepMoves ==
    ASSUME TypeOK, [Next]_vars
    PROVE  \A j \in Jobs : Made(j) => RowMoves(j)
<1>. DEFINE Moves == \A j \in Jobs : Made(j) => RowMoves(j)
<1>1. UNCHANGED row => Moves
    BY RowStays
<1>2. ASSUME NEW j \in Jobs, (\E k \in Kinds : Call(j, k)) \/ AnswerInline(j) \/ Expire(j) PROVE Moves
  <2>1. CASE Expire(j)
    <3>1. ~Made(j)
        BY <2>1 DEF Expire, Made
    <3>2. UNCHANGED row \/ row' = [row EXCEPT ![j] = NewRow]
        BY <2>1 DEF Expire
    <3>. QED BY <1>1, <3>1, <3>2, RowWritten
  <2>2. CASE ~Expire(j)
      BY <1>1, <1>2, <2>2 DEF Call, AnswerInline, rowVars
  <2>. QED BY <2>1, <2>2
<1>3. ASSUME NEW j \in Jobs, NEW e \in Epochs, Begin(j, e) \/ Tell(j, e) \/ RedriveFiber(j, e) PROVE Moves
    BY <1>1, <1>3 DEF Begin, Tell, RedriveFiber
<1>4. ASSUME NEW j \in Jobs, NEW e \in Epochs, Return(j, e) PROVE Moves
  <2>1. CASE UNCHANGED row
      BY <1>1, <2>1
  <2>2. CASE ~UNCHANGED row
    <3>1. Record(j, e, att[j][e]) /\ (att[j][e] \in Outcomes \/ (att[j][e] = "begun" /\ e \in stopped[j]))
          /\ ~(att[j][e] # "completed" /\ e \in stopped[j])
        BY <1>4, <2>2 DEF Return, Outcomes
    <3>. QED BY <3>1, RecordMoves
  <2>. QED BY <2>1, <2>2
<1>5. ASSUME NEW j \in Jobs, NEW e \in Epochs, NEW o \in Outcomes, Finish(j, e, o) \/ Harvested(j, e, o) PROVE Moves
  <2>1. CASE Finish(j, e, o)
      BY <1>1, <2>1 DEF Finish, rowVars
  <2>2. CASE Harvested(j, e, o)
    <3>1. Record(j, e, o)
        BY <2>2 DEF Harvested
    <3>. QED BY <3>1, RecordMoves
  <2>. QED BY <1>5, <2>1, <2>2
<1>6. ASSUME NEW j \in Jobs, Refused(j) PROVE Moves
  <2>1. CASE fenced[j] = Nothing
      BY <1>1, <1>6, <2>1 DEF Refused
  <2>2. CASE fenced[j] # Nothing
    <3>1. fenced[j].outcome \in Outcomes
        BY <2>2 DEF TypeOK, Held
    <3>2. Record(j, fenced[j].epoch, fenced[j].outcome)
        BY <1>6, <2>2 DEF Refused
    <3>. QED BY <3>1, <3>2, RecordMoves
  <2>. QED BY <2>1, <2>2
<1>7. ASSUME NEW j \in Jobs, Confirmed(j) PROVE Moves
  <2>1. CASE Running(j)
    <3>1. row' = [row EXCEPT ![j] = Row("cancelled", row[j].epoch, row[j].resume, row[j].by)]
        BY <1>7, <2>1 DEF Confirmed
    <3>2. row[j].epoch + 0 = row[j].epoch /\ "cancelled" \in Statuses \ {"none"}
        BY JobsAssumption DEF TypeOK, Rows, Epochs, Statuses
    <3>3. row' = [row EXCEPT ![j] = Row("cancelled", @.epoch + 0, row[j].resume, row[j].by)]
        BY <3>1, <3>2
    <3>. QED BY <2>1, <3>2, <3>3, RunningMoves
  <2>2. CASE ~Running(j)
      BY <1>1, <1>7, <2>2 DEF Confirmed
  <2>. QED BY <2>1, <2>2
<1>8. ASSUME NEW j \in Jobs, Complete(j) PROVE Moves
  <2>1. Running(j) /\ Settle(j, row[j].epoch, "completed") /\ "completed" \in Statuses \ {"none"}
      BY <1>8 DEF Complete, Statuses
  <2>. QED BY <2>1, SettleMoves
<1>9. ASSUME NEW j \in Jobs, Dismiss(j) PROVE Moves
  <2>1. row' = [row EXCEPT ![j] = NoRow] /\ ~Running(j) /\ row[j].status # "none"
      BY <1>9 DEF Dismiss, Running
  <2>2. row'[j] = NoRow
      BY <2>1 DEF TypeOK
  <2>3. RowMoves(j)
      BY <2>1, <2>2 DEF RowMoves
  <2>. QED BY <2>1, <2>3, RowWritten
<1>10. ASSUME NEW j \in Jobs, Due(j) PROVE Moves
  <2>1. Running(j) /\ row[j].status \in Statuses \ {"none"} /\ row[j].epoch + 0 = row[j].epoch
      BY <1>10, JobsAssumption DEF Due, Running, Statuses, TypeOK, Rows, Epochs
  <2>2. row' = [row EXCEPT ![j] = Row(row[j].status, @.epoch + 0, "due", row[j].by)]
      BY <1>10, <2>1 DEF Due
  <2>. QED BY <2>1, <2>2, RunningMoves
<1>11. ASSUME NEW j \in Jobs,
              \/ AskCancel(j, "cancel") \/ AskCancel(j, "retire") \/ CancelWakes(j) \/ CompleteWakes(j)
              \/ Sweep(j) \/ RecoverLost(j) \/ GoSilent(j)
       PROVE  Moves
    BY <1>1, <1>11 DEF AskCancel, CancelWakes, CompleteWakes, Sweep, RecoverLost, GoSilent, rowVars
<1>12. ASSUME NEW j \in Jobs, NEW r \in recov[j], Redrive(j, r) \/ Reattach(j, r) PROVE Moves
  <2>1. UNCHANGED row \/ (\E u : Take(j, r, u))
      BY <1>12 DEF Redrive, Reattach
  <2>. QED BY <1>1, <2>1, TakeMoves
<1>13. ASSUME NEW j \in Jobs, NEW r \in recov[j], GiveUp(j, r) \/ GiveUpWakes(j, r) PROVE Moves
  <2>1. UNCHANGED row \/ (Running(j) /\ \E o \in Statuses \ {"none"} : Settle(j, r.epoch, o))
      BY <1>13 DEF GiveUp, GiveUpWakes, Owns, Statuses
  <2>. QED BY <1>1, <2>1, SettleMoves
<1>14. CASE StopTurn \/ RecoverDue \/ Crash \/ Start \/ UNCHANGED vars
    BY <1>1, <1>14 DEF StopTurn, RecoverDue, Crash, Start, vars, rowVars
<1>. QED BY <1>2, <1>3, <1>4, <1>5, <1>6, <1>7, <1>8, <1>9, <1>10, <1>11, <1>12, <1>13, <1>14 DEF Next

\* A job is settled for good: no late outcome, recovery, cancel or restart rewrites the row
\* of one that ended or runs it again, one that was dismissed does not come back, and a
\* running one is never dismissed, nor does its epoch go back, so that an attempt once
\* fenced off stays so (BackgroundJobStore.settle, reclaim and dismiss).
THEOREM JobEndsForGood ==
    Spec => [][\A j \in Jobs : Made(j) => RowMoves(j)]_vars
<1>1. IInv /\ [Next]_vars => [\A j \in Jobs : Made(j) => RowMoves(j)]_vars
    BY StepMoves DEF IInv
<1>. QED BY <1>1, InvariantHolds, PTL DEF Spec

=============================================================================
