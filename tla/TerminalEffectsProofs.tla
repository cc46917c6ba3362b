------------------------ MODULE TerminalEffectsProofs ------------------------
(***************************************************************************)
(* What holds of the ledger of terminal effects for any responses,         *)
(* effects, rosters and faults: what is owed has its wake, an effect is    *)
(* not run twice by one process, a follow-up turn ends once, and a row     *)
(* waits on the owner only while the owner has something to do.            *)
(*                                                                         *)
(* The invariant is a conjunction of parts, each about few variables, so   *)
(* that a step need only argue about the parts whose variables it moves    *)
(* (Frame).                                                                *)
(***************************************************************************)
EXTENDS TerminalEffects, TLAPS

Statuses == {"none", "pending", "parked", "completed"}

RowTables == [Responses -> [Effects -> Statuses]]

DriveRecords == [seq : Responses, stage : {"arm", "inline", "detached", "rearm", "close"},
                 todo : SUBSET Effects, run : SUBSET Effects, released : BOOLEAN, refused : BOOLEAN]

SweepRecords == [kind : {"pass", "close", "followUp"}, by : Responses \cup Identities \cup {None},
                 todo : SUBSET Responses, at : Responses \cup {None}]

PumpItems == [at : {"idle", "taken", "opening", "open", "committed", "settling", "ending"},
              seq : Responses \cup {None}, item : Identities \cup {None}, again : BOOLEAN]

Reports == [of : {"rest", "drive", "recovery", "reclose", "pass", "close", "turn", "ask"},
            by : Responses \cup {None}]

\* A turn before its run is closed, and after.
Early == {"taken", "opening", "open"}
Late  == {"committed", "settling", "ending"}

FlagsTyped ==
    /\ up \in BOOLEAN /\ wake \in BOOLEAN /\ question \in BOOLEAN /\ broken \in BOOLEAN /\ telling \in BOOLEAN
    /\ faults \in 0 .. MaxFaults

\* The pump's turn and the open run are one: a turn that opened has a run, a turn that
\* closed has none, and only a turn with a response runs a tool.
PumpRun ==
    /\ pump \in PumpItems /\ run \in Runs \cup {None}
    /\ pump.at = "idle" => pump.item = None
    /\ pump.at \in {"opening", "open"} => run # None
    /\ pump.at \in Late => run = None
    /\ pump.at \in Early /\ run # None => run.seq = pump.seq /\ run.item = pump.item
    /\ pump.at \in {"committed", "settling"} => pump.seq # None
    /\ run # None /\ run.tool => run.seq # None

\* A report that arms a turn's wake is the opening turn's, and the only one.
TellsOf(ts, at) ==
    \A i, j \in DOMAIN ts :
        ts[i].of = "turn" => at = "opening" /\ (ts[j].of = "turn" => i = j)

TurnTells == tells \in Seq(Reports) /\ TellsOf(tells, pump.at)

\* Nothing runs in an isolate that has not started.
Down == ~up => drives = {} /\ sweeps = {} /\ queue = <<>> /\ tells = <<>> /\ pump.at = "idle"

SweepsKept ==
    /\ sweeps \subseteq SweepRecords
    /\ \A w \in sweeps : w.kind # "followUp" => w.by \in Responses \cup {None}

\* What a drive has still to attempt has not answered and, inline, is pending; what it runs
\* commits nothing by itself; a refusal it met still waits on the owner.
DriveKept(d) ==
    /\ d.seq \in inFlight
    /\ d.todo \cap d.run = {} /\ d.run \cap Sync = {}
    /\ d.todo \cup d.run # {} => claim[d.seq] = "open"
    /\ \A e \in d.todo : <<d.seq, e>> \notin answered /\ (e \in Inline => row[d.seq][e] = "pending")
    /\ d.refused => d.run # {}
    /\ d.refused /\ ~d.released => broken \/ telling

DrivesKept ==
    /\ inFlight \subseteq Responses /\ drives \subseteq DriveRecords
    /\ \A d, f \in drives : d.seq = f.seq => d = f
    /\ \A d \in drives : DriveKept(d)

\* What answered is not owed again while its response is open.
AnsweredKept ==
    /\ repeated = FALSE /\ answered \subseteq Rows
    /\ \A x \in answered : claim[x[1]] = "open" /\ row[x[1]][x[2]] \in {"none", "completed"}

\* A follow-up turn has ended once if its row is on disk and never otherwise; one that is
\* queued, taken or open is not on disk, and is in one of these places only.
FollowUpsKept ==
    /\ ended \in [Identities -> Nat] /\ disk \subseteq Identities /\ queue \in Seq(Identities)
    /\ \A k \in Identities : ended[k] = IF k \in disk THEN 1 ELSE 0
    /\ \A i, j \in DOMAIN queue : queue[i] = queue[j] => i = j
    /\ \A i \in DOMAIN queue :
           /\ queue[i] \notin disk
           /\ pump.at \in Early => pump.item # queue[i]
           /\ run # None => run.item # queue[i]
    /\ pump.at \in Early => pump.item \notin disk
    /\ run # None => run.item \notin disk

\* Whatever may come to be owed on a clock has its wake.
Woken == pump.at # "idle" \/ (queue # <<>> /\ ~question) \/ run # None \/ OnClock => wake

WakeKept == "refusal" \notin Events => ~broken /\ ~telling /\ Woken

LedgerKept ==
    /\ claim \in [Responses -> {"none", "open", "settled"}]
    /\ row \in RowTables
    /\ due \subseteq {x \in Rows : StatusOf(x) = "pending"}
    /\ SettledOwesNothing /\ OneCoalesced /\ ParkedWaitsOnOwner

ReceiptsHeld == receipts \subseteq Turns /\ ReceiptsKept

IInv ==
    /\ FlagsTyped /\ PumpRun /\ TurnTells /\ Down /\ SweepsKept
    /\ DrivesKept /\ AnsweredKept /\ FollowUpsKept
    /\ WakeKept /\ LedgerKept /\ ReceiptsHeld

\* A step leaves the parts whose variables it does not touch.
LEMMA Frame ==
    ASSUME IInv
    PROVE  /\ up' = up /\ wake' = wake /\ question' = question /\ UNCHANGED <<owner, faults>> => FlagsTyped'
           /\ UNCHANGED <<pump, run>> => PumpRun'
           /\ UNCHANGED <<tells, pump>> => TurnTells'
           /\ UNCHANGED <<up, drives, sweeps, queue, tells, pump>> => Down'
           /\ UNCHANGED sweeps => SweepsKept'
           /\ UNCHANGED <<drives, inFlight, claim, row, answered, owner>> => DrivesKept'
           /\ UNCHANGED <<repeated, answered, claim, row>> => AnsweredKept'
           /\ UNCHANGED <<ended, disk, queue, pump, run>> => FollowUpsKept'
           /\ UNCHANGED <<owner, pump, queue, question, run, row, wake>> => WakeKept'
           /\ UNCHANGED <<claim, row, due, question, owner>> => LedgerKept'
           /\ UNCHANGED <<run, receipts>> => ReceiptsHeld'
<1>. USE DEF IInv, owner
<1>1. up' = up /\ wake' = wake /\ question' = question /\ UNCHANGED <<owner, faults>> => FlagsTyped'
    BY DEF FlagsTyped
<1>2. UNCHANGED <<pump, run>> => PumpRun'
    BY DEF PumpRun
<1>3. UNCHANGED <<tells, pump>> => TurnTells'
    BY DEF TurnTells
<1>4. UNCHANGED <<up, drives, sweeps, queue, tells, pump>> => Down'
    BY DEF Down
<1>5. UNCHANGED sweeps => SweepsKept'
    BY DEF SweepsKept
<1>6. UNCHANGED <<drives, inFlight, claim, row, answered, owner>> => DrivesKept'
    BY DEF DrivesKept, DriveKept
<1>7. UNCHANGED <<repeated, answered, claim, row>> => AnsweredKept'
    BY DEF AnsweredKept
<1>8. UNCHANGED <<ended, disk, queue, pump, run>> => FollowUpsKept'
    BY DEF FollowUpsKept
<1>9. UNCHANGED <<owner, pump, queue, question, run, row, wake>> => WakeKept'
    BY DEF WakeKept, Woken, OnClock, StatusOf
<1>10. UNCHANGED <<claim, row, due, question, owner>> => LedgerKept'
    BY DEF LedgerKept, SettledOwesNothing, OneCoalesced, ParkedWaitsOnOwner, ParkedRows, StatusOf
<1>11. UNCHANGED <<run, receipts>> => ReceiptsHeld'
    BY DEF ReceiptsHeld, ReceiptsKept
<1>. QED BY <1>1, <1>2, <1>3, <1>4, <1>5, <1>6, <1>7, <1>8, <1>9, <1>10, <1>11

-----------------------------------------------------------------------------
(* The operators. *)

\* Reports chained behind others.
LEMMA AppendTells ==
    ASSUME NEW ts \in Seq(Reports), NEW at, TellsOf(ts, at), NEW t \in Reports, t.of # "turn"
    PROVE  Append(ts, t) \in Seq(Reports) /\ TellsOf(Append(ts, t), at)
<1>1. Append(ts, t) \in Seq(Reports)
    OBVIOUS
<1>2. ASSUME NEW i \in DOMAIN Append(ts, t), Append(ts, t)[i].of = "turn" PROVE i \in DOMAIN ts /\ ts[i].of = "turn"
    BY <1>2
<1>. QED BY <1>1, <1>2 DEF TellsOf

LEMMA AlsoTells ==
    ASSUME NEW ts \in Seq(Reports), NEW at, TellsOf(ts, at), NEW t \in Reports, t.of # "turn"
    PROVE  Also(ts, t) \in Seq(Reports) /\ TellsOf(Also(ts, t), at)
BY AppendTells DEF Also

LEMMA TailTells ==
    ASSUME NEW ts \in Seq(Reports), NEW at, TellsOf(ts, at), ts # <<>>
    PROVE  /\ Head(ts) \in Reports /\ Tail(ts) \in Seq(Reports) /\ TellsOf(Tail(ts), at)
           /\ Head(ts).of = "turn" => at = "opening" /\ \A b : TellsOf(Tail(ts), b)
<1>1. Head(ts) \in Reports /\ Tail(ts) \in Seq(Reports) /\ Head(ts) = ts[1] /\ 1 \in DOMAIN ts
    OBVIOUS
<1>2. \A i \in DOMAIN Tail(ts) : i + 1 \in DOMAIN ts /\ Tail(ts)[i] = ts[i + 1] /\ i \in Nat \ {0}
    OBVIOUS
<1>3. TellsOf(Tail(ts), at)
    BY <1>2 DEF TellsOf
<1>4. Head(ts).of = "turn" => at = "opening" /\ \A b : TellsOf(Tail(ts), b)
  <2>1. SUFFICES ASSUME Head(ts).of = "turn" PROVE at = "opening" /\ \A i \in DOMAIN Tail(ts) : Tail(ts)[i].of # "turn"
      BY DEF TellsOf
  <2>2. at = "opening"
      BY <1>1, <2>1 DEF TellsOf
  <2>3. ASSUME NEW i \in DOMAIN Tail(ts), Tail(ts)[i].of = "turn" PROVE FALSE
    <3>1. 1 = i + 1
        BY <1>1, <1>2, <2>1, <2>3 DEF TellsOf
    <3>. QED BY <1>2, <3>1
  <2>. QED BY <2>2, <2>3
<1>. QED BY <1>1, <1>3, <1>4

LEMMA NoTurnTold ==
    ASSUME NEW ts, NEW at, at # "opening", TellsOf(ts, at)
    PROVE  \A b : TellsOf(ts, b)
BY DEF TellsOf

LEMMA TurnTold ==
    ASSUME NEW ts \in Seq(Reports), NEW at, at # "opening", TellsOf(ts, at), NEW t \in Reports, t.of = "turn"
    PROVE  Append(ts, t) \in Seq(Reports) /\ TellsOf(Append(ts, t), "opening")
<1>1. \A i \in DOMAIN ts : ts[i].of # "turn"
    BY DEF TellsOf
<1>2. ASSUME NEW i \in DOMAIN Append(ts, t), Append(ts, t)[i].of = "turn" PROVE i = Len(ts) + 1
    BY <1>1, <1>2
<1>. QED BY <1>2 DEF TellsOf

LEMMA ReportsTyped ==
    ASSUME NEW of \in {"rest", "drive", "recovery", "reclose", "pass", "close", "turn", "ask"}, NEW by \in Responses \cup {None}
    PROVE  Tell(of, by) \in Reports /\ Tell(of, by).of = of /\ Tell(of, by).by = by
BY DEF Tell, Reports

\* What the isolate chains when it rests, when the owner acted, and when a drive arms.
LEMMA RestTells ==
    ASSUME NEW ts \in Seq(Reports), NEW at, TellsOf(ts, at)
    PROVE  /\ WithRest(ts) \in Seq(Reports) /\ TellsOf(WithRest(ts), at)
           /\ WithAsk(ts) \in Seq(Reports) /\ TellsOf(WithAsk(ts), at)
<1>1. PICK t \in Reports : t = Tell("rest", None) /\ t.of # "turn"
    BY ReportsTyped
<1>2. PICK u \in Reports : u = Tell("ask", None) /\ u.of # "turn"
    BY ReportsTyped
<1>3. Also(ts, t) \in Seq(Reports) /\ TellsOf(Also(ts, t), at)
    BY <1>1, AlsoTells
<1>4. Also(ts, u) \in Seq(Reports) /\ TellsOf(Also(ts, u), at)
    BY <1>2, AlsoTells
<1>. QED BY <1>1, <1>2, <1>3, <1>4 DEF WithRest, WithAsk

LEMMA ArmTells ==
    ASSUME TurnTells, NEW s \in Responses, NEW of \in {"drive", "recovery", "reclose", "pass", "close"}
    PROVE  /\ Append(tells, Tell(of, s)) \in Seq(Reports) /\ TellsOf(Append(tells, Tell(of, s)), pump.at)
           /\ WithArm(s) \in Seq(Reports) /\ TellsOf(WithArm(s), pump.at)
<1>1. PICK t \in Reports : t = Tell(of, s) /\ t.of # "turn"
    BY ReportsTyped
<1>2. PICK u \in Reports : u = Tell("drive", s) /\ u.of # "turn"
    BY ReportsTyped
<1>3. tells \in Seq(Reports) /\ TellsOf(tells, pump.at)
    BY DEF TurnTells
<1>4. Append(tells, t) \in Seq(Reports) /\ TellsOf(Append(tells, t), pump.at)
    BY <1>1, <1>3, AppendTells
<1>5. Append(tells, u) \in Seq(Reports) /\ TellsOf(Append(tells, u), pump.at)
    BY <1>2, <1>3, AppendTells
<1>. QED BY <1>1, <1>2, <1>3, <1>4, <1>5 DEF WithArm

LEMMA WrittenRow ==
    ASSUME row \in RowTables, NEW s \in Responses, NEW e \in Effects, NEW st \in Statuses
    PROVE  /\ Written(s, e, st) \in RowTables
           /\ \A r \in Responses, f \in Effects :
                  Written(s, e, st)[r][f] =
                      IF r = s /\ f = e /\ row[s][e] \notin {"none", "completed"} THEN st ELSE row[r][f]
BY DEF Written, RowTables

LEMMA ReleasedRow ==
    ASSUME row \in RowTables
    PROVE  /\ ReleasedRows \in RowTables
           /\ \A r \in Responses, f \in Effects :
                  ReleasedRows[r][f] = IF row[r][f] = "parked" THEN "pending" ELSE row[r][f]
BY DEF ReleasedRows, RowTables, Statuses

LEMMA PrunedRow ==
    ASSUME row \in RowTables, NEW s \in Responses
    PROVE  /\ Pruned(s) \in RowTables
           /\ \A r \in Responses, f \in Effects :
                  Pruned(s)[r][f] = IF r = s /\ row[r][f] = "completed" THEN "none" ELSE row[r][f]
BY DEF Pruned, RowTables, Statuses

LEMMA ClaimedRow ==
    ASSUME row \in RowTables, NEW s \in Responses, NEW owed \in SUBSET Effects, \A f \in Effects : row[s][f] = "none"
    PROVE  /\ ClaimRows(s, owed) \in RowTables
           /\ \A f \in Effects : ClaimRows(s, owed)[s][f] = IF f \in owed THEN "pending" ELSE "none"
           /\ \A r \in Responses \ {s}, f \in Effects :
                  ClaimRows(s, owed)[r][f] =
                      IF f \in owed \cap Coalesced /\ row[r][f] \in {"pending", "parked"} THEN "completed"
                      ELSE IF row[r][f] = "parked" THEN "pending" ELSE row[r][f]
BY DEF ClaimRows, RowTables, Statuses

\* Rows that only move towards their end.
LEMMA RowsShrink ==
    ASSUME LedgerKept, AnsweredKept, row' \in RowTables, UNCHANGED <<claim, answered, repeated>>,
           \A r \in Responses, f \in Effects :
               /\ row'[r][f] \in {"pending", "parked"} => row[r][f] \in {"pending", "parked"}
               /\ row[r][f] = "none" => row'[r][f] = "none"
    PROVE  SettledOwesNothing' /\ OneCoalesced' /\ AnsweredKept'
<1>1. SettledOwesNothing'
    BY DEF LedgerKept, SettledOwesNothing
<1>2. OneCoalesced'
  <2>1. SUFFICES ASSUME NEW e \in Coalesced, NEW r \in Responses, NEW s \in Responses,
                        row'[r][e] \in {"pending", "parked"}, row'[s][e] \in {"pending", "parked"}
                 PROVE  r = s
      BY DEF OneCoalesced
  <2>2. e \in Effects
      BY TerminalEffectsAssumption DEF Detached
  <2>3. row[r][e] \in {"pending", "parked"} /\ row[s][e] \in {"pending", "parked"}
      BY <2>1, <2>2
  <2>. QED BY <2>3 DEF LedgerKept, OneCoalesced
<1>3. AnsweredKept'
  <2>1. ASSUME NEW x \in answered PROVE claim'[x[1]] = "open" /\ row'[x[1]][x[2]] \in {"none", "completed"}
    <3>1. x[1] \in Responses /\ x[2] \in Effects
        BY DEF AnsweredKept, Rows
    <3>2. claim[x[1]] = "open" /\ row[x[1]][x[2]] \in {"none", "completed"}
        BY DEF AnsweredKept
    <3>3. row'[x[1]][x[2]] \notin {"pending", "parked"} /\ row'[x[1]][x[2]] \in Statuses
        BY <3>1, <3>2 DEF RowTables
    <3>. QED BY <3>2, <3>3 DEF Statuses
  <2>. QED BY <2>1 DEF AnsweredKept
<1>. QED BY <1>1, <1>2, <1>3

-----------------------------------------------------------------------------
(* Drives. *)

\* A drive a step leaves alone.
LEMMA OtherDrive ==
    ASSUME IInv, NEW f \in drives, f.seq \in inFlight', claim[f.seq] = "open" => claim'[f.seq] = "open",
           \A e \in Inline : claim[f.seq] = "open" /\ row[f.seq][e] = "pending" => row'[f.seq][e] = "pending",
           \A e \in Effects : <<f.seq, e>> \in answered' => <<f.seq, e>> \in answered, UNCHANGED owner
    PROVE  DriveKept(f)'
<1>1. f \in DriveRecords /\ DriveKept(f)
    BY DEF IInv, DrivesKept
<1>2. f.todo \in SUBSET Effects
    BY <1>1 DEF DriveRecords
<1>3. ASSUME NEW e \in f.todo PROVE <<f.seq, e>> \notin answered' /\ (e \in Inline => row'[f.seq][e] = "pending")
    BY <1>1, <1>2 DEF DriveKept
<1>. QED BY <1>1, <1>3 DEF DriveKept, owner

\* One drive moves on.
LEMMA DriveMoves ==
    ASSUME IInv, NEW d \in drives, NEW m \in DriveRecords, m.seq = d.seq, drives' = Replace(d, m), DriveKept(m)',
           inFlight' = inFlight, UNCHANGED <<claim, owner>>,
           \A r \in Responses, e \in Effects : r # d.seq => row'[r][e] = row[r][e],
           \A r \in Responses, e \in Effects : r # d.seq /\ <<r, e>> \in answered' => <<r, e>> \in answered
    PROVE  DrivesKept'
<1>1. /\ inFlight \subseteq Responses /\ drives \subseteq DriveRecords
      /\ \A f, g \in drives : f.seq = g.seq => f = g
    BY DEF IInv, DrivesKept
<1>2. drives' = (drives \ {d}) \cup {m}
    BY DEF Replace
<1>3. ASSUME NEW f \in drives \ {d} PROVE DriveKept(f)' /\ f.seq # d.seq
  <2>1. f.seq # d.seq /\ f.seq \in Responses
      BY <1>1 DEF DriveRecords
  <2>2. f.seq \in inFlight
      BY DEF IInv, DrivesKept, DriveKept
  <2>3. /\ \A e \in Inline : row'[f.seq][e] = row[f.seq][e]
        /\ \A e \in Effects : <<f.seq, e>> \in answered' => <<f.seq, e>> \in answered
      BY <2>1, TerminalEffectsAssumption
  <2>4. claim'[f.seq] = claim[f.seq]
      OBVIOUS
  <2>. QED BY <2>1, <2>2, <2>3, <2>4, OtherDrive
<1>4. \A f \in drives' : DriveKept(f)'
    BY <1>2, <1>3
<1>5. \A f, g \in drives' : f.seq = g.seq => f = g
    BY <1>1, <1>2, <1>3
<1>. QED BY <1>1, <1>2, <1>4, <1>5 DEF DrivesKept

\* The owner acted while attempts were running.
LEMMA DrivesReleased ==
    ASSUME IInv, drives' = AfterRelease(drives), UNCHANGED <<inFlight, answered>>,
           \A r \in Responses : claim[r] = "open" => claim'[r] = "open",
           \A r \in Responses, e \in Inline : claim[r] = "open" /\ row[r][e] = "pending" => row'[r][e] = "pending"
    PROVE  DrivesKept' /\ (drives = {} => drives' = {})
<1>1. /\ inFlight \subseteq Responses /\ drives \subseteq DriveRecords
      /\ \A f, g \in drives : f.seq = g.seq => f = g
    BY DEF IInv, DrivesKept
<1>2. ASSUME NEW m \in drives'
      PROVE  m \in DriveRecords /\ DriveKept(m)' /\ \E d \in drives : m = [d EXCEPT !.released = d.run # {}] /\ m.seq = d.seq
  <2>1. PICK d \in drives : m = [d EXCEPT !.released = d.run # {}]
      BY DEF AfterRelease
  <2>2. d \in DriveRecords /\ DriveKept(d)
      BY <1>1 DEF IInv, DrivesKept
  <2>3. /\ m \in DriveRecords /\ m.seq = d.seq /\ m.stage = d.stage /\ m.todo = d.todo /\ m.run = d.run
        /\ m.refused = d.refused /\ m.released = (d.run # {})
      BY <2>1, <2>2 DEF DriveRecords
  <2>4. d.seq \in Responses /\ d.todo \in SUBSET Effects
      BY <2>2 DEF DriveRecords
  <2>5. claim[d.seq] = "open" => claim'[d.seq] = "open"
      BY <2>4
  <2>6. ASSUME NEW e \in d.todo PROVE <<d.seq, e>> \notin answered' /\ (e \in Inline => row'[d.seq][e] = "pending")
      BY <2>2, <2>4 DEF DriveKept
  <2>7. DriveKept(m)'
    <3>1. m.seq \in inFlight' /\ m.todo \cap m.run = {} /\ m.run \cap Sync = {}
        BY <2>2, <2>3 DEF DriveKept
    <3>2. m.todo \cup m.run # {} => claim'[m.seq] = "open"
        BY <2>2, <2>3, <2>5 DEF DriveKept
    <3>3. \A e \in m.todo : <<m.seq, e>> \notin answered' /\ (e \in Inline => row'[m.seq][e] = "pending")
        BY <2>3, <2>6
    <3>4. (m.refused => m.run # {}) /\ (m.refused /\ ~m.released => broken' \/ telling')
        BY <2>2, <2>3 DEF DriveKept
    <3>. QED BY <3>1, <3>2, <3>3, <3>4 DEF DriveKept
  <2>. QED BY <2>1, <2>3, <2>7
<1>3. \A m, n \in drives' : m.seq = n.seq => m = n
    BY <1>1, <1>2
<1>4. drives = {} => drives' = {}
    BY DEF AfterRelease
<1>. QED BY <1>1, <1>2, <1>3, <1>4 DEF DrivesKept

\* A drive begins.
LEMMA DriveBegins ==
    ASSUME IInv, NEW s \in Responses, s \notin inFlight, inFlight' = inFlight \cup {s}, drives' = drives \cup {Drive(s)},
           UNCHANGED <<claim, row, answered, owner>>
    PROVE  DrivesKept'
<1>1. /\ inFlight \subseteq Responses /\ drives \subseteq DriveRecords
      /\ \A f, g \in drives : f.seq = g.seq => f = g
    BY DEF IInv, DrivesKept
<1>2. PICK m \in DriveRecords : /\ m = Drive(s) /\ m.seq = s /\ m.todo = {e \in Effects : <<s, e>> \in due}
                                /\ m.run = {} /\ ~m.refused
  <2>. DEFINE n == Drive(s)
  <2>1. n \in DriveRecords /\ n.seq = s /\ n.todo = {e \in Effects : <<s, e>> \in due} /\ n.run = {} /\ ~n.refused
      BY DEF Drive, DriveRecords
  <2>. QED BY <2>1
<1>3. ASSUME NEW e \in m.todo PROVE row[s][e] = "pending" /\ <<s, e>> \notin answered /\ claim[s] = "open"
  <2>1. e \in Effects /\ <<s, e>> \in due
      BY <1>2
  <2>2. row[s][e] = "pending"
    <3>1. \A x \in due : row[x[1]][x[2]] = "pending"
        BY DEF IInv, LedgerKept, StatusOf
    <3>. QED BY <2>1, <3>1
  <2>3. claim[s] = "open"
      BY <2>1, <2>2 DEF IInv, LedgerKept, SettledOwesNothing
  <2>4. <<s, e>> \notin answered
    <3>1. \A x \in answered : row[x[1]][x[2]] \in {"none", "completed"}
        BY DEF IInv, AnsweredKept
    <3>. QED BY <2>2, <3>1
  <2>. QED BY <2>2, <2>3, <2>4
<1>4. DriveKept(m)'
    BY <1>2, <1>3 DEF DriveKept
<1>5. ASSUME NEW f \in drives PROVE DriveKept(f)' /\ f.seq # s
  <2>1. DriveKept(f)
      BY DEF IInv, DrivesKept
  <2>. QED BY <2>1 DEF DriveKept, owner
<1>6. drives' = drives \cup {m} /\ inFlight' \subseteq Responses
    BY <1>1, <1>2
<1>7. \A f, g \in drives' : f.seq = g.seq => f = g
    BY <1>1, <1>2, <1>5, <1>6
<1>. QED BY <1>1, <1>4, <1>5, <1>6, <1>7 DEF DrivesKept

\* A drive leaves.
LEMMA DriveLeaves ==
    ASSUME IInv, NEW d \in drives, inFlight' = inFlight \ {d.seq}, drives' = drives \ {d}, UNCHANGED owner,
           \A r \in Responses : r # d.seq => claim'[r] = claim[r],
           \A r \in Responses, e \in Effects : r # d.seq => row'[r][e] = row[r][e],
           answered' \subseteq answered
    PROVE  DrivesKept'
<1>1. /\ inFlight \subseteq Responses /\ drives \subseteq DriveRecords
      /\ \A f, g \in drives : f.seq = g.seq => f = g
    BY DEF IInv, DrivesKept
<1>2. ASSUME NEW f \in drives \ {d} PROVE DriveKept(f)'
  <2>1. f.seq # d.seq /\ f.seq \in Responses
      BY <1>1 DEF DriveRecords
  <2>2. f.seq \in inFlight'
      BY <2>1 DEF IInv, DrivesKept, DriveKept
  <2>3. \A e \in Inline : row'[f.seq][e] = row[f.seq][e]
      BY <2>1, TerminalEffectsAssumption
  <2>. QED BY <2>1, <2>2, <2>3, OtherDrive
<1>. QED BY <1>1, <1>2 DEF DrivesKept

-----------------------------------------------------------------------------
(* The chat loop. *)

\* A step that arms the wake, or is taken while the wake stands for what is under way.
LEMMA Awake ==
    ASSUME IInv, UNCHANGED owner,
           \/ wake' = TRUE
           \/ wake' = wake /\ (pump.at # "idle" \/ (queue # <<>> /\ ~question) \/ run # None \/ OnClock)
    PROVE  WakeKept'
BY DEF IInv, WakeKept, Woken, owner

LEMMA IdleTyped == Idle \in PumpItems /\ Idle.at = "idle" /\ Idle.item = None
BY DEF Idle, PumpItems

LEMMA PumpMoves ==
    ASSUME IInv, NEW at \in {"opening", "open"} \cup Late
    PROVE  /\ [pump EXCEPT !.at = at] \in PumpItems /\ [pump EXCEPT !.at = at].at = at
           /\ [pump EXCEPT !.at = at].seq = pump.seq /\ [pump EXCEPT !.at = at].item = pump.item
BY DEF IInv, PumpRun, PumpItems, Late

LEMMA TakeMessagePreserves ==
    ASSUME IInv, NEW s \in Responses, TakeMessage(s)
    PROVE  IInv'
<1>1. /\ pump.at = "idle" /\ run = None /\ up' = TRUE /\ pump' = Taken(s, None, FALSE) /\ wake' = TRUE
      /\ tells' = WithRest(tells)
      /\ UNCHANGED <<claim, row, due, run, disk, receipts, question, owner, inFlight, drives, sweeps, queue, history>>
    BY DEF TakeMessage
<1>2. pump' \in PumpItems /\ pump'.at = "taken" /\ pump'.item = None
    BY <1>1 DEF Taken, PumpItems
<1>3. FlagsTyped' /\ PumpRun'
    BY <1>1, <1>2 DEF IInv, FlagsTyped, PumpRun, Early, Late, owner, history
<1>4. TurnTells'
  <2>1. tells \in Seq(Reports) /\ TellsOf(tells, pump.at)
      BY DEF IInv, TurnTells
  <2>2. WithRest(tells) \in Seq(Reports) /\ TellsOf(WithRest(tells), pump.at)
      BY <2>1, RestTells
  <2>3. TellsOf(WithRest(tells), pump'.at)
      BY <1>1, <2>2, NoTurnTold
  <2>. QED BY <1>1, <2>2, <2>3 DEF TurnTells
<1>5. FollowUpsKept'
  <2>1. None \notin Identities
      BY TerminalEffectsAssumption
  <2>2. \A i \in DOMAIN queue : queue[i] \in Identities
      BY DEF IInv, FollowUpsKept
  <2>. QED BY <1>1, <1>2, <2>1, <2>2 DEF IInv, FollowUpsKept, history
<1>6. Down' /\ WakeKept'
    BY <1>1, Awake DEF Down
<1>. QED BY <1>1, <1>3, <1>4, <1>5, <1>6, Frame DEF IInv, history

LEMMA TakeFollowUpPreserves ==
    ASSUME IInv, NEW s \in Responses \cup {None}, TakeFollowUp(s)
    PROVE  IInv'
<1>1. /\ pump.at = "idle" /\ run = None /\ pump' = Taken(s, Head(queue), FALSE) /\ queue' = Tail(queue)
      /\ UNCHANGED <<durable, owner, up, inFlight, drives, sweeps, tells, history>>
    BY DEF TakeFollowUp
<1>2. queue # <<>> /\ ~question
    BY <1>1 DEF TakeFollowUp, Runnable, Reopened
<1>3. queue \in Seq(Identities) /\ Head(queue) \in Identities /\ Head(queue) = queue[1] /\ 1 \in DOMAIN queue
    BY <1>2 DEF IInv, FollowUpsKept
<1>4. pump' \in PumpItems /\ pump'.at = "taken" /\ pump'.item = Head(queue)
    BY <1>1, <1>3 DEF Taken, PumpItems
<1>5. PumpRun'
    BY <1>1, <1>4 DEF IInv, PumpRun, Early, Late, durable
<1>6. TurnTells'
  <2>1. tells \in Seq(Reports) /\ TellsOf(tells, pump.at)
      BY DEF IInv, TurnTells
  <2>2. TellsOf(tells, pump'.at)
      BY <1>1, <2>1, NoTurnTold
  <2>. QED BY <1>1, <2>1, <2>2 DEF TurnTells
<1>7. Down'
    BY <1>1, <1>2 DEF IInv, Down
<1>8. FollowUpsKept'
  <2>1. \A i \in DOMAIN Tail(queue) : i + 1 \in DOMAIN queue /\ Tail(queue)[i] = queue[i + 1] /\ i \in Nat \ {0}
      BY <1>2, <1>3
  <2>2. Tail(queue) \in Seq(Identities)
      BY <1>2, <1>3
  <2>3. \A i, j \in DOMAIN queue : queue[i] = queue[j] => i = j
      BY DEF IInv, FollowUpsKept
  <2>4. \A i \in DOMAIN queue : queue[i] \notin disk
      BY DEF IInv, FollowUpsKept
  <2>5. \A i, j \in DOMAIN Tail(queue) : Tail(queue)[i] = Tail(queue)[j] => i = j
      BY <2>1, <2>3
  <2>6. ASSUME NEW i \in DOMAIN Tail(queue) PROVE Tail(queue)[i] \notin disk /\ Head(queue) # Tail(queue)[i]
    <3>1. i + 1 # 1
        BY <2>1
    <3>. QED BY <1>3, <2>1, <2>3, <2>4, <3>1
  <2>7. Head(queue) \notin disk
      BY <1>3, <2>4
  <2>. QED BY <1>1, <1>4, <2>2, <2>5, <2>6, <2>7 DEF IInv, FollowUpsKept, durable, history
<1>9. WakeKept'
    BY <1>1, <1>2, Awake DEF durable
<1>. QED BY <1>1, <1>5, <1>6, <1>7, <1>8, <1>9, Frame DEF IInv, durable, history

LEMMA TakeReopenedPreserves ==
    ASSUME IInv, TakeReopened
    PROVE  IInv'
<1>1. /\ up /\ run # None /\ pump.at = "idle" /\ pump' = Taken(run.seq, run.item, TRUE)
      /\ UNCHANGED <<durable, owner, up, inFlight, drives, sweeps, queue, tells, history>>
    BY DEF TakeReopened, Reopened
<1>2. run \in Runs /\ run.seq \in Responses \cup {None} /\ run.item \in Identities \cup {None}
    BY <1>1 DEF IInv, PumpRun, Runs
<1>3. pump' \in PumpItems /\ pump'.at = "taken" /\ pump'.item = run.item /\ pump'.seq = run.seq
    BY <1>1, <1>2 DEF Taken, PumpItems
<1>4. PumpRun'
    BY <1>1, <1>3 DEF IInv, PumpRun, Early, Late, durable
<1>5. TurnTells'
  <2>1. tells \in Seq(Reports) /\ TellsOf(tells, pump.at)
      BY DEF IInv, TurnTells
  <2>2. TellsOf(tells, pump'.at)
      BY <1>1, <2>1, NoTurnTold
  <2>. QED BY <1>1, <2>1, <2>2 DEF TurnTells
<1>6. Down' /\ WakeKept'
    BY <1>1, Awake DEF Down, durable
<1>7. FollowUpsKept'
    BY <1>1, <1>3 DEF IInv, FollowUpsKept, durable, history
<1>. QED BY <1>1, <1>4, <1>5, <1>6, <1>7, Frame DEF IInv, durable, history

\* The owner's act on the rows: nothing stays parked.
LEMMA OwnerActedKeeps ==
    ASSUME IInv, OwnerActed, UNCHANGED <<claim, answered, inFlight, repeated>>
    PROVE  LedgerKept' /\ AnsweredKept' /\ DrivesKept' /\ (drives = {} => drives' = {})
<1>1. /\ claim \in [Responses -> {"none", "open", "settled"}] /\ row \in RowTables
      /\ due \subseteq {x \in Rows : StatusOf(x) = "pending"} /\ LedgerKept /\ AnsweredKept
    BY DEF IInv, LedgerKept
<1>2. /\ row' \in RowTables
      /\ \A r \in Responses, f \in Effects : row'[r][f] = IF row[r][f] = "parked" THEN "pending" ELSE row[r][f]
    BY <1>1, ReleasedRow DEF OwnerActed
<1>3. \A r \in Responses, f \in Effects :
          /\ row'[r][f] \in {"pending", "parked"} => row[r][f] \in {"pending", "parked"}
          /\ row[r][f] = "none" => row'[r][f] = "none"
          /\ row'[r][f] # "parked"
          /\ row[r][f] \in {"pending", "parked"} => row'[r][f] = "pending"
    BY <1>2
<1>4. SettledOwesNothing' /\ OneCoalesced' /\ AnsweredKept'
    BY <1>1, <1>2, <1>3, RowsShrink
<1>5. due' \subseteq {x \in Rows : row'[x[1]][x[2]] = "pending"}
  <2>1. ASSUME NEW x \in due' PROVE x \in Rows /\ row'[x[1]][x[2]] = "pending"
    <3>1. x \in Rows /\ row[x[1]][x[2]] \in {"pending", "parked"}
        BY <1>1 DEF OwnerActed, ParkedRows, StatusOf
    <3>. QED BY <1>3, <3>1 DEF Rows
  <2>. QED BY <2>1
<1>6. ParkedWaitsOnOwner'
    BY <1>3 DEF ParkedWaitsOnOwner, ParkedRows, StatusOf, Rows
<1>7. LedgerKept'
    BY <1>1, <1>2, <1>4, <1>5, <1>6 DEF LedgerKept, StatusOf
<1>8. \A r \in Responses, e \in Inline : claim[r] = "open" /\ row[r][e] = "pending" => row'[r][e] = "pending"
    BY <1>3, TerminalEffectsAssumption
<1>9. \A r \in Responses : claim[r] = "open" => claim'[r] = "open"
    OBVIOUS
<1>10. DrivesKept' /\ (drives = {} => drives' = {})
    BY <1>8, <1>9, DrivesReleased DEF OwnerActed
<1>. QED BY <1>4, <1>7, <1>10

LEMMA OpenTurnPreserves ==
    ASSUME IInv, OpenTurn
    PROVE  IInv'
<1>1. /\ pump.at = "taken" /\ pump' = [pump EXCEPT !.at = "opening"]
      /\ run' = IF run = None THEN [seq |-> pump.seq, item |-> pump.item, tool |-> FALSE] ELSE run
      /\ UNCHANGED <<claim, wake, disk, receipts, owner, up, inFlight, sweeps, queue, history>>
    BY DEF OpenTurn
<1>2. /\ pump' \in PumpItems /\ pump'.at = "opening" /\ pump'.seq = pump.seq /\ pump'.item = pump.item
      /\ pump.seq \in Responses \cup {None} /\ pump.item \in Identities \cup {None}
    BY <1>1, PumpMoves DEF IInv, PumpRun, PumpItems
<1>3. /\ run' \in Runs /\ run' # None /\ run'.seq = pump.seq /\ run'.item = pump.item
      /\ run'.tool => run # None /\ run' = run
  <2>1. CASE run = None
    <3>1. /\ run' = [seq |-> pump.seq, item |-> pump.item, tool |-> FALSE]
        BY <1>1, <2>1
    <3>2. run' \in Runs /\ run'.seq = pump.seq /\ run'.item = pump.item /\ ~run'.tool
        BY <1>2, <3>1 DEF Runs
    <3>. QED BY <3>2, TerminalEffectsAssumption
  <2>2. CASE run # None
      BY <1>1, <2>2 DEF IInv, PumpRun, Early
  <2>. QED BY <2>1, <2>2
<1>4. PumpRun'
    BY <1>2, <1>3 DEF IInv, PumpRun, Early, Late
<1>5. TurnTells'
  <2>1. tells \in Seq(Reports) /\ TellsOf(tells, pump.at) /\ pump.at # "opening"
      BY <1>1 DEF IInv, TurnTells
  <2>2. WithAsk(tells) \in Seq(Reports) /\ TellsOf(WithAsk(tells), pump.at)
      BY <2>1, RestTells
  <2>3. PICK t \in Reports : t = Tell("turn", None) /\ t.of = "turn"
      BY ReportsTyped
  <2>4. Append(tells, t) \in Seq(Reports) /\ TellsOf(Append(tells, t), "opening")
      BY <2>1, <2>3, TurnTold
  <2>5. Append(WithAsk(tells), t) \in Seq(Reports) /\ TellsOf(Append(WithAsk(tells), t), "opening")
      BY <2>1, <2>2, <2>3, TurnTold
  <2>6. tells' = Append(tells, t) \/ tells' = Append(WithAsk(tells), t)
      BY <2>3 DEF OpenTurn
  <2>. QED BY <1>2, <2>4, <2>5, <2>6 DEF TurnTells
<1>6. up /\ up'
    BY <1>1 DEF IInv, Down, FlagsTyped
<1>7. Down' /\ WakeKept'
    BY <1>1, <1>6, Awake DEF Down
<1>8. FollowUpsKept'
    BY <1>1, <1>2, <1>3 DEF IInv, FollowUpsKept, Early, history
<1>9. ReceiptsHeld'
    BY <1>1, <1>3 DEF IInv, ReceiptsHeld, ReceiptsKept
<1>10. FlagsTyped'
    BY <1>1 DEF OpenTurn, IInv, FlagsTyped, owner, history
<1>11. LedgerKept' /\ AnsweredKept' /\ DrivesKept'
  <2>1. CASE question' = FALSE /\ OwnerActed
      BY <1>1, <2>1, OwnerActedKeeps DEF history
  <2>2. CASE UNCHANGED <<question, row, due, drives>>
      BY <1>1, <2>2, Frame DEF history
  <2>. QED BY <2>1, <2>2 DEF OpenTurn
<1>. QED BY <1>1, <1>4, <1>5, <1>7, <1>8, <1>9, <1>10, <1>11, Frame DEF IInv

LEMMA TurnArmedPreserves ==
    ASSUME IInv, TurnArmed
    PROVE  IInv'
<1>1. /\ tells # <<>> /\ Head(tells).of = "turn" /\ tells' = Tail(tells) /\ wake' = TRUE
      /\ pump' = [pump EXCEPT !.at = "open"]
      /\ UNCHANGED <<claim, row, due, run, disk, receipts, question, owner, up, inFlight, drives, sweeps, queue, history>>
    BY ReportsTyped DEF TurnArmed, Told
<1>2. pump' \in PumpItems /\ pump'.at = "open" /\ pump'.seq = pump.seq /\ pump'.item = pump.item
    BY <1>1, PumpMoves
<1>3. tells \in Seq(Reports) /\ TellsOf(tells, pump.at)
    BY DEF IInv, TurnTells
<1>4. tells' \in Seq(Reports) /\ pump.at = "opening" /\ (\A b : TellsOf(tells', b))
    BY <1>1, <1>3, TailTells
<1>5. TurnTells'
    BY <1>4 DEF TurnTells
<1>6. PumpRun' /\ FollowUpsKept'
    BY <1>1, <1>2, <1>4 DEF IInv, PumpRun, FollowUpsKept, Early, Late, history
<1>7. up /\ up'
    BY <1>1 DEF IInv, Down
<1>8. Down' /\ WakeKept' /\ FlagsTyped'
    BY <1>1, <1>7, Awake DEF Down, IInv, FlagsTyped, owner, history
<1>. QED BY <1>1, <1>5, <1>6, <1>8, Frame DEF IInv, history

LEMMA RunToolPreserves ==
    ASSUME IInv, RunTool
    PROVE  IInv'
<1>1. /\ pump.at = "open" /\ pump.seq # None /\ run' = [run EXCEPT !.tool = TRUE]
      /\ receipts' = receipts \cup {TurnOf[pump.seq]}
      /\ UNCHANGED <<claim, row, due, wake, disk, question, owner, memory, history>>
    BY DEF RunTool
<1>2. run \in Runs /\ run.seq = pump.seq /\ pump.seq \in Responses
    BY <1>1 DEF IInv, PumpRun, PumpItems, Early
<1>3. run' \in Runs /\ run' # None /\ run'.seq = run.seq /\ run'.item = run.item
  <2>1. run' \in Runs /\ run'.seq = run.seq /\ run'.item = run.item
      BY <1>1, <1>2 DEF Runs
  <2>. QED BY <2>1, TerminalEffectsAssumption
<1>4. PumpRun'
    BY <1>1, <1>2, <1>3 DEF IInv, PumpRun, Early, Late, memory
<1>5. FollowUpsKept'
    BY <1>1, <1>2, <1>3 DEF IInv, PumpRun, FollowUpsKept, memory, history
<1>6. ReceiptsHeld'
  <2>1. TurnOf[pump.seq] \in Turns
      BY <1>2, TerminalEffectsAssumption
  <2>. QED BY <1>1, <1>2, <1>3, <2>1 DEF IInv, ReceiptsHeld, ReceiptsKept
<1>7. WakeKept'
    BY <1>1, Awake DEF memory
<1>. QED BY <1>1, <1>4, <1>5, <1>6, <1>7, Frame DEF IInv, memory, history

LEMMA AskOwnerPreserves ==
    ASSUME IInv, AskOwner
    PROVE  IInv'
<1>1. /\ pump.at = "open" /\ question' = TRUE
      /\ UNCHANGED <<claim, row, due, wake, run, disk, receipts, owner, memory, history>>
    BY DEF AskOwner
<1>2. WakeKept'
    BY <1>1, Awake
<1>3. FlagsTyped'
    BY <1>1 DEF IInv, FlagsTyped, owner, memory, history
<1>4. LedgerKept'
    BY <1>1 DEF IInv, LedgerKept, SettledOwesNothing, OneCoalesced, ParkedWaitsOnOwner, ParkedRows, StatusOf, owner
<1>. QED BY <1>1, <1>2, <1>3, <1>4, Frame DEF IInv, memory, history

\* A run closes: its follow-up turn, if it is one, lands on disk and has ended once.
LEMMA CloseRunKeeps ==
    ASSUME IInv, pump.at \in {"opening", "open"}, CloseRun, NEW at \in Late, pump' = [pump EXCEPT !.at = at],
           at \in {"committed", "settling"} => pump.seq # None, UNCHANGED <<queue, receipts>>
    PROVE  PumpRun' /\ FollowUpsKept' /\ ReceiptsHeld' /\ pump'.at = at
<1>1. pump' \in PumpItems /\ pump'.at = at /\ pump'.seq = pump.seq /\ pump'.item = pump.item
    BY PumpMoves
<1>2. run' = None
    BY DEF CloseRun
<1>3. PumpRun'
    BY <1>1, <1>2 DEF PumpRun, Early, Late
<1>4. ReceiptsHeld'
    BY <1>2 DEF IInv, ReceiptsHeld, ReceiptsKept
<1>5. pump'.at \notin Early
    BY <1>1 DEF Early, Late
<1>6. FollowUpsKept'
  <2>1. CASE pump.item = None
    <3>1. UNCHANGED <<disk, ended>>
        BY <2>1 DEF CloseRun
    <3>. QED BY <1>2, <1>5, <3>1 DEF IInv, FollowUpsKept
  <2>2. CASE pump.item # None
    <3>1. disk' = disk \cup {pump.item} /\ ended' = [ended EXCEPT ![pump.item] = @ + 1]
        BY <2>2 DEF CloseRun
    <3>2. pump.item \in Identities /\ pump.item \notin disk /\ pump.at \in Early
        BY <2>2 DEF IInv, PumpRun, PumpItems, FollowUpsKept, Early
    <3>3. ended \in [Identities -> Nat] /\ (\A k \in Identities : ended[k] = IF k \in disk THEN 1 ELSE 0) /\ disk \subseteq Identities
        BY DEF IInv, FollowUpsKept
    <3>4. ended' \in [Identities -> Nat] /\ disk' \subseteq Identities
        BY <3>1, <3>2, <3>3
    <3>5. \A k \in Identities : ended'[k] = IF k \in disk' THEN 1 ELSE 0
        BY <3>1, <3>2, <3>3
    <3>6. \A i \in DOMAIN queue : queue[i] \notin disk'
        BY <3>1, <3>2 DEF IInv, FollowUpsKept
    <3>7. queue \in Seq(Identities) /\ \A i, j \in DOMAIN queue : queue[i] = queue[j] => i = j
        BY DEF IInv, FollowUpsKept
    <3>. QED BY <1>2, <1>5, <3>4, <3>5, <3>6, <3>7 DEF FollowUpsKept
  <2>. QED BY <2>1, <2>2
<1>. QED BY <1>1, <1>3, <1>4, <1>6

\* The commit of an answer: a roster of new rows, the coalesced ones of others superseded.
LEMMA RecordKeeps ==
    ASSUME IInv, NEW s \in Responses, NEW owed \in SUBSET Effects, Record(s, owed),
           UNCHANGED <<answered, repeated, inFlight, question, owner>>
    PROVE  LedgerKept' /\ AnsweredKept' /\ DrivesKept' /\ (drives = {} => drives' = {})
<1>1. /\ claim \in [Responses -> {"none", "open", "settled"}] /\ row \in RowTables
      /\ due \subseteq {x \in Rows : StatusOf(x) = "pending"} /\ LedgerKept /\ AnsweredKept
    BY DEF IInv, LedgerKept
<1>2. CASE claim[s] # "none"
  <2>1. UNCHANGED <<claim, row, due, drives>>
      BY <1>2 DEF Record
  <2>. QED BY <2>1, Frame
<1>3. CASE claim[s] = "none"
  <2>1. claim' = [claim EXCEPT ![s] = "open"]
      BY <1>3 DEF Record
  <2>2. /\ claim' \in [Responses -> {"none", "open", "settled"}] /\ claim'[s] = "open"
        /\ \A r \in Responses : r # s => claim'[r] = claim[r]
      BY <1>1, <2>1
  <2>3. \A f \in Effects : row[s][f] = "none"
      BY <1>1, <1>3 DEF LedgerKept, SettledOwesNothing
  <2>4. \A r \in Responses : claim[r] = "open" => claim'[r] = "open"
      BY <2>2
  <2>5. CASE owed = {}
    <3>1. UNCHANGED <<row, due, drives>>
        BY <1>3, <2>5 DEF Record
    <3>2. LedgerKept'
        BY <1>1, <2>2, <3>1 DEF LedgerKept, SettledOwesNothing, OneCoalesced, ParkedWaitsOnOwner, ParkedRows, StatusOf, owner
    <3>3. AnsweredKept'
      <4>1. \A x \in answered : x[1] \in Responses
          BY DEF IInv, AnsweredKept, Rows
      <4>. QED BY <2>4, <3>1, <4>1 DEF IInv, AnsweredKept
    <3>4. DrivesKept'
      <4>1. ASSUME NEW f \in drives PROVE DriveKept(f)'
        <5>1. f.seq \in Responses /\ f.seq \in inFlight
            BY DEF IInv, DrivesKept, DriveKept, DriveRecords
        <5>2. claim[f.seq] = "open" => claim'[f.seq] = "open"
            BY <2>4, <5>1
        <5>. QED BY <3>1, <5>1, <5>2, OtherDrive
      <4>. QED BY <3>1, <4>1 DEF IInv, DrivesKept
    <3>. QED BY <3>1, <3>2, <3>3, <3>4
  <2>6. CASE owed # {}
    <3>1. /\ row' = ClaimRows(s, owed) /\ drives' = AfterRelease(drives)
          /\ due' = DueIn(row', due \cup ParkedRows \cup {<<s, e>> : e \in owed})
        BY <1>3, <2>6 DEF Record
    <3>2. /\ row' \in RowTables
          /\ \A f \in Effects : row'[s][f] = IF f \in owed THEN "pending" ELSE "none"
          /\ \A r \in Responses \ {s}, f \in Effects :
                 row'[r][f] = IF f \in owed \cap Coalesced /\ row[r][f] \in {"pending", "parked"} THEN "completed"
                              ELSE IF row[r][f] = "parked" THEN "pending" ELSE row[r][f]
        BY <1>1, <2>3, <3>1, ClaimedRow
    <3>3. due' \subseteq {x \in Rows : row'[x[1]][x[2]] = "pending"}
      <4>1. due \cup ParkedRows \cup {<<s, e>> : e \in owed} \subseteq Rows
          BY <1>1 DEF Rows, ParkedRows
      <4>. QED BY <3>1, <4>1 DEF DueIn
    <3>4. SettledOwesNothing'
        BY <1>1, <2>2, <3>2 DEF LedgerKept, SettledOwesNothing
    <3>5. OneCoalesced'
      <4>1. SUFFICES ASSUME NEW e \in Coalesced, NEW r \in Responses, NEW q \in Responses,
                            row'[r][e] \in {"pending", "parked"}, row'[q][e] \in {"pending", "parked"}
                     PROVE  r = q
          BY DEF OneCoalesced
      <4>2. e \in Effects
          BY TerminalEffectsAssumption DEF Detached
      <4>3. CASE e \in owed
        <5>1. \A p \in Responses \ {s} : row'[p][e] \notin {"pending", "parked"}
            BY <3>2, <4>2, <4>3
        <5>. QED BY <4>1, <5>1
      <4>4. CASE e \notin owed
        <5>1. r # s /\ q # s
            BY <3>2, <4>1, <4>2, <4>4
        <5>2. row[r][e] \in {"pending", "parked"} /\ row[q][e] \in {"pending", "parked"}
            BY <3>2, <4>1, <4>2, <4>4, <5>1
        <5>. QED BY <1>1, <5>2 DEF LedgerKept, OneCoalesced
      <4>. QED BY <4>3, <4>4
    <3>6. ParkedWaitsOnOwner'
      <4>1. \A r \in Responses, f \in Effects : row'[r][f] # "parked"
        <5>1. ASSUME NEW r \in Responses, NEW f \in Effects PROVE row'[r][f] # "parked"
          <6>1. CASE r = s
              BY <3>2, <6>1
          <6>2. CASE r # s
              BY <3>2, <6>2
          <6>. QED BY <6>1, <6>2
        <5>. QED BY <5>1
      <4>. QED BY <4>1 DEF ParkedWaitsOnOwner, ParkedRows, StatusOf, Rows
    <3>7. LedgerKept'
        BY <2>2, <3>2, <3>3, <3>4, <3>5, <3>6 DEF LedgerKept, StatusOf
    <3>8. AnsweredKept'
      <4>1. ASSUME NEW x \in answered PROVE claim'[x[1]] = "open" /\ row'[x[1]][x[2]] \in {"none", "completed"}
        <5>1. /\ x[1] \in Responses /\ x[2] \in Effects /\ claim[x[1]] = "open"
              /\ row[x[1]][x[2]] \in {"none", "completed"}
            BY DEF IInv, AnsweredKept, Rows
        <5>2. x[1] # s
            BY <1>3, <5>1
        <5>3. row'[x[1]][x[2]] = row[x[1]][x[2]]
            BY <3>2, <5>1, <5>2
        <5>. QED BY <2>4, <5>1, <5>3
      <4>. QED BY <4>1 DEF IInv, AnsweredKept
    <3>9. \A r \in Responses, e \in Inline : claim[r] = "open" /\ row[r][e] = "pending" => row'[r][e] = "pending"
      <4>1. ASSUME NEW r \in Responses, NEW e \in Inline, claim[r] = "open", row[r][e] = "pending"
            PROVE  row'[r][e] = "pending"
        <5>1. e \in Effects /\ e \notin Coalesced /\ r # s
            BY <1>3, <4>1, TerminalEffectsAssumption DEF Detached
        <5>. QED BY <3>2, <4>1, <5>1
      <4>. QED BY <4>1
    <3>10. DrivesKept' /\ (drives = {} => drives' = {})
        BY <2>4, <3>1, <3>9, DrivesReleased
    <3>. QED BY <3>7, <3>8, <3>10
  <2>. QED BY <2>5, <2>6
<1>. QED BY <1>2, <1>3

LEMMA CommitPreserves ==
    ASSUME IInv, NEW owed \in Rosters, Commit(owed)
    PROVE  IInv'
<1>1. /\ pump.at = "open" /\ pump.seq # None /\ Record(pump.seq, owed) /\ CloseRun
      /\ pump' = [pump EXCEPT !.at = "committed"]
      /\ UNCHANGED <<wake, receipts, question, owner, up, inFlight, sweeps, queue, tells, answered, repeated, faults>>
    BY DEF Commit
<1>2. pump.seq \in Responses /\ owed \in SUBSET Effects
    BY <1>1, TerminalEffectsAssumption DEF IInv, PumpRun, PumpItems
<1>3. LedgerKept' /\ AnsweredKept' /\ DrivesKept'
    BY <1>1, <1>2, RecordKeeps
<1>4. PumpRun' /\ FollowUpsKept' /\ ReceiptsHeld' /\ pump'.at = "committed"
  <2>1. "committed" \in Late
      BY DEF Late
  <2>. QED BY <1>1, <2>1, CloseRunKeeps
<1>5. up /\ up'
    BY <1>1 DEF IInv, Down, FlagsTyped
<1>6. Down' /\ WakeKept'
    BY <1>1, <1>5, Awake DEF Down
<1>7. TurnTells'
  <2>1. TellsOf(tells, pump'.at)
      BY <1>1, NoTurnTold DEF IInv, TurnTells
  <2>. QED BY <1>1, <2>1 DEF IInv, TurnTells
<1>. QED BY <1>1, <1>3, <1>4, <1>6, <1>7, Frame DEF IInv

LEMMA SettlePreserves ==
    ASSUME IInv, Settle
    PROVE  IInv'
<1>1. pump.at = "committed" /\ UNCHANGED <<durable, owner, up, sweeps, queue, history>>
    BY DEF Settle
<1>2. pump.seq \in Responses
    BY <1>1 DEF IInv, PumpRun, PumpItems
<1>3. PICK at \in {"settling", "ending"} : pump' = [pump EXCEPT !.at = at]
    BY DEF Settle
<1>4. pump' \in PumpItems /\ pump'.at = at /\ pump'.seq = pump.seq /\ pump'.item = pump.item
    BY <1>3, PumpMoves DEF Late
<1>5. PumpRun' /\ FollowUpsKept'
    BY <1>1, <1>2, <1>4 DEF IInv, PumpRun, FollowUpsKept, Early, Late, durable, history
<1>6. up /\ up'
    BY <1>1 DEF IInv, Down, FlagsTyped
<1>7. Down' /\ WakeKept'
    BY <1>1, <1>6, Awake DEF Down, durable
<1>8. TurnTells' /\ DrivesKept'
  <2>1. TurnTells /\ pump.at # "opening"
      BY <1>1 DEF IInv
  <2>2. CASE Enter(pump.seq) /\ claim[pump.seq] = "open"
    <3>1. inFlight' = inFlight \cup {pump.seq} /\ drives' = drives \cup {Drive(pump.seq)} /\ tells' = WithArm(pump.seq)
        BY <2>2 DEF Settle
    <3>2. WithArm(pump.seq) \in Seq(Reports) /\ TellsOf(WithArm(pump.seq), pump.at)
        BY <1>2, <2>1, ArmTells
    <3>3. TellsOf(WithArm(pump.seq), pump'.at)
        BY <2>1, <3>2, NoTurnTold
    <3>4. TurnTells'
        BY <3>1, <3>2, <3>3 DEF TurnTells
    <3>5. DrivesKept'
        BY <1>1, <1>2, <2>2, <3>1, DriveBegins DEF Enter, durable, history
    <3>. QED BY <3>4, <3>5
  <2>3. CASE ~(Enter(pump.seq) /\ claim[pump.seq] = "open")
    <3>1. UNCHANGED <<inFlight, drives, tells>>
        BY <2>3 DEF Settle
    <3>2. TellsOf(tells, pump'.at)
        BY <2>1, NoTurnTold DEF TurnTells
    <3>. QED BY <1>1, <2>1, <3>1, <3>2, Frame DEF TurnTells, durable, history
  <2>. QED BY <2>2, <2>3
<1>. QED BY <1>1, <1>5, <1>7, <1>8, Frame DEF IInv, durable, history

\* The chat may come to rest as the pump goes idle.
LEMMA PumpRests ==
    ASSUME IInv, pump.at \notin {"idle", "opening"}, pump' = Idle, AtRest, UNCHANGED <<run, wake, up, owner, queue, disk, ended>>
    PROVE  PumpRun' /\ FollowUpsKept' /\ TurnTells' /\ Down' /\ WakeKept'
<1>1. pump' \in PumpItems /\ pump'.at = "idle" /\ pump'.item = None
    BY IdleTyped
<1>2. PumpRun' /\ FollowUpsKept'
    BY <1>1 DEF IInv, PumpRun, FollowUpsKept, Early, Late
<1>3. up /\ up'
    BY DEF IInv, Down, FlagsTyped
<1>4. Down' /\ WakeKept'
    BY <1>3, Awake DEF Down
<1>5. tells \in Seq(Reports) /\ TellsOf(tells, pump.at)
    BY DEF IInv, TurnTells
<1>6. WithRest(tells) \in Seq(Reports) /\ TellsOf(WithRest(tells), pump.at)
    BY <1>5, RestTells
<1>7. TellsOf(tells, pump'.at) /\ TellsOf(WithRest(tells), pump'.at)
    BY <1>5, <1>6, NoTurnTold
<1>8. TurnTells'
    BY <1>5, <1>6, <1>7 DEF TurnTells, AtRest
<1>. QED BY <1>2, <1>4, <1>8

LEMMA EndTurnPreserves ==
    ASSUME IInv, EndTurn
    PROVE  IInv'
<1>1. /\ pump.at \in {"ending", "settling"} /\ AtRest /\ pump' = Idle
      /\ UNCHANGED <<claim, row, wake, run, disk, receipts, question, owner, up, inFlight, drives, queue, history>>
    BY DEF EndTurn
<1>2. PumpRun' /\ FollowUpsKept' /\ TurnTells' /\ Down' /\ WakeKept'
    BY <1>1, PumpRests DEF history
<1>3. due' \subseteq due \cup {x \in Rows : StatusOf(x) = "pending"}
    BY DEF EndTurn
<1>4. LedgerKept'
    BY <1>1, <1>3 DEF IInv, LedgerKept, SettledOwesNothing, OneCoalesced, ParkedWaitsOnOwner, ParkedRows, StatusOf, owner
<1>5. SweepsKept'
  <2>1. CASE sweeps' = sweeps
      BY <2>1, Frame
  <2>2. CASE pump.item # None /\ sweeps' = sweeps \cup {Sweep("followUp", pump.item)}
    <3>1. PICK w \in SweepRecords : w = Sweep("followUp", pump.item) /\ w.kind = "followUp"
      <4>. DEFINE v == Sweep("followUp", pump.item)
      <4>1. pump.item \in Identities
          BY <2>2 DEF IInv, PumpRun, PumpItems
      <4>2. v \in SweepRecords /\ v.kind = "followUp"
          BY <4>1 DEF Sweep, SweepRecords, Incomplete
      <4>. QED BY <4>2
    <3>2. sweeps' = sweeps \cup {w}
        BY <2>2, <3>1
    <3>. QED BY <3>1, <3>2 DEF IInv, SweepsKept
  <2>. QED BY <2>1, <2>2 DEF EndTurn
<1>. QED BY <1>1, <1>2, <1>4, <1>5, Frame DEF IInv, history

LEMMA OpenFailsPreserves ==
    ASSUME IInv, OpenFails
    PROVE  IInv'
<1>1. /\ pump.at = "taken" /\ AtRest /\ pump' = Idle
      /\ UNCHANGED <<durable, owner, up, inFlight, drives, sweeps, queue, history>>
    BY DEF OpenFails
<1>2. PumpRun' /\ FollowUpsKept' /\ TurnTells' /\ Down' /\ WakeKept'
    BY <1>1, PumpRests DEF durable, history
<1>. QED BY <1>1, <1>2, Frame DEF IInv, durable, history

LEMMA TurnFailsPreserves ==
    ASSUME IInv, TurnFails
    PROVE  IInv'
<1>1. /\ pump.at = "open" /\ CloseRun /\ pump' = [pump EXCEPT !.at = "ending"]
      /\ UNCHANGED <<claim, row, due, wake, receipts, question, owner, up, inFlight, drives, sweeps, queue, tells,
                     answered, repeated, faults>>
    BY DEF TurnFails
<1>2. PumpRun' /\ FollowUpsKept' /\ ReceiptsHeld' /\ pump'.at = "ending"
  <2>1. "ending" \in Late
      BY DEF Late
  <2>. QED BY <1>1, <2>1, CloseRunKeeps
<1>3. up /\ up'
    BY <1>1 DEF IInv, Down, FlagsTyped
<1>4. Down' /\ WakeKept'
    BY <1>1, <1>3, Awake DEF Down
<1>5. TurnTells'
  <2>1. TellsOf(tells, pump'.at)
      BY <1>1, NoTurnTold DEF IInv, TurnTells
  <2>. QED BY <1>1, <2>1 DEF IInv, TurnTells
<1>. QED BY <1>1, <1>2, <1>4, <1>5, Frame DEF IInv

-----------------------------------------------------------------------------
(* The steps of a drive. *)

\* What is under way says that the isolate has started.
LEMMA Started ==
    ASSUME IInv, drives # {} \/ sweeps # {} \/ tells # <<>>, up' = up
    PROVE  up /\ Down'
BY DEF IInv, Down, FlagsTyped

LEMMA StageMoves ==
    ASSUME IInv, NEW d \in drives, NEW st \in {"arm", "inline", "detached", "rearm", "close"},
           drives' = Replace(d, [d EXCEPT !.stage = st]), UNCHANGED <<inFlight, claim, row, answered, owner>>
    PROVE  DrivesKept'
<1>1. d \in DriveRecords /\ DriveKept(d)
    BY DEF IInv, DrivesKept
<1>2. PICK m \in DriveRecords : /\ m = [d EXCEPT !.stage = st] /\ m.seq = d.seq /\ m.todo = d.todo /\ m.run = d.run
                                /\ m.released = d.released /\ m.refused = d.refused
  <2>. DEFINE n == [d EXCEPT !.stage = st]
  <2>1. /\ n \in DriveRecords /\ n.seq = d.seq /\ n.todo = d.todo /\ n.run = d.run
        /\ n.released = d.released /\ n.refused = d.refused
      BY <1>1 DEF DriveRecords
  <2>. QED BY <2>1
<1>3. DriveKept(m)'
    BY <1>1, <1>2 DEF DriveKept, owner
<1>4. drives' = Replace(d, m)
    BY <1>2
<1>. QED BY <1>2, <1>3, <1>4, DriveMoves

LEMMA ArmWakePreserves ==
    ASSUME IInv, NEW d \in drives, ArmWake(d)
    PROVE  IInv'
<1>1. /\ tells # <<>> /\ tells' = Tail(tells) /\ wake' = TRUE
      /\ UNCHANGED <<claim, row, due, run, disk, receipts, question, owner, up, inFlight, sweeps, queue, pump, history>>
    BY DEF ArmWake, Told
<1>2. PICK st \in {"inline", "close"} : drives' = Replace(d, [d EXCEPT !.stage = st])
  <2>1. d \in DriveRecords
      BY DEF IInv, DrivesKept
  <2>. QED BY <2>1 DEF ArmWake, DriveRecords
<1>3. DrivesKept'
    BY <1>1, <1>2, StageMoves DEF history
<1>4. TurnTells'
  <2>1. tells \in Seq(Reports) /\ TellsOf(tells, pump.at)
      BY DEF IInv, TurnTells
  <2>2. Tail(tells) \in Seq(Reports) /\ TellsOf(Tail(tells), pump.at)
      BY <1>1, <2>1, TailTells
  <2>. QED BY <1>1, <2>2 DEF TurnTells
<1>5. Down' /\ WakeKept'
    BY <1>1, Started, Awake
<1>6. FlagsTyped'
    BY <1>1 DEF IInv, FlagsTyped, owner, history
<1>. QED BY <1>1, <1>3, <1>4, <1>5, <1>6, Frame DEF IInv, history

\* A report is chained behind the others, or behind what the one at the head leaves.
LEMMA TellsAgain ==
    ASSUME IInv, NEW ts, ts = tells \/ (tells # <<>> /\ ts = Tail(tells)),
           NEW by \in Responses \cup {None}, NEW of \in {"recovery", "reclose", "pass", "close"}
    PROVE  Append(ts, Tell(of, by)) \in Seq(Reports) /\ TellsOf(Append(ts, Tell(of, by)), pump.at)
<1>1. tells \in Seq(Reports) /\ TellsOf(tells, pump.at)
    BY DEF IInv, TurnTells
<1>2. ts \in Seq(Reports) /\ TellsOf(ts, pump.at)
    BY <1>1, TailTells
<1>3. PICK t \in Reports : t = Tell(of, by) /\ t.of # "turn"
    BY ReportsTyped
<1>4. Append(ts, t) \in Seq(Reports) /\ TellsOf(Append(ts, t), pump.at)
    BY <1>2, <1>3, AppendTells
<1>. QED BY <1>3, <1>4

LEMMA ArmRefusedPreserves ==
    ASSUME IInv, NEW d \in drives, ArmRefused(d)
    PROVE  IInv'
<1>1. /\ tells # <<>> /\ faults < MaxFaults /\ faults' = faults + 1 /\ inFlight' = inFlight \ {d.seq} /\ drives' = drives \ {d}
      /\ UNCHANGED <<claim, row, due, wake, run, disk, receipts, question, owner, up, sweeps, queue, pump, ended, answered, repeated>>
    BY DEF ArmRefused, Told
<1>2. PICK of \in {"recovery", "reclose"} : tells' = Append(Tail(tells), Tell(of, d.seq))
    BY DEF ArmRefused
<1>3. d.seq \in Responses
    BY DEF IInv, DrivesKept, DriveRecords
<1>4. TurnTells'
    BY <1>1, <1>2, <1>3, TellsAgain DEF TurnTells
<1>5. DrivesKept'
    BY <1>1, DriveLeaves
<1>6. Down'
    BY <1>1, Started
<1>7. FlagsTyped'
    BY <1>1, TerminalEffectsAssumption DEF IInv, FlagsTyped, owner
<1>. QED BY <1>1, <1>4, <1>5, <1>6, <1>7, Frame DEF IInv

LEMMA ReportedPreserves ==
    ASSUME IInv, NEW d \in drives, Reported(d)
    PROVE  IInv'
<1>1. tells' = WithArm(d.seq) /\ UNCHANGED <<durable, owner, up, inFlight, sweeps, queue, pump, history>>
    BY DEF Reported
<1>2. PICK st \in {"rearm", "close"} : drives' = Replace(d, [d EXCEPT !.stage = st])
    BY DEF Reported
<1>3. DrivesKept'
    BY <1>1, <1>2, StageMoves DEF durable, history
<1>4. TurnTells'
  <2>1. TurnTells /\ d.seq \in Responses
      BY DEF IInv, DrivesKept, DriveRecords
  <2>2. WithArm(d.seq) \in Seq(Reports) /\ TellsOf(WithArm(d.seq), pump.at)
      BY <2>1, ArmTells
  <2>. QED BY <1>1, <2>2 DEF TurnTells
<1>5. Down'
    BY <1>1, Started
<1>. QED BY <1>1, <1>3, <1>4, <1>5, Frame DEF IInv, durable, history

\* An attempt of what a drive has still to do is no repetition.
LEMMA FirstAttempt ==
    ASSUME IInv, NEW d \in drives, d.run = {}, NEW es \in SUBSET d.todo, Attempted({<<d.seq, e>> : e \in es})
    PROVE  repeated' = FALSE
<1>1. DriveKept(d) /\ \A f, g \in drives : f.seq = g.seq => f = g
    BY DEF IInv, DrivesKept
<1>2. ASSUME NEW e \in es PROVE <<d.seq, e>> \notin answered /\ ~Running(<<d.seq, e>>)
    BY <1>1 DEF DriveKept, Running
<1>3. repeated = FALSE
    BY DEF IInv, AnsweredKept
<1>. QED BY <1>2, <1>3 DEF Attempted

LEMMA BeginPreserves ==
    ASSUME IInv, NEW d \in drives, d.run = {}, NEW es \in SUBSET d.todo, es \cap Sync = {},
           NEW st \in {"inline", "detached"}, Begin(d, es, st)
    PROVE  IInv'
<1>1. /\ due' = due \ {<<d.seq, e>> : e \in es}
      /\ drives' = Replace(d, [seq |-> d.seq, stage |-> st, todo |-> d.todo \ es, run |-> es,
                               released |-> FALSE, refused |-> broken /\ es # {}])
      /\ UNCHANGED <<claim, row, wake, run, disk, receipts, question, owner, up, inFlight, sweeps, queue, pump, tells,
                     ended, answered, faults>>
    BY DEF Begin
<1>2. repeated' = FALSE
    BY FirstAttempt DEF Begin
<1>3. d \in DriveRecords /\ DriveKept(d) /\ broken \in BOOLEAN
    BY DEF IInv, DrivesKept, FlagsTyped
<1>4. d.seq \in Responses /\ d.todo \in SUBSET Effects
    BY <1>3 DEF DriveRecords
<1>5. PICK m \in DriveRecords : /\ m = [seq |-> d.seq, stage |-> st, todo |-> d.todo \ es, run |-> es,
                                        released |-> FALSE, refused |-> broken /\ es # {}]
                                /\ m.seq = d.seq /\ m.todo = d.todo \ es /\ m.run = es
                                /\ m.refused = (broken /\ es # {})
  <2>. DEFINE n == [seq |-> d.seq, stage |-> st, todo |-> d.todo \ es, run |-> es,
                    released |-> FALSE, refused |-> broken /\ es # {}]
  <2>1. es \in SUBSET Effects /\ d.todo \ es \in SUBSET Effects /\ (broken /\ es # {}) \in BOOLEAN
      BY <1>3, <1>4
  <2>2. /\ n \in DriveRecords /\ n.seq = d.seq /\ n.todo = d.todo \ es /\ n.run = es
        /\ n.refused = (broken /\ es # {})
      BY <1>4, <2>1 DEF DriveRecords
  <2>. QED BY <2>2
<1>6. DriveKept(m)'
    BY <1>1, <1>3, <1>5 DEF DriveKept, owner
<1>7. DrivesKept'
    BY <1>1, <1>5, <1>6, DriveMoves
<1>8. Down'
    BY <1>1, Started
<1>9. AnsweredKept'
    BY <1>1, <1>2 DEF IInv, AnsweredKept
<1>10. LedgerKept'
    BY <1>1 DEF IInv, LedgerKept, SettledOwesNothing, OneCoalesced, ParkedWaitsOnOwner, ParkedRows, StatusOf, owner
<1>. QED BY <1>1, <1>7, <1>8, <1>9, <1>10, Frame DEF IInv

LEMMA BeginInlinePreserves ==
    ASSUME IInv, NEW d \in drives, NEW e \in Effects, BeginInline(d, e)
    PROVE  IInv'
BY BeginPreserves DEF BeginInline, NextInline

LEMMA BeginDetachedPreserves ==
    ASSUME IInv, NEW d \in drives, BeginDetached(d)
    PROVE  IInv'
<1>1. d.run = {} /\ d.todo \cap Inline = {} /\ Begin(d, d.todo, "detached")
    BY DEF BeginDetached
<1>2. d.todo \cap Sync = {}
    BY <1>1, TerminalEffectsAssumption
<1>. QED BY <1>1, <1>2, BeginPreserves

\* One row of an open response moves towards its end, and may answer as it does.
LEMMA RowMoves ==
    ASSUME IInv, NEW s \in Responses, NEW e \in Effects, claim[s] = "open", row' \in RowTables, repeated' = FALSE,
           UNCHANGED <<claim, question, owner>>,
           \A r \in Responses, f \in Effects : r # s \/ f # e => row'[r][f] = row[r][f],
           row'[s][e] \in {"pending", "parked"} => row[s][e] \in {"pending", "parked"},
           row'[s][e] = "parked" => IF e \in FollowUps THEN question ELSE broken \/ telling,
           answered' = answered \/ (answered' = answered \cup {<<s, e>>} /\ row'[s][e] \in {"none", "completed"}),
           due' \subseteq due \cup {<<s, e>>}, <<s, e>> \in due' => row'[s][e] = "pending"
    PROVE  LedgerKept' /\ AnsweredKept'
<1>1. /\ claim \in [Responses -> {"none", "open", "settled"}] /\ row \in RowTables
      /\ due \subseteq {x \in Rows : row[x[1]][x[2]] = "pending"} /\ LedgerKept
    BY DEF IInv, LedgerKept, StatusOf
<1>2. SettledOwesNothing'
    BY <1>1 DEF LedgerKept, SettledOwesNothing
<1>3. OneCoalesced'
  <2>1. SUFFICES ASSUME NEW f \in Coalesced, NEW r \in Responses, NEW q \in Responses,
                        row'[r][f] \in {"pending", "parked"}, row'[q][f] \in {"pending", "parked"}
                 PROVE  r = q
      BY DEF OneCoalesced
  <2>2. f \in Effects
      BY TerminalEffectsAssumption DEF Detached
  <2>3. row[r][f] \in {"pending", "parked"} /\ row[q][f] \in {"pending", "parked"}
      BY <2>1, <2>2
  <2>. QED BY <1>1, <2>3 DEF LedgerKept, OneCoalesced
<1>4. ParkedWaitsOnOwner'
  <2>1. SUFFICES ASSUME NEW r \in Responses, NEW f \in Effects, row'[r][f] = "parked"
                 PROVE  IF f \in FollowUps THEN question ELSE broken \/ telling
      BY DEF ParkedWaitsOnOwner, ParkedRows, StatusOf, Rows, owner
  <2>2. CASE r = s /\ f = e
      BY <2>1, <2>2
  <2>3. CASE r # s \/ f # e
    <3>1. row[r][f] = "parked"
        BY <2>1, <2>3
    <3>2. <<r, f>> \in ParkedRows
        BY <3>1 DEF ParkedRows, StatusOf, Rows
    <3>. QED BY <1>1, <3>2 DEF LedgerKept, ParkedWaitsOnOwner
  <2>. QED BY <2>2, <2>3
<1>5. due' \subseteq {x \in Rows : row'[x[1]][x[2]] = "pending"}
  <2>1. ASSUME NEW x \in due' PROVE x \in Rows /\ row'[x[1]][x[2]] = "pending"
    <3>1. CASE x = <<s, e>>
        BY <3>1 DEF Rows
    <3>2. CASE x # <<s, e>>
      <4>1. x \in Rows /\ row[x[1]][x[2]] = "pending"
          BY <1>1, <3>2
      <4>2. x[1] \in Responses /\ x[2] \in Effects /\ (x[1] # s \/ x[2] # e)
          BY <3>2, <4>1 DEF Rows
      <4>. QED BY <4>1, <4>2
    <3>. QED BY <3>1, <3>2
  <2>. QED BY <2>1
<1>6. LedgerKept'
    BY <1>1, <1>2, <1>3, <1>4, <1>5 DEF LedgerKept, StatusOf
<1>7. ASSUME NEW x \in answered' PROVE x \in Rows /\ claim'[x[1]] = "open" /\ row'[x[1]][x[2]] \in {"none", "completed"}
  <2>1. CASE x \in answered
    <3>1. x \in Rows /\ claim[x[1]] = "open" /\ row[x[1]][x[2]] \in {"none", "completed"}
        BY <2>1 DEF IInv, AnsweredKept
    <3>2. x[1] \in Responses /\ x[2] \in Effects
        BY <3>1 DEF Rows
    <3>3. row'[x[1]][x[2]] \in Statuses /\ row'[x[1]][x[2]] \notin {"pending", "parked"}
        BY <3>1, <3>2 DEF RowTables
    <3>. QED BY <3>1, <3>3 DEF Statuses
  <2>2. CASE x \notin answered
    <3>1. x = <<s, e>> /\ row'[s][e] \in {"none", "completed"}
        BY <2>2
    <3>. QED BY <3>1 DEF Rows
  <2>. QED BY <2>1, <2>2
<1>8. AnsweredKept'
    BY <1>7 DEF AnsweredKept
<1>. QED BY <1>6, <1>8

\* No row comes onto a clock.
LEMMA ClockShrinks ==
    ASSUME IInv, UNCHANGED <<owner, pump, queue, question, run, wake>>,
           \A r \in Responses, f \in Effects : "refusal" \notin Events /\ row'[r][f] = "pending" => row[r][f] = "pending"
    PROVE  WakeKept'
<1>1. "refusal" \notin Events /\ OnClock' => OnClock
    BY DEF OnClock, StatusOf, Rows
<1>. QED BY <1>1 DEF IInv, WakeKept, Woken, owner

LEMMA FollowUpStatusIs ==
    ASSUME NEW k, NEW q
    PROVE  FollowUpStatus(k, q) \in {"completed", "pending"} \/ (FollowUpStatus(k, q) = "parked" /\ question)
<1>1. CASE k \in disk
    BY <1>1 DEF FollowUpStatus
<1>2. CASE k \notin disk /\ question /\ (\E i \in DOMAIN q : q[i] = k)
    BY <1>2 DEF FollowUpStatus
<1>3. CASE k \notin disk /\ ~(question /\ (\E i \in DOMAIN q : q[i] = k))
    BY <1>3 DEF FollowUpStatus
<1>. QED BY <1>1, <1>2, <1>3

\* A follow-up turn is queued only when it is nowhere else.
LEMMA QueueKeeps ==
    ASSUME IInv, up, NEW k \in Identities, queue' = FollowUpQueue(k), UNCHANGED <<pump, run, disk, ended>>
    PROVE  FollowUpsKept'
<1>1. CASE queue' = queue
    BY <1>1, Frame
<1>2. CASE k \notin disk /\ ~AnnouncementInFlight(k) /\ queue' = Append(queue, k)
  <2>1. /\ queue \in Seq(Identities) /\ (\A i, j \in DOMAIN queue : queue[i] = queue[j] => i = j)
        /\ \A i \in DOMAIN queue : queue[i] \notin disk /\ (pump.at \in Early => pump.item # queue[i])
                                   /\ (run # None => run.item # queue[i])
      BY DEF IInv, FollowUpsKept
  <2>2. /\ \A i \in DOMAIN queue : queue[i] # k
        /\ pump.item # k /\ (run # None /\ pump.at = "idle" => run.item # k)
      BY <1>2 DEF AnnouncementInFlight, InQueue, Reopened
  <2>3. run # None => run.item # k
    <3>1. pump.at = "idle" \/ pump.at \in Early \/ pump.at \in Late
        BY DEF IInv, PumpRun, PumpItems, Early, Late
    <3>. QED BY <2>2, <3>1 DEF IInv, PumpRun
  <2>4. queue' \in Seq(Identities) /\ Len(queue') = Len(queue) + 1 /\ Len(queue) \in Nat
      BY <1>2, <2>1
  <2>5. \A i \in DOMAIN queue' : (i \in DOMAIN queue /\ queue'[i] = queue[i]) \/ (i = Len(queue) + 1 /\ queue'[i] = k)
      BY <1>2, <2>1
  <2>6. \A i, j \in DOMAIN queue' : queue'[i] = queue'[j] => i = j
      BY <2>1, <2>2, <2>5
  <2>7. \A i \in DOMAIN queue' : queue'[i] \notin disk /\ (pump.at \in Early => pump.item # queue'[i])
                                 /\ (run # None => run.item # queue'[i])
      BY <1>2, <2>1, <2>2, <2>3, <2>5
  <2>. QED BY <2>4, <2>6, <2>7 DEF IInv, FollowUpsKept
<1>. QED BY <1>1, <1>2 DEF FollowUpQueue

LEMMA InlineSyncPreserves ==
    ASSUME IInv, NEW d \in drives, NEW e \in Effects, InlineSync(d, e)
    PROVE  IInv'
<1>. DEFINE k == <<d.seq, e>>
<1>1. /\ d.run = {} /\ e \in d.todo /\ e \in Inline /\ e \in Sync /\ due' = due \ {k}
      /\ queue' = IF e \in FollowUps THEN FollowUpQueue(k) ELSE queue
      /\ drives' = Replace(d, [d EXCEPT !.todo = @ \ {e}]) /\ Attempted({k})
      /\ UNCHANGED <<claim, wake, run, disk, receipts, question, owner, up, inFlight, sweeps, pump, tells, ended, faults>>
    BY DEF InlineSync, NextInline
<1>2. PICK status \in {"completed", "pending", "parked"} :
          /\ row' = Written(d.seq, e, status) /\ answered' = IF status = "completed" THEN answered \cup {k} ELSE answered
          /\ status = "parked" => e \in FollowUps /\ question
  <2>1. PICK status \in (IF e \in FollowUps THEN {FollowUpStatus(k, FollowUpQueue(k))} ELSE {"completed", "pending"}) :
            row' = Written(d.seq, e, status) /\ answered' = IF status = "completed" THEN answered \cup {k} ELSE answered
      BY DEF InlineSync
  <2>2. status \in {"completed", "pending"} \/ (status = "parked" /\ e \in FollowUps /\ question)
      BY FollowUpStatusIs
  <2>. QED BY <2>1, <2>2
<1>3. d \in DriveRecords /\ DriveKept(d) /\ row \in RowTables
    BY DEF IInv, DrivesKept, LedgerKept
<1>4. /\ d.seq \in Responses /\ d.todo \in SUBSET Effects /\ claim[d.seq] = "open" /\ row[d.seq][e] = "pending"
    BY <1>1, <1>3 DEF DriveRecords, DriveKept
<1>5. /\ row' \in RowTables /\ row'[d.seq][e] = status
      /\ \A r \in Responses, f \in Effects : r # d.seq \/ f # e => row'[r][f] = row[r][f]
  <2>1. status \in Statuses
      BY DEF Statuses
  <2>. QED BY <1>2, <1>3, <1>4, <2>1, WrittenRow
<1>6. repeated' = FALSE
  <2>1. {e} \in SUBSET d.todo /\ Attempted({<<d.seq, f>> : f \in {e}})
      BY <1>1 DEF Attempted
  <2>. QED BY <1>1, <2>1, FirstAttempt
<1>7. LedgerKept' /\ AnsweredKept'
  <2>1. /\ row'[d.seq][e] \in {"pending", "parked"} => row[d.seq][e] \in {"pending", "parked"}
        /\ row'[d.seq][e] = "parked" => IF e \in FollowUps THEN question ELSE broken \/ telling
      BY <1>2, <1>4, <1>5
  <2>2. answered' = answered \/ (answered' = answered \cup {<<d.seq, e>>} /\ row'[d.seq][e] \in {"none", "completed"})
      BY <1>2, <1>5
  <2>3. /\ UNCHANGED <<claim, question, owner>> /\ due' \subseteq due \cup {<<d.seq, e>>}
        /\ <<d.seq, e>> \in due' => row'[d.seq][e] = "pending"
      BY <1>1
  <2>. QED BY <1>4, <1>5, <1>6, <2>1, <2>2, <2>3, RowMoves
<1>8. PICK m \in DriveRecords : /\ m = [d EXCEPT !.todo = d.todo \ {e}] /\ m.seq = d.seq /\ m.todo = d.todo \ {e}
                                /\ m.run = d.run /\ m.released = d.released /\ m.refused = d.refused
  <2>. DEFINE n == [d EXCEPT !.todo = d.todo \ {e}]
  <2>1. /\ n \in DriveRecords /\ n.seq = d.seq /\ n.todo = d.todo \ {e}
        /\ n.run = d.run /\ n.released = d.released /\ n.refused = d.refused
      BY <1>3 DEF DriveRecords
  <2>. QED BY <2>1
<1>9. DriveKept(m)'
  <2>1. ASSUME NEW f \in d.todo \ {e} PROVE <<d.seq, f>> \notin answered' /\ (f \in Inline => row'[d.seq][f] = "pending")
    <3>1. <<d.seq, f>> \notin answered /\ (f \in Inline => row[d.seq][f] = "pending") /\ f \in Effects
        BY <1>3, <1>4 DEF DriveKept
    <3>. QED BY <1>2, <1>4, <1>5, <3>1
  <2>. QED BY <1>1, <1>3, <1>4, <1>8, <2>1 DEF DriveKept, owner
<1>10. DrivesKept'
  <2>1. drives' = Replace(d, m)
      BY <1>1, <1>8
  <2>. QED BY <1>1, <1>2, <1>4, <1>5, <1>8, <1>9, <2>1, DriveMoves, ZenonT(40)
<1>11. up /\ Down'
    BY <1>1, Started
<1>12. FollowUpsKept'
  <2>1. CASE e \in FollowUps
    <3>1. k \in Identities
        BY <1>4, <2>1 DEF Identities
    <3>. QED BY <1>1, <1>11, <2>1, <3>1, QueueKeeps
  <2>2. CASE e \notin FollowUps
      BY <1>1, <2>2, Frame
  <2>. QED BY <2>1, <2>2
<1>13. WakeKept'
  <2>1. OnClock
    <3>1. k \in Rows /\ StatusOf(k) = "pending"
        BY <1>4 DEF Rows, StatusOf
    <3>. QED BY <3>1 DEF OnClock
  <2>. QED BY <1>1, <2>1, Awake
<1>. QED BY <1>1, <1>7, <1>10, <1>11, <1>12, <1>13, Frame DEF IInv

LEMMA FinishPreserves ==
    ASSUME IInv, NEW d \in drives, NEW e \in Effects, NEW outcome \in Outcomes, Finish(d, e, outcome)
    PROVE  IInv'
<1>. DEFINE x == <<d.seq, e>>
<1>1. /\ e \in d.run /\ (outcome = "refused" => d.refused)
      /\ drives' = Replace(d, [seq |-> d.seq, stage |-> d.stage, todo |-> d.todo, run |-> d.run \ {e},
                               released |-> d.released /\ d.run # {e}, refused |-> d.refused /\ d.run # {e}])
      /\ answered' = IF outcome = "completed" THEN answered \cup {x} ELSE answered
      /\ UNCHANGED <<claim, wake, run, disk, receipts, question, owner, up, inFlight, sweeps, queue, pump, tells, ended, repeated, faults>>
    BY DEF Finish
<1>2. d \in DriveRecords /\ DriveKept(d) /\ row \in RowTables
    BY DEF IInv, DrivesKept, LedgerKept
<1>3. /\ d.seq \in Responses /\ d.todo \in SUBSET Effects /\ claim[d.seq] = "open" /\ e \notin d.todo /\ e \notin Sync
      /\ e \notin FollowUps /\ d.stage \in {"arm", "inline", "detached", "rearm", "close"} /\ d.run \in SUBSET Effects
      /\ d.released \in BOOLEAN /\ d.refused \in BOOLEAN
    BY <1>1, <1>2, TerminalEffectsAssumption DEF DriveRecords, DriveKept
<1>4. /\ due \subseteq Rows /\ (x \in due => row[d.seq][e] = "pending")
  <2>1. due \subseteq {y \in Rows : row[y[1]][y[2]] = "pending"}
      BY DEF IInv, LedgerKept, StatusOf
  <2>2. due \subseteq Rows /\ \A y \in due : row[y[1]][y[2]] = "pending"
      BY <2>1
  <2>. QED BY <2>2
<1>5. ASSUME NEW st \in {"completed", "pending", "parked"}, row' = Written(d.seq, e, st)
      PROVE  /\ row' \in RowTables
             /\ \A r \in Responses, f \in Effects : r # d.seq \/ f # e => row'[r][f] = row[r][f]
             /\ row'[d.seq][e] = st \/ (row'[d.seq][e] = row[d.seq][e] /\ row[d.seq][e] \in {"none", "completed"})
             /\ row'[d.seq][e] \in {"pending", "parked"} => row[d.seq][e] \in {"pending", "parked"}
             /\ row[d.seq][e] \in {"pending", "parked"} => row'[d.seq][e] = st
  <2>1. st \in Statuses /\ row[d.seq][e] \in Statuses
      BY <1>2, <1>3 DEF Statuses, RowTables
  <2>2. row'[d.seq][e] = IF row[d.seq][e] \notin {"none", "completed"} THEN st ELSE row[d.seq][e]
      BY <1>2, <1>3, <1>5, <2>1, WrittenRow
  <2>3. /\ row' \in RowTables
        /\ \A r \in Responses, f \in Effects : r # d.seq \/ f # e => row'[r][f] = row[r][f]
      BY <1>2, <1>3, <1>5, <2>1, WrittenRow
  <2>. QED BY <2>1, <2>2, <2>3 DEF Statuses
<1>6. /\ row' \in RowTables
      /\ \A r \in Responses, f \in Effects : r # d.seq \/ f # e => row'[r][f] = row[r][f]
      /\ row'[d.seq][e] \in {"pending", "parked"} => row[d.seq][e] \in {"pending", "parked"}
      /\ row'[d.seq][e] = "parked" => broken \/ telling
      /\ outcome = "completed" => row'[d.seq][e] \in {"none", "completed"}
      /\ due' \subseteq due \cup {x} /\ (x \in due' => row'[d.seq][e] = "pending")
  <2>1. CASE outcome = "completed" /\ row' = Written(d.seq, e, "completed") /\ due' = due \ {x}
      BY <1>2, <1>3, <1>5, <2>1
  <2>2. CASE outcome = "owed" /\ row' = Written(d.seq, e, "pending") /\ due' = due
      BY <1>3, <1>4, <1>5, <2>2
  <2>3. CASE outcome = "held" /\ row' = Written(d.seq, e, "pending") /\ due' = due \ {x}
      BY <1>3, <1>5, <2>3
  <2>4. CASE outcome = "gone" /\ row' = [row EXCEPT ![d.seq][e] = "none"] /\ due' = due \ {x}
      BY <1>2, <1>3, <2>4 DEF RowTables, Statuses
  <2>5. CASE outcome = "refused" /\ Refused(d, e)
    <3>1. CASE d.released
      <4>1. row' = Written(d.seq, e, "pending") /\ due' = DueIn(row', due \cup {x})
          BY <2>5, <3>1 DEF Refused
      <4>2. due' \subseteq due \cup {x} /\ \A y \in due' : row'[y[1]][y[2]] = "pending"
          BY <4>1 DEF DueIn
      <4>3. x \in due' => row'[d.seq][e] = "pending"
          BY <4>2
      <4>. QED BY <1>3, <1>5, <2>5, <4>1, <4>2, <4>3
    <3>2. CASE ~d.released
      <4>1. row' = Written(d.seq, e, "parked") /\ due' = due \ {x}
          BY <2>5, <3>2 DEF Refused
      <4>2. broken \/ telling
          BY <1>1, <1>2, <2>5, <3>2 DEF DriveKept
      <4>. QED BY <1>3, <1>5, <2>5, <4>1, <4>2
    <3>. QED BY <3>1, <3>2
  <2>. QED BY <2>1, <2>2, <2>3, <2>4, <2>5 DEF Finish, Disposed
<1>7. repeated' = FALSE
    BY <1>1 DEF IInv, AnsweredKept
<1>8. LedgerKept' /\ AnsweredKept'
    BY <1>1, <1>3, <1>6, <1>7, RowMoves
<1>9. PICK m \in DriveRecords : /\ m = [seq |-> d.seq, stage |-> d.stage, todo |-> d.todo, run |-> d.run \ {e},
                                        released |-> d.released /\ d.run # {e}, refused |-> d.refused /\ d.run # {e}]
                                /\ m.seq = d.seq /\ m.todo = d.todo /\ m.run = d.run \ {e}
                                /\ m.released = (d.released /\ d.run # {e}) /\ m.refused = (d.refused /\ d.run # {e})
  <2>. DEFINE n == [seq |-> d.seq, stage |-> d.stage, todo |-> d.todo, run |-> d.run \ {e},
                    released |-> d.released /\ d.run # {e}, refused |-> d.refused /\ d.run # {e}]
  <2>1. (d.released /\ d.run # {e}) \in BOOLEAN /\ (d.refused /\ d.run # {e}) \in BOOLEAN /\ d.run \ {e} \in SUBSET Effects
      BY <1>3
  <2>2. /\ n \in DriveRecords /\ n.seq = d.seq /\ n.todo = d.todo /\ n.run = d.run \ {e}
        /\ n.released = (d.released /\ d.run # {e}) /\ n.refused = (d.refused /\ d.run # {e})
      BY <1>3, <2>1 DEF DriveRecords
  <2>. QED BY <2>2
<1>10. DriveKept(m)'
  <2>1. ASSUME NEW f \in d.todo PROVE <<d.seq, f>> \notin answered' /\ (f \in Inline => row'[d.seq][f] = "pending")
    <3>1. <<d.seq, f>> \notin answered /\ (f \in Inline => row[d.seq][f] = "pending") /\ f \in Effects /\ f # e
        BY <1>2, <1>3 DEF DriveKept
    <3>. QED BY <1>1, <1>3, <1>6, <3>1
  <2>2. m.refused => m.run # {}
      BY <1>1, <1>9
  <2>3. m.refused /\ ~m.released => broken' \/ telling'
      BY <1>1, <1>2, <1>9 DEF DriveKept, owner
  <2>. QED BY <1>1, <1>2, <1>3, <1>9, <2>1, <2>2, <2>3 DEF DriveKept
<1>11. DrivesKept'
  <2>1. drives' = Replace(d, m)
      BY <1>1, <1>9
  <2>2. \A r \in Responses, f \in Effects : r # d.seq /\ <<r, f>> \in answered' => <<r, f>> \in answered
      BY <1>1
  <2>. QED BY <1>1, <1>6, <1>9, <1>10, <2>1, <2>2, DriveMoves
<1>12. Down'
    BY <1>1, Started
<1>13. WakeKept'
  <2>1. "refusal" \notin Events => row[d.seq][e] # "parked"
    <3>1. ~broken /\ ~telling /\ row[d.seq][e] = "parked" => FALSE
      <4>1. row[d.seq][e] = "parked" => x \in ParkedRows
          BY <1>3 DEF ParkedRows, StatusOf, Rows
      <4>. QED BY <1>3, <4>1 DEF IInv, LedgerKept, ParkedWaitsOnOwner
    <3>. QED BY <3>1 DEF IInv, WakeKept
  <2>2. ASSUME NEW r \in Responses, NEW f \in Effects, "refusal" \notin Events, row'[r][f] = "pending"
        PROVE  row[r][f] = "pending"
      BY <1>6, <2>1, <2>2
  <2>. QED BY <1>1, <2>2, ClockShrinks
<1>. QED BY <1>1, <1>8, <1>11, <1>12, <1>13, Frame DEF IInv

LEMMA EndPreserves ==
    ASSUME IInv, NEW d \in drives, End(d)
    PROVE  IInv'
<1>1. /\ inFlight' = inFlight \ {d.seq} /\ drives' = drives \ {d}
      /\ UNCHANGED <<due, wake, run, disk, question, owner, up, queue, pump, tells, ended, repeated, faults>>
    BY DEF End
<1>2. d.seq \in Responses
    BY DEF IInv, DrivesKept, DriveRecords
<1>3. SweepsKept'
  <2>. DEFINE todo == IF DueBut(inFlight') THEN {s \in Responses : claim'[s] = "open"} ELSE {}
              v == [kind |-> "close", by |-> d.seq, at |-> None, todo |-> todo]
  <2>1. todo \in SUBSET Responses
      OBVIOUS
  <2>2. sweeps' = sweeps \cup {v}
      BY DEF End
  <2>. HIDE DEF todo
  <2>3. v \in SweepRecords /\ v.by \in Responses
      BY <1>2, <2>1 DEF SweepRecords
  <2>. HIDE DEF v
  <2>. QED BY <2>2, <2>3 DEF IInv, SweepsKept
<1>4. Down'
    BY <1>1, Started
<1>5. CASE Owes(d.seq)
  <2>1. UNCHANGED <<claim, row, receipts, answered>>
      BY <1>5 DEF End
  <2>2. DrivesKept'
      BY <1>1, <2>1, DriveLeaves
  <2>. QED BY <1>1, <1>3, <1>4, <2>1, <2>2, Frame DEF IInv
<1>6. CASE ~Owes(d.seq)
  <2>1. /\ claim' = [claim EXCEPT ![d.seq] = "settled"] /\ row' = Pruned(d.seq)
        /\ receipts' = IF ReleasesReceipts(d.seq) THEN receipts \ {TurnOf[d.seq]} ELSE receipts
        /\ answered' = {x \in answered : x[1] # d.seq}
      BY <1>6 DEF End
  <2>2. /\ claim \in [Responses -> {"none", "open", "settled"}] /\ row \in RowTables
        /\ due \subseteq {x \in Rows : row[x[1]][x[2]] = "pending"} /\ LedgerKept
      BY DEF IInv, LedgerKept, StatusOf
  <2>3. /\ row' \in RowTables
        /\ \A r \in Responses, f \in Effects : row'[r][f] = IF r = d.seq /\ row[r][f] = "completed" THEN "none" ELSE row[r][f]
      BY <1>2, <2>1, <2>2, PrunedRow
  <2>4. claim' \in [Responses -> {"none", "open", "settled"}] /\ \A r \in Responses : r # d.seq => claim'[r] = claim[r]
      BY <1>2, <2>1, <2>2
  <2>5. \A f \in Effects : row'[d.seq][f] = "none"
    <3>1. \A f \in Effects : row[d.seq][f] \in {"none", "completed"}
        BY <1>2, <1>6, <2>2 DEF Owes, RowTables, Statuses
    <3>. QED BY <1>2, <2>3, <3>1
  <2>6. SettledOwesNothing'
      BY <2>2, <2>3, <2>4, <2>5 DEF LedgerKept, SettledOwesNothing
  <2>7. OneCoalesced'
    <3>1. SUFFICES ASSUME NEW f \in Coalesced, NEW r \in Responses, NEW q \in Responses,
                          row'[r][f] \in {"pending", "parked"}, row'[q][f] \in {"pending", "parked"}
                   PROVE  r = q
        BY DEF OneCoalesced
    <3>2. f \in Effects
        BY TerminalEffectsAssumption DEF Detached
    <3>3. row[r][f] \in {"pending", "parked"} /\ row[q][f] \in {"pending", "parked"}
        BY <2>3, <3>1, <3>2
    <3>. QED BY <2>2, <3>3 DEF LedgerKept, OneCoalesced
  <2>8. \A r \in Responses, f \in Effects : (row'[r][f] = "parked" <=> row[r][f] = "parked")
                                            /\ (row'[r][f] = "pending" <=> row[r][f] = "pending")
      BY <2>3
  <2>9. ParkedWaitsOnOwner'
    <3>1. ParkedRows' = ParkedRows
        BY <2>8 DEF ParkedRows, StatusOf, Rows
    <3>. QED BY <1>1, <2>2, <3>1 DEF LedgerKept, ParkedWaitsOnOwner, owner
  <2>10. due' \subseteq {x \in Rows : row'[x[1]][x[2]] = "pending"}
    <3>1. ASSUME NEW x \in due PROVE x \in Rows /\ row'[x[1]][x[2]] = "pending"
      <4>1. x \in Rows /\ row[x[1]][x[2]] = "pending"
          BY <2>2
      <4>2. x[1] \in Responses /\ x[2] \in Effects
          BY <4>1 DEF Rows
      <4>. QED BY <2>8, <4>1, <4>2
    <3>. QED BY <1>1, <3>1
  <2>11. LedgerKept'
      BY <2>3, <2>4, <2>6, <2>7, <2>9, <2>10 DEF LedgerKept, StatusOf
  <2>12. DrivesKept'
    <3>1. answered' \subseteq answered /\ \A r \in Responses, e \in Effects : r # d.seq => row'[r][e] = row[r][e]
        BY <2>1, <2>3
    <3>. QED BY <1>1, <2>4, <3>1, DriveLeaves
  <2>13. AnsweredKept'
    <3>1. ASSUME NEW x \in answered' PROVE x \in Rows /\ claim'[x[1]] = "open" /\ row'[x[1]][x[2]] \in {"none", "completed"}
      <4>1. x \in answered /\ x[1] # d.seq
          BY <2>1
      <4>2. x \in Rows /\ claim[x[1]] = "open" /\ row[x[1]][x[2]] \in {"none", "completed"}
          BY <4>1 DEF IInv, AnsweredKept
      <4>3. x[1] \in Responses /\ x[2] \in Effects
          BY <4>2 DEF Rows
      <4>. QED BY <2>3, <2>4, <4>1, <4>2, <4>3
    <3>. QED BY <1>1, <3>1 DEF IInv, AnsweredKept
  <2>14. WakeKept'
      BY <1>1, <2>8, ClockShrinks
  <2>15. ReceiptsHeld'
    <3>1. ASSUME run # None, run.tool PROVE TurnOf[run.seq] \in receipts'
      <4>1. TurnOf[run.seq] \in receipts /\ run.seq # None
          BY <3>1 DEF IInv, ReceiptsHeld, ReceiptsKept, PumpRun
      <4>2. ReleasesReceipts(d.seq) => TurnOf[run.seq] # TurnOf[d.seq]
          BY <3>1, <4>1 DEF ReleasesReceipts, TurnIsLive
      <4>. QED BY <2>1, <4>1, <4>2
    <3>2. receipts' \subseteq Turns
        BY <2>1 DEF IInv, ReceiptsHeld
    <3>. QED BY <1>1, <3>1, <3>2 DEF ReceiptsHeld, ReceiptsKept
  <2>. QED BY <1>1, <1>3, <1>4, <2>11, <2>12, <2>13, <2>14, <2>15, Frame DEF IInv
<1>. QED BY <1>5, <1>6

-----------------------------------------------------------------------------
(* Sweeps and reports. *)

LEMMA ResumePreserves ==
    ASSUME IInv, NEW w \in sweeps, NEW s \in Responses, Resume(w, s)
    PROVE  IInv'
<1>1. UNCHANGED <<durable, owner, up, queue, pump, history>>
    BY DEF Resume
<1>2. w \in SweepRecords /\ (w.kind # "followUp" => w.by \in Responses \cup {None})
    BY DEF IInv, SweepsKept
<1>3. ASSUME NEW at \in Responses \cup {None}
      PROVE  Past(w, s, at) \in SweepRecords /\ Past(w, s, at).kind = w.kind /\ Past(w, s, at).by = w.by
    BY <1>2 DEF Past, SweepRecords
<1>4. PICK at \in Responses \cup {None} : sweeps' = (sweeps \ {w}) \cup {Past(w, s, at)}
    BY DEF Resume
<1>5. SweepsKept'
  <2>1. PICK v \in SweepRecords : v = Past(w, s, at) /\ v.kind = w.kind /\ v.by = w.by
      BY <1>3
  <2>2. sweeps' = (sweeps \ {w}) \cup {v}
      BY <1>4, <2>1
  <2>. QED BY <1>2, <2>1, <2>2 DEF IInv, SweepsKept
<1>6. Down'
    BY <1>1, Started
<1>7. TurnTells' /\ DrivesKept'
  <2>1. CASE Enter(s) /\ ~WaitingOnOwner(s)
    <3>1. inFlight' = inFlight \cup {s} /\ drives' = drives \cup {Drive(s)} /\ tells' = WithArm(s)
        BY <2>1 DEF Resume
    <3>2. WithArm(s) \in Seq(Reports) /\ TellsOf(WithArm(s), pump.at)
        BY ArmTells DEF IInv
    <3>3. DrivesKept'
        BY <1>1, <2>1, <3>1, DriveBegins DEF Enter, durable, history
    <3>. QED BY <1>1, <3>1, <3>2, <3>3 DEF TurnTells
  <2>2. CASE ~(Enter(s) /\ ~WaitingOnOwner(s))
    <3>1. UNCHANGED <<inFlight, drives, tells>>
        BY <2>2 DEF Resume
    <3>. QED BY <1>1, <3>1, Frame DEF durable, history
  <2>. QED BY <2>1, <2>2
<1>. QED BY <1>1, <1>5, <1>6, <1>7, Frame DEF IInv, durable, history

\* The report of rest that may follow.
LEMMA RestsAfterTells ==
    ASSUME IInv, NEW ws, NEW ts, ts = tells \/ (tells # <<>> /\ ts = Tail(tells)), RestsAfter(ws, ts), pump' = pump
    PROVE  TurnTells'
<1>1. tells \in Seq(Reports) /\ TellsOf(tells, pump.at)
    BY DEF IInv, TurnTells
<1>2. ts \in Seq(Reports) /\ TellsOf(ts, pump.at)
    BY <1>1, TailTells
<1>3. WithRest(ts) \in Seq(Reports) /\ TellsOf(WithRest(ts), pump.at)
    BY <1>2, RestTells
<1>. QED BY <1>2, <1>3 DEF TurnTells, RestsAfter

LEMMA SweepEndsPreserves ==
    ASSUME IInv, NEW w \in sweeps, SweepEnds(w)
    PROVE  IInv'
<1>1. sweeps' = sweeps \ {w} /\ UNCHANGED <<durable, owner, up, inFlight, drives, queue, pump, history>>
    BY DEF SweepEnds
<1>2. SweepsKept'
    BY <1>1 DEF IInv, SweepsKept
<1>3. TurnTells'
  <2>1. CASE UNCHANGED tells
      BY <1>1, <2>1, Frame
  <2>2. CASE w.kind # "followUp" /\ tells' = Append(tells, Tell(w.kind, w.by))
    <3>1. w.kind \in {"pass", "close"} /\ w.by \in Responses \cup {None}
        BY <2>2 DEF IInv, SweepsKept, SweepRecords
    <3>2. Append(tells, Tell(w.kind, w.by)) \in Seq(Reports) /\ TellsOf(Append(tells, Tell(w.kind, w.by)), pump.at)
        BY <3>1, TellsAgain
    <3>. QED BY <1>1, <2>2, <3>2 DEF TurnTells
  <2>3. CASE RestsAfter(sweeps', tells)
      BY <1>1, <2>3, RestsAfterTells
  <2>. QED BY <2>1, <2>2, <2>3 DEF SweepEnds
<1>4. Down'
    BY <1>1, Started
<1>. QED BY <1>1, <1>2, <1>3, <1>4, Frame DEF IInv, durable, history

LEMMA WakeFiresPreserves ==
    ASSUME IInv, WakeFires
    PROVE  IInv'
<1>1. /\ up' = TRUE /\ sweeps' = sweeps \cup {Sweep("pass", None)}
      /\ UNCHANGED <<durable, owner, inFlight, drives, queue, pump, tells, history>>
    BY DEF WakeFires
<1>2. PICK v \in SweepRecords : v = Sweep("pass", None) /\ v.by = None
  <2>. DEFINE u == Sweep("pass", None)
  <2>1. u \in SweepRecords /\ u.by = None
      BY DEF Sweep, SweepRecords, Incomplete
  <2>. QED BY <2>1
<1>3. SweepsKept'
  <2>1. sweeps' = sweeps \cup {v}
      BY <1>1, <1>2
  <2>. QED BY <1>2, <2>1 DEF IInv, SweepsKept
<1>4. Down' /\ FlagsTyped'
    BY <1>1 DEF Down, IInv, FlagsTyped, owner, durable, history
<1>. QED BY <1>1, <1>3, <1>4, Frame DEF IInv, durable, history

LEMMA TellRestPreserves ==
    ASSUME IInv, TellRest
    PROVE  IInv'
<1>1. /\ tells # <<>> /\ tells' = Tail(tells) /\ wake' = ChatOwes
      /\ UNCHANGED <<claim, row, due, run, disk, receipts, question, owner, up, inFlight, drives, sweeps, queue, pump, history>>
    BY DEF TellRest, Told
<1>2. TurnTells'
  <2>1. Tail(tells) \in Seq(Reports) /\ TellsOf(Tail(tells), pump.at)
      BY <1>1, TailTells DEF IInv, TurnTells
  <2>. QED BY <1>1, <2>1 DEF TurnTells
<1>3. up /\ Down'
    BY <1>1, Started
<1>4. wake' \in BOOLEAN
    BY <1>1 DEF ChatOwes
<1>5. FlagsTyped'
    BY <1>1, <1>4 DEF IInv, FlagsTyped, owner, history
<1>6. WakeKept'
  <2>1. pump.at # "idle" \/ (queue # <<>> /\ ~question) \/ run # None \/ OnClock => ChatOwes
      BY <1>3 DEF ChatOwes, Runnable, Reopened
  <2>2. OnClock' <=> OnClock
      BY <1>1 DEF OnClock, StatusOf
  <2>. QED BY <1>1, <2>1, <2>2 DEF IInv, WakeKept, Woken, owner
<1>. QED BY <1>1, <1>2, <1>3, <1>5, <1>6, Frame DEF IInv, history

LEMMA SweepArmedPreserves ==
    ASSUME IInv, SweepArmed
    PROVE  IInv'
<1>1. /\ tells # <<>> /\ wake' = TRUE /\ RestsAfter(sweeps, Tail(tells))
      /\ UNCHANGED <<claim, row, due, run, disk, receipts, question, owner, up, inFlight, drives, sweeps, queue, pump, history>>
    BY DEF SweepArmed
<1>2. TurnTells'
    BY <1>1, RestsAfterTells
<1>3. Down' /\ WakeKept' /\ FlagsTyped'
    BY <1>1, Started, Awake DEF IInv, FlagsTyped, owner, history
<1>. QED BY <1>1, <1>2, <1>3, Frame DEF IInv, history

LEMMA AskedArmedPreserves ==
    ASSUME IInv, AskedArmed
    PROVE  IInv'
<1>1. /\ tells # <<>> /\ wake' = TRUE /\ tells' = Tail(tells)
      /\ UNCHANGED <<claim, row, due, run, disk, receipts, question, owner, up, inFlight, drives, sweeps, queue, pump, history>>
    BY DEF AskedArmed
<1>2. TurnTells'
  <2>1. Tail(tells) \in Seq(Reports) /\ TellsOf(Tail(tells), pump.at)
      BY <1>1, TailTells DEF IInv, TurnTells
  <2>. QED BY <1>1, <2>1 DEF TurnTells
<1>3. Down' /\ WakeKept' /\ FlagsTyped'
    BY <1>1, Started, Awake DEF IInv, FlagsTyped, owner, history
<1>. QED BY <1>1, <1>2, <1>3, Frame DEF IInv, history

LEMMA TellRefusedPreserves ==
    ASSUME IInv, TellRefused
    PROVE  IInv'
<1>1. /\ tells # <<>> /\ faults < MaxFaults /\ faults' = faults + 1
      /\ UNCHANGED <<claim, row, due, wake, receipts, question, owner, up, inFlight, drives, sweeps, queue, answered, repeated>>
    BY DEF TellRefused
<1>2. /\ tells \in Seq(Reports) /\ TellsOf(tells, pump.at) /\ Head(tells) \in Reports
      /\ Tail(tells) \in Seq(Reports) /\ TellsOf(Tail(tells), pump.at)
      /\ Head(tells).of = "turn" => pump.at = "opening" /\ \A b : TellsOf(Tail(tells), b)
    BY <1>1, TailTells DEF IInv, TurnTells
<1>3. Down' /\ FlagsTyped'
    BY <1>1, Started, TerminalEffectsAssumption DEF IInv, FlagsTyped, owner
<1>4. CASE Head(tells).of = "turn"
  <2>1. CloseRun /\ pump' = [pump EXCEPT !.at = "ending"] /\ tells' = Tail(tells)
      BY <1>4 DEF TellRefused
  <2>2. PumpRun' /\ FollowUpsKept' /\ ReceiptsHeld' /\ pump'.at = "ending"
    <3>1. "ending" \in Late
        BY DEF Late
    <3>. QED BY <1>1, <1>2, <1>4, <2>1, <3>1, CloseRunKeeps
  <2>3. TurnTells'
      BY <1>2, <1>4, <2>1 DEF TurnTells
  <2>4. WakeKept'
      BY <1>1, <1>2, <1>4, Awake
  <2>. QED BY <1>1, <1>3, <2>2, <2>3, <2>4, Frame DEF IInv
<1>5. CASE Head(tells).of # "turn"
  <2>1. UNCHANGED <<run, disk, pump, ended>>
      BY <1>5 DEF TellRefused
  <2>2. TurnTells'
    <3>1. CASE tells' = Append(Tail(tells), Tell("reclose", Head(tells).by))
      <4>1. Head(tells).by \in Responses \cup {None}
          BY <1>2 DEF Reports
      <4>2. PICK by \in Responses \cup {None} : by = Head(tells).by
          BY <4>1
      <4>3. Append(Tail(tells), Tell("reclose", by)) \in Seq(Reports) /\ TellsOf(Append(Tail(tells), Tell("reclose", by)), pump.at)
          BY <1>1, TellsAgain
      <4>. QED BY <2>1, <3>1, <4>2, <4>3 DEF TurnTells
    <3>2. CASE RestsAfter(sweeps, Tail(tells))
        BY <1>1, <2>1, <3>2, RestsAfterTells
    <3>3. CASE tells' = Tail(tells)
        BY <1>2, <2>1, <3>3 DEF TurnTells
    <3>. QED BY <3>1, <3>2, <3>3 DEF TellRefused
  <2>. QED BY <1>1, <1>3, <2>1, <2>2, Frame DEF IInv
<1>. QED BY <1>4, <1>5

-----------------------------------------------------------------------------
(* The owner, the provider, time and crashes. *)

\* What the isolate chains when the owner acted.
LEMMA AskTells ==
    ASSUME IInv
    PROVE  LET ts == IF ParkedRows = {} THEN tells ELSE WithAsk(tells) IN
           /\ ts \in Seq(Reports) /\ TellsOf(ts, pump.at)
           /\ WithRest(ts) \in Seq(Reports) /\ TellsOf(WithRest(ts), pump.at)
<1>1. tells \in Seq(Reports) /\ TellsOf(tells, pump.at)
    BY DEF IInv, TurnTells
<1>2. PICK ts \in Seq(Reports) : ts = (IF ParkedRows = {} THEN tells ELSE WithAsk(tells)) /\ TellsOf(ts, pump.at)
    BY <1>1, RestTells
<1>3. WithRest(ts) \in Seq(Reports) /\ TellsOf(WithRest(ts), pump.at)
    BY <1>2, RestTells
<1>. QED BY <1>2, <1>3

LEMMA QuestionClosesPreserves ==
    ASSUME IInv, QuestionCloses
    PROVE  IInv'
<1>1. /\ up' = TRUE /\ question' = FALSE /\ OwnerActed /\ wake' = TRUE
      /\ tells' = WithRest(IF ParkedRows = {} THEN tells ELSE WithAsk(tells))
      /\ UNCHANGED <<claim, run, disk, receipts, owner, inFlight, sweeps, queue, pump, history>>
    BY DEF QuestionCloses
<1>2. LedgerKept' /\ AnsweredKept' /\ DrivesKept'
    BY <1>1, OwnerActedKeeps DEF history
<1>3. TurnTells'
    BY <1>1, AskTells DEF TurnTells
<1>4. Down' /\ WakeKept' /\ FlagsTyped'
    BY <1>1, Awake DEF Down, IInv, FlagsTyped, owner, history
<1>. QED BY <1>1, <1>2, <1>3, <1>4, Frame DEF IInv, history

LEMMA OwnerToldPreserves ==
    ASSUME IInv, OwnerTold
    PROVE  IInv'
<1>1. /\ up' = TRUE /\ telling /\ telling' = FALSE /\ OwnerActed
      /\ tells' = IF ParkedRows = {} THEN tells ELSE WithAsk(tells)
      /\ UNCHANGED <<claim, wake, run, disk, receipts, question, broken, inFlight, sweeps, queue, pump, history>>
    BY DEF OwnerTold
<1>2. LedgerKept' /\ AnsweredKept' /\ DrivesKept'
    BY <1>1, OwnerActedKeeps DEF history
<1>3. TurnTells'
    BY <1>1, AskTells DEF TurnTells
<1>4. Down' /\ WakeKept' /\ FlagsTyped'
    BY <1>1 DEF Down, IInv, WakeKept, FlagsTyped, history
<1>. QED BY <1>1, <1>2, <1>3, <1>4, Frame DEF IInv, history

LEMMA OwnerFixesPreserves ==
    ASSUME IInv, OwnerFixes
    PROVE  IInv'
<1>1. broken /\ broken' = FALSE /\ telling' = TRUE /\ UNCHANGED <<durable, memory, history>>
    BY DEF OwnerFixes
<1>2. DrivesKept'
    BY <1>1 DEF IInv, DrivesKept, DriveKept, durable, memory, history
<1>3. LedgerKept'
    BY <1>1 DEF IInv, LedgerKept, SettledOwesNothing, OneCoalesced, ParkedWaitsOnOwner, ParkedRows, StatusOf, durable
<1>4. WakeKept' /\ FlagsTyped'
    BY <1>1 DEF IInv, WakeKept, FlagsTyped, durable, memory, history
<1>. QED BY <1>1, <1>2, <1>3, <1>4, Frame DEF IInv, durable, memory, history

LEMMA ProviderBreaksPreserves ==
    ASSUME IInv, ProviderBreaks
    PROVE  IInv'
<1>1. /\ "refusal" \in Events /\ broken' = TRUE /\ drives' = {[d EXCEPT !.refused = d.run # {}] : d \in drives}
      /\ UNCHANGED <<durable, telling, up, inFlight, sweeps, queue, pump, tells, history>>
    BY DEF ProviderBreaks
<1>2. /\ inFlight \subseteq Responses /\ drives \subseteq DriveRecords
      /\ \A f, g \in drives : f.seq = g.seq => f = g
    BY DEF IInv, DrivesKept
<1>3. ASSUME NEW m \in drives'
      PROVE  m \in DriveRecords /\ DriveKept(m)' /\ \E d \in drives : m = [d EXCEPT !.refused = d.run # {}] /\ m.seq = d.seq
  <2>1. PICK d \in drives : m = [d EXCEPT !.refused = d.run # {}]
      BY <1>1
  <2>2. d \in DriveRecords /\ DriveKept(d)
      BY <1>2 DEF IInv, DrivesKept
  <2>3. /\ m \in DriveRecords /\ m.seq = d.seq /\ m.stage = d.stage /\ m.todo = d.todo /\ m.run = d.run
        /\ m.refused = (d.run # {})
      BY <2>1, <2>2 DEF DriveRecords
  <2>4. DriveKept(m)'
      BY <1>1, <2>2, <2>3 DEF DriveKept, durable, history
  <2>. QED BY <2>1, <2>3, <2>4
<1>4. \A m, n \in drives' : m.seq = n.seq => m = n
    BY <1>2, <1>3
<1>5. DrivesKept'
    BY <1>1, <1>2, <1>3, <1>4 DEF DrivesKept
<1>6. Down'
    BY <1>1 DEF IInv, Down
<1>7. LedgerKept'
    BY <1>1 DEF IInv, LedgerKept, SettledOwesNothing, OneCoalesced, ParkedWaitsOnOwner, ParkedRows, StatusOf, durable
<1>8. WakeKept' /\ FlagsTyped'
    BY <1>1 DEF IInv, WakeKept, FlagsTyped, durable, history
<1>. QED BY <1>1, <1>5, <1>6, <1>7, <1>8, Frame DEF IInv, durable, history

LEMMA FallsDuePreserves ==
    ASSUME IInv, NEW x \in Rows, FallsDue(x)
    PROVE  IInv'
<1>1. /\ StatusOf(x) = "pending" /\ due' = due \cup {x}
      /\ UNCHANGED <<claim, row, wake, run, disk, receipts, question, owner, memory, history>>
    BY DEF FallsDue
<1>2. LedgerKept'
    BY <1>1 DEF IInv, LedgerKept, SettledOwesNothing, OneCoalesced, ParkedWaitsOnOwner, ParkedRows, StatusOf, owner
<1>. QED BY <1>1, <1>2, Frame DEF IInv, memory, history

LEMMA CrashPreserves ==
    ASSUME IInv, Crash
    PROVE  IInv'
<1>1. /\ faults < MaxFaults /\ faults' = faults + 1
      /\ up' = FALSE /\ inFlight' = {} /\ drives' = {} /\ sweeps' = {} /\ queue' = <<>>
      /\ pump' = Idle /\ tells' = <<>> /\ answered' = {} /\ UNCHANGED <<durable, owner, ended, repeated>>
    BY DEF Crash
<1>2. pump' \in PumpItems /\ pump'.at = "idle" /\ pump'.item = None
    BY <1>1, IdleTyped
<1>3. FlagsTyped'
  <2>1. faults' \in 0 .. MaxFaults
      BY <1>1, TerminalEffectsAssumption DEF IInv, FlagsTyped
  <2>. QED BY <1>1, <2>1 DEF IInv, FlagsTyped, owner, durable
<1>4. PumpRun'
    BY <1>1, <1>2 DEF IInv, PumpRun, Early, Late, durable
<1>5. TurnTells'
    BY <1>1 DEF TurnTells, TellsOf
<1>6. Down' /\ SweepsKept' /\ DrivesKept'
    BY <1>1, <1>2 DEF Down, SweepsKept, DrivesKept
<1>7. AnsweredKept'
    BY <1>1 DEF IInv, AnsweredKept
<1>8. FollowUpsKept'
    BY <1>1, <1>2 DEF IInv, FollowUpsKept, Early, durable
<1>9. WakeKept'
  <2>1. OnClock' <=> OnClock
      BY <1>1 DEF OnClock, StatusOf, durable
  <2>. QED BY <1>1, <1>2, <2>1 DEF IInv, WakeKept, Woken, owner, durable
<1>. QED BY <1>1, <1>3, <1>4, <1>5, <1>6, <1>7, <1>8, <1>9, Frame DEF IInv, durable

-----------------------------------------------------------------------------
(* The invariant. *)

LEMMA InitInvariant == Init => IInv
<1>. SUFFICES ASSUME Init PROVE IInv
    OBVIOUS
<1>1. /\ claim = [s \in Responses |-> "none"] /\ row = [s \in Responses |-> [e \in Effects |-> "none"]]
      /\ due = {} /\ run = None /\ disk = {} /\ receipts = {}
      /\ wake = FALSE /\ question = FALSE /\ broken = FALSE /\ telling = FALSE
      /\ up = TRUE /\ inFlight = {} /\ drives = {} /\ sweeps = {} /\ queue = <<>>
      /\ pump = Idle /\ tells = <<>> /\ ended = [k \in Identities |-> 0]
      /\ answered = {} /\ repeated = FALSE /\ faults = 0
    BY DEF Init
<1>2. pump \in PumpItems /\ pump.at = "idle" /\ pump.item = None
    BY <1>1, IdleTyped
<1>3. FlagsTyped
  <2>1. faults \in 0 .. MaxFaults
      BY <1>1, TerminalEffectsAssumption
  <2>. QED BY <1>1, <2>1 DEF FlagsTyped
<1>4. PumpRun /\ FollowUpsKept
    BY <1>1, <1>2 DEF PumpRun, FollowUpsKept, Early, Late
<1>5. TurnTells
    BY <1>1 DEF TurnTells, TellsOf
<1>6. Down /\ SweepsKept /\ DrivesKept /\ AnsweredKept
    BY <1>1 DEF Down, SweepsKept, DrivesKept, AnsweredKept
<1>7. \A r \in Responses, f \in Effects : row[r][f] = "none"
    BY <1>1
<1>8. WakeKept
    BY <1>1, <1>2, <1>7 DEF WakeKept, Woken, OnClock, StatusOf, Rows
<1>9. LedgerKept
  <2>1. row \in RowTables
      BY <1>1 DEF RowTables, Statuses
  <2>2. SettledOwesNothing /\ OneCoalesced
      BY <1>7, TerminalEffectsAssumption DEF SettledOwesNothing, OneCoalesced, Detached
  <2>3. ParkedWaitsOnOwner
      BY <1>7 DEF ParkedWaitsOnOwner, ParkedRows, StatusOf, Rows
  <2>. QED BY <1>1, <2>1, <2>2, <2>3 DEF LedgerKept
<1>10. ReceiptsHeld
    BY <1>1 DEF ReceiptsHeld, ReceiptsKept
<1>. QED BY <1>3, <1>4, <1>5, <1>6, <1>8, <1>9, <1>10 DEF IInv

LEMMA NextInvariant ==
    ASSUME IInv, Next
    PROVE  IInv'
<1>1. CASE AwaitFree
  <2>1. ASSUME NEW d \in drives, DriveStep(d) PROVE IInv'
      BY <2>1, InlineSyncPreserves, BeginInlinePreserves, BeginDetachedPreserves, ReportedPreserves, EndPreserves
         DEF DriveStep
  <2>2. ASSUME NEW w \in sweeps, SweepStep(w) PROVE IInv'
      BY <2>2, SweepEndsPreserves, ResumePreserves DEF SweepStep
  <2>. QED BY <1>1, <2>1, <2>2 DEF AwaitFree
<1>2. CASE PumpStep
    BY <1>2, TakeFollowUpPreserves, TakeReopenedPreserves, OpenTurnPreserves, TurnArmedPreserves, CommitPreserves,
       SettlePreserves, EndTurnPreserves DEF PumpStep
<1>3. CASE \E s \in Responses : TakeMessage(s)
    BY <1>3, TakeMessagePreserves
<1>4. CASE RunTool \/ AskOwner \/ OpenFails \/ TurnFails
    BY <1>4, RunToolPreserves, AskOwnerPreserves, OpenFailsPreserves, TurnFailsPreserves
<1>5. CASE \E d \in drives : Answer(d) \/ ArmRefused(d)
    BY <1>5, ArmWakePreserves, FinishPreserves, ArmRefusedPreserves DEF Answer
<1>6. CASE WakeFires \/ TellRest \/ SweepArmed \/ AskedArmed \/ TellRefused
    BY <1>6, WakeFiresPreserves, TellRestPreserves, SweepArmedPreserves, AskedArmedPreserves, TellRefusedPreserves
<1>7. CASE OwnerStep \/ ProviderBreaks
    BY <1>7, QuestionClosesPreserves, OwnerFixesPreserves, OwnerToldPreserves, ProviderBreaksPreserves DEF OwnerStep
<1>8. CASE \E x \in Rows : FallsDue(x)
    BY <1>8, FallsDuePreserves
<1>9. CASE Crash
    BY <1>9, CrashPreserves
<1>. QED BY <1>1, <1>2, <1>3, <1>4, <1>5, <1>6, <1>7, <1>8, <1>9 DEF Next, Outside

LEMMA StutterInvariant ==
    ASSUME IInv, UNCHANGED vars
    PROVE  IInv'
BY Frame DEF IInv, vars, durable, owner, memory, history

\* The invariant holds in every state of every run.
LEMMA InvariantHolds == Spec => []IInv
<1>1. IInv /\ [Next]_vars => IInv'
    BY NextInvariant, StutterInvariant
<1>. QED BY <1>1, InitInvariant, PTL DEF Spec

LEMMA InvariantTypes == IInv => TypeOK
<1>. SUFFICES ASSUME IInv PROVE TypeOK
    OBVIOUS
<1>1. /\ claim \in [Responses -> {"none", "open", "settled"}]
      /\ row \in [Responses -> [Effects -> {"none", "pending", "parked", "completed"}]]
      /\ due \subseteq {x \in Rows : StatusOf(x) = "pending"}
    BY DEF IInv, LedgerKept, RowTables, Statuses
<1>2. /\ up \in BOOLEAN /\ wake \in BOOLEAN /\ question \in BOOLEAN /\ broken \in BOOLEAN /\ telling \in BOOLEAN
      /\ faults \in 0 .. MaxFaults /\ disk \subseteq Identities /\ receipts \subseteq Turns
      /\ inFlight \subseteq Responses /\ queue \in Seq(Identities) /\ ended \in [Identities -> Nat]
    BY DEF IInv, FlagsTyped, FollowUpsKept, ReceiptsHeld, DrivesKept
<1>3. /\ drives \subseteq DriveRecords /\ sweeps \subseteq SweepRecords /\ pump \in PumpItems /\ run \in Runs \cup {None}
      /\ tells \in Seq(Reports) /\ answered \subseteq Rows
    BY DEF IInv, DrivesKept, SweepsKept, PumpRun, TurnTells, AnsweredKept
<1>4. repeated \in BOOLEAN
    BY DEF IInv, AnsweredKept
<1>. QED BY <1>1, <1>2, <1>3, <1>4 DEF TypeOK, DriveRecords, SweepRecords, PumpItems, Reports

-----------------------------------------------------------------------------
(* What the ledger and the chat loop promise. *)

\* Every state is well formed: a row marked due is pending, and drives, sweeps and reports
\* are of known responses (the tables of terminal-effects.ts, the records of
\* terminal-transition.ts).
THEOREM TerminalEffectsTypeCorrect == Spec => []TypeOK
BY InvariantHolds, InvariantTypes, PTL

\* A response that is not open owes nothing: prune() and the settled claim go together, and
\* neither a late answer (record()) nor a superseding claim() writes a row back.
THEOREM ClosedResponseOwesNothing == Spec => []SettledOwesNothing
<1>1. IInv => SettledOwesNothing
    BY DEF IInv, LedgerKept
<1>. QED BY <1>1, InvariantHolds, PTL

\* An actor owes at most one row of a coalesced effect: claim() supersedes the others'
\* although their attempts may still be running.
THEOREM OneOwedPerCoalesced == Spec => []OneCoalesced
<1>1. IInv => OneCoalesced
    BY DEF IInv, LedgerKept
<1>. QED BY <1>1, InvariantHolds, PTL

\* A parked row has an owner who can unpark it: a refusal that answers after release() is due
\* again at once, and a follow-up is parked only behind an open question.
THEOREM ParkedRowWaitsOnOwner == Spec => []ParkedWaitsOnOwner
<1>1. IInv => ParkedWaitsOnOwner
    BY DEF IInv, LedgerKept
<1>. QED BY <1>1, InvariantHolds, PTL

\* The follow-up turn a response owes ends at most once, by the queue, by a replay of its
\* effect or by the turn a restart re-opens (owedTurnTerminalEffect, announcementInFlight).
THEOREM FollowUpEndsOnce == Spec => []FollowUpOnce
<1>1. IInv => FollowUpOnce
  <2>1. SUFFICES ASSUME IInv, NEW k \in Identities PROVE ended[k] <= 1
      BY DEF FollowUpOnce
  <2>2. \A i \in Identities : ended[i] = IF i \in disk THEN 1 ELSE 0
      BY <2>1 DEF IInv, FollowUpsKept
  <2>. QED BY <2>2
<1>. QED BY <1>1, InvariantHolds, PTL

\* The receipts of a turn that ran a tool and may still run, here or re-opened, are kept by
\* every close of an earlier response of that turn (turnMayStillRun).
THEOREM LiveTurnKeepsReceipts == Spec => []ReceiptsKept
<1>1. IInv => ReceiptsKept
    BY DEF IInv, ReceiptsHeld
<1>. QED BY <1>1, InvariantHolds, PTL

\* Within one process no effect is attempted while it runs or after it answered completed,
\* whatever settle(), resumeAll() and a close's own resume drive at the same time (inFlight).
THEOREM AnsweredEffectNotRepeated == Spec => []AnsweredOnce
<1>1. IInv => AnsweredOnce
    BY DEF IInv, AnsweredKept, AnsweredOnce
<1>. QED BY <1>1, InvariantHolds, PTL

\* Where no provider refuses, an effect owed on a clock and an open run have a wake at the
\* workspace in every state: no report of rest, arm that failed or crash takes it away.
THEOREM OwedEffectHasWake == Spec => [](("refusal" \notin Events) => WakeCovers)
<1>1. IInv => (("refusal" \notin Events) => WakeCovers)
    BY DEF IInv, WakeKept, Woken, WakeCovers
<1>. QED BY <1>1, InvariantHolds, PTL

-----------------------------------------------------------------------------
(* What a step makes of a claimed response. *)

\* What a step may make of a response that was claimed: its claim never goes back, and an
\* effect of it that ended is not owed again.
LedgerMoves(s) ==
    /\ claim[s] = "settled" => claim'[s] = "settled"
    /\ claim[s] = "open" => claim'[s] # "none"
    /\ claim[s] # "none" =>
          \A e \in Effects : row[s][e] \in {"none", "completed"} => row'[s][e] \in {"none", row[s][e]}

\* Nothing is written.
LEMMA LedgerStays ==
    ASSUME UNCHANGED <<claim, row>>
    PROVE  \A s \in Responses : LedgerMoves(s)
BY DEF LedgerMoves

\* A write of one row, or a release of the parked ones.
LEMMA RowEnds ==
    ASSUME IInv, UNCHANGED claim,
           \/ row' = ReleasedRows
           \/ \E r \in Responses, e \in Effects, st \in Statuses : row' = Written(r, e, st)
           \/ \E r \in Responses, e \in Effects : row' = [row EXCEPT ![r][e] = "none"]
    PROVE  \A s \in Responses : LedgerMoves(s)
<1>. row \in RowTables
    BY DEF IInv, LedgerKept
<1>1. CASE row' = ReleasedRows
    BY <1>1, ReleasedRow DEF LedgerMoves
<1>2. ASSUME NEW r \in Responses, NEW e \in Effects, NEW st \in Statuses, row' = Written(r, e, st)
      PROVE  \A s \in Responses : LedgerMoves(s)
    BY <1>2, WrittenRow DEF LedgerMoves
<1>3. ASSUME NEW r \in Responses, NEW e \in Effects, row' = [row EXCEPT ![r][e] = "none"]
      PROVE  \A s \in Responses : LedgerMoves(s)
  <2>1. \A s \in Responses, f \in Effects : row'[s][f] \in {"none", row[s][f]}
      BY <1>3 DEF RowTables
  <2>. QED BY <2>1 DEF LedgerMoves
<1>. QED BY <1>1, <1>2, <1>3

\* A response is claimed, or its close settles it.
LEMMA RecordMoves ==
    ASSUME IInv, NEW s \in Responses, NEW owed \in SUBSET Effects, Record(s, owed)
    PROVE  \A r \in Responses : LedgerMoves(r)
<1>. row \in RowTables /\ claim \in [Responses -> {"none", "open", "settled"}] /\ SettledOwesNothing
    BY DEF IInv, LedgerKept
<1>1. CASE claim[s] # "none"
    BY <1>1, LedgerStays DEF Record
<1>2. CASE claim[s] = "none"
  <2>1. claim' = [claim EXCEPT ![s] = "open"] /\ (row' = row \/ row' = ClaimRows(s, owed))
      BY <1>2 DEF Record
  <2>2. \A r \in Responses : r = s \/ claim'[r] = claim[r]
      BY <2>1
  <2>3. \A f \in Effects : row[s][f] = "none"
      BY <1>2 DEF SettledOwesNothing
  <2>4. \A r \in Responses \ {s}, f \in Effects :
           row[r][f] \in {"none", "completed"} => row'[r][f] = row[r][f]
      BY <2>1, <2>3, ClaimedRow
  <2>. QED BY <1>2, <2>2, <2>4 DEF LedgerMoves
<1>. QED BY <1>1, <1>2

LEMMA EndMoves ==
    ASSUME IInv, NEW d \in drives, End(d)
    PROVE  \A s \in Responses : LedgerMoves(s)
<1>. row \in RowTables /\ claim \in [Responses -> {"none", "open", "settled"}] /\ d.seq \in Responses
    BY DEF IInv, LedgerKept, DrivesKept, DriveRecords
<1>1. CASE Owes(d.seq)
    BY <1>1, LedgerStays DEF End
<1>2. CASE ~Owes(d.seq)
  <2>1. claim' = [claim EXCEPT ![d.seq] = "settled"] /\ row' = Pruned(d.seq)
      BY <1>2 DEF End
  <2>2. \A s \in Responses : claim'[s] \in {"settled", claim[s]}
      BY <2>1
  <2>3. \A s \in Responses, f \in Effects : row'[s][f] \in {"none", row[s][f]}
      BY <2>1, PrunedRow
  <2>. QED BY <2>2, <2>3 DEF LedgerMoves
<1>. QED BY <1>1, <1>2

\* An effect's attempt answers.
LEMMA DriveMovesLedger ==
    ASSUME IInv, NEW d \in drives, NEW e \in Effects,
           InlineSync(d, e) \/ \E o \in Outcomes : Finish(d, e, o)
    PROVE  \A s \in Responses : LedgerMoves(s)
<1>1. d.seq \in Responses
    BY DEF IInv, DrivesKept, DriveRecords
<1>2. CASE InlineSync(d, e)
  <2>1. UNCHANGED claim
      BY <1>2 DEF InlineSync
  <2>2. \E st \in Statuses : row' = Written(d.seq, e, st)
      BY <1>2 DEF InlineSync, FollowUpStatus, Statuses
  <2>. QED BY <1>1, <2>1, <2>2, RowEnds
<1>3. ASSUME NEW o \in Outcomes, Finish(d, e, o) PROVE \A s \in Responses : LedgerMoves(s)
  <2>1. UNCHANGED claim
      BY <1>3 DEF Finish
  <2>2. \/ \E st \in Statuses : row' = Written(d.seq, e, st)
        \/ row' = [row EXCEPT ![d.seq][e] = "none"]
      BY <1>3 DEF Finish, Disposed, Refused, Statuses
  <2>. QED BY <1>1, <2>1, <2>2, RowEnds
<1>. QED BY <1>2, <1>3

LEMMA StepMovesLedger ==
    ASSUME IInv, [Next]_vars
    PROVE  \A s \in Responses : LedgerMoves(s)
<1>. DEFINE Moves == \A s \in Responses : LedgerMoves(s)
<1>1. UNCHANGED <<claim, row>> => Moves
    BY LedgerStays
<1>2. OwnerActed /\ UNCHANGED claim => Moves
    BY RowEnds DEF OwnerActed
<1>3. ASSUME NEW d \in drives, DriveStep(d) PROVE Moves
  <2>1. ASSUME NEW e \in Effects, InlineSync(d, e) \/ BeginInline(d, e) PROVE Moves
      BY <1>1, <2>1, DriveMovesLedger DEF BeginInline, Begin
  <2>2. CASE BeginDetached(d) \/ Reported(d)
      BY <1>1, <2>2 DEF BeginDetached, Begin, Reported, durable
  <2>. QED BY <1>3, <2>1, <2>2, EndMoves DEF DriveStep
<1>4. ASSUME NEW w \in sweeps, SweepStep(w) PROVE Moves
    BY <1>1, <1>4 DEF SweepStep, SweepEnds, Resume, durable
<1>5. CASE PumpStep
  <2>1. ASSUME NEW owed \in Rosters, Commit(owed) PROVE Moves
    <3>1. Record(pump.seq, owed) /\ pump.seq \in Responses /\ owed \in SUBSET Effects
        BY <2>1, TerminalEffectsAssumption DEF Commit, IInv, PumpRun, PumpItems
    <3>. QED BY <3>1, RecordMoves
  <2>2. CASE OpenTurn
      BY <1>1, <1>2, <2>2 DEF OpenTurn
  <2>3. CASE (\E s \in Responses \cup {None} : TakeFollowUp(s)) \/ TakeReopened \/ TurnArmed \/ Settle \/ EndTurn
      BY <1>1, <2>3 DEF TakeFollowUp, TakeReopened, TurnArmed, Settle, EndTurn, durable
  <2>. QED BY <1>5, <2>1, <2>2, <2>3 DEF PumpStep
<1>6. CASE (\E s \in Responses : TakeMessage(s)) \/ RunTool \/ AskOwner \/ OpenFails \/ TurnFails
    BY <1>1, <1>6 DEF TakeMessage, RunTool, AskOwner, OpenFails, TurnFails, durable
<1>7. ASSUME NEW d \in drives, Answer(d) \/ ArmRefused(d) PROVE Moves
  <2>1. CASE ArmWake(d) \/ ArmRefused(d)
      BY <1>1, <2>1 DEF ArmWake, ArmRefused, durable
  <2>. QED BY <1>7, <2>1, DriveMovesLedger DEF Answer
<1>8. CASE WakeFires \/ TellRest \/ SweepArmed \/ AskedArmed \/ TellRefused
    BY <1>1, <1>8 DEF WakeFires, TellRest, SweepArmed, AskedArmed, TellRefused, durable
<1>9. CASE QuestionCloses \/ OwnerTold
    BY <1>2, <1>9 DEF QuestionCloses, OwnerTold
<1>10. CASE OwnerFixes \/ ProviderBreaks \/ (\E x \in Rows : FallsDue(x)) \/ Crash \/ UNCHANGED vars
    BY <1>1, <1>10 DEF OwnerFixes, ProviderBreaks, FallsDue, Crash, vars, durable
<1>. QED BY <1>3, <1>4, <1>5, <1>6, <1>7, <1>8, <1>9, <1>10 DEF Next, AwaitFree, Outside, OwnerStep

\* What ended is not owed again: no late answer, claim, release or sweep writes over a
\* row that completed or is gone, once its response was claimed, and no claim is undone or
\* opened a second time, however often a response is replayed (record(), claim(), prune()).
THEOREM EndedEffectStaysEnded ==
    Spec => [][\A s \in Responses : LedgerMoves(s)]_vars
<1>1. IInv /\ [Next]_vars => [\A s \in Responses : LedgerMoves(s)]_vars
    BY StepMovesLedger
<1>. QED BY <1>1, InvariantHolds, PTL DEF Spec

=============================================================================
