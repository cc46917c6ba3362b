---------------------------- MODULE DriverLease ----------------------------
(***************************************************************************)
(* The single-driver lease of a local conversation: one row of the         *)
(* conversation's database names the OS process that may drive it.  Every  *)
(* SQL statement is a step of its own, because two processes interleave    *)
(* statement by statement; inside one process the statements of an         *)
(* acquisition or a release run without a yield (they are synchronous), so *)
(* the process does nothing else while pc is not "idle".                   *)
(*                                                                         *)
(* A token is a fresh UUID and a generation a fresh start time: both are   *)
(* drawn from the values nobody remembers, which keeps the state finite    *)
(* without bounding the behaviours.                                        *)
(***************************************************************************)
EXTENDS Naturals

CONSTANTS
    Pids,          \* process ids of the machine
    Gens,          \* identities the host reads for the run of a process
    Serials,       \* tell apart the tokens one process mints
    NoGen,         \* the empty generation
    NoToken,       \* no token held, or none minted
    NoRow,         \* the lease table has no row
    MaxDriving,    \* bound: passes in progress at once in one process
    ProbeFails     \* TRUE: the host may be unable to read a generation

Driver == {"interactive", "daemon"}

\* "other" is a program that only happens to run under a pid.
Kinds == Driver \cup {"other"}

\* A token is a UUID: no two processes mint the same one.
Tokens == [by : Pids, serial : Serials]

Row == [pid : Pids, generation : Gens \cup {NoGen}, token : Tokens, kind : Driver]

ASSUME DriverLeaseAssumption ==
    /\ MaxDriving \in Nat \ {0}
    /\ ProbeFails \in BOOLEAN
    /\ NoGen \notin Gens
    /\ NoToken \notin Tokens
    /\ NoRow \notin Row

VARIABLES
    row,         \* the driver_lease row
    alive,       \* a process runs under this pid
    gen,         \* the identity of that run
    recorded,    \* the generation the process records for itself
    kind,
    closed,      \* LocalAgentHost.close(): not begun, waiting for the sessions, done
    hold,        \* DriverLeaseHold.token
    pc,          \* where the process is inside acquire() or release()
    goal,        \* what the acquisition is for
    seen,        \* the row claimOnce read
    mine,        \* the token claimOnce minted
    driving,     \* passes between entering and leaving drive()
    converting,  \* those of them inside a converting operation
    turn         \* a turn started through the driver gate is running

osVars   == <<alive, gen, recorded, kind>>
claim    == <<seen, mine>>
workVars == <<driving, converting, turn>>
vars     == <<row, osVars, closed, hold, pc, goal, claim, workVars>>

Goals == {"pass", "turn", "take"}
Steps == {"idle", "read", "probe", "write", "confirm", "release", "delete"}

(***************************************************************************)
(* Reading the row.                                                        *)
(***************************************************************************)
HasToken(t) == row # NoRow /\ row.token = t

\* DriverLeaseHold.held(): answered from the row, never from memory.
Held(p) == hold[p] # NoToken /\ HasToken(hold[p])

\* Mutant of Answers: the pid alone is asked, whoever runs under it now.
AnswersByPid(holder) == {alive[holder.pid]}

\* osLeaseProcess.isAlive: the recorded generation must still run; without a
\* generation on either side the pid alone answers.
Answers(holder) ==
    LET pidRuns == alive[holder.pid]
        sameRun == pidRuns /\ gen[holder.pid] = holder.generation
    IN  IF holder.generation = NoGen THEN {pidRuns}
        ELSE {sameRun} \cup (IF ProbeFails THEN {pidRuns} ELSE {})

FreshTokens(p) == {t \in Tokens : t.by = p} \ ( {hold[q] : q \in Pids} \cup {mine[q] : q \in Pids}
                     \cup {r.token : r \in {s \in {row} \cup {seen[q] : q \in Pids} : s # NoRow}} )

FreshGens(p) == Gens \ {r.generation : r \in {s \in {row} \cup {seen[q] : q \in Pids} :
                                                 s # NoRow /\ s.pid = p}}

(***************************************************************************)
(* The operating system: processes start, crash, and reuse a pid.          *)
(***************************************************************************)
Init ==
    /\ row = NoRow
    /\ alive = [p \in Pids |-> FALSE]
    /\ gen = [p \in Pids |-> NoGen]
    /\ recorded = [p \in Pids |-> NoGen]
    /\ kind = [p \in Pids |-> "other"]
    /\ closed = [p \in Pids |-> "open"]
    /\ hold = [p \in Pids |-> NoToken]
    /\ pc = [p \in Pids |-> "idle"]
    /\ goal = [p \in Pids |-> "take"]
    /\ seen = [p \in Pids |-> NoRow]
    /\ mine = [p \in Pids |-> NoToken]
    /\ driving = [p \in Pids |-> 0]
    /\ converting = [p \in Pids |-> 0]
    /\ turn = [p \in Pids |-> FALSE]

Start(p, k) ==
    /\ ~alive[p]
    /\ FreshGens(p) # {}
    /\ alive' = [alive EXCEPT ![p] = TRUE]
    /\ kind' = [kind EXCEPT ![p] = k]
    /\ gen' = [gen EXCEPT ![p] = CHOOSE g \in FreshGens(p) : TRUE]
    /\ \E readable \in {TRUE, ~ProbeFails} :
          recorded' = [recorded EXCEPT ![p] = IF readable THEN gen'[p] ELSE NoGen]
    /\ UNCHANGED <<row, closed, hold, pc, goal, claim, workVars>>

\* A process ends without a word: its memory is gone, its row stays.
Crash(p) ==
    /\ alive[p]
    /\ alive' = [alive EXCEPT ![p] = FALSE]
    /\ gen' = [gen EXCEPT ![p] = NoGen]
    /\ recorded' = [recorded EXCEPT ![p] = NoGen]
    /\ kind' = [kind EXCEPT ![p] = "other"]
    /\ closed' = [closed EXCEPT ![p] = "open"]
    /\ hold' = [hold EXCEPT ![p] = NoToken]
    /\ pc' = [pc EXCEPT ![p] = "idle"]
    /\ goal' = [goal EXCEPT ![p] = "take"]
    /\ seen' = [seen EXCEPT ![p] = NoRow]
    /\ mine' = [mine EXCEPT ![p] = NoToken]
    /\ driving' = [driving EXCEPT ![p] = 0]
    /\ converting' = [converting EXCEPT ![p] = 0]
    /\ turn' = [turn EXCEPT ![p] = FALSE]
    /\ UNCHANGED row

(***************************************************************************)
(* DriverLeaseHold.acquire() and acquireDriverLease().                     *)
(***************************************************************************)
Idle(p) == alive[p] /\ pc[p] = "idle"

\* What the caller of acquire() does once it is granted: drive() enters its
\* first operation, the gate lets one turn start, takeDriver() only holds.
Grant(p, g) ==
    /\ driving' = [driving EXCEPT ![p] = IF g = "pass" THEN @ + 1 ELSE @]
    /\ converting' = [converting EXCEPT ![p] = IF g = "pass" THEN @ + 1 ELSE @]
    /\ turn' = [turn EXCEPT ![p] = @ \/ g = "turn"]

\* The callers: tick() and answer passes, the gate before a turn, takeDriver().
MayAsk(p, g) ==
    /\ Idle(p) /\ kind[p] \in Driver /\ closed[p] = "open"
    /\ g = "pass" => driving[p] < MaxDriving
    /\ g = "turn" => ~turn[p]
    /\ g = "take" => kind[p] = "interactive"

\* A token already held is re-checked and not trusted.
AcquireHeld(p, g) ==
    /\ MayAsk(p, g)
    /\ Held(p)
    /\ Grant(p, g)
    /\ UNCHANGED <<row, osVars, closed, hold, pc, goal, claim>>

AcquireAnew(p, g) ==
    /\ MayAsk(p, g)
    /\ ~Held(p)
    /\ pc' = [pc EXCEPT ![p] = "read"]
    /\ goal' = [goal EXCEPT ![p] = g]
    /\ UNCHANGED <<row, osVars, closed, hold, claim, workVars>>

ReadRow(p) ==
    /\ pc[p] = "read"
    /\ FreshTokens(p) # {}
    /\ seen' = [seen EXCEPT ![p] = row]
    /\ mine' = [mine EXCEPT ![p] = CHOOSE t \in FreshTokens(p) : TRUE]
    /\ pc' = [pc EXCEPT ![p] = IF row # NoRow /\ row.pid # p THEN "probe" ELSE "write"]
    /\ UNCHANGED <<row, osVars, closed, hold, goal, workVars>>

\* Mutant of MayTake: an interactive process takes any holder's row.
MayTakeAnyHolder(p, isAlive) == ~isAlive \/ kind[p] = "interactive"

\* A live holder yields only to interactive-over-daemon, a dead one to anyone.
MayTake(p, isAlive) == ~isAlive \/ (kind[p] = "interactive" /\ seen[p].kind = "daemon")

Probe(p) ==
    /\ pc[p] = "probe"
    /\ \E isAlive \in Answers(seen[p]) :
          IF MayTake(p, isAlive)
          THEN /\ pc' = [pc EXCEPT ![p] = "write"]
               /\ UNCHANGED <<hold, goal, seen, mine>>
          ELSE /\ pc' = [pc EXCEPT ![p] = "idle"]
               /\ hold' = [hold EXCEPT ![p] = NoToken]
               /\ goal' = [goal EXCEPT ![p] = "take"]
               /\ seen' = [seen EXCEPT ![p] = NoRow]
               /\ mine' = [mine EXCEPT ![p] = NoToken]
    /\ UNCHANGED <<row, osVars, closed, workVars>>

\* Mutant of SwapApplies: the update does not name the token it read.
SwapUnguarded(p) == seen[p] = NoRow => row = NoRow

\* UPDATE ... WHERE token = the one read, or INSERT ... ON CONFLICT DO NOTHING.
SwapApplies(p) ==
    IF seen[p] = NoRow THEN row = NoRow ELSE row # NoRow /\ row.token = seen[p].token

Write(p) ==
    /\ pc[p] = "write"
    /\ row' = IF SwapApplies(p)
              THEN [pid |-> p, generation |-> recorded[p], token |-> mine[p], kind |-> kind[p]]
              ELSE row
    /\ pc' = [pc EXCEPT ![p] = "confirm"]
    /\ seen' = [seen EXCEPT ![p] = NoRow]
    /\ UNCHANGED <<osVars, closed, hold, goal, mine, workVars>>

\* The write is decided by re-reading; a row that moved is decided again.
Confirm(p) ==
    /\ pc[p] = "confirm"
    /\ mine' = [mine EXCEPT ![p] = NoToken]
    /\ IF HasToken(mine[p])
       THEN /\ hold' = [hold EXCEPT ![p] = mine[p]]
            /\ pc' = [pc EXCEPT ![p] = "idle"]
            /\ goal' = [goal EXCEPT ![p] = "take"]
            /\ Grant(p, goal[p])
       ELSE /\ pc' = [pc EXCEPT ![p] = "read"]
            /\ UNCHANGED <<hold, goal, workVars>>
    /\ UNCHANGED <<row, osVars, closed, seen>>

(***************************************************************************)
(* The work done under the lease.                                          *)
(***************************************************************************)
OperationEnds(p) ==
    /\ Idle(p)
    /\ converting[p] > 0
    /\ converting' = [converting EXCEPT ![p] = @ - 1]
    /\ UNCHANGED <<row, osVars, closed, hold, pc, goal, claim, driving, turn>>

\* Mutant of NextOperation: the operation in progress is not awaited.
NextOperationUnawaited(p) ==
    /\ Idle(p)
    /\ driving[p] > 0
    /\ Held(p)
    /\ converting' = [converting EXCEPT ![p] = @ + 1]
    /\ UNCHANGED <<row, osVars, closed, hold, pc, goal, claim, driving, turn>>

\* runPass goes on to its next operation only while the lease is still held.
NextOperation(p) ==
    /\ Idle(p)
    /\ converting[p] < driving[p]
    /\ Held(p)
    /\ converting' = [converting EXCEPT ![p] = @ + 1]
    /\ UNCHANGED <<row, osVars, closed, hold, pc, goal, claim, driving, turn>>

\* drive()'s finally: the last pass of a daemon hands the lease back.
PassEnds(p) ==
    /\ Idle(p)
    /\ converting[p] < driving[p]
    /\ driving' = [driving EXCEPT ![p] = @ - 1]
    /\ pc' = [pc EXCEPT ![p] =
                 IF kind[p] = "daemon" /\ driving[p] = 1 /\ hold[p] # NoToken
                 THEN "release" ELSE "idle"]
    /\ UNCHANGED <<row, osVars, closed, hold, goal, claim, converting, turn>>

TurnEnds(p) ==
    /\ Idle(p)
    /\ turn[p]
    /\ turn' = [turn EXCEPT ![p] = FALSE]
    /\ UNCHANGED <<row, osVars, closed, hold, pc, goal, claim, driving, converting>>

\* close() refuses new work at once and then waits for the sessions to end.
BeginClose(p) ==
    /\ Idle(p) /\ kind[p] \in Driver /\ closed[p] = "open"
    /\ closed' = [closed EXCEPT ![p] = "closing"]
    /\ UNCHANGED <<row, osVars, hold, pc, goal, claim, workVars>>

\* Then the lease goes back and the handle closes: what still ran over that
\* handle converts nothing more.
FinishClose(p) ==
    /\ Idle(p) /\ closed[p] = "closing"
    /\ closed' = [closed EXCEPT ![p] = "closed"]
    /\ driving' = [driving EXCEPT ![p] = 0]
    /\ converting' = [converting EXCEPT ![p] = 0]
    /\ turn' = [turn EXCEPT ![p] = FALSE]
    /\ pc' = [pc EXCEPT ![p] = IF hold[p] # NoToken THEN "release" ELSE "idle"]
    /\ UNCHANGED <<row, osVars, hold, goal, claim>>

(***************************************************************************)
(* releaseDriverLease: read, then a delete that names the token.           *)
(***************************************************************************)
ReleaseRead(p) ==
    /\ pc[p] = "release"
    /\ IF Held(p)
       THEN pc' = [pc EXCEPT ![p] = "delete"] /\ UNCHANGED hold
       ELSE /\ pc' = [pc EXCEPT ![p] = "idle"]
            /\ hold' = [hold EXCEPT ![p] = NoToken]
    /\ UNCHANGED <<row, osVars, closed, goal, claim, workVars>>

ReleaseDelete(p) ==
    /\ pc[p] = "delete"
    /\ row' = IF HasToken(hold[p]) THEN NoRow ELSE row
    /\ hold' = [hold EXCEPT ![p] = NoToken]
    /\ pc' = [pc EXCEPT ![p] = "idle"]
    /\ UNCHANGED <<osVars, closed, goal, claim, workVars>>

Acquiring(p) == ReadRow(p) \/ Probe(p) \/ Write(p) \/ Confirm(p)
Releasing(p) == ReleaseRead(p) \/ ReleaseDelete(p)
Ask(p, g)    == AcquireHeld(p, g) \/ AcquireAnew(p, g)

Next ==
    \E p \in Pids :
        \/ \E k \in Kinds : Start(p, k)
        \/ Crash(p)
        \/ \E g \in Goals : Ask(p, g)
        \/ Acquiring(p) \/ Releasing(p)
        \/ OperationEnds(p) \/ NextOperation(p) \/ PassEnds(p) \/ TurnEnds(p)
        \/ BeginClose(p) \/ FinishClose(p)

Spec == Init /\ [][Next]_vars

\* A statement in progress completes, an operation or turn ends, and a daemon
\* ticks again and again; people and crashes promise nothing.
Fairness ==
    \A p \in Pids :
        /\ WF_vars(Acquiring(p)) /\ WF_vars(Releasing(p))
        /\ WF_vars(OperationEnds(p)) /\ WF_vars(PassEnds(p)) /\ WF_vars(TurnEnds(p))
        /\ WF_vars(kind[p] = "daemon" /\ Ask(p, "pass"))

FairSpec == Spec /\ Fairness

(***************************************************************************)
(* Properties.                                                             *)
(***************************************************************************)

\* Every variable has its type; a pass converts only inside drive().
TypeOK ==
    /\ row \in Row \cup {NoRow}
    /\ alive \in [Pids -> BOOLEAN]
    /\ gen \in [Pids -> Gens \cup {NoGen}]
    /\ recorded \in [Pids -> Gens \cup {NoGen}]
    /\ kind \in [Pids -> Kinds]
    /\ closed \in [Pids -> {"open", "closing", "closed"}]
    /\ hold \in [Pids -> Tokens \cup {NoToken}]
    /\ pc \in [Pids -> Steps]
    /\ goal \in [Pids -> Goals]
    /\ seen \in [Pids -> Row \cup {NoRow}]
    /\ mine \in [Pids -> Tokens \cup {NoToken}]
    /\ driving \in [Pids -> 0 .. MaxDriving]
    /\ converting \in [Pids -> 0 .. MaxDriving]
    /\ turn \in [Pids -> BOOLEAN]

Busy(p) == converting[p] > 0 \/ turn[p]

\* Two interactive processes never convert at the same time: the row of a
\* live interactive holder is stable from its compare-and-swap to its release.
InteractiveExclusive ==
    \A p, q \in Pids :
        (p # q /\ kind[p] = "interactive" /\ kind[q] = "interactive") => ~(Busy(p) /\ Busy(q))

\* The row is this process's, confirmed or not yet.
Owns(p) == row # NoRow /\ row.token \in {hold[p], mine[p]}

\* A row leaves its live owner only by the owner's own delete, or to an
\* interactive process when the owner is a daemon: a stale read, a late
\* compare-and-swap or a preempted holder's release never takes it away.
LiveOwnerKeepsRow ==
    [][\A p \in Pids :
         (Owns(p) /\ row' # row) =>
             \/ pc[p] = "delete"
             \/ kind[p] = "daemon" /\ row' # NoRow /\ row'.kind = "interactive"]_vars

\* The process run that wrote the row is gone.
Stale == row # NoRow /\ ~(alive[row.pid] /\ gen[row.pid] = row.generation)

Ticking(p) == alive[p] /\ kind[p] = "daemon" /\ closed[p] = "open"

\* A row left by a dead process, its pid reused or not, does not lock the
\* conversation while a daemon keeps ticking: recovery is by liveness alone.
StaleRowReplaced ==
    \A p \in Pids : (Stale /\ Ticking(p)) ~> (~Stale \/ ~Ticking(p))

\* Stated by the lease's header: one process at a time drives the conversation.
SingleDriver ==
    \A p, q \in Pids : p # q => ~(Busy(p) /\ Busy(q))
=============================================================================
