------------------------- MODULE DriverLeaseProofs -------------------------
(***************************************************************************)
(* Exclusion by the driver lease, for any number of processes.             *)
(***************************************************************************)
EXTENDS DriverLease, TLAPS

Claiming(p) == pc[p] \in {"probe", "write", "confirm"}

\* Memory of a process that does not run.
DeadForgets ==
    \A p \in Pids : ~alive[p] =>
        /\ kind[p] = "other" /\ hold[p] = NoToken /\ mine[p] = NoToken /\ pc[p] = "idle"
        /\ seen[p] = NoRow /\ converting[p] = 0 /\ driving[p] = 0 /\ turn[p] = FALSE
        /\ closed[p] = "open"

\* A token names the process that minted it, wherever it is kept.
TokensNameMinter ==
    /\ row # NoRow => row.token.by = row.pid
    /\ \A p \in Pids :
          /\ hold[p] # NoToken => hold[p].by = p
          /\ mine[p] # NoToken => mine[p].by = p
          /\ seen[p] # NoRow => seen[p].token.by = seen[p].pid
          /\ Claiming(p) => mine[p] # NoToken
          /\ ~Claiming(p) => mine[p] = NoToken
          /\ recorded[p] \in {gen[p], NoGen}

\* A minted token appears nowhere before it is written, in no snapshot before
\* somebody reads it, and is never the one already held.
MintedIsFresh ==
    \A p \in Pids : Claiming(p) =>
        /\ mine[p] # hold[p]
        /\ pc[p] # "confirm" => ~HasToken(mine[p])
        /\ pc[p] # "confirm" =>
              \A q \in Pids : seen[q] # NoRow => seen[q].token # mine[p]

\* A process that still has to claim does not hold the row already.
ClaimantHoldsNothing ==
    \A p \in Pids : pc[p] \in {"read", "probe", "write", "confirm"} => ~Held(p)

\* A row, or a snapshot of one, carrying a token a live process still has
\* describes that process.
Describes(r, p) ==
    (r # NoRow /\ r.token \in {hold[p], mine[p]}) =>
        /\ r.kind = kind[p] /\ r.generation = recorded[p] /\ r.pid = p

RowsDescribe ==
    \A p \in Pids : Describes(row, p) /\ \A q \in Pids : Describes(seen[q], p)

\* The decision to write stays justified until the write: a snapshot of a live
\* process's row is written over only by interactive over daemon.
DecisionStands ==
    \A p, q \in Pids :
        (p # q /\ pc[q] = "write" /\ seen[q] # NoRow /\ seen[q].token \in {hold[p], mine[p]})
            => kind[p] = "daemon" /\ kind[q] = "interactive"

\* An interactive process keeps the row as long as it remembers a token, and
\* works only while it does.
InteractiveKeeps ==
    \A p \in Pids : kind[p] = "interactive" =>
        /\ hold[p] # NoToken => Held(p)
        /\ Busy(p) => hold[p] # NoToken
        /\ pc[p] \in {"release", "delete"} => ~Busy(p)

\* A pass converts only inside drive(), and a claim for one leaves room for it.
Counting ==
    \A p \in Pids :
        /\ converting[p] <= driving[p]
        /\ (pc[p] \in {"read", "probe", "write", "confirm"} /\ goal[p] = "pass") => driving[p] < MaxDriving

\* Only a driver's process claims, releases or closes.
OnlyDriversAct ==
    \A p \in Pids : (pc[p] # "idle" \/ closed[p] # "open") => kind[p] \in Driver

IInv ==
    /\ TypeOK /\ DeadForgets /\ TokensNameMinter /\ MintedIsFresh /\ ClaimantHoldsNothing
    /\ RowsDescribe /\ DecisionStands /\ InteractiveKeeps /\ Counting /\ OnlyDriversAct

LEMMA StartPreserves ==
    ASSUME IInv, NEW p \in Pids, NEW k \in Kinds, Start(p, k)
    PROVE  IInv'
<1>0. (CHOOSE g \in FreshGens(p) : TRUE) \in Gens
    BY DEF Start, FreshGens
<1>1. TypeOK'
    BY <1>0, DriverLeaseAssumption DEF IInv, TypeOK, Row, Tokens, Driver, Kinds, Steps, Goals, FreshGens, Start, osVars, claim, workVars
<1>2. DeadForgets'
    BY <1>0, DriverLeaseAssumption DEF IInv, TypeOK, DeadForgets, Start, osVars, claim, workVars
<1>3. TokensNameMinter'
    BY <1>0, DriverLeaseAssumption DEF IInv, TypeOK, TokensNameMinter, Claiming, FreshGens, Start, osVars, claim, workVars
<1>4. MintedIsFresh'
    BY <1>0, DriverLeaseAssumption DEF IInv, TypeOK, MintedIsFresh, Claiming, HasToken, Start, osVars, claim, workVars
<1>5. ClaimantHoldsNothing'
    BY <1>0, DriverLeaseAssumption DEF IInv, TypeOK, ClaimantHoldsNothing, Held, HasToken, Start, osVars, claim, workVars
<1>6. RowsDescribe'
    BY <1>0, DriverLeaseAssumption DEF IInv, TypeOK, RowsDescribe, Describes, DeadForgets, Row, Start, osVars, claim, workVars
<1>7. DecisionStands'
    BY <1>0, DriverLeaseAssumption DEF IInv, TypeOK, DecisionStands, DeadForgets, Row, Start, osVars, claim, workVars
<1>8. InteractiveKeeps'
    BY <1>0, DriverLeaseAssumption DEF IInv, TypeOK, InteractiveKeeps, Held, HasToken, Busy, DeadForgets, Start, osVars, claim, workVars
<1>9. Counting'
    BY <1>0, DriverLeaseAssumption DEF IInv, TypeOK, Counting, Start, osVars, claim, workVars
<1>10. OnlyDriversAct'
    BY <1>0, DriverLeaseAssumption DEF IInv, TypeOK, OnlyDriversAct, DeadForgets, Start, osVars, claim, workVars
<1>. QED BY <1>1, <1>2, <1>3, <1>4, <1>5, <1>6, <1>7, <1>8, <1>9, <1>10 DEF IInv


LEMMA CrashPreserves ==
    ASSUME IInv, NEW p \in Pids, Crash(p)
    PROVE  IInv'
<1>1. TypeOK'
    BY DriverLeaseAssumption DEF IInv, TypeOK, Row, Tokens, Driver, Kinds, Steps, Goals, Crash, osVars, claim, workVars
<1>2. DeadForgets'
    BY DriverLeaseAssumption DEF IInv, TypeOK, DeadForgets, Crash, osVars, claim, workVars
<1>3. TokensNameMinter'
    BY DriverLeaseAssumption DEF IInv, TypeOK, TokensNameMinter, Claiming, Crash, osVars, claim, workVars
<1>4. MintedIsFresh'
    BY DriverLeaseAssumption DEF IInv, TypeOK, MintedIsFresh, Claiming, HasToken, Crash, osVars, claim, workVars
<1>5. ClaimantHoldsNothing'
    BY DriverLeaseAssumption DEF IInv, TypeOK, ClaimantHoldsNothing, Held, HasToken, Crash, osVars, claim, workVars
<1>6. RowsDescribe'
    BY DriverLeaseAssumption DEF IInv, TypeOK, RowsDescribe, Describes, Row, Crash, osVars, claim, workVars
<1>7. DecisionStands'
    BY DriverLeaseAssumption DEF IInv, TypeOK, DecisionStands, Row, Crash, osVars, claim, workVars
<1>8. InteractiveKeeps'
    BY DriverLeaseAssumption DEF IInv, TypeOK, InteractiveKeeps, Held, HasToken, Busy, Crash, osVars, claim, workVars
<1>9. Counting'
    BY DriverLeaseAssumption DEF IInv, TypeOK, Counting, Crash, osVars, claim, workVars
<1>10. OnlyDriversAct'
    BY DriverLeaseAssumption DEF IInv, TypeOK, OnlyDriversAct, Driver, Crash, osVars, claim, workVars
<1>. QED BY <1>1, <1>2, <1>3, <1>4, <1>5, <1>6, <1>7, <1>8, <1>9, <1>10 DEF IInv


LEMMA AcquireHeldPreserves ==
    ASSUME IInv, NEW p \in Pids, NEW g \in Goals, AcquireHeld(p, g)
    PROVE  IInv'
<1>1. TypeOK'
    BY DriverLeaseAssumption DEF IInv, TypeOK, Row, Tokens, Driver, Kinds, Steps, Goals, Counting, AcquireHeld, MayAsk, Idle, Grant, Held, HasToken, osVars, claim, workVars
<1>2. DeadForgets'
    BY DriverLeaseAssumption DEF IInv, TypeOK, DeadForgets, AcquireHeld, MayAsk, Idle, Grant, Held, HasToken, osVars, claim, workVars
<1>3. TokensNameMinter'
    BY DriverLeaseAssumption DEF IInv, TypeOK, TokensNameMinter, Claiming, AcquireHeld, MayAsk, Idle, Grant, Held, HasToken, osVars, claim, workVars
<1>4. MintedIsFresh'
    BY DriverLeaseAssumption DEF IInv, TypeOK, MintedIsFresh, Claiming, HasToken, AcquireHeld, MayAsk, Idle, Grant, Held, osVars, claim, workVars
<1>5. ClaimantHoldsNothing'
    BY DriverLeaseAssumption DEF IInv, TypeOK, ClaimantHoldsNothing, Held, HasToken, AcquireHeld, MayAsk, Idle, Grant, osVars, claim, workVars
<1>6. RowsDescribe'
    BY DriverLeaseAssumption DEF IInv, TypeOK, RowsDescribe, Describes, AcquireHeld, MayAsk, Idle, Grant, Held, HasToken, osVars, claim, workVars
<1>7. DecisionStands'
    BY DriverLeaseAssumption DEF IInv, TypeOK, DecisionStands, AcquireHeld, MayAsk, Idle, Grant, Held, HasToken, osVars, claim, workVars
<1>8. InteractiveKeeps'
    BY DriverLeaseAssumption DEF IInv, TypeOK, InteractiveKeeps, Held, HasToken, Busy, AcquireHeld, MayAsk, Idle, Grant, osVars, claim, workVars
<1>9. Counting'
    BY DriverLeaseAssumption DEF IInv, TypeOK, Counting, AcquireHeld, MayAsk, Idle, Grant, Held, HasToken, osVars, claim, workVars
<1>10. OnlyDriversAct'
    BY DriverLeaseAssumption DEF IInv, TypeOK, OnlyDriversAct, Driver, AcquireHeld, MayAsk, Idle, Grant, Held, HasToken, osVars, claim, workVars
<1>. QED BY <1>1, <1>2, <1>3, <1>4, <1>5, <1>6, <1>7, <1>8, <1>9, <1>10 DEF IInv


LEMMA AcquireAnewPreserves ==
    ASSUME IInv, NEW p \in Pids, NEW g \in Goals, AcquireAnew(p, g)
    PROVE  IInv'
<1>1. TypeOK'
    BY DriverLeaseAssumption DEF IInv, TypeOK, Row, Tokens, Driver, Kinds, Steps, Goals, AcquireAnew, MayAsk, Idle, Held, HasToken, osVars, claim, workVars
<1>2. DeadForgets'
    BY DriverLeaseAssumption DEF IInv, TypeOK, DeadForgets, AcquireAnew, MayAsk, Idle, Held, HasToken, osVars, claim, workVars
<1>3. TokensNameMinter'
    BY DriverLeaseAssumption DEF IInv, TypeOK, TokensNameMinter, Claiming, AcquireAnew, MayAsk, Idle, Held, HasToken, osVars, claim, workVars
<1>4. MintedIsFresh'
    BY DriverLeaseAssumption DEF IInv, TypeOK, MintedIsFresh, Claiming, HasToken, AcquireAnew, MayAsk, Idle, Held, osVars, claim, workVars
<1>5. ClaimantHoldsNothing'
    BY DriverLeaseAssumption DEF IInv, TypeOK, ClaimantHoldsNothing, Held, HasToken, AcquireAnew, MayAsk, Idle, osVars, claim, workVars
<1>6. RowsDescribe'
    BY DriverLeaseAssumption DEF IInv, TypeOK, RowsDescribe, Describes, AcquireAnew, MayAsk, Idle, Held, HasToken, osVars, claim, workVars
<1>7. DecisionStands'
    BY DriverLeaseAssumption DEF IInv, TypeOK, DecisionStands, AcquireAnew, MayAsk, Idle, Held, HasToken, osVars, claim, workVars
<1>8. InteractiveKeeps'
    BY DriverLeaseAssumption DEF IInv, TypeOK, InteractiveKeeps, Held, HasToken, Busy, AcquireAnew, MayAsk, Idle, osVars, claim, workVars
<1>9. Counting'
    BY DriverLeaseAssumption DEF IInv, TypeOK, Counting, AcquireAnew, MayAsk, Idle, Held, HasToken, osVars, claim, workVars
<1>10. OnlyDriversAct'
    BY DriverLeaseAssumption DEF IInv, TypeOK, OnlyDriversAct, Driver, AcquireAnew, MayAsk, Idle, Held, HasToken, osVars, claim, workVars
<1>. QED BY <1>1, <1>2, <1>3, <1>4, <1>5, <1>6, <1>7, <1>8, <1>9, <1>10 DEF IInv


LEMMA ReadRowPreserves ==
    ASSUME IInv, NEW p \in Pids, ReadRow(p)
    PROVE  IInv'
<1>0. (CHOOSE t \in FreshTokens(p) : TRUE) \in FreshTokens(p)
    BY DEF ReadRow
<1>a. /\ mine'[p] \in Tokens /\ mine'[p].by = p
      /\ row # NoRow => row.token # mine'[p]
      /\ \A q \in Pids : /\ mine'[p] # hold[q]
                         /\ seen[q] # NoRow => seen[q].token # mine'[p]
    BY <1>0 DEF IInv, TypeOK, ReadRow, FreshTokens
<1>b. /\ seen' = [seen EXCEPT ![p] = row]
      /\ \A q \in Pids : q # p => mine'[q] = mine[q]
      /\ pc'[p] \in {"probe", "write"} /\ \A q \in Pids : q # p => pc'[q] = pc[q]
      /\ UNCHANGED <<row, hold, kind, recorded>>
    BY DEF IInv, TypeOK, ReadRow, osVars
<1>c. pc'[p] = "write" => (row = NoRow \/ row.pid = p)
    BY DEF IInv, TypeOK, ReadRow
<1>1. TypeOK'
    BY <1>0, DriverLeaseAssumption DEF IInv, TypeOK, Row, Tokens, Driver, Kinds, Steps, Goals, FreshTokens, ReadRow, osVars, claim, workVars
<1>2. DeadForgets'
    BY <1>0, DriverLeaseAssumption DEF IInv, TypeOK, DeadForgets, ReadRow, osVars, claim, workVars
<1>3. TokensNameMinter'
    BY <1>0, DriverLeaseAssumption DEF IInv, TypeOK, TokensNameMinter, Claiming, FreshTokens, ReadRow, osVars, claim, workVars
<1>4. MintedIsFresh'
    BY <1>a, <1>b DEF IInv, TypeOK, MintedIsFresh, Claiming, HasToken
<1>5. ClaimantHoldsNothing'
    BY <1>0, DriverLeaseAssumption DEF IInv, TypeOK, ClaimantHoldsNothing, Held, HasToken, ReadRow, osVars, claim, workVars
<1>6. RowsDescribe'
    BY <1>a, <1>b DEF IInv, TypeOK, RowsDescribe, Describes
<1>7. DecisionStands'
    BY <1>a, <1>b, <1>c, DriverLeaseAssumption DEF IInv, TypeOK, DecisionStands, TokensNameMinter, Row
<1>8. InteractiveKeeps'
    BY <1>0, DriverLeaseAssumption DEF IInv, TypeOK, InteractiveKeeps, Held, HasToken, Busy, ReadRow, osVars, claim, workVars
<1>9. Counting'
    BY <1>0, DriverLeaseAssumption DEF IInv, TypeOK, Counting, ReadRow, osVars, claim, workVars
<1>10. OnlyDriversAct'
    BY <1>0, DriverLeaseAssumption DEF IInv, TypeOK, OnlyDriversAct, Driver, ReadRow, osVars, claim, workVars
<1>. QED BY <1>1, <1>2, <1>3, <1>4, <1>5, <1>6, <1>7, <1>8, <1>9, <1>10 DEF IInv


LEMMA ProbePreserves ==
    ASSUME IInv, NEW p \in Pids, Probe(p)
    PROVE  IInv'
<1>a. /\ \A q \in Pids : /\ hold'[q] \in {hold[q], NoToken} /\ mine'[q] \in {mine[q], NoToken}
                         /\ seen'[q] \in {seen[q], NoRow}
                         /\ q # p => pc'[q] = pc[q]
      /\ pc'[p] = "write" =>
            /\ pc[p] = "probe"
            /\ \E isAlive \in Answers(seen[p]) : MayTake(p, isAlive)
      /\ UNCHANGED <<row, kind, recorded>>
    BY DEF IInv, TypeOK, Probe, osVars
<1>1. TypeOK'
  <2>1. pc' \in [Pids -> Steps] /\ goal' \in [Pids -> Goals]
      BY DEF IInv, TypeOK, Probe, Steps, Goals
  <2>2. hold' \in [Pids -> Tokens \cup {NoToken}] /\ mine' \in [Pids -> Tokens \cup {NoToken}]
      BY DEF IInv, TypeOK, Probe
  <2>3. seen' \in [Pids -> Row \cup {NoRow}]
      BY DEF IInv, TypeOK, Probe
  <2>4. UNCHANGED <<row, osVars, closed, workVars>>
      BY DEF Probe
  <2>. QED BY <2>1, <2>2, <2>3, <2>4 DEF IInv, TypeOK, osVars, workVars
<1>2. DeadForgets'
    BY DriverLeaseAssumption DEF IInv, TypeOK, DeadForgets, Probe, Answers, MayTake, osVars, claim, workVars
<1>3. TokensNameMinter'
    BY DriverLeaseAssumption DEF IInv, TypeOK, TokensNameMinter, Claiming, Probe, Answers, MayTake, osVars, claim, workVars
<1>4. MintedIsFresh'
    BY DriverLeaseAssumption DEF IInv, TypeOK, MintedIsFresh, Claiming, HasToken, Probe, Answers, MayTake, osVars, claim, workVars
<1>5. ClaimantHoldsNothing'
    BY DriverLeaseAssumption DEF IInv, TypeOK, ClaimantHoldsNothing, Held, HasToken, Probe, Answers, MayTake, osVars, claim, workVars
<1>6. RowsDescribe'
    BY <1>a, DriverLeaseAssumption DEF IInv, TypeOK, RowsDescribe, Describes, Row
<1>7. DecisionStands'
  <2>. SUFFICES ASSUME NEW o \in Pids, NEW q \in Pids, o # q, pc'[q] = "write",
                       seen'[q] # NoRow, seen'[q].token \in {hold'[o], mine'[o]}
                PROVE  kind[o] = "daemon" /\ kind[q] = "interactive"
      BY <1>a DEF DecisionStands
  <2>1. seen[q] = seen'[q] /\ seen[q].token \in {hold[o], mine[o]}
      BY <1>a, DriverLeaseAssumption DEF IInv, TypeOK, Row
  <2>2. CASE q # p
      BY <2>1, <2>2, <1>a DEF IInv, DecisionStands
  <2>3. CASE q = p
    <3>1. alive[o]
        BY <2>1, DriverLeaseAssumption DEF IInv, TypeOK, DeadForgets, Row
    <3>2. /\ seen[q].pid = o /\ seen[q].kind = kind[o]
          /\ seen[q].generation \in {gen[o], NoGen}
        BY <2>1 DEF IInv, RowsDescribe, Describes, TokensNameMinter
    <3>3. Answers(seen[q]) = {TRUE}
      <4>1. alive[seen[q].pid] = TRUE
          BY <3>1, <3>2 DEF IInv, TypeOK
      <4>2. CASE seen[q].generation = NoGen
          BY <4>1, <4>2 DEF Answers
      <4>3. CASE seen[q].generation # NoGen
        <5>1. gen[seen[q].pid] = seen[q].generation
            BY <3>2, <4>3
        <5>. QED BY <4>1, <4>3, <5>1 DEF Answers
      <4>. QED BY <4>2, <4>3
    <3>4. PICK isAlive \in Answers(seen[p]) : MayTake(p, isAlive)
        BY <2>3, <1>a
    <3>5. MayTake(p, TRUE)
        BY <3>3, <3>4, <2>3
    <3>. QED BY <3>2, <3>5, <2>3 DEF MayTake
  <2>. QED BY <2>2, <2>3
<1>8. InteractiveKeeps'
    BY DriverLeaseAssumption DEF IInv, TypeOK, InteractiveKeeps, Held, HasToken, Busy, ClaimantHoldsNothing, Probe, Answers, MayTake, osVars, claim, workVars
<1>9. Counting'
    BY DriverLeaseAssumption DEF IInv, TypeOK, Counting, Probe, Answers, MayTake, osVars, claim, workVars
<1>10. OnlyDriversAct'
    BY DriverLeaseAssumption DEF IInv, TypeOK, OnlyDriversAct, Driver, Probe, Answers, MayTake, osVars, claim, workVars
<1>. QED BY <1>1, <1>2, <1>3, <1>4, <1>5, <1>6, <1>7, <1>8, <1>9, <1>10 DEF IInv


LEMMA WritePreserves ==
    ASSUME IInv, NEW p \in Pids, Write(p)
    PROVE  IInv'
<1>1. TypeOK'
    BY DriverLeaseAssumption DEF IInv, TypeOK, Row, Tokens, Driver, Kinds, Steps, Goals, OnlyDriversAct, TokensNameMinter, Claiming, Write, SwapApplies, osVars, claim, workVars
<1>2. DeadForgets'
    BY DriverLeaseAssumption DEF IInv, TypeOK, DeadForgets, Write, SwapApplies, osVars, claim, workVars
<1>3. TokensNameMinter'
    BY DriverLeaseAssumption DEF IInv, TypeOK, TokensNameMinter, Claiming, Write, SwapApplies, osVars, claim, workVars
<1>4. MintedIsFresh'
    BY DriverLeaseAssumption DEF IInv, TypeOK, MintedIsFresh, Claiming, HasToken, TokensNameMinter, Row, Tokens, Write, SwapApplies, osVars, claim, workVars
<1>5. ClaimantHoldsNothing'
    BY DriverLeaseAssumption DEF IInv, TypeOK, ClaimantHoldsNothing, Held, HasToken, MintedIsFresh, TokensNameMinter, Claiming, Row, Tokens, Write, SwapApplies, osVars, claim, workVars
<1>6. RowsDescribe'
    BY DriverLeaseAssumption DEF IInv, TypeOK, RowsDescribe, Describes, MintedIsFresh, TokensNameMinter, Claiming, Row, Tokens, Write, SwapApplies, osVars, claim, workVars
<1>7. DecisionStands'
    BY DriverLeaseAssumption DEF IInv, TypeOK, DecisionStands, Write, SwapApplies, osVars, claim, workVars
<1>8. InteractiveKeeps'
    BY DriverLeaseAssumption DEF IInv, TypeOK, InteractiveKeeps, Held, HasToken, Busy, DecisionStands, ClaimantHoldsNothing, TokensNameMinter, Claiming, Row, Tokens, Write, SwapApplies, osVars, claim, workVars
<1>9. Counting'
    BY DriverLeaseAssumption DEF IInv, TypeOK, Counting, Write, SwapApplies, osVars, claim, workVars
<1>10. OnlyDriversAct'
    BY DriverLeaseAssumption DEF IInv, TypeOK, OnlyDriversAct, Driver, Write, SwapApplies, osVars, claim, workVars
<1>. QED BY <1>1, <1>2, <1>3, <1>4, <1>5, <1>6, <1>7, <1>8, <1>9, <1>10 DEF IInv


LEMMA ConfirmPreserves ==
    ASSUME IInv, NEW p \in Pids, Confirm(p)
    PROVE  IInv'
<1>1. TypeOK'
  <2>1. driving' \in [Pids -> 0 .. MaxDriving] /\ converting' \in [Pids -> 0 .. MaxDriving]
      BY DriverLeaseAssumption DEF IInv, TypeOK, Counting, Confirm, Grant, workVars
  <2>2. hold' \in [Pids -> Tokens \cup {NoToken}] /\ mine' \in [Pids -> Tokens \cup {NoToken}]
      BY DEF IInv, TypeOK, Confirm
  <2>3. pc' \in [Pids -> Steps] /\ goal' \in [Pids -> Goals] /\ turn' \in [Pids -> BOOLEAN]
      BY DEF IInv, TypeOK, Confirm, Grant, workVars, Steps, Goals
  <2>. QED BY <2>1, <2>2, <2>3 DEF IInv, TypeOK, Confirm, osVars
<1>2. DeadForgets'
    BY DriverLeaseAssumption DEF IInv, TypeOK, DeadForgets, Confirm, Grant, HasToken, osVars, claim, workVars
<1>3. TokensNameMinter'
    BY DriverLeaseAssumption DEF IInv, TypeOK, TokensNameMinter, Claiming, Confirm, Grant, HasToken, osVars, claim, workVars
<1>4. MintedIsFresh'
    BY DriverLeaseAssumption DEF IInv, TypeOK, MintedIsFresh, Claiming, HasToken, Confirm, Grant, osVars, claim, workVars
<1>5. ClaimantHoldsNothing'
    BY DriverLeaseAssumption DEF IInv, TypeOK, ClaimantHoldsNothing, Held, HasToken, Confirm, Grant, osVars, claim, workVars
<1>6. RowsDescribe'
    BY DriverLeaseAssumption DEF IInv, TypeOK, RowsDescribe, Describes, Row, Confirm, Grant, HasToken, osVars, claim, workVars
<1>7. DecisionStands'
    BY DriverLeaseAssumption DEF IInv, TypeOK, DecisionStands, Row, Confirm, Grant, HasToken, osVars, claim, workVars
<1>8. InteractiveKeeps'
    BY DriverLeaseAssumption DEF IInv, TypeOK, InteractiveKeeps, Held, HasToken, Busy, Row, Confirm, Grant, osVars, claim, workVars
<1>9. Counting'
    BY DriverLeaseAssumption DEF IInv, TypeOK, Counting, Confirm, Grant, HasToken, osVars, claim, workVars
<1>10. OnlyDriversAct'
    BY DriverLeaseAssumption DEF IInv, TypeOK, OnlyDriversAct, Driver, Confirm, Grant, HasToken, osVars, claim, workVars
<1>. QED BY <1>1, <1>2, <1>3, <1>4, <1>5, <1>6, <1>7, <1>8, <1>9, <1>10 DEF IInv


LEMMA OperationEndsPreserves ==
    ASSUME IInv, NEW p \in Pids, OperationEnds(p)
    PROVE  IInv'
<1>1. TypeOK'
    BY DriverLeaseAssumption DEF IInv, TypeOK, Row, Tokens, Driver, Kinds, Steps, Goals, OperationEnds, Idle, osVars, claim, workVars
<1>2. DeadForgets'
    BY DriverLeaseAssumption DEF IInv, TypeOK, DeadForgets, OperationEnds, Idle, osVars, claim, workVars
<1>3. TokensNameMinter'
    BY DriverLeaseAssumption DEF IInv, TypeOK, TokensNameMinter, Claiming, OperationEnds, Idle, osVars, claim, workVars
<1>4. MintedIsFresh'
    BY DriverLeaseAssumption DEF IInv, TypeOK, MintedIsFresh, Claiming, HasToken, OperationEnds, Idle, osVars, claim, workVars
<1>5. ClaimantHoldsNothing'
    BY DriverLeaseAssumption DEF IInv, TypeOK, ClaimantHoldsNothing, Held, HasToken, OperationEnds, Idle, osVars, claim, workVars
<1>6. RowsDescribe'
    BY DriverLeaseAssumption DEF IInv, TypeOK, RowsDescribe, Describes, OperationEnds, Idle, osVars, claim, workVars
<1>7. DecisionStands'
    BY DriverLeaseAssumption DEF IInv, TypeOK, DecisionStands, OperationEnds, Idle, osVars, claim, workVars
<1>8. InteractiveKeeps'
    BY DriverLeaseAssumption DEF IInv, TypeOK, InteractiveKeeps, Held, HasToken, Busy, OperationEnds, Idle, osVars, claim, workVars
<1>9. Counting'
    BY DriverLeaseAssumption DEF IInv, TypeOK, Counting, OperationEnds, Idle, osVars, claim, workVars
<1>10. OnlyDriversAct'
    BY DriverLeaseAssumption DEF IInv, TypeOK, OnlyDriversAct, Driver, OperationEnds, Idle, osVars, claim, workVars
<1>. QED BY <1>1, <1>2, <1>3, <1>4, <1>5, <1>6, <1>7, <1>8, <1>9, <1>10 DEF IInv


LEMMA NextOperationPreserves ==
    ASSUME IInv, NEW p \in Pids, NextOperation(p)
    PROVE  IInv'
<1>1. TypeOK'
    BY DriverLeaseAssumption DEF IInv, TypeOK, Row, Tokens, Driver, Kinds, Steps, Goals, NextOperation, Idle, Held, HasToken, osVars, claim, workVars
<1>2. DeadForgets'
    BY DriverLeaseAssumption DEF IInv, TypeOK, DeadForgets, NextOperation, Idle, Held, HasToken, osVars, claim, workVars
<1>3. TokensNameMinter'
    BY DriverLeaseAssumption DEF IInv, TypeOK, TokensNameMinter, Claiming, NextOperation, Idle, Held, HasToken, osVars, claim, workVars
<1>4. MintedIsFresh'
    BY DriverLeaseAssumption DEF IInv, TypeOK, MintedIsFresh, Claiming, HasToken, NextOperation, Idle, Held, osVars, claim, workVars
<1>5. ClaimantHoldsNothing'
    BY DriverLeaseAssumption DEF IInv, TypeOK, ClaimantHoldsNothing, Held, HasToken, NextOperation, Idle, osVars, claim, workVars
<1>6. RowsDescribe'
    BY DriverLeaseAssumption DEF IInv, TypeOK, RowsDescribe, Describes, NextOperation, Idle, Held, HasToken, osVars, claim, workVars
<1>7. DecisionStands'
    BY DriverLeaseAssumption DEF IInv, TypeOK, DecisionStands, NextOperation, Idle, Held, HasToken, osVars, claim, workVars
<1>8. InteractiveKeeps'
    BY DriverLeaseAssumption DEF IInv, TypeOK, InteractiveKeeps, Held, HasToken, Busy, NextOperation, Idle, osVars, claim, workVars
<1>9. Counting'
    BY DriverLeaseAssumption DEF IInv, TypeOK, Counting, NextOperation, Idle, Held, HasToken, osVars, claim, workVars
<1>10. OnlyDriversAct'
    BY DriverLeaseAssumption DEF IInv, TypeOK, OnlyDriversAct, Driver, NextOperation, Idle, Held, HasToken, osVars, claim, workVars
<1>. QED BY <1>1, <1>2, <1>3, <1>4, <1>5, <1>6, <1>7, <1>8, <1>9, <1>10 DEF IInv


LEMMA PassEndsPreserves ==
    ASSUME IInv, NEW p \in Pids, PassEnds(p)
    PROVE  IInv'
<1>1. TypeOK'
    BY DriverLeaseAssumption DEF IInv, TypeOK, Row, Tokens, Driver, Kinds, Steps, Goals, PassEnds, Idle, osVars, claim, workVars
<1>2. DeadForgets'
    BY DriverLeaseAssumption DEF IInv, TypeOK, DeadForgets, PassEnds, Idle, osVars, claim, workVars
<1>3. TokensNameMinter'
    BY DriverLeaseAssumption DEF IInv, TypeOK, TokensNameMinter, Claiming, PassEnds, Idle, osVars, claim, workVars
<1>4. MintedIsFresh'
    BY DriverLeaseAssumption DEF IInv, TypeOK, MintedIsFresh, Claiming, HasToken, PassEnds, Idle, osVars, claim, workVars
<1>5. ClaimantHoldsNothing'
    BY DriverLeaseAssumption DEF IInv, TypeOK, ClaimantHoldsNothing, Held, HasToken, PassEnds, Idle, osVars, claim, workVars
<1>6. RowsDescribe'
    BY DriverLeaseAssumption DEF IInv, TypeOK, RowsDescribe, Describes, PassEnds, Idle, osVars, claim, workVars
<1>7. DecisionStands'
    BY DriverLeaseAssumption DEF IInv, TypeOK, DecisionStands, PassEnds, Idle, osVars, claim, workVars
<1>8. InteractiveKeeps'
    BY DriverLeaseAssumption DEF IInv, TypeOK, InteractiveKeeps, Held, HasToken, Busy, PassEnds, Idle, osVars, claim, workVars
<1>9. Counting'
    BY DriverLeaseAssumption DEF IInv, TypeOK, Counting, PassEnds, Idle, osVars, claim, workVars
<1>10. OnlyDriversAct'
    BY DriverLeaseAssumption DEF IInv, TypeOK, OnlyDriversAct, Driver, PassEnds, Idle, osVars, claim, workVars
<1>. QED BY <1>1, <1>2, <1>3, <1>4, <1>5, <1>6, <1>7, <1>8, <1>9, <1>10 DEF IInv


LEMMA TurnEndsPreserves ==
    ASSUME IInv, NEW p \in Pids, TurnEnds(p)
    PROVE  IInv'
<1>1. TypeOK'
    BY DriverLeaseAssumption DEF IInv, TypeOK, Row, Tokens, Driver, Kinds, Steps, Goals, TurnEnds, Idle, osVars, claim, workVars
<1>2. DeadForgets'
    BY DriverLeaseAssumption DEF IInv, TypeOK, DeadForgets, TurnEnds, Idle, osVars, claim, workVars
<1>3. TokensNameMinter'
    BY DriverLeaseAssumption DEF IInv, TypeOK, TokensNameMinter, Claiming, TurnEnds, Idle, osVars, claim, workVars
<1>4. MintedIsFresh'
    BY DriverLeaseAssumption DEF IInv, TypeOK, MintedIsFresh, Claiming, HasToken, TurnEnds, Idle, osVars, claim, workVars
<1>5. ClaimantHoldsNothing'
    BY DriverLeaseAssumption DEF IInv, TypeOK, ClaimantHoldsNothing, Held, HasToken, TurnEnds, Idle, osVars, claim, workVars
<1>6. RowsDescribe'
    BY DriverLeaseAssumption DEF IInv, TypeOK, RowsDescribe, Describes, TurnEnds, Idle, osVars, claim, workVars
<1>7. DecisionStands'
    BY DriverLeaseAssumption DEF IInv, TypeOK, DecisionStands, TurnEnds, Idle, osVars, claim, workVars
<1>8. InteractiveKeeps'
    BY DriverLeaseAssumption DEF IInv, TypeOK, InteractiveKeeps, Held, HasToken, Busy, TurnEnds, Idle, osVars, claim, workVars
<1>9. Counting'
    BY DriverLeaseAssumption DEF IInv, TypeOK, Counting, TurnEnds, Idle, osVars, claim, workVars
<1>10. OnlyDriversAct'
    BY DriverLeaseAssumption DEF IInv, TypeOK, OnlyDriversAct, Driver, TurnEnds, Idle, osVars, claim, workVars
<1>. QED BY <1>1, <1>2, <1>3, <1>4, <1>5, <1>6, <1>7, <1>8, <1>9, <1>10 DEF IInv


LEMMA BeginClosePreserves ==
    ASSUME IInv, NEW p \in Pids, BeginClose(p)
    PROVE  IInv'
<1>1. TypeOK'
    BY DriverLeaseAssumption DEF IInv, TypeOK, Row, Tokens, Driver, Kinds, Steps, Goals, BeginClose, Idle, osVars, claim, workVars
<1>2. DeadForgets'
    BY DriverLeaseAssumption DEF IInv, TypeOK, DeadForgets, BeginClose, Idle, osVars, claim, workVars
<1>3. TokensNameMinter'
    BY DriverLeaseAssumption DEF IInv, TypeOK, TokensNameMinter, Claiming, BeginClose, Idle, osVars, claim, workVars
<1>4. MintedIsFresh'
    BY DriverLeaseAssumption DEF IInv, TypeOK, MintedIsFresh, Claiming, HasToken, BeginClose, Idle, osVars, claim, workVars
<1>5. ClaimantHoldsNothing'
    BY DriverLeaseAssumption DEF IInv, TypeOK, ClaimantHoldsNothing, Held, HasToken, BeginClose, Idle, osVars, claim, workVars
<1>6. RowsDescribe'
    BY DriverLeaseAssumption DEF IInv, TypeOK, RowsDescribe, Describes, BeginClose, Idle, osVars, claim, workVars
<1>7. DecisionStands'
    BY DriverLeaseAssumption DEF IInv, TypeOK, DecisionStands, BeginClose, Idle, osVars, claim, workVars
<1>8. InteractiveKeeps'
    BY DriverLeaseAssumption DEF IInv, TypeOK, InteractiveKeeps, Held, HasToken, Busy, BeginClose, Idle, osVars, claim, workVars
<1>9. Counting'
    BY DriverLeaseAssumption DEF IInv, TypeOK, Counting, BeginClose, Idle, osVars, claim, workVars
<1>10. OnlyDriversAct'
    BY DriverLeaseAssumption DEF IInv, TypeOK, OnlyDriversAct, Driver, BeginClose, Idle, osVars, claim, workVars
<1>. QED BY <1>1, <1>2, <1>3, <1>4, <1>5, <1>6, <1>7, <1>8, <1>9, <1>10 DEF IInv


LEMMA FinishClosePreserves ==
    ASSUME IInv, NEW p \in Pids, FinishClose(p)
    PROVE  IInv'
<1>1. TypeOK'
    BY DriverLeaseAssumption DEF IInv, TypeOK, Row, Tokens, Driver, Kinds, Steps, Goals, FinishClose, Idle, osVars, claim, workVars
<1>2. DeadForgets'
    BY DriverLeaseAssumption DEF IInv, TypeOK, DeadForgets, FinishClose, Idle, osVars, claim, workVars
<1>3. TokensNameMinter'
    BY DriverLeaseAssumption DEF IInv, TypeOK, TokensNameMinter, Claiming, FinishClose, Idle, osVars, claim, workVars
<1>4. MintedIsFresh'
    BY DriverLeaseAssumption DEF IInv, TypeOK, MintedIsFresh, Claiming, HasToken, FinishClose, Idle, osVars, claim, workVars
<1>5. ClaimantHoldsNothing'
    BY DriverLeaseAssumption DEF IInv, TypeOK, ClaimantHoldsNothing, Held, HasToken, FinishClose, Idle, osVars, claim, workVars
<1>6. RowsDescribe'
    BY DriverLeaseAssumption DEF IInv, TypeOK, RowsDescribe, Describes, FinishClose, Idle, osVars, claim, workVars
<1>7. DecisionStands'
    BY DriverLeaseAssumption DEF IInv, TypeOK, DecisionStands, FinishClose, Idle, osVars, claim, workVars
<1>8. InteractiveKeeps'
    BY DriverLeaseAssumption DEF IInv, TypeOK, InteractiveKeeps, Held, HasToken, Busy, FinishClose, Idle, osVars, claim, workVars
<1>9. Counting'
    BY DriverLeaseAssumption DEF IInv, TypeOK, Counting, FinishClose, Idle, osVars, claim, workVars
<1>10. OnlyDriversAct'
    BY DriverLeaseAssumption DEF IInv, TypeOK, OnlyDriversAct, Driver, FinishClose, Idle, osVars, claim, workVars
<1>. QED BY <1>1, <1>2, <1>3, <1>4, <1>5, <1>6, <1>7, <1>8, <1>9, <1>10 DEF IInv


LEMMA ReleaseReadPreserves ==
    ASSUME IInv, NEW p \in Pids, ReleaseRead(p)
    PROVE  IInv'
<1>1. TypeOK'
    BY DriverLeaseAssumption DEF IInv, TypeOK, Row, Tokens, Driver, Kinds, Steps, Goals, ReleaseRead, Held, HasToken, osVars, claim, workVars
<1>2. DeadForgets'
    BY DriverLeaseAssumption DEF IInv, TypeOK, DeadForgets, ReleaseRead, Held, HasToken, osVars, claim, workVars
<1>3. TokensNameMinter'
    BY DriverLeaseAssumption DEF IInv, TypeOK, TokensNameMinter, Claiming, ReleaseRead, Held, HasToken, osVars, claim, workVars
<1>4. MintedIsFresh'
    BY DriverLeaseAssumption DEF IInv, TypeOK, MintedIsFresh, Claiming, HasToken, ReleaseRead, Held, osVars, claim, workVars
<1>5. ClaimantHoldsNothing'
    BY DriverLeaseAssumption DEF IInv, TypeOK, ClaimantHoldsNothing, Held, HasToken, ReleaseRead, osVars, claim, workVars
<1>6. RowsDescribe'
    BY DriverLeaseAssumption DEF IInv, TypeOK, RowsDescribe, Describes, Row, ReleaseRead, Held, HasToken, osVars, claim, workVars
<1>7. DecisionStands'
    BY DriverLeaseAssumption DEF IInv, TypeOK, DecisionStands, Row, ReleaseRead, Held, HasToken, osVars, claim, workVars
<1>8. InteractiveKeeps'
    BY DriverLeaseAssumption DEF IInv, TypeOK, InteractiveKeeps, Held, HasToken, Busy, ReleaseRead, osVars, claim, workVars
<1>9. Counting'
    BY DriverLeaseAssumption DEF IInv, TypeOK, Counting, ReleaseRead, Held, HasToken, osVars, claim, workVars
<1>10. OnlyDriversAct'
    BY DriverLeaseAssumption DEF IInv, TypeOK, OnlyDriversAct, Driver, ReleaseRead, Held, HasToken, osVars, claim, workVars
<1>. QED BY <1>1, <1>2, <1>3, <1>4, <1>5, <1>6, <1>7, <1>8, <1>9, <1>10 DEF IInv


LEMMA ReleaseDeletePreserves ==
    ASSUME IInv, NEW p \in Pids, ReleaseDelete(p)
    PROVE  IInv'
<1>1. TypeOK'
    BY DriverLeaseAssumption DEF IInv, TypeOK, Row, Tokens, Driver, Kinds, Steps, Goals, ReleaseDelete, HasToken, osVars, claim, workVars
<1>2. DeadForgets'
    BY DriverLeaseAssumption DEF IInv, TypeOK, DeadForgets, ReleaseDelete, HasToken, osVars, claim, workVars
<1>3. TokensNameMinter'
    BY DriverLeaseAssumption DEF IInv, TypeOK, TokensNameMinter, Claiming, ReleaseDelete, HasToken, osVars, claim, workVars
<1>4. MintedIsFresh'
    BY DriverLeaseAssumption DEF IInv, TypeOK, MintedIsFresh, Claiming, HasToken, ReleaseDelete, osVars, claim, workVars
<1>5. ClaimantHoldsNothing'
    BY DriverLeaseAssumption DEF IInv, TypeOK, ClaimantHoldsNothing, Held, HasToken, ReleaseDelete, osVars, claim, workVars
<1>6. RowsDescribe'
    BY DriverLeaseAssumption DEF IInv, TypeOK, RowsDescribe, Describes, Row, ReleaseDelete, HasToken, osVars, claim, workVars
<1>7. DecisionStands'
    BY DriverLeaseAssumption DEF IInv, TypeOK, DecisionStands, Row, ReleaseDelete, HasToken, osVars, claim, workVars
<1>8. InteractiveKeeps'
    BY DriverLeaseAssumption DEF IInv, TypeOK, InteractiveKeeps, Held, HasToken, Busy, TokensNameMinter, Claiming, Row, Tokens, ReleaseDelete, osVars, claim, workVars
<1>9. Counting'
    BY DriverLeaseAssumption DEF IInv, TypeOK, Counting, ReleaseDelete, HasToken, osVars, claim, workVars
<1>10. OnlyDriversAct'
    BY DriverLeaseAssumption DEF IInv, TypeOK, OnlyDriversAct, Driver, ReleaseDelete, HasToken, osVars, claim, workVars
<1>. QED BY <1>1, <1>2, <1>3, <1>4, <1>5, <1>6, <1>7, <1>8, <1>9, <1>10 DEF IInv

(***************************************************************************)
(* The invariant holds from the start and along every step.                *)
(***************************************************************************)
LEMMA InitEstablishes == Init => IInv
  BY DriverLeaseAssumption
  DEF Init, IInv, TypeOK, Row, Tokens, Kinds, Driver, Steps, Goals, DeadForgets, TokensNameMinter,
      Claiming, MintedIsFresh, HasToken, ClaimantHoldsNothing, Held, RowsDescribe, Describes,
      DecisionStands, InteractiveKeeps, Busy, Counting, OnlyDriversAct

LEMMA NextPreserves == IInv /\ [Next]_vars => IInv'
<1>. SUFFICES ASSUME IInv, [Next]_vars PROVE IInv'
    OBVIOUS
<1>1. CASE UNCHANGED vars
    BY <1>1
    DEF vars, osVars, claim, workVars, IInv, TypeOK, DeadForgets, TokensNameMinter, Claiming,
        MintedIsFresh, HasToken, ClaimantHoldsNothing, Held, RowsDescribe, Describes,
        DecisionStands, InteractiveKeeps, Busy, Counting, OnlyDriversAct
<1>2. CASE Next
  <2>1. PICK p \in Pids :
          \/ \E k \in Kinds : Start(p, k)
          \/ Crash(p)
          \/ \E g \in Goals : Ask(p, g)
          \/ Acquiring(p) \/ Releasing(p)
          \/ OperationEnds(p) \/ NextOperation(p) \/ PassEnds(p) \/ TurnEnds(p)
          \/ BeginClose(p) \/ FinishClose(p)
      BY <1>2 DEF Next
  <2>2. CASE \E k \in Kinds : Start(p, k)
      BY <2>2, StartPreserves
  <2>3. CASE Crash(p)
      BY <2>3, CrashPreserves
  <2>4. CASE \E g \in Goals : Ask(p, g)
      BY <2>4, AcquireHeldPreserves, AcquireAnewPreserves DEF Ask
  <2>5. CASE Acquiring(p)
      BY <2>5, ReadRowPreserves, ProbePreserves, WritePreserves, ConfirmPreserves DEF Acquiring
  <2>6. CASE Releasing(p)
      BY <2>6, ReleaseReadPreserves, ReleaseDeletePreserves DEF Releasing
  <2>7. CASE OperationEnds(p) \/ NextOperation(p) \/ PassEnds(p) \/ TurnEnds(p)
      BY <2>7, OperationEndsPreserves, NextOperationPreserves, PassEndsPreserves, TurnEndsPreserves
  <2>8. CASE BeginClose(p) \/ FinishClose(p)
      BY <2>8, BeginClosePreserves, FinishClosePreserves
  <2>. QED BY <2>1, <2>2, <2>3, <2>4, <2>5, <2>6, <2>7, <2>8
<1>. QED BY <1>1, <1>2

LEMMA InvariantHolds == Spec => []IInv
  BY InitEstablishes, NextPreserves, PTL DEF Spec

\* The lease module's variables keep their types under every interleaving.
THEOREM TypeCorrect == Spec => []TypeOK
<1>1. IInv => TypeOK
    BY DEF IInv
<1>. QED BY <1>1, InvariantHolds, PTL

\* No two interactive processes convert the conversation at once: each keeps
\* the row from its compare-and-swap to its release, and the row is one.
THEOREM InteractiveExclusion == Spec => []InteractiveExclusive
<1>1. IInv => InteractiveExclusive
    BY DEF IInv, InteractiveExclusive, InteractiveKeeps, TokensNameMinter, Held, HasToken
<1>. QED BY <1>1, InvariantHolds, PTL

\* One step never takes the row from a live owner, other than by its own
\* delete or by an interactive process over a daemon.
LEMMA StepKeepsRow ==
    ASSUME IInv, Next, NEW p \in Pids, Owns(p), row' # row
    PROVE  \/ pc[p] = "delete"
           \/ kind[p] = "daemon" /\ row' # NoRow /\ row'.kind = "interactive"
<1>1. row # NoRow /\ row.token \in {hold[p], mine[p]} /\ row.token \in Tokens
    BY DEF Owns, IInv, TypeOK, Row
<1>2. PICK q \in Pids : Write(q) \/ ReleaseDelete(q)
    BY DEF Next, Start, Crash, Ask, AcquireHeld, AcquireAnew, Acquiring, Releasing, ReadRow, Probe,
           Confirm, ReleaseRead, OperationEnds, NextOperation, PassEnds, TurnEnds, BeginClose, FinishClose
<1>3. CASE ReleaseDelete(q)
  <2>1. row.token = hold[q]
      BY <1>3 DEF ReleaseDelete, HasToken
  <2>2. p = q
      BY <1>1, <2>1, DriverLeaseAssumption DEF IInv, TokensNameMinter
  <2>. QED BY <1>3, <2>2 DEF ReleaseDelete
<1>4. CASE Write(q)
  <2>1. /\ seen[q] # NoRow /\ seen[q].token = row.token /\ pc[q] = "write"
        /\ row' = [pid |-> q, generation |-> recorded[q], token |-> mine[q], kind |-> kind[q]]
      BY <1>1, <1>4 DEF Write, SwapApplies
  <2>2. p # q
    <3>1. ~HasToken(mine[q]) /\ ~Held(q)
        BY <2>1 DEF IInv, MintedIsFresh, Claiming, ClaimantHoldsNothing
    <3>. QED BY <1>1, <3>1, DriverLeaseAssumption DEF HasToken, Held
  <2>3. kind[p] = "daemon" /\ kind[q] = "interactive"
      BY <1>1, <2>1, <2>2 DEF IInv, DecisionStands
  <2>4. row' \in Row
      BY <2>1, <2>3, WritePreserves, <1>4 DEF IInv, TypeOK, Row, Tokens, Driver, TokensNameMinter, Claiming
  <2>. QED BY <2>1, <2>3, <2>4, DriverLeaseAssumption
<1>. QED BY <1>2, <1>3, <1>4

\* Interactive may preempt a live daemon, never the reverse, and no release
\* evicts a successor: the row of a live owner is stable otherwise.
THEOREM LiveOwnerKeeps == Spec => LiveOwnerKeepsRow
<1>1. IInv /\ [Next]_vars =>
        [\A p \in Pids :
           (Owns(p) /\ row' # row) =>
               \/ pc[p] = "delete"
               \/ kind[p] = "daemon" /\ row' # NoRow /\ row'.kind = "interactive"]_vars
    BY StepKeepsRow
<1>. QED BY <1>1, InvariantHolds, PTL DEF Spec, LiveOwnerKeepsRow
=============================================================================
