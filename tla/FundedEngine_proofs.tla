------------------------ MODULE FundedEngine_proofs ------------------------
(***************************************************************************)
(* Theorems about FundedEngine: its type invariant, and that the statuses  *)
(* a run goes through are legal although every call writes them from a     *)
(* stale read.  What carries the argument is the unique settlement row:    *)
(* while a run's row of the day is missing, nobody can have moved the run  *)
(* out of its test, and once it is there, one call alone moves it.  And    *)
(* that the run limit is missed by less than the calls in flight: the runs *)
(* counted against it and the calls past the check are bounded together.   *)
(***************************************************************************)
EXTENDS FundedEngine, FiniteSetTheorems, TLAPS

FundedEra == {"funded_active", "breached", "withdrawn"}

\* What a call in flight relies on, by the query it waits for.
InsertOK(c) ==
    call[c].at = "insert" =>
        /\ call[c].run \in Runs
        /\ status[call[c].run] = "absent"
        /\ cash[call[c].run] # 0

ClosingOK(c) ==
    call[c].at = "closing" =>
        /\ call[c].run \in Runs
        /\ call[c].seen = "funded_active"
        /\ status[call[c].run] \in FundedEra

\* A settling call's run exists; one read as funded is in its funded era.
ReadOK(c) ==
    call[c].at \in {"equity", "record", "move"} =>
        /\ call[c].run \in Runs
        /\ status[call[c].run] # "absent"
        /\ \/ call[c].seen = "test_active"
           \/ call[c].seen = "funded_active" /\ status[call[c].run] \in FundedEra

\* A run read in its test is still there while the day's row is missing.
FreshOK(c) ==
    /\ call[c].at \in {"equity", "record"}
    /\ call[c].seen = "test_active"
    /\ verdict[call[c].run][day] = "none"
    => status[call[c].run] = "test_active"

\* The call that wrote the row finds the run where the row was judged.
MoveOK(c) ==
    call[c].at = "move" =>
        IF call[c].seen = "test_active"
        THEN /\ status[call[c].run] = "test_active"
             /\ verdict[call[c].run][day] \in {"pass", "fail"}
        ELSE verdict[call[c].run][day] = "breach"

FundOK(c) ==
    call[c].at = "fund" =>
        /\ call[c].run \in Runs
        /\ status[call[c].run] = "test_passed"
        /\ verdict[call[c].run][day] = "pass"

TopUpOK(c) ==
    call[c].at = "topup" => call[c].run \in Runs /\ cash[call[c].run] # 0

CallOK(c) ==
    /\ InsertOK(c)
    /\ ClosingOK(c)
    /\ Settling(c) => day \in Days
    /\ ReadOK(c)
    /\ FreshOK(c)
    /\ MoveOK(c)
    /\ FundOK(c)
    /\ TopUpOK(c)

Opened == \A r \in Runs : status[r] # "absent" => cash[r] # 0

Inserting(c) == call[c].at = "insert"
Moving(c) == call[c].at \in {"move", "fund"}

\* One run has at most one call that inserts it and one that moves it.
Apart ==
    \A c, d \in Calls :
        c # d /\ call[c].run = call[d].run =>
            /\ ~(Inserting(c) /\ Inserting(d))
            /\ ~(Moving(c) /\ Moving(d))

IInv ==
    /\ TypeOK
    /\ Opened
    /\ \A c \in Calls : CallOK(c)
    /\ Apart

LEMMA InitOK == Init => IInv
  <1> SUFFICES ASSUME Init PROVE IInv
    OBVIOUS
  <1> USE FundedAssumption
  <1>1. TypeOK
    BY DEF Init, TypeOK, Statuses, Verdicts, CallStates, Idle, Points, Active, Days
  <1>2. Opened /\ (\A c \in Calls : CallOK(c)) /\ Apart
    BY DEF Init, Idle, Opened, CallOK, InsertOK, ClosingOK, Settling, ReadOK, FreshOK,
           MoveOK, FundOK, TopUpOK, Apart, Inserting, Moving
  <1> QED BY <1>1, <1>2 DEF IInv

\* A call goes on with one or two of its fields changed.
LEMMA CallTakesRun ==
    ASSUME NEW now \in CallStates, NEW r \in Runs, NEW p \in Points
    PROVE  [now EXCEPT !.run = r, !.at = p] \in CallStates
  BY DEF CallStates

LEMMA CallTakesProfit ==
    ASSUME NEW now \in CallStates, NEW pnl \in Profits, NEW p \in Points
    PROVE  [now EXCEPT !.pnl = pnl, !.at = p] \in CallStates
  BY DEF CallStates

\* The steps of the type invariant.
LEMMA TypeStep == IInv /\ [Next]_vars => TypeOK'
  <1> SUFFICES ASSUME IInv, [Next]_vars PROVE TypeOK'
    OBVIOUS
  <1> TypeOK
    BY DEF IInv
  <1> USE FundedAssumption DEF TypeOK
  <1>i. Idle \in CallStates
    BY DEF Idle, CallStates, Points, Statuses, Active
  <1>e. ASSUME NEW c \in Calls, End(c) PROVE call' \in [Calls -> CallStates]
    BY <1>e, <1>i DEF End
  <1>g. ASSUME NEW c \in Calls, NEW p \in Points, Goto(c, p)
        PROVE call' \in [Calls -> CallStates]
    BY <1>g DEF Goto, CallStates
  <1>n. ASSUME NEW c \in Calls, NextRun(c) PROVE call' \in [Calls -> CallStates]
    BY <1>n DEF NextRun, CallStates, Idle, Points, Statuses, Active
  <1>a. ASSUME NEW r \in Runs, NEW amount \in {Deposit, Abc}, EnsureAccount(r, amount)
        PROVE cash' \in [Runs -> {0, Deposit, Abc}]
    BY <1>a DEF EnsureAccount
  <1>u. ASSUME NEW c \in Calls, NEW from, NEW to \in Statuses, UpdateStatus(c, from, to)
        PROVE status' \in [Runs -> Statuses]
    BY <1>u DEF UpdateStatus
  <1>1. CASE UNCHANGED vars
    BY <1>1 DEF vars
  <1>2. CASE NextDay
    BY <1>2 DEF NextDay, Days
  <1>3. ASSUME NEW c \in Calls, Step(c) PROVE TypeOK'
    <2> USE DEF Points, Statuses, Active
    <2>1. ASSUME NEW route \in Active, StartRun(c, route) PROVE TypeOK'
      BY <2>1 DEF StartRun, CallStates, Idle
    <2>2. CASE CheckLimit(c)
      BY <2>2, <1>e, <1>g DEF CheckLimit
    <2>3. CASE CheckAlone(c)
      BY <2>3, <1>e, <1>g DEF CheckAlone
    <2>4. CASE OpenAccount(c)
      <3>1. PICK r \in Runs :
               /\ EnsureAccount(r, IF call[c].route = "test_active" THEN Deposit ELSE Abc)
               /\ call' = [call EXCEPT ![c] = [@ EXCEPT !.run = r, !.at = "insert"]]
        BY <2>4 DEF OpenAccount
      <3>2. [call[c] EXCEPT !.run = r, !.at = "insert"] \in CallStates
        BY CallTakesRun
      <3>4. call' \in [Calls -> CallStates]
        BY <3>1, <3>2
      <3>3. cash' \in [Runs -> {0, Deposit, Abc}]
        BY <3>1, <1>a
      <3> QED BY <2>4, <3>3, <3>4 DEF OpenAccount
    <2>5. CASE InsertRun(c)
      <3>1. call[c].route \in Active
        BY DEF CallStates
      <3> QED BY <2>5, <3>1, <1>e DEF InsertRun
    <2>6. CASE ListActive(c)
      BY <2>6 DEF ListActive, CallStates, Idle, ActiveRuns
    <2>7. CASE ReadRun(c)
      <3>1. PICK r \in call[c].todo :
               call' = [call EXCEPT ![c] =
                   IF status[r] \in Active
                   THEN [[call[c] EXCEPT !.todo = @ \ {r}] EXCEPT
                            !.at = "equity", !.run = r, !.seen = status[r]]
                   ELSE [call[c] EXCEPT !.todo = @ \ {r}]]
        BY <2>7 DEF ReadRun
      <3> DEFINE left == [call[c] EXCEPT !.todo = @ \ {r}]
                 taken == [left EXCEPT !.at = "equity", !.run = r, !.seen = status[r]]
      <3>2. r \in Runs /\ left \in CallStates
        BY SMTT(30) DEF CallStates
      <3>3. taken \in CallStates
        BY <3>2 DEF CallStates
      <3>4. call' = [call EXCEPT ![c] = IF status[r] \in Active THEN taken ELSE left]
        BY <3>1
      <3> HIDE DEF left, taken
      <3>5. call' \in [Calls -> CallStates]
        BY <3>2, <3>3, <3>4
      <3> QED BY <2>7, <3>5 DEF ReadRun
    <2>8. CASE SettledAll(c)
      BY <2>8, <1>e DEF SettledAll
    <2>9. CASE ReadEquity(c)
      <3>1. PICK pnl \in Profits :
               call' = [call EXCEPT ![c] = [@ EXCEPT !.pnl = pnl, !.at = "record"]]
        BY <2>9 DEF ReadEquity
      <3>2. [call[c] EXCEPT !.pnl = pnl, !.at = "record"] \in CallStates
        BY CallTakesProfit
      <3>3. call' \in [Calls -> CallStates]
        BY <3>1, <3>2
      <3> QED BY <2>9, <3>3 DEF ReadEquity
    <2>10. CASE Record(c)
      <3>1. call' \in [Calls -> CallStates]
        BY <2>10, <1>g, <1>n DEF Record
      <3>2. verdict' \in [Runs -> [Days -> Verdicts]]
        <4> DEFINE v == Judge(call[c].seen, cash[call[c].run] + call[c].pnl)
        <4>1. v \in Verdicts
          BY DEF Judge, Verdicts
        <4> HIDE DEF v
        <4>2. \/ verdict' = [verdict EXCEPT ![call[c].run][day] = v]
              \/ verdict' = verdict
          BY <2>10 DEF Record, v
        <4>3. call[c].run \in Runs /\ day \in Days
          BY <2>10 DEF IInv, CallOK, ReadOK, Settling, Record
        <4>4. verdict[call[c].run] \in [Days -> Verdicts]
          BY <4>3
        <4>5. [verdict[call[c].run] EXCEPT ![day] = v] \in [Days -> Verdicts]
          BY <4>1, <4>3, <4>4
        <4> QED BY <4>2, <4>3, <4>5
      <3> QED BY <2>10, <3>1, <3>2 DEF Record
    <2>11. CASE Move(c)
      <3>1. call' \in [Calls -> CallStates]
        BY <2>11, <1>g, <1>n DEF Move
      <3> QED BY <2>11, <3>1, <1>u DEF Move
    <2>12. CASE Fund(c)
      BY <2>12, <1>g, <1>u DEF Fund
    <2>13. CASE TopUp(c)
      <3>1. cash' \in [Runs -> {0, Deposit, Abc}]
        BY <2>13 DEF TopUp, EnsureAccount
      <3> QED BY <2>13, <3>1, <1>n DEF TopUp
    <2>14. ASSUME NEW r \in Runs, ReadForWithdrawal(c, r) PROVE TypeOK'
      BY <2>14 DEF ReadForWithdrawal, CallStates, Idle
    <2>15. CASE Withdraw(c)
      BY <2>15, <1>e, <1>u DEF Withdraw
    <2>16. CASE CutOff(c)
      <3>1. call[c].at \in {"move", "fund", "topup"} => call[c].run \in Runs
        BY DEF IInv, CallOK, ReadOK, FundOK, TopUpOK
      <3> QED BY <2>16, <1>e, <3>1 DEF CutOff
    <2> QED
      BY <1>3, <2>1, <2>2, <2>3, <2>4, <2>5, <2>6, <2>7, <2>8, <2>9, <2>10, <2>11, <2>12,
         <2>13, <2>14, <2>15, <2>16 DEF Step
  <1> QED BY <1>1, <1>2, <1>3 DEF Next

\* A step that changes its own call alone, and leaves it neither inserting nor
\* moving, has only that call to answer for.
LEMMA QuietStep ==
    ASSUME NEW c \in Calls, IInv, UNCHANGED <<status, cash, verdict, day>>,
           \A d \in Calls \ {c} : call'[d] = call[d],
           CallOK(c)', ~Inserting(c)', ~Moving(c)'
    PROVE  Opened' /\ (\A d \in Calls : CallOK(d)') /\ Apart'
  <1>1. Opened'
    BY DEF IInv, Opened
  <1>2. ASSUME NEW d \in Calls PROVE CallOK(d)'
    <2>1. CASE d = c
      BY <2>1
    <2>2. CASE d # c
      <3>1. CallOK(d) /\ call'[d] = call[d]
        BY <2>2 DEF IInv
      <3> QED BY <3>1 DEF CallOK, InsertOK, ClosingOK, Settling, ReadOK, FreshOK, MoveOK,
                          FundOK, TopUpOK
    <2> QED BY <2>1, <2>2
  <1>3. Apart'
    BY DEF IInv, Apart, Inserting, Moving
  <1> QED BY <1>1, <1>2, <1>3

\* The quiet steps of an engine call.
LEMMA QuietSteps ==
    ASSUME NEW c \in Calls, IInv,
           \/ \E route \in Active : StartRun(c, route)
           \/ CheckLimit(c) \/ CheckAlone(c) \/ ListActive(c) \/ ReadRun(c)
           \/ SettledAll(c) \/ ReadEquity(c) \/ CutOff(c)
           \/ \E r \in Runs : ReadForWithdrawal(c, r)
    PROVE  Opened' /\ (\A d \in Calls : CallOK(d)') /\ Apart'
  <1> call \in [Calls -> CallStates] /\ status \in [Runs -> Statuses]
    BY DEF IInv, TypeOK
  <1> CallOK(c)
    BY DEF IInv
  <1> USE DEF CallOK, InsertOK, ClosingOK, Settling, ReadOK, FreshOK, MoveOK, FundOK,
              TopUpOK, Inserting, Moving
  <1>1. ASSUME NEW route \in Active, StartRun(c, route)
        PROVE  Opened' /\ (\A d \in Calls : CallOK(d)') /\ Apart'
    BY <1>1, QuietStep DEF StartRun, Idle
  <1>2. CASE CheckLimit(c)
    BY <1>2, QuietStep DEF CheckLimit, End, Goto, Idle, CallStates
  <1>3. CASE CheckAlone(c)
    BY <1>3, QuietStep DEF CheckAlone, End, Goto, Idle, CallStates
  <1>4. CASE ListActive(c)
    BY <1>4, QuietStep DEF ListActive, Idle
  <1>5. CASE SettledAll(c)
    BY <1>5, QuietStep DEF SettledAll, End, Idle
  <1>6. CASE CutOff(c)
    BY <1>6, QuietStep DEF CutOff, End, Idle
  <1>7. ASSUME NEW r \in Runs, ReadForWithdrawal(c, r)
        PROVE  Opened' /\ (\A d \in Calls : CallOK(d)') /\ Apart'
    BY <1>7, QuietStep DEF ReadForWithdrawal, Idle, FundedEra
  <1>8. CASE ReadRun(c)
    <2>1. PICK r \in call[c].todo :
             call' = [call EXCEPT ![c] =
                 IF status[r] \in Active
                 THEN [[call[c] EXCEPT !.todo = @ \ {r}] EXCEPT
                          !.at = "equity", !.run = r, !.seen = status[r]]
                 ELSE [call[c] EXCEPT !.todo = @ \ {r}]]
      BY <1>8 DEF ReadRun
    <2>2. call[c] \in CallStates /\ r \in Runs /\ call[c].at = "next" /\ day \in Days
      BY <1>8 DEF ReadRun, CallStates
    <2>3. \A d \in Calls \ {c} : call'[d] = call[d]
      BY <2>1
    <2>4. CASE status[r] \in Active
      <3>1. call'[c].at = "equity" /\ call'[c].run = r /\ call'[c].seen = status[r]
        BY <2>1, <2>2, <2>4 DEF CallStates
      <3> QED BY <1>8, <2>2, <2>3, <2>4, <3>1, QuietStep DEF ReadRun, Active, FundedEra
    <2>5. CASE status[r] \notin Active
      <3>1. call'[c].at = "next"
        BY <2>1, <2>2, <2>5 DEF CallStates
      <3> QED BY <1>8, <2>2, <2>3, <3>1, QuietStep DEF ReadRun
    <2> QED BY <2>4, <2>5
  <1>9. CASE ReadEquity(c)
    <2>1. PICK pnl \in Profits :
             call' = [call EXCEPT ![c] = [@ EXCEPT !.pnl = pnl, !.at = "record"]]
      BY <1>9 DEF ReadEquity
    <2>2. call[c].at = "equity" /\ call[c] \in CallStates
      BY <1>9 DEF ReadEquity
    <2>3. /\ call'[c].at = "record"
          /\ call'[c].run = call[c].run
          /\ call'[c].seen = call[c].seen
      BY <2>1, <2>2 DEF CallStates
    <2>4. \A d \in Calls \ {c} : call'[d] = call[d]
      BY <2>1
    <2> QED BY <1>9, <2>2, <2>3, <2>4, QuietStep DEF ReadEquity
  <1> QED BY <1>1, <1>2, <1>3, <1>4, <1>5, <1>6, <1>7, <1>8, <1>9

\* The steps that write: each by a call whose own clause says how the run it
\* writes stands, so that no other call can be relying on that run.
LEMMA OpenAccountStep ==
    ASSUME NEW c \in Calls, IInv, OpenAccount(c)
    PROVE  Opened' /\ (\A d \in Calls : CallOK(d)') /\ Apart'
  <1> call \in [Calls -> CallStates] /\ cash \in [Runs -> {0, Deposit, Abc}]
    BY DEF IInv, TypeOK
  <1>1. PICK r \in Runs :
           /\ cash[r] = 0
           /\ EnsureAccount(r, IF call[c].route = "test_active" THEN Deposit ELSE Abc)
           /\ call' = [call EXCEPT ![c] = [@ EXCEPT !.run = r, !.at = "insert"]]
    BY DEF OpenAccount
  <1>2. /\ cash'[r] # 0
        /\ \A q \in Runs \ {r} : cash'[q] = cash[q]
    BY <1>1, FundedAssumption DEF EnsureAccount
  <1>3. /\ call'[c].at = "insert" /\ call'[c].run = r
        /\ \A d \in Calls \ {c} : call'[d] = call[d]
    BY <1>1 DEF CallStates
  <1>4. UNCHANGED <<status, verdict, day>>
    BY DEF OpenAccount
  <1>5. status[r] = "absent"
    BY <1>1 DEF IInv, Opened
  <1>6. Opened'
    BY <1>2, <1>4 DEF IInv, Opened
  <1>7. ASSUME NEW d \in Calls PROVE CallOK(d)'
    <2>1. CASE d = c
      BY <2>1, <1>2, <1>3, <1>4, <1>5 DEF CallOK, InsertOK, ClosingOK, Settling, ReadOK,
         FreshOK, MoveOK, FundOK, TopUpOK
    <2>2. CASE d # c
      <3>1. CallOK(d) /\ call'[d] = call[d]
        BY <2>2, <1>3 DEF IInv
      <3> QED BY <3>1, <1>1, <1>2, <1>4 DEF CallOK, InsertOK, ClosingOK, Settling, ReadOK,
                 FreshOK, MoveOK, FundOK, TopUpOK
    <2> QED BY <2>1, <2>2
  <1>8. \A d \in Calls : Inserting(d) => call[d].run # r
    BY <1>1 DEF IInv, CallOK, InsertOK, Inserting
  <1>9. Apart'
    BY <1>3, <1>8 DEF IInv, Apart, Inserting, Moving
  <1> QED BY <1>6, <1>7, <1>9

\* After a call has written its run's status, the others can go on when the
\* write is one that nobody else was relying against.
LEMMA StatusStep ==
    ASSUME NEW c \in Calls, NEW r \in Runs, NEW to \in Statuses \ {"absent"}, IInv,
           call[c].run = r,
           status' = [status EXCEPT ![r] = to],
           UNCHANGED <<cash, verdict, day>>,
           cash[r] # 0,
           \A d \in Calls \ {c} : call'[d] = call[d],
           CallOK(c)', ~Inserting(c)',
           Moving(c)' => Moving(c),
           Moving(c)' => call'[c].run = r,
           \/ Inserting(c) /\ status[r] = "absent"
           \/ Moving(c) /\ status[r] \in {"test_active", "test_passed"} /\ verdict[r][day] # "none"
           \/ status[r] \in FundedEra /\ to \in FundedEra
    PROVE  Opened' /\ (\A d \in Calls : CallOK(d)') /\ Apart'
  <1> status \in [Runs -> Statuses]
    BY DEF IInv, TypeOK
  <1>1. status'[r] = to /\ \A q \in Runs \ {r} : status'[q] = status[q]
    OBVIOUS
  <1>2. Opened'
    BY <1>1 DEF IInv, Opened
  <1>3. ASSUME NEW d \in Calls PROVE CallOK(d)'
    <2>1. CASE d = c
      BY <2>1
    <2>2. CASE d # c /\ call[d].run # r
      <3>1. CallOK(d) /\ call'[d] = call[d]
        BY <2>2 DEF IInv
      <3> QED BY <2>2, <3>1, <1>1 DEF CallOK, InsertOK, ClosingOK, Settling, ReadOK,
                 FreshOK, MoveOK, FundOK, TopUpOK
    <2>3. CASE d # c /\ call[d].run = r
      <3>1. CallOK(d) /\ call'[d] = call[d]
        BY <2>3 DEF IInv
      <3>2. /\ ~(Inserting(c) /\ Inserting(d))
            /\ ~(Moving(c) /\ Moving(d))
        BY <2>3 DEF IInv, Apart
      <3>3. CASE Inserting(c) /\ status[r] = "absent"
        BY <2>3, <3>1, <3>2, <3>3, <1>1 DEF CallOK, InsertOK, ClosingOK, Settling, ReadOK,
           FreshOK, MoveOK, FundOK, TopUpOK, Inserting, FundedEra
      <3>4. CASE Moving(c) /\ status[r] \in {"test_active", "test_passed"}
                 /\ verdict[r][day] # "none"
        BY <2>3, <3>1, <3>2, <3>4, <1>1 DEF CallOK, InsertOK, ClosingOK, Settling, ReadOK,
           FreshOK, MoveOK, FundOK, TopUpOK, Moving, FundedEra
      <3>5. CASE status[r] \in FundedEra /\ to \in FundedEra
        BY <2>3, <3>1, <3>5, <1>1 DEF CallOK, InsertOK, ClosingOK, Settling, ReadOK,
           FreshOK, MoveOK, FundOK, TopUpOK, FundedEra
      <3> QED BY <3>3, <3>4, <3>5
    <2> QED BY <2>1, <2>2, <2>3
  <1>4. Apart'
    BY DEF IInv, Apart, Inserting, Moving
  <1> QED BY <1>2, <1>3, <1>4

LEMMA StatusSteps ==
    ASSUME NEW c \in Calls, IInv, InsertRun(c) \/ Move(c) \/ Fund(c) \/ Withdraw(c)
    PROVE  Opened' /\ (\A d \in Calls : CallOK(d)') /\ Apart'
  <1> DEFINE r == call[c].run
  <1> call \in [Calls -> CallStates] /\ status \in [Runs -> Statuses]
    BY DEF IInv, TypeOK
  <1> CallOK(c) /\ Opened
    BY DEF IInv
  <1> USE DEF CallOK, InsertOK, ClosingOK, Settling, ReadOK, FreshOK, MoveOK, FundOK,
              TopUpOK, Inserting, Moving, FundedEra
  <1>1. CASE InsertRun(c)
    <2>1. call[c].route \in Statuses \ {"absent"} /\ r \in Runs
      BY <1>1 DEF InsertRun, CallStates, Active, Statuses
    <2>2. call'[c] = Idle /\ \A d \in Calls \ {c} : call'[d] = call[d]
      BY <1>1 DEF InsertRun, End
    <2>3. CallOK(c)' /\ ~Inserting(c)' /\ ~Moving(c)'
      BY <2>2 DEF Idle
    <2>4. /\ status[r] = "absent" /\ cash[r] # 0
          /\ status' = [status EXCEPT ![r] = call[c].route]
          /\ UNCHANGED <<cash, verdict, day>>
      BY <1>1 DEF InsertRun
    <2>5. Inserting(c)
      BY <1>1 DEF InsertRun
    <2> HIDE DEF CallOK, Inserting, Moving
    <2> QED BY <2>1, <2>2, <2>3, <2>4, <2>5, StatusStep
  <1>2. CASE Move(c)
    <2>1. r \in Runs /\ status[r] # "absent" /\ cash[r] # 0 /\ day \in Days
      BY <1>2 DEF Move, Opened
    <2>2. CASE verdict[r][day] = "pass"
      <3>1. /\ status[r] = "test_active"
            /\ status' = [status EXCEPT ![r] = "test_passed"]
            /\ call' = [call EXCEPT ![c].at = "fund"]
        BY <1>2, <2>1, <2>2 DEF Move, UpdateStatus, Goto
      <3>2. /\ call'[c].at = "fund" /\ call'[c].run = r
            /\ \A d \in Calls \ {c} : call'[d] = call[d]
        BY <3>1 DEF CallStates
      <3>3. status'[r] = "test_passed"
        BY <3>1, <2>1
      <3>4. UNCHANGED <<cash, verdict, day>> /\ Moving(c)
        BY <1>2 DEF Move
      <3>5. CallOK(c)' /\ ~Inserting(c)'
        BY <2>1, <2>2, <3>2, <3>3, <3>4
      <3> HIDE DEF CallOK, Inserting, Moving
      <3> QED BY <2>1, <2>2, <3>1, <3>2, <3>4, <3>5, StatusStep DEF Statuses
    <2>3. CASE verdict[r][day] # "pass"
      <3>1. PICK to \in {"test_failed", "breached"} :
               /\ CanTransition(call[c].seen, to)
               /\ status' = [status EXCEPT ![r] = to]
               /\ NextRun(c)
        BY <1>2, <2>3 DEF Move, UpdateStatus
      <3>2. /\ call'[c].at = "next"
            /\ \A d \in Calls \ {c} : call'[d] = call[d]
        BY <3>1 DEF NextRun, Idle
      <3>3. \/ status[r] = "test_active"
            \/ status[r] \in FundedEra /\ to \in FundedEra
        BY <1>2, <3>1 DEF Move, CanTransition
      <3> QED BY <1>2, <2>1, <3>1, <3>2, <3>3, StatusStep DEF Move, Statuses
    <2> QED BY <2>2, <2>3
  <1>3. CASE Fund(c)
    <2>1. /\ r \in Runs /\ status[r] = "test_passed" /\ cash[r] # 0
          /\ status' = [status EXCEPT ![r] = "funded_active"]
          /\ day \in Days /\ verdict[r][day] = "pass"
      BY <1>3 DEF Fund, UpdateStatus, Opened
    <2>2. /\ call'[c].at = "topup" /\ call'[c].run = r
          /\ \A d \in Calls \ {c} : call'[d] = call[d]
      BY <1>3 DEF Fund, Goto, CallStates
    <2> QED BY <1>3, <2>1, <2>2, StatusStep DEF Fund, Statuses
  <1>4. CASE Withdraw(c)
    <2>1. /\ r \in Runs /\ status[r] \in FundedEra /\ cash[r] # 0
          /\ status' = [status EXCEPT ![r] = "withdrawn"]
      BY <1>4 DEF Withdraw, UpdateStatus, Opened
    <2>2. call'[c] = Idle /\ \A d \in Calls \ {c} : call'[d] = call[d]
      BY <1>4 DEF Withdraw, End
    <2>3. CallOK(c)' /\ ~Inserting(c)' /\ ~Moving(c)'
      BY <2>2 DEF Idle
    <2>4. UNCHANGED <<cash, verdict, day>>
      BY <1>4 DEF Withdraw
    <2> HIDE DEF CallOK, Inserting, Moving
    <2> QED BY <2>1, <2>2, <2>3, <2>4, StatusStep DEF Statuses
  <1> QED BY <1>1, <1>2, <1>3, <1>4

\* The account of a run that passed is open already: crediting it changes
\* nothing.
LEMMA TopUpStep ==
    ASSUME NEW c \in Calls, IInv, TopUp(c)
    PROVE  Opened' /\ (\A d \in Calls : CallOK(d)') /\ Apart'
  <1>1. cash' = cash
    BY DEF TopUp, EnsureAccount, IInv, TypeOK, CallOK, TopUpOK
  <1>2. call'[c].at = "next" /\ \A d \in Calls \ {c} : call'[d] = call[d]
    BY DEF TopUp, NextRun, Idle, IInv, TypeOK
  <1>3. day \in Days
    BY DEF TopUp, IInv, CallOK, Settling
  <1> QED
    BY <1>1, <1>2, <1>3, QuietStep DEF TopUp, CallOK, InsertOK, ClosingOK, Settling, ReadOK,
       FreshOK, MoveOK, FundOK, TopUpOK, Inserting, Moving

\* The call that writes the missing row becomes the only one that moves the run.
LEMMA RecordStep ==
    ASSUME NEW c \in Calls, IInv, Record(c)
    PROVE  Opened' /\ (\A d \in Calls : CallOK(d)') /\ Apart'
  <1> DEFINE r == call[c].run
             v == Judge(call[c].seen, cash[r] + call[c].pnl)
  <1> call \in [Calls -> CallStates] /\ verdict \in [Runs -> [Days -> Verdicts]]
    BY DEF IInv, TypeOK
  <1> CallOK(c)
    BY DEF IInv
  <1> USE DEF CallOK, InsertOK, ClosingOK, Settling, ReadOK, FreshOK, MoveOK, FundOK,
              TopUpOK, Inserting, Moving
  <1>1. r \in Runs /\ day \in Days /\ call[c].at = "record"
    BY DEF Record
  <1>2. UNCHANGED <<status, cash, day>>
    BY DEF Record
  <1>3. CASE verdict[r][day] # "none"
    <2>1. verdict' = verdict /\ call'[c].at = "next"
          /\ \A d \in Calls \ {c} : call'[d] = call[d]
      BY <1>1, <1>3 DEF Record, NextRun, Idle
    <2> QED BY <1>1, <1>2, <2>1, QuietStep
  <1>4. CASE verdict[r][day] = "none"
    <2>1. /\ v \in {"open", "pass", "fail", "breach"}
          /\ call[c].seen = "test_active" => v # "breach"
          /\ call[c].seen # "test_active" => v \in {"open", "breach"}
      BY DEF Judge
    <2>2. verdict' = [verdict EXCEPT ![r][day] = v]
      BY <1>4 DEF Record
    <2> HIDE DEF v
    <2>3. /\ verdict'[r][day] = v
          /\ \A q \in Runs \ {r} : verdict'[q] = verdict[q]
      BY <1>1, <2>2
    <2>4. \A d \in Calls \ {c} : call'[d] = call[d]
      BY <1>4 DEF Record, NextRun, Goto
    <2>5. \/ call'[c].at = "next"
          \/ /\ v # "open" /\ call'[c].at = "move"
             /\ call'[c].run = r /\ call'[c].seen = call[c].seen
      <3>1. CASE v = "open"
        BY <1>4, <3>1 DEF Record, NextRun, Idle, v
      <3>2. CASE v # "open"
        BY <1>4, <3>2 DEF Record, Goto, CallStates, v
      <3> QED BY <3>1, <3>2
    <2>6. ASSUME NEW d \in Calls \ {c}, Moving(d) PROVE call[d].run # r
      <3>1. CallOK(d)
        BY DEF IInv
      <3> QED BY <3>1, <1>4, <2>6
    <2>7. CallOK(c)'
      <3>1. CASE call'[c].at = "next"
        BY <1>1, <1>2, <3>1
      <3>2. CASE call'[c].at # "next"
        <4>1. call[c].seen = "test_active" => v \in {"pass", "fail"}
          BY <2>1, <2>5, <3>2
        <4>2. call[c].seen # "test_active" => v = "breach"
          BY <2>1, <2>5, <3>2
        <4> QED BY <1>1, <1>2, <1>4, <2>3, <2>5, <3>2, <4>1, <4>2
      <3> QED BY <3>1, <3>2
    <2>8. ASSUME NEW d \in Calls PROVE CallOK(d)'
      <3>1. CASE d = c
        BY <2>7, <3>1
      <3>2. CASE d # c /\ call[d].run = r
        <4>1. CallOK(d) /\ call'[d] = call[d] /\ ~Moving(d)
          BY <2>4, <2>6, <3>2 DEF IInv
        <4> QED BY <1>2, <2>1, <2>3, <3>2, <4>1
      <3>3. CASE d # c /\ call[d].run # r
        <4>1. CallOK(d) /\ call'[d] = call[d]
          BY <2>4, <3>3 DEF IInv
        <4> QED BY <1>2, <2>3, <3>3, <4>1
      <3> QED BY <3>1, <3>2, <3>3
    <2>9. Opened'
      BY <1>2 DEF IInv, Opened
    <2>10. Apart'
      BY <2>4, <2>5, <2>6 DEF IInv, Apart
    <2> QED BY <2>8, <2>9, <2>10
  <1> QED BY <1>3, <1>4

LEMMA Inductive == IInv /\ [Next]_vars => IInv'
  <1> SUFFICES ASSUME IInv, [Next]_vars PROVE IInv'
    OBVIOUS
  <1>1. TypeOK'
    BY TypeStep
  <1>2. Opened' /\ (\A d \in Calls : CallOK(d)') /\ Apart'
    <2>1. CASE UNCHANGED vars
      BY <2>1 DEF vars, IInv, Opened, CallOK, InsertOK, ClosingOK, Settling, ReadOK, FreshOK,
         MoveOK, FundOK, TopUpOK, Apart, Inserting, Moving
    <2>2. CASE NextDay
      BY <2>2 DEF NextDay, IInv, Opened, CallOK, InsertOK, ClosingOK, Settling, ReadOK,
         FreshOK, MoveOK, FundOK, TopUpOK, Apart, Inserting, Moving
    <2>3. ASSUME NEW c \in Calls, Step(c)
          PROVE  Opened' /\ (\A d \in Calls : CallOK(d)') /\ Apart'
      BY <2>3, QuietSteps, OpenAccountStep, StatusSteps, TopUpStep, RecordStep DEF Step
    <2> QED BY <2>1, <2>2, <2>3 DEF Next
  <1> QED BY <1>1, <1>2 DEF IInv

THEOREM Invariant == Spec => []IInv
  BY InitOK, Inductive, PTL DEF Spec

\* Every state of the engine has its type (engine.ts, funded-store.ts).
THEOREM TypeCorrect == Spec => []TypeOK
  <1>1. IInv => TypeOK
    BY DEF IInv
  <1> QED BY <1>1, Invariant, PTL

LEMMA LegalStep == IInv /\ [Next]_vars =>
    \A r \in Runs :
        \/ status'[r] = status[r]
        \/ status[r] = "absent" /\ status'[r] \in Active
        \/ CanTransition(status[r], status'[r])
        \/ {status[r], status'[r]} = {"breached", "withdrawn"}
  <1> SUFFICES ASSUME IInv, [Next]_vars, NEW r \in Runs, status'[r] # status[r]
               PROVE  \/ status[r] = "absent" /\ status'[r] \in Active
                      \/ CanTransition(status[r], status'[r])
                      \/ {status[r], status'[r]} = {"breached", "withdrawn"}
    OBVIOUS
  <1> call \in [Calls -> CallStates] /\ status \in [Runs -> Statuses]
    BY DEF IInv, TypeOK
  <1>1. PICK c \in Calls : InsertRun(c) \/ Move(c) \/ Fund(c) \/ Withdraw(c)
    BY DEF Next, vars, Step, NextDay, StartRun, CheckLimit, CheckAlone, OpenAccount, ListActive,
       ReadRun, SettledAll, ReadEquity, Record, TopUp, ReadForWithdrawal, CutOff
  <1>2. CallOK(c)
    BY DEF IInv
  <1>3. CASE InsertRun(c)
    BY <1>2, <1>3 DEF InsertRun, CallOK, InsertOK, CallStates
  <1>4. CASE Move(c)
    BY <1>2, <1>4 DEF Move, CallOK, ReadOK, MoveOK, UpdateStatus, CanTransition, FundedEra
  <1>5. CASE Fund(c)
    BY <1>2, <1>5 DEF Fund, CallOK, FundOK, UpdateStatus, CanTransition
  <1>6. CASE Withdraw(c)
    BY <1>2, <1>6 DEF Withdraw, CallOK, ClosingOK, UpdateStatus, CanTransition, FundedEra
  <1> QED BY <1>1, <1>3, <1>4, <1>5, <1>6

\* The statuses of a run change as state-machine.ts allows, a breach and a
\* withdrawal that overwrite one another excepted, although every call writes
\* from a stale read and no update is conditional (engine.ts:111-256).
THEOREM Transitions == Spec => TransitionsAreLegal
  BY LegalStep, Invariant, PTL DEF Spec, TransitionsAreLegal

\* What acting on a verdict leaves behind, and what a settlement is owed until
\* then: today's is in the hands of a call, or the run's was cut off.
Acted(r, d) ==
    /\ verdict[r][d] = "breach" => status[r] \in {"breached", "withdrawn"}
    /\ verdict[r][d] = "fail" => status[r] = "test_failed"
    /\ verdict[r][d] = "pass" => status[r] \in {"funded_active", "breached", "withdrawn"}

InHand(r, d) == d = day /\ \E c \in Calls : call[c].run = r /\ Moving(c)

Owed == \A r \in Runs, d \in Days : Acted(r, d) \/ InHand(r, d) \/ r \in cutOff

\* A legal change of status keeps what was acted on.
LEMMA ActedStays ==
    ASSUME NEW r \in Runs, NEW d \in Days, IInv, [Next]_vars,
           Acted(r, d), verdict'[r][d] = verdict[r][d]
    PROVE  Acted(r, d)'
  BY LegalStep DEF Acted, CanTransition, Active, IInv

LEMMA OwedStep == IInv /\ Owed /\ [Next]_vars => Owed'
  <1> SUFFICES ASSUME IInv, Owed, [Next]_vars, NEW r \in Runs, NEW d \in Days
               PROVE  Acted(r, d)' \/ InHand(r, d)' \/ r \in cutOff'
    BY DEF Owed
  <1> call \in [Calls -> CallStates] /\ verdict \in [Runs -> [Days -> Verdicts]]
      /\ status \in [Runs -> Statuses]
    BY DEF IInv, TypeOK
  <1>1. cutOff \subseteq cutOff'
    BY DEF Next, vars, Step, NextDay, StartRun, CheckLimit, CheckAlone, OpenAccount, InsertRun,
       ListActive, ReadRun, SettledAll, ReadEquity, Record, Move, Fund, TopUp,
       ReadForWithdrawal, Withdraw, CutOff
  <1>2. CASE UNCHANGED vars
    BY <1>2 DEF vars, Owed, Acted, InHand, Moving
  <1>3. CASE NextDay
    BY <1>3 DEF NextDay, Owed, Acted, InHand, Moving, Settling
  <1>4. ASSUME NEW c \in Calls, Step(c)
        PROVE  Acted(r, d)' \/ InHand(r, d)' \/ r \in cutOff'
    <2>1. CallOK(c)
      BY DEF IInv
    <2>2. day' = day /\ \A e \in Calls \ {c} : call'[e] = call[e]
      BY <1>4 DEF Step, StartRun, CheckLimit, CheckAlone, OpenAccount, InsertRun,
         ListActive, ReadRun, SettledAll, ReadEquity, Record, Move, Fund, TopUp,
         ReadForWithdrawal, Withdraw, CutOff, End, Goto, NextRun
    <2>3. CASE ~Record(c) /\ ~Move(c) /\ ~Fund(c) /\ ~CutOff(c)
      <3>1. verdict' = verdict /\ ~Moving(c)
        BY <1>4, <2>3 DEF Step, StartRun, CheckLimit, CheckAlone, OpenAccount, InsertRun,
           ListActive, ReadRun, SettledAll, ReadEquity, TopUp, ReadForWithdrawal, Withdraw,
           Moving
      <3>2. InHand(r, d) => InHand(r, d)'
        BY <2>2, <3>1 DEF InHand, Moving
      <3> QED BY <1>1, <3>1, <3>2, ActedStays DEF Owed
    <2>4. CASE Record(c)
      <3>1. CASE verdict'[r][d] = verdict[r][d]
        <4>1. InHand(r, d) => InHand(r, d)'
          BY <2>2, <2>4 DEF InHand, Moving, Record
        <4> QED BY <1>1, <3>1, <4>1, ActedStays DEF Owed
      <3>2. CASE verdict'[r][d] # verdict[r][d]
        <4> DEFINE v == Judge(call[c].seen, cash[call[c].run] + call[c].pnl)
        <4>1. /\ verdict' = [verdict EXCEPT ![call[c].run][day] = v]
              /\ IF v = "open" THEN NextRun(c) ELSE Goto(c, "move")
          BY <2>4, <3>2 DEF Record
        <4>2. call[c].run \in Runs /\ day \in Days
          BY <2>1, <2>4 DEF Record, CallOK, ReadOK, Settling
        <4> HIDE DEF v
        <4>3. r = call[c].run /\ d = day /\ verdict'[r][d] = v
          BY <3>2, <4>1, <4>2
        <4>4. CASE v = "open"
          BY <4>3, <4>4 DEF Acted
        <4>5. CASE v # "open"
          <5>1. call'[c].at = "move" /\ call'[c].run = r
            BY <4>1, <4>3, <4>5 DEF Goto, CallStates
          <5> QED BY <2>2, <4>3, <5>1 DEF InHand, Moving
        <4> QED BY <4>4, <4>5
      <3> QED BY <3>1, <3>2
    <2>5. CASE Move(c) \/ Fund(c)
      <3>1. verdict' = verdict /\ call[c].run \in Runs
        BY <2>1, <2>5 DEF Move, Fund, CallOK, ReadOK, FundOK
      <3>2. CASE r = call[c].run /\ d = day
        <4>1. (Moving(c)' /\ call'[c].run = r) \/ Acted(r, d)'
          BY <2>1, <2>5, <3>1, <3>2 DEF Move, Fund, UpdateStatus, NextRun, Goto, Idle,
             Moving, Acted, CallOK, FundOK, CallStates
        <4> QED BY <2>2, <3>2, <4>1 DEF InHand
      <3>3. CASE ~(r = call[c].run /\ d = day)
        <4>1. InHand(r, d) => InHand(r, d)'
          BY <2>2, <3>3 DEF InHand, Moving
        <4> QED BY <1>1, <3>1, <4>1, ActedStays DEF Owed
      <3> QED BY <3>2, <3>3
    <2>6. CASE CutOff(c)
      <3>1. InHand(r, d) => InHand(r, d)' \/ r \in cutOff'
        BY <2>2, <2>6 DEF InHand, Moving, CutOff
      <3>2. verdict' = verdict
        BY <2>6 DEF CutOff
      <3> QED BY <1>1, <3>1, <3>2, ActedStays DEF Owed
    <2> QED BY <2>3, <2>4, <2>5, <2>6
  <1> QED BY <1>2, <1>3, <1>4 DEF Next

\* No settlement on record is left without its consequence, unless the call
\* that wrote it was cut off (engine.ts:153-184, 204-221).
THEOREM ActedOn == Spec => []SettlementsAreActedOn
  <1>1. Init => Owed
    BY DEF Init, Owed, Acted
  <1>2. Owed => SettlementsAreActedOn
    BY DEF Owed, Acted, InHand, Moving, SettlementsAreActedOn
  <1> QED BY <1>1, <1>2, OwedStep, Invariant, PTL DEF Spec

-----------------------------------------------------------------------------
(* The limit: a call past the check counts as if it had its run already.   *)

Starting == {c \in Calls : call[c].at \in {"alone", "account", "insert"}}

Bounded == Cardinality(Existing) + Cardinality(Starting) <= MaxRuns + Cardinality(Calls) - 1

LEMMA CountsFinite ==
    ASSUME NEW S \in SUBSET Runs, NEW C \in SUBSET Calls
    PROVE  /\ IsFiniteSet(S) /\ Cardinality(S) \in Nat
           /\ IsFiniteSet(C) /\ Cardinality(C) \in Nat
           /\ Cardinality(C) <= Cardinality(Calls)
           /\ Cardinality(Calls) \in Nat \ {0}
  <1>1. Cardinality(Calls) # 0
    BY FundedAssumption, FS_EmptySet
  <1>2. IsFiniteSet(Runs) /\ IsFiniteSet(Calls)
    BY FundedAssumption
  <1> QED BY <1>1, <1>2, FS_Subset, FS_CardinalityType

\* Fewer runs and fewer starts stay within the bound.
LEMMA FewerBounded ==
    ASSUME Bounded, Existing' \subseteq Existing, Starting' \subseteq Starting
    PROVE  Bounded'
  <1>1. Existing \in SUBSET Runs /\ Starting \in SUBSET Calls
    BY DEF Existing, Starting
  <1>2. IsFiniteSet(Existing) /\ IsFiniteSet(Starting)
    BY <1>1, CountsFinite
  <1>3. Cardinality(Existing') <= Cardinality(Existing) /\ Cardinality(Starting') <= Cardinality(Starting)
    BY <1>2, FS_Subset
  <1>4. {Cardinality(Existing), Cardinality(Existing'), Cardinality(Starting),
         Cardinality(Starting'), Cardinality(Calls), MaxRuns} \subseteq Nat
    <2>1. Existing' \in SUBSET Runs /\ Starting' \in SUBSET Calls
      BY <1>1
    <2> QED BY <1>1, <2>1, CountsFinite, FundedAssumption
  <1> QED BY <1>3, <1>4 DEF Bounded

\* The run is inserted of a call that was counted as starting.
LEMMA InsertBounded ==
    ASSUME IInv, Bounded, NEW c \in Calls, InsertRun(c)
    PROVE  Bounded'
  <1> DEFINE r == call[c].run
  <1>1. Existing \in SUBSET Runs /\ Starting \in SUBSET Calls
    BY DEF Existing, Starting
  <1>2. r \in Runs /\ r \notin Existing /\ c \in Starting
    BY DEF InsertRun, IInv, CallOK, InsertOK, Existing, Starting
  <1>3. Existing' = Existing \cup {r}
    <2>1. status' = [status EXCEPT ![r] = call[c].route] /\ call[c].route # "absent"
      BY DEF InsertRun, IInv, TypeOK, CallStates, Active
    <2> QED BY <1>2, <2>1 DEF Existing, IInv, TypeOK
  <1>4. Starting' = Starting \ {c}
    BY DEF InsertRun, End, Idle, Starting, IInv, TypeOK
  <1>5. IsFiniteSet(Existing) /\ IsFiniteSet(Starting)
    BY <1>1, CountsFinite
  <1>6. Cardinality(Existing') = Cardinality(Existing) + 1
    BY <1>2, <1>3, <1>5, FS_AddElement
  <1>7. Cardinality(Starting') = Cardinality(Starting) - 1
    BY <1>2, <1>4, <1>5, FS_RemoveElement
  <1>8. {Cardinality(Existing), Cardinality(Starting), Cardinality(Calls), MaxRuns} \subseteq Nat
    BY <1>1, CountsFinite, FundedAssumption
  <1> QED BY <1>6, <1>7, <1>8 DEF Bounded

\* A call that passes the check finds fewer runs than the limit; at worst it
\* is the last of all calls to do so.
LEMMA CheckBounded ==
    ASSUME IInv, Bounded, NEW c \in Calls, CheckLimit(c)
    PROVE  Bounded'
  <1>1. Existing \in SUBSET Runs /\ Starting \in SUBSET Calls
    BY DEF Existing, Starting
  <1>2. Existing' = Existing
    BY DEF CheckLimit, Existing
  <1>3. CASE Cardinality(Existing) >= MaxRuns
    <2>1. Starting' \subseteq Starting
      BY <1>3 DEF CheckLimit, End, Idle, Starting, IInv, TypeOK
    <2> QED BY <1>2, <2>1, FewerBounded
  <1>4. CASE ~(Cardinality(Existing) >= MaxRuns)
    <2>1. Starting' \in SUBSET Calls
      BY DEF Starting
    <2>2. Cardinality(Starting') <= Cardinality(Calls)
      BY <1>1, <2>1, CountsFinite
    <2>3. {Cardinality(Existing), Cardinality(Starting'), Cardinality(Calls), MaxRuns} \subseteq Nat
      BY <1>1, <2>1, CountsFinite, FundedAssumption
    <2> QED BY <1>2, <1>4, <2>2, <2>3 DEF Bounded
  <1> QED BY <1>3, <1>4

\* A call goes on, and the others stay.
Goes(c, points) ==
    /\ \A d \in Calls \ {c} : call'[d] = call[d]
    /\ call'[c].at \in points

LEMMA GoesOn ==
    ASSUME TypeOK, NEW c \in Calls
    PROVE  /\ End(c) => Goes(c, {"idle"})
           /\ NextRun(c) => Goes(c, {"next"})
           /\ \A p : Goto(c, p) => Goes(c, {p})
  <1>1. call \in [Calls -> CallStates]
    BY DEF TypeOK
  <1>2. End(c) => Goes(c, {"idle"})
    BY <1>1 DEF End, Idle, Goes
  <1>3. NextRun(c) => Goes(c, {"next"})
    BY <1>1 DEF NextRun, Idle, Goes
  <1>4. ASSUME NEW p, Goto(c, p) PROVE Goes(c, {p})
    BY <1>1, <1>4 DEF Goto, CallStates, Goes
  <1> QED BY <1>2, <1>3, <1>4

\* Only CheckLimit begins a start, and only InsertRun ends one with a run.
LEMMA OtherStarts ==
    ASSUME IInv, NEW c \in Calls, Step(c), ~InsertRun(c), ~CheckLimit(c)
    PROVE  Starting' \subseteq Starting
  <1> TypeOK /\ call \in [Calls -> CallStates]
    BY DEF IInv, TypeOK
  <1>1. CASE Goes(c, {"idle", "limit", "next", "equity", "record", "move", "fund", "topup", "closing"})
    BY <1>1 DEF Goes, Starting
  <1>2. CASE CheckAlone(c) \/ OpenAccount(c) \/ CutOff(c)
    <2>1. CASE CheckAlone(c)
      BY <2>1, GoesOn DEF CheckAlone, Goes, Starting
    <2>2. CASE OpenAccount(c)
      BY <2>2 DEF OpenAccount, Starting
    <2>3. CASE CutOff(c)
      BY <2>3, GoesOn DEF CutOff, Goes, Starting
    <2> QED BY <1>2, <2>1, <2>2, <2>3
  <1>3. CASE (\E route \in Active : StartRun(c, route)) \/ ListActive(c) \/ SettledAll(c)
             \/ \E r \in Runs : ReadForWithdrawal(c, r)
    <2>1. Goes(c, {"idle", "limit", "next", "closing"})
      <3>1. CASE SettledAll(c)
        BY <3>1, GoesOn DEF SettledAll, Goes
      <3>2. CASE \E route \in Active : StartRun(c, route)
        BY <3>2 DEF StartRun, Idle, Goes
      <3>3. CASE ListActive(c)
        BY <3>3 DEF ListActive, Idle, Goes
      <3>4. CASE \E r \in Runs : ReadForWithdrawal(c, r)
        BY <3>4 DEF ReadForWithdrawal, Idle, Goes
      <3> QED BY <1>3, <3>1, <3>2, <3>3, <3>4
    <2> QED BY <1>1, <2>1 DEF Goes
  <1>4. CASE ReadRun(c) \/ ReadEquity(c)
    <2>1. Goes(c, {"next", "equity", "record"})
      <3>1. CASE ReadRun(c)
        BY <3>1 DEF ReadRun, CallStates, Goes
      <3>2. CASE ReadEquity(c)
        BY <3>2 DEF ReadEquity, CallStates, Goes
      <3> QED BY <1>4, <3>1, <3>2
    <2> QED BY <1>1, <2>1 DEF Goes
  <1>5. CASE Record(c) \/ Move(c) \/ Fund(c) \/ TopUp(c) \/ Withdraw(c)
    <2>1. End(c) \/ NextRun(c) \/ \E p \in {"move", "fund", "topup"} : Goto(c, p)
      BY <1>5 DEF Record, Move, Fund, TopUp, Withdraw
    <2>2. Goes(c, {"idle", "next", "move", "fund", "topup"})
      BY <2>1, GoesOn DEF Goes
    <2> QED BY <1>1, <2>2 DEF Goes
  <1> QED BY <1>2, <1>3, <1>4, <1>5 DEF Step

LEMMA OtherRuns ==
    ASSUME IInv, NEW c \in Calls, Step(c), ~InsertRun(c)
    PROVE  Existing' \subseteq Existing
  <1>1. CASE Move(c) \/ Fund(c) \/ Withdraw(c)
    <2>1. call[c].run \in Runs /\ status[call[c].run] # "absent"
      BY <1>1 DEF Move, Fund, Withdraw, IInv, CallOK, ReadOK, FundOK, ClosingOK, FundedEra
    <2>2. PICK to : status' = [status EXCEPT ![call[c].run] = to]
      BY <1>1 DEF Move, Fund, Withdraw, UpdateStatus
    <2> QED BY <2>1, <2>2 DEF Existing, IInv, TypeOK
  <1>2. CASE ~(Move(c) \/ Fund(c) \/ Withdraw(c))
    <2>1. status' = status
      BY <1>2 DEF Step, StartRun, CheckLimit, CheckAlone, OpenAccount, ListActive, ReadRun, SettledAll,
         ReadEquity, Record, TopUp, ReadForWithdrawal, CutOff
    <2> QED BY <2>1 DEF Existing
  <1> QED BY <1>1, <1>2

LEMMA BoundedStep == IInv /\ Bounded /\ [Next]_vars => Bounded'
  <1> SUFFICES ASSUME IInv, Bounded, [Next]_vars PROVE Bounded'
    OBVIOUS
  <1>1. CASE UNCHANGED vars \/ NextDay
    <2>1. UNCHANGED <<status, call>>
      BY <1>1 DEF vars, NextDay
    <2> QED BY <2>1, FewerBounded DEF Existing, Starting
  <1>2. ASSUME NEW c \in Calls, Step(c) PROVE Bounded'
    BY <1>2, InsertBounded, CheckBounded, FewerBounded, OtherStarts, OtherRuns
  <1> QED BY <1>1, <1>2 DEF Next

\* However many starts pass countRunsForUser before the first of them inserts
\* its run, the user's runs exceed the limit by less than the calls in flight
\* (engine.ts:38-41, 93).
THEOREM LimitHolds == Spec => []RunLimit
  <1>1. Init => Bounded
    <2> SUFFICES ASSUME Init PROVE Bounded
      OBVIOUS
    <2>1. Existing = {} /\ Starting = {}
      BY DEF Init, Existing, Starting, Idle
    <2>2. Cardinality(Calls) \in Nat \ {0} /\ MaxRuns \in Nat
      <3>1. {} \in SUBSET Runs /\ {} \in SUBSET Calls
        OBVIOUS
      <3> QED BY <3>1, CountsFinite, FundedAssumption
    <2> QED BY <2>1, <2>2, FS_EmptySet DEF Bounded
  <1>2. Bounded => RunLimit
    <2>1. Existing \in SUBSET Runs /\ Starting \in SUBSET Calls
      BY DEF Existing, Starting
    <2>2. {Cardinality(Existing), Cardinality(Starting), Cardinality(Calls), MaxRuns} \subseteq Nat
      BY <2>1, CountsFinite, FundedAssumption
    <2> QED BY <2>2 DEF Bounded, RunLimit
  <1> QED BY <1>1, <1>2, BoundedStep, Invariant, PTL DEF Spec
=============================================================================
