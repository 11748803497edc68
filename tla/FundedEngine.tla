---------------------------- MODULE FundedEngine ----------------------------
(***************************************************************************)
(* The funded-account program: FundedEngine (packages/funded/src/engine.ts)*)
(* over the Postgres tables funded_runs and funded_settlements             *)
(* (db/src/funded-store.ts) and the paper accounts it opens.               *)
(*                                                                         *)
(* A call of the engine is a sequence of awaited queries without a         *)
(* transaction: one action per query that decides or changes something.    *)
(* Calls interleave, and each may end at any query, because it failed or   *)
(* because the server stopped.  The status a call acts on is the one it    *)
(* read first.                                                             *)
(*                                                                         *)
(* One user and one template per route.  The price of everything the       *)
(* trader holds is the profit or loss a call sees when it asks for equity. *)
(* Events and timestamps are left out: nothing reads them back to decide.  *)
(***************************************************************************)
EXTENDS Integers, FiniteSets

CONSTANTS
    Runs,       \* run ids, each with its paper account
    Calls,      \* calls of the engine that can be in flight
    NoRun,      \* the run of a call that has none
    MaxRuns,    \* maxRunsPerUser
    Deposit,    \* the deposit of a test run
    Abc,        \* fundedAbc, the credit of a funded run
    PassLevel,  \* deposit * (1 + testProfitTargetPct)
    FailLevel,  \* deposit * (1 - testMaxDrawdownPct)
    Floor,      \* abcCredited * abcFloorPct
    Profits,    \* profits and losses an account can show
    MaxDays     \* bound: settlement boundaries

ASSUME FundedAssumption ==
    /\ NoRun \notin Runs
    /\ IsFiniteSet(Calls) /\ Calls # {}
    /\ IsFiniteSet(Runs)
    /\ MaxRuns \in Nat
    /\ {Deposit, Abc} \subseteq Nat \ {0}
    /\ {PassLevel, FailLevel, Floor} \subseteq Nat
    /\ Profits \subseteq Int
    /\ MaxDays \in Nat

VARIABLES
    status,     \* [Runs -> Statuses]: funded_runs.status
    cash,       \* [Runs -> Nat]: what the run's paper account was opened with
    verdict,    \* [Runs -> [Days -> Verdicts]]: the funded_settlements rows
    day,        \* the boundary a settlement is for today
    call,       \* [Calls -> CallStates]
    cutOff      \* history: runs with a settlement that ended half-way

vars == <<status, cash, verdict, day, call, cutOff>>

Statuses == {"absent", "test_active", "test_passed", "test_failed",
             "funded_active", "breached", "withdrawn"}
Active == {"test_active", "funded_active"}
Days == 1..MaxDays

\* "open" is a row that leaves the run as it is, "none" no row.
Verdicts == {"none", "open", "pass", "fail", "breach"}

Points == {"idle", "limit", "alone", "account", "insert",
           "next", "equity", "record", "move", "fund", "topup", "closing"}

\* at: the query the call waits for; run: the run it works on; seen: the
\* status it read there; route: the start of a new run; pnl: the equity it saw
\* less the account's cash; todo: the rest of settleAllActive's list.
CallStates ==
    [at : Points, run : Runs \cup {NoRun}, seen : Statuses, route : Active,
     pnl : Profits \cup {0}, todo : SUBSET Runs]

Idle ==
    [at |-> "idle", run |-> NoRun, seen |-> "absent", route |-> "test_active",
     pnl |-> 0, todo |-> {}]

TypeOK ==
    /\ status \in [Runs -> Statuses]
    /\ cash \in [Runs -> {0, Deposit, Abc}]
    /\ verdict \in [Runs -> [Days -> Verdicts]]
    /\ day \in 1..(MaxDays + 1)
    /\ call \in [Calls -> CallStates]
    /\ cutOff \subseteq Runs

Init ==
    /\ status = [r \in Runs |-> "absent"]
    /\ cash = [r \in Runs |-> 0]
    /\ verdict = [r \in Runs |-> [d \in Days |-> "none"]]
    /\ day = 1
    /\ call = [c \in Calls |-> Idle]
    /\ cutOff = {}

-----------------------------------------------------------------------------
(* Building blocks.                                                        *)

Existing == {r \in Runs : status[r] # "absent"}
ActiveRuns == {r \in Runs : status[r] \in Active}
FundedRuns == {r \in Runs : status[r] = "funded_active"}

End(c) == call' = [call EXCEPT ![c] = Idle]
Goto(c, point) == call' = [call EXCEPT ![c].at = point]

\* The settling call is done with its run and turns to the rest of its list.
NextRun(c) == call' = [call EXCEPT ![c] = [Idle EXCEPT !.at = "next", !.todo = call[c].todo]]

\* PostgresPaperTradingStore.ensureAccount: an account is opened with its
\* initial cash once; for one that exists this changes nothing.
EnsureAccount(r, amount) == cash' = [cash EXCEPT ![r] = IF @ = 0 THEN amount ELSE @]

\* evaluateTestRoute and evaluateFundedFloor, on the status the call read.
Judge(seen, equity) ==
    IF seen = "test_active"
    THEN IF equity >= PassLevel THEN "pass" ELSE IF equity <= FailLevel THEN "fail" ELSE "open"
    ELSE IF equity < Floor THEN "breach" ELSE "open"

\* canTransition of state-machine.ts.
CanTransition(from, to) ==
    \/ from = "test_active" /\ to \in {"test_passed", "test_failed"}
    \/ from = "test_passed" /\ to = "funded_active"
    \/ from = "funded_active" /\ to \in {"breached", "withdrawn"}

\* updateRunStatus after assertTransition(run.status, to): the assertion looks
\* at what the call read, the update at nothing.
UpdateStatus(c, from, to) ==
    /\ CanTransition(from, to)
    /\ status' = [status EXCEPT ![call[c].run] = to]

-----------------------------------------------------------------------------
(* startRun.                                                               *)

StartRun(c, route) ==
    /\ call[c].at = "idle"
    /\ call' = [call EXCEPT ![c] = [Idle EXCEPT !.at = "limit", !.route = route]]
    /\ UNCHANGED <<status, cash, verdict, day, cutOff>>

\* Mutant of CheckLimit: > for >=.
CheckLimitLate(c) ==
    /\ call[c].at = "limit"
    /\ IF Cardinality(Existing) > MaxRuns THEN End(c) ELSE Goto(c, "alone")
    /\ UNCHANGED <<status, cash, verdict, day, cutOff>>

\* countRunsForUser.
CheckLimit(c) ==
    /\ call[c].at = "limit"
    /\ IF Cardinality(Existing) >= MaxRuns THEN End(c) ELSE Goto(c, "alone")
    /\ UNCHANGED <<status, cash, verdict, day, cutOff>>

\* countActiveFundedForUser.
CheckAlone(c) ==
    /\ call[c].at = "alone"
    /\ IF FundedRuns # {} THEN End(c) ELSE Goto(c, "account")
    /\ UNCHANGED <<status, cash, verdict, day, cutOff>>

\* A fresh run id and account id; the account first.
OpenAccount(c) ==
    /\ call[c].at = "account"
    /\ \E r \in Runs :
          /\ cash[r] = 0
          /\ EnsureAccount(r, IF call[c].route = "test_active" THEN Deposit ELSE Abc)
          /\ call' = [call EXCEPT ![c] = [@ EXCEPT !.run = r, !.at = "insert"]]
    /\ UNCHANGED <<status, verdict, day, cutOff>>

InsertRun(c) ==
    /\ call[c].at = "insert"
    /\ status' = [status EXCEPT ![call[c].run] = call[c].route]
    /\ End(c)
    /\ UNCHANGED <<cash, verdict, day, cutOff>>

-----------------------------------------------------------------------------
(* settleAllActive: the daily job, or the admin route with the same        *)
(* boundary.                                                               *)

ListActive(c) ==
    /\ call[c].at = "idle"
    /\ day \in Days
    /\ ActiveRuns # {}
    /\ call' = [call EXCEPT ![c] = [Idle EXCEPT !.at = "next", !.todo = ActiveRuns]]
    /\ UNCHANGED <<status, cash, verdict, day, cutOff>>

\* settleRun reads the run again; an ended or just passed run is skipped.
ReadRun(c) ==
    /\ call[c].at = "next"
    /\ \E r \in call[c].todo :
          LET left == [call[c] EXCEPT !.todo = @ \ {r}]
          IN  call' = [call EXCEPT ![c] =
                  IF status[r] \in Active
                  THEN [left EXCEPT !.at = "equity", !.run = r, !.seen = status[r]]
                  ELSE left]
    /\ UNCHANGED <<status, cash, verdict, day, cutOff>>

SettledAll(c) ==
    /\ call[c].at = "next"
    /\ call[c].todo = {}
    /\ End(c)
    /\ UNCHANGED <<status, cash, verdict, day, cutOff>>

ReadEquity(c) ==
    /\ call[c].at = "equity"
    /\ \E pnl \in Profits :
          call' = [call EXCEPT ![c] = [@ EXCEPT !.pnl = pnl, !.at = "record"]]
    /\ UNCHANGED <<status, cash, verdict, day, cutOff>>

\* Mutant of Record: ON CONFLICT ... DO UPDATE, so that every call wrote.
RecordUpserts(c) ==
    LET r == call[c].run
        v == Judge(call[c].seen, cash[r] + call[c].pnl)
    IN  /\ call[c].at = "record"
        /\ verdict' = [verdict EXCEPT ![r][day] = v]
        /\ IF v = "open" THEN NextRun(c) ELSE Goto(c, "move")
        /\ UNCHANGED <<status, cash, day, cutOff>>

\* insertSettlement: one row per run and boundary, and only the call that
\* wrote it goes on.
Record(c) ==
    LET r == call[c].run
        v == Judge(call[c].seen, cash[r] + call[c].pnl)
    IN  /\ call[c].at = "record"
        /\ IF verdict[r][day] = "none"
           THEN /\ verdict' = [verdict EXCEPT ![r][day] = v]
                /\ IF v = "open" THEN NextRun(c) ELSE Goto(c, "move")
           ELSE NextRun(c) /\ UNCHANGED verdict
        /\ UNCHANGED <<status, cash, day, cutOff>>

\* Mutant of Move: a failed test is recorded and left as it is.
MoveKeepsFailed(c) ==
    LET v == verdict[call[c].run][day]
    IN  /\ call[c].at = "move"
        /\ \/ v = "fail" /\ NextRun(c) /\ UNCHANGED status
           \/ v = "breach" /\ UpdateStatus(c, call[c].seen, "breached") /\ NextRun(c)
           \/ v = "pass" /\ UpdateStatus(c, call[c].seen, "test_passed") /\ Goto(c, "fund")
        /\ UNCHANGED <<cash, verdict, day, cutOff>>

\* The transition that the verdict asks for.
Move(c) ==
    LET v == verdict[call[c].run][day]
    IN  /\ call[c].at = "move"
        /\ \/ v = "fail" /\ UpdateStatus(c, call[c].seen, "test_failed") /\ NextRun(c)
           \/ v = "breach" /\ UpdateStatus(c, call[c].seen, "breached") /\ NextRun(c)
           \/ v = "pass" /\ UpdateStatus(c, call[c].seen, "test_passed") /\ Goto(c, "fund")
        /\ UNCHANGED <<cash, verdict, day, cutOff>>

Fund(c) ==
    /\ call[c].at = "fund"
    /\ UpdateStatus(c, "test_passed", "funded_active")
    /\ Goto(c, "topup")
    /\ UNCHANGED <<cash, verdict, day, cutOff>>

\* Mutant of TopUp: the credit is added to the deposit.
TopUpAdds(c) ==
    /\ call[c].at = "topup"
    /\ cash' = [cash EXCEPT ![call[c].run] = @ + Abc]
    /\ NextRun(c)
    /\ UNCHANGED <<status, verdict, day, cutOff>>

\* ensureAccount(run.paperAccountId, fundedAbc).
TopUp(c) ==
    /\ call[c].at = "topup"
    /\ EnsureAccount(call[c].run, Abc)
    /\ NextRun(c)
    /\ UNCHANGED <<status, verdict, day, cutOff>>

-----------------------------------------------------------------------------
(* withdrawRun.                                                            *)

ReadForWithdrawal(c, r) ==
    /\ call[c].at = "idle"
    /\ status[r] = "funded_active"
    /\ call' = [call EXCEPT ![c] =
                   [Idle EXCEPT !.at = "closing", !.run = r, !.seen = status[r]]]
    /\ UNCHANGED <<status, cash, verdict, day, cutOff>>

\* The positions are closed and the equity read in between.
Withdraw(c) ==
    /\ call[c].at = "closing"
    /\ UpdateStatus(c, call[c].seen, "withdrawn")
    /\ End(c)
    /\ UNCHANGED <<cash, verdict, day, cutOff>>

-----------------------------------------------------------------------------
(* The environment.                                                        *)

\* A query fails, or the server stops: the call ends where it is, and with it
\* the rest of its list.
CutOff(c) ==
    /\ call[c].at # "idle"
    /\ End(c)
    /\ cutOff' = IF call[c].at \in {"move", "fund", "topup"}
                 THEN cutOff \cup {call[c].run} ELSE cutOff
    /\ UNCHANGED <<status, cash, verdict, day>>

Settling(c) == call[c].at \in {"next", "equity", "record", "move", "fund", "topup"}

\* Assumed: the settlement of one boundary is over before the next day's.
NextDay ==
    /\ day \in Days
    /\ \A c \in Calls : ~Settling(c)
    /\ day' = day + 1
    /\ UNCHANGED <<status, cash, verdict, call, cutOff>>

Step(c) ==
    \/ \E route \in Active : StartRun(c, route)
    \/ CheckLimit(c)
    \/ CheckAlone(c)
    \/ OpenAccount(c)
    \/ InsertRun(c)
    \/ ListActive(c)
    \/ ReadRun(c)
    \/ SettledAll(c)
    \/ ReadEquity(c)
    \/ Record(c)
    \/ Move(c)
    \/ Fund(c)
    \/ TopUp(c)
    \/ \E r \in Runs : ReadForWithdrawal(c, r)
    \/ Withdraw(c)
    \/ CutOff(c)

Next ==
    \/ \E c \in Calls : Step(c)
    \/ NextDay

Spec == Init /\ [][Next]_vars
-----------------------------------------------------------------------------
(* Properties.                                                             *)

\* The statuses a run really goes through are those of state-machine.ts,
\* although each is asserted on a stale read and written unconditionally,
\* with one exception: a breach and a withdrawal that race overwrite one
\* another.  No ended run is ever active again (engine.ts:111-256).
TransitionsAreLegal ==
    [][\A r \in Runs :
          \/ status'[r] = status[r]
          \/ status[r] = "absent" /\ status'[r] \in Active
          \/ CanTransition(status[r], status'[r])
          \/ {status[r], status'[r]} = {"breached", "withdrawn"}]_vars

\* Every settlement on record was acted on, or a call is acting on it, or it
\* was cut off: a breach ended the run, a failed test is failed, a passed one
\* is funded (engine.ts:153-184, 204-221).  A cut-off one is never made up for,
\* since its row is there and the next settlement is a new verdict.
SettlementsAreActedOn ==
    \A r \in Runs, d \in Days :
        \/ \E c \in Calls : call[c].run = r /\ call[c].at \in {"move", "fund", "topup"}
        \/ r \in cutOff
        \/ /\ verdict[r][d] = "breach" => status[r] \in {"breached", "withdrawn"}
           /\ verdict[r][d] = "fail" => status[r] = "test_failed"
           /\ verdict[r][d] = "pass" =>
                 status[r] \in {"funded_active", "breached", "withdrawn"}

\* The user's runs exceed the limit by no more than the calls that can pass
\* the check together (engine.ts:38-41, 93).
RunLimit == Cardinality(Existing) <= MaxRuns + Cardinality(Calls) - 1

\* A test run that passes is "Funded with ... ABC" (engine.ts:181, and
\* engine.test.ts "passes the test at +10% and grants ABC"): from there only a
\* loss takes it to the floor, unless its funding was cut off.
BreachMeansLoss ==
    [][\A c \in Calls :
          Record(c) /\ call'[c].at = "move" /\ verdict'[call[c].run][day] = "breach"
              => call[c].pnl < 0 \/ call[c].run \in cutOff]_vars
=============================================================================
