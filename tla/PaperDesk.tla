----------------------------- MODULE PaperDesk -----------------------------
(***************************************************************************)
(* The paper account: the routes that place orders, open and close trades  *)
(* and settle (packages/server/src/routes/paper/), over the place() and    *)
(* applyFill() of packages/trading/src/desk/ and the queries of            *)
(* PostgresPaperTradingStore.  Every query is a transaction of its own, so *)
(* requests on one account interleave between any two of them, and one     *)
(* that fails leaves what it wrote.                                        *)
(*                                                                         *)
(* One account and one contract: nothing crosses accounts, and a leg only  *)
(* meets requests on the same leg.  Prices, fees, entry averages, the rows *)
(* of orders, activity and notes are left out, the margin check with them: *)
(* money is counted in contracts paid for.  Fills and cash entries are     *)
(* only ever inserted, so their sums stand for them.  The trades on a leg  *)
(* are looked up at once.  A reduceTrade() of a part, resetAccount() and   *)
(* the seeding of an account are left out.                                 *)
(***************************************************************************)
EXTENDS Integers, FiniteSets

CONSTANTS
    Clients,    \* who sends requests, one at a time each
    Trades,     \* trade ids
    NoTrade,    \* null
    Sizes,      \* signed quantities of the orders
    MaxCalls,   \* bound: requests ever sent
    MaxDeaths   \* bound: how often requests die half-way, alone or together

ASSUME PaperDeskAssumption ==
    /\ IsFiniteSet(Clients) /\ IsFiniteSet(Trades) /\ NoTrade \notin Trades
    /\ Sizes \subseteq Int \ {0}
    /\ MaxCalls \in Nat /\ MaxDeaths \in Nat

VARIABLES
    position,  \* net_quantity of the account's row in paper_positions
    booked,    \* sum of paper_fills
    cash,      \* sum of the fills that have their entry in paper_cash_ledger
    rows,      \* net_quantity of each trade's row in paper_trade_positions
    linked,    \* sum of the fills of each trade's linked orders
    status,    \* of each trade
    tasks,     \* the requests under way
    expired,   \* the contract has expired
    stale,     \* some row was overwritten that had changed since it was read
    calls,     \* so far
    deaths     \* so far

deskVars == <<position, booked, cash, rows, linked, status, tasks, expired, stale, calls, deaths>>

Cron == "cron"      \* the daily run of settlement-service
Tasks == Clients \cup {Cron}

\* A request writes its fills one by one; at is the query it does next.
NoTask == [at |-> "idle", kind |-> "none", todo |-> {}, trade |-> NoTrade, qty |-> 0, seen |-> 0, was |-> "none"]
Fill(trade, qty) == [trade |-> trade, qty |-> qty]

Stages == {"idle", "resolving", "saving", "reading", "writing", "paying", "opening", "linking",
           "reading row", "writing row", "checking", "counting", "closing"}

PDTypeOK ==
    /\ position \in Int /\ booked \in Int /\ cash \in Int
    /\ rows \in [Trades -> Int] /\ linked \in [Trades -> Int]
    /\ status \in [Trades -> {"none", "open", "closed"}]
    /\ \A q \in Tasks :
          /\ tasks[q].at \in Stages
          /\ tasks[q].kind \in {"none", "order", "open", "close", "settle"}
          /\ \A f \in tasks[q].todo : f.trade \in Trades \cup {NoTrade} /\ f.qty \in Int
          /\ tasks[q].trade \in Trades \cup {NoTrade}
          /\ tasks[q].qty \in Int /\ tasks[q].seen \in Int
          /\ tasks[q].was \in {"none", "open", "closed"}
    /\ expired \in BOOLEAN /\ stale \in BOOLEAN
    /\ calls \in 0 .. MaxCalls /\ deaths \in 0 .. MaxDeaths

PDInit ==
    /\ position = 0 /\ booked = 0 /\ cash = 0
    /\ rows = [t \in Trades |-> 0] /\ linked = [t \in Trades |-> 0]
    /\ status = [t \in Trades |-> "none"]
    /\ tasks = [q \in Tasks |-> NoTask]
    /\ expired = FALSE
    /\ stale = FALSE
    /\ calls = 0 /\ deaths = 0

-----------------------------------------------------------------------------
(* What a request sets out to do.                                          *)

\* q goes on to its next query; what it read is used.
Does(q, stage) == tasks' = [tasks EXCEPT ![q].at = stage, ![q].seen = 0]

\* The fill q writes next, if there is one.
Writes(q, kind, todo) ==
    \/ todo = {} /\ tasks' = [tasks EXCEPT ![q] = NoTask]
    \/ \E f \in todo :
          tasks' = [tasks EXCEPT ![q] = [NoTask EXCEPT !.at = "saving", !.kind = kind, !.todo = todo \ {f},
                                                       !.trade = f.trade, !.qty = f.qty]]

Called(q) ==
    /\ q \in Clients /\ tasks[q] = NoTask
    /\ calls < MaxCalls /\ calls' = calls + 1
    /\ UNCHANGED <<position, booked, cash, rows, linked, status, expired, stale, deaths>>

\* POST /paper/orders, or createTrade(): an expired contract has no quote to fill on.
Order(q) ==
    /\ ~expired /\ Called(q)
    /\ \E qty \in Sizes :
          \/ Writes(q, "order", {Fill(NoTrade, qty)})
          \/ \E t \in Trades :
                /\ status[t] = "none" /\ \A p \in Tasks : tasks[p].trade # t
                /\ Writes(q, "open", {Fill(t, qty)})

\* closeTrade(), or a reduceTrade() of the whole: it closes the row as it is now.
Close(q, t) ==
    /\ ~expired /\ Called(q)
    /\ rows[t] # 0
    /\ Writes(q, "close", {Fill(t, -rows[t])})

\* settleExpiredPositionsForAccount(): nothing to do but for an open position.
Settles(q) ==
    /\ tasks[q] = NoTask /\ expired
    /\ position # 0
    /\ tasks' = [tasks EXCEPT ![q] = [NoTask EXCEPT !.at = "resolving", !.kind = "settle", !.qty = -position]]

SettleNow(q) == Settles(q) /\ Called(q)

CronRuns ==
    /\ Settles(Cron)
    /\ UNCHANGED <<position, booked, cash, rows, linked, status, expired, stale, calls, deaths>>

\* The open trades that hold the contract.
OpenLegs == {Fill(t, -rows[t]) : t \in {u \in Trades : status[u] = "open" /\ rows[u] # 0}}

\* Mutant of Settlement: what no trade holds is not settled.
SettlementOfTrades(qty) == OpenLegs

\* One fill for each trade, or one for a position no trade holds.
Settlement(qty) == IF OpenLegs = {} THEN {Fill(NoTrade, qty)} ELSE OpenLegs

\* The price is known: the trades are looked up.
Resolves(q) ==
    /\ tasks[q].at = "resolving"
    /\ Writes(q, "settle", Settlement(tasks[q].qty))
    /\ UNCHANGED <<position, booked, cash, rows, linked, status, expired, stale, calls, deaths>>

-----------------------------------------------------------------------------
(* One fill.                                                               *)

SavesFill(q) ==
    /\ tasks[q].at = "saving"
    /\ booked' = booked + tasks[q].qty
    /\ Does(q, "reading")
    /\ UNCHANGED <<position, cash, rows, linked, status, expired, stale, calls, deaths>>

\* applyFill(): listPositions, upsertPosition, appendCashLedger.
ReadsPosition(q) ==
    /\ tasks[q].at = "reading"
    /\ tasks' = [tasks EXCEPT ![q].at = "writing", ![q].seen = position]
    /\ UNCHANGED <<position, booked, cash, rows, linked, status, expired, stale, calls, deaths>>

WritesPosition(q) ==
    /\ tasks[q].at = "writing"
    /\ position' = tasks[q].seen + tasks[q].qty
    /\ stale' = (stale \/ position # tasks[q].seen)
    /\ Does(q, "paying")
    /\ UNCHANGED <<booked, cash, rows, linked, status, expired, calls, deaths>>

\* Mutant of Paid: only orders are paid for.
PaidOrders(q) == IF tasks[q].kind = "settle" THEN cash ELSE cash + tasks[q].qty

Paid(q) == cash + tasks[q].qty

\* The next fill, or the end.
Proceeds(q) == Writes(q, tasks[q].kind, tasks[q].todo)

PaysFill(q) ==
    /\ tasks[q].at = "paying"
    /\ cash' = Paid(q)
    /\ \/ tasks[q].trade = NoTrade /\ Proceeds(q)
       \/ tasks[q].trade # NoTrade /\ Does(q, IF tasks[q].kind = "open" THEN "opening" ELSE "linking")
    /\ UNCHANGED <<position, booked, rows, linked, status, expired, stale, calls, deaths>>

\* insertTrade()
OpensTrade(q) ==
    /\ tasks[q].at = "opening"
    /\ status' = [status EXCEPT ![tasks[q].trade] = "open"]
    /\ Does(q, "linking")
    /\ UNCHANGED <<position, booked, cash, rows, linked, expired, stale, calls, deaths>>

\* insertTradeOrder()
LinksOrder(q) ==
    /\ tasks[q].at = "linking"
    /\ linked' = [linked EXCEPT ![tasks[q].trade] = @ + tasks[q].qty]
    /\ Does(q, "reading row")
    /\ UNCHANGED <<position, booked, cash, rows, status, expired, stale, calls, deaths>>

\* applyFillsToTrade(): listTradePositions, upsertTradePosition.
ReadsRow(q) ==
    /\ tasks[q].at = "reading row"
    /\ tasks' = [tasks EXCEPT ![q].at = "writing row", ![q].seen = rows[tasks[q].trade]]
    /\ UNCHANGED <<position, booked, cash, rows, linked, status, expired, stale, calls, deaths>>

WritesRow(q) ==
    /\ tasks[q].at = "writing row"
    /\ rows' = [rows EXCEPT ![tasks[q].trade] = tasks[q].seen + tasks[q].qty]
    /\ stale' = (stale \/ rows[tasks[q].trade] # tasks[q].seen)
    /\ Does(q, "checking")
    /\ UNCHANGED <<position, booked, cash, linked, status, expired, calls, deaths>>

\* syncTradeLifecycle(): getTrade, listTradePositions, updateTrade.
ReadsTrade(q) ==
    /\ tasks[q].at = "checking"
    /\ tasks' = [tasks EXCEPT ![q].at = "counting", ![q].was = status[tasks[q].trade]]
    /\ UNCHANGED <<position, booked, cash, rows, linked, status, expired, stale, calls, deaths>>

CountsLegs(q) ==
    /\ tasks[q].at = "counting"
    /\ tasks' = [tasks EXCEPT ![q].at = "closing", ![q].seen = rows[tasks[q].trade]]
    /\ UNCHANGED <<position, booked, cash, rows, linked, status, expired, stale, calls, deaths>>

\* Mutant of Lifecycle: a trade is closed by whatever closes a part of it.
LifecycleOfAnyClose(q) == IF tasks[q].qty < 0 THEN "closed" ELSE "open"

Lifecycle(q) == IF tasks[q].seen = 0 THEN "closed" ELSE "open"

\* A status that stays is not written, or for a later closedAt only;
\* executeTradeAction() checks twice.
ClosesTrade(q) ==
    /\ tasks[q].at = "closing"
    /\ \/ /\ tasks[q].was # Lifecycle(q) \/ Lifecycle(q) = "closed"
          /\ status' = [status EXCEPT ![tasks[q].trade] = Lifecycle(q)]
       \/ tasks[q].was = Lifecycle(q) /\ UNCHANGED status
    /\ stale' = (stale \/ rows[tasks[q].trade] # tasks[q].seen \/ status[tasks[q].trade] # tasks[q].was)
    /\ \/ tasks[q].kind = "close"
          /\ tasks' = [tasks EXCEPT ![q].at = "checking", ![q].kind = "order", ![q].seen = 0, ![q].was = "none"]
       \/ tasks[q].kind # "close" /\ Proceeds(q)
    /\ UNCHANGED <<position, booked, cash, rows, linked, expired, calls, deaths>>

-----------------------------------------------------------------------------
(* Time and failures.                                                      *)

Expire ==
    /\ ~expired
    /\ expired' = TRUE
    /\ UNCHANGED <<position, booked, cash, rows, linked, status, tasks, stale, calls, deaths>>

\* A query fails and its request with it, or the process dies with all of them;
\* no price for the contract ends a settlement the same way.
Die ==
    /\ deaths < MaxDeaths /\ deaths' = deaths + 1
    /\ \E dead \in SUBSET {q \in Tasks : tasks[q] # NoTask} :
          /\ dead # {}
          /\ tasks' = [q \in Tasks |-> IF q \in dead THEN NoTask ELSE tasks[q]]
    /\ UNCHANGED <<position, booked, cash, rows, linked, status, expired, stale, calls>>

GoesOn(q) ==
    \/ Resolves(q) \/ SavesFill(q)
    \/ ReadsPosition(q) \/ WritesPosition(q) \/ PaysFill(q)
    \/ OpensTrade(q) \/ LinksOrder(q)
    \/ ReadsRow(q) \/ WritesRow(q)
    \/ ReadsTrade(q) \/ CountsLegs(q) \/ ClosesTrade(q)

PDNext ==
    \/ \E q \in Clients : Order(q) \/ SettleNow(q) \/ \E t \in Trades : Close(q, t)
    \/ CronRuns
    \/ \E q \in Tasks : GoesOn(q)
    \/ Expire
    \/ Die

PDSpec == PDInit /\ [][PDNext]_deskVars

\* Queries are answered, and the settlement job runs every day.
PDFairness ==
    /\ WF_deskVars(\E q \in Tasks : GoesOn(q))
    /\ WF_deskVars(CronRuns)

PDFairSpec == PDSpec /\ PDFairness

-----------------------------------------------------------------------------
(* Properties.                                                             *)

\* "Atomic for a single fill" (apply-fill.ts:8), as far as it is true: with no
\* request under way and none that died half-way, every fill has been paid for,
\* whatever requests met; and unless one of them overwrote a row that had changed
\* since it was read, the position and each trade's row are the sums of their
\* fills, and a trade is closed when its row is flat.
BooksAgree ==
    deaths = 0 /\ (\A q \in Tasks : tasks[q] = NoTask) =>
        /\ cash = booked
        /\ ~stale =>
              /\ position = booked
              /\ rows = linked
              /\ \A t \in Trades : status[t] # "none" => (status[t] = "closed" <=> rows[t] = 0)

\* An expired position is settled and stays so, however settlements met and
\* wherever they died: "re-running this is safe" (workspace.ts:839) in that every
\* run mends what the ones before left of the position.
ExpiredIsSettled == <>[](expired => position = 0)
=============================================================================
