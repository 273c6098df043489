------------------------------ MODULE Accounts ------------------------------
(***************************************************************************)
(* What the paper account is said to be worth: the cost basis kept in      *)
(* paper_book, the realized profit that app/paper/engine.py and            *)
(* app/web/views.py each replay from paper_fills, the marks that           *)
(* ltp_poll_job leaves in live_ltp, the rows of paper_pnl_daily, and the   *)
(* tiles of the paper tab.                                                 *)
(*                                                                         *)
(* The 09:30 run fills orders and writes the day's row in one section of   *)
(* the worker's event loop.  ltp_poll_job reads the book, awaits a candle  *)
(* per symbol, and writes what it got when the book may have changed.      *)
(* paper_mtm_refresh_job rewrites the day's row.  The worker may die.      *)
(* Which orders there are is module PaperEngine, where it is proved that a *)
(* SELL never exceeds the holding.                                         *)
(***************************************************************************)
EXTENDS Integers, Sequences, FiniteSets, FiniteSetsExt, Functions

CONSTANTS
    Symbols,
    Seed,       \* settings.paper_initial_capital
    Prices,     \* in units so small that average costs are whole numbers
    Grain,      \* a price averaged MaxFills - n times is a multiple of Grain[n]
    Fee,        \* the charges of a fill
    MaxQty,     \* bound: quantity held of a symbol
    MaxFills,   \* bound: length of paper_fills
    MaxDay      \* bound: trading days

ASSUME ValueAssumption == Seed \in Nat /\ Fee \in Nat /\ Prices \subseteq Nat \ {0}
ASSUME SymbolsAssumption == IsFiniteSet(Symbols)
ASSUME BoundAssumption == MaxQty \in Nat /\ MaxFills \in Nat /\ MaxDay \in Nat \ {0}
\* The code divides in floating point.  Prices are in units that divide into the
\* quantities held as often as there are fills.
ASSUME GrainAssumption ==
    /\ Grain \in [0..MaxFills -> Nat \ {0}]
    /\ \A p \in Prices, n \in 0..MaxFills : p % Grain[n] = 0
    /\ \A n \in 1..MaxFills, q \in 1..MaxQty : Grain[n] % (q * Grain[n - 1]) = 0

VARIABLES
    day,      \* today's session
    fills,    \* paper_fills, in the order of filled_at and id
    book,     \* paper_book
    ltp,      \* live_ltp, 0 for no row; a row is never deleted
    daily,    \* paper_pnl_daily
    run,      \* the 09:30 run in progress: its closes, its orders left
    ranToday, \* whether today's run is completed
    poll,     \* the ltp_poll_job in progress
    asOf      \* for the properties alone: the day of the refresh since which
              \* nothing was traded or polled, 0 for none

vars == <<day, fills, book, ltp, daily, run, ranToday, poll, asOf>>

Days == 1..MaxDay
NoClose == [s \in Symbols |-> 0]
NoPosition == [qty |-> 0, avg |-> 0, cost |-> 0]
NoRow == [realized |-> 0, unrealized |-> 0, present |-> FALSE]
NoRun == [on |-> FALSE, close |-> NoClose, left |-> {}]
NoPoll == [on |-> FALSE, held |-> {}]

Fill == [day : Days, sym : Symbols, side : {"BUY", "SELL"},
         qty : 1..MaxQty, price : Prices]

Held == {s \in Symbols : book[s].qty > 0}

Least(a, b) == IF a < b THEN a ELSE b

Init ==
    /\ day = 1
    /\ fills = <<>>
    /\ book = [s \in Symbols |-> NoPosition]
    /\ ltp = NoClose
    /\ daily = [d \in Days |-> NoRow]
    /\ run = NoRun /\ ranToday = FALSE
    /\ poll = NoPoll
    /\ asOf = 0

(***************************************************************************)
(* Replays of paper_fills                                                  *)
(***************************************************************************)

\* The running average-cost book a replay keeps, and what it realized so far.
Fresh == [qty |-> [s \in Symbols |-> 0], cost |-> [s \in Symbols |-> 0],
          gain |-> [d \in Days |-> 0]]

Bought(st, f) ==
    [st EXCEPT !.qty[f.sym] = @ + f.qty, !.cost[f.sym] = @ + f.qty * f.price]

Sold(st, f, q) ==
    LET avg == st.cost[f.sym] \div st.qty[f.sym]
        rest == st.qty[f.sym] - q IN
    [st EXCEPT !.qty[f.sym] = rest,
               !.cost[f.sym] = IF rest = 0 THEN 0 ELSE @ - avg * q,
               !.gain[f.day] = @ + (f.price - avg) * q]

\* Mutant: a SELL realizes its notional.
EngineStepNotional(st, f) ==
    IF f.side = "BUY" THEN Bought(st, f)
    ELSE IF st.qty[f.sym] <= 0 THEN st
    ELSE [Sold(st, f, Least(f.qty, st.qty[f.sym])) EXCEPT
             !.gain[f.day] = st.gain[f.day] + f.price * f.qty]

\* _cost_basis_realized_per_session: a SELL counts for what is held.
EngineStep(st, f) ==
    IF f.side = "BUY" THEN Bought(st, f)
    ELSE IF st.qty[f.sym] <= 0 THEN st
    ELSE Sold(st, f, Least(f.qty, st.qty[f.sym]))

\* _replay_closed_trades and the trade log: it counts for what was sold.
ViewStep(st, f) ==
    IF f.side = "BUY" THEN Bought(st, f)
    ELSE IF st.qty[f.sym] <= 0 THEN st
    ELSE Sold(st, f, f.qty)

EngineReplay ==
    LET after[n \in 0..Len(fills)] ==
            IF n = 0 THEN Fresh ELSE EngineStep(after[n - 1], fills[n])
    IN after[Len(fills)]

ViewReplay ==
    LET after[n \in 0..Len(fills)] ==
            IF n = 0 THEN Fresh ELSE ViewStep(after[n - 1], fills[n])
    IN after[Len(fills)]

Realized(d) == EngineReplay.gain[d]

(***************************************************************************)
(* Marks, and what the tiles say                                           *)
(***************************************************************************)

\* fill_price of the last BUY of s, 0 when there is none.
LastBuy(s) ==
    LET buys == {i \in 1..Len(fills) : fills[i].sym = s /\ fills[i].side = "BUY"} IN
    IF buys = {} THEN 0 ELSE fills[Max(buys)].price

\* The chain of _build_fallback_ltp_fetcher, 0 for None.
FallbackLtp(s) == IF ltp[s] # 0 THEN ltp[s] ELSE LastBuy(s)

Unrealized(price) ==
    SumFunction([s \in {t \in Held : price[t] # 0} |->
                    book[s].qty * (price[s] - book[s].avg)])

\* Mutant: every fill costs, a SELL brings nothing in.
CashOfBuys ==
    Seed - SumFunction([i \in 1..Len(fills) |->
               IF fills[i].side = "BUY" THEN fills[i].qty * fills[i].price + Fee
               ELSE Fee])

\* paper_cash.
Cash ==
    Seed - SumFunction([i \in 1..Len(fills) |->
               IF fills[i].side = "BUY" THEN fills[i].qty * fills[i].price + Fee
               ELSE Fee - fills[i].qty * fills[i].price])

\* paper_portfolio_value, which the next rebalance is sized against.
PortfolioValue ==
    Cash + SumFunction([s \in Held |->
               book[s].qty * (IF FallbackLtp(s) = 0 THEN book[s].avg ELSE FallbackLtp(s))])

\* Mutant: without a poll the page marks at average cost.
MarkedAtCost(s) == IF ltp[s] # 0 THEN ltp[s] ELSE book[s].avg

\* book_rich marks a position by a chain of its own.
MarkedPrice(s) ==
    IF ltp[s] # 0 THEN ltp[s]
    ELSE IF LastBuy(s) # 0 THEN LastBuy(s) ELSE book[s].avg

\* _summary: the tiles Unrealized, Cumulative and Today's Change.
OpenPnl == SumFunction([s \in Held |-> (MarkedPrice(s) - book[s].avg) * book[s].qty])

Cumulative == SumFunction([d \in Days |-> Realized(d)]) + OpenPnl

\* Mutant: the open profit counts as today's, carried over or not.
PriorNothing == 0

PriorUnrealized ==
    LET prior == {d \in 1..(day - 1) : daily[d].present} IN
    IF prior = {} THEN 0 ELSE daily[Max(prior)].unrealized

TodaysChange == daily[day].realized + OpenPnl - PriorUnrealized

(***************************************************************************)
(* The 09:30 run                                                           *)
(***************************************************************************)

\* execute_orders begins: the closes are in, for the symbols with orders; an
\* order without a close is skipped and is as good as none.  Which orders there
\* are, and that SELLs go first, is left open.
BeginRun ==
    /\ ~run.on /\ ~ranToday
    /\ \E close \in [Symbols -> Prices \cup {0}] :
          run' = [on |-> TRUE, close |-> close, left |-> {s \in Symbols : close[s] > 0}]
    /\ UNCHANGED <<day, fills, book, ltp, daily, ranToday, poll, asOf>>

\* Mutant: a SELL leaves the cost basis as it was.
ApplyKeepsCost(p, side, q, price) ==
    IF side = "BUY"
    THEN LET qty == p.qty + q
             cost == p.cost + q * price
         IN [qty |-> qty, avg |-> cost \div qty, cost |-> cost]
    ELSE IF p.qty <= q THEN NoPosition
    ELSE [p EXCEPT !.qty = p.qty - q]

\* Mutant: the side is not looked at.
ApplyIgnoresSide(p, side, q, price) ==
    LET qty == p.qty + q
        cost == p.cost + q * price
    IN [qty |-> qty, avg |-> cost \div qty, cost |-> cost]

\* _apply_to_book: a BUY averages, a SELL takes its share of the cost basis.
ApplyToBook(p, side, q, price) ==
    IF side = "BUY"
    THEN LET qty == p.qty + q
             cost == p.cost + q * price
         IN [qty |-> qty, avg |-> cost \div qty, cost |-> cost]
    ELSE IF p.qty <= q THEN NoPosition
    ELSE [p EXCEPT !.qty = p.qty - q, !.cost = (p.cost * (p.qty - q)) \div p.qty]

\* One order is filled: the fill and the book, in one transaction.  A BUY is
\* scaled down to what cash pays for.
FillOrder(s, side, q) ==
    /\ run.on /\ s \in run.left
    /\ Len(fills) < MaxFills
    /\ IF side = "BUY"
       THEN book[s].qty + q <= MaxQty /\ q * run.close[s] + Fee <= Cash
       ELSE q <= book[s].qty
    /\ fills' = Append(fills, [day |-> day, sym |-> s, side |-> side,
                               qty |-> q, price |-> run.close[s]])
    /\ book' = [book EXCEPT ![s] = ApplyToBook(@, side, q, run.close[s])]
    /\ run' = [run EXCEPT !.left = @ \ {s}]
    /\ asOf' = 0
    /\ UNCHANGED <<day, ltp, daily, ranToday, poll>>

\* compute_daily_pnl: upsert today's row.
WriteRow(price) ==
    daily' = [daily EXCEPT ![day] =
        [realized |-> Realized(day), unrealized |-> Unrealized(price), present |-> TRUE]]

\* The orders left are skipped; the row is marked at the closes of the run,
\* which has none for what it did not trade.
EndRun ==
    /\ run.on
    /\ WriteRow(run.close)
    /\ run' = NoRun /\ ranToday' = TRUE
    /\ asOf' = 0
    /\ UNCHANGED <<day, fills, book, ltp, poll>>

(***************************************************************************)
(* ltp_poll_job and paper_mtm_refresh_job                                  *)
(***************************************************************************)

BeginPoll ==
    /\ ~run.on /\ ~poll.on /\ Held # {}
    /\ poll' = [on |-> TRUE, held |-> Held]
    /\ UNCHANGED <<day, fills, book, ltp, daily, run, ranToday, asOf>>

\* The candles are in, but for the symbols Dhan does not answer for.
EndPoll ==
    /\ ~run.on /\ poll.on
    /\ \E price \in [poll.held -> Prices \cup {0}] :
          ltp' = [s \in Symbols |->
                    IF s \in poll.held /\ price[s] # 0 THEN price[s] ELSE ltp[s]]
    /\ poll' = NoPoll
    /\ asOf' = 0
    /\ UNCHANGED <<day, fills, book, daily, run, ranToday>>

Refresh ==
    /\ ~run.on
    /\ WriteRow([s \in Symbols |-> FallbackLtp(s)])
    /\ asOf' = IF asOf = 0 THEN day ELSE asOf
    /\ UNCHANGED <<day, fills, book, ltp, run, ranToday, poll>>

(***************************************************************************)
(* Days, and the worker's deaths                                           *)
(***************************************************************************)

NextDay ==
    /\ day < MaxDay
    /\ ~run.on /\ ~poll.on
    /\ day' = day + 1
    /\ ranToday' = FALSE
    /\ UNCHANGED <<fills, book, ltp, daily, run, poll, asOf>>

\* The worker dies and is started again; the tables stay.
Crash ==
    /\ run.on \/ poll.on
    /\ run' = NoRun /\ poll' = NoPoll
    /\ UNCHANGED <<day, fills, book, ltp, daily, ranToday, asOf>>

Next ==
    \/ BeginRun \/ EndRun
    \/ \E s \in Symbols, side \in {"BUY", "SELL"}, q \in 1..MaxQty : FillOrder(s, side, q)
    \/ BeginPoll \/ EndPoll \/ Refresh
    \/ NextDay \/ Crash

Spec == Init /\ [][Next]_vars

(***************************************************************************)
(* Properties                                                              *)
(***************************************************************************)

\* Tables, jobs and rows have their types.
TypeOK ==
    /\ day \in Days
    /\ fills \in Seq(Fill)
    /\ book \in [Symbols -> [qty : 0..MaxQty, avg : Nat, cost : Nat]]
    /\ ltp \in [Symbols -> Prices \cup {0}]
    /\ daily \in [Days -> [realized : Int, unrealized : Int, present : BOOLEAN]]
    /\ run \in [on : BOOLEAN, close : [Symbols -> Prices \cup {0}], left : SUBSET Symbols]
    /\ poll \in [on : BOOLEAN, held : SUBSET Symbols]
    /\ ranToday \in BOOLEAN /\ asOf \in 0..MaxDay

\* Quantity, cost basis and average cost that _apply_to_book keeps in place,
\* the engine's replay and the replay of the pages "never disagree"
\* (FRD.md:265), although the pages do not clamp a SELL and the book keeps its
\* average across one.
ReplaysAgree ==
    /\ ViewReplay = EngineReplay
    /\ \A s \in Symbols :
          /\ book[s].qty = EngineReplay.qty[s]
          /\ book[s].cost = EngineReplay.cost[s]
          /\ book[s].cost = book[s].qty * book[s].avg

\* The books balance: what the account is worth, computed from cash and marks,
\* is the seed and the cumulative profit, computed from replay and average
\* costs, less the charges.
TilesAgree == PortfolioValue = Seed + Cumulative - Fee * Len(fills)

\* When nothing was traded or polled since a refresh of an earlier day, Today's
\* Change is nothing: what was carried over is not today's (FRD.md:473).
QuietDayShowsNoChange == asOf \in 1..(day - 1) => TodaysChange = 0
=============================================================================
