---------------------------- MODULE PaperEngine ----------------------------
(***************************************************************************)
(* The paper engine of app/paper/engine.py over its SQLite tables: the     *)
(* signals of a session are diffed against the paper book into PENDING     *)
(* orders (generate_orders), which execute_orders fills or skips one       *)
(* transaction at a time, SELLs first, BUYs behind a cash gate.            *)
(*                                                                         *)
(* The worker may die between any two transactions and run again on the    *)
(* same tables.  Both functions are synchronous, so inside the one worker  *)
(* process a call never interleaves with another one: rows is the loop of  *)
(* the execute_orders call in progress, empty when there is none.          *)
(*                                                                         *)
(* Rows of paper_orders are keyed <<gen, symbol>>: AUTOINCREMENT never     *)
(* hands out an id twice, and one call of generate_orders (one gen)        *)
(* inserts at most one row per symbol.  The append-only paper_fills table  *)
(* is kept as what its readers compute from it: the quantities bought and  *)
(* sold of each symbol, and paper_cash.                                    *)
(***************************************************************************)
EXTENDS Integers

CONSTANTS
    Symbols,          \* instruments of the universe
    InitialCapital,   \* settings.paper_initial_capital
    InitialBooks,     \* paper books an earlier history may have left
    Prices,           \* the 09:30 closes a candle can show, all positive
    BuyRate,          \* statutory charges of a BUY, in RateBase-ths of its notional
    SellRate,         \* and of a SELL, which leaves some of it
    RateBase,
    MaxQty,           \* bound: target quantities
    MaxSession,       \* bound: trading days
    MaxGen            \* bound: calls of generate_orders

ASSUME CapitalAssumption == InitialCapital \in Nat
ASSUME BookAssumption == InitialBooks \subseteq [Symbols -> Nat]
ASSUME PriceAssumption == Prices \subseteq Nat \ {0}
ASSUME BoundAssumption == MaxQty \in Nat /\ MaxSession \in Nat /\ MaxGen \in Nat
ASSUME RateAssumption ==
    RateBase \in Nat \ {0} /\ BuyRate \in Nat /\ SellRate \in 0..RateBase

VARIABLES
    session,   \* today's session_date, as a day number
    target,    \* signals of the session: target_qty, 0 when not selected
    gen,       \* calls of generate_orders so far
    orders,    \* paper_orders
    book,      \* paper_book: quantity held, 0 when there is no row
    bought,    \* paper_fills: sum of the BUY quantities of a symbol
    sold,      \* paper_fills: sum of the SELL quantities of a symbol
    cash,      \* paper_cash(conn)
    rows       \* the orders execute_orders still has to visit

ledger == <<book, bought, sold, cash>>
vars == <<session, target, gen, orders, ledger, rows>>

Keys == (1..MaxGen) \X Symbols
Sells == {"EXIT", "TRIM"}
Terminal == {"FILLED", "SKIPPED"}

\* fill is fill_qty of the row's paper_fills, 0 when it has none; goal is the
\* target quantity the row was diffed against, kept for the properties.
Order == [session : Nat, act : Sells \cup {"BUY"}, qty : Nat, goal : Nat,
          fill : Nat, status : Terminal \cup {"ABSENT", "PENDING"}]
NoOrder == [session |-> 0, act |-> "BUY", qty |-> 0, goal |-> 0,
            fill |-> 0, status |-> "ABSENT"]

\* The rows "WHERE session_date = today AND status = 'PENDING'" selects.
PendingToday ==
    {k \in Keys : orders[k].status = "PENDING" /\ orders[k].session = session}

Init ==
    /\ session = 1
    /\ target = [s \in Symbols |-> 0]
    /\ gen = 0
    /\ orders = [k \in Keys |-> NoOrder]
    /\ book \in InitialBooks
    /\ bought = book
    /\ sold = [s \in Symbols |-> 0]
    /\ cash = InitialCapital
    /\ rows = {}

(***************************************************************************)
(* Signals and the diff                                                    *)
(***************************************************************************)

\* The transaction of execution_job that replaces the session's signals.
PersistSignals(t) ==
    /\ rows = {}
    /\ target' = t
    /\ UNCHANGED <<session, gen, orders, ledger, rows>>

\* Mutant: the order asks for the target, not for what is missing.
DiffRowWholeTarget(s) ==
    [session |-> session,
     act     |-> IF target[s] > book[s] THEN "BUY"
                 ELSE IF target[s] > 0 THEN "TRIM" ELSE "EXIT",
     qty     |-> IF target[s] > book[s] THEN target[s] ELSE book[s] - target[s],
     goal    |-> target[s],
     fill    |-> 0,
     status  |-> "PENDING"]

\* Mutant: the quantity of a reducing order keeps the sign of the delta.
DiffRowSigned(s) ==
    [session |-> session,
     act     |-> IF target[s] > book[s] THEN "BUY"
                 ELSE IF target[s] > 0 THEN "TRIM" ELSE "EXIT",
     qty     |-> target[s] - book[s],
     goal    |-> target[s],
     fill    |-> 0,
     status  |-> "PENDING"]

\* The row the diff of s produces: BUY up to the target, TRIM down to it,
\* EXIT when nothing is to be kept.
DiffRow(s) ==
    [session |-> session,
     act     |-> IF target[s] > book[s] THEN "BUY"
                 ELSE IF target[s] > 0 THEN "TRIM" ELSE "EXIT",
     qty     |-> IF target[s] > book[s] THEN target[s] - book[s]
                 ELSE book[s] - target[s],
     goal    |-> target[s],
     fill    |-> 0,
     status  |-> "PENDING"]

\* Mutant: no DELETE, the rows of an interrupted run stay.
GenerateWithoutDelete ==
    /\ rows = {}
    /\ gen < MaxGen
    /\ gen' = gen + 1
    /\ orders' = [k \in Keys |->
            IF k[1] = gen + 1 /\ target[k[2]] # book[k[2]] THEN DiffRow(k[2])
            ELSE orders[k]]
    /\ UNCHANGED <<session, target, ledger, rows>>

\* Mutant: the DELETE forgets "AND status = 'PENDING'".
GenerateDeletesSession ==
    /\ rows = {}
    /\ gen < MaxGen
    /\ gen' = gen + 1
    /\ orders' = [k \in Keys |->
            IF k[1] = gen + 1 /\ target[k[2]] # book[k[2]] THEN DiffRow(k[2])
            ELSE IF orders[k].session = session THEN NoOrder
            ELSE orders[k]]
    /\ UNCHANGED <<session, target, ledger, rows>>

\* One transaction: the session's PENDING rows go, the new diff comes in.
GenerateOrders ==
    /\ rows = {}
    /\ gen < MaxGen
    /\ gen' = gen + 1
    /\ orders' = [k \in Keys |->
            IF k[1] = gen + 1 /\ target[k[2]] # book[k[2]] THEN DiffRow(k[2])
            ELSE IF k \in PendingToday THEN NoOrder
            ELSE orders[k]]
    /\ UNCHANGED <<session, target, ledger, rows>>

(***************************************************************************)
(* execute_orders                                                          *)
(***************************************************************************)

\* The SELECT at the head of execute_orders.
BeginExecute ==
    /\ rows = {}
    /\ rows' = PendingToday
    /\ UNCHANGED <<session, target, gen, orders, ledger>>

\* Mutant: ORDER BY action, the alphabet puts BUY first.
RankAlphabetical(act) == IF act = "BUY" THEN 0 ELSE IF act = "EXIT" THEN 1 ELSE 2

\* ORDER BY action: EXIT, then TRIM, then BUY (the id breaks ties).
Rank(act) == IF act = "EXIT" THEN 0 ELSE IF act = "TRIM" THEN 1 ELSE 2
IsNext(k) ==
    k \in rows /\ \A j \in rows : Rank(orders[k].act) <= Rank(orders[j].act)

\* compute_charges: the schedule is linear in the notional, and rounded.
Charges(rate, notional) == (2 * rate * notional + RateBase) \div (2 * RateBase)

BuyCost(q, price) == q * price + Charges(BuyRate, q * price)
SellProceeds(q, price) == q * price - Charges(SellRate, q * price)

\* The quantities the scale-down loop may stop at: 0.5 % of the cash is kept
\* as head-room, and the cost must fit what there is.
Fits(price) ==
    {0} \cup {n \in 1..((995 * cash) \div (1000 * price)) : BuyCost(n, price) <= cash}

\* Mutant: the gate compares the notional and forgets the charges.
PassesGateOnNotional(q, price, n) ==
    IF q * price <= cash THEN n = q
    ELSE n \in Fits(price) /\ \A m \in Fits(price) : m <= n

\* What a BUY of q comes down to at the cash gate.
PassesGate(q, price, n) ==
    IF BuyCost(q, price) <= cash THEN n = q
    ELSE n \in Fits(price) /\ \A m \in Fits(price) : m <= n

Settle(k, status, q) ==
    /\ orders' = [orders EXCEPT ![k].status = status, ![k].fill = q]
    /\ rows' = rows \ {k}
    /\ UNCHANGED <<session, target, gen>>

\* Zero fill on the live side, no candle, or nothing affordable.
Skip(k) == Settle(k, "SKIPPED", 0) /\ UNCHANGED ledger

\* Insert the fill, mark the order and apply it to the book, in one
\* transaction.  A SELL takes the book to max(0, held - q).
FillSell(k, q, price) ==
    LET s == k[2]
        held == book[s] IN
    /\ Settle(k, "FILLED", q)
    /\ book' = [book EXCEPT ![s] = IF held > q THEN held - q ELSE 0]
    /\ sold' = [sold EXCEPT ![s] = sold[s] + q]
    /\ cash' = cash + SellProceeds(q, price)
    /\ UNCHANGED bought

FillBuy(k, q, price) ==
    LET s == k[2] IN
    /\ Settle(k, "FILLED", q)
    /\ book' = [book EXCEPT ![s] = book[s] + q]
    /\ bought' = [bought EXCEPT ![s] = bought[s] + q]
    /\ cash' = cash - BuyCost(q, price)
    /\ UNCHANGED sold

\* One iteration of the loop: q is qty_override.get(id, order_qty), price the
\* fetched 09:30 close, 0 when there is none.
SkipRow(k, q, price) == (q = 0 \/ price = 0) /\ Skip(k)

SellRow(k, q, price) ==
    q > 0 /\ price > 0 /\ orders[k].act \in Sells /\ FillSell(k, q, price)

BuyRow(k, q, price) ==
    /\ q > 0 /\ price > 0 /\ orders[k].act = "BUY"
    /\ \E n \in 0..q :
        /\ PassesGate(q, price, n)
        /\ IF n = 0 THEN Skip(k) ELSE FillBuy(k, n, price)

ExecuteRow(k, q, price) ==
    /\ IsNext(k)
    /\ \/ SkipRow(k, q, price)
       \/ SellRow(k, q, price)
       \/ BuyRow(k, q, price)

(***************************************************************************)
(* The environment                                                         *)
(***************************************************************************)

\* The worker dies between two transactions; only the tables survive.
Crash ==
    /\ rows # {}
    /\ rows' = {}
    /\ UNCHANGED <<session, target, gen, orders, ledger>>

\* A new trading day: a run takes minutes and never spans one.
NextSession ==
    /\ session < MaxSession
    /\ rows = {}
    /\ session' = session + 1
    /\ target' = [s \in Symbols |-> 0]
    /\ UNCHANGED <<gen, orders, ledger, rows>>

Next ==
    \/ \E t \in [Symbols -> 0..MaxQty] : PersistSignals(t)
    \/ GenerateOrders
    \/ BeginExecute
    \/ \E k \in rows : \E q \in 0..orders[k].qty, price \in Prices \cup {0} :
          ExecuteRow(k, q, price)
    \/ Crash
    \/ NextSession

Spec == Init /\ [][Next]_vars

(***************************************************************************)
(* Properties                                                              *)
(***************************************************************************)

\* Every table and every run has its type.
TypeOK ==
    /\ session \in Nat
    /\ target \in [Symbols -> Nat]
    /\ gen \in 0..MaxGen
    /\ orders \in [Keys -> Order]
    /\ book \in [Symbols -> Nat]
    /\ bought \in [Symbols -> Nat]
    /\ sold \in [Symbols -> Nat]
    /\ cash \in Int
    /\ rows \subseteq Keys

\* The book never buys on credit, whatever is sold, skipped, scaled down,
\* crashed and run again: "leverage is structurally impossible" (FRD.md:251).
NoLeverage == cash >= 0

\* paper_book, updated in place, is what replaying paper_fills gives: no fill
\* is applied twice, lost in a crash, or clamped by the max(0, ...) of
\* _apply_to_book while the fill row keeps the full quantity.
BookMatchesFills == \A s \in Symbols : book[s] = bought[s] - sold[s]

\* An order of today that still waits takes the book exactly to the quantity
\* it was diffed against, however many runs, crashes and fills came between.
\* So a waiting SELL never exceeds what is held.
PendingClosesGap ==
    \A k \in PendingToday :
        LET o == orders[k] IN
        book[k[2]] + (IF o.act = "BUY" THEN o.qty ELSE -o.qty) = o.goal

\* A fill moves the holding towards the goal of its order, never past it.
NeverOvershoots ==
    [][\A k \in Keys :
          orders[k].status = "PENDING" /\ orders'[k].status = "FILLED" =>
             IF orders[k].act = "BUY"
             THEN book[k[2]] < book'[k[2]] /\ book'[k[2]] <= orders[k].goal
             ELSE orders[k].goal <= book'[k[2]] /\ book'[k[2]] < book[k[2]]]_vars

\* No BUY of a diff is settled while a SELL of the same diff still waits, not
\* even across a crash: the BUYs see all the cash the SELLs raise.
SellsSettleFirst ==
    \A k, j \in Keys :
        /\ k[1] = j[1]
        /\ orders[k].act = "BUY" /\ orders[k].status \in Terminal
        /\ orders[j].act \in Sells
        => orders[j].status # "PENDING"

\* A settled order is history: no later run deletes or rewrites it (deleting
\* it would cascade to its fills and unbalance book and cash).
HistoryIsKept ==
    [][\A k \in Keys : orders[k].status \in Terminal => orders'[k] = orders[k]]_vars
=============================================================================
