------------------------- MODULE PaperEngineProofs -------------------------
(***************************************************************************)
(* Proofs about PaperEngine, for every universe, capital, price set,       *)
(* charge schedule, initial book and bound.                                *)
(*                                                                         *)
(* The properties of PaperEngine are not inductive as they stand.  IInv    *)
(* adds what execute_orders silently relies on: the loop it runs is over   *)
(* the rows that are PENDING now, a symbol has at most one of them, the    *)
(* rows of one diff belong to one session, and ids and sessions are handed *)
(* out in order.                                                           *)
(***************************************************************************)
EXTENDS PaperEngine, TLAPS

\* The loop of execute_orders visits exactly what is still PENDING.
RowsArePending == rows = {} \/ rows = PendingToday

\* A symbol has at most one PENDING order today.
OnePendingPerSymbol ==
    \A k, j \in PendingToday : k[2] = j[2] => k = j

\* Ids not handed out yet have no row.
FreshIdsAreAbsent == \A k \in Keys : k[1] > gen => orders[k] = NoOrder

\* No order belongs to a session that has not come yet.
NoFutureOrders == \A k \in Keys : orders[k].session <= session

\* One call of generate_orders writes rows of one session.
OneSessionPerDiff ==
    \A k, j \in Keys :
        /\ k[1] = j[1]
        /\ orders[k].status # "ABSENT" /\ orders[j].status # "ABSENT"
        => orders[k].session = orders[j].session

\* An order that waits has filled nothing.
WaitingIsUnfilled ==
    \A k \in Keys : orders[k].status \notin Terminal => orders[k].fill = 0

TableInv == RowsArePending /\ OnePendingPerSymbol /\ FreshIdsAreAbsent
            /\ NoFutureOrders /\ OneSessionPerDiff /\ WaitingIsUnfilled

IInv == /\ TypeOK /\ TableInv
        /\ NoLeverage /\ BookMatchesFills /\ PendingClosesGap /\ SellsSettleFirst

-----------------------------------------------------------------------------
(***************************************************************************)
(* Arithmetic of the charge schedule                                       *)
(***************************************************************************)

\* A charge is an integer, and a SELL never costs more than it brings.
LEMMA ChargesBounds ==
    ASSUME NEW n \in Nat
    PROVE  Charges(BuyRate, n) \in Int /\ Charges(SellRate, n) \in Int
           /\ Charges(SellRate, n) <= n
<1>1. RateBase \in Nat /\ RateBase > 0 /\ BuyRate \in Nat /\ SellRate \in Nat
      /\ SellRate <= RateBase
  BY RateAssumption
<1>2. \A a, b \in Int : b > 0 => a \div b \in Int
  OBVIOUS
<1>3. 2 * BuyRate * n + RateBase \in Int /\ 2 * SellRate * n + RateBase \in Int
      /\ 2 * RateBase \in Int /\ 2 * RateBase > 0
  BY <1>1
<1>4. Charges(BuyRate, n) \in Int /\ Charges(SellRate, n) \in Int
  BY <1>2, <1>3 DEF Charges
<1>5. 2 * SellRate * n + RateBase < (n + 1) * (2 * RateBase)
  <2>1. SellRate * n <= RateBase * n
    BY <1>1
  <2>2. SellRate * n \in Int /\ RateBase * n \in Int
    BY <1>1
  <2>3. 2 * SellRate * n = 2 * (SellRate * n)
        /\ (n + 1) * (2 * RateBase) = 2 * (RateBase * n) + 2 * RateBase
    BY <1>1
  <2> QED BY <2>1, <2>2, <2>3, <1>1
<1>6. \A a, b, c \in Int : b > 0 /\ a < (c + 1) * b => a \div b <= c
  OBVIOUS
<1>7. Charges(SellRate, n) <= n
  BY <1>3, <1>5, <1>6 DEF Charges
<1> QED BY <1>4, <1>7

-----------------------------------------------------------------------------
(***************************************************************************)
(* The initial tables                                                      *)
(***************************************************************************)

\* The initial tables satisfy the invariant.
LEMMA InitIInv == Init => IInv
<1> SUFFICES ASSUME Init PROVE IInv
  OBVIOUS
<1> USE DEF Init
<1>1. NoOrder \in Order
  BY DEF NoOrder, Order, Sells, Terminal
<1>2. TypeOK
  BY <1>1, CapitalAssumption, BookAssumption, BoundAssumption DEF TypeOK
<1>3. \A k \in Keys : orders[k] = NoOrder
  OBVIOUS
<1>4. PendingToday = {}
  BY <1>3 DEF PendingToday, NoOrder
<1>5. TableInv
  BY <1>3, <1>4 DEF TableInv, RowsArePending, OnePendingPerSymbol,
     FreshIdsAreAbsent, NoFutureOrders, OneSessionPerDiff, WaitingIsUnfilled, NoOrder
<1>6. NoLeverage
  BY CapitalAssumption DEF NoLeverage
<1>7. BookMatchesFills
  <2>1. book \in [Symbols -> Nat]
    BY BookAssumption
  <2>2. \A s \in Symbols : book[s] \in Nat /\ bought[s] = book[s] /\ sold[s] = 0
    BY <2>1
  <2> HIDE DEF Init
  <2>3. ASSUME NEW s \in Symbols PROVE book[s] = bought[s] - sold[s]
    <3>1. book[s] \in Nat /\ bought[s] = book[s] /\ sold[s] = 0
      BY <2>2
    <3>2. \A n \in Nat : n = n - 0
      OBVIOUS
    <3> QED BY <3>1, <3>2
  <2> QED BY <2>3 DEF BookMatchesFills
<1>8. PendingClosesGap /\ SellsSettleFirst
  <2>1. PendingClosesGap
    BY <1>4 DEF PendingClosesGap
  <2>2. \A k \in Keys : orders[k].status \notin Terminal
    BY <1>3 DEF NoOrder, Terminal
  <2>3. SellsSettleFirst
    BY <2>2 DEF SellsSettleFirst
  <2> QED BY <2>1, <2>3
<1> QED BY <1>2, <1>5, <1>6, <1>7, <1>8 DEF IInv

-----------------------------------------------------------------------------
(***************************************************************************)
(* Steps that leave the ledger alone                                       *)
(***************************************************************************)

\* Replacing the signals touches no table the invariant is about.
LEMMA SignalsIInv ==
    ASSUME IInv, NEW t \in [Symbols -> 0..MaxQty], PersistSignals(t)
    PROVE  IInv'
<1>1. target' \in [Symbols -> Nat]
  BY BoundAssumption DEF PersistSignals
<1>2. TypeOK'
  BY <1>1 DEF IInv, TypeOK, PersistSignals, ledger
<1> QED
  BY <1>2 DEF IInv, PersistSignals, ledger, TableInv, RowsArePending,
     OnePendingPerSymbol, FreshIdsAreAbsent, NoFutureOrders, OneSessionPerDiff, WaitingIsUnfilled,
     NoLeverage, BookMatchesFills, PendingClosesGap, SellsSettleFirst, PendingToday

\* Starting or abandoning the loop changes rows alone.
LEMMA LoopIInv ==
    ASSUME IInv, BeginExecute \/ Crash
    PROVE  IInv'
<1>1. rows' = {} \/ rows' = PendingToday
  BY DEF BeginExecute, Crash
<1>2. UNCHANGED <<session, target, gen, orders, ledger>>
  BY DEF BeginExecute, Crash
<1>3. PendingToday' = PendingToday /\ PendingToday \subseteq Keys
  BY <1>2 DEF PendingToday
<1>4. TypeOK'
  BY <1>1, <1>2, <1>3 DEF IInv, TypeOK, ledger
<1>5. TableInv'
  BY <1>1, <1>2, <1>3 DEF IInv, TableInv, RowsArePending, OnePendingPerSymbol,
     FreshIdsAreAbsent, NoFutureOrders, OneSessionPerDiff, WaitingIsUnfilled
<1> QED
  BY <1>2, <1>3, <1>4, <1>5 DEF IInv, ledger, NoLeverage, BookMatchesFills,
     PendingClosesGap, SellsSettleFirst

\* A new day starts with nothing PENDING: no order is ever dated ahead.
LEMMA SessionIInv ==
    ASSUME IInv, NextSession
    PROVE  IInv'
<1> USE DEF IInv
<1>1. TypeOK'
  BY DEF NextSession, TypeOK, ledger
<1>2. PendingToday' = {}
  BY DEF NextSession, PendingToday, TableInv, NoFutureOrders, TypeOK, Order
<1>3. NoFutureOrders'
  BY DEF NextSession, TableInv, NoFutureOrders, TypeOK, Order
<1>4. TableInv'
  BY <1>2, <1>3 DEF NextSession, TableInv, RowsArePending, OnePendingPerSymbol,
     FreshIdsAreAbsent, OneSessionPerDiff, WaitingIsUnfilled
<1> QED
  BY <1>1, <1>2, <1>4 DEF NextSession, ledger, NoLeverage, BookMatchesFills,
     PendingClosesGap, SellsSettleFirst

-----------------------------------------------------------------------------
(***************************************************************************)
(* generate_orders                                                         *)
(***************************************************************************)

\* A diff row is an order of today, PENDING, that closes the gap it measured.
LEMMA DiffRowFacts ==
    ASSUME TypeOK, NEW s \in Symbols, target[s] # book[s]
    PROVE  /\ DiffRow(s) \in Order
           /\ DiffRow(s).session = session /\ DiffRow(s).status = "PENDING"
           /\ book[s] + (IF DiffRow(s).act = "BUY" THEN DiffRow(s).qty
                         ELSE -DiffRow(s).qty) = DiffRow(s).goal
<1>1. target[s] \in Nat /\ book[s] \in Nat /\ session \in Nat
  BY DEF TypeOK
<1>2. CASE target[s] > book[s]
  BY <1>1, <1>2 DEF DiffRow, Order, Sells, Terminal
<1>3. CASE ~(target[s] > book[s])
  BY <1>1, <1>3 DEF DiffRow, Order, Sells, Terminal
<1> QED BY <1>2, <1>3

\* Replacing the PENDING rows by a new diff keeps the invariant.
LEMMA GenerateIInv ==
    ASSUME IInv, GenerateOrders
    PROVE  IInv'
<1> USE DEF IInv
<1> DEFINE New == {k \in Keys : k[1] = gen + 1 /\ target[k[2]] # book[k[2]]}
<1>1. /\ gen \in Nat /\ gen + 1 \in 0..MaxGen /\ gen' = gen + 1
      /\ rows = {} /\ UNCHANGED <<session, target, ledger, rows>>
  BY BoundAssumption DEF GenerateOrders, TypeOK
<1>2. \A k \in Keys : orders'[k] =
        IF k \in New THEN DiffRow(k[2])
        ELSE IF k \in PendingToday THEN NoOrder ELSE orders[k]
  BY DEF GenerateOrders
<1>3. NoOrder \in Order /\ NoOrder.status = "ABSENT" /\ NoOrder.session = 0
  BY DEF NoOrder, Order, Sells, Terminal
<1>4. \A k \in Keys : k[2] \in Symbols /\ k[1] \in 1..MaxGen
  BY DEF Keys
<1>5. \A k \in New :
        /\ DiffRow(k[2]) \in Order
        /\ DiffRow(k[2]).session = session /\ DiffRow(k[2]).status = "PENDING"
        /\ book[k[2]] + (IF DiffRow(k[2]).act = "BUY" THEN DiffRow(k[2]).qty
                         ELSE -DiffRow(k[2]).qty) = DiffRow(k[2]).goal
  BY <1>4, DiffRowFacts
<1>6. TypeOK'
  <2>1. orders' \in [Keys -> Order]
    BY <1>2, <1>3, <1>5 DEF GenerateOrders, TypeOK
  <2> QED BY <1>1, <2>1 DEF TypeOK, ledger
<1>7. PendingToday' = New
  BY <1>1, <1>2, <1>3, <1>5 DEF PendingToday
<1>8. TableInv'
  <2>1. RowsArePending' /\ FreshIdsAreAbsent'
    BY <1>1, <1>2, <1>4 DEF RowsArePending, FreshIdsAreAbsent, TableInv
  <2>2. OnePendingPerSymbol'
    BY <1>7 DEF OnePendingPerSymbol, Keys
  <2>3. NoFutureOrders'
    BY <1>1, <1>2, <1>3, <1>5 DEF NoFutureOrders, TableInv, TypeOK
  <2>4. OneSessionPerDiff'
    BY <1>1, <1>2, <1>3, <1>4, <1>5
       DEF OneSessionPerDiff, TableInv, FreshIdsAreAbsent, TypeOK
  <2>5. WaitingIsUnfilled'
    <3>1. NoOrder.fill = 0 /\ \A k \in New : DiffRow(k[2]).fill = 0
      BY DEF NoOrder, DiffRow
    <3>2. \A k \in Keys : orders'[k] = orders[k] \/ orders'[k].fill = 0
      BY <1>2, <3>1
    <3> QED BY <3>2 DEF WaitingIsUnfilled, TableInv
  <2> QED BY <2>1, <2>2, <2>3, <2>4, <2>5 DEF TableInv
<1>9. NoLeverage' /\ BookMatchesFills'
  BY <1>1 DEF NoLeverage, BookMatchesFills, ledger
<1>10. PendingClosesGap'
  BY <1>1, <1>2, <1>5, <1>7 DEF PendingClosesGap, ledger
<1>11. SellsSettleFirst'
  BY <1>1, <1>2, <1>3, <1>4, <1>5
     DEF SellsSettleFirst, TableInv, FreshIdsAreAbsent, Terminal
<1> QED BY <1>6, <1>8, <1>9, <1>10, <1>11

-----------------------------------------------------------------------------
(***************************************************************************)
(* execute_orders: one row settles                                         *)
(***************************************************************************)

\* What every way of settling a row does to the table of orders.
LEMMA SettleFacts ==
    ASSUME IInv, NEW k \in rows, NEW status \in Terminal, NEW q \in Nat, IsNext(k),
           Settle(k, status, q)
    PROVE  /\ k \in PendingToday /\ k \in Keys /\ k[2] \in Symbols
           /\ orders[k] \in Order
           /\ \A j \in Keys : j # k => orders'[j] = orders[j]
           /\ orders'[k] \in Order /\ orders'[k].status = status
           /\ orders'[k].session = orders[k].session
           /\ orders'[k].act = orders[k].act
           /\ PendingToday' = PendingToday \ {k}
           /\ orders' \in [Keys -> Order] /\ rows' \subseteq Keys
           /\ session' = session /\ target' = target /\ gen' = gen
           /\ TableInv' /\ SellsSettleFirst'
<1> USE DEF IInv
<1>1. /\ rows = PendingToday /\ rows' = rows \ {k}
      /\ UNCHANGED <<session, target, gen>>
      /\ orders' = [orders EXCEPT ![k].status = status, ![k].fill = q]
  BY DEF Settle, TableInv, RowsArePending
<1>2. k \in PendingToday /\ k \in Keys /\ k[2] \in Symbols /\ k[1] \in 1..MaxGen
  BY <1>1 DEF PendingToday, Keys
<1>3. orders[k] \in Order /\ orders[k].status = "PENDING"
      /\ orders[k].session = session /\ status # "PENDING" /\ status # "ABSENT"
  BY <1>2 DEF TypeOK, PendingToday, Terminal
<1>4. \A j \in Keys : j # k => orders'[j] = orders[j]
  BY <1>1 DEF TypeOK
<1>5. orders'[k] = [orders[k] EXCEPT !.status = status, !.fill = q]
  BY <1>1, <1>2 DEF TypeOK
<1>6. /\ orders'[k] \in Order /\ orders'[k].status = status
      /\ orders'[k].session = orders[k].session
      /\ orders'[k].act = orders[k].act
  BY <1>3, <1>5 DEF Order, Terminal
<1>7. orders' \in [Keys -> Order]
  BY <1>1, <1>4, <1>6 DEF TypeOK
<1>8. PendingToday' = PendingToday \ {k}
  BY <1>1, <1>3, <1>4, <1>6 DEF PendingToday
<1>9. TableInv'
  <2>1. RowsArePending'
    BY <1>1, <1>8 DEF RowsArePending
  <2>2. OnePendingPerSymbol'
    BY <1>8 DEF OnePendingPerSymbol, TableInv
  <2>3. FreshIdsAreAbsent'
    <3>1. ~(k[1] > gen)
      BY <1>2, <1>3 DEF TableInv, FreshIdsAreAbsent, NoOrder
    <3> QED BY <3>1, <1>1, <1>4 DEF TableInv, FreshIdsAreAbsent
  <2>4. NoFutureOrders'
    BY <1>1, <1>2, <1>4, <1>6 DEF TableInv, NoFutureOrders
  <2>5. OneSessionPerDiff'
    BY <1>2, <1>3, <1>4, <1>6 DEF TableInv, OneSessionPerDiff
  <2>6. WaitingIsUnfilled'
    BY <1>4, <1>6 DEF TableInv, WaitingIsUnfilled
  <2> QED BY <2>1, <2>2, <2>3, <2>4, <2>5, <2>6 DEF TableInv
<1>10. SellsSettleFirst'
  <2> SUFFICES ASSUME NEW a \in Keys, NEW b \in Keys, a[1] = b[1],
                      orders'[a].act = "BUY", orders'[a].status \in Terminal,
                      orders'[b].act \in Sells, orders'[b].status = "PENDING"
               PROVE  FALSE
    BY DEF SellsSettleFirst
  <2>1. b # k /\ orders[b] = orders'[b]
    BY <1>3, <1>4, <1>6
  <2>2. CASE a # k
    BY <2>1, <2>2, <1>4 DEF SellsSettleFirst
  <2>3. CASE a = k
    <3>1. orders[k].act = "BUY"
      BY <2>3, <1>6
    <3>2. orders[b].session = session
      BY <1>3, <2>1, <2>3 DEF TableInv, OneSessionPerDiff
    <3>3. b \in rows
      BY <1>1, <2>1, <3>2 DEF PendingToday
    <3> QED
      BY <3>1, <3>3, <2>1 DEF IsNext, Rank, Sells
  <2> QED BY <2>2, <2>3
<1> QED
  BY <1>1, <1>2, <1>3, <1>4, <1>6, <1>7, <1>8, <1>9, <1>10 DEF TypeOK

\* A skipped row leaves the ledger as it is.
LEMMA SkipIInv ==
    ASSUME IInv, NEW k \in rows, IsNext(k), Skip(k)
    PROVE  IInv'
<1> USE DEF IInv
<1>1. "SKIPPED" \in Terminal /\ Settle(k, "SKIPPED", 0) /\ UNCHANGED ledger
  BY DEF Skip, Terminal
<1>2. /\ TableInv' /\ SellsSettleFirst'
      /\ orders' \in [Keys -> Order] /\ rows' \subseteq Keys
      /\ session' = session /\ target' = target /\ gen' = gen
      /\ PendingToday' = PendingToday \ {k} /\ PendingToday \subseteq Keys
      /\ \A j \in Keys : j # k => orders'[j] = orders[j]
  BY <1>1, SettleFacts DEF PendingToday
<1>3. TypeOK'
  BY <1>1, <1>2 DEF TypeOK, ledger
<1>4. PendingClosesGap'
  BY <1>1, <1>2 DEF PendingClosesGap, ledger
<1> QED
  BY <1>1, <1>2, <1>3, <1>4 DEF ledger, NoLeverage, BookMatchesFills

\* A fill that moves one holding leaves the gaps of the other rows alone.
LEMMA OtherGaps ==
    ASSUME IInv, NEW k \in PendingToday, PendingToday' = PendingToday \ {k},
           \A j \in Keys : j # k => orders'[j] = orders[j],
           \A s \in Symbols : s # k[2] => book'[s] = book[s]
    PROVE  PendingClosesGap'
<1> SUFFICES ASSUME NEW j \in PendingToday, j # k
             PROVE  orders'[j] = orders[j] /\ book'[j[2]] = book[j[2]]
  BY DEF IInv, PendingClosesGap
<1>1. j \in Keys /\ j[2] \in Symbols
  BY DEF PendingToday, Keys
<1>2. j[2] # k[2]
  BY DEF IInv, TableInv, OnePendingPerSymbol
<1> QED BY <1>1, <1>2

\* A waiting order moves the book to its goal: the quantity of a SELL is held.
LEMMA GapFacts ==
    ASSUME IInv, NEW k \in PendingToday
    PROVE  /\ k \in Keys /\ k[2] \in Symbols /\ orders[k] \in Order
           /\ orders[k].qty \in Nat /\ orders[k].goal \in Nat
           /\ book[k[2]] \in Nat /\ bought[k[2]] \in Nat /\ sold[k[2]] \in Nat
           /\ orders[k].act \in Sells => book[k[2]] - orders[k].qty = orders[k].goal
           /\ orders[k].act = "BUY" => book[k[2]] + orders[k].qty = orders[k].goal
<1>1. k \in Keys /\ k[2] \in Symbols
  BY DEF PendingToday, Keys
<1>2. orders[k] \in Order /\ orders[k].qty \in Nat /\ orders[k].goal \in Nat
      /\ book[k[2]] \in Nat /\ bought[k[2]] \in Nat /\ sold[k[2]] \in Nat
  BY <1>1 DEF IInv, TypeOK, Order
<1>3. book[k[2]] + (IF orders[k].act = "BUY" THEN orders[k].qty
                    ELSE -orders[k].qty) = orders[k].goal
  BY DEF IInv, PendingClosesGap
<1> QED BY <1>1, <1>2, <1>3 DEF Sells

\* A SELL fill keeps cash non-negative and the book equal to the fills.
LEMMA FillSellIInv ==
    ASSUME IInv, NEW k \in rows, IsNext(k), orders[k].act \in Sells,
           NEW q \in 1..orders[k].qty, NEW price \in Prices, FillSell(k, q, price)
    PROVE  IInv'
<1> USE DEF IInv
<1>1. "FILLED" \in Terminal /\ Settle(k, "FILLED", q) /\ q \in Nat
  BY DEF FillSell, Terminal
<1>2. /\ TableInv' /\ SellsSettleFirst'
      /\ orders' \in [Keys -> Order] /\ rows' \subseteq Keys
      /\ session' = session /\ target' = target /\ gen' = gen
      /\ k \in PendingToday /\ PendingToday' = PendingToday \ {k}
      /\ \A j \in Keys : j # k => orders'[j] = orders[j]
  BY <1>1, SettleFacts
<1>3. /\ k[2] \in Symbols /\ orders[k].qty \in Nat /\ orders[k].goal \in Nat
      /\ book[k[2]] \in Nat /\ sold[k[2]] \in Nat
      /\ book[k[2]] - orders[k].qty = orders[k].goal
  BY <1>2, GapFacts
<1>4. q \in Nat /\ q <= book[k[2]] /\ price \in Nat
  BY <1>3, PriceAssumption
<1>5. /\ book' = [book EXCEPT ![k[2]] = book[k[2]] - q]
      /\ sold' = [sold EXCEPT ![k[2]] = sold[k[2]] + q]
      /\ bought' = bought
      /\ cash' = cash + SellProceeds(q, price)
  <2>1. (IF book[k[2]] > q THEN book[k[2]] - q ELSE 0) = book[k[2]] - q
    BY <1>3, <1>4
  <2> QED BY <2>1 DEF FillSell
<1>6. SellProceeds(q, price) \in Int /\ SellProceeds(q, price) >= 0
  <2>1. q * price \in Nat
    BY <1>4
  <2> QED BY <2>1, ChargesBounds DEF SellProceeds
<1>7. TypeOK'
  BY <1>2, <1>3, <1>4, <1>5, <1>6 DEF TypeOK
<1>8. NoLeverage'
  BY <1>5, <1>6 DEF NoLeverage, TypeOK
<1>9. BookMatchesFills'
  <2> SUFFICES ASSUME NEW s \in Symbols PROVE book'[s] = bought'[s] - sold'[s]
    BY DEF BookMatchesFills
  <2>1. book[s] = bought[s] - sold[s] /\ bought[s] \in Nat /\ sold[s] \in Nat
    BY DEF BookMatchesFills, TypeOK
  <2>2. CASE s = k[2]
    BY <2>1, <2>2, <1>4, <1>5 DEF TypeOK
  <2>3. CASE s # k[2]
    BY <2>1, <2>3, <1>5 DEF TypeOK
  <2> QED BY <2>2, <2>3
<1>10. PendingClosesGap'
  <2>1. \A s \in Symbols : s # k[2] => book'[s] = book[s]
    BY <1>5 DEF TypeOK
  <2> QED BY <2>1, <1>2, OtherGaps
<1> QED BY <1>2, <1>7, <1>8, <1>9, <1>10

\* So does a BUY fill, of a quantity the cash gate let through.
LEMMA FillBuyIInv ==
    ASSUME IInv, NEW k \in rows, IsNext(k), orders[k].act = "BUY",
           NEW q \in Nat, NEW price \in Prices, NEW n \in 1..q,
           PassesGate(q, price, n), FillBuy(k, n, price)
    PROVE  IInv'
<1> USE DEF IInv
<1>1. "FILLED" \in Terminal /\ Settle(k, "FILLED", n) /\ n \in Nat
  BY DEF FillBuy, Terminal
<1>2. /\ TableInv' /\ SellsSettleFirst'
      /\ orders' \in [Keys -> Order] /\ rows' \subseteq Keys
      /\ session' = session /\ target' = target /\ gen' = gen
      /\ k \in PendingToday /\ PendingToday' = PendingToday \ {k}
      /\ \A j \in Keys : j # k => orders'[j] = orders[j]
  BY <1>1, SettleFacts
<1>3. k[2] \in Symbols /\ book[k[2]] \in Nat /\ bought[k[2]] \in Nat
      /\ n \in Nat /\ price \in Nat
  BY <1>2, GapFacts, PriceAssumption
<1>4. /\ book' = [book EXCEPT ![k[2]] = book[k[2]] + n]
      /\ bought' = [bought EXCEPT ![k[2]] = bought[k[2]] + n]
      /\ sold' = sold
      /\ cash' = cash - BuyCost(n, price)
  BY DEF FillBuy
<1>5. BuyCost(n, price) \in Int
  <2>1. n * price \in Nat
    BY <1>3
  <2> QED BY <2>1, ChargesBounds DEF BuyCost
<1>6. BuyCost(n, price) <= cash
  BY DEF PassesGate, Fits
<1>7. TypeOK'
  BY <1>2, <1>3, <1>4, <1>5 DEF TypeOK
<1>8. NoLeverage'
  BY <1>4, <1>5, <1>6 DEF NoLeverage, TypeOK
<1>9. BookMatchesFills'
  <2> SUFFICES ASSUME NEW s \in Symbols PROVE book'[s] = bought'[s] - sold'[s]
    BY DEF BookMatchesFills
  <2>1. book[s] = bought[s] - sold[s] /\ bought[s] \in Nat /\ sold[s] \in Nat
    BY DEF BookMatchesFills, TypeOK
  <2>2. CASE s = k[2]
    BY <2>1, <2>2, <1>3, <1>4 DEF TypeOK
  <2>3. CASE s # k[2]
    BY <2>1, <2>3, <1>4 DEF TypeOK
  <2> QED BY <2>2, <2>3
<1>10. PendingClosesGap'
  <2>1. \A s \in Symbols : s # k[2] => book'[s] = book[s]
    BY <1>4 DEF TypeOK
  <2> QED BY <2>1, <1>2, OtherGaps
<1> QED BY <1>2, <1>7, <1>8, <1>9, <1>10

-----------------------------------------------------------------------------
(***************************************************************************)
(* The theorems                                                            *)
(***************************************************************************)

\* One iteration of the loop keeps the invariant, whichever way it ends.
LEMMA ExecuteRowIInv ==
    ASSUME IInv, NEW k \in rows, NEW q \in 0..orders[k].qty,
           NEW price \in Prices \cup {0}, ExecuteRow(k, q, price)
    PROVE  IInv'
<1>1. IsNext(k)
  BY DEF ExecuteRow
<1>2. k \in PendingToday /\ orders[k].qty \in Nat
  <2>1. k \in PendingToday
    BY DEF IInv, TableInv, RowsArePending
  <2> QED BY <2>1, GapFacts
<1>3. q \in Nat /\ (q > 0 => q \in 1..orders[k].qty)
  BY <1>2
<1>4. price > 0 => price \in Prices
  OBVIOUS
<1>5. CASE SkipRow(k, q, price)
  BY <1>1, <1>5, SkipIInv DEF SkipRow
<1>6. CASE SellRow(k, q, price)
  BY <1>1, <1>3, <1>4, <1>6, FillSellIInv DEF SellRow
<1>7. CASE BuyRow(k, q, price)
  <2>1. PICK n \in 0..q : /\ PassesGate(q, price, n)
                          /\ IF n = 0 THEN Skip(k) ELSE FillBuy(k, n, price)
    BY <1>7 DEF BuyRow
  <2>2. CASE n = 0
    BY <1>1, <2>1, <2>2, SkipIInv
  <2>3. CASE n # 0
    <3>1. n \in 1..q
      BY <1>3, <2>3
    <3>2. orders[k].act = "BUY" /\ price \in Prices
      BY <1>4, <1>7 DEF BuyRow
    <3> QED BY <1>1, <1>3, <2>1, <2>3, <3>1, <3>2, FillBuyIInv
  <2> QED BY <2>2, <2>3
<1> QED BY <1>5, <1>6, <1>7 DEF ExecuteRow

\* IInv is inductive.
LEMMA NextIInv == IInv /\ [Next]_vars => IInv'
<1> SUFFICES ASSUME IInv, [Next]_vars PROVE IInv'
  OBVIOUS
<1>1. CASE \E t \in [Symbols -> 0..MaxQty] : PersistSignals(t)
  BY <1>1, SignalsIInv
<1>2. CASE GenerateOrders
  BY <1>2, GenerateIInv
<1>3. CASE BeginExecute \/ Crash
  BY <1>3, LoopIInv
<1>4. CASE \E k \in rows : \E q \in 0..orders[k].qty, price \in Prices \cup {0} :
              ExecuteRow(k, q, price)
  BY <1>4, ExecuteRowIInv
<1>5. CASE NextSession
  BY <1>5, SessionIInv
<1>6. CASE UNCHANGED vars
  BY <1>6 DEF vars, ledger, IInv, TypeOK, TableInv, RowsArePending,
     OnePendingPerSymbol, FreshIdsAreAbsent, NoFutureOrders, OneSessionPerDiff, WaitingIsUnfilled,
     NoLeverage, BookMatchesFills, PendingClosesGap, SellsSettleFirst, PendingToday
<1> QED BY <1>1, <1>2, <1>3, <1>4, <1>5, <1>6 DEF Next

\* What one iteration does to the orders: one waiting row leaves the loop, with
\* no more filled than was asked for.
LEMMA ExecuteRowFacts ==
    ASSUME IInv, NEW k \in rows, NEW q \in Nat, NEW price, ExecuteRow(k, q, price)
    PROVE  /\ k \in PendingToday /\ rows = PendingToday
           /\ rows' = rows \ {k} /\ PendingToday' = PendingToday \ {k}
           /\ UNCHANGED <<session, gen>>
           /\ \A j \in Keys : j # k => orders'[j] = orders[j]
           /\ orders'[k].fill <= q /\ orders'[k].qty = orders[k].qty
<1>1. PICK status \in Terminal, n \in 0..q : Settle(k, status, n)
  BY DEF ExecuteRow, SkipRow, SellRow, BuyRow, Skip, FillSell, FillBuy, Terminal
<1>2. n \in Nat /\ n <= q /\ IsNext(k)
  BY DEF ExecuteRow
<1>3. /\ k \in PendingToday /\ k \in Keys
      /\ \A j \in Keys : j # k => orders'[j] = orders[j]
      /\ PendingToday' = PendingToday \ {k}
      /\ session' = session /\ gen' = gen
  BY <1>1, <1>2, SettleFacts
<1>4. rows = PendingToday /\ rows' = rows \ {k}
  BY <1>1 DEF Settle, IInv, TableInv, RowsArePending
<1>5. orders'[k] = [orders[k] EXCEPT !.status = status, !.fill = n] /\ orders[k] \in Order
  BY <1>1, <1>3 DEF Settle, IInv, TypeOK
<1>6. orders'[k].fill = n /\ orders'[k].qty = orders[k].qty
  BY <1>5 DEF Order
<1> QED BY <1>2, <1>3, <1>4, <1>6

\* The rows that wait after generate_orders are those it has written.
LEMMA GeneratedArePending ==
    ASSUME IInv, GenerateOrders
    PROVE  /\ \A k \in PendingToday' : k[1] = gen'
           /\ \A k \in Keys : k[1] <= gen => orders'[k] \in {orders[k], NoOrder}
<1>1. gen \in Nat /\ gen' = gen + 1 /\ session' = session
  BY DEF GenerateOrders, IInv, TypeOK
<1>2. \A k \in Keys : k[1] \in Int
  BY BoundAssumption DEF Keys
<1> QED
  BY <1>1, <1>2 DEF GenerateOrders, PendingToday, NoOrder

\* A row that was written keeps the quantity it asks for until it is deleted,
\* and a deleted one never comes back.
LEMMA RowsKeepQuantity ==
    ASSUME IInv, [Next]_vars
    PROVE  /\ gen <= gen'
           /\ \A k \in Keys : k[1] <= gen =>
                 \/ orders'[k].status = "ABSENT"
                 \/ orders[k].status # "ABSENT" /\ orders'[k].qty = orders[k].qty
<1>0. gen \in Nat
  BY DEF IInv, TypeOK
<1>1. CASE \E j \in rows : \E q \in 0..orders[j].qty, price \in Prices \cup {0} :
              ExecuteRow(j, q, price)
  <2>1. PICK j \in rows : \E q \in 0..orders[j].qty, price \in Prices \cup {0} :
                             ExecuteRow(j, q, price)
    BY <1>1
  <2>2. PICK q \in 0..orders[j].qty, price \in Prices \cup {0} : ExecuteRow(j, q, price)
    BY <2>1
  <2>3. j \in PendingToday /\ orders[j].qty \in Nat
    <3>1. j \in PendingToday
      BY DEF IInv, TableInv, RowsArePending
    <3> QED BY <3>1, GapFacts
  <2>4. /\ gen' = gen /\ orders'[j].qty = orders[j].qty
        /\ \A k \in Keys : k # j => orders'[k] = orders[k]
    BY <2>2, <2>3, ExecuteRowFacts
  <2> QED BY <2>3, <2>4, <1>0 DEF PendingToday
<1>2. CASE GenerateOrders
  BY <1>0, <1>2, GeneratedArePending DEF GenerateOrders, NoOrder
<1>3. CASE \/ \E t \in [Symbols -> 0..MaxQty] : PersistSignals(t)
           \/ BeginExecute \/ Crash \/ NextSession \/ UNCHANGED vars
  BY <1>0, <1>3 DEF PersistSignals, BeginExecute, Crash, NextSession, vars
<1> QED BY <1>1, <1>2, <1>3 DEF Next

\* The tables satisfy the inductive invariant in every reachable state.
THEOREM SpecIInv == Spec => []IInv
  BY InitIInv, NextIInv, PTL DEF Spec

\* Type correctness of the tables and of the loop.
THEOREM SpecTypeOK == Spec => []TypeOK
<1>1. IInv => TypeOK
  BY DEF IInv
<1> QED BY <1>1, SpecIInv, PTL

\* The paper book never buys on credit (paper_cash and the cash gate), for any
\* linear charge schedule and any sequence of runs, crashes and prices.
THEOREM SpecNoLeverage == Spec => []NoLeverage
<1>1. IInv => NoLeverage
  BY DEF IInv
<1> QED BY <1>1, SpecIInv, PTL

\* paper_book is the replay of paper_fills, though the two are written by
\* different statements and the book clamps what it cannot sell.
THEOREM SpecBookMatchesFills == Spec => []BookMatchesFills
<1>1. IInv => BookMatchesFills
  BY DEF IInv
<1> QED BY <1>1, SpecIInv, PTL

\* A waiting order of today always closes the gap it was generated for.
THEOREM SpecPendingClosesGap == Spec => []PendingClosesGap
<1>1. IInv => PendingClosesGap
  BY DEF IInv
<1> QED BY <1>1, SpecIInv, PTL

\* No BUY settles while a SELL of the same diff waits, also across crashes.
THEOREM SpecSellsSettleFirst == Spec => []SellsSettleFirst
<1>1. IInv => SellsSettleFirst
  BY DEF IInv
<1> QED BY <1>1, SpecIInv, PTL

\* Settled orders are never deleted or rewritten.
THEOREM SpecHistoryIsKept == Spec => HistoryIsKept
<1>1. ASSUME IInv, [Next]_vars, NEW k \in Keys, orders[k].status \in Terminal
      PROVE  orders'[k] = orders[k]
  <2>1. k \notin PendingToday
    BY <1>1 DEF PendingToday, Terminal
  <2>2. ASSUME NEW j \in rows, NEW status, NEW q, Settle(j, status, q)
        PROVE  orders'[k] = orders[k]
    <3>1. j # k
      BY <1>1, <2>1, <2>2 DEF IInv, TableInv, RowsArePending
    <3> QED BY <1>1, <2>2, <3>1 DEF Settle, IInv, TypeOK
  <2>3. CASE \E j \in rows : \E q \in 0..orders[j].qty, price \in Prices \cup {0} :
                ExecuteRow(j, q, price)
    <3>1. PICK j \in rows : \E q \in 0..orders[j].qty, price \in Prices \cup {0} :
                               ExecuteRow(j, q, price)
      BY <2>3
    <3>2. \E status, q : Settle(j, status, q)
      BY <3>1 DEF ExecuteRow, SkipRow, SellRow, BuyRow, Skip, FillSell, FillBuy
    <3> QED BY <2>2, <3>2
  <2>4. CASE GenerateOrders
    <3>1. k[1] # gen + 1
      BY <1>1 DEF IInv, TypeOK, TableInv, FreshIdsAreAbsent, NoOrder, Terminal
    <3> QED BY <1>1, <2>1, <2>4, <3>1 DEF GenerateOrders
  <2>5. CASE \/ \E t \in [Symbols -> 0..MaxQty] : PersistSignals(t)
             \/ BeginExecute \/ Crash \/ NextSession \/ UNCHANGED vars
    BY <2>5 DEF PersistSignals, BeginExecute, Crash, NextSession, vars
  <2> QED BY <1>1, <2>3, <2>4, <2>5 DEF Next
<1>2. IInv /\ [Next]_vars
      => [\A k \in Keys : orders[k].status \in Terminal => orders'[k] = orders[k]]_vars
  BY <1>1
<1> QED BY <1>2, SpecIInv, PTL DEF Spec, HistoryIsKept

\* Every fill moves the holding towards the goal of its order, not past it.
THEOREM SpecNeverOvershoots == Spec => NeverOvershoots
<1> DEFINE Closer(k) ==
        orders[k].status = "PENDING" /\ orders'[k].status = "FILLED" =>
           IF orders[k].act = "BUY"
           THEN book[k[2]] < book'[k[2]] /\ book'[k[2]] <= orders[k].goal
           ELSE orders[k].goal <= book'[k[2]] /\ book'[k[2]] < book[k[2]]
<1>1. ASSUME IInv, [Next]_vars, NEW k \in Keys,
             orders[k].status = "PENDING", orders'[k].status = "FILLED"
      PROVE  Closer(k)
  <2>1. PICK j \in rows : \E q \in 0..orders[j].qty, price \in Prices \cup {0} :
                             ExecuteRow(j, q, price)
    <3>1. GenerateOrders => FALSE
      BY <1>1 DEF GenerateOrders, NoOrder, DiffRow
    <3>2. \/ \E t \in [Symbols -> 0..MaxQty] : PersistSignals(t)
          \/ BeginExecute \/ Crash \/ NextSession \/ UNCHANGED vars
          => orders' = orders
      BY DEF PersistSignals, BeginExecute, Crash, NextSession, vars
    <3> QED BY <1>1, <3>1, <3>2 DEF Next
  <2>2. PICK q \in 0..orders[j].qty, price \in Prices \cup {0} :
                             ExecuteRow(j, q, price)
    BY <2>1
  <2>3. j \in PendingToday
    BY <1>1 DEF IInv, TableInv, RowsArePending
  <2>4. /\ j \in Keys /\ j[2] \in Symbols /\ orders[j] \in Order
        /\ orders[j].qty \in Nat /\ orders[j].goal \in Nat /\ book[j[2]] \in Nat
        /\ orders[j].act \in Sells => book[j[2]] - orders[j].qty = orders[j].goal
        /\ orders[j].act = "BUY" => book[j[2]] + orders[j].qty = orders[j].goal
    BY <1>1, <2>3, GapFacts
  <2>5. ASSUME NEW status, NEW m, Settle(j, status, m)
        PROVE  k = j /\ status = "FILLED"
    BY <1>1, <2>4, <2>5 DEF Settle, IInv, TypeOK
  <2>6. CASE SellRow(j, q, price)
    <3>1. FillSell(j, q, price) /\ Settle(j, "FILLED", q) /\ orders[j].act \in Sells /\ q > 0
      BY <2>6 DEF SellRow, FillSell
    <3>2. (IF book[j[2]] > q THEN book[j[2]] - q ELSE 0) = book[j[2]] - q
      BY <2>4, <3>1
    <3>3. book'[j[2]] = book[j[2]] - q
      BY <1>1, <2>4, <3>1, <3>2 DEF FillSell, IInv, TypeOK
    <3>4. k = j
      BY <2>5, <3>1
    <3> QED BY <2>4, <3>1, <3>3, <3>4 DEF Sells
  <2>7. CASE BuyRow(j, q, price)
    <3>1. PICK n \in 0..q : /\ PassesGate(q, price, n)
                            /\ IF n = 0 THEN Skip(j) ELSE FillBuy(j, n, price)
      BY <2>7 DEF BuyRow
    <3>2. n # 0
      BY <2>5, <3>1 DEF Skip
    <3>3. FillBuy(j, n, price) /\ Settle(j, "FILLED", n) /\ orders[j].act = "BUY"
      BY <2>7, <3>1, <3>2 DEF FillBuy, BuyRow
    <3>4. book'[j[2]] = book[j[2]] + n
      BY <1>1, <2>4, <3>3 DEF FillBuy, IInv, TypeOK
    <3>5. k = j
      BY <2>5, <3>3
    <3> QED BY <2>4, <3>2, <3>3, <3>4, <3>5
  <2>8. ~SkipRow(j, q, price)
    BY <2>5 DEF SkipRow, Skip
  <2> QED BY <2>2, <2>6, <2>7, <2>8 DEF ExecuteRow
<1>2. IInv /\ [Next]_vars => [\A k \in Keys : Closer(k)]_vars
  BY <1>1
<1> QED BY <1>2, SpecIInv, PTL DEF Spec, NeverOvershoots
=============================================================================
