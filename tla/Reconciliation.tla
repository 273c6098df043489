--------------------------- MODULE Reconciliation ---------------------------
(***************************************************************************)
(* recon_job of app/worker/jobs.py and app/live/recon.py: every 15 s the   *)
(* worker fetches Dhan's positions, keeps those in symbols it has ever     *)
(* ordered, stores them as a snapshot, and writes the session's live P&L   *)
(* from the latest snapshot and the fills recorded today.                  *)
(*                                                                         *)
(* Dhan fills an order some time before the live engine's next poll        *)
(* records the fill, and a recon may come in between.  The live engine     *)
(* itself, with its refusals and timeouts, is module Execution.            *)
(***************************************************************************)
EXTENDS Integers, Sequences, FiniteSetsExt, SequencesExt

CONSTANTS
    Symbols,   \* those the app trades
    Foreign,   \* others, those the user trades at the same broker, without the app
    Prices,    \* in units so small that average costs are whole numbers
    Fee,       \* the charges of a fill
    MaxQty,    \* bound: shares held of a symbol
    MaxTrades, \* bound: orders
    MaxMoves   \* bound: price changes

VARIABLES
    price,     \* the last traded price of each symbol
    position,  \* Dhan's positions: shares and what they cost
    orders,    \* live_orders
    working,   \* the order that Dhan has filled and the engine has not recorded
    fills,     \* live_fills of the session
    fetch,     \* what Dhan has answered the recon in progress
    snapshot,  \* the rows of live_positions_snapshot with the latest taken_at
    row,       \* the session's row of live_pnl_daily
    current,   \* for the property alone: nothing changed since the row's fetch
    moves

broker_vars == <<price, position, moves>>
engine_vars == <<orders, working, fills>>
recon_vars == <<fetch, snapshot, row>>
vars == <<broker_vars, engine_vars, recon_vars, current>>

All == Symbols \cup Foreign
NoFill == [sym |-> "none"]
Fill == [sym : Symbols, side : {"BUY", "SELL"}, qty : 1..MaxQty, price : Prices]
NoRow == [present |-> FALSE, realized |-> 0, unrealized |-> 0]

Init ==
    /\ price \in [All -> Prices]
    /\ position = [s \in All |-> [qty |-> 0, cost |-> 0]]
    /\ orders = <<>> /\ working = NoFill /\ fills = <<>>
    /\ fetch = [on |-> FALSE, rows |-> {}]
    /\ snapshot = {} /\ row = NoRow
    /\ current = FALSE /\ moves = 0

Bought(p, qty, cost) == [qty |-> p.qty + qty, cost |-> p.cost + cost]
Sold(p, qty) == [qty |-> p.qty - qty, cost |-> p.cost - (p.cost \div p.qty) * qty]

Move ==
    /\ moves < MaxMoves
    /\ moves' = moves + 1
    /\ \E s \in All : \E p \in Prices \ {price[s]} : price' = [price EXCEPT ![s] = p]
    /\ current' = FALSE
    /\ UNCHANGED <<position, engine_vars, recon_vars>>

\* The user buys on the broker's own site.
BuyForeign ==
    /\ \E s \in Foreign :
          /\ position[s].qty < MaxQty
          /\ position' = [position EXCEPT ![s] = Bought(@, 1, price[s])]
    /\ current' = FALSE
    /\ UNCHANGED <<price, moves, engine_vars, recon_vars>>

\* place_orders inserts the order's row and sends it; Dhan fills it whole.
\* The fills of a day are all in symbols the user does not trade by hand.
Trade ==
    /\ working = NoFill
    /\ Len(orders) < MaxTrades
    /\ \E s \in Symbols, side \in {"BUY", "SELL"}, qty \in 1..MaxQty :
          /\ IF side = "BUY" THEN position[s].qty + qty <= MaxQty ELSE qty <= position[s].qty
          /\ orders' = Append(orders, s)
          /\ working' = [sym |-> s, side |-> side, qty |-> qty, price |-> price[s]]
          /\ position' = [position EXCEPT ![s] =
                             IF side = "BUY" THEN Bought(@, qty, qty * price[s]) ELSE Sold(@, qty)]
    /\ current' = FALSE
    /\ UNCHANGED <<price, moves, fills, recon_vars>>

\* _record_terminal, for a status of TRADED.
RecordTerminal ==
    /\ working # NoFill
    /\ fills' = Append(fills, working)
    /\ working' = NoFill
    /\ current' = FALSE
    /\ UNCHANGED <<broker_vars, orders, recon_vars>>

Unrealized(s) == position[s].qty * price[s] - position[s].cost

\* DhanClient.positions: the day's positions, those that were closed too.
Fetch ==
    /\ ~fetch.on
    /\ fetch' = [on |-> TRUE, rows |-> {[sym |-> s, unrealized |-> Unrealized(s)] : s \in All}]
    /\ current' = TRUE
    /\ UNCHANGED <<broker_vars, engine_vars, snapshot, row>>

\* DhanUnavailable is caught and anything else escapes: nothing is written.
FetchFails ==
    /\ fetch.on
    /\ fetch' = [on |-> FALSE, rows |-> {}]
    /\ current' = FALSE
    /\ UNCHANGED <<broker_vars, engine_vars, snapshot, row>>

OurSymbols == ToSet(orders)

\* compute_live_daily_pnl: a SELL counts with its proceeds, and its cost is
\* that of no BUY; unrealized is what Dhan says of what is still held.
Realized ==
    FoldSeq(LAMBDA f, sum : sum - Fee + (IF f.side = "SELL" THEN f.qty * f.price ELSE 0), 0, fills)

\* snapshot_positions and compute_live_daily_pnl, which run without a pause
\* once Dhan has answered.  With nothing of ours in the answer no row is
\* written, and the snapshot before it remains the latest.
Reconcile ==
    /\ fetch.on
    /\ LET ours == {r \in fetch.rows : r.sym \in OurSymbols}
       IN  snapshot' = IF ours = {} THEN snapshot ELSE ours
    /\ row' = [present |-> TRUE, realized |-> Realized,
               unrealized |-> MapThenSumSet(LAMBDA r : r.unrealized, snapshot')]
    /\ fetch' = [on |-> FALSE, rows |-> {}]
    /\ UNCHANGED <<broker_vars, engine_vars, current>>

Next ==
    Move \/ BuyForeign \/ Trade \/ RecordTerminal \/ Fetch \/ FetchFails \/ Reconcile

Spec == Init /\ [][Next]_vars

-----------------------------------------------------------------------------

\* Every variable has its type.
TypeOK ==
    /\ price \in [All -> Prices]
    /\ \A s \in All : position[s].qty \in 0..MaxQty /\ position[s].cost \in Nat
    /\ orders \in Seq(Symbols) /\ Len(orders) <= MaxTrades
    /\ working \in Fill \cup {NoFill} /\ fills \in Seq(Fill)
    /\ fetch.on \in BOOLEAN /\ current \in BOOLEAN
    /\ \A r \in fetch.rows \cup snapshot : r.sym \in All /\ r.unrealized \in Int
    /\ row.realized \in Int /\ row.unrealized \in Int
    /\ moves \in 0..MaxMoves

SignedQty(f) == IF f.side = "BUY" THEN f.qty ELSE -f.qty

\* docs/FRD.md:304: live P&L is the sum over live_fills of
\* signed_qty * (ltp - fill_price), less their charges.  When nothing has
\* changed since Dhan's answer, and every fill is recorded, that is what the
\* row of live_pnl_daily says (recon.py:105-136).
PnlAsDocumented ==
    current /\ ~fetch.on /\ row.present /\ working = NoFill =>
        row.realized + row.unrealized =
            FoldSeq(LAMBDA f, sum : sum - Fee + SignedQty(f) * (price[f.sym] - f.price), 0, fills)
=============================================================================
