-------------------------- MODULE ExecutionProofs --------------------------
(***************************************************************************)
(* Proofs about Execution, for every universe, set of runners, bound and   *)
(* behaviour of the broker.                                                *)
(*                                                                         *)
(* Base is the inductive invariant that holds whatever the runners do: the *)
(* types, one runner in the loop, quantities of live orders and overrides  *)
(* that agree with the paper orders they stand for, and no paper order     *)
(* placed twice.  It shows that an interleaved execution_job does to the   *)
(* paper tables only what PaperEngine allows, so what is proved of         *)
(* PaperEngine holds here.                                                 *)
(*                                                                         *)
(* What two overlapping runs break (run overlap) is proved from the        *)
(* hypotheses that rule it out: NoOverlap, no run starts while another one *)
(* is in progress, and NoSecondRun, none starts on a day the broker was    *)
(* sent an order.  The 09:30 cron alone satisfies both (CronAlone).        *)
(***************************************************************************)
EXTENDS Execution, SequenceTheorems, TLAPS

PP == INSTANCE PaperEngineProofs

AtOrder == {"send", "sent", "polling"}
JobRecord == [pc : {"idle"} \cup Awaits \cup Holds, asked : [Keys -> Nat],
              queue : SUBSET Keys, row : Nat, over : [Keys -> Int]]

\* Runners are at a step of execution_job each, one of them in the loop, and
\* the live order a run has in hand exists.
JobsOK ==
    /\ job \in [Runners -> JobRecord]
    /\ loop \in Runners \cup {"free"}
    /\ \A r \in Runners :
          /\ job[r].pc \in Holds <=> loop = r
          /\ job[r].row <= Len(live)
          /\ job[r].pc \in AtOrder => job[r].row \in 1..Len(live)
          /\ job[r].pc \notin AtOrder \cup {"place"} => job[r].queue = {}

\* The tables of the day and the live side have their types.
TablesOK ==
    /\ session \in 1..MaxSession
    /\ done \subseteq 1..session /\ cronFired \in BOOLEAN
    /\ liveEnabled \in BOOLEAN
    /\ live \in Seq(LiveOrder) /\ broker \in Seq(BrokerOrder)
    /\ Len(live) = Len(broker)
    /\ \A i \in 1..Len(live) : live[i].session <= session

\* k is a row that was written and asks, unless it was deleted, for q shares,
\* or for q at least.
AsksFor(k, q) == k[1] <= gen /\ (orders[k].status = "ABSENT" \/ orders[k].qty = q)
AsksForAtLeast(k, q) ==
    k[1] <= gen /\ (orders[k].status = "ABSENT" \/ orders[k].qty >= q)

\* What is asked of the broker is what the paper order asks for; what the
\* broker fills, and what a run overrides an order with, is no more.
QuantitiesAgree ==
    /\ \A r \in Runners : \A k \in job[r].queue : AsksFor(k, job[r].asked[k])
    /\ \A i \in 1..Len(live) :
          AsksFor(live[i].key, live[i].qty) /\ broker[i].filled <= live[i].qty
    /\ \A r \in Runners, k \in Keys :
          job[r].over[k] # NoOverride =>
             job[r].over[k] >= 0 /\ AsksForAtLeast(k, job[r].over[k])

\* A run that is about to read the PENDING rows finds those it has generated,
\* which nobody has placed or queued.
CheckIsFresh ==
    \A r \in Runners : job[r].pc = "check" =>
        /\ \A k \in Paper!PendingToday : k[1] = gen
        /\ \A i \in 1..Len(live) : live[i].key[1] < gen
        /\ \A q \in Runners : \A k \in job[q].queue : k[1] < gen

\* No paper order is placed at the broker twice, by whichever runs: PENDING rows
\* are deleted before a run reads its own (engine.py:52-57, jobs.py:556-560).
EachPlacedOnce == \A i, j \in 1..Len(live) : i # j => live[i].key # live[j].key

\* Nor is one that waits in a run's queue placed, or in the queue of another.
QueuesAreUnplaced ==
    /\ \A r \in Runners : \A k \in job[r].queue :
          \A i \in 1..Len(live) : live[i].key # k
    /\ \A r, q \in Runners : r # q => job[r].queue \cap job[q].queue = {}

\* The one order a run sends after the switch is the one that was past the
\* check: with it gone, and live still off, the run has none in hand to send.
SwitchInv ==
    /\ late \in [Runners -> Nat]
    /\ \A r \in Runners :
          late[r] = 0 \/ (late[r] = 1 /\ ~liveEnabled /\ job[r].pc # "send")

Base == /\ PP!IInv /\ JobsOK /\ TablesOK /\ QuantitiesAgree
        /\ CheckIsFresh /\ EachPlacedOnce /\ QueuesAreUnplaced /\ SwitchInv

-----------------------------------------------------------------------------
(***************************************************************************)
(* Runs that do not overlap                                                *)
(***************************************************************************)

Running(r) == job[r].pc # "idle"
Placing == {"place", "closes", "execute"} \cup AtOrder

\* No run starts while another one is in progress.
NoOverlap ==
    [][\A r \in Runners : Start(r) => \A q \in Runners : ~Running(q)]_vars

\* None starts on a day the broker was sent an order.
NoSecondRun ==
    [][\A r \in Runners : Start(r) =>
          \A i \in 1..Len(live) : live[i].session # session]_vars

OneAtATime == \A r, q \in Runners : Running(r) /\ Running(q) => r = q

InHand(r, i) == job[r].pc \in AtOrder /\ i = job[r].row

\* The PENDING rows r is going to fill were not placed, or are overridden with
\* no more than the live fill recorded; but for the order in hand.
OverridesFit(r) ==
    job[r].pc \in Placing =>
        \A i \in 1..Len(live) :
            live[i].key \in Paper!PendingToday /\ ~InHand(r, i) =>
                /\ job[r].over[live[i].key] # NoOverride
                /\ job[r].over[live[i].key] <= live[i].fill

\* What r queues still waits for its fill.
QueueWaits(r) == job[r].queue \subseteq Paper!PendingToday

OverrideInv == \A r \in Runners : OverridesFit(r) /\ QueueWaits(r)

\* A closed live order has its end on record, an open one no fill yet; and the
\* one in hand is open.
Recorded(i) == IF live[i].closed THEN Followed(i) \/ GivenUp(i) ELSE live[i].fill = 0
HandOpen(r) == \A i \in 1..Len(live) : InHand(r, i) => ~live[i].closed
Records == /\ \A i \in 1..Len(live) : Recorded(i)
           /\ \A r \in Runners : HandOpen(r)

\* On paper no more is filled than the live fill recorded.
BookFits == \A i \in 1..Len(live) : orders[live[i].key].fill <= live[i].fill

Alone == Base /\ OneAtATime /\ OverrideInv /\ Records /\ BookFits

\* The orders of a day are for different symbols, and r, which may place more,
\* has none of those symbols left to place, and no symbol twice.
SymbolsDiffer ==
    \A i, j \in 1..Len(live) :
        i # j /\ live[i].session = live[j].session => live[i].key[2] # live[j].key[2]
FreshSymbols(r) ==
    Running(r) =>
        /\ job[r].pc \notin Placing => \A i \in 1..Len(live) : live[i].session # session
        /\ \A k \in job[r].queue :
              /\ \A i \in 1..Len(live) : live[i].session = session => live[i].key[2] # k[2]
              /\ \A j \in job[r].queue : j # k => j[2] # k[2]

\* While r runs the day is not marked; of today's live orders only the one in
\* hand may be open, and the rows r fills are all that wait.
DayOpen(r) ==
    Running(r) =>
        /\ session \notin done
        /\ \A i \in 1..Len(live) :
              live[i].session = session => live[i].closed \/ InHand(r, i)
        /\ job[r].pc = "execute" => rows = Paper!PendingToday

\* On a day that is marked nothing waits and each live order is closed.
DayClosed ==
    Quiet /\ session \in done =>
        /\ Paper!PendingToday = {}
        /\ \A i \in 1..Len(live) : live[i].session = session => live[i].closed

DayInv ==
    /\ \A r \in Runners : /\ FreshSymbols(r) /\ DayOpen(r)
                          /\ Running(r) \/ job[r] = Idle
    /\ DayClosed

FirstRun == Alone /\ SymbolsDiffer /\ DayInv

\* With the cron alone an order sent today, or a run in progress, is of the one
\* time the trigger fired.
CronInv ==
    /\ \A r \in Runners : Running(r) => cronFired
    /\ \A i \in 1..Len(live) : live[i].session = session => cronFired

-----------------------------------------------------------------------------
(***************************************************************************)
(* What PaperEngine says of a step of its own                              *)
(***************************************************************************)

\* The engine's invariant holds at the start.
LEMMA PaperInit == Paper!Init => PP!IInv
<1>1. Paper!Init <=> PP!Init
  BY DEF Paper!Init, PP!Init, Paper!Keys, PP!Keys, Paper!NoOrder, PP!NoOrder
<1> QED BY <1>1, PP!InitIInv, PaperAssumption

\* Both instances of PaperEngine are one: a step of the one is a step of the
\* other.
LEMMA SameStep == [Paper!Next]_(Paper!vars) <=> [PP!Next]_(PP!vars)
<1>1. Paper!vars' = Paper!vars <=> PP!vars' = PP!vars
  BY DEF Paper!vars, PP!vars, Paper!ledger, PP!ledger
<1>2. Paper!Next <=> PP!Next
  BY DEF Paper!Next, PP!Next, Paper!PersistSignals, PP!PersistSignals,
    Paper!GenerateOrders, PP!GenerateOrders, Paper!BeginExecute, PP!BeginExecute,
    Paper!ExecuteRow, PP!ExecuteRow, Paper!Crash, PP!Crash,
    Paper!NextSession, PP!NextSession, Paper!SkipRow, PP!SkipRow,
    Paper!SellRow, PP!SellRow, Paper!BuyRow, PP!BuyRow, Paper!Skip, PP!Skip,
    Paper!FillSell, PP!FillSell, Paper!FillBuy, PP!FillBuy,
    Paper!Settle, PP!Settle, Paper!PassesGate, PP!PassesGate,
    Paper!Fits, PP!Fits, Paper!BuyCost, PP!BuyCost,
    Paper!SellProceeds, PP!SellProceeds, Paper!Charges, PP!Charges,
    Paper!IsNext, PP!IsNext, Paper!Rank, PP!Rank, Paper!Keys, PP!Keys,
    Paper!DiffRow, PP!DiffRow, Paper!NoOrder, PP!NoOrder, Paper!Sells, PP!Sells,
    Paper!PendingToday, PP!PendingToday, Paper!ledger, PP!ledger
<1> QED BY <1>1, <1>2

\* A step of the engine keeps its invariant, and the quantities of its rows.
LEMMA PaperStep ==
    ASSUME PP!IInv, [Paper!Next]_(Paper!vars)
    PROVE  /\ PP!IInv'
           /\ gen <= gen'
           /\ \A k \in Keys : k[1] <= gen =>
                 \/ orders'[k].status = "ABSENT"
                 \/ orders[k].status # "ABSENT" /\ orders'[k].qty = orders[k].qty
<1>1. [PP!Next]_(PP!vars)
  BY SameStep
<1>2. PP!Keys = Keys
  BY DEF PP!Keys, Keys, Paper!Keys
<1> QED BY <1>1, <1>2, PP!NextIInv, PP!RowsKeepQuantity, PaperAssumption

\* The engine's invariant, read in the terms of Execution.
LEMMA PaperFacts ==
    ASSUME PP!IInv
    PROVE  /\ Paper!TypeOK
           /\ session \in Nat /\ gen \in Nat
           /\ orders \in [Keys -> Paper!Order]
           /\ \A k \in Keys : /\ k[1] \in Nat /\ k[2] \in Symbols
                             /\ orders[k].qty \in Nat /\ orders[k].fill \in Nat
           /\ rows = {} \/ rows = Paper!PendingToday
           /\ Paper!PendingToday \subseteq Keys
           /\ \A k \in Paper!PendingToday : k[1] <= gen /\ orders[k].fill = 0
           /\ \A k, j \in Paper!PendingToday : k[2] = j[2] => k = j
<1>1. Paper!TypeOK
  BY DEF PP!IInv, PP!TypeOK, Paper!TypeOK, PP!Keys, Paper!Keys, PP!Order, Paper!Order,
     PP!Sells, Paper!Sells, PP!Terminal, Paper!Terminal
<1>2. orders \in [Keys -> Paper!Order] /\ session \in Nat /\ gen \in Nat
  BY <1>1, PaperAssumption DEF Paper!TypeOK, Keys
<1>3. \A k \in Keys : /\ k[1] \in Nat /\ k[2] \in Symbols
                     /\ orders[k].qty \in Nat /\ orders[k].fill \in Nat
  BY <1>2, PaperAssumption DEF Keys, Paper!Keys, Paper!Order
<1>4. PP!PendingToday = Paper!PendingToday /\ Paper!PendingToday \subseteq Keys
  BY DEF PP!PendingToday, Paper!PendingToday, PP!Keys, Paper!Keys, Keys
<1>5. rows = {} \/ rows = Paper!PendingToday
  BY <1>4 DEF PP!IInv, PP!TableInv, PP!RowsArePending
<1>6. \A k, j \in Paper!PendingToday : k[2] = j[2] => k = j
  BY <1>4 DEF PP!IInv, PP!TableInv, PP!OnePendingPerSymbol
<1>7. ASSUME NEW k \in Paper!PendingToday PROVE k[1] <= gen /\ orders[k].fill = 0
  <2>1. orders[k].status = "PENDING" /\ k \in PP!Keys
    BY DEF Paper!PendingToday, PP!Keys, Paper!Keys
  <2>2. ~(k[1] > gen)
    BY <2>1 DEF PP!IInv, PP!TableInv, PP!FreshIdsAreAbsent, PP!NoOrder
  <2>3. orders[k].fill = 0
    BY <2>1 DEF PP!IInv, PP!TableInv, PP!WaitingIsUnfilled, PP!Terminal
  <2> QED BY <1>2, <1>3, <1>4, <2>2, <2>3
<1> QED BY <1>1, <1>2, <1>3, <1>4, <1>5, <1>6, <1>7

-----------------------------------------------------------------------------
(***************************************************************************)
(* Every step is a step of the paper engine                                *)
(***************************************************************************)

\* A run fills no more of a row than the row asks for: its overrides are
\* those of live orders placed for the same row.
LEMMA ExecuteRowRefines ==
    ASSUME Base, NEW r \in Runners, NEW k \in rows, NEW price \in Prices \cup {0},
           ExecuteRow(r, k, price)
    PROVE  /\ Paper!Next
           /\ \E q \in 0..orders[k].qty :
                 /\ Paper!ExecuteRow(k, q, price)
                 /\ job[r].over[k] # NoOverride => q = job[r].over[k]
<1> DEFINE q == IF job[r].over[k] = NoOverride THEN orders[k].qty ELSE job[r].over[k]
<1>1. k \in Keys /\ orders[k].status = "PENDING" /\ orders[k].qty \in Nat
  BY PaperFacts DEF Base, Paper!PendingToday
<1>2. job[r].over[k] \in Int
  BY <1>1 DEF Base, JobsOK, JobRecord
<1>3. q \in 0..orders[k].qty
  BY <1>1, <1>2 DEF Base, QuantitiesAgree, AsksForAtLeast, NoOverride
<1>4. Paper!ExecuteRow(k, q, price)
  BY DEF ExecuteRow
<1> QED BY <1>3, <1>4 DEF Paper!Next

\* Every step of a run, the user or the broker is one of the engine, or leaves
\* its tables alone.
LEMMA StepRefines ==
    ASSUME Base, [Next]_vars
    PROVE  [Paper!Next]_(Paper!vars)
<1>1. UNCHANGED paperVars => UNCHANGED Paper!vars
  BY DEF paperVars, Paper!vars, Paper!ledger
<1>2. ASSUME NEW r \in Runners, Start(r) \/ Fail(r) PROVE UNCHANGED paperVars
  BY <1>2 DEF Start, Fail, GiveUp, AuthRefused, PollError
<1>3. ASSUME NEW r \in Runners, Progress(r) PROVE [Paper!Next]_(Paper!vars)
  <2>1. CASE PersistSignals(r) \/ Generate(r) \/ BeginExecute(r)
    BY <2>1 DEF PersistSignals, Generate, BeginExecute, Paper!Next
  <2>2. CASE \/ CheckLive(r) \/ StopPlacing(r) \/ \E k \in job[r].queue : Place(r, k)
             \/ Send(r) \/ Accepted(r) \/ Refused(r)
             \/ PollTerminal(r) \/ PollTimeout(r) \/ Complete(r)
    BY <1>1, <2>2 DEF CheckLive, StopPlacing, Place, Send, Accepted, Refused,
       PollTerminal, PollTimeout, Complete
  <2>3. CASE \E k \in rows, price \in Prices \cup {0} : ExecuteRow(r, k, price)
    BY <2>3, ExecuteRowRefines
  <2> QED BY <1>3, <2>1, <2>2, <2>3 DEF Progress
<1>4. CASE \/ \E i \in 1..Len(broker) : BrokerMoves(i)
           \/ ToggleLive \/ UNCHANGED vars
  BY <1>1, <1>4 DEF BrokerMoves, ToggleLive, vars
<1>5. CASE Crash \/ NextSession
  BY <1>1, <1>5 DEF Crash, NextSession, Paper!Next
<1> QED BY <1>1, <1>2, <1>3, <1>4, <1>5 DEF Next

-----------------------------------------------------------------------------
(***************************************************************************)
(* A runner goes on                                                        *)
(***************************************************************************)

\* The live orders are the same, whatever became of them; what is filled stays.
SameOrders ==
    /\ live' \in Seq(LiveOrder) /\ broker' \in Seq(BrokerOrder)
    /\ Len(live') = Len(live) /\ Len(broker') = Len(live)
    /\ \A i \in 1..Len(live) :
          /\ live'[i].key = live[i].key /\ live'[i].qty = live[i].qty
          /\ live'[i].session = live[i].session
          /\ broker'[i].filled \in broker[i].filled..live[i].qty

\* new has no more to place than r has, and overrides only rows of live orders.
Narrows(r, new) ==
    /\ new \in JobRecord
    /\ new.queue \subseteq job[r].queue
    /\ new.queue = {} \/ new.asked = job[r].asked
    /\ new.pc \notin AtOrder \cup {"place"} => new.queue = {}
    /\ new.row <= Len(live)
    /\ new.pc \in AtOrder => new.row \in 1..Len(live)
    /\ \A k \in Keys :
          \/ new.over[k] \in {job[r].over[k], NoOverride}
          \/ \E i \in 1..Len(live) : k = live[i].key /\ new.over[k] \in 0..live[i].qty

\* r goes on alone: no other runner is inside a section without await.
LEMMA GotoFacts ==
    ASSUME JobsOK, NEW r \in Runners, NEW new \in JobRecord, loop \in {"free", r},
           Goto(r, new)
    PROVE  /\ job' \in [Runners -> JobRecord]
           /\ job'[r] = new /\ \A q \in Runners : q # r => job'[q] = job[q]
           /\ loop' \in Runners \cup {"free"}
           /\ \A q \in Runners : q # r => job[q].pc \notin Holds
           /\ \A q \in Runners : job'[q].pc \in Holds <=> loop' = q
<1>1. "free" \notin Runners
  BY RunnerAssumption
<1>2. job' = [job EXCEPT ![r] = new] /\ job \in [Runners -> JobRecord]
  BY DEF Goto, JobsOK
<1>3. job'[r] = new /\ \A q \in Runners : q # r => job'[q] = job[q]
  BY <1>2
<1>4. \A q \in Runners : q # r => job[q].pc \notin Holds
  BY <1>1 DEF JobsOK
<1>5. loop' = IF new.pc \in Holds THEN r ELSE "free"
  BY DEF Goto
<1> QED BY <1>1, <1>2, <1>3, <1>4, <1>5

\* What a row asks for stays what it was, until the row is deleted.
LEMMA AsksStays ==
    ASSUME PP!IInv, [Paper!Next]_(Paper!vars), NEW k \in Keys, NEW q \in Int
    PROVE  /\ AsksFor(k, q) => AsksFor(k, q)'
           /\ AsksForAtLeast(k, q) => AsksForAtLeast(k, q)'
<1>1. gen \in Nat /\ gen' \in Nat /\ k[1] \in Nat /\ gen <= gen'
  <2>1. PP!IInv' /\ gen <= gen'
    BY PaperStep
  <2>2. PP!IInv' => gen' \in Nat
    BY PaperAssumption DEF PP!IInv, PP!TypeOK
  <2> QED BY <2>1, <2>2, PaperFacts
<1>2. k[1] <= gen =>
         \/ orders'[k].status = "ABSENT"
         \/ orders[k].status # "ABSENT" /\ orders'[k].qty = orders[k].qty
  BY PaperStep
<1> QED BY <1>1, <1>2 DEF AsksFor, AsksForAtLeast

\* When r goes on with no more to place than before, what Base says of runs
\* and live orders stays true.
LEMMA NarrowStep ==
    ASSUME Base, [Paper!Next]_(Paper!vars), NEW r \in Runners, NEW new,
           loop \in {"free", r}, Goto(r, new), Narrows(r, new), SameOrders
    PROVE  /\ JobsOK' /\ QuantitiesAgree'
           /\ new.pc # "check" => CheckIsFresh'
           /\ EachPlacedOnce' /\ QueuesAreUnplaced'
           /\ job'[r] = new /\ \A q \in Runners : q # r => job'[q] = job[q]
           /\ \A q \in Runners : q # r => job[q].pc \notin Holds
<1>0. JobsOK /\ TablesOK /\ QuantitiesAgree /\ EachPlacedOnce /\ QueuesAreUnplaced /\ PP!IInv
  BY DEF Base
<1>1. /\ job' \in [Runners -> JobRecord]
      /\ job'[r] = new /\ \A q \in Runners : q # r => job'[q] = job[q]
      /\ loop' \in Runners \cup {"free"}
      /\ \A q \in Runners : q # r => job[q].pc \notin Holds
      /\ \A q \in Runners : job'[q].pc \in Holds <=> loop' = q
  BY <1>0, GotoFacts DEF Narrows
<1>2. JobsOK'
  BY <1>0, <1>1 DEF JobsOK, Narrows, SameOrders
<1>3. ASSUME NEW q \in Runners, NEW k \in job'[q].queue
      PROVE  k \in job[q].queue /\ job'[q].asked = job[q].asked
  <2>1. CASE q = r
    BY <1>1, <2>1 DEF Narrows
  <2>2. CASE q # r
    BY <1>1, <2>2
  <2> QED BY <2>1, <2>2
<1>4. \A i \in 1..Len(live) : live[i] \in LiveOrder
  BY <1>0, ElementOfSeq DEF TablesOK
<1>5. \A q \in Runners : job[q] \in JobRecord /\ job'[q] \in JobRecord
  BY <1>0, <1>1 DEF JobsOK
<1>6. ASSUME NEW q \in Runners, NEW k \in job'[q].queue
      PROVE  AsksFor(k, job[q].asked[k])'
  <2>1. job'[q].asked = job[q].asked /\ k \in job[q].queue
    BY <1>3
  <2>2. k \in Keys
    BY <1>5, <2>1 DEF JobRecord
  <2>3. PICK n \in Nat : n = job[q].asked[k]
    BY <1>5, <2>2 DEF JobRecord
  <2>4. AsksFor(k, n)
    BY <1>0, <2>1, <2>3 DEF QuantitiesAgree
  <2>5. AsksFor(k, n)'
    BY <1>0, <2>2, <2>4, AsksStays
  <2> QED BY <2>1, <2>3, <2>5 DEF AsksFor
<1>7. ASSUME NEW i \in 1..Len(live)
      PROVE  AsksFor(live[i].key, live[i].qty)' /\ broker'[i].filled <= live'[i].qty
  <2>1. PICK k \in Keys, n \in Nat : k = live[i].key /\ n = live[i].qty
    BY <1>4 DEF LiveOrder
  <2>2. AsksFor(k, n)
    BY <1>0, <2>1 DEF QuantitiesAgree
  <2>3. AsksFor(k, n)'
    BY <1>0, <2>2, AsksStays
  <2> QED BY <2>1, <2>3 DEF AsksFor, SameOrders
<1>8. ASSUME NEW q \in Runners, NEW k \in Keys, job'[q].over[k] # NoOverride
      PROVE  job'[q].over[k] >= 0 /\ AsksForAtLeast(k, job[q].over[k])'
  <2>1. PICK n \in Int : n = job'[q].over[k]
    BY <1>5 DEF JobRecord
  <2>2. n >= 0 /\ AsksForAtLeast(k, n)
    <3>1. CASE n = job[q].over[k]
      BY <1>0, <1>8, <2>1, <3>1 DEF QuantitiesAgree
    <3>2. CASE n # job[q].over[k]
      <4>1. q = r
        BY <1>1, <2>1, <3>2
      <4>2. PICK i \in 1..Len(live) : k = live[i].key /\ n \in 0..live[i].qty
        BY <1>1, <1>8, <2>1, <3>2, <4>1 DEF Narrows
      <4>3. live[i].qty \in Nat
        BY <1>4 DEF LiveOrder
      <4>4. AsksFor(k, live[i].qty) /\ orders[k].qty \in Nat
        BY <1>0, <4>2, PaperFacts DEF QuantitiesAgree
      <4> QED BY <4>2, <4>3, <4>4 DEF AsksFor, AsksForAtLeast
    <3> QED BY <3>1, <3>2
  <2>3. AsksForAtLeast(k, n)'
    BY <1>0, <2>2, AsksStays
  <2> QED BY <2>1, <2>2, <2>3 DEF AsksForAtLeast
<1>9. QuantitiesAgree'
  BY <1>6, <1>7, <1>8 DEF QuantitiesAgree, SameOrders
<1>10. new.pc # "check" => CheckIsFresh'
  BY <1>1 DEF CheckIsFresh, Holds
<1>11. EachPlacedOnce'
  BY <1>0 DEF EachPlacedOnce, SameOrders
<1>12. QueuesAreUnplaced'
  <2>1. \A q \in Runners : \A k \in job'[q].queue :
           k \in job[q].queue /\ \A i \in 1..Len(live) : live'[i].key # k
    BY <1>0, <1>3 DEF QueuesAreUnplaced, SameOrders
  <2>2. ASSUME NEW q \in Runners, NEW p \in Runners, q # p
        PROVE  job'[q].queue \cap job'[p].queue = {}
    <3>1. job[q].queue \cap job[p].queue = {}
      BY <1>0, <2>2 DEF QueuesAreUnplaced
    <3> QED BY <2>1, <3>1
  <2>3. Len(live') = Len(live)
    BY DEF SameOrders
  <2> QED BY <2>1, <2>2, <2>3 DEF QueuesAreUnplaced
<1> QED BY <1>1, <1>2, <1>9, <1>10, <1>11, <1>12

\* With the tables in order and the switch obeyed, it is all of Base.
LEMMA NarrowBase ==
    ASSUME Base, [Paper!Next]_(Paper!vars), NEW r \in Runners, NEW new,
           loop \in {"free", r}, Goto(r, new), new.pc \notin {"check", "send"},
           Narrows(r, new), SameOrders,
           session' = session, done' \in {done, done \cup {session}},
           cronFired' \in BOOLEAN, liveEnabled' \in BOOLEAN,
           \/ UNCHANGED <<late, liveEnabled>>
           \/ late' \in {late, [late EXCEPT ![r] = 1]} /\ ~liveEnabled'
    PROVE  Base'
<1>1. /\ JobsOK' /\ QuantitiesAgree' /\ CheckIsFresh'
      /\ EachPlacedOnce' /\ QueuesAreUnplaced'
      /\ job'[r] = new /\ \A q \in Runners : q # r => job'[q] = job[q]
      /\ \A q \in Runners : q # r => job[q].pc \notin Holds
  BY NarrowStep
<1>2. PP!IInv'
  BY PaperStep DEF Base
<1>3. TablesOK'
  <2>1. TablesOK /\ SameOrders
    BY DEF Base
  <2>2. session' \in 1..MaxSession /\ done' \subseteq 1..session' /\ cronFired' \in BOOLEAN
    BY <2>1 DEF TablesOK
  <2>3. liveEnabled' \in BOOLEAN
    BY <2>1 DEF TablesOK
  <2>4. live' \in Seq(LiveOrder) /\ broker' \in Seq(BrokerOrder) /\ Len(live') = Len(broker')
    BY <2>1 DEF TablesOK, SameOrders
  <2>5. \A i \in 1..Len(live') : live'[i].session <= session'
    BY <2>1 DEF TablesOK, SameOrders
  <2> QED BY <2>2, <2>3, <2>4, <2>5 DEF TablesOK
<1>4. SwitchInv'
  <2>1. late \in [Runners -> Nat] /\ late' \in [Runners -> Nat] /\ SwitchInv
    BY DEF Base, SwitchInv
  <2>2. ASSUME NEW q \in Runners
        PROVE  late'[q] = 0 \/ (late'[q] = 1 /\ ~liveEnabled' /\ job'[q].pc # "send")
    <3>1. CASE q = r
      BY <1>1, <2>1, <3>1 DEF SwitchInv
    <3>2. CASE q # r
      <4>1. late'[q] = late[q] /\ job'[q].pc = job[q].pc
        BY <1>1, <2>1, <3>2
      <4> QED BY <2>1, <4>1 DEF SwitchInv
    <3> QED BY <3>1, <3>2
  <2> QED BY <2>1, <2>2 DEF SwitchInv
<1> QED BY <1>1, <1>2, <1>3, <1>4 DEF Base

\* The two sides of a live order.
LEMMA SideFacts ==
    ASSUME Base, NEW i \in 1..Len(live)
    PROVE  /\ live[i] \in LiveOrder /\ broker[i] \in BrokerOrder
           /\ live[i].key \in Keys /\ live[i].qty \in Nat /\ live[i].session \in Nat
           /\ live[i].fill \in Nat /\ broker[i].filled \in 0..live[i].qty
<1>1. /\ live \in Seq(LiveOrder) /\ broker \in Seq(BrokerOrder)
      /\ i \in 1..Len(broker) /\ broker[i].filled <= live[i].qty
  <2>1. TablesOK /\ QuantitiesAgree
    BY DEF Base
  <2>2. broker[i].filled <= live[i].qty
    BY <2>1 DEF QuantitiesAgree
  <2> QED BY <2>1, <2>2 DEF TablesOK
<1>2. live[i] \in LiveOrder /\ broker[i] \in BrokerOrder
  BY <1>1, ElementOfSeq
<1>3. /\ live[i].key \in Keys /\ live[i].qty \in Nat /\ live[i].session \in Nat
      /\ live[i].fill \in Nat
  BY <1>2 DEF LiveOrder
<1>4. broker[i].filled \in Nat
  BY <1>2 DEF BrokerOrder
<1> QED BY <1>1, <1>2, <1>3, <1>4

\* A step that touches neither side of the live orders.
LEMMA OrdersUntouched ==
    ASSUME Base, UNCHANGED <<live, broker>>
    PROVE  SameOrders
BY SideFacts DEF Base, TablesOK, SameOrders

\* One live_orders row is rewritten; the broker's side stays.
LEMMA RowRewritten ==
    ASSUME Base, NEW i \in 1..Len(live), NEW o \in LiveOrder,
           o.key = live[i].key, o.qty = live[i].qty, o.session = live[i].session,
           live' = [live EXCEPT ![i] = o], UNCHANGED broker
    PROVE  SameOrders
<1>1. live \in Seq(LiveOrder) /\ broker \in Seq(BrokerOrder) /\ Len(live) = Len(broker)
  BY DEF Base, TablesOK
<1>2. /\ live' \in Seq(LiveOrder) /\ Len(live') = Len(live)
      /\ \A j \in 1..Len(live) : live'[j] = IF j = i THEN o ELSE live[j]
  BY <1>1, ExceptSeq
<1> QED BY <1>1, <1>2, SideFacts DEF SameOrders

\* The broker's side of one order changes; it fills no more than was ordered.
LEMMA BrokerChanged ==
    ASSUME Base, NEW i \in 1..Len(live), NEW b \in BrokerOrder,
           b.filled \in broker[i].filled..live[i].qty,
           broker' = [broker EXCEPT ![i] = b], UNCHANGED live
    PROVE  SameOrders
<1>1. live \in Seq(LiveOrder) /\ broker \in Seq(BrokerOrder) /\ Len(live) = Len(broker)
  BY DEF Base, TablesOK
<1>2. /\ broker' \in Seq(BrokerOrder) /\ Len(broker') = Len(broker)
      /\ \A j \in 1..Len(broker) : broker'[j] = IF j = i THEN b ELSE broker[j]
  BY <1>1, ExceptSeq
<1> QED BY <1>1, <1>2, SideFacts DEF SameOrders

-----------------------------------------------------------------------------
(***************************************************************************)
(* execution_job outside of place_orders                                   *)
(***************************************************************************)

\* What a run starts with, and what is left of it.
LEMMA IdleFacts ==
    /\ Idle \in JobRecord /\ Idle.pc = "idle" /\ Idle.queue = {} /\ Idle.row = 0
    /\ \A k \in Keys : Idle.over[k] = NoOverride
BY DEF Idle, JobRecord, NoOverride

\* What Base says of a runner that is at p and may run.
LEMMA RunnerFacts ==
    ASSUME Base, NEW r \in Runners, NEW p, At(r, p)
    PROVE  /\ job[r] \in JobRecord /\ job[r].pc = p /\ loop \in {"free", r}
           /\ job[r].row <= Len(live)
           /\ p \in AtOrder => job[r].row \in 1..Len(live)
           /\ p \notin AtOrder \cup {"place"} => job[r].queue = {}
           /\ Len(live) \in Nat
BY LenProperties DEF At, Base, JobsOK, TablesOK

\* The run starts or ends: nothing is left to place.
LEMMA EdgeBase ==
    ASSUME Base, NEW r \in Runners,
           Start(r) \/ GiveUp(r) \/ PollError(r) \/ Complete(r)
    PROVE  Base'
<1>1. UNCHANGED paperVars /\ UNCHANGED liveVars
  BY DEF Start, GiveUp, PollError, Complete
<1>2. [Paper!Next]_(Paper!vars) /\ session' = session
  BY <1>1 DEF paperVars, Paper!vars, Paper!ledger
<1>3. SameOrders /\ UNCHANGED <<late, liveEnabled>> /\ liveEnabled' \in BOOLEAN
  BY <1>1, OrdersUntouched DEF liveVars, Base, TablesOK
<1>4. \E p \in {"idle", "fetching"} : Goto(r, [Idle EXCEPT !.pc = p])
  <2>1. CASE Start(r)
    BY <2>1 DEF Start
  <2>2. CASE GiveUp(r) \/ PollError(r) \/ Complete(r)
    <3>1. Goto(r, Idle) /\ Idle = [Idle EXCEPT !.pc = "idle"]
      BY <2>2 DEF GiveUp, PollError, Complete, Idle
    <3> QED BY <3>1
  <2> QED BY <2>1, <2>2
<1>5. PICK p \in {"idle", "fetching"} : Goto(r, [Idle EXCEPT !.pc = p])
  BY <1>4
<1> DEFINE new == [Idle EXCEPT !.pc = p]
<1>6. Narrows(r, new) /\ new.pc = p
  <2>1. Len(live) \in Nat
    BY LenProperties DEF Base, TablesOK
  <2>2. new \in JobRecord /\ new.pc = p /\ new.queue = {} /\ new.row = 0
        /\ new.over = Idle.over
    BY IdleFacts DEF JobRecord, Awaits
  <2> QED BY <2>1, <2>2, IdleFacts DEF Narrows, AtOrder
<1>7. /\ loop \in {"free", r}
      /\ done' \in {done, done \cup {session}} /\ cronFired' \in BOOLEAN
  BY DEF Start, GiveUp, PollError, Complete, At, dayVars, Base, TablesOK
<1>8. new.pc \notin {"check", "send"} /\ Goto(r, new)
  BY <1>5, <1>6
<1> HIDE DEF new
<1> QED BY <1>2, <1>3, <1>6, <1>7, <1>8, NarrowBase

\* The steps that change the paper tables alone, but for generate_orders.
LEMMA PaperMoveBase ==
    ASSUME Base, NEW r \in Runners,
           \/ PersistSignals(r) \/ BeginExecute(r)
           \/ \E k \in rows, price \in Prices \cup {0} : ExecuteRow(r, k, price)
    PROVE  Base'
<1>1. UNCHANGED liveVars /\ UNCHANGED dayVars
  BY DEF PersistSignals, BeginExecute, ExecuteRow
<1>2. SameOrders /\ UNCHANGED <<late, liveEnabled, done, cronFired>>
      /\ liveEnabled' \in BOOLEAN /\ cronFired' \in BOOLEAN
  BY <1>1, OrdersUntouched DEF liveVars, dayVars, Base, TablesOK
<1>3. [Paper!Next]_(Paper!vars)
  BY StepRefines DEF Next, Progress
<1>4. session' = session
  <2>1. CASE PersistSignals(r) \/ BeginExecute(r)
    BY <2>1 DEF PersistSignals, BeginExecute, Paper!PersistSignals, Paper!BeginExecute
  <2>2. ASSUME NEW k, NEW q, NEW price, Paper!ExecuteRow(k, q, price)
        PROVE  session' = session
    BY <2>2 DEF Paper!ExecuteRow, Paper!SkipRow, Paper!SellRow, Paper!BuyRow,
       Paper!Skip, Paper!FillSell, Paper!FillBuy, Paper!Settle
  <2>3. CASE \E k \in rows, price \in Prices \cup {0} : ExecuteRow(r, k, price)
    BY <2>2, <2>3 DEF ExecuteRow
  <2> QED BY <2>1, <2>3
<1>5. \E p \in {"generate", "execute"} :
         /\ Goto(r, [job[r] EXCEPT !.pc = p])
         /\ At(r, "fetching") \/ At(r, "closes") \/ At(r, "execute")
  <2>1. CASE PersistSignals(r) \/ BeginExecute(r)
    BY <2>1 DEF PersistSignals, BeginExecute
  <2>2. CASE \E k \in rows, price \in Prices \cup {0} : ExecuteRow(r, k, price)
    <3>1. At(r, "execute") /\ UNCHANGED <<job, loop>>
      BY <2>2 DEF ExecuteRow
    <3>2. job[r].pc = "execute" /\ loop = r /\ job \in [Runners -> JobRecord]
      BY <3>1 DEF At, Base, JobsOK, Holds
    <3>3. job[r] = [job[r] EXCEPT !.pc = "execute"]
      BY <3>2 DEF JobRecord
    <3>4. job' = [job EXCEPT ![r] = job[r]]
      BY <3>1, <3>2
    <3> QED BY <3>1, <3>2, <3>3, <3>4 DEF Goto, Holds
  <2> QED BY <2>1, <2>2
<1>6. PICK p \in {"generate", "execute"} :
         /\ Goto(r, [job[r] EXCEPT !.pc = p])
         /\ At(r, "fetching") \/ At(r, "closes") \/ At(r, "execute")
  BY <1>5
<1> DEFINE new == [job[r] EXCEPT !.pc = p]
<1>7. Narrows(r, new) /\ new.pc = p /\ loop \in {"free", r}
  <2>1. job[r] \in JobRecord /\ job[r].row <= Len(live) /\ loop \in {"free", r}
        /\ job[r].queue = {}
    BY <1>6, RunnerFacts DEF AtOrder
  <2>2. new \in JobRecord /\ new.pc = p /\ new.queue = {} /\ new.row = job[r].row
        /\ new.over = job[r].over
    BY <2>1 DEF JobRecord, Holds
  <2> QED BY <2>1, <2>2 DEF Narrows, AtOrder
<1>8. new.pc \notin {"check", "send"} /\ Goto(r, new)
  BY <1>6, <1>7
<1> HIDE DEF new
<1> QED BY <1>2, <1>3, <1>4, <1>7, <1>8, NarrowBase

\* After generate_orders all that is PENDING today is of the run's own making,
\* and newer than whatever was placed or is queued.
LEMMA GenerateBase ==
    ASSUME Base, NEW r \in Runners, Generate(r)
    PROVE  Base'
<1> DEFINE new == [job[r] EXCEPT !.pc = "check"]
<1>1. /\ At(r, "generate") /\ Paper!GenerateOrders /\ Goto(r, new)
      /\ UNCHANGED <<liveVars, dayVars>>
  BY DEF Generate
<1>2. /\ job[r] \in JobRecord /\ job[r].row <= Len(live) /\ loop \in {"free", r}
      /\ job[r].queue = {} /\ JobsOK /\ TablesOK /\ QuantitiesAgree
  BY <1>1, RunnerFacts DEF AtOrder, Base
<1>3. /\ new \in JobRecord /\ new.pc = "check" /\ new.queue = {}
      /\ new.row = job[r].row /\ new.over = job[r].over
  BY <1>2 DEF JobRecord, Holds
<1> HIDE DEF new
<1>4. /\ UNCHANGED <<live, broker, late, liveEnabled, done, cronFired>>
      /\ session' = session /\ gen' = gen + 1 /\ gen \in Nat
  BY <1>1, PaperFacts DEF liveVars, dayVars, Paper!GenerateOrders, Base
<1>5. [Paper!Next]_(Paper!vars) /\ PP!IInv /\ PP!IInv'
  <2>1. [Paper!Next]_(Paper!vars)
    BY <1>1 DEF Paper!Next
  <2> QED BY <2>1, PaperStep DEF Base
<1>6. /\ JobsOK' /\ QuantitiesAgree' /\ EachPlacedOnce' /\ QueuesAreUnplaced'
      /\ job'[r] = new /\ \A q \in Runners : q # r => job'[q] = job[q]
      /\ \A q \in Runners : q # r => job[q].pc \notin Holds
  <2>1. Narrows(r, new) /\ SameOrders
    BY <1>2, <1>3, <1>4, OrdersUntouched DEF Narrows, AtOrder
  <2> QED BY <1>1, <1>2, <1>5, <2>1, NarrowStep
<1>7. TablesOK'
  BY <1>2, <1>4 DEF TablesOK
<1>8. CheckIsFresh'
  <2>1. \A k \in Paper!PendingToday' : k[1] = gen'
    <3>1. PP!GenerateOrders
      BY <1>1 DEF Paper!GenerateOrders, PP!GenerateOrders, Paper!DiffRow, PP!DiffRow,
         Paper!PendingToday, PP!PendingToday, Paper!Keys, PP!Keys, Paper!NoOrder,
         PP!NoOrder, Paper!ledger, PP!ledger
    <3>2. PP!PendingToday' = Paper!PendingToday'
      BY DEF Paper!PendingToday, PP!PendingToday, Paper!Keys, PP!Keys
    <3> QED BY <1>5, <3>1, <3>2, PP!GeneratedArePending, PaperAssumption
  <2>2. ASSUME NEW i \in 1..Len(live) PROVE live[i].key[1] < gen'
    <3>1. live[i] \in LiveOrder
      BY <1>2, ElementOfSeq DEF TablesOK
    <3>2. live[i].key[1] <= gen /\ live[i].key \in Keys
      BY <1>2, <3>1 DEF QuantitiesAgree, AsksFor, LiveOrder
    <3> QED BY <1>4, <1>5, <3>2, PaperFacts
  <2>3. ASSUME NEW q \in Runners, NEW k \in job'[q].queue PROVE k[1] < gen'
    <3>1. k \in job[q].queue /\ job[q] \in JobRecord
      BY <1>2, <1>3, <1>6 DEF JobsOK
    <3>2. k \in Keys /\ k[1] <= gen
      BY <1>2, <3>1 DEF QuantitiesAgree, AsksFor, JobRecord
    <3> QED BY <1>4, <1>5, <3>2, PaperFacts
  <2> QED BY <1>4, <2>1, <2>2, <2>3 DEF CheckIsFresh
<1>9. SwitchInv'
  BY <1>3, <1>4, <1>6 DEF Base, SwitchInv
<1> QED BY <1>5, <1>6, <1>7, <1>8, <1>9 DEF Base

\* The run reads rows that nobody has placed or queued.
LEMMA CheckLiveBase ==
    ASSUME Base, NEW r \in Runners, CheckLive(r)
    PROVE  Base'
<1> DEFINE today == Paper!PendingToday
           tuples == [k \in Keys |-> IF k \in today THEN orders[k].qty ELSE 0]
           new == [job[r] EXCEPT
                     !.asked = tuples,
                     !.pc = IF liveEnabled THEN "place" ELSE "closes",
                     !.queue = IF liveEnabled
                               THEN {k \in today : k[2] \notin Unresolvable} ELSE {}]
<1>1. At(r, "check") /\ Goto(r, new) /\ UNCHANGED <<paperVars, liveVars, dayVars>>
  BY DEF CheckLive
<1>2. /\ job[r] \in JobRecord /\ job[r].row <= Len(live) /\ loop \in {"free", r}
      /\ job[r].queue = {} /\ job[r].pc = "check"
  BY <1>1, RunnerFacts DEF AtOrder
<1>3. /\ PP!IInv /\ JobsOK /\ TablesOK /\ QuantitiesAgree /\ QueuesAreUnplaced
      /\ CheckIsFresh /\ EachPlacedOnce /\ SwitchInv
  BY DEF Base
<1>4. today \subseteq Keys /\ tuples \in [Keys -> Nat] /\ liveEnabled \in BOOLEAN
      /\ \A k \in today : tuples[k] = orders[k].qty
  BY <1>3, PaperFacts DEF TablesOK
<1>5. /\ new \in JobRecord /\ new.pc \in {"place", "closes"} /\ new.asked = tuples
      /\ new.queue \subseteq today /\ new.row = job[r].row /\ new.over = job[r].over
      /\ new.pc # "place" => new.queue = {}
  <2>1. CASE liveEnabled
    BY <1>2, <1>4, <2>1 DEF JobRecord, Holds
  <2>2. CASE ~liveEnabled
    BY <1>2, <1>4, <2>2 DEF JobRecord, Awaits
  <2> QED BY <2>1, <2>2
<1>6. /\ \A k \in today : k[1] = gen
      /\ \A i \in 1..Len(live) : live[i].key[1] < gen
      /\ \A q \in Runners : \A k \in job[q].queue : k[1] < gen
  BY <1>2, <1>3 DEF CheckIsFresh
<1> HIDE DEF new, tuples
<1>7. /\ job' \in [Runners -> JobRecord] /\ loop' \in Runners \cup {"free"}
      /\ job'[r] = new /\ \A q \in Runners : q # r => job'[q] = job[q]
      /\ \A q \in Runners : q # r => job[q].pc \notin Holds
      /\ \A q \in Runners : job'[q].pc \in Holds <=> loop' = q
  BY <1>1, <1>2, <1>3, <1>5, GotoFacts
<1>8. /\ UNCHANGED <<live, broker, late, liveEnabled, done, cronFired, session, gen, orders>>
      /\ UNCHANGED Paper!vars
  BY <1>1 DEF liveVars, dayVars, paperVars, Paper!vars, Paper!ledger
<1>9. PP!IInv'
  BY <1>3, <1>8, PaperStep
<1>10. JobsOK' /\ TablesOK'
  BY <1>2, <1>3, <1>5, <1>7, <1>8 DEF JobsOK, TablesOK, AtOrder
<1>11. gen \in Nat /\ \A k \in Keys : orders[k].qty \in Nat
  BY <1>3, PaperFacts
<1>12. QuantitiesAgree'
  <2>1. ASSUME NEW q \in Runners, NEW k \in job'[q].queue
        PROVE  k[1] <= gen /\ (orders[k].status = "ABSENT" \/ orders[k].qty = job'[q].asked[k])
    <3>1. CASE q = r
      BY <1>4, <1>5, <1>6, <1>7, <1>11, <3>1
    <3>2. CASE q # r
      BY <1>3, <1>7, <3>2 DEF QuantitiesAgree, AsksFor
    <3> QED BY <3>1, <3>2
  <2>2. \A q \in Runners : job'[q].over = job[q].over
    BY <1>5, <1>7
  <2> QED BY <1>3, <1>8, <2>1, <2>2 DEF QuantitiesAgree, AsksFor, AsksForAtLeast
<1>13. CheckIsFresh'
  BY <1>5, <1>7 DEF CheckIsFresh, Holds
<1>14. EachPlacedOnce'
  BY <1>3, <1>8 DEF EachPlacedOnce
<1>15. QueuesAreUnplaced'
  <2>1. ASSUME NEW k \in new.queue, NEW i \in 1..Len(live) PROVE live[i].key # k
    BY <1>5, <1>6, <1>11
  <2>2. ASSUME NEW k \in new.queue, NEW q \in Runners PROVE k \notin job[q].queue
    BY <1>5, <1>6, <1>11
  <2> QED BY <1>3, <1>7, <1>8, <2>1, <2>2 DEF QueuesAreUnplaced
<1>16. SwitchInv'
  BY <1>3, <1>5, <1>7, <1>8 DEF SwitchInv
<1> QED BY <1>9, <1>10, <1>12, <1>13, <1>14, <1>15, <1>16 DEF Base

-----------------------------------------------------------------------------
(***************************************************************************)
(* place_orders                                                            *)
(***************************************************************************)

\* A new live order is for a row nobody has placed, and takes it from the queue.
LEMMA PlaceBase ==
    ASSUME Base, NEW r \in Runners, NEW k \in job[r].queue, Place(r, k)
    PROVE  Base'
<1> DEFINE o == [session |-> session, key |-> k, qty |-> job[r].asked[k],
                 fill |-> 0, closed |-> FALSE, status |-> "PENDING"]
           b == [state |-> "none", filled |-> 0]
           n == Len(live) + 1
           new == [job[r] EXCEPT !.pc = "send", !.row = n, !.queue = job[r].queue \ {k}]
<1>1. /\ At(r, "place") /\ liveEnabled /\ Goto(r, new)
      /\ live' = Append(live, o) /\ broker' = Append(broker, b)
      /\ UNCHANGED <<paperVars, liveEnabled, late, dayVars>>
  BY DEF Place
<1>2. /\ PP!IInv /\ JobsOK /\ TablesOK /\ QuantitiesAgree /\ QueuesAreUnplaced
      /\ CheckIsFresh /\ EachPlacedOnce /\ SwitchInv
  BY DEF Base
<1>3. /\ job[r] \in JobRecord /\ loop \in {"free", r} /\ Len(live) \in Nat
      /\ job[r].pc = "place" /\ k \in Keys /\ job[r].asked[k] \in Nat
  <2>1. job[r] \in JobRecord /\ loop \in {"free", r} /\ Len(live) \in Nat
        /\ job[r].pc = "place"
    BY <1>1, RunnerFacts
  <2> QED BY <2>1 DEF JobRecord
<1>4. o \in LiveOrder /\ b \in BrokerOrder /\ o.key = k /\ o.session = session
      /\ o.qty = job[r].asked[k] /\ b.filled = 0
  BY <1>2, <1>3, PaperFacts DEF LiveOrder, BrokerOrder
<1> HIDE DEF o, b
<1>5. /\ new \in JobRecord /\ new.pc = "send" /\ new.asked = job[r].asked
      /\ new.queue = job[r].queue \ {k} /\ new.row = n /\ new.over = job[r].over
  <2>1. n \in Nat /\ job[r].queue \ {k} \in SUBSET Keys
    BY <1>3 DEF JobRecord
  <2> HIDE DEF n
  <2> QED BY <1>3, <2>1 DEF JobRecord, Awaits
<1> HIDE DEF new
<1>6. /\ job' \in [Runners -> JobRecord] /\ loop' \in Runners \cup {"free"}
      /\ job'[r] = new /\ \A q \in Runners : q # r => job'[q] = job[q]
      /\ \A q \in Runners : q # r => job[q].pc \notin Holds
      /\ \A q \in Runners : job'[q].pc \in Holds <=> loop' = q
  BY <1>1, <1>2, <1>3, <1>5, GotoFacts
<1>7. /\ live' \in Seq(LiveOrder) /\ broker' \in Seq(BrokerOrder)
      /\ Len(live') = n /\ Len(broker') = n
      /\ \A i \in 1..Len(live) : live'[i] = live[i] /\ broker'[i] = broker[i]
      /\ live'[n] = o /\ broker'[n] = b
  BY <1>1, <1>2, <1>4, AppendProperties DEF TablesOK
<1>8. /\ UNCHANGED <<late, liveEnabled, done, cronFired, session, gen, orders>>
      /\ UNCHANGED Paper!vars
  BY <1>1 DEF dayVars, paperVars, Paper!vars, Paper!ledger
<1>9. PP!IInv'
  BY <1>2, <1>8, PaperStep
<1>10. \A i \in 1..n : i = n \/ i \in 1..Len(live)
  BY <1>3
<1>11. JobsOK'
  <2>1. ASSUME NEW q \in Runners
        PROVE  /\ job'[q].row <= n
               /\ job'[q].pc \in AtOrder => job'[q].row \in 1..n
               /\ job'[q].pc \notin AtOrder \cup {"place"} => job'[q].queue = {}
    <3>1. CASE q = r
      BY <1>3, <1>5, <1>6, <3>1 DEF AtOrder
    <3>2. CASE q # r
      <4>1. job[q] \in JobRecord /\ job'[q] = job[q]
        BY <1>2, <1>6, <3>2 DEF JobsOK
      <4>2. job[q].row \in Nat
        BY <4>1 DEF JobRecord
      <4> QED BY <1>2, <1>3, <4>1, <4>2 DEF JobsOK
    <3> QED BY <3>1, <3>2
  <2> QED BY <1>6, <1>7, <2>1 DEF JobsOK
<1>12. TablesOK'
  <2>1. session' \in 1..MaxSession /\ done' \subseteq 1..session'
        /\ cronFired' \in BOOLEAN /\ liveEnabled' \in BOOLEAN
    BY <1>2, <1>8 DEF TablesOK
  <2>2. session \in Nat /\ session' = session
    BY <1>2, <1>8, PaperFacts
  <2>3. ASSUME NEW i \in 1..n PROVE live'[i].session <= session
    BY <1>2, <1>4, <1>7, <1>10, <2>2 DEF TablesOK
  <2> QED BY <1>7, <2>1, <2>2, <2>3 DEF TablesOK
<1>13. QuantitiesAgree'
  <2>1. \A q \in Runners : \A j \in job'[q].queue :
           j \in job[q].queue /\ job'[q].asked = job[q].asked
    BY <1>5, <1>6
  <2>2. \A q \in Runners : job'[q].over = job[q].over
    BY <1>5, <1>6
  <2>3. AsksFor(o.key, o.qty) /\ b.filled <= o.qty
    BY <1>2, <1>3, <1>4 DEF QuantitiesAgree
  <2>4. \A i \in 1..n : AsksFor(live'[i].key, live'[i].qty) /\ broker'[i].filled <= live'[i].qty
    BY <1>2, <1>7, <1>10, <2>3 DEF QuantitiesAgree
  <2> QED BY <1>2, <1>7, <1>8, <2>1, <2>2, <2>4 DEF QuantitiesAgree, AsksFor, AsksForAtLeast
<1>14. CheckIsFresh'
  BY <1>5, <1>6 DEF CheckIsFresh, Holds
<1>15. EachPlacedOnce'
  <2>1. \A i \in 1..Len(live) : live[i].key # k
    BY <1>2 DEF QueuesAreUnplaced
  <2> QED BY <1>2, <1>4, <1>7, <1>10, <2>1 DEF EachPlacedOnce
<1>16. QueuesAreUnplaced'
  <2>1. \A q \in Runners : \A j \in job'[q].queue : j \in job[q].queue /\ j # k
    BY <1>2, <1>5, <1>6 DEF QueuesAreUnplaced
  <2>2. \A q, p \in Runners : q # p => job'[q].queue \cap job'[p].queue = {}
    BY <1>2, <2>1 DEF QueuesAreUnplaced
  <2>3. ASSUME NEW q \in Runners, NEW j \in job'[q].queue, NEW i \in 1..n
        PROVE  live'[i].key # j
    BY <1>2, <1>4, <1>7, <1>10, <2>1 DEF QueuesAreUnplaced
  <2> QED BY <1>7, <2>2, <2>3 DEF QueuesAreUnplaced
<1>17. SwitchInv'
  BY <1>1, <1>2, <1>8 DEF SwitchInv
<1> QED BY <1>9, <1>11, <1>12, <1>13, <1>14, <1>15, <1>16, <1>17 DEF Base

\* The order in hand leaves, is answered, polled or given up.
LEMMA OrderBase ==
    ASSUME Base, NEW r \in Runners,
           \/ StopPlacing(r) \/ Send(r) \/ Accepted(r) \/ Refused(r) \/ AuthRefused(r)
           \/ PollTerminal(r) \/ PollTimeout(r)
    PROVE  Base' /\ SameOrders
<1>0. PICK i : i = job[r].row
  OBVIOUS
<1>1. PICK p \in {"place", "send", "sent", "polling"} : At(r, p) /\ (p = "place" <=> StopPlacing(r))
  BY DEF StopPlacing, Send, Accepted, Refused, AuthRefused, PollTerminal, PollTimeout, At
<1>2. /\ job[r] \in JobRecord /\ loop \in {"free", r} /\ Len(live) \in Nat
      /\ i <= Len(live) /\ (p # "place" => i \in 1..Len(live))
  BY <1>0, <1>1, RunnerFacts DEF AtOrder
<1>3. PP!IInv /\ JobsOK /\ TablesOK /\ QuantitiesAgree /\ SwitchInv
  BY DEF Base
<1>4. p # "place" => /\ live[i] \in LiveOrder /\ broker[i] \in BrokerOrder
                     /\ live[i].key \in Keys /\ live[i].qty \in Nat
                     /\ broker[i].filled \in 0..live[i].qty
  BY <1>2, SideFacts
<1>5. /\ UNCHANGED paperVars /\ UNCHANGED dayVars
  BY DEF StopPlacing, Send, Accepted, Refused, AuthRefused, PollTerminal, PollTimeout
<1>6. /\ [Paper!Next]_(Paper!vars) /\ session' = session
      /\ done' = done /\ cronFired' \in BOOLEAN
  BY <1>3, <1>5 DEF paperVars, dayVars, Paper!vars, Paper!ledger, TablesOK
<1>7. SameOrders
  <2>1. CASE StopPlacing(r)
    BY <2>1, OrdersUntouched DEF StopPlacing, liveVars
  <2>2. CASE Send(r)
    <3>1. PICK state \in {"none", "open", "rejected"} :
             broker' = [broker EXCEPT ![i].state = state]
      BY <1>0, <2>2 DEF Send
    <3>2. p # "place"
      BY <1>1, <2>2 DEF At, Send, StopPlacing
    <3> DEFINE b == [broker[i] EXCEPT !.state = state]
    <3>3. b \in BrokerOrder /\ b.filled \in broker[i].filled..live[i].qty
      BY <1>4, <3>2 DEF BrokerOrder, BrokerFinal
    <3>4. broker' = [broker EXCEPT ![i] = b] /\ UNCHANGED live
      BY <2>2, <3>1 DEF Send
    <3> HIDE DEF b
    <3> QED BY <1>2, <3>2, <3>3, <3>4, BrokerChanged
  <2>3. ASSUME NEW status \in LiveTerminal \cup {"TRANSIT", "OPEN"}, NEW closed \in BOOLEAN,
               NEW fill \in Nat, p # "place", UNCHANGED broker,
               live' = [live EXCEPT ![i] = [live[i] EXCEPT !.status = status,
                                               !.closed = closed, !.fill = fill]]
        PROVE  SameOrders
    <3> DEFINE o == [live[i] EXCEPT !.status = status, !.closed = closed, !.fill = fill]
    <3>1. /\ o \in LiveOrder /\ o.key = live[i].key
          /\ o.qty = live[i].qty /\ o.session = live[i].session
      BY <1>4, <2>3 DEF LiveOrder
    <3>2. live' = [live EXCEPT ![i] = o]
      BY <2>3
    <3> HIDE DEF o
    <3> QED BY <1>2, <2>3, <3>1, <3>2, RowRewritten
  <2>4. ASSUME p # "place"
        PROVE  /\ live \in [1..Len(live) -> LiveOrder]
               /\ live[i].closed \in BOOLEAN /\ live[i].fill \in Nat
    BY <1>3, <1>4, <2>4, LenProperties DEF LiveOrder, TablesOK
  <2>5. CASE Accepted(r)
    <3>1. p # "place" /\ UNCHANGED broker
      BY <1>1, <2>5 DEF At, Accepted, StopPlacing
    <3>2. live' = [live EXCEPT ![i] = [live[i] EXCEPT !.status = "TRANSIT",
                     !.closed = live[i].closed, !.fill = live[i].fill]]
      BY <1>0, <1>2, <1>4, <2>4, <2>5, <3>1 DEF Accepted, LiveOrder
    <3> QED BY <2>3, <2>4, <3>1, <3>2
  <2>6. CASE Refused(r) \/ AuthRefused(r)
    <3>1. p # "place" /\ UNCHANGED broker
      BY <1>1, <2>6 DEF At, Refused, AuthRefused, StopPlacing
    <3>2. live' = [live EXCEPT ![i] = [live[i] EXCEPT !.status = "REJECTED",
                     !.closed = TRUE, !.fill = live[i].fill]]
      BY <1>0, <1>2, <1>4, <2>4, <2>6, <3>1 DEF Refused, AuthRefused, RecordReject, LiveOrder
    <3> QED BY <2>3, <2>4, <3>1, <3>2 DEF LiveTerminal
  <2>7. CASE PollTimeout(r)
    <3>1. p # "place" /\ UNCHANGED broker
      BY <1>1, <2>7 DEF At, PollTimeout, StopPlacing
    <3>2. live' = [live EXCEPT ![i] = [live[i] EXCEPT !.status = "OPEN",
                     !.closed = TRUE, !.fill = live[i].fill]]
      BY <1>0, <1>2, <1>4, <2>4, <2>7, <3>1 DEF PollTimeout, LiveOrder
    <3> QED BY <2>3, <2>4, <3>1, <3>2
  <2>8. CASE PollTerminal(r)
    <3> DEFINE fill == IF broker[i].state = "traded" THEN broker[i].filled ELSE 0
    <3>1. p # "place" /\ UNCHANGED broker
      BY <1>1, <2>8 DEF At, PollTerminal, StopPlacing
    <3>2. live' = [live EXCEPT ![i] = [live[i] EXCEPT !.status = LiveStatus(broker[i].state),
                     !.closed = TRUE, !.fill = fill]]
      BY <1>0, <1>2, <1>4, <2>4, <2>8, <3>1 DEF PollTerminal, LiveOrder
    <3>3. LiveStatus(broker[i].state) \in LiveTerminal /\ fill \in Nat
      BY <1>4, <3>1 DEF LiveStatus, LiveTerminal
    <3> HIDE DEF fill
    <3> QED BY <2>3, <2>4, <3>1, <3>2, <3>3
  <2> QED BY <2>1, <2>2, <2>5, <2>6, <2>7, <2>8
<1>8. PICK new : /\ Goto(r, new) /\ Narrows(r, new)
                 /\ new.pc \in {"place", "sent", "polling", "closes"}
  <2>1. CASE StopPlacing(r)
    <3> DEFINE new == [job[r] EXCEPT !.pc = "closes", !.queue = {}]
    <3>1. new \in JobRecord /\ new.pc = "closes" /\ new.queue = {}
          /\ new.row = i /\ new.over = job[r].over
      BY <1>0, <1>2 DEF JobRecord, Awaits
    <3>2. Goto(r, new)
      BY <2>1 DEF StopPlacing
    <3> HIDE DEF new
    <3>3. Narrows(r, new)
      BY <1>2, <3>1 DEF Narrows, AtOrder
    <3> QED BY <3>1, <3>2, <3>3
  <2>2. CASE Send(r) \/ Accepted(r)
    <3> DEFINE to == IF Send(r) THEN "sent" ELSE "polling"
               new == [job[r] EXCEPT !.pc = to]
    <3>0. p # "place"
      BY <1>1, <2>2 DEF At, Send, Accepted, StopPlacing
    <3>1. new \in JobRecord /\ new.pc \in {"sent", "polling"} /\ new.queue = job[r].queue
          /\ new.asked = job[r].asked /\ new.row = i /\ new.over = job[r].over
      BY <1>0, <1>2 DEF JobRecord, Awaits
    <3>2. Goto(r, new)
      BY <2>2 DEF Send, Accepted
    <3> HIDE DEF new
    <3>3. Narrows(r, new)
      BY <1>2, <3>0, <3>1 DEF Narrows, AtOrder
    <3> QED BY <3>1, <3>2, <3>3
  <2>3. ASSUME NEW q \in 0..live[i].qty, NEW to \in {"place", "closes"}, p # "place",
               NEW queue \in {job[r].queue, {}}, to = "place" \/ queue = {},
               Goto(r, [job[r] EXCEPT !.pc = to, !.queue = queue, !.over = Overridden(r, q)])
        PROVE  \E new : /\ Goto(r, new) /\ Narrows(r, new)
                        /\ new.pc \in {"place", "sent", "polling", "closes"}
    <3> DEFINE over == Overridden(r, q)
               new == [job[r] EXCEPT !.pc = to, !.queue = queue, !.over = over]
    <3>1. over \in [Keys -> Int] /\ \A k \in Keys :
              over[k] = IF k = live[i].key THEN q ELSE job[r].over[k]
      BY <1>0, <1>2, <1>4, <2>3 DEF Overridden, JobRecord
    <3> HIDE DEF over
    <3>2. new \in JobRecord /\ new.pc = to /\ new.queue = queue
          /\ new.asked = job[r].asked /\ new.row = i /\ new.over = over
      BY <1>0, <1>2, <3>1 DEF JobRecord, Awaits, Holds
    <3>3. Goto(r, new)
      BY <2>3 DEF over
    <3> HIDE DEF new
    <3>4. Narrows(r, new)
      <4>1. \A k \in Keys :
              \/ new.over[k] \in {job[r].over[k], NoOverride}
              \/ \E n \in 1..Len(live) : k = live[n].key /\ new.over[k] \in 0..live[n].qty
        BY <1>2, <2>3, <3>1, <3>2
      <4> QED BY <1>2, <2>3, <3>2, <4>1 DEF Narrows, AtOrder
    <3> QED BY <3>2, <3>3, <3>4
  <2>4. CASE Refused(r) \/ PollTimeout(r) \/ PollTerminal(r)
    <3>0. p # "place"
      BY <1>1, <2>4 DEF At, Refused, PollTimeout, PollTerminal, StopPlacing
    <3>1. PICK q \in 0..live[i].qty :
             Goto(r, [job[r] EXCEPT !.pc = "place", !.over = Overridden(r, q)])
      <4>1. 0 \in 0..live[i].qty /\ broker[i].filled \in 0..live[i].qty
        BY <1>4, <3>0
      <4>2. CASE Refused(r) \/ PollTimeout(r)
        BY <4>1, <4>2 DEF Refused, PollTimeout
      <4>3. CASE PollTerminal(r)
        BY <1>0, <4>1, <4>3 DEF PollTerminal
      <4> QED BY <2>4, <4>2, <4>3
    <3>2. [job[r] EXCEPT !.pc = "place", !.over = Overridden(r, q)] =
             [job[r] EXCEPT !.pc = "place", !.queue = job[r].queue, !.over = Overridden(r, q)]
      BY <1>2 DEF JobRecord
    <3> QED BY <2>3, <3>0, <3>1, <3>2
  <2>5. CASE AuthRefused(r)
    <3>0. p # "place" /\ 0 \in 0..live[i].qty
      BY <1>1, <1>4, <2>5 DEF At, AuthRefused, StopPlacing
    <3>1. Goto(r, [job[r] EXCEPT !.pc = "closes", !.queue = {}, !.over = Overridden(r, 0)])
      BY <2>5 DEF AuthRefused
    <3> QED BY <2>3, <3>0, <3>1
  <2> QED BY <2>1, <2>2, <2>4, <2>5
<1>9. /\ liveEnabled' \in BOOLEAN
      /\ \/ UNCHANGED <<late, liveEnabled>>
         \/ late' \in {late, [late EXCEPT ![r] = 1]} /\ ~liveEnabled'
  <2>1. CASE Send(r)
    <3>1. late[r] = 0 /\ late \in [Runners -> Nat]
      BY <1>3, <2>1 DEF SwitchInv, Send, At
    <3>2. [late EXCEPT ![r] = @ + 1] = [late EXCEPT ![r] = 1]
      BY <3>1
    <3> QED BY <1>3, <2>1, <3>2 DEF Send, TablesOK
  <2>2. CASE ~Send(r)
    BY <1>3, <2>2 DEF StopPlacing, Accepted, Refused, AuthRefused,
       PollTerminal, PollTimeout, TablesOK, liveVars
  <2> QED BY <2>1, <2>2
<1> QED BY <1>2, <1>6, <1>7, <1>8, <1>9, NarrowBase

-----------------------------------------------------------------------------
(***************************************************************************)
(* The other processes and the broker                                      *)
(***************************************************************************)

\* No run is in progress afterwards: nothing is queued, and nobody is in the loop.
LEMMA QuietBase ==
    ASSUME Base, [Paper!Next]_(Paper!vars),
           job' = [r \in Runners |-> Idle], loop' = "free",
           UNCHANGED <<liveVars, done>>, cronFired' \in BOOLEAN,
           session' \in 1..MaxSession, session <= session'
    PROVE  Base'
<1>1. PP!IInv' /\ PP!IInv /\ JobsOK /\ TablesOK /\ QuantitiesAgree /\ EachPlacedOnce /\ SwitchInv
  BY PaperStep DEF Base
<1>2. /\ UNCHANGED <<live, broker, late, liveEnabled, done>>
      /\ Len(live) \in Nat /\ session \in Nat /\ session' \in Nat
      /\ \A i \in 1..Len(live) : live[i] \in LiveOrder
  BY <1>1, ElementOfSeq, LenProperties DEF liveVars, TablesOK
<1>3. \A r \in Runners : job'[r] = Idle
  OBVIOUS
<1>4. JobsOK'
  <2>1. "free" \notin Runners /\ "idle" \notin Holds \cup AtOrder
    BY RunnerAssumption DEF Holds, AtOrder
  <2> QED BY <1>2, <1>3, <2>1, IdleFacts DEF JobsOK
<1>5. TablesOK'
  <2>1. \A i \in 1..Len(live) : live[i].session <= session'
    BY <1>1, <1>2 DEF TablesOK, LiveOrder
  <2>2. done \subseteq 1..session'
    BY <1>1, <1>2 DEF TablesOK
  <2> QED BY <1>1, <1>2, <2>1, <2>2 DEF TablesOK
<1>6. QuantitiesAgree'
  <2>1. ASSUME NEW i \in 1..Len(live) PROVE AsksFor(live[i].key, live[i].qty)'
    <3>1. PICK k \in Keys, n \in Nat : k = live[i].key /\ n = live[i].qty
      BY <1>2 DEF LiveOrder
    <3>2. AsksFor(k, n)'
      BY <1>1, <3>1, AsksStays DEF QuantitiesAgree
    <3> QED BY <1>2, <3>1, <3>2 DEF AsksFor
  <2> QED BY <1>1, <1>2, <1>3, <2>1, IdleFacts DEF QuantitiesAgree
<1>7. CheckIsFresh' /\ QueuesAreUnplaced' /\ SwitchInv' /\ EachPlacedOnce'
  BY <1>1, <1>2, <1>3, IdleFacts
     DEF CheckIsFresh, QueuesAreUnplaced, SwitchInv, EachPlacedOnce
<1> QED BY <1>1, <1>4, <1>5, <1>6, <1>7 DEF Base

\* A death, and a new day.
LEMMA CrashBase ==
    ASSUME Base, Crash \/ NextSession
    PROVE  Base'
<1>1. [Paper!Next]_(Paper!vars)
  BY StepRefines DEF Next
<1>2. TablesOK /\ JobsOK
  BY DEF Base
<1>3. CASE Crash
  <2>1. session' = session
    BY <1>3 DEF Crash, paperVars, Paper!Crash
  <2> QED BY <1>1, <1>2, <1>3, <2>1, QuietBase DEF Crash, dayVars, TablesOK
<1>4. CASE NextSession
  <2>1. session' = session + 1 /\ session < MaxSession /\ session \in 1..MaxSession
        /\ MaxSession \in Nat
    BY <1>2, <1>4, PaperAssumption DEF NextSession, Paper!NextSession, TablesOK
  <2>2. job' = [r \in Runners |-> Idle]
    BY <1>2, <1>4 DEF NextSession, JobsOK
  <2>3. loop' = "free"
    <3>1. \A r \in Runners : job[r].pc \notin Holds
      BY <1>4, IdleFacts DEF NextSession, Holds
    <3> QED BY <1>2, <1>4, <3>1 DEF NextSession, JobsOK
  <2>4. UNCHANGED <<liveVars, done>> /\ cronFired' \in BOOLEAN
    BY <1>4 DEF NextSession
  <2>5. session' \in 1..MaxSession /\ session <= session'
    BY <2>1
  <2> QED BY <1>1, <2>2, <2>3, <2>4, <2>5, QuietBase
<1> QED BY <1>3, <1>4

\* The user's switch, and what the broker makes of an order.
LEMMA OutsideBase ==
    ASSUME Base, ToggleLive \/ \E i \in 1..Len(broker) : BrokerMoves(i)
    PROVE  Base' /\ SameOrders
<1>1. /\ UNCHANGED <<paperVars, live, dayVars, job, loop>>
      /\ [Paper!Next]_(Paper!vars)
  BY DEF ToggleLive, BrokerMoves, paperVars, Paper!vars, Paper!ledger
<1>2. /\ PP!IInv /\ PP!IInv' /\ JobsOK /\ TablesOK /\ QuantitiesAgree
      /\ CheckIsFresh /\ EachPlacedOnce /\ QueuesAreUnplaced /\ SwitchInv
  BY <1>1, PaperStep DEF Base
<1>3. /\ UNCHANGED <<session, gen, orders, done, cronFired, live, job, loop>>
      /\ Paper!PendingToday' = Paper!PendingToday
  BY <1>1 DEF paperVars, dayVars, Paper!PendingToday
<1>4. SameOrders
  <2>1. CASE ToggleLive
    BY <2>1, OrdersUntouched DEF ToggleLive
  <2>2. CASE \E i \in 1..Len(broker) : BrokerMoves(i)
    <3>1. PICK i \in 1..Len(broker) : BrokerMoves(i)
      BY <2>2
    <3>2. i \in 1..Len(live) /\ Len(live) \in Nat
      BY <1>2, <3>1, LenProperties DEF TablesOK
    <3>3. /\ broker[i] \in BrokerOrder /\ live[i].qty \in Nat
          /\ broker[i].filled \in 0..live[i].qty
      BY <3>2, SideFacts
    <3>4. PICK b \in BrokerOrder :
             b.filled \in broker[i].filled..live[i].qty /\ broker' = [broker EXCEPT ![i] = b]
      <4>1. CASE \E f \in broker[i].filled + 1..live[i].qty : \E state \in {"open", "traded"} :
                    broker' = [broker EXCEPT ![i] = [state |-> state, filled |-> f]]
        <5>1. PICK f \in broker[i].filled + 1..live[i].qty, state \in {"open", "traded"} :
                    broker' = [broker EXCEPT ![i] = [state |-> state, filled |-> f]]
          BY <4>1
        <5>2. [state |-> state, filled |-> f] \in BrokerOrder /\ f \in broker[i].filled..live[i].qty
          BY <3>3 DEF BrokerOrder, BrokerFinal
        <5> QED BY <5>1, <5>2
      <4>2. ASSUME NEW state \in {"rejected", "cancelled"},
                   broker' = [broker EXCEPT ![i].state = state]
            PROVE  \E b \in BrokerOrder :
                      b.filled \in broker[i].filled..live[i].qty /\ broker' = [broker EXCEPT ![i] = b]
        <5> DEFINE b == [broker[i] EXCEPT !.state = state]
        <5>1. b \in BrokerOrder /\ b.filled \in broker[i].filled..live[i].qty
          BY <3>2, <3>3 DEF BrokerOrder, BrokerFinal
        <5>2. broker' = [broker EXCEPT ![i] = b]
          BY <4>2
        <5> HIDE DEF b
        <5> QED BY <5>1, <5>2
      <4> QED BY <3>1, <4>1, <4>2 DEF BrokerMoves
    <3>5. UNCHANGED live
      BY <1>3
    <3> QED BY <3>2, <3>4, <3>5, BrokerChanged
  <2> QED BY <2>1, <2>2
<1>5. JobsOK' /\ CheckIsFresh' /\ EachPlacedOnce' /\ QueuesAreUnplaced'
  BY <1>2, <1>3 DEF JobsOK, CheckIsFresh, EachPlacedOnce, QueuesAreUnplaced
<1>6. QuantitiesAgree'
  BY <1>2, <1>3, <1>4 DEF SameOrders, QuantitiesAgree, AsksFor, AsksForAtLeast
<1>7. liveEnabled' \in BOOLEAN /\ SwitchInv'
  <2>1. CASE ToggleLive
    <3>1. liveEnabled => late' = late /\ \A r \in Runners : late[r] = 0
      BY <1>2, <2>1 DEF ToggleLive, SwitchInv
    <3>2. ~liveEnabled => late' = NoneLate
      BY <2>1 DEF ToggleLive
    <3> QED BY <1>2, <1>3, <2>1, <3>1, <3>2 DEF ToggleLive, SwitchInv, NoneLate, TablesOK
  <2>2. CASE \E i \in 1..Len(broker) : BrokerMoves(i)
    BY <1>2, <1>3, <2>2 DEF BrokerMoves, SwitchInv, TablesOK
  <2> QED BY <2>1, <2>2
<1>8. TablesOK'
  BY <1>2, <1>3, <1>4, <1>7 DEF SameOrders, TablesOK
<1> QED BY <1>2, <1>4, <1>5, <1>6, <1>7, <1>8 DEF Base

-----------------------------------------------------------------------------
(***************************************************************************)
(* Whatever the runners do                                                 *)
(***************************************************************************)

\* The initial state satisfies Base.
LEMMA InitBase == Init => Base
<1> SUFFICES ASSUME Init PROVE Base
  OBVIOUS
<1>1. PP!IInv
  BY PaperInit DEF Init
<1>2. /\ \A r \in Runners : job[r] = Idle
      /\ job \in [Runners -> JobRecord] /\ loop = "free"
  BY IdleFacts DEF Init
<1>3. live = <<>> /\ broker = <<>> /\ Len(live) = 0 /\ Len(broker) = 0
      /\ live \in Seq(LiveOrder) /\ broker \in Seq(BrokerOrder)
  BY EmptySeq DEF Init
<1>4. JobsOK
  <2>1. "free" \notin Runners /\ "idle" \notin Holds \cup AtOrder
    BY RunnerAssumption DEF Holds, AtOrder
  <2> QED BY <1>2, <1>3, <2>1, IdleFacts DEF JobsOK
<1>5. TablesOK
  <2>1. session = 1 /\ 1 \in 1..MaxSession /\ done = {} /\ cronFired = FALSE
        /\ liveEnabled \in BOOLEAN
    BY PaperAssumption DEF Init, Paper!Init
  <2>2. \A i \in 1..Len(live) : FALSE
    BY <1>3
  <2>3. done \subseteq 1..session
    BY <2>1
  <2> QED BY <1>3, <2>1, <2>2, <2>3 DEF TablesOK
<1>6. QuantitiesAgree /\ CheckIsFresh /\ EachPlacedOnce /\ QueuesAreUnplaced
  <2>1. \A i \in 1..Len(live) : FALSE
    BY <1>3
  <2> QED BY <1>2, <2>1, IdleFacts
          DEF QuantitiesAgree, CheckIsFresh, EachPlacedOnce, QueuesAreUnplaced
<1>7. SwitchInv
  BY DEF Init, SwitchInv, NoneLate
<1> QED BY <1>1, <1>4, <1>5, <1>6, <1>7 DEF Base

\* Every step keeps Base.
LEMMA NextBase == Base /\ [Next]_vars => Base'
<1> SUFFICES ASSUME Base, [Next]_vars PROVE Base'
  OBVIOUS
<1>1. ASSUME NEW r \in Runners, Start(r) \/ Fail(r) PROVE Base'
  BY <1>1, EdgeBase, OrderBase DEF Fail
<1>2. ASSUME NEW r \in Runners, Progress(r) PROVE Base'
  <2>1. CASE PersistSignals(r) \/ BeginExecute(r)
             \/ \E k \in rows, price \in Prices \cup {0} : ExecuteRow(r, k, price)
    BY <2>1, PaperMoveBase
  <2>2. CASE Generate(r) \/ CheckLive(r) \/ \E k \in job[r].queue : Place(r, k)
    BY <2>2, GenerateBase, CheckLiveBase, PlaceBase
  <2>3. CASE StopPlacing(r) \/ Send(r) \/ Accepted(r) \/ Refused(r)
             \/ PollTerminal(r) \/ PollTimeout(r)
    BY <2>3, OrderBase
  <2>4. CASE Complete(r)
    BY <2>4, EdgeBase
  <2> QED BY <1>2, <2>1, <2>2, <2>3, <2>4 DEF Progress
<1>3. CASE ToggleLive \/ \E i \in 1..Len(broker) : BrokerMoves(i)
  BY <1>3, OutsideBase
<1>4. CASE Crash \/ NextSession
  BY <1>4, CrashBase
<1>5. CASE UNCHANGED vars
  <2>1. /\ UNCHANGED <<live, broker, job, loop, late, liveEnabled, done, cronFired>>
        /\ UNCHANGED <<session, gen, orders>> /\ [Paper!Next]_(Paper!vars)
    BY <1>5 DEF vars, paperVars, liveVars, dayVars, Paper!vars, Paper!ledger
  <2>2. PP!IInv' /\ Paper!PendingToday' = Paper!PendingToday
    BY <2>1, PaperStep DEF Base, Paper!PendingToday
  <2> QED BY <2>1, <2>2 DEF Base, JobsOK, TablesOK, QuantitiesAgree, CheckIsFresh,
             EachPlacedOnce, QueuesAreUnplaced, SwitchInv, AsksFor, AsksForAtLeast
<1> QED BY <1>1, <1>2, <1>3, <1>4, <1>5 DEF Next

\* Base holds in every reachable state.
THEOREM SpecBase == Spec => []Base
BY InitBase, NextBase, PTL DEF Spec

\* Type correctness: the tables, the coroutines and the loop.
THEOREM ExecutionTypeOK == Spec => []TypeOK
<1>1. ASSUME Base PROVE TypeOK
  <2>1. /\ JobsOK /\ TablesOK /\ SwitchInv /\ Paper!TypeOK
        /\ Len(live) \in Nat /\ MaxSession \in Nat
    BY <1>1, PaperFacts, PaperAssumption, LenProperties DEF Base, TablesOK
  <2>2. \A r \in Runners :
           /\ job[r].pc \in {"idle"} \cup Awaits \cup Holds
           /\ job[r].asked \in [Keys -> Nat] /\ job[r].queue \subseteq Keys
           /\ job[r].row \in 0..Len(live) /\ job[r].over \in [Keys -> Int]
           /\ job[r].pc \in Holds <=> loop = r
    BY <2>1 DEF JobsOK, JobRecord
  <2>3. done \subseteq 1..MaxSession /\ late \in [Runners -> Nat]
    BY <2>1 DEF TablesOK, SwitchInv
  <2> QED BY <2>1, <2>2, <2>3 DEF TypeOK, JobsOK, TablesOK
<1> QED BY <1>1, SpecBase, PTL

\* However the runs interleave, die and are answered, they do to the paper
\* tables what PaperEngine does: execution_job implements it.
THEOREM ExecutionImplementsPaper == Spec => PaperContract
<1>1. Init => Paper!Init
  BY DEF Init
<1>2. Base /\ [Next]_vars => [Paper!Next]_(Paper!vars)
  BY StepRefines
<1> QED BY <1>1, <1>2, SpecBase, PTL DEF Spec, PaperContract, Paper!Spec

\* So the promises of the paper engine hold of the whole system: no leverage, a
\* book that is the replay of its fills, waiting orders that close their gap.
THEOREM PaperPromisesHold ==
    Spec => [](Paper!NoLeverage /\ Paper!BookMatchesFills /\ Paper!PendingClosesGap)
<1>1. Base => Paper!NoLeverage /\ Paper!BookMatchesFills /\ Paper!PendingClosesGap
  BY DEF Base, PP!IInv, PP!NoLeverage, Paper!NoLeverage, PP!BookMatchesFills,
     Paper!BookMatchesFills, PP!PendingClosesGap, Paper!PendingClosesGap,
     PP!PendingToday, Paper!PendingToday, PP!Keys, Paper!Keys
<1> QED BY <1>1, SpecBase, PTL

\* The kill switch: after live is switched off each run that is placing sends at
\* most the one order it had in hand, however many runs there are.
THEOREM SwitchBites == Spec => []KillSwitchBites
<1>1. Base => KillSwitchBites
  BY DEF Base, SwitchInv, KillSwitchBites
<1> QED BY <1>1, SpecBase, PTL

\* No paper order is handed to the broker twice, also by overlapping runs and
\* after deaths: what overlap leads to is another order, for the same symbol.
THEOREM NoOrderPlacedTwice == Spec => []EachPlacedOnce
<1>1. Base => EachPlacedOnce
  BY DEF Base
<1> QED BY <1>1, SpecBase, PTL

-----------------------------------------------------------------------------
(***************************************************************************)
(* What a step changes of the live orders and of the other runs            *)
(***************************************************************************)

\* Only Place adds a live order; none is forgotten, moved to another row or day,
\* or loses what it filled.
LEMMA OrdersStay ==
    ASSUME Base, [Next]_vars
    PROVE  SameOrders \/ \E r \in Runners : \E k \in job[r].queue : Place(r, k)
<1>1. UNCHANGED liveVars => SameOrders
  BY OrdersUntouched DEF liveVars
<1>2. ASSUME NEW r \in Runners, Start(r) \/ Fail(r) PROVE SameOrders
  BY <1>1, <1>2, OrderBase DEF Start, Fail, GiveUp, PollError
<1>3. ASSUME NEW r \in Runners, Progress(r)
      PROVE  SameOrders \/ \E k \in job[r].queue : Place(r, k)
  <2>1. CASE StopPlacing(r) \/ Send(r) \/ Accepted(r) \/ Refused(r)
             \/ PollTerminal(r) \/ PollTimeout(r)
    BY <2>1, OrderBase
  <2>2. CASE \/ PersistSignals(r) \/ Generate(r) \/ CheckLive(r) \/ BeginExecute(r)
             \/ \E k \in rows, price \in Prices \cup {0} : ExecuteRow(r, k, price)
             \/ Complete(r)
    BY <1>1, <2>2 DEF PersistSignals, Generate, CheckLive, BeginExecute, ExecuteRow, Complete
  <2> QED BY <1>3, <2>1, <2>2 DEF Progress
<1>4. CASE ToggleLive \/ \E i \in 1..Len(broker) : BrokerMoves(i)
  BY <1>4, OutsideBase
<1>5. CASE Crash \/ NextSession \/ UNCHANGED vars
  BY <1>1, <1>5 DEF Crash, NextSession, vars
<1> QED BY <1>2, <1>3, <1>4, <1>5 DEF Next

\* Place adds one row, and the broker has filled nothing of it.
LEMMA PlaceAppends ==
    ASSUME Base, NEW r \in Runners, NEW k \in job[r].queue, Place(r, k)
    PROVE  /\ Len(live) \in Nat /\ Len(live') = Len(live) + 1
           /\ \A i \in 1..Len(live) : live'[i] = live[i] /\ broker'[i] = broker[i]
           /\ live'[Len(live')].key = k /\ live'[Len(live')].session = session
           /\ ~live'[Len(live')].closed /\ live'[Len(live')].fill = 0
<1> DEFINE o == [session |-> session, key |-> k, qty |-> job[r].asked[k],
                 fill |-> 0, closed |-> FALSE, status |-> "PENDING"]
           b == [state |-> "none", filled |-> 0]
<1>1. live' = Append(live, o) /\ broker' = Append(broker, b)
  BY DEF Place
<1>2. /\ live \in Seq(LiveOrder) /\ broker \in Seq(BrokerOrder) /\ Len(live) = Len(broker)
      /\ job[r] \in JobRecord /\ PP!IInv
  BY DEF Base, TablesOK, JobsOK
<1>3. o \in LiveOrder /\ b \in BrokerOrder
  <2>1. k \in Keys /\ job[r].asked[k] \in Nat
    BY <1>2 DEF JobRecord
  <2> QED BY <1>2, <2>1, PaperFacts DEF LiveOrder, BrokerOrder
<1>4. o.key = k /\ o.session = session /\ ~o.closed /\ o.fill = 0
  OBVIOUS
<1> HIDE DEF o, b
<1> QED BY <1>1, <1>2, <1>3, <1>4, AppendProperties, LenProperties

\* A step of a run is its own: it starts it or finds it in progress, and leaves
\* the other runs where they are.
LEMMA RunMoves ==
    ASSUME Base, NEW r \in Runners, Start(r) \/ Progress(r) \/ Fail(r)
    PROVE  /\ \A q \in Runners : q # r => job'[q] = job[q]
           /\ Start(r) \/ Running(r)
           /\ job'[r].pc = "idle" => job'[r] = Idle
<1>1. job \in [Runners -> JobRecord]
  BY DEF Base, JobsOK
<1>2. ASSUME NEW new, Goto(r, new)
      PROVE  job'[r] = new /\ \A q \in Runners : q # r => job'[q] = job[q]
  BY <1>1, <1>2 DEF Goto
<1>3. CASE Start(r)
  <2>1. Goto(r, [Idle EXCEPT !.pc = "fetching"])
    BY <1>3 DEF Start
  <2>2. [Idle EXCEPT !.pc = "fetching"].pc = "fetching"
    BY DEF Idle
  <2> QED BY <1>2, <1>3, <2>1, <2>2
<1>4. CASE GiveUp(r) \/ PollError(r) \/ Complete(r)
  <2>1. Goto(r, Idle) /\ Running(r)
    BY <1>4 DEF GiveUp, PollError, Complete, At, Running
  <2> QED BY <1>2, <2>1
<1>5. CASE \E k \in rows, price \in Prices \cup {0} : ExecuteRow(r, k, price)
  BY <1>5 DEF ExecuteRow, At, Running
<1>6. job[r] \in JobRecord
  BY <1>1
<1>7. CASE PersistSignals(r) \/ Generate(r) \/ CheckLive(r) \/ BeginExecute(r)
  <2>1. /\ job'[r].pc \in Awaits \cup Holds
        /\ \A q \in Runners : q # r => job'[q] = job[q]
    <3>1. CASE PersistSignals(r)
      BY <1>1, <1>6, <3>1 DEF PersistSignals, Goto, JobRecord, Holds
    <3>2. CASE Generate(r)
      BY <1>1, <1>6, <3>2 DEF Generate, Goto, JobRecord, Holds
    <3>3. CASE CheckLive(r)
      BY <1>1, <1>6, <3>3 DEF CheckLive, Goto, JobRecord, Holds, Awaits
    <3>4. CASE BeginExecute(r)
      BY <1>1, <1>6, <3>4 DEF BeginExecute, Goto, JobRecord, Holds
    <3> QED BY <1>7, <3>1, <3>2, <3>3, <3>4
  <2>2. job[r].pc \in Awaits \cup Holds
    BY <1>7 DEF PersistSignals, Generate, CheckLive, BeginExecute, At, Awaits, Holds
  <2> QED BY <2>1, <2>2 DEF Running, Awaits, Holds
<1>8. CASE \/ StopPlacing(r) \/ \E k \in job[r].queue : Place(r, k)
           \/ Send(r) \/ Accepted(r) \/ Refused(r) \/ AuthRefused(r)
           \/ PollTerminal(r) \/ PollTimeout(r)
  <2>1. /\ job'[r].pc \in Awaits \cup Holds
        /\ \A q \in Runners : q # r => job'[q] = job[q]
    <3>1. CASE StopPlacing(r)
      BY <1>1, <1>6, <3>1 DEF StopPlacing, Goto, JobRecord, Holds, Awaits
    <3>5. CASE \E k \in job[r].queue : Place(r, k)
      <4>1. PICK k \in job[r].queue : Place(r, k)
        BY <3>5
      <4>2. Goto(r, [job[r] EXCEPT !.pc = "send", !.row = Len(live) + 1,
                                   !.queue = job[r].queue \ {k}])
        BY <4>1 DEF Place
      <4> QED BY <1>1, <1>6, <4>2 DEF Goto, JobRecord, Awaits
    <3>2. CASE Send(r) \/ Accepted(r)
      BY <1>1, <1>6, <3>2 DEF Send, Accepted, Goto, JobRecord, Awaits
    <3>3. CASE Refused(r)
      BY <1>1, <1>6, <3>3 DEF Refused, Goto, JobRecord, Holds, Awaits
    <3>6. CASE AuthRefused(r)
      BY <1>1, <1>6, <3>6 DEF AuthRefused, Goto, JobRecord, Holds, Awaits
    <3>4. CASE PollTerminal(r) \/ PollTimeout(r)
      BY <1>1, <1>6, <3>4 DEF PollTerminal, PollTimeout, Goto, JobRecord, Holds
    <3> QED BY <1>8, <3>1, <3>2, <3>3, <3>4, <3>5, <3>6
  <2>2. job[r].pc \in Awaits \cup Holds
    BY <1>8 DEF StopPlacing, Place, Send, Accepted, Refused, AuthRefused,
       PollTerminal, PollTimeout, At, Awaits, Holds
  <2> QED BY <2>1, <2>2 DEF Running, Awaits, Holds
<1> QED BY <1>3, <1>4, <1>5, <1>7, <1>8 DEF Progress, Fail

\* While runs do not overlap, all but the one that moves are idle.
LEMMA OthersAreIdle ==
    ASSUME Base, OneAtATime, NEW r \in Runners, Start(r) \/ Progress(r) \/ Fail(r),
           Start(r) => \A q \in Runners : ~Running(q)
    PROVE  /\ OneAtATime'
           /\ \A q \in Runners : q # r =>
                 /\ job'[q] = job[q] /\ job'[q].pc = "idle" /\ job'[q].queue = {}
<1>1. ASSUME NEW q \in Runners, q # r PROVE ~Running(q)
  BY <1>1, RunMoves DEF OneAtATime
<1>2. \A q \in Runners : q # r => job[q].queue = {} /\ job[q].pc = "idle"
  BY <1>1 DEF Base, JobsOK, Running, AtOrder
<1> QED BY <1>1, <1>2, RunMoves DEF OneAtATime, Running

-----------------------------------------------------------------------------
(***************************************************************************)
(* Runs that do not overlap: paper fills no more than the broker did       *)
(***************************************************************************)

\* Live fills are recorded once, so they only grow.
FillsGrow == \A i \in 1..Len(live) : live'[i].fill \in Nat /\ live[i].fill <= live'[i].fill

\* A live fill may grow; on paper a fill changes in ExecuteRow.
LEMMA FillsStay ==
    ASSUME Base, BookFits, SameOrders, FillsGrow, UNCHANGED orders
    PROVE  BookFits'
<1>1. ASSUME NEW i \in 1..Len(live) PROVE orders'[live'[i].key].fill <= live'[i].fill
  <2>1. PICK k \in Keys : k = live[i].key
    BY SideFacts
  <2>2. PICK n \in Nat : n = orders[k].fill
    BY PaperFacts DEF Base
  <2>3. PICK f \in Nat : f = live[i].fill
    BY SideFacts
  <2>4. live'[i].key = k /\ n <= f
    BY <2>1, <2>2, <2>3 DEF BookFits, SameOrders
  <2>5. live'[i].fill \in Nat /\ f <= live'[i].fill
    BY <2>3 DEF FillsGrow
  <2> QED BY <2>2, <2>4, <2>5
<1> QED BY <1>1 DEF BookFits, SameOrders

\* Where no row is rewritten no fill is.
LEMMA FillsUntouched ==
    ASSUME Base, UNCHANGED live
    PROVE  FillsGrow
BY SideFacts DEF FillsGrow

\* One row is rewritten, by the run that has it in hand: what it then is says
\* whether all is on record.
LEMMA RowRecords ==
    ASSUME Base, Records, NEW r \in Runners, NEW n \in 1..Len(live), InHand(r, n),
           SameOrders, Recorded(n)', live'[n].fill \in Nat,
           \A i \in 1..Len(live) : i # n => live'[i] = live[i] /\ broker'[i] = broker[i]
    PROVE  (\A i \in 1..Len(live') : Recorded(i)') /\ FillsGrow
<1>1. Len(live') = Len(live)
  BY DEF SameOrders
<1>2. ASSUME NEW i \in 1..Len(live) PROVE Recorded(i)'
  BY <1>2 DEF Records, Recorded, Followed, GivenUp
<1>3. live[n].fill = 0
  BY DEF Records, HandOpen, Recorded
<1>4. ASSUME NEW i \in 1..Len(live) PROVE live'[i].fill \in Nat /\ live[i].fill <= live'[i].fill
  <2>1. live[i].fill \in Nat
    BY SideFacts
  <2> QED BY <1>3, <2>1
<1> QED BY <1>1, <1>2, <1>4 DEF FillsGrow

\* A run records the end of the order it has in hand, and of no other.
LEMMA RunRecords ==
    ASSUME Base, Records, NEW r \in Runners, Start(r) \/ Progress(r) \/ Fail(r),
           \A q \in Runners : q # r => job'[q].pc = "idle"
    PROVE  /\ Records'
           /\ FillsGrow \/ \E k \in job[r].queue : Place(r, k)
<1>1. /\ job \in [Runners -> JobRecord] /\ job[r] \in JobRecord /\ Len(live) \in Nat
      /\ live \in [1..Len(live) -> LiveOrder] /\ broker \in [1..Len(live) -> BrokerOrder]
  BY LenProperties DEF Base, JobsOK, TablesOK
<1>2. ASSUME HandOpen(r)' PROVE \A q \in Runners : HandOpen(q)'
  BY <1>2 DEF HandOpen, InHand, AtOrder
<1>3. ASSUME UNCHANGED <<live, broker>>, job'[r].pc \notin AtOrder
      PROVE  Records' /\ FillsGrow
  <2>1. HandOpen(r)'
    BY <1>3 DEF HandOpen, InHand
  <2> QED BY <1>2, <1>3, <2>1, FillsUntouched DEF Records, Recorded, Followed, GivenUp
<1>4. CASE Start(r) \/ GiveUp(r) \/ PollError(r) \/ Complete(r)
  <2>1. job'[r].pc \in {"idle", "fetching"}
    BY <1>1, <1>4 DEF Start, GiveUp, PollError, Complete, Goto, Idle
  <2> QED BY <1>3, <1>4, <2>1 DEF Start, GiveUp, PollError, Complete, liveVars, AtOrder
<1>5. CASE \/ PersistSignals(r) \/ Generate(r) \/ CheckLive(r) \/ StopPlacing(r)
           \/ BeginExecute(r)
           \/ \E k \in rows, price \in Prices \cup {0} : ExecuteRow(r, k, price)
  <2>1. CASE PersistSignals(r) \/ Generate(r) \/ BeginExecute(r)
    <3>1. PICK p \in {"generate", "check", "execute"} : Goto(r, [job[r] EXCEPT !.pc = p])
      BY <2>1 DEF PersistSignals, Generate, BeginExecute
    <3>2. job'[r].pc = p
      BY <1>1, <3>1 DEF Goto, JobRecord
    <3> QED BY <1>3, <2>1, <3>2 DEF PersistSignals, Generate, BeginExecute, liveVars, AtOrder
  <2>2. CASE CheckLive(r) \/ StopPlacing(r)
    <3>1. job'[r].pc \in {"place", "closes"}
      <4>1. CASE CheckLive(r)
        BY <1>1, <4>1 DEF CheckLive, Goto, JobRecord
      <4>2. CASE StopPlacing(r)
        BY <1>1, <4>2 DEF StopPlacing, Goto, JobRecord
      <4> QED BY <2>2, <4>1, <4>2
    <3> QED BY <1>3, <2>2, <3>1 DEF CheckLive, StopPlacing, liveVars, AtOrder
  <2>3. CASE \E k \in rows, price \in Prices \cup {0} : ExecuteRow(r, k, price)
    BY <1>3, <2>3 DEF ExecuteRow, At, liveVars, AtOrder
  <2> QED BY <1>5, <2>1, <2>2, <2>3
<1>6. CASE \E k \in job[r].queue : Place(r, k)
  <2>1. PICK k \in job[r].queue : Place(r, k)
    BY <1>6
  <2>2. /\ Len(live') = Len(live) + 1
        /\ \A i \in 1..Len(live) : live'[i] = live[i] /\ broker'[i] = broker[i]
        /\ ~live'[Len(live')].closed /\ live'[Len(live')].fill = 0
    BY <2>1, PlaceAppends
  <2>3. job'[r].pc = "send" /\ job'[r].row = Len(live) + 1
    BY <1>1, <2>1 DEF Place, Goto, JobRecord
  <2>4. \A i \in 1..Len(live') : i = Len(live') \/ i \in 1..Len(live)
    BY <1>1, <2>2
  <2>5. \A i \in 1..Len(live') : Recorded(i)'
    BY <2>2, <2>4 DEF Records, Recorded, Followed, GivenUp
  <2>6. HandOpen(r)'
    BY <2>2, <2>3 DEF HandOpen, InHand
  <2> QED BY <1>2, <1>6, <2>5, <2>6 DEF Records
<1>7. CASE \/ Send(r) \/ Accepted(r) \/ Refused(r) \/ AuthRefused(r)
           \/ PollTerminal(r) \/ PollTimeout(r)
  <2>1. PICK n : n = job[r].row
    OBVIOUS
  <2>2. /\ n \in 1..Len(live) /\ InHand(r, n)
        /\ ~live[n].closed /\ live[n].fill = 0 /\ SameOrders
        /\ live[n] \in LiveOrder /\ broker[n] \in BrokerOrder
    <3>1. n \in 1..Len(live) /\ InHand(r, n)
      BY <1>7, <2>1, RunnerFacts DEF Send, Accepted, Refused, AuthRefused, PollTerminal,
         PollTimeout, At, AtOrder, InHand
    <3>2. ~live[n].closed /\ live[n].fill = 0
      BY <3>1 DEF Records, HandOpen, Recorded
    <3> QED BY <1>1, <1>7, <3>1, <3>2, OrderBase
  <2>3. CASE Send(r)
    <3>1. /\ UNCHANGED live /\ \A i \in 1..Len(live) : i # n => broker'[i] = broker[i]
          /\ Goto(r, [job[r] EXCEPT !.pc = "sent"])
      BY <1>1, <2>1, <2>3 DEF Send
    <3>2. job'[r].row = n
      BY <1>1, <2>1, <3>1 DEF Goto, JobRecord
    <3>3. HandOpen(r)'
      BY <2>2, <3>1, <3>2 DEF HandOpen, InHand
    <3>4. Recorded(n)' /\ live'[n].fill \in Nat
      BY <2>2, <3>1 DEF Recorded
    <3> QED BY <1>2, <2>2, <3>1, <3>3, <3>4, RowRecords DEF Records
  <2>4. CASE Accepted(r)
    <3>1. /\ live' = [live EXCEPT ![n].status = "TRANSIT"] /\ UNCHANGED broker
          /\ Goto(r, [job[r] EXCEPT !.pc = "polling"])
      BY <2>1, <2>4 DEF Accepted
    <3>2. job'[r].row = n
      BY <1>1, <2>1, <3>1 DEF Goto, JobRecord
    <3>3. /\ ~live'[n].closed /\ live'[n].fill = 0
          /\ \A i \in 1..Len(live) : i # n => live'[i] = live[i]
      BY <1>1, <2>2, <3>1 DEF LiveOrder
    <3>4. HandOpen(r)'
      BY <3>2, <3>3 DEF HandOpen, InHand
    <3>5. Recorded(n)' /\ live'[n].fill \in Nat
      BY <3>3 DEF Recorded
    <3> QED BY <1>2, <2>2, <3>1, <3>3, <3>4, <3>5, RowRecords DEF Records
  <2>5. CASE Refused(r) \/ AuthRefused(r) \/ PollTerminal(r) \/ PollTimeout(r)
    <3>1. job'[r].pc \in {"place", "closes"}
      <4>1. CASE Refused(r) \/ PollTerminal(r) \/ PollTimeout(r)
        <5>1. PICK q : Goto(r, [job[r] EXCEPT !.pc = "place", !.over = Overridden(r, q)])
          BY <4>1 DEF Refused, PollTerminal, PollTimeout
        <5> QED BY <1>1, <5>1 DEF Goto, JobRecord
      <4>2. CASE AuthRefused(r)
        <5>1. Goto(r, [job[r] EXCEPT !.pc = "closes", !.queue = {}, !.over = Overridden(r, 0)])
          BY <4>2 DEF AuthRefused
        <5> QED BY <1>1, <5>1 DEF Goto, JobRecord
      <4> QED BY <2>5, <4>1, <4>2
    <3>2. HandOpen(r)'
      BY <3>1 DEF HandOpen, InHand, AtOrder
    <3>3. UNCHANGED broker
      BY <2>5 DEF Refused, AuthRefused, PollTerminal, PollTimeout
    <3>4. ASSUME NEW status, live' = [live EXCEPT ![n].status = status, ![n].closed = TRUE],
                 status \in {"OPEN", "REJECTED"}
          PROVE  /\ Recorded(n)' /\ live'[n].fill \in Nat
                 /\ \A i \in 1..Len(live) : i # n => live'[i] = live[i]
      <4>1. live'[n].closed /\ live'[n].status = status /\ live'[n].fill = 0
        BY <1>1, <2>2, <3>4 DEF LiveOrder
      <4> QED BY <1>1, <3>4, <4>1 DEF Recorded, GivenUp
    <3>5. CASE Refused(r) \/ AuthRefused(r) \/ PollTimeout(r)
      <4>1. PICK status \in {"OPEN", "REJECTED"} :
               live' = [live EXCEPT ![n].status = status, ![n].closed = TRUE]
        BY <2>1, <3>5 DEF Refused, AuthRefused, PollTimeout, RecordReject
      <4>2. /\ Recorded(n)' /\ live'[n].fill \in Nat
            /\ \A i \in 1..Len(live) : i # n => live'[i] = live[i]
        BY <3>4, <4>1
      <4> QED BY <1>2, <2>2, <3>2, <3>3, <4>2, RowRecords DEF Records
    <3>6. CASE PollTerminal(r)
      <4> DEFINE fill == IF broker[n].state = "traded" THEN broker[n].filled ELSE 0
                 status == LiveStatus(broker[n].state)
      <4>1. /\ broker[n].state \in BrokerFinal
            /\ live' = [live EXCEPT ![n].status = status, ![n].closed = TRUE, ![n].fill = fill]
        BY <2>1, <3>6 DEF PollTerminal
      <4>2. fill \in Nat
        BY <2>2 DEF BrokerOrder
      <4> HIDE DEF fill, status
      <4>3. /\ live'[n].closed /\ live'[n].status = status /\ live'[n].fill = fill
            /\ \A i \in 1..Len(live) : i # n => live'[i] = live[i]
        BY <1>1, <2>2, <4>1 DEF LiveOrder
      <4>4. Recorded(n)'
        BY <3>3, <4>1, <4>3 DEF Recorded, Followed, fill, status
      <4> QED BY <1>2, <2>2, <3>2, <3>3, <4>2, <4>3, <4>4, RowRecords DEF Records
    <3> QED BY <2>5, <3>5, <3>6
  <2> QED BY <1>7, <2>3, <2>4, <2>5
<1> QED BY <1>4, <1>5, <1>6, <1>7 DEF Progress, Fail

\* What the broker does to an order whose end is on record leaves it there: an
\* order that was followed is final.
LEMMA OutsideRecords ==
    ASSUME Base, Records, \/ ToggleLive \/ Crash \/ NextSession \/ UNCHANGED vars
                          \/ \E i \in 1..Len(broker) : BrokerMoves(i)
    PROVE  Records'
<1>1. UNCHANGED live
  BY DEF ToggleLive, BrokerMoves, Crash, NextSession, vars, liveVars
<1>2. ASSUME NEW r \in Runners PROVE HandOpen(r)'
  <2>1. job' = job \/ job'[r] = Idle
    BY DEF ToggleLive, BrokerMoves, Crash, NextSession, vars
  <2> QED BY <1>1, <2>1, IdleFacts DEF Records, HandOpen, InHand, AtOrder
<1>3. ASSUME NEW n \in 1..Len(live) PROVE Recorded(n)'
  <2>1. broker'[n] = broker[n] \/ broker[n].state = "open"
    <3>1. CASE \E i \in 1..Len(broker) : BrokerMoves(i)
      <4>1. PICK i \in 1..Len(broker) : BrokerMoves(i)
        BY <3>1
      <4>2. broker[i].state = "open" /\ \E b : broker' = [broker EXCEPT ![i] = b]
        BY <4>1 DEF BrokerMoves
      <4> QED BY <4>2
    <3>2. CASE UNCHANGED broker
      BY <3>2
    <3> QED BY <3>1, <3>2 DEF ToggleLive, Crash, NextSession, vars, liveVars
  <2> QED BY <1>1, <2>1 DEF Records, Recorded, Followed, GivenUp, BrokerFinal
<1> QED BY <1>1, <1>2, <1>3 DEF Records

\* A run that has not read its rows yet, or has ended, has nothing to override.
LEMMA EarlyFits ==
    ASSUME Alone, NEW r \in Runners,
           \/ Start(r) \/ GiveUp(r) \/ PollError(r) \/ Complete(r)
           \/ PersistSignals(r) \/ Generate(r)
    PROVE  OverridesFit(r)' /\ QueueWaits(r)' /\ BookFits'
<1>1. job \in [Runners -> JobRecord] /\ Base /\ BookFits /\ PP!IInv
  BY DEF Alone, Base, JobsOK
<1>2. UNCHANGED liveVars /\ SameOrders /\ FillsGrow
  BY <1>1, OrdersUntouched, FillsUntouched
     DEF Start, GiveUp, PollError, Complete, PersistSignals, Generate, liveVars
<1>3. job'[r].pc \in {"fetching", "idle", "generate", "check"} /\ job'[r].queue = {}
  <2>1. CASE Start(r) \/ GiveUp(r) \/ PollError(r) \/ Complete(r)
    BY <1>1, <2>1 DEF Start, GiveUp, PollError, Complete, Goto, Idle
  <2>2. CASE PersistSignals(r) \/ Generate(r)
    <3>1. job[r].queue = {} /\ job[r] \in JobRecord
      BY <1>1, <2>2, RunnerFacts DEF PersistSignals, Generate, AtOrder
    <3>2. PICK p \in {"generate", "check"} : Goto(r, [job[r] EXCEPT !.pc = p])
      BY <2>2 DEF PersistSignals, Generate
    <3> QED BY <1>1, <3>1, <3>2 DEF Goto, JobRecord
  <2> QED BY <2>1, <2>2
<1>4. OverridesFit(r)' /\ QueueWaits(r)'
  BY <1>3 DEF OverridesFit, QueueWaits, Placing, AtOrder
<1>5. BookFits'
  <2>1. CASE ~Generate(r)
    BY <1>1, <1>2, <2>1, FillsStay DEF Start, GiveUp, PollError, Complete, PersistSignals,
       Paper!PersistSignals, paperVars
  <2>2. CASE Generate(r)
    <3>1. ASSUME NEW i \in 1..Len(live)
          PROVE  orders'[live[i].key].fill <= live[i].fill
      <4>1. PICK k \in Keys : k = live[i].key /\ k[1] <= gen
        BY <1>1, SideFacts DEF Base, QuantitiesAgree, AsksFor
      <4>2. PICK f \in Nat : f = live[i].fill
        BY <1>1, SideFacts
      <4>3. orders[k].fill <= f
        BY <1>1, <4>1, <4>2 DEF BookFits
      <4>4. k[1] # gen + 1
        BY <1>1, <4>1, PaperFacts
      <4>5. orders'[k] \in {orders[k], Paper!NoOrder}
        BY <2>2, <4>4 DEF Generate, Paper!GenerateOrders, Keys
      <4>6. Paper!NoOrder.fill = 0
        BY DEF Paper!NoOrder
      <4> QED BY <4>1, <4>2, <4>3, <4>5, <4>6
    <3>2. UNCHANGED <<live, broker>>
      BY <1>2 DEF liveVars
    <3> QED BY <3>1, <3>2 DEF BookFits
  <2> QED BY <2>1, <2>2
<1> QED BY <1>4, <1>5

\* The rows a run reads are those it generated: none of them was placed.
LEMMA CheckFits ==
    ASSUME Alone, NEW r \in Runners, CheckLive(r)
    PROVE  OverridesFit(r)' /\ QueueWaits(r)' /\ BookFits'
<1>1. /\ job \in [Runners -> JobRecord] /\ Base /\ BookFits /\ PP!IInv
      /\ job[r].pc = "check" /\ job[r] \in JobRecord
  BY DEF Alone, Base, JobsOK, CheckLive, At
<1>2. UNCHANGED <<live, broker, orders, session>> /\ SameOrders /\ FillsGrow
  BY <1>1, OrdersUntouched, FillsUntouched DEF CheckLive, liveVars, paperVars
<1>3. Paper!PendingToday' = Paper!PendingToday
  BY <1>2 DEF Paper!PendingToday
<1>4. job'[r].queue \subseteq Paper!PendingToday
  BY <1>1 DEF CheckLive, Goto, JobRecord
<1>5. ASSUME NEW i \in 1..Len(live) PROVE live[i].key \notin Paper!PendingToday
  <2>1. live[i].key \in Keys /\ gen \in Nat
    BY <1>1, SideFacts, PaperFacts
  <2>2. live[i].key[1] < gen /\ \A k \in Paper!PendingToday : k[1] = gen
    BY <1>1 DEF Base, CheckIsFresh
  <2> QED BY <2>1, <2>2
<1> QED BY <1>1, <1>2, <1>3, <1>4, <1>5, FillsStay DEF OverridesFit, QueueWaits

\* place_orders: an order it is done with has its override.
LEMMA OrderFits ==
    ASSUME Alone, NEW r \in Runners,
           \/ StopPlacing(r) \/ Send(r) \/ Accepted(r) \/ Refused(r) \/ AuthRefused(r)
           \/ PollTerminal(r) \/ PollTimeout(r),
           FillsGrow
    PROVE  OverridesFit(r)' /\ QueueWaits(r)' /\ BookFits'
<1>1. /\ job \in [Runners -> JobRecord] /\ Base /\ BookFits
      /\ OverridesFit(r) /\ QueueWaits(r) /\ job[r] \in JobRecord
      /\ EachPlacedOnce
  BY DEF Alone, Base, JobsOK, OverrideInv
<1>2. SameOrders
  BY <1>1, OrderBase
<1>3. UNCHANGED paperVars
  BY DEF StopPlacing, Send, Accepted, Refused, AuthRefused, PollTerminal, PollTimeout
<1>4. UNCHANGED orders /\ Paper!PendingToday' = Paper!PendingToday
  BY <1>3 DEF paperVars, Paper!PendingToday
<1>5. BookFits'
  BY <1>1, <1>2, <1>4, FillsStay
<1>6. CASE StopPlacing(r) \/ Send(r) \/ Accepted(r)
  <2>1. /\ job'[r].over = job[r].over /\ job'[r].queue \subseteq job[r].queue
        /\ job[r].pc \in {"place"} \cup AtOrder
        /\ \A i \in 1..Len(live) : InHand(r, i) => InHand(r, i)'
    <3>1. CASE StopPlacing(r)
      BY <1>1, <3>1 DEF StopPlacing, At, Goto, JobRecord, AtOrder, InHand
    <3>2. CASE Send(r) \/ Accepted(r)
      <4>1. PICK p \in {"sent", "polling"} : Goto(r, [job[r] EXCEPT !.pc = p])
        BY <3>2 DEF Send, Accepted
      <4>2. /\ job'[r].over = job[r].over /\ job'[r].queue = job[r].queue
            /\ job'[r].row = job[r].row /\ job'[r].pc = p
        BY <1>1, <4>1 DEF Goto, JobRecord
      <4>3. job[r].pc \in AtOrder
        BY <3>2 DEF Send, Accepted, At, AtOrder
      <4> QED BY <4>2, <4>3 DEF AtOrder, InHand
    <3> QED BY <1>6, <3>1, <3>2
  <2>2. ASSUME NEW i \in 1..Len(live), live[i].key \in Paper!PendingToday, ~InHand(r, i)'
        PROVE  /\ job[r].over[live[i].key] # NoOverride
               /\ job[r].over[live[i].key] <= live'[i].fill
    <3>1. /\ job[r].over[live[i].key] # NoOverride
          /\ job[r].over[live[i].key] <= live[i].fill
      BY <1>1, <2>1, <2>2 DEF OverridesFit, Placing
    <3>2. PICK k \in Keys, f \in Nat : k = live[i].key /\ f = live[i].fill
      BY <1>1, SideFacts
    <3>3. job[r].over[k] \in Int
      BY <1>1 DEF JobRecord
    <3>4. live'[i].fill \in Nat /\ f <= live'[i].fill
      BY <3>2 DEF FillsGrow
    <3> QED BY <3>1, <3>2, <3>3, <3>4
  <2>3. OverridesFit(r)' /\ QueueWaits(r)'
    BY <1>1, <1>2, <1>4, <2>1, <2>2 DEF OverridesFit, QueueWaits, SameOrders
  <2> QED BY <1>5, <2>3
<1>7. CASE Refused(r) \/ AuthRefused(r) \/ PollTerminal(r) \/ PollTimeout(r)
  <2>1. PICK n : n = job[r].row
    OBVIOUS
  <2>2. job[r].pc \in {"sent", "polling"} /\ n \in 1..Len(live)
    BY <1>1, <1>7, <2>1, RunnerFacts DEF Refused, AuthRefused, PollTerminal, PollTimeout,
       At, AtOrder
  <2>3. /\ live[n].key \in Keys /\ live \in [1..Len(live) -> LiveOrder]
        /\ live[n].fill \in Nat /\ broker[n] \in BrokerOrder
    BY <1>1, <2>2, SideFacts, LenProperties DEF Base, TablesOK
  <2>4. PICK q \in 0..live'[n].fill :
           /\ job'[r].over = Overridden(r, q) /\ job'[r].pc \in {"place", "closes"}
           /\ job'[r].queue \subseteq job[r].queue
    <3>1. live'[n].fill \in Nat
      BY <2>2 DEF FillsGrow
    <3>2. CASE Refused(r) \/ PollTimeout(r)
      <4>1. Goto(r, [job[r] EXCEPT !.pc = "place", !.over = Overridden(r, 0)])
        BY <3>2 DEF Refused, PollTimeout
      <4>2. 0 \in 0..live'[n].fill
        BY <3>1
      <4> QED BY <1>1, <4>1, <4>2 DEF Goto, JobRecord
    <3>3. CASE AuthRefused(r)
      <4>1. Goto(r, [job[r] EXCEPT !.pc = "closes", !.queue = {}, !.over = Overridden(r, 0)])
        BY <3>3 DEF AuthRefused
      <4>2. 0 \in 0..live'[n].fill
        BY <3>1
      <4> QED BY <1>1, <4>1, <4>2 DEF Goto, JobRecord
    <3>4. CASE PollTerminal(r)
      <4> DEFINE fill == IF broker[n].state = "traded" THEN broker[n].filled ELSE 0
      <4>1. /\ Goto(r, [job[r] EXCEPT !.pc = "place", !.over = Overridden(r, fill)])
            /\ \E status : live' = [live EXCEPT ![n].status = status,
                                               ![n].closed = TRUE, ![n].fill = fill]
        BY <2>1, <3>4 DEF PollTerminal
      <4> HIDE DEF fill
      <4>2. live'[n].fill = fill
        BY <2>2, <2>3, <4>1 DEF LiveOrder
      <4>3. fill \in 0..live'[n].fill
        BY <3>1, <4>2
      <4> QED BY <1>1, <4>1, <4>3 DEF Goto, JobRecord
    <3> QED BY <1>7, <3>2, <3>3, <3>4
  <2>5. \A k \in Keys : job'[r].over[k] = IF k = live[n].key THEN q ELSE job[r].over[k]
    BY <1>1, <2>1, <2>3, <2>4 DEF Overridden, JobRecord
  <2>6. ASSUME NEW i \in 1..Len(live), live[i].key \in Paper!PendingToday
        PROVE  /\ job'[r].over[live[i].key] # NoOverride
               /\ job'[r].over[live[i].key] <= live'[i].fill
    <3>1. /\ live[i].key \in Keys /\ live[i].fill \in Nat
          /\ live'[i].fill \in Nat /\ live[i].fill <= live'[i].fill
      BY <1>1, SideFacts DEF FillsGrow
    <3>2. CASE i = n
      BY <2>4, <2>5, <3>1, <3>2 DEF NoOverride
    <3>3. CASE i # n
      <4>1. live[i].key # live[n].key /\ ~InHand(r, i) /\ job[r].pc \in Placing
        BY <1>1, <2>1, <2>2, <3>3 DEF EachPlacedOnce, InHand, Placing, AtOrder
      <4>2. /\ job[r].over[live[i].key] # NoOverride
            /\ job[r].over[live[i].key] <= live[i].fill
        BY <1>1, <2>6, <4>1 DEF OverridesFit
      <4>3. job[r].over[live[i].key] \in Int
        BY <1>1, <3>1 DEF JobRecord
      <4> QED BY <2>5, <3>1, <4>1, <4>2, <4>3
    <3> QED BY <3>2, <3>3
  <2>7. OverridesFit(r)' /\ QueueWaits(r)'
    BY <1>1, <1>2, <1>4, <2>4, <2>6 DEF OverridesFit, QueueWaits, SameOrders
  <2> QED BY <1>5, <2>7
<1> QED BY <1>6, <1>7

\* A new live order takes a row that waits, so paper has filled nothing of it.
LEMMA PlaceFits ==
    ASSUME Alone, NEW r \in Runners, NEW k \in job[r].queue, Place(r, k)
    PROVE  OverridesFit(r)' /\ QueueWaits(r)' /\ BookFits'
<1> DEFINE n == Len(live')
<1>1. /\ job \in [Runners -> JobRecord] /\ Base /\ BookFits /\ PP!IInv
      /\ OverridesFit(r) /\ QueueWaits(r) /\ job[r] \in JobRecord
  BY DEF Alone, Base, JobsOK, OverrideInv
<1>2. /\ Len(live) \in Nat /\ n = Len(live) + 1
      /\ \A i \in 1..Len(live) : live'[i] = live[i] /\ broker'[i] = broker[i]
      /\ live'[n].key = k /\ live'[n].fill = 0
  BY <1>1, PlaceAppends
<1>3. UNCHANGED orders /\ Paper!PendingToday' = Paper!PendingToday
  BY DEF Place, paperVars, Paper!PendingToday
<1>4. /\ job'[r].over = job[r].over /\ job'[r].queue \subseteq job[r].queue
      /\ job'[r].pc = "send" /\ job'[r].row = n /\ job[r].pc = "place"
  BY <1>1, <1>2 DEF Place, At, Goto, JobRecord
<1> HIDE DEF n
<1>5. \A i \in 1..n : i = n \/ i \in 1..Len(live)
  BY <1>2
<1>6. OverridesFit(r)'
  <2>1. \A i \in 1..n : ~InHand(r, i)' => i \in 1..Len(live)
    BY <1>4, <1>5 DEF InHand, AtOrder
  <2>2. \A i \in 1..Len(live) : ~InHand(r, i)
    BY <1>4 DEF InHand, AtOrder
  <2>3. \A i \in 1..Len(live) : live[i].key \in Paper!PendingToday =>
           /\ job[r].over[live[i].key] # NoOverride
           /\ job[r].over[live[i].key] <= live[i].fill
    BY <1>1, <1>4, <2>2 DEF OverridesFit, Placing
  <2> QED BY <1>2, <1>3, <1>4, <2>1, <2>3 DEF OverridesFit, n
<1>7. QueueWaits(r)'
  BY <1>1, <1>3, <1>4 DEF QueueWaits
<1>8. BookFits'
  <2>1. orders[k].fill = 0
    BY <1>1, PaperFacts DEF QueueWaits
  <2>2. \A i \in 1..n : orders'[live'[i].key].fill <= live'[i].fill
    BY <1>1, <1>2, <1>3, <1>5, <2>1 DEF BookFits
  <2> QED BY <2>2 DEF BookFits, n
<1> QED BY <1>6, <1>7, <1>8

\* One iteration of execute_orders settles one row that waits, at its override
\* or below.
LEMMA RowFills ==
    ASSUME Base, NEW r \in Runners, NEW k \in rows, NEW price \in Prices \cup {0},
           ExecuteRow(r, k, price)
    PROVE  /\ k \in Paper!PendingToday /\ Paper!PendingToday' = Paper!PendingToday \ {k}
           /\ rows = Paper!PendingToday /\ rows' = rows \ {k} /\ session' = session
           /\ \A j \in Keys : j # k => orders'[j] = orders[j]
           /\ orders'[k].fill \in Nat
           /\ \E q \in Nat : /\ orders'[k].fill <= q
                             /\ job[r].over[k] # NoOverride => q = job[r].over[k]
<1>1. PP!IInv
  BY DEF Base
<1>2. PICK q \in 0..orders[k].qty :
         /\ Paper!ExecuteRow(k, q, price)
         /\ job[r].over[k] # NoOverride => q = job[r].over[k]
  BY ExecuteRowRefines
<1>3. k \in Keys /\ orders[k].qty \in Nat
  BY <1>1, PaperFacts
<1>4. q \in Nat
  BY <1>3
<1>5. PP!ExecuteRow(k, q, price)
  BY <1>2 DEF Paper!ExecuteRow, PP!ExecuteRow, Paper!SkipRow, PP!SkipRow,
    Paper!SellRow, PP!SellRow, Paper!BuyRow, PP!BuyRow, Paper!Skip, PP!Skip,
    Paper!FillSell, PP!FillSell, Paper!FillBuy, PP!FillBuy,
    Paper!Settle, PP!Settle, Paper!PassesGate, PP!PassesGate,
    Paper!Fits, PP!Fits, Paper!BuyCost, PP!BuyCost,
    Paper!SellProceeds, PP!SellProceeds, Paper!Charges, PP!Charges,
    Paper!IsNext, PP!IsNext, Paper!Rank, PP!Rank, Paper!Sells, PP!Sells,
    Paper!ledger, PP!ledger
<1>6. PP!PendingToday = Paper!PendingToday /\ PP!Keys = Keys
  BY DEF PP!PendingToday, Paper!PendingToday, PP!Keys, Paper!Keys, Keys
<1>7. PP!PendingToday' = Paper!PendingToday'
  BY DEF PP!PendingToday, Paper!PendingToday, PP!Keys, Paper!Keys
<1>8. /\ k \in PP!PendingToday /\ PP!PendingToday' = PP!PendingToday \ {k}
      /\ rows = PP!PendingToday /\ rows' = rows \ {k} /\ session' = session
      /\ \A j \in PP!Keys : j # k => orders'[j] = orders[j]
      /\ orders'[k].fill <= q
  BY <1>1, <1>4, <1>5, PP!ExecuteRowFacts, PaperAssumption
<1>9. PP!IInv'
  BY <1>1, StepRefines, PaperStep DEF Next, Progress
<1>10. orders'[k].fill \in Nat
  BY <1>3, <1>6, <1>9 DEF PP!IInv, PP!TypeOK, PP!Order
<1> QED BY <1>2, <1>4, <1>6, <1>7, <1>8, <1>10

\* execute_orders fills a row that was placed at its override.
LEMMA FillFits ==
    ASSUME Alone, NEW r \in Runners,
           \/ BeginExecute(r)
           \/ \E k \in rows, price \in Prices \cup {0} : ExecuteRow(r, k, price)
    PROVE  OverridesFit(r)' /\ QueueWaits(r)' /\ BookFits'
<1>1. /\ job \in [Runners -> JobRecord] /\ Base /\ BookFits /\ PP!IInv
      /\ OverridesFit(r) /\ QueueWaits(r) /\ job[r] \in JobRecord
  BY DEF Alone, Base, JobsOK, OverrideInv
<1>2. UNCHANGED <<live, broker>> /\ SameOrders /\ FillsGrow
  BY <1>1, OrdersUntouched, FillsUntouched DEF BeginExecute, ExecuteRow, liveVars
<1>3. /\ job'[r].over = job[r].over /\ job'[r].queue = {}
      /\ job[r].pc \in {"closes", "execute"} /\ job'[r].pc = "execute"
  <2>1. job[r].queue = {} /\ job[r].pc \in {"closes", "execute"}
    BY <1>1, RunnerFacts DEF BeginExecute, ExecuteRow, At, AtOrder
  <2>2. CASE BeginExecute(r)
    <3>1. Goto(r, [job[r] EXCEPT !.pc = "execute"])
      BY <2>2 DEF BeginExecute
    <3> QED BY <1>1, <2>1, <3>1 DEF Goto, JobRecord
  <2>3. CASE \E k \in rows, price \in Prices \cup {0} : ExecuteRow(r, k, price)
    BY <2>1, <2>3 DEF ExecuteRow, At
  <2> QED BY <2>2, <2>3
<1>4. \A i \in 1..Len(live) : live[i].key \in Paper!PendingToday =>
         /\ job[r].over[live[i].key] # NoOverride
         /\ job[r].over[live[i].key] <= live[i].fill
  BY <1>1, <1>3 DEF OverridesFit, Placing, InHand, AtOrder
<1>5. Paper!PendingToday' \subseteq Paper!PendingToday /\ BookFits'
  <2>1. CASE BeginExecute(r)
    <3>1. UNCHANGED <<orders, session>>
      BY <2>1 DEF BeginExecute, Paper!BeginExecute
    <3> QED BY <1>1, <1>2, <3>1, FillsStay DEF Paper!PendingToday
  <2>2. CASE \E k \in rows, price \in Prices \cup {0} : ExecuteRow(r, k, price)
    <3>1. PICK k \in rows, price \in Prices \cup {0} : ExecuteRow(r, k, price)
      BY <2>2
    <3>2. PICK q \in Nat : /\ orders'[k].fill <= q
                           /\ job[r].over[k] # NoOverride => q = job[r].over[k]
      BY <1>1, <3>1, RowFills
    <3>3. /\ k \in Paper!PendingToday /\ Paper!PendingToday' = Paper!PendingToday \ {k}
          /\ \A j \in Keys : j # k => orders'[j] = orders[j]
          /\ orders'[k].fill \in Nat
      BY <1>1, <3>1, RowFills
    <3>4. ASSUME NEW i \in 1..Len(live)
          PROVE  orders'[live[i].key].fill <= live[i].fill
      <4>1. live[i].key \in Keys /\ live[i].fill \in Nat
        BY <1>1, SideFacts
      <4>2. CASE live[i].key # k
        BY <1>1, <3>3, <4>1, <4>2 DEF BookFits
      <4>3. CASE live[i].key = k
        <5>1. q = job[r].over[k] /\ job[r].over[k] <= live[i].fill
          BY <1>4, <3>2, <3>3, <4>3
        <5> QED BY <3>2, <3>3, <4>1, <4>3, <5>1
      <4> QED BY <4>2, <4>3
    <3> QED BY <1>2, <3>3, <3>4 DEF BookFits
  <2> QED BY <2>1, <2>2
<1>6. OverridesFit(r)'
  BY <1>2, <1>3, <1>4, <1>5 DEF OverridesFit
<1> QED BY <1>3, <1>5, <1>6 DEF QueueWaits

\* Whatever one run does alone.
LEMMA RunAlone ==
    ASSUME Alone, NEW r \in Runners, Start(r) \/ Progress(r) \/ Fail(r),
           Start(r) => \A q \in Runners : ~Running(q)
    PROVE  Alone'
<1>1. /\ Base /\ Base' /\ OneAtATime' /\ Records
      /\ \A q \in Runners : q # r => job'[q].pc = "idle" /\ job'[q].queue = {}
  BY NextBase, OthersAreIdle DEF Alone, Next
<1>4. Records' /\ (FillsGrow \/ \E k \in job[r].queue : Place(r, k))
  BY <1>1, RunRecords
<1>2. OverridesFit(r)' /\ QueueWaits(r)' /\ BookFits'
  BY <1>4, EarlyFits, CheckFits, OrderFits, PlaceFits, FillFits DEF Progress, Fail
<1>3. ASSUME NEW q \in Runners PROVE OverridesFit(q)' /\ QueueWaits(q)'
  BY <1>1, <1>2 DEF OverridesFit, QueueWaits, Placing, AtOrder
<1> QED BY <1>1, <1>2, <1>3, <1>4 DEF Alone, OverrideInv

\* The other processes, the broker, a death, a new day.
LEMMA OutsideAlone ==
    ASSUME Alone, \/ ToggleLive \/ Crash \/ NextSession \/ UNCHANGED vars
                  \/ \E i \in 1..Len(broker) : BrokerMoves(i)
    PROVE  Alone'
<1>1. /\ Base /\ Base' /\ OneAtATime /\ OverrideInv /\ BookFits /\ Records'
      /\ job \in [Runners -> JobRecord]
  BY NextBase, OutsideRecords DEF Alone, Next, Base, JobsOK
<1>2. SameOrders /\ UNCHANGED <<orders, live>> /\ FillsGrow
  <2>1. CASE ToggleLive \/ \E i \in 1..Len(broker) : BrokerMoves(i)
    BY <1>1, <2>1, OutsideBase, FillsUntouched DEF ToggleLive, BrokerMoves, paperVars
  <2>2. CASE Crash \/ NextSession \/ UNCHANGED vars
    BY <1>1, <2>2, OrdersUntouched, FillsUntouched DEF Crash, NextSession, vars, liveVars, paperVars,
       Paper!Crash, Paper!NextSession, Paper!ledger
  <2> QED BY <2>1, <2>2
<1>3. BookFits'
  BY <1>1, <1>2, FillsStay
<1>4. CASE \A r \in Runners : job'[r] = Idle
  <2>1. \A r \in Runners : ~(job'[r].pc \in Placing) /\ job'[r].queue = {} /\ ~Running(r)'
    BY <1>4, IdleFacts DEF Placing, AtOrder, Running
  <2> QED BY <1>1, <1>3, <2>1 DEF Alone, OneAtATime, OverrideInv, OverridesFit, QueueWaits
<1>5. CASE UNCHANGED <<job, session>>
  <2>1. Paper!PendingToday' = Paper!PendingToday
    BY <1>2, <1>5 DEF Paper!PendingToday
  <2>2. \A r \in Runners : OverridesFit(r)' /\ QueueWaits(r)'
    BY <1>1, <1>2, <1>5, <2>1 DEF OverrideInv, OverridesFit, QueueWaits, InHand
  <2> QED BY <1>1, <1>3, <1>5, <2>2 DEF Alone, OneAtATime, Running, OverrideInv
<1>6. (\A r \in Runners : job'[r] = Idle) \/ UNCHANGED <<job, session>>
  BY DEF ToggleLive, Crash, NextSession, BrokerMoves, vars, paperVars
<1> QED BY <1>4, <1>5, <1>6

\* The initial state satisfies Alone.
LEMMA InitAlone == Init => Alone
<1> SUFFICES ASSUME Init PROVE Alone
  OBVIOUS
<1>1. Base /\ \A r \in Runners : job[r] = Idle
  BY InitBase DEF Init
<1>2. Len(live) = 0
  BY EmptySeq DEF Init
<1>3. \A i \in 1..Len(live) : FALSE
  BY <1>2
<1> QED BY <1>1, <1>3, IdleFacts DEF Alone, OneAtATime, Running, OverrideInv,
           OverridesFit, QueueWaits, BookFits, Records, HandOpen

\* With runs that do not overlap, paper books no fill the broker did not make,
\* whatever is rejected, lost, partly filled, timed out or cut off by a death.
THEOREM AloneNeverExceedsLive == Spec /\ NoOverlap => []PaperNeverExceedsLive
<1>1. Init => Alone
  BY InitAlone
<1>2. /\ Alone /\ [Next]_vars
      /\ [\A r \in Runners : Start(r) => \A q \in Runners : ~Running(q)]_vars
      => Alone'
  BY RunAlone, OutsideAlone DEF Next, vars
<1>3. ASSUME Alone PROVE PaperNeverExceedsLive
  <2>1. Base /\ Records /\ BookFits
    BY <1>3 DEF Alone
  <2>2. ASSUME NEW i \in 1..Len(live) PROVE orders[live[i].key].fill <= broker[i].filled
    <3>1. PICK k \in Keys, f \in Nat : k = live[i].key /\ f = live[i].fill
      BY <2>1, SideFacts
    <3>2. orders[k].fill \in Nat /\ orders[k].fill <= f
      BY <2>1, <3>1, PaperFacts DEF Base, BookFits
    <3>3. broker[i].filled \in 0..live[i].qty /\ live[i].qty \in Nat
      BY <2>1, SideFacts
    <3>4. f <= broker[i].filled
      BY <2>1, <3>1, <3>3 DEF Records, Recorded, Followed, GivenUp
    <3> QED BY <3>1, <3>2, <3>3, <3>4
  <2> QED BY <2>2 DEF PaperNeverExceedsLive
<1> QED BY <1>1, <1>2, <1>3, PTL DEF Spec, NoOverlap

-----------------------------------------------------------------------------
(***************************************************************************)
(* One run a day: one order per symbol, and a day that is settled          *)
(***************************************************************************)

\* Where a step of a run can lead: it enters place_orders from the rows it has
\* read, and its queue grows there only.
LEMMA RunFlow ==
    ASSUME Base, NEW r \in Runners, Start(r) \/ Progress(r) \/ Fail(r)
    PROVE  /\ session' = session
           /\ \/ Start(r) \/ job'[r].pc \in {"idle"} \cup Placing
              \/ Running(r) /\ job[r].pc \notin Placing
           /\ CheckLive(r) \/ job'[r].queue \subseteq job[r].queue
           /\ done' = done \/ Complete(r)
<1>1. job \in [Runners -> JobRecord] /\ job[r] \in JobRecord
  BY DEF Base, JobsOK
<1>2. CASE Start(r) \/ GiveUp(r) \/ PollError(r) \/ Complete(r)
  <2>1. job'[r].queue = {} /\ (Start(r) \/ job'[r].pc = "idle")
    BY <1>1, <1>2 DEF Start, GiveUp, PollError, Complete, Goto, Idle
  <2>2. session' = session /\ (done' = done \/ Complete(r))
    BY <1>2 DEF Start, GiveUp, PollError, Complete, paperVars, dayVars
  <2> QED BY <2>1, <2>2
<1>3. CASE PersistSignals(r) \/ Generate(r)
  <2>1. job'[r].queue = job[r].queue
    <3>1. PICK p \in {"generate", "check"} : Goto(r, [job[r] EXCEPT !.pc = p])
      BY <1>3 DEF PersistSignals, Generate
    <3> QED BY <1>1, <3>1 DEF Goto, JobRecord
  <2>2. Running(r) /\ job[r].pc \notin Placing
    BY <1>3 DEF PersistSignals, Generate, At, Running, Placing, AtOrder
  <2>3. session' = session /\ done' = done
    BY <1>3 DEF PersistSignals, Generate, dayVars, Paper!PersistSignals, Paper!GenerateOrders
  <2> QED BY <2>1, <2>2, <2>3
<1>4. CASE CheckLive(r)
  BY <1>4 DEF CheckLive, At, Running, Placing, AtOrder, paperVars, dayVars
<1>5. CASE BeginExecute(r)
  <2>1. Goto(r, [job[r] EXCEPT !.pc = "execute"]) /\ session' = session /\ done' = done
    BY <1>5 DEF BeginExecute, Paper!BeginExecute, dayVars
  <2> QED BY <1>1, <2>1 DEF Goto, JobRecord, Placing
<1>6. CASE \E k \in rows, price \in Prices \cup {0} : ExecuteRow(r, k, price)
  <2>1. session' = session
    BY <1>6, RowFills
  <2> QED BY <1>6, <2>1 DEF ExecuteRow, At, Placing, dayVars
<1>7. CASE \/ StopPlacing(r) \/ \E k \in job[r].queue : Place(r, k)
           \/ Send(r) \/ Accepted(r) \/ Refused(r) \/ AuthRefused(r)
           \/ PollTerminal(r) \/ PollTimeout(r)
  <2>1. session' = session /\ done' = done
    BY <1>7 DEF StopPlacing, Place, Send, Accepted, Refused, AuthRefused,
       PollTerminal, PollTimeout, paperVars, dayVars
  <2>2. job'[r].pc \in Placing /\ job'[r].queue \subseteq job[r].queue
    <3>1. CASE StopPlacing(r) \/ AuthRefused(r)
      <4>1. CASE StopPlacing(r)
        BY <1>1, <4>1 DEF StopPlacing, Goto, JobRecord, Placing
      <4>2. CASE AuthRefused(r)
        <5>1. Goto(r, [job[r] EXCEPT !.pc = "closes", !.queue = {}, !.over = Overridden(r, 0)])
          BY <4>2 DEF AuthRefused
        <5> QED BY <1>1, <5>1 DEF Goto, JobRecord, Placing
      <4> QED BY <3>1, <4>1, <4>2
    <3>2. CASE \E k \in job[r].queue : Place(r, k)
      <4>1. PICK k \in job[r].queue :
               Goto(r, [job[r] EXCEPT !.pc = "send", !.row = Len(live) + 1,
                                      !.queue = job[r].queue \ {k}])
        BY <3>2 DEF Place
      <4> QED BY <1>1, <4>1 DEF Goto, JobRecord, Placing, AtOrder
    <3>3. CASE Send(r) \/ Accepted(r)
      <4>1. PICK p \in {"sent", "polling"} : Goto(r, [job[r] EXCEPT !.pc = p])
        BY <3>3 DEF Send, Accepted
      <4> QED BY <1>1, <4>1 DEF Goto, JobRecord, Placing, AtOrder
    <3>4. CASE Refused(r) \/ PollTerminal(r) \/ PollTimeout(r)
      <4>1. PICK q : Goto(r, [job[r] EXCEPT !.pc = "place", !.over = Overridden(r, q)])
        BY <3>4 DEF Refused, PollTerminal, PollTimeout
      <4> QED BY <1>1, <4>1 DEF Goto, JobRecord, Placing
    <3> QED BY <1>7, <3>1, <3>2, <3>3, <3>4
  <2> QED BY <2>1, <2>2
<1> QED BY <1>2, <1>3, <1>4, <1>5, <1>6, <1>7 DEF Progress, Fail

\* A run that is the first to send orders today sends none for a symbol twice.
LEMMA RunDiffers ==
    ASSUME Base, SymbolsDiffer, NEW r \in Runners, FreshSymbols(r),
           Start(r) \/ Progress(r) \/ Fail(r),
           Start(r) => \A i \in 1..Len(live) : live[i].session # session
    PROVE  SymbolsDiffer' /\ FreshSymbols(r)'
<1>1. /\ job \in [Runners -> JobRecord] /\ job[r] \in JobRecord /\ PP!IInv
      /\ \A i \in 1..Len(live) : live[i].session <= session
      /\ \A q \in Runners : job[q].pc = "idle" => job[q].queue = {}
  BY DEF Base, JobsOK, TablesOK, AtOrder
<1>2. /\ session' = session
      /\ \/ Start(r) \/ job'[r].pc \in {"idle"} \cup Placing
         \/ Running(r) /\ job[r].pc \notin Placing
      /\ CheckLive(r) \/ job'[r].queue \subseteq job[r].queue
      /\ Start(r) \/ Running(r)
  BY RunFlow, RunMoves
<1>3. CASE SameOrders
  <2>1. SymbolsDiffer'
    BY <1>3 DEF SymbolsDiffer, SameOrders
  <2>2. ASSUME Running(r)', job'[r].pc \notin Placing, NEW i \in 1..Len(live)
        PROVE  live'[i].session # session'
    BY <1>2, <1>3, <2>2 DEF FreshSymbols, SameOrders, Running
  <2>3. ASSUME NEW k \in job'[r].queue
        PROVE  /\ \A i \in 1..Len(live) : live'[i].session = session' => live'[i].key[2] # k[2]
               /\ \A j \in job'[r].queue : j # k => j[2] # k[2]
    <3>1. CASE CheckLive(r)
      <4>1. job'[r].queue \subseteq Paper!PendingToday
        BY <1>1, <3>1 DEF CheckLive, Goto, JobRecord
      <4>2. \A i \in 1..Len(live) : live[i].session # session
        BY <1>2, <3>1 DEF FreshSymbols, CheckLive, At, Running, Placing, AtOrder
      <4> QED BY <1>1, <1>2, <1>3, <4>1, <4>2, PaperFacts DEF SameOrders
    <3>2. CASE ~CheckLive(r)
      <4>1. job'[r].queue \subseteq job[r].queue /\ k \in job[r].queue
        BY <1>2, <3>2
      <4>2. Running(r)
        BY <1>1, <4>1 DEF Running
      <4> QED BY <1>2, <1>3, <4>1, <4>2 DEF FreshSymbols, SameOrders
    <3> QED BY <3>1, <3>2
  <2> QED BY <1>3, <2>1, <2>2, <2>3 DEF FreshSymbols, SameOrders
<1>4. CASE \E k \in job[r].queue : Place(r, k)
  <2>1. PICK k \in job[r].queue : Place(r, k)
    BY <1>4
  <2> DEFINE n == Len(live')
  <2>2. /\ Len(live) \in Nat /\ n = Len(live) + 1
        /\ \A i \in 1..Len(live) : live'[i] = live[i]
        /\ live'[n].key = k /\ live'[n].session = session
    BY <2>1, PlaceAppends
  <2>3. job'[r].queue = job[r].queue \ {k} /\ job'[r].pc = "send" /\ Running(r)
    BY <1>1, <2>1 DEF Place, Goto, JobRecord, At, Running
  <2>4. /\ \A i \in 1..Len(live) : live[i].session = session => live[i].key[2] # k[2]
        /\ \A j \in job[r].queue : j # k => j[2] # k[2]
        /\ \A j \in job[r].queue, i \in 1..Len(live) :
              live[i].session = session => live[i].key[2] # j[2]
        /\ \A h, j \in job[r].queue : j # h => j[2] # h[2]
    BY <2>1, <2>3 DEF FreshSymbols
  <2> HIDE DEF n
  <2>5. \A i \in 1..n : i = n \/ i \in 1..Len(live)
    BY <2>2
  <2>6. SymbolsDiffer'
    <3>1. ASSUME NEW i \in 1..n, NEW j \in 1..n, i # j,
                 live'[i].session = live'[j].session
          PROVE  live'[i].key[2] # live'[j].key[2]
      BY <2>2, <2>4, <2>5, <3>1 DEF SymbolsDiffer
    <3> QED BY <3>1 DEF SymbolsDiffer, n
  <2>7. FreshSymbols(r)'
    <3>1. ASSUME NEW j \in job'[r].queue, NEW i \in 1..n, live'[i].session = session
          PROVE  live'[i].key[2] # j[2]
      BY <2>2, <2>3, <2>4, <2>5, <3>1
    <3>2. \A h, j \in job'[r].queue : j # h => j[2] # h[2]
      BY <2>3, <2>4
    <3> QED BY <1>2, <2>3, <3>1, <3>2 DEF FreshSymbols, Placing, AtOrder, n
  <2> QED BY <2>6, <2>7
<1>5. SameOrders \/ \E k \in job[r].queue : Place(r, k)
  <2>1. CASE ~(\E k \in job[r].queue : Place(r, k))
    <3>1. UNCHANGED liveVars => SameOrders
      BY OrdersUntouched DEF liveVars
    <3>2. \/ UNCHANGED liveVars \/ Send(r) \/ Accepted(r) \/ Refused(r) \/ AuthRefused(r)
          \/ PollTerminal(r) \/ PollTimeout(r)
      BY <2>1 DEF Progress, Fail, Start, GiveUp, PollError, PersistSignals, Generate,
         CheckLive, StopPlacing, BeginExecute, ExecuteRow, Complete
    <3> QED BY <3>1, <3>2, OrderBase
  <2> QED BY <2>1
<1> QED BY <1>3, <1>4, <1>5

\* A run leaves an order of today closed, or has it in hand, and fills all the
\* rows that wait.
LEMMA RunKeepsDay ==
    ASSUME Base, NEW r \in Runners, DayOpen(r), Start(r) \/ Progress(r) \/ Fail(r),
           Start(r) => \A i \in 1..Len(live) : live[i].session # session
    PROVE  DayOpen(r)'
<1>1. /\ job \in [Runners -> JobRecord] /\ job[r] \in JobRecord
      /\ live \in [1..Len(live) -> LiveOrder] /\ Len(live) \in Nat
      /\ session' = session /\ (done' = done \/ Complete(r))
      /\ Start(r) \/ Running(r)
  BY RunFlow, RunMoves, LenProperties DEF Base, JobsOK, TablesOK
<1>2. CASE Start(r)
  <2>1. Goto(r, [Idle EXCEPT !.pc = "fetching"]) /\ UNCHANGED <<session, done, live>>
        /\ session \notin done
    BY <1>2 DEF Start, liveVars, paperVars
  <2>2. job'[r].pc = "fetching"
    BY <1>1, <2>1 DEF Goto, Idle
  <2> QED BY <1>2, <2>1, <2>2 DEF DayOpen
<1>3. CASE GiveUp(r) \/ PollError(r) \/ Complete(r)
  <2>1. job'[r].pc = "idle"
    BY <1>1, <1>3, IdleFacts DEF GiveUp, PollError, Complete, Goto
  <2> QED BY <2>1 DEF DayOpen, Running
<1>4. ASSUME Running(r)
      PROVE  /\ session \notin done
             /\ \A i \in 1..Len(live) : live[i].session = session => live[i].closed \/ InHand(r, i)
  BY <1>4 DEF DayOpen
<1>5. CASE \/ PersistSignals(r) \/ Generate(r) \/ CheckLive(r) \/ StopPlacing(r)
           \/ BeginExecute(r)
           \/ \E k \in rows, price \in Prices \cup {0} : ExecuteRow(r, k, price)
  <2>1. UNCHANGED <<live, done>>
    BY <1>5 DEF PersistSignals, Generate, CheckLive, StopPlacing, BeginExecute,
       ExecuteRow, liveVars, dayVars
  <2>2. job[r].pc \notin AtOrder /\ Running(r)
    BY <1>5 DEF PersistSignals, Generate, CheckLive, StopPlacing, BeginExecute,
       ExecuteRow, At, AtOrder, Running
  <2>3. \A i \in 1..Len(live) : live[i].session = session => live[i].closed
    BY <1>4, <2>2 DEF InHand
  <2>4. job'[r].pc = "execute" => rows' = Paper!PendingToday'
    <3>1. CASE PersistSignals(r) \/ Generate(r)
      <4>1. PICK p \in {"generate", "check"} : Goto(r, [job[r] EXCEPT !.pc = p])
        BY <3>1 DEF PersistSignals, Generate
      <4> QED BY <1>1, <4>1 DEF Goto, JobRecord
    <3>2. CASE CheckLive(r)
      BY <1>1, <3>2 DEF CheckLive, Goto, JobRecord
    <3>3. CASE StopPlacing(r)
      BY <1>1, <3>3 DEF StopPlacing, Goto, JobRecord
    <3>4. CASE BeginExecute(r)
      BY <3>4 DEF BeginExecute, Paper!BeginExecute, Paper!PendingToday
    <3>5. CASE \E k \in rows, price \in Prices \cup {0} : ExecuteRow(r, k, price)
      BY <3>5, RowFills
    <3> QED BY <1>5, <3>1, <3>2, <3>3, <3>4, <3>5
  <2> QED BY <1>1, <1>4, <2>1, <2>2, <2>3, <2>4 DEF DayOpen
<1>6. CASE \/ \E k \in job[r].queue : Place(r, k)
           \/ Send(r) \/ Accepted(r) \/ Refused(r) \/ AuthRefused(r)
           \/ PollTerminal(r) \/ PollTimeout(r)
  <2>1. Running(r) /\ UNCHANGED done
    BY <1>6 DEF Place, Send, Accepted, Refused, AuthRefused, PollTerminal, PollTimeout,
       At, Running, dayVars
  <2>2. PICK n : n = job[r].row
    OBVIOUS
  <2>3. CASE \E k \in job[r].queue : Place(r, k)
    <3>1. PICK k \in job[r].queue : Place(r, k)
      BY <2>3
    <3>2. /\ Len(live') = Len(live) + 1
          /\ \A i \in 1..Len(live) : live'[i] = live[i]
      BY <3>1, PlaceAppends
    <3>3. job'[r].pc = "send" /\ job'[r].row = Len(live) + 1 /\ job[r].pc = "place"
      BY <1>1, <3>1 DEF Place, At, Goto, JobRecord
    <3>4. ASSUME NEW i \in 1..Len(live'), live'[i].session = session
          PROVE  live'[i].closed \/ InHand(r, i)'
      <4>1. i = Len(live) + 1 \/ i \in 1..Len(live)
        BY <1>1, <3>2
      <4> QED BY <1>4, <2>1, <3>2, <3>3, <3>4, <4>1 DEF InHand, AtOrder
    <3> QED BY <1>1, <1>4, <2>1, <3>3, <3>4 DEF DayOpen
  <2>4. CASE Send(r)
    <3>1. UNCHANGED live /\ Goto(r, [job[r] EXCEPT !.pc = "sent"]) /\ job[r].pc = "send"
      BY <2>4 DEF Send, At
    <3>2. job'[r].pc = "sent" /\ job'[r].row = job[r].row
      BY <1>1, <3>1 DEF Goto, JobRecord
    <3> QED BY <1>1, <1>4, <2>1, <3>1, <3>2 DEF DayOpen, InHand, AtOrder
  <2>5. CASE Accepted(r)
    <3>1. live' = [live EXCEPT ![n].status = "TRANSIT"] /\ job[r].pc = "sent"
          /\ Goto(r, [job[r] EXCEPT !.pc = "polling"]) /\ Len(live') = Len(live)
      BY <2>2, <2>5, OrderBase DEF Accepted, At, SameOrders
    <3>2. job'[r].pc = "polling" /\ job'[r].row = job[r].row
      BY <1>1, <3>1 DEF Goto, JobRecord
    <3>3. \A i \in 1..Len(live) :
                live'[i].closed = live[i].closed /\ live'[i].session = live[i].session
      BY <1>1, <3>1 DEF LiveOrder
    <3> QED BY <1>1, <1>4, <2>1, <3>1, <3>2, <3>3 DEF DayOpen, InHand, AtOrder
  <2>6. CASE Refused(r) \/ AuthRefused(r) \/ PollTerminal(r) \/ PollTimeout(r)
    <3>1. job'[r].pc \in {"place", "closes"}
      <4>1. CASE Refused(r) \/ PollTerminal(r) \/ PollTimeout(r)
        <5>1. PICK q : Goto(r, [job[r] EXCEPT !.pc = "place", !.over = Overridden(r, q)])
          BY <4>1 DEF Refused, PollTerminal, PollTimeout
        <5> QED BY <1>1, <5>1 DEF Goto, JobRecord
      <4>2. CASE AuthRefused(r)
        <5>1. Goto(r, [job[r] EXCEPT !.pc = "closes", !.queue = {}, !.over = Overridden(r, 0)])
          BY <4>2 DEF AuthRefused
        <5> QED BY <1>1, <5>1 DEF Goto, JobRecord
      <4> QED BY <2>6, <4>1, <4>2
    <3>2. /\ Len(live') = Len(live)
          /\ \A i \in 1..Len(live) : live'[i].session = live[i].session
      BY <2>6, OrderBase DEF SameOrders
    <3>3. /\ n \in 1..Len(live) => live'[n].closed
          /\ \A i \in 1..Len(live) : i # n => live'[i] = live[i]
      <4>1. CASE Refused(r) \/ AuthRefused(r)
        BY <1>1, <2>2, <4>1 DEF Refused, AuthRefused, RecordReject, LiveOrder
      <4>2. CASE PollTimeout(r)
        BY <1>1, <2>2, <4>2 DEF PollTimeout, LiveOrder
      <4>3. CASE PollTerminal(r)
        <5>1. PICK status, fill : live' = [live EXCEPT ![n].status = status,
                                             ![n].closed = TRUE, ![n].fill = fill]
          BY <2>2, <4>3 DEF PollTerminal
        <5> QED BY <1>1, <5>1 DEF LiveOrder
      <4> QED BY <2>6, <4>1, <4>2, <4>3
    <3>4. \A i \in 1..Len(live) : live[i].session = session => live'[i].closed
      BY <1>4, <2>1, <2>2, <3>3 DEF InHand
    <3> QED BY <1>1, <1>4, <2>1, <3>1, <3>2, <3>4 DEF DayOpen
  <2> QED BY <1>6, <2>3, <2>4, <2>5, <2>6
<1> QED BY <1>2, <1>3, <1>5, <1>6 DEF Progress, Fail

\* Whatever the run of the day does.
LEMMA RunFirst ==
    ASSUME FirstRun, NEW r \in Runners, Start(r) \/ Progress(r) \/ Fail(r),
           Start(r) => \A q \in Runners : ~Running(q),
           Start(r) => \A i \in 1..Len(live) : live[i].session # session
    PROVE  FirstRun'
<1>1. /\ Alone /\ Base /\ OneAtATime /\ SymbolsDiffer /\ DayClosed
      /\ FreshSymbols(r) /\ DayOpen(r)
      /\ \A q \in Runners : Running(q) \/ job[q] = Idle
  BY DEF FirstRun, Alone, DayInv
<1>2. Alone' /\ SymbolsDiffer' /\ FreshSymbols(r)' /\ DayOpen(r)'
  BY <1>1, RunAlone, RunDiffers, RunKeepsDay
<1>3. /\ \A q \in Runners : q # r =>
            job'[q] = job[q] /\ job'[q].pc = "idle" /\ job'[q].queue = {}
      /\ Start(r) \/ Running(r)
      /\ job'[r].pc = "idle" => job'[r] = Idle
      /\ session' = session /\ (done' = done \/ Complete(r))
  BY <1>1, OthersAreIdle, RunMoves, RunFlow
<1>4. ASSUME NEW q \in Runners
      PROVE  FreshSymbols(q)' /\ DayOpen(q)' /\ (Running(q)' \/ job'[q] = Idle)
  <2>1. CASE q = r
    BY <1>2, <1>3, <2>1 DEF Running
  <2>2. CASE q # r
    BY <1>1, <1>3, <2>2 DEF FreshSymbols, DayOpen, Running
  <2> QED BY <2>1, <2>2
<1>5. DayClosed'
  <2>1. CASE Complete(r)
    <3>1. /\ UNCHANGED <<live, orders, session>> /\ rows = {} /\ job[r].pc = "execute"
      BY <2>1 DEF Complete, At, liveVars, paperVars
    <3>2. rows = Paper!PendingToday
          /\ \A i \in 1..Len(live) : live[i].session = session => live[i].closed
      BY <1>1, <3>1 DEF DayOpen, Running, InHand, AtOrder
    <3> QED BY <3>1, <3>2 DEF DayClosed, Paper!PendingToday
  <2>2. CASE Start(r)
    <3>1. job \in [Runners -> JobRecord] /\ Goto(r, [Idle EXCEPT !.pc = "fetching"])
      BY <1>1, <2>2 DEF Base, JobsOK, Start
    <3>2. job'[r].pc = "fetching"
      BY <3>1 DEF Goto, Idle
    <3> QED BY <3>2, IdleFacts DEF DayClosed, Quiet
  <2>3. CASE ~Complete(r) /\ ~Start(r)
    <3>1. session' \notin done'
      BY <1>1, <1>3, <2>3 DEF DayOpen
    <3> QED BY <3>1 DEF DayClosed
  <2> QED BY <2>1, <2>2, <2>3
<1> QED BY <1>2, <1>4, <1>5 DEF FirstRun, DayInv

\* The other processes, the broker, a death, a new day.
LEMMA OutsideFirst ==
    ASSUME FirstRun, \/ ToggleLive \/ Crash \/ NextSession \/ UNCHANGED vars
                     \/ \E i \in 1..Len(broker) : BrokerMoves(i)
    PROVE  FirstRun'
<1>1. /\ Alone /\ Alone' /\ Base /\ SymbolsDiffer /\ DayClosed
      /\ \A r \in Runners : /\ FreshSymbols(r) /\ DayOpen(r)
                            /\ Running(r) \/ job[r] = Idle
  BY OutsideAlone DEF FirstRun, Alone, DayInv
<1>2. UNCHANGED <<live, done>>
  BY DEF ToggleLive, BrokerMoves, Crash, NextSession, vars, liveVars, dayVars
<1>3. SymbolsDiffer'
  BY <1>1, <1>2 DEF SymbolsDiffer
<1>4. CASE Crash \/ NextSession
  <2>1. \A r \in Runners : job'[r] = Idle
    BY <1>4 DEF Crash, NextSession
  <2>2. session' \notin done'
    <3>1. CASE Crash
      <4>1. session' = session
        BY <3>1 DEF Crash, paperVars, Paper!Crash
      <4>2. \E r \in Runners : job[r] # Idle
        BY <3>1 DEF Crash
      <4> QED BY <1>1, <1>2, <4>1, <4>2 DEF DayOpen
    <3>2. CASE NextSession
      <4>1. session' = session + 1 /\ session \in Nat /\ done \subseteq 1..session
        BY <1>1, <3>2, PaperFacts DEF NextSession, Paper!NextSession, Base, TablesOK
      <4> QED BY <1>2, <4>1
    <3> QED BY <1>4, <3>1, <3>2
  <2>3. \A r \in Runners : ~Running(r)'
    BY <2>1, IdleFacts DEF Running
  <2> QED BY <1>1, <1>3, <2>1, <2>2, <2>3
          DEF FirstRun, DayInv, FreshSymbols, DayOpen, DayClosed
<1>5. CASE ~(Crash \/ NextSession)
  <2>1. UNCHANGED <<job, session, rows, orders>>
    BY <1>5 DEF ToggleLive, BrokerMoves, vars, paperVars
  <2>2. Paper!PendingToday' = Paper!PendingToday
    BY <2>1 DEF Paper!PendingToday
  <2> QED BY <1>1, <1>2, <1>3, <2>1, <2>2 DEF FirstRun, DayInv, FreshSymbols, DayOpen,
             Running, InHand, DayClosed, Quiet
<1> QED BY <1>4, <1>5

\* With one run a day FirstRun holds in every state.
THEOREM SpecFirstRun == Spec /\ NoOverlap /\ NoSecondRun => []FirstRun
<1>1. Init => FirstRun
  <2> SUFFICES ASSUME Init PROVE FirstRun
    OBVIOUS
  <2>1. Alone /\ (\A r \in Runners : job[r] = Idle) /\ done = {}
    BY InitAlone DEF Init
  <2>2. Len(live) = 0
    BY EmptySeq DEF Init
  <2>3. \A i \in 1..Len(live) : FALSE
    BY <2>2
  <2> QED BY <2>1, <2>3, IdleFacts DEF FirstRun, SymbolsDiffer, DayInv, FreshSymbols,
             DayOpen, Running, DayClosed
<1>2. /\ FirstRun /\ [Next]_vars
      /\ [\A r \in Runners : Start(r) => \A q \in Runners : ~Running(q)]_vars
      /\ [\A r \in Runners : Start(r) =>
             \A i \in 1..Len(live) : live[i].session # session]_vars
      => FirstRun'
  BY RunFirst, OutsideFirst DEF Next, vars
<1> QED BY <1>1, <1>2, PTL DEF Spec, NoOverlap, NoSecondRun

\* With one run a day a symbol is at the broker at most once a day, whatever is
\* rejected, lost, timed out or cut off by a death.
THEOREM FirstRunOrdersOnce == Spec /\ NoOverlap /\ NoSecondRun => []OneLiveOrderPerDay
<1>1. FirstRun => OneLiveOrderPerDay
  BY DEF FirstRun, SymbolsDiffer, OneLiveOrderPerDay
<1> QED BY <1>1, SpecFirstRun, PTL

\* With one run a day the books of a marked day are closed: no paper order waits,
\* and each live order has the broker's end on record or was given up with no fill
\* in either book.  (What the broker still does to an order that was given up is
\* recorded nowhere: README, disagreements.)
THEOREM FirstRunSettles == Spec /\ NoOverlap /\ NoSecondRun => []CompletedDayIsSettled
<1>1. FirstRun => CompletedDayIsSettled
  BY DEF FirstRun, DayInv, DayClosed, Alone, Records, Recorded, BookFits,
     CompletedDayIsSettled
<1> QED BY <1>1, SpecFirstRun, PTL

-----------------------------------------------------------------------------
(***************************************************************************)
(* The cron alone, and a day that is over                                  *)
(***************************************************************************)

\* A started run of the cron is of the one time its trigger fired today.
LEMMA NextCron ==
    ASSUME Runners \subseteq {"cron"}, Base, CronInv, [Next]_vars
    PROVE  CronInv'
<1>1. \A i \in 1..Len(live) : live[i].session <= session
  BY DEF Base, TablesOK
<1>2. CASE \E r \in Runners : Start(r) \/ Progress(r) \/ Fail(r)
  <2>1. PICK r \in Runners : Start(r) \/ Progress(r) \/ Fail(r)
    BY <1>2
  <2>2. cronFired'
    <3>1. CASE Start(r)
      <4>1. r = "cron" /\ cronFired' = (cronFired \/ r = "cron")
        BY <3>1 DEF Start
      <4> QED BY <4>1
    <3>2. CASE ~Start(r)
      <4>1. Running(r) /\ cronFired' = cronFired
        <5>1. cronFired' = cronFired
          BY <2>1, <3>2 DEF Progress, Fail, PersistSignals, Generate, CheckLive, StopPlacing,
             Place, Send, Accepted, Refused, AuthRefused, PollTerminal, PollTimeout,
             BeginExecute, ExecuteRow, Complete, GiveUp, PollError, dayVars
        <5> QED BY <2>1, <3>2, <5>1, RunMoves
      <4> QED BY <4>1 DEF CronInv
    <3> QED BY <3>1, <3>2
  <2> QED BY <2>2 DEF CronInv
<1>3. CASE NextSession
  <2>1. /\ session' = session + 1 /\ session \in Nat /\ UNCHANGED <<live, job>>
        /\ \A r \in Runners : job[r] = Idle
    BY <1>3, PaperFacts DEF NextSession, Paper!NextSession, liveVars, Base
  <2>2. \A i \in 1..Len(live) : live[i].session \in Nat
    BY SideFacts
  <2>3. \A i \in 1..Len(live) : live[i].session # session'
    BY <1>1, <2>1, <2>2
  <2> QED BY <2>1, <2>3, IdleFacts DEF CronInv, Running
<1>4. CASE Crash
  <2>1. UNCHANGED <<live, cronFired, session>> /\ \A r \in Runners : job'[r] = Idle
    BY <1>4 DEF Crash, liveVars, dayVars, paperVars, Paper!Crash
  <2> QED BY <2>1, IdleFacts DEF CronInv, Running
<1>5. CASE ToggleLive \/ UNCHANGED vars \/ \E i \in 1..Len(broker) : BrokerMoves(i)
  <2>1. UNCHANGED <<live, cronFired, session, job>>
    BY <1>5 DEF ToggleLive, BrokerMoves, vars, liveVars, dayVars, paperVars
  <2> QED BY <2>1 DEF CronInv, Running
<1> QED BY <1>2, <1>3, <1>4, <1>5 DEF Next

\* The trigger fires once a day, and only the cron runs: no run overlaps another
\* one, and none finds an order of today.
THEOREM CronAlone ==
    ASSUME Runners \subseteq {"cron"}
    PROVE  Spec => NoOverlap /\ NoSecondRun
<1>1. Init => CronInv
  <2> SUFFICES ASSUME Init PROVE CronInv
    OBVIOUS
  <2>1. Len(live) = 0 /\ \A r \in Runners : job[r] = Idle
    BY EmptySeq DEF Init
  <2>2. \A i \in 1..Len(live) : FALSE
    BY <2>1
  <2> QED BY <2>1, <2>2, IdleFacts DEF CronInv, Running
<1>2. Base /\ CronInv /\ [Next]_vars => CronInv'
  BY NextCron
<1>3. ASSUME CronInv, NEW r \in Runners, Start(r)
      PROVE  /\ \A q \in Runners : ~Running(q)
             /\ \A i \in 1..Len(live) : live[i].session # session
  <2>1. ~cronFired
    BY <1>3 DEF Start
  <2> QED BY <1>3, <2>1 DEF CronInv
<1>4. CronInv => /\ [\A r \in Runners : Start(r) => \A q \in Runners : ~Running(q)]_vars
                 /\ [\A r \in Runners : Start(r) =>
                        \A i \in 1..Len(live) : live[i].session # session]_vars
  BY <1>3
<1> QED BY <1>1, <1>2, <1>4, SpecBase, PTL DEF Spec, NoOverlap, NoSecondRun

\* So, for every universe, day and broker, the worker without the command inbox
\* trades each symbol at most once a day, books on paper no more than the broker
\* filled, and marks a day only when its books are closed on what is on record.
THEOREM CronIsSafe ==
    ASSUME Runners \subseteq {"cron"}
    PROVE  Spec => [](OneLiveOrderPerDay /\ PaperNeverExceedsLive /\ CompletedDayIsSettled)
BY CronAlone, AloneNeverExceedsLive, FirstRunOrdersOnce, FirstRunSettles, PTL

\* d is over: it is marked and nothing runs, with n live orders; or it is past.
DayOver(d, n) ==
    \/ session > d
    \/ session = d /\ d \in done /\ Quiet /\ Len(live) = n

\* No step brings it back.
LEMMA DayStaysOver ==
    ASSUME Base, [Next]_vars, NEW d \in Nat, NEW n \in Nat, DayOver(d, n)
    PROVE  DayOver(d, n)'
<1>1. session \in Nat
  BY PaperFacts DEF Base
<1>2. ASSUME NEW r \in Runners, Start(r) \/ Progress(r) \/ Fail(r)
      PROVE  session' = session /\ session > d
  <2>1. session' = session /\ (Start(r) \/ Running(r))
    BY <1>2, RunFlow, RunMoves
  <2>2. ~(session = d /\ d \in done /\ Quiet)
    BY <2>1, IdleFacts DEF Start, Quiet, Running
  <2> QED BY <2>1, <2>2 DEF DayOver
<1>3. CASE NextSession
  BY <1>1, <1>3 DEF NextSession, Paper!NextSession, DayOver
<1>4. CASE Crash
  <2>1. session' = session /\ ~Quiet
    BY <1>4 DEF Crash, paperVars, Paper!Crash, Quiet
  <2> QED BY <2>1 DEF DayOver
<1>5. CASE ToggleLive \/ UNCHANGED vars \/ \E i \in 1..Len(broker) : BrokerMoves(i)
  <2>1. UNCHANGED <<live, done, session, job>>
    BY <1>5 DEF ToggleLive, BrokerMoves, vars, liveVars, dayVars, paperVars
  <2> QED BY <2>1 DEF DayOver, Quiet
<1>6. CASE \E r \in Runners : Start(r) \/ Progress(r) \/ Fail(r)
  BY <1>2, <1>6 DEF DayOver
<1> QED BY <1>3, <1>4, <1>5, <1>6 DEF Next

\* Once a session is completed and nothing runs, no click, toggle, death or
\* restart hands the broker another order for it, whatever the runners are.
THEOREM SpecCompletedDayIsQuiet == Spec => CompletedDayIsQuiet
<1>1. ASSUME NEW d \in 1..MaxSession, NEW n \in 0..Cardinality(Keys)
      PROVE  Spec => [](Quiet /\ session = d /\ d \in done /\ Len(live) = n
                          => [](session = d => Len(live) = n))
  <2>1. Base /\ [Next]_vars /\ DayOver(d, n) => DayOver(d, n)'
    BY DayStaysOver
  <2>2. Quiet /\ session = d /\ d \in done /\ Len(live) = n => DayOver(d, n)
    BY DEF DayOver
  <2>3. Base /\ DayOver(d, n) => (session = d => Len(live) = n)
    BY DEF DayOver
  <2> QED BY <2>1, <2>2, <2>3, SpecBase, PTL DEF Spec
<1> QED BY <1>1 DEF CompletedDayIsQuiet
=============================================================================
