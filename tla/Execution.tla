----------------------------- MODULE Execution -----------------------------
(***************************************************************************)
(* The 09:30 job of app/worker/jobs.py (execution_job) with the live       *)
(* engine of app/live/engine.py, on top of the paper engine's tables.      *)
(*                                                                         *)
(* Two jobs of the worker's event loop run execution_job: the 09:30 cron   *)
(* and the command inbox (a click on "Run rebalance now").  They are       *)
(* coroutines: control changes hands only where execution_job awaits, and  *)
(* loop names the runner that is inside a section with no await.  The web  *)
(* process flips settings.live_enabled at any moment, the worker may die   *)
(* between any two transactions, and the broker answers, fills, rejects    *)
(* and cancels as it likes; a request or its answer may be lost.           *)
(***************************************************************************)
EXTENDS Integers, Sequences, FiniteSets

CONSTANTS
    Symbols, InitialCapital, InitialBooks, Prices, BuyRate, SellRate, RateBase,
    MaxQty, MaxSession, MaxGen,
    Runners,        \* jobs that call execution_job: "cron", "inbox"
    Unresolvable,   \* symbols _resolve_security finds no security id for
    CanCrash        \* whether the worker process may die

ASSUME RunnerAssumption == Runners \subseteq {"cron", "inbox"}
ASSUME SymbolAssumption == Unresolvable \subseteq Symbols
ASSUME CrashAssumption == CanCrash \in BOOLEAN
\* What PaperEngine assumes of its constants, with at least one trading day.
ASSUME PaperAssumption ==
    /\ InitialCapital \in Nat
    /\ InitialBooks \subseteq [Symbols -> Nat]
    /\ Prices \subseteq Nat \ {0}
    /\ MaxQty \in Nat /\ MaxSession \in Nat \ {0} /\ MaxGen \in Nat
    /\ RateBase \in Nat \ {0} /\ BuyRate \in Nat /\ SellRate \in 0..RateBase

VARIABLES
    session, target, gen, orders, book, bought, sold, cash, rows, \* PaperEngine
    done,         \* sessions whose execution_completed_at is set
    cronFired,    \* whether the cron trigger of today has fired
    liveEnabled,  \* settings.live_enabled
    live,         \* live_orders with their live_fills, in id order
    broker,       \* broker[i]: what the broker made of live[i]
    job,          \* job[r]: where runner r is in execution_job
    loop,         \* the runner inside a section without await, or "free"
    late          \* late[r]: orders r has sent since live was last switched off

Paper == INSTANCE PaperEngine

paperVars == <<session, target, gen, orders, book, bought, sold, cash, rows>>
liveVars == <<liveEnabled, live, broker, late>>
dayVars == <<done, cronFired>>
vars == <<paperVars, liveVars, dayVars, job, loop>>

Keys == Paper!Keys
BrokerFinal == {"traded", "rejected", "cancelled"}
LiveTerminal == {"TRADED", "REJECTED", "CANCELLED"}

\* A live order; key is the paper order it was placed for, fill its live_fills.
LiveOrder == [session : Nat, key : Keys, qty : Nat, fill : Nat, closed : BOOLEAN,
              status : LiveTerminal \cup {"PENDING", "TRANSIT", "OPEN"}]
BrokerOrder == [state : BrokerFinal \cup {"none", "open"}, filled : Nat]

\* asked is the PENDING rows the run has read, with their order_qty (0 where
\* there is none), queue those place_orders still has to place, row its current
\* live_order_id, over the qty_override map (NoOverride where a key is missing).
NoOverride == -1
Idle == [pc |-> "idle", asked |-> [k \in Keys |-> 0], queue |-> {}, row |-> 0,
         over |-> [k \in Keys |-> NoOverride]]
\* place_order is awaited from the connection on: at "send" the flag has been
\* checked, the row is in, and the request has not left yet.
Awaits == {"fetching", "send", "sent", "polling", "closes"}
Holds == {"generate", "check", "place", "execute"}
NoneLate == [r \in Runners |-> 0]

Init ==
    /\ Paper!Init
    /\ done = {} /\ cronFired = FALSE
    /\ liveEnabled \in BOOLEAN
    /\ live = <<>> /\ broker = <<>>
    /\ job = [r \in Runners |-> Idle]
    /\ loop = "free" /\ late = NoneLate

\* Mutant: the sections await, so a coroutine may resume inside another one's.
AtAnyTime(r, pc) == job[r].pc = pc

\* Runner r is at pc and may run: a coroutine resumes when the loop is free.
At(r, pc) == job[r].pc = pc /\ loop \in {"free", r}

\* r goes on to pc: it keeps the loop, or gives it up at an await.
Goto(r, new) ==
    /\ job' = [job EXCEPT ![r] = new]
    /\ loop' = IF new.pc \in Holds THEN r ELSE "free"


(***************************************************************************)
(* execution_job up to the orders                                          *)
(***************************************************************************)

\* Mutant: the idempotency guard is gone.
StartUnguarded(r) ==
    /\ At(r, "idle")
    /\ r = "cron" => ~cronFired
    /\ gen + Cardinality({q \in Runners : job[q].pc \in {"fetching", "generate"}}) < MaxGen
    /\ Goto(r, [Idle EXCEPT !.pc = "fetching"])
    /\ cronFired' = (cronFired \/ r = "cron")
    /\ UNCHANGED <<paperVars, liveVars, done>>

\* The market is open and the idempotency guard lets the run through; then
\* the historical candles are awaited.  (The last guard is the bound MaxGen.)
Start(r) ==
    /\ At(r, "idle")
    /\ r = "cron" => ~cronFired
    /\ session \notin done
    /\ gen + Cardinality({q \in Runners : job[q].pc \in {"fetching", "generate"}}) < MaxGen
    /\ Goto(r, [Idle EXCEPT !.pc = "fetching"])
    /\ cronFired' = (cronFired \/ r = "cron")
    /\ UNCHANGED <<paperVars, liveVars, done>>

\* Empty universe, empty panel, no dated metrics: alert and return.
GiveUp(r) ==
    /\ At(r, "fetching")
    /\ Goto(r, Idle)
    /\ UNCHANGED <<paperVars, liveVars, dayVars>>

\* All data is in: build the target set and replace the session's signals.
PersistSignals(r) ==
    /\ At(r, "fetching")
    /\ \E t \in [Symbols -> 0..MaxQty] : Paper!PersistSignals(t)
    /\ Goto(r, [job[r] EXCEPT !.pc = "generate"])
    /\ UNCHANGED <<liveVars, dayVars>>

\* paper_generate, in the same section.
Generate(r) ==
    /\ At(r, "generate")
    /\ Paper!GenerateOrders
    /\ Goto(r, [job[r] EXCEPT !.pc = "check"])
    /\ UNCHANGED <<liveVars, dayVars>>

\* Read the PENDING rows; with live on, hand those that have a security id to
\* place_orders, otherwise go straight for the 09:30 closes.
CheckLive(r) ==
    /\ At(r, "check")
    /\ LET today == Paper!PendingToday
           tuples == [k \in Keys |-> IF k \in today THEN orders[k].qty ELSE 0] IN
       Goto(r, [job[r] EXCEPT
            !.asked = tuples,
            !.pc = IF liveEnabled THEN "place" ELSE "closes",
            !.queue = IF liveEnabled THEN {k \in today : k[2] \notin Unresolvable}
                      ELSE {}])
    /\ UNCHANGED <<paperVars, liveVars, dayVars>>

(***************************************************************************)
(* place_orders                                                            *)
(***************************************************************************)

\* The loop ends: every order was handled, or live was switched off.
StopPlacing(r) ==
    /\ At(r, "place")
    /\ job[r].queue = {} \/ ~liveEnabled
    /\ Goto(r, [job[r] EXCEPT !.pc = "closes", !.queue = {}])
    /\ UNCHANGED <<paperVars, liveVars, dayVars>>

\* Mutant: the flag is read once, before the loop.
PlaceUnchecked(r, k) ==
    /\ At(r, "place")
    /\ k \in job[r].queue
    /\ live' = Append(live, [session |-> session, key |-> k, qty |-> job[r].asked[k],
                             fill |-> 0, closed |-> FALSE, status |-> "PENDING"])
    /\ broker' = Append(broker, [state |-> "none", filled |-> 0])
    /\ Goto(r, [job[r] EXCEPT !.pc = "send", !.row = Len(live) + 1,
                              !.queue = job[r].queue \ {k}])
    /\ UNCHANGED <<paperVars, liveEnabled, late, dayVars>>

\* The flag is on: insert the live_orders row, then await place_order.
Place(r, k) ==
    /\ At(r, "place")
    /\ k \in job[r].queue
    /\ liveEnabled
    /\ live' = Append(live, [session |-> session, key |-> k, qty |-> job[r].asked[k],
                             fill |-> 0, closed |-> FALSE, status |-> "PENDING"])
    /\ broker' = Append(broker, [state |-> "none", filled |-> 0])
    /\ Goto(r, [job[r] EXCEPT !.pc = "send", !.row = Len(live) + 1,
                              !.queue = job[r].queue \ {k}])
    /\ UNCHANGED <<paperVars, liveEnabled, late, dayVars>>

\* The request leaves, whatever became of the flag or other runs did since it
\* was checked; it reaches the broker, which takes or rejects it, or is lost.
Send(r) ==
    /\ At(r, "send")
    /\ \E state \in {"none", "open", "rejected"} :
          broker' = [broker EXCEPT ![job[r].row].state = state]
    /\ late' = IF liveEnabled THEN late ELSE [late EXCEPT ![r] = @ + 1]
    /\ Goto(r, [job[r] EXCEPT !.pc = "sent"])
    /\ UNCHANGED <<paperVars, liveEnabled, live, dayVars>>

\* The orderId comes back: note it and start to poll.
Accepted(r) ==
    /\ At(r, "sent")
    /\ broker[job[r].row].state # "none"
    /\ live' = [live EXCEPT ![job[r].row].status = "TRANSIT"]
    /\ Goto(r, [job[r] EXCEPT !.pc = "polling"])
    /\ UNCHANGED <<paperVars, liveEnabled, broker, late, dayVars>>

\* _record_reject, and override 0.
RecordReject(r) ==
    live' = [live EXCEPT ![job[r].row].status = "REJECTED",
                         ![job[r].row].closed = TRUE]
Overridden(r, q) == [job[r].over EXCEPT ![live[job[r].row].key] = q]

\* Mutant: an order that got no answer is tried again.
RefusedAndRetried(r) ==
    /\ At(r, "sent")
    /\ RecordReject(r)
    /\ Goto(r, [job[r] EXCEPT !.pc = "place",
                              !.queue = job[r].queue \cup {live[job[r].row].key}])
    /\ UNCHANGED <<paperVars, liveEnabled, broker, late, dayVars>>


\* Mutant: a refused order gets no override.
RefusedWithoutOverride(r) ==
    /\ At(r, "sent")
    /\ RecordReject(r)
    /\ Goto(r, [job[r] EXCEPT !.pc = "place"])
    /\ UNCHANGED <<paperVars, liveEnabled, broker, late, dayVars>>

\* DhanRejected, a 4xx or an answer without orderId, or DhanUnavailable: the
\* request or its answer was lost, whatever the broker did with it.
Refused(r) ==
    /\ At(r, "sent")
    /\ RecordReject(r)
    /\ Goto(r, [job[r] EXCEPT !.pc = "place", !.over = Overridden(r, 0)])
    /\ UNCHANGED <<paperVars, liveEnabled, broker, late, dayVars>>

\* 401: nothing was placed; live is switched off and the loop is left.
AuthRefused(r) ==
    /\ At(r, "sent")
    /\ broker[job[r].row].state = "none"
    /\ RecordReject(r)
    /\ liveEnabled' = FALSE
    /\ Goto(r, [job[r] EXCEPT !.pc = "closes", !.queue = {}, !.over = Overridden(r, 0)])
    /\ UNCHANGED <<paperVars, broker, late, dayVars>>

\* order_status reports a terminal state: _record_terminal, which writes a
\* live_fills row only for TRADED, and the override.
LiveStatus(state) == IF state = "traded" THEN "TRADED"
                     ELSE IF state = "rejected" THEN "REJECTED" ELSE "CANCELLED"

PollTerminal(r) ==
    LET b == broker[job[r].row]
        fill == IF b.state = "traded" THEN b.filled ELSE 0 IN
    /\ At(r, "polling")
    /\ b.state \in BrokerFinal
    /\ live' = [live EXCEPT ![job[r].row].status = LiveStatus(b.state),
                            ![job[r].row].closed = TRUE,
                            ![job[r].row].fill = fill]
    /\ Goto(r, [job[r] EXCEPT !.pc = "place", !.over = Overridden(r, fill)])
    /\ UNCHANGED <<paperVars, liveEnabled, broker, late, dayVars>>

\* Mutant: the poll has no deadline and waits for a terminal status.
PollForever(r) ==
    /\ At(r, "polling")
    /\ broker[job[r].row].state \in BrokerFinal
    /\ live' = [live EXCEPT ![job[r].row].status = "OPEN",
                            ![job[r].row].closed = TRUE]
    /\ Goto(r, [job[r] EXCEPT !.pc = "place", !.over = Overridden(r, 0)])
    /\ UNCHANGED <<paperVars, liveEnabled, broker, late, dayVars>>

\* No terminal status in 60 s: what was last seen is recorded all the same.
PollTimeout(r) ==
    /\ At(r, "polling")
    /\ live' = [live EXCEPT ![job[r].row].status = "OPEN",
                            ![job[r].row].closed = TRUE]
    /\ Goto(r, [job[r] EXCEPT !.pc = "place", !.over = Overridden(r, 0)])
    /\ UNCHANGED <<paperVars, liveEnabled, broker, late, dayVars>>

\* Mutant: the error is swallowed and the loop goes on to the next order.
PollErrorSwallowed(r) ==
    /\ At(r, "polling")
    /\ Goto(r, [job[r] EXCEPT !.pc = "place", !.over = Overridden(r, 0)])
    /\ UNCHANGED <<paperVars, liveVars, dayVars>>

\* order_status raises what _wait_for_terminal does not catch (401, 4xx): the
\* exception leaves execution_job.
PollError(r) ==
    /\ At(r, "polling")
    /\ Goto(r, Idle)
    /\ UNCHANGED <<paperVars, liveVars, dayVars>>

(***************************************************************************)
(* The paper fills and the end of the run                                  *)
(***************************************************************************)

\* Mutant: the rows read before place_orders are settled, not selected again.
BeginExecuteStale(r) ==
    /\ At(r, "closes")
    /\ rows = {}
    /\ rows' = {k \in Keys : job[r].asked[k] > 0}
    /\ Goto(r, [job[r] EXCEPT !.pc = "execute"])
    /\ UNCHANGED <<session, target, gen, orders, book, bought, sold, cash>>
    /\ UNCHANGED <<liveVars, dayVars>>

\* The closes are in: execute_orders selects what is PENDING now.
BeginExecute(r) ==
    /\ At(r, "closes")
    /\ Paper!BeginExecute
    /\ Goto(r, [job[r] EXCEPT !.pc = "execute"])
    /\ UNCHANGED <<liveVars, dayVars>>

\* The closes were fetched for the symbols the run has read and can resolve;
\* a candle, and so a price, may be missing for these too.
Closes(r, s) ==
    IF s \notin Unresolvable /\ \E k \in Keys : k[2] = s /\ job[r].asked[k] > 0
    THEN Prices \cup {0} ELSE {0}

\* One row, at the quantity of qty_override or else of the order.
ExecuteRow(r, k, price) ==
    /\ At(r, "execute")
    /\ price \in Closes(r, k[2])
    /\ LET q == IF job[r].over[k] = NoOverride THEN orders[k].qty
                ELSE job[r].over[k] IN
       Paper!ExecuteRow(k, q, price)
    /\ UNCHANGED <<liveVars, dayVars, job, loop>>

\* compute_daily_pnl, then sessions.execution_completed_at.
Complete(r) ==
    /\ At(r, "execute")
    /\ rows = {}
    /\ done' = done \cup {session}
    /\ Goto(r, Idle)
    /\ UNCHANGED <<paperVars, liveVars, cronFired>>

(***************************************************************************)
(* The other processes and the broker                                      *)
(***************************************************************************)

\* POST /settings/live-enabled in the web process.
ToggleLive ==
    /\ liveEnabled' = ~liveEnabled
    /\ late' = IF liveEnabled THEN late ELSE NoneLate
    /\ UNCHANGED <<paperVars, live, broker, dayVars, job, loop>>

\* The worker dies: coroutines and loop are gone, the tables stay.
Crash ==
    /\ CanCrash
    /\ \E r \in Runners : job[r] # Idle
    /\ IF rows = {} THEN UNCHANGED paperVars ELSE Paper!Crash
    /\ job' = [r \in Runners |-> Idle]
    /\ loop' = "free"
    /\ UNCHANGED <<liveVars, dayVars>>

\* A new trading day; no run is in progress at midnight.
NextSession ==
    /\ \A r \in Runners : job[r] = Idle
    /\ Paper!NextSession
    /\ cronFired' = FALSE
    /\ UNCHANGED <<liveVars, done, job, loop>>

\* An order the broker holds trades (in part, before it is final), or is
\* rejected or cancelled with whatever it filled.
BrokerMoves(i) ==
    LET b == broker[i] IN
    /\ b.state = "open"
    /\ \/ \E f \in b.filled + 1..live[i].qty : \E state \in {"open", "traded"} :
             broker' = [broker EXCEPT ![i] = [state |-> state, filled |-> f]]
       \/ b.filled = 0 /\ broker' = [broker EXCEPT ![i].state = "rejected"]
       \/ broker' = [broker EXCEPT ![i].state = "cancelled"]
    /\ UNCHANGED <<paperVars, liveEnabled, live, late, dayVars, job, loop>>

\* What runner r does on its own once it has started.
Progress(r) ==
    \/ PersistSignals(r) \/ Generate(r) \/ CheckLive(r)
    \/ StopPlacing(r) \/ \E k \in job[r].queue : Place(r, k)
    \/ Send(r) \/ Accepted(r) \/ Refused(r)
    \/ PollTerminal(r) \/ PollTimeout(r)
    \/ BeginExecute(r)
    \/ \E k \in rows, price \in Prices \cup {0} : ExecuteRow(r, k, price)
    \/ Complete(r)

\* The ways a run may break off, which nothing makes happen.
Fail(r) == GiveUp(r) \/ AuthRefused(r) \/ PollError(r)

Next ==
    \/ \E r \in Runners : Start(r) \/ Progress(r) \/ Fail(r)
    \/ \E i \in 1..Len(broker) : BrokerMoves(i)
    \/ ToggleLive \/ Crash \/ NextSession

Spec == Init /\ [][Next]_vars

\* Every await of a run ends (HTTP timeouts, the 60 s of _wait_for_terminal)
\* and asyncio resumes ready coroutines in turn, so a started run that keeps
\* being able to go on does go on.
FairSpec == Spec /\ \A r \in Runners : SF_vars(Progress(r))

(***************************************************************************)
(* Properties                                                              *)
(***************************************************************************)

\* The state has its type, and only one runner holds the loop.
TypeOK ==
    /\ Paper!TypeOK
    /\ done \subseteq 1..MaxSession /\ cronFired \in BOOLEAN
    /\ liveEnabled \in BOOLEAN
    /\ live \in Seq(LiveOrder) /\ broker \in Seq(BrokerOrder)
    /\ Len(live) = Len(broker)
    /\ \A r \in Runners :
          /\ job[r].pc \in {"idle"} \cup Awaits \cup Holds
          /\ job[r].asked \in [Keys -> Nat]
          /\ job[r].queue \subseteq Keys
          /\ job[r].row \in 0..Len(live)
          /\ job[r].over \in [Keys -> Int]
          /\ job[r].pc \in Holds <=> loop = r
    /\ loop \in Runners \cup {"free"}
    /\ late \in [Runners -> Nat]

\* The paper engine's contract: interleaved runs, live orders and crashes do
\* to its tables only what PaperEngine allows, so what is proved of it holds.
PaperContract == Paper!Spec

\* The kill switch halts placement between orders (FRD.md:294): after live is
\* switched off, by the user or by a 401, each run that is placing sends at
\* most the one order that had passed the check.
KillSwitchBites == \A r \in Runners : late[r] <= 1

Quiet == \A r \in Runners : job[r] = Idle

\* Once a session is completed and nothing runs, no click, toggle, crash or
\* restart hands the broker another order for it (FRD.md:430).
CompletedDayIsQuiet ==
    \A d \in 1..MaxSession, n \in 0..Cardinality(Keys) :
        [](Quiet /\ session = d /\ d \in done /\ Len(live) = n
           => [](session = d => Len(live) = n))

\* A symbol is bought or sold at the broker at most once a day: a second run
\* is refused "once paper fills or live orders exist for the day"
\* (jobs.py:301-303), and nothing is retried (FRD.md:290).
AtBroker(i) == broker[i].state \notin {"none", "rejected"}
OneLiveOrderPerDay ==
    \A i, j \in 1..Len(live) :
        /\ i # j /\ AtBroker(i) /\ AtBroker(j)
        /\ live[i].session = live[j].session
        => live[i].key[2] # live[j].key[2]

\* The paper fill of an order that was handed to the broker never exceeds what
\* the broker filled: a reject, a loss or a partial fill reaches the paper book
\* through qty_override, also when the run dies and another one takes over.
PaperNeverExceedsLive ==
    \A i \in 1..Len(live) : orders[live[i].key].fill <= broker[i].filled

\* The order's end is on record: the broker's, with the fill of a trade; or the
\* run gave it up (no answer, no terminal status in 60 s), wherever it then is,
\* and recorded no fill.
Followed(i) ==
    /\ broker[i].state \in BrokerFinal
    /\ live[i].status = LiveStatus(broker[i].state)
    /\ live[i].fill = IF broker[i].state = "traded" THEN broker[i].filled ELSE 0
GivenUp(i) == live[i].status \in {"OPEN", "REJECTED"} /\ live[i].fill = 0

\* When a day is marked completed, its books are closed on what is on record:
\* no paper order waits, no live order is without its end, and no paper fill
\* exceeds the live fill recorded.  An order that was given up has thus no fill in
\* either book; the broker may still hold or fill it, where FRD.md:288 would have
\* it polled until 15:30.
CompletedDayIsSettled ==
    Quiet /\ session \in done =>
        /\ Paper!PendingToday = {}
        /\ \A i \in 1..Len(live) : live[i].session = session =>
              /\ live[i].closed
              /\ Followed(i) \/ GivenUp(i)
              /\ orders[live[i].key].fill <= live[i].fill

\* A run that started ends, completed or not: no order, answer or other run
\* holds it up for ever.
RunsEnd == \A r \in Runners : job[r].pc # "idle" ~> job[r].pc = "idle"
=============================================================================
