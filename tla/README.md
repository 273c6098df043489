# Verification of the equity-momentum trader

TLA+ modules, TLC configurations and TLAPS proofs for the worker, the selection,
the paper and live engines, the paper account, reconciliation, the universe
refresh, the token jobs, the process supervisor and the command inbox of `app/`. `FRD` is `docs/FRD.md`; all paths are relative to the repository.

## 1. The system

Two operating-system processes share one SQLite database (WAL, one writer at a
time, `BEGIN IMMEDIATE` transactions) and a state directory with pid files, lock
files and command files. A third, `backfill_today`, is run by hand.

* **worker** (`app/worker/`): one asyncio loop with APScheduler. Jobs are
  coroutines; they change hands at `await` only. Each job id has
  `max_instances=1`, but the 09:30 cron and the command inbox are two ids and
  both call `execution_job`. The token jobs are plain functions and run in threads.
* **web** (`app/web/`): FastAPI. It reads everything, flips
  `settings.live_enabled`, touches `run/commands/run_rebalance.now` and
  acknowledges alerts.
* **broker** (Dhan, through `app/dhan/client.py`): external. It takes, rejects,
  fills and cancels orders; requests and answers may be lost.

| component | state | operations | what makes it correct |
|---|---|---|---|
| paper engine (`paper/engine.py`, `charges.py`) | `signals`, `paper_orders`, `paper_fills`, `paper_book` | `generate_orders`, `execute_orders`, `_apply_to_book`, `paper_cash`, `compute_daily_pnl` | the book is the replay of its fills, no leverage, SELLs before BUYs, a crash and a re-run change nothing that is settled |
| 09:30 job (`worker/jobs.py`) | `sessions.execution_completed_at`, the locals of a coroutine | `execution_job` | once a day, settled when marked, ends |
| live engine (`live/engine.py`) | `live_orders`, `live_fills`, the override map | `place_orders`, `_wait_for_terminal`, `_record_*` | the kill switch bites, one order per symbol and day, paper follows the broker |
| supervisor (`pidfile.py`) | `run/<name>.pid`, `run/<name>.lock`, handles and locks | `check_stale`, `acquire`, `release` | one instance, no start refused for a leftover |
| command inbox (`worker/jobs.py`, `web/main.py`) | the command file and its age | touch, poll, discard, consume | a click runs once, on its day, and is answered |
| token monitor (`worker/jobs.py`) | `.env` and its mtime, the client's token, the flags in `tok_state` | `token_watcher_job`, `token_expiry_monitor_job` | a new token is loaded, an expired one switches live off |
| reconciliation (`live/recon.py`) | `live_positions_snapshot`, `live_pnl_daily` | `snapshot_positions`, `compute_live_daily_pnl` | the row is what the fills and positions are worth |
| backfill (`tools/backfill_today.py`) | the paper tables | `_run` | never writes next to a worker |
| selection (`strategy/`, `worker/jobs.py`) | `signals`, the book it diffs against | fetching, gates, `build_target_set`, sizing, `_resolve_security` | the best of those it has data for, within the capital; what is held can be sold |
| universe refresh (`universe/`) | CSV, its temporary file, stamp, the caches | `refresh`, downloads, the reader | the published file is whole, and is some refresh's |
| marks and P&L (`worker/jobs.py`, `paper/engine.py`, `web/views.py`) | `live_ltp`, `paper_pnl_daily`, average costs in `paper_book` | `ltp_poll_job`, `paper_mtm_refresh_job`, `compute_daily_pnl`, the tiles | three replays of the fills agree, cash and marks add up, a mark belongs to the holding |

What is hard to test here: two coroutines inside `execution_job` at once; a
worker that dies between two transactions and is started again; a toggle of the
kill switch between its check and the request; lost answers; an order that is
still alive when its poll gives up; files that are checked in one step and
unlinked in the next; marks and daily rows that say what was true of an earlier
holding or day; a download that is cut off and trusted for weeks; a file that is
written while it is looked at. `PROJECT.json` lists these hazards, each at its line.

## 2. Modules

| module | models | built on |
|---|---|---|
| `PaperEngine` | the paper tables and what happens to them; also the abstract specification of what a run may do to paper state | |
| `Execution` | `execution_job` with `place_orders`, run by `cron` and `inbox`, the broker, the live toggle, worker deaths | `Paper == INSTANCE PaperEngine` |
| `PidFile` | any number of starts, stops and deaths of one program | |
| `CommandInbox` | the command file between the web process and the inbox job | its run is runner `inbox` of `Execution` |
| `Accounts` | fills, average costs, marks, the daily rows and the tiles of the paper tab | the holdings `PaperEngine` allows |
| `Selection` | `execution_job` from the candles to the signals, and the resolution of security ids afterwards | the book its runs leave behind |
| `Publication` | what a reader of `universe.csv` is promised: nothing, or one refresh's universe, replaced whole | |
| `UniverseRefresh` | both refresh jobs, the caches, the temporary file, rename and stamp, deaths, the reader | `Contract == INSTANCE Publication WITH ...` |
| `TokenMonitor` | `.env`, the watcher, the expiry monitor, the live toggle | |
| `Reconciliation` | positions, snapshots and the live daily row next to the live engine's fills | |
| `MCPaperEngine`, `MCExecution`, `MCAccounts`, `MCSelection`, `MCUniverseRefresh`, `MCTokenMonitor`, `MCReconciliation` | data and symmetry of the small instances | |
| `PaperEngineProofs`, `ExecutionProofs`, `AccountsProofs`, `UniverseRefreshProofs`, `SelectionProofs`, `PidFileProofs`, `CommandInboxProofs`, `TokenMonitorProofs` | theorems | the module they name; `ExecutionProofs` cites those of `PaperEngineProofs` |

**PaperEngine.** A row of `paper_orders` is keyed `<<gen, symbol>>`: the id is
AUTOINCREMENT and one call of `generate_orders` (one `gen`) inserts at most one
row per symbol. `paper_fills` is append-only and kept as what its readers
compute from it: quantities bought and sold, and `paper_cash`. Every transaction
is one action: `PersistSignals` (the session's signals are replaced),
`GenerateOrders` (DELETE of the PENDING rows and the new diff),
`BeginExecute` (the SELECT), `ExecuteRow` (one iteration: skip, SELL, or BUY
behind the cash gate with its scale-down), `Crash`, `NextSession`. `rows` is the
loop variable of the `execute_orders` call in progress. Charges are a rate on
the notional rounded to the unit; the schedule in `charges.py` is linear in the
notional too, with several rates added up. Orders carry `goal`, the target they
were diffed against: it is kept for the properties alone.

**Execution.** `job[r]` is where runner `r` stands in `execution_job`; the
places `fetching`, `send`, `sent`, `polling`, `closes` are its awaits, in the others
it holds the event loop, and `loop` names it. `Start` is the idempotency guard;
`CheckLive` reads the PENDING rows and `live_enabled`; `Place` re-reads the flag
and inserts the `live_orders` row; the request leaves in `Send`, inside the await of
`place_order`, whatever other runs and the flag have done since; the answer is `Accepted`,
`Refused` (rejected, or lost whatever the broker made of it) or `AuthRefused`
(401, which switches live off); the poll ends in `PollTerminal`, `PollTimeout`
(60 s) or `PollError`, which leaves the job. Then the closes arrive,
`Paper!BeginExecute` and `Paper!ExecuteRow` settle the rows at the quantities of
`qty_override`, and `Complete` marks the day. `ToggleLive` is the web process,
`BrokerMoves` the broker, `Crash` the death of the worker. What
`build_target_set` selects is an arbitrary target.

**PidFile.** Paths and files are distinct: a handle keeps leading to the file it
was opened on, and `lockFile` is what the path leads to now. `Windows` selects
the two differences the code works around: an open file cannot be unlinked, and
a dead process's handles linger until `Reap`.

**CommandInbox.** The job's steps up to its await run in one go as far as the
worker is concerned, but the web process may touch the file between any two, and
the worker may die: the alert about a stale file (`AlertStale`) and its unlink
(`DiscardUnlink`) are two steps. `answer` is what became of the last click: a run, an
alert, a line in the log, or nothing. `file` has an age only in so far as the code looks at it
(300 s).

**Accounts.** Here `paper_fills` is a sequence, since average costs and realized
gains depend on its order. `EngineStep` and `ViewStep` are the two replays
(`paper/engine.py`, `web/views.py`, which says it uses the engine's and has its
own), `ApplyToBook` the third way, in place. `FillOrder` is one transaction of
`execute_orders`, in any order and for any orders the gate and the holdings
allow, `EndRun` is `compute_daily_pnl` with the closes of the run; from
`BeginRun` to `EndRun` there is no await, but the worker may die. A poll begins
with the book it reads and ends with prices for it, whatever the book has become.
`Refresh` writes the day's row from `live_ltp`. The tiles are operators of the
state: the page passes one book to all of them (`views.py:30-35`), and is taken to
read one state. The day turns while nothing is in progress. `asOf` is there for
one property only. The code divides in floating point, the model in whole numbers:
`GrainAssumption` takes prices in units fine enough for every average to be whole.
`Grain[n]` divides a price that may still be averaged `n` times; powers of a common
multiple of the quantities are such grains, for any quantities and number of fills.

**Selection.** A bar is one of a few kinds (the values the filters, the ranking
and the sizing look at), and candles may fail for some symbols. The reference
date is the newest bar fetched, so one symbol with a newer bar disqualifies the
others; a run before 09:30 asks for opening volumes that are still partial, of which any
may fall short; without them nothing passes the gate, the target set is empty
and the book is sold. A run replaces the session's signals, then the book follows
the targets for the names whose security id can be found (today's signal, the
universe, an older signal). `erased` remembers names whose only signal a re-run
deleted.

**UniverseRefresh and Publication.** `Publication` is the published
universe, replaced whole by a later one, and loads that return the one they began with. `UniverseRefresh` is
the code: bhavcopies and scrip master are downloaded into caches, and a file a
death or a full disk has left half-written is trusted afterwards (for five weeks and one week;
a half-written zip fails every refresh that needs it); shares are filtered by
volume and joined on the scrip code; the result is written to `universe.csv.tmp`,
renamed, and stamped. `Fails` is an exception at any place of the job (a full disk, a busy database),
which the job reports. `cut` (a download was cut short) and `unstamped` (the last rename
never got its stamp) are kept for the properties alone. The refinement mapping reads the published universe off
the file. `Apart` says that no refresh starts while another runs.

**TokenMonitor.** The watcher looks at the mtime and notes it, then reads the
file: the user may write in between, restore a copy with an older mtime, remove
the file, or write one that the settings accept and `dotenv_values` does not
(byte order mark before the token's line, not UTF-8); the read may fail. The
monitor reads the client's token, then acts on the time it had left: the watcher
may load another token in between. Times are compared with the two thresholds
only. `armed` and `unread` are kept for the properties alone.

**Reconciliation.** One session: orders are filled by the broker before the live
engine records the fill; the fetch and the two transactions after it are
separate steps, the latter without an await between them. The user's own trades
are in other symbols. `current` is kept for the property alone.

The definitions marked `Mutant` are plausible mistakes. Each property of a
passing run is broken by one of them, under the same configuration.

## 3. What TLC checks

| run | question | bounds, and why they are enough |
|---|---|---|
| `paper` | do cash, book, fills and orders stay consistent over every target, price, override, skip and crash? | 2 symbols (one SELL funding one BUY), 2 days, 2 diffs (one crash and re-run, or two days), quantities to 2, capital 5: the gate scales down, refuses and lets through |
| `runners` | with two runners in one session, does the paper state still obey `PaperEngine`, does the kill switch bite, does each run end, is a completed day quiet? | 1 symbol, held, 2 diffs (both runners get through), deaths: what interleaves is runs, and a symbol more multiplies states without a new order of steps |
| `one_runner` | with the cron alone: one broker order per symbol and day, paper below the broker, the books of completed days closed? | 2 symbols, 2 days, 1 diff, quantities to 2 (partial fills), deaths |
| `pidfile` | one instance, and no refusal without a reason? | 3 starts, Windows: one dead, one stopping, one starting |
| `inbox` | once per click, on its day, answered? | 3 clicks (one before, one at and one after a discard), 2 days, 2 deaths |
| `accounts` | do book and replays agree, do the tiles add up, is a quiet day's change nothing? | 2 symbols, interchangeable (`Symmetry`), 2 prices, 3 fills, 2 days, quantities to 2, seed 26: two buys at different prices and a partial sale, or an exit and a re-entry; prices are multiples of 8, which `MCGrain` halves once a fill, so that averages stay whole |
| `selection` | are the best of those with data chosen, is the capital respected, can what is held be sold? | 3 symbols competing for 2 places, interchangeable (`Symmetry`), 5 kinds of bar, 1 failed fetch a run (enough to lose a held name), 2 days with re-runs, 1 death |
| `universe` | is what readers see always one refresh's universe, does the stamp describe it, is no share lost, does each refresh end? | 2 refreshes of 3 days' data (one on top of a published file), 2 shares and one that is no equity, a day without the second's volume and one only the older format covers, 1 death or failure; `Apart` |
| `token` | does a new token reach the client, and does every expiry end live trading? | 2 tokens with consecutive lives (the second expiry is the one a stale flag would hide), 2 edits, 1 toggle, 1 start; a unit of time is ten minutes and the hour is shortened to two |

`CHECK_DEADLOCK FALSE` is set because the bounds on days, diffs, clicks and
starts let the system come to rest.

Main properties, by what they relate:

* `PaperContract` (Execution): `Paper!Spec`, i.e. every step of the two runners
  is a step of `PaperEngine` or leaves the paper tables alone. So what is proved
  of `PaperEngine` holds of the interleaved system.
* `KillSwitchBites`: after live goes off, by the user or by a 401, each run that is
  placing still sends at most the one order that had passed the check. With two runs
  that is two: both may be between check and request.
* `OneLiveOrderPerDay`, `PaperNeverExceedsLive`, `CompletedDayIsSettled`: they
  relate broker, `live_orders` and paper tables across deaths. The last one: when a day
  is marked no paper order waits, every live order has its end on record, and no paper
  fill exceeds the live fill recorded. The end is the broker's (`Followed`) or that the
  run gave up (`GivenUp`: no answer, or nothing final in 60 s), and then neither book has a fill; the
  broker may still hold or fill such an order ("Disagreements" below).
* `SellsSettleFirst`, `PendingClosesGap`, `BookMatchesFills`, `NoLeverage`,
  `NeverOvershoots`, `HistoryIsKept`: the paper tables across crash and re-run.
* `ReplaysAgree`, `TilesAgree`, `QuietDayShowsNoChange`: three bookkeepings of one
  sequence of fills; worth computed from cash and marks against worth computed
  from gains and average costs; today's row and page against an earlier day's row.
* `MutualExclusion`, `RefusedForAReason`; `OneRunPerClick`,
  `RunsAreWantedToday`. `ClickIsAnswered`: every click is followed by a run or an
  alert, but for one that finds the day completed and one that falls between the
  stale alert and the unlink ("Disagreements" below).
* `SelectsTheBest`: with all data at hand the signals are the best of the
  universe, as a reference definition has it; with candles missing, nothing is
  selected that does not qualify, or ahead of a better name. `SizedToCapital`: what the targets cost stays within the
  capital, and falls short only as rounding explains. `HeldResolves`: a name
  in the book finds its security id, or a re-run has deleted its only signal.
* `Publishes`: `UniverseRefresh` implements `Publication` across deaths and
  readers. `StampDescribesFile`: the stamp never runs ahead of the file, and lags
  behind it only between rename and stamp, or when the refresh that renamed ended there,
  until the next one that gets through. `NoShareIsLost`: until a download is cut short,
  by a death or a failed write, the universe is what the exchange's data give.
* `TokenReachesClient`, `FreshTokenIsArmed`, `EveryExpiryEndsLive`: `.env` against
  the client, the flags against the token's life, and the second token's expiry
  against what the first one's left behind.

**Fairness.** `FairSpec` of `Execution` is strong fairness of `Progress(r)`:
every await of a run ends (HTTP timeouts in `dhan/client.py`, the 60 s of
`_wait_for_terminal`) and asyncio resumes ready coroutines in turn, so a run that
is again and again able to go on does go on. Strong, because another runner's
sections disable it in between. Failures (`Fail`), the broker, the user and
deaths are never required. `CommandInbox` assumes weak fairness of the poll
(APScheduler fires it, and runs end, which is `RunsEnd`) and of `Restart`
(someone starts the worker again). `UniverseRefresh` assumes weak fairness of
the steps of a refresh (not of `Fails`): each download ends, by its 30 s timeout if need be.
`TokenMonitor` assumes weak fairness of the steps of the two jobs, which
APScheduler fires every 10 s and 60 s as long as the worker is up; not of the
clock, the user or the worker's start.

### Disagreements

Three runs show the code doing something its documents say it does not. Each
checks one property and quotes the line (see `findings` in `PROJECT.json`):

* `overlap`: both runners pass the guard at `jobs.py:448` before either marks the
  day, and order the same symbol at the broker. `PaperContract` holds even so:
  the paper tables come out consistent.
* `universe_overlap`: two refreshes at once share `universe.csv.tmp`, and a
  half-written file is published as the universe. On the clock this needs a first
  start of the worker within minutes of 18:00; `Apart` excludes it in `universe`.
* `live_pnl`: `compute_live_daily_pnl` books what a SELL brings in as profit and
  takes its cost from nowhere, where FRD 304 has `signed_qty * (ltp - fill_price)`.
  A share bought and sold at one price is a gain of its price.

Others are plain to see in the models and have no run:

* The guard looks at the mark only, so a worker that dies between `place_orders` and
  the mark leaves orders at the broker, and the next click orders again, against
  `jobs.py:302-303`: `Execution` with `Runners = {"inbox"}` (no overlap), two diffs and
  `CanCrash` violates `OneLiveOrderPerDay`.
* `place_orders` gives an order up after 60 s (`PollTimeout`) where FRD 288 says 15:30,
  and gives it a `terminal_at` while the broker still holds it.
* `_record_terminal` (`PollTerminal`) writes a live fill, and `place_orders` an override
  other than 0, only for TRADED, so what a cancelled order filled is lost, against FRD 292.
* The unlink after the stale alert takes whatever file is there by then, so a click
  between the two (`DiscardUnlink`, `answer = "lost"`) has neither run nor alert, against
  `jobs.py:307-308`: what is deleted is no stale file.
* A click that finds the day completed is logged only (`Ignore`), where `jobs.py:300-302`
  and FRD 430 promise an alert; the comment at `jobs.py:344` says it is meant so.
* On POSIX two starts over a stale pid file may both run: `pidfile` with
  `Windows = FALSE` violates `MutualExclusion`, and the pid file of a running
  worker may be deleted by a start that is then refused.
* `live_ltp` rows outlive the holding they were polled for, so a symbol bought
  again is marked, and the next rebalance sized, at the old price until the next
  poll (`Accounts`: `ltp`).
* The watcher notes the mtime before it reads (`TokenMonitor`: `Stat`): when the
  read fails, or the token's line is one `dotenv_values` does not recognise, the
  token waits for the next edit or start, against FRD 212 and the byte order mark
  handling of `settings.py`. Live trading switched on by the user after the
  expiry alert stays on (`Toggle`), against FRD 233, until an order is refused
  with a 401. A token the broker refuses at start-up raises an alert and nothing
  else (`main.py:40-42`), against FRD 213.
* FRD 28 and 238 join the universe on ISIN, the code on the scrip code. An empty
  universe is published when the scrip master was cut off.
* A snapshot without a position of ours writes no row, so the one before it
  remains the latest (`Reconciliation`: `Reconcile`), and positions are ours by
  symbol, not by the tag of FRD 302.

## 4. What is proved

For every value of the constants, under the named assumptions of the modules:
bounds are naturals, prices are positive, a SELL's charge is at most its
notional, `RateBase` is positive, `Symbols` is finite where it is summed over,
`AtrBase` is a multiple of every ATR and prices are multiples of `Grain`, so that
weights and average costs are whole numbers. Each
inductive invariant was model-checked on the instances of section 3 before it
was proved.

* **PaperEngine**: `TypeOK`, `NoLeverage`, `BookMatchesFills`,
  `PendingClosesGap`, `SellsSettleFirst`, `HistoryIsKept`, `NeverOvershoots`. The
  properties are not inductive: that a waiting order closes its gap relies on
  there being one such order per symbol, that SELLs settle first on the loop
  being over exactly the PENDING rows. `IInv` adds `TableInv`: `RowsArePending`,
  `WaitingIsUnfilled`, `OnePendingPerSymbol`, `FreshIdsAreAbsent`,
  `NoFutureOrders`, `OneSessionPerDiff`. There is one lemma per action;
  `ChargesBounds` is the arithmetic of rounding that the cash gate rests on. The
  two action properties follow from `IInv`.
* **Execution**, with any runners, deaths and answers: `TypeOK`, `PaperContract`,
  `KillSwitchBites`, `CompletedDayIsQuiet`, and `EachPlacedOnce`, that no paper order is
  handed to the broker twice. The invariant is `Base`: the types, at most one
  coroutine in a section of the loop, `QuantitiesAgree` (what is asked of the
  broker, and what an override says, is no more than the paper order asks for),
  `QueuesAreUnplaced` and `SwitchInv` (with live off, a run that has sent its one late
  order has none in hand to send, whatever the others do). `QuantitiesAgree` is what the refinement needs: a
  run that comes late with an override for an order another run has settled or
  deleted must find it skipped, or within its quantity, for its step to be one of
  `PaperEngine`. `StepRefines` maps each step to a step or a stutter of
  `PaperEngine`, so `PaperPromisesHold` carries its theorems over.
  What overlap (run `overlap`) and a second run of the day break is proved from two hypotheses about the
  behaviour: `NoOverlap`, no run starts while another is in progress, gives
  `PaperNeverExceedsLive` (`Alone` adds that every live order is open without a fill or
  has its end on record, that the overrides in hand fit the live fills recorded, and so
  do the paper fills); with `NoSecondRun`, none starts on a day the broker was sent an
  order, also `OneLiveOrderPerDay` and `CompletedDayIsSettled` (`FirstRun` adds
  that the symbols left to place are fresh, that while the day is unmarked only the order
  in hand is open, and that once it is marked nothing is). `CronAlone` proves both hypotheses of the worker whose only runner is the
  cron, and `CronIsSafe` concludes. So the inbox is all that is between the worker
  and these three.
* **Accounts**: `TypeOK`, `ReplaysAgree`, `TilesAgree`, `QuietDayShowsNoChange`. None is
  inductive. What a recursive replay computes cannot be proved by induction over
  the fills here; it is proved along the behaviour instead. `Replayable` says that
  there is a function that satisfies the recursion for the fills so far, and that
  the pages take each of its steps as the engine does; a fill extends it by one
  (`EngineAppends`, `AlikeAppends`). `FillStep` is what one fill does to a position
  and to a replay that agree: both have the average cost whole before (`Grain`), so
  the book, which scales the cost of what is left, and the replay, which takes the
  average off, agree after; and what was gained is what the cost basis gained less
  what was paid. Hence `Balanced`, over sums of any length: cash, costs and charges
  are seed and gains. `TilesAgree` follows, as what is held was bought and has a
  mark. `SinceRefresh` says what the rows and gains are since the refresh of day
  `asOf`, and `NoRowAhead` that a new day has no row: from them the quiet day.
* **UniverseRefresh**: `TypeOK` for overlapping refreshes too; for refreshes that
  are `Apart`, that they implement `Publication` (`Publishes`), `PublishedWhole`
  and `StampDescribesFile`. The invariant `Whole` says that one refresh is in
  progress at most, that a file is the temporary or the published one and never
  both, that what was renamed, and what a reader has open, has both its parts
  from one refresh, and how far the temporary file is written at each place of
  the job. `Apart` is needed: run `universe_overlap`. `RefreshReadersNeverGoBack`
  draws what the contract says of its readers, `LoadsInOrder` and `NeverGoesBack`:
  a load in progress returns what was published when it began, which is no earlier
  than what was loaded before. `StampDescribesFile` needs `unstamped`, which tells a rename
  whose refresh ended there from one whose stamp is under way. `NoShareIsLost` rests on
  `DataInv`: as long as `~cut` only the file a job is saving is short of rows, a refresh has all rows of
  the days it went through, and the scrip master it joins is whole. A universe
  computed then is complete (`JoinIsComplete`): the anchor is the latest day with
  rows, and the days with fewer than `AdvLookback` after them are the one run of
  that many days the property speaks of (`LatestDays`), so both test the same sum.
* **Selection**: `TypeOK`, `SelectsTheBest`, `SizedToCapital`, `HeldResolves`, for any
  universe, number of positions and kinds of bar. The first three rest on
  `TypeInv`: locals are empty until they are fetched, and the names chosen are the
  head of the ranking. `SizedToCapital` is arithmetic over sums of any length, and
  the library's induction cannot be used, so the laws of sums (`TotalPick`, `TotalAny`,
  `TotalsCompare`) are proved by the smallest counterexample: `WFMin` on strict
  inclusion gives a least set a law fails for, and removing an element
  contradicts that. `HeldResolves` needs `HeldHasSignal`: every held name has a signal of some
  session, or a re-run erased its only one.
* **PidFile**: `TypeOK`, `RefusedForAReason` on either platform, and
  `MutualExclusion` where open files cannot be unlinked, for any number of
  processes. `LockInv` is the argument: every open handle leads to the file the
  path leads to, so the lock has one holder. The assumption is needed: without
  it TLC finds two instances in a few steps.
* **CommandInbox**: `TypeOK`, `OneRunPerClick`, `RunsAreWantedToday`. `FileInv`
  says that a file stands for a click no run was started for.
* **TokenMonitor**: `TypeOK` and `FreshTokenIsArmed`, which is inductive: the monitor
  arms a token in the step that clears the flags, disarms it in the step that
  sets `expired_alerted`, and a reload or the end of the process disarms it with
  the client's token. A tick that read the old token and acts late sets the flag,
  but the new token is armed by a later tick only, which clears it.

Model-checked only:

* liveness, which is out of the prover's reach: `RunsEnd`, `ClickIsAnswered`,
  `RefreshesEnd`, `TokenReachesClient`, `EveryExpiryEndsLive`;
* `Reconciliation`, where the run shows a disagreement.

## 5. Limits

* A missing candle or the cash gate may fill less on paper than the broker
  filled; that is the gate's design (FRD 251). `PaperNeverExceedsLive` bounds the
  paper fill from above only.
* `CompletedDayIsSettled` is about what is on record. An order a run gave up after 60 s,
  or recorded REJECTED without an answer, may be open at the broker on a marked day, and
  what it fills later is in neither book.
* The order in which `place_orders` goes through the rows is left open.
* Process ids are not reused in `PidFile`; `CommandInbox` takes an unlink to
  succeed.
* Prices, charges and quantities are integers; the code's charges are rounded to
  paise, its averages are floating-point numbers. A fill costs a constant `Fee` in
  `Accounts`.
* The trade log's portfolio value starts from 100,000 whatever the seed
  (`views.py:837`), and the drawdown adds up running values; neither is modelled.
* `Selection` takes the indicators (EMA, RSI, ATR, returns) as data of a bar, and
  the switches of `StrategyConfig` at their defaults. `UniverseRefresh` leaves out
  file formats and the scrip master path override, and takes rename as atomic.
  `TokenMonitor` takes every edit to change the mtime to one not seen before, and
  the alert, the switch and the flag of an expiry as one step of the monitor.
* `Reconciliation` covers one session; the divergence check only raises an alert.
* **Backfill tool.** It looks once whether the worker runs and live is off, then
  calls `execution_job(force=True)`, which skips the market check and the
  idempotency guard, in a process of its own. The steps are those of `Execution`,
  but `Execution` rests on one event loop running a section at a time, which two
  processes do not share; nothing here covers a worker that starts meanwhile.
* Not modelled: HTML views and charts (they only read), `market_status_poll_job`
  (it serves a pill that ages out after 90 s), alerts (plain inserts that no other
  part reads), log redaction, paths, launchers and `research/`.

## 6. Plan

1. The backfill tool as a second writer, at the granularity of transactions.
2. The frozen daily row across days in `Reconciliation`, and what the live tab
   shows of it.
