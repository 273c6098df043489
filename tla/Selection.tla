----------------------------- MODULE Selection -----------------------------
(***************************************************************************)
(* How execution_job (app/worker/jobs.py) comes to the day's signals:      *)
(* daily bars per symbol of the universe, the static filters, the opening  *)
(* volumes of the survivors, ranking and sizing (app/strategy/signals.py), *)
(* the rows of the signals table, and the security ids that orders for     *)
(* held names are placed and priced with.  Any fetch may fail, the worker  *)
(* may die between two steps and run the same session again, and a manual  *)
(* run may come before the opening candles are complete, or exist.         *)
(*                                                                         *)
(* Indicators are data: a symbol's latest bar has a date, says whether the *)
(* trend and RSI filters hold, and carries its ATR (in ticks of 0.001, a   *)
(* divisor of AtrBase), its sort metric and its close.  Relative returns   *)
(* subtract one mean from all symbols of a date, so that leaving symbols   *)
(* out does not reorder the others.                                        *)
(***************************************************************************)
EXTENDS Integers, FiniteSets, FiniteSetsExt, SequencesExt

CONSTANTS
    Symbols,
    Bars,          \* what the latest bar of a symbol can be
    VolumeMin,     \* cfg.intraday_volume_min
    AtrMax,        \* cfg.atr_pct_max
    AtrBase,       \* a common multiple of the ATRs
    MaxPositions,  \* cfg.max_positions
    MinPositions,  \* cfg.min_positions
    Capital,       \* paper_portfolio_value
    CostBps,       \* cfg.explicit_txn_cost_bps
    MaxDay,        \* bound: sessions
    MaxFailures,   \* bound: fetches that fail in a run
    MaxCrash       \* bound: deaths of the worker

ASSUME SymbolsAssumption == IsFiniteSet(Symbols)
ASSUME PositionsAssumption == MaxPositions \in Nat \ {0} /\ MinPositions \in Nat
ASSUME CapitalAssumption == Capital \in Nat /\ CostBps \in 0..10000
ASSUME BarsAssumption ==
    Bars \subseteq [last : Nat, trend : BOOLEAN, atr : Nat, metric : Int,
                    close : Nat \ {0}, volume : Nat]
ASSUME AtrAssumption ==
    AtrBase \in Nat \ {0} /\ \A b \in Bars : AtrBase % Max({b.atr, 1}) = 0
ASSUME BoundAssumption == MaxDay \in Nat \ {0} /\ MaxFailures \in Nat /\ MaxCrash \in Nat

VARIABLES
    day, crashes,
    universe,    \* the names in universe.csv
    market,      \* the latest bar of each symbol and its opening volume
    early,       \* the run in progress asks for volumes before 09:30
    phase,
    panel,       \* symbols whose bars were fetched
    volumes,     \* symbols whose opening volume was fetched whole, or reaches
                 \* VolumeMin with the candles there are
    completed,   \* execution_completed_at of the session is set
    signals,     \* the signals table
    held,        \* the names in paper_book
    erased       \* for the properties alone: names whose only signal a re-run deleted

vars == <<day, crashes, universe, market, early, phase, panel, volumes,
          completed, signals, held, erased>>

Markets == [Symbols -> Bars]
Signal == [day : 1..MaxDay, sym : Symbols, rank : 1..MaxPositions, qty : Nat]
Today == {x \in signals : x.day = day}

Init ==
    /\ day = 1 /\ crashes = 0
    /\ universe = Symbols
    /\ market \in Markets
    /\ early = FALSE /\ phase = "idle"
    /\ panel = {} /\ volumes = {}
    /\ completed = FALSE
    /\ signals = {} /\ held = {} /\ erased = {}

(***************************************************************************)
(* signals.py                                                              *)
(***************************************************************************)

\* Mutant: every symbol is judged by its own latest bar, however old.
RefRowsAnyDate == panel

\* The rows dated metrics["date"].max(): older symbols drop out.
RefRows == {s \in panel : \A t \in panel : market[t].last <= market[s].last}

StaticEligible == {s \in RefRows : market[s].trend /\ market[s].atr <= AtrMax}

\* The volume gate fails closed on a missing candle.
VolumeOk(s) == s \in volumes /\ market[s].volume >= VolumeMin

Eligible == {s \in StaticEligible : VolumeOk(s)}

\* The results sort_values(ascending=False) may have: ties in any order.
Rankings ==
    {q \in SetToSeqs(Eligible) :
        \A i, j \in 1..Len(q) : i < j => market[q[i]].metric >= market[q[j]].metric}

\* Mutant: every eligible name gets a position.
ChosenAll(q) == IF Len(q) < MinPositions THEN <<>> ELSE q

\* head(max_positions), or nothing below min_positions.
Chosen(q) == IF Len(q) < MinPositions THEN <<>>
           ELSE SubSeq(q, 1, Min({Len(q), MaxPositions}))

\* 1 / atr_pct, the ATR clipped from below to one tick.
Raw(s) == AtrBase \div Max({market[s].atr, 1})

RawSum(chosen) == SumFunction([s \in chosen |-> Raw(s)])

\* Mutant: rounded up, and the costs forgotten.
TargetQtyCeil(s, chosen) ==
    (Raw(s) * Capital + RawSum(chosen) * market[s].close - 1)
        \div (RawSum(chosen) * market[s].close)

\* floor(weight * capital * (1 - cost) / close).
TargetQty(s, chosen) ==
    (Raw(s) * Capital * (10000 - CostBps))
        \div (RawSum(chosen) * 10000 * market[s].close)

(***************************************************************************)
(* execution_job                                                           *)
(***************************************************************************)

Start ==
    /\ phase = "idle" /\ ~completed
    /\ universe # {}
    /\ early' \in BOOLEAN
    /\ phase' = "bars"
    /\ UNCHANGED <<day, crashes, universe, market, panel, volumes, completed,
                   signals, held, erased>>

\* One fetch per symbol; the ones that fail are skipped.  Without any the run
\* ends, and may be tried again.
FetchBars ==
    /\ phase = "bars"
    /\ \E lost \in SUBSET universe :
          /\ Cardinality(lost) <= MaxFailures
          /\ panel' = universe \ lost
          /\ phase' = IF panel' = {} THEN "idle" ELSE "volumes"
    /\ UNCHANGED <<day, crashes, universe, market, early, volumes, completed,
                   signals, held, erased>>

\* Opening candles of the survivors, fetched one symbol after the other: until
\* 09:30 the sums are partial, and any of them may fall short, before 09:25 all.
FetchVolumes ==
    /\ phase = "volumes"
    /\ \E lost \in SUBSET StaticEligible :
          /\ early \/ Cardinality(lost) + Cardinality(universe \ panel) <= MaxFailures
          /\ volumes' = StaticEligible \ lost
    /\ phase' = "build"
    /\ UNCHANGED <<day, crashes, universe, market, early, panel, completed,
                   signals, held, erased>>

Rows(q) == {[day |-> day, sym |-> q[i], rank |-> i, qty |-> TargetQty(q[i], ToSet(q))] :
               i \in 1..Len(q)}

\* The transaction of jobs.py:526-550.
Persist ==
    /\ phase = "build"
    /\ \E q \in Rankings :
          /\ signals' = (signals \ Today) \cup Rows(Chosen(q))
          /\ erased' = (erased \cup {x.sym : x \in Today}) \ {x.sym : x \in signals'}
    /\ phase' = "persisted"
    /\ UNCHANGED <<day, crashes, universe, market, early, panel, volumes, completed, held>>

\* Mutant: only today's signals and the universe are looked up.
ResolvesShort(s) == (\E x \in Today : x.sym = s) \/ s \in universe

\* Today's signal, else the latest earlier one, else the universe.
Resolves(s) ==
    \/ \E x \in Today : x.sym = s
    \/ \E x \in signals : x.sym = s
    \/ s \in universe

Wanted == {x.sym : x \in {y \in Today : y.qty > 0}}

\* The fills: BUYs of wanted names, EXITs of held names that are not wanted.  An
\* order whose symbol does not resolve, or without a 09:30 candle, is skipped.
Settle ==
    /\ phase = "persisted"
    /\ \E skipped \in SUBSET (Wanted \cup held) :
          /\ \A s \in Wanted \cup held : ~Resolves(s) => s \in skipped
          /\ Cardinality({s \in skipped : Resolves(s)}) <= MaxFailures
          /\ held' = (held \cap (Wanted \cup skipped)) \cup (Wanted \ skipped)
    /\ phase' = "settled"
    /\ UNCHANGED <<day, crashes, universe, market, early, panel, volumes, completed,
                   signals, erased>>

Quit == phase' = "idle" /\ early' = FALSE /\ panel' = {} /\ volumes' = {}

Complete ==
    /\ phase = "settled"
    /\ completed' = TRUE
    /\ Quit
    /\ UNCHANGED <<day, crashes, universe, market, signals, held, erased>>

Crash ==
    /\ phase # "idle" /\ crashes < MaxCrash
    /\ crashes' = crashes + 1
    /\ Quit
    /\ UNCHANGED <<day, universe, market, completed, signals, held, erased>>

\* A new session: the nightly refresh has published another universe.
NextDay ==
    /\ phase = "idle" /\ day < MaxDay
    /\ day' = day + 1
    /\ completed' = FALSE
    /\ universe' \in SUBSET Symbols
    /\ market' \in Markets
    /\ UNCHANGED <<crashes, early, phase, panel, volumes, signals, held, erased>>

Next ==
    \/ Start \/ FetchBars \/ FetchVolumes \/ Persist \/ Settle \/ Complete
    \/ Crash \/ NextDay

Spec == Init /\ [][Next]_vars

(***************************************************************************)
(* Properties                                                              *)
(***************************************************************************)

\* Types of tables and locals.
TypeOK ==
    /\ day \in 1..MaxDay /\ crashes \in 0..MaxCrash
    /\ universe \subseteq Symbols /\ market \in Markets
    /\ early \in BOOLEAN /\ completed \in BOOLEAN
    /\ phase \in {"idle", "bars", "volumes", "build", "persisted", "settled"}
    /\ panel \subseteq universe /\ volumes \subseteq panel
    /\ signals \subseteq Signal
    /\ held \subseteq Symbols /\ erased \subseteq Symbols

\* S is what the rules (FRD A.5, A.6, A.10) select among the symbols of U: those
\* that pass every filter on the latest date, no one of them left out for a
\* weaker one, up to MaxPositions.
Qualifies(U, s) ==
    /\ s \in U /\ market[s].trend /\ market[s].atr <= AtrMax
    /\ market[s].volume >= VolumeMin
    /\ \A t \in U : market[t].last <= market[s].last
IsBest(S, U) ==
    LET E == {s \in U : Qualifies(U, s)}
    IN /\ S \subseteq E
       /\ \A s \in S, t \in E \ S : market[s].metric >= market[t].metric
       /\ Cardinality(S) = IF Cardinality(E) < MinPositions THEN 0
                           ELSE Min({Cardinality(E), MaxPositions})

\* With all data at hand the signals are the best of the universe, so a held
\* name is dropped for a reason; whatever candles are missing, no name is
\* selected that does not qualify among those that were fetched, nor one ahead
\* of a better one of those with a volume (jobs.py:467-523, signals.py:193-261).
SelectsTheBest ==
    phase = "persisted" =>
        LET S == {x.sym : x \in Today} IN
        /\ panel = universe /\ StaticEligible = volumes => IsBest(S, universe)
        /\ \A s \in S : Qualifies(panel, s)
        /\ \A s \in S, t \in volumes \ S :
              Qualifies(panel, t) => market[s].metric >= market[t].metric

\* What the positions of some rows cost at the latest closes.
Outlay(D) == SumFunction([x \in D |-> x.qty * market[x.sym].close])

\* The signals never cost more than the capital less the transaction costs, and
\* no name is left a whole share short of its part (signals.py:235-245).
SizedToCapital ==
    phase = "persisted" =>
        LET S == {x.sym : x \in Today} IN
        /\ Outlay(Today) * 10000 <= Capital * (10000 - CostBps)
        /\ \A x \in Today :
              (x.qty + 1) * market[x.sym].close * 10000 * RawSum(S)
                 > Raw(x.sym) * Capital * (10000 - CostBps)

\* A held name keeps a security id to be priced and sold with after the universe
\* has dropped it (jobs.py:738-785), unless a re-run of the session it was bought
\* in deleted the only signal it ever had.
HeldResolves == \A s \in held \ erased : Resolves(s)
=============================================================================
