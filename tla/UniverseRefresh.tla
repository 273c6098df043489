-------------------------- MODULE UniverseRefresh --------------------------
(***************************************************************************)
(* The universe refresh of app/universe/: a thread of the worker fetches   *)
(* the bhavcopies of a window of days and the scrip master through caches  *)
(* on disk, computes the universe, writes it to universe.csv.tmp, renames  *)
(* that over universe.csv and stamps the settings table.  The nightly job  *)
(* and the bootstrap job that a worker registers when it finds no file     *)
(* both call it, and may overlap.  CsvUniverseProvider.load reads the file *)
(* from the event loop meanwhile.  The worker may die anywhere, and a disk *)
(* that is full or a database that is busy may end a refresh anywhere.     *)
(*                                                                         *)
(* A path is what it names: csv and tmp are files, and a descriptor keeps  *)
(* leading to the file it was opened on (POSIX).  The rows of a universe   *)
(* are written in two chunks, each tagged with the refresh it comes from;  *)
(* 0 is a chunk not written.  Tickers, prices and file formats are left    *)
(* out: a bhavcopy is the volumes of its STK rows.                         *)
(***************************************************************************)
EXTENDS Integers, FiniteSets, FiniteSetsExt, Functions

CONSTANTS
    Jobs,          \* the two job ids, "nightly" and "bootstrap"
    Apart,         \* TRUE: no refresh starts while another one runs
    MaxDay,        \* bound: days
    Codes,         \* sc_codes
    Equity,        \* those of EQUITY_SERIES
    Listed,        \* those the scrip master lists for BSE_EQ
    Volume,        \* Volume[d][c]: what c traded on day d, -1 for
                   \* no row, -2 for a row without a number
    Legacy,        \* days published as a zip only
    AdvMin,        \* ADV_MIN_SHARES
    AdvLookback,   \* ADV_LOOKBACK_DAYS
    Window,        \* lookback_days
    MaxAge,        \* days a cached scrip master is fresh
    MaxRefresh,    \* bound: universes computed
    MaxFailures    \* bound: deaths of the worker and failed operations

ASSUME JobsAssumption == Jobs = {"nightly", "bootstrap"} /\ Apart \in BOOLEAN
ASSUME VolumeAssumption == MaxDay \in Nat \ {0} /\ \A d \in 1..MaxDay : Volume[d] \in [Codes -> Int]
ASSUME LookbackAssumption ==
    AdvLookback \in Nat \ {0} /\ Window \in Nat /\ AdvMin \in Nat
ASSUME SharesAssumption == Equity \subseteq Codes /\ Listed \subseteq Codes
ASSUME BoundAssumption == MaxRefresh \in Nat /\ MaxFailures \in Nat

VARIABLES
    today, up, failures,
    ran,          \* the last day the 18:00 trigger fired
    boot,         \* the bootstrap job is waiting for its 5 seconds
    cached,       \* days with a non-empty bhavcopy file in the cache
    rows,         \* the codes that file shows
    scripAt,      \* day scrip_master.csv was written, 0 when there is none
    scripRows,    \* the codes it shows
    cut,          \* for the properties alone: a download was cut short
    pc, anchor, cursor, got, mine, fd,   \* locals of each refresh
    made,         \* universes computed so far
    output,       \* what each holds: codes and source_date, and the days it used
    content,      \* chunks of the files on disk
    csv, tmp,     \* the files the two names lead to, 0 for none
    stamp,        \* the refresh the settings rows describe, 0 for none
    unstamped,    \* for the properties alone: the last rename was never stamped
    readFd, loaded

clock == <<today, up, failures, ran, boot>>
caches == <<cached, rows, scripAt, scripRows, cut>>
locals == <<pc, anchor, cursor, got, mine, fd>>
store == <<made, output, content, csv, tmp, stamp, unstamped>>
reader == <<readFd, loaded>>
vars == <<clock, caches, locals, store, reader>>

Days == 1..MaxDay
Chunks == 1..2
Files == 1..4
Blank == [k \in Chunks |-> 0]

Init ==
    /\ today = 1 /\ up = TRUE /\ failures = 0 /\ ran = 0 /\ boot = TRUE
    /\ cached = {} /\ rows = [d \in Days |-> {}]
    /\ scripAt = 0 /\ scripRows = {} /\ cut = FALSE
    /\ pc = [r \in Jobs |-> "idle"]
    /\ anchor = [r \in Jobs |-> 0] /\ cursor = [r \in Jobs |-> 0]
    /\ got = [r \in Jobs |-> {}]
    /\ mine = [r \in Jobs |-> 0] /\ fd = [r \in Jobs |-> 0]
    /\ made = 0
    /\ output = [v \in 1..MaxRefresh |-> [codes |-> {}, days |-> {}, source |-> 0]]
    /\ content = [i \in Files |-> Blank]
    /\ csv = 0 /\ tmp = 0 /\ stamp = 0 /\ unstamped = FALSE
    /\ readFd = 0 /\ loaded = 0

(***************************************************************************)
(* compute_universe_frame and join_scrip_master                            *)
(***************************************************************************)

\* The last AdvLookback rows of c in the frame, its anchor row included.
RecentDays(frame, c) ==
    LET ds == {d \in Days : <<d, c>> \in frame}
    IN {d \in ds : Cardinality({e \in ds : e > d}) < AdvLookback}

\* Mutant: the sum is divided by adv_lookback, as if every share had traded then.
EnoughVolumeFixed(frame, c) ==
    SumFunction([d \in RecentDays(frame, c) |-> Volume[d][c]]) >= AdvMin * AdvLookback

\* Rolling mean volume against adv_min, multiplied out.
EnoughVolume(frame, c) ==
    LET ds == RecentDays(frame, c)
    IN SumFunction([d \in ds |-> Volume[d][c]]) >= AdvMin * Cardinality(ds)

\* The rows that survive the series filter and the volume >= 0 filter.
EquityRows(frame) == {x \in frame : x[2] \in Equity /\ Volume[x[1]][x[2]] >= 0}

\* The anchor day, or the latest day of the frame when it has no row.
AnchorDay(frame, day) ==
    IF \E x \in frame : x[1] = day THEN day ELSE Max({x[1] : x \in frame})

UniverseFrame(frame, day) ==
    {c \in Codes : <<AnchorDay(frame, day), c>> \in frame /\ EnoughVolume(frame, c)}

(***************************************************************************)
(* Jobs and their outcome                                                  *)
(***************************************************************************)

Goto(r, place) == pc' = [pc EXCEPT ![r] = place]

MayStart(r) == up /\ pc[r] = "idle" /\ (Apart => \A q \in Jobs : pc[q] = "idle")

Begin(r) ==
    /\ MayStart(r)
    /\ made < MaxRefresh
    /\ Goto(r, "fetch")
    /\ anchor' = [anchor EXCEPT ![r] = today]
    /\ cursor' = [cursor EXCEPT ![r] = today]
    /\ got' = [got EXCEPT ![r] = {}]
    /\ UNCHANGED <<mine, fd, caches, store, reader, today, up, failures>>

Nightly == Begin("nightly") /\ ran < today /\ ran' = today /\ UNCHANGED boot

Bootstrap == Begin("bootstrap") /\ boot /\ boot' = FALSE /\ UNCHANGED ran

\* The job ends: its locals go.
Leave(r) ==
    /\ Goto(r, "idle")
    /\ anchor' = [anchor EXCEPT ![r] = 0]
    /\ cursor' = [cursor EXCEPT ![r] = 0]
    /\ got' = [got EXCEPT ![r] = {}]
    /\ mine' = [mine EXCEPT ![r] = 0]
    /\ fd' = [fd EXCEPT ![r] = 0]

\* An exception leaves refresh_universe: an error alert, nothing else.
Raise(r) == Leave(r) /\ UNCHANGED <<clock, caches, store, reader>>

(***************************************************************************)
(* load_recent_bhavcopies: one day at a time, from the anchor backwards    *)
(***************************************************************************)

RowsOf(d) == {c \in Codes : Volume[d][c] # -1}

InWindow(r) == cursor[r] >= 1 /\ cursor[r] >= anchor[r] - Window

\* Parse the file of the cursor's day: its rows join the frame.
Take(r, readable) ==
    /\ got' = [got EXCEPT ![r] = @ \cup ({cursor[r]} \X readable)]
    /\ cursor' = [cursor EXCEPT ![r] = @ - 1]
    /\ Goto(r, "fetch")
    /\ UNCHANGED <<anchor, mine, fd>>

\* A truncated zip is a BadZipFile, which is no ValueError and is not caught;
\* a truncated csv shows fewer rows, or none when it is skipped as malformed.
Broken(d) == d \in Legacy /\ rows[d] # RowsOf(d)

ReadCached(r) ==
    /\ pc[r] = "fetch" /\ InWindow(r) /\ cursor[r] \in cached
    /\ IF Broken(cursor[r]) THEN Leave(r) ELSE Take(r, rows[cursor[r]])
    /\ UNCHANGED <<clock, caches, store, reader>>

\* Neither URL has it: holiday, not yet published, or no network.
NotFound(r) ==
    /\ pc[r] = "fetch" /\ InWindow(r) /\ cursor[r] \notin cached
    /\ Take(r, {})
    /\ UNCHANGED <<clock, caches, store, reader>>

\* write_bytes: the file grows, and is taken for a cached one as soon as it
\* is not empty.
Download(r) ==
    /\ pc[r] = "fetch" /\ InWindow(r) /\ cursor[r] \notin cached
    /\ RowsOf(cursor[r]) # {}
    /\ \E part \in SUBSET RowsOf(cursor[r]) :
          /\ part # RowsOf(cursor[r])
          /\ rows' = [rows EXCEPT ![cursor[r]] = part]
    /\ cached' = cached \cup {cursor[r]}
    /\ Goto(r, "save")
    /\ UNCHANGED <<clock, scripAt, scripRows, cut, anchor, cursor, got, mine, fd, store, reader>>

Save(r) ==
    /\ pc[r] = "save"
    /\ rows' = [rows EXCEPT ![cursor[r]] = RowsOf(cursor[r])]
    /\ Take(r, RowsOf(cursor[r]))
    /\ UNCHANGED <<clock, cached, scripAt, scripRows, cut, store, reader>>

\* Mutant: with nothing to go on with, the window is tried again.
EndOfWindowRetries(r) ==
    /\ pc[r] = "fetch" /\ ~InWindow(r)
    /\ IF got[r] = {} THEN /\ cursor' = [cursor EXCEPT ![r] = anchor[r]]
                           /\ UNCHANGED <<pc, anchor, got, mine, fd>>
       ELSE Goto(r, "scrip") /\ UNCHANGED <<anchor, cursor, got, mine, fd>>
    /\ UNCHANGED <<clock, caches, store, reader>>

\* bhavs.empty, or something to go on with.
EndOfWindow(r) ==
    /\ pc[r] = "fetch" /\ ~InWindow(r)
    /\ IF got[r] = {} THEN Leave(r)
       ELSE Goto(r, "scrip") /\ UNCHANGED <<anchor, cursor, got, mine, fd>>
    /\ UNCHANGED <<clock, caches, store, reader>>

(***************************************************************************)
(* fetch_scrip_master, load_bse_equities and the join                      *)
(***************************************************************************)

Fresh == scripAt # 0 /\ scripAt + MaxAge >= today

\* Mutant: stamp first, with the data at hand.
JoinStamps(r, listed) ==
    LET frame == EquityRows(got[r])
    IN IF frame = {} THEN Raise(r)
       ELSE /\ made < MaxRefresh
            /\ made' = made + 1
            /\ mine' = [mine EXCEPT ![r] = made + 1]
            /\ output' = [output EXCEPT ![made + 1] =
                    [codes |-> UniverseFrame(frame, anchor[r]) \cap listed,
                     days |-> {x[1] : x \in got[r]},
                     source |-> Max({x[1] : x \in got[r]})]]
            /\ stamp' = made + 1
            /\ Goto(r, "open")
            /\ UNCHANGED <<clock, caches, anchor, cursor, got, fd,
                           content, csv, tmp, unstamped, reader>>

\* The universe is computed; it gets the next number.  Without a single row
\* that survives the filters, NaT has no date() and the job ends.
Join(r, listed) ==
    LET frame == EquityRows(got[r])
    IN IF frame = {} THEN Raise(r)
       ELSE /\ made < MaxRefresh
            /\ made' = made + 1
            /\ mine' = [mine EXCEPT ![r] = made + 1]
            /\ output' = [output EXCEPT ![made + 1] =
                    [codes |-> UniverseFrame(frame, anchor[r]) \cap listed,
                     days |-> {x[1] : x \in got[r]},
                     source |-> Max({x[1] : x \in got[r]})]]
            /\ Goto(r, "open")
            /\ UNCHANGED <<clock, caches, anchor, cursor, got, fd,
                           content, csv, tmp, stamp, unstamped, reader>>

UseCachedScrip(r) == pc[r] = "scrip" /\ Fresh /\ Join(r, scripRows)

\* The header of a truncated file may be cut: ScripMasterError, not caught.
UnreadableScrip(r) ==
    pc[r] = "scrip" /\ scripAt # 0 /\ scripRows = {} /\ Raise(r)

\* The download fails: a copy of any age will do.
StaleScrip(r) ==
    /\ pc[r] = "scrip" /\ ~Fresh
    /\ IF scripAt # 0 THEN Join(r, scripRows) ELSE Raise(r)

DownloadScrip(r) ==
    /\ pc[r] = "scrip" /\ ~Fresh
    /\ scripAt' = today
    /\ scripRows' \in {part \in SUBSET Listed : part # Listed}
    /\ Goto(r, "scripSave")
    /\ UNCHANGED <<clock, cached, rows, cut, anchor, cursor, got, mine, fd, store, reader>>

SaveScrip(r) ==
    /\ pc[r] = "scripSave"
    /\ scripRows' = Listed
    /\ Goto(r, "scripRead")
    /\ UNCHANGED <<clock, cached, rows, scripAt, cut, anchor, cursor, got, mine, fd, store,
                   reader>>

ReadScrip(r) == pc[r] = "scripRead" /\ Join(r, scripRows)

(***************************************************************************)
(* write_universe_csv and _stamp_settings                                  *)
(***************************************************************************)

Unused == Files \ ({csv, tmp, readFd} \cup {fd[r] : r \in Jobs})

\* Mutant: the file that has the name is written in place.
OpenTmpInPlace(r) ==
    /\ pc[r] = "open"
    /\ LET i == IF csv # 0 THEN csv ELSE IF tmp = 0 THEN Min(Unused) ELSE tmp
       IN /\ tmp' = i
          /\ fd' = [fd EXCEPT ![r] = i]
          /\ content' = [content EXCEPT ![i] = Blank]
    /\ Goto(r, "write1")
    /\ UNCHANGED <<clock, caches, anchor, cursor, got, mine, made, output, csv, stamp, unstamped,
                   reader>>

\* open("w") creates the file, or truncates the one the name leads to.
OpenTmp(r) ==
    /\ pc[r] = "open"
    /\ LET i == IF tmp = 0 THEN Min(Unused) ELSE tmp
       IN /\ tmp' = i
          /\ fd' = [fd EXCEPT ![r] = i]
          /\ content' = [content EXCEPT ![i] = Blank]
    /\ Goto(r, "write1")
    /\ UNCHANGED <<clock, caches, anchor, cursor, got, mine, made, output, csv, stamp, unstamped,
                   reader>>

Write(r, k, from, to) ==
    /\ pc[r] = from
    /\ content' = [content EXCEPT ![fd[r]][k] = mine[r]]
    /\ Goto(r, to)
    /\ UNCHANGED <<clock, caches, anchor, cursor, got, mine, fd, made, output,
                   csv, tmp, stamp, unstamped, reader>>

WriteRows(r) == Write(r, 1, "write1", "write2") \/ Write(r, 2, "write2", "rename")

\* Mutant: replaced before the file is closed.
RenameOpen(r) ==
    /\ pc[r] = "rename" /\ tmp # 0
    /\ csv' = tmp /\ tmp' = 0
    /\ Goto(r, "stamp")
    /\ UNCHANGED <<clock, caches, anchor, cursor, got, mine, fd, made, output,
                   content, stamp, unstamped, reader>>

\* FileNotFoundError when the other refresh has renamed the file already.
Rename(r) ==
    /\ pc[r] = "rename"
    /\ IF tmp = 0 THEN Raise(r)
       ELSE /\ csv' = tmp
            /\ tmp' = 0
            /\ fd' = [fd EXCEPT ![r] = 0]
            /\ Goto(r, "stamp")
            /\ UNCHANGED <<clock, caches, anchor, cursor, got, mine, made, output,
                           content, stamp, unstamped, reader>>

\* One transaction; the job reports success.
Stamp(r) ==
    /\ pc[r] = "stamp"
    /\ stamp' = mine[r] /\ unstamped' = FALSE
    /\ Leave(r)
    /\ UNCHANGED <<clock, caches, made, output, content, csv, tmp, reader>>

(***************************************************************************)
(* CsvUniverseProvider.load, the worker's life and the calendar            *)
(***************************************************************************)

BeginLoad ==
    /\ up /\ readFd = 0 /\ csv # 0
    /\ readFd' = csv
    /\ UNCHANGED <<clock, caches, locals, store, loaded>>

\* The refresh a file holds, -1 when it holds chunks of several or of none.
HeldBy(i) ==
    IF i = 0 THEN 0
    ELSE IF content[i][1] = content[i][2] /\ content[i][1] # 0 THEN content[i][1]
    ELSE -1

EndLoad ==
    /\ readFd # 0
    /\ loaded' = HeldBy(readFd)
    /\ readFd' = 0
    /\ UNCHANGED <<clock, caches, locals, store>>

\* The jobs in gone stop where they are: what was being saved stays cut short,
\* a renamed file stays without its stamp.
CutOff(gone) ==
    /\ cut' = (cut \/ \E r \in gone : pc[r] \in {"save", "scripSave"})
    /\ unstamped' = (unstamped \/ \E r \in gone : pc[r] = "stamp")
    /\ UNCHANGED <<cached, rows, scripAt, scripRows, made, output, content, csv, tmp, stamp>>

\* No space, a file that cannot be read, a busy database: the job reports it.
Fails(r) ==
    /\ pc[r] # "idle" /\ failures < MaxFailures
    /\ failures' = failures + 1
    /\ CutOff({r})
    /\ Leave(r)
    /\ UNCHANGED <<today, up, ran, boot, reader>>

Crash ==
    /\ up /\ failures < MaxFailures
    /\ up' = FALSE /\ failures' = failures + 1 /\ boot' = FALSE
    /\ CutOff(Jobs)
    /\ pc' = [r \in Jobs |-> "idle"]
    /\ anchor' = [r \in Jobs |-> 0] /\ cursor' = [r \in Jobs |-> 0]
    /\ got' = [r \in Jobs |-> {}]
    /\ mine' = [r \in Jobs |-> 0] /\ fd' = [r \in Jobs |-> 0]
    /\ readFd' = 0
    /\ UNCHANGED <<today, ran, loaded>>

\* build_scheduler registers the bootstrap when there is no file.
Restart ==
    /\ ~up
    /\ up' = TRUE /\ boot' = (csv = 0)
    /\ UNCHANGED <<today, failures, ran, caches, locals, store, reader>>

NextDay ==
    /\ today < MaxDay
    /\ today' = today + 1
    /\ UNCHANGED <<up, failures, ran, boot, caches, locals, store, reader>>

Step(r) ==
    \/ ReadCached(r) \/ NotFound(r) \/ Download(r) \/ Save(r) \/ EndOfWindow(r)
    \/ UseCachedScrip(r) \/ UnreadableScrip(r) \/ StaleScrip(r)
    \/ DownloadScrip(r) \/ SaveScrip(r) \/ ReadScrip(r)
    \/ OpenTmp(r) \/ WriteRows(r) \/ Rename(r) \/ Stamp(r)

Next ==
    \/ Nightly \/ Bootstrap
    \/ \E r \in Jobs : Step(r) \/ Fails(r)
    \/ BeginLoad \/ EndLoad
    \/ Crash \/ Restart \/ NextDay

\* Downloads time out (30 s), so the thread of a refresh goes on.
Fairness == \A r \in Jobs : WF_vars(Step(r))

Spec == Init /\ [][Next]_vars /\ Fairness

(***************************************************************************)
(* Properties                                                              *)
(***************************************************************************)

\* Types of the variables of the refresh.
TypeOK ==
    /\ today \in Days /\ up \in BOOLEAN /\ failures \in 0..MaxFailures
    /\ ran \in 0..MaxDay /\ boot \in BOOLEAN
    /\ cached \subseteq Days /\ rows \in [Days -> SUBSET Codes]
    /\ scripAt \in 0..MaxDay /\ scripRows \subseteq Codes /\ cut \in BOOLEAN
    /\ pc \in [Jobs -> {"idle", "fetch", "save", "scrip", "scripSave", "scripRead",
                        "open", "write1", "write2", "rename", "stamp"}]
    /\ anchor \in [Jobs -> 0..MaxDay] /\ cursor \in [Jobs -> Int]
    /\ got \in [Jobs -> SUBSET (Days \X Codes)]
    /\ mine \in [Jobs -> 0..MaxRefresh] /\ fd \in [Jobs -> 0..4]
    /\ \A r \in Jobs : fd[r] # 0 <=> pc[r] \in {"write1", "write2", "rename"}
    /\ made \in 0..MaxRefresh
    /\ output \in [1..MaxRefresh -> [codes : SUBSET Codes, days : SUBSET Days,
                                   source : 0..MaxDay]]
    /\ content \in [Files -> [Chunks -> 0..MaxRefresh]]
    /\ csv \in 0..4 /\ tmp \in 0..4 /\ stamp \in 0..MaxRefresh /\ unstamped \in BOOLEAN
    /\ readFd \in 0..4 /\ loaded \in -1..MaxRefresh

\* Readers are promised what Publication says: the temporary file and the
\* rename (refresh.py:183-189) let no load see part of a universe, a mixture
\* of two, or an older one after a newer one, wherever the worker dies.
Contract ==
    INSTANCE Publication WITH published <- HeldBy(csv), snapshot <- HeldBy(readFd)
Publishes == Contract!PSpec

\* The file under the name universe.csv is whole ("atomically (temp + rename)",
\* refresh.py:181): not so when two refreshes share the temporary file.
PublishedWhole == HeldBy(csv) # -1

\* The count and the source date in settings never run ahead of the file, and
\* lag behind it only between the rename and the transaction, or because the
\* refresh that renamed ended there, by a death or an exception; the next one
\* that gets through makes up for it (refresh.py:258-269).
StampDescribesFile ==
    /\ stamp <= HeldBy(csv)
    /\ \/ stamp = HeldBy(csv)
       \/ unstamped
       \/ \E r \in Jobs : pc[r] = "stamp" /\ mine[r] = HeldBy(csv)

\* As long as no death and no exception left a truncated download behind, a universe
\* is what the exchange's own data give for the days that could be had: the listed shares
\* whose latest AdvLookback volumes up to the source date add up to AdvMin a
\* day.  (bhavcopy.py:123-131 and scrip_master.py:104-115 trust any non-empty
\* file, refresh.py:97-122 filters.)
NoShareIsLost ==
    ~cut => \A v \in 1..made :
        LET src == output[v].source
            before(c, d) == {e \in output[v].days : e >= d /\ Volume[e][c] >= 0}
            traded(c, n) ==
                \E d \in Days :
                    /\ Cardinality(before(c, d)) = n
                    /\ SumFunction([e \in before(c, d) |-> Volume[e][c]]) >= n * AdvMin
            days(c) == Cardinality(before(c, 1))
        IN (\E c \in Equity : Volume[src][c] >= 0) =>
             output[v].codes =
               {c \in Equity \cap Listed : /\ Volume[src][c] >= 0
                                          /\ traded(c, Min({AdvLookback, days(c)}))}

\* Every refresh comes to an end, published or reported, so the next one is not
\* held up by max_instances (jobs.py:41-74).
RefreshesEnd == \A r \in Jobs : pc[r] # "idle" ~> pc[r] = "idle"
=============================================================================
