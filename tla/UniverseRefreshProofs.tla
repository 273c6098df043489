----------------------- MODULE UniverseRefreshProofs -----------------------
(***************************************************************************)
(* Proofs about UniverseRefresh, for every calendar, set of shares and     *)
(* bound.                                                                  *)
(*                                                                         *)
(* The types hold whatever the two jobs do.  What readers are promised,    *)
(* and that no share is lost, is proved for refreshes that run apart, each *)
(* between the other's idle states: run universe_overlap shows that the    *)
(* first fails without.                                                    *)
(***************************************************************************)
EXTENDS UniverseRefresh, FiniteSetTheorems, WellFoundedInduction, TLAPS

Writing == {"write1", "write2", "rename"}
Places == {"idle", "fetch", "save", "scrip", "scripSave", "scripRead",
           "open", "write1", "write2", "rename", "stamp"}

ClockOK == /\ today \in Days /\ up \in BOOLEAN /\ failures \in 0..MaxFailures
           /\ ran \in 0..MaxDay /\ boot \in BOOLEAN
CachesOK == /\ cached \subseteq Days /\ rows \in [Days -> SUBSET Codes]
            /\ scripAt \in 0..MaxDay /\ scripRows \subseteq Codes /\ cut \in BOOLEAN
StoreOK == /\ made \in 0..MaxRefresh
           /\ output \in [1..MaxRefresh -> [codes : SUBSET Codes, days : SUBSET Days,
                                            source : 0..MaxDay]]
           /\ content \in [Files -> [Chunks -> 0..MaxRefresh]]
           /\ csv \in 0..4 /\ tmp \in 0..4 /\ stamp \in 0..MaxRefresh /\ unstamped \in BOOLEAN
ReaderOK == readFd \in 0..4 /\ loaded \in -1..MaxRefresh

\* The window goes backwards from a day that has come, and a bhavcopy that is
\* being saved is of one of the days.
LocalsOK ==
    /\ pc \in [Jobs -> Places]
    /\ anchor \in [Jobs -> 0..MaxDay] /\ cursor \in [Jobs -> Int]
    /\ got \in [Jobs -> SUBSET (Days \X Codes)]
    /\ mine \in [Jobs -> 0..MaxRefresh] /\ fd \in [Jobs -> 0..4]
    /\ \A r \in Jobs : /\ fd[r] # 0 <=> pc[r] \in Writing
                       /\ cursor[r] <= MaxDay
                       /\ pc[r] = "save" => cursor[r] >= 1

TypeInv == ClockOK /\ CachesOK /\ LocalsOK /\ StoreOK /\ ReaderOK

-----------------------------------------------------------------------------
(***************************************************************************)
(* Operators                                                               *)
(***************************************************************************)

\* The lowest free file exists.
LEMMA MinOfFiles ==
    ASSUME NEW S \in SUBSET Files, S # {}
    PROVE  Min(S) \in S
<1>1. \E x \in S : \A y \in S : x <= y
  <2>1. S \subseteq {1, 2, 3, 4}
    BY DEF Files
  <2>2. CASE 1 \in S
    BY <2>1, <2>2
  <2>3. CASE 1 \notin S /\ 2 \in S
    BY <2>1, <2>3
  <2>4. CASE 1 \notin S /\ 2 \notin S /\ 3 \in S
    BY <2>1, <2>4
  <2>5. CASE S = {4}
    BY <2>5
  <2> QED BY <2>1, <2>2, <2>3, <2>4, <2>5
<1> QED BY <1>1 DEF Min

\* So does the latest of some days.
LEMMA MaxOfDays ==
    ASSUME NEW S \in SUBSET Days, S # {}
    PROVE  Max(S) \in S /\ \A e \in S : e <= Max(S)
<1> DEFINE T == {MaxDay - d : d \in S}
<1>1. MaxDay \in Nat /\ \A d \in S : d \in Int /\ MaxDay - d \in Nat
  BY VolumeAssumption DEF Days
<1>2. T \subseteq Nat /\ T # {}
  BY <1>1
<1>3. PICK m \in T : \A n \in T : ~(<<n, m>> \in OpToRel(<, Nat))
  BY <1>2, NatLessThanWellFounded, WFMin
<1>4. \A n \in T : ~(n < m)
  BY <1>2, <1>3 DEF OpToRel
<1>5. PICK d \in S : m = MaxDay - d
  OBVIOUS
<1>6. ASSUME NEW e \in S PROVE d >= e
  <2>1. MaxDay - e \in T
    OBVIOUS
  <2>2. ~(MaxDay - e < MaxDay - d)
    BY <1>4, <1>5, <2>1
  <2> QED BY <1>1, <2>2
<1>7. Max(S) \in S /\ \A e \in S : Max(S) >= e
  BY <1>5, <1>6 DEF Max
<1> QED BY <1>1, <1>7

\* What a reader sees of a file.
LEMMA HeldByType ==
    ASSUME StoreOK, NEW i \in 0..4
    PROVE  HeldBy(i) \in -1..MaxRefresh
<1>1. MaxRefresh \in Nat
  BY BoundAssumption
<1>2. CASE i = 0
  BY <1>1, <1>2 DEF HeldBy
<1>3. CASE i # 0
  <2>1. i \in Files /\ 1 \in Chunks
    BY <1>3 DEF Files, Chunks
  <2>2. content[i] \in [Chunks -> 0..MaxRefresh]
    BY <2>1 DEF StoreOK
  <2>3. content[i][1] \in 0..MaxRefresh
    BY <2>1, <2>2
  <2> QED BY <1>1, <1>3, <2>3 DEF HeldBy
<1> QED BY <1>2, <1>3

\* A file that nobody has open is left for a refresh that opens one.
LEMMA FreeFile ==
    ASSUME TypeInv, NEW r \in Jobs, pc[r] = "open", tmp = 0
    PROVE  Unused # {} /\ Min(Unused) \in Unused /\ Unused \subseteq Files
<1>1. fd[r] = 0
  BY DEF TypeInv, LocalsOK, Writing
<1>2. Unused \subseteq Files
  BY DEF Unused
<1>3. PICK q \in Jobs : \A p \in Jobs : p = r \/ p = q
  BY JobsAssumption
<1>4. PICK i \in Files : i \notin {csv, readFd, fd[q]}
  BY DEF Files
<1>5. i \in Unused
  BY <1>1, <1>3, <1>4 DEF Unused, Files
<1> QED BY <1>2, <1>5, MinOfFiles

\* A job that ends forgets its locals.
LEMMA LeaveKeepsLocals ==
    ASSUME LocalsOK, NEW r \in Jobs, Leave(r)
    PROVE  LocalsOK'
<1> USE DEF LocalsOK, Leave, Goto, Places, Writing
<1>1. MaxDay \in Nat \ {0} /\ MaxRefresh \in Nat
  BY VolumeAssumption, BoundAssumption
<1>2. pc' \in [Jobs -> Places] /\ anchor' \in [Jobs -> 0..MaxDay] /\ cursor' \in [Jobs -> Int]
  BY <1>1
<1>3. got' \in [Jobs -> SUBSET (Days \X Codes)]
  OBVIOUS
<1>4. mine' \in [Jobs -> 0..MaxRefresh] /\ fd' \in [Jobs -> 0..4]
  BY <1>1
<1>5. \A q \in Jobs : /\ fd'[q] # 0 <=> pc'[q] \in Writing
                      /\ cursor'[q] <= MaxDay
                      /\ pc'[q] = "save" => cursor'[q] >= 1
  BY <1>1
<1> QED BY <1>2, <1>3, <1>4, <1>5

\* Nor does what was cut short change its type.
LEMMA CutOffKeepsTypes ==
    ASSUME CachesOK, StoreOK, NEW gone \in SUBSET Jobs, CutOff(gone)
    PROVE  CachesOK' /\ StoreOK'
BY DEF CachesOK, StoreOK, CutOff

\* A bhavcopy that was read takes the job one day back.
LEMMA TakeKeepsLocals ==
    ASSUME LocalsOK, NEW r \in Jobs, NEW readable \in SUBSET Codes, Take(r, readable),
           cursor[r] \in Days, fd[r] = 0
    PROVE  LocalsOK'
<1> USE DEF LocalsOK, Take, Goto, Places, Writing
<1>1. MaxDay \in Nat \ {0}
  BY VolumeAssumption
<1>2. pc' \in [Jobs -> Places] /\ cursor' \in [Jobs -> Int]
  OBVIOUS
<1>3. got' \in [Jobs -> SUBSET (Days \X Codes)]
  OBVIOUS
<1>4. \A q \in Jobs : /\ fd'[q] # 0 <=> pc'[q] \in Writing
                      /\ cursor'[q] <= MaxDay
                      /\ pc'[q] = "save" => cursor'[q] >= 1
  BY <1>1
<1> QED BY <1>2, <1>3, <1>4

\* A job that goes on without changing its other locals.
LEMMA GotoKeepsLocals ==
    ASSUME LocalsOK, NEW r \in Jobs, NEW p \in Places, Goto(r, p),
           UNCHANGED <<anchor, cursor, got, mine, fd>>,
           p \in Writing <=> pc[r] \in Writing,
           p = "save" => cursor[r] >= 1
    PROVE  LocalsOK'
<1> USE DEF LocalsOK, Goto
<1>1. pc' \in [Jobs -> Places]
  OBVIOUS
<1>2. \A q \in Jobs : /\ fd'[q] # 0 <=> pc'[q] \in Writing
                      /\ cursor'[q] <= MaxDay
                      /\ pc'[q] = "save" => cursor'[q] >= 1
  OBVIOUS
<1> QED BY <1>1, <1>2

\* The days a job goes through are days of the calendar.
LEMMA WindowDay ==
    ASSUME LocalsOK, NEW r \in Jobs,
           pc[r] \in {"fetch", "save"}, pc[r] = "fetch" => InWindow(r)
    PROVE  cursor[r] \in Days /\ fd[r] = 0
BY VolumeAssumption DEF LocalsOK, InWindow, Days, Writing

\* The computed universe, or the exception.
LEMMA JoinKeepsTypes ==
    ASSUME TypeInv, NEW r \in Jobs, NEW listed \in SUBSET Codes, Join(r, listed),
           pc[r] \notin Writing
    PROVE  LocalsOK' /\ StoreOK' /\ UNCHANGED <<clock, caches, reader>>
<1> DEFINE frame == EquityRows(got[r])
           source == Max({x[1] : x \in got[r]})
<1>1. CASE frame = {}
  <2>1. Raise(r)
    BY <1>1 DEF Join
  <2> QED BY <2>1, LeaveKeepsLocals DEF Raise, TypeInv, StoreOK, store
<1>2. CASE frame # {}
  <2>1. /\ made < MaxRefresh
        /\ made' = made + 1
        /\ mine' = [mine EXCEPT ![r] = made + 1]
        /\ output' = [output EXCEPT ![made + 1] =
                    [codes |-> UniverseFrame(frame, anchor[r]) \cap listed,
                     days |-> {x[1] : x \in got[r]},
                     source |-> source]]
        /\ Goto(r, "open")
        /\ UNCHANGED <<clock, caches, anchor, cursor, got, fd,
                           content, csv, tmp, stamp, unstamped, reader>>
    BY <1>2 DEF Join
  <2>2. MaxRefresh \in Nat /\ made \in 0..MaxRefresh
    BY BoundAssumption DEF TypeInv, StoreOK
  <2>3. got[r] \in SUBSET (Days \X Codes) /\ got[r] # {}
    BY <1>2 DEF TypeInv, LocalsOK, EquityRows
  <2>4. {x[1] : x \in got[r]} \subseteq Days /\ {x[1] : x \in got[r]} # {}
    BY <2>3
  <2>5. source \in 0..MaxDay
    BY <2>4, MaxOfDays DEF Days
  <2>6. UniverseFrame(frame, anchor[r]) \cap listed \in SUBSET Codes
    OBVIOUS
  <2> HIDE DEF source, frame
  <2>7. output' \in [1..MaxRefresh -> [codes : SUBSET Codes, days : SUBSET Days,
                                       source : 0..MaxDay]]
    BY <2>1, <2>2, <2>4, <2>5, <2>6 DEF TypeInv, StoreOK
  <2>8. StoreOK'
    BY <2>1, <2>2, <2>7 DEF TypeInv, StoreOK
  <2>9. mine' \in [Jobs -> 0..MaxRefresh]
    BY <2>1, <2>2 DEF TypeInv, LocalsOK
  <2>10. pc' \in [Jobs -> Places] /\ pc'[r] = "open" /\ \A q \in Jobs \ {r} : pc'[q] = pc[q]
    BY <2>1 DEF TypeInv, LocalsOK, Goto, Places
  <2>11. LocalsOK'
    BY <2>1, <2>9, <2>10 DEF TypeInv, LocalsOK, Writing
  <2> QED BY <2>1, <2>8, <2>11
<1> QED BY <1>1, <1>2

\* The temporary file is opened: the one that has the name, or a free one.
LEMMA OpenFacts ==
    ASSUME TypeInv, NEW r \in Jobs, OpenTmp(r)
    PROVE  \E i \in Files :
             /\ IF tmp = 0 THEN i \in Unused ELSE i = tmp
             /\ tmp' = i
             /\ fd' = [fd EXCEPT ![r] = i]
             /\ content' = [content EXCEPT ![i] = Blank]
<1>1. pc[r] = "open" /\ tmp \in 0..4
  BY DEF OpenTmp, TypeInv, StoreOK
<1>2. CASE tmp = 0
  <2>1. Min(Unused) \in Unused /\ Unused \subseteq Files
    BY <1>1, <1>2, FreeFile
  <2> QED BY <1>2, <2>1 DEF OpenTmp
<1>3. CASE tmp # 0
  <2>1. tmp \in Files
    BY <1>1, <1>3 DEF Files
  <2> QED BY <1>3, <2>1 DEF OpenTmp
<1> QED BY <1>2, <1>3

\* The file is truncated, written and renamed.
LEMMA WritingKeepsTypes ==
    ASSUME TypeInv, NEW r \in Jobs, OpenTmp(r) \/ WriteRows(r) \/ Rename(r) \/ Stamp(r)
    PROVE  LocalsOK' /\ StoreOK' /\ UNCHANGED <<clock, caches, reader>>
<1>0. MaxRefresh \in Nat /\ Blank \in [Chunks -> 0..MaxRefresh]
  BY BoundAssumption DEF Blank
<1>1. CASE OpenTmp(r)
  <2>1. PICK i \in Files : /\ tmp' = i
                           /\ fd' = [fd EXCEPT ![r] = i]
                           /\ content' = [content EXCEPT ![i] = Blank]
    BY <1>1, OpenFacts
  <2>2. i \in 0..4 /\ i # 0
    BY DEF Files
  <2>3. Goto(r, "write1") /\ UNCHANGED <<clock, caches, anchor, cursor, got, mine, made, output,
                                         csv, stamp, unstamped, reader>>
    BY <1>1 DEF OpenTmp
  <2>4. StoreOK'
    BY <1>0, <2>1, <2>2, <2>3 DEF TypeInv, StoreOK
  <2>5. pc' \in [Jobs -> Places] /\ pc'[r] = "write1" /\ \A q \in Jobs \ {r} : pc'[q] = pc[q]
    BY <2>3 DEF TypeInv, LocalsOK, Goto, Places
  <2>6. LocalsOK'
    BY <2>1, <2>2, <2>3, <2>5 DEF TypeInv, LocalsOK, Writing
  <2> QED BY <2>3, <2>4, <2>6
<1>2. CASE WriteRows(r)
  <2>1. PICK k \in Chunks, p \in {"write2", "rename"} :
            /\ pc[r] \in {"write1", "write2"}
            /\ content' = [content EXCEPT ![fd[r]][k] = mine[r]]
            /\ Goto(r, p)
            /\ UNCHANGED <<clock, caches, anchor, cursor, got, mine, fd, made, output,
                           csv, tmp, stamp, unstamped, reader>>
    BY <1>2 DEF WriteRows, Write, Chunks
  <2>2. fd[r] \in Files /\ mine[r] \in 0..MaxRefresh
    BY <2>1 DEF TypeInv, LocalsOK, Writing, Files
  <2>3. content' \in [Files -> [Chunks -> 0..MaxRefresh]]
    BY <2>1, <2>2 DEF TypeInv, StoreOK
  <2>4. StoreOK'
    BY <2>1, <2>3 DEF TypeInv, StoreOK
  <2>5. LocalsOK'
    BY <2>1, GotoKeepsLocals DEF TypeInv, Places, Writing
  <2> QED BY <2>1, <2>4, <2>5
<1>3. CASE Rename(r)
  <2>1. CASE tmp = 0
    <3>1. Raise(r)
      BY <1>3, <2>1 DEF Rename
    <3> QED BY <3>1, LeaveKeepsLocals DEF Raise, TypeInv, StoreOK, store
  <2>2. CASE tmp # 0
    <3>1. /\ pc[r] = "rename"
          /\ csv' = tmp /\ tmp' = 0
          /\ fd' = [fd EXCEPT ![r] = 0]
          /\ Goto(r, "stamp")
          /\ UNCHANGED <<clock, caches, anchor, cursor, got, mine, made, output,
                         content, stamp, unstamped, reader>>
      BY <1>3, <2>2 DEF Rename
    <3>2. StoreOK'
      BY <3>1 DEF TypeInv, StoreOK
    <3>3. pc' \in [Jobs -> Places] /\ pc'[r] = "stamp" /\ \A q \in Jobs \ {r} : pc'[q] = pc[q]
      BY <3>1 DEF TypeInv, LocalsOK, Goto, Places
    <3>4. /\ fd' \in [Jobs -> 0..4] /\ fd'[r] = 0
          /\ \A q \in Jobs \ {r} : fd'[q] = fd[q]
          /\ pc'[r] = "stamp" => pc'[r] \notin Writing
      BY <3>1 DEF TypeInv, LocalsOK, Writing
    <3>5. \A q \in Jobs : fd'[q] # 0 <=> pc'[q] \in Writing
      BY <3>3, <3>4 DEF TypeInv, LocalsOK
    <3>6. \A q \in Jobs : cursor'[q] <= MaxDay /\ (pc'[q] = "save" => cursor'[q] >= 1)
      BY <3>1, <3>3 DEF TypeInv, LocalsOK
    <3>7. LocalsOK'
      BY <3>1, <3>3, <3>4, <3>5, <3>6 DEF TypeInv, LocalsOK
    <3> QED BY <3>1, <3>2, <3>7
  <2> QED BY <2>1, <2>2
<1>4. CASE Stamp(r)
  <2>1. mine[r] \in 0..MaxRefresh
    BY DEF TypeInv, LocalsOK
  <2>2. StoreOK'
    BY <1>4, <2>1 DEF TypeInv, StoreOK, Stamp
  <2> QED BY <1>4, <2>2, LeaveKeepsLocals DEF Stamp, TypeInv
<1> QED BY <1>1, <1>2, <1>3, <1>4

\* One step of a refresh.
LEMMA StepKeepsTypes ==
    ASSUME TypeInv, NEW r \in Jobs, Step(r)
    PROVE  TypeInv'
<1>0. MaxDay \in Nat \ {0}
  BY VolumeAssumption
<1>u. /\ UNCHANGED clock => ClockOK'
      /\ UNCHANGED caches => CachesOK'
      /\ UNCHANGED store => StoreOK'
      /\ UNCHANGED reader => ReaderOK'
  BY DEF TypeInv, ClockOK, CachesOK, StoreOK, ReaderOK, clock, caches, store, reader
<1>r. ASSUME NEW d \in Days PROVE RowsOf(d) \subseteq Codes
  BY DEF RowsOf
<1>1. CASE ReadCached(r)
  <2>1. cursor[r] \in Days /\ fd[r] = 0
    BY <1>1, WindowDay DEF ReadCached, TypeInv
  <2>2. rows[cursor[r]] \in SUBSET Codes
    BY <2>1 DEF TypeInv, CachesOK
  <2>3. LocalsOK'
    BY <1>1, <2>1, <2>2, LeaveKeepsLocals, TakeKeepsLocals DEF ReadCached, TypeInv
  <2> QED BY <1>1, <1>u, <2>3 DEF ReadCached, TypeInv
<1>2. CASE NotFound(r)
  <2>1. cursor[r] \in Days /\ fd[r] = 0
    BY <1>2, WindowDay DEF NotFound, TypeInv
  <2>2. LocalsOK'
    BY <1>2, <2>1, TakeKeepsLocals DEF NotFound, TypeInv
  <2> QED BY <1>2, <1>u, <2>2 DEF NotFound, TypeInv
<1>3. CASE Download(r)
  <2>1. cursor[r] \in Days /\ fd[r] = 0
    BY <1>3, WindowDay DEF Download, TypeInv
  <2>2. PICK part \in SUBSET RowsOf(cursor[r]) : rows' = [rows EXCEPT ![cursor[r]] = part]
    BY <1>3 DEF Download
  <2>3. CachesOK'
    BY <1>3, <1>r, <2>1, <2>2 DEF Download, TypeInv, CachesOK
  <2>4. cursor[r] >= 1
    BY <1>0, <2>1 DEF Days
  <2>5. LocalsOK'
    BY <1>3, <2>4, GotoKeepsLocals DEF Download, TypeInv, Places, Writing
  <2> QED BY <1>3, <1>u, <2>3, <2>5 DEF Download, TypeInv
<1>4. CASE Save(r)
  <2>1. cursor[r] \in Days /\ fd[r] = 0
    BY <1>4, WindowDay DEF Save, TypeInv
  <2>2. RowsOf(cursor[r]) \in SUBSET Codes
    BY <1>r, <2>1
  <2>3. CachesOK'
    BY <1>4, <2>1, <2>2 DEF Save, TypeInv, CachesOK
  <2>4. LocalsOK'
    BY <1>4, <2>1, <2>2, TakeKeepsLocals DEF Save, TypeInv
  <2> QED BY <1>4, <1>u, <2>3, <2>4 DEF Save, TypeInv
<1>5. CASE EndOfWindow(r)
  <2>1. CASE got[r] = {}
    <3>1. Leave(r)
      BY <1>5, <2>1 DEF EndOfWindow
    <3> QED BY <1>5, <1>u, <3>1, LeaveKeepsLocals DEF EndOfWindow, TypeInv
  <2>2. CASE got[r] # {}
    <3>1. pc[r] = "fetch" /\ Goto(r, "scrip") /\ UNCHANGED <<anchor, cursor, got, mine, fd>>
      BY <1>5, <2>2 DEF EndOfWindow
    <3>2. LocalsOK'
      BY <3>1, GotoKeepsLocals DEF TypeInv, Places, Writing
    <3> QED BY <1>5, <1>u, <3>2 DEF EndOfWindow, TypeInv
  <2> QED BY <2>1, <2>2
<1>6. ASSUME pc[r] \in {"scrip", "scripRead"}, Join(r, scripRows) \/ Raise(r)
      PROVE  TypeInv'
  <2>1. scripRows \in SUBSET Codes /\ pc[r] \notin Writing
    BY <1>6 DEF TypeInv, CachesOK, Writing
  <2>2. CASE Join(r, scripRows)
    BY <1>u, <2>1, <2>2, JoinKeepsTypes DEF TypeInv
  <2>3. CASE Raise(r)
    BY <1>u, <2>3, LeaveKeepsLocals DEF TypeInv, Raise
  <2> QED BY <1>6, <2>2, <2>3
<1>7. CASE UseCachedScrip(r)
  BY <1>6, <1>7 DEF UseCachedScrip
<1>8. CASE UnreadableScrip(r)
  BY <1>6, <1>8 DEF UnreadableScrip
<1>9. CASE StaleScrip(r)
  BY <1>6, <1>9 DEF StaleScrip
<1>10. CASE DownloadScrip(r)
  <2>1. CachesOK'
    BY <1>0, <1>10, SharesAssumption DEF DownloadScrip, TypeInv, CachesOK, ClockOK, Days
  <2>2. LocalsOK'
    BY <1>10, GotoKeepsLocals DEF DownloadScrip, TypeInv, Places, Writing
  <2> QED BY <1>10, <1>u, <2>1, <2>2 DEF DownloadScrip, TypeInv
<1>11. CASE SaveScrip(r)
  <2>1. CachesOK'
    BY <1>11, SharesAssumption DEF SaveScrip, TypeInv, CachesOK
  <2>2. LocalsOK'
    BY <1>11, GotoKeepsLocals DEF SaveScrip, TypeInv, Places, Writing
  <2> QED BY <1>11, <1>u, <2>1, <2>2 DEF SaveScrip, TypeInv
<1>12. CASE ReadScrip(r)
  BY <1>6, <1>12 DEF ReadScrip
<1>13. CASE OpenTmp(r) \/ WriteRows(r) \/ Rename(r) \/ Stamp(r)
  BY <1>13, <1>u, WritingKeepsTypes DEF TypeInv
<1> QED BY <1>1, <1>2, <1>3, <1>4, <1>5, <1>7, <1>8, <1>9, <1>10, <1>11, <1>12, <1>13 DEF Step

\* The initial state, and every step: the jobs, the reader, the worker's life.
LEMMA InitTypes == Init => TypeInv
<1>1. MaxDay \in Nat \ {0} /\ MaxRefresh \in Nat /\ MaxFailures \in Nat
  BY VolumeAssumption, BoundAssumption
<1>b. Init => up \in BOOLEAN /\ boot \in BOOLEAN /\ cut \in BOOLEAN /\ unstamped \in BOOLEAN
  BY Zenon DEF Init
<1>2. Init => ClockOK
  BY <1>1, <1>b DEF Init, ClockOK, Days
<1>3. Init => CachesOK
  BY <1>1, <1>b DEF Init, CachesOK, Days
<1>4. Init => ReaderOK
  BY <1>1 DEF Init, ReaderOK
<1>5. Init => LocalsOK
  BY <1>1 DEF Init, LocalsOK, Places, Writing
<1>6. Blank \in [Chunks -> 0..MaxRefresh]
  BY <1>1 DEF Blank
<1>7. Init => StoreOK
  BY <1>1, <1>6, <1>b DEF Init, StoreOK
<1> QED BY <1>2, <1>3, <1>4, <1>5, <1>7 DEF TypeInv

\* Every step of a refresh, a reader or the clock keeps the types.
LEMMA NextTypes == TypeInv /\ [Next]_vars => TypeInv'
<1> SUFFICES ASSUME TypeInv, [Next]_vars PROVE TypeInv'
  OBVIOUS
<1>0. MaxDay \in Nat \ {0} /\ MaxRefresh \in Nat /\ MaxFailures \in Nat
  BY VolumeAssumption, BoundAssumption
<1>u. /\ UNCHANGED clock => ClockOK'
      /\ UNCHANGED caches => CachesOK'
      /\ UNCHANGED locals => LocalsOK'
      /\ UNCHANGED store => StoreOK'
      /\ UNCHANGED reader => ReaderOK'
  BY DEF TypeInv, ClockOK, CachesOK, LocalsOK, StoreOK, ReaderOK, clock, caches, locals, store,
         reader
<1>1. ASSUME NEW r \in Jobs, Begin(r) PROVE LocalsOK' /\ UNCHANGED <<caches, store, reader>>
  <2>1. today \in Days
    BY DEF TypeInv, ClockOK
  <2>2. anchor' \in [Jobs -> 0..MaxDay] /\ cursor' \in [Jobs -> Int]
    BY <1>0, <1>1, <2>1 DEF Begin, TypeInv, LocalsOK, Days
  <2>3. got' \in [Jobs -> SUBSET (Days \X Codes)]
    BY <1>1 DEF Begin, TypeInv, LocalsOK
  <2>4. pc' \in [Jobs -> Places] /\ pc'[r] = "fetch" /\ \A q \in Jobs \ {r} : pc'[q] = pc[q]
    BY <1>1 DEF Begin, Goto, TypeInv, LocalsOK, Places
  <2>5. pc[r] = "idle" /\ mine' = mine /\ fd' = fd
    BY <1>1 DEF Begin, MayStart
  <2>6. \A q \in Jobs : /\ fd'[q] # 0 <=> pc'[q] \in Writing
                        /\ cursor'[q] <= MaxDay
                        /\ pc'[q] = "save" => cursor'[q] >= 1
    BY <1>0, <1>1, <2>1, <2>4, <2>5 DEF Begin, TypeInv, LocalsOK, Writing, Days
  <2> QED BY <1>1, <2>2, <2>3, <2>4, <2>5, <2>6 DEF Begin, TypeInv, LocalsOK
<1>2. CASE Nightly
  <2>1. "nightly" \in Jobs
    BY JobsAssumption
  <2>2. ran' = today /\ UNCHANGED <<today, up, failures, boot>>
    BY <1>2 DEF Nightly, Begin
  <2>3. ClockOK'
    BY <1>0, <2>2 DEF TypeInv, ClockOK, Days
  <2> QED BY <1>1, <1>2, <1>u, <2>1, <2>3 DEF Nightly, TypeInv
<1>3. CASE Bootstrap
  <2>1. "bootstrap" \in Jobs
    BY JobsAssumption
  <2>2. ClockOK'
    BY <1>0, <1>3 DEF Bootstrap, Begin, TypeInv, ClockOK, Days
  <2> QED BY <1>1, <1>3, <1>u, <2>1, <2>2 DEF Bootstrap, TypeInv
<1>4. CASE \E r \in Jobs : Step(r)
  BY <1>4, StepKeepsTypes
<1>5. CASE BeginLoad
  <2>1. ReaderOK'
    BY <1>5 DEF BeginLoad, TypeInv, ReaderOK, StoreOK
  <2> QED BY <1>5, <1>u, <2>1 DEF BeginLoad, TypeInv
<1>6. CASE EndLoad
  <2>1. HeldBy(readFd) \in -1..MaxRefresh
    BY HeldByType DEF TypeInv, ReaderOK
  <2>2. ReaderOK'
    BY <1>6, <2>1 DEF EndLoad, TypeInv, ReaderOK
  <2> QED BY <1>6, <1>u, <2>2 DEF EndLoad, TypeInv
<1>7. CASE Crash
  <2>0. CachesOK' /\ StoreOK'
    BY <1>7, CutOffKeepsTypes DEF Crash, TypeInv
  <2>1. ClockOK'
    <3>1. /\ failures < MaxFailures /\ up' = FALSE /\ boot' = FALSE
          /\ failures' = failures + 1 /\ today' = today /\ ran' = ran
      BY <1>7 DEF Crash
    <3>2. failures' \in 0..MaxFailures
      BY <1>0, <3>1 DEF TypeInv, ClockOK
    <3>3. up' \in BOOLEAN /\ boot' \in BOOLEAN
      BY <3>1
    <3> QED BY <3>1, <3>2, <3>3 DEF TypeInv, ClockOK
  <2>2. ReaderOK'
    BY <1>7 DEF Crash, TypeInv, ReaderOK
  <2>3. LocalsOK'
    BY <1>0, <1>7 DEF Crash, TypeInv, LocalsOK, Places, Writing
  <2> QED BY <2>0, <2>1, <2>2, <2>3 DEF TypeInv
<1>8. CASE Restart
  <2>1. ClockOK'
    BY <1>8 DEF Restart, TypeInv, ClockOK
  <2> QED BY <1>8, <1>u, <2>1 DEF Restart, TypeInv
<1>9. CASE NextDay
  <2>1. ClockOK'
    BY <1>0, <1>9 DEF NextDay, TypeInv, ClockOK, Days
  <2> QED BY <1>9, <1>u, <2>1 DEF NextDay, TypeInv
<1>10. CASE UNCHANGED vars
  BY <1>10, <1>u DEF vars, TypeInv
<1>11. CASE \E r \in Jobs : Fails(r)
  <2>1. PICK r \in Jobs : Fails(r)
    BY <1>11
  <2>2. CachesOK' /\ StoreOK'
    BY <2>1, CutOffKeepsTypes DEF Fails, TypeInv
  <2>3. LocalsOK'
    BY <2>1, LeaveKeepsLocals DEF Fails, TypeInv
  <2>4. ClockOK'
    BY <1>0, <2>1 DEF Fails, TypeInv, ClockOK
  <2> QED BY <1>u, <2>1, <2>2, <2>3, <2>4 DEF Fails, TypeInv
<1> QED BY <1>2, <1>3, <1>4, <1>5, <1>6, <1>7, <1>8, <1>9, <1>10, <1>11 DEF Next

\* The types hold in every reachable state.
LEMMA SpecTypes == Spec => []TypeInv
BY InitTypes, NextTypes, PTL DEF Spec

\* The types of the refresh hold even when two refreshes overlap and truncated
\* downloads lie in the cache: there is a free file to open, a window never asks
\* for a day outside the calendar, and every reader has something to read.
THEOREM RefreshTypeOK == Spec => []TypeOK
<1>1. TypeInv => TypeOK
  BY DEF TypeInv, ClockOK, CachesOK, LocalsOK, StoreOK, ReaderOK, TypeOK, Places, Writing
<1> QED BY <1>1, SpecTypes, PTL

-----------------------------------------------------------------------------
(***************************************************************************)
(* Refreshes that run apart                                                *)
(***************************************************************************)

\* At most one job runs.
Solo == \A p, q \in Jobs : pc[p] # "idle" /\ pc[q] # "idle" => p = q

\* The file under the temporary name is neither the published one nor one that
\* is being read, and both of those are whole.
FilesOK ==
    /\ tmp # 0 => tmp # csv /\ tmp # readFd
    /\ HeldBy(csv) \in 0..made
    /\ csv # 0 => HeldBy(csv) # 0
    /\ readFd # 0 => HeldBy(readFd) \in 1..made

\* A job that has computed a universe writes the latest one, later than the
\* published one, chunk by chunk into the temporary file.
JobOK(r) ==
    /\ pc[r] \in Writing => fd[r] = tmp
    /\ pc[r] \in Writing \cup {"open", "stamp"} => mine[r] = made /\ made > 0
    /\ pc[r] = "write2" => content[tmp][1] = mine[r]
    /\ pc[r] = "rename" => content[tmp][1] = mine[r] /\ content[tmp][2] = mine[r]
    /\ pc[r] \in Writing \cup {"open"} => HeldBy(csv) < made
    /\ pc[r] = "stamp" => HeldBy(csv) = made

Whole == Solo /\ FilesOK /\ \A r \in Jobs : JobOK(r)

\* What a step has to keep for readers: the files, the jobs, the settings rows,
\* and the contract of Publication.
Keeps == /\ FilesOK' /\ \A q \in Jobs : JobOK(q)'
         /\ StampDescribesFile => StampDescribesFile'
         /\ [Contract!PNext]_(Contract!pubVars)

\* What the published file and the one being read hold, as numbers.
LEMMA HeldFacts ==
    ASSUME TypeInv, Whole
    PROVE  /\ MaxRefresh \in Nat /\ made \in 0..MaxRefresh
           /\ HeldBy(csv) \in 0..made /\ (HeldBy(csv) = 0 <=> csv = 0)
           /\ HeldBy(readFd) \in 0..made /\ (HeldBy(readFd) = 0 <=> readFd = 0)
           /\ stamp \in 0..MaxRefresh /\ unstamped \in BOOLEAN
<1>1. MaxRefresh \in Nat /\ made \in 0..MaxRefresh
  BY BoundAssumption DEF TypeInv, StoreOK
<1>2. HeldBy(0) = 0
  BY DEF HeldBy
<1>3. csv = 0 => HeldBy(csv) = 0
  BY <1>2
<1>4. readFd = 0 => HeldBy(readFd) = 0
  BY <1>2
<1>5. stamp \in 0..MaxRefresh /\ unstamped \in BOOLEAN
  BY <1>1 DEF TypeInv, StoreOK
<1>6. HeldBy(csv) \in 0..made /\ (csv # 0 => HeldBy(csv) # 0)
  BY DEF Whole, FilesOK
<1>7. readFd # 0 => HeldBy(readFd) \in 1..made
  BY DEF Whole, FilesOK
<1> QED BY <1>1, <1>3, <1>4, <1>5, <1>6, <1>7

\* A file that is not written goes on holding what it held.
LEMMA SameFiles ==
    /\ csv' = csv /\ (csv # 0 => content'[csv] = content[csv]) => HeldBy(csv)' = HeldBy(csv)
    /\ readFd' = readFd /\ (readFd # 0 => content'[readFd] = content[readFd])
          => HeldBy(readFd)' = HeldBy(readFd)
    /\ content' = content => /\ csv' = csv => HeldBy(csv)' = HeldBy(csv)
                             /\ readFd' = readFd => HeldBy(readFd)' = HeldBy(readFd)
BY DEF HeldBy

\* The step changes nothing a reader sees.
LEMMA UnseenStep ==
    ASSUME HeldBy(csv)' = HeldBy(csv), HeldBy(readFd)' = HeldBy(readFd), loaded' = loaded
    PROVE  [Contract!PNext]_(Contract!pubVars)
BY DEF Contract!pubVars

\* A job that is not running asks nothing of the files.
LEMMA IdleJob == ASSUME NEW q \in Jobs, pc'[q] = "idle" PROVE JobOK(q)'
BY DEF JobOK, Writing

\* A job that fetches, reads or gives up.
LEMMA QuietKeeps ==
    ASSUME TypeInv, Whole, NEW r \in Jobs,
           UNCHANGED <<made, content, csv, tmp, stamp, readFd, loaded>>,
           unstamped \/ pc[r] = "stamp" => unstamped',
           pc'[r] \in {"idle", "fetch", "save", "scrip", "scripSave", "scripRead"},
           \A q \in Jobs \ {r} : pc'[q] = pc[q] /\ mine'[q] = mine[q] /\ fd'[q] = fd[q]
    PROVE  Keeps
<1>1. HeldBy(csv)' = HeldBy(csv) /\ HeldBy(readFd)' = HeldBy(readFd)
  BY SameFiles
<1>2. FilesOK'
  BY <1>1 DEF Whole, FilesOK
<1>3. JobOK(r)'
  BY DEF JobOK, Writing
<1>4. ASSUME NEW q \in Jobs, q # r PROVE JobOK(q)'
  BY <1>1, <1>4 DEF Whole, JobOK
<1>5. StampDescribesFile => StampDescribesFile'
  <2> SUFFICES ASSUME StampDescribesFile PROVE StampDescribesFile'
    OBVIOUS
  <2>1. stamp' <= HeldBy(csv)'
    BY <1>1 DEF StampDescribesFile
  <2>2. \/ stamp' = HeldBy(csv)'
        \/ unstamped'
        \/ \E q \in Jobs : pc'[q] = "stamp" /\ mine'[q] = HeldBy(csv)'
    BY <1>1 DEF StampDescribesFile
  <2> QED BY <2>1, <2>2 DEF StampDescribesFile
<1> QED BY <1>1, <1>2, <1>3, <1>4, <1>5, UnseenStep DEF Keeps

\* A step of the calendar or of the launcher.
LEMMA StillKeeps ==
    ASSUME TypeInv, Whole,
           UNCHANGED <<unstamped, made, content, csv, tmp, stamp, readFd, loaded, pc, mine, fd>>
    PROVE  Keeps
<1>1. HeldBy(csv)' = HeldBy(csv) /\ HeldBy(readFd)' = HeldBy(readFd)
  BY SameFiles
<1>2. FilesOK'
  BY <1>1 DEF Whole, FilesOK
<1>3. ASSUME NEW q \in Jobs PROVE JobOK(q)'
  BY <1>1 DEF Whole, JobOK
<1>4. StampDescribesFile => StampDescribesFile'
  BY <1>1 DEF StampDescribesFile
<1> QED BY <1>1, <1>2, <1>3, <1>4, UnseenStep DEF Keeps

-----------------------------------------------------------------------------

\* Only the job that takes a step moves, and it was running.
LEMMA OthersStay ==
    ASSUME LocalsOK, NEW r \in Jobs, Step(r)
    PROVE  /\ pc[r] # "idle"
           /\ \A q \in Jobs \ {r} : pc'[q] = pc[q] /\ mine'[q] = mine[q] /\ fd'[q] = fd[q]
<1> USE DEF LocalsOK, Goto, Leave, Take, Raise
<1>1. CASE ReadCached(r) \/ NotFound(r)
  BY <1>1 DEF ReadCached, NotFound
<1>2. CASE Download(r) \/ Save(r)
  BY <1>2 DEF Download, Save
<1>3. CASE EndOfWindow(r)
  BY <1>3 DEF EndOfWindow
<1>4. ASSUME pc[r] \in {"scrip", "scripRead"}, Join(r, scripRows) \/ Raise(r)
      PROVE  /\ pc[r] # "idle"
             /\ \A q \in Jobs \ {r} : pc'[q] = pc[q] /\ mine'[q] = mine[q] /\ fd'[q] = fd[q]
  <2>1. CASE Raise(r)
    BY <1>4, <2>1
  <2>2. CASE Join(r, scripRows) /\ ~Raise(r)
    <3>1. Goto(r, "open") /\ mine' = [mine EXCEPT ![r] = made + 1] /\ fd' = fd
      BY <2>2 DEF Join
    <3> QED BY <1>4, <3>1
  <2> QED BY <1>4, <2>1, <2>2
<1>5. CASE UseCachedScrip(r) \/ UnreadableScrip(r) \/ StaleScrip(r) \/ ReadScrip(r)
  BY <1>4, <1>5 DEF UseCachedScrip, UnreadableScrip, StaleScrip, ReadScrip
<1>6. CASE DownloadScrip(r) \/ SaveScrip(r)
  BY <1>6 DEF DownloadScrip, SaveScrip
<1>7. CASE OpenTmp(r) \/ WriteRows(r)
  BY <1>7 DEF OpenTmp, WriteRows, Write
<1>8. CASE Rename(r) \/ Stamp(r)
  BY <1>8 DEF Rename, Stamp
<1> QED BY <1>1, <1>2, <1>3, <1>5, <1>6, <1>7, <1>8 DEF Step

\* A step of one job, with the others idle: its own part of Whole is what matters.
LEMMA ItsOwnPart ==
    ASSUME TypeInv, Whole, NEW r \in Jobs, Step(r), JobOK(r)'
    PROVE  \A q \in Jobs : JobOK(q)' /\ (q # r => pc[q] = "idle")
<1>1. \A q \in Jobs \ {r} : pc'[q] = "idle" /\ pc[q] = "idle"
  BY OthersStay DEF TypeInv, Whole, Solo
<1>2. \A q \in Jobs \ {r} : JobOK(q)'
  BY <1>1, IdleJob
<1> QED BY <1>1, <1>2

\* The universe is computed, and is later than the published one.
LEMMA JoinKeeps ==
    ASSUME TypeInv, Whole, NEW r \in Jobs, Step(r), pc[r] \in {"scrip", "scripRead"},
           Join(r, scripRows)
    PROVE  Keeps
<1>1. CASE Raise(r)
  <2>1. /\ pc'[r] = "idle" /\ pc[r] # "stamp"
        /\ UNCHANGED <<unstamped, made, content, csv, tmp, stamp, readFd, loaded>>
    BY <1>1 DEF Raise, Leave, Goto, clock, store, reader, TypeInv, LocalsOK
  <2>2. \A q \in Jobs \ {r} : pc'[q] = pc[q] /\ mine'[q] = mine[q] /\ fd'[q] = fd[q]
    BY OthersStay DEF TypeInv
  <2> QED BY <2>1, <2>2, QuietKeeps
<1>2. CASE ~Raise(r)
  <2>1. /\ made' = made + 1 /\ mine' = [mine EXCEPT ![r] = made + 1]
        /\ Goto(r, "open")
        /\ UNCHANGED <<unstamped, content, csv, tmp, stamp, readFd, loaded>>
    BY <1>2 DEF Join, clock, reader
  <2>2. pc'[r] = "open" /\ mine'[r] = made'
    BY <2>1 DEF Goto, TypeInv, LocalsOK
  <2>3. HeldBy(csv)' = HeldBy(csv) /\ HeldBy(readFd)' = HeldBy(readFd)
    BY <2>1, SameFiles
  <2>4. made' > 0 /\ HeldBy(csv) < made' /\ made < made'
    BY <2>1, HeldFacts
  <2>5. FilesOK'
    <3>1. (tmp # 0 => tmp # csv /\ tmp # readFd)'
      BY <2>1 DEF Whole, FilesOK
    <3>2. HeldBy(csv)' \in 0..made' /\ (csv' # 0 => HeldBy(csv)' # 0)
      BY <2>1, <2>3, HeldFacts
    <3>3. readFd' # 0 => HeldBy(readFd)' \in 1..made'
      BY <2>1, <2>3, HeldFacts
    <3> QED BY <3>1, <3>2, <3>3 DEF FilesOK
  <2>6. JobOK(r)'
    BY <2>2, <2>3, <2>4 DEF JobOK, Writing
  <2>7. StampDescribesFile => StampDescribesFile'
    <3> SUFFICES ASSUME StampDescribesFile PROVE StampDescribesFile'
      OBVIOUS
    <3>1. stamp' <= HeldBy(csv)'
      BY <2>1, <2>3 DEF StampDescribesFile
    <3>2. \A q \in Jobs : pc[q] # "stamp"
      BY <2>6, ItsOwnPart
    <3>3. stamp' = HeldBy(csv)' \/ unstamped'
      BY <2>1, <2>3, <3>2 DEF StampDescribesFile
    <3> QED BY <3>1, <3>3 DEF StampDescribesFile
  <2> QED BY <2>1, <2>3, <2>5, <2>6, <2>7, ItsOwnPart, UnseenStep DEF Keeps
<1> QED BY <1>1, <1>2

\* The temporary file is opened and written: no reader has it.
LEMMA WritingKeeps ==
    ASSUME TypeInv, Whole, NEW r \in Jobs, Step(r), JobOK(r)', pc[r] # "stamp",
           tmp' # 0 => tmp' # csv /\ tmp' # readFd,
           \A i \in Files : i # tmp' => content'[i] = content[i],
           UNCHANGED <<unstamped, made, csv, stamp, readFd, loaded>>
    PROVE  Keeps
<1>1. /\ csv # 0 => csv \in Files /\ csv # tmp'
      /\ readFd # 0 => readFd \in Files /\ readFd # tmp'
  BY DEF TypeInv, StoreOK, ReaderOK, Files
<1>2. HeldBy(csv)' = HeldBy(csv) /\ HeldBy(readFd)' = HeldBy(readFd)
  BY <1>1, SameFiles
<1>3. FilesOK'
  <2>1. (tmp # 0 => tmp # csv /\ tmp # readFd)'
    OBVIOUS
  <2>2. HeldBy(csv)' \in 0..made' /\ (csv' # 0 => HeldBy(csv)' # 0)
    BY <1>2, HeldFacts
  <2>3. readFd' # 0 => HeldBy(readFd)' \in 1..made'
    BY <1>2, HeldFacts
  <2> QED BY <2>1, <2>2, <2>3 DEF FilesOK
<1>4. StampDescribesFile => StampDescribesFile'
  <2> SUFFICES ASSUME StampDescribesFile PROVE StampDescribesFile'
    OBVIOUS
  <2>1. stamp' <= HeldBy(csv)'
    BY <1>2 DEF StampDescribesFile
  <2>2. \A q \in Jobs : pc[q] # "stamp"
    BY ItsOwnPart
  <2>3. stamp' = HeldBy(csv)' \/ unstamped'
    BY <1>2, <2>2 DEF StampDescribesFile
  <2> QED BY <2>1, <2>3 DEF StampDescribesFile
<1> QED BY <1>2, <1>3, <1>4, ItsOwnPart, UnseenStep DEF Keeps

\* Opening the temporary file leaves the published one alone.
LEMMA OpenKeeps ==
    ASSUME TypeInv, Whole, NEW r \in Jobs, Step(r), OpenTmp(r)
    PROVE  Keeps
<1>1. PICK i \in Files : /\ IF tmp = 0 THEN i \in Unused ELSE i = tmp
                         /\ tmp' = i
                         /\ fd' = [fd EXCEPT ![r] = i]
                         /\ content' = [content EXCEPT ![i] = Blank]
  BY OpenFacts
<1>2. /\ pc[r] = "open" /\ Goto(r, "write1") /\ mine' = mine
      /\ UNCHANGED <<unstamped, made, csv, stamp, readFd, loaded>>
  BY DEF OpenTmp, clock, reader
<1>3. i # csv /\ i # readFd
  BY <1>1 DEF Unused, Whole, FilesOK, Files
<1>4. \A j \in Files : j # tmp' => content'[j] = content[j]
  BY <1>1 DEF TypeInv, StoreOK
<1>5. pc'[r] = "write1" /\ fd'[r] = tmp' /\ mine'[r] = mine[r]
  BY <1>1, <1>2 DEF Goto, TypeInv, LocalsOK
<1>6. HeldBy(csv)' = HeldBy(csv)
  BY <1>1, <1>2, <1>3, <1>4, SameFiles DEF TypeInv, StoreOK, Files
<1>7. mine[r] = made /\ made > 0 /\ HeldBy(csv) < made
  BY <1>2 DEF Whole, JobOK
<1>8. JobOK(r)'
  BY <1>2, <1>5, <1>6, <1>7 DEF JobOK, Writing
<1> QED BY <1>1, <1>2, <1>3, <1>4, <1>8, WritingKeeps

\* Writing to the temporary file leaves the published one alone.
LEMMA WriteKeeps ==
    ASSUME TypeInv, Whole, NEW r \in Jobs, Step(r), WriteRows(r)
    PROVE  Keeps
<1>1. PICK k \in Chunks : \/ k = 1 /\ Write(r, 1, "write1", "write2")
                          \/ k = 2 /\ Write(r, 2, "write2", "rename")
  BY DEF WriteRows, Chunks
<1>2. /\ content' = [content EXCEPT ![fd[r]][k] = mine[r]]
      /\ UNCHANGED <<unstamped, made, csv, tmp, stamp, readFd, loaded, mine, fd>>
      /\ k = 1 => pc[r] = "write1" /\ Goto(r, "write2")
      /\ k = 2 => pc[r] = "write2" /\ Goto(r, "rename")
  BY <1>1 DEF Write, clock, reader
<1>3. pc[r] \in {"write1", "write2"}
  BY <1>1, <1>2
<1>4. fd[r] = tmp /\ tmp \in Files /\ mine[r] = made /\ made > 0 /\ HeldBy(csv) < made
  BY <1>3 DEF Whole, JobOK, Writing, TypeInv, LocalsOK, Files
<1>5. /\ content'[tmp][k] = mine[r]
      /\ \A j \in Chunks \ {k} : content'[tmp][j] = content[tmp][j]
      /\ \A j \in Files : j # tmp' => content'[j] = content[j]
  BY <1>2, <1>4 DEF TypeInv, StoreOK
<1>6. tmp # csv /\ tmp # readFd
  BY <1>4 DEF Whole, FilesOK, Files
<1>7. HeldBy(csv)' = HeldBy(csv)
  <2>1. csv # 0 => csv \in Files /\ csv # tmp'
    BY <1>2, <1>6 DEF TypeInv, StoreOK, Files
  <2> QED BY <1>2, <1>5, <2>1, SameFiles
<1>8. JobOK(r)'
  <2>1. CASE k = 1
    <3>1. pc'[r] = "write2"
      BY <1>2, <2>1 DEF Goto, TypeInv, LocalsOK
    <3> QED BY <1>2, <1>4, <1>5, <1>7, <2>1, <3>1 DEF JobOK, Writing
  <2>2. CASE k = 2
    <3>1. pc'[r] = "rename"
      BY <1>2, <2>2 DEF Goto, TypeInv, LocalsOK
    <3>2. content[tmp][1] = mine[r]
      BY <1>2, <2>2 DEF Whole, JobOK
    <3>3. content'[tmp][1] = mine[r] /\ content'[tmp][2] = mine[r]
      BY <1>5, <2>2, <3>2 DEF Chunks
    <3> QED BY <1>2, <1>4, <1>7, <3>1, <3>3 DEF JobOK, Writing
  <2> QED BY <1>1, <2>1, <2>2
<1>9. pc[r] # "stamp"
  BY <1>3
<1> QED BY <1>2, <1>5, <1>6, <1>8, <1>9, WritingKeeps

\* The rename publishes what the job wrote, whole and later than what was there.
LEMMA RenameKeeps ==
    ASSUME TypeInv, Whole, NEW r \in Jobs, Step(r), Rename(r)
    PROVE  Keeps
<1>1. pc[r] = "rename"
  BY DEF Rename
<1>2. /\ fd[r] = tmp /\ tmp \in Files /\ mine[r] = made /\ made > 0 /\ HeldBy(csv) < made
      /\ content[tmp][1] = made /\ content[tmp][2] = made
  BY <1>1 DEF Whole, JobOK, Writing, TypeInv, LocalsOK, Files
<1>3. tmp # 0 /\ tmp # readFd
  BY <1>2 DEF Whole, FilesOK, Files
<1>4. /\ csv' = tmp /\ tmp' = 0 /\ Goto(r, "stamp") /\ mine' = mine
      /\ UNCHANGED <<unstamped, made, content, stamp, readFd, loaded>>
  BY <1>3 DEF Rename, clock, reader
<1>5. HeldBy(csv)' = made
  BY <1>2, <1>3, <1>4 DEF HeldBy
<1>6. HeldBy(readFd)' = HeldBy(readFd)
  BY <1>4, SameFiles
<1>7. FilesOK'
  <2>1. HeldBy(csv)' \in 0..made' /\ (csv' # 0 => HeldBy(csv)' # 0)
    BY <1>2, <1>4, <1>5, HeldFacts
  <2>2. readFd' # 0 => HeldBy(readFd)' \in 1..made'
    BY <1>4, <1>6, HeldFacts
  <2> QED BY <1>4, <2>1, <2>2 DEF FilesOK
<1>8. pc'[r] = "stamp"
  BY <1>4 DEF Goto, TypeInv, LocalsOK
<1>9. JobOK(r)'
  BY <1>2, <1>4, <1>5, <1>8 DEF JobOK, Writing
<1>10. StampDescribesFile => StampDescribesFile'
  <2> SUFFICES ASSUME StampDescribesFile PROVE StampDescribesFile'
    OBVIOUS
  <2>1. stamp <= HeldBy(csv)
    BY DEF StampDescribesFile
  <2>2. stamp' <= HeldBy(csv)'
    BY <1>2, <1>4, <1>5, <2>1, HeldFacts
  <2>3. pc'[r] = "stamp" /\ mine'[r] = HeldBy(csv)'
    BY <1>2, <1>4, <1>5, <1>8
  <2> QED BY <2>2, <2>3 DEF StampDescribesFile
<1>11. Contract!Publish
  <2>1. made \in 1..MaxRefresh /\ made > HeldBy(csv)
    BY <1>2, HeldFacts
  <2> QED BY <1>4, <1>5, <1>6, <2>1 DEF Contract!Publish, Contract!Versions
<1> QED BY <1>7, <1>9, <1>10, <1>11, ItsOwnPart DEF Keeps, Contract!PNext

\* The transaction makes the settings rows describe the published universe.
LEMMA StampKeeps ==
    ASSUME TypeInv, Whole, NEW r \in Jobs, Step(r), Stamp(r)
    PROVE  Keeps
<1>1. pc[r] = "stamp" /\ stamp' = mine[r] /\ Leave(r)
      /\ UNCHANGED <<made, content, csv, tmp, readFd, loaded>>
  BY DEF Stamp, reader
<1>2. mine[r] = made /\ HeldBy(csv) = made
  BY <1>1 DEF Whole, JobOK
<1>3. HeldBy(csv)' = HeldBy(csv) /\ HeldBy(readFd)' = HeldBy(readFd)
  BY <1>1, SameFiles
<1>4. FilesOK'
  BY <1>1, <1>3 DEF Whole, FilesOK
<1>5. pc'[r] = "idle"
  BY <1>1 DEF Leave, Goto, TypeInv, LocalsOK
<1>6. JobOK(r)'
  BY <1>5, IdleJob
<1>7. stamp' = HeldBy(csv)' /\ HeldBy(csv)' \in Nat
  BY <1>1, <1>2, <1>3, HeldFacts
<1>8. StampDescribesFile'
  BY <1>7 DEF StampDescribesFile
<1> QED BY <1>1, <1>3, <1>4, <1>6, <1>8, ItsOwnPart, UnseenStep DEF Keeps

\* A step of a refresh.
LEMMA StepKeeps ==
    ASSUME TypeInv, Whole, NEW r \in Jobs, Step(r)
    PROVE  Keeps
<1>0. \A q \in Jobs \ {r} : pc'[q] = pc[q] /\ mine'[q] = mine[q] /\ fd'[q] = fd[q]
  BY OthersStay DEF TypeInv
<1>1. ASSUME UNCHANGED <<unstamped, made, content, csv, tmp, stamp, readFd, loaded>>,
             \/ pc' = [pc EXCEPT ![r] = "idle"]
             \/ pc' = [pc EXCEPT ![r] = "fetch"]
             \/ pc' = [pc EXCEPT ![r] = "save"]
             \/ pc' = [pc EXCEPT ![r] = "scrip"]
             \/ pc' = [pc EXCEPT ![r] = "scripSave"]
             \/ pc' = [pc EXCEPT ![r] = "scripRead"],
             pc[r] # "stamp"
      PROVE  Keeps
  <2>1. pc'[r] \in {"idle", "fetch", "save", "scrip", "scripSave", "scripRead"}
    BY <1>1 DEF TypeInv, LocalsOK
  <2> QED BY <1>0, <1>1, <2>1, QuietKeeps
<1> USE DEF clock, store, reader, Goto, Leave, Take
<1>2. CASE ReadCached(r)
  BY <1>1, <1>2 DEF ReadCached
<1>3. CASE NotFound(r)
  BY <1>1, <1>3 DEF NotFound
<1>4. CASE Download(r)
  BY <1>1, <1>4 DEF Download
<1>5. CASE Save(r)
  BY <1>1, <1>5 DEF Save
<1>6. CASE EndOfWindow(r)
  BY <1>1, <1>6 DEF EndOfWindow
<1>7. ASSUME pc[r] \in {"scrip", "scripRead"}, Raise(r) PROVE Keeps
  BY <1>1, <1>7 DEF Raise
<1>8. CASE UseCachedScrip(r) \/ ReadScrip(r)
  BY <1>8, JoinKeeps DEF UseCachedScrip, ReadScrip
<1>9. CASE UnreadableScrip(r)
  BY <1>7, <1>9 DEF UnreadableScrip
<1>10. CASE StaleScrip(r)
  BY <1>7, <1>10, JoinKeeps DEF StaleScrip
<1>11. CASE DownloadScrip(r)
  BY <1>1, <1>11 DEF DownloadScrip
<1>12. CASE SaveScrip(r)
  BY <1>1, <1>12 DEF SaveScrip
<1>13. CASE OpenTmp(r) \/ WriteRows(r) \/ Rename(r) \/ Stamp(r)
  BY <1>13, OpenKeeps, WriteKeeps, RenameKeeps, StampKeeps
<1> QED BY <1>2, <1>3, <1>4, <1>5, <1>6, <1>8, <1>9, <1>10, <1>11, <1>12, <1>13 DEF Step

\* Refreshes that run apart stay apart.
LEMMA SoloStep ==
    ASSUME Apart, TypeInv, Solo, Next \/ UNCHANGED vars
    PROVE  Solo'
<1>1. ASSUME NEW r \in Jobs, Begin(r) PROVE Solo'
  <2>1. /\ \A q \in Jobs : pc[q] = "idle"
        /\ \A q \in Jobs \ {r} : pc'[q] = pc[q]
    BY <1>1 DEF Begin, MayStart, Goto, TypeInv, LocalsOK
  <2> QED BY <2>1 DEF Solo
<1>2. CASE Nightly \/ Bootstrap
  BY <1>1, <1>2, JobsAssumption DEF Nightly, Bootstrap
<1>3. ASSUME NEW r \in Jobs, Step(r) PROVE Solo'
  <2>1. /\ pc[r] # "idle"
        /\ \A q \in Jobs \ {r} : pc'[q] = pc[q]
    BY <1>3, OthersStay DEF TypeInv
  <2> QED BY <2>1 DEF Solo
<1>4. CASE Crash
  <2>1. \A q \in Jobs : pc'[q] = "idle"
    BY <1>4 DEF Crash
  <2> QED BY <2>1 DEF Solo
<1>5. CASE BeginLoad \/ EndLoad \/ Restart \/ NextDay \/ UNCHANGED vars
  <2>1. pc' = pc
    BY <1>5 DEF BeginLoad, EndLoad, Restart, NextDay, vars, locals
  <2> QED BY <2>1 DEF Solo
<1>6. ASSUME NEW r \in Jobs, Fails(r) PROVE Solo'
  <2>1. \A q \in Jobs : pc'[q] = pc[q] \/ pc'[q] = "idle"
    BY <1>6 DEF Fails, Leave, Goto, TypeInv, LocalsOK
  <2> QED BY <2>1 DEF Solo
<1> QED BY <1>2, <1>3, <1>4, <1>5, <1>6 DEF Next

\* Every step keeps what the readers are promised.
LEMMA NextKeeps ==
    ASSUME TypeInv, Whole, Next \/ UNCHANGED vars
    PROVE  Keeps
<1>1. ASSUME NEW r \in Jobs, Begin(r) PROVE Keeps
  <2>1. /\ pc[r] = "idle" /\ Goto(r, "fetch") /\ UNCHANGED <<mine, fd>>
        /\ UNCHANGED <<unstamped, made, content, csv, tmp, stamp, readFd, loaded>>
    BY <1>1 DEF Begin, MayStart, store, reader
  <2>2. pc'[r] = "fetch" /\ \A q \in Jobs \ {r} : pc'[q] = pc[q]
    BY <2>1 DEF Goto, TypeInv, LocalsOK
  <2> QED BY <2>1, <2>2, QuietKeeps
<1>2. CASE Nightly \/ Bootstrap
  BY <1>1, <1>2, JobsAssumption DEF Nightly, Bootstrap
<1>3. CASE \E r \in Jobs : Step(r)
  BY <1>3, StepKeeps
<1>4. CASE BeginLoad
  <2>1. /\ readFd = 0 /\ csv # 0 /\ readFd' = csv
        /\ UNCHANGED <<unstamped, made, content, csv, tmp, stamp, loaded, pc, mine, fd>>
    BY <1>4 DEF BeginLoad, clock, locals, store
  <2>2. HeldBy(csv)' = HeldBy(csv)
    BY <2>1, SameFiles
  <2>3. HeldBy(readFd)' = HeldBy(csv)
    BY <2>1 DEF HeldBy
  <2>4. FilesOK'
    <3>1. HeldBy(csv)' \in 0..made' /\ (csv' # 0 => HeldBy(csv)' # 0)
      BY <2>1, <2>2, HeldFacts
    <3>2. readFd' # 0 => HeldBy(readFd)' \in 1..made'
      BY <2>1, <2>3, HeldFacts
    <3>3. (tmp # 0 => tmp # csv /\ tmp # readFd)'
      BY <2>1 DEF Whole, FilesOK
    <3> QED BY <3>1, <3>2, <3>3 DEF FilesOK
  <2>5. \A q \in Jobs : JobOK(q)'
    BY <2>1, <2>2 DEF Whole, JobOK
  <2>6. StampDescribesFile => StampDescribesFile'
    BY <2>1, <2>2 DEF StampDescribesFile
  <2>7. Contract!BeginLoad
    <3>1. HeldBy(readFd) = 0 /\ HeldBy(csv) # 0
      BY <2>1, HeldFacts
    <3> QED BY <2>1, <2>2, <2>3, <3>1 DEF Contract!BeginLoad
  <2> QED BY <2>4, <2>5, <2>6, <2>7 DEF Keeps, Contract!PNext
<1>5. CASE EndLoad
  <2>1. /\ readFd # 0 /\ readFd' = 0 /\ loaded' = HeldBy(readFd)
        /\ UNCHANGED <<unstamped, made, content, csv, tmp, stamp, pc, mine, fd>>
    BY <1>5 DEF EndLoad, clock, locals, store
  <2>2. HeldBy(csv)' = HeldBy(csv)
    BY <2>1, SameFiles
  <2>3. HeldBy(readFd)' = 0
    BY <2>1 DEF HeldBy
  <2>4. FilesOK'
    <3>1. HeldBy(csv)' \in 0..made' /\ (csv' # 0 => HeldBy(csv)' # 0)
      BY <2>1, <2>2, HeldFacts
    <3>2. (tmp # 0 => tmp # csv /\ tmp # readFd)'
      BY <2>1 DEF Whole, FilesOK
    <3> QED BY <2>1, <3>1, <3>2 DEF FilesOK
  <2>5. \A q \in Jobs : JobOK(q)'
    BY <2>1, <2>2 DEF Whole, JobOK
  <2>6. StampDescribesFile => StampDescribesFile'
    BY <2>1, <2>2 DEF StampDescribesFile
  <2>7. Contract!EndLoad
    <3>1. HeldBy(readFd) # 0
      BY <2>1, HeldFacts
    <3> QED BY <2>1, <2>2, <2>3, <3>1 DEF Contract!EndLoad
  <2> QED BY <2>4, <2>5, <2>6, <2>7 DEF Keeps, Contract!PNext
<1>6. CASE Crash
  <2>1. /\ readFd' = 0 /\ \A q \in Jobs : pc'[q] = "idle"
        /\ unstamped' = (unstamped \/ \E q \in Jobs : pc[q] = "stamp")
        /\ UNCHANGED <<made, content, csv, tmp, stamp, loaded>>
    BY <1>6 DEF Crash, CutOff
  <2>2. HeldBy(csv)' = HeldBy(csv)
    BY <2>1, SameFiles
  <2>3. HeldBy(readFd)' = 0
    BY <2>1 DEF HeldBy
  <2>4. FilesOK'
    <3>1. HeldBy(csv)' \in 0..made' /\ (csv' # 0 => HeldBy(csv)' # 0)
      BY <2>1, <2>2, HeldFacts
    <3>2. (tmp # 0 => tmp # csv /\ tmp # readFd)'
      BY <2>1 DEF Whole, FilesOK
    <3> QED BY <2>1, <3>1, <3>2 DEF FilesOK
  <2>5. \A q \in Jobs : JobOK(q)'
    BY <2>1, IdleJob
  <2>6. StampDescribesFile => StampDescribesFile'
    BY <2>1, <2>2 DEF StampDescribesFile
  <2>7. Contract!AbandonLoad
    BY <2>1, <2>2, <2>3 DEF Contract!AbandonLoad
  <2> QED BY <2>4, <2>5, <2>6, <2>7 DEF Keeps, Contract!PNext
<1>7. CASE Restart \/ NextDay \/ UNCHANGED vars
  <2>1. UNCHANGED <<unstamped, made, content, csv, tmp, stamp, readFd, loaded, pc, mine, fd>>
    BY <1>7 DEF Restart, NextDay, vars, clock, locals, store, reader
  <2> QED BY <2>1, StillKeeps
<1>8. ASSUME NEW r \in Jobs, Fails(r) PROVE Keeps
  <2>1. /\ pc'[r] = "idle"
        /\ \A q \in Jobs \ {r} : pc'[q] = pc[q] /\ mine'[q] = mine[q] /\ fd'[q] = fd[q]
    BY <1>8 DEF Fails, Leave, Goto, TypeInv, LocalsOK
  <2>2. /\ UNCHANGED <<made, content, csv, tmp, stamp, readFd, loaded>>
        /\ unstamped \/ pc[r] = "stamp" => unstamped'
    BY <1>8 DEF Fails, CutOff, reader
  <2> QED BY <2>1, <2>2, QuietKeeps
<1> QED BY <1>2, <1>3, <1>4, <1>5, <1>6, <1>7, <1>8 DEF Next

\* Before the first refresh there is no file to be in parts.
LEMMA InitWhole == Init => Whole /\ StampDescribesFile /\ Contract!PInit
<1>1. Init => HeldBy(csv) = 0 /\ HeldBy(readFd) = 0
  BY DEF Init, HeldBy
<1>2. Init => Whole
  BY <1>1 DEF Init, Whole, Solo, FilesOK, JobOK, Writing
<1>3. Init => StampDescribesFile /\ Contract!PInit
  BY <1>1 DEF Init, StampDescribesFile, Contract!PInit
<1> QED BY <1>2, <1>3

\* With refreshes apart, the temporary file is never the published one or one
\* that is being read, and a job renames only what it has written to the end.
LEMMA SpecWhole == ASSUME Apart PROVE Spec => [](TypeInv /\ Whole)
<1>1. Whole /\ TypeInv /\ [Next]_vars => Whole'
  BY SoloStep, NextKeeps DEF Whole, Keeps
<1>2. Init => Whole
  BY InitWhole
<1> QED BY <1>1, <1>2, SpecTypes, PTL DEF Spec

\* The temporary file and the rename implement Publication (refresh.py:180-190):
\* wherever the worker dies, a load returns one refresh whole, the one that was
\* published when it began, and the file goes from one refresh to a later one in
\* a single step.
THEOREM RefreshPublishes == ASSUME Apart PROVE Spec => Publishes
<1>1. TypeInv /\ Whole /\ [Next]_vars => [Contract!PNext]_(Contract!pubVars)
  BY NextKeeps DEF Keeps
<1>2. Init => Contract!PInit
  BY InitWhole
<1> QED BY <1>1, <1>2, SpecWhole, PTL DEF Spec, Publishes, Contract!PSpec

\* universe.csv is never a part of a universe or a mixture of two
\* (refresh.py:181); run universe_overlap shows that it can be when refreshes
\* overlap.
THEOREM FileIsWhole == ASSUME Apart PROVE Spec => []PublishedWhole
<1>1. TypeInv /\ Whole => PublishedWhole
  BY HeldFacts DEF PublishedWhole
<1> QED BY <1>1, SpecWhole, PTL

\* The count and the source date shown beside the universe are those of the file,
\* except between the rename and the transaction, or until the next refresh when
\* the one that renamed ended just there (refresh.py:258-269).
THEOREM StampFollowsFile == ASSUME Apart PROVE Spec => []StampDescribesFile
<1>1. TypeInv /\ Whole /\ StampDescribesFile /\ [Next]_vars => StampDescribesFile'
  BY NextKeeps DEF Keeps
<1>2. Init => StampDescribesFile
  BY InitWhole
<1> QED BY <1>1, <1>2, SpecWhole, PTL DEF Spec

\* What the contract says of its readers, and so of this program's: a load ends
\* with the universe that was published when it began, which is no earlier than
\* the one loaded before.
LEMMA ContractStep ==
    Contract!LoadsInOrder /\ [Contract!PNext]_(Contract!pubVars) =>
        /\ Contract!LoadsInOrder'
        /\ [HeldBy(csv)' >= HeldBy(csv) /\ loaded' >= loaded]_(Contract!pubVars)
<1> SUFFICES ASSUME Contract!LoadsInOrder, [Contract!PNext]_(Contract!pubVars)
             PROVE  /\ Contract!LoadsInOrder'
                    /\ HeldBy(csv)' >= HeldBy(csv) /\ loaded' >= loaded
  OBVIOUS
<1>n. MaxRefresh \in Nat
  BY BoundAssumption
<1> USE <1>n DEF Contract!LoadsInOrder, Contract!Versions
<1>1. CASE Contract!Publish
  BY <1>1 DEF Contract!Publish
<1>2. CASE Contract!BeginLoad
  BY <1>2 DEF Contract!BeginLoad
<1>3. CASE Contract!EndLoad
  BY <1>3 DEF Contract!EndLoad
<1>4. CASE Contract!AbandonLoad
  BY <1>4 DEF Contract!AbandonLoad
<1>5. CASE UNCHANGED Contract!pubVars
  BY <1>5 DEF Contract!pubVars
<1> QED BY <1>1, <1>2, <1>3, <1>4, <1>5 DEF Contract!PNext

\* The program's readers, then, get the universes in the order they were
\* published, and never one older than the last they got (refresh.py:180-190).
THEOREM RefreshReadersNeverGoBack ==
    ASSUME Apart PROVE Spec => []Contract!LoadsInOrder /\ Contract!NeverGoesBack
<1>1. Contract!PInit => Contract!LoadsInOrder
  BY BoundAssumption DEF Contract!PInit, Contract!LoadsInOrder, Contract!Versions
<1>2. /\ Contract!LoadsInOrder /\ [Contract!PNext]_(Contract!pubVars)
      => /\ Contract!LoadsInOrder'
         /\ [HeldBy(csv)' >= HeldBy(csv) /\ loaded' >= loaded]_(Contract!pubVars)
  BY ContractStep
<1>3. Contract!PSpec => []Contract!LoadsInOrder /\ Contract!NeverGoesBack
  BY <1>1, <1>2, PTL DEF Contract!PSpec, Contract!NeverGoesBack
<1> QED BY <1>3, RefreshPublishes, PTL DEF Publishes

-----------------------------------------------------------------------------
(***************************************************************************)
(* No share is lost                                                        *)
(***************************************************************************)

\* What NoShareIsLost says of one universe.
Since(o, c, d) == {e \in o.days : e >= d /\ Volume[e][c] >= 0}
TradedEnough(o, c, n) ==
    \E d \in Days : /\ Cardinality(Since(o, c, d)) = n
                    /\ SumFunction([e \in Since(o, c, d) |-> Volume[e][c]]) >= n * AdvMin
Complete(o) ==
    (\E c \in Equity : Volume[o.source][c] >= 0) =>
        o.codes = {c \in Equity \cap Listed :
                     /\ Volume[o.source][c] >= 0
                     /\ TradedEnough(o, c, Min({AdvLookback, Cardinality(Since(o, c, 1))}))}

LEMMA LostMeans == NoShareIsLost <=> (~cut => \A v \in 1..made : Complete(output[v]))
BY DEF NoShareIsLost, Complete, TradedEnough, Since

\* The first of some days.
LEMMA FirstOfDays ==
    ASSUME NEW S \in SUBSET Days, S # {}
    PROVE  \E m \in S : \A e \in S : m <= e
<1>1. S \subseteq Nat
  BY VolumeAssumption DEF Days
<1>2. PICK m \in S : \A e \in S : ~(<<e, m>> \in OpToRel(<, Nat))
  BY <1>1, NatLessThanWellFounded, WFMin
<1>3. \A e \in S : ~(e < m)
  BY <1>1, <1>2 DEF OpToRel
<1>4. ASSUME NEW e \in S PROVE m <= e
  <2>1. e \in Nat /\ m \in Nat
    BY <1>1
  <2>2. ~(e < m)
    BY <1>3
  <2> QED BY <2>1, <2>2
<1> QED BY <1>4

\* The smaller of two numbers.
LEMMA MinOfTwo ==
    ASSUME NEW a \in Nat, NEW b \in Nat
    PROVE  Min({a, b}) = IF a <= b THEN a ELSE b
<1>1. \E x \in {a, b} : \A y \in {a, b} : x <= y
  <2>1. CASE a <= b
    BY <2>1
  <2>2. CASE ~(a <= b)
    BY <2>2
  <2> QED BY <2>1, <2>2
<1>2. Min({a, b}) \in {a, b} /\ \A y \in {a, b} : Min({a, b}) <= y
  BY <1>1 DEF Min
<1>3. Min({a, b}) = a \/ Min({a, b}) = b
  BY <1>2
<1>4. Min({a, b}) <= a /\ Min({a, b}) <= b
  BY <1>2
<1> QED BY <1>3, <1>4

\* The days of E after d, and from d on.
After(E, d) == {e \in E : e > d}
From(E, d) == {e \in E : e >= d}

\* They are days of E, finitely many.
LEMMA DayCounts ==
    ASSUME NEW E \in SUBSET Days
    PROVE  /\ \A d \in Days : d \in Nat
           /\ IsFiniteSet(E) /\ Cardinality(E) \in Nat
           /\ \A S \in SUBSET E : /\ IsFiniteSet(S) /\ Cardinality(S) \in Nat
                                  /\ Cardinality(S) <= Cardinality(E)
                                  /\ Cardinality(S) = Cardinality(E) => S = E
<1>1. \A d \in Days : d \in Nat
  BY VolumeAssumption DEF Days
<1>2. IsFiniteSet(Days)
  <2>1. 1 \in Int /\ MaxDay \in Int
    BY VolumeAssumption
  <2>2. IsFiniteSet(1..MaxDay)
    BY <2>1, FS_Interval
  <2> QED BY <2>2 DEF Days
<1>3. IsFiniteSet(E)
  BY <1>2, FS_Subset
<1>4. ASSUME NEW S \in SUBSET E
      PROVE  /\ IsFiniteSet(S) /\ Cardinality(S) \in Nat
             /\ Cardinality(S) <= Cardinality(E)
             /\ Cardinality(S) = Cardinality(E) => S = E
  BY <1>3, FS_Subset, FS_CardinalityType
<1> QED BY <1>1, <1>3, <1>4, FS_CardinalityType

\* The days of E with fewer than AdvLookback after them are as many as there are,
\* AdvLookback at most, and the only such run of days up to the last.
LEMMA LatestDays ==
    ASSUME NEW E \in SUBSET Days, E # {},
           NEW R, R = {d \in E : Cardinality(After(E, d)) < AdvLookback},
           NEW n, n = Min({AdvLookback, Cardinality(E)})
    PROVE  /\ Cardinality(R) = n
           /\ \E d \in Days : From(E, d) = R
           /\ \A d \in Days : Cardinality(From(E, d)) = n => From(E, d) = R
<1>1. AdvLookback \in Nat \ {0}
  BY LookbackAssumption
<1>e. \A e \in E : e \in Nat
  BY DayCounts
<1>r. R \in SUBSET E /\ \A d \in E : d \in R <=> Cardinality(After(E, d)) < AdvLookback
  OBVIOUS
<1>a. ASSUME NEW d PROVE /\ After(E, d) \in SUBSET E /\ From(E, d) \in SUBSET E
                         /\ \A e \in E : /\ e \in After(E, d) <=> e > d
                                         /\ e \in From(E, d) <=> e >= d
  BY DEF After, From
<1>2. ASSUME NEW S \in SUBSET E, NEW T \in SUBSET S
      PROVE  /\ IsFiniteSet(S) /\ Cardinality(S) \in Nat /\ Cardinality(T) \in Nat
             /\ Cardinality(T) <= Cardinality(S)
             /\ Cardinality(T) = Cardinality(S) => T = S
  <2>1. S \in SUBSET Days
    OBVIOUS
  <2> QED BY <2>1, DayCounts
<1>3. ASSUME NEW d \in R, NEW e \in E, e > d PROVE e \in R
  <2>1. d \in Nat /\ e \in Nat
    BY <1>e, <1>r
  <2>2. ASSUME NEW f \in After(E, e) PROVE f \in After(E, d)
    <3>1. f \in E /\ f \in Nat /\ f > e
      BY <1>a, <1>e
    <3>2. f > d
      BY <1>3, <2>1, <3>1
    <3> QED BY <1>a, <3>1, <3>2
  <2>3. After(E, d) \in SUBSET E /\ After(E, e) \in SUBSET After(E, d)
    BY <1>a, <2>2
  <2>4. /\ Cardinality(After(E, e)) <= Cardinality(After(E, d))
        /\ Cardinality(After(E, d)) \in Nat /\ Cardinality(After(E, e)) \in Nat
    BY <1>2, <2>3
  <2>5. Cardinality(After(E, d)) < AdvLookback
    BY <1>r
  <2>6. Cardinality(After(E, e)) < AdvLookback
    BY <1>1, <2>4, <2>5
  <2> QED BY <1>r, <2>6
<1>4. R # {}
  <2>1. PICK k \in E : \A e \in E : e <= k
    BY MaxOfDays
  <2>2. ASSUME NEW e \in After(E, k) PROVE FALSE
    <3>1. e \in E /\ e > k /\ e <= k /\ e \in Nat /\ k \in Nat
      BY <1>a, <1>e, <2>1
    <3> QED BY <3>1
  <2>3. After(E, k) = {}
    BY <2>2
  <2>4. Cardinality(After(E, k)) = 0
    BY <2>3, FS_EmptySet
  <2>5. Cardinality(After(E, k)) < AdvLookback
    BY <1>1, <2>4
  <2> QED BY <1>r, <2>5
<1>5. PICK m \in R : \A e \in R : m <= e
  <2>1. R \in SUBSET Days
    BY <1>r
  <2> QED BY <1>4, <2>1, FirstOfDays
<1>m. m \in E /\ m \in Nat /\ m \in Days
  BY <1>e, <1>r
<1>6. From(E, m) = R
  <2>1. ASSUME NEW e \in R PROVE e \in From(E, m)
    <3>1. e \in E /\ e \in Nat /\ m <= e
      BY <1>e, <1>r, <1>5
    <3> QED BY <1>a, <1>m, <3>1
  <2>2. ASSUME NEW e \in From(E, m) PROVE e \in R
    <3>1. e \in E /\ e \in Nat /\ e >= m
      BY <1>a, <1>e
    <3>2. CASE e # m
      <4>1. e > m
        BY <1>m, <3>1, <3>2
      <4> QED BY <1>3, <3>1, <4>1
    <3> QED BY <3>2
  <2>3. R \in SUBSET From(E, m) /\ From(E, m) \in SUBSET R
    BY <2>1, <2>2
  <2> QED BY <2>3
<1>7. Cardinality(R) <= AdvLookback
  <2>1. ASSUME NEW e \in R PROVE e \in After(E, m) \cup {m}
    <3>1. e \in E /\ e \in Nat /\ m <= e
      BY <1>e, <1>r, <1>5
    <3>2. CASE e # m
      <4>1. e > m
        BY <1>m, <3>1, <3>2
      <4> QED BY <1>a, <3>1, <4>1
    <3> QED BY <3>2
  <2>2. After(E, m) \in SUBSET E
    BY <1>a
  <2>3. m \notin After(E, m)
    BY <1>a, <1>m
  <2>4. IsFiniteSet(After(E, m)) /\ Cardinality(After(E, m)) \in Nat
    BY <1>2, <2>2
  <2>5. Cardinality(After(E, m) \cup {m}) = Cardinality(After(E, m)) + 1
    BY <2>3, <2>4, FS_AddElement
  <2>6. R \in SUBSET (After(E, m) \cup {m}) /\ After(E, m) \cup {m} \in SUBSET E
    BY <1>m, <2>1, <2>2
  <2>7. /\ Cardinality(R) <= Cardinality(After(E, m) \cup {m})
        /\ Cardinality(R) \in Nat
    BY <1>2, <2>6
  <2>8. Cardinality(After(E, m)) < AdvLookback
    BY <1>r, <1>m
  <2> QED BY <1>1, <2>4, <2>5, <2>7, <2>8
<1>n. /\ Cardinality(E) \in Nat /\ Cardinality(R) \in Nat /\ Cardinality(R) <= Cardinality(E)
      /\ n = IF AdvLookback <= Cardinality(E) THEN AdvLookback ELSE Cardinality(E)
  <2>1. Cardinality(E) \in Nat /\ Cardinality(R) \in Nat /\ Cardinality(R) <= Cardinality(E)
    BY <1>2, <1>r
  <2> QED BY <1>1, <2>1, MinOfTwo
<1>8. Cardinality(R) = n
  <2>2. CASE R = E
    BY <1>1, <1>7, <1>n, <2>2
  <2>3. CASE R # E
    <3>1. E \ R \in SUBSET Days /\ E \ R # {}
      BY <1>r, <2>3
    <3>2. PICK k \in E \ R : \A e \in E \ R : e <= k
      BY <3>1, MaxOfDays
    <3>k. k \in E /\ k \notin R /\ k \in Nat
      BY <1>e
    <3>3. ASSUME NEW e \in After(E, k) PROVE e \in R
      <4>1. e \in E /\ e \in Nat /\ e > k
        BY <1>a, <1>e
      <4>2. CASE e \notin R
        <5>1. e <= k
          BY <3>2, <4>1, <4>2
        <5> QED BY <3>k, <4>1, <5>1
      <4> QED BY <4>2
    <3>4. After(E, k) \in SUBSET R
      BY <3>3
    <3>5. /\ Cardinality(After(E, k)) <= Cardinality(R)
          /\ Cardinality(After(E, k)) \in Nat
      BY <1>2, <1>r, <3>4
    <3>6. ~(Cardinality(After(E, k)) < AdvLookback)
      BY <1>r, <3>k
    <3> QED BY <1>1, <1>7, <1>n, <3>5, <3>6
  <2> QED BY <2>2, <2>3
<1>9. ASSUME NEW d \in Days, Cardinality(From(E, d)) = n PROVE From(E, d) = R
  <2>n. d \in Nat
    BY DayCounts
  <2>1. CASE d <= m
    <3>1. ASSUME NEW e \in R PROVE e \in From(E, d)
      <4>1. e \in E /\ e \in Nat /\ m <= e
        BY <1>e, <1>r, <1>5
      <4>2. e >= d
        BY <1>m, <2>n, <2>1, <4>1
      <4> QED BY <1>a, <4>1, <4>2
    <3>2. R \in SUBSET From(E, d) /\ From(E, d) \in SUBSET E
      BY <1>a, <3>1
    <3> QED BY <1>2, <1>8, <1>9, <3>2
  <2>2. CASE ~(d <= m)
    <3>1. ASSUME NEW e \in From(E, d) PROVE e \in R
      <4>1. e \in E /\ e \in Nat /\ e >= d
        BY <1>a, <1>e
      <4>2. e >= m
        BY <1>m, <2>n, <2>2, <4>1
      <4> QED BY <1>6, <1>a, <4>1, <4>2
    <3>2. From(E, d) \in SUBSET R
      BY <3>1
    <3> QED BY <1>2, <1>r, <1>8, <1>9, <3>2
  <2> QED BY <2>1, <2>2
<1> QED BY <1>6, <1>8, <1>9, <1>m

\* The days a refresh has rows of, and all rows of them up to the anchor.
GotDays(r) == {x[1] : x \in got[r]}
GotFull(r) == \A x \in got[r] : /\ x[1] <= anchor[r]
                                /\ \A c \in Codes : <<x[1], c>> \in got[r] <=> c \in RowsOf(x[1])

\* The volume test of the frame is the one of NoShareIsLost.
LEMMA EnoughMeans ==
    ASSUME NEW frame, NEW c, NEW o, o.days \in SUBSET Days,
           NEW E, E = Since(o, c, 1), E # {},
           \A d \in Days : d \in E <=> <<d, c>> \in frame
    PROVE  EnoughVolume(frame, c)
             <=> TradedEnough(o, c, Min({AdvLookback, Cardinality(E)}))
<1> DEFINE R == RecentDays(frame, c)
           n == Min({AdvLookback, Cardinality(E)})
           sum(S) == SumFunction([d \in S |-> Volume[d][c]])
<1>1. E \in SUBSET Days
  BY DEF Since
<1>2. {d \in Days : <<d, c>> \in frame} = E
  BY <1>1
<1>3. R = {d \in E : Cardinality(After(E, d)) < AdvLookback}
  BY <1>2 DEF RecentDays, After
<1>4. ASSUME NEW d \in Days PROVE Since(o, c, d) = From(E, d)
  <2>1. d \in Nat /\ d >= 1 /\ \A e \in o.days : e \in Nat /\ e >= 1
    BY DayCounts DEF Days
  <2>2. \A e \in E : e \in o.days /\ Volume[e][c] >= 0
    BY DEF Since
  <2>3. \A e \in o.days : Volume[e][c] >= 0 => e \in E
    BY <2>1 DEF Since
  <2>4. ASSUME NEW e \in Since(o, c, d) PROVE e \in From(E, d)
    <3>1. e \in o.days /\ Volume[e][c] >= 0 /\ e >= d
      BY DEF Since
    <3>2. e \in E
      BY <2>3, <3>1
    <3> QED BY <3>1, <3>2 DEF From
  <2>5. ASSUME NEW e \in From(E, d) PROVE e \in Since(o, c, d)
    <3>1. e \in E /\ e >= d
      BY DEF From
    <3> QED BY <2>2, <3>1 DEF Since
  <2> QED BY <2>4, <2>5
<1>n. n = Min({AdvLookback, Cardinality(E)}) /\ R = RecentDays(frame, c)
  OBVIOUS
<1> HIDE DEF R, n
<1>5. /\ Cardinality(R) = n
      /\ \E d \in Days : From(E, d) = R
      /\ \A d \in Days : Cardinality(From(E, d)) = n => From(E, d) = R
  BY <1>1, <1>3, <1>n, LatestDays
<1>6. n \in Nat /\ AdvMin \in Nat
  <2>1. Cardinality(R) \in Nat
    BY <1>1, <1>3, DayCounts
  <2> QED BY <1>5, <2>1, LookbackAssumption
<1>7. EnoughVolume(frame, c) <=> sum(R) >= AdvMin * n
  BY <1>5, <1>n DEF EnoughVolume
<1>8. AdvMin * n = n * AdvMin
  BY <1>6
<1>9. TradedEnough(o, c, n) <=> \E d \in Days : /\ Cardinality(From(E, d)) = n
                                              /\ sum(From(E, d)) >= n * AdvMin
  BY <1>4 DEF TradedEnough
<1> HIDE DEF sum
<1>10. TradedEnough(o, c, n) <=> sum(R) >= n * AdvMin
  BY <1>5, <1>9
<1> QED BY <1>7, <1>8, <1>10, <1>n

\* The rows that survive the filters, of all the rows there are.
LEMMA FrameRows ==
    ASSUME TypeInv, NEW r \in Jobs, GotFull(r),
           NEW d \in Days, NEW c \in Codes
    PROVE  /\ <<d, c>> \in EquityRows(got[r])
                <=> d \in GotDays(r) /\ c \in Equity /\ Volume[d][c] >= 0
           /\ Volume[d][c] \in Int
<1>1. Volume[d][c] \in Int
  BY VolumeAssumption DEF Days
<1>2. <<d, c>> \in EquityRows(got[r]) <=> <<d, c>> \in got[r] /\ c \in Equity /\ Volume[d][c] >= 0
  BY DEF EquityRows
<1>3. <<d, c>> \in got[r] => d \in GotDays(r)
  BY DEF GotDays
<1>4. ASSUME d \in GotDays(r), Volume[d][c] >= 0 PROVE <<d, c>> \in got[r]
  <2>1. PICK x \in got[r] : x[1] = d
    BY <1>4 DEF GotDays
  <2>2. c \in RowsOf(d)
    BY <1>1, <1>4 DEF RowsOf
  <2> QED BY <2>1, <2>2 DEF GotFull
<1> QED BY <1>1, <1>2, <1>3, <1>4

\* A universe made of all the rows there are, and of the whole scrip master.
LEMMA JoinIsComplete ==
    ASSUME TypeInv, NEW r \in Jobs, GotFull(r), EquityRows(got[r]) # {},
           NEW o, o = [codes |-> UniverseFrame(EquityRows(got[r]), anchor[r]) \cap Listed,
                       days |-> GotDays(r),
                       source |-> Max(GotDays(r))]
    PROVE  Complete(o)
<1> DEFINE frame == EquityRows(got[r])
           src == Max(GotDays(r))
           late(c) == Min({AdvLookback, Cardinality(Since(o, c, 1))})
<1>1. got[r] \in SUBSET (Days \X Codes) /\ anchor[r] \in 0..MaxDay /\ Equity \subseteq Codes
  BY SharesAssumption DEF TypeInv, LocalsOK
<1>2. frame \subseteq got[r]
  BY DEF EquityRows
<1>3. GotDays(r) \in SUBSET Days /\ GotDays(r) # {}
  BY <1>1, <1>2 DEF GotDays
<1>4. src \in GotDays(r) /\ src \in Days /\ \A d \in GotDays(r) : d <= src
  BY <1>3, MaxOfDays
<1>5. \A d \in Days : d \in Nat
  BY DayCounts
<1>6. o.days = GotDays(r) /\ o.source = src /\ o.codes = UniverseFrame(frame, anchor[r]) \cap Listed
  OBVIOUS
<1> SUFFICES ASSUME NEW b \in Equity, Volume[src][b] >= 0
             PROVE  o.codes = {c \in Equity \cap Listed :
                                 Volume[src][c] >= 0 /\ TradedEnough(o, c, late(c))}
  BY <1>6 DEF Complete
<1> HIDE DEF frame, src, late
<1>7. <<src, b>> \in frame
  BY <1>1, <1>4, FrameRows DEF frame
<1>8. AnchorDay(frame, anchor[r]) = src
  <2>1. ASSUME NEW x \in frame PROVE x[1] \in GotDays(r) /\ x[1] <= src
    BY <1>2, <1>4 DEF GotDays
  <2>2. CASE \E x \in frame : x[1] = anchor[r]
    <3>1. anchor[r] \in GotDays(r)
      BY <2>1, <2>2
    <3>2. anchor[r] <= src /\ anchor[r] \in Nat /\ src \in Nat
      BY <1>3, <1>4, <1>5, <3>1
    <3>3. src <= anchor[r]
      <4>1. PICK x \in got[r] : x[1] = src
        BY <1>4 DEF GotDays
      <4> QED BY <4>1 DEF GotFull
    <3>4. anchor[r] = src
      BY <3>2, <3>3
    <3> QED BY <2>2, <3>4 DEF AnchorDay
  <2>3. CASE ~\E x \in frame : x[1] = anchor[r]
    <3> DEFINE S == {x[1] : x \in frame}
    <3>1. S \in SUBSET Days /\ src \in S
      BY <1>1, <1>2, <1>7
    <3>2. Max(S) \in S /\ \A e \in S : e <= Max(S)
      BY <3>1, MaxOfDays
    <3>3. Max(S) <= src /\ src <= Max(S)
      BY <2>1, <3>1, <3>2
    <3>4. Max(S) \in Nat /\ src \in Nat
      BY <1>5, <3>1, <3>2
    <3>5. Max(S) = src
      BY <3>3, <3>4
    <3> QED BY <2>3, <3>5 DEF AnchorDay
  <2> QED BY <2>2, <2>3
<1>9. ASSUME NEW c \in Codes
      PROVE  /\ <<src, c>> \in frame <=> c \in Equity /\ Volume[src][c] >= 0
             /\ c \in Equity /\ Volume[src][c] >= 0 =>
                  (EnoughVolume(frame, c) <=> TradedEnough(o, c, late(c)))
  <2>1. <<src, c>> \in frame <=> c \in Equity /\ Volume[src][c] >= 0
    BY <1>4, FrameRows DEF frame
  <2>2. ASSUME c \in Equity, Volume[src][c] >= 0
        PROVE  EnoughVolume(frame, c) <=> TradedEnough(o, c, late(c))
    <3> DEFINE E == Since(o, c, 1)
    <3>1. ASSUME NEW d \in Days PROVE d \in E <=> <<d, c>> \in frame
      <4>1. d \in Nat /\ d >= 1
        BY DEF Days
      <4>2. d \in E <=> d \in GotDays(r) /\ Volume[d][c] >= 0
        BY <1>6, <4>1 DEF Since
      <4>3. <<d, c>> \in frame <=> d \in GotDays(r) /\ c \in Equity /\ Volume[d][c] >= 0
        BY FrameRows DEF frame
      <4> QED BY <2>2, <4>2, <4>3
    <3>2. src \in E
      BY <1>4, <2>1, <2>2, <3>1
    <3>3. o.days \in SUBSET Days
      BY <1>3, <1>6
    <3> HIDE DEF E
    <3>4. E = Since(o, c, 1) /\ E # {}
      BY <3>2 DEF E
    <3> QED BY <3>1, <3>3, <3>4, EnoughMeans DEF late
  <2> QED BY <2>1, <2>2
<1>10. UniverseFrame(frame, anchor[r])
         = {c \in Codes : <<src, c>> \in frame /\ EnoughVolume(frame, c)}
  BY <1>8 DEF UniverseFrame
<1> QED BY <1>1, <1>6, <1>9, <1>10

\* With nobody dead yet: only the file that is being saved can be short, a refresh
\* has all rows of the days it went through, and every universe is complete.
RowsFull == \A d \in cached : \/ rows[d] = RowsOf(d)
                              \/ \E r \in Jobs : pc[r] = "save" /\ cursor[r] = d
ScripFull == scripAt = 0 \/ scripRows = Listed \/ \E r \in Jobs : pc[r] = "scripSave"
JobData(r) == pc[r] # "idle" => /\ cursor[r] <= anchor[r]
                                /\ GotFull(r)
                                /\ pc[r] = "scripRead" => scripRows = Listed
Universes == \A v \in 1..made : Complete(output[v])
Data == RowsFull /\ ScripFull /\ (\A r \in Jobs : JobData(r)) /\ Universes

\* Complete is about a universe alone.
LEMMA UniversesNext ==
    /\ Universes' <=> \A v \in 1..made' : Complete(output'[v])
    /\ made' = made /\ output' = output /\ Universes => Universes'
<1>1. ASSUME NEW v PROVE Complete(output[v])' <=> Complete(output'[v])
  BY Zenon DEF Complete, TradedEnough, Since
<1>2. Universes' <=> \A v \in 1..made' : Complete(output'[v])
  BY <1>1 DEF Universes
<1>3. ASSUME made' = made, output' = output, Universes PROVE Universes'
  BY <1>2, <1>3 DEF Universes
<1> QED BY <1>2, <1>3

\* What a running refresh finds in the caches, when it runs alone.
LEMMA CachesFound ==
    ASSUME Solo, Data, NEW r \in Jobs, pc[r] # "idle"
    PROVE  /\ \A d \in cached : (pc[r] = "save" /\ cursor[r] = d) \/ rows[d] = RowsOf(d)
           /\ pc[r] # "scripSave" => scripAt = 0 \/ scripRows = Listed
<1>1. \A q \in Jobs : pc[q] # "idle" => q = r
  BY DEF Solo
<1>2. \A d \in cached : (pc[r] = "save" /\ cursor[r] = d) \/ rows[d] = RowsOf(d)
  BY <1>1 DEF Data, RowsFull
<1>3. pc[r] # "scripSave" => scripAt = 0 \/ scripRows = Listed
  BY <1>1 DEF Data, ScripFull
<1> QED BY <1>2, <1>3

\* The other jobs are idle: a step has to keep the caches and its own locals.
LEMMA OwnData ==
    ASSUME TypeInv, Solo, NEW r \in Jobs, Step(r),
           RowsFull', ScripFull', JobData(r)', Universes'
    PROVE  Data'
<1>1. \A q \in Jobs \ {r} : pc'[q] = "idle"
  BY OthersStay DEF TypeInv, Solo
<1>2. \A q \in Jobs \ {r} : JobData(q)'
  BY <1>1 DEF JobData
<1> QED BY <1>2 DEF Data

\* A step that leaves the caches and the universes alone.
LEMMA CachesStay ==
    ASSUME TypeInv, Solo, Data, NEW r \in Jobs, Step(r),
           pc[r] \notin {"save", "scripSave"},
           UNCHANGED <<cached, rows, scripAt, scripRows>>
    PROVE  RowsFull' /\ ScripFull'
<1>1. pc[r] # "idle"
  BY OthersStay DEF TypeInv
<1>2. /\ \A d \in cached : rows[d] = RowsOf(d)
      /\ scripAt = 0 \/ scripRows = Listed
  BY <1>1, CachesFound
<1> QED BY <1>2 DEF RowsFull, ScripFull

\* The job goes on with the rows it has, or ends.
LEMMA LocalsGoOn ==
    ASSUME TypeInv, Data, NEW r \in Jobs, pc[r] # "idle", pc'[r] # "scripRead",
           \/ anchor' = anchor /\ cursor' = cursor /\ got' = got
           \/ pc'[r] = "idle"
    PROVE  JobData(r)'
<1>1. CASE pc'[r] = "idle"
  BY <1>1 DEF JobData
<1>2. CASE anchor' = anchor /\ cursor' = cursor /\ got' = got
  BY <1>2 DEF Data, JobData, GotFull, RowsOf
<1> QED BY <1>1, <1>2

\* A day's file joins the frame whole, or there is none.
LEMMA TakeData ==
    ASSUME TypeInv, Data, NEW r \in Jobs, pc[r] \in {"fetch", "save"}, cursor[r] \in Days,
           NEW readable \in {{}, RowsOf(cursor[r])}, Take(r, readable)
    PROVE  JobData(r)'
<1> DEFINE d0 == cursor[r]
<1>1. /\ cursor[r] <= anchor[r] /\ GotFull(r)
      /\ cursor[r] \in Int /\ anchor[r] \in Int
  BY DEF Data, JobData, TypeInv, LocalsOK
<1>2. /\ pc'[r] = "fetch" /\ cursor'[r] = cursor[r] - 1 /\ anchor'[r] = anchor[r]
      /\ got'[r] = got[r] \cup ({d0} \X readable)
  BY DEF Take, Goto, TypeInv, LocalsOK
<1>3. got[r] \in SUBSET (Days \X Codes) /\ readable \in SUBSET Codes
  BY DEF TypeInv, LocalsOK, RowsOf
<1> HIDE DEF d0
<1>4. ASSUME NEW x \in got'[r], NEW c \in Codes
      PROVE  /\ x[1] <= anchor[r]
             /\ <<x[1], c>> \in got'[r] <=> c \in RowsOf(x[1])
  <2>1. CASE x \in got[r]
    <3>1. x[1] <= anchor[r] /\ (<<x[1], c>> \in got[r] <=> c \in RowsOf(x[1]))
      BY <1>1, <2>1 DEF GotFull
    <3>2. <<x[1], c>> \in {d0} \X readable => c \in RowsOf(x[1])
      BY DEF d0
    <3> QED BY <1>2, <3>1, <3>2
  <2>2. CASE x \in {d0} \X readable
    <3>1. x[1] = d0 /\ readable = RowsOf(d0) /\ d0 <= anchor[r]
      BY <1>1, <2>2 DEF d0
    <3>2. c \in RowsOf(d0) => <<d0, c>> \in got'[r]
      BY <1>2, <3>1
    <3>3. ASSUME <<d0, c>> \in got[r] PROVE c \in RowsOf(d0)
      <4> DEFINE y == <<d0, c>>
      <4>1. y \in got[r] /\ y[1] = d0
        BY <3>3
      <4>2. \A e \in Codes : <<y[1], e>> \in got[r] <=> e \in RowsOf(y[1])
        BY <1>1, <4>1 DEF GotFull
      <4> QED BY <3>3, <4>1, <4>2
    <3>4. <<d0, c>> \in {d0} \X readable => c \in RowsOf(d0)
      BY <3>1
    <3> QED BY <1>2, <3>1, <3>2, <3>3, <3>4
  <2> QED BY <1>2, <2>1, <2>2
<1>5. GotFull(r)'
  <2>1. \A x \in got'[r] : /\ x[1] <= anchor'[r]
                           /\ \A c \in Codes : <<x[1], c>> \in got'[r] <=> c \in RowsOf(x[1])
    <3>1. anchor'[r] = anchor[r]
      BY <1>2
    <3>2. ASSUME NEW x \in got'[r] PROVE x[1] <= anchor'[r]
      <4>1. x[2] \in Codes
        BY <1>2, <1>3
      <4> QED BY <1>4, <3>1, <4>1
    <3> QED BY <1>4, <3>2
  <2> QED BY <2>1, Zenon DEF GotFull, RowsOf
<1>6. cursor'[r] <= anchor'[r]
  BY <1>1, <1>2
<1> QED BY <1>2, <1>5, <1>6 DEF JobData

\* The universe is computed from all rows there are and the whole scrip master.
LEMMA JoinData ==
    ASSUME TypeInv, Solo, Data, NEW r \in Jobs, Step(r), pc[r] \in {"scrip", "scripRead"},
           scripRows = Listed, Join(r, scripRows)
    PROVE  Data'
<1>0. made \in Nat /\ MaxRefresh \in Nat /\ output \in [1..MaxRefresh -> [codes : SUBSET Codes,
                                              days : SUBSET Days, source : 0..MaxDay]]
  BY BoundAssumption DEF TypeInv, StoreOK
<1>1. CASE EquityRows(got[r]) = {}
  <2>1. /\ UNCHANGED <<cached, rows, scripAt, scripRows, made, output>>
        /\ pc'[r] = "idle"
    BY <1>1 DEF Join, Raise, Leave, Goto, caches, store, TypeInv, LocalsOK
  <2> QED BY <2>1, CachesStay, LocalsGoOn, UniversesNext, OwnData DEF Data
<1>2. CASE EquityRows(got[r]) # {}
  <2> DEFINE o == [codes |-> UniverseFrame(EquityRows(got[r]), anchor[r]) \cap Listed,
                   days |-> GotDays(r),
                   source |-> Max(GotDays(r))]
  <2>1. /\ made < MaxRefresh /\ made' = made + 1
        /\ output' = [output EXCEPT ![made + 1] = o]
        /\ UNCHANGED <<cached, rows, scripAt, scripRows, anchor, cursor, got>>
        /\ pc'[r] = "open"
    BY <1>2 DEF Join, Goto, GotDays, caches, TypeInv, LocalsOK
  <2>2. GotFull(r)
    BY DEF Data, JobData
  <2>3. Complete(o)
    BY <1>2, <2>2, JoinIsComplete
  <2> HIDE DEF o
  <2>4. ASSUME NEW v \in 1..made' PROVE Complete(output'[v])
    <3>1. CASE v = made + 1
      <4>1. output'[v] = o
        BY <1>0, <2>1, <3>1
      <4> QED BY <2>3, <4>1
    <3>2. CASE v # made + 1
      <4>1. v \in 1..made /\ output'[v] = output[v]
        BY <1>0, <2>1, <3>2
      <4>2. Complete(output[v])
        BY <4>1 DEF Data, Universes
      <4> QED BY <4>1, <4>2
    <3> QED BY <3>1, <3>2
  <2>5. Universes'
    BY <2>4, UniversesNext
  <2>6. pc[r] # "idle" /\ pc'[r] # "scripRead"
    BY <2>1
  <2>7. JobData(r)'
    BY <2>1, <2>6, LocalsGoOn
  <2>8. RowsFull' /\ ScripFull'
    BY <2>1, CachesStay
  <2> QED BY <2>5, <2>7, <2>8, OwnData
<1> QED BY <1>1, <1>2

\* A day is looked up: in the cache, on the network, or nowhere.
LEMMA FetchData ==
    ASSUME TypeInv, Solo, Data, NEW r \in Jobs, Step(r),
           ReadCached(r) \/ NotFound(r) \/ Download(r) \/ Save(r) \/ EndOfWindow(r)
    PROVE  Data'
<1>1. /\ pc[r] # "idle"
      /\ \A d \in cached : (pc[r] = "save" /\ cursor[r] = d) \/ rows[d] = RowsOf(d)
      /\ pc[r] # "scripSave" => scripAt = 0 \/ scripRows = Listed
  BY OthersStay, CachesFound DEF TypeInv
<1>2. cached \subseteq Days /\ rows \in [Days -> SUBSET Codes]
  BY DEF TypeInv, CachesOK
<1>3. CASE ReadCached(r)
  <2>1. /\ pc[r] = "fetch" /\ cursor[r] \in cached /\ cursor[r] \in Days
        /\ UNCHANGED <<cached, rows, scripAt, scripRows, made, output>>
    BY <1>2, <1>3 DEF ReadCached, caches, store
  <2>2. rows[cursor[r]] = RowsOf(cursor[r])
    BY <1>1, <2>1
  <2>3. Take(r, RowsOf(cursor[r]))
    BY <1>3, <2>2 DEF ReadCached, Broken
  <2>4. JobData(r)'
    BY <2>1, <2>3, TakeData
  <2> QED BY <2>1, <2>4, CachesStay, UniversesNext, OwnData DEF Data
<1>4. CASE NotFound(r)
  <2>1. /\ pc[r] = "fetch" /\ cursor[r] \in Days /\ Take(r, {})
        /\ UNCHANGED <<cached, rows, scripAt, scripRows, made, output>>
    BY <1>4, WindowDay DEF NotFound, caches, store, TypeInv
  <2>2. JobData(r)'
    BY <2>1, TakeData
  <2> QED BY <2>1, <2>2, CachesStay, UniversesNext, OwnData DEF Data
<1>5. CASE Download(r)
  <2>1. /\ pc[r] = "fetch" /\ cursor[r] \in Days /\ pc'[r] = "save"
        /\ cached' = cached \cup {cursor[r]}
        /\ UNCHANGED <<scripAt, scripRows, anchor, cursor, got, made, output>>
    BY <1>5, WindowDay DEF Download, Goto, store, TypeInv, LocalsOK
  <2>2. \A d \in cached \ {cursor[r]} : rows'[d] = RowsOf(d)
    BY <1>1, <1>2, <1>5, <2>1 DEF Download
  <2>3. pc'[r] = "save" /\ cursor'[r] = cursor[r]
    BY <2>1
  <2>4. \A d \in cached' : rows'[d] = RowsOf(d) \/ (pc'[r] = "save" /\ cursor'[r] = d)
    BY <2>1, <2>2, <2>3
  <2>5. RowsFull'
    BY <2>4 DEF RowsFull, RowsOf
  <2>6. ScripFull'
    BY <1>1, <2>1 DEF ScripFull
  <2>7. JobData(r)'
    BY <1>1, <2>1, LocalsGoOn
  <2> QED BY <2>1, <2>5, <2>6, <2>7, UniversesNext, OwnData DEF Data
<1>6. CASE Save(r)
  <2>1. /\ pc[r] = "save" /\ cursor[r] \in Days /\ Take(r, RowsOf(cursor[r]))
        /\ rows' = [rows EXCEPT ![cursor[r]] = RowsOf(cursor[r])]
        /\ UNCHANGED <<cached, scripAt, scripRows, made, output>>
    BY <1>6, WindowDay DEF Save, store, TypeInv
  <2>2. \A d \in cached' : rows'[d] = RowsOf(d)
    BY <1>1, <1>2, <2>1
  <2>3. RowsFull'
    BY <2>2 DEF RowsFull, RowsOf
  <2>4. ScripFull'
    BY <1>1, <2>1 DEF ScripFull
  <2>5. JobData(r)'
    BY <2>1, TakeData
  <2> QED BY <2>1, <2>3, <2>4, <2>5, UniversesNext, OwnData DEF Data
<1>7. CASE EndOfWindow(r)
  <2>1. /\ pc[r] = "fetch" /\ UNCHANGED <<cached, rows, scripAt, scripRows, made, output>>
        /\ \/ pc'[r] = "idle"
           \/ pc'[r] = "scrip" /\ UNCHANGED <<anchor, cursor, got>>
    BY <1>7 DEF EndOfWindow, Leave, Goto, caches, store, TypeInv, LocalsOK
  <2>2. JobData(r)'
    BY <1>1, <2>1, LocalsGoOn
  <2> QED BY <2>1, <2>2, CachesStay, UniversesNext, OwnData DEF Data
<1> QED BY <1>3, <1>4, <1>5, <1>6, <1>7

\* The scrip master: from the cache, downloaded, or of any age.
LEMMA ScripData ==
    ASSUME TypeInv, Solo, Data, NEW r \in Jobs, Step(r),
           \/ UseCachedScrip(r) \/ UnreadableScrip(r) \/ StaleScrip(r)
           \/ DownloadScrip(r) \/ SaveScrip(r) \/ ReadScrip(r)
    PROVE  Data'
<1>1. /\ pc[r] # "idle"
      /\ \A d \in cached : (pc[r] = "save" /\ cursor[r] = d) \/ rows[d] = RowsOf(d)
      /\ pc[r] # "scripSave" => scripAt = 0 \/ scripRows = Listed
  BY OthersStay, CachesFound DEF TypeInv
<1>2. pc[r] = "scripRead" => scripRows = Listed
  BY DEF Data, JobData
<1>3. ASSUME pc[r] = "scrip", Raise(r) PROVE Data'
  <2>1. pc'[r] = "idle" /\ UNCHANGED <<cached, rows, scripAt, scripRows, made, output>>
    BY <1>3 DEF Raise, Leave, Goto, caches, store, TypeInv, LocalsOK
  <2>2. JobData(r)'
    BY <2>1 DEF JobData
  <2> QED BY <1>3, <2>1, <2>2, CachesStay, UniversesNext, OwnData DEF Data
<1>4. CASE UseCachedScrip(r)
  <2>1. pc[r] = "scrip" /\ scripAt # 0 /\ Join(r, scripRows)
    BY <1>4 DEF UseCachedScrip, Fresh
  <2> QED BY <1>1, <2>1, JoinData
<1>5. CASE UnreadableScrip(r)
  BY <1>3, <1>5 DEF UnreadableScrip
<1>6. CASE StaleScrip(r)
  <2>1. CASE scripAt # 0
    <3>1. pc[r] = "scrip" /\ Join(r, scripRows)
      BY <1>6, <2>1 DEF StaleScrip
    <3> QED BY <1>1, <2>1, <3>1, JoinData
  <2>2. CASE scripAt = 0
    BY <1>3, <1>6, <2>2 DEF StaleScrip
  <2> QED BY <2>1, <2>2
<1>7. CASE DownloadScrip(r)
  <2>1. /\ pc[r] = "scrip" /\ pc'[r] = "scripSave"
        /\ UNCHANGED <<cached, rows, anchor, cursor, got, made, output>>
    BY <1>7 DEF DownloadScrip, Goto, store, TypeInv, LocalsOK
  <2>2. RowsFull'
    BY <1>1, <2>1 DEF RowsFull, RowsOf
  <2>3. ScripFull'
    BY <2>1 DEF ScripFull
  <2>4. JobData(r)'
    BY <1>1, <2>1, LocalsGoOn
  <2> QED BY <2>1, <2>2, <2>3, <2>4, UniversesNext, OwnData DEF Data
<1>8. CASE SaveScrip(r)
  <2>1. /\ pc[r] = "scripSave" /\ pc'[r] = "scripRead" /\ scripRows' = Listed
        /\ UNCHANGED <<cached, rows, anchor, cursor, got, made, output>>
    BY <1>8 DEF SaveScrip, Goto, store, TypeInv, LocalsOK
  <2>2. RowsFull'
    BY <1>1, <2>1 DEF RowsFull, RowsOf
  <2>3. ScripFull'
    BY <2>1 DEF ScripFull
  <2>4. cursor[r] <= anchor[r] /\ GotFull(r)
    BY <1>1 DEF Data, JobData
  <2>5. GotFull(r)'
    BY <2>1, <2>4 DEF GotFull, RowsOf
  <2>6. JobData(r)'
    BY <2>1, <2>4, <2>5 DEF JobData
  <2> QED BY <2>1, <2>2, <2>3, <2>6, UniversesNext, OwnData DEF Data
<1>9. CASE ReadScrip(r)
  <2>1. pc[r] = "scripRead" /\ Join(r, scripRows)
    BY <1>9 DEF ReadScrip
  <2> QED BY <1>2, <2>1, JoinData
<1> QED BY <1>4, <1>5, <1>6, <1>7, <1>8, <1>9

\* A refresh that goes on cuts nothing short.
LEMMA StepCuts == ASSUME NEW r \in Jobs, Step(r) PROVE cut' = cut
<1>1. Raise(r) => cut' = cut
  BY DEF Raise, caches
<1>2. Join(r, scripRows) => cut' = cut
  BY <1>1 DEF Join, caches
<1>3. CASE ReadCached(r) \/ NotFound(r) \/ Download(r) \/ Save(r) \/ EndOfWindow(r)
  BY <1>3 DEF ReadCached, NotFound, Download, Save, EndOfWindow, caches
<1>4. CASE \/ UseCachedScrip(r) \/ UnreadableScrip(r) \/ StaleScrip(r)
           \/ DownloadScrip(r) \/ SaveScrip(r) \/ ReadScrip(r)
  BY <1>1, <1>2, <1>4 DEF UseCachedScrip, UnreadableScrip, StaleScrip, DownloadScrip, SaveScrip,
                          ReadScrip, caches
<1>5. CASE OpenTmp(r) \/ WriteRows(r) \/ Rename(r) \/ Stamp(r)
  BY <1>1, <1>5 DEF OpenTmp, WriteRows, Write, Rename, Stamp, caches
<1> QED BY <1>3, <1>4, <1>5 DEF Step

\* One step of a refresh.
LEMMA StepData ==
    ASSUME TypeInv, Solo, Data, NEW r \in Jobs, Step(r)
    PROVE  Data'
<1>1. pc[r] # "idle"
  BY OthersStay DEF TypeInv
<1>2. ASSUME OpenTmp(r) \/ WriteRows(r) \/ Rename(r) \/ Stamp(r) PROVE Data'
  <2>1. /\ pc[r] \in Writing \cup {"open", "stamp"} /\ pc'[r] # "scripRead"
        /\ UNCHANGED <<cached, rows, scripAt, scripRows, made, output>>
        /\ pc'[r] = "idle" \/ UNCHANGED <<anchor, cursor, got>>
    <3>1. CASE OpenTmp(r)
      BY <3>1 DEF OpenTmp, Goto, caches, TypeInv, LocalsOK, Writing
    <3>2. CASE WriteRows(r)
      BY <3>2 DEF WriteRows, Write, Goto, caches, TypeInv, LocalsOK, Writing
    <3>3. CASE Rename(r)
      BY <3>3 DEF Rename, Raise, Leave, Goto, caches, store, TypeInv, LocalsOK, Writing
    <3>4. CASE Stamp(r)
      BY <3>4 DEF Stamp, Leave, Goto, caches, TypeInv, LocalsOK
    <3> QED BY <1>2, <3>1, <3>2, <3>3, <3>4
  <2>2. JobData(r)'
    BY <1>1, <2>1, LocalsGoOn
  <2>3. pc[r] \notin {"save", "scripSave"}
    BY <2>1 DEF Writing
  <2> QED BY <2>1, <2>2, <2>3, CachesStay, UniversesNext, OwnData DEF Data
<1> QED BY <1>2, FetchData, ScripData DEF Step

\* Until a download is cut short, the caches and the universes are whole.
DataInv == ~cut => Data

\* A death or an exception elsewhere than in a download leaves the caches whole.
LEMMA GoneData ==
    ASSUME DataInv, NEW gone \in SUBSET Jobs, CutOff(gone),
           \A q \in gone : pc'[q] = "idle",
           \A q \in Jobs \ gone : /\ pc'[q] = pc[q] /\ anchor'[q] = anchor[q]
                                 /\ cursor'[q] = cursor[q] /\ got'[q] = got[q]
    PROVE  DataInv'
<1> SUFFICES ASSUME ~cut' PROVE Data'
  BY DEF DataInv
<1>1. /\ ~cut /\ \A q \in gone : pc[q] \notin {"save", "scripSave"}
      /\ UNCHANGED <<cached, rows, scripAt, scripRows, made, output>>
  BY DEF CutOff
<1>2. Data
  BY <1>1 DEF DataInv
<1>3. RowsFull'
  BY <1>1, <1>2 DEF Data, RowsFull, RowsOf
<1>4. ScripFull'
  BY <1>1, <1>2 DEF Data, ScripFull
<1>5. ASSUME NEW q \in Jobs PROVE JobData(q)'
  BY <1>1, <1>2 DEF Data, JobData, GotFull, RowsOf
<1> QED BY <1>1, <1>2, <1>3, <1>4, <1>5, UniversesNext DEF Data

\* Every step of a refresh, a reader or the clock keeps the data whole.
LEMMA NextData ==
    ASSUME Apart, TypeInv, Solo, DataInv, Next \/ UNCHANGED vars
    PROVE  DataInv'
<1>1. ASSUME NEW r \in Jobs, Begin(r) PROVE DataInv'
  <2>1. /\ \A q \in Jobs : pc[q] = "idle"
        /\ \A q \in Jobs \ {r} : pc'[q] = "idle"
        /\ pc'[r] = "fetch" /\ anchor'[r] = today /\ cursor'[r] = today /\ got'[r] = {}
        /\ UNCHANGED <<cut, cached, rows, scripAt, scripRows, made, output>>
    BY <1>1 DEF Begin, MayStart, Goto, caches, store, TypeInv, LocalsOK
  <2> SUFFICES ASSUME ~cut PROVE Data'
    BY <2>1 DEF DataInv
  <2>2. Data
    BY DEF DataInv
  <2>3. RowsFull'
    BY <2>1, <2>2 DEF Data, RowsFull, RowsOf
  <2>4. ScripFull'
    BY <2>1, <2>2 DEF Data, ScripFull
  <2>5. today \in Nat
    BY DayCounts DEF TypeInv, ClockOK
  <2>6. JobData(r)'
    BY <2>1, <2>5 DEF JobData, GotFull
  <2>7. \A q \in Jobs \ {r} : JobData(q)'
    BY <2>1 DEF JobData
  <2> QED BY <2>1, <2>2, <2>3, <2>4, <2>6, <2>7, UniversesNext DEF Data
<1>2. CASE Nightly \/ Bootstrap
  BY <1>1, <1>2, JobsAssumption DEF Nightly, Bootstrap
<1>3. CASE \E r \in Jobs : Step(r)
  <2>1. PICK r \in Jobs : Step(r)
    BY <1>3
  <2>2. cut' = cut
    BY <2>1, StepCuts
  <2> QED BY <2>1, <2>2, StepData DEF DataInv
<1>4. CASE Crash
  <2>1. CutOff(Jobs) /\ \A q \in Jobs : pc'[q] = "idle"
    BY <1>4 DEF Crash
  <2> QED BY <2>1, GoneData
<1>5. CASE BeginLoad \/ EndLoad \/ Restart \/ NextDay \/ UNCHANGED vars
  <2>1. UNCHANGED <<cut, cached, rows, scripAt, scripRows, made, output,
                    pc, anchor, cursor, got>>
    BY <1>5 DEF BeginLoad, EndLoad, Restart, NextDay, vars, caches, locals, store
  <2>2. Data => RowsFull' /\ ScripFull'
    BY <2>1 DEF Data, RowsFull, ScripFull, RowsOf
  <2>3. Data => \A q \in Jobs : JobData(q)'
    BY <2>1 DEF Data, JobData, GotFull, RowsOf
  <2> QED BY <2>1, <2>2, <2>3, UniversesNext DEF DataInv, Data
<1>6. CASE \E r \in Jobs : Fails(r)
  <2>1. PICK r \in Jobs : Fails(r)
    BY <1>6
  <2>2. /\ CutOff({r}) /\ pc'[r] = "idle"
        /\ \A q \in Jobs \ {r} : /\ pc'[q] = pc[q] /\ anchor'[q] = anchor[q]
                                /\ cursor'[q] = cursor[q] /\ got'[q] = got[q]
    BY <2>1 DEF Fails, Leave, Goto, TypeInv, LocalsOK
  <2> QED BY <2>2, GoneData
<1> QED BY <1>2, <1>3, <1>4, <1>5, <1>6 DEF Next

\* The caches start empty.
LEMMA InitData == Init => DataInv
<1>1. Init => RowsFull /\ ScripFull /\ \A r \in Jobs : JobData(r)
  BY DEF Init, RowsFull, ScripFull, JobData
<1>2. Init => Universes
  BY DEF Init, Universes
<1> QED BY <1>1, <1>2 DEF DataInv, Data

\* As long as nothing has cut a download short, every universe is what the
\* exchange's own data give (refresh.py:97-122, bhavcopy.py:123-131,
\* scrip_master.py:104-115): no share is lost to a cache that is read while it
\* grows, whatever days are holidays, however long the window and the lookback.
THEOREM NoShareIsLostHolds == ASSUME Apart PROVE Spec => []NoShareIsLost
<1>1. DataInv => NoShareIsLost
  BY LostMeans DEF DataInv, Data, Universes
<1>2. DataInv /\ TypeInv /\ Whole /\ [Next]_vars => DataInv'
  BY NextData DEF Whole
<1> QED BY <1>1, <1>2, InitData, SpecWhole, PTL DEF Spec
=============================================================================
