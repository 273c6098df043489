--------------------------- MODULE PidFileProofs ---------------------------
(***************************************************************************)
(* What is proved of PidFile for any number of starts: its types, that a   *)
(* start is refused for a reason, and, where open files cannot be          *)
(* unlinked, that one instance runs at a time.                             *)
(***************************************************************************)
EXTENDS PidFile, TLAPS

\* What the place of a process says of its handle and its lock, and who the
\* pid file can name.
PlaceInv ==
    \A p \in Procs :
        /\ holds[p] => pc[p] \in {"write", "running", "gone"}
        /\ pc[p] \in {"write", "running"} => holds[p]
        /\ pc[p] = "lock" => handle[p] # 0
        /\ pidFile = p => pc[p] \in {"running", "close", "releasePid", "releaseLock", "gone"}

\* On Windows every open handle leads to the file the path leads to, which no
\* one can unlink meanwhile; so the lock has one holder.
LockInv ==
    /\ \A p \in Procs : handle[p] # 0 => handle[p] = lockFile
    /\ \A p, q \in Procs : holds[p] /\ holds[q] => p = q

IInv == TypeOK /\ PlaceInv /\ (Windows => LockInv)

\* The invariant holds before the first start.
LEMMA InitIInv == Init => IInv
  BY NamesAssumption DEF Init, IInv, TypeOK, PlaceInv, LockInv, Places, Over, Nobody, Ghost

\* What acquire does keeps the invariant.
LEMMA AcquireIInv ==
    ASSUME IInv, NEW p \in Procs, Start(p) \/ Acquire(p)
    PROVE  IInv'
<1>1. CASE Start(p) \/ CheckStale(p)
  BY <1>1 DEF Start, CheckStale, Goto, IInv, TypeOK, PlaceInv, LockInv, Places, Over
<1>2. CASE UnlinkPid(p)
  BY <1>2, NamesAssumption
  DEF UnlinkPid, Goto, IInv, TypeOK, PlaceInv, LockInv, Places, Over, Nobody
<1>3. CASE UnlinkLock(p)
  BY <1>3 DEF UnlinkLock, LockFileUnlinked, Goto, IInv, TypeOK, PlaceInv, LockInv,
              Places, Over
<1>4. CASE Open(p)
  BY <1>4 DEF Open, Goto, IInv, TypeOK, PlaceInv, LockInv, Places, Over
<1>5. CASE Lock(p)
  BY <1>5 DEF Lock, Locked, Goto, IInv, TypeOK, PlaceInv, LockInv, Places, Over
<1>6. CASE Refuse(p)
  BY <1>6 DEF Refuse, Goto, IInv, TypeOK, PlaceInv, LockInv, Places, Over
<1>7. CASE WritePid(p)
  BY <1>7 DEF WritePid, Goto, IInv, TypeOK, PlaceInv, LockInv, Places, Over
<1> QED
  BY <1>1, <1>2, <1>3, <1>4, <1>5, <1>6, <1>7 DEF Acquire

\* So do release and death.
LEMMA ReleaseIInv ==
    ASSUME IInv, NEW p \in Procs, Release(p) \/ Die(p) \/ Reap(p)
    PROVE  IInv'
<1>1. CASE Unlock(p)
  BY <1>1 DEF Unlock, Goto, IInv, TypeOK, PlaceInv, LockInv, Places, Over
<1>2. CASE Close(p)
  <2>1. TypeOK'
    BY <1>2 DEF Close, Goto, IInv, TypeOK, PlaceInv, Places, Over
  <2>2. PlaceInv'
    BY <1>2 DEF Close, Goto, IInv, TypeOK, PlaceInv
  <2>3. Windows => LockInv'
    BY <1>2 DEF Close, IInv, TypeOK, LockInv
  <2> QED
    BY <2>1, <2>2, <2>3 DEF IInv
<1>3. CASE ReleasePid(p)
  BY <1>3, NamesAssumption
  DEF ReleasePid, Goto, IInv, TypeOK, PlaceInv, LockInv, Places, Over, Nobody
<1>4. CASE ReleaseLock(p)
  BY <1>4 DEF ReleaseLock, LockFileUnlinked, Goto, IInv, TypeOK, PlaceInv, LockInv,
              Places, Over
<1>5. CASE Die(p)
  BY <1>5 DEF Die, Alive, Goto, IInv, TypeOK, PlaceInv, LockInv, Places, Over
<1>6. CASE Reap(p)
  BY <1>6 DEF Reap, IInv, TypeOK, PlaceInv, LockInv, Places, Over
<1> QED
  BY <1>1, <1>2, <1>3, <1>4, <1>5, <1>6 DEF Release

\* Every step keeps the invariant, on either platform.
LEMMA NextIInv ==
    ASSUME IInv, [Next]_vars
    PROVE  IInv'
<1>1. CASE UNCHANGED vars
  BY <1>1 DEF vars, IInv, TypeOK, PlaceInv, LockInv
<1>2. CASE Next
  BY <1>2, AcquireIInv, ReleaseIInv DEF Next
<1> QED
  BY <1>1, <1>2

\* The invariant holds in every reachable state.
LEMMA SpecIInv == Spec => []IInv
<1> QED
  BY InitIInv, NextIInv, PTL DEF Spec

\* For every number of starts the state of the supervisor is well formed.
THEOREM SpecTypeOK == Spec => []TypeOK
<1>1. IInv => TypeOK
  BY DEF IInv
<1> QED
  BY <1>1, SpecIInv, PTL

\* Where a file that is open cannot be unlinked, any number of simultaneous
\* starts, stops and deaths leave at most one instance running.
THEOREM SpecMutualExclusion ==
    ASSUME Windows
    PROVE  Spec => []MutualExclusion
<1>1. IInv => MutualExclusion
  BY DEF IInv, PlaceInv, LockInv, MutualExclusion
<1> QED
  BY <1>1, SpecIInv, PTL

\* On either platform, what a crash left behind never refuses a start for ever.
THEOREM SpecRefusedForAReason == Spec => RefusedForAReason
<1> DEFINE Reason ==
        \A p \in Procs : pc[p] # "refused" /\ pc'[p] = "refused" =>
            \E q \in Procs \ {p} : Alive(q) \/ handle[q] # 0
<1>1. ASSUME IInv, [Next]_vars
      PROVE  [Reason]_vars
  <2>1. CASE UNCHANGED vars
    BY <2>1
  <2>2. ASSUME Next, NEW p \in Procs, pc[p] # "refused", pc'[p] = "refused"
        PROVE  \E q \in Procs \ {p} : Alive(q) \/ handle[q] # 0
    <3>1. PICK r \in Procs : Start(r) \/ Acquire(r) \/ Release(r) \/ Die(r) \/ Reap(r)
      BY <2>2 DEF Next
    <3>2. CheckStale(p) \/ Refuse(p)
      BY <1>1, <2>2, <3>1
      DEF Start, Acquire, Release, Die, Reap, CheckStale, UnlinkPid, UnlinkLock, Open, Lock,
          Refuse, WritePid, Unlock, Close, ReleasePid, ReleaseLock, Goto, IInv, TypeOK
    <3>3. CASE CheckStale(p)
      BY <1>1, <2>2, <3>3 DEF CheckStale, Goto, IInv, TypeOK, PlaceInv
    <3>4. CASE Refuse(p)
      BY <1>1, <2>2, <3>4 DEF Refuse, Locked, Alive, Over, Goto, IInv, TypeOK, PlaceInv
    <3> QED
      BY <3>2, <3>3, <3>4
  <2> QED
    BY <1>1, <2>1, <2>2
<1> QED
  BY <1>1, SpecIInv, PTL DEF Spec, RefusedForAReason
=============================================================================
