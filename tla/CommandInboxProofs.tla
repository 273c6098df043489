------------------------- MODULE CommandInboxProofs -------------------------
(***************************************************************************)
(* What is proved of CommandInbox for any number of clicks, days and       *)
(* deaths of the worker.                                                   *)
(***************************************************************************)
EXTENDS CommandInbox, TLAPS

\* The file stands for a click no run has been started for, and what the job
\* is about to start, or has started, was asked for today.
FileInv ==
    /\ runs + (IF file = "none" THEN 0 ELSE 1) <= clicks
    /\ inbox \in Sections => file # "none"
    /\ file = "fresh" => clickDay = day
    /\ inbox \in {"fresh", "consume", "run"} => clickDay = day

IInv == TypeOK /\ FileInv

\* The invariant holds before the first click.
LEMMA InitIInv == Init => IInv
<1> SUFFICES ASSUME Init PROVE IInv
  OBVIOUS
<1>1. done \in BOOLEAN
  BY Zenon DEF Init
<1> QED
  BY <1>1, BoundAssumption DEF Init, IInv, TypeOK, FileInv, Sections, Answers

\* The steps of the inbox job, and clicks, keep the invariant.
LEMMA InboxIInv ==
    ASSUME IInv, Click \/ Inbox
    PROVE  IInv'
<1> USE BoundAssumption DEF IInv, TypeOK, FileInv, Sections, Answers, day_vars, click_vars
<1>1. CASE Click
  BY <1>1 DEF Click
<1>2. CASE Scan \/ Trigger
  BY <1>2 DEF Scan, Trigger
<1>3. CASE AlertStale \/ DiscardUnlink \/ Ignore
  BY <1>3 DEF AlertStale, DiscardUnlink, Ignore
<1>4. CASE Consume
  BY <1>4 DEF Consume
<1>5. CASE RunEnds
  BY <1>5 DEF RunEnds
<1> QED
  BY <1>1, <1>2, <1>3, <1>4, <1>5 DEF Inbox

\* So do the cron, the time, and the worker's deaths.
LEMMA WorldIInv ==
    ASSUME IInv, CronStarts \/ CronEnds \/ Ages \/ NextDay \/ Crash \/ Restart
    PROVE  IInv'
<1> USE BoundAssumption DEF IInv, TypeOK, FileInv, Sections, Answers, day_vars, click_vars
<1>1. CASE CronStarts \/ CronEnds
  BY <1>1 DEF CronStarts, CronEnds
<1>2. CASE Ages
  BY <1>2 DEF Ages
<1>3. CASE NextDay
  <2>1. done' \in BOOLEAN
    BY <1>3, Zenon DEF NextDay
  <2> QED
    BY <1>3, <2>1 DEF NextDay
<1>4. CASE Crash \/ Restart
  <2>1. up' \in BOOLEAN
    BY <1>4, Zenon DEF Crash, Restart
  <2> QED
    BY <1>4, <2>1 DEF Crash, Restart
<1> QED
  BY <1>1, <1>2, <1>3, <1>4

\* The invariant holds in every reachable state.
LEMMA SpecIInv == Spec => []IInv
<1>1. ASSUME IInv, [Next]_vars
      PROVE  IInv'
  <2>1. CASE UNCHANGED vars
    BY <1>1, <2>1 DEF vars, IInv, TypeOK, FileInv
  <2>2. CASE Next
    BY <1>1, <2>2, InboxIInv, WorldIInv DEF Next
  <2> QED
    BY <1>1, <2>1, <2>2
<1> QED
  BY <1>1, InitIInv, PTL DEF Spec

\* The inbox is well formed in every reachable state.
THEOREM SpecTypeOK == Spec => []TypeOK
<1>1. IInv => TypeOK
  BY DEF IInv
<1> QED
  BY <1>1, SpecIInv, PTL

\* The inbox never starts more runs than there were clicks, wherever the
\* worker dies between looking at the file, unlinking it and running.
THEOREM SpecOneRunPerClick == Spec => []OneRunPerClick
<1>1. IInv => OneRunPerClick
  BY DEF IInv, TypeOK, FileInv, OneRunPerClick
<1> QED
  BY <1>1, SpecIInv, PTL

\* A click never starts a run on another day than its own.
THEOREM SpecRunsAreWantedToday == Spec => []RunsAreWantedToday
<1>1. IInv => RunsAreWantedToday
  BY DEF IInv, FileInv, RunsAreWantedToday
<1> QED
  BY <1>1, SpecIInv, PTL
=============================================================================
