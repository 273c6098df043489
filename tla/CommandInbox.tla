---------------------------- MODULE CommandInbox ----------------------------
(***************************************************************************)
(* "Run rebalance now": the web process touches run_rebalance.now, and     *)
(* command_inbox_job of app/worker/jobs.py, every two seconds, looks at    *)
(* its age and at today's session, unlinks it and awaits execution_job.    *)
(*                                                                         *)
(* The web process touches the file between any two steps of the worker.   *)
(* Within the worker the steps of the inbox up to the await run in one go, *)
(* so the 09:30 cron, which runs execution_job too, does not come between. *)
(* execution_job itself is module Execution; here it starts and ends.      *)
(***************************************************************************)
EXTENDS Naturals

CONSTANTS
    MaxClicks,    \* bound: clicks on the button
    MaxDay,       \* bound: trading days
    MaxCrashes    \* bound: deaths of the worker

ASSUME BoundAssumption ==
    MaxClicks \in Nat /\ MaxDay \in Nat \ {0} /\ MaxCrashes \in Nat

VARIABLES
    day,         \* today's session
    done,        \* whether its execution_completed_at is set
    up,          \* whether the worker is running
    file,        \* run_rebalance.now: none, fresh, or old (over 300 s)
    inbox,       \* where command_inbox_job is
    cron,        \* whether the 09:30 job is before, in or after its run today
    clicks,      \* clicks so far
    clickDay,    \* the day of the last one
    answer,      \* what became of the last click, for the properties alone
    runs,        \* runs of execution_job the inbox has started
    crashes

day_vars == <<day, done, cron>>
click_vars == <<clicks, clickDay>>
vars == <<day, done, up, file, inbox, cron, clicks, clickDay, answer, runs, crashes>>

Sections == {"stale", "discard", "fresh", "consume"}
Answers == {"none", "waiting", "run", "alert", "ignored", "lost"}

Init ==
    /\ day = 1 /\ done = FALSE
    /\ up \in BOOLEAN
    /\ file = "none" /\ inbox = "idle" /\ cron = "before"
    /\ clicks = 0 /\ clickDay = 0 /\ answer = "none"
    /\ runs = 0 /\ crashes = 0

\* POST /actions/run-rebalance: create the file, or make it new again.
Click ==
    /\ clicks < MaxClicks
    /\ clicks' = clicks + 1
    /\ clickDay' = day
    /\ file' = "fresh"
    /\ answer' = "waiting"
    /\ UNCHANGED <<day_vars, up, inbox, runs, crashes>>

(***************************************************************************)
(* command_inbox_job                                                       *)
(***************************************************************************)

\* Mutant: the age of the file does not matter.
ScanAgeless ==
    /\ up /\ inbox = "idle" /\ file # "none"
    /\ inbox' = "fresh"
    /\ UNCHANGED <<day_vars, click_vars, up, file, answer, runs, crashes>>

\* The tick finds the file and takes its age.
Scan ==
    /\ up /\ inbox = "idle" /\ file # "none"
    /\ inbox' = IF file = "old" THEN "stale" ELSE "fresh"
    /\ UNCHANGED <<day_vars, click_vars, up, file, answer, runs, crashes>>

\* Mutant: no alert is raised.
DiscardSilently ==
    /\ inbox = "stale"
    /\ inbox' = "discard"
    /\ UNCHANGED <<day_vars, click_vars, up, file, answer, runs, crashes>>

\* It was too old: alert, which is the answer to what was clicked so far ...
AlertStale ==
    /\ inbox = "stale"
    /\ answer' = IF answer = "waiting" THEN "alert" ELSE answer
    /\ inbox' = "discard"
    /\ UNCHANGED <<day_vars, click_vars, up, file, runs, crashes>>

\* ... then unlink whatever is there by now, a click after the alert included.
DiscardUnlink ==
    /\ inbox = "discard"
    /\ file' = "none"
    /\ answer' = IF answer = "waiting" THEN "lost" ELSE answer
    /\ inbox' = "idle"
    /\ UNCHANGED <<day_vars, click_vars, up, runs, crashes>>

\* The session is completed: log, which the user does not see, and unlink.
Ignore ==
    /\ inbox = "fresh" /\ done
    /\ file' = "none"
    /\ answer' = IF answer = "waiting" THEN "ignored" ELSE answer
    /\ inbox' = "idle"
    /\ UNCHANGED <<day_vars, click_vars, up, runs, crashes>>

\* It is not: alert that a manual run is triggered.
Trigger ==
    /\ inbox = "fresh" /\ ~done
    /\ inbox' = "consume"
    /\ UNCHANGED <<day_vars, click_vars, up, file, answer, runs, crashes>>

\* Mutant: the file is unlinked when the run is over.
ConsumeLater ==
    /\ inbox = "consume"
    /\ runs' = runs + 1
    /\ answer' = "run"
    /\ inbox' = "run"
    /\ UNCHANGED <<day_vars, click_vars, up, file, crashes>>

\* Unlink the file, then start execution_job.
Consume ==
    /\ inbox = "consume"
    /\ file' = "none"
    /\ runs' = runs + 1
    /\ answer' = "run"
    /\ inbox' = "run"
    /\ UNCHANGED <<day_vars, click_vars, up, crashes>>

\* execution_job marks the day, or it returns early or raises, which is alerted.
RunEnds ==
    /\ inbox = "run"
    /\ inbox' = "idle"
    /\ done' \in {done, TRUE}
    /\ UNCHANGED <<day, cron, click_vars, up, file, answer, runs, crashes>>

(***************************************************************************)
(* The 09:30 cron, time, and the worker's deaths                           *)
(***************************************************************************)

CronStarts ==
    /\ up /\ cron = "before" /\ inbox \notin Sections
    /\ cron' = "run"
    /\ UNCHANGED <<day, done, click_vars, up, file, inbox, answer, runs, crashes>>

CronEnds ==
    /\ cron = "run" /\ inbox \notin Sections
    /\ cron' = "after"
    /\ done' \in {done, TRUE}
    /\ UNCHANGED <<day, click_vars, up, file, inbox, answer, runs, crashes>>

\* 300 s go by: the poll has come in between, unless the worker is down or its
\* inbox job, of which there is one instance, is still inside a run.
Ages ==
    /\ file = "fresh"
    /\ ~up \/ inbox = "run"
    /\ file' = "old"
    /\ UNCHANGED <<day_vars, click_vars, up, inbox, answer, runs, crashes>>

\* Overnight no run is in progress, and a file that still lies there ages.
NextDay ==
    /\ day < MaxDay
    /\ inbox = "idle" /\ cron # "run"
    /\ day' = day + 1
    /\ done' = FALSE
    /\ cron' = "before"
    /\ file' = IF file = "none" THEN "none" ELSE "old"
    /\ UNCHANGED <<click_vars, up, inbox, answer, runs, crashes>>

Crash ==
    /\ up /\ crashes < MaxCrashes
    /\ up' = FALSE
    /\ inbox' = "idle"
    /\ cron' = IF cron = "run" THEN "after" ELSE cron
    /\ crashes' = crashes + 1
    /\ UNCHANGED <<day, done, click_vars, file, answer, runs>>

Restart ==
    /\ ~up
    /\ up' = TRUE
    /\ UNCHANGED <<day_vars, click_vars, file, inbox, answer, runs, crashes>>

Inbox == Scan \/ AlertStale \/ DiscardUnlink \/ Ignore \/ Trigger \/ Consume \/ RunEnds

Next ==
    \/ Click \/ Inbox \/ CronStarts \/ CronEnds
    \/ Ages \/ NextDay \/ Crash \/ Restart

\* APScheduler fires the poll while the loop is free, runs end (Execution's
\* RunsEnd), and someone starts the worker again.
Spec == Init /\ [][Next]_vars /\ WF_vars(Inbox) /\ WF_vars(Restart)

(***************************************************************************)
(* Properties                                                              *)
(***************************************************************************)

\* Every variable has its type, and a worker that is down runs nothing.
TypeOK ==
    /\ day \in 1..MaxDay /\ done \in BOOLEAN /\ up \in BOOLEAN
    /\ file \in {"none", "fresh", "old"}
    /\ inbox \in Sections \cup {"idle", "run"}
    /\ cron \in {"before", "run", "after"}
    /\ clicks \in 0..MaxClicks /\ clickDay \in 0..MaxDay
    /\ answer \in Answers
    /\ runs \in 0..MaxClicks /\ crashes \in 0..MaxCrashes
    /\ ~up => inbox = "idle" /\ cron # "run"

\* A click starts one run at most, wherever the worker dies: that is why the
\* file is unlinked first (jobs.py:366-368).
OneRunPerClick == runs <= clicks

\* A run the inbox starts is wanted today: a click of another day, found when
\* the worker comes up again, starts none (FRD.md:237).
RunsAreWantedToday == inbox \in {"consume", "run"} => clickDay = day

\* Every click is answered in the end, by a run that starts after it or by the
\* stale alert, with two exceptions the code makes: one found when the day is
\* completed is only logged, where jobs.py:300-302 and FRD.md:430 promise an alert,
\* and one that falls between the stale alert and the unlink is lost.
ClickIsAnswered ==
    answer = "waiting" /\ inbox # "discard" ~> answer \in {"run", "alert", "ignored"}
=============================================================================
