------------------------------ MODULE PidFile ------------------------------
(***************************************************************************)
(* The single-instance supervisor of app/pidfile.py: several starts of the *)
(* same program, each of which checks run/<name>.pid for a live instance,  *)
(* cleans what a dead one left, takes the OS lock on run/<name>.lock,      *)
(* writes the pid file, and undoes all that when it stops.                 *)
(*                                                                         *)
(* A path is what it names now: lockFile is the file run/<name>.lock leads *)
(* to, and a handle keeps leading to the file it was opened on, unlinked   *)
(* or not.  The platforms differ in two ways (pidfile.py:135-157): Windows *)
(* refuses to unlink a file some handle is open on, and may keep the       *)
(* handles of a dead process for a while.                                  *)
(***************************************************************************)
EXTENDS Integers

CONSTANTS
    Procs,     \* processes, one for each time the program is started
    Windows    \* TRUE for msvcrt and NTFS, FALSE for fcntl and POSIX

ASSUME WindowsAssumption == Windows \in BOOLEAN

VARIABLES
    pc,        \* where each process is
    pidFile,   \* who run/<name>.pid names
    lockFile,  \* the file run/<name>.lock leads to, 0 when there is none
    files,     \* lock files created so far
    handle,    \* the file the _lock_fd of each process is open on, or 0
    holds      \* whether it holds the exclusive lock on that file

vars == <<pc, pidFile, lockFile, files, handle, holds>>

Nobody == "nobody"   \* there is no pid file
Ghost == "ghost"     \* it names a process long dead, or is corrupt

ASSUME NamesAssumption == Nobody \notin Procs /\ Ghost \notin Procs

Over == {"idle", "refused", "gone"}
Alive(p) == pc[p] \notin Over

Init ==
    /\ pc = [p \in Procs |-> "idle"]
    /\ pidFile \in {Nobody, Ghost}
    /\ lockFile \in {0, 1}
    /\ files = lockFile
    /\ handle = [p \in Procs |-> 0]
    /\ holds = [p \in Procs |-> FALSE]

Goto(p, place) == pc' = [pc EXCEPT ![p] = place]

(***************************************************************************)
(* acquire                                                                 *)
(***************************************************************************)

Start(p) ==
    /\ pc[p] = "idle"
    /\ Goto(p, "check")
    /\ UNCHANGED <<pidFile, lockFile, files, handle, holds>>

\* Mutant: any pid file stands for a live instance.
CheckStaleBlind(p) ==
    /\ pc[p] = "check"
    /\ Goto(p, IF pidFile = Nobody THEN "open" ELSE "refused")
    /\ UNCHANGED <<pidFile, lockFile, files, handle, holds>>

\* check_stale: a live instance refuses the start, a stale file is cleaned.
CheckStale(p) ==
    /\ pc[p] = "check"
    /\ Goto(p, IF pidFile = Nobody THEN "open"
               ELSE IF \E q \in Procs : pidFile = q /\ Alive(q) THEN "refused"
               ELSE "unlinkPid")
    /\ UNCHANGED <<pidFile, lockFile, files, handle, holds>>

UnlinkPid(p) ==
    /\ pc[p] = "unlinkPid"
    /\ pidFile' = Nobody
    /\ Goto(p, "unlinkLock")
    /\ UNCHANGED <<lockFile, files, handle, holds>>

\* Mutant: unlink as POSIX has it.
LockFileUnlinkedAlways == 0

\* _safe_unlink of the lock file, which a sharing violation leaves in place.
LockFileUnlinked ==
    IF Windows /\ \E q \in Procs : handle[q] = lockFile THEN lockFile ELSE 0

UnlinkLock(p) ==
    /\ pc[p] = "unlinkLock"
    /\ lockFile' = LockFileUnlinked
    /\ Goto(p, "open")
    /\ UNCHANGED <<pidFile, files, handle, holds>>

\* os.open with O_CREAT.
Open(p) ==
    /\ pc[p] = "open"
    /\ files' = IF lockFile = 0 THEN files + 1 ELSE files
    /\ lockFile' = IF lockFile = 0 THEN files + 1 ELSE lockFile
    /\ handle' = [handle EXCEPT ![p] = lockFile']
    /\ Goto(p, "lock")
    /\ UNCHANGED <<pidFile, holds>>

Locked(file) == \E q \in Procs : handle[q] = file /\ holds[q]

Lock(p) ==
    /\ pc[p] = "lock"
    /\ ~Locked(handle[p])
    /\ holds' = [holds EXCEPT ![p] = TRUE]
    /\ Goto(p, "write")
    /\ UNCHANGED <<pidFile, lockFile, files, handle>>

\* The lock is taken, or a dead process's handle stalls the call until the
\* 15 s are over: AlreadyRunning, and the process exits.
Refuse(p) ==
    /\ \/ pc[p] = "lock" /\ Locked(handle[p])
       \/ pc[p] \in {"open", "lock"} /\ \E q \in Procs : ~Alive(q) /\ handle[q] # 0
    /\ Goto(p, "refused")
    /\ handle' = [handle EXCEPT ![p] = 0]
    /\ UNCHANGED <<pidFile, lockFile, files, holds>>

WritePid(p) ==
    /\ pc[p] = "write"
    /\ pidFile' = p
    /\ Goto(p, "running")
    /\ UNCHANGED <<lockFile, files, handle, holds>>

(***************************************************************************)
(* release, and death                                                      *)
(***************************************************************************)

\* Mutant: the file is closed with its lock on.
UnlockForgotten(p) ==
    /\ pc[p] = "running"
    /\ Goto(p, "close")
    /\ UNCHANGED <<pidFile, lockFile, files, handle, holds>>

\* SIGTERM, SIGINT or the end of the with block: the callbacks have run.
Unlock(p) ==
    /\ pc[p] = "running"
    /\ holds' = [holds EXCEPT ![p] = FALSE]
    /\ Goto(p, "close")
    /\ UNCHANGED <<pidFile, lockFile, files, handle>>

Close(p) ==
    /\ pc[p] = "close"
    /\ handle' = [handle EXCEPT ![p] = 0]
    /\ Goto(p, "releasePid")
    /\ UNCHANGED <<pidFile, lockFile, files, holds>>

\* Whoever the pid file names by now.
ReleasePid(p) ==
    /\ pc[p] = "releasePid"
    /\ pidFile' = Nobody
    /\ Goto(p, "releaseLock")
    /\ UNCHANGED <<lockFile, files, handle, holds>>

ReleaseLock(p) ==
    /\ pc[p] = "releaseLock"
    /\ lockFile' = LockFileUnlinked
    /\ Goto(p, "gone")
    /\ UNCHANGED <<pidFile, files, handle, holds>>

\* Killed, at any point; POSIX closes its handles at once, Windows when it
\* comes to it.
Die(p) ==
    /\ Alive(p)
    /\ Goto(p, "gone")
    /\ handle' = IF Windows THEN handle ELSE [handle EXCEPT ![p] = 0]
    /\ holds' = IF Windows THEN holds ELSE [holds EXCEPT ![p] = FALSE]
    /\ UNCHANGED <<pidFile, lockFile, files>>

Reap(p) ==
    /\ pc[p] = "gone"
    /\ handle[p] # 0
    /\ handle' = [handle EXCEPT ![p] = 0]
    /\ holds' = [holds EXCEPT ![p] = FALSE]
    /\ UNCHANGED <<pc, pidFile, lockFile, files>>

Acquire(p) ==
    \/ CheckStale(p) \/ UnlinkPid(p) \/ UnlinkLock(p)
    \/ Open(p) \/ Lock(p) \/ Refuse(p) \/ WritePid(p)
Release(p) == Unlock(p) \/ Close(p) \/ ReleasePid(p) \/ ReleaseLock(p)

Next == \E p \in Procs : Start(p) \/ Acquire(p) \/ Release(p) \/ Die(p) \/ Reap(p)

Spec == Init /\ [][Next]_vars

(***************************************************************************)
(* Properties                                                              *)
(***************************************************************************)

Places == Over \cup {"check", "unlinkPid", "unlinkLock", "open", "lock", "write",
                     "running", "close", "releasePid", "releaseLock"}

\* Files, handles and places have their types, and no lock is held through a
\* closed handle.
TypeOK ==
    /\ pc \in [Procs -> Places]
    /\ pidFile \in Procs \cup {Nobody, Ghost}
    /\ lockFile \in 0..files
    /\ files \in Nat
    /\ handle \in [Procs -> 0..files]
    /\ holds \in [Procs -> BOOLEAN]
    /\ \A p \in Procs : holds[p] => handle[p] # 0

\* However starts, stops and deaths interleave, one instance runs at a time:
\* the lock "prevents a race with a simultaneously-starting second instance"
\* (pidfile.py:9), although a start unlinks the lock file before it opens it.
MutualExclusion ==
    \A p, q \in Procs : pc[p] = "running" /\ pc[q] = "running" => p = q

\* A start is refused only while another instance lives or its handles do: no
\* leftover of a crash, pid file or lock file, stands in the way for ever.
RefusedForAReason ==
    [][\A p \in Procs : pc[p] # "refused" /\ pc'[p] = "refused" =>
          \E q \in Procs \ {p} : Alive(q) \/ handle[q] # 0]_vars
=============================================================================
