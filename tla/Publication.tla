---------------------------- MODULE Publication ----------------------------
(***************************************************************************)
(* What the readers of <state_dir>/universe/universe.csv are promised      *)
(* (app/universe/refresh.py:19, app/strategy/universe.py:3): the universe  *)
(* changes from one complete refresh to a later one in a single step, and  *)
(* a load returns one of them whole, the one published when it began.      *)
(* Refreshes are numbered in the order their universe was computed.        *)
(***************************************************************************)
EXTENDS Naturals

CONSTANT MaxRefresh    \* bound: refreshes

VARIABLES
    published,   \* the refresh whose universe is visible, 0 for no file
    snapshot,    \* the one a load in progress is reading, 0 for no load
    loaded       \* the one the last load returned, 0 before the first

pubVars == <<published, snapshot, loaded>>

Versions == 1..MaxRefresh

PInit == published = 0 /\ snapshot = 0 /\ loaded = 0

Publish ==
    /\ \E v \in Versions : v > published /\ published' = v
    /\ UNCHANGED <<snapshot, loaded>>

BeginLoad ==
    /\ snapshot = 0
    /\ published # 0
    /\ snapshot' = published
    /\ UNCHANGED <<published, loaded>>

EndLoad ==
    /\ snapshot # 0
    /\ loaded' = snapshot
    /\ snapshot' = 0
    /\ UNCHANGED published

\* The reading process dies.
AbandonLoad == snapshot' = 0 /\ UNCHANGED <<published, loaded>>

PNext == Publish \/ BeginLoad \/ EndLoad \/ AbandonLoad

PSpec == PInit /\ [][PNext]_pubVars

-----------------------------------------------------------------------------

\* A load in progress, and the one before it, are of published universes, and
\* the later load of the later one.
LoadsInOrder ==
    /\ {published, snapshot, loaded} \subseteq Versions \cup {0}
    /\ loaded <= published /\ snapshot <= published
    /\ snapshot # 0 => loaded <= snapshot

\* Readers never see the universe go back to an earlier one (refresh.py:180-190).
NeverGoesBack == [][published' >= published /\ loaded' >= loaded]_pubVars
=============================================================================
