--------------------------- MODULE MCTokenMonitor ---------------------------
(* Two days' tokens.  One unit of time is ten minutes, and an hour is       *)
(* shortened to two of them.                                               *)
EXTENDS TokenMonitor, TLC

CONSTANTS monday, tuesday

TwoDays == (monday :> 3) @@ (tuesday :> 6)
=============================================================================
