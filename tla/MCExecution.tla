---------------------------- MODULE MCExecution ----------------------------
(***************************************************************************)
(* Small instances of Execution for TLC.                                   *)
(***************************************************************************)
EXTENDS Execution

\* The history of earlier days: nothing held, or one lot of the first symbol.
First == CHOOSE x \in Symbols : TRUE
MCInitialBooks == {[s \in Symbols |-> 0],
                   [s \in Symbols |-> IF s = First THEN 1 ELSE 0]}
MCOneHeld == {[s \in Symbols |-> IF s = First THEN 1 ELSE 0]}
=============================================================================
