--------------------------- MODULE MCPaperEngine ---------------------------
(***************************************************************************)
(* Small instances of PaperEngine for TLC.                                 *)
(***************************************************************************)
EXTENDS PaperEngine

\* Nothing held yet, and a position an earlier session left.
MCInitialBooks == {[s \in Symbols |-> 0],
                   [s \in Symbols |-> IF s = CHOOSE x \in Symbols : TRUE THEN 2 ELSE 0]}
=============================================================================
