---------------------------- MODULE MCSelection ----------------------------
(* Bars that qualify strongly, weakly and with a high ATR, and bars that    *)
(* one filter each rejects although their metric is the best.               *)
EXTENDS Selection

CONSTANTS s1, s2, s3

Bar(last, trend, atr, metric, close, volume) ==
    [last |-> last, trend |-> trend, atr |-> atr, metric |-> metric,
     close |-> close, volume |-> volume]

MCBars == {Bar(2, TRUE, 0, 2, 7, 2), Bar(2, TRUE, 3, 1, 4, 2), Bar(2, TRUE, 2, 3, 4, 1),
           Bar(1, TRUE, 2, 3, 7, 2), Bar(2, FALSE, 0, 3, 7, 2)}

Symmetry == Permutations(Symbols)
=============================================================================
