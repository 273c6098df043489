------------------------ MODULE MCUniverseRefresh ------------------------
(* A small instance: two shares and a third that is no equity.  On day 2   *)
(* the second has no volume, on day 3 only a zip is published and the      *)
(* first traded little.                                                    *)
EXTENDS UniverseRefresh

MCVolume == << [a |-> 3, b |-> 6, c |-> -1],
               [a |-> 3, b |-> -2, c |-> 9],
               [a |-> 1, b |-> 0, c |-> -1] >>
=============================================================================
