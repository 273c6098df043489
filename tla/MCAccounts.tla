----------------------------- MODULE MCAccounts -----------------------------
\* Accounts on small instances: nothing tells the symbols apart.
EXTENDS Accounts, TLC

Symmetry == Permutations(Symbols)

\* Quantities are 1 or 2: each of three fills halves once.
MCGrain == [n \in 0..3 |-> 2 ^ n]
=============================================================================
