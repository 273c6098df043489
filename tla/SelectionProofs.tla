-------------------------- MODULE SelectionProofs --------------------------
(***************************************************************************)
(* Proofs about Selection, for every finite universe, all bars and any     *)
(* capital.                                                                *)
(*                                                                         *)
(* Sums over finite sets have no laws in the library, and the fold they    *)
(* are defined by is recursive: the first part proves the laws that sizing *)
(* needs, each from a smallest set that breaks it.                         *)
(***************************************************************************)
EXTENDS Selection, FiniteSetTheorems, FunctionTheorems, WellFoundedInduction, TLAPS

-----------------------------------------------------------------------------
(***************************************************************************)
(* Sums over finite sets                                                   *)
(***************************************************************************)

\* A set of finite sets has one that contains no other: what an induction over
\* finite sets needs.
LEMMA SmallestSet ==
    ASSUME NEW S, IsFiniteSet(S), NEW B \in SUBSET (SUBSET S), B # {}
    PROVE  \E T \in B : \A U \in SUBSET T : U \in B => U = T
<1>1. IsWellFoundedOn(StrictSubsetOrdering(S), SUBSET S)
  BY FS_StrictSubsetOrderingWellFounded, FS_FiniteSubsetsOfFinite
<1>2. PICK T \in B : \A U \in B : ~(<<U, T>> \in StrictSubsetOrdering(S))
  BY <1>1, WFMin
<1>3. ASSUME NEW U \in SUBSET T, U \in B, U # T PROVE FALSE
  <2>1. <<U, T>> \in StrictSubsetOrdering(S)
    BY <1>3 DEF StrictSubsetOrdering
  <2> QED BY <1>2, <1>3, <2>1
<1> QED BY <1>3

Pick(s) == CHOOSE x \in s : TRUE

\* it adds up F over every subset of S, one element after the other.
AddsUp(it, F, S) ==
    it = [s \in SUBSET S |-> IF s = {} THEN 0 ELSE F[Pick(s)] + it[s \ {Pick(s)}]]

Adder(F, S) == CHOOSE it : AddsUp(it, F, S)
Total(F, S) == Adder(F, S)[S]

\* Total is the sum of the library.
LEMMA TotalIsSum == ASSUME NEW F PROVE SumFunction(F) = Total(F, DOMAIN F)
BY DEF Total, Adder, AddsUp, Pick, SumFunction, SumFunctionOnSet, FoldFunctionOnSet, MapThenFoldSet

\* Pick takes an element of the set it is given.
LEMMA PickIn == ASSUME NEW S, S # {} PROVE Pick(S) \in S
BY DEF Pick

\* Two that add up agree where both do.
LEMMA AddersAgree ==
    ASSUME NEW F, NEW S, NEW T, NEW i, NEW j, AddsUp(i, F, S), AddsUp(j, F, T),
           NEW s \in SUBSET (S \cap T), IsFiniteSet(s)
    PROVE  i[s] = j[s]
<1> DEFINE B == {u \in SUBSET s : i[u] # j[u]}
<1>0. /\ \A u \in SUBSET S : i[u] = IF u = {} THEN 0 ELSE F[Pick(u)] + i[u \ {Pick(u)}]
      /\ \A u \in SUBSET T : j[u] = IF u = {} THEN 0 ELSE F[Pick(u)] + j[u \ {Pick(u)}]
  BY DEF AddsUp
<1> SUFFICES ASSUME B # {} PROVE FALSE
  OBVIOUS
<1>b. B \in SUBSET (SUBSET s) /\ B # {}
  OBVIOUS
<1>1. PICK u \in B : \A v \in SUBSET u : v \in B => v = u
  <2> HIDE DEF B
  <2> QED BY <1>b, SmallestSet
<1>2. u \in SUBSET S /\ u \in SUBSET T
  OBVIOUS
<1>3. CASE u = {}
  BY <1>0, <1>2, <1>3
<1>4. CASE u # {}
  <2>1. Pick(u) \in u
    BY <1>4, PickIn
  <2>2. u \ {Pick(u)} \in SUBSET u /\ u \ {Pick(u)} # u
    BY <2>1
  <2>3. i[u \ {Pick(u)}] = j[u \ {Pick(u)}]
    BY <1>1, <2>2
  <2> QED BY <1>0, <1>2, <1>4, <2>3
<1> QED BY <1>3, <1>4

\* There is one.
LEMMA AdderExists ==
    ASSUME NEW F, NEW S, IsFiniteSet(S)
    PROVE  AddsUp(Adder(F, S), F, S)
<1> DEFINE B == {T \in SUBSET S : ~AddsUp(Adder(F, T), F, T)}
<1> SUFFICES ASSUME B # {} PROVE FALSE
  OBVIOUS
<1>b. B \in SUBSET (SUBSET S) /\ B # {}
  OBVIOUS
<1>1. PICK T \in B : \A U \in SUBSET T : U \in B => U = T
  <2> HIDE DEF B
  <2> QED BY <1>b, SmallestSet
<1>2. ASSUME NEW U \in SUBSET T, U # T PROVE AddsUp(Adder(F, U), F, U) /\ IsFiniteSet(U)
  BY <1>1, <1>2, FS_Subset
<1> DEFINE new == [s \in SUBSET T |->
                     IF s = {} THEN 0 ELSE F[Pick(s)] + Total(F, s \ {Pick(s)})]
<1>3. ASSUME NEW U \in SUBSET T, U # T
      PROVE  new[U] = Total(F, U)
  <2>1. Total(F, U) = IF U = {} THEN 0
                      ELSE F[Pick(U)] + Adder(F, U)[U \ {Pick(U)}]
    BY <1>2, <1>3 DEF AddsUp, Total
  <2>2. CASE U = {}
    BY <2>1, <2>2
  <2>3. CASE U # {}
    <3>1. Pick(U) \in U
      BY <2>3, PickIn
    <3> DEFINE V == U \ {Pick(U)}
    <3>2. V \in SUBSET T /\ V # T /\ V \in SUBSET (U \cap V)
      BY <3>1
    <3>3. AddsUp(Adder(F, V), F, V) /\ IsFiniteSet(V) /\ AddsUp(Adder(F, U), F, U)
      BY <1>2, <1>3, <3>2
    <3>4. Adder(F, U)[V] = Adder(F, V)[V]
      BY <3>2, <3>3, AddersAgree
    <3>5. new[U] = F[Pick(U)] + Total(F, V)
      BY <2>3
    <3> QED BY <2>1, <2>3, <3>4, <3>5 DEF Total
  <2> QED BY <2>2, <2>3
<1>4. ASSUME NEW s \in SUBSET T, s # {}
      PROVE  Total(F, s \ {Pick(s)}) = new[s \ {Pick(s)}]
  <2>1. s \ {Pick(s)} \in SUBSET T /\ s \ {Pick(s)} # T
    BY <1>4, PickIn
  <2> HIDE DEF new
  <2> QED BY <1>3, <2>1
<1>5. AddsUp(new, F, T)
  BY <1>4 DEF AddsUp
<1> HIDE DEF new
<1>6. AddsUp(Adder(F, T), F, T)
  BY <1>5 DEF Adder
<1> QED BY <1>6

\* The sum over nothing is zero.
LEMMA TotalOfNone == ASSUME NEW F PROVE Total(F, {}) = 0
<1>1. AddsUp(Adder(F, {}), F, {})
  BY FS_EmptySet, AdderExists
<1>2. {} \in SUBSET {}
  OBVIOUS
<1> QED BY <1>1, <1>2 DEF AddsUp, Total

\* A sum may be begun with the element Pick takes.
LEMMA TotalPick ==
    ASSUME NEW F, NEW S, IsFiniteSet(S), S # {}
    PROVE  Total(F, S) = F[Pick(S)] + Total(F, S \ {Pick(S)})
<1> DEFINE T == S \ {Pick(S)}
<1>1. T \in SUBSET S /\ T \in SUBSET (S \cap T) /\ IsFiniteSet(T)
  BY FS_RemoveElement
<1>2. AddsUp(Adder(F, S), F, S) /\ AddsUp(Adder(F, T), F, T)
  BY <1>1, AdderExists
<1>3. Adder(F, S)[T] = Adder(F, T)[T]
  BY <1>1, <1>2, AddersAgree
<1>4. Adder(F, S)[S] = F[Pick(S)] + Adder(F, S)[T]
  BY <1>2 DEF AddsUp
<1> QED BY <1>3, <1>4 DEF Total

\* Sums of numbers are numbers.
LEMMA TotalType ==
    ASSUME NEW S, IsFiniteSet(S), NEW F, \A x \in S : F[x] \in Nat
    PROVE  Total(F, S) \in Nat
<1> DEFINE B == {T \in SUBSET S : Total(F, T) \notin Nat}
<1> SUFFICES ASSUME B # {} PROVE FALSE
  OBVIOUS
<1>b. B \in SUBSET (SUBSET S) /\ B # {}
  OBVIOUS
<1>1. PICK T \in B : \A U \in SUBSET T : U \in B => U = T
  <2> HIDE DEF B
  <2> QED BY <1>b, SmallestSet
<1>2. CASE T = {}
  BY <1>2, TotalOfNone
<1>3. CASE T # {}
  <2>1. Pick(T) \in T /\ IsFiniteSet(T)
    BY <1>3, PickIn, FS_Subset
  <2>2. T \ {Pick(T)} \in SUBSET T /\ T \ {Pick(T)} # T
    BY <2>1
  <2>3. Total(F, T \ {Pick(T)}) \in Nat
    BY <1>1, <2>2
  <2>4. F[Pick(T)] \in Nat
    BY <2>1
  <2> QED BY <1>3, <2>1, <2>3, <2>4, TotalPick
<1> QED BY <1>2, <1>3

\* It does not matter which element comes first.
LEMMA TotalAny ==
    ASSUME NEW S, IsFiniteSet(S), NEW F, \A x \in S : F[x] \in Nat, NEW y \in S
    PROVE  Total(F, S) = F[y] + Total(F, S \ {y})
<1> DEFINE Fails(T) == \E z \in T : Total(F, T) # F[z] + Total(F, T \ {z})
           B == {T \in SUBSET S : Fails(T)}
<1> SUFFICES ASSUME B # {} PROVE FALSE
  OBVIOUS
<1>b. B \in SUBSET (SUBSET S) /\ B # {}
  OBVIOUS
<1>1. PICK T \in B : \A U \in SUBSET T : U \in B => U = T
  <2> HIDE DEF B
  <2> QED BY <1>b, SmallestSet
<1>2. PICK z \in T : Total(F, T) # F[z] + Total(F, T \ {z})
  BY <1>1
<1>3. PICK p \in T : p = Pick(T)
  BY PickIn
<1>4. IsFiniteSet(T) /\ T \in SUBSET S
  BY FS_Subset
<1>5. Total(F, T) = F[p] + Total(F, T \ {p})
  BY <1>3, <1>4, TotalPick
<1>6. z # p
  BY <1>2, <1>5
<1>7. /\ T \ {p} \in SUBSET T /\ T \ {p} # T /\ z \in T \ {p}
      /\ T \ {z} \in SUBSET T /\ T \ {z} # T /\ p \in T \ {z}
      /\ (T \ {p}) \ {z} = (T \ {z}) \ {p}
  BY <1>6
<1> DEFINE rest == Total(F, (T \ {p}) \ {z})
<1>u. ASSUME NEW U \in SUBSET T, U # T, NEW v \in U
      PROVE  Total(F, U) = F[v] + Total(F, U \ {v})
  <2>1. U \in SUBSET S /\ U \notin B
    BY <1>1, <1>4, <1>u
  <2>2. ~Fails(U)
    BY <2>1
  <2> QED BY <2>2
<1>8. Total(F, T \ {p}) = F[z] + rest
  BY <1>7, <1>u
<1>9. Total(F, T \ {z}) = F[p] + rest
  BY <1>7, <1>u
<1>10. rest \in Nat /\ F[p] \in Nat /\ F[z] \in Nat
  <2>1. IsFiniteSet((T \ {p}) \ {z})
    BY <1>4, FS_RemoveElement
  <2>2. \A x \in (T \ {p}) \ {z} : F[x] \in Nat
    BY <1>4
  <2> QED BY <1>4, <2>1, <2>2, TotalType
<1> HIDE DEF rest
<1> QED BY <1>2, <1>5, <1>8, <1>9, <1>10

\* Sums over an index set and over its image compare as their terms do.
LEMMA TotalsCompare ==
    ASSUME NEW D, IsFiniteSet(D), NEW F, NEW G, NEW h, NEW c \in Nat, NEW k \in Nat,
           \A x \in D : F[x] \in Nat /\ G[h[x]] \in Nat /\ F[x] * c <= k * G[h[x]],
           \A x, y \in D : h[x] = h[y] => x = y
    PROVE  Total(F, D) * c <= k * Total(G, {h[x] : x \in D})
<1> DEFINE Image(T) == {h[x] : x \in T}
           B == {T \in SUBSET D : ~(Total(F, T) * c <= k * Total(G, Image(T)))}
<1> SUFFICES ASSUME B # {} PROVE FALSE
  OBVIOUS
<1>b. B \in SUBSET (SUBSET D) /\ B # {}
  OBVIOUS
<1>1. PICK T \in B : \A U \in SUBSET T : U \in B => U = T
  <2> HIDE DEF B
  <2> QED BY <1>b, SmallestSet
<1>2. T # {}
  <2> SUFFICES ASSUME T = {} PROVE FALSE
    OBVIOUS
  <2>1. Image(T) = {}
    OBVIOUS
  <2>2. Total(F, T) = 0 /\ Total(G, Image(T)) = 0
    BY <2>1, TotalOfNone
  <2> QED BY <2>2
<1>3. PICK p \in T : p = Pick(T)
  BY <1>2, PickIn
<1> DEFINE U == T \ {p}
<1>4. U \in SUBSET T /\ U # T /\ IsFiniteSet(T) /\ IsFiniteSet(U) /\ p \in D
  BY FS_Subset
<1>5. Image(T) \ {h[p]} = Image(U) /\ h[p] \in Image(T)
  OBVIOUS
<1>i. ASSUME NEW V \in SUBSET T PROVE IsFiniteSet(Image(V))
  <2>1. [x \in V |-> h[x]] \in Surjection(V, Image(V))
    BY Fun_IsSurj
  <2> QED BY <1>4, <2>1, FS_Subset, FS_Surjection
<1>6. IsFiniteSet(Image(T)) /\ IsFiniteSet(Image(U))
  BY <1>4, <1>i
<1>7. Total(F, U) * c <= k * Total(G, Image(U))
  BY <1>1, <1>4
<1>8. Total(F, T) = F[p] + Total(F, U)
  BY <1>2, <1>3, <1>4, TotalPick
<1>9. Total(G, Image(T)) = G[h[p]] + Total(G, Image(U))
  <2>1. \A y \in Image(T) : G[y] \in Nat
    OBVIOUS
  <2>2. Total(G, Image(T)) = G[h[p]] + Total(G, Image(T) \ {h[p]})
    BY <1>5, <1>6, <2>1, TotalAny
  <2> QED BY <1>5, <2>2
<1>10. Total(F, U) \in Nat /\ Total(G, Image(U)) \in Nat
  <2>1. \A y \in Image(U) : G[y] \in Nat
    OBVIOUS
  <2>2. \A x \in U : F[x] \in Nat
    OBVIOUS
  <2> HIDE DEF U, Image
  <2> QED BY <1>4, <1>6, <2>1, <2>2, TotalType
<1>11. F[p] \in Nat /\ G[h[p]] \in Nat /\ F[p] * c <= k * G[h[p]]
  BY <1>4
<1>12. ASSUME NEW a \in Nat, NEW b \in Nat, NEW e \in Nat, NEW f \in Nat,
              a * c <= k * e, b * c <= k * f
       PROVE  (a + b) * c <= k * (e + f)
  <2>1. (a + b) * c = a * c + b * c /\ k * (e + f) = k * e + k * f
    OBVIOUS
  <2> QED BY <1>12, <2>1
<1>13. Total(F, T) * c <= k * Total(G, Image(T))
  <2> HIDE DEF U, Image
  <2> QED BY <1>7, <1>8, <1>9, <1>10, <1>11, <1>12
<1> QED BY <1>1, <1>13

-----------------------------------------------------------------------------
(***************************************************************************)
(* Ranking                                                                 *)
(***************************************************************************)

MarketOK == market \in Markets /\ panel \subseteq universe /\ universe \subseteq Symbols

\* The numbers a bar carries are what the constants allow.
LEMMA BarFacts ==
    ASSUME MarketOK, NEW s \in Symbols
    PROVE  /\ market[s].atr \in Nat /\ market[s].close \in Nat \ {0}
           /\ Raw(s) \in Nat \ {0}
<1>1. market[s] \in Bars /\ market[s].atr \in Nat /\ market[s].close \in Nat \ {0}
  BY BarsAssumption DEF MarketOK, Markets
<1>2. PICK m \in Nat \ {0} : m = Max({market[s].atr, 1})
  <2>1. \E x \in {market[s].atr, 1} : \A y \in {market[s].atr, 1} : x >= y
    BY <1>1
  <2>2. /\ Max({market[s].atr, 1}) \in {market[s].atr, 1}
        /\ \A y \in {market[s].atr, 1} : Max({market[s].atr, 1}) >= y
    BY <2>1 DEF Max
  <2> QED BY <1>1, <2>2
<1>3. AtrBase % m = 0 /\ AtrBase \in Nat \ {0}
  BY <1>1, <1>2, AtrAssumption
<1>4. AtrBase \div m \in Nat \ {0}
  BY <1>2, <1>3
<1> QED BY <1>1, <1>2, <1>4 DEF Raw

\* A ranking lists the eligible names, each once, the better metric first.
LEMMA RankingFacts ==
    ASSUME MarketOK, NEW q \in Rankings
    PROVE  /\ IsFiniteSet(Eligible) /\ Eligible \subseteq Symbols
           /\ Len(q) = Cardinality(Eligible) /\ Len(q) \in Nat
           /\ q \in [1..Len(q) -> Eligible]
           /\ \A i, j \in 1..Len(q) : q[i] = q[j] => i = j
           /\ \A s \in Eligible : \E i \in 1..Len(q) : q[i] = s
           /\ \A i, j \in 1..Len(q) : i < j => market[q[i]].metric >= market[q[j]].metric
<1>1. Eligible \subseteq Symbols
  BY DEF Eligible, StaticEligible, RefRows, MarketOK
<1>2. IsFiniteSet(Eligible) /\ Cardinality(Eligible) \in Nat
  BY <1>1, SymbolsAssumption, FS_Subset, FS_CardinalityType
<1> DEFINE n == Cardinality(Eligible)
<1>3. q \in [1..n -> Eligible] /\ \A i, j \in 1..n : i # j => q[i] # q[j]
  BY DEF Rankings, SetToSeqs
<1>4. Len(q) = n
  BY <1>2, <1>3
<1>5. q \in Injection(1..n, Eligible)
  BY <1>3, Fun_IsInj
<1>6. IsFiniteSet(1..n) /\ Cardinality(1..n) = n
  BY <1>2, FS_Interval
<1>7. q \in Surjection(1..n, Eligible)
  BY <1>2, <1>5, <1>6, FS_Injection
<1>8. \A s \in Eligible : \E i \in 1..n : q[i] = s
  BY <1>7 DEF Surjection
<1>9. \A i, j \in 1..Len(q) : i < j => market[q[i]].metric >= market[q[j]].metric
  BY DEF Rankings
<1> QED BY <1>1, <1>2, <1>3, <1>4, <1>8, <1>9

\* What Min returns of two numbers: the cap on a position.
LEMMA LeastOfTwo ==
    ASSUME NEW a \in Nat, NEW b \in Nat
    PROVE  Min({a, b}) = IF a <= b THEN a ELSE b
<1>1. \E x \in {a, b} : \A y \in {a, b} : x <= y
  OBVIOUS
<1>2. Min({a, b}) \in {a, b} /\ \A y \in {a, b} : Min({a, b}) <= y
  BY <1>1 DEF Min
<1> QED BY <1>2

\* The chosen names are the head of the ranking.
LEMMA ChosenFacts ==
    ASSUME MarketOK, NEW q \in Rankings
    PROVE  /\ Len(Chosen(q)) = IF Len(q) < MinPositions THEN 0 ELSE Min({Len(q), MaxPositions})
           /\ Len(Chosen(q)) \in Nat /\ Len(Chosen(q)) <= MaxPositions
           /\ Len(Chosen(q)) <= Len(q)
           /\ DOMAIN Chosen(q) = 1..Len(Chosen(q))
           /\ \A i \in 1..Len(Chosen(q)) : Chosen(q)[i] = q[i]
<1>0. MaxPositions \in Nat \ {0} /\ MinPositions \in Nat
  BY PositionsAssumption
<1>1. Len(q) \in Nat /\ q \in Seq(Eligible)
  BY RankingFacts
<1>2. CASE Len(q) < MinPositions
  <2>1. Chosen(q) = <<>>
    BY <1>2 DEF Chosen
  <2> QED BY <1>0, <1>1, <1>2, <2>1
<1>3. CASE ~(Len(q) < MinPositions)
  <2>1. PICK m \in Nat : m = Min({Len(q), MaxPositions})
    BY <1>0, <1>1, LeastOfTwo
  <2>2. m <= Len(q) /\ m <= MaxPositions
    BY <1>0, <1>1, <2>1, LeastOfTwo
  <2>3. Chosen(q) = SubSeq(q, 1, m)
    BY <1>3, <2>1 DEF Chosen
  <2>4. /\ Len(SubSeq(q, 1, m)) = m /\ DOMAIN SubSeq(q, 1, m) = 1..m
        /\ \A i \in 1..m : SubSeq(q, 1, m)[i] = q[i]
    BY <1>1, <2>2
  <2> QED BY <1>3, <2>1, <2>2, <2>3, <2>4
<1> QED BY <1>2, <1>3

-----------------------------------------------------------------------------
(***************************************************************************)
(* Sizing                                                                  *)
(***************************************************************************)

RawOf(S) == [s \in S |-> Raw(s)]

\* The sum of the weights, as a sum the laws above speak of.
LEMMA RawSumIsTotal == ASSUME NEW S PROVE RawSum(S) = Total(RawOf(S), S)
BY TotalIsSum DEF RawSum, RawOf

\* The weights of some names add up to a positive number.
LEMMA RawSumPositive ==
    ASSUME MarketOK, NEW S \in SUBSET Symbols, S # {}
    PROVE  RawSum(S) \in Nat \ {0}
<1>1. IsFiniteSet(S)
  BY SymbolsAssumption, FS_Subset
<1>2. PICK s \in S : TRUE
  OBVIOUS
<1>3. \A t \in S : RawOf(S)[t] \in Nat
  BY BarFacts DEF RawOf
<1>4. Total(RawOf(S), S) = RawOf(S)[s] + Total(RawOf(S), S \ {s})
  BY <1>1, <1>3, TotalAny
<1>5. RawOf(S)[s] \in Nat \ {0}
  BY BarFacts DEF RawOf
<1>6. Total(RawOf(S), S \ {s}) \in Nat
  <2>1. IsFiniteSet(S \ {s})
    BY <1>1, FS_RemoveElement
  <2>2. \A t \in S \ {s} : RawOf(S)[t] \in Nat
    BY <1>3
  <2> QED BY <2>1, <2>2, TotalType
<1> QED BY <1>1, <1>4, <1>5, <1>6, RawSumIsTotal

\* What rounding down to whole shares gives away.
LEMMA FloorFacts ==
    ASSUME NEW a \in Nat, NEW b \in Nat \ {0}
    PROVE  a \div b \in Nat /\ (a \div b) * b <= a /\ a < (a \div b + 1) * b
OBVIOUS

\* A quantity is the quotient of two numbers, the second of them positive.
LEMMA QtyQuotient ==
    ASSUME MarketOK, NEW S \in SUBSET Symbols, NEW s \in S
    PROVE  \E a \in Nat, b \in Nat \ {0} :
              /\ a = Raw(s) * Capital * (10000 - CostBps)
              /\ b = RawSum(S) * 10000 * market[s].close
              /\ TargetQty(s, S) = a \div b
<1>r. PICK r \in Nat \ {0} : r = RawSum(S)
  BY RawSumPositive
<1>w. PICK w \in Nat \ {0} : w = Raw(s)
  BY BarFacts
<1>c. PICK c \in Nat \ {0} : c = market[s].close
  BY BarFacts
<1>k. PICK k \in Nat : k = Capital
  BY CapitalAssumption
<1>n. PICK n \in Nat : n = 10000 - CostBps
  BY CapitalAssumption
<1>2. PICK a \in Nat, b \in Nat \ {0} : a = w * k * n /\ b = r * 10000 * c
  <2>1. r * 10000 \in Nat \ {0} /\ w * k \in Nat
    OBVIOUS
  <2>2. r * 10000 * c \in Nat \ {0} /\ w * k * n \in Nat
    BY <2>1
  <2> QED BY <2>2
<1>3. TargetQty(s, S) = a \div b
  BY <1>r, <1>w, <1>c, <1>k, <1>n, <1>2 DEF TargetQty
<1> QED BY <1>r, <1>w, <1>c, <1>k, <1>n, <1>2, <1>3

\* A position is a whole number of shares, none or more.
LEMMA QtyType ==
    ASSUME MarketOK, NEW S \in SUBSET Symbols, NEW s \in S
    PROVE  TargetQty(s, S) \in Nat
<1>1. PICK a \in Nat, b \in Nat \ {0} :
         /\ a = Raw(s) * Capital * (10000 - CostBps)
         /\ b = RawSum(S) * 10000 * market[s].close
         /\ TargetQty(s, S) = a \div b
  BY QtyQuotient
<1>2. TargetQty(s, S) = a \div b
  BY <1>1
<1> QED BY <1>2, FloorFacts

\* A position costs no more than its part of the capital, and a share more would.
LEMMA QtyFacts ==
    ASSUME MarketOK, NEW S \in SUBSET Symbols, NEW s \in S
    PROVE  /\ TargetQty(s, S) * market[s].close * (10000 * RawSum(S))
                 <= Capital * (10000 - CostBps) * Raw(s)
           /\ (TargetQty(s, S) + 1) * market[s].close * 10000 * RawSum(S)
                 > Raw(s) * Capital * (10000 - CostBps)
<1>1. PICK r \in Nat, w \in Nat, c \in Nat, k \in Nat, n \in Nat :
         r = RawSum(S) /\ w = Raw(s) /\ c = market[s].close /\ k = Capital /\ n = 10000 - CostBps
  <2>1. RawSum(S) \in Nat
    BY RawSumPositive
  <2>2. Raw(s) \in Nat /\ market[s].close \in Nat
    BY BarFacts
  <2>3. Capital \in Nat /\ 10000 - CostBps \in Nat
    BY CapitalAssumption
  <2> QED BY <2>1, <2>2, <2>3
<1>2. PICK a \in Nat, b \in Nat \ {0} :
         a = w * k * n /\ b = r * 10000 * c /\ TargetQty(s, S) = a \div b
  BY <1>1, QtyQuotient
<1>3. PICK t \in Nat : t = TargetQty(s, S) /\ t * b <= a /\ a < (t + 1) * b
  BY <1>2, FloorFacts
<1>4. t * (r * 10000 * c) <= w * k * n /\ w * k * n < (t + 1) * (r * 10000 * c)
  BY <1>2, <1>3
<1>5. t * (r * 10000 * c) = t * c * (10000 * r) /\ w * k * n = k * n * w
  OBVIOUS
<1>6. (t + 1) * (r * 10000 * c) = (t + 1) * c * 10000 * r
  OBVIOUS
<1> QED BY <1>1, <1>3, <1>4, <1>5, <1>6

-----------------------------------------------------------------------------
(***************************************************************************)
(* The signals of a session                                                *)
(***************************************************************************)

\* The rows persisted for a ranking: one for each chosen name.
LEMMA RowsFacts ==
    ASSUME MarketOK, day \in 1..MaxDay, NEW q \in Rankings,
           NEW S, S = ToSet(Chosen(q))
    PROVE  /\ S \in SUBSET Symbols /\ IsFiniteSet(Rows(Chosen(q)))
           /\ Rows(Chosen(q)) \in SUBSET Signal
           /\ S = {x.sym : x \in Rows(Chosen(q))}
           /\ \A x \in Rows(Chosen(q)) : /\ x.day = day /\ x.sym \in S
                                         /\ x.qty = TargetQty(x.sym, S)
           /\ \A x, y \in Rows(Chosen(q)) : x.sym = y.sym => x = y
<1> DEFINE c == Chosen(q)
           m == Len(c)
           row == [i \in 1..m |-> [day |-> day, sym |-> c[i], rank |-> i,
                                   qty |-> TargetQty(c[i], S)]]
<1>1. /\ m \in Nat /\ m <= MaxPositions /\ m <= Len(q) /\ DOMAIN c = 1..m
      /\ \A i \in 1..m : c[i] = q[i]
  BY ChosenFacts
<1>2. /\ Len(q) \in Nat /\ Eligible \subseteq Symbols
      /\ \A i \in 1..Len(q) : q[i] \in Eligible
      /\ \A i, j \in 1..Len(q) : q[i] = q[j] => i = j
  BY RankingFacts
<1> HIDE DEF c
<1>3. \A i \in 1..m : i \in 1..Len(q) /\ c[i] \in Symbols
  BY <1>1, <1>2
<1>4. \A i, j \in 1..m : c[i] = c[j] => i = j
  BY <1>1, <1>2, <1>3
<1>5. S = {c[i] : i \in 1..m}
  BY <1>1 DEF ToSet, c
<1>6. S \in SUBSET Symbols /\ \A i \in 1..m : c[i] \in S
  BY <1>3, <1>5
<1>7. Rows(c) = {row[i] : i \in 1..m}
  BY DEF Rows, c
<1>8. \A i \in 1..m : /\ row[i].sym = c[i] /\ row[i].day = day
                      /\ row[i].qty = TargetQty(c[i], S)
  OBVIOUS
<1>9. ASSUME NEW i \in 1..m PROVE row[i] \in Signal
  <2>1. TargetQty(c[i], S) \in Nat
    BY <1>6, QtyType
  <2>2. c[i] \in Symbols /\ i \in 1..MaxPositions
    BY <1>1, <1>3, PositionsAssumption
  <2> QED BY <2>1, <2>2 DEF Signal
<1>10. IsFiniteSet(Rows(c))
  <2>1. IsFiniteSet(1..m)
    BY <1>1, FS_Interval
  <2>2. row \in Surjection(1..m, Rows(c))
    BY <1>7, Fun_IsSurj
  <2> QED BY <2>1, <2>2, FS_Surjection
<1> HIDE DEF row, m
<1>11. Rows(c) \in SUBSET Signal
  BY <1>7, <1>9
<1>12. S = {x.sym : x \in Rows(c)}
  <2>1. ASSUME NEW s \in S PROVE s \in {x.sym : x \in Rows(c)}
    <3>1. PICK i \in 1..m : s = row[i].sym
      BY <1>5, <1>8
    <3> QED BY <1>7, <3>1
  <2>2. ASSUME NEW x \in Rows(c) PROVE x.sym \in S
    <3>1. PICK i \in 1..m : x = row[i]
      BY <1>7
    <3> QED BY <1>6, <1>8, <3>1
  <2> QED BY <2>1, <2>2
<1>13. \A x \in Rows(c) : x.day = day /\ x.sym \in S /\ x.qty = TargetQty(x.sym, S)
  BY <1>6, <1>7, <1>8
<1>14. \A x, y \in Rows(c) : x.sym = y.sym => x = y
  BY <1>4, <1>7, <1>8
<1> QED BY <1>6, <1>10, <1>11, <1>12, <1>13, <1>14 DEF c

\* Persisting replaces the signals of the day, and nothing else.
LEMMA PersistFacts ==
    ASSUME TypeOK, Persist
    PROVE  /\ MarketOK /\ day \in 1..MaxDay
           /\ UNCHANGED <<day, crashes, universe, market, early, panel, volumes,
                          completed, held>>
           /\ phase' = "persisted"
           /\ \E q \in Rankings :
                /\ Today' = Rows(Chosen(q))
                /\ signals' = (signals \ Today) \cup Rows(Chosen(q))
                /\ erased' = (erased \cup {x.sym : x \in Today}) \ {x.sym : x \in signals'}
<1>1. MarketOK /\ day \in 1..MaxDay
  BY DEF TypeOK, MarketOK
<1>2. /\ UNCHANGED <<day, crashes, universe, market, early, panel, volumes, completed, held>>
      /\ phase' = "persisted"
  BY DEF Persist
<1>3. PICK q \in Rankings :
        /\ signals' = (signals \ Today) \cup Rows(Chosen(q))
        /\ erased' = (erased \cup {x.sym : x \in Today}) \ {x.sym : x \in signals'}
  BY DEF Persist
<1>4. \A x \in Rows(Chosen(q)) : x.day = day
  BY <1>1, RowsFacts
<1>5. Today' = Rows(Chosen(q))
  BY <1>2, <1>3, <1>4 DEF Today
<1> QED BY <1>1, <1>2, <1>3, <1>5


\* The locals of a run are empty until the run has fetched them.
TypeInv ==
    /\ TypeOK
    /\ phase \in {"idle", "bars"} => panel = {}
    /\ phase \in {"idle", "bars", "volumes"} => volumes = {}

\* Types survive every step: a position's quantity is a number because the
\* weights of the chosen names add up to a positive one.
LEMMA TypeStep == TypeInv /\ [Next]_vars => TypeInv'
<1> SUFFICES ASSUME TypeInv, [Next]_vars PROVE TypeInv'
  OBVIOUS
<1>0. MaxDay \in Nat \ {0} /\ MaxCrash \in Nat
  BY BoundAssumption
<1>1. CASE Start
  BY <1>1 DEF Start, TypeInv, TypeOK
<1>2. CASE FetchBars
  <2>1. PICK lost \in SUBSET universe :
            /\ panel' = universe \ lost
            /\ phase' = IF panel' = {} THEN "idle" ELSE "volumes"
    BY <1>2 DEF FetchBars
  <2>2. volumes' = {}
    BY <1>2 DEF FetchBars, TypeInv
  <2>3. phase' \in {"idle", "volumes"} /\ (phase' = "idle" => panel' = {}) /\ panel' \subseteq universe
    BY <2>1
  <2>4. UNCHANGED <<day, crashes, universe, market, early, completed, signals, held, erased>>
    BY <1>2 DEF FetchBars
  <2> QED BY <2>2, <2>3, <2>4 DEF TypeInv, TypeOK
<1>3. CASE FetchVolumes
  <2>1. volumes' \subseteq StaticEligible
    BY <1>3 DEF FetchVolumes
  <2>2. StaticEligible \subseteq panel
    BY DEF StaticEligible, RefRows
  <2> QED BY <1>3, <2>1, <2>2 DEF FetchVolumes, TypeInv, TypeOK
<1>4. CASE Persist
  <2>1. /\ UNCHANGED <<day, crashes, universe, market, early, panel, volumes, completed, held>>
        /\ phase' = "persisted"
    BY <1>4, PersistFacts DEF TypeInv
  <2>2. PICK q \in Rankings :
           /\ signals' = (signals \ Today) \cup Rows(Chosen(q))
           /\ erased' = (erased \cup {x.sym : x \in Today}) \ {x.sym : x \in signals'}
    BY <1>4, PersistFacts DEF TypeInv
  <2>3. Rows(Chosen(q)) \in SUBSET Signal
    BY <1>4, PersistFacts, RowsFacts DEF TypeInv
  <2>4. signals' \subseteq Signal
    BY <2>2, <2>3 DEF TypeInv, TypeOK
  <2>5. erased' \subseteq Symbols
    <3>1. Today \subseteq Signal
      BY DEF Today, TypeInv, TypeOK
    <3>2. {x.sym : x \in Today} \subseteq Symbols
      BY <3>1 DEF Signal
    <3> QED BY <2>2, <3>2 DEF TypeInv, TypeOK
  <2> QED BY <2>1, <2>4, <2>5 DEF TypeInv, TypeOK
<1>5. CASE Settle
  <2>1. Wanted \subseteq Symbols
    BY DEF Wanted, Today, TypeInv, TypeOK, Signal
  <2>2. held' \subseteq Symbols
    BY <1>5, <2>1 DEF Settle, TypeInv, TypeOK
  <2> QED BY <1>5, <2>2 DEF Settle, TypeInv, TypeOK
<1>6. CASE Complete
  BY <1>6 DEF Complete, Quit, TypeInv, TypeOK
<1>7. CASE Crash
  <2>1. /\ crashes < MaxCrash /\ crashes' = crashes + 1
        /\ phase' = "idle" /\ early' = FALSE /\ panel' = {} /\ volumes' = {}
        /\ UNCHANGED <<day, universe, market, completed, signals, held, erased>>
    BY <1>7 DEF Crash, Quit
  <2>2. crashes' \in 0..MaxCrash
    BY <1>0, <2>1 DEF TypeInv, TypeOK
  <2>3. early' \in BOOLEAN
    BY <2>1
  <2> QED BY <2>1, <2>2, <2>3 DEF TypeInv, TypeOK
<1>8. CASE NextDay
  <2>1. /\ day < MaxDay /\ day' = day + 1 /\ phase = "idle"
        /\ completed' = FALSE /\ universe' \in SUBSET Symbols /\ market' \in Markets
        /\ UNCHANGED <<crashes, early, phase, panel, volumes, signals, held, erased>>
    BY <1>8 DEF NextDay
  <2>2. day' \in 1..MaxDay
    BY <1>0, <2>1 DEF TypeInv, TypeOK
  <2>3. completed' \in BOOLEAN
    BY <2>1
  <2> QED BY <2>1, <2>2, <2>3 DEF TypeInv, TypeOK
<1>9. CASE UNCHANGED vars
  BY <1>9 DEF vars, TypeInv, TypeOK
<1> QED BY <1>1, <1>2, <1>3, <1>4, <1>5, <1>6, <1>7, <1>8, <1>9 DEF Next

\* The types hold in every reachable state.
LEMMA SpecTypes == Spec => []TypeInv
<1>1. ASSUME Init PROVE TypeInv
  <2>1. /\ day = 1 /\ crashes = 0 /\ universe = Symbols /\ market \in Markets
        /\ early = FALSE /\ phase = "idle" /\ panel = {} /\ volumes = {}
        /\ completed = FALSE /\ signals = {} /\ held = {} /\ erased = {}
    BY <1>1 DEF Init
  <2>2. day \in 1..MaxDay /\ crashes \in 0..MaxCrash
    BY <2>1, BoundAssumption
  <2>3. early \in BOOLEAN /\ completed \in BOOLEAN
    BY <2>1
  <2> QED BY <2>1, <2>2, <2>3 DEF TypeInv, TypeOK
<1> QED BY <1>1, TypeStep, PTL DEF Spec

\* Tables and locals have their types; in particular every position is sized by
\* a whole number of shares, so no weight is divided by nothing
\* (signals.py:223-245).
THEOREM SelectionTypeOK == Spec => []TypeOK
<1>1. TypeInv => TypeOK
  BY DEF TypeInv
<1> QED BY <1>1, SpecTypes, PTL

-----------------------------------------------------------------------------

\* Only Persist leads to signals that are persisted and not yet settled.
LEMMA OnlyPersist ==
    ASSUME [Next]_vars, phase' = "persisted"
    PROVE  Persist \/ (phase = "persisted"
                         /\ UNCHANGED <<universe, market, panel, volumes, signals, day>>)
<1>1. CASE Start \/ FetchBars \/ FetchVolumes
  <2>1. phase' # "persisted"
    BY <1>1 DEF Start, FetchBars, FetchVolumes
  <2> QED BY <2>1
<1>2. CASE Settle \/ Complete \/ Crash
  <2>1. phase' # "persisted"
    BY <1>2 DEF Settle, Complete, Crash, Quit
  <2> QED BY <2>1
<1>3. CASE NextDay
  <2>1. phase' # "persisted"
    BY <1>3 DEF NextDay
  <2> QED BY <2>1
<1>4. CASE UNCHANGED vars
  BY <1>4 DEF vars
<1> QED BY <1>1, <1>2, <1>3, <1>4 DEF Next

\* The names chosen from a ranking are the best of those that were fetched.
LEMMA ChosenAreBest ==
    ASSUME MarketOK, NEW q \in Rankings, NEW S, S = ToSet(Chosen(q))
    PROVE  /\ panel = universe /\ StaticEligible = volumes => IsBest(S, universe)
           /\ \A s \in S : Qualifies(panel, s)
           /\ \A s \in S, t \in volumes \ S :
                 Qualifies(panel, t) => market[s].metric >= market[t].metric
<1> DEFINE m == Len(Chosen(q))
           n == Len(q)
<1>0. MaxPositions \in Nat \ {0} /\ MinPositions \in Nat
  BY PositionsAssumption
<1>1. /\ m = IF n < MinPositions THEN 0 ELSE Min({n, MaxPositions})
      /\ m \in Nat /\ m <= n
      /\ DOMAIN Chosen(q) = 1..m /\ \A i \in 1..m : Chosen(q)[i] = q[i]
  BY ChosenFacts
<1>2. /\ n = Cardinality(Eligible) /\ n \in Nat
      /\ q \in [1..n -> Eligible]
      /\ \A i, j \in 1..n : q[i] = q[j] => i = j
      /\ \A s \in Eligible : \E i \in 1..n : q[i] = s
      /\ \A i, j \in 1..n : i < j => market[q[i]].metric >= market[q[j]].metric
  BY RankingFacts
<1>3. S = {q[i] : i \in 1..m}
  BY <1>1 DEF ToSet
<1> HIDE DEF m, n
<1>4. \A i \in 1..m : i \in 1..n
  BY <1>1, <1>2
<1>5. S \subseteq Eligible
  BY <1>2, <1>3, <1>4
<1>6. ASSUME NEW s \in S, NEW t \in Eligible \ S
      PROVE  market[s].metric >= market[t].metric
  <2>1. PICK i \in 1..m : s = q[i]
    BY <1>3
  <2>2. PICK j \in 1..n : t = q[j]
    BY <1>2
  <2>3. ~(j <= m)
    BY <1>3, <2>2
  <2>4. i < j /\ i \in 1..n
    BY <1>1, <1>2, <1>4, <2>3
  <2> QED BY <1>2, <2>1, <2>2, <2>4
<1>7. ASSUME NEW t \in Symbols
      PROVE  t \in Eligible <=> Qualifies(panel, t) /\ t \in volumes
  BY DEF Eligible, StaticEligible, RefRows, VolumeOk, Qualifies
<1>8. Eligible \subseteq Symbols
  BY RankingFacts
<1>9. \A s \in S : Qualifies(panel, s)
  BY <1>5, <1>7, <1>8
<1>10. \A s \in S, t \in volumes \ S :
          Qualifies(panel, t) => market[s].metric >= market[t].metric
  <2>1. ASSUME NEW t \in volumes, Qualifies(panel, t) PROVE t \in Eligible
    BY <1>7, <2>1 DEF Qualifies, MarketOK
  <2> QED BY <1>6, <2>1
<1>11. Cardinality(S) = m
  <2>1. IsFiniteSet(1..m) /\ Cardinality(1..m) = m
    BY <1>1, FS_Interval
  <2> DEFINE f == [i \in 1..m |-> q[i]]
  <2>2. f \in Injection(1..m, S)
    BY <1>2, <1>3, <1>4, Fun_IsInj
  <2>3. f \in Surjection(1..m, S)
    BY <1>3, Fun_IsSurj
  <2> HIDE DEF f
  <2> QED BY <2>1, <2>2, <2>3, FS_Surjection
<1>12. ASSUME panel = universe, StaticEligible = volumes
       PROVE  IsBest(S, universe)
  <2>1. {s \in universe : Qualifies(universe, s)} = Eligible
    <3>1. ASSUME NEW s \in universe, Qualifies(universe, s) PROVE s \in volumes
      BY <1>12, <3>1 DEF Qualifies, StaticEligible, RefRows
    <3>2. Eligible \subseteq universe
      BY <1>7, <1>8 DEF Qualifies, MarketOK
    <3> QED BY <1>7, <1>8, <1>12, <3>1, <3>2 DEF MarketOK
  <2>2. Cardinality(S) = IF Cardinality(Eligible) < MinPositions THEN 0
                         ELSE Min({Cardinality(Eligible), MaxPositions})
    BY <1>1, <1>2, <1>11
  <2> QED BY <1>5, <1>6, <2>1, <2>2 DEF IsBest
<1> QED BY <1>9, <1>10, <1>12

\* Only persisting writes signals, and it writes the best.
LEMMA SelectsStep == TypeInv /\ SelectsTheBest /\ [Next]_vars => SelectsTheBest'
<1> SUFFICES ASSUME TypeInv, SelectsTheBest, [Next]_vars, phase' = "persisted"
             PROVE  SelectsTheBest'
  BY DEF SelectsTheBest
<1>1. CASE Persist
  <2>1. MarketOK /\ day \in 1..MaxDay /\ UNCHANGED <<universe, market, panel, volumes>>
    BY <1>1, PersistFacts DEF TypeInv
  <2>2. PICK q \in Rankings : Today' = Rows(Chosen(q))
    BY <1>1, PersistFacts DEF TypeInv
  <2> DEFINE S == ToSet(Chosen(q))
  <2>3. {x.sym : x \in Today'} = S
    BY <2>1, <2>2, RowsFacts
  <2>4. /\ panel = universe /\ StaticEligible = volumes => IsBest(S, universe)
        /\ \A s \in S : Qualifies(panel, s)
        /\ \A s \in S, t \in volumes \ S :
              Qualifies(panel, t) => market[s].metric >= market[t].metric
    BY <2>1, ChosenAreBest
  <2> HIDE DEF S
  <2>5. /\ StaticEligible' = StaticEligible
        /\ \A s : Qualifies(panel, s)' <=> Qualifies(panel, s)
        /\ IsBest(S, universe)' <=> IsBest(S, universe)
    BY <2>1 DEF StaticEligible, RefRows, Qualifies, IsBest
  <2> QED BY <2>1, <2>3, <2>4, <2>5 DEF SelectsTheBest
<1>2. CASE phase = "persisted" /\ UNCHANGED <<universe, market, panel, volumes, signals, day>>
  BY <1>2 DEF SelectsTheBest, Today, StaticEligible, RefRows, Qualifies, IsBest
<1> QED BY <1>1, <1>2, OnlyPersist

CostOf(D) == [x \in D |-> x.qty * market[x.sym].close]

\* What a set of targets costs, as a sum the laws above speak of.
LEMMA OutlayIsTotal == ASSUME NEW D PROVE Outlay(D) = Total(CostOf(D), D)
BY TotalIsSum DEF Outlay, CostOf

\* Rows of distinct names, each sized as a part of them all.
Positions(D, S) ==
    /\ IsFiniteSet(D) /\ S \in SUBSET Symbols
    /\ S = {x.sym : x \in D}
    /\ \A x \in D : x.sym \in S /\ x.qty = TargetQty(x.sym, S)
    /\ \A x, y \in D : x.sym = y.sym => x = y

\* One position, in the terms of the sums.
LEMMA OnePosition ==
    ASSUME MarketOK, NEW D, NEW S, Positions(D, S), NEW x \in D,
           NEW k \in Nat, k = Capital * (10000 - CostBps),
           NEW r \in Nat, r = RawSum(S)
    PROVE  /\ CostOf(D)[x] \in Nat /\ RawOf(S)[x.sym] \in Nat
           /\ CostOf(D)[x] * (10000 * r) <= k * RawOf(S)[x.sym]
<1>1. PICK s \in S : s = x.sym
  BY DEF Positions
<1>2. S \in SUBSET Symbols /\ s \in Symbols /\ x.qty = TargetQty(s, S)
  BY <1>1 DEF Positions
<1>3. PICK t \in Nat : t = TargetQty(s, S)
  BY <1>2, QtyType
<1>4. PICK c \in Nat, w \in Nat : c = market[s].close /\ w = Raw(s)
  BY <1>2, BarFacts
<1>5. t * c * (10000 * r) <= k * w
  BY <1>2, <1>3, <1>4, QtyFacts
<1>6. CostOf(D)[x] = t * c /\ RawOf(S)[x.sym] = w
  BY <1>1, <1>2, <1>3, <1>4 DEF CostOf, RawOf
<1>7. t * c \in Nat
  OBVIOUS
<1> QED BY <1>4, <1>5, <1>6, <1>7

\* The positions together cost no more than the capital less the costs.
LEMMA SizedTogether ==
    ASSUME MarketOK, NEW D, NEW S, Positions(D, S)
    PROVE  Outlay(D) * 10000 <= Capital * (10000 - CostBps)
<1>k. PICK k \in Nat : k = Capital * (10000 - CostBps)
  <2>1. Capital \in Nat /\ 10000 - CostBps \in Nat
    BY CapitalAssumption
  <2> QED BY <2>1
<1>f. IsFiniteSet(D) /\ S \in SUBSET Symbols /\ IsFiniteSet(S)
  BY SymbolsAssumption, FS_Subset DEF Positions
<1>2. CASE D = {}
  <2>1. Outlay(D) = 0
    BY <1>2, OutlayIsTotal, TotalOfNone
  <2> QED BY <1>k, <2>1
<1>3. CASE D # {}
  <2>1. S # {}
    BY <1>3 DEF Positions
  <2>2. PICK r \in Nat \ {0} : r = RawSum(S)
    BY <1>f, <2>1, RawSumPositive
  <2> DEFINE h == [x \in D |-> x.sym]
             F == CostOf(D)
             G == RawOf(S)
  <2>3. \A x \in D : F[x] \in Nat /\ G[h[x]] \in Nat /\ F[x] * (10000 * r) <= k * G[h[x]]
    BY <1>k, <2>2, OnePosition
  <2>4. (\A x, y \in D : h[x] = h[y] => x = y) /\ {h[x] : x \in D} = S
    BY DEF Positions
  <2>5. Outlay(D) = Total(F, D) /\ Total(G, S) = r
    BY <2>2, OutlayIsTotal, RawSumIsTotal
  <2>6. PICK b \in Nat : b = 10000 * r
    OBVIOUS
  <2> HIDE DEF h, F, G
  <2>7. \A x \in D : F[x] \in Nat /\ G[h[x]] \in Nat /\ F[x] * b <= k * G[h[x]]
    BY <2>3, <2>6
  <2>8. Total(F, D) * b <= k * Total(G, {h[x] : x \in D})
    BY <1>f, <2>4, <2>7, TotalsCompare
  <2>t. \A x \in D : F[x] \in Nat
    BY <2>3
  <2>9. Total(F, D) \in Nat
    BY <1>f, <2>t, TotalType
  <2>10. PICK c \in Nat : c = Outlay(D) /\ c * b <= k * r
    BY <2>4, <2>5, <2>8, <2>9
  <2>11. c * 10000 <= k
    <3>1. PICK e \in Nat : e = c * 10000
      OBVIOUS
    <3>2. e * r <= k * r
      BY <2>6, <2>10, <3>1
    <3>3. e <= k
      BY <3>2
    <3> QED BY <3>1, <3>3
  <2> QED BY <1>k, <2>10, <2>11
<1> QED BY <1>2, <1>3

\* What the property says of some rows.
Sized(D, S) ==
    /\ Outlay(D) * 10000 <= Capital * (10000 - CostBps)
    /\ \A x \in D :
          (x.qty + 1) * market[x.sym].close * 10000 * RawSum(S)
             > Raw(x.sym) * Capital * (10000 - CostBps)

\* The targets of a run, as sized, fit in its capital.
LEMMA PositionsAreSized ==
    ASSUME MarketOK, NEW D, NEW S, Positions(D, S)
    PROVE  Sized(D, S)
<1>1. ASSUME NEW x \in D
      PROVE  (x.qty + 1) * market[x.sym].close * 10000 * RawSum(S)
                > Raw(x.sym) * Capital * (10000 - CostBps)
  <2>1. PICK s \in S : s = x.sym
    BY DEF Positions
  <2>2. S \in SUBSET Symbols /\ x.qty = TargetQty(s, S)
    BY <2>1 DEF Positions
  <2>3. (TargetQty(s, S) + 1) * market[s].close * 10000 * RawSum(S)
           > Raw(s) * Capital * (10000 - CostBps)
    BY <2>2, QtyFacts
  <2> QED BY <2>1, <2>2, <2>3
<1> QED BY <1>1, SizedTogether DEF Sized

\* It depends on the market alone.
LEMMA SizedStays ==
    ASSUME market' = market, NEW D, NEW S
    PROVE  Sized(D, S)' <=> Sized(D, S)
<1>1. Outlay(D)' = Outlay(D)
  BY DEF Outlay
<1>2. \A s : Raw(s)' = Raw(s)
  BY DEF Raw
<1>3. RawSum(S)' = RawSum(S)
  BY <1>2 DEF RawSum
<1> QED BY <1>1, <1>2, <1>3 DEF Sized

\* Only persisting writes targets, and it writes them as sized.
LEMMA SizedStep == TypeInv /\ SizedToCapital /\ [Next]_vars => SizedToCapital'
<1> SUFFICES ASSUME TypeInv, SizedToCapital, [Next]_vars, phase' = "persisted"
             PROVE  SizedToCapital'
  BY DEF SizedToCapital
<1>1. \A D, S : market' = market /\ Sized(D, S) => Sized(D, S)'
  BY SizedStays
<1>2. CASE Persist
  <2>1. MarketOK /\ day \in 1..MaxDay /\ market' = market
    BY <1>2, PersistFacts DEF TypeInv
  <2>2. PICK q \in Rankings : Today' = Rows(Chosen(q))
    BY <1>2, PersistFacts DEF TypeInv
  <2>3. PICK D : D = Today'
    OBVIOUS
  <2>4. PICK S : S = ToSet(Chosen(q))
    OBVIOUS
  <2>5. Positions(D, S)
    BY <2>1, <2>2, <2>3, <2>4, RowsFacts DEF Positions
  <2>6. Sized(D, S)'
    BY <1>1, <2>1, <2>5, PositionsAreSized
  <2>7. S = {x.sym : x \in D}
    BY <2>5 DEF Positions
  <2> QED BY <2>3, <2>6, <2>7 DEF SizedToCapital, Sized
<1>3. CASE phase = "persisted" /\ UNCHANGED <<universe, market, panel, volumes, signals, day>>
  <2>1. PICK D : D = Today
    OBVIOUS
  <2>2. PICK S : S = {x.sym : x \in D}
    OBVIOUS
  <2>3. Sized(D, S)
    BY <1>3, <2>1, <2>2 DEF SizedToCapital, Sized
  <2>4. Sized(D, S)' /\ Today' = D
    BY <1>1, <1>3, <2>1, <2>3 DEF Today
  <2> QED BY <2>2, <2>4 DEF SizedToCapital, Sized
<1> QED BY <1>2, <1>3, OnlyPersist

\* When the signals of a session are persisted, they are the strongest of the
\* names that pass every filter (jobs.py:467-523, signals.py:193-261), whatever
\* fetches failed and however often the session was begun.
THEOREM SelectionSelectsTheBest == Spec => []SelectsTheBest
<1>1. Init => SelectsTheBest
  BY DEF Init, SelectsTheBest
<1> QED BY <1>1, SelectsStep, SpecTypes, PTL DEF Spec

\* Whatever the capital, the prices and the ATRs, the positions of a session fit
\* in the capital less the transaction costs, and none could be a whole share
\* larger within its part (signals.py:235-245).
THEOREM SelectionSizedToCapital == Spec => []SizedToCapital
<1>1. Init => SizedToCapital
  BY DEF Init, SizedToCapital
<1> QED BY <1>1, SizedStep, SpecTypes, PTL DEF Spec

-----------------------------------------------------------------------------
(***************************************************************************)
(* The security ids of held names                                          *)
(***************************************************************************)

\* A held name has had a signal, and a row of some session names it still.
HeldHasSignal == \A s \in held \ erased : \E x \in signals : x.sym = s

\* A held name keeps a signal, or a re-run has erased it.
LEMMA HeldStep == TypeInv /\ HeldHasSignal /\ [Next]_vars => HeldHasSignal'
<1> SUFFICES ASSUME TypeInv, HeldHasSignal, [Next]_vars PROVE HeldHasSignal'
  OBVIOUS
<1>1. CASE Persist
  <2>1. held' = held
    BY <1>1 DEF Persist
  <2>2. PICK q \in Rankings :
           /\ signals' = (signals \ Today) \cup Rows(Chosen(q))
           /\ erased' = (erased \cup {x.sym : x \in Today}) \ {x.sym : x \in signals'}
    BY <1>1 DEF Persist
  <2>3. ASSUME NEW s \in held' \ erased' PROVE \E x \in signals' : x.sym = s
    <3>1. CASE s \in {x.sym : x \in signals'}
      BY <3>1
    <3>2. CASE s \notin {x.sym : x \in signals'}
      <4>1. s \notin erased /\ s \notin {x.sym : x \in Today}
        BY <2>2, <2>3, <3>2
      <4>2. PICK x \in signals : x.sym = s
        BY <2>1, <2>3, <4>1 DEF HeldHasSignal
      <4>3. x \in signals'
        BY <2>2, <4>1, <4>2
      <4> QED BY <4>2, <4>3
    <3> QED BY <3>1, <3>2
  <2> QED BY <2>3 DEF HeldHasSignal
<1>2. CASE Settle
  <2>1. held' \subseteq held \cup Wanted /\ signals' = signals /\ erased' = erased
    BY <1>2 DEF Settle
  <2>2. \A s \in Wanted : \E x \in signals : x.sym = s
    BY DEF Wanted, Today
  <2> QED BY <2>1, <2>2 DEF HeldHasSignal
<1>3. CASE Start \/ FetchBars \/ FetchVolumes
  BY <1>3 DEF Start, FetchBars, FetchVolumes, HeldHasSignal
<1>4. CASE Complete \/ Crash \/ NextDay \/ UNCHANGED vars
  BY <1>4 DEF Complete, Crash, NextDay, vars, HeldHasSignal
<1> QED BY <1>1, <1>2, <1>3, <1>4 DEF Next

\* Whatever universe comes next, a held name can be priced and sold: a signal of
\* some session still resolves it, unless a re-run deleted the only one it had
\* (jobs.py:738-785).
THEOREM HeldNamesResolve == Spec => []HeldResolves
<1>1. Init => HeldHasSignal
  BY DEF Init, HeldHasSignal
<1>2. HeldHasSignal => HeldResolves
  BY DEF HeldHasSignal, HeldResolves, Resolves
<1> QED BY <1>1, <1>2, HeldStep, SpecTypes, PTL DEF Spec
=============================================================================
