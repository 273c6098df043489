--------------------------- MODULE AccountsProofs ---------------------------
(***************************************************************************)
(* Proofs about Accounts, for every set of symbols, fees, bounds and       *)
(* prices that averages leave whole.                                       *)
(*                                                                         *)
(* Replays are recursive functions of the fills.  What they compute is not *)
(* proved by induction over the sequence but along the behaviour: a fill   *)
(* appends one, and a replay of the longer sequence is one of the shorter  *)
(* with a step more (EngineAppends, AlikeAppends).                         *)
(***************************************************************************)
EXTENDS Accounts, FiniteSetTheorems, FunctionTheorems, SequenceTheorems,
        WellFoundedInduction, TLAPS

-----------------------------------------------------------------------------
(***************************************************************************)
(* Sums over finite sets                                                   *)
(***************************************************************************)

\* A set of finite sets has one that contains no other: what an induction over
\* finite sets needs.
LEMMA SmallestSet ==
    ASSUME NEW S, IsFiniteSet(S), NEW B \in SUBSET (SUBSET S), B # {}
    PROVE  \E T \in B : \A U \in SUBSET T : U \in B => U = T
<1>1. IsWellFoundedOn(StrictSubsetOrdering(S), SUBSET S)
  BY FS_StrictSubsetOrderingWellFounded, FS_FiniteSubsetsOfFinite
<1>2. PICK T \in B : \A U \in B : ~(<<U, T>> \in StrictSubsetOrdering(S))
  BY <1>1, WFMin
<1>3. ASSUME NEW U \in SUBSET T, U \in B, U # T PROVE FALSE
  <2>1. <<U, T>> \in StrictSubsetOrdering(S)
    BY <1>3 DEF StrictSubsetOrdering
  <2> QED BY <1>2, <1>3, <2>1
<1> QED BY <1>3

Pick(s) == CHOOSE x \in s : TRUE

\* it adds up F over every subset of S, one element after the other.
AddsUp(it, F, S) ==
    it = [s \in SUBSET S |-> IF s = {} THEN 0 ELSE F[Pick(s)] + it[s \ {Pick(s)}]]

Adder(F, S) == CHOOSE it : AddsUp(it, F, S)
Total(F, S) == Adder(F, S)[S]

\* Total is the sum of the library.
LEMMA TotalIsSum == ASSUME NEW F PROVE SumFunction(F) = Total(F, DOMAIN F)
BY DEF Total, Adder, AddsUp, Pick, SumFunction, SumFunctionOnSet, FoldFunctionOnSet, MapThenFoldSet

\* Pick takes an element of the set it is given.
LEMMA PickIn == ASSUME NEW S, S # {} PROVE Pick(S) \in S
BY DEF Pick

\* Two that add up agree where both do.
LEMMA AddersAgree ==
    ASSUME NEW F, NEW S, NEW T, NEW i, NEW j, AddsUp(i, F, S), AddsUp(j, F, T),
           NEW s \in SUBSET (S \cap T), IsFiniteSet(s)
    PROVE  i[s] = j[s]
<1> DEFINE B == {u \in SUBSET s : i[u] # j[u]}
<1>0. /\ \A u \in SUBSET S : i[u] = IF u = {} THEN 0 ELSE F[Pick(u)] + i[u \ {Pick(u)}]
      /\ \A u \in SUBSET T : j[u] = IF u = {} THEN 0 ELSE F[Pick(u)] + j[u \ {Pick(u)}]
  BY DEF AddsUp
<1> SUFFICES ASSUME B # {} PROVE FALSE
  OBVIOUS
<1>b. B \in SUBSET (SUBSET s) /\ B # {}
  OBVIOUS
<1>1. PICK u \in B : \A v \in SUBSET u : v \in B => v = u
  <2> HIDE DEF B
  <2> QED BY <1>b, SmallestSet
<1>2. u \in SUBSET S /\ u \in SUBSET T
  OBVIOUS
<1>3. CASE u = {}
  BY <1>0, <1>2, <1>3
<1>4. CASE u # {}
  <2>1. Pick(u) \in u
    BY <1>4, PickIn
  <2>2. u \ {Pick(u)} \in SUBSET u /\ u \ {Pick(u)} # u
    BY <2>1
  <2>3. i[u \ {Pick(u)}] = j[u \ {Pick(u)}]
    BY <1>1, <2>2
  <2> QED BY <1>0, <1>2, <1>4, <2>3
<1> QED BY <1>3, <1>4

\* There is one.
LEMMA AdderExists ==
    ASSUME NEW F, NEW S, IsFiniteSet(S)
    PROVE  AddsUp(Adder(F, S), F, S)
<1> DEFINE B == {T \in SUBSET S : ~AddsUp(Adder(F, T), F, T)}
<1> SUFFICES ASSUME B # {} PROVE FALSE
  OBVIOUS
<1>b. B \in SUBSET (SUBSET S) /\ B # {}
  OBVIOUS
<1>1. PICK T \in B : \A U \in SUBSET T : U \in B => U = T
  <2> HIDE DEF B
  <2> QED BY <1>b, SmallestSet
<1>2. ASSUME NEW U \in SUBSET T, U # T PROVE AddsUp(Adder(F, U), F, U) /\ IsFiniteSet(U)
  BY <1>1, <1>2, FS_Subset
<1> DEFINE new == [s \in SUBSET T |->
                     IF s = {} THEN 0 ELSE F[Pick(s)] + Total(F, s \ {Pick(s)})]
<1>3. ASSUME NEW U \in SUBSET T, U # T
      PROVE  new[U] = Total(F, U)
  <2>1. Total(F, U) = IF U = {} THEN 0
                      ELSE F[Pick(U)] + Adder(F, U)[U \ {Pick(U)}]
    BY <1>2, <1>3 DEF AddsUp, Total
  <2>2. CASE U = {}
    BY <2>1, <2>2
  <2>3. CASE U # {}
    <3>1. Pick(U) \in U
      BY <2>3, PickIn
    <3> DEFINE V == U \ {Pick(U)}
    <3>2. V \in SUBSET T /\ V # T /\ V \in SUBSET (U \cap V)
      BY <3>1
    <3>3. AddsUp(Adder(F, V), F, V) /\ IsFiniteSet(V) /\ AddsUp(Adder(F, U), F, U)
      BY <1>2, <1>3, <3>2
    <3>4. Adder(F, U)[V] = Adder(F, V)[V]
      BY <3>2, <3>3, AddersAgree
    <3>5. new[U] = F[Pick(U)] + Total(F, V)
      BY <2>3
    <3> QED BY <2>1, <2>3, <3>4, <3>5 DEF Total
  <2> QED BY <2>2, <2>3
<1>4. ASSUME NEW s \in SUBSET T, s # {}
      PROVE  Total(F, s \ {Pick(s)}) = new[s \ {Pick(s)}]
  <2>1. s \ {Pick(s)} \in SUBSET T /\ s \ {Pick(s)} # T
    BY <1>4, PickIn
  <2> HIDE DEF new
  <2> QED BY <1>3, <2>1
<1>5. AddsUp(new, F, T)
  BY <1>4 DEF AddsUp
<1> HIDE DEF new
<1>6. AddsUp(Adder(F, T), F, T)
  BY <1>5 DEF Adder
<1> QED BY <1>6

\* The sum over nothing is zero.
LEMMA TotalOfNone == ASSUME NEW F PROVE Total(F, {}) = 0
<1>1. AddsUp(Adder(F, {}), F, {})
  BY FS_EmptySet, AdderExists
<1>2. {} \in SUBSET {}
  OBVIOUS
<1> QED BY <1>1, <1>2 DEF AddsUp, Total

\* A sum may be begun with the element Pick takes.
LEMMA TotalPick ==
    ASSUME NEW F, NEW S, IsFiniteSet(S), S # {}
    PROVE  Total(F, S) = F[Pick(S)] + Total(F, S \ {Pick(S)})
<1> DEFINE T == S \ {Pick(S)}
<1>1. T \in SUBSET S /\ T \in SUBSET (S \cap T) /\ IsFiniteSet(T)
  BY FS_RemoveElement
<1>2. AddsUp(Adder(F, S), F, S) /\ AddsUp(Adder(F, T), F, T)
  BY <1>1, AdderExists
<1>3. Adder(F, S)[T] = Adder(F, T)[T]
  BY <1>1, <1>2, AddersAgree
<1>4. Adder(F, S)[S] = F[Pick(S)] + Adder(F, S)[T]
  BY <1>2 DEF AddsUp
<1> QED BY <1>3, <1>4 DEF Total
\* Sums of integers are integers.
LEMMA TotalInt ==
    ASSUME NEW S, IsFiniteSet(S), NEW F, \A x \in S : F[x] \in Int
    PROVE  Total(F, S) \in Int
<1> DEFINE B == {T \in SUBSET S : Total(F, T) \notin Int}
<1> SUFFICES ASSUME B # {} PROVE FALSE
  OBVIOUS
<1>b. B \in SUBSET (SUBSET S) /\ B # {}
  OBVIOUS
<1>1. PICK T \in B : \A U \in SUBSET T : U \in B => U = T
  <2> HIDE DEF B
  <2> QED BY <1>b, SmallestSet
<1>2. CASE T = {}
  BY <1>2, TotalOfNone
<1>3. CASE T # {}
  <2>1. Pick(T) \in T /\ IsFiniteSet(T)
    BY <1>3, PickIn, FS_Subset
  <2>2. T \ {Pick(T)} \in SUBSET T /\ T \ {Pick(T)} # T
    BY <2>1
  <2>3. Total(F, T \ {Pick(T)}) \in Int
    BY <1>1, <2>2
  <2>4. F[Pick(T)] \in Int
    BY <2>1
  <2> QED BY <1>3, <2>1, <2>3, <2>4, TotalPick
<1> QED BY <1>2, <1>3

\* It does not matter which element comes first.
LEMMA TotalAny ==
    ASSUME NEW S, IsFiniteSet(S), NEW F, \A x \in S : F[x] \in Int, NEW y \in S
    PROVE  Total(F, S) = F[y] + Total(F, S \ {y})
<1> DEFINE Fails(T) == \E z \in T : Total(F, T) # F[z] + Total(F, T \ {z})
           B == {T \in SUBSET S : Fails(T)}
<1> SUFFICES ASSUME B # {} PROVE FALSE
  OBVIOUS
<1>b. B \in SUBSET (SUBSET S) /\ B # {}
  OBVIOUS
<1>1. PICK T \in B : \A U \in SUBSET T : U \in B => U = T
  <2> HIDE DEF B
  <2> QED BY <1>b, SmallestSet
<1>2. PICK z \in T : Total(F, T) # F[z] + Total(F, T \ {z})
  BY <1>1
<1>3. PICK p \in T : p = Pick(T)
  BY PickIn
<1>4. IsFiniteSet(T) /\ T \in SUBSET S
  BY FS_Subset
<1>5. Total(F, T) = F[p] + Total(F, T \ {p})
  BY <1>3, <1>4, TotalPick
<1>6. z # p
  BY <1>2, <1>5
<1>7. /\ T \ {p} \in SUBSET T /\ T \ {p} # T /\ z \in T \ {p}
      /\ T \ {z} \in SUBSET T /\ T \ {z} # T /\ p \in T \ {z}
      /\ (T \ {p}) \ {z} = (T \ {z}) \ {p}
  BY <1>6
<1> DEFINE rest == Total(F, (T \ {p}) \ {z})
<1>u. ASSUME NEW U \in SUBSET T, U # T, NEW v \in U
      PROVE  Total(F, U) = F[v] + Total(F, U \ {v})
  <2>1. U \in SUBSET S /\ U \notin B
    BY <1>1, <1>4, <1>u
  <2>2. ~Fails(U)
    BY <2>1
  <2> QED BY <2>2
<1>8. Total(F, T \ {p}) = F[z] + rest
  BY <1>7, <1>u
<1>9. Total(F, T \ {z}) = F[p] + rest
  BY <1>7, <1>u
<1>10. rest \in Int /\ F[p] \in Int /\ F[z] \in Int
  <2>1. IsFiniteSet((T \ {p}) \ {z})
    BY <1>4, FS_RemoveElement
  <2>2. \A x \in (T \ {p}) \ {z} : F[x] \in Int
    BY <1>4
  <2> QED BY <1>4, <2>1, <2>2, TotalInt
<1> HIDE DEF rest
<1> QED BY <1>2, <1>5, <1>8, <1>9, <1>10
\* Where F and G agree, so do their sums; a sum of sums is the sum of the terms.
LEMMA TotalSplit ==
    ASSUME NEW S, IsFiniteSet(S), NEW F, NEW G, NEW H,
           \A x \in S : F[x] \in Int /\ G[x] \in Int /\ H[x] = F[x] + G[x]
    PROVE  Total(H, S) = Total(F, S) + Total(G, S)
<1> DEFINE B == {T \in SUBSET S : Total(H, T) # Total(F, T) + Total(G, T)}
<1> SUFFICES ASSUME B # {} PROVE FALSE
  OBVIOUS
<1>b. B \in SUBSET (SUBSET S) /\ B # {}
  OBVIOUS
<1>1. PICK T \in B : \A U \in SUBSET T : U \in B => U = T
  <2> HIDE DEF B
  <2> QED BY <1>b, SmallestSet
<1>2. CASE T = {}
  BY <1>2, TotalOfNone
<1>3. CASE T # {}
  <2>1. PICK p \in T : p = Pick(T)
    BY <1>3, PickIn
  <2> DEFINE U == T \ {p}
  <2>2. U \in SUBSET T /\ U # T /\ IsFiniteSet(T) /\ IsFiniteSet(U)
    BY FS_Subset
  <2>3. Total(H, U) = Total(F, U) + Total(G, U)
    BY <1>1, <2>2
  <2>4. /\ Total(H, T) = H[p] + Total(H, U)
        /\ Total(F, T) = F[p] + Total(F, U)
        /\ Total(G, T) = G[p] + Total(G, U)
    BY <1>3, <2>1, <2>2, TotalPick
  <2>5. Total(F, U) \in Int /\ Total(G, U) \in Int
    <3> HIDE DEF U
    <3> QED BY <2>2, TotalInt
  <2>6. F[p] \in Int /\ G[p] \in Int /\ H[p] = F[p] + G[p]
    OBVIOUS
  <2>7. Total(H, T) = Total(F, T) + Total(G, T)
    <3> HIDE DEF U
    <3> QED BY <2>3, <2>4, <2>5, <2>6
  <2> QED BY <1>1, <2>7
<1> QED BY <1>2, <1>3

\* Terms that are zero add nothing.
LEMMA TotalOfZeros ==
    ASSUME NEW S, IsFiniteSet(S), NEW F, \A x \in S : F[x] = 0
    PROVE  Total(F, S) = 0
<1>1. \A x \in S : F[x] \in Int /\ F[x] = F[x] + F[x]
  OBVIOUS
<1>2. PICK t \in Int : t = Total(F, S)
  BY <1>1, TotalInt
<1>3. t = t + t
  BY <1>1, <1>2, TotalSplit
<1>4. t = 0
  BY <1>3
<1> QED BY <1>2, <1>4

\* A sum is that of its terms, however the function is written.
LEMMA TotalSame ==
    ASSUME NEW S, IsFiniteSet(S), NEW F, NEW G,
           \A x \in S : F[x] \in Int /\ G[x] = F[x]
    PROVE  Total(G, S) = Total(F, S)
<1> DEFINE Z == [x \in S |-> 0]
<1>1. Total(G, S) = Total(F, S) + Total(Z, S)
  <2>1. \A x \in S : F[x] \in Int /\ Z[x] \in Int /\ G[x] = F[x] + Z[x]
    OBVIOUS
  <2> HIDE DEF Z
  <2> QED BY <2>1, TotalSplit
<1>2. Total(Z, S) = 0
  <2>1. \A x \in S : Z[x] = 0
    OBVIOUS
  <2> HIDE DEF Z
  <2> QED BY <2>1, TotalOfZeros
<1>3. Total(F, S) \in Int
  BY TotalInt
<1> QED BY <1>1, <1>2, <1>3

\* One term changes: the sum changes by as much.
LEMMA TotalChange ==
    ASSUME NEW S, IsFiniteSet(S), NEW y \in S, NEW F, NEW G,
           \A x \in S : F[x] \in Int /\ G[x] \in Int,
           \A x \in S \ {y} : G[x] = F[x]
    PROVE  Total(G, S) = Total(F, S) + (G[y] - F[y])
<1>1. IsFiniteSet(S \ {y})
  BY FS_RemoveElement
<1>2. Total(G, S \ {y}) = Total(F, S \ {y})
  BY <1>1, TotalSame
<1>3. Total(F, S \ {y}) \in Int
  BY <1>1, TotalInt
<1>4. Total(F, S) = F[y] + Total(F, S \ {y}) /\ Total(G, S) = G[y] + Total(G, S \ {y})
  BY TotalAny
<1> QED BY <1>2, <1>3, <1>4

\* What is zero outside T adds up over T.
LEMMA TotalWithin ==
    ASSUME NEW S, IsFiniteSet(S), NEW T \in SUBSET S, NEW F,
           \A x \in S : F[x] \in Int, \A x \in S \ T : F[x] = 0
    PROVE  Total(F, T) = Total(F, S)
<1> DEFINE B == {U \in SUBSET (S \ T) : Total(F, T \cup U) # Total(F, T)}
<1>1. B = {}
  <2> SUFFICES ASSUME B # {} PROVE FALSE
    OBVIOUS
  <2>b. B \in SUBSET (SUBSET (S \ T)) /\ B # {} /\ IsFiniteSet(S \ T)
    BY FS_Subset
  <2>1. PICK U \in B : \A V \in SUBSET U : V \in B => V = U
    <3> HIDE DEF B
    <3> QED BY <2>b, SmallestSet
  <2>2. PICK u \in U : TRUE
    <3>1. CASE U = {}
      <4>1. T \cup U = T
        BY <3>1
      <4> QED BY <4>1
    <3> QED BY <3>1
  <2> DEFINE V == U \ {u}
  <2>3. V \in SUBSET U /\ V # U /\ V \in SUBSET (S \ T)
    OBVIOUS
  <2>4. Total(F, T \cup V) = Total(F, T)
    BY <2>1, <2>3
  <2>5. T \cup V = (T \cup U) \ {u} /\ T \cup U \in SUBSET S /\ u \in T \cup U /\ u \in S \ T
    OBVIOUS
  <2>6. IsFiniteSet(T \cup U) /\ IsFiniteSet(T)
    BY <2>5, FS_Subset
  <2>7. Total(F, T \cup U) = F[u] + Total(F, (T \cup U) \ {u})
    BY <2>5, <2>6, TotalAny
  <2>8. F[u] = 0 /\ Total(F, T) \in Int
    BY <2>5, <2>6, TotalInt
  <2>9. Total(F, T \cup U) = 0 + Total(F, T)
    BY <2>4, <2>5, <2>7, <2>8
  <2>10. Total(F, T \cup U) = Total(F, T)
    BY <2>8, <2>9
  <2> QED BY <2>10
<1>2. T \cup (S \ T) = S /\ S \ T \in SUBSET (S \ T)
  OBVIOUS
<1>3. Total(F, T \cup (S \ T)) = Total(F, T)
  BY <1>1
<1> QED BY <1>2, <1>3

-----------------------------------------------------------------------------
(***************************************************************************)
(* Replays                                                                 *)
(***************************************************************************)

\* it[n] is what the engine, jt[n] what the pages make of the first n of fs.
EngineRun(it, fs) ==
    it = [n \in 0..Len(fs) |-> IF n = 0 THEN Fresh ELSE EngineStep(it[n - 1], fs[n])]
ViewRun(jt, fs) ==
    jt = [n \in 0..Len(fs) |-> IF n = 0 THEN Fresh ELSE ViewStep(jt[n - 1], fs[n])]

EngineAfter(fs) == CHOOSE it : EngineRun(it, fs)
ViewAfter(fs) == CHOOSE jt : ViewRun(jt, fs)

\* There is such a function for the engine, and at no step of it do the pages
\* take another one.
StepsAlike(fs) ==
    \A n \in 1..Len(fs) :
        ViewStep(EngineAfter(fs)[n - 1], fs[n]) = EngineStep(EngineAfter(fs)[n - 1], fs[n])
Replayable(fs) == EngineRun(EngineAfter(fs), fs) /\ StepsAlike(fs)

\* The replays of the model are their last values.
LEMMA ReplayIsLast ==
    /\ EngineReplay = EngineAfter(fills)[Len(fills)]
    /\ ViewReplay = ViewAfter(fills)[Len(fills)]
BY DEF EngineReplay, ViewReplay, EngineAfter, ViewAfter, EngineRun, ViewRun

\* Of two functions that begin alike and go on alike the last values agree.
LEMMA SameSteps ==
    ASSUME NEW N \in Nat, NEW it, NEW jt, it[0] = jt[0],
           \A n \in 1..N : it[n - 1] = jt[n - 1] => it[n] = jt[n]
    PROVE  it[N] = jt[N]
<1> DEFINE B == {n \in 0..N : it[n] # jt[n]}
<1> SUFFICES ASSUME B # {} PROVE FALSE
  BY DEF B
<1>1. B \in SUBSET Nat /\ B # {}
  OBVIOUS
<1>2. PICK m \in B : \A n \in B : ~(<<n, m>> \in OpToRel(<, Nat))
  <2> HIDE DEF B
  <2> QED BY <1>1, NatLessThanWellFounded, WFMin
<1>3. ASSUME NEW n \in B PROVE ~(n < m)
  BY <1>1, <1>2, <1>3 DEF OpToRel
<1>4. m \in 0..N /\ it[m] # jt[m] /\ m \in 1..N /\ m - 1 \in 0..N
  OBVIOUS
<1>5. m - 1 \notin B
  BY <1>3, <1>4
<1>6. it[m - 1] = jt[m - 1]
  BY <1>4, <1>5
<1> QED BY <1>4, <1>6

\* A fill more is a step more, for the engine's replay.
LEMMA EngineAppends ==
    ASSUME NEW fs \in Seq(Fill), EngineRun(EngineAfter(fs), fs), NEW f \in Fill
    PROVE  LET gs == Append(fs, f) IN
           /\ EngineRun(EngineAfter(gs), gs)
           /\ \A n \in 0..Len(fs) : EngineAfter(gs)[n] = EngineAfter(fs)[n]
           /\ EngineAfter(gs)[Len(gs)] = EngineStep(EngineAfter(fs)[Len(fs)], f)
<1> DEFINE gs == Append(fs, f)
           N == Len(fs)
           it == EngineAfter(fs)
           new == [n \in 0..(N + 1) |-> IF n <= N THEN it[n] ELSE EngineStep(it[N], f)]
<1>1. N \in Nat /\ Len(gs) = N + 1 /\ gs[N + 1] = f /\ \A n \in 1..N : gs[n] = fs[n]
  BY AppendProperties
<1>2. it[0] = Fresh /\ \A n \in 1..N : it[n] = EngineStep(it[n - 1], fs[n])
  <2> HIDE DEF it
  <2> QED BY <1>1 DEF EngineRun
<1> HIDE DEF it, gs, N
<1>3. EngineRun(new, gs)
  <2>1. ASSUME NEW n \in 0..(N + 1)
        PROVE  new[n] = IF n = 0 THEN Fresh ELSE EngineStep(new[n - 1], gs[n])
    <3>1. CASE n = 0
      BY <1>1, <1>2, <3>1
    <3>2. CASE n \in 1..N
      BY <1>1, <1>2, <3>2
    <3>3. CASE n = N + 1
      BY <1>1, <3>3
    <3> QED BY <1>1, <3>1, <3>2, <3>3
  <2> QED BY <1>1, <2>1 DEF EngineRun
<1> HIDE DEF new
<1>4. EngineRun(EngineAfter(gs), gs)
  BY <1>3 DEF EngineAfter
<1> DEFINE jt == EngineAfter(gs)
<1>5. jt[0] = Fresh /\ \A n \in 1..(N + 1) : jt[n] = EngineStep(jt[n - 1], gs[n])
  <2> HIDE DEF jt
  <2> QED BY <1>1, <1>4 DEF EngineRun, jt
<1> HIDE DEF jt
<1>6. ASSUME NEW m \in 0..N PROVE jt[m] = it[m]
  <2>1. \A n \in 1..m : it[n - 1] = jt[n - 1] => it[n] = jt[n]
    BY <1>1, <1>2, <1>5
  <2>2. m \in Nat /\ it[0] = jt[0]
    BY <1>1, <1>2, <1>5
  <2> QED BY <2>1, <2>2, SameSteps
<1>7. jt[N + 1] = EngineStep(it[N], f)
  BY <1>1, <1>5, <1>6
<1> QED BY <1>1, <1>4, <1>6, <1>7 DEF jt, it, gs, N

\* If the pages take the last step as the engine does, they take all alike.
LEMMA AlikeAppends ==
    ASSUME NEW fs \in Seq(Fill), Replayable(fs), NEW f \in Fill,
           ViewStep(EngineAfter(fs)[Len(fs)], f) = EngineStep(EngineAfter(fs)[Len(fs)], f)
    PROVE  Replayable(Append(fs, f))
<1> DEFINE gs == Append(fs, f)
<1>1. /\ Len(fs) \in Nat /\ Len(gs) = Len(fs) + 1
      /\ gs[Len(fs) + 1] = f /\ \A n \in 1..Len(fs) : gs[n] = fs[n]
  BY AppendProperties
<1>2. EngineRun(EngineAfter(gs), gs) /\ \A n \in 0..Len(fs) : EngineAfter(gs)[n] = EngineAfter(fs)[n]
  BY EngineAppends DEF Replayable
<1> HIDE DEF gs
<1>3. ASSUME NEW n \in 1..Len(gs)
      PROVE  ViewStep(EngineAfter(gs)[n - 1], gs[n]) = EngineStep(EngineAfter(gs)[n - 1], gs[n])
  <2>1. CASE n \in 1..Len(fs)
    <3>1. EngineAfter(gs)[n - 1] = EngineAfter(fs)[n - 1] /\ gs[n] = fs[n]
      BY <1>1, <1>2, <2>1
    <3>2. ViewStep(EngineAfter(fs)[n - 1], fs[n]) = EngineStep(EngineAfter(fs)[n - 1], fs[n])
      BY <2>1 DEF Replayable, StepsAlike
    <3> QED BY <3>1, <3>2
  <2>2. CASE n = Len(fs) + 1
    <3>1. EngineAfter(gs)[n - 1] = EngineAfter(fs)[Len(fs)] /\ gs[n] = f
      BY <1>1, <1>2, <2>2
    <3> QED BY <3>1
  <2> QED BY <1>1, <2>1, <2>2
<1> QED BY <1>2, <1>3 DEF Replayable, StepsAlike, gs

\* Then the pages come to what the engine comes to.
LEMMA ViewIsEngine ==
    ASSUME NEW fs \in Seq(Fill), Replayable(fs)
    PROVE  ViewAfter(fs)[Len(fs)] = EngineAfter(fs)[Len(fs)]
<1> DEFINE it == EngineAfter(fs)
           jt == ViewAfter(fs)
<1>1. it = [n \in 0..Len(fs) |-> IF n = 0 THEN Fresh ELSE EngineStep(it[n - 1], fs[n])]
  BY DEF Replayable, EngineRun
<1>2. \A n \in 1..Len(fs) : ViewStep(it[n - 1], fs[n]) = EngineStep(it[n - 1], fs[n])
  BY DEF Replayable, StepsAlike
<1>l. Len(fs) \in Nat
  OBVIOUS
<1> HIDE DEF it
<1>3. ViewRun(it, fs)
  <2>1. \A n \in 0..Len(fs) :
           (IF n = 0 THEN Fresh ELSE EngineStep(it[n - 1], fs[n]))
             = (IF n = 0 THEN Fresh ELSE ViewStep(it[n - 1], fs[n]))
    BY <1>2, <1>l
  <2> QED BY <1>1, <2>1 DEF ViewRun
<1>4. ViewRun(jt, fs)
  BY <1>3 DEF ViewAfter
<1> HIDE DEF jt
<1>v. ASSUME NEW kt, ViewRun(kt, fs)
      PROVE  kt[0] = Fresh /\ \A n \in 1..Len(fs) : kt[n] = ViewStep(kt[n - 1], fs[n])
  BY <1>v, <1>l DEF ViewRun
<1>5. /\ jt[0] = Fresh /\ \A n \in 1..Len(fs) : jt[n] = ViewStep(jt[n - 1], fs[n])
      /\ it[0] = Fresh /\ \A n \in 1..Len(fs) : it[n] = ViewStep(it[n - 1], fs[n])
  BY <1>3, <1>4, <1>v
<1>6. jt[Len(fs)] = it[Len(fs)]
  <2>1. \A n \in 1..Len(fs) : jt[n - 1] = it[n - 1] => jt[n] = it[n]
    BY <1>5
  <2> QED BY <1>5, <1>l, <2>1, SameSteps
<1> QED BY <1>6 DEF it, jt

\* Nothing is filled yet.
LEMMA NothingToReplay ==
    /\ Replayable(<<>>)
    /\ EngineAfter(<<>>)[0] = Fresh
<1> DEFINE it == [n \in 0..0 |-> Fresh]
<1>1. EngineRun(it, <<>>)
  BY DEF EngineRun
<1>2. EngineRun(EngineAfter(<<>>), <<>>)
  BY <1>1 DEF EngineAfter
<1> QED BY <1>2 DEF Replayable, StepsAlike, EngineRun

-----------------------------------------------------------------------------
(***************************************************************************)
(* Whole averages                                                          *)
(***************************************************************************)

\* What is divided without a rest is a multiple.
LEMMA Divides ==
    ASSUME NEW x \in Nat, NEW y \in Nat \ {0}, x % y = 0
    PROVE  \E k \in Nat : x = k * y
<1>1. x \div y \in Nat /\ x = y * (x \div y) + (x % y)
  OBVIOUS
<1>2. PICK k \in Nat : k = x \div y
  BY <1>1
<1>3. x = k * y
  BY <1>1, <1>2
<1> QED BY <1>3

\* A multiple is divided without a rest.
LEMMA Multiple ==
    ASSUME NEW w \in Nat, NEW y \in Nat \ {0}
    PROVE  (w * y) \div y = w /\ (w * y) % y = 0
<1>1. PICK d \in Int, r \in Int : d = (w * y) \div y /\ r = (w * y) % y
  OBVIOUS
<1>2. r \in 0..(y - 1) /\ w * y = d * y + r
  BY <1>1
<1>3. (w - d) * y = r
  BY <1>2
<1>4. w - d < 1
  <2> SUFFICES ASSUME w - d >= 1 PROVE FALSE
    OBVIOUS
  <2>1. (w - d) * y >= y
    OBVIOUS
  <2> QED BY <1>2, <1>3, <2>1
<1>5. w - d > -1
  <2> SUFFICES ASSUME w - d <= -1 PROVE FALSE
    OBVIOUS
  <2>1. (w - d) * y <= -y
    OBVIOUS
  <2> QED BY <1>2, <1>3, <2>1
<1>6. w = d
  BY <1>4, <1>5
<1>7. r = 0
  BY <1>3, <1>6
<1> QED BY <1>1, <1>6, <1>7

\* Sharing a multiple of one grain among t shares leaves one of the next smaller.
LEMMA GrainsShare ==
    ASSUME NEW n \in 1..MaxFills, NEW t \in 1..MaxQty, NEW x \in Nat, x % Grain[n] = 0
    PROVE  /\ x \div t \in Nat /\ x = t * (x \div t)
           /\ (x \div t) % Grain[n - 1] = 0
<1>1. PICK g \in Nat \ {0} : g = Grain[n - 1]
  BY GrainAssumption, BoundAssumption
<1>2. PICK h \in Nat \ {0} : h = Grain[n]
  BY GrainAssumption, BoundAssumption
<1>3. t \in Nat \ {0}
  BY BoundAssumption
<1>4. t * g \in Nat \ {0} /\ h % (t * g) = 0
  <2>1. h % (t * g) = 0
    BY <1>1, <1>2, <1>3, GrainAssumption
  <2> QED BY <1>3, <2>1
<1>5. PICK k \in Nat : h = k * (t * g)
  BY <1>4, Divides
<1>6. PICK i \in Nat : x = i * h
  BY <1>2, Divides
<1>7. PICK w \in Nat : w = i * k
  OBVIOUS
<1>8. w * g \in Nat /\ x = (w * g) * t
  BY <1>3, <1>5, <1>6, <1>7
<1>9. ((w * g) * t) \div t = w * g /\ (w * g) % g = 0
  BY <1>3, <1>8, Multiple
<1> QED BY <1>1, <1>3, <1>8, <1>9

\* What a multiple of one grain is, is one of the next smaller.
LEMMA GrainsDivide ==
    ASSUME NEW n \in 1..MaxFills, NEW a \in Nat, a % Grain[n] = 0, MaxQty # 0
    PROVE  a % Grain[n - 1] = 0
<1>1. PICK g \in Nat \ {0} : g = Grain[n - 1]
  BY GrainAssumption, BoundAssumption
<1>2. PICK h \in Nat \ {0} : h = Grain[n]
  BY GrainAssumption, BoundAssumption
<1>3. h % g = 0
  <2>1. 1 \in 1..MaxQty
    BY BoundAssumption
  <2>2. h % (1 * g) = 0
    BY <1>1, <1>2, <2>1, GrainAssumption
  <2>3. 1 * g = g
    OBVIOUS
  <2> QED BY <2>2, <2>3
<1>4. PICK k \in Nat : h = k * g
  BY <1>3, Divides
<1>5. PICK i \in Nat : a = i * h
  BY <1>2, Divides
<1>6. PICK w \in Nat : w = i * k
  OBVIOUS
<1>7. a = w * g
  BY <1>4, <1>5, <1>6
<1> QED BY <1>1, <1>7, Multiple

\* A SELL leaves the average as it was, as the book, which scales the cost, and
\* as the replays, which take the average off it.
LEMMA SellKeepsAverage ==
    ASSUME NEW t \in Nat \ {0}, NEW a \in Nat, NEW q \in 1..t
    PROVE  /\ (t * a) \div t = a
           /\ (t * a * (t - q)) \div t = (t - q) * a
           /\ t * a - a * q = (t - q) * a
<1>1. (a * t) \div t = a
  BY Multiple
<1>2. PICK r \in Nat : r = t - q
  OBVIOUS
<1>3. PICK w \in Nat : w = r * a
  OBVIOUS
<1>4. (w * t) \div t = w
  BY Multiple
<1>5. t * a = a * t /\ t * a * r = w * t /\ t * a - a * q = (t - q) * a
  BY <1>3
<1> QED BY <1>1, <1>2, <1>3, <1>4, <1>5

-----------------------------------------------------------------------------
(***************************************************************************)
(* The invariant                                                           *)
(***************************************************************************)

\* What the run in progress may fill has a close.
LeftHaveCloses == \A s \in run.left : run.close[s] \in Prices

\* A position is worth its quantity at its average cost, which the fills still
\* to come divide without a rest; one that is closed is forgotten, and one that
\* is open was bought.
PositionOK(s) ==
    /\ book[s].cost = book[s].qty * book[s].avg
    /\ book[s].avg % Grain[MaxFills - Len(fills)] = 0
    /\ book[s].qty = 0 => book[s] = NoPosition
    /\ book[s].qty > 0 => LastBuy(s) \in Prices
PositionsOK == Len(fills) <= MaxFills /\ \A s \in Symbols : PositionOK(s)

\* The engine's replay comes to the quantities and costs of the book, and has
\* realized nothing on a day that has not come.
ReplayState == [qty : [Symbols -> Nat], cost : [Symbols -> Nat], gain : [Days -> Int]]
ReplayOK ==
    /\ EngineReplay \in ReplayState
    /\ \A s \in Symbols : EngineReplay.qty[s] = book[s].qty /\ EngineReplay.cost[s] = book[s].cost
    /\ \A d \in Days : d > day => EngineReplay.gain[d] = 0

\* Cash, the cost of what is held and the charges are the seed and the gains.
Flow(f) == IF f.side = "BUY" THEN f.qty * f.price + Fee ELSE Fee - f.qty * f.price
FlowsOf(fs) == [i \in 1..Len(fs) |-> Flow(fs[i])]
CostsOf(b) == [s \in Symbols |-> b[s].cost]
GainsOf(st) == [d \in Days |-> st.gain[d]]
Balanced ==
    Seed - SumFunction(FlowsOf(fills)) + SumFunction(CostsOf(book)) + Fee * Len(fills)
        = Seed + SumFunction(GainsOf(EngineReplay))

Ledger == PositionsOK /\ Replayable(fills) /\ ReplayOK /\ Balanced

\* Since the refresh of day asOf no mark and no holding has changed: the rows
\* written since say the same, and nothing was realized.
Marks == [s \in Symbols |-> FallbackLtp(s)]
SinceRefresh ==
    asOf # 0 =>
        /\ asOf <= day /\ daily[asOf].present
        /\ \A d \in asOf..day : daily[d].present => daily[d].unrealized = Unrealized(Marks)
        /\ \A d \in Days : d > asOf => EngineReplay.gain[d] = 0 /\ daily[d].realized = 0
NoRowAhead == \A d \in Days : d > day => daily[d] = NoRow

IInv == TypeOK /\ LeftHaveCloses /\ Ledger /\ SinceRefresh /\ NoRowAhead

-----------------------------------------------------------------------------
(***************************************************************************)
(* Sums of the account                                                     *)
(***************************************************************************)

\* A fill more, and the cash that went with it.
LEMMA FlowsAppend ==
    ASSUME NEW fs \in Seq(Fill), NEW f \in Fill
    PROVE  /\ SumFunction(FlowsOf(fs)) \in Int /\ Flow(f) \in Int
           /\ SumFunction(FlowsOf(Append(fs, f))) = SumFunction(FlowsOf(fs)) + Flow(f)
<1> DEFINE gs == Append(fs, f)
           N == Len(fs)
           F == FlowsOf(fs)
           G == FlowsOf(gs)
<1>1. /\ N \in Nat /\ Len(gs) = N + 1 /\ gs[N + 1] = f
      /\ \A i \in 1..N : gs[i] = fs[i] /\ fs[i] \in Fill
  BY AppendProperties, ElementOfSeq
<1> HIDE DEF gs
<1>2. ASSUME NEW g \in Fill PROVE Flow(g) \in Int
  <2>1. g.qty \in 1..MaxQty /\ g.price \in Prices
    BY DEF Fill
  <2>2. g.qty \in Nat
    BY <2>1, BoundAssumption
  <2>3. g.price \in Nat
    BY <2>1, ValueAssumption
  <2>4. g.qty * g.price \in Nat /\ Fee \in Nat
    BY <2>2, <2>3, ValueAssumption
  <2> QED BY <2>4 DEF Flow
<1>3. \A i \in 1..N : F[i] = Flow(fs[i]) /\ G[i] = Flow(fs[i])
  BY <1>1 DEF FlowsOf
<1>4. G[N + 1] = Flow(f) /\ DOMAIN G = 1..(N + 1) /\ DOMAIN F = 1..N
  BY <1>1 DEF FlowsOf
<1>5. SumFunction(F) = Total(F, 1..N) /\ SumFunction(G) = Total(G, 1..(N + 1))
  BY <1>4, TotalIsSum
<1>6. IsFiniteSet(1..N) /\ IsFiniteSet(1..(N + 1))
  BY <1>1, FS_Interval
<1>7. (1..(N + 1)) \ {N + 1} = 1..N /\ N + 1 \in 1..(N + 1)
  BY <1>1
<1>8. \A i \in 1..(N + 1) : G[i] \in Int
  BY <1>1, <1>2, <1>3, <1>4
<1>9. \A i \in 1..N : F[i] \in Int /\ G[i] = F[i]
  BY <1>1, <1>2, <1>3
<1> HIDE DEF F, G, N
<1>10. Total(G, 1..(N + 1)) = G[N + 1] + Total(G, 1..N)
  <2>1. Total(G, 1..(N + 1)) = G[N + 1] + Total(G, (1..(N + 1)) \ {N + 1})
    BY <1>6, <1>7, <1>8, TotalAny
  <2> QED BY <1>7, <2>1
<1>11. Total(G, 1..N) = Total(F, 1..N) /\ Total(F, 1..N) \in Int
  BY <1>6, <1>9, TotalSame, TotalInt
<1>12. SumFunction(F) \in Int /\ Flow(f) \in Int /\ SumFunction(G) = SumFunction(F) + Flow(f)
  BY <1>2, <1>4, <1>5, <1>10, <1>11
<1> QED BY <1>12 DEF F, G, gs

\* One position changes.
LEMMA CostsChange ==
    ASSUME NEW b, NEW c, NEW s \in Symbols,
           \A t \in Symbols : b[t].cost \in Int /\ c[t].cost \in Int,
           \A t \in Symbols : t # s => c[t] = b[t]
    PROVE  /\ SumFunction(CostsOf(b)) \in Int
           /\ SumFunction(CostsOf(c)) = SumFunction(CostsOf(b)) + (c[s].cost - b[s].cost)
<1> DEFINE F == CostsOf(b)
           G == CostsOf(c)
<1>1. DOMAIN F = Symbols /\ DOMAIN G = Symbols
  BY DEF CostsOf
<1>2. SumFunction(F) = Total(F, Symbols) /\ SumFunction(G) = Total(G, Symbols)
  BY <1>1, TotalIsSum
<1>3. \A t \in Symbols : F[t] = b[t].cost /\ G[t] = c[t].cost
  BY DEF CostsOf
<1> HIDE DEF F, G
<1>4. /\ \A t \in Symbols : F[t] \in Int /\ G[t] \in Int
      /\ \A t \in Symbols \ {s} : G[t] = F[t]
  BY <1>3
<1>5. /\ Total(F, Symbols) \in Int
      /\ Total(G, Symbols) = Total(F, Symbols) + (G[s] - F[s])
  BY <1>4, SymbolsAssumption, TotalInt, TotalChange
<1> QED BY <1>2, <1>3, <1>5 DEF F, G

\* One day's gain changes.
LEMMA GainsChange ==
    ASSUME NEW b, NEW c, NEW e \in Days,
           \A d \in Days : b.gain[d] \in Int /\ c.gain[d] \in Int,
           \A d \in Days : d # e => c.gain[d] = b.gain[d]
    PROVE  /\ SumFunction(GainsOf(b)) \in Int
           /\ SumFunction(GainsOf(c)) = SumFunction(GainsOf(b)) + (c.gain[e] - b.gain[e])
<1> DEFINE F == GainsOf(b)
           G == GainsOf(c)
<1>1. DOMAIN F = Days /\ DOMAIN G = Days
  BY DEF GainsOf
<1>2. SumFunction(F) = Total(F, Days) /\ SumFunction(G) = Total(G, Days)
  BY <1>1, TotalIsSum
<1>3. \A d \in Days : F[d] = b.gain[d] /\ G[d] = c.gain[d]
  BY DEF GainsOf
<1> HIDE DEF F, G
<1>4. /\ \A d \in Days : F[d] \in Int /\ G[d] \in Int
      /\ \A d \in Days \ {e} : G[d] = F[d]
  BY <1>3
<1>f. IsFiniteSet(Days)
  BY BoundAssumption, FS_Interval DEF Days
<1>5. /\ Total(F, Days) \in Int
      /\ Total(G, Days) = Total(F, Days) + (G[e] - F[e])
  BY <1>4, <1>f, TotalInt, TotalChange
<1> QED BY <1>2, <1>3, <1>5 DEF F, G

-----------------------------------------------------------------------------
(***************************************************************************)
(* A fill                                                                  *)
(***************************************************************************)

\* Max is the largest of a set of fills.
LEMMA MaxIs ==
    ASSUME NEW N \in Nat, NEW S \in SUBSET (1..N), S # {}
    PROVE  Max(S) \in S /\ \A i \in S : i <= Max(S)
<1> DEFINE T == {N - i : i \in S}
<1>0. \A i \in S : i \in Nat /\ N - i \in Nat
  OBVIOUS
<1>1. T \subseteq Nat /\ T # {}
  BY <1>0
<1>2. PICK m \in T : \A j \in T : ~(<<j, m>> \in OpToRel(<, Nat))
  <2> HIDE DEF T
  <2> QED BY <1>1, NatLessThanWellFounded, WFMin
<1>3. ASSUME NEW j \in T PROVE ~(j < m)
  BY <1>1, <1>2, <1>3 DEF OpToRel
<1>4. PICK i \in S : m = N - i
  OBVIOUS
<1>5. ASSUME NEW j \in S PROVE j <= i
  <2>1. N - j \in T
    OBVIOUS
  <2>2. ~(N - j < N - i)
    BY <1>3, <1>4, <2>1
  <2>3. i \in Nat /\ j \in Nat
    BY <1>0
  <2> HIDE DEF T
  <2> QED BY <2>2, <2>3
<1>6. \E x \in S : \A y \in S : x >= y
  BY <1>5
<1>7. Max(S) \in S /\ \A y \in S : Max(S) >= y
  BY <1>6 DEF Max
<1> QED BY <1>7

\* Only a BUY of s changes what s was last bought at.
LEMMA LastBuyAppends ==
    ASSUME fills \in Seq(Fill), NEW f \in Fill, fills' = Append(fills, f), NEW s
    PROVE  LastBuy(s)' = IF f.sym = s /\ f.side = "BUY" THEN f.price ELSE LastBuy(s)
<1> DEFINE N == Len(fills)
           B == {i \in 1..N : fills[i].sym = s /\ fills[i].side = "BUY"}
           C == {i \in 1..Len(fills') : fills'[i].sym = s /\ fills'[i].side = "BUY"}
<1>1. /\ N \in Nat /\ Len(fills') = N + 1 /\ fills'[N + 1] = f
      /\ \A i \in 1..N : fills'[i] = fills[i]
  BY AppendProperties
<1>2. /\ LastBuy(s) = IF B = {} THEN 0 ELSE fills[Max(B)].price
      /\ LastBuy(s)' = IF C = {} THEN 0 ELSE fills'[Max(C)].price
  BY DEF LastBuy
<1>3. CASE f.sym = s /\ f.side = "BUY"
  <2>1. N + 1 \in C /\ C \in SUBSET (1..(N + 1)) /\ N + 1 \in Nat
    BY <1>1, <1>3
  <2>2. Max(C) \in C /\ N + 1 <= Max(C)
    <3> HIDE DEF C, N
    <3> QED BY <2>1, MaxIs
  <2>3. Max(C) = N + 1
    <3>1. Max(C) \in 1..(N + 1)
      BY <2>1, <2>2
    <3> HIDE DEF C, N
    <3> QED BY <1>1, <2>2, <3>1
  <2> QED BY <1>1, <1>2, <1>3, <2>1, <2>3
<1>4. CASE ~(f.sym = s /\ f.side = "BUY")
  <2>1. B = C
    BY <1>1, <1>4
  <2>2. CASE B = {}
    BY <1>2, <1>4, <2>1, <2>2
  <2>3. CASE B # {}
    <3>1. B \in SUBSET (1..N)
      OBVIOUS
    <3>2. Max(B) \in B
      <4> HIDE DEF B, N
      <4> QED BY <1>1, <2>3, <3>1, MaxIs
    <3>3. fills'[Max(B)] = fills[Max(B)]
      BY <1>1, <3>2
    <3> QED BY <1>2, <1>4, <2>1, <2>3, <3>3
  <2> QED BY <2>2, <2>3
<1> QED BY <1>3, <1>4

\* What a fill is, and what it does to the tables.
LEMMA FillFacts ==
    ASSUME IInv, NEW s \in Symbols, NEW side \in {"BUY", "SELL"}, NEW q \in 1..MaxQty,
           FillOrder(s, side, q)
    PROVE  \E f \in Fill :
             /\ f.day = day /\ f.sym = s /\ f.side = side /\ f.qty = q
             /\ f.price = run.close[s]
             /\ fills' = Append(fills, f) /\ fills' \in Seq(Fill)
             /\ Len(fills') = Len(fills) + 1 /\ MaxFills - Len(fills) \in 1..MaxFills
             /\ book' = [book EXCEPT ![s] = ApplyToBook(book[s], side, q, f.price)]
             /\ side = "BUY" => book[s].qty + q <= MaxQty
             /\ side = "SELL" => q <= book[s].qty
<1> DEFINE f == [day |-> day, sym |-> s, side |-> side, qty |-> q, price |-> run.close[s]]
<1>1. run.close[s] \in Prices
  BY DEF IInv, LeftHaveCloses, FillOrder
<1>2. f \in Fill
  BY <1>1 DEF Fill, IInv, TypeOK
<1>3. fills \in Seq(Fill) /\ Len(fills) \in Nat /\ Len(fills) < MaxFills
  BY DEF IInv, TypeOK, FillOrder
<1>4. fills' = Append(fills, f) /\ fills' \in Seq(Fill) /\ Len(fills') = Len(fills) + 1
  <2>1. fills' = Append(fills, f)
    BY DEF FillOrder
  <2> HIDE DEF f
  <2> QED BY <1>2, <1>3, <2>1, AppendProperties
<1>5. MaxFills - Len(fills) \in 1..MaxFills
  BY <1>3, BoundAssumption
<1>6. /\ book' = [book EXCEPT ![s] = ApplyToBook(book[s], side, q, f.price)]
      /\ side = "BUY" => book[s].qty + q <= MaxQty
      /\ side = "SELL" => q <= book[s].qty
  BY DEF FillOrder
<1> QED BY <1>2, <1>4, <1>5, <1>6

Position == [qty : 0..MaxQty, avg : Nat, cost : Nat]

\* _apply_to_book, for a BUY.
LEMMA BuyPosition ==
    ASSUME NEW p \in Position, NEW q \in 1..MaxQty, NEW price \in Prices,
           p.qty + q <= MaxQty, p.cost = p.qty * p.avg,
           NEW n \in 1..MaxFills, p.avg % Grain[n] = 0
    PROVE  LET r == ApplyToBook(p, "BUY", q, price) IN
           /\ r \in Position /\ r.qty = p.qty + q /\ r.cost = p.cost + q * price
           /\ r.cost = r.qty * r.avg /\ r.avg % Grain[n - 1] = 0
<1> DEFINE r == ApplyToBook(p, "BUY", q, price)
<1>1. PICK q0 \in Nat, a \in Nat : q0 = p.qty /\ a = p.avg /\ p.cost = q0 * a
  BY BoundAssumption DEF Position
<1>2. PICK v \in Nat : v = price
  BY ValueAssumption
<1>3. PICK c \in Nat : c = q0 * a + q * v
  <2>1. q0 * a \in Nat /\ q * v \in Nat
    BY BoundAssumption
  <2> QED BY <2>1
<1>4. q0 + q \in 1..MaxQty
  BY <1>1, BoundAssumption
<1>5. /\ c \div (q0 + q) \in Nat /\ c = (q0 + q) * (c \div (q0 + q))
      /\ (c \div (q0 + q)) % Grain[n - 1] = 0
  <2>1. PICK h \in Nat \ {0} : h = Grain[n]
    BY GrainAssumption, BoundAssumption
  <2>2. PICK i \in Nat : a = i * h
    BY <1>1, <2>1, Divides
  <2>3. PICK k \in Nat : v = k * h
    <3>1. v % h = 0
      BY <1>2, <2>1, GrainAssumption, BoundAssumption
    <3> QED BY <3>1, Divides
  <2>4. PICK w \in Nat : w = q0 * i + q * k
    <3>1. q0 * i \in Nat /\ q * k \in Nat
      BY BoundAssumption
    <3> QED BY <3>1
  <2>5. c = w * h
    <3>1. q \in Nat
      BY BoundAssumption
    <3> QED BY <1>3, <2>2, <2>3, <2>4, <3>1
  <2>6. c % Grain[n] = 0
    BY <2>1, <2>5, Multiple
  <2>7. PICK t \in 1..MaxQty : t = q0 + q
    BY <1>4
  <2>8. c \div t \in Nat /\ c = t * (c \div t) /\ (c \div t) % Grain[n - 1] = 0
    BY <2>6, <2>7, GrainsShare
  <2> QED BY <2>7, <2>8
<1>6. r = [qty |-> q0 + q, avg |-> c \div (q0 + q), cost |-> c]
  BY <1>1, <1>2, <1>3 DEF ApplyToBook
<1> HIDE DEF r
<1>7. /\ r.qty = q0 + q /\ r.avg = c \div (q0 + q) /\ r.cost = c
  BY <1>6
<1>8. r \in Position
  <2>1. q0 + q \in 0..MaxQty
    BY <1>4, BoundAssumption
  <2> QED BY <1>5, <1>6, <2>1 DEF Position
<1>9. r.cost = p.cost + q * price
  BY <1>1, <1>2, <1>3, <1>7
<1> QED BY <1>1, <1>5, <1>7, <1>8, <1>9 DEF r

\* For a SELL of what is held at most.
LEMMA SellPosition ==
    ASSUME NEW p \in Position, NEW q \in 1..MaxQty, NEW price, q <= p.qty,
           p.cost = p.qty * p.avg, NEW n \in 1..MaxFills, p.avg % Grain[n] = 0
    PROVE  LET r == ApplyToBook(p, "SELL", q, price) IN
           /\ r \in Position /\ r.qty = p.qty - q /\ r.cost = (p.qty - q) * p.avg
           /\ r.cost = r.qty * r.avg /\ r.avg % Grain[n - 1] = 0
           /\ r.qty = 0 => r = NoPosition
<1> DEFINE r == ApplyToBook(p, "SELL", q, price)
<1>1. PICK q0 \in Nat, a \in Nat : q0 = p.qty /\ a = p.avg /\ p.cost = q0 * a
  BY BoundAssumption DEF Position
<1>2. q0 \in Nat \ {0} /\ q \in 1..q0 /\ q0 \in 1..MaxQty /\ MaxQty # 0
  BY <1>1, BoundAssumption DEF Position
<1>g. PICK g \in Nat \ {0} : g = Grain[n - 1]
  BY GrainAssumption, BoundAssumption
<1>3. CASE q = q0
  <2>1. r = NoPosition
    BY <1>1, <1>3 DEF ApplyToBook
  <2>2. r.qty = 0 /\ r.cost = 0 /\ r.avg = 0 /\ r \in Position
    BY <2>1, BoundAssumption DEF NoPosition, Position
  <2> HIDE DEF r
  <2>3. 0 = (q0 - q) * a /\ 0 = q0 - q /\ 0 % g = 0 /\ 0 = 0 * 0
    BY <1>3
  <2> QED BY <1>1, <1>g, <2>1, <2>2, <2>3 DEF r
<1>4. CASE q # q0
  <2>1. r = [p EXCEPT !.qty = p.qty - q, !.cost = (p.cost * (p.qty - q)) \div p.qty]
    BY <1>1, <1>2, <1>4 DEF ApplyToBook
  <2>2. (q0 * a * (q0 - q)) \div q0 = (q0 - q) * a
    BY <1>2, SellKeepsAverage
  <2>3. p = [qty |-> q0, avg |-> a, cost |-> q0 * a]
    BY <1>1 DEF Position
  <2>4. r = [qty |-> q0 - q, avg |-> a, cost |-> (q0 - q) * a]
    BY <2>1, <2>2, <2>3
  <2> HIDE DEF r
  <2>5. r.qty = q0 - q /\ r.avg = a /\ r.cost = (q0 - q) * a
    BY <2>4
  <2>6. q0 - q \in 1..MaxQty /\ (q0 - q) * a \in Nat
    <3>1. q0 - q \in Nat /\ q0 - q \in 1..MaxQty
      BY <1>2, <1>4, BoundAssumption
    <3> QED BY <3>1
  <2>7. r \in Position /\ r.qty # 0
    BY <2>4, <2>5, <2>6 DEF Position
  <2>8. a % Grain[n - 1] = 0
    BY <1>1, <1>2, GrainsDivide
  <2> QED BY <1>1, <2>5, <2>7, <2>8 DEF r
<1> QED BY <1>3, <1>4

\* A step of the replays, for a BUY.
LEMMA BuyStep ==
    ASSUME NEW st \in ReplayState, NEW f \in Fill, f.side = "BUY"
    PROVE  LET r == EngineStep(st, f) IN
           /\ ViewStep(st, f) = r /\ r \in ReplayState
           /\ r.qty[f.sym] = st.qty[f.sym] + f.qty
           /\ r.cost[f.sym] = st.cost[f.sym] + f.qty * f.price
           /\ \A t \in Symbols : t # f.sym => r.qty[t] = st.qty[t] /\ r.cost[t] = st.cost[t]
           /\ r.gain = st.gain
<1> DEFINE r == EngineStep(st, f)
<1>1. /\ st.qty \in [Symbols -> Nat] /\ st.cost \in [Symbols -> Nat] /\ st.gain \in [Days -> Int]
      /\ st = [qty |-> st.qty, cost |-> st.cost, gain |-> st.gain]
  BY DEF ReplayState
<1>2. f.sym \in Symbols /\ f.qty \in 1..MaxQty /\ f.price \in Prices
  BY DEF Fill
<1>3. f.qty \in Nat
  BY <1>2, BoundAssumption
<1>p. f.price \in Nat
  BY <1>2, ValueAssumption
<1>4. PICK k \in Nat : k = f.qty * f.price
  BY <1>3, <1>p
<1>5. r = [st EXCEPT !.qty[f.sym] = @ + f.qty, !.cost[f.sym] = @ + k] /\ ViewStep(st, f) = r
  BY <1>4 DEF EngineStep, ViewStep, Bought
<1> HIDE DEF r
<1>6. r = [qty |-> [st.qty EXCEPT ![f.sym] = @ + f.qty],
           cost |-> [st.cost EXCEPT ![f.sym] = @ + k], gain |-> st.gain]
  BY <1>1, <1>5
<1>7. [st.qty EXCEPT ![f.sym] = @ + f.qty] \in [Symbols -> Nat]
  BY <1>1, <1>2, <1>3
<1>8. [st.cost EXCEPT ![f.sym] = @ + k] \in [Symbols -> Nat]
  BY <1>1, <1>2
<1>9. r \in ReplayState
  BY <1>1, <1>6, <1>7, <1>8 DEF ReplayState
<1>10. /\ r.qty[f.sym] = st.qty[f.sym] + f.qty /\ r.cost[f.sym] = st.cost[f.sym] + k
       /\ \A t \in Symbols : t # f.sym => r.qty[t] = st.qty[t] /\ r.cost[t] = st.cost[t]
       /\ r.gain = st.gain
  BY <1>1, <1>2, <1>6
<1> QED BY <1>4, <1>5, <1>9, <1>10 DEF r

\* For a SELL of what is held at most, at a whole average cost a.
LEMMA SellStep ==
    ASSUME NEW st \in ReplayState, NEW f \in Fill, f.side = "SELL", f.qty <= st.qty[f.sym],
           NEW a \in Nat, st.cost[f.sym] = st.qty[f.sym] * a
    PROVE  LET r == EngineStep(st, f) IN
           /\ ViewStep(st, f) = r /\ r \in ReplayState
           /\ r.qty[f.sym] = st.qty[f.sym] - f.qty
           /\ r.cost[f.sym] = (st.qty[f.sym] - f.qty) * a
           /\ \A t \in Symbols : t # f.sym => r.qty[t] = st.qty[t] /\ r.cost[t] = st.cost[t]
           /\ r.gain[f.day] = st.gain[f.day] + (f.price - a) * f.qty
           /\ \A d \in Days : d # f.day => r.gain[d] = st.gain[d]
<1> DEFINE r == EngineStep(st, f)
<1>1. /\ st.qty \in [Symbols -> Nat] /\ st.cost \in [Symbols -> Nat] /\ st.gain \in [Days -> Int]
      /\ st = [qty |-> st.qty, cost |-> st.cost, gain |-> st.gain]
  BY DEF ReplayState
<1>2. f.sym \in Symbols /\ f.qty \in 1..MaxQty /\ f.price \in Prices /\ f.day \in Days
  BY DEF Fill
<1>q. f.qty \in Nat \ {0}
  BY <1>2, BoundAssumption
<1>p. f.price \in Nat
  BY <1>2, ValueAssumption
<1>3. PICK t \in Nat \ {0} : t = st.qty[f.sym] /\ f.qty \in 1..t
  BY <1>1, <1>2, <1>q
<1>4. /\ (t * a) \div t = a /\ t * a - a * f.qty = (t - f.qty) * a
  BY <1>3, SellKeepsAverage
<1>5. PICK c \in Nat : c = (t - f.qty) * a
  <2>1. t - f.qty \in Nat
    BY <1>3
  <2> QED BY <2>1
<1>6. PICK g \in Int : g = (f.price - a) * f.qty
  BY <1>p, <1>q
<1>7. PICK rest \in Nat : rest = t - f.qty
  BY <1>3
<1>8. (IF rest = 0 THEN 0 ELSE st.cost[f.sym] - a * f.qty) = c
  BY <1>3, <1>4, <1>5, <1>7
<1>9. Least(f.qty, st.qty[f.sym]) = f.qty /\ ~(st.qty[f.sym] <= 0)
      /\ st.cost[f.sym] \div st.qty[f.sym] = a
  <2>1. Least(f.qty, t) = f.qty /\ ~(t <= 0)
    BY <1>3, <1>q DEF Least
  <2>2. st.cost[f.sym] = t * a
    BY <1>3
  <2> QED BY <1>3, <1>4, <2>1, <2>2
<1>10. /\ EngineStep(st, f) = Sold(st, f, f.qty) /\ ViewStep(st, f) = Sold(st, f, f.qty)
  BY <1>9 DEF EngineStep, ViewStep
<1>11. Sold(st, f, f.qty) = [st EXCEPT !.qty[f.sym] = rest, !.cost[f.sym] = c, !.gain[f.day] = @ + g]
  BY <1>3, <1>6, <1>7, <1>8, <1>9 DEF Sold
<1>12. r = [qty |-> [st.qty EXCEPT ![f.sym] = rest], cost |-> [st.cost EXCEPT ![f.sym] = c],
            gain |-> [st.gain EXCEPT ![f.day] = @ + g]] /\ ViewStep(st, f) = r
  BY <1>1, <1>10, <1>11
<1> HIDE DEF r
<1>13. /\ [st.qty EXCEPT ![f.sym] = rest] \in [Symbols -> Nat]
       /\ [st.cost EXCEPT ![f.sym] = c] \in [Symbols -> Nat]
  BY <1>1, <1>2
<1>14. [st.gain EXCEPT ![f.day] = @ + g] \in [Days -> Int]
  BY <1>1, <1>2
<1>15. r \in ReplayState
  BY <1>12, <1>13, <1>14 DEF ReplayState
<1>16. /\ r.qty[f.sym] = rest /\ r.cost[f.sym] = c
       /\ \A s \in Symbols : s # f.sym => r.qty[s] = st.qty[s] /\ r.cost[s] = st.cost[s]
       /\ r.gain[f.day] = st.gain[f.day] + g
       /\ \A d \in Days : d # f.day => r.gain[d] = st.gain[d]
  BY <1>1, <1>2, <1>12
<1> QED BY <1>3, <1>5, <1>6, <1>7, <1>12, <1>15, <1>16 DEF r

-----------------------------------------------------------------------------
(***************************************************************************)
(* The book and the replay, one fill on                                    *)
(***************************************************************************)

\* A position p and the replay st that agree take a fill alike; what the fill
\* realized is what the cost basis gained, less what was paid for it.
LEMMA FillStep ==
    ASSUME NEW st \in ReplayState, NEW f \in Fill, NEW p \in Position,
           st.qty[f.sym] = p.qty, st.cost[f.sym] = p.cost, p.cost = p.qty * p.avg,
           NEW n \in 1..MaxFills, p.avg % Grain[n] = 0,
           f.side = "BUY" => p.qty + f.qty <= MaxQty,
           f.side = "SELL" => f.qty <= p.qty
    PROVE  LET r == EngineStep(st, f)
               b == ApplyToBook(p, f.side, f.qty, f.price) IN
           /\ ViewStep(st, f) = r /\ r \in ReplayState /\ b \in Position
           /\ r.qty[f.sym] = b.qty /\ r.cost[f.sym] = b.cost
           /\ b.cost = b.qty * b.avg /\ b.avg % Grain[n - 1] = 0
           /\ b.qty = 0 => b = NoPosition
           /\ \A t \in Symbols : t # f.sym => r.qty[t] = st.qty[t] /\ r.cost[t] = st.cost[t]
           /\ \A d \in Days : d # f.day => r.gain[d] = st.gain[d]
           /\ r.gain[f.day] - st.gain[f.day] = (b.cost - p.cost) + (Fee - Flow(f))
<1> DEFINE r == EngineStep(st, f)
           b == ApplyToBook(p, f.side, f.qty, f.price)
<1>1. /\ f.sym \in Symbols /\ f.qty \in 1..MaxQty /\ f.price \in Prices /\ f.day \in Days
      /\ f.side \in {"BUY", "SELL"}
  BY DEF Fill
<1>2. PICK q \in Nat \ {0} : q = f.qty
  BY <1>1, BoundAssumption
<1>3. PICK v \in Nat : v = f.price
  BY <1>1, ValueAssumption
<1>4. PICK q0 \in Nat, a \in Nat : q0 = p.qty /\ a = p.avg /\ p.cost = q0 * a
  BY BoundAssumption DEF Position
<1>5. PICK g \in Int : g = st.gain[f.day]
  BY <1>1 DEF ReplayState
<1>6. Fee \in Nat
  BY ValueAssumption
<1>7. CASE f.side = "BUY"
  <2>1. /\ ViewStep(st, f) = r /\ r \in ReplayState
        /\ r.qty[f.sym] = st.qty[f.sym] + f.qty
        /\ r.cost[f.sym] = st.cost[f.sym] + f.qty * f.price
        /\ \A t \in Symbols : t # f.sym => r.qty[t] = st.qty[t] /\ r.cost[t] = st.cost[t]
        /\ r.gain = st.gain
    BY <1>7, BuyStep
  <2>2. b = ApplyToBook(p, "BUY", f.qty, f.price)
    BY <1>7
  <2>3. /\ b \in Position /\ b.qty = p.qty + f.qty /\ b.cost = p.cost + f.qty * f.price
        /\ b.cost = b.qty * b.avg /\ b.avg % Grain[n - 1] = 0
    BY <1>1, <1>7, <2>2, BuyPosition
  <2> HIDE DEF r, b
  <2>4. b.qty # 0
    BY <1>2, <1>4, <2>3
  <2>5. r.gain[f.day] - st.gain[f.day] = (b.cost - p.cost) + (Fee - Flow(f))
    <3>1. PICK k \in Nat : k = f.qty * f.price
      BY <1>2, <1>3
    <3>2. Flow(f) = k + Fee
      BY <1>7, <3>1 DEF Flow
    <3>3. PICK c \in Nat : c = p.cost
      BY DEF Position
    <3>4. b.cost = c + k /\ r.gain[f.day] = g
      BY <1>5, <2>1, <2>3, <3>1, <3>3
    <3> QED BY <1>5, <1>6, <3>2, <3>3, <3>4
  <2>6. r.qty[f.sym] = b.qty /\ r.cost[f.sym] = b.cost
    BY <2>1, <2>3
  <2> QED BY <2>1, <2>3, <2>4, <2>5, <2>6 DEF r, b
<1>8. CASE f.side = "SELL"
  <2>1. f.qty <= st.qty[f.sym] /\ st.cost[f.sym] = st.qty[f.sym] * a
    BY <1>4, <1>8
  <2>2. /\ ViewStep(st, f) = r /\ r \in ReplayState
        /\ r.qty[f.sym] = st.qty[f.sym] - f.qty
        /\ r.cost[f.sym] = (st.qty[f.sym] - f.qty) * a
        /\ \A t \in Symbols : t # f.sym => r.qty[t] = st.qty[t] /\ r.cost[t] = st.cost[t]
        /\ r.gain[f.day] = st.gain[f.day] + (f.price - a) * f.qty
        /\ \A d \in Days : d # f.day => r.gain[d] = st.gain[d]
    BY <1>8, <2>1, SellStep
  <2>3. b = ApplyToBook(p, "SELL", f.qty, f.price)
    BY <1>8
  <2>4. /\ b \in Position /\ b.qty = p.qty - f.qty /\ b.cost = (p.qty - f.qty) * p.avg
        /\ b.cost = b.qty * b.avg /\ b.avg % Grain[n - 1] = 0
        /\ b.qty = 0 => b = NoPosition
    BY <1>1, <1>8, <2>3, SellPosition
  <2> HIDE DEF r, b
  <2>5. r.gain[f.day] - st.gain[f.day] = (b.cost - p.cost) + (Fee - Flow(f))
    <3>1. r.gain[f.day] = g + (v - a) * q /\ b.cost = (q0 - q) * a
      BY <1>2, <1>3, <1>4, <1>5, <2>2, <2>4
    <3>2. Flow(f) = Fee - q * v
      BY <1>2, <1>3, <1>8 DEF Flow
    <3>3. PICK k \in Nat, c \in Nat, e \in Nat : k = q * v /\ c = q * a /\ e = q0 * a
      OBVIOUS
    <3>4. (v - a) * q = k - c /\ (q0 - q) * a = e - c
      BY <3>3
    <3>5. (g + (k - c)) - g = ((e - c) - e) + (Fee - (Fee - k))
      BY <1>6, <3>3
    <3> QED BY <1>4, <1>5, <3>1, <3>2, <3>3, <3>4, <3>5
  <2>6. r.qty[f.sym] = b.qty /\ r.cost[f.sym] = b.cost
    BY <1>4, <2>2, <2>4
  <2> QED BY <2>2, <2>4, <2>5, <2>6 DEF r, b
<1> QED BY <1>1, <1>7, <1>8

\* The replay of the longer sequence.
LEMMA ReplayGrows ==
    ASSUME fills \in Seq(Fill), Replayable(fills), NEW f \in Fill, fills' = Append(fills, f)
    PROVE  /\ EngineReplay' = EngineStep(EngineReplay, f)
           /\ ViewStep(EngineReplay, f) = EngineStep(EngineReplay, f) => Replayable(fills)'
<1>1. EngineReplay = EngineAfter(fills)[Len(fills)]
  BY ReplayIsLast
<1>2. EngineReplay' = EngineAfter(fills')[Len(fills')]
  BY DEF EngineReplay, EngineAfter, EngineRun
<1>3. EngineAfter(fills')[Len(fills')] = EngineStep(EngineAfter(fills)[Len(fills)], f)
  BY EngineAppends DEF Replayable
<1>4. ASSUME ViewStep(EngineReplay, f) = EngineStep(EngineReplay, f)
      PROVE  Replayable(fills')
  BY <1>1, <1>4, AlikeAppends
<1> QED BY <1>1, <1>2, <1>3, <1>4

\* The replay of the same sequence.
LEMMA ReplayStays ==
    ASSUME fills' = fills
    PROVE  EngineReplay' = EngineReplay /\ ViewReplay' = ViewReplay
BY DEF EngineReplay, ViewReplay

\* A fill keeps the ledger, and realizes nothing but for today.
LEMMA FillKeepsLedger ==
    ASSUME IInv, NEW s \in Symbols, NEW side \in {"BUY", "SELL"}, NEW q \in 1..MaxQty,
           FillOrder(s, side, q)
    PROVE  /\ Ledger' /\ fills' \in Seq(Fill) /\ book' \in [Symbols -> Position]
           /\ \A d \in Days : d # day => EngineReplay'.gain[d] = EngineReplay.gain[d]
<1>1. PICK f \in Fill :
        /\ f.day = day /\ f.sym = s /\ f.side = side /\ f.qty = q
        /\ f.price = run.close[s]
        /\ fills' = Append(fills, f) /\ fills' \in Seq(Fill)
        /\ Len(fills') = Len(fills) + 1 /\ MaxFills - Len(fills) \in 1..MaxFills
        /\ book' = [book EXCEPT ![s] = ApplyToBook(book[s], side, q, f.price)]
        /\ side = "BUY" => book[s].qty + q <= MaxQty
        /\ side = "SELL" => q <= book[s].qty
  BY FillFacts
<1>2. /\ fills \in Seq(Fill) /\ day \in Days /\ book \in [Symbols -> Position]
      /\ Replayable(fills) /\ EngineReplay \in ReplayState
  BY DEF IInv, TypeOK, Ledger, ReplayOK, Position
<1> DEFINE p == book[s]
           st == EngineReplay
           n == MaxFills - Len(fills)
           r == EngineStep(st, f)
           b == ApplyToBook(p, f.side, f.qty, f.price)
<1>3. /\ p \in Position /\ st.qty[f.sym] = p.qty /\ st.cost[f.sym] = p.cost
      /\ p.cost = p.qty * p.avg /\ p.avg % Grain[n] = 0
  BY <1>1, <1>2 DEF IInv, Ledger, PositionsOK, PositionOK, ReplayOK
<1>4. /\ ViewStep(st, f) = r /\ r \in ReplayState /\ b \in Position
      /\ r.qty[f.sym] = b.qty /\ r.cost[f.sym] = b.cost
      /\ b.cost = b.qty * b.avg /\ b.avg % Grain[n - 1] = 0
      /\ b.qty = 0 => b = NoPosition
      /\ \A t \in Symbols : t # f.sym => r.qty[t] = st.qty[t] /\ r.cost[t] = st.cost[t]
      /\ \A d \in Days : d # f.day => r.gain[d] = st.gain[d]
      /\ r.gain[f.day] - st.gain[f.day] = (b.cost - p.cost) + (Fee - Flow(f))
  <2>1. st \in ReplayState /\ n \in 1..MaxFills
    BY <1>1, <1>2
  <2>2. /\ f.side = "BUY" => p.qty + f.qty <= MaxQty
        /\ f.side = "SELL" => f.qty <= p.qty
    BY <1>1
  <2> HIDE DEF p, st, n, r, b
  <2> QED BY <1>3, <2>1, <2>2, FillStep DEF r, b
<1>5. EngineReplay' = r /\ Replayable(fills)'
  <2>1. EngineReplay' = EngineStep(EngineReplay, f)
    BY <1>1, <1>2, ReplayGrows
  <2>2. ViewStep(EngineReplay, f) = EngineStep(EngineReplay, f)
    BY <1>4
  <2>3. Replayable(fills)'
    BY <1>1, <1>2, <2>2, ReplayGrows
  <2> QED BY <2>1, <2>3
<1>6. book' = [book EXCEPT ![s] = b] /\ f.side = side /\ f.sym = s /\ f.day = day
  BY <1>1
<1> HIDE DEF p, st, n, r, b
<1>7. /\ book' \in [Symbols -> Position] /\ book'[s] = b
      /\ \A t \in Symbols : t # s => book'[t] = book[t]
  BY <1>2, <1>4, <1>6
<1>8. PositionsOK'
  <2>1. Len(fills') = Len(fills) + 1 /\ Len(fills) \in Nat /\ Len(fills) < MaxFills
    <3>1. Len(fills) \in Nat /\ MaxFills \in Nat
      BY <1>2, BoundAssumption
    <3> QED BY <1>1, <3>1
  <2>2. MaxFills - Len(fills') = n - 1 /\ Len(fills') <= MaxFills
    BY <2>1, BoundAssumption DEF n
  <2>3. PositionOK(s)'
    <3>1. book'[s].qty > 0 => LastBuy(s)' \in Prices
      <4>1. LastBuy(s)' = IF f.sym = s /\ f.side = "BUY" THEN f.price ELSE LastBuy(s)
        BY <1>1, <1>2, LastBuyAppends
      <4>2. CASE f.side = "BUY"
        BY <1>6, <4>1, <4>2 DEF Fill
      <4>3. CASE f.side = "SELL"
        <5>1. book[s].qty > 0
          <6>1. PICK h \in 0..MaxQty : h = book[s].qty
            BY <1>2 DEF Position
          <6>2. q <= h /\ q >= 1
            BY <1>1, <4>3, <6>1, BoundAssumption
          <6> QED BY <6>1, <6>2, BoundAssumption
        <5> QED BY <4>1, <4>3, <5>1 DEF IInv, Ledger, PositionsOK, PositionOK
      <4> QED BY <4>2, <4>3 DEF Fill
    <3> QED BY <1>4, <1>7, <2>2, <3>1 DEF PositionOK
  <2>4. ASSUME NEW t \in Symbols, t # s PROVE PositionOK(t)'
    <3>1. book'[t] = book[t] /\ PositionOK(t)
      BY <1>7, <2>4 DEF IInv, Ledger, PositionsOK
    <3>2. LastBuy(t)' = LastBuy(t)
      BY <1>1, <1>2, <2>4, LastBuyAppends
    <3>3. book[t].avg % Grain[n - 1] = 0
      <4>1. MaxQty # 0
        BY BoundAssumption
      <4>2. PICK a \in Nat : a = book[t].avg
        BY <1>2 DEF Position
      <4>3. n \in 1..MaxFills /\ a % Grain[n] = 0
        BY <1>1, <3>1, <4>2 DEF PositionOK, n
      <4> QED BY <4>1, <4>2, <4>3, GrainsDivide
    <3> QED BY <2>2, <3>1, <3>2, <3>3 DEF PositionOK
  <2> QED BY <2>2, <2>3, <2>4 DEF PositionsOK
<1>9. ReplayOK'
  <2>1. ASSUME NEW t \in Symbols
        PROVE  r.qty[t] = book'[t].qty /\ r.cost[t] = book'[t].cost
    <3>1. CASE t = s
      BY <1>4, <1>6, <1>7, <3>1
    <3>2. CASE t # s
      <4>1. st.qty[t] = book[t].qty /\ st.cost[t] = book[t].cost
        BY DEF IInv, Ledger, ReplayOK, st
      <4> QED BY <1>4, <1>6, <1>7, <3>2, <4>1
    <3> QED BY <3>1, <3>2
  <2>2. ASSUME NEW d \in Days, d > day PROVE r.gain[d] = 0
    <3>1. d # day
      BY <1>2, <2>2, BoundAssumption DEF Days
    <3>2. st.gain[d] = 0
      BY <2>2 DEF IInv, Ledger, ReplayOK, st
    <3> QED BY <1>4, <1>6, <3>1, <3>2
  <2>3. day' = day
    BY DEF FillOrder
  <2> QED BY <1>4, <1>5, <2>1, <2>2, <2>3 DEF ReplayOK
<1>10. Balanced'
  <2>1. /\ SumFunction(FlowsOf(fills)) \in Int /\ Flow(f) \in Int
        /\ SumFunction(FlowsOf(fills')) = SumFunction(FlowsOf(fills)) + Flow(f)
    BY <1>1, <1>2, FlowsAppend
  <2>2. /\ SumFunction(CostsOf(book)) \in Int
        /\ SumFunction(CostsOf(book')) = SumFunction(CostsOf(book)) + (b.cost - p.cost)
    <3>1. \A t \in Symbols : book[t].cost \in Int /\ book'[t].cost \in Int
      BY <1>2, <1>7 DEF Position
    <3> QED BY <1>7, <3>1, CostsChange DEF p
  <2>3. /\ SumFunction(GainsOf(st)) \in Int
        /\ SumFunction(GainsOf(r)) = SumFunction(GainsOf(st)) + (r.gain[day] - st.gain[day])
    <3>1. \A d \in Days : st.gain[d] \in Int /\ r.gain[d] \in Int
      BY <1>2, <1>4 DEF ReplayState, st
    <3>2. day \in Days /\ \A d \in Days : d # day => r.gain[d] = st.gain[d]
      BY <1>2, <1>4, <1>6
    <3> QED BY <3>1, <3>2, GainsChange
  <2>4. PICK F0 \in Int, C0 \in Int, G0 \in Int, N \in Nat :
          /\ F0 = SumFunction(FlowsOf(fills)) /\ C0 = SumFunction(CostsOf(book))
          /\ G0 = SumFunction(GainsOf(st)) /\ N = Len(fills)
    <3>1. Len(fills) \in Nat
      BY <1>2
    <3> QED BY <2>1, <2>2, <2>3, <3>1
  <2>5. Seed - F0 + C0 + Fee * N = Seed + G0
    BY <2>4 DEF IInv, Ledger, Balanced, st
  <2>6. PICK w \in Int, c \in Int, g \in Int :
          w = Flow(f) /\ c = b.cost - p.cost /\ g = r.gain[day] - st.gain[day]
    <3>1. b.cost \in Nat /\ p.cost \in Nat
      BY <1>3, <1>4 DEF Position
    <3>2. r.gain[day] \in Int /\ st.gain[day] \in Int
      BY <1>2, <1>4 DEF ReplayState, st
    <3> QED BY <2>1, <3>1, <3>2
  <2>7. g = c + (Fee - w)
    BY <1>4, <1>6, <2>6
  <2>8. Fee * (N + 1) = Fee * N + Fee /\ Fee * N \in Nat /\ Fee \in Nat /\ Seed \in Nat
    BY ValueAssumption
  <2>9. Seed - (F0 + w) + (C0 + c) + Fee * (N + 1) = Seed + (G0 + g)
    BY <2>5, <2>7, <2>8
  <2> QED BY <1>1, <1>5, <2>1, <2>2, <2>3, <2>4, <2>6, <2>9 DEF Balanced
<1>11. \A d \in Days : d # day => EngineReplay'.gain[d] = EngineReplay.gain[d]
  BY <1>4, <1>5, <1>6 DEF st
<1> QED BY <1>1, <1>5, <1>7, <1>8, <1>9, <1>10, <1>11 DEF Ledger

\* And the invariant.
LEMMA FillKeeps ==
    ASSUME IInv, NEW s \in Symbols, NEW side \in {"BUY", "SELL"}, NEW q \in 1..MaxQty,
           FillOrder(s, side, q)
    PROVE  IInv'
<1>1. Ledger' /\ fills' \in Seq(Fill) /\ book' \in [Symbols -> Position]
  BY FillKeepsLedger
<1>2. /\ run' = [run EXCEPT !.left = @ \ {s}] /\ asOf' = 0
      /\ day' = day /\ ltp' = ltp /\ daily' = daily /\ ranToday' = ranToday /\ poll' = poll
  BY DEF FillOrder
<1>3. run \in [on : BOOLEAN, close : [Symbols -> Prices \cup {0}], left : SUBSET Symbols]
  BY DEF IInv, TypeOK
<1>4. /\ run' \in [on : BOOLEAN, close : [Symbols -> Prices \cup {0}], left : SUBSET Symbols]
      /\ run'.close = run.close /\ run'.left \subseteq run.left
  BY <1>2, <1>3
<1>5. TypeOK'
  <2>1. asOf' \in 0..MaxDay
    BY <1>2, BoundAssumption
  <2> QED BY <1>1, <1>2, <1>4, <2>1 DEF IInv, TypeOK, Position
<1>6. LeftHaveCloses'
  BY <1>4 DEF IInv, LeftHaveCloses
<1>7. SinceRefresh'
  BY <1>2 DEF SinceRefresh
<1>8. NoRowAhead'
  BY <1>2 DEF IInv, NoRowAhead
<1> QED BY <1>1, <1>5, <1>6, <1>7, <1>8 DEF IInv

-----------------------------------------------------------------------------
(***************************************************************************)
(* The other actions                                                       *)
(***************************************************************************)

\* Without a fill the ledger stays as it is, today and later.
LEMMA LedgerStays ==
    ASSUME Ledger, fills' = fills, book' = book, day \in Nat, day' \in Nat, day <= day'
    PROVE  Ledger' /\ EngineReplay' = EngineReplay
<1>1. EngineReplay' = EngineReplay
  BY ReplayStays
<1>2. PositionsOK'
  <2>1. ASSUME NEW s \in Symbols PROVE PositionOK(s)'
    <3>1. LastBuy(s)' = LastBuy(s)
      BY DEF LastBuy
    <3>2. PositionOK(s)
      BY DEF Ledger, PositionsOK
    <3> QED BY <3>1, <3>2 DEF PositionOK
  <2> QED BY <2>1 DEF Ledger, PositionsOK
<1>3. ReplayOK'
  <2>1. \A d \in Days : d > day' => d > day
    BY BoundAssumption DEF Days
  <2> QED BY <1>1, <2>1 DEF Ledger, ReplayOK
<1>4. Replayable(fills)' /\ Balanced'
  BY <1>1 DEF Ledger, Balanced
<1> QED BY <1>1, <1>2, <1>3, <1>4 DEF Ledger

\* What was last paid is a price, or nothing.
LEMMA LastBuyIsPrice ==
    ASSUME fills \in Seq(Fill), NEW s
    PROVE  LastBuy(s) \in Prices \cup {0}
<1> DEFINE N == Len(fills)
           B == {i \in 1..N : fills[i].sym = s /\ fills[i].side = "BUY"}
<1>1. LastBuy(s) = IF B = {} THEN 0 ELSE fills[Max(B)].price
  BY DEF LastBuy
<1>2. CASE B = {}
  BY <1>1, <1>2
<1>3. CASE B # {}
  <2>1. N \in Nat /\ B \in SUBSET (1..N)
    OBVIOUS
  <2>2. Max(B) \in B
    <3> HIDE DEF B, N
    <3> QED BY <1>3, <2>1, MaxIs
  <2>3. Max(B) \in 1..N
    BY <2>2
  <2>4. fills[Max(B)] \in Fill
    <3> HIDE DEF B
    <3> QED BY <2>3, ElementOfSeq
  <2> QED BY <1>1, <1>3, <2>4 DEF Fill
<1> QED BY <1>2, <1>3

\* A price, or none, is a number.
LEMMA PriceNat == ASSUME NEW p \in Prices \cup {0} PROVE p \in Nat
<1>1. CASE p \in Prices
  BY <1>1, ValueAssumption
<1>2. CASE p = 0
  BY <1>2
<1> QED BY <1>1, <1>2

\* A mark is an amount, and so is what is unrealized at amounts.
LEMMA UnrealizedInt ==
    ASSUME TypeOK, NEW price, \A s \in Symbols : price[s] \in Nat
    PROVE  Unrealized(price) \in Int
<1> DEFINE H == {t \in Held : price[t] # 0}
           F == [s \in H |-> book[s].qty * (price[s] - book[s].avg)]
<1>1. H \subseteq Symbols /\ IsFiniteSet(H)
  <2>1. H \subseteq Symbols
    BY DEF Held
  <2> QED BY <2>1, SymbolsAssumption, FS_Subset
<1>2. ASSUME NEW s \in H PROVE F[s] \in Int
  <2>1. s \in Symbols
    BY <1>1
  <2>2. PICK q \in Nat, a \in Nat, p \in Nat : q = book[s].qty /\ a = book[s].avg /\ p = price[s]
    <3>1. book[s].qty \in 0..MaxQty /\ book[s].avg \in Nat
      BY <2>1 DEF TypeOK
    <3> QED BY <2>1, <3>1, BoundAssumption
  <2>3. q * (p - a) \in Int
    BY <2>2
  <2> QED BY <2>2, <2>3
<1>3. Unrealized(price) = SumFunction(F) /\ DOMAIN F = H
  BY DEF Unrealized
<1> HIDE DEF F, H
<1>4. SumFunction(F) = Total(F, H)
  BY <1>3, TotalIsSum
<1>5. Total(F, H) \in Int
  BY <1>1, <1>2, TotalInt
<1> QED BY <1>3, <1>4, <1>5

LEMMA MarksNat ==
    ASSUME TypeOK
    PROVE  \A s \in Symbols : FallbackLtp(s) \in Nat /\ Marks[s] = FallbackLtp(s)
<1>1. ASSUME NEW s \in Symbols PROVE FallbackLtp(s) \in Nat
  <2>1. LastBuy(s) \in Prices \cup {0}
    BY LastBuyIsPrice DEF TypeOK
  <2>2. ltp[s] \in Prices \cup {0}
    BY DEF TypeOK
  <2>3. FallbackLtp(s) \in Prices \cup {0}
    BY <2>1, <2>2 DEF FallbackLtp
  <2> QED BY <2>3, PriceNat
<1> QED BY <1>1 DEF Marks

\* Marks and holdings as they were: what is unrealized stays.
LEMMA UnrealizedStays ==
    ASSUME fills' = fills, book' = book, ltp' = ltp
    PROVE  Unrealized(Marks)' = Unrealized(Marks)
BY DEF Unrealized, Marks, FallbackLtp, LastBuy, Held

\* The day's row is written.
LEMMA RowWritten ==
    ASSUME IInv, NEW price, \A s \in Symbols : price[s] \in Nat, WriteRow(price)
    PROVE  /\ daily' \in [Days -> [realized : Int, unrealized : Int, present : BOOLEAN]]
           /\ daily'[day].present /\ daily'[day].unrealized = Unrealized(price)
           /\ daily'[day].realized = EngineReplay.gain[day]
           /\ \A d \in Days : d # day => daily'[d] = daily[d]
<1>1. day \in Days /\ daily \in [Days -> [realized : Int, unrealized : Int, present : BOOLEAN]]
  BY DEF IInv, TypeOK
<1>2. PICK u \in Int : u = Unrealized(price)
  BY UnrealizedInt DEF IInv
<1>3. PICK g \in Int : g = EngineReplay.gain[day]
  BY <1>1 DEF IInv, Ledger, ReplayOK, ReplayState
<1>4. daily' = [daily EXCEPT ![day] = [realized |-> g, unrealized |-> u, present |-> TRUE]]
  BY <1>2, <1>3 DEF WriteRow, Realized
<1> QED BY <1>1, <1>2, <1>3, <1>4

\* A row of today is none of a day ahead.
LEMMA RowNotAhead ==
    ASSUME NoRowAhead, day' = day, day \in Days,
           \A d \in Days : d # day => daily'[d] = daily[d]
    PROVE  NoRowAhead'
<1>1. \A d \in Days : d > day => d # day
  BY BoundAssumption DEF Days
<1> QED BY <1>1 DEF NoRowAhead

LEMMA NoRunType ==
    /\ NoRun \in [on : BOOLEAN, close : [Symbols -> Prices \cup {0}], left : SUBSET Symbols]
    /\ NoRun.left = {}
    /\ NoPoll \in [on : BOOLEAN, held : SUBSET Symbols]
BY DEF NoRun, NoPoll, NoClose

\* The run begins, the poll begins, or the worker dies: the tables stay.
LEMMA JobsKeep ==
    ASSUME IInv, BeginRun \/ BeginPoll \/ Crash
    PROVE  IInv'
<1>1. /\ fills' = fills /\ book' = book /\ day' = day /\ ltp' = ltp /\ daily' = daily
      /\ ranToday' = ranToday /\ asOf' = asOf
  BY DEF BeginRun, BeginPoll, Crash
<1>2. /\ run' \in [on : BOOLEAN, close : [Symbols -> Prices \cup {0}], left : SUBSET Symbols]
      /\ LeftHaveCloses'
  <2>1. CASE BeginRun
    <3>1. PICK close \in [Symbols -> Prices \cup {0}] :
             run' = [on |-> TRUE, close |-> close, left |-> {s \in Symbols : close[s] > 0}]
      BY <2>1 DEF BeginRun
    <3>2. ASSUME NEW s \in run'.left PROVE run'.close[s] \in Prices
      <4>1. s \in Symbols /\ close[s] > 0 /\ close[s] \in Prices \cup {0}
        BY <3>1, <3>2
      <4>2. close[s] # 0
        BY <4>1
      <4> QED BY <3>1, <4>1, <4>2
    <3> QED BY <3>1, <3>2 DEF LeftHaveCloses
  <2>2. CASE BeginPoll
    BY <2>2 DEF BeginPoll, IInv, TypeOK, LeftHaveCloses
  <2>3. CASE Crash
    BY <2>3, NoRunType DEF Crash, LeftHaveCloses
  <2> QED BY <2>1, <2>2, <2>3
<1>3. poll' \in [on : BOOLEAN, held : SUBSET Symbols]
  <2>1. CASE BeginRun
    BY <2>1 DEF BeginRun, IInv, TypeOK
  <2>2. CASE BeginPoll
    <3>1. Held \in SUBSET Symbols
      BY DEF Held
    <3> QED BY <2>2, <3>1 DEF BeginPoll
  <2>3. CASE Crash
    BY <2>3, NoRunType DEF Crash
  <2> QED BY <2>1, <2>2, <2>3
<1>4. day \in Nat
  BY BoundAssumption DEF IInv, TypeOK, Days
<1>5. Ledger' /\ EngineReplay' = EngineReplay
  BY <1>1, <1>4, LedgerStays DEF IInv
<1>6. TypeOK'
  BY <1>1, <1>2, <1>3 DEF IInv, TypeOK
<1>7. SinceRefresh'
  BY <1>1, <1>5, UnrealizedStays DEF IInv, SinceRefresh
<1>8. NoRowAhead'
  BY <1>1 DEF IInv, NoRowAhead
<1> QED BY <1>2, <1>5, <1>6, <1>7, <1>8 DEF IInv

\* The run ends with a row at its closes.
LEMMA EndRunKeeps ==
    ASSUME IInv, EndRun
    PROVE  IInv'
<1>1. /\ fills' = fills /\ book' = book /\ day' = day /\ ltp' = ltp /\ poll' = poll
      /\ ranToday' = TRUE /\ asOf' = 0 /\ run' = NoRun /\ WriteRow(run.close)
  BY DEF EndRun
<1>2. day \in Days /\ day \in Nat
  BY BoundAssumption DEF IInv, TypeOK, Days
<1>3. Ledger'
  BY <1>1, <1>2, LedgerStays DEF IInv
<1>4. \A s \in Symbols : run.close[s] \in Nat
  <2>1. run.close \in [Symbols -> Prices \cup {0}]
    BY DEF IInv, TypeOK
  <2> QED BY <2>1, PriceNat
<1>5. /\ daily' \in [Days -> [realized : Int, unrealized : Int, present : BOOLEAN]]
      /\ \A d \in Days : d # day => daily'[d] = daily[d]
  BY <1>1, <1>4, RowWritten
<1>6. TypeOK'
  <2>1. 0 \in 0..MaxDay
    BY BoundAssumption
  <2> QED BY <1>1, <1>5, <2>1, NoRunType DEF IInv, TypeOK
<1>7. LeftHaveCloses' /\ SinceRefresh'
  BY <1>1, NoRunType DEF LeftHaveCloses, SinceRefresh
<1>8. NoRowAhead'
  BY <1>1, <1>2, <1>5, RowNotAhead DEF IInv
<1> QED BY <1>3, <1>6, <1>7, <1>8 DEF IInv

\* The poll ends with new marks.
LEMMA EndPollKeeps ==
    ASSUME IInv, EndPoll
    PROVE  IInv'
<1>1. /\ fills' = fills /\ book' = book /\ day' = day /\ daily' = daily /\ run' = run
      /\ ranToday' = ranToday /\ asOf' = 0 /\ poll' = NoPoll
  BY DEF EndPoll
<1>2. day \in Nat
  BY BoundAssumption DEF IInv, TypeOK, Days
<1>3. Ledger'
  BY <1>1, <1>2, LedgerStays DEF IInv
<1>4. ltp' \in [Symbols -> Prices \cup {0}]
  <2>1. PICK price \in [poll.held -> Prices \cup {0}] :
           ltp' = [s \in Symbols |->
                     IF s \in poll.held /\ price[s] # 0 THEN price[s] ELSE ltp[s]]
    BY DEF EndPoll
  <2>2. ltp \in [Symbols -> Prices \cup {0}]
    BY DEF IInv, TypeOK
  <2> QED BY <2>1, <2>2
<1>5. TypeOK'
  <2>1. 0 \in 0..MaxDay
    BY BoundAssumption
  <2> QED BY <1>1, <1>4, <2>1, NoRunType DEF IInv, TypeOK
<1>6. LeftHaveCloses' /\ SinceRefresh' /\ NoRowAhead'
  BY <1>1 DEF IInv, LeftHaveCloses, SinceRefresh, NoRowAhead
<1> QED BY <1>3, <1>5, <1>6 DEF IInv

\* The refresh writes a row at the marks: as the one before it did, if nothing
\* has changed since.
LEMMA RefreshKeeps ==
    ASSUME IInv, Refresh
    PROVE  IInv'
<1>1. /\ fills' = fills /\ book' = book /\ day' = day /\ ltp' = ltp /\ poll' = poll
      /\ run' = run /\ ranToday' = ranToday
      /\ asOf' = (IF asOf = 0 THEN day ELSE asOf) /\ WriteRow(Marks)
  BY DEF Refresh, Marks
<1>2. day \in Days /\ day \in Nat /\ day # 0 /\ asOf \in 0..MaxDay /\ day \in 0..MaxDay
  BY BoundAssumption DEF IInv, TypeOK, Days
<1>3. Ledger' /\ EngineReplay' = EngineReplay
  BY <1>1, <1>2, LedgerStays DEF IInv
<1>4. /\ daily' \in [Days -> [realized : Int, unrealized : Int, present : BOOLEAN]]
      /\ daily'[day].present /\ daily'[day].unrealized = Unrealized(Marks)
      /\ daily'[day].realized = EngineReplay.gain[day]
      /\ \A d \in Days : d # day => daily'[d] = daily[d]
  <2>1. \A s \in Symbols : Marks[s] \in Nat
    BY MarksNat DEF IInv
  <2> HIDE DEF Marks
  <2> QED BY <1>1, <2>1, RowWritten
<1>5. TypeOK'
  BY <1>1, <1>2, <1>4 DEF IInv, TypeOK
<1>6. LeftHaveCloses'
  BY <1>1 DEF IInv, LeftHaveCloses
<1>7. NoRowAhead'
  BY <1>1, <1>2, <1>4, RowNotAhead DEF IInv
<1>8. SinceRefresh'
  <2>u. Unrealized(Marks)' = Unrealized(Marks)
    BY <1>1, UnrealizedStays
  <2>1. CASE asOf = 0
    <3>1. asOf' = day
      BY <1>1, <2>1
    <3>2. ASSUME NEW d \in day..day PROVE daily'[d].unrealized = Unrealized(Marks)
      <4>1. d = day
        BY <1>2
      <4> QED BY <1>4, <4>1
    <3>3. ASSUME NEW d \in Days, d > day PROVE EngineReplay.gain[d] = 0 /\ daily'[d].realized = 0
      <4>1. d # day
        BY <1>2, <3>3 DEF Days
      <4>2. daily[d] = NoRow /\ EngineReplay.gain[d] = 0
        BY <3>3 DEF IInv, NoRowAhead, Ledger, ReplayOK
      <4> QED BY <1>4, <4>1, <4>2 DEF NoRow
    <3>4. asOf' <= day' /\ daily'[asOf'].present
      BY <1>1, <1>2, <1>4, <3>1
    <3> QED BY <1>1, <1>3, <2>u, <3>1, <3>2, <3>3, <3>4 DEF SinceRefresh
  <2>2. CASE asOf # 0
    <3>1. /\ asOf' = asOf /\ asOf <= day /\ daily[asOf].present /\ asOf \in Days
          /\ \A d \in asOf..day : daily[d].present => daily[d].unrealized = Unrealized(Marks)
          /\ \A d \in Days : d > asOf => EngineReplay.gain[d] = 0 /\ daily[d].realized = 0
      BY <1>1, <1>2, <2>2 DEF IInv, SinceRefresh, Days
    <3>2. daily'[asOf].present
      BY <1>4, <3>1
    <3>3. ASSUME NEW d \in asOf..day, daily'[d].present
          PROVE  daily'[d].unrealized = Unrealized(Marks)
      <4>1. d \in Days
        <5>1. asOf \in Nat /\ asOf >= 1 /\ day <= MaxDay /\ MaxDay \in Nat
          BY <1>2, <2>2, BoundAssumption DEF Days
        <5> QED BY <1>2, <5>1 DEF Days
      <4> QED BY <1>4, <3>1, <3>3, <4>1
    <3>4. ASSUME NEW d \in Days, d > asOf PROVE EngineReplay.gain[d] = 0 /\ daily'[d].realized = 0
      BY <1>4, <3>1, <3>4
    <3> QED BY <1>1, <1>3, <2>u, <3>1, <3>2, <3>3, <3>4 DEF SinceRefresh
  <2> QED BY <2>1, <2>2
<1> QED BY <1>3, <1>5, <1>6, <1>7, <1>8 DEF IInv

\* The day after has no row yet.
LEMMA NextDayKeeps ==
    ASSUME IInv, NextDay
    PROVE  IInv'
<1>1. /\ fills' = fills /\ book' = book /\ ltp' = ltp /\ daily' = daily /\ run' = run
      /\ poll' = poll /\ asOf' = asOf /\ day' = day + 1 /\ ranToday' = FALSE /\ day < MaxDay
  BY DEF NextDay
<1>2. day \in Days /\ day \in Nat /\ day' \in Days /\ day' \in Nat /\ asOf \in Nat
  BY <1>1, BoundAssumption DEF IInv, TypeOK, Days
<1>3. Ledger' /\ EngineReplay' = EngineReplay
  BY <1>1, <1>2, LedgerStays DEF IInv
<1>4. TypeOK'
  BY <1>1, <1>2 DEF IInv, TypeOK
<1>5. LeftHaveCloses'
  BY <1>1 DEF IInv, LeftHaveCloses
<1>6. NoRowAhead'
  <2>1. \A d \in Days : d > day + 1 => d > day
    BY <1>2 DEF Days
  <2> QED BY <1>1, <2>1 DEF IInv, NoRowAhead
<1>7. SinceRefresh'
  <2>1. SUFFICES ASSUME asOf # 0 PROVE SinceRefresh'
    BY <1>1 DEF SinceRefresh
  <2>2. /\ asOf <= day /\ daily[asOf].present
        /\ \A d \in asOf..day : daily[d].present => daily[d].unrealized = Unrealized(Marks)
        /\ \A d \in Days : d > asOf => EngineReplay.gain[d] = 0 /\ daily[d].realized = 0
    BY <2>1 DEF IInv, SinceRefresh
  <2>3. ASSUME NEW d \in asOf..(day + 1), daily[d].present
        PROVE  daily[d].unrealized = Unrealized(Marks)
    <3>1. CASE d = day + 1
      <4>1. daily[d] = NoRow
        BY <1>1, <1>2, <3>1 DEF IInv, NoRowAhead
      <4> QED BY <2>3, <4>1 DEF NoRow
    <3>2. CASE d # day + 1
      <4>1. d \in asOf..day
        BY <1>2, <3>2
      <4> QED BY <2>2, <2>3, <4>1
    <3> QED BY <3>1, <3>2
  <2>4. asOf <= day + 1
    BY <1>2, <2>2
  <2>5. Unrealized(Marks)' = Unrealized(Marks)
    BY <1>1, UnrealizedStays
  <2> QED BY <1>1, <1>3, <2>2, <2>3, <2>4, <2>5 DEF SinceRefresh
<1> QED BY <1>3, <1>4, <1>5, <1>6, <1>7 DEF IInv

-----------------------------------------------------------------------------
(***************************************************************************)
(* Theorems                                                                *)
(***************************************************************************)

\* Nothing was traded yet.
LEMMA InitHolds == Init => IInv
<1> SUFFICES ASSUME Init PROVE IInv
  OBVIOUS
<1>1. fills = <<>> /\ Len(fills) = 0 /\ fills \in Seq(Fill)
  BY DEF Init
<1>2. /\ day = 1 /\ asOf = 0 /\ run = NoRun /\ poll = NoPoll /\ ranToday = FALSE
      /\ ltp = NoClose /\ book = [s \in Symbols |-> NoPosition]
      /\ daily = [d \in Days |-> NoRow]
  BY DEF Init
<1>3. TypeOK
  <2>1. NoPosition \in [qty : 0..MaxQty, avg : Nat, cost : Nat]
    BY BoundAssumption DEF NoPosition
  <2>2. NoRow \in [realized : Int, unrealized : Int, present : BOOLEAN]
    BY DEF NoRow
  <2>3. 1 \in Days /\ 0 \in 0..MaxDay
    BY BoundAssumption DEF Days
  <2> QED BY <1>1, <1>2, <2>1, <2>2, <2>3, NoRunType DEF TypeOK, NoClose
<1>4. LeftHaveCloses /\ NoRowAhead /\ SinceRefresh
  BY <1>2, NoRunType DEF LeftHaveCloses, NoRowAhead, SinceRefresh
<1>5. PositionsOK
  <2>1. 0 <= MaxFills /\ MaxFills - 0 = MaxFills
    BY BoundAssumption
  <2>2. 0 % Grain[MaxFills] = 0
    <3>1. PICK g \in Nat \ {0} : g = Grain[MaxFills]
      BY GrainAssumption, BoundAssumption
    <3>2. 0 % g = 0
      OBVIOUS
    <3> QED BY <3>1, <3>2
  <2>3. NoPosition.cost = NoPosition.qty * NoPosition.avg /\ ~(NoPosition.qty > 0)
    BY DEF NoPosition
  <2> QED BY <1>1, <1>2, <2>1, <2>2, <2>3 DEF PositionsOK, PositionOK, NoPosition
<1>6. Replayable(fills) /\ EngineReplay = Fresh
  BY <1>1, NothingToReplay, ReplayIsLast
<1>7. ReplayOK
  <2>1. Fresh \in ReplayState
    BY DEF Fresh, ReplayState
  <2> QED BY <1>2, <1>6, <2>1 DEF ReplayOK, Fresh, NoPosition
<1>8. Balanced
  <2>1. SumFunction(FlowsOf(fills)) = 0
    <3>1. DOMAIN FlowsOf(fills) = {}
      BY <1>1 DEF FlowsOf
    <3> QED BY <3>1, TotalIsSum, TotalOfNone
  <2>2. SumFunction(CostsOf(book)) = 0
    <3>1. DOMAIN CostsOf(book) = Symbols /\ \A s \in Symbols : CostsOf(book)[s] = 0
      BY <1>2 DEF CostsOf, NoPosition
    <3> QED BY <3>1, SymbolsAssumption, TotalIsSum, TotalOfZeros
  <2>3. SumFunction(GainsOf(EngineReplay)) = 0
    <3>1. /\ DOMAIN GainsOf(EngineReplay) = Days
          /\ \A d \in Days : GainsOf(EngineReplay)[d] = 0
      BY <1>6 DEF GainsOf, Fresh
    <3>2. IsFiniteSet(Days)
      BY BoundAssumption, FS_Interval DEF Days
    <3> QED BY <3>1, <3>2, TotalIsSum, TotalOfZeros
  <2> QED BY <1>1, <2>1, <2>2, <2>3, ValueAssumption DEF Balanced
<1> QED BY <1>3, <1>4, <1>5, <1>6, <1>7, <1>8 DEF IInv, Ledger

\* Every step keeps the invariant.
LEMMA NextKeeps == IInv /\ [Next]_vars => IInv'
<1> SUFFICES ASSUME IInv, [Next]_vars PROVE IInv'
  OBVIOUS
<1>1. CASE BeginRun \/ BeginPoll \/ Crash
  BY <1>1, JobsKeep
<1>2. CASE EndRun
  BY <1>2, EndRunKeeps
<1>3. CASE \E s \in Symbols, side \in {"BUY", "SELL"}, q \in 1..MaxQty : FillOrder(s, side, q)
  BY <1>3, FillKeeps
<1>4. CASE EndPoll
  BY <1>4, EndPollKeeps
<1>5. CASE Refresh
  BY <1>5, RefreshKeeps
<1>6. CASE NextDay
  BY <1>6, NextDayKeeps
<1>7. CASE UNCHANGED vars
  <2>1. /\ fills' = fills /\ book' = book /\ day' = day /\ ltp' = ltp /\ daily' = daily
        /\ ranToday' = ranToday /\ asOf' = asOf /\ run' = run /\ poll' = poll
    BY <1>7 DEF vars
  <2>2. day \in Nat
    BY BoundAssumption DEF IInv, TypeOK, Days
  <2>3. Ledger' /\ EngineReplay' = EngineReplay
    BY <2>1, <2>2, LedgerStays DEF IInv
  <2>4. TypeOK' /\ LeftHaveCloses' /\ NoRowAhead'
    BY <2>1 DEF IInv, TypeOK, LeftHaveCloses, NoRowAhead
  <2>5. SinceRefresh'
    BY <2>1, <2>3, UnrealizedStays DEF IInv, SinceRefresh
  <2> QED BY <2>3, <2>4, <2>5 DEF IInv
<1> QED BY <1>1, <1>2, <1>3, <1>4, <1>5, <1>6, <1>7 DEF Next

\* The inductive invariant holds: whatever is filled, polled and refreshed, and
\* whenever the worker dies, the ledger balances.
THEOREM SpecIInv == Spec => []IInv
<1>1. Init => IInv
  BY InitHolds
<1>2. IInv /\ [Next]_vars => IInv'
  BY NextKeeps
<1> QED BY <1>1, <1>2, PTL DEF Spec

\* The variables keep their types: paper_book's averages and costs stay whole
\* and not negative under every order of fills.
THEOREM TypesHold == Spec => []TypeOK
<1>1. IInv => TypeOK
  BY DEF IInv
<1> QED BY <1>1, SpecIInv, PTL

\* What _apply_to_book keeps in place, the engine's replay and the replay of the
\* pages never disagree.
THEOREM ReplaysNeverDisagree == Spec => []ReplaysAgree
<1>1. IInv => ReplaysAgree
  <2> SUFFICES ASSUME IInv PROVE ReplaysAgree
    OBVIOUS
  <2>1. ViewReplay = EngineReplay
    <3>1. fills \in Seq(Fill) /\ Replayable(fills)
      BY DEF IInv, TypeOK, Ledger
    <3> QED BY <3>1, ViewIsEngine, ReplayIsLast
  <2> QED BY <2>1 DEF IInv, Ledger, PositionsOK, PositionOK, ReplayOK, ReplaysAgree
<1> QED BY <1>1, SpecIInv, PTL

\* What a position that is held is marked at.
LEMMA MarkOfHeld ==
    ASSUME IInv, NEW s \in Held
    PROVE  /\ s \in Symbols /\ MarkedPrice(s) = FallbackLtp(s) /\ FallbackLtp(s) # 0
           /\ \E q \in Nat, a \in Nat, m \in Nat :
                 /\ q = book[s].qty /\ a = book[s].avg /\ m = FallbackLtp(s)
                 /\ book[s].cost = q * a
<1>1. s \in Symbols /\ book[s].qty > 0
  BY DEF Held
<1>2. LastBuy(s) \in Prices /\ book[s].cost = book[s].qty * book[s].avg
  BY <1>1 DEF IInv, Ledger, PositionsOK, PositionOK
<1>3. LastBuy(s) # 0
  BY <1>2, ValueAssumption
<1>4. MarkedPrice(s) = FallbackLtp(s) /\ FallbackLtp(s) # 0
  BY <1>3 DEF MarkedPrice, FallbackLtp
<1>5. FallbackLtp(s) \in Nat
  BY <1>1, MarksNat DEF IInv
<1>6. book[s].qty \in Nat /\ book[s].avg \in Nat
  <2>1. book[s].qty \in 0..MaxQty /\ book[s].avg \in Nat
    BY <1>1 DEF IInv, TypeOK
  <2> QED BY <2>1, BoundAssumption
<1> QED BY <1>1, <1>2, <1>4, <1>5, <1>6

\* What is held is finitely much.
LEMMA HeldFinite == Held \subseteq Symbols /\ IsFiniteSet(Held)
<1>1. Held \subseteq Symbols
  BY DEF Held
<1> QED BY <1>1, SymbolsAssumption, FS_Subset

\* What the holdings are worth is what they cost and what is unrealized.
LEMMA WorthOfHeld ==
    ASSUME IInv
    PROVE  /\ OpenPnl \in Int /\ SumFunction(CostsOf(book)) \in Int
           /\ PortfolioValue = Cash + (OpenPnl + SumFunction(CostsOf(book)))
<1> DEFINE V == [s \in Held |->
                  book[s].qty * (IF FallbackLtp(s) = 0 THEN book[s].avg ELSE FallbackLtp(s))]
           O == [s \in Held |-> (MarkedPrice(s) - book[s].avg) * book[s].qty]
           C == CostsOf(book)
<1>1. PortfolioValue = Cash + SumFunction(V) /\ OpenPnl = SumFunction(O)
  BY DEF PortfolioValue, OpenPnl
<1>2. SumFunction(V) = Total(V, Held) /\ SumFunction(O) = Total(O, Held)
  BY TotalIsSum
<1>3. SumFunction(C) = Total(C, Symbols)
  <2>1. DOMAIN C = Symbols
    BY DEF CostsOf
  <2> HIDE DEF C
  <2> QED BY <2>1, TotalIsSum
<1>4. \A s \in Symbols : C[s] \in Int /\ C[s] = book[s].cost
  BY DEF CostsOf, IInv, TypeOK
<1>5. ASSUME NEW s \in Held
      PROVE  O[s] \in Int /\ C[s] \in Int /\ V[s] = O[s] + C[s]
  <2>1. /\ s \in Symbols /\ MarkedPrice(s) = FallbackLtp(s) /\ FallbackLtp(s) # 0
    BY MarkOfHeld
  <2>2. PICK q \in Nat, a \in Nat, m \in Nat :
          /\ q = book[s].qty /\ a = book[s].avg /\ m = FallbackLtp(s)
          /\ book[s].cost = q * a
    BY MarkOfHeld
  <2>3. V[s] = q * m /\ O[s] = (m - a) * q
    BY <2>1, <2>2
  <2>4. C[s] = q * a
    BY <1>4, <2>1, <2>2
  <2>5. PICK x \in Nat, y \in Nat : x = q * m /\ y = q * a
    OBVIOUS
  <2>6. (m - a) * q = x - y
    BY <2>5
  <2> QED BY <2>3, <2>4, <2>5, <2>6
<1>6. ASSUME NEW s \in Symbols \ Held PROVE C[s] = 0
  <2>1. book[s].qty \in 0..MaxQty /\ ~(book[s].qty > 0)
    BY DEF Held, IInv, TypeOK
  <2>2. book[s].qty = 0
    BY <2>1, BoundAssumption
  <2>3. book[s] = NoPosition
    BY <2>2 DEF IInv, Ledger, PositionsOK, PositionOK
  <2> QED BY <1>4, <2>3 DEF NoPosition
<1> HIDE DEF V, O, C
<1>7. Total(V, Held) = Total(O, Held) + Total(C, Held)
  BY <1>5, HeldFinite, TotalSplit
<1>8. Total(C, Held) = Total(C, Symbols)
  BY <1>4, <1>6, HeldFinite, SymbolsAssumption, TotalWithin
<1>9. Total(O, Held) \in Int /\ Total(C, Symbols) \in Int
  BY <1>4, <1>5, HeldFinite, SymbolsAssumption, TotalInt
<1> QED BY <1>1, <1>2, <1>3, <1>7, <1>8, <1>9 DEF C

\* The books balance at every moment: paper_portfolio_value, from cash and
\* marks, is the seed and the cumulative profit of the tiles less the charges.
THEOREM TilesAlwaysAgree == Spec => []TilesAgree
<1>1. IInv => TilesAgree
  <2> SUFFICES ASSUME IInv PROVE TilesAgree
    OBVIOUS
  <2>1. fills \in Seq(Fill) /\ EngineReplay \in ReplayState
    BY DEF IInv, TypeOK, Ledger, ReplayOK
  <2>2. Cash = Seed - SumFunction(FlowsOf(fills))
    BY DEF Cash, FlowsOf, Flow
  <2>3. Cumulative = SumFunction(GainsOf(EngineReplay)) + OpenPnl
    BY DEF Cumulative, GainsOf, Realized
  <2>4. SumFunction(GainsOf(EngineReplay)) \in Int
    <3> DEFINE G == GainsOf(EngineReplay)
    <3>1. DOMAIN G = Days /\ \A d \in Days : G[d] \in Int
      BY <2>1 DEF GainsOf, ReplayState
    <3>2. IsFiniteSet(Days)
      BY BoundAssumption, FS_Interval DEF Days
    <3> HIDE DEF G
    <3>3. SumFunction(G) \in Int
      BY <3>1, <3>2, TotalIsSum, TotalInt
    <3> QED BY <3>3 DEF G
  <2>5. SumFunction(FlowsOf(fills)) \in Int
    <3>1. CASE Fill = {}
      <4>1. Len(fills) = 0
        <5>1. CASE Len(fills) # 0
          <6>1. Len(fills) \in Nat /\ 1 \in 1..Len(fills)
            BY <2>1, <5>1
          <6>2. fills[1] \in Fill
            BY <2>1, <6>1, ElementOfSeq
          <6> QED BY <3>1, <6>2
        <5> QED BY <5>1
      <4>2. DOMAIN FlowsOf(fills) = {}
        BY <4>1 DEF FlowsOf
      <4> QED BY <4>2, TotalIsSum, TotalOfNone
    <3>2. CASE Fill # {}
      BY <2>1, <3>2, FlowsAppend
    <3> QED BY <3>1, <3>2
  <2>6. PICK F0 \in Int, C0 \in Int, G0 \in Int, O0 \in Int, N \in Nat :
          /\ F0 = SumFunction(FlowsOf(fills)) /\ C0 = SumFunction(CostsOf(book))
          /\ G0 = SumFunction(GainsOf(EngineReplay)) /\ O0 = OpenPnl /\ N = Len(fills)
    BY <2>1, <2>4, <2>5, WorthOfHeld
  <2>7. Seed - F0 + C0 + Fee * N = Seed + G0
    BY <2>6 DEF IInv, Ledger, Balanced
  <2>8. Fee * N \in Nat /\ Seed \in Nat
    BY ValueAssumption
  <2>9. PortfolioValue = (Seed - F0) + (O0 + C0)
    BY <2>2, <2>6, WorthOfHeld
  <2>10. Cumulative = G0 + O0
    BY <2>3, <2>6
  <2>11. (Seed - F0) + (O0 + C0) = Seed + (G0 + O0) - Fee * N
    BY <2>7, <2>8
  <2> QED BY <2>6, <2>9, <2>10, <2>11 DEF TilesAgree
<1> QED BY <1>1, SpecIInv, PTL

\* A page opened on a day on which nothing was traded or polled yet shows no
\* change, whatever was carried over from the days before.
THEOREM QuietDaysShowNoChange == Spec => []QuietDayShowsNoChange
<1>1. IInv => QuietDayShowsNoChange
  <2> SUFFICES ASSUME IInv, asOf \in 1..(day - 1) PROVE TodaysChange = 0
    BY DEF QuietDayShowsNoChange
  <2>1. day \in Nat /\ day \in Days /\ asOf \in Nat /\ asOf # 0 /\ asOf < day
    BY BoundAssumption DEF IInv, TypeOK, Days
  <2>2. /\ daily[asOf].present
        /\ \A d \in asOf..day : daily[d].present => daily[d].unrealized = Unrealized(Marks)
        /\ daily[day].realized = 0
    BY <2>1 DEF IInv, SinceRefresh
  <2>3. OpenPnl = Unrealized(Marks)
    <3> DEFINE O == [s \in Held |-> (MarkedPrice(s) - book[s].avg) * book[s].qty]
               H == {t \in Held : Marks[t] # 0}
               U == [s \in H |-> book[s].qty * (Marks[s] - book[s].avg)]
    <3>1. OpenPnl = SumFunction(O) /\ Unrealized(Marks) = SumFunction(U)
      BY DEF OpenPnl, Unrealized
    <3>2. ASSUME NEW s \in Held PROVE Marks[s] = FallbackLtp(s) /\ Marks[s] # 0
      BY MarkOfHeld DEF Marks
    <3>3. H = Held
      BY <3>2
    <3>4. ASSUME NEW s \in Held PROVE O[s] \in Int /\ U[s] = O[s]
      <4>1. MarkedPrice(s) = FallbackLtp(s)
        BY MarkOfHeld
      <4>2. PICK q \in Nat, a \in Nat, m \in Nat :
              /\ q = book[s].qty /\ a = book[s].avg /\ m = FallbackLtp(s)
        BY MarkOfHeld
      <4>3. O[s] = (m - a) * q /\ U[s] = q * (m - a)
        BY <3>2, <3>3, <4>1, <4>2
      <4> QED BY <4>3
    <3>5. SumFunction(O) = Total(O, Held) /\ SumFunction(U) = Total(U, Held)
      BY <3>3, TotalIsSum
    <3> HIDE DEF O, U, H
    <3>6. Total(U, Held) = Total(O, Held)
      BY <3>4, HeldFinite, TotalSame
    <3> QED BY <3>1, <3>5, <3>6
  <2>4. PriorUnrealized = Unrealized(Marks)
    <3> DEFINE prior == {d \in 1..(day - 1) : daily[d].present}
    <3>1. PriorUnrealized = IF prior = {} THEN 0 ELSE daily[Max(prior)].unrealized
      BY DEF PriorUnrealized
    <3>2. asOf \in prior /\ prior \in SUBSET (1..(day - 1)) /\ day - 1 \in Nat
      BY <2>1, <2>2
    <3>3. Max(prior) \in prior /\ asOf <= Max(prior)
      <4> HIDE DEF prior
      <4> QED BY <3>2, MaxIs
    <3>4. Max(prior) \in asOf..day /\ daily[Max(prior)].present
      <4>1. Max(prior) \in 1..(day - 1) /\ daily[Max(prior)].present
        BY <3>3
      <4> HIDE DEF prior
      <4> QED BY <2>1, <3>3, <4>1
    <3> QED BY <2>2, <3>1, <3>2, <3>4
  <2>5. OpenPnl \in Int
    BY WorthOfHeld
  <2>6. TodaysChange = 0 + OpenPnl - OpenPnl
    BY <2>2, <2>3, <2>4 DEF TodaysChange
  <2> QED BY <2>5, <2>6
<1> QED BY <1>1, SpecIInv, PTL
=============================================================================
