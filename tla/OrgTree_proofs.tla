--------------------------- MODULE OrgTree_proofs ---------------------------
(***************************************************************************)
(* Theorems about the organisation chart of OrgTree: the guard of          *)
(* tree-guard.ts accepts exactly the moves that leave a chart, for any     *)
(* number of positions and any depth, and what the administrators do at    *)
(* the same time keeps a chart a chart.                                    *)
(*                                                                         *)
(* The walks of the guard are recursive functions.  What they reach is     *)
(* shown by induction over the steps of a walk, in the form of LEMMA       *)
(* UpTo: a set of step numbers with 0 and, with a number, the next one.    *)
(***************************************************************************)
EXTENDS OrgTree, Integers, FiniteSetTheorems, FunctionTheorems, WellFoundedInduction, TLAPS

N == Cardinality(Positions)

LEMMA SizeType == N \in Nat
BY OrgConstants, FS_CardinalityType DEF N

-----------------------------------------------------------------------------
(* Induction over step numbers, and what a walk computes                   *)

\* A set of numbers that is not empty has a least element.
LEMMA Least ==
    ASSUME NEW T \in SUBSET Nat, T # {}
    PROVE  \E x \in T : \A y \in T : ~(y < x)
<1>1. IsWellFoundedOn(OpToRel(<, Nat), Nat)
  BY NatLessThanWellFounded
<1>2. \E x \in T : \A y \in T : <<y, x>> \notin OpToRel(<, Nat)
  BY <1>1, WFMin
<1> QED
  BY <1>2 DEF OpToRel

\* What holds of 0 and of the next step whenever it holds of a step, holds of
\* all of them.
LEMMA UpTo ==
    ASSUME NEW m \in Nat, NEW T, 0 \in T,
           \A n \in 0 .. m : n # 0 /\ n - 1 \in T => n \in T
    PROVE  \A n \in 0 .. m : n \in T
<1> DEFINE F == (0 .. m) \ T
<1> SUFFICES ASSUME F # {} PROVE FALSE
  OBVIOUS
<1>1. F \in SUBSET Nat
  OBVIOUS
<1>2. PICK x \in F : \A y \in F : ~(y < x)
  <2> HIDE DEF F
  <2> QED
    BY <1>1, Least
<1>3. x \in 0 .. m /\ x \notin T /\ x # 0
  OBVIOUS
<1>4. x - 1 \in 0 .. m /\ x - 1 < x
  BY <1>3
<1>5. x - 1 \notin F
  <2> HIDE DEF F
  <2> QED
    BY <1>2, <1>4
<1> QED
  BY <1>3, <1>4, <1>5

\* tree-guard.ts: a walk starts where it starts, and each step is taken from
\* what the step before it reached.
LEMMA WalkIs ==
    ASSUME NEW start, NEW step
    PROVE  /\ Walk(start, step)[0] = start
           /\ \A n \in 0 .. N : n # 0 => Walk(start, step)[n] = step[Walk(start, step)[n - 1]]
<1> DEFINE Is(g, m) == g = [n \in 0 .. m |-> IF n = 0 THEN start ELSE step[g[n - 1]]]
           T == {m \in 0 .. N : \E g : Is(g, m)}
<1>0. N \in Nat
  BY SizeType
<1>1. 0 \in T
  <2> DEFINE g == [n \in 0 .. 0 |-> start]
  <2>1. Is(g, 0)
    OBVIOUS
  <2>2. 0 \in 0 .. N
    BY <1>0
  <2>3. \E f : Is(f, 0)
    BY <2>1, Zenon
  <2> QED
    BY <2>2, <2>3
<1>2. ASSUME NEW m \in 0 .. N, m # 0, m - 1 \in T
      PROVE  m \in T
  <2>1. PICK g : Is(g, m - 1)
    BY <1>2
  <2>2. m \in Nat
    BY <1>0
  <2> DEFINE h == [n \in 0 .. m |-> IF n = m THEN step[g[m - 1]] ELSE g[n]]
  <2>3. \A n \in 0 .. m : n # 0 => n - 1 \in 0 .. (m - 1) /\ h[n - 1] = g[n - 1]
    BY <2>2, <1>2
  <2>4. ASSUME NEW n \in 0 .. m
        PROVE  h[n] = IF n = 0 THEN start ELSE step[h[n - 1]]
    <3>1. CASE n = m
      BY <3>1, <2>3, <1>2
    <3>2. CASE n # m
      <4>1. n \in 0 .. (m - 1)
        BY <3>2, <2>2
      <4>2. g[n] = IF n = 0 THEN start ELSE step[g[n - 1]]
        BY <4>1, <2>1
      <4> QED
        BY <4>2, <3>2, <2>3
    <3> QED
      BY <3>1, <3>2
  <2>5. Is(h, m)
    BY <2>4
  <2> QED
    BY <2>5
<1>3. N \in T
  <2>1. \A n \in 0 .. N : n # 0 /\ n - 1 \in T => n \in T
    BY <1>2
  <2>2. \A n \in 0 .. N : n \in T
    <3> HIDE DEF T
    <3> QED
      BY <1>0, <1>1, <2>1, UpTo
  <2>3. N \in 0 .. N
    BY <1>0
  <2> QED
    BY <2>2, <2>3, Zenon
<1>4. \E g : Is(g, N)
  BY <1>3, Zenon
<1>5. Walk(start, step) = CHOOSE g : Is(g, N)
  BY DEF Walk, N
<1>6. Is(Walk(start, step), N)
  BY <1>4, <1>5
<1> QED
  BY <1>6, <1>0

-----------------------------------------------------------------------------
(* The walk up: Upward and Chain                                           *)

\* The levels that make rows a chart.
Levels(rows, L) ==
    /\ L \in [Existing(rows) -> 1 .. MaxDepth]
    /\ \A p \in Existing(rows) : \/ rows[p] = Top /\ L[p] = 1
                                 \/ rows[p] \in Existing(rows) /\ L[p] = L[rows[p]] + 1

\* Z has, with a position, the one it reports to.
ClosedUp(rows, Z) == \A x \in Z : rows[x] \in Positions => rows[x] \in Z

LEMMA ChartHasLevels ==
    ASSUME NEW rows
    PROVE  IsChart(rows) <=> \E L : Levels(rows, L)
BY DEF IsChart, Levels

LEMMA LevelFacts ==
    ASSUME NEW rows, NEW L, Levels(rows, L), NEW p \in Existing(rows)
    PROVE  /\ L[p] \in Nat /\ L[p] \in 1 .. MaxDepth /\ p \in Positions
           /\ rows[p] \in Positions => rows[p] \in Existing(rows) /\ L[rows[p]] = L[p] - 1
           /\ rows[p] \notin Positions => rows[p] = Top /\ L[p] = 1
<1>1. /\ L[p] \in 1 .. MaxDepth /\ MaxDepth \in Nat /\ p \in Positions
      /\ \/ rows[p] = Top /\ L[p] = 1
         \/ rows[p] \in Existing(rows) /\ L[p] = L[rows[p]] + 1
  BY OrgConstants DEF Levels, Existing
<1>2. CASE rows[p] = Top /\ L[p] = 1
  BY <1>1, <1>2, OrgConstants
<1>3. CASE rows[p] \in Existing(rows) /\ L[p] = L[rows[p]] + 1
  <2>1. rows[p] \in Positions
    BY <1>3 DEF Existing
  <2>2. L[rows[p]] \in 1 .. MaxDepth
    BY <1>3 DEF Levels
  <2> QED
    BY <1>1, <1>3, <2>1, <2>2
<1> QED
  BY <1>1, <1>2, <1>3

\* The n-th step of the walk up.
LEMMA UpwardSteps ==
    ASSUME NEW rows, NEW p \in Positions
    PROVE  /\ Upward(rows, p)[0] = {p}
           /\ \A n \in 0 .. N : Upward(rows, p)[n] \in SUBSET Positions
           /\ \A n \in 0 .. N : n # 0 =>
                Upward(rows, p)[n] = Upward(rows, p)[n - 1]
                    \cup ({rows[q] : q \in Upward(rows, p)[n - 1]} \cap Positions)
<1> DEFINE step == [met \in SUBSET Positions |-> met \cup ({rows[q] : q \in met} \cap Positions)]
           up == Walk({p}, step)
           T == {n \in 0 .. N : up[n] \in SUBSET Positions}
<1>0. N \in Nat
  BY SizeType
<1>1. up[0] = {p} /\ \A n \in 0 .. N : n # 0 => up[n] = step[up[n - 1]]
  <2> HIDE DEF step
  <2> QED
    BY WalkIs
<1>2. 0 \in T
  <2>1. 0 \in 0 .. N
    BY <1>0
  <2> QED
    BY <1>1, <2>1
<1>3. \A n \in 0 .. N : n # 0 /\ n - 1 \in T => n \in T
  <2> SUFFICES ASSUME NEW n \in 0 .. N, n # 0, n - 1 \in T PROVE n \in T
    OBVIOUS
  <2>1. up[n - 1] \in SUBSET Positions
    OBVIOUS
  <2>2. step[up[n - 1]] \in SUBSET Positions
    <3> HIDE DEF up
    <3> QED
      BY <2>1
  <2> QED
    BY <1>1, <2>2
<1>4. \A n \in 0 .. N : n \in T
  <2> HIDE DEF T
  <2> QED
    BY <1>0, <1>2, <1>3, UpTo
<1>5. \A n \in 0 .. N : up[n] \in SUBSET Positions
  BY <1>4
<1>6. ASSUME NEW n \in 0 .. N, n # 0
      PROVE  up[n] = up[n - 1] \cup ({rows[q] : q \in up[n - 1]} \cap Positions)
  <2>1. n - 1 \in 0 .. N
    BY <1>0, <1>6
  <2>2. up[n - 1] \in SUBSET Positions
    BY <1>5, <2>1
  <2>3. step[up[n - 1]] = up[n - 1] \cup ({rows[q] : q \in up[n - 1]} \cap Positions)
    <3> HIDE DEF up
    <3> QED
      BY <2>2
  <2> QED
    BY <1>1, <1>6, <2>3
<1>7. Upward(rows, p) = up
  BY DEF Upward
<1> HIDE DEF up
<1> QED
  BY <1>1, <1>5, <1>6, <1>7

\* depthOf, isDescendant: a walk up meets nothing but what every set with p
\* and, with a position, the one it reports to, has.
LEMMA ChainIsLeast ==
    ASSUME NEW rows, NEW p \in Positions, NEW Z, p \in Z, ClosedUp(rows, Z)
    PROVE  /\ Chain(rows, p) \subseteq Z
           /\ Chain(rows, p) \subseteq Positions
           /\ p \in Chain(rows, p)
<1> DEFINE up == Upward(rows, p)
           T == {n \in 0 .. N : up[n] \subseteq Z /\ p \in up[n]}
<1>0. N \in Nat /\ N \in 0 .. N /\ 0 \in 0 .. N
  BY SizeType
<1>1. /\ up[0] = {p}
      /\ \A n \in 0 .. N : up[n] \in SUBSET Positions
      /\ \A n \in 0 .. N : n # 0 =>
            up[n] = up[n - 1] \cup ({rows[q] : q \in up[n - 1]} \cap Positions)
  BY UpwardSteps
<1>2. Chain(rows, p) = up[N]
  BY DEF Chain, N
<1> HIDE DEF up
<1>3. 0 \in T
  BY <1>0, <1>1
<1>4. \A n \in 0 .. N : n # 0 /\ n - 1 \in T => n \in T
  BY <1>1 DEF ClosedUp
<1>5. \A n \in 0 .. N : n \in T
  <2> HIDE DEF T
  <2> QED
    BY <1>0, <1>3, <1>4, UpTo
<1>6. N \in T
  BY <1>5, <1>0, Zenon
<1> QED
  BY <1>6, <1>2, <1>1, <1>0

\* The levels from 1 to the level of p all have a position, so there are at
\* least as many positions as levels.
LEMMA LevelsFit ==
    ASSUME NEW rows, NEW L, Levels(rows, L), NEW p \in Existing(rows)
    PROVE  L[p] \in Nat /\ L[p] <= N
<1> DEFINE d == L[p]
           T == {n \in 0 .. (d - 1) : \E x \in Existing(rows) : L[x] = d - n}
           E == Existing(rows)
           Met == {L[x] : x \in E}
<1>0. d \in Nat /\ d >= 1
  BY LevelFacts
<1>1. 0 \in T
  <2>1. 0 \in 0 .. (d - 1) /\ L[p] = d - 0
    BY <1>0
  <2> QED
    BY <2>1
<1>2. \A n \in 0 .. (d - 1) : n # 0 /\ n - 1 \in T => n \in T
  <2> SUFFICES ASSUME NEW n \in 0 .. (d - 1), n # 0, n - 1 \in T PROVE n \in T
    OBVIOUS
  <2> HIDE DEF d
  <2>1. PICK x \in Existing(rows) : L[x] = d - (n - 1)
    OBVIOUS
  <2>2. L[x] # 1
    BY <2>1, <1>0
  <2>3. rows[x] \in Existing(rows) /\ L[rows[x]] = L[x] - 1
    BY <2>2, LevelFacts
  <2>4. L[rows[x]] = d - n
    BY <2>3, <2>1, <1>0
  <2> QED
    BY <2>3, <2>4
<1>3. \A n \in 0 .. (d - 1) : n \in T
  <2>1. d - 1 \in Nat
    BY <1>0
  <2> HIDE DEF T, d
  <2> QED
    BY <1>1, <1>2, <2>1, UpTo
<1>4. 1 .. d \subseteq Met
  <2> SUFFICES ASSUME NEW k \in 1 .. d PROVE k \in Met
    OBVIOUS
  <2>1. d - k \in 0 .. (d - 1)
    BY <1>0
  <2>2. d - k \in T
    BY <1>3, <2>1, Zenon
  <2> HIDE DEF d
  <2>3. PICK x \in Existing(rows) : L[x] = d - (d - k)
    BY <2>2
  <2>4. d - (d - k) = k
    BY <1>0
  <2> QED
    BY <2>3, <2>4
<1>5. IsFiniteSet(E) /\ Cardinality(E) \in Nat /\ Cardinality(E) <= N
  BY OrgConstants, FS_Subset, FS_CardinalityType DEF N, Existing
<1>6. IsFiniteSet(Met) /\ Cardinality(Met) \in Nat /\ Cardinality(Met) <= Cardinality(E)
  <2>1. L \in Surjection(E, Met)
    BY DEF Levels, Surjection
  <2> HIDE DEF E, Met
  <2> QED
    BY <2>1, <1>5, FS_Surjection, FS_CardinalityType
<1>7. Cardinality(1 .. d) = d /\ Cardinality(1 .. d) <= Cardinality(Met)
  <2>1. Cardinality(1 .. d) = d
    <3> HIDE DEF d
    <3>1. 1 \in Int /\ d \in Int /\ ~(1 > d) /\ d - 1 + 1 = d
      BY <1>0
    <3> QED
      BY <3>1, FS_Interval
  <2>2. Cardinality(1 .. d) <= Cardinality(Met)
    <3> HIDE DEF d, Met
    <3> QED
      BY <1>4, <1>6, FS_Subset
  <2> QED
    BY <2>1, <2>2
<1> HIDE DEF d, E, Met
<1>8. d <= N
  BY <1>0, <1>5, <1>6, <1>7, SizeType
<1> QED
  BY <1>8, <1>0 DEF d

\* depthOf, isDescendant: as many steps as there are positions are enough to
\* reach the root.
LEMMA ChainIsClosed ==
    ASSUME NEW rows, NEW L, Levels(rows, L), NEW p \in Existing(rows)
    PROVE  /\ Chain(rows, p) \subseteq Existing(rows)
           /\ ClosedUp(rows, Chain(rows, p))
<1> DEFINE up == Upward(rows, p)
           d == L[p]
           Fine(n) == \A x \in up[n] :
                        /\ x \in Existing(rows)
                        /\ L[x] > d - n /\ rows[x] \in Positions => rows[x] \in up[n]
           T == {n \in 0 .. N : Fine(n)}
<1>0. N \in Nat /\ N \in 0 .. N /\ 0 \in 0 .. N
  BY SizeType
<1>1. d \in Nat /\ d <= N
  BY LevelsFit
<1>2. /\ up[0] = {p}
      /\ \A n \in 0 .. N : up[n] \in SUBSET Positions
      /\ \A n \in 0 .. N : n # 0 =>
            up[n] = up[n - 1] \cup ({rows[q] : q \in up[n - 1]} \cap Positions)
  BY UpwardSteps DEF Existing
<1>3. Chain(rows, p) = up[N]
  BY DEF Chain, N
<1>4. \A x \in Existing(rows) :
        /\ L[x] \in Nat /\ L[x] >= 1
        /\ rows[x] \in Positions => rows[x] \in Existing(rows) /\ L[rows[x]] = L[x] - 1
  BY LevelFacts
<1> HIDE DEF up
<1>5. 0 \in T
  <2>1. ~(L[p] > d - 0)
    BY <1>1
  <2> HIDE DEF d
  <2> QED
    BY <2>1, <1>0, <1>2
<1> HIDE DEF d
<1>6. \A n \in 0 .. N : n # 0 /\ n - 1 \in T => n \in T
  <2> SUFFICES ASSUME NEW n \in 0 .. N, n # 0, n - 1 \in T, NEW x \in up[n]
               PROVE  /\ x \in Existing(rows)
                      /\ L[x] > d - n /\ rows[x] \in Positions => rows[x] \in up[n]
    OBVIOUS
  <2>1. Fine(n - 1)
    OBVIOUS
  <2>2. up[n] = up[n - 1] \cup ({rows[q] : q \in up[n - 1]} \cap Positions)
    BY <1>2
  <2>3. CASE x \in up[n - 1]
    BY <2>1, <2>2, <2>3
  <2>4. CASE x \notin up[n - 1]
    <3>1. PICK y \in up[n - 1] : x = rows[y] /\ x \in Positions
      BY <2>2, <2>4
    <3>2. y \in Existing(rows) /\ ~(L[y] > d - (n - 1))
      BY <3>1, <2>1, <2>4
    <3>3. x \in Existing(rows) /\ L[x] = L[y] - 1
      BY <3>1, <3>2, <1>4
    <3>4. ~(L[x] > d - n)
      BY <3>2, <3>3, <1>1, <1>4, <1>0
    <3> QED
      BY <3>3, <3>4
  <2> QED
    BY <2>3, <2>4
<1>7. \A n \in 0 .. N : n \in T
  <2> HIDE DEF T
  <2> QED
    BY <1>0, <1>5, <1>6, UpTo
<1>8. Fine(N)
  BY <1>7, <1>0, Zenon
<1>9. \A x \in up[N] : x \in Existing(rows) /\ L[x] > d - N
  BY <1>8, <1>4, <1>1, <1>0
<1> QED
  BY <1>8, <1>9, <1>3 DEF ClosedUp

\* A walk up from p is p and the walk up from the position p reports to.
LEMMA ChainUnfolds ==
    ASSUME NEW rows, NEW L, Levels(rows, L), NEW p \in Existing(rows)
    PROVE  /\ p \in Chain(rows, p)
           /\ rows[p] \notin Positions => Chain(rows, p) = {p}
           /\ rows[p] \in Positions => Chain(rows, p) = {p} \cup Chain(rows, rows[p])
<1>1. p \in Positions /\ ClosedUp(rows, Positions)
  BY DEF Existing, ClosedUp
<1>2. p \in Chain(rows, p)
  BY <1>1, ChainIsLeast
<1>3. CASE rows[p] \notin Positions
  <2>1. ClosedUp(rows, {p})
    BY <1>3 DEF ClosedUp
  <2> QED
    BY <1>1, <1>2, <1>3, <2>1, ChainIsLeast
<1>4. CASE rows[p] \in Positions
  <2>1. rows[p] \in Existing(rows)
    BY <1>4, LevelFacts
  <2>2. rows[p] \in Chain(rows, rows[p])
    BY <1>4, <1>1, ChainIsLeast
  <2>3. ClosedUp(rows, Chain(rows, rows[p]))
    BY <2>1, ChainIsClosed
  <2>4. ClosedUp(rows, {p} \cup Chain(rows, rows[p]))
    BY <2>2, <2>3 DEF ClosedUp
  <2>5. Chain(rows, p) \subseteq {p} \cup Chain(rows, rows[p])
    BY <1>1, <2>4, ChainIsLeast
  <2>6. ClosedUp(rows, Chain(rows, p))
    BY ChainIsClosed
  <2>7. rows[p] \in Chain(rows, p)
    BY <1>2, <1>4, <2>6 DEF ClosedUp
  <2>8. Chain(rows, rows[p]) \subseteq Chain(rows, p)
    BY <1>4, <2>6, <2>7, ChainIsLeast
  <2> QED
    BY <1>2, <1>4, <2>5, <2>8
<1> QED
  BY <1>2, <1>3, <1>4

\* What a walk up meets after p is above p.
LEMMA ChainGoesUp ==
    ASSUME NEW rows, NEW L, Levels(rows, L), NEW p \in Existing(rows), NEW x \in Chain(rows, p)
    PROVE  x \in Existing(rows) /\ (x = p \/ L[x] < L[p])
<1> DEFINE Z == {q \in Existing(rows) : q = p \/ L[q] < L[p]}
<1>1. ClosedUp(rows, Z)
  <2> SUFFICES ASSUME NEW q \in Z, rows[q] \in Positions PROVE rows[q] \in Z
    BY DEF ClosedUp
  <2>1. L[q] \in Nat /\ L[p] \in Nat /\ rows[q] \in Existing(rows) /\ L[rows[q]] = L[q] - 1
    BY LevelFacts
  <2>2. L[rows[q]] < L[p]
    BY <2>1
  <2> QED
    BY <2>1, <2>2
<1>2. p \in Z /\ p \in Positions
  BY DEF Existing
<1>3. Chain(rows, p) \subseteq Z
  <2> HIDE DEF Z
  <2> QED
    BY <1>1, <1>2, ChainIsLeast
<1> QED
  BY <1>3

\* depthOf counts the levels: it is the level of p in any chart.
LEMMA DepthIsLevel ==
    ASSUME NEW rows, NEW L, Levels(rows, L), NEW p \in Existing(rows)
    PROVE  DepthOf(rows, p) = L[p]
<1> DEFINE T == {n \in 0 .. MaxDepth : \A q \in Existing(rows) :
                    L[q] = n => Cardinality(Chain(rows, q)) = n}
<1>0. MaxDepth \in Nat
  BY OrgConstants
<1>1. 0 \in T
  <2>1. \A q \in Existing(rows) : L[q] # 0
    BY LevelFacts
  <2> QED
    BY <1>0, <2>1
<1>2. \A n \in 0 .. MaxDepth : n # 0 /\ n - 1 \in T => n \in T
  <2> SUFFICES ASSUME NEW n \in 0 .. MaxDepth, n # 0, n - 1 \in T,
                      NEW q \in Existing(rows), L[q] = n
               PROVE  Cardinality(Chain(rows, q)) = n
    OBVIOUS
  <2>1. CASE rows[q] \notin Positions
    <3>1. L[q] = 1 /\ Chain(rows, q) = {q}
      BY <2>1, LevelFacts, ChainUnfolds
    <3> QED
      BY <3>1, FS_Singleton
  <2>2. CASE rows[q] \in Positions
    <3> DEFINE r == rows[q]
    <3>1. r \in Existing(rows) /\ L[r] = n - 1 /\ n \in Nat
      BY <2>2, <1>0, LevelFacts
    <3>2. Cardinality(Chain(rows, r)) = n - 1
      BY <3>1
    <3>3. q \notin Chain(rows, r)
      <4>1. q # r /\ ~(L[q] < L[r])
        BY <3>1
      <4> HIDE DEF r
      <4> QED
        BY <3>1, <4>1, ChainGoesUp
    <3>4. IsFiniteSet(Chain(rows, r))
      <4>1. Chain(rows, r) \in SUBSET Positions
        BY <3>1, ChainIsClosed DEF Existing
      <4> HIDE DEF r
      <4> QED
        BY <4>1, OrgConstants, FS_Subset
    <3>5. Chain(rows, q) = Chain(rows, r) \cup {q}
      BY <2>2, ChainUnfolds
    <3> HIDE DEF r
    <3>6. Cardinality(Chain(rows, q)) = (n - 1) + 1
      BY <3>2, <3>3, <3>4, <3>5, FS_AddElement
    <3> QED
      BY <3>1, <3>6
  <2> QED
    BY <2>1, <2>2
<1>3. \A n \in 0 .. MaxDepth : n \in T
  <2> HIDE DEF T
  <2> QED
    BY <1>0, <1>1, <1>2, UpTo
<1>4. L[p] \in 0 .. MaxDepth
  BY LevelFacts
<1> QED
  BY <1>3, <1>4 DEF DepthOf

-----------------------------------------------------------------------------
(* The walk down: Below and SubtreeDepth                                   *)

\* S is id and the positions below it, and h is how far below it each of
\* them is.
IsSubtree(rows, id, S, h) ==
    /\ S \subseteq Existing(rows) \cup {id} /\ id \in S
    /\ h \in [S -> 0 .. N]
    /\ h[id] = 0
    /\ \A q \in Existing(rows) \ {id} :
          /\ q \in S <=> rows[q] \in S
          /\ q \in S => h[q] = h[rows[q]] + 1

\* Of a chart, the subtree of id is what reports to it, and isDescendant
\* tells what is in it.
LEMMA SubtreeIs ==
    ASSUME NEW rows, NEW L, Levels(rows, L), NEW id \in Positions
    PROVE  \E S, h : /\ IsSubtree(rows, id, S, h)
                     /\ \A to \in Existing(rows) \ {id} :
                           IsDescendant(rows, to, id) <=> to \in S
<1> DEFINE E == Existing(rows)
           S == {q \in E : id \in Chain(rows, q)} \cup {id}
           h == [q \in S |-> IF q = id THEN 0 ELSE L[q] - L[id]]
<1>0. N \in Nat
  BY SizeType
<1>1. \A q \in E : L[q] \in Nat /\ L[q] >= 1 /\ L[q] <= N /\ q \in Positions
  BY LevelFacts, LevelsFit
<1>2. \A q \in S : q # id => q \in E /\ id \in E /\ L[id] < L[q]
  BY ChainGoesUp
<1>3. h \in [S -> 0 .. N]
  <2>1. \A q \in S : (IF q = id THEN 0 ELSE L[q] - L[id]) \in 0 .. N
    BY <1>0, <1>1, <1>2
  <2> HIDE DEF S
  <2> QED
    BY <2>1
<1>4. ASSUME NEW q \in E \ {id}
      PROVE  /\ q \in S <=> rows[q] \in S
             /\ q \in S => h[q] = h[rows[q]] + 1
             /\ q \in S <=> (rows[q] \in Positions /\ id \in Chain(rows, rows[q]))
  <2>1. CASE rows[q] \notin Positions
    <3>1. Chain(rows, q) = {q}
      BY <2>1, ChainUnfolds
    <3>2. rows[q] \notin S
      BY <2>1, <1>1
    <3> QED
      BY <2>1, <3>1, <3>2
  <2>2. CASE rows[q] \in Positions
    <3>1. rows[q] \in E /\ L[rows[q]] = L[q] - 1
      BY <2>2, LevelFacts
    <3>2. Chain(rows, q) = {q} \cup Chain(rows, rows[q]) /\ rows[q] \in Chain(rows, rows[q])
      BY <2>2, <3>1, ChainUnfolds
    <3>3. rows[q] \in S <=> id \in Chain(rows, rows[q])
      BY <3>1, <3>2
    <3>4. q \in S <=> rows[q] \in S
      BY <3>2, <3>3
    <3>5. ASSUME q \in S PROVE h[q] = h[rows[q]] + 1
      <4>1. rows[q] \in S /\ id \in E
        BY <3>4, <3>5, <1>2
      <4>2. h[q] = L[q] - L[id]
        BY <3>5
      <4>3. h[rows[q]] = L[rows[q]] - L[id]
        BY <4>1, <3>1, <1>1
      <4> HIDE DEF h, S
      <4> QED
        BY <4>1, <4>2, <4>3, <3>1, <1>1
    <3> HIDE DEF h, S
    <3> QED
      BY <2>2, <3>3, <3>4, <3>5
  <2> HIDE DEF h, S
  <2> QED
    BY <2>1, <2>2
<1>5. IsSubtree(rows, id, S, h)
  <2>1. S \subseteq E \cup {id} /\ id \in S /\ h[id] = 0
    OBVIOUS
  <2> HIDE DEF S, h
  <2> QED
    BY <2>1, <1>3, <1>4 DEF IsSubtree
<1>6. \A to \in E \ {id} : IsDescendant(rows, to, id) <=> to \in S
  <2> HIDE DEF S, h
  <2> QED
    BY <1>4 DEF IsDescendant
<1> HIDE DEF S, h
<1> QED
  BY <1>5, <1>6

\* subtreeDepth: the n-th step of the walk down meets what is n below id.
LEMMA BelowIs ==
    ASSUME NEW rows, NEW id \in Positions, NEW S, NEW h, IsSubtree(rows, id, S, h)
    PROVE  \A n \in 0 .. N : Below(rows, id)[n] = {q \in S : h[q] = n}
<1> DEFINE step == [level \in SUBSET Positions |->
                        {q \in Existing(rows) \ {id} : rows[q] \in level}]
           down == Walk({id}, step)
           Is(n) == down[n] = {q \in S : h[q] = n}
           T == {n \in 0 .. N : Is(n)}
<1>0. N \in Nat /\ 0 \in 0 .. N
  BY SizeType
<1>1. down[0] = {id} /\ \A n \in 0 .. N : n # 0 => down[n] = step[down[n - 1]]
  <2> HIDE DEF step
  <2> QED
    BY WalkIs
<1>2. /\ S \subseteq Positions
      /\ \A q \in S : h[q] \in Nat
      /\ h[id] = 0 /\ id \in S
      /\ \A q \in S : q # id => q \in Existing(rows) /\ rows[q] \in S /\ h[q] = h[rows[q]] + 1
      /\ \A q \in Existing(rows) : q # id /\ rows[q] \in S => q \in S
  BY <1>0 DEF IsSubtree, Existing
<1>3. 0 \in T
  <2>1. \A q \in S : q # id => h[q] # 0
    BY <1>2
  <2>2. {id} = {q \in S : h[q] = 0}
    BY <1>2, <2>1
  <2> HIDE DEF down
  <2> QED
    BY <1>0, <1>1, <2>2
<1>4. \A n \in 0 .. N : n # 0 /\ n - 1 \in T => n \in T
  <2> SUFFICES ASSUME NEW n \in 0 .. N, n # 0, n - 1 \in T PROVE Is(n)
    OBVIOUS
  <2> DEFINE A == {q \in S : h[q] = n - 1}
  <2>0. n \in Nat
    BY <1>0
  <2>1. down[n - 1] = A
    <3> HIDE DEF down
    <3> QED
      OBVIOUS
  <2>2. step[A] = {q \in Existing(rows) \ {id} : rows[q] \in A}
    <3>1. A \in SUBSET Positions
      BY <1>2
    <3> HIDE DEF A
    <3> QED
      BY <3>1
  <2>3. {q \in Existing(rows) \ {id} : rows[q] \in A} = {q \in S : h[q] = n}
    <3>1. ASSUME NEW q \in Existing(rows) \ {id}, rows[q] \in A
          PROVE  q \in S /\ h[q] = n
      <4>1. rows[q] \in S /\ h[rows[q]] = n - 1
        BY <3>1
      <4>2. q \in S /\ h[q] = (n - 1) + 1
        BY <4>1, <1>2
      <4> QED
        BY <4>2, <2>0
    <3>2. ASSUME NEW q \in S, h[q] = n
          PROVE  q \in Existing(rows) \ {id} /\ rows[q] \in A
      <4>1. q # id
        BY <3>2, <1>2
      <4>2. q \in Existing(rows) /\ rows[q] \in S /\ n = h[rows[q]] + 1 /\ h[rows[q]] \in Nat
        BY <4>1, <3>2, <1>2
      <4> QED
        BY <4>1, <4>2
    <3> HIDE DEF A
    <3> QED
      BY <3>1, <3>2
  <2> HIDE DEF step, down, A
  <2> QED
    BY <1>1, <2>1, <2>2, <2>3
<1>5. \A n \in 0 .. N : n \in T
  <2> HIDE DEF T
  <2> QED
    BY <1>0, <1>3, <1>4, UpTo
<1>6. \A n \in 0 .. N : Is(n)
  BY <1>5
<1>7. Below(rows, id) = down
  BY DEF Below
<1> HIDE DEF down
<1> QED
  BY <1>6, <1>7

\* A set of step numbers that has, with a number, the ones before it, is an
\* initial segment, and its size tells where it ends.
LEMMA InitialSegment ==
    ASSUME NEW m \in Nat, NEW K \in SUBSET (0 .. m), \A n \in K : n # 0 => n - 1 \in K
    PROVE  Cardinality(K) \in Nat /\ K = 0 .. (Cardinality(K) - 1)
<1> DEFINE F == (0 .. (m + 1)) \ K
<1>1. F \in SUBSET Nat /\ F # {}
  <2>1. m + 1 \in 0 .. (m + 1) /\ m + 1 \notin K
    OBVIOUS
  <2> QED
    BY <2>1
<1>2. PICK c \in F : \A y \in F : ~(y < c)
  <2> HIDE DEF F
  <2> QED
    BY <1>1, Least
<1>3. c \in Nat /\ c \notin K
  OBVIOUS
<1>4. \A n \in 0 .. (c - 1) : n \in K
  <2> SUFFICES ASSUME NEW n \in 0 .. (c - 1), n \notin K PROVE FALSE
    OBVIOUS
  <2>1. n \in 0 .. (m + 1) /\ n < c
    BY <1>3
  <2>2. n \in F
    BY <2>1
  <2> HIDE DEF F
  <2> QED
    BY <1>2, <2>1, <2>2
<1>5. \A n \in K : n < c
  <2> DEFINE U == {n \in 0 .. m : n >= c => n \notin K}
  <2>1. 0 \in U
    BY <1>3
  <2>2. \A n \in 0 .. m : n # 0 /\ n - 1 \in U => n \in U
    <3> SUFFICES ASSUME NEW n \in 0 .. m, n # 0, n - 1 \in U, n >= c, n \in K PROVE FALSE
      OBVIOUS
    <3>1. n - 1 \in K /\ n # c
      BY <1>3
    <3> QED
      BY <3>1, <1>3
  <2>3. \A n \in 0 .. m : n \in U
    <3> HIDE DEF U
    <3> QED
      BY <2>1, <2>2, UpTo
  <2> QED
    BY <2>3, <1>3
<1>6. K = 0 .. (c - 1)
  <2>1. ASSUME NEW n \in K PROVE n \in 0 .. (c - 1)
    <3>1. n \in Nat /\ n < c
      BY <1>5
    <3> HIDE DEF F
    <3> QED
      BY <3>1, <1>3
  <2> HIDE DEF F
  <2> QED
    BY <2>1, <1>4
<1>7. Cardinality(0 .. (c - 1)) = c
  <2>1. c - 1 \in Int /\ (IF 0 > c - 1 THEN 0 ELSE (c - 1) - 0 + 1) = c
    BY <1>3
  <2> QED
    BY <2>1, FS_Interval
<1> QED
  BY <1>3, <1>6, <1>7

\* subtreeDepth is one more than how far below id its subtree reaches.
LEMMA SubtreeDepthIs ==
    ASSUME NEW rows, NEW id \in Positions, NEW S, NEW h, IsSubtree(rows, id, S, h)
    PROVE  /\ SubtreeDepth(rows, id) \in Nat \ {0}
           /\ \A q \in S : h[q] <= SubtreeDepth(rows, id) - 1
           /\ \E q \in S : h[q] = SubtreeDepth(rows, id) - 1
<1> DEFINE K == {n \in 0 .. N : Below(rows, id)[n] # {}}
           d == Cardinality(K)
<1>0. N \in Nat /\ 0 \in 0 .. N
  BY SizeType
<1>1. /\ id \in S /\ h[id] = 0
      /\ \A q \in S : h[q] \in 0 .. N
      /\ \A q \in S : q # id => rows[q] \in S /\ h[q] = h[rows[q]] + 1
  BY DEF IsSubtree
<1>2. \A n \in 0 .. N : n \in K <=> \E q \in S : h[q] = n
  BY BelowIs
<1>3. \A n \in K : n # 0 => n - 1 \in K
  <2> SUFFICES ASSUME NEW n \in 0 .. N, n \in K, n # 0 PROVE n - 1 \in K
    OBVIOUS
  <2> HIDE DEF K
  <2>1. PICK q \in S : h[q] = n
    BY <1>2
  <2>2. rows[q] \in S /\ h[rows[q]] \in 0 .. N /\ n = h[rows[q]] + 1
    BY <2>1, <1>1
  <2>3. h[rows[q]] = n - 1 /\ n - 1 \in 0 .. N
    BY <2>2
  <2> QED
    BY <2>2, <2>3, <1>2
<1>4. d \in Nat /\ K = 0 .. (d - 1)
  <2>1. K \in SUBSET (0 .. N)
    OBVIOUS
  <2> HIDE DEF K
  <2> QED
    BY <2>1, <1>0, <1>3, InitialSegment
<1>5. 0 \in K
  <2> HIDE DEF K
  <2> QED
    BY <1>0, <1>1, <1>2
<1>6. SubtreeDepth(rows, id) = d
  BY DEF SubtreeDepth, N
<1> HIDE DEF d
<1>7. d # 0
  BY <1>4, <1>5
<1>8. d - 1 \in K /\ d - 1 \in 0 .. N
  <2>1. d - 1 \in K
    BY <1>4, <1>7
  <2> QED
    BY <2>1
<1>9. \A q \in S : h[q] \in K
  <2> HIDE DEF K
  <2> QED
    BY <1>1, <1>2
<1> HIDE DEF K
<1> QED
  BY <1>2, <1>4, <1>6, <1>7, <1>8, <1>9

-----------------------------------------------------------------------------
(* checkParent                                                             *)

Moved(rows, id, to) == [rows EXCEPT ![id] = to]

LEMMA MovedIs ==
    ASSUME NEW rows \in Forests, NEW id \in Positions, NEW to \in Positions \cup {Top}
    PROVE  /\ Existing(Moved(rows, id, to)) = Existing(rows) \cup {id}
           /\ Moved(rows, id, to)[id] = to
           /\ \A q \in Existing(rows) \ {id} : Moved(rows, id, to)[q] = rows[q]
<1> DEFINE new == Moved(rows, id, to)
<1>1. \A q \in Positions : new[q] = IF q = id THEN to ELSE rows[q]
  BY DEF Moved, Forests
<1>2. to # None
  BY OrgConstants
<1>3. /\ new[id] = to
      /\ \A q \in Existing(rows) \ {id} : new[q] = rows[q]
  BY <1>1 DEF Existing
<1>4. Existing(new) = {q \in Positions : new[q] # None}
  BY DEF Existing
<1> HIDE DEF new
<1>5. Existing(new) = Existing(rows) \cup {id}
  BY <1>1, <1>2, <1>4 DEF Existing
<1> QED
  BY <1>3, <1>5 DEF new

\* A move under a root, or under a position that is not in the subtree moved,
\* leaves a chart when the deepest of the subtree still fits.
LEMMA FittingMoveKeepsChart ==
    ASSUME NEW rows \in Forests, NEW id \in Positions, NEW to \in Positions \cup {Top},
           NEW L, Levels(rows, L), NEW S, NEW h, IsSubtree(rows, id, S, h),
           NEW base \in Nat,
           \/ to = Top /\ base = 0
           \/ to \in Existing(rows) /\ to \notin S /\ base = L[to],
           \A q \in S : base + 1 + h[q] <= MaxDepth
    PROVE  IsChart(Moved(rows, id, to))
<1> DEFINE E == Existing(rows)
           new == Moved(rows, id, to)
           M == [q \in E \cup {id} |-> IF q \in S THEN base + 1 + h[q] ELSE L[q]]
<1>0. N \in Nat /\ MaxDepth \in Nat
  BY SizeType, OrgConstants
<1>1. /\ Existing(new) = E \cup {id}
      /\ new[id] = to
      /\ \A q \in E \ {id} : new[q] = rows[q]
  BY MovedIs
<1>2. /\ S \subseteq E \cup {id} /\ id \in S
      /\ \A q \in S : h[q] \in Nat
      /\ h[id] = 0
      /\ \A q \in E \ {id} : /\ q \in S <=> rows[q] \in S
                             /\ q \in S => h[q] = h[rows[q]] + 1
  BY <1>0 DEF IsSubtree
<1>3. \A q \in E : /\ L[q] \in 1 .. MaxDepth
                   /\ \/ rows[q] = Top /\ L[q] = 1
                      \/ rows[q] \in E /\ L[q] = L[rows[q]] + 1
  BY DEF Levels
<1>4. Top \notin S
  BY <1>2, OrgConstants DEF Existing
<1> HIDE DEF E, new
<1>5. M \in [E \cup {id} -> 1 .. MaxDepth]
  <2>1. \A q \in E \cup {id} : (IF q \in S THEN base + 1 + h[q] ELSE L[q]) \in 1 .. MaxDepth
    BY <1>0, <1>2, <1>3
  <2> QED
    BY <2>1
<1>6. ASSUME NEW q \in E \cup {id}
      PROVE  \/ new[q] = Top /\ M[q] = 1
             \/ new[q] \in E \cup {id} /\ M[q] = M[new[q]] + 1
  <2>1. CASE q = id
    <3>1. M[id] = base + 1
      BY <1>2
    <3>2. to \in E /\ to \notin S => M[to] = L[to]
      OBVIOUS
    <3> HIDE DEF M
    <3> QED
      BY <2>1, <3>1, <3>2, <1>1 DEF E
  <2>2. CASE q # id /\ q \in S
    <3>1. q \in E /\ rows[q] \in S /\ h[q] = h[rows[q]] + 1 /\ new[q] = rows[q]
      BY <2>2, <1>1, <1>2
    <3>2. rows[q] \in E \cup {id} /\ h[rows[q]] \in Nat
      BY <3>1, <1>2
    <3>3. M[q] = base + 1 + h[q] /\ M[rows[q]] = base + 1 + h[rows[q]]
      BY <3>1, <3>2, <2>2
    <3> HIDE DEF M
    <3> QED
      BY <3>1, <3>2, <3>3
  <2>3. CASE q # id /\ q \notin S
    <3>1. q \in E /\ rows[q] \notin S /\ new[q] = rows[q] /\ M[q] = L[q]
      BY <2>3, <1>1, <1>2
    <3>2. rows[q] \in E => M[rows[q]] = L[rows[q]]
      BY <3>1
    <3> HIDE DEF M
    <3> QED
      BY <3>1, <3>2, <1>3
  <2> QED
    BY <2>1, <2>2, <2>3
<1>7. Levels(new, M)
  <2> HIDE DEF M
  <2> QED
    BY <1>1, <1>5, <1>6 DEF Levels
<1>8. \E f : Levels(new, f)
  <2> HIDE DEF M
  <2> QED
    BY <1>7
<1> QED
  BY <1>8, ChartHasLevels DEF new

\* If a move leaves a chart, its levels are the old ones outside the subtree
\* moved, and follow the level of id inside it.
LEMMA LevelsAfterMove ==
    ASSUME NEW rows \in Forests, NEW id \in Positions, NEW to \in Positions \cup {Top},
           NEW L, Levels(rows, L), NEW S, NEW h, IsSubtree(rows, id, S, h),
           NEW M, Levels(Moved(rows, id, to), M)
    PROVE  /\ \A q \in S : M[q] = M[id] + h[q]
           /\ \A q \in Existing(rows) \ S : M[q] = L[q]
<1> DEFINE E == Existing(rows)
           new == Moved(rows, id, to)
<1>0. N \in Nat /\ MaxDepth \in Nat
  BY SizeType, OrgConstants
<1>1. /\ Existing(new) = E \cup {id}
      /\ \A q \in E \ {id} : new[q] = rows[q]
  BY MovedIs
<1>2. /\ S \subseteq E \cup {id} /\ id \in S
      /\ \A q \in S : h[q] \in 0 .. N
      /\ h[id] = 0
      /\ \A q \in E \ {id} : /\ q \in S <=> rows[q] \in S
                             /\ q \in S => h[q] = h[rows[q]] + 1
  BY DEF IsSubtree
<1>3. \A q \in E : /\ L[q] \in 1 .. MaxDepth
                   /\ \/ rows[q] = Top /\ L[q] = 1
                      \/ rows[q] \in E /\ L[q] = L[rows[q]] + 1
  BY DEF Levels
<1>4. \A q \in E \cup {id} : M[q] \in Nat
  BY <1>0, <1>1 DEF Levels
<1>5. \A q \in E \ {id} : \/ rows[q] = Top /\ M[q] = 1
                          \/ rows[q] \in E \cup {id} /\ M[q] = M[rows[q]] + 1
  BY <1>1 DEF Levels
<1>6. Top \notin E \cup {id}
  BY OrgConstants DEF Existing
<1> HIDE DEF E, new
<1>7. \A q \in S : M[q] = M[id] + h[q]
  <2> DEFINE T == {n \in 0 .. N : \A q \in S : h[q] = n => M[q] = M[id] + n}
  <2>1. 0 \in T
    <3> SUFFICES ASSUME NEW q \in S, h[q] = 0 PROVE M[q] = M[id] + 0
      BY <1>0
    <3>1. q = id
      <4> SUFFICES ASSUME q # id PROVE FALSE
        OBVIOUS
      <4>1. rows[q] \in S /\ h[q] = h[rows[q]] + 1 /\ h[rows[q]] \in 0 .. N
        BY <1>2
      <4> QED
        BY <4>1
    <3> QED
      BY <3>1, <1>4
  <2>2. \A n \in 0 .. N : n # 0 /\ n - 1 \in T => n \in T
    <3> SUFFICES ASSUME NEW n \in 0 .. N, n # 0, n - 1 \in T, NEW q \in S, h[q] = n
                 PROVE  M[q] = M[id] + n
      OBVIOUS
    <3>1. q \in E \ {id} /\ rows[q] \in S /\ n = h[rows[q]] + 1 /\ h[rows[q]] \in 0 .. N
      BY <1>2
    <3>2. h[rows[q]] = n - 1 /\ n \in Nat
      BY <3>1
    <3>3. M[rows[q]] = M[id] + (n - 1)
      BY <3>1, <3>2
    <3>4. M[q] = M[rows[q]] + 1
      BY <3>1, <1>2, <1>5, <1>6
    <3> QED
      BY <3>2, <3>3, <3>4, <1>4
  <2>3. \A n \in 0 .. N : n \in T
    <3> HIDE DEF T
    <3> QED
      BY <1>0, <2>1, <2>2, UpTo
  <2> QED
    BY <2>3, <1>2
<1>8. \A q \in E \ S : M[q] = L[q]
  <2> DEFINE T == {n \in 0 .. MaxDepth : \A q \in E \ S : L[q] = n => M[q] = n}
  <2>1. 0 \in T
    <3>1. \A q \in E : L[q] # 0
      BY <1>3
    <3> QED
      BY <3>1, <1>0
  <2>2. \A n \in 0 .. MaxDepth : n # 0 /\ n - 1 \in T => n \in T
    <3> SUFFICES ASSUME NEW n \in 0 .. MaxDepth, n # 0, n - 1 \in T, NEW q \in E \ S, L[q] = n
                 PROVE  M[q] = n
      OBVIOUS
    <3>0. q \in E \ {id} /\ rows[q] \notin S
      BY <1>2
    <3>1. CASE rows[q] = Top
      BY <3>0, <3>1, <1>3, <1>5, <1>6
    <3>2. CASE rows[q] # Top
      <4>1. rows[q] \in E \ S /\ n = L[rows[q]] + 1 /\ L[rows[q]] \in 1 .. MaxDepth
        BY <3>0, <3>2, <1>3
      <4>2. L[rows[q]] = n - 1 /\ n \in Nat
        BY <4>1
      <4>3. M[rows[q]] = n - 1
        BY <4>1, <4>2
      <4>4. M[q] = M[rows[q]] + 1
        BY <3>0, <3>2, <1>5
      <4> QED
        BY <4>2, <4>3, <4>4
    <3> QED
      BY <3>1, <3>2
  <2>3. \A n \in 0 .. MaxDepth : n \in T
    <3> HIDE DEF T
    <3> QED
      BY <1>0, <2>1, <2>2, UpTo
  <2>4. \A q \in E : L[q] \in 0 .. MaxDepth
    BY <1>3
  <2> QED
    BY <2>3, <2>4
<1> QED
  BY <1>7, <1>8 DEF E

\* tree-guard.ts: of a chart, checkParent accepts exactly the parents that
\* leave a chart, whatever the chart.
THEOREM GuardDecides ==
    ASSUME NEW rows \in Forests, IsChart(rows),
           NEW id \in Positions, NEW to \in Positions \cup {Top}
    PROVE  CheckParent(rows, id, to) = "ok" <=> IsChart([rows EXCEPT ![id] = to])
<1>1. PICK L : Levels(rows, L)
  BY ChartHasLevels
<1>2. PICK S, h : /\ IsSubtree(rows, id, S, h)
                  /\ \A q \in Existing(rows) \ {id} : IsDescendant(rows, q, id) <=> q \in S
  BY <1>1, SubtreeIs
<1> DEFINE d == SubtreeDepth(rows, id)
           new == Moved(rows, id, to)
<1>3. /\ d \in Nat \ {0}
      /\ \A q \in S : h[q] <= d - 1
      /\ \E q \in S : h[q] = d - 1
  BY <1>2, SubtreeDepthIs
<1>4. /\ id \in S /\ S \subseteq Existing(rows) \cup {id}
      /\ h[id] = 0 /\ \A q \in S : h[q] \in Nat
  BY <1>2, SizeType DEF IsSubtree
<1>5. to \in Existing(rows) => DepthOf(rows, to) = L[to] /\ L[to] \in Nat
  BY <1>1, DepthIsLevel, LevelFacts
<1>6. MaxDepth \in Nat /\ Top \notin Existing(rows) /\ Top # id
  BY OrgConstants DEF Existing
<1> HIDE DEF d
<1>7. CheckParent(rows, id, to) = "ok" <=>
        \/ to = Top /\ d <= MaxDepth
        \/ to \in Existing(rows) /\ to \notin S /\ L[to] + d <= MaxDepth
  <2>1. CASE to = Top
    <3>1. CheckParent(rows, id, to) = IF d > MaxDepth THEN "TOO_DEEP" ELSE "ok"
      BY <2>1 DEF CheckParent, d
    <3> QED
      BY <2>1, <3>1, <1>3, <1>6
  <2>2. CASE to = id
    <3>1. CheckParent(rows, id, to) = "SELF_PARENT"
      BY <2>2, <1>6 DEF CheckParent
    <3> QED
      BY <2>2, <3>1, <1>4, <1>6
  <2>3. CASE to # Top /\ to # id /\ to \notin Existing(rows)
    <3>1. CheckParent(rows, id, to) = "PARENT_NOT_FOUND"
      BY <2>3 DEF CheckParent
    <3> QED
      BY <2>3, <3>1
  <2>4. CASE to # Top /\ to # id /\ to \in Existing(rows)
    <3>1. CheckParent(rows, id, to) =
            IF IsDescendant(rows, to, id) THEN "CYCLE"
            ELSE IF DepthOf(rows, to) + d > MaxDepth THEN "TOO_DEEP" ELSE "ok"
      BY <2>4 DEF CheckParent, d
    <3>2. IsDescendant(rows, to, id) <=> to \in S
      BY <2>4, <1>2
    <3>3. DepthOf(rows, to) = L[to] /\ L[to] \in Nat
      BY <2>4, <1>5
    <3> QED
      BY <2>4, <3>1, <3>2, <3>3, <1>3, <1>6
  <2> QED
    BY <2>1, <2>2, <2>3, <2>4
<1>8. ASSUME CheckParent(rows, id, to) = "ok"
      PROVE  IsChart(new)
  <2>1. PICK base \in Nat : /\ \/ to = Top /\ base = 0
                               \/ to \in Existing(rows) /\ to \notin S /\ base = L[to]
                            /\ base + d <= MaxDepth
    <3>1. CASE to = Top /\ d <= MaxDepth
      <4>1. 0 \in Nat /\ 0 + d <= MaxDepth
        BY <3>1, <1>3
      <4> QED
        BY <3>1, <4>1
    <3>2. CASE to \in Existing(rows) /\ to \notin S /\ L[to] + d <= MaxDepth
      BY <3>2, <1>5
    <3> QED
      BY <1>7, <1>8, <3>1, <3>2
  <2>2. \A q \in S : base + 1 + h[q] <= MaxDepth
    BY <2>1, <1>3, <1>4, <1>6
  <2> QED
    BY <1>1, <1>2, <2>1, <2>2, FittingMoveKeepsChart
<1>9. ASSUME IsChart(new)
      PROVE  CheckParent(rows, id, to) = "ok"
  <2>1. PICK M : Levels(new, M)
    BY <1>9, ChartHasLevels
  <2>2. /\ \A q \in S : M[q] = M[id] + h[q]
        /\ \A q \in Existing(rows) \ S : M[q] = L[q]
    BY <1>1, <1>2, <2>1, LevelsAfterMove
  <2>3. Existing(new) = Existing(rows) \cup {id} /\ new[id] = to
    BY MovedIs
  <2>4. /\ \A q \in Existing(rows) \cup {id} : M[q] \in 1 .. MaxDepth
        /\ \/ to = Top /\ M[id] = 1
           \/ to \in Existing(rows) \cup {id} /\ M[id] = M[to] + 1
    BY <2>1, <2>3 DEF Levels
  <2>5. PICK q \in S : h[q] = d - 1
    BY <1>3
  <2>6. M[id] \in Nat /\ M[id] + (d - 1) <= MaxDepth
    <3>1. M[q] = M[id] + (d - 1) /\ M[q] \in 1 .. MaxDepth /\ M[id] \in 1 .. MaxDepth
      BY <2>2, <2>4, <2>5, <1>4
    <3> QED
      BY <3>1, <1>6
  <2>7. CASE to = Top
    <3>1. M[id] = 1
      BY <2>4, <2>7, <1>6
    <3>2. d <= MaxDepth
      BY <2>6, <3>1, <1>3, <1>6
    <3> QED
      BY <2>7, <3>2, <1>7
  <2>8. CASE to # Top
    <3>1. to \in Existing(rows) \cup {id} /\ M[id] = M[to] + 1 /\ M[to] \in 1 .. MaxDepth
      BY <2>4, <2>8
    <3>2. to \notin S
      <4> SUFFICES ASSUME to \in S PROVE FALSE
        OBVIOUS
      <4>1. M[to] = M[id] + h[to] /\ h[to] \in Nat
        BY <2>2, <1>4
      <4> QED
        BY <4>1, <3>1, <2>6
    <3>3. to \in Existing(rows) /\ M[to] = L[to]
      BY <3>1, <3>2, <1>4, <2>2
    <3>4. L[to] + d <= MaxDepth
      BY <3>1, <3>3, <2>6, <1>3, <1>5, <1>6
    <3> QED
      BY <3>2, <3>3, <3>4, <1>7
  <2> QED
    BY <2>7, <2>8
<1> QED
  BY <1>8, <1>9 DEF Moved

-----------------------------------------------------------------------------
(* What the requests keep                                                  *)

\* Who writes holds the table and the rows read are the rows there are, and
\* no row is locked for a removal meanwhile.
TreeIsHeld ==
    /\ \A e \in Editors : tx[e].stage = "write" => tree = e /\ tx[e].rows = parent
    /\ tree # None => \A e \in Editors : tx[e].stage # "remove"

OrgInvariant == TypeOK /\ TreeIsHeld

LEMMA OrgInitial == Init => OrgInvariant
<1> SUFFICES ASSUME Init PROVE OrgInvariant
  OBVIOUS
<1>1. TypeOK
  BY DEF Init, TypeOK, Forests
<1>2. \A e \in Editors : tx[e].stage = "idle"
  BY DEF Init, Idle
<1> QED
  BY <1>1, <1>2 DEF OrgInvariant, TreeIsHeld, Init

\* What a transaction is, by its stage.
LEMMA TxKinds ==
    ASSUME TypeOK, NEW e \in Editors
    PROVE  /\ tx[e] # Idle => tx[e].stage \in {"write", "remove"}
           /\ tx[e] = Idle => tx[e].stage = "idle"
           /\ tx[e].stage = "write" => /\ tx[e].id \in Positions
                                       /\ tx[e].to \in Positions \cup {Top, None}
                                       /\ tx[e].rows \in Forests
           /\ tx[e].stage = "remove" => tx[e].id \in Positions
BY DEF TypeOK, OpenTx, Idle

LEMMA NobodyHeld ==
    ASSUME TypeOK, RowsHeld = {}
    PROVE  \A e \in Editors : tx[e].stage # "remove"
BY DEF RowsHeld

\* A write to one row leaves rows of the right type.
LEMMA RowsType ==
    ASSUME TypeOK, NEW p \in Positions, NEW to \in Positions \cup {Top, None}
    PROVE  [parent EXCEPT ![p] = to] \in Forests
BY DEF TypeOK, Forests

\* The end of a transaction.
LEMMA EndIs ==
    ASSUME TypeOK, NEW e \in Editors, Ended(e)
    PROVE  /\ tree' \in Editors \cup {None}
           /\ tx' \in [Editors -> OpenTx \cup {Idle}]
           /\ tx'[e] = Idle /\ tx'[e].stage = "idle"
           /\ \A f \in Editors : f # e => tx'[f] = tx[f]
           /\ tree' = IF tree = e THEN None ELSE tree
BY DEF Ended, TypeOK, Idle

\* What ends a transaction keeps the invariant, if only the holder of the
\* table or of a row has written.
LEMMA EndKeeps ==
    ASSUME OrgInvariant, NEW e \in Editors, Ended(e),
           parent' \in Forests, used' \subseteq Positions,
           UNCHANGED <<post, publishing>>,
           parent' = parent \/ tx[e].stage \in {"write", "remove"}
    PROVE  OrgInvariant'
<1>1. TypeOK'
  BY EndIs DEF OrgInvariant, TypeOK
<1>2. TreeIsHeld'
  <2>1. TypeOK /\ TreeIsHeld
    BY DEF OrgInvariant
  <2>2. ASSUME NEW f \in Editors, tx'[f].stage = "write"
        PROVE  tree' = f /\ tx'[f].rows = parent'
    <3>1. f # e /\ tx'[f] = tx[f]
      BY <2>1, <2>2, EndIs
    <3>2. tree = f /\ tx[f].rows = parent /\ tree # None
      BY <2>1, <2>2, <3>1, OrgConstants DEF TreeIsHeld
    <3>3. tx[e].stage # "write" /\ tx[e].stage # "remove"
      BY <2>1, <3>1, <3>2 DEF TreeIsHeld
    <3>4. tree' = f /\ parent' = parent
      BY <2>1, <3>1, <3>2, <3>3, EndIs
    <3> QED
      BY <3>1, <3>2, <3>4
  <2>3. ASSUME tree' # None, NEW f \in Editors
        PROVE  tx'[f].stage # "remove"
    <3>1. tree # None
      BY <2>1, <2>3, EndIs
    <3> QED
      BY <2>1, <3>1, EndIs DEF TreeIsHeld
  <2> QED
    BY <2>2, <2>3 DEF TreeIsHeld
<1> QED
  BY <1>1, <1>2 DEF OrgInvariant

LEMMA LockTreeKeeps ==
    ASSUME OrgInvariant, NEW e \in Editors, NEW id \in Positions,
           NEW to \in Positions \cup {Top, None}, TxLockTree(e, id, to)
    PROVE  OrgInvariant'
<1> DEFINE t == [stage |-> "write", id |-> id, to |-> to, rows |-> parent]
<1>0. TypeOK /\ TreeIsHeld
  BY DEF OrgInvariant
<1>1. t \in OpenTx
  BY <1>0 DEF OpenTx, TypeOK
<1>2. t.stage = "write" /\ t.rows = parent
  OBVIOUS
<1>3. /\ tree = None /\ RowsHeld = {}
      /\ tree' = e
      /\ tx' = [tx EXCEPT ![e] = t]
      /\ UNCHANGED <<parent, used, post, publishing>>
  BY DEF TxLockTree
<1> HIDE DEF t
<1>4. TypeOK'
  BY <1>0, <1>1, <1>3 DEF TypeOK
<1>5. \A f \in Editors : tx[f].stage # "write" /\ tx[f].stage # "remove"
  BY <1>0, <1>3, NobodyHeld, OrgConstants DEF TreeIsHeld
<1>6. \A f \in Editors : tx'[f] = IF f = e THEN t ELSE tx[f]
  BY <1>0, <1>3 DEF TypeOK
<1>7. TreeIsHeld'
  BY <1>2, <1>3, <1>5, <1>6 DEF TreeIsHeld
<1> QED
  BY <1>4, <1>7 DEF OrgInvariant

LEMMA LockRowKeeps ==
    ASSUME OrgInvariant, NEW e \in Editors, NEW id \in Positions, TxLockRow(e, id)
    PROVE  OrgInvariant'
<1> DEFINE t == [stage |-> "remove", id |-> id]
<1>0. TypeOK /\ TreeIsHeld
  BY DEF OrgInvariant
<1>1. t \in OpenTx
  BY DEF OpenTx
<1>2. t.stage # "write"
  OBVIOUS
<1>3. /\ tree = None
      /\ tx' = [tx EXCEPT ![e] = t]
      /\ UNCHANGED <<parent, used, post, tree, publishing>>
  BY DEF TxLockRow
<1> HIDE DEF t
<1>4. TypeOK'
  BY <1>0, <1>1, <1>3 DEF TypeOK
<1>5. \A f \in Editors : tx'[f] = IF f = e THEN t ELSE tx[f]
  BY <1>0, <1>3 DEF TypeOK
<1>6. TreeIsHeld'
  BY <1>0, <1>2, <1>3, <1>5 DEF TreeIsHeld
<1> QED
  BY <1>4, <1>6 DEF OrgInvariant

\* A publish request writes only while nobody holds the table.
LEMMA PublishKeeps ==
    ASSUME OrgInvariant, NEW s \in Publishers,
           (\E id \in Positions : PublishRead(s, id)) \/ PublishCompare(s) \/ PublishWrite(s)
    PROVE  OrgInvariant'
<1> DEFINE Open == [stage : Stages, id : Positions, was : Positions \cup {Top}]
<1>0. /\ TypeOK /\ TreeIsHeld
      /\ parent \in Forests
      /\ publishing \in [Publishers -> Open \cup {Idle}]
  BY DEF OrgInvariant, TypeOK
<1>1. CASE \E id \in Positions : PublishRead(s, id)
  <2>1. PICK id \in Positions : PublishRead(s, id)
    BY <1>1
  <2> DEFINE b == [stage |-> "read", id |-> id, was |-> parent[id]]
  <2>2. b \in Open
    BY <1>0, <2>1 DEF PublishRead, Forests, Stages
  <2>3. /\ publishing' = [publishing EXCEPT ![s] = b]
        /\ UNCHANGED <<parent, used, post, tree, tx>>
    BY <2>1 DEF PublishRead
  <2> HIDE DEF b
  <2> QED
    BY <1>0, <2>2, <2>3 DEF OrgInvariant, TypeOK, TreeIsHeld
<1>2. CASE PublishCompare(s)
  <2>1. publishing[s].stage = "read" /\ UNCHANGED <<parent, used, post, tree, tx>>
    BY <1>2 DEF PublishCompare
  <2>2. publishing[s] \in Open
    BY <1>0, <2>1 DEF Idle
  <2> DEFINE to == IF parent[publishing[s].id] = None THEN "gone"
                   ELSE IF parent[publishing[s].id] = publishing[s].was
                        THEN "same" ELSE "differs"
  <2>3. publishing' = [publishing EXCEPT ![s].stage = to] /\ to \in Stages
    BY <1>2 DEF PublishCompare, Stages
  <2> HIDE DEF to
  <2>4. [publishing[s] EXCEPT !.stage = to] \in Open
    BY <2>2, <2>3
  <2>5. publishing' \in [Publishers -> Open \cup {Idle}]
    BY <1>0, <2>3, <2>4
  <2> QED
    BY <1>0, <2>1, <2>5 DEF OrgInvariant, TypeOK, TreeIsHeld
<1>3. CASE PublishWrite(s)
  <2> DEFINE b == publishing[s]
  <2>1. /\ tree = None
        /\ publishing' = [publishing EXCEPT ![s] = Idle]
        /\ UNCHANGED <<used, post, tree, tx>>
        /\ b.stage \in {"same", "differs", "gone"}
        /\ parent' = parent \/ parent' = [parent EXCEPT ![b.id] = b.was]
    BY <1>3 DEF PublishWrite
  <2>2. b \in Open
    BY <1>0, <2>1 DEF Idle
  <2>3. parent' \in Forests
    BY <1>0, <2>1, <2>2, RowsType
  <2>4. \A e \in Editors : tx[e].stage # "write"
    BY <1>0, <2>1, OrgConstants DEF TreeIsHeld
  <2> HIDE DEF b
  <2> QED
    BY <1>0, <2>1, <2>3, <2>4 DEF OrgInvariant, TypeOK, TreeIsHeld
<1> QED
  BY <1>1, <1>2, <1>3

LEMMA OrgStep == OrgInvariant /\ [Next]_vars => OrgInvariant'
<1> SUFFICES ASSUME OrgInvariant, [Next]_vars PROVE OrgInvariant'
  OBVIOUS
<1>0. TypeOK /\ parent \in Forests /\ used \subseteq Positions
  BY DEF OrgInvariant, TypeOK
<1>1. ASSUME NEW e \in Editors, NEW id \in Positions, NEW to \in Positions \cup {Top, None},
             TxLockTree(e, id, to)
      PROVE  OrgInvariant'
  BY <1>1, LockTreeKeeps
<1>2. ASSUME NEW e \in Editors, NEW id \in Positions, TxLockRow(e, id)
      PROVE  OrgInvariant'
  BY <1>2, LockRowKeeps
<1>3. ASSUME NEW e \in Editors, Create(e)
      PROVE  OrgInvariant'
  <2> DEFINE to == IF tx[e].to = None THEN Top ELSE tx[e].to
  <2>1. /\ tx[e].stage = "write" /\ Ended(e)
        /\ parent' = [parent EXCEPT ![tx[e].id] = to]
        /\ used' = used \cup {tx[e].id}
        /\ UNCHANGED <<post, publishing>>
    BY <1>3 DEF Create
  <2>2. tx[e].id \in Positions /\ to \in Positions \cup {Top, None}
    BY <1>0, <2>1, TxKinds
  <2> HIDE DEF to
  <2>3. parent' \in Forests /\ used' \subseteq Positions
    BY <1>0, <2>1, <2>2, RowsType
  <2> QED
    BY <2>1, <2>3, EndKeeps
<1>4. ASSUME NEW e \in Editors, Move(e)
      PROVE  OrgInvariant'
  <2> DEFINE to == IF tx[e].to # None /\ tx[e].to # parent[tx[e].id]
                   THEN tx[e].to ELSE parent[tx[e].id]
  <2>1. /\ tx[e].stage = "write" /\ Ended(e)
        /\ UNCHANGED <<used, post, publishing>>
    BY <1>4 DEF Move
  <2>2. /\ tx[e].id \in Positions /\ to \in Positions \cup {Top, None}
    BY <1>0, <2>1, TxKinds DEF Forests
  <2>3. parent' = [parent EXCEPT ![tx[e].id] = to]
    BY <1>0, <1>4, <2>2 DEF Move, Forests
  <2> HIDE DEF to
  <2>4. parent' \in Forests /\ used' \subseteq Positions
    BY <1>0, <2>1, <2>2, <2>3, RowsType
  <2> QED
    BY <2>1, <2>4, EndKeeps
<1>5. ASSUME NEW e \in Editors, Remove(e)
      PROVE  OrgInvariant'
  <2>1. /\ tx[e].stage = "remove" /\ Ended(e)
        /\ parent' = [parent EXCEPT ![tx[e].id] = None]
        /\ UNCHANGED <<used, post, publishing>>
    BY <1>5 DEF Remove
  <2>2. parent' \in Forests /\ used' \subseteq Positions
    BY <1>0, <2>1, TxKinds, RowsType
  <2> QED
    BY <2>1, <2>2, EndKeeps
<1>6. ASSUME NEW e \in Editors, TxRollback(e)
      PROVE  OrgInvariant'
  <2>1. Ended(e) /\ UNCHANGED <<parent, used, post, publishing>>
    BY <1>6 DEF TxRollback
  <2> QED
    BY <1>0, <2>1, EndKeeps
<1>7. ASSUME NEW m \in Members, NEW p \in Positions \cup {None}, Appoint(m, p)
      PROVE  OrgInvariant'
  BY <1>7 DEF Appoint, OrgInvariant, TypeOK, TreeIsHeld
<1>8. ASSUME UNCHANGED vars
      PROVE  OrgInvariant'
  BY <1>8 DEF vars, OrgInvariant, TypeOK, TreeIsHeld
<1> QED
  BY <1>1, <1>2, <1>3, <1>4, <1>5, <1>6, <1>7, <1>8, PublishKeeps DEF Next

\* The chart, its requests and their locks stay well-typed, and a transaction
\* that writes is alone with the rows it has read.
THEOREM OrgTypeCorrect == Spec => []OrgInvariant
<1>1. Init => OrgInvariant
  BY OrgInitial
<1>2. OrgInvariant /\ [Next]_vars => OrgInvariant'
  BY OrgStep
<1> QED
  BY <1>1, <1>2, PTL DEF Spec

-----------------------------------------------------------------------------
(* The guard and the chart, in every behaviour                             *)

\* GuardIsExact, of OrgTree: in every state reached, if the rows are a chart
\* the guard accepts exactly the parents that leave one.
THEOREM GuardIsAlwaysExact == Spec => []GuardIsExact
<1>1. OrgInvariant => GuardIsExact
  <2> SUFFICES ASSUME OrgInvariant, IsChart(parent),
                      NEW id \in Positions, NEW to \in Positions \cup {Top}
               PROVE  CheckParent(parent, id, to) = "ok" <=> IsChart([parent EXCEPT ![id] = to])
    BY DEF GuardIsExact
  <2>1. parent \in Forests
    BY DEF OrgInvariant, TypeOK
  <2> QED
    BY <2>1, GuardDecides
<1> QED
  BY <1>1, OrgTypeCorrect, PTL

\* A chart without a position that nobody reports to is a chart.
LEMMA LeafRemovalKeepsChart ==
    ASSUME NEW rows \in Forests, IsChart(rows), NEW id \in Positions,
           \A p \in Positions : rows[p] # id
    PROVE  IsChart([rows EXCEPT ![id] = None])
<1> DEFINE new == [rows EXCEPT ![id] = None]
           E == Existing(rows)
<1>1. PICK L : Levels(rows, L)
  BY ChartHasLevels
<1> DEFINE M == [p \in E \ {id} |-> L[p]]
<1>2. \A p \in Positions : new[p] = IF p = id THEN None ELSE rows[p]
  BY DEF Forests
<1>3. Existing(new) = {p \in Positions : new[p] # None}
  BY DEF Existing
<1> HIDE DEF new
<1>4. Existing(new) = E \ {id}
  BY <1>2, <1>3 DEF Existing
<1>5. M \in [E \ {id} -> 1 .. MaxDepth]
  BY <1>1 DEF Levels
<1>6. ASSUME NEW p \in E \ {id}
      PROVE  \/ new[p] = Top /\ M[p] = 1
             \/ new[p] \in E \ {id} /\ M[p] = M[new[p]] + 1
  <2>1. new[p] = rows[p] /\ rows[p] # id
    BY <1>2 DEF Existing
  <2>2. \/ rows[p] = Top /\ L[p] = 1
        \/ rows[p] \in E /\ L[p] = L[rows[p]] + 1
    BY <1>1 DEF Levels
  <2> QED
    BY <2>1, <2>2
<1>7. Levels(new, M)
  <2> HIDE DEF M, E
  <2> QED
    BY <1>4, <1>5, <1>6 DEF Levels
<1>8. \E f : Levels(new, f)
  <2> HIDE DEF M
  <2> QED
    BY <1>7
<1> QED
  BY <1>8, ChartHasLevels DEF new

\* MovesKeepChart, of OrgTree: creations, moves and deletions that overlap
\* never break a chart; only a publish does.
THEOREM MovesAlwaysKeepChart == Spec => MovesKeepChart
<1>1. OrgInvariant /\ [Next]_vars =>
        [IsChart(parent) => IsChart(parent') \/ \E s \in Publishers : PublishWrite(s)]_vars
  <2> SUFFICES ASSUME OrgInvariant, Next, IsChart(parent),
                      ~(\E s \in Publishers : PublishWrite(s))
               PROVE  IsChart(parent')
    OBVIOUS
  <2>0. TypeOK /\ TreeIsHeld /\ parent \in Forests
    BY DEF OrgInvariant, TypeOK
  <2>1. ASSUME NEW e \in Editors, Create(e)
        PROVE  IsChart(parent')
    <3> DEFINE to == IF tx[e].to = None THEN Top ELSE tx[e].to
    <3>1. /\ tx[e].stage = "write"
          /\ CheckParent(tx[e].rows, tx[e].id, to) = "ok"
          /\ parent' = [parent EXCEPT ![tx[e].id] = to]
      BY <2>1 DEF Create
    <3>2. tx[e].id \in Positions /\ to \in Positions \cup {Top} /\ tx[e].rows = parent
      BY <2>0, <3>1, TxKinds DEF TreeIsHeld
    <3> HIDE DEF to
    <3> QED
      BY <2>0, <3>1, <3>2, GuardDecides
  <2>2. ASSUME NEW e \in Editors, Move(e)
        PROVE  IsChart(parent')
    <3> DEFINE id == tx[e].id
               to == tx[e].to
    <3>1. tx[e].stage = "write"
      BY <2>2 DEF Move
    <3>2. id \in Positions /\ to \in Positions \cup {Top, None} /\ tx[e].rows = parent
      BY <2>0, <3>1, TxKinds DEF TreeIsHeld
    <3>3. CASE to # None /\ to # parent[id]
      <4>1. CheckParent(parent, id, to) = "ok" /\ parent' = [parent EXCEPT ![id] = to]
        BY <2>2, <3>2, <3>3 DEF Move
      <4> HIDE DEF id, to
      <4> QED
        BY <2>0, <3>2, <3>3, <4>1, GuardDecides
    <3>4. CASE ~(to # None /\ to # parent[id])
      <4>1. parent' = [parent EXCEPT ![id] = parent[id]]
        BY <2>2, <3>4 DEF Move
      <4>2. parent' = parent
        BY <2>0, <4>1 DEF Forests
      <4> QED
        BY <4>2
    <3> QED
      BY <3>3, <3>4
  <2>3. ASSUME NEW e \in Editors, Remove(e)
        PROVE  IsChart(parent')
    <3>1. /\ tx[e].stage = "remove"
          /\ \A p \in Positions : parent[p] # tx[e].id
          /\ parent' = [parent EXCEPT ![tx[e].id] = None]
      BY <2>3 DEF Remove, InUse
    <3>2. tx[e].id \in Positions
      BY <2>0, <3>1, TxKinds
    <3> QED
      BY <2>0, <3>1, <3>2, LeafRemovalKeepsChart
  <2>4. ASSUME UNCHANGED parent
        PROVE  IsChart(parent')
    BY <2>4
  <2> QED
    BY <2>1, <2>2, <2>3, <2>4 DEF Next, TxLockTree, TxLockRow, TxRollback, Appoint,
       PublishRead, PublishCompare
<1> QED
  BY <1>1, OrgTypeCorrect, PTL DEF Spec, MovesKeepChart

-----------------------------------------------------------------------------
(* What publishing cannot break                                            *)

\* Who is reported to exists, and so does the position a member has.
ReferencesHold ==
    /\ \A p \in Positions : parent[p] \in Positions => parent[parent[p]] # None
    /\ \A m \in Members : post[m] # None => parent[post[m]] # None

\* A row whose new parent is a root or a row keeps every reference.
LEMMA RepointKeepsReferences ==
    ASSUME TypeOK, ReferencesHold, NEW id \in Positions, NEW to \in Positions \cup {Top},
           to = Top \/ to = id \/ parent[to] # None,
           parent' = [parent EXCEPT ![id] = to], UNCHANGED post
    PROVE  ReferencesHold'
<1>1. \A p \in Positions : parent'[p] = IF p = id THEN to ELSE parent[p]
  BY DEF TypeOK, Forests
<1>2. \A p \in Positions : parent[p] # None => parent'[p] # None
  BY <1>1, OrgConstants
<1>3. ASSUME NEW p \in Positions, parent'[p] \in Positions
      PROVE  parent'[parent'[p]] # None
  <2>1. CASE p = id
    BY <1>1, <1>2, <1>3, <2>1, OrgConstants
  <2>2. CASE p # id
    BY <1>1, <1>2, <1>3, <2>2 DEF ReferencesHold
  <2> QED
    BY <2>1, <2>2
<1>4. \A m \in Members : post'[m] # None => parent'[post'[m]] # None
  BY <1>2 DEF ReferencesHold, TypeOK
<1> QED
  BY <1>3, <1>4 DEF ReferencesHold

\* The guard accepts no parent that does not exist.
LEMMA GuardFindsParent ==
    ASSUME NEW rows, NEW id, NEW to, CheckParent(rows, id, to) = "ok"
    PROVE  to = Top \/ to \in Existing(rows)
BY DEF CheckParent

LEMMA ReferencesStep ==
    ASSUME OrgInvariant, ReferencesHold, [Next]_vars
    PROVE  ReferencesHold'
<1>0. TypeOK /\ TreeIsHeld /\ parent \in Forests
  BY DEF OrgInvariant, TypeOK
<1>1. ASSUME NEW e \in Editors, Create(e)
      PROVE  ReferencesHold'
  <2> DEFINE to == IF tx[e].to = None THEN Top ELSE tx[e].to
  <2>1. /\ tx[e].stage = "write" /\ UNCHANGED post
        /\ CheckParent(tx[e].rows, tx[e].id, to) = "ok"
        /\ parent' = [parent EXCEPT ![tx[e].id] = to]
    BY <1>1 DEF Create
  <2>2. tx[e].id \in Positions /\ to \in Positions \cup {Top} /\ tx[e].rows = parent
    BY <1>0, <2>1, TxKinds DEF TreeIsHeld
  <2> HIDE DEF to
  <2>3. to = Top \/ parent[to] # None
    BY <2>1, <2>2, GuardFindsParent DEF Existing
  <2> QED
    BY <1>0, <2>1, <2>2, <2>3, RepointKeepsReferences
<1>2. ASSUME NEW e \in Editors, Move(e)
      PROVE  ReferencesHold'
  <2> DEFINE id == tx[e].id
             to == tx[e].to
  <2>1. tx[e].stage = "write" /\ UNCHANGED post /\ parent[id] # None
    BY <1>2 DEF Move
  <2>2. id \in Positions /\ to \in Positions \cup {Top, None} /\ tx[e].rows = parent
    BY <1>0, <2>1, TxKinds DEF TreeIsHeld
  <2>3. CASE to # None /\ to # parent[id]
    <3>1. CheckParent(parent, id, to) = "ok" /\ parent' = [parent EXCEPT ![id] = to]
      BY <1>2, <2>2, <2>3 DEF Move
    <3> HIDE DEF id, to
    <3>2. to = Top \/ parent[to] # None
      BY <3>1, GuardFindsParent DEF Existing
    <3> QED
      BY <1>0, <2>1, <2>2, <2>3, <3>1, <3>2, RepointKeepsReferences
  <2>4. CASE ~(to # None /\ to # parent[id])
    <3>1. parent' = [parent EXCEPT ![id] = parent[id]]
      BY <1>2, <2>4 DEF Move
    <3>2. parent' = parent
      BY <1>0, <3>1 DEF Forests
    <3> QED
      BY <2>1, <3>2 DEF ReferencesHold
  <2> QED
    BY <2>3, <2>4
<1>3. ASSUME NEW e \in Editors, Remove(e)
      PROVE  ReferencesHold'
  <2>1. /\ tx[e].stage = "remove" /\ ~InUse(tx[e].id) /\ UNCHANGED post
        /\ parent' = [parent EXCEPT ![tx[e].id] = None]
    BY <1>3 DEF Remove
  <2>2. tx[e].id \in Positions
    BY <1>0, <2>1, TxKinds
  <2>3. \A p \in Positions : parent'[p] = IF p = tx[e].id THEN None ELSE parent[p]
    BY <2>1 , <1>0 DEF Forests
  <2> QED
    BY <1>0, <2>1, <2>2, <2>3, OrgConstants DEF ReferencesHold, InUse, TypeOK
<1>4. ASSUME NEW m \in Members, NEW p \in Positions \cup {None}, Appoint(m, p)
      PROVE  ReferencesHold'
  BY <1>0, <1>4 DEF Appoint, ReferencesHold, TypeOK
<1>5. ASSUME NEW s \in Publishers, PublishWrite(s)
      PROVE  ReferencesHold'
  <2> DEFINE b == publishing[s]
  <2>1. b.stage \in {"same", "differs", "gone"} /\ UNCHANGED post
    BY <1>5 DEF PublishWrite
  <2>2. b.id \in Positions /\ b.was \in Positions \cup {Top}
    BY <1>0, <2>1 DEF TypeOK, Idle
  <2>3. \/ parent' = parent
        \/ /\ b.was = Top \/ parent[b.was] # None
           /\ parent' = [parent EXCEPT ![b.id] = b.was]
    BY <1>5 DEF PublishWrite
  <2> HIDE DEF b
  <2>4. CASE parent' = parent
    BY <2>1, <2>4 DEF ReferencesHold
  <2>5. CASE parent' # parent
    BY <1>0, <2>1, <2>2, <2>3, <2>5, RepointKeepsReferences
  <2> QED
    BY <2>4, <2>5
<1>6. ASSUME UNCHANGED <<parent, post>>
      PROVE  ReferencesHold'
  BY <1>6 DEF ReferencesHold
<1> QED
  BY <1>1, <1>2, <1>3, <1>4, <1>5, <1>6 DEF Next, TxLockTree, TxLockRow, TxRollback,
     PublishRead, PublishCompare, vars

\* org-position.entity.ts: no position reports to one that is gone and no
\* member has one that is gone, whatever overlaps.  A creation or a move does
\* not look at the parent again before it saves: that the table is locked is
\* enough.
THEOREM ReferencesAlwaysHold == Spec => []ReferencesHold
<1>1. Init => ReferencesHold
  BY OrgConstants DEF Init, ReferencesHold
<1> QED
  BY <1>1, OrgInitial, OrgStep, OrgTypeCorrect, ReferencesStep, PTL DEF Spec

=============================================================================
