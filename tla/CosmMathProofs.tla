---------------------------- MODULE CosmMathProofs ----------------------------
(***************************************************************************)
(* Facts about the arithmetic of CosmMath, and about the sums over finite  *)
(* sets of the community module Functions, that the proofs of the          *)
(* contracts cite.                                                         *)
(***************************************************************************)
EXTENDS CosmMath, Sequences, Functions, FiniteSetTheorems, WellFoundedInduction, TLAPS

\* Division rounds down: the quotient is the last one that fits.
LEMMA DivFloor ==
    ASSUME NEW n \in Nat, NEW d \in Nat \ {0}
    PROVE  /\ n \div d \in Nat
           /\ (n \div d) * d <= n
           /\ n < (n \div d + 1) * d
  OBVIOUS

LEMMA MulNat == ASSUME NEW a \in Nat, NEW b \in Nat PROVE a * b \in Nat
  OBVIOUS

LEMMA MulMonotone ==
    ASSUME NEW a \in Nat, NEW b \in Nat, NEW c \in Nat, a <= b
    PROVE  a * c <= b * c
  OBVIOUS

LEMMA MulCancel ==
    ASSUME NEW a \in Nat, NEW b \in Nat, NEW c \in Nat, a * c < b * c
    PROVE  a < b
  BY MulMonotone, MulNat

\* multiply_ratio of naturals is a natural.
LEMMA MultiplyRatioType ==
    ASSUME NEW a \in Nat, NEW n \in Nat, NEW d \in Nat \ {0}
    PROVE  /\ MultiplyRatio(a, n, d) \in Nat
           /\ MultiplyRatio(a, n, d) * d <= a * n
           /\ a * n < (MultiplyRatio(a, n, d) + 1) * d
  BY MulNat, DivFloor DEF MultiplyRatio

\* A division rounds down to the greatest quotient that fits.
LEMMA FloorGreatest ==
    ASSUME NEW q \in Nat, NEW n \in Nat, NEW d \in Nat \ {0}, q * d <= n
    PROVE  q <= n \div d
  <1>1. n \div d \in Nat /\ n < (n \div d + 1) * d
    BY DivFloor
  <1>2. q * d \in Nat /\ (n \div d + 1) * d \in Nat
    BY <1>1, MulNat
  <1>3. q < n \div d + 1
    BY <1>1, <1>2, MulCancel
  <1>. QED
    BY <1>1, <1>3

LEMMA FloorLeast ==
    ASSUME NEW q \in Nat, NEW n \in Nat, NEW d \in Nat \ {0}, n < q * d
    PROVE  n \div d < q
  <1>1. n \div d \in Nat /\ (n \div d) * d <= n
    BY DivFloor
  <1>2. q * d \in Nat /\ (n \div d) * d \in Nat
    BY <1>1, MulNat
  <1>. QED
    BY <1>1, <1>2, MulCancel

LEMMA FloorMonotone ==
    ASSUME NEW m \in Nat, NEW n \in Nat, NEW d \in Nat \ {0}, m <= n
    PROVE  m \div d <= n \div d
  <1>1. m \div d \in Nat /\ (m \div d) * d <= m
    BY DivFloor
  <1>2. (m \div d) * d \in Nat
    BY <1>1, MulNat
  <1>. QED
    BY <1>1, <1>2, FloorGreatest

LEMMA FloorsAdd ==
    ASSUME NEW m \in Nat, NEW n \in Nat, NEW d \in Nat \ {0}
    PROVE  m \div d + n \div d <= (m + n) \div d
  <1>1. /\ m \div d \in Nat /\ (m \div d) * d <= m
        /\ n \div d \in Nat /\ (n \div d) * d <= n
    BY DivFloor
  <1>2. (m \div d + n \div d) * d = (m \div d) * d + (n \div d) * d
    BY <1>1
  <1>3. (m \div d) * d \in Nat /\ (n \div d) * d \in Nat
    BY <1>1, MulNat
  <1>. QED
    BY <1>1, <1>2, <1>3, FloorGreatest

\* What an amount that is released over `length` seconds gives out in t of them:
\* rounded down once to a rate, and once to an amount.
Release(fractional, amount, length, t) ==
    TimesDecimal(fractional, t, FromRatio(fractional, amount, length))

LEMMA ReleaseType ==
    ASSUME NEW F \in Nat \ {0}, NEW amount \in Nat, NEW length \in Nat \ {0}, NEW t \in Nat
    PROVE  /\ FromRatio(F, amount, length) \in Nat
           /\ FromRatio(F, amount, length) * length <= amount * F
           /\ amount * F < (FromRatio(F, amount, length) + 1) * length
           /\ t * FromRatio(F, amount, length) \in Nat
           /\ Release(F, amount, length, t) \in Nat
           /\ Release(F, amount, length, t) = (t * FromRatio(F, amount, length)) \div F
  <1>. DEFINE rate == FromRatio(F, amount, length)
  <1>1. amount * F \in Nat
    BY MulNat
  <1>2. rate \in Nat /\ rate * length <= amount * F /\ amount * F < (rate + 1) * length
    BY <1>1, DivFloor DEF FromRatio
  <1>3. Release(F, amount, length, t) = (t * rate) \div F
    BY DEF Release, TimesDecimal, MultiplyRatio
  <1>. HIDE DEF rate
  <1>4. t * rate \in Nat /\ (t * rate) \div F \in Nat
    BY <1>2, MulNat, DivFloor
  <1>. QED
    BY <1>2, <1>3, <1>4 DEF rate

LEMMA ReleaseMonotone ==
    ASSUME NEW F \in Nat \ {0}, NEW amount \in Nat, NEW length \in Nat \ {0},
           NEW t \in Nat, NEW u \in Nat, t <= u
    PROVE  Release(F, amount, length, t) <= Release(F, amount, length, u)
  <1>. DEFINE rate == FromRatio(F, amount, length)
  <1>1. /\ rate \in Nat /\ t * rate \in Nat /\ u * rate \in Nat
        /\ Release(F, amount, length, t) = (t * rate) \div F
        /\ Release(F, amount, length, u) = (u * rate) \div F
    BY ReleaseType
  <1>. HIDE DEF rate
  <1>2. t * rate <= u * rate
    BY <1>1, MulMonotone
  <1>. QED
    BY <1>1, <1>2, FloorMonotone

\* Released in two goes, no more is given out than in one.
LEMMA ReleaseInParts ==
    ASSUME NEW F \in Nat \ {0}, NEW amount \in Nat, NEW length \in Nat \ {0},
           NEW t \in Nat, NEW u \in Nat
    PROVE  Release(F, amount, length, t) + Release(F, amount, length, u)
             <= Release(F, amount, length, t + u)
  <1>. DEFINE rate == FromRatio(F, amount, length)
  <1>1. t + u \in Nat
    OBVIOUS
  <1>2. /\ rate \in Nat /\ t * rate \in Nat /\ u * rate \in Nat
        /\ Release(F, amount, length, t) = (t * rate) \div F
        /\ Release(F, amount, length, u) = (u * rate) \div F
    BY ReleaseType
  <1>3. Release(F, amount, length, t + u) = ((t + u) * rate) \div F
    BY <1>1, ReleaseType
  <1>. HIDE DEF rate
  <1>4. (t + u) * rate = t * rate + u * rate
    BY <1>2
  <1>. QED
    BY <1>2, <1>3, <1>4, FloorsAdd

\* The two roundings give out no more than one of the exact share.
LEMMA ReleaseBound ==
    ASSUME NEW F \in Nat \ {0}, NEW amount \in Nat, NEW length \in Nat \ {0}, NEW t \in Nat
    PROVE  Release(F, amount, length, t) <= MultiplyRatio(amount, t, length)
  <1>. DEFINE rate == FromRatio(F, amount, length)
              q == Release(F, amount, length, t)
  <1>1. /\ rate \in Nat /\ rate * length <= amount * F /\ t * rate \in Nat
        /\ q \in Nat /\ q = (t * rate) \div F
    BY ReleaseType
  <1>. HIDE DEF rate, q
  <1>2. q * F <= t * rate
    BY <1>1, DivFloor
  <1>3. q * length <= amount * t
    <2>1. (q * F) * length <= (t * rate) * length
      BY <1>1, <1>2, MulNat, MulMonotone
    <2>2. (rate * length) * t <= (amount * F) * t
      BY <1>1, MulNat, MulMonotone
    <2>3. /\ (q * F) * length = (q * length) * F /\ (t * rate) * length = (rate * length) * t
          /\ (amount * F) * t = (amount * t) * F
      BY <1>1
    <2>. DEFINE x == q * length
                y == amount * t
                z == (rate * length) * t
    <2>4. x \in Nat /\ y \in Nat /\ x * F \in Nat /\ y * F \in Nat /\ z \in Nat
      BY <1>1, MulNat
    <2>5. x * F <= z /\ z <= y * F
      BY <2>1, <2>2, <2>3
    <2>. HIDE DEF x, y, z
    <2>6. x < y + 1
      <3>1. (y + 1) * F = y * F + F /\ (y + 1) * F \in Nat /\ y + 1 \in Nat
        BY <2>4
      <3>2. x * F < (y + 1) * F
        BY <2>4, <2>5, <3>1
      <3>. QED
        BY <2>4, <3>1, <3>2, MulCancel
    <2>7. x <= y
      BY <2>4, <2>6
    <2>. QED
      BY <2>7 DEF x, y
  <1>4. amount * t \in Nat
    BY MulNat
  <1>5. q <= (amount * t) \div length
    BY <1>1, <1>3, <1>4, FloorGreatest
  <1>. QED
    BY <1>5 DEF q, MultiplyRatio

\* A finite non-empty set of naturals has a largest element.  A smallest
\* counterexample would still have none after losing an element.
LEMMA FiniteMax ==
    ASSUME NEW S \in SUBSET Nat, IsFiniteSet(S), S # {}
    PROVE  \E m \in S : \A n \in S : n <= m
  <1>. DEFINE HasMax(X) == \E m \in X : \A n \in X : n <= m
              Bad == {X \in FiniteSubsetsOf(Nat) : X # {} /\ ~HasMax(X)}
  <1>1. SUFFICES ASSUME Bad # {} PROVE FALSE
    BY DEF FiniteSubsetsOf
  <1>2. IsWellFoundedOn(StrictSubsetOrdering(Nat), FiniteSubsetsOf(Nat))
    BY FS_StrictSubsetOrderingWellFounded
  <1>3. PICK X \in Bad : \A Y \in Bad : <<Y, X>> \notin StrictSubsetOrdering(Nat)
    <2>1. Bad \subseteq FiniteSubsetsOf(Nat)
      OBVIOUS
    <2>. HIDE DEF Bad
    <2>. QED
      BY <1>1, <1>2, <2>1, WFMin
  <1>4. PICK x \in X : TRUE
    OBVIOUS
  <1>5. X \in SUBSET Nat /\ IsFiniteSet(X) /\ ~HasMax(X)
    BY DEF FiniteSubsetsOf
  <1>6. X \ {x} \in FiniteSubsetsOf(Nat)
    BY <1>5, FS_RemoveElement DEF FiniteSubsetsOf
  <1>7. <<X \ {x}, X>> \in StrictSubsetOrdering(Nat)
    BY <1>4, <1>5 DEF StrictSubsetOrdering
  <1>8. X \ {x} \notin Bad
    BY <1>3, <1>7
  <1>9. CASE X \ {x} = {}
    BY <1>4, <1>5, <1>9
  <1>10. CASE HasMax(X \ {x})
    <2>1. PICK m \in X \ {x} : \A n \in X \ {x} : n <= m
      BY <1>10
    <2>2. CASE x <= m
      BY <1>5, <2>1, <2>2
    <2>3. CASE ~(x <= m)
      <3>1. \A n \in X : n <= x
        BY <1>4, <1>5, <2>1, <2>3
      <3>. QED
        BY <1>4, <1>5, <3>1
    <2>. QED
      BY <2>2, <2>3
  <1>. QED
    BY <1>6, <1>8, <1>9, <1>10

\* max().unwrap_or_default() over naturals is a natural, and a bound.
LEMMA MaxOrZeroType ==
    ASSUME NEW S \in SUBSET Nat, IsFiniteSet(S)
    PROVE  /\ MaxOrZero(S) \in Nat
           /\ \A n \in S : n <= MaxOrZero(S)
  BY FiniteMax DEF MaxOrZero

-----------------------------------------------------------------------------
(***************************************************************************)
(* Sums.  The library defines them by a function that recurs over the      *)
(* subsets of the set, taking the elements in the order CHOOSE gives; here *)
(* that function is shown to exist, and the order not to matter.  Each     *)
(* induction over a set is the argument that a minimal counterexample has  *)
(* a smaller one.                                                          *)
(***************************************************************************)

Sum(g, S) == SumFunctionOnSet(g, S)

\* The element that the sum over T takes first.
FirstOf(T) == CHOOSE x \in T : TRUE
RestOf(T) == T \ {FirstOf(T)}

\* F tabulates the sums over the subsets of S.
SumRec(g, S, F) ==
    F = [T \in SUBSET S |-> IF T = {} THEN 0 ELSE g[FirstOf(T)] + F[RestOf(T)]]

Table(g, S) == CHOOSE F : SumRec(g, S, F)

LEMMA SumIsTable ==
    ASSUME NEW g, NEW S
    PROVE  Sum(g, S) = Table(g, S)[S]
  BY DEF Sum, SumFunctionOnSet, FoldFunctionOnSet, MapThenFoldSet, Table, SumRec, FirstOf, RestOf

\* Taking the first element off a set gives a subset, below it in the order
\* that the inductions of this module follow.
LEMMA RestIsSmaller ==
    ASSUME NEW S, NEW T \in SUBSET S, T # {}
    PROVE  /\ FirstOf(T) \in T
           /\ RestOf(T) \in SUBSET S
           /\ <<RestOf(T), T>> \in StrictSubsetOrdering(S)
  <1>1. FirstOf(T) \in T
    BY DEF FirstOf
  <1>. QED
    BY <1>1 DEF RestOf, StrictSubsetOrdering

\* A set of finite sets that has an element has a minimal one.
LEMMA MinimalSet ==
    ASSUME NEW S, NEW Bad \in SUBSET FiniteSubsetsOf(S), Bad # {}
    PROVE  \E T \in Bad : \A U \in Bad : <<U, T>> \notin StrictSubsetOrdering(S)
  <1>1. IsWellFoundedOn(StrictSubsetOrdering(S), FiniteSubsetsOf(S))
    BY FS_StrictSubsetOrderingWellFounded
  <1>. QED
    BY <1>1, WFMin

LEMMA FiniteSubsets ==
    ASSUME NEW S, IsFiniteSet(S)
    PROVE  FiniteSubsetsOf(S) = SUBSET S
  BY FS_Subset DEF FiniteSubsetsOf

\* Two tables agree wherever both are defined.
LEMMA TablesAgree ==
    ASSUME NEW g, NEW S, IsFiniteSet(S), NEW R \in SUBSET S,
           NEW F, SumRec(g, S, F), NEW G, SumRec(g, R, G)
    PROVE  \A T \in SUBSET R : F[T] = G[T]
  <1>. DEFINE Bad == {T \in SUBSET R : F[T] # G[T]}
  <1>1. SUFFICES ASSUME Bad # {} PROVE FALSE
    OBVIOUS
  <1>2. IsFiniteSet(R) /\ FiniteSubsetsOf(R) = SUBSET R
    BY FS_Subset, FiniteSubsets
  <1>3. PICK T \in Bad : \A U \in Bad : <<U, T>> \notin StrictSubsetOrdering(R)
    BY <1>1, <1>2, MinimalSet
  <1>4. T \in SUBSET R /\ T \in SUBSET S /\ F[T] # G[T]
    OBVIOUS
  <1>5. F[T] = IF T = {} THEN 0 ELSE g[FirstOf(T)] + F[RestOf(T)]
    BY <1>4 DEF SumRec
  <1>6. G[T] = IF T = {} THEN 0 ELSE g[FirstOf(T)] + G[RestOf(T)]
    BY <1>4 DEF SumRec
  <1>7. T # {}
    BY <1>4, <1>5, <1>6
  <1>8. RestOf(T) \in SUBSET R /\ RestOf(T) \notin Bad
    BY <1>3, <1>4, <1>7, RestIsSmaller
  <1>. QED
    BY <1>4, <1>5, <1>6, <1>7, <1>8

\* Every finite set has a table.
LEMMA TableExists ==
    ASSUME NEW g, NEW S, IsFiniteSet(S)
    PROVE  SumRec(g, S, Table(g, S))
  <1>. DEFINE Bad == {T \in SUBSET S : ~SumRec(g, T, Table(g, T))}
  <1>1. SUFFICES ASSUME Bad # {} PROVE FALSE
    OBVIOUS
  <1>2. PICK T \in Bad : \A U \in Bad : <<U, T>> \notin StrictSubsetOrdering(S)
    BY <1>1, FiniteSubsets, MinimalSet
  <1>. DEFINE F == [U \in SUBSET T |-> IF U = {} THEN 0
                                       ELSE g[FirstOf(U)] + Table(g, RestOf(U))[RestOf(U)]]
  <1>3. T \in SUBSET S /\ IsFiniteSet(T)
    BY FS_Subset
  <1>4. ASSUME NEW U \in SUBSET T, U # T
        PROVE  SumRec(g, U, Table(g, U))
    <2>1. <<U, T>> \in StrictSubsetOrdering(S) /\ U \in SUBSET S
      BY <1>3, <1>4 DEF StrictSubsetOrdering
    <2>. QED
      BY <1>2, <2>1
  <1>5. ASSUME NEW U \in SUBSET T, U # {}
        PROVE  F[RestOf(U)] = Table(g, RestOf(U))[RestOf(U)]
    <2>. DEFINE V == RestOf(U)
    <2>1. V \in SUBSET T /\ V # T /\ FirstOf(U) \in U /\ FirstOf(U) \notin V
      BY <1>5, RestIsSmaller DEF RestOf
    <2>2. SumRec(g, V, Table(g, V)) /\ IsFiniteSet(V)
      BY <1>3, <1>4, <2>1, FS_Subset
    <2>3. CASE V = {}
      BY <2>1, <2>2, <2>3 DEF SumRec
    <2>4. CASE V # {}
      <3>1. RestOf(V) \in SUBSET V /\ RestOf(V) # V /\ RestOf(V) \in SUBSET T
        <4>. HIDE DEF V
        <4>1. FirstOf(V) \in V /\ FirstOf(V) \notin RestOf(V) /\ RestOf(V) \subseteq V
          BY <2>4, RestIsSmaller DEF RestOf
        <4>. QED
          BY <2>1, <4>1
      <3>2. SumRec(g, RestOf(V), Table(g, RestOf(V)))
        BY <1>4, <3>1, <2>1
      <3>3. Table(g, V)[RestOf(V)] = Table(g, RestOf(V))[RestOf(V)]
        BY <2>2, <3>1, <3>2, TablesAgree
      <3>4. Table(g, V)[V] = g[FirstOf(V)] + Table(g, V)[RestOf(V)]
        BY <2>2, <2>4 DEF SumRec
      <3>5. F[V] = g[FirstOf(V)] + Table(g, RestOf(V))[RestOf(V)]
        BY <2>1, <2>4
      <3>. QED
        BY <3>3, <3>4, <3>5
    <2>. QED
      BY <2>3, <2>4
  <1>6. SumRec(g, T, F)
    <2>. DEFINE G == [U \in SUBSET T |-> IF U = {} THEN 0 ELSE g[FirstOf(U)] + F[RestOf(U)]]
    <2>1. \A U \in SUBSET T : F[U] = G[U]
      BY <1>5
    <2>2. F = G
      BY <2>1
    <2>. QED
      BY <2>2 DEF SumRec
  <1>7. SumRec(g, T, Table(g, T))
    BY <1>6 DEF Table
  <1>. QED
    BY <1>2, <1>7

\* The sum of a function over its domain.
LEMMA SumFunctionIsSum == ASSUME NEW f PROVE SumFunction(f) = Sum(f, DOMAIN f)
  BY DEF SumFunction, Sum

LEMMA SumEmpty == ASSUME NEW g PROVE Sum(g, {}) = 0
  <1>1. IsFiniteSet({})
    BY FS_EmptySet
  <1>2. SumRec(g, {}, Table(g, {}))
    BY <1>1, TableExists
  <1>3. {} \in SUBSET {}
    OBVIOUS
  <1>4. Table(g, {})[{}] = 0
    BY <1>2, <1>3 DEF SumRec
  <1>. QED
    BY <1>4, SumIsTable

LEMMA SumFirst ==
    ASSUME NEW g, NEW S, IsFiniteSet(S), S # {}
    PROVE  Sum(g, S) = g[FirstOf(S)] + Sum(g, RestOf(S))
  <1>1. RestOf(S) \in SUBSET S /\ IsFiniteSet(RestOf(S))
    BY FS_Subset, RestIsSmaller
  <1>2. SumRec(g, S, Table(g, S)) /\ SumRec(g, RestOf(S), Table(g, RestOf(S)))
    BY <1>1, TableExists
  <1>3. Table(g, S)[RestOf(S)] = Table(g, RestOf(S))[RestOf(S)]
    BY <1>1, <1>2, TablesAgree
  <1>4. Table(g, S)[S] = g[FirstOf(S)] + Table(g, S)[RestOf(S)]
    BY <1>2 DEF SumRec
  <1>. QED
    BY <1>3, <1>4, SumIsTable

\* A sum of integers is an integer.
LEMMA SumInt ==
    ASSUME NEW g, NEW S, IsFiniteSet(S), \A x \in S : g[x] \in Int
    PROVE  Sum(g, S) \in Int
  <1>. DEFINE Bad == {T \in SUBSET S : Sum(g, T) \notin Int}
  <1>1. SUFFICES ASSUME Bad # {} PROVE FALSE
    OBVIOUS
  <1>2. PICK T \in Bad : \A U \in Bad : <<U, T>> \notin StrictSubsetOrdering(S)
    BY <1>1, FiniteSubsets, MinimalSet
  <1>3. T \in SUBSET S /\ IsFiniteSet(T) /\ Sum(g, T) \notin Int
    BY FS_Subset
  <1>4. T # {}
    BY <1>3, SumEmpty
  <1>5. FirstOf(T) \in S /\ Sum(g, RestOf(T)) \in Int
    BY <1>2, <1>3, <1>4, RestIsSmaller
  <1>6. Sum(g, T) = g[FirstOf(T)] + Sum(g, RestOf(T))
    BY <1>3, <1>4, SumFirst
  <1>. QED
    BY <1>3, <1>5, <1>6

\* A sum of naturals is a natural.
LEMMA SumNat ==
    ASSUME NEW g, NEW S, IsFiniteSet(S), \A x \in S : g[x] \in Nat
    PROVE  Sum(g, S) \in Nat
  <1>. DEFINE Bad == {T \in SUBSET S : Sum(g, T) \notin Nat}
  <1>1. SUFFICES ASSUME Bad # {} PROVE FALSE
    OBVIOUS
  <1>2. PICK T \in Bad : \A U \in Bad : <<U, T>> \notin StrictSubsetOrdering(S)
    BY <1>1, FiniteSubsets, MinimalSet
  <1>3. T \in SUBSET S /\ IsFiniteSet(T) /\ Sum(g, T) \notin Nat
    BY FS_Subset
  <1>4. T # {}
    BY <1>3, SumEmpty
  <1>5. FirstOf(T) \in S /\ Sum(g, RestOf(T)) \in Nat
    BY <1>2, <1>3, <1>4, RestIsSmaller
  <1>6. Sum(g, T) = g[FirstOf(T)] + Sum(g, RestOf(T))
    BY <1>3, <1>4, SumFirst
  <1>. QED
    BY <1>3, <1>5, <1>6

\* The order does not matter: any element may be taken off first.
LEMMA SumRemove ==
    ASSUME NEW g, NEW S, IsFiniteSet(S), \A x \in S : g[x] \in Int, NEW d \in S
    PROVE  Sum(g, S) = g[d] + Sum(g, S \ {d})
  <1>. DEFINE Splits(T, e) == Sum(g, T) = g[e] + Sum(g, T \ {e})
              Bad == {T \in SUBSET S : \E e \in T : ~Splits(T, e)}
  <1>1. SUFFICES ASSUME Bad # {} PROVE FALSE
    BY DEF Splits
  <1>2. PICK T \in Bad : \A U \in Bad : <<U, T>> \notin StrictSubsetOrdering(S)
    BY <1>1, FiniteSubsets, MinimalSet
  <1>3. PICK e \in T : ~Splits(T, e)
    OBVIOUS
  <1>. DEFINE f == FirstOf(T)
              U == RestOf(T)
              V == T \ {e}
  <1>4. T \in SUBSET S /\ IsFiniteSet(T) /\ T # {}
    BY <1>3, FS_Subset
  <1>5. f \in T /\ Sum(g, T) = g[f] + Sum(g, U)
    BY <1>4, SumFirst, RestIsSmaller
  <1>6. f # e
    BY <1>3, <1>5 DEF RestOf
  <1>7. ASSUME NEW W \in SUBSET T, NEW x \in W, W # T
        PROVE  Sum(g, W) = g[x] + Sum(g, W \ {x})
    <2>1. <<W, T>> \in StrictSubsetOrdering(S) /\ W \in SUBSET S
      BY <1>4, <1>7 DEF StrictSubsetOrdering
    <2>2. W \notin Bad
      BY <1>2, <2>1
    <2>. QED
      BY <1>7, <2>1, <2>2
  <1>8. U = T \ {f}
    BY DEF RestOf
  <1>9. Sum(g, U) = g[e] + Sum(g, U \ {e})
    BY <1>3, <1>5, <1>6, <1>7, <1>8
  <1>10. Sum(g, V) = g[f] + Sum(g, V \ {f})
    BY <1>3, <1>5, <1>6, <1>7
  <1>11. U \ {e} = V \ {f}
    BY <1>8
  <1>12. Sum(g, U \ {e}) \in Int /\ g[e] \in Int /\ g[f] \in Int
    BY <1>3, <1>4, <1>5, <1>8, SumInt, FS_Subset
  <1>13. Sum(g, T) # g[e] + Sum(g, V)
    BY <1>3
  <1>. HIDE DEF Bad, Splits, f, U, V
  <1>14. Sum(g, V) = g[f] + Sum(g, U \ {e})
    BY <1>10, <1>11
  <1>. QED
    BY <1>5, <1>9, <1>12, <1>13, <1>14

LEMMA SumAdd ==
    ASSUME NEW g, NEW S, IsFiniteSet(S), NEW e, e \notin S,
           \A x \in S \cup {e} : g[x] \in Int
    PROVE  Sum(g, S \cup {e}) = g[e] + Sum(g, S)
  <1>1. IsFiniteSet(S \cup {e})
    BY FS_AddElement
  <1>2. (S \cup {e}) \ {e} = S
    OBVIOUS
  <1>. QED
    BY <1>1, <1>2, SumRemove

\* Only the values on the set count.
LEMMA SumCongruence ==
    ASSUME NEW g, NEW h, NEW S, IsFiniteSet(S), \A x \in S : g[x] = h[x]
    PROVE  Sum(g, S) = Sum(h, S)
  <1>. DEFINE Bad == {T \in SUBSET S : Sum(g, T) # Sum(h, T)}
  <1>1. SUFFICES ASSUME Bad # {} PROVE FALSE
    OBVIOUS
  <1>2. PICK T \in Bad : \A U \in Bad : <<U, T>> \notin StrictSubsetOrdering(S)
    BY <1>1, FiniteSubsets, MinimalSet
  <1>3. T \in SUBSET S /\ IsFiniteSet(T) /\ Sum(g, T) # Sum(h, T)
    BY FS_Subset
  <1>4. T # {}
    BY <1>3, SumEmpty
  <1>5. FirstOf(T) \in S /\ Sum(g, RestOf(T)) = Sum(h, RestOf(T))
    BY <1>2, <1>3, <1>4, RestIsSmaller
  <1>6. /\ Sum(g, T) = g[FirstOf(T)] + Sum(g, RestOf(T))
        /\ Sum(h, T) = h[FirstOf(T)] + Sum(h, RestOf(T))
    BY <1>3, <1>4, SumFirst
  <1>. QED
    BY <1>3, <1>5, <1>6

\* A change at one element changes the sum by as much.
LEMMA SumChange ==
    ASSUME NEW g, NEW h, NEW S, IsFiniteSet(S), NEW e \in S,
           \A x \in S : g[x] \in Int /\ h[x] \in Int,
           \A x \in S \ {e} : g[x] = h[x]
    PROVE  Sum(h, S) = Sum(g, S) - g[e] + h[e]
  <1>1. /\ Sum(g, S) = g[e] + Sum(g, S \ {e})
        /\ Sum(h, S) = h[e] + Sum(h, S \ {e})
    BY SumRemove
  <1>2. IsFiniteSet(S \ {e})
    BY FS_Subset
  <1>3. Sum(g, S \ {e}) = Sum(h, S \ {e})
    BY <1>2, SumCongruence
  <1>4. Sum(g, S \ {e}) \in Int
    BY <1>2, SumInt
  <1>. QED
    BY <1>1, <1>3, <1>4

\* No part of a sum of naturals exceeds it.
LEMMA SumPart ==
    ASSUME NEW g, NEW S, IsFiniteSet(S), \A x \in S : g[x] \in Nat, NEW e \in S
    PROVE  g[e] <= Sum(g, S)
  <1>1. Sum(g, S) = g[e] + Sum(g, S \ {e})
    BY SumRemove
  <1>2. Sum(g, S \ {e}) \in Nat
    BY SumNat, FS_Subset
  <1>. QED
    BY <1>1, <1>2

\* A sum of zeroes.
LEMMA SumZero ==
    ASSUME NEW g, NEW S, IsFiniteSet(S), \A x \in S : g[x] = 0
    PROVE  Sum(g, S) = 0
  <1>. DEFINE Bad == {T \in SUBSET S : Sum(g, T) # 0}
  <1>1. SUFFICES ASSUME Bad # {} PROVE FALSE
    OBVIOUS
  <1>2. PICK T \in Bad : \A U \in Bad : <<U, T>> \notin StrictSubsetOrdering(S)
    BY <1>1, FiniteSubsets, MinimalSet
  <1>3. T \in SUBSET S /\ IsFiniteSet(T) /\ Sum(g, T) # 0
    BY FS_Subset
  <1>4. T # {}
    BY <1>3, SumEmpty
  <1>5. FirstOf(T) \in S /\ Sum(g, RestOf(T)) = 0
    BY <1>2, <1>3, <1>4, RestIsSmaller
  <1>. QED
    BY <1>3, <1>4, <1>5, SumFirst

\* A sum grows with its terms.
LEMMA SumMonotone ==
    ASSUME NEW g, NEW h, NEW S, IsFiniteSet(S),
           \A x \in S : g[x] \in Int /\ h[x] \in Int /\ g[x] <= h[x]
    PROVE  Sum(g, S) <= Sum(h, S)
  <1>. DEFINE Bad == {T \in SUBSET S : ~(Sum(g, T) <= Sum(h, T))}
  <1>1. SUFFICES ASSUME Bad # {} PROVE FALSE
    OBVIOUS
  <1>2. PICK T \in Bad : \A U \in Bad : <<U, T>> \notin StrictSubsetOrdering(S)
    BY <1>1, FiniteSubsets, MinimalSet
  <1>3. T \in SUBSET S /\ IsFiniteSet(T) /\ ~(Sum(g, T) <= Sum(h, T))
    BY FS_Subset
  <1>4. T # {}
    <2>1. Sum(g, {}) = 0 /\ Sum(h, {}) = 0
      BY SumEmpty
    <2>. QED
      BY <1>3, <2>1
  <1>5. FirstOf(T) \in S /\ RestOf(T) \in SUBSET S /\ Sum(g, RestOf(T)) <= Sum(h, RestOf(T))
    BY <1>2, <1>3, <1>4, RestIsSmaller
  <1>6. /\ Sum(g, T) = g[FirstOf(T)] + Sum(g, RestOf(T))
        /\ Sum(h, T) = h[FirstOf(T)] + Sum(h, RestOf(T))
    BY <1>3, <1>4, SumFirst
  <1>7. Sum(g, RestOf(T)) \in Int /\ Sum(h, RestOf(T)) \in Int
    BY <1>5, SumInt, FS_Subset
  <1>. QED
    BY <1>3, <1>5, <1>6, <1>7

\* b takes R to S one to one.
OneToOne(b, R, S) ==
    /\ \A r, q \in R : b[r] = b[q] => r = q
    /\ \A r \in R : b[r] \in S
    /\ \A x \in S : \E r \in R : b[r] = x

\* A sum may be taken over any set that the first is taken to one to one.
LEMMA SumReindex ==
    ASSUME NEW g, NEW R, IsFiniteSet(R), NEW b, NEW S, OneToOne(b, R, S), NEW h,
           \A r \in R : h[r] = g[b[r]] /\ g[b[r]] \in Int
    PROVE  IsFiniteSet(S) /\ Sum(h, R) = Sum(g, S)
  <1>. DEFINE Image(T) == {b[r] : r \in T}
              Same(T) == IsFiniteSet(Image(T)) /\ Sum(h, T) = Sum(g, Image(T))
              Bad == {T \in SUBSET R : ~Same(T)}
  <1>0. Image(R) = S /\ \A r, q \in R : b[r] = b[q] => r = q
    BY DEF OneToOne
  <1>1. SUFFICES ASSUME Bad # {} PROVE FALSE
    BY <1>0
  <1>2. PICK T \in Bad : \A U \in Bad : <<U, T>> \notin StrictSubsetOrdering(R)
    BY <1>1, FiniteSubsets, MinimalSet
  <1>3. T \in SUBSET R /\ IsFiniteSet(T) /\ ~Same(T)
    BY FS_Subset
  <1>4. T # {}
    <2>1. SUFFICES ASSUME T = {} PROVE FALSE
      OBVIOUS
    <2>2. Image(T) = {}
      BY <2>1
    <2>. QED
      BY <1>3, <2>1, <2>2, SumEmpty, FS_EmptySet
  <1>. DEFINE d == FirstOf(T)
  <1>5. d \in T /\ RestOf(T) = T \ {d} /\ RestOf(T) \in SUBSET R /\ Same(RestOf(T))
    BY <1>2, <1>3, <1>4, RestIsSmaller DEF RestOf
  <1>6. Image(T) = Image(RestOf(T)) \cup {b[d]} /\ b[d] \notin Image(RestOf(T))
    BY <1>0, <1>3, <1>5
  <1>7. IsFiniteSet(Image(T))
    <2>1. IsFiniteSet(Image(RestOf(T)))
      BY <1>5
    <2>. HIDE DEF d, Image
    <2>. QED
      BY <1>6, <2>1, FS_AddElement
  <1>8. Sum(h, T) = h[d] + Sum(h, RestOf(T))
    BY <1>3, <1>4, SumFirst
  <1>9. Sum(g, Image(T)) = g[b[d]] + Sum(g, Image(RestOf(T)))
    <2>1. \A x \in Image(RestOf(T)) \cup {b[d]} : g[x] \in Int
      BY <1>3, <1>5
    <2>2. IsFiniteSet(Image(RestOf(T)))
      BY <1>5
    <2>. HIDE DEF d, Image
    <2>. QED
      BY <1>6, <2>1, <2>2, SumAdd
  <1>10. h[d] = g[b[d]]
    BY <1>3, <1>5
  <1>11. FALSE
    BY <1>3, <1>5, <1>7, <1>8, <1>9, <1>10
  <1>. QED
    BY <1>11

\* Two sums add up term by term.
LEMMA SumPlus ==
    ASSUME NEW g, NEW h, NEW f, NEW S, IsFiniteSet(S),
           \A x \in S : g[x] \in Int /\ h[x] \in Int /\ f[x] = g[x] + h[x]
    PROVE  Sum(f, S) = Sum(g, S) + Sum(h, S)
  <1>. DEFINE Bad == {T \in SUBSET S : Sum(f, T) # Sum(g, T) + Sum(h, T)}
  <1>1. SUFFICES ASSUME Bad # {} PROVE FALSE
    OBVIOUS
  <1>2. PICK T \in Bad : \A U \in Bad : <<U, T>> \notin StrictSubsetOrdering(S)
    BY <1>1, FiniteSubsets, MinimalSet
  <1>3. T \in SUBSET S /\ IsFiniteSet(T) /\ Sum(f, T) # Sum(g, T) + Sum(h, T)
    BY FS_Subset
  <1>4. T # {}
    <2>1. Sum(f, {}) = 0 /\ Sum(g, {}) = 0 /\ Sum(h, {}) = 0
      BY SumEmpty
    <2>. QED
      BY <1>3, <2>1
  <1>5. /\ FirstOf(T) \in S /\ RestOf(T) \in SUBSET S
        /\ Sum(f, RestOf(T)) = Sum(g, RestOf(T)) + Sum(h, RestOf(T))
    BY <1>2, <1>3, <1>4, RestIsSmaller
  <1>6. /\ Sum(f, T) = f[FirstOf(T)] + Sum(f, RestOf(T))
        /\ Sum(g, T) = g[FirstOf(T)] + Sum(g, RestOf(T))
        /\ Sum(h, T) = h[FirstOf(T)] + Sum(h, RestOf(T))
    BY <1>3, <1>4, SumFirst
  <1>7. Sum(g, RestOf(T)) \in Int /\ Sum(h, RestOf(T)) \in Int
    BY <1>5, SumInt, FS_Subset
  <1>8. g[FirstOf(T)] \in Int /\ h[FirstOf(T)] \in Int /\ f[FirstOf(T)] = g[FirstOf(T)] + h[FirstOf(T)]
    BY <1>5
  <1>. QED
    BY <1>3, <1>5, <1>6, <1>7, <1>8

\* A common factor can be taken out of a sum.
LEMMA SumTimes ==
    ASSUME NEW g, NEW h, NEW c \in Int, NEW S, IsFiniteSet(S),
           \A x \in S : g[x] \in Int /\ h[x] = c * g[x]
    PROVE  Sum(h, S) = c * Sum(g, S)
  <1>. DEFINE Bad == {T \in SUBSET S : Sum(h, T) # c * Sum(g, T)}
  <1>1. SUFFICES ASSUME Bad # {} PROVE FALSE
    OBVIOUS
  <1>2. PICK T \in Bad : \A U \in Bad : <<U, T>> \notin StrictSubsetOrdering(S)
    BY <1>1, FiniteSubsets, MinimalSet
  <1>3. T \in SUBSET S /\ IsFiniteSet(T) /\ Sum(h, T) # c * Sum(g, T)
    BY FS_Subset
  <1>4. T # {}
    <2>1. Sum(h, {}) = 0 /\ Sum(g, {}) = 0
      BY SumEmpty
    <2>2. c * 0 = 0
      OBVIOUS
    <2>. QED
      BY <1>3, <2>1, <2>2
  <1>5. /\ FirstOf(T) \in S /\ RestOf(T) \in SUBSET S
        /\ Sum(h, RestOf(T)) = c * Sum(g, RestOf(T))
    BY <1>2, <1>3, <1>4, RestIsSmaller
  <1>6. /\ Sum(h, T) = h[FirstOf(T)] + Sum(h, RestOf(T))
        /\ Sum(g, T) = g[FirstOf(T)] + Sum(g, RestOf(T))
    BY <1>3, <1>4, SumFirst
  <1>7. Sum(g, RestOf(T)) \in Int
    BY <1>5, SumInt, FS_Subset
  <1>8. g[FirstOf(T)] \in Int /\ h[FirstOf(T)] = c * g[FirstOf(T)]
    BY <1>5
  <1>9. \A x, y \in Int : c * (x + y) = c * x + c * y
    OBVIOUS
  <1>. QED
    BY <1>3, <1>5, <1>6, <1>7, <1>8, <1>9

\* The sum over two sets that are apart.
LEMMA SumUnion ==
    ASSUME NEW g, NEW S, IsFiniteSet(S), NEW R, IsFiniteSet(R), S \cap R = {},
           \A x \in S \cup R : g[x] \in Int
    PROVE  Sum(g, S \cup R) = Sum(g, S) + Sum(g, R)
  <1>. DEFINE Bad == {T \in SUBSET R : Sum(g, S \cup T) # Sum(g, S) + Sum(g, T)}
  <1>1. SUFFICES ASSUME Bad # {} PROVE FALSE
    OBVIOUS
  <1>2. PICK T \in Bad : \A U \in Bad : <<U, T>> \notin StrictSubsetOrdering(R)
    BY <1>1, FiniteSubsets, MinimalSet
  <1>3. T \in SUBSET R /\ IsFiniteSet(T) /\ Sum(g, S \cup T) # Sum(g, S) + Sum(g, T)
    BY FS_Subset
  <1>4. Sum(g, S) \in Int
    BY SumInt
  <1>5. T # {}
    <2>1. SUFFICES ASSUME T = {} PROVE FALSE
      OBVIOUS
    <2>2. S \cup T = S
      BY <2>1
    <2>3. Sum(g, T) = 0
      BY <2>1, SumEmpty
    <2>4. Sum(g, S) = Sum(g, S) + 0
      BY <1>4
    <2>. QED
      BY <1>3, <2>2, <2>3, <2>4
  <1>6. /\ FirstOf(T) \in T /\ RestOf(T) \in SUBSET R /\ RestOf(T) = T \ {FirstOf(T)}
        /\ Sum(g, S \cup RestOf(T)) = Sum(g, S) + Sum(g, RestOf(T))
    <2>1. RestOf(T) = T \ {FirstOf(T)}
      BY DEF RestOf
    <2>2. FirstOf(T) \in T /\ RestOf(T) \in SUBSET R /\ <<RestOf(T), T>> \in StrictSubsetOrdering(R)
      BY <1>3, <1>5, RestIsSmaller
    <2>. QED
      BY <1>2, <2>1, <2>2
  <1>7. Sum(g, T) = g[FirstOf(T)] + Sum(g, RestOf(T))
    BY <1>3, <1>5, SumFirst
  <1>8. Sum(g, S \cup T) = g[FirstOf(T)] + Sum(g, S \cup RestOf(T))
    <2>1. IsFiniteSet(S \cup RestOf(T))
      BY <1>6, FS_Subset, FS_Union
    <2>2. FirstOf(T) \notin S \cup RestOf(T) /\ S \cup T = (S \cup RestOf(T)) \cup {FirstOf(T)}
      BY <1>3, <1>6
    <2>3. \A x \in (S \cup RestOf(T)) \cup {FirstOf(T)} : g[x] \in Int
      BY <1>3, <1>6
    <2>. QED
      BY <2>1, <2>2, <2>3, SumAdd
  <1>9. Sum(g, RestOf(T)) \in Int /\ g[FirstOf(T)] \in Int
    BY <1>3, <1>6, SumInt, FS_Subset
  <1>. QED
    BY <1>3, <1>4, <1>6, <1>7, <1>8, <1>9

-----------------------------------------------------------------------------
(* Arranged and Filtered *)

\* `before` is a strict total order on S.
TotalOrder(before, S) ==
    /\ \A x \in S : <<x, x>> \notin before
    /\ \A x, y \in S : x # y => <<x, y>> \in before \/ <<y, x>> \in before
    /\ \A x, y, z \in S : <<x, y>> \in before /\ <<y, z>> \in before => <<x, z>> \in before

\* The sequence f of length n has every element of S once, in the order.
Lists(f, n, S, before) ==
    /\ n \in Nat /\ f \in [1..n -> S]
    /\ \A r, q \in 1..n : r < q => <<f[r], f[q]>> \in before
    /\ \A x \in S : \E r \in 1..n : f[r] = x

\* Every element of a finite set has its own rank in a strict total order, and
\* the ranks are 0 .. Cardinality(S) - 1, so Arranged lists each element once,
\* in the order.
LEMMA ArrangedProperties ==
    ASSUME NEW S, IsFiniteSet(S), NEW before, TotalOrder(before, S)
    PROVE  Lists(Arranged(S, before), Cardinality(S), S, before)
  <1>. DEFINE n == Cardinality(S)
              Below(x) == {y \in S : <<y, x>> \in before}
              place == [x \in S |-> Rank(S, before, x) + 1]
  <1>0. /\ \A x \in S : <<x, x>> \notin before
        /\ \A x, y \in S : x # y => <<x, y>> \in before \/ <<y, x>> \in before
        /\ \A x, y, z \in S : <<x, y>> \in before /\ <<y, z>> \in before => <<x, z>> \in before
    BY DEF TotalOrder
  <1>1. n \in Nat
    BY FS_CardinalityType
  <1>2. \A x \in S : Rank(S, before, x) \in Nat /\ Rank(S, before, x) < n
    <2>1. TAKE x \in S
    <2>2. Below(x) \in SUBSET S /\ Below(x) # S
      BY <1>0
    <2>3. /\ IsFiniteSet(Below(x)) /\ Cardinality(Below(x)) <= n
          /\ Cardinality(Below(x)) # n
      BY <2>2, FS_Subset
    <2>4. Cardinality(Below(x)) \in Nat
      BY <2>3, FS_CardinalityType
    <2>5. Rank(S, before, x) = Cardinality(Below(x))
      BY DEF Rank
    <2>. QED
      BY <1>1, <2>3, <2>4, <2>5
  <1>3. \A x, y \in S : <<x, y>> \in before => Rank(S, before, x) < Rank(S, before, y)
    <2>1. SUFFICES ASSUME NEW x \in S, NEW y \in S, <<x, y>> \in before
                   PROVE  Rank(S, before, x) < Rank(S, before, y)
      OBVIOUS
    <2>2. Below(x) \in SUBSET Below(y) /\ Below(x) # Below(y)
      BY <1>0, <2>1
    <2>3. IsFiniteSet(Below(y)) /\ IsFiniteSet(Below(x))
      BY FS_Subset
    <2>4. Cardinality(Below(x)) <= Cardinality(Below(y)) /\ Cardinality(Below(x)) # Cardinality(Below(y))
      BY <2>2, <2>3, FS_Subset
    <2>5. Cardinality(Below(x)) \in Nat /\ Cardinality(Below(y)) \in Nat
      BY <2>3, FS_CardinalityType
    <2>. QED
      BY <2>4, <2>5 DEF Rank
  <1>4. \A x, y \in S : Rank(S, before, x) = Rank(S, before, y) => x = y
    <2>1. SUFFICES ASSUME NEW x \in S, NEW y \in S, x # y
                   PROVE  Rank(S, before, x) # Rank(S, before, y)
      OBVIOUS
    <2>2. \/ Rank(S, before, x) < Rank(S, before, y)
          \/ Rank(S, before, y) < Rank(S, before, x)
      BY <1>0, <1>3, <2>1
    <2>. QED
      BY <1>2, <2>2
  <1>5. \A r \in 1..n : \E x \in S : Rank(S, before, x) = r - 1
    <2>. HIDE DEF n
    <2>1. place \in [S -> 1..n]
      BY <1>1, <1>2
    <2>2. place \in Injection(S, 1..n)
      <3>1. \A x, y \in S : place[x] = place[y] => Rank(S, before, x) = Rank(S, before, y)
        BY <1>2
      <3>2. \A x, y \in S : place[x] = place[y] => x = y
        BY <1>4, <3>1
      <3>. HIDE DEF place
      <3>. QED
        BY <2>1, <3>2 DEF Injection, IsInjective
    <2>3. IsFiniteSet(1..n) /\ Cardinality(1..n) = n
      BY <1>1, FS_Interval
    <2>4. place \in Surjection(S, 1..n)
      BY <2>2, <2>3, FS_Injection DEF n
    <2>5. SUFFICES ASSUME NEW r \in 1..n PROVE \E x \in S : Rank(S, before, x) = r - 1
      OBVIOUS
    <2>6. PICK x \in S : place[x] = r
      BY <2>4 DEF Surjection
    <2>. QED
      BY <1>1, <1>2, <2>6
  <1>6. \A r \in 1..n : /\ Arranged(S, before)[r] \in S
                         /\ Rank(S, before, Arranged(S, before)[r]) = r - 1
    BY <1>5 DEF Arranged
  <1>7. Arranged(S, before) \in [1..n -> S]
    BY <1>6 DEF Arranged
  <1>8. ASSUME NEW r \in 1..n, NEW q \in 1..n, r < q
        PROVE  <<Arranged(S, before)[r], Arranged(S, before)[q]>> \in before
    <2>. DEFINE x == Arranged(S, before)[r]
                y == Arranged(S, before)[q]
    <2>1. x \in S /\ y \in S /\ Rank(S, before, x) < Rank(S, before, y)
      BY <1>1, <1>6, <1>8
    <2>2. <<x, y>> \in before \/ <<y, x>> \in before
      BY <1>0, <1>2, <2>1
    <2>. HIDE DEF x, y
    <2>3. <<x, y>> \in before
      BY <1>2, <1>3, <2>1, <2>2
    <2>. QED
      BY <2>3 DEF x, y
  <1>9. ASSUME NEW x \in S
        PROVE  \E r \in 1..n : Arranged(S, before)[r] = x
    <2>1. Rank(S, before, x) + 1 \in 1..n
      BY <1>1, <1>2
    <2>2. Arranged(S, before)[Rank(S, before, x) + 1] = x
      BY <1>2, <1>4, <1>6, <2>1
    <2>. QED
      BY <2>1, <2>2
  <1>. QED
    BY <1>1, <1>7, <1>8, <1>9 DEF Lists

Earlier(kept) == {p \in kept \X kept : p[1] < p[2]}

\* Filtered takes each entry at an index in `kept` once, in the order of the list.
LEMMA FilteredProperties ==
    ASSUME NEW kept \in SUBSET Nat, IsFiniteSet(kept), NEW list
    PROVE  \E n, order :
              /\ n \in Nat
              /\ Filtered(list, kept) = [r \in 1..n |-> list[order[r]]]
              /\ Lists(order, n, kept, Earlier(kept))
              /\ OneToOne(order, 1..n, kept)
  <1>. DEFINE before == Earlier(kept)
              order == Arranged(kept, before)
              n == Cardinality(kept)
  <1>1. \A x, y \in kept : <<x, y>> \in before <=> x < y
    BY DEF Earlier
  <1>. HIDE DEF before
  <1>2. TotalOrder(before, kept)
    BY <1>1 DEF TotalOrder
  <1>3. Lists(order, n, kept, before)
    BY <1>2, ArrangedProperties
  <1>4. \A r, q \in 1..n : r < q => order[r] < order[q]
    BY <1>1, <1>3 DEF Lists
  <1>5. Filtered(list, kept) = [r \in DOMAIN order |-> list[order[r]]]
    BY DEF Filtered, before, Earlier
  <1>. HIDE DEF order, n
  <1>6. n \in Nat /\ DOMAIN order = 1..n
    BY <1>3 DEF Lists
  <1>7. Filtered(list, kept) = [r \in 1..n |-> list[order[r]]]
    BY <1>5, <1>6
  <1>8. OneToOne(order, 1..n, kept)
    <2>1. /\ \A r \in 1..n : order[r] \in kept /\ order[r] \in Nat
          /\ \A x \in kept : \E r \in 1..n : order[r] = x
      BY <1>3 DEF Lists
    <2>2. \A r, q \in 1..n : r # q => r < q \/ q < r
      BY <1>6
    <2>3. \A r, q \in 1..n : order[r] = order[q] => r = q
      BY <1>4, <2>1, <2>2
    <2>. QED
      BY <2>1, <2>3 DEF OneToOne
  <1>. QED
    BY <1>3, <1>6, <1>7, <1>8 DEF before

LEMMA FilteredType ==
    ASSUME NEW S, NEW list \in Seq(S), NEW kept \in SUBSET DOMAIN list
    PROVE  /\ Filtered(list, kept) \in Seq(S)
           /\ \A r \in DOMAIN Filtered(list, kept) :
                 \E k \in kept : Filtered(list, kept)[r] = list[k]
  <1>1. Len(list) \in Nat /\ DOMAIN list = 1..Len(list) /\ \A k \in DOMAIN list : list[k] \in S
    OBVIOUS
  <1>2. kept \in SUBSET Nat /\ IsFiniteSet(kept)
    <2>1. IsFiniteSet(DOMAIN list)
      BY <1>1, FS_Interval
    <2>. QED
      BY <1>1, <2>1, FS_Subset
  <1>. DEFINE new == Filtered(list, kept)
  <1>3. \E n, order :
           n \in Nat /\ new = [r \in 1..n |-> list[order[r]]] /\ OneToOne(order, 1..n, kept)
    BY <1>2, FilteredProperties
  <1>. HIDE DEF new
  <1>4. PICK n, order :
           n \in Nat /\ new = [r \in 1..n |-> list[order[r]]] /\ OneToOne(order, 1..n, kept)
    BY <1>3
  <1>5. \A r \in 1..n : order[r] \in kept /\ list[order[r]] \in S
    BY <1>1, <1>4 DEF OneToOne
  <1>6. new \in Seq(S)
    BY <1>4, <1>5
  <1>7. DOMAIN new = 1..n /\ \A r \in 1..n : new[r] = list[order[r]]
    BY <1>4
  <1>8. \A r \in DOMAIN new : \E k \in kept : new[r] = list[k]
    BY <1>5, <1>7
  <1>. QED
    BY <1>6, <1>8 DEF new

-----------------------------------------------------------------------------
(* Sums over lists *)

\* The sum of what v gives for the entries of a list.
ListSum(v, list) == SumFunction([k \in DOMAIN list |-> v[list[k]]])

LEMMA ListSumIsSum ==
    ASSUME NEW v, NEW S, NEW list \in Seq(S), \A x \in S : v[x] \in Int
    PROVE  /\ IsFiniteSet(DOMAIN list)
           /\ ListSum(v, list) = Sum([k \in DOMAIN list |-> v[list[k]]], DOMAIN list)
           /\ ListSum(v, list) \in Int
  <1>. DEFINE g == [k \in DOMAIN list |-> v[list[k]]]
  <1>1. IsFiniteSet(DOMAIN list)
    BY FS_Interval
  <1>2. DOMAIN g = DOMAIN list /\ \A k \in DOMAIN list : g[k] \in Int
    OBVIOUS
  <1>3. ListSum(v, list) = SumFunction(g)
    BY DEF ListSum
  <1>. HIDE DEF g
  <1>4. ListSum(v, list) = Sum(g, DOMAIN list) /\ Sum(g, DOMAIN list) \in Int
    BY <1>1, <1>2, <1>3, SumFunctionIsSum, SumInt
  <1>. QED
    BY <1>1, <1>4 DEF g

\* A list sums up to what its beginning and its end do.
LEMMA ListSumConcat ==
    ASSUME NEW v, NEW S, NEW s \in Seq(S), NEW t \in Seq(S), \A x \in S : v[x] \in Int
    PROVE  ListSum(v, s \o t) = ListSum(v, s) + ListSum(v, t)
  <1>. DEFINE g == [k \in DOMAIN (s \o t) |-> v[(s \o t)[k]]]
              f == [k \in DOMAIN s |-> v[s[k]]]
              h == [k \in DOMAIN t |-> v[t[k]]]
              m == Len(s)
              n == Len(t)
              b == [k \in 1..n |-> k + m]
  <1>1. /\ m \in Nat /\ n \in Nat /\ DOMAIN s = 1..m /\ DOMAIN t = 1..n
        /\ s \o t \in Seq(S) /\ DOMAIN (s \o t) = 1..(m + n)
        /\ \A k \in 1..(m + n) : (s \o t)[k] = IF k <= m THEN s[k] ELSE t[k - m]
    OBVIOUS
  <1>2. /\ ListSum(v, s \o t) = Sum(g, 1..(m + n))
        /\ ListSum(v, s) = Sum(f, 1..m)
        /\ ListSum(v, t) = Sum(h, 1..n)
    BY <1>1, ListSumIsSum
  <1>3. \A k \in 1..(m + n) : g[k] \in Int /\ g[k] = IF k <= m THEN f[k] ELSE h[k - m]
    <2>1. \A k \in 1..m : s[k] \in S
      BY <1>1
    <2>2. \A k \in 1..n : t[k] \in S
      BY <1>1
    <2>. HIDE DEF m, n
    <2>. QED
      BY <1>1, <2>1, <2>2
  <1>. HIDE DEF f, g, h, m, n
  <1>4. Sum(g, 1..m) = Sum(f, 1..m)
    <2>1. IsFiniteSet(1..m)
      BY <1>1, FS_Interval
    <2>2. \A k \in 1..m : g[k] = f[k]
      BY <1>1, <1>3
    <2>. QED
      BY <2>1, <2>2, SumCongruence
  <1>. DEFINE B == (m + 1)..(m + n)
  <1>5. IsFiniteSet(B) /\ Sum(h, 1..n) = Sum(g, B)
    <2>1. IsFiniteSet(1..n)
      BY <1>1, FS_Interval
    <2>2. \A k, l \in 1..n : b[k] = b[l] => k = l
      BY <1>1
    <2>3. \A k \in 1..n : h[k] = g[b[k]] /\ g[b[k]] \in Int
      BY <1>1, <1>3
    <2>4. /\ \A k \in 1..n : b[k] \in B
          /\ \A x \in B : x - m \in 1..n /\ b[x - m] = x
      BY <1>1
    <2>. HIDE DEF b, B
    <2>5. OneToOne(b, 1..n, B)
      BY <2>2, <2>4 DEF OneToOne
    <2>. DEFINE R == 1..n
    <2>6. IsFiniteSet(R) /\ OneToOne(b, R, B) /\ \A k \in R : h[k] = g[b[k]] /\ g[b[k]] \in Int
      BY <2>1, <2>3, <2>5
    <2>. HIDE DEF R
    <2>7. IsFiniteSet(B) /\ Sum(h, R) = Sum(g, B)
      BY <2>6, SumReindex
    <2>. QED
      BY <2>7 DEF R
  <1>6. 1..(m + n) = 1..m \cup B /\ 1..m \cap B = {}
    BY <1>1
  <1>7. Sum(g, 1..(m + n)) = Sum(g, 1..m) + Sum(g, B)
    <2>1. IsFiniteSet(1..m)
      BY <1>1, FS_Interval
    <2>. DEFINE A == 1..m
    <2>2. \A x \in A \cup B : g[x] \in Int
      BY <1>3, <1>6
    <2>. HIDE DEF A, B
    <2>3. Sum(g, A \cup B) = Sum(g, A) + Sum(g, B)
      BY <1>5, <1>6, <2>1, <2>2, SumUnion DEF A
    <2>. QED
      BY <1>6, <2>3 DEF A
  <1>. QED
    BY <1>2, <1>4, <1>5, <1>7

\* Filtering a list loses nothing of a sum if v gives 0 for what is dropped.
LEMMA ListSumFiltered ==
    ASSUME NEW v, NEW S, NEW list \in Seq(S), \A x \in S : v[x] \in Int,
           NEW kept \in SUBSET DOMAIN list,
           \A k \in DOMAIN list \ kept : v[list[k]] = 0
    PROVE  ListSum(v, Filtered(list, kept)) = ListSum(v, list)
  <1>. DEFINE g == [k \in DOMAIN list |-> v[list[k]]]
              new == Filtered(list, kept)
              h == [r \in DOMAIN new |-> v[new[r]]]
  <1>1. /\ IsFiniteSet(DOMAIN list) /\ kept \in SUBSET Nat /\ IsFiniteSet(kept)
        /\ \A k \in DOMAIN list : list[k] \in S
    <2>1. Len(list) \in Nat /\ DOMAIN list = 1..Len(list)
      OBVIOUS
    <2>2. IsFiniteSet(DOMAIN list)
      BY <2>1, FS_Interval
    <2>3. IsFiniteSet(kept)
      BY <2>2, FS_Subset
    <2>. QED
      BY <2>1, <2>2, <2>3
  <1>2. \E n, order :
           /\ n \in Nat /\ new = [r \in 1..n |-> list[order[r]]]
           /\ OneToOne(order, 1..n, kept)
    BY <1>1, FilteredProperties
  <1>. HIDE DEF new
  <1>3. PICK n, order :
           /\ n \in Nat /\ new = [r \in 1..n |-> list[order[r]]]
           /\ OneToOne(order, 1..n, kept)
    BY <1>2
  <1>4. ListSum(v, new) = Sum(h, 1..n)
    <2>1. DOMAIN h = 1..n
      BY <1>3
    <2>2. ListSum(v, new) = SumFunction(h)
      BY DEF ListSum
    <2>. QED
      BY <2>1, <2>2, SumFunctionIsSum
  <1>5. ListSum(v, list) = Sum(g, DOMAIN list)
    BY ListSumIsSum
  <1>6. \A k \in DOMAIN list : g[k] \in Int
    BY <1>1
  <1>7. Sum(h, 1..n) = Sum(g, kept)
    <2>1. IsFiniteSet(1..n)
      BY <1>3, FS_Interval
    <2>2. \A r \in 1..n : order[r] \in kept
      BY <1>3 DEF OneToOne
    <2>3. \A r \in 1..n : h[r] = g[order[r]] /\ g[order[r]] \in Int
      BY <1>3, <1>6, <2>2
    <2>. DEFINE R == 1..n
    <2>4. IsFiniteSet(R) /\ OneToOne(order, R, kept) /\ \A r \in R : h[r] = g[order[r]] /\ g[order[r]] \in Int
      BY <1>3, <2>1, <2>3
    <2>. HIDE DEF g, h, R
    <2>5. Sum(h, R) = Sum(g, kept)
      BY <2>4, SumReindex
    <2>. QED
      BY <2>5 DEF R
  <1>9. Sum(g, DOMAIN list) = Sum(g, kept) + Sum(g, DOMAIN list \ kept)
    <2>. DEFINE R == DOMAIN list \ kept
    <2>1. IsFiniteSet(R) /\ kept \cap R = {} /\ DOMAIN list = kept \cup R
      BY <1>1, FS_Subset
    <2>. HIDE DEF g, R
    <2>2. Sum(g, DOMAIN list) = Sum(g, kept) + Sum(g, R)
      BY <1>1, <1>6, <2>1, SumUnion
    <2>. QED
      BY <2>2 DEF R
  <1>10. Sum(g, DOMAIN list \ kept) = 0
    <2>1. \A k \in DOMAIN list \ kept : g[k] = 0
      OBVIOUS
    <2>2. IsFiniteSet(DOMAIN list \ kept)
      BY <1>1, FS_Subset
    <2>. HIDE DEF g
    <2>. QED
      BY <2>1, <2>2, SumZero
  <1>11. Sum(g, kept) \in Int
    <2>1. \A k \in kept : g[k] \in Int
      BY <1>6
    <2>. HIDE DEF g
    <2>. QED
      BY <1>1, <2>1, SumInt
  <1>12. Sum(g, kept) + 0 = Sum(g, kept)
    BY <1>11
  <1>. HIDE DEF g, h
  <1>. QED
    BY <1>4, <1>5, <1>7, <1>9, <1>10, <1>12 DEF new

\* Sums over a list compare as their terms do.
LEMMA ListSumMonotone ==
    ASSUME NEW v, NEW w, NEW S, NEW list \in Seq(S),
           \A x \in S : v[x] \in Int /\ w[x] \in Int /\ v[x] <= w[x]
    PROVE  ListSum(v, list) <= ListSum(w, list)
  <1>. DEFINE D == DOMAIN list
              g == [k \in D |-> v[list[k]]]
              h == [k \in D |-> w[list[k]]]
  <1>1. /\ IsFiniteSet(D) /\ ListSum(v, list) = Sum(g, D) /\ ListSum(w, list) = Sum(h, D)
    BY ListSumIsSum
  <1>2. \A k \in D : list[k] \in S
    OBVIOUS
  <1>3. \A k \in D : g[k] \in Int /\ h[k] \in Int /\ g[k] <= h[k]
    BY <1>2
  <1>. HIDE DEF D, g, h
  <1>. QED
    BY <1>1, <1>3, SumMonotone

\* Sums over a list add up as their terms do.
LEMMA ListSumPlus ==
    ASSUME NEW v, NEW w, NEW z, NEW S, NEW list \in Seq(S),
           \A x \in S : v[x] \in Int /\ w[x] \in Int /\ z[x] = v[x] + w[x]
    PROVE  ListSum(z, list) = ListSum(v, list) + ListSum(w, list)
  <1>. DEFINE D == DOMAIN list
              g == [k \in D |-> v[list[k]]]
              h == [k \in D |-> w[list[k]]]
              f == [k \in D |-> z[list[k]]]
  <1>0. \A x \in S : z[x] \in Int
    OBVIOUS
  <1>1. /\ IsFiniteSet(D) /\ ListSum(v, list) = Sum(g, D) /\ ListSum(w, list) = Sum(h, D)
        /\ ListSum(z, list) = Sum(f, D)
    BY <1>0, ListSumIsSum
  <1>2. \A k \in D : list[k] \in S
    OBVIOUS
  <1>3. \A k \in D : g[k] \in Int /\ h[k] \in Int /\ f[k] = g[k] + h[k]
    BY <1>2
  <1>. HIDE DEF D, f, g, h
  <1>. QED
    BY <1>1, <1>3, SumPlus

\* A sum of naturals over a list is a natural.
LEMMA ListSumNat ==
    ASSUME NEW v, NEW S, NEW list \in Seq(S), \A x \in S : v[x] \in Nat
    PROVE  ListSum(v, list) \in Nat
  <1>. DEFINE D == DOMAIN list
              g == [k \in D |-> v[list[k]]]
  <1>1. IsFiniteSet(D) /\ ListSum(v, list) = Sum(g, D)
    BY ListSumIsSum
  <1>2. \A k \in D : list[k] \in S
    OBVIOUS
  <1>3. \A k \in D : g[k] \in Nat
    BY <1>2
  <1>. HIDE DEF D, g
  <1>. QED
    BY <1>1, <1>3, SumNat

\* As many elements as the sum of ones for them.
LEMMA SumOfOnes ==
    ASSUME NEW S, IsFiniteSet(S), NEW R \in SUBSET S, NEW g,
           \A x \in S : g[x] = IF x \in R THEN 1 ELSE 0
    PROVE  Sum(g, S) = Cardinality(R)
  <1>. DEFINE Bad == {T \in SUBSET R : Sum(g, T) # Cardinality(T)}
  <1>0. IsFiniteSet(R)
    BY FS_Subset
  <1>1. Sum(g, R) = Cardinality(R)
    <2>1. SUFFICES ASSUME Bad # {} PROVE FALSE
      OBVIOUS
    <2>2. PICK T \in Bad : \A U \in Bad : <<U, T>> \notin StrictSubsetOrdering(R)
      BY <1>0, <2>1, FiniteSubsets, MinimalSet
    <2>3. T \in SUBSET R /\ IsFiniteSet(T) /\ Sum(g, T) # Cardinality(T)
      BY <1>0, FS_Subset
    <2>4. T # {}
      BY <2>3, SumEmpty, FS_EmptySet
    <2>5. FirstOf(T) \in T /\ RestOf(T) \in SUBSET R /\ <<RestOf(T), T>> \in StrictSubsetOrdering(R)
      BY <2>3, <2>4, RestIsSmaller
    <2>6. Sum(g, RestOf(T)) = Cardinality(RestOf(T))
      BY <2>2, <2>5
    <2>7. Sum(g, T) = 1 + Sum(g, RestOf(T))
      BY <2>3, <2>4, <2>5, SumFirst
    <2>8. /\ Cardinality(RestOf(T)) \in Nat
          /\ Cardinality(T) = Cardinality(RestOf(T)) + 1
      <3>1. IsFiniteSet(RestOf(T)) /\ FirstOf(T) \notin RestOf(T) /\ T = RestOf(T) \cup {FirstOf(T)}
        BY <2>3, <2>5, FS_Subset DEF RestOf
      <3>. QED
        BY <3>1, FS_AddElement, FS_CardinalityType
    <2>. QED
      BY <2>3, <2>6, <2>7, <2>8
  <1>2. Sum(g, S \ R) = 0
    BY FS_Subset, SumZero
  <1>3. Sum(g, S) = Sum(g, R) + Sum(g, S \ R)
    <2>1. IsFiniteSet(S \ R) /\ R \cap (S \ R) = {} /\ S = R \cup (S \ R)
      BY FS_Subset
    <2>2. \A x \in R \cup (S \ R) : g[x] \in Int
      OBVIOUS
    <2>3. Sum(g, R \cup (S \ R)) = Sum(g, R) + Sum(g, S \ R)
      BY <1>0, <2>1, <2>2, SumUnion
    <2>. QED
      BY <2>1, <2>3
  <1>4. Cardinality(R) \in Nat
    BY <1>0, FS_CardinalityType
  <1>. QED
    BY <1>1, <1>2, <1>3, <1>4

=============================================================================
