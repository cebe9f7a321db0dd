------------------------- MODULE TrieDatabase_proofs -------------------------
(***************************************************************************)
(* Proofs about module TrieDatabase, for any finite set of nodes and any   *)
(* tries over it, any sizes, allowances and batches.                       *)
(***************************************************************************)
EXTENDS TrieDatabaseInv, TLAPS, FiniteSetTheorems, SequenceTheorems

-----------------------------------------------------------------------------
(* Numbers and finite sets.                                                *)

\* A set of numbers up to a bound has a first and a last member.
LEMMA FirstOne ==
  ASSUME NEW k \in Nat, NEW S \in SUBSET (0 .. k), S # {}
  PROVE  \E x \in S : \A y \in S : x <= y
  <1> DEFINE Firsts(x) == {y \in S : y <= x}
             T == {Firsts(x) : x \in S}
             R == StrictSubsetOrdering(0 .. k)
             F == FiniteSubsetsOf(0 .. k)
  <1>1. IsWellFoundedOn(R, F)
    BY FS_StrictSubsetOrderingWellFounded
  <1>2. T \subseteq F
    <2>1. IsFiniteSet(0 .. k)
      BY FS_Interval
    <2> SUFFICES ASSUME NEW x \in S PROVE Firsts(x) \in F
      OBVIOUS
    <2>2. Firsts(x) \in SUBSET (0 .. k)
      OBVIOUS
    <2>3. IsFiniteSet(Firsts(x))
      BY <2>1, <2>2, FS_Subset
    <2> QED BY <2>2, <2>3 DEF FiniteSubsetsOf
  <1>3. T # {}
    OBVIOUS
  <1>4. PICK B \in T : \A C \in T : <<C, B>> \notin R
    <2> HIDE DEF R, F, T
    <2> QED BY <1>1, <1>2, <1>3, WFMin
  <1>5. PICK x \in S : B = Firsts(x)
    OBVIOUS
  <1>6. ASSUME NEW y \in S, ~(x <= y) PROVE FALSE
    <2>1. x \in Int /\ y \in Int /\ S \subseteq Int
      OBVIOUS
    <2>2. \A z \in S : z <= y => z <= x
      BY <2>1, <1>6
    <2>3. x <= x /\ ~(x <= y)
      BY <2>1, <1>6
    <2>4. Firsts(y) \subseteq Firsts(x) /\ x \in Firsts(x) /\ x \notin Firsts(y)
      BY <2>2, <2>3
    <2>5. Firsts(y) \in SUBSET (0 .. k) /\ Firsts(x) \in SUBSET (0 .. k)
      OBVIOUS
    <2>6. <<Firsts(y), Firsts(x)>> \in R
      <3> HIDE DEF Firsts
      <3> QED BY <2>4, <2>5 DEF StrictSubsetOrdering
    <2> QED BY <2>6, <1>4, <1>5
  <1> QED BY <1>6

LEMMA LastOne ==
  ASSUME NEW k \in Nat, NEW S \in SUBSET (0 .. k), S # {}
  PROVE  \E x \in S : \A y \in S : y <= x
  <1>1. PICK T \in SUBSET (0 .. k) : T = {i \in 0 .. k : k - i \in S}
    OBVIOUS
  <1>2. \A x \in S : x \in 0 .. k /\ k - x \in T
    BY <1>1
  <1>3. T # {}
    BY <1>2
  <1>4. PICK i \in T : \A j \in T : i <= j
    BY <1>3, FirstOne
  <1>5. k - i \in S /\ i \in 0 .. k
    BY <1>1, <1>4
  <1>6. ASSUME NEW y \in S PROVE y <= k - i
    <2>1. y \in 0 .. k /\ i <= k - y
      BY <1>2, <1>4
    <2> QED BY <2>1, <1>5
  <1> QED BY <1>5, <1>6


LEMMA OneTo ==
  ASSUME NEW n \in Nat
  PROVE  IsFiniteSet(1 .. n) /\ Cardinality(1 .. n) = n
  <1>1. 1 \in Int /\ n \in Int
    OBVIOUS
  <1>2. Cardinality(1 .. n) = IF 1 > n THEN 0 ELSE n - 1 + 1
    BY ONLY <1>1, FS_Interval
  <1>3. IsFiniteSet(1 .. n)
    BY ONLY <1>1, FS_Interval
  <1> QED BY <1>2, <1>3

LEMMA SetToSeqFacts ==
  ASSUME NEW S, IsFiniteSet(S), NEW n, n = Cardinality(S), NEW q, q = SetToSeq(S)
  PROVE  /\ n \in Nat /\ DOMAIN q = 1 .. n
         /\ \A i \in 1 .. n : q[i] \in S
         /\ \A s \in S : \E i \in 1 .. n : q[i] = s
         /\ \A i, j \in 1 .. n : q[i] = q[j] => i = j
  <1>1. n \in Nat /\ ExistsBijection(1 .. n, S)
    BY FS_CardinalityType
  <1>2. \E f \in [1 .. n -> S] : IsInjective(f)
    BY <1>1 DEF ExistsBijection, Bijection, Injection
  <1>3. q \in [1 .. n -> S] /\ IsInjective(q)
    BY <1>2 DEF SetToSeq
  <1>4. q \in Injection(1 .. n, S)
    BY <1>3 DEF Injection
  <1>5. Cardinality(1 .. n) = n
    BY <1>1, OneTo
  <1>6. q \in Surjection(1 .. n, S)
    BY <1>4, <1>5, FS_Injection
  <1> QED BY <1>1, <1>3, <1>6 DEF Surjection, IsInjective

LEMMA LargestIn ==
  ASSUME NEW n \in Nat, NEW T \in SUBSET (1 .. n)
  PROVE  /\ IsFiniteSet(T) /\ Cardinality(T) \in Nat /\ Cardinality(T) <= n
         /\ T # {} => /\ Max(T) \in T
                      /\ T \ {Max(T)} \in SUBSET (1 .. n)
                      /\ Cardinality(T) # 0
                      /\ Cardinality(T \ {Max(T)}) = Cardinality(T) - 1
  <1>1. IsFiniteSet(1 .. n) /\ Cardinality(1 .. n) = n
    BY OneTo
  <1>2. IsFiniteSet(T) /\ Cardinality(T) <= n /\ Cardinality(T) \in Nat
    BY <1>1, FS_Subset, FS_CardinalityType
  <1>3. ASSUME T # {} PROVE Max(T) \in T
    <2>1. T \in SUBSET (0 .. n)
      OBVIOUS
    <2>2. PICK x \in T : \A y \in T : y <= x
      BY <1>3, <2>1, LastOne
    <2>3. \A y \in T : x >= y
      BY <2>2
    <2> QED BY <2>2, <2>3 DEF Max
  <1>4. ASSUME T # {}
        PROVE  Cardinality(T) # 0 /\ Cardinality(T \ {Max(T)}) = Cardinality(T) - 1
    BY <1>2, <1>3, <1>4, FS_EmptySet, FS_RemoveElement
  <1> QED BY <1>2, <1>3, <1>4

-----------------------------------------------------------------------------
(* Sums: SumFunction(f) adds the values of f up in some order.             *)

Pick(T) == CHOOSE x \in T : TRUE

\* The sums over the parts of S with at most k members.
Sums(f, S, k, g) ==
  g = [T \in {U \in SUBSET S : Cardinality(U) <= k} |->
         IF T = {} THEN 0 ELSE f[Pick(T)] + g[T \ {Pick(T)}]]

LEMMA PartFacts ==
  ASSUME NEW S, IsFiniteSet(S), NEW T \in SUBSET S
  PROVE  /\ IsFiniteSet(T) /\ Cardinality(T) \in Nat /\ Cardinality(T) <= Cardinality(S)
         /\ T = {} <=> Cardinality(T) = 0
         /\ \A x \in T : /\ T \ {x} \in SUBSET S
                        /\ Cardinality(T \ {x}) = Cardinality(T) - 1
         /\ T # {} => Pick(T) \in T
  <1>1. IsFiniteSet(T) /\ Cardinality(T) \in Nat /\ Cardinality(T) <= Cardinality(S)
    BY FS_Subset, FS_CardinalityType
  <1>2. T = {} <=> Cardinality(T) = 0
    BY <1>1, FS_EmptySet
  <1>3. \A x \in T : Cardinality(T \ {x}) = Cardinality(T) - 1
    BY <1>1, FS_RemoveElement
  <1> QED BY <1>1, <1>2, <1>3 DEF Pick

LEMMA SumsExist ==
  ASSUME NEW S, IsFiniteSet(S), NEW n \in Nat, n = Cardinality(S), NEW f
  PROVE  \E g : Sums(f, S, n, g)
  <1>1. PICK B \in SUBSET (0 .. n) : B = {k \in 0 .. n : ~ \E g : Sums(f, S, k, g)}
    OBVIOUS
  <1>2. ASSUME NEW T \in SUBSET S
        PROVE  /\ Cardinality(T) \in Nat /\ (Cardinality(T) <= 0 => T = {})
               /\ T # {} => /\ T \ {Pick(T)} \in SUBSET S
                            /\ Cardinality(T \ {Pick(T)}) = Cardinality(T) - 1
    <2>1. /\ Cardinality(T) \in Nat
          /\ T = {} <=> Cardinality(T) = 0
          /\ \A x \in T : /\ T \ {x} \in SUBSET S
                         /\ Cardinality(T \ {x}) = Cardinality(T) - 1
          /\ T # {} => Pick(T) \in T
      BY ONLY IsFiniteSet(S), T \in SUBSET S, PartFacts
    <2> QED BY <2>1
  <1>3. ASSUME B # {} PROVE FALSE
    <2>1. PICK k \in B : \A j \in B : k <= j
      BY <1>3, FirstOne
    <2>2. k \in 0 .. n /\ ~ \E g : Sums(f, S, k, g)
      BY <1>1
    <2>3. k # 0
      <3>1. PICK g : g = [T \in {U \in SUBSET S : Cardinality(U) <= 0} |-> 0]
        OBVIOUS
      <3>2. Sums(f, S, 0, g)
        BY <1>2, <3>1 DEF Sums
      <3> QED BY <2>2, <3>2
    <2>4. k - 1 \in 0 .. n /\ k - 1 \notin B
      BY <2>1, <2>2, <2>3
    <2>5. PICK h : Sums(f, S, k - 1, h)
      BY <1>1, <2>4
    <2>6. PICK D : D = {U \in SUBSET S : Cardinality(U) <= k}
      OBVIOUS
    <2>7. PICK g : g = [T \in D |-> IF T = {} THEN 0 ELSE f[Pick(T)] + h[T \ {Pick(T)}]]
      OBVIOUS
    <2>8. \A T \in SUBSET S : Cardinality(T) <= k - 1 =>
            T \in D /\ h[T] = IF T = {} THEN 0 ELSE f[Pick(T)] + h[T \ {Pick(T)}]
      <3>1. \A T \in SUBSET S : Cardinality(T) <= k - 1 => Cardinality(T) <= k
        <4>1. k \in Nat
          BY <2>2
        <4>2. \A T \in SUBSET S : Cardinality(T) \in Nat
          BY <1>2
        <4> QED BY ONLY <4>1, <4>2
      <3> QED BY <2>5, <2>6, <3>1 DEF Sums
    <2>9. \A T \in SUBSET S : Cardinality(T) <= k - 1 => g[T] = h[T]
      BY <2>7, <2>8
    <2>10. ASSUME NEW T \in D
           PROVE  g[T] = IF T = {} THEN 0 ELSE f[Pick(T)] + g[T \ {Pick(T)}]
      <3>1. CASE T = {}
        BY <2>7, <3>1
      <3>2. CASE T # {}
        <4>1. T \in SUBSET S /\ Cardinality(T) <= k
          BY <2>6
        <4>2. PICK U : U = T \ {Pick(T)}
          OBVIOUS
        <4>3. U \in SUBSET S /\ Cardinality(U) <= k - 1
          <5>1. /\ Cardinality(T) \in Nat /\ U \in SUBSET S
                /\ Cardinality(U) = Cardinality(T) - 1
            BY <1>2, <3>2, <4>1, <4>2
          <5> QED BY <2>2, <4>1, <5>1
        <4>4. g[U] = h[U]
          BY <2>9, <4>3
        <4> QED BY <2>7, <3>2, <4>2, <4>4
      <3> QED BY <3>1, <3>2
    <2>11. Sums(f, S, k, g)
      BY <2>6, <2>7, <2>10 DEF Sums
    <2> QED BY <2>2, <2>11
  <1> QED BY <1>1, <1>3

\* The sums that SumFunction is one of.
IsSum(f, S, g) == \A T \in SUBSET S :
  g[T] = IF T = {} THEN 0 ELSE f[Pick(T)] + g[T \ {Pick(T)}]

LEMMA SumIs ==
  ASSUME NEW S, IsFiniteSet(S), NEW f, DOMAIN f = S
  PROVE  \E g : /\ IsSum(f, S, g)
                /\ SumFunction(f) = g[S]
  <1>1. PICK g : g = CHOOSE h : h = [T \in SUBSET S |->
                   IF T = {} THEN 0 ELSE f[Pick(T)] + h[T \ {Pick(T)}]]
    OBVIOUS
  <1>2. SumFunction(f) = g[S]
    BY <1>1 DEF SumFunction, SumFunctionOnSet, FoldFunctionOnSet, MapThenFoldSet, Pick
  <1>3. PICK n \in Nat : n = Cardinality(S)
    BY FS_CardinalityType
  <1>4. {U \in SUBSET S : Cardinality(U) <= n} = SUBSET S
    BY <1>3, PartFacts
  <1>5. PICK h : Sums(f, S, n, h)
    BY <1>3, SumsExist
  <1>6. h = [T \in SUBSET S |-> IF T = {} THEN 0 ELSE f[Pick(T)] + h[T \ {Pick(T)}]]
    BY <1>4, <1>5 DEF Sums
  <1>7. g = [T \in SUBSET S |-> IF T = {} THEN 0 ELSE f[Pick(T)] + g[T \ {Pick(T)}]]
    BY <1>1, <1>6
  <1>8. \A T \in SUBSET S : g[T] = IF T = {} THEN 0 ELSE f[Pick(T)] + g[T \ {Pick(T)}]
    BY <1>7
  <1> QED BY <1>2, <1>8 DEF IsSum

\* A sum does not depend on the order: any summand may be the last one.
TakesAny(f, g, T) == g[T] \in Nat /\ \A x \in T : g[T] = f[x] + g[T \ {x}]

LEMMA SumTakesAny ==
  ASSUME NEW S, IsFiniteSet(S), NEW f, \A x \in S : f[x] \in Nat,
         NEW g, IsSum(f, S, g),
         NEW U \in SUBSET S
  PROVE  TakesAny(f, g, U)
  <1>1. PICK n \in Nat : n = Cardinality(S)
    BY FS_CardinalityType
  <1> DEFINE Wrong(k) == \E T \in SUBSET S : Cardinality(T) = k /\ ~ TakesAny(f, g, T)
  <1>2. PICK B \in SUBSET (0 .. n) : B = {k \in 0 .. n : Wrong(k)}
    OBVIOUS
  <1>3. ASSUME NEW k \in B, \A j \in B : k <= j PROVE FALSE
    <2>1. PICK T \in SUBSET S : Cardinality(T) = k /\ ~ TakesAny(f, g, T)
      BY <1>2
    <2>2. ASSUME NEW R \in SUBSET S, Cardinality(R) < k PROVE TakesAny(f, g, R)
      <3>1. PICK j : j = Cardinality(R)
        OBVIOUS
      <3>2. j \in 0 .. n
        <4>1. Cardinality(R) \in Nat /\ Cardinality(R) <= Cardinality(S)
          BY PartFacts
        <4> QED BY <1>1, <3>1, <4>1
      <3>3. j \notin B
        BY <1>3, <2>2, <3>1, <3>2
      <3>4. ~ Wrong(j)
        BY <1>2, <3>2, <3>3
      <3> QED BY <3>1, <3>4
    <2>3. T # {}
      <3>1. ASSUME T = {} PROVE TakesAny(f, g, T)
        <4>1. g[T] = 0
          BY <3>1 DEF IsSum
        <4> QED BY <3>1, <4>1 DEF TakesAny
      <3> QED BY <2>1, <3>1
    <2>4. PICK x, R : x = Pick(T) /\ R = T \ {x}
      OBVIOUS
    <2>5. x \in T /\ R \in SUBSET S /\ Cardinality(R) < k
      <3>1. x \in T /\ R \in SUBSET S /\ Cardinality(R) = Cardinality(T) - 1
        BY <2>1, <2>3, <2>4, PartFacts
      <3>2. k \in Int
        BY <1>2
      <3> QED BY ONLY <2>1, <3>1, <3>2
    <2>6. g[T] = f[x] + g[R] /\ f[x] \in Nat
      BY <2>3, <2>4, <2>5 DEF IsSum
    <2>7. TakesAny(f, g, R)
      BY <2>2, <2>5
    <2>8. ASSUME NEW y \in T, y # x PROVE g[T] = f[y] + g[T \ {y}]
      <3>1. PICK Q, P : Q = T \ {y} /\ P = R \ {y}
        OBVIOUS
      <3>2. y \in R /\ g[R] = f[y] + g[P]
        BY <2>4, <2>7, <2>8, <3>1 DEF TakesAny
      <3>3. /\ Q \in SUBSET S /\ x \in Q /\ P = Q \ {x} /\ P \in SUBSET S
            /\ Cardinality(Q) < k /\ Cardinality(P) < k
        <4>1. Q \in SUBSET S /\ Cardinality(Q) = Cardinality(T) - 1
          BY <2>8, <3>1, PartFacts
        <4>2. P \in SUBSET S /\ Cardinality(P) = Cardinality(R) - 1
          BY <2>5, <3>1, <3>2, PartFacts
        <4>3. x \in Q /\ P = Q \ {x}
          BY <2>4, <2>5, <2>8, <3>1
        <4>4. Cardinality(R) \in Nat
          BY <2>5, PartFacts
        <4> QED BY <2>1, <2>5, <4>1, <4>2, <4>3, <4>4
      <3>4. g[Q] = f[x] + g[P]
        BY <2>2, <3>3 DEF TakesAny
      <3>5. g[P] \in Nat /\ f[y] \in Nat
        BY <2>2, <3>3 DEF TakesAny
      <3> QED BY ONLY <2>6, <3>1, <3>2, <3>4, <3>5
    <2>9. TakesAny(f, g, T)
      <3>1. g[T] \in Nat
        BY <2>6, <2>7 DEF TakesAny
      <3>2. g[T] = f[x] + g[T \ {x}]
        BY <2>4, <2>6
      <3> QED BY <2>8, <3>1, <3>2 DEF TakesAny
    <2> QED BY <2>1, <2>9
  <1>4. ~ \E k \in B : \A j \in B : k <= j
    BY <1>3
  <1>5. B = {}
    BY <1>4, FirstOne
  <1>6. Cardinality(U) \in 0 .. n
    BY <1>1, PartFacts
  <1> QED BY <1>2, <1>5, <1>6

LEMMA SumEmpty ==
  ASSUME NEW f, DOMAIN f = {}
  PROVE  SumFunction(f) = 0
  <1>1. IsFiniteSet({})
    BY FS_EmptySet
  <1>2. PICK g : /\ IsSum(f, {}, g)
                 /\ SumFunction(f) = g[{}]
    BY <1>1, SumIs
  <1> QED BY <1>2 DEF IsSum

LEMMA SumNat ==
  ASSUME NEW S, IsFiniteSet(S), NEW f, DOMAIN f = S, \A x \in S : f[x] \in Nat
  PROVE  SumFunction(f) \in Nat
  <1>1. PICK g : /\ IsSum(f, S, g)
                 /\ SumFunction(f) = g[S]
    BY SumIs
  <1>2. S \in SUBSET S
    OBVIOUS
  <1>3. g[S] \in Nat
    BY <1>1, <1>2, SumTakesAny DEF TakesAny
  <1> QED BY <1>1, <1>3

\* One summand more.
LEMMA SumAdds ==
  ASSUME NEW S, IsFiniteSet(S), NEW a \in S,
         NEW f, DOMAIN f = S, \A x \in S : f[x] \in Nat,
         NEW e, DOMAIN e = S \ {a}, \A x \in S \ {a} : e[x] = f[x]
  PROVE  SumFunction(f) = SumFunction(e) + f[a]
  <1>1. PICK g : IsSum(f, S, g) /\ SumFunction(f) = g[S]
    BY SumIs
  <1>2. PICK R : R = S \ {a}
    OBVIOUS
  <1>3. R \in SUBSET S /\ IsFiniteSet(R) /\ DOMAIN e = R
    BY <1>2, PartFacts
  <1>4. PICK h : IsSum(e, R, h) /\ SumFunction(e) = h[R]
    BY <1>3, SumIs
  <1>5. ASSUME NEW T \in SUBSET S, NEW x \in T PROVE g[T] = f[x] + g[T \ {x}]
    BY <1>1, SumTakesAny DEF TakesAny
  <1>6. PICK n \in Nat : n = Cardinality(S)
    BY FS_CardinalityType
  <1>7. PICK B \in SUBSET (0 .. n) :
          B = {k \in 0 .. n : \E T \in SUBSET R : Cardinality(T) = k /\ g[T] # h[T]}
    OBVIOUS
  <1>8. ASSUME NEW k \in B, \A j \in B : k <= j PROVE FALSE
    <2>1. PICK T \in SUBSET R : Cardinality(T) = k /\ g[T] # h[T]
      BY <1>7
    <2>2. T \in SUBSET S /\ T # {}
      <3>1. T \in SUBSET S
        BY <1>3, <2>1
      <3>2. T = {} => g[T] = 0 /\ h[T] = 0
        BY <1>1, <1>4, <2>1, <3>1 DEF IsSum
      <3> QED BY <2>1, <3>1, <3>2
    <2>3. PICK x, U : x = Pick(T) /\ U = T \ {x}
      OBVIOUS
    <2>4. x \in T /\ U \in SUBSET R /\ Cardinality(U) = k - 1
      BY <1>3, <2>1, <2>2, <2>3, PartFacts
    <2>5. g[T] = f[x] + g[U] /\ h[T] = e[x] + h[U]
      BY <1>1, <1>4, <2>1, <2>2, <2>3 DEF IsSum
    <2>6. g[U] = h[U]
      <3>1. k \in 0 .. n /\ Cardinality(U) \in Nat
        BY <1>3, <2>4, PartFacts
      <3>2. k - 1 \in 0 .. n /\ k - 1 \notin B
        BY <1>8, <2>4, <3>1
      <3> QED BY <1>7, <2>4, <3>2
    <2>7. f[x] = e[x]
      BY <1>2, <2>1, <2>4
    <2> QED BY <2>1, <2>5, <2>6, <2>7
  <1>9. ~ \E k \in B : \A j \in B : k <= j
    BY <1>8
  <1>10. B = {}
    BY <1>9, FirstOne
  <1>11. g[R] = h[R]
    <2>1. Cardinality(R) \in 0 .. n
      BY <1>3, <1>6, PartFacts
    <2> QED BY <1>7, <1>10, <2>1
  <1>12. g[S] = f[a] + g[R]
    <2>1. S \in SUBSET S
      OBVIOUS
    <2> QED BY <1>2, <1>5, <2>1
  <1>13. g[R] \in Nat /\ f[a] \in Nat
    BY <1>1, <1>3, SumTakesAny DEF TakesAny
  <1> QED BY <1>1, <1>4, <1>11, <1>12, <1>13

LEMMA SumAtLeast ==
  ASSUME NEW S, IsFiniteSet(S), NEW a \in S,
         NEW f, DOMAIN f = S, \A x \in S : f[x] \in Nat
  PROVE  f[a] <= SumFunction(f)
  <1>1. PICK R, e : R = S \ {a} /\ e = [x \in R |-> f[x]]
    OBVIOUS
  <1>2. IsFiniteSet(R) /\ DOMAIN e = R /\ \A x \in R : e[x] = f[x] /\ e[x] \in Nat
    BY <1>1, PartFacts
  <1>3. SumFunction(e) \in Nat
    BY <1>2, SumNat
  <1>4. SumFunction(f) = SumFunction(e) + f[a]
    BY <1>1, <1>2, SumAdds
  <1> QED BY <1>3, <1>4

\* Two sums that differ in one summand.
LEMMA SumMoves ==
  ASSUME NEW S, IsFiniteSet(S), NEW a \in S,
         NEW f, DOMAIN f = S, \A x \in S : f[x] \in Nat,
         NEW e, DOMAIN e = S, \A x \in S : e[x] \in Nat,
         \A x \in S \ {a} : e[x] = f[x]
  PROVE  SumFunction(e) = SumFunction(f) - f[a] + e[a]
  <1>1. PICK R, g : R = S \ {a} /\ g = [x \in R |-> f[x]]
    OBVIOUS
  <1>2. IsFiniteSet(R) /\ DOMAIN g = R /\ \A x \in R : g[x] = f[x] /\ g[x] \in Nat
    BY <1>1, PartFacts
  <1>3. SumFunction(g) \in Nat
    BY <1>2, SumNat
  <1>4. SumFunction(f) = SumFunction(g) + f[a]
    <2>1. DOMAIN g = S \ {a} /\ \A x \in S \ {a} : g[x] = f[x]
      BY <1>1, <1>2
    <2> QED BY <2>1, SumAdds
  <1>5. SumFunction(e) = SumFunction(g) + e[a]
    <2>1. DOMAIN g = S \ {a} /\ \A x \in S \ {a} : g[x] = e[x]
      BY <1>1, <1>2
    <2> QED BY <2>1, SumAdds
  <1>6. f[a] \in Nat /\ e[a] \in Nat
    OBVIOUS
  <1> QED BY ONLY <1>3, <1>4, <1>5, <1>6

-----------------------------------------------------------------------------
(* Loops.  Turn names what each loop of the module does in one turn, so that *)
(* what holds of loops is proved once.                                     *)

NextIn(d, h) == IF h \in DOMAIN d.dirties THEN d.dirties[h].flushNext ELSE NoHash

Turn(t, s, x) ==
  IF t[1] = "put" THEN Put(s, x)
  ELSE IF t[1] = "store" THEN storeNode(s, x)
  ELSE IF t[1] = "reference" THEN reference(s, x, t[2])
  ELSE IF t[1] = "walk" THEN walkOn(s)
  ELSE IF t[1] = "clear" THEN clearOldest(s, t[2])
  ELSE NextIn(t[2], s)

\* FoldLeft takes the largest index off.
Folds(t, q, b, k, g) ==
  g = [T \in {U \in SUBSET DOMAIN q : Cardinality(U) <= k} |->
         IF T = {} THEN b ELSE Turn(t, g[T \ {Max(T)}], q[Max(T)])]

LEMMA FoldExists ==
  ASSUME NEW t, NEW q, NEW b, NEW n \in Nat, DOMAIN q = 1 .. n
  PROVE  \E g : Folds(t, q, b, n, g)
  <1>3. ASSUME NEW T \in SUBSET (1 .. n)
        PROVE  /\ Cardinality(T) \in Nat /\ (Cardinality(T) <= 0 => T = {})
               /\ T # {} => /\ T \ {Max(T)} \in SUBSET (1 .. n)
                            /\ Cardinality(T \ {Max(T)}) = Cardinality(T) - 1
    <2>1. /\ IsFiniteSet(T) /\ Cardinality(T) \in Nat
          /\ T # {} => /\ T \ {Max(T)} \in SUBSET (1 .. n)
                       /\ Cardinality(T) # 0
                       /\ Cardinality(T \ {Max(T)}) = Cardinality(T) - 1
      BY ONLY n \in Nat, T \in SUBSET (1 .. n), LargestIn
    <2> QED BY <2>1
  <1>1. PICK S \in SUBSET (0 .. n) : S = {k \in 0 .. n : ~ \E g : Folds(t, q, b, k, g)}
    OBVIOUS
  <1>2. ASSUME S # {} PROVE FALSE
    <2>1. PICK k \in S : \A j \in S : k <= j
      BY <1>2, FirstOne
    <2>2. k \in 0 .. n /\ ~ \E g : Folds(t, q, b, k, g)
      BY <1>1
    <2>3. k # 0
      <3>1. PICK g : g = [T \in {U \in SUBSET (1 .. n) : Cardinality(U) <= 0} |-> b]
        OBVIOUS
      <3>2. \A T \in SUBSET (1 .. n) : Cardinality(T) <= 0 => T = {}
        BY <1>3
      <3>3. Folds(t, q, b, 0, g)
        BY <3>1, <3>2 DEF Folds
      <3> QED BY <2>2, <3>3
    <2>4. k - 1 \in 0 .. n /\ k - 1 \notin S
      BY <2>1, <2>2, <2>3
    <2>5. PICK f : Folds(t, q, b, k - 1, f)
      BY <1>1, <2>4
    <2>6. PICK D : D = {U \in SUBSET (1 .. n) : Cardinality(U) <= k}
      OBVIOUS
    <2>7. PICK g : g = [T \in D |-> IF T = {} THEN b
                                   ELSE Turn(t, f[T \ {Max(T)}], q[Max(T)])]
      OBVIOUS
    <2>8. \A T \in SUBSET (1 .. n) : Cardinality(T) <= k - 1 =>
            T \in D /\ f[T] = IF T = {} THEN b
                              ELSE Turn(t, f[T \ {Max(T)}], q[Max(T)])
      <3>1. \A T \in SUBSET (1 .. n) : Cardinality(T) <= k - 1 => Cardinality(T) <= k
        <4>1. k \in Nat
          BY <2>2
        <4>2. \A T \in SUBSET (1 .. n) : Cardinality(T) \in Nat
          BY <1>3
        <4> QED BY ONLY <4>1, <4>2
      <3> QED BY <2>5, <2>6, <3>1 DEF Folds
    <2>9. \A T \in SUBSET (1 .. n) : Cardinality(T) <= k - 1 => g[T] = f[T]
      BY <2>7, <2>8
    <2>10. ASSUME NEW T \in D
           PROVE  g[T] = IF T = {} THEN b
                         ELSE Turn(t, g[T \ {Max(T)}], q[Max(T)])
      <3>1. CASE T = {}
        BY <2>7, <3>1
      <3>2. CASE T # {}
        <4>1. T \in SUBSET (1 .. n) /\ Cardinality(T) <= k
          BY <2>6
        <4>2. PICK U : U = T \ {Max(T)}
          OBVIOUS
        <4>3. U \in SUBSET (1 .. n) /\ Cardinality(U) <= k - 1
          <5>1. /\ Cardinality(T) \in Nat /\ U \in SUBSET (1 .. n)
                /\ Cardinality(U) = Cardinality(T) - 1
            BY <1>3, <3>2, <4>1, <4>2
          <5> QED BY <2>2, <4>1, <5>1
        <4>4. g[U] = f[U]
          BY <2>9, <4>3
        <4> QED BY <2>7, <3>2, <4>2, <4>4
      <3> QED BY <3>1, <3>2
    <2>11. Folds(t, q, b, k, g)
      BY <2>6, <2>7, <2>10 DEF Folds
    <2> QED BY <2>2, <2>11
  <1> QED BY <1>1, <1>2

\* The states of a loop over q that starts with b.
Turns(t, q, b, n, a) == a[0] = b /\ \A k \in 1 .. n : a[k] = Turn(t, a[k - 1], q[k])

LEMMA FoldTurns ==
  ASSUME NEW t, NEW q, NEW b, NEW n \in Nat, DOMAIN q = 1 .. n,
         NEW g, Folds(t, q, b, n, g)
  PROVE  \E a : Turns(t, q, b, n, a) /\ g[DOMAIN q] = a[n]
  <1>1. {U \in SUBSET DOMAIN q : Cardinality(U) <= n} = SUBSET DOMAIN q
    BY LargestIn
  <1>4. g = [T \in SUBSET DOMAIN q |->
               IF T = {} THEN b ELSE Turn(t, g[T \ {Max(T)}], q[Max(T)])]
    BY <1>1 DEF Folds
  <1>5. \A T \in SUBSET (1 .. n) :
          g[T] = IF T = {} THEN b ELSE Turn(t, g[T \ {Max(T)}], q[Max(T)])
    BY <1>4
  <1>6. PICK a : a = [k \in 0 .. n |-> g[1 .. k]]
    OBVIOUS
  <1>7. a[0] = b
    <2>1. 0 \in 0 .. n
      OBVIOUS
    <2>2. 1 .. 0 \in SUBSET (1 .. n) /\ 1 .. 0 = {}
      OBVIOUS
    <2>3. g[1 .. 0] = b
      BY <1>5, <2>2
    <2> QED BY <1>6, <2>1, <2>3
  <1>8. ASSUME NEW k \in 1 .. n PROVE a[k] = Turn(t, a[k - 1], q[k])
    <2>1. k \in 0 .. n /\ k - 1 \in 0 .. n
      OBVIOUS
    <2>2. (1 .. k) \ {k} = 1 .. k - 1 /\ 1 .. k # {} /\ 1 .. k \in SUBSET (1 .. n)
      <3>1. k \in Nat /\ k # 0 /\ n \in Nat /\ k <= n
        OBVIOUS
      <3>2. (1 .. k) \ {k} = 1 .. k - 1
        BY ONLY <3>1
      <3>3. k \in 1 .. k
        BY ONLY <3>1
      <3>4. 1 .. k \in SUBSET (1 .. n)
        BY ONLY <3>1
      <3> QED BY <3>2, <3>3, <3>4
    <2>3. Max(1 .. k) = k
      <3>1. k \in 1 .. k /\ \A y \in 1 .. k : k >= y
        OBVIOUS
      <3>2. \A x \in 1 .. k : x >= k => x = k
        OBVIOUS
      <3> QED BY <3>1, <3>2 DEF Max
    <2>4. g[1 .. k] = Turn(t, g[(1 .. k) \ {Max(1 .. k)}], q[Max(1 .. k)])
      BY ONLY <1>5, <2>2
    <2>5. g[1 .. k] = Turn(t, g[1 .. k - 1], q[k])
      BY <2>2, <2>3, <2>4
    <2>6. a[k] = g[1 .. k] /\ a[k - 1] = g[1 .. k - 1]
      BY <1>6, <2>1
    <2> QED BY <2>5, <2>6
  <1>9. g[DOMAIN q] = a[n]
    <2>1. n \in 0 .. n
      OBVIOUS
    <2> QED BY <1>6, <2>1
  <1> QED BY <1>7, <1>8, <1>9 DEF Turns

LEMMA PutTurns ==
  ASSUME NEW q, NEW b, NEW n \in Nat, DOMAIN q = 1 .. n
  PROVE  \E a : Turns(<<"put">>, q, b, n, a) /\ FoldLeft(Put, b, q) = a[n]
  <1>1. PICK t : t = <<"put">>
    OBVIOUS
  <1>2. \A s, x : Turn(t, s, x) = Put(s, x)
    BY <1>1 DEF Turn
  <1>3. PICK g : g = CHOOSE h : h = [T \in SUBSET DOMAIN q |->
                   IF T = {} THEN b ELSE Put(h[T \ {Max(T)}], q[Max(T)])]
    OBVIOUS
  <1>4. FoldLeft(Put, b, q) = g[DOMAIN q]
    BY <1>3 DEF FoldLeft, MapThenFoldSet
  <1>5. {U \in SUBSET DOMAIN q : Cardinality(U) <= n} = SUBSET DOMAIN q
    BY LargestIn
  <1>6. PICK h : Folds(t, q, b, n, h)
    BY FoldExists
  <1>7. h = [T \in SUBSET DOMAIN q |-> IF T = {} THEN b ELSE Put(h[T \ {Max(T)}], q[Max(T)])]
    BY <1>2, <1>5, <1>6 DEF Folds
  <1>8. g = [T \in SUBSET DOMAIN q |-> IF T = {} THEN b ELSE Put(g[T \ {Max(T)}], q[Max(T)])]
    BY <1>3, <1>7
  <1>9. Folds(t, q, b, n, g)
    BY <1>2, <1>5, <1>8 DEF Folds
  <1>10. PICK a : Turns(t, q, b, n, a) /\ g[DOMAIN q] = a[n]
    BY <1>9, FoldTurns
  <1> QED BY <1>1, <1>4, <1>10

LEMMA StoreTurns ==
  ASSUME NEW q, NEW b, NEW n \in Nat, DOMAIN q = 1 .. n
  PROVE  \E a : Turns(<<"store">>, q, b, n, a) /\ FoldLeft(storeNode, b, q) = a[n]
  <1>1. PICK t : t = <<"store">>
    OBVIOUS
  <1>2. \A s, x : Turn(t, s, x) = storeNode(s, x)
    BY <1>1 DEF Turn
  <1>3. PICK g : g = CHOOSE h : h = [T \in SUBSET DOMAIN q |->
                   IF T = {} THEN b ELSE storeNode(h[T \ {Max(T)}], q[Max(T)])]
    OBVIOUS
  <1>4. FoldLeft(storeNode, b, q) = g[DOMAIN q]
    BY <1>3 DEF FoldLeft, MapThenFoldSet
  <1>5. {U \in SUBSET DOMAIN q : Cardinality(U) <= n} = SUBSET DOMAIN q
    BY LargestIn
  <1>6. PICK h : Folds(t, q, b, n, h)
    BY FoldExists
  <1>7. h = [T \in SUBSET DOMAIN q |-> IF T = {} THEN b ELSE storeNode(h[T \ {Max(T)}], q[Max(T)])]
    BY <1>2, <1>5, <1>6 DEF Folds
  <1>8. g = [T \in SUBSET DOMAIN q |-> IF T = {} THEN b ELSE storeNode(g[T \ {Max(T)}], q[Max(T)])]
    BY <1>3, <1>7
  <1>9. Folds(t, q, b, n, g)
    BY <1>2, <1>5, <1>8 DEF Folds
  <1>10. PICK a : Turns(t, q, b, n, a) /\ g[DOMAIN q] = a[n]
    BY <1>9, FoldTurns
  <1> QED BY <1>1, <1>4, <1>10

\* The leaf callback of p.
Callback(b, p) == FoldLeft(LAMBDA e, y : reference(e, y, p), b, SetToSeq(Ext[p]))

LEMMA CallbackTurns ==
  ASSUME NEW p, NEW q, q = SetToSeq(Ext[p]), NEW b, NEW n \in Nat, DOMAIN q = 1 .. n
  PROVE  \E a : Turns(<<"reference", p>>, q, b, n, a) /\ Callback(b, p) = a[n]
  <1>1. PICK t : t = <<"reference", p>>
    OBVIOUS
  <1>2. \A s, x : Turn(t, s, x) = reference(s, x, p)
    BY <1>1 DEF Turn
  <1>3. PICK g : g = CHOOSE h : h = [T \in SUBSET DOMAIN q |->
                   IF T = {} THEN b ELSE reference(h[T \ {Max(T)}], q[Max(T)], p)]
    OBVIOUS
  <1>4. Callback(b, p) = g[DOMAIN q]
    BY <1>3 DEF Callback, FoldLeft, MapThenFoldSet
  <1>5. {U \in SUBSET DOMAIN q : Cardinality(U) <= n} = SUBSET DOMAIN q
    BY LargestIn
  <1>6. PICK h : Folds(t, q, b, n, h)
    BY FoldExists
  <1>7. h = [T \in SUBSET DOMAIN q |-> IF T = {} THEN b ELSE reference(h[T \ {Max(T)}], q[Max(T)], p)]
    BY <1>2, <1>5, <1>6 DEF Folds
  <1>8. g = [T \in SUBSET DOMAIN q |-> IF T = {} THEN b ELSE reference(g[T \ {Max(T)}], q[Max(T)], p)]
    BY <1>3, <1>7
  <1>9. Folds(t, q, b, n, g)
    BY <1>2, <1>5, <1>8 DEF Folds
  <1>10. PICK a : Turns(t, q, b, n, a) /\ g[DOMAIN q] = a[n]
    BY <1>9, FoldTurns
  <1> QED BY <1>1, <1>4, <1>10

Iteration(t, b, N, f) == f = [n \in 0 .. N |-> IF n = 0 THEN b ELSE Turn(t, f[n - 1], n)]

LEMMA IterationExists ==
  ASSUME NEW t, NEW b, NEW N \in Nat
  PROVE  \E f : Iteration(t, b, N, f)
  <1>1. PICK q : q = [i \in 1 .. N |-> i]
    OBVIOUS
  <1>2. DOMAIN q = 1 .. N /\ \A i \in 1 .. N : q[i] = i
    BY <1>1
  <1>3. PICK g : Folds(t, q, b, N, g)
    BY <1>2, FoldExists
  <1>4. PICK a : Turns(t, q, b, N, a)
    BY <1>2, <1>3, FoldTurns
  <1>5. PICK f : f = [n \in 0 .. N |-> a[n]]
    OBVIOUS
  <1>6. ASSUME NEW n \in 0 .. N
        PROVE  f[n] = IF n = 0 THEN b ELSE Turn(t, f[n - 1], n)
    <2>1. CASE n = 0
      BY <1>4, <1>5, <2>1 DEF Turns
    <2>2. CASE n # 0
      <3>1. n \in 1 .. N /\ n - 1 \in 0 .. N
        BY <2>2
      <3>2. f[n] = a[n] /\ f[n - 1] = a[n - 1]
        BY <1>5, <3>1
      <3>3. a[n] = Turn(t, a[n - 1], q[n]) /\ q[n] = n
        BY <1>2, <1>4, <3>1 DEF Turns
      <3> QED BY <2>2, <3>2, <3>3
    <2> QED BY <2>1, <2>2
  <1>7. f = [n \in 0 .. N |-> IF n = 0 THEN b ELSE Turn(t, f[n - 1], n)]
    <2>1. f = [n \in 0 .. N |-> f[n]]
      BY <1>5
    <2> QED BY <1>6, <2>1
  <1> QED BY <1>7 DEF Iteration

\* The states of the walk of dereference.
LEMMA WalkTurns ==
  ASSUME NEW d, NEW child, NEW parent, NEW N \in Nat, N = walkLength(d)
  PROVE  \E a : /\ a[0] = visit(forget(d, child, parent), child, << >>)
                /\ \A k \in 1 .. N : a[k] = walkOn(a[k - 1])
                /\ dereference(d, child, parent) = a[N].db
  <1>1. PICK t, b : t = <<"walk">> /\ b = visit(forget(d, child, parent), child, << >>)
    OBVIOUS
  <1>2. \A s, x : Turn(t, s, x) = walkOn(s)
    BY <1>1 DEF Turn
  <1>3. PICK a : a = CHOOSE f : f = [n \in 0 .. walkLength(d) |->
                   IF n = 0 THEN visit(forget(d, child, parent), child, << >>)
                   ELSE walkOn(f[n - 1])]
    OBVIOUS
  <1>4. dereference(d, child, parent) = a[N].db
    BY <1>3 DEF dereference
  <1>5. PICK f : Iteration(t, b, N, f)
    BY IterationExists
  <1>6. f = [n \in 0 .. N |-> IF n = 0 THEN b ELSE walkOn(f[n - 1])]
    BY <1>2, <1>5 DEF Iteration
  <1>7. a = [n \in 0 .. N |-> IF n = 0 THEN b ELSE walkOn(a[n - 1])]
    BY <1>1, <1>3, <1>6
  <1>8. a[0] = b
    BY <1>7
  <1>9. \A k \in 1 .. N : a[k] = walkOn(a[k - 1])
    BY <1>7
  <1> QED BY <1>1, <1>4, <1>8, <1>9

\* The states of Cap's last loop.
LEMMA ClearTurns ==
  ASSUME NEW d, NEW stop, NEW N \in Nat, N = Cardinality(Nodes(d))
  PROVE  \E a : /\ a[0] = d
                /\ \A k \in 1 .. N : a[k] = clearOldest(a[k - 1], stop)
                /\ clear(d, stop) = IF stop = NoHash THEN a[N]
                                    ELSE [a[N] EXCEPT !.dirties[stop].flushPrev = NoHash]
  <1>1. PICK t : t = <<"clear", stop>>
    OBVIOUS
  <1>2. \A s, x : Turn(t, s, x) = clearOldest(s, stop)
    BY <1>1 DEF Turn
  <1>3. PICK a : a = CHOOSE f : f = [n \in 0 .. Cardinality(Nodes(d)) |->
                   IF n = 0 THEN d ELSE clearOldest(f[n - 1], stop)]
    OBVIOUS
  <1>4. clear(d, stop) = IF stop = NoHash THEN a[N]
                         ELSE [a[N] EXCEPT !.dirties[stop].flushPrev = NoHash]
    BY <1>3 DEF clear
  <1>5. PICK f : Iteration(t, d, N, f)
    BY IterationExists
  <1>6. f = [n \in 0 .. N |-> IF n = 0 THEN d ELSE clearOldest(f[n - 1], stop)]
    BY <1>2, <1>5 DEF Iteration
  <1>7. a = [n \in 0 .. N |-> IF n = 0 THEN d ELSE clearOldest(a[n - 1], stop)]
    BY <1>3, <1>6
  <1>8. a[0] = d
    BY <1>7
  <1>9. \A k \in 1 .. N : a[k] = clearOldest(a[k - 1], stop)
    BY <1>7
  <1> QED BY <1>4, <1>8, <1>9

-----------------------------------------------------------------------------
(* Sequences.                                                              *)

LEMMA ConcatFacts ==
  ASSUME NEW X, NEW s \in Seq(X), NEW t \in Seq(X), NEW u, u = s \o t
  PROVE  /\ u \in Seq(X) /\ Len(u) = Len(s) + Len(t)
         /\ Len(s) \in Nat /\ Len(t) \in Nat /\ DOMAIN u = 1 .. Len(s) + Len(t)
         /\ \A i \in 1 .. Len(s) : u[i] = s[i]
         /\ \A i \in 1 .. Len(t) : u[Len(s) + i] = t[i]
         /\ \A i \in DOMAIN u : i \in 1 .. Len(s) \/ i - Len(s) \in 1 .. Len(t)
  <1>1. /\ u \in Seq(X) /\ Len(u) = Len(s) + Len(t) /\ Len(s) \in Nat /\ Len(t) \in Nat
        /\ DOMAIN u = 1 .. Len(s) + Len(t) /\ DOMAIN s = 1 .. Len(s) /\ DOMAIN t = 1 .. Len(t)
    OBVIOUS
  <1>2. \A i \in 1 .. Len(s) : u[i] = s[i]
    OBVIOUS
  <1>3. \A i \in 1 .. Len(t) : u[Len(s) + i] = t[i]
    OBVIOUS
  <1>4. \A i \in DOMAIN u : i \in 1 .. Len(s) \/ i - Len(s) \in 1 .. Len(t)
    BY <1>1
  <1> QED BY <1>1, <1>2, <1>3, <1>4

LEMMA ConcatRange ==
  ASSUME NEW X, NEW s \in Seq(X), NEW t \in Seq(X)
  PROVE  s \o t \in Seq(X) /\ Range(s \o t) = Range(s) \cup Range(t)
  <1>1. PICK u : u = s \o t
    OBVIOUS
  <1>2. /\ u \in Seq(X) /\ DOMAIN u = 1 .. Len(s) + Len(t)
        /\ DOMAIN s = 1 .. Len(s) /\ DOMAIN t = 1 .. Len(t)
        /\ Len(s) \in Nat /\ Len(t) \in Nat
    BY <1>1
  <1>3. /\ \A i \in 1 .. Len(s) : u[i] = s[i]
        /\ \A i \in 1 .. Len(t) : u[Len(s) + i] = t[i]
        /\ \A i \in DOMAIN u : i \in 1 .. Len(s) \/ i - Len(s) \in 1 .. Len(t)
    BY <1>1, ConcatFacts
  <1>5. Range(u) = Range(s) \cup Range(t)
    <2>1. ASSUME NEW i \in 1 .. Len(t) PROVE Len(s) + i \in DOMAIN u
      BY <1>2
    <2>2. ASSUME NEW i \in 1 .. Len(s) PROVE i \in DOMAIN u
      BY <1>2
    <2>3. ASSUME NEW i \in DOMAIN u PROVE u[i] \in Range(s) \cup Range(t)
      <3>1. CASE i \in 1 .. Len(s)
        BY <1>2, <1>3, <3>1 DEF Range
      <3>2. CASE i - Len(s) \in 1 .. Len(t)
        <4>1. PICK k \in 1 .. Len(t) : k = i - Len(s)
          BY <3>2
        <4>2. i = Len(s) + k
          BY <1>2, <4>1
        <4> QED BY <1>2, <1>3, <4>2 DEF Range
      <3> QED BY <1>3, <3>1, <3>2
    <2>4. Range(u) \subseteq Range(s) \cup Range(t)
      BY <2>3 DEF Range
    <2>5. Range(s) \subseteq Range(u)
      BY <1>2, <1>3, <2>2 DEF Range
    <2>6. Range(t) \subseteq Range(u)
      BY <1>2, <1>3, <2>1 DEF Range
    <2> QED BY <2>4, <2>5, <2>6
  <1> QED BY <1>1, <1>2, <1>5

Joins(q, k, f) == f = [i \in 1 .. k |-> IF i = 1 THEN q[i] ELSE f[i-1] \o q[i]]

\* The first n of them.
Joined(q) == CHOOSE f : Joins(q, Len(q), f)

LEMMA JoinedJoins ==
  ASSUME NEW q, Len(q) \in Nat
  PROVE  Joins(q, Len(q), Joined(q))
  <1> DEFINE L == Len(q)
  <1>1. PICK S \in SUBSET (0 .. L) : S = {k \in 0 .. L : ~ \E f : Joins(q, k, f)}
    OBVIOUS
  <1>2. ASSUME S # {} PROVE FALSE
    <2>1. PICK k \in S : \A j \in S : k <= j
      BY <1>2, FirstOne
    <2>2. k \in 0 .. L /\ ~ \E f : Joins(q, k, f)
      BY <1>1
    <2>3. Joins(q, 0, [i \in 1 .. 0 |-> q])
      BY DEF Joins
    <2>4. k - 1 \in 0 .. L /\ k - 1 \notin S
      <3>1. k # 0
        BY <2>2, <2>3
      <3> QED BY <2>1, <2>2, <3>1
    <2>5. PICK f : Joins(q, k - 1, f)
      BY <1>1, <2>4
    <2>11. PICK v : v = IF k = 1 THEN q[k] ELSE f[k - 1] \o q[k]
      OBVIOUS
    <2>6. PICK g : g = [i \in 1 .. k |-> IF i = k THEN v ELSE f[i]]
      OBVIOUS
    <2>7. /\ DOMAIN g = 1 .. k
          /\ g[k] = v
          /\ \A i \in 1 .. k - 1 : g[i] = f[i]
      <3>1. k \in 1 .. k /\ \A i \in 1 .. k - 1 : i \in 1 .. k /\ i # k
        BY <2>2, <2>4
      <3> QED BY <2>6, <3>1
    <2>8. \A i \in 1 .. k - 1 : f[i] = IF i = 1 THEN q[i] ELSE f[i - 1] \o q[i]
      BY <2>5 DEF Joins
    <2>9. ASSUME NEW i \in 1 .. k
          PROVE  g[i] = IF i = 1 THEN q[i] ELSE g[i - 1] \o q[i]
      <3>1. CASE i = k
        <4>1. i # 1 => k - 1 \in 1 .. k - 1
          BY <2>2, <3>1
        <4> QED BY <2>11, <2>7, <3>1, <4>1
      <3>2. CASE i # k
        <4>1. i \in 1 .. k - 1 /\ (i # 1 => i - 1 \in 1 .. k - 1)
          BY <2>2, <3>2
        <4> QED BY <2>7, <2>8, <4>1
      <3> QED BY <3>1, <3>2
    <2>10. Joins(q, k, g)
      BY <2>6, <2>9 DEF Joins
    <2> QED BY <2>2, <2>10
  <1>3. \E f : Joins(q, L, f)
    BY <1>1, <1>2
  <1> QED BY <1>3 DEF Joined

\* FlattenSeq puts the sequences one behind the other.
LEMMA FlattenGrows ==
  ASSUME NEW X, NEW q \in Seq(Seq(X)), NEW L, L = Len(q)
  PROVE  \E j : /\ j[0] = << >>
                /\ \A k \in 1 .. L : j[k] = j[k - 1] \o q[k]
                /\ j[L] = FlattenSeq(q)
  <1>1. L \in Nat /\ \A k \in 1 .. L : q[k] \in Seq(X)
    BY LenProperties, ElementOfSeq
  <1>2. PICK f : f = Joined(q)
    OBVIOUS
  <1>3. Joins(q, L, f)
    BY <1>1, <1>2, JoinedJoins
  <1>4. \A k \in 1 .. L : f[k] = IF k = 1 THEN q[k] ELSE f[k - 1] \o q[k]
    BY <1>3 DEF Joins
  <1>5. PICK j : j = [k \in 0 .. L |-> IF k = 0 THEN << >> ELSE f[k]]
    OBVIOUS
  <1>6. j[0] = << >> /\ \A k \in 1 .. L : j[k] = f[k]
    BY <1>1, <1>5
  <1>7. ASSUME NEW k \in 1 .. L PROVE j[k] = j[k - 1] \o q[k]
    <2>1. CASE k = 1
      <3>1. q[1] = << >> \o q[1]
        BY <1>1, <2>1
      <3>2. j[1] = q[1] /\ j[1 - 1] = << >>
        BY <1>4, <1>6, <2>1
      <3> QED BY <2>1, <3>1, <3>2
    <2>2. CASE k # 1
      <3>1. k - 1 \in 1 .. L
        BY <1>1, <2>2
      <3> QED BY <1>4, <1>6, <2>2, <3>1
    <2> QED BY <2>1, <2>2
  <1>8. j[L] = FlattenSeq(q)
    <2>1. CASE L = 0
      <3>1. FlattenSeq(q) = q
        BY <2>1 DEF FlattenSeq
      <3>2. q = << >>
        BY <2>1, EmptySeq
      <3> QED BY <1>6, <2>1, <3>1, <3>2
    <2>2. CASE L # 0
      <3>1. FlattenSeq(q) = f[L]
        BY <1>2, <2>2 DEF FlattenSeq, Joined, Joins
      <3>2. L \in 1 .. L
        BY <1>1, <2>2
      <3> QED BY <1>6, <3>1, <3>2
    <2> QED BY <2>1, <2>2
  <1> QED BY <1>6, <1>7, <1>8

\* In s, which holds members of U only, a node comes after those of C[x] that
\* are in U.
InOrder(s, U, C) ==
  \A i \in DOMAIN s : s[i] \in U /\ \A y \in C[s[i]] \cap U : \E j \in 1 .. i - 1 : s[j] = y

\* t is in order when it comes after s.
InOrderAfter(s, t, U, C) ==
  \A i \in 1 .. Len(t) :
    /\ t[i] \in U
    /\ \A y \in C[t[i]] \cap U : y \in Range(s) \/ \E j \in 1 .. i - 1 : t[j] = y

LEMMA InOrderAppend ==
  ASSUME NEW X, NEW s \in Seq(X), NEW t \in Seq(X), NEW U, NEW C, InOrder(s, U, C),
         InOrderAfter(s, t, U, C)
  PROVE  InOrder(s \o t, U, C)
  <1>1. PICK u, m, n : u = s \o t /\ m = Len(s) /\ n = Len(t)
    OBVIOUS
  <1>2. /\ m \in Nat /\ n \in Nat /\ DOMAIN u = 1 .. m + n /\ DOMAIN s = 1 .. m
        /\ \A i \in 1 .. m : u[i] = s[i]
        /\ \A i \in 1 .. n : u[m + i] = t[i]
    BY <1>1, ConcatFacts
  <1>3. ASSUME NEW i \in DOMAIN u
        PROVE  u[i] \in U /\ \A y \in C[u[i]] \cap U : \E j \in 1 .. i - 1 : u[j] = y
    <2>1. CASE i \in 1 .. m
      <3>1. \A j \in 1 .. i - 1 : j \in 1 .. m
        BY <1>2, <2>1
      <3> QED BY <1>2, <2>1, <3>1 DEF InOrder
    <2>2. CASE i \notin 1 .. m
      <3>1. PICK k \in 1 .. n : i = m + k
        <4>1. i - m \in 1 .. n /\ i = m + (i - m)
          BY <1>2, <2>2
        <4> QED BY <4>1
      <3>2. u[i] = t[k] /\ u[i] \in U
        BY <1>1, <1>2, <3>1 DEF InOrderAfter
      <3>3. ASSUME NEW y \in C[u[i]] \cap U PROVE \E j \in 1 .. i - 1 : u[j] = y
        <4>1. CASE y \in Range(s)
          <5>1. PICK j \in 1 .. m : s[j] = y
            BY <1>2, <4>1 DEF Range
          <5>2. j \in 1 .. i - 1 /\ u[j] = y
            BY <1>2, <3>1, <5>1
          <5> QED BY <5>2
        <4>2. CASE \E j \in 1 .. k - 1 : t[j] = y
          <5>1. PICK j \in 1 .. k - 1 : t[j] = y
            BY <4>2
          <5>2. j \in 1 .. n /\ m + j \in 1 .. i - 1
            BY <1>2, <3>1, <5>1
          <5> QED BY <1>2, <5>1, <5>2
        <4> QED BY <1>1, <3>2, <4>1, <4>2 DEF InOrderAfter
      <3> QED BY <3>2, <3>3
    <2> QED BY <2>1, <2>2
  <1> QED BY <1>1, <1>3 DEF InOrder

-----------------------------------------------------------------------------
(* The constants.                                                          *)

\* What the smallest or largest of finitely many values is.
LEMMA FirstBy ==
  ASSUME NEW S, S # {}, NEW f, \A x \in S : f[x] \in Nat
  PROVE  \E x \in S : \A y \in S : f[x] <= f[y]
  <1>1. PICK a \in S : TRUE
    OBVIOUS
  <1>2. PICK k \in Nat : k = f[a]
    BY <1>1
  <1>3. PICK V \in SUBSET (0 .. k) : V = {v \in 0 .. k : \E x \in S : f[x] = v}
    OBVIOUS
  <1>4. k \in V
    BY <1>2, <1>3
  <1>5. PICK v \in V : \A w \in V : v <= w
    BY <1>4, FirstOne
  <1>6. v \in 0 .. k /\ \E x \in S : f[x] = v
    BY <1>3, <1>5
  <1>7. PICK x \in S : f[x] = v
    BY <1>6
  <1>8. ASSUME NEW y \in S PROVE f[x] <= f[y]
    <2>1. CASE f[y] <= k
      <3>1. f[y] \in V
        BY <1>3, <2>1
      <3> QED BY <1>5, <1>7, <3>1
    <2>2. CASE ~ (f[y] <= k)
      <3>1. v <= k /\ v \in Nat /\ f[y] \in Nat
        BY <1>6
      <3> QED BY ONLY <1>7, <2>2, <3>1, <1>2
    <2> QED BY <2>1, <2>2
  <1> QED BY <1>8

LEMMA LastBy ==
  ASSUME NEW S, IsFiniteSet(S), S # {}, NEW f, \A x \in S : f[x] \in Nat
  PROVE  \E x \in S : \A y \in S : f[y] <= f[x]
  <1>1. PICK g : g = [x \in S |-> f[x]]
    OBVIOUS
  <1>2. DOMAIN g = S /\ \A x \in S : g[x] = f[x] /\ g[x] \in Nat
    BY <1>1
  <1>3. PICK k \in Nat : k = SumFunction(g)
    BY <1>2, SumNat
  <1>4. ASSUME NEW x \in S PROVE f[x] \in 0 .. k
    <2>1. g[x] <= SumFunction(g)
      BY <1>2, SumAtLeast
    <2> QED BY <1>2, <1>3, <2>1
  <1>5. PICK V \in SUBSET (0 .. k) : V = {v \in 0 .. k : \E x \in S : f[x] = v}
    OBVIOUS
  <1>6. \A x \in S : f[x] \in V
    BY <1>4, <1>5
  <1>7. PICK v \in V : \A w \in V : w <= v
    <2>1. V # {}
      BY <1>6
    <2> QED BY <2>1, LastOne
  <1>8. PICK x \in S : f[x] = v
    BY <1>5, <1>7
  <1> QED BY <1>6, <1>7, <1>8

\* A node has a higher rank than what it refers to.
Ranked(rank) ==
  /\ rank \in [Hashes -> 0 .. Cardinality(Hashes)]
  /\ \A h \in Hashes : \A x \in References(h) : rank[x] < rank[h]

LEMMA RankExists == \E rank : Ranked(rank)
  BY RankAssumption DEF Ranked

LEMMA HashFacts ==
  /\ IsFiniteSet(Hashes) /\ Cardinality(Hashes) \in Nat
  /\ NoHash \notin Hashes /\ IsFiniteSet(OrNone)
  /\ Roots \subseteq Hashes /\ IsFiniteSet(Roots)
  <1>1. IsFiniteSet(Hashes) /\ NoHash \notin Hashes /\ Roots \subseteq Hashes
    BY HashAssumption DEF NoHash
  <1>2. IsFiniteSet(OrNone)
    BY <1>1, FS_AddElement DEF OrNone
  <1> QED BY <1>1, <1>2, FS_CardinalityType, FS_Subset

LEMMA RefFacts ==
  ASSUME NEW h \in Hashes
  PROVE  /\ Kids[h] \in Seq(Hashes) /\ Ext[h] \subseteq Roots /\ IsFiniteSet(Ext[h])
         /\ Range(Kids[h]) \subseteq References(h) /\ Ext[h] \subseteq References(h)
         /\ References(h) \subseteq Hashes /\ h \notin References(h)
         /\ Size[h] \in Nat
  <1>1. Kids[h] \in Seq(Hashes) /\ Ext[h] \subseteq Roots /\ Size[h] \in Nat
    BY NodeAssumption
  <1>2. IsFiniteSet(Ext[h])
    BY <1>1, HashFacts, FS_Subset
  <1>3. Range(Kids[h]) \subseteq References(h) /\ Ext[h] \subseteq References(h)
    BY DEF References
  <1>4. Range(Kids[h]) \subseteq Hashes
    BY <1>1 DEF Range
  <1>5. References(h) \subseteq Hashes
    BY <1>1, <1>4, HashFacts DEF References
  <1>6. h \notin References(h)
    <2>1. PICK rank : Ranked(rank)
      BY RankExists
    <2>2. rank[h] \in 0 .. Cardinality(Hashes) /\ \A x \in References(h) : rank[x] < rank[h]
      BY <2>1 DEF Ranked
    <2>3. Cardinality(Hashes) \in Nat
      BY HashFacts
    <2>4. PICK v, c : v = rank[h] /\ c = Cardinality(Hashes)
      OBVIOUS
    <2>5. ~ (v < v)
      BY ONLY <2>2, <2>3, <2>4
    <2> QED BY <2>2, <2>4, <2>5
  <1> QED BY <1>1, <1>2, <1>3, <1>5, <1>6

LEMMA BelowFacts ==
  ASSUME NEW h \in Hashes
  PROVE  /\ Below(h) \subseteq Hashes /\ h \in Below(h)
         /\ \A p \in Below(h) : References(p) \subseteq Below(h)
         /\ \A S \in SUBSET Hashes :
              h \in S /\ (\A p \in S : References(p) \subseteq S) => Below(h) \subseteq S
  <1>1. Below(h) = {x \in Hashes : \A S \in SUBSET Hashes :
                       h \in S /\ (\A p \in S : References(p) \subseteq S) => x \in S}
    BY DEF Below, BelowOf
  <1>2. ASSUME NEW p \in Below(h), NEW x \in References(p) PROVE x \in Below(h)
    <2>1. x \in Hashes
      BY <1>1, RefFacts
    <2> QED BY <1>1, <2>1
  <1> QED BY <1>1, <1>2

\* The tries that leaves refer to refer to no others.
LEMMA ExtFacts ==
  ASSUME NEW h \in Hashes, NEW x \in Ext[h], NEW y \in Below(x)
  PROVE  Ext[y] = {}
  BY LeafAssumption

LEMMA KeyFacts == Keys \cap Hashes = {}
  BY KeyAssumption DEF Keys

-----------------------------------------------------------------------------
(* Counting.                                                               *)

\* Positions in the first and in the second of two sequences.
Shifted(A, m, B) == A \cup {m + b : b \in B}

LEMMA ShiftCount ==
  ASSUME NEW m \in Nat, NEW n \in Nat, NEW A \in SUBSET (1 .. m), NEW B \in SUBSET (1 .. n)
  PROVE  /\ Cardinality(Shifted(A, m, B)) = Cardinality(A) + Cardinality(B)
         /\ Cardinality(A) \in Nat /\ Cardinality(B) \in Nat
  <1>1. IsFiniteSet(A) /\ IsFiniteSet(B)
    BY OneTo, FS_Subset
  <1>2. PICK D : D = {m + b : b \in B}
    OBVIOUS
  <1>3. IsFiniteSet(D) /\ Cardinality(D) = Cardinality(B)
    <2>1. PICK f : f = [b \in B |-> m + b]
      OBVIOUS
    <2>2. f \in [B -> D] /\ \A y \in D : \E b \in B : f[b] = y
      BY <1>2, <2>1
    <2>3. ASSUME NEW b \in B, NEW c \in B, f[b] = f[c] PROVE b = c
      <3>1. b \in Nat /\ c \in Nat
        OBVIOUS
      <3>2. m + b = m + c
        BY <2>1, <2>3
      <3> QED BY ONLY <3>1, <3>2, m \in Nat
    <2>4. f \in Bijection(B, D)
      BY <2>2, <2>3 DEF Bijection, Injection, Surjection, IsInjective
    <2>5. ExistsBijection(B, D)
      BY <2>4 DEF ExistsBijection
    <2> QED BY <1>1, <2>5, FS_Bijection
  <1>4. A \cap D = {}
    <2>1. \A x \in A : x <= m /\ x \in Nat
      OBVIOUS
    <2>2. \A x \in D : x > m /\ x \in Nat
      BY <1>2
    <2> QED BY <2>1, <2>2
  <1>5. Cardinality(A \cap D) = 0
    BY <1>4, FS_EmptySet
  <1>6. Cardinality(A \cup D) = Cardinality(A) + Cardinality(D) - Cardinality(A \cap D)
    BY <1>1, <1>3, FS_Union
  <1>7. Cardinality(A) \in Nat /\ Cardinality(B) \in Nat
    BY <1>1, FS_CardinalityType
  <1> QED BY <1>2, <1>3, <1>5, <1>6, <1>7 DEF Shifted

LEMMA OccurrencesNat ==
  ASSUME NEW s, NEW n \in Nat, DOMAIN s = 1 .. n, NEW x
  PROVE  /\ Occurrences(s, x) \in Nat
         /\ Occurrences(s, x) = 0 <=> x \notin Range(s)
  <1>1. PICK A : A = {i \in DOMAIN s : s[i] = x}
    OBVIOUS
  <1>2. IsFiniteSet(A) /\ Occurrences(s, x) = Cardinality(A)
    BY <1>1, OneTo, FS_Subset DEF Occurrences
  <1>3. Cardinality(A) \in Nat /\ (Cardinality(A) = 0 <=> A = {})
    BY <1>2, FS_CardinalityType, FS_EmptySet
  <1>4. A = {} <=> x \notin Range(s)
    BY <1>1 DEF Range
  <1> QED BY <1>2, <1>3, <1>4

LEMMA OccurrencesConcat ==
  ASSUME NEW X, NEW s \in Seq(X), NEW t \in Seq(X), NEW x
  PROVE  Occurrences(s \o t, x) = Occurrences(s, x) + Occurrences(t, x)
  <1>1. PICK u, m, n : u = s \o t /\ m = Len(s) /\ n = Len(t)
    OBVIOUS
  <1>2. /\ m \in Nat /\ n \in Nat /\ DOMAIN u = 1 .. m + n
        /\ DOMAIN s = 1 .. m /\ DOMAIN t = 1 .. n
        /\ \A i \in 1 .. m : u[i] = s[i]
        /\ \A i \in 1 .. n : u[m + i] = t[i]
    BY <1>1, ConcatFacts
  <1>3. PICK A, B, C : /\ A = {i \in 1 .. m : s[i] = x} /\ B = {i \in 1 .. n : t[i] = x}
                       /\ C = {i \in 1 .. m + n : u[i] = x}
    OBVIOUS
  <1>4. C = Shifted(A, m, B)
    <2>1. ASSUME NEW i \in C PROVE i \in A \cup {m + b : b \in B}
      <3>1. CASE i \in 1 .. m
        BY <1>2, <1>3, <3>1
      <3>2. CASE i \notin 1 .. m
        <4>1. i - m \in 1 .. n /\ i = m + (i - m)
          BY <1>2, <1>3, <3>2
        <4>2. i - m \in B
          BY <1>2, <1>3, <4>1
        <4> QED BY <4>1, <4>2
      <3> QED BY <3>1, <3>2
    <2>2. ASSUME NEW i \in A PROVE i \in C
      BY <1>2, <1>3
    <2>3. ASSUME NEW b \in B PROVE m + b \in C
      BY <1>2, <1>3
    <2> QED BY <2>1, <2>2, <2>3 DEF Shifted
  <1>5. Cardinality(C) = Cardinality(A) + Cardinality(B)
    <2>1. A \in SUBSET (1 .. m) /\ B \in SUBSET (1 .. n) /\ m \in Nat /\ n \in Nat
      BY <1>2, <1>3
    <2>2. Cardinality(Shifted(A, m, B)) = Cardinality(A) + Cardinality(B)
      BY <2>1, ShiftCount
    <2> QED BY <1>4, <2>2
  <1> QED BY <1>1, <1>2, <1>3, <1>5 DEF Occurrences

LEMMA OccurrencesOnce ==
  ASSUME NEW S, IsFiniteSet(S), NEW x
  PROVE  Occurrences(SetToSeq(S), x) = IF x \in S THEN 1 ELSE 0
  <1>1. PICK q, n : q = SetToSeq(S) /\ n = Cardinality(S)
    OBVIOUS
  <1>2. /\ n \in Nat /\ DOMAIN q = 1 .. n
        /\ \A i \in 1 .. n : q[i] \in S
        /\ \A s \in S : \E i \in 1 .. n : q[i] = s
        /\ \A i, j \in 1 .. n : q[i] = q[j] => i = j
    BY <1>1, SetToSeqFacts
  <1>3. PICK A : A = {i \in 1 .. n : q[i] = x}
    OBVIOUS
  <1>4. Occurrences(q, x) = Cardinality(A)
    BY <1>2, <1>3 DEF Occurrences
  <1>5. CASE x \in S
    <2>1. PICK i \in 1 .. n : q[i] = x
      BY <1>2, <1>5
    <2>2. A = {i}
      BY <1>2, <1>3, <2>1
    <2> QED BY <1>1, <1>4, <1>5, <2>2, FS_Singleton
  <1>6. CASE x \notin S
    <2>1. A = {}
      BY <1>2, <1>3, <1>6
    <2> QED BY <1>1, <1>4, <1>6, <2>1, FS_EmptySet
  <1> QED BY <1>5, <1>6

\* The calls on a stack for one node.
Pending(stack, h) ==
  Cardinality({i \in DOMAIN stack : stack[i].op = "call" /\ stack[i].child = h})

LEMMA PendingNat ==
  ASSUME NEW X, NEW s \in Seq(X), NEW h
  PROVE  /\ Pending(s, h) \in Nat
         /\ (\A i \in 1 .. Len(s) : ~ (s[i].op = "call" /\ s[i].child = h)) => Pending(s, h) = 0
  <1>1. PICK A : A = {i \in DOMAIN s : s[i].op = "call" /\ s[i].child = h}
    OBVIOUS
  <1>2. Len(s) \in Nat /\ DOMAIN s = 1 .. Len(s)
    BY LenProperties
  <1>3. IsFiniteSet(A) /\ Pending(s, h) = Cardinality(A)
    BY <1>1, <1>2, OneTo, FS_Subset DEF Pending
  <1>4. Cardinality(A) \in Nat /\ (A = {} => Cardinality(A) = 0)
    BY <1>3, FS_CardinalityType, FS_EmptySet
  <1> QED BY <1>1, <1>2, <1>3, <1>4

LEMMA PendingConcat ==
  ASSUME NEW X, NEW s \in Seq(X), NEW t \in Seq(X), NEW h
  PROVE  Pending(s \o t, h) = Pending(s, h) + Pending(t, h)
  <1> DEFINE Is(e) == e.op = "call" /\ e.child = h
  <1>1. PICK u, m, n : u = s \o t /\ m = Len(s) /\ n = Len(t)
    OBVIOUS
  <1>2. /\ m \in Nat /\ n \in Nat /\ DOMAIN u = 1 .. m + n
        /\ DOMAIN s = 1 .. m /\ DOMAIN t = 1 .. n
        /\ \A i \in 1 .. m : u[i] = s[i]
        /\ \A i \in 1 .. n : u[m + i] = t[i]
    BY <1>1, ConcatFacts
  <1>3. PICK A, B, C : /\ A = {i \in 1 .. m : Is(s[i])} /\ B = {i \in 1 .. n : Is(t[i])}
                       /\ C = {i \in 1 .. m + n : Is(u[i])}
    OBVIOUS
  <1>4. C = Shifted(A, m, B)
    <2>1. ASSUME NEW i \in C PROVE i \in A \cup {m + b : b \in B}
      <3>1. CASE i \in 1 .. m
        BY <1>2, <1>3, <3>1
      <3>2. CASE i \notin 1 .. m
        <4>1. i - m \in 1 .. n /\ i = m + (i - m)
          BY <1>2, <1>3, <3>2
        <4>2. i - m \in B
          BY <1>2, <1>3, <4>1
        <4> QED BY <4>1, <4>2
      <3> QED BY <3>1, <3>2
    <2>2. ASSUME NEW i \in A PROVE i \in C
      BY <1>2, <1>3
    <2>3. ASSUME NEW b \in B PROVE m + b \in C
      BY <1>2, <1>3
    <2> QED BY <2>1, <2>2, <2>3 DEF Shifted
  <1>5. Cardinality(C) = Cardinality(A) + Cardinality(B)
    <2>1. A \in SUBSET (1 .. m) /\ B \in SUBSET (1 .. n) /\ m \in Nat /\ n \in Nat
      BY <1>2, <1>3
    <2>2. Cardinality(Shifted(A, m, B)) = Cardinality(A) + Cardinality(B)
      BY <2>1, ShiftCount
    <2> QED BY <1>4, <2>2
  <1> QED BY <1>1, <1>2, <1>3, <1>5 DEF Pending

\* A list of calls has one for each mention of a node.
LEMMA PendingCalls ==
  ASSUME NEW s \in Seq(Hashes), NEW p, NEW h
  PROVE  Pending(Calls(s, p), h) = Occurrences(s, h)
  <1>1. PICK c : c = Calls(s, p)
    OBVIOUS
  <1>2. DOMAIN c = DOMAIN s /\ \A i \in DOMAIN s : c[i].op = "call" /\ c[i].child = s[i]
    BY <1>1 DEF Calls, Call
  <1>3. {i \in DOMAIN c : c[i].op = "call" /\ c[i].child = h} = {i \in DOMAIN s : s[i] = h}
    BY <1>2
  <1> QED BY <1>1, <1>3 DEF Pending, Occurrences

\* A sum of nothing but zeros.
LEMMA SumZero ==
  ASSUME NEW S, IsFiniteSet(S), NEW f, DOMAIN f = S, \A x \in S : f[x] = 0
  PROVE  SumFunction(f) = 0
  <1>1. PICK g : IsSum(f, S, g) /\ SumFunction(f) = g[S]
    BY SumIs
  <1>2. PICK n \in Nat : n = Cardinality(S)
    BY FS_CardinalityType
  <1>3. PICK B \in SUBSET (0 .. n) :
               B = {k \in 0 .. n : \E T \in SUBSET S : Cardinality(T) = k /\ g[T] # 0}
    OBVIOUS
  <1>4. ASSUME B # {} PROVE FALSE
    <2>1. PICK k \in B : \A j \in B : k <= j
      BY <1>4, FirstOne
    <2>2. PICK T \in SUBSET S : Cardinality(T) = k /\ g[T] # 0
      BY <1>3, <2>1
    <2>3. g[T] = IF T = {} THEN 0 ELSE f[Pick(T)] + g[T \ {Pick(T)}]
      BY <1>1 DEF IsSum
    <2>4. T # {}
      BY <2>2, <2>3
    <2>5. /\ Cardinality(T) \in Nat /\ Cardinality(T) <= Cardinality(S)
          /\ T = {} <=> Cardinality(T) = 0
          /\ \A x \in T : /\ T \ {x} \in SUBSET S
                         /\ Cardinality(T \ {x}) = Cardinality(T) - 1
          /\ T # {} => Pick(T) \in T
      BY PartFacts
    <2>6. PICK P : P = T \ {Pick(T)}
      OBVIOUS
    <2>7. P \in SUBSET S /\ Cardinality(P) = k - 1 /\ Pick(T) \in S
      BY <2>2, <2>4, <2>5, <2>6
    <2>8. k - 1 \in 0 .. n /\ k - 1 < k
      BY <1>2, <2>2, <2>4, <2>5
    <2>9. k - 1 \notin B
      BY <2>1, <2>8
    <2>10. g[P] = 0
      BY <1>3, <2>7, <2>8, <2>9
    <2> QED BY <2>2, <2>3, <2>4, <2>6, <2>7, <2>10
  <1>5. Cardinality(S) \in 0 .. n
    BY <1>2
  <1>6. g[S] = 0
    BY <1>3, <1>4, <1>5
  <1> QED BY <1>1, <1>6

-----------------------------------------------------------------------------
(* The order in which a trie is stored.                                    *)

\* One behind the other, the sequences of q are in order: what a member needs
\* comes before it in its sequence or in an earlier one.
Blocks(q, U, C) ==
  \A k \in 1 .. Len(q) : \A i \in 1 .. Len(q[k]) :
    /\ q[k][i] \in U
    /\ \A y \in C[q[k][i]] \cap U : \/ \E b \in 1 .. k - 1 : y \in Range(q[b])
                                    \/ \E j \in 1 .. i - 1 : q[k][j] = y

\* s is made of the first k sequences of q.
Prefix(s, q, k, X, U, C) ==
  /\ s \in Seq(X) /\ InOrder(s, U, C)
  /\ \A b \in 1 .. k : Range(q[b]) \subseteq Range(s)
  /\ \A y \in Range(s) : \E b \in 1 .. k : y \in Range(q[b])

LEMMA FlattenInOrder ==
  ASSUME NEW X, NEW q \in Seq(Seq(X)), NEW U, NEW C, Blocks(q, U, C)
  PROVE  Prefix(FlattenSeq(q), q, Len(q), X, U, C)
  <1>1. PICK L : L = Len(q)
    OBVIOUS
  <1>2. L \in Nat /\ \A k \in 1 .. L : q[k] \in Seq(X)
    BY <1>1, LenProperties, ElementOfSeq
  <1>3. PICK j : /\ j[0] = << >>
                 /\ \A k \in 1 .. L : j[k] = j[k - 1] \o q[k]
                 /\ j[L] = FlattenSeq(q)
    BY <1>1, FlattenGrows
  <1>4. PICK B \in SUBSET (0 .. L) : B = {k \in 0 .. L : ~ Prefix(j[k], q, k, X, U, C)}
    OBVIOUS
  <1>5. ASSUME B # {} PROVE FALSE
    <2>1. PICK k \in B : \A i \in B : k <= i
      BY <1>2, <1>5, FirstOne
    <2>2. k \in 0 .. L /\ ~ Prefix(j[k], q, k, X, U, C)
      BY <1>4, <2>1
    <2>3. k # 0
      <3>1. Prefix(<< >>, q, 0, X, U, C)
        <4>1. DOMAIN << >> = {} /\ << >> \in Seq(X)
          OBVIOUS
        <4> QED BY <4>1 DEF Prefix, InOrder, Range
      <3> QED BY <1>3, <2>2, <3>1
    <2>4. k - 1 \in 0 .. L /\ k - 1 < k /\ k \in 1 .. L
      BY <1>2, <2>2, <2>3
    <2>5. k - 1 \notin B
      BY <2>1, <2>4
    <2>6. PICK s, t : s = j[k - 1] /\ t = q[k]
      OBVIOUS
    <2>7. Prefix(s, q, k - 1, X, U, C)
      BY <1>4, <2>4, <2>5, <2>6
    <2>8. s \in Seq(X) /\ t \in Seq(X) /\ InOrder(s, U, C)
      BY <1>2, <2>4, <2>6, <2>7 DEF Prefix
    <2>9. ASSUME NEW i \in 1 .. Len(t)
          PROVE  /\ t[i] \in U
                 /\ \A y \in C[t[i]] \cap U : y \in Range(s) \/ \E n \in 1 .. i - 1 : t[n] = y
      <3>1. /\ t[i] \in U
            /\ \A y \in C[t[i]] \cap U : \/ \E b \in 1 .. k - 1 : y \in Range(q[b])
                                         \/ \E n \in 1 .. i - 1 : t[n] = y
        <4>1. k \in 1 .. Len(q) /\ i \in 1 .. Len(q[k])
          BY <1>1, <2>4, <2>6
        <4>2. /\ q[k][i] \in U
              /\ \A y \in C[q[k][i]] \cap U : \/ \E b \in 1 .. k - 1 : y \in Range(q[b])
                                              \/ \E n \in 1 .. i - 1 : q[k][n] = y
          BY <4>1 DEF Blocks
        <4> QED BY <2>6, <4>2
      <3>2. \A b \in 1 .. k - 1 : Range(q[b]) \subseteq Range(s)
        BY <2>7 DEF Prefix
      <3> QED BY <3>1, <3>2
    <2>10. InOrder(s \o t, U, C)
      <3>1. InOrderAfter(s, t, U, C)
        BY <2>9 DEF InOrderAfter
      <3> QED BY <2>8, <3>1, InOrderAppend
    <2>11. s \o t \in Seq(X) /\ Range(s \o t) = Range(s) \cup Range(t)
      BY <2>8, ConcatRange
    <2>12. ASSUME NEW b \in 1 .. k PROVE Range(q[b]) \subseteq Range(s \o t)
      <3>1. b \in 1 .. k - 1 \/ b = k
        BY <2>4
      <3> QED BY <2>6, <2>7, <2>11, <3>1 DEF Prefix
    <2>13. ASSUME NEW y \in Range(s \o t) PROVE \E b \in 1 .. k : y \in Range(q[b])
      <3>1. CASE y \in Range(s)
        <4>1. PICK b \in 1 .. k - 1 : y \in Range(q[b])
          BY <2>7, <3>1 DEF Prefix
        <4>2. b \in 1 .. k
          BY <2>4, <4>1
        <4> QED BY <4>1, <4>2
      <3>2. CASE y \in Range(t)
        <4>1. k \in 1 .. k
          BY <2>4
        <4> QED BY <2>6, <3>2, <4>1
      <3> QED BY <2>11, <3>1, <3>2
    <2>14. j[k] = s \o t
      BY <1>3, <2>4, <2>6
    <2> QED BY <2>2, <2>10, <2>11, <2>12, <2>13, <2>14 DEF Prefix
  <1>6. L \in 0 .. L
    BY <1>2
  <1> QED BY <1>1, <1>3, <1>4, <1>5, <1>6

\* What postorder makes of x when f says what it makes of the others.
PostOf(S, kids, f, x) ==
  IF x \notin S THEN << >>
  ELSE FlattenSeq([i \in DOMAIN kids[x] |-> f[kids[x][i]]]) \o <<x>>

Postordered(S, kids, f) == f = [x \in Hashes |-> PostOf(S, kids, f, x)]

\* The nodes that kids names are inside the node, or its leaf's.
Inside(S, kids) ==
  \A x \in S : kids[x] \in Seq(Hashes) /\ Range(kids[x]) \subseteq References(x)

LEMMA PostExists ==
  ASSUME NEW S, S \subseteq Hashes, NEW kids, Inside(S, kids)
  PROVE  \E f : Postordered(S, kids, f)
  <1>1. PICK rank : Ranked(rank)
    BY RankExists
  <1>2. PICK N \in Nat : N = Cardinality(Hashes) + 1
    BY HashFacts
  <1>3. \A x \in Hashes : rank[x] \in Nat /\ rank[x] < N
    BY <1>1, <1>2, HashFacts DEF Ranked
  <1> DEFINE Upto(n, f) == \A x \in Hashes : rank[x] < n => f[x] = PostOf(S, kids, f, x)
  <1>4. PICK B \in SUBSET (0 .. N) : B = {n \in 0 .. N : ~ \E f : Upto(n, f)}
    OBVIOUS
  <1>5. ASSUME B # {} PROVE FALSE
    <2>1. PICK n \in B : \A i \in B : n <= i
      BY <1>5, FirstOne
    <2>2. n \in 0 .. N /\ ~ \E f : Upto(n, f)
      BY <1>4, <2>1
    <2>3. n # 0
      <3>1. \A f : Upto(0, f)
        BY <1>3
      <3> QED BY <2>2, <3>1
    <2>4. n - 1 \in 0 .. N /\ n - 1 < n
      BY <2>2, <2>3
    <2>5. n - 1 \notin B
      BY <2>1, <2>4
    <2>6. PICK f : Upto(n - 1, f)
      BY <1>4, <2>4, <2>5
    <2>7. PICK g : g = [x \in Hashes |-> PostOf(S, kids, f, x)]
      OBVIOUS
    <2>8. ASSUME NEW x \in Hashes, rank[x] < n PROVE g[x] = PostOf(S, kids, g, x)
      <3>1. CASE x \notin S
        BY <2>7, <3>1 DEF PostOf
      <3>2. CASE x \in S
        <4>1. ASSUME NEW i \in DOMAIN kids[x] PROVE g[kids[x][i]] = f[kids[x][i]]
          <5>1. PICK y : y = kids[x][i]
            OBVIOUS
          <5>2. y \in Hashes /\ y \in References(x)
            BY <3>2, <5>1, ElementOfSeq DEF Inside, Range
          <5>3. rank[y] < rank[x]
            BY <1>1, <5>2 DEF Ranked
          <5>4. rank[y] < n - 1
            BY <1>3, <2>2, <2>8, <5>2, <5>3
          <5> QED BY <2>6, <2>7, <5>1, <5>2, <5>4
        <4>2. [i \in DOMAIN kids[x] |-> g[kids[x][i]]] = [i \in DOMAIN kids[x] |-> f[kids[x][i]]]
          BY <4>1
        <4> QED BY <2>7, <3>2, <4>2 DEF PostOf
      <3> QED BY <3>1, <3>2
    <2> QED BY <2>2, <2>8
  <1>6. N \in 0 .. N
    OBVIOUS
  <1>7. PICK f : Upto(N, f)
    BY <1>4, <1>5, <1>6
  <1>8. \A x \in Hashes : f[x] = PostOf(S, kids, f, x)
    BY <1>3, <1>7
  <1>9. PICK g : g = [x \in Hashes |-> f[x]]
    OBVIOUS
  <1>10. ASSUME NEW x \in Hashes PROVE g[x] = PostOf(S, kids, g, x)
    <2>1. CASE x \notin S
      BY <1>8, <1>9, <2>1 DEF PostOf
    <2>2. CASE x \in S
      <3>1. ASSUME NEW i \in DOMAIN kids[x] PROVE kids[x][i] \in Hashes
        BY <2>2, ElementOfSeq DEF Inside
      <3>2. [i \in DOMAIN kids[x] |-> g[kids[x][i]]] = [i \in DOMAIN kids[x] |-> f[kids[x][i]]]
        BY <1>9, <3>1
      <3> QED BY <1>8, <1>9, <2>2, <3>2 DEF PostOf
    <2> QED BY <2>1, <2>2
  <1> QED BY <1>9, <1>10 DEF Postordered

LEMMA PostorderIs ==
  ASSUME NEW S, S \subseteq Hashes, NEW kids, Inside(S, kids)
  PROVE  \E f : Postordered(S, kids, f) /\ \A h : postorder(S, kids, h) = f[h]
  <1>1. PICK f : f = CHOOSE g : g = [x \in Hashes |->
                   IF x \notin S THEN << >>
                   ELSE FlattenSeq([i \in DOMAIN kids[x] |-> g[kids[x][i]]]) \o <<x>>]
    OBVIOUS
  <1>2. \E g : Postordered(S, kids, g)
    BY PostExists
  <1>3. Postordered(S, kids, f)
    BY <1>1, <1>2 DEF Postordered, PostOf
  <1>4. \A h : postorder(S, kids, h) = f[h]
    BY <1>1 DEF postorder
  <1> QED BY <1>3, <1>4


\* What postorder gives for x.
PostFacts(S, kids, s, x) ==
  /\ s \in Seq(Hashes)
  /\ InOrder(s, S, [y \in S |-> Range(kids[y])])
  /\ Range(s) \subseteq Below(x)
  /\ x \in S => x \in Range(s)

LEMMA PostorderFacts ==
  ASSUME NEW S, S \subseteq Hashes, NEW kids, Inside(S, kids),
         NEW f, Postordered(S, kids, f), NEW h \in Hashes
  PROVE  PostFacts(S, kids, f[h], h)
  <1>1. PICK rank : Ranked(rank)
    BY RankExists
  <1>2. \A x \in Hashes : rank[x] \in Nat
    BY <1>1 DEF Ranked
  <1>3. PICK B \in SUBSET Hashes : B = {x \in Hashes : ~ PostFacts(S, kids, f[x], x)}
    OBVIOUS
  <1>4. ASSUME B # {} PROVE FALSE
    <2>1. PICK x \in B : \A y \in B : rank[x] <= rank[y]
      BY <1>2, <1>4, FirstBy
    <2>2. x \in Hashes /\ ~ PostFacts(S, kids, f[x], x)
      BY <1>3, <2>1
    <2>3. ASSUME NEW y \in References(x) PROVE y \in Hashes /\ PostFacts(S, kids, f[y], y)
      <3>1. y \in Hashes /\ rank[y] < rank[x] /\ rank[x] \in Nat /\ rank[y] \in Nat
        BY <1>1, <1>2, <2>2, RefFacts DEF Ranked
      <3>2. y \notin B
        BY <2>1, <3>1
      <3> QED BY <1>3, <3>1, <3>2
    <2>4. f[x] = PostOf(S, kids, f, x)
      BY <2>2 DEF Postordered
    <2>5. CASE x \notin S
      <3>1. f[x] = << >>
        BY <2>4, <2>5 DEF PostOf
      <3>2. << >> \in Seq(Hashes) /\ DOMAIN << >> = {}
        OBVIOUS
      <3>3. PostFacts(S, kids, << >>, x)
        BY <2>5, <3>2 DEF PostFacts, InOrder, Range
      <3> QED BY <2>2, <3>1, <3>3
    <2>6. CASE x \in S
      <3>1. PICK k : k = kids[x]
        OBVIOUS
      <3>2. /\ k \in Seq(Hashes) /\ \A i \in DOMAIN k : k[i] \in References(x)
            /\ Len(k) \in Nat /\ DOMAIN k = 1 .. Len(k)
        BY <2>6, <3>1, LenProperties DEF Inside, Range
      <3>3. PICK q : q = [i \in DOMAIN k |-> f[k[i]]]
        OBVIOUS
      <3>4. /\ q \in Seq(Seq(Hashes)) /\ Len(q) = Len(k)
            /\ \A i \in 1 .. Len(k) : q[i] = f[k[i]] /\ PostFacts(S, kids, f[k[i]], k[i])
        <4>1. \A i \in 1 .. Len(k) : q[i] = f[k[i]] /\ PostFacts(S, kids, f[k[i]], k[i])
          BY <2>3, <3>2, <3>3
        <4>2. \A i \in 1 .. Len(k) : q[i] \in Seq(Hashes)
          BY <4>1 DEF PostFacts
        <4>3. DOMAIN q = 1 .. Len(k)
          BY <3>2, <3>3
        <4>4. q \in [1 .. Len(k) -> Seq(Hashes)]
          BY <3>2, <3>3, <4>2, <4>3
        <4>5. q \in Seq(Seq(Hashes))
          BY <3>2, <4>4, SeqDef
        <4>6. Len(q) = Len(k)
          BY <3>2, <4>3, <4>5, LenProperties
        <4> QED BY <4>1, <4>5, <4>6
      <3>5. PICK C : C = [y \in S |-> Range(kids[y])]
        OBVIOUS
      <3>6. Blocks(q, S, C)
        <4>1. ASSUME NEW n \in 1 .. Len(q), NEW i \in 1 .. Len(q[n])
              PROVE  /\ q[n][i] \in S
                     /\ \A y \in C[q[n][i]] \cap S : \E j \in 1 .. i - 1 : q[n][j] = y
          <5>1. PICK t : t = q[n]
            OBVIOUS
          <5>2. InOrder(t, S, C) /\ t \in Seq(Hashes)
            BY <3>4, <3>5, <5>1 DEF PostFacts
          <5>3. i \in DOMAIN t
            BY <5>1, <5>2, LenProperties
          <5>4. t[i] \in S /\ \A y \in C[t[i]] \cap S : \E j \in 1 .. i - 1 : t[j] = y
            BY <5>2, <5>3 DEF InOrder
          <5> QED BY <5>1, <5>4
        <4> QED BY <4>1 DEF Blocks
      <3>7. PICK s : s = FlattenSeq(q)
        OBVIOUS
      <3>8. Prefix(s, q, Len(q), Hashes, S, C)
        BY <3>4, <3>6, <3>7, FlattenInOrder
      <3>9. s \in Seq(Hashes) /\ InOrder(s, S, C)
        BY <3>8 DEF Prefix
      <3>10. PICK t : t = <<x>>
        OBVIOUS
      <3>11. t \in Seq(Hashes) /\ Len(t) = 1 /\ t[1] = x /\ Range(t) = {x}
        <4>1. DOMAIN t = {1} /\ t[1] = x /\ t \in Seq(Hashes) /\ Len(t) = 1
          BY <2>2, <3>10
        <4> QED BY <4>1 DEF Range
      <3>12. InOrderAfter(s, t, S, C)
        <4>1. ASSUME NEW y \in C[x] \cap S PROVE y \in Range(s)
          <5>1. PICK i \in 1 .. Len(k) : k[i] = y
            BY <2>6, <3>1, <3>2, <3>5 DEF Range
          <5>2. y \in Range(q[i])
            BY <3>4, <5>1 DEF PostFacts
          <5> QED BY <3>4, <3>8, <5>1, <5>2 DEF Prefix
        <4>2. \A i \in 1 .. Len(t) : i = 1
          BY <3>11
        <4> QED BY <2>6, <3>11, <4>1, <4>2 DEF InOrderAfter
      <3>13. PICK u : u = s \o t
        OBVIOUS
      <3>14. u \in Seq(Hashes) /\ Range(u) = Range(s) \cup Range(t)
        BY <3>9, <3>11, <3>13, ConcatRange
      <3>15. InOrder(u, S, C)
        BY <3>9, <3>11, <3>12, <3>13, InOrderAppend
      <3>16. Range(s) \subseteq Below(x)
        <4>1. ASSUME NEW y \in Range(s) PROVE y \in Below(x)
          <5>1. PICK i \in 1 .. Len(k) : y \in Range(q[i])
            BY <3>4, <3>8 DEF Prefix
          <5>2. y \in Below(k[i]) /\ k[i] \in References(x) /\ k[i] \in Hashes
            BY <2>2, <3>2, <3>4, <5>1, RefFacts DEF PostFacts
          <5>3. x \in Below(x) /\ References(x) \subseteq Below(x) /\ Below(x) \in SUBSET Hashes
            BY <2>2, BelowFacts
          <5>4. k[i] \in Below(x) /\ \A p \in Below(x) : References(p) \subseteq Below(x)
            BY <2>2, <5>2, <5>3, BelowFacts
          <5>5. Below(k[i]) \subseteq Below(x)
            BY <5>2, <5>3, <5>4, BelowFacts
          <5> QED BY <5>2, <5>5
        <4> QED BY <4>1
      <3>17. x \in Below(x)
        BY <2>2, BelowFacts
      <3>18. f[x] = u
        BY <2>4, <2>6, <3>1, <3>3, <3>7, <3>10, <3>13 DEF PostOf
      <3> QED BY <2>2, <3>5, <3>11, <3>14, <3>15, <3>16, <3>17, <3>18 DEF PostFacts
    <2> QED BY <2>5, <2>6
  <1> QED BY <1>3, <1>4


LEMMA SetToSeqIsSeq ==
  ASSUME NEW X, NEW S \in SUBSET X, IsFiniteSet(S)
  PROVE  /\ SetToSeq(S) \in Seq(X) /\ Len(SetToSeq(S)) = Cardinality(S)
         /\ Range(SetToSeq(S)) = S
  <1>1. PICK n, q : n = Cardinality(S) /\ q = SetToSeq(S)
    OBVIOUS
  <1>2. n \in Nat /\ ExistsBijection(1 .. n, S)
    BY <1>1, FS_CardinalityType
  <1>3. \E f \in [1 .. n -> S] : IsInjective(f)
    BY <1>2 DEF ExistsBijection, Bijection, Injection
  <1>4. q \in [1 .. n -> S]
    BY <1>1, <1>3 DEF SetToSeq
  <1>5. q \in [1 .. n -> X]
    BY <1>4
  <1>6. q \in Seq(X)
    BY <1>2, <1>5, SeqDef
  <1>7. Len(q) = n
    BY <1>2, <1>5, <1>6, LenProperties
  <1>8. \A s \in S : \E i \in 1 .. n : q[i] = s
    BY <1>1, SetToSeqFacts
  <1>9. Range(q) = S
    BY <1>4, <1>8 DEF Range
  <1> QED BY <1>1, <1>6, <1>7, <1>9

\* Every node of U but r is referred to by one of U.
Attached(U, r) ==
  (U = {} \/ r \in U) /\ \A h \in U \ {r} : \E p \in U : h \in References(p)

\* The order in which CommitTrie stores the nodes of U.
OrderOf(U, r) ==
  LET tries == SetToSeq(UNION {Ext[h] : h \in U}) \o <<r>>
  IN  FlattenSeq([i \in DOMAIN tries |-> postorder(U, Kids, tries[i])])

\* s has the nodes of U, and what a node refers to before it.
Stores(s, U) ==
  s \in Seq(Hashes) /\ Range(s) = U /\ InOrder(s, U, [h \in U |-> References(h)])

\* A trie with the tries its leaves refer to is stored whole, and what a node
\* refers to before it.
LEMMA StoreOrder ==
  ASSUME NEW U, U \subseteq Hashes, NEW r \in Roots, Attached(U, r),
         NEW order, order = OrderOf(U, r)
  PROVE  Stores(order, U)
  <1>a. /\ U = {} \/ r \in U
        /\ \A h \in U \ {r} : \E p \in U : h \in References(p)
    BY DEF Attached
  <1>b. PICK tries : tries = SetToSeq(UNION {Ext[h] : h \in U}) \o <<r>>
    OBVIOUS
  <1>c. order = FlattenSeq([i \in DOMAIN tries |-> postorder(U, Kids, tries[i])])
    BY <1>b DEF OrderOf
  <1>1. PICK R : R = UNION {Ext[h] : h \in U}
    OBVIOUS
  <1>20. PICK m, s : m = Cardinality(R) /\ s = SetToSeq(R)
    OBVIOUS
  <1>2. R \subseteq Roots /\ R \subseteq Hashes /\ IsFiniteSet(R) /\ r \in Hashes
    <2>1. R \subseteq Roots
      BY <1>1, RefFacts
    <2> QED BY <2>1, HashFacts, FS_Subset
  <1>3. /\ m \in Nat /\ DOMAIN s = 1 .. m
        /\ \A i \in 1 .. m : s[i] \in R
        /\ \A x \in R : \E i \in 1 .. m : s[i] = x
    BY ONLY <1>2, <1>20, SetToSeqFacts
  <1>4. s \in Seq(Hashes) /\ Len(s) = m
    BY <1>2, <1>20, SetToSeqIsSeq
  <1>5. PICK t : t = <<r>>
    OBVIOUS
  <1>6. t \in Seq(Hashes) /\ Len(t) = 1 /\ t[1] = r
    BY <1>2, <1>5
  <1>7. /\ tries \in Seq(Hashes) /\ Len(tries) = m + 1 /\ DOMAIN tries = 1 .. m + 1
        /\ \A i \in 1 .. m : tries[i] = s[i]
        /\ tries[m + 1] = r
    <2>1. tries = s \o t
      BY <1>1, <1>5, <1>20, <1>b
    <2>2. /\ tries \in Seq(Hashes) /\ Len(tries) = Len(s) + Len(t)
          /\ DOMAIN tries = 1 .. Len(s) + Len(t)
          /\ \A i \in 1 .. Len(s) : tries[i] = s[i]
          /\ \A i \in 1 .. Len(t) : tries[Len(s) + i] = t[i]
      <3>1. s \in Seq(Hashes) /\ t \in Seq(Hashes)
        BY <1>4, <1>6
      <3> QED BY ONLY <2>1, <3>1, ConcatFacts
    <2>3. 1 \in 1 .. Len(t)
      BY <1>6
    <2> QED BY <1>4, <1>6, <2>2, <2>3
  <1>8. Inside(U, Kids)
    BY RefFacts DEF Inside
  <1>9. PICK f : Postordered(U, Kids, f) /\ \A h : postorder(U, Kids, h) = f[h]
    BY <1>8, PostorderIs
  <1>10. PICK q : q = [i \in DOMAIN tries |-> postorder(U, Kids, tries[i])]
    OBVIOUS
  <1>11. ASSUME NEW i \in 1 .. m + 1
         PROVE  /\ tries[i] \in Hashes /\ q[i] = f[tries[i]]
                /\ PostFacts(U, Kids, q[i], tries[i])
    <2>1. tries[i] \in Hashes
      BY <1>7, ElementOfSeq
    <2>2. q[i] = f[tries[i]]
      BY <1>7, <1>9, <1>10
    <2> QED BY <1>8, <1>9, <2>1, <2>2, PostorderFacts
  <1>12. q \in Seq(Seq(Hashes)) /\ Len(q) = m + 1
    <2>1. PICK n \in Nat : n = m + 1
      BY <1>3
    <2>3. q = [i \in 1 .. n |-> q[i]] /\ DOMAIN q = 1 .. n
      BY <1>7, <1>10, <2>1
    <2>4. \A i \in 1 .. n : q[i] \in Seq(Hashes)
      BY <1>11, <2>1 DEF PostFacts
    <2>5. q \in [1 .. n -> Seq(Hashes)]
      BY <2>3, <2>4
    <2>2. q \in Seq(Seq(Hashes))
      BY <2>5, SeqDef
    <2> QED BY <2>1, <2>2, <2>3, LenProperties
  <1>13. PICK C : C = [h \in U |-> References(h)]
    OBVIOUS
  <1>14. Blocks(q, U, C)
    <2>1. ASSUME NEW k \in 1 .. m + 1, NEW i \in 1 .. Len(q[k])
          PROVE  /\ q[k][i] \in U
                 /\ \A y \in C[q[k][i]] \cap U : \/ \E b \in 1 .. k - 1 : y \in Range(q[b])
                                                 \/ \E j \in 1 .. i - 1 : q[k][j] = y
      <3>1. PICK a : a = q[k]
        OBVIOUS
      <3>2. a \in Seq(Hashes) /\ InOrder(a, U, [y \in U |-> Range(Kids[y])])
            /\ Range(a) \subseteq Below(tries[k])
        BY <1>11, <3>1 DEF PostFacts
      <3>3. i \in DOMAIN a
        BY <3>1, <3>2, LenProperties
      <3>4. PICK x : x = a[i]
        OBVIOUS
      <3>5. x \in U /\ \A y \in Range(Kids[x]) \cap U : \E j \in 1 .. i - 1 : a[j] = y
        BY <3>2, <3>3, <3>4 DEF InOrder
      <3>6. ASSUME NEW y \in Ext[x], y \in U PROVE \E b \in 1 .. k - 1 : y \in Range(q[b])
        <4>1. CASE k \in 1 .. m
          <5>1. tries[k] \in R
            BY <1>3, <1>7, <4>1
          <5>2. PICK h \in U : tries[k] \in Ext[h]
            BY <1>1, <5>1
          <5>3. x \in Below(tries[k])
            BY <3>2, <3>3, <3>4 DEF Range
          <5>4. Ext[x] = {}
            BY <5>2, <5>3, ExtFacts
          <5> QED BY <3>6, <5>4
        <4>2. CASE k = m + 1
          <5>1. y \in R
            BY <1>1, <3>5, <3>6
          <5>2. PICK b \in 1 .. m : s[b] = y
            BY <1>3, <5>1
          <5>5. b \in 1 .. k - 1 /\ b \in 1 .. m + 1
            BY ONLY <1>3, <4>2, b \in 1 .. m
          <5>3. b \in 1 .. k - 1 /\ b \in 1 .. m + 1 /\ tries[b] = y
            BY <1>7, <5>2, <5>5
          <5>4. y \in Range(q[b])
            BY <1>11, <3>6, <5>3 DEF PostFacts
          <5> QED BY <5>3, <5>4
        <4> QED BY <1>3, <4>1, <4>2
      <3>7. C[x] = Ext[x] \cup Range(Kids[x])
        BY <1>13, <3>5 DEF References
      <3> QED BY <3>1, <3>4, <3>5, <3>6, <3>7
    <2> QED BY <1>12, <2>1 DEF Blocks
  <1>15. Prefix(order, q, m + 1, Hashes, U, C)
    BY <1>10, <1>12, <1>14, <1>c, FlattenInOrder
  <1>16. /\ order \in Seq(Hashes) /\ InOrder(order, U, C)
         /\ \A b \in 1 .. m + 1 : Range(q[b]) \subseteq Range(order)
    BY <1>15 DEF Prefix
  <1>17. Range(order) \subseteq U
    <2>1. ASSUME NEW i \in DOMAIN order PROVE order[i] \in U
      BY <1>16 DEF InOrder
    <2> QED BY <2>1 DEF Range
  <1>18. U \subseteq Range(order)
    <2>1. PICK rank : Ranked(rank)
      BY RankExists
    <2>2. \A x \in Hashes : rank[x] \in Nat
      BY <2>1 DEF Ranked
    <2>3. PICK B \in SUBSET Hashes : B = U \ Range(order)
      OBVIOUS
    <2>4. ASSUME B # {} PROVE FALSE
      <3>1. IsFiniteSet(B)
        BY HashFacts, FS_Subset
      <3>2. PICK x \in B : \A y \in B : rank[y] <= rank[x]
        BY <2>2, <2>4, <3>1, LastBy
      <3>3. x \in U /\ x \notin Range(order) /\ r \in U
        BY <2>3, <3>2, <1>a
      <3>4. x # r
        <4>1. m + 1 \in 1 .. m + 1
          BY <1>3
        <4>2. r \in Range(q[m + 1])
          BY <1>7, <1>11, <3>3, <4>1 DEF PostFacts
        <4> QED BY <1>16, <3>3, <4>1, <4>2
      <3>5. PICK p \in U : x \in References(p)
        BY <3>3, <3>4, <1>a
      <3>6. p \in Hashes /\ x \in Hashes /\ rank[x] < rank[p] /\ rank[p] \in Nat /\ rank[x] \in Nat
        BY <2>1, <2>2, <3>3, <3>5 DEF Ranked
      <3>7. p \notin B
        BY <3>2, <3>6
      <3>8. PICK i \in DOMAIN order : order[i] = p
        BY <2>3, <3>7 DEF Range
      <3>9. x \in C[order[i]] \cap U
        BY <1>13, <3>3, <3>5, <3>8
      <3>10. PICK j \in 1 .. i - 1 : order[j] = x
        BY <1>16, <3>9 DEF InOrder
      <3>11. j \in DOMAIN order
        <4>1. DOMAIN order = 1 .. Len(order) /\ Len(order) \in Nat
          BY <1>16, LenProperties
        <4>2. PICK n \in Nat : n = Len(order)
          BY <4>1
        <4>3. i \in 1 .. n /\ j \in 1 .. i - 1
          BY <3>8, <3>10, <4>1, <4>2
        <4>4. j \in 1 .. n
          BY ONLY <4>2, <4>3
        <4> QED BY <4>1, <4>2, <4>4
      <3> QED BY <3>3, <3>10, <3>11 DEF Range
    <2> QED BY <2>3, <2>4
  <1> QED BY <1>13, <1>16, <1>17, <1>18 DEF Stores

-----------------------------------------------------------------------------
(* Memory databases.                                                       *)

LEMMA DatabaseFacts ==
  ASSUME NEW d, IsDatabase(d)
  PROVE  /\ Nodes(d) \subseteq Hashes /\ IsFiniteSet(Nodes(d)) /\ NoHash \notin Nodes(d)
         /\ DOMAIN d.dirties = Nodes(d) \cup {NoHash} /\ IsFiniteSet(DOMAIN d.dirties)
         /\ d.oldest \in OrNone /\ d.newest \in OrNone /\ d.size \in Int
         /\ d.preimages \in SUBSET Keys
  <1>1. DOMAIN d.dirties \subseteq OrNone /\ NoHash \in DOMAIN d.dirties
    BY DEF IsDatabase
  <1>2. /\ d.oldest \in OrNone /\ d.newest \in OrNone /\ d.size \in Int
        /\ d.preimages \in SUBSET Keys
    BY DEF IsDatabase
  <1>3. /\ Nodes(d) \subseteq Hashes /\ NoHash \notin Nodes(d)
        /\ DOMAIN d.dirties = Nodes(d) \cup {NoHash}
    BY <1>1 DEF Nodes, OrNone
  <1>4. IsFiniteSet(Nodes(d)) /\ IsFiniteSet(DOMAIN d.dirties)
    BY <1>1, <1>3, HashFacts, FS_Subset
  <1> QED BY <1>2, <1>3, <1>4

LEMMA NodeFacts ==
  ASSUME NEW d, IsDatabase(d), NEW h \in DOMAIN d.dirties
  PROVE  /\ d.dirties[h].parents \in Nat /\ d.dirties[h].tracked \in BOOLEAN
         /\ d.dirties[h].flushPrev \in OrNone /\ d.dirties[h].flushNext \in OrNone
         /\ DOMAIN d.dirties[h].children \subseteq Roots
         /\ IsFiniteSet(DOMAIN d.dirties[h].children)
         /\ Cardinality(DOMAIN d.dirties[h].children) \in Nat
         /\ \A x \in DOMAIN d.dirties[h].children : d.dirties[h].children[x] \in Nat \ {0}
         /\ childrenOf(d, h) \in Nat
  <1>1. IsNode(d.dirties[h])
    BY DEF IsDatabase
  <1>2. /\ d.dirties[h].parents \in Nat /\ d.dirties[h].tracked \in BOOLEAN
        /\ d.dirties[h].flushPrev \in OrNone /\ d.dirties[h].flushNext \in OrNone
        /\ DOMAIN d.dirties[h].children \subseteq Roots
        /\ \A x \in DOMAIN d.dirties[h].children : d.dirties[h].children[x] \in Nat \ {0}
    BY <1>1 DEF IsNode
  <1>3. IsFiniteSet(DOMAIN d.dirties[h].children)
    BY <1>2, HashFacts, FS_Subset
  <1>4. Cardinality(DOMAIN d.dirties[h].children) \in Nat
    BY <1>3, FS_CardinalityType
  <1>5. childrenOf(d, h) \in Nat
    BY <1>4 DEF childrenOf, cachedNodeChildrenSize, childSize, HashLength
  <1> QED BY <1>2, <1>3, <1>4, <1>5

\* Whether a step keeps the external children, the counts and the links of the
\* nodes that stay.
KeepsRefs(d, e) ==
  \A x \in DOMAIN e.dirties : /\ x \in DOMAIN d.dirties
                              /\ e.dirties[x].tracked = d.dirties[x].tracked
                              /\ e.dirties[x].children = d.dirties[x].children
KeepsCounts(d, e) ==
  \A x \in DOMAIN e.dirties : /\ x \in DOMAIN d.dirties
                              /\ e.dirties[x].parents = d.dirties[x].parents
KeepsLinks(d, e) ==
  /\ e.oldest = d.oldest /\ e.newest = d.newest
  /\ \A x \in DOMAIN e.dirties : /\ x \in DOMAIN d.dirties
                                 /\ e.dirties[x].flushPrev = d.dirties[x].flushPrev
                                 /\ e.dirties[x].flushNext = d.dirties[x].flushNext

LEMMA RefersNat ==
  ASSUME NEW d, IsDatabase(d), NEW p \in DOMAIN d.dirties, NEW h
  PROVE  /\ RefersTo(d, p, h) \in Nat
         /\ p # NoHash => Occurrences(Kids[p], h) \in Nat
  <1>1. p # NoHash => Occurrences(Kids[p], h) \in Nat
    <2>1. ASSUME p # NoHash PROVE Occurrences(Kids[p], h) \in Nat
      <3>1. p \in Hashes
        BY <2>1, DatabaseFacts
      <3>2. Kids[p] \in Seq(Hashes)
        BY <3>1, RefFacts
      <3>3. Len(Kids[p]) \in Nat /\ DOMAIN Kids[p] = 1 .. Len(Kids[p])
        BY <3>2, LenProperties
      <3> QED BY <3>3, OccurrencesNat
    <2> QED BY <2>1
  <1>2. \A x \in DOMAIN d.dirties[p].children : d.dirties[p].children[x] \in Nat \ {0}
    BY NodeFacts
  <1> QED BY <1>1, <1>2 DEF RefersTo

\* References of a node.
LEMMA RefersZero ==
  ASSUME NEW d, IsDatabase(d), NEW p \in DOMAIN d.dirties, NEW h
  PROVE  RefersTo(d, p, h) = 0 <=> /\ p # NoHash => h \notin Range(Kids[p])
                                   /\ h \notin DOMAIN d.dirties[p].children
  <1>1. ASSUME p # NoHash
        PROVE  /\ Occurrences(Kids[p], h) \in Nat
               /\ Occurrences(Kids[p], h) = 0 <=> h \notin Range(Kids[p])
    <2>1. p \in Hashes
      BY <1>1, DatabaseFacts
    <2>2. Kids[p] \in Seq(Hashes)
      BY <2>1, RefFacts
    <2>3. Len(Kids[p]) \in Nat /\ DOMAIN Kids[p] = 1 .. Len(Kids[p])
      BY <2>2, LenProperties
    <2> QED BY <2>3, OccurrencesNat
  <1>2. \A x \in DOMAIN d.dirties[p].children : d.dirties[p].children[x] \in Nat \ {0}
    BY NodeFacts
  <1>3. PICK m : m = IF h \in DOMAIN d.dirties[p].children THEN d.dirties[p].children[h] ELSE 0
    OBVIOUS
  <1>4. m \in Nat /\ (m = 0 <=> h \notin DOMAIN d.dirties[p].children)
    BY <1>2, <1>3
  <1>5. CASE p = NoHash
    <2>1. RefersTo(d, p, h) = 0 + m
      BY <1>3, <1>5 DEF RefersTo
    <2> QED BY <1>4, <1>5, <2>1
  <1>6. CASE p # NoHash
    <2>1. PICK o : o = Occurrences(Kids[p], h)
      OBVIOUS
    <2>2. RefersTo(d, p, h) = o + m
      BY <1>3, <1>6, <2>1 DEF RefersTo
    <2>3. o \in Nat /\ (o = 0 <=> h \notin Range(Kids[p]))
      BY <1>1, <1>6, <2>1
    <2>4. o + m = 0 <=> o = 0 /\ m = 0
      BY ONLY <1>4, <2>3
    <2> QED BY <1>4, <1>6, <2>2, <2>3, <2>4
  <1> QED BY <1>5, <1>6

\* The references from some nodes.
LEMMA ReferrersNat ==
  ASSUME NEW d, IsDatabase(d), NEW S \in SUBSET DOMAIN d.dirties, NEW h
  PROVE  /\ Referrers(d, S, h) \in Nat /\ IsFiniteSet(S)
         /\ Referrers(d, S, h) = 0 <=> \A p \in S : RefersTo(d, p, h) = 0
  <1>1. IsFiniteSet(S)
    BY DatabaseFacts, FS_Subset
  <1>2. PICK f : f = [p \in S |-> RefersTo(d, p, h)]
    OBVIOUS
  <1>3. DOMAIN f = S /\ \A p \in S : f[p] = RefersTo(d, p, h) /\ f[p] \in Nat
    BY <1>2, RefersNat
  <1>4. SumFunction(f) \in Nat
    BY <1>1, <1>3, SumNat
  <1>5. ASSUME SumFunction(f) = 0, NEW p \in S PROVE RefersTo(d, p, h) = 0
    <2>1. f[p] <= SumFunction(f)
      BY <1>1, <1>3, SumAtLeast
    <2> QED BY <1>3, <1>5, <2>1
  <1>6. ASSUME \A p \in S : RefersTo(d, p, h) = 0 PROVE SumFunction(f) = 0
    BY <1>1, <1>3, <1>6, SumZero
  <1>7. Referrers(d, S, h) = SumFunction(f)
    BY <1>2 DEF Referrers
  <1> QED BY <1>1, <1>4, <1>5, <1>6, <1>7

\* Two databases, or two sets, that differ in one node.
LEMMA ReferrersAdds ==
  ASSUME NEW d, IsDatabase(d), NEW S \in SUBSET DOMAIN d.dirties, NEW p \in S, NEW h,
         NEW e, IsDatabase(e), NEW T \in SUBSET DOMAIN e.dirties, T = S \ {p},
         \A q \in T : RefersTo(e, q, h) = RefersTo(d, q, h)
  PROVE  Referrers(d, S, h) = Referrers(e, T, h) + RefersTo(d, p, h)
  <1>1. IsFiniteSet(S)
    BY ReferrersNat
  <1>2. PICK f, g : /\ f = [q \in S |-> RefersTo(d, q, h)]
                    /\ g = [q \in T |-> RefersTo(e, q, h)]
    OBVIOUS
  <1>3. DOMAIN f = S /\ \A q \in S : f[q] = RefersTo(d, q, h) /\ f[q] \in Nat
    BY <1>2, RefersNat
  <1>4. DOMAIN g = S \ {p} /\ \A q \in S \ {p} : g[q] = f[q]
    BY <1>2, <1>3
  <1>5. SumFunction(f) = SumFunction(g) + f[p]
    BY <1>1, <1>3, <1>4, SumAdds
  <1> QED BY <1>2, <1>3, <1>5 DEF Referrers

LEMMA ReferrersMoves ==
  ASSUME NEW d, IsDatabase(d), NEW S \in SUBSET DOMAIN d.dirties, NEW p \in S, NEW h,
         NEW e, IsDatabase(e), S \subseteq DOMAIN e.dirties,
         \A q \in S \ {p} : RefersTo(e, q, h) = RefersTo(d, q, h)
  PROVE  Referrers(e, S, h) = Referrers(d, S, h) - RefersTo(d, p, h) + RefersTo(e, p, h)
  <1>1. IsFiniteSet(S)
    BY ReferrersNat
  <1>2. PICK f, g : /\ f = [q \in S |-> RefersTo(d, q, h)]
                    /\ g = [q \in S |-> RefersTo(e, q, h)]
    OBVIOUS
  <1>3. DOMAIN f = S /\ \A q \in S : f[q] = RefersTo(d, q, h) /\ f[q] \in Nat
    BY <1>2, RefersNat
  <1>4. DOMAIN g = S /\ \A q \in S : g[q] = RefersTo(e, q, h) /\ g[q] \in Nat
    BY <1>2, RefersNat
  <1>5. \A q \in S \ {p} : g[q] = f[q]
    BY <1>3, <1>4
  <1>6. SumFunction(g) = SumFunction(f) - f[p] + g[p]
    BY <1>1, <1>3, <1>4, <1>5, SumMoves
  <1> QED BY <1>2, <1>3, <1>4, <1>6 DEF Referrers

LEMMA ReferrersKept ==
  ASSUME NEW d, NEW e, NEW S, NEW h,
         \A q \in S : RefersTo(e, q, h) = RefersTo(d, q, h)
  PROVE  Referrers(e, S, h) = Referrers(d, S, h)
  <1>1. [q \in S |-> RefersTo(e, q, h)] = [q \in S |-> RefersTo(d, q, h)]
    OBVIOUS
  <1> QED BY <1>1 DEF Referrers

LEMMA RefersKept ==
  ASSUME NEW d, NEW e, NEW p, e.dirties[p].children = d.dirties[p].children, NEW h
  PROVE  RefersTo(e, p, h) = RefersTo(d, p, h)
  BY DEF RefersTo


\* What the nodes weigh together.
Total(d) == SumFunction([h \in Nodes(d) |-> Weight(d, h)])

LEMMA WeightNat ==
  ASSUME NEW d, IsDatabase(d), NEW h \in Nodes(d)
  PROVE  Weight(d, h) \in Nat
  <1>1. h \in DOMAIN d.dirties /\ h \in Hashes
    BY DatabaseFacts
  <1>2. childrenOf(d, h) \in Nat /\ Size[h] \in Nat
    BY <1>1, NodeFacts, RefFacts
  <1> QED BY <1>2 DEF Weight, HashLength

LEMMA WeightKept ==
  ASSUME NEW d, NEW e, NEW h, e.dirties[h].children = d.dirties[h].children,
         e.dirties[h].tracked = d.dirties[h].tracked
  PROVE  Weight(e, h) = Weight(d, h) /\ childrenOf(e, h) = childrenOf(d, h)
  BY DEF Weight, childrenOf

LEMMA TotalNat ==
  ASSUME NEW d, IsDatabase(d)
  PROVE  Total(d) \in Nat
  <1>1. PICK f : f = [h \in Nodes(d) |-> Weight(d, h)]
    OBVIOUS
  <1>2. DOMAIN f = Nodes(d) /\ \A h \in Nodes(d) : f[h] \in Nat
    BY <1>1, WeightNat
  <1>3. SumFunction(f) \in Nat
    BY <1>2, DatabaseFacts, SumNat
  <1> QED BY <1>1, <1>3 DEF Total

LEMMA TotalKept ==
  ASSUME NEW d, NEW e, Nodes(e) = Nodes(d), \A h \in Nodes(d) : Weight(e, h) = Weight(d, h)
  PROVE  Total(e) = Total(d)
  <1>1. [h \in Nodes(e) |-> Weight(e, h)] = [h \in Nodes(d) |-> Weight(d, h)]
    OBVIOUS
  <1> QED BY <1>1 DEF Total

LEMMA TotalMoves ==
  ASSUME NEW d, IsDatabase(d), NEW e, IsDatabase(e), Nodes(e) = Nodes(d), NEW h \in Nodes(d),
         \A x \in Nodes(d) \ {h} : Weight(e, x) = Weight(d, x)
  PROVE  Total(e) = Total(d) - Weight(d, h) + Weight(e, h)
  <1>1. PICK f, g : /\ f = [x \in Nodes(d) |-> Weight(d, x)]
                    /\ g = [x \in Nodes(e) |-> Weight(e, x)]
    OBVIOUS
  <1>2. DOMAIN f = Nodes(d) /\ \A x \in Nodes(d) : f[x] = Weight(d, x) /\ f[x] \in Nat
    BY <1>1, WeightNat
  <1>3. DOMAIN g = Nodes(d) /\ \A x \in Nodes(d) : g[x] = Weight(e, x) /\ g[x] \in Nat
    BY <1>1, WeightNat
  <1>4. IsFiniteSet(Nodes(d)) /\ \A x \in Nodes(d) \ {h} : g[x] = f[x]
    BY <1>2, <1>3, DatabaseFacts
  <1>5. SumFunction(g) = SumFunction(f) - f[h] + g[h]
    BY <1>2, <1>3, <1>4, SumMoves
  <1> QED BY <1>1, <1>2, <1>3, <1>5 DEF Total

LEMMA TotalAdds ==
  ASSUME NEW d, IsDatabase(d), NEW e, IsDatabase(e), NEW h \in Nodes(d),
         Nodes(e) = Nodes(d) \ {h}, \A x \in Nodes(e) : Weight(e, x) = Weight(d, x)
  PROVE  Total(d) = Total(e) + Weight(d, h)
  <1>1. PICK f, g : /\ f = [x \in Nodes(d) |-> Weight(d, x)]
                    /\ g = [x \in Nodes(e) |-> Weight(e, x)]
    OBVIOUS
  <1>2. DOMAIN f = Nodes(d) /\ \A x \in Nodes(d) : f[x] = Weight(d, x) /\ f[x] \in Nat
    BY <1>1, WeightNat
  <1>3. DOMAIN g = Nodes(d) \ {h} /\ \A x \in Nodes(d) \ {h} : g[x] = f[x]
    BY <1>1, <1>2
  <1>4. SumFunction(f) = SumFunction(g) + f[h]
    BY <1>2, <1>3, DatabaseFacts, SumAdds
  <1> QED BY <1>1, <1>2, <1>4 DEF Total

LEMMA WeighedKept ==
  ASSUME NEW d, IsDatabase(d), Weighed(d), NEW e, IsDatabase(e),
         DOMAIN e.dirties = DOMAIN d.dirties, KeepsRefs(d, e), e.size = d.size
  PROVE  Weighed(e)
  <1>1. Nodes(e) = Nodes(d) /\ NoHash \in DOMAIN e.dirties
    BY DEF Nodes, IsDatabase
  <1>2. ASSUME NEW h \in Nodes(d) PROVE Weight(e, h) = Weight(d, h)
    <2>1. h \in DOMAIN e.dirties
      BY DEF Nodes
    <2> QED BY <2>1, WeightKept DEF KeepsRefs
  <1>3. Total(e) = Total(d)
    BY <1>1, <1>2, TotalKept
  <1>4. e.dirties[NoHash].children = d.dirties[NoHash].children
    BY <1>1 DEF KeepsRefs
  <1> QED BY <1>3, <1>4 DEF Weighed, Total

\* Everything but the order of the list depends on the references alone.
LEMMA MapsKept ==
  ASSUME NEW d, IsDatabase(d), Maps(d), NEW e, IsDatabase(e), KeepsRefs(d, e)
  PROVE  Maps(e)
  <1>1. NoHash \in DOMAIN e.dirties
    BY DEF IsDatabase
  <1>2. \A h \in Nodes(e) : h \in DOMAIN e.dirties /\ h \in Nodes(d)
    BY DEF Nodes, KeepsRefs
  <1> QED BY <1>1, <1>2 DEF Maps, KeepsRefs

LEMMA OrderedKept ==
  ASSUME NEW d, NEW L, L \subseteq DOMAIN d.dirties, NEW pos, Ordered(d, L, pos),
         NEW e, KeepsLinks(d, e), L \subseteq DOMAIN e.dirties
  PROVE  Ordered(e, L, pos)
  <1>1. /\ e.oldest = d.oldest /\ e.newest = d.newest
        /\ \A x \in L : /\ e.dirties[x].flushPrev = d.dirties[x].flushPrev
                        /\ e.dirties[x].flushNext = d.dirties[x].flushNext
    BY DEF KeepsLinks
  <1>2. \A h \in L \ {d.oldest} : d.dirties[h].flushPrev \in L
    BY DEF Ordered
  <1> QED BY <1>1, <1>2 DEF Ordered

-----------------------------------------------------------------------------
(* insert.                                                                 *)

LEMMA InsertIs ==
  ASSUME NEW d, IsDatabase(d), NEW h \in Hashes, h \notin DOMAIN d.dirties,
         NEW e, e = insert(d, h)
  PROVE  /\ IsDatabase(e) /\ DOMAIN e.dirties = DOMAIN d.dirties \cup {h}
         /\ e.dirties[h] = cachedNode(d.newest)
         /\ \A x \in DOMAIN d.dirties :
              /\ e.dirties[x].parents = d.dirties[x].parents + Occurrences(Kids[h], x)
              /\ e.dirties[x].tracked = d.dirties[x].tracked
              /\ e.dirties[x].children = d.dirties[x].children
              /\ e.dirties[x].flushPrev = d.dirties[x].flushPrev
              /\ e.dirties[x].flushNext = IF d.oldest # NoHash /\ x = d.newest THEN h
                                          ELSE d.dirties[x].flushNext
         /\ e.oldest = IF d.oldest = NoHash THEN h ELSE d.oldest
         /\ e.newest = h
         /\ e.size = d.size + HashLength + Size[h]
         /\ e.preimages = d.preimages
  <1>1. PICK D : D = [x \in DOMAIN d.dirties \cup {h} |->
                         IF x = h THEN cachedNode(d.newest)
                         ELSE [counted(d.dirties[x], x, h) EXCEPT
                                 !.flushNext = IF d.oldest # NoHash /\ x = d.newest
                                               THEN h ELSE @]]
    OBVIOUS
  <1>2. e = [d EXCEPT !.dirties = D, !.oldest = IF @ = NoHash THEN h ELSE @, !.newest = h,
                      !.size = @ + HashLength + Size[h]]
    BY <1>1 DEF insert
  <1>3. d \in [dirties : {d.dirties}, oldest : OrNone, newest : OrNone, size : Int,
               preimages : SUBSET Keys]
    BY DEF IsDatabase
  <1>4. /\ e.dirties = D /\ e.oldest = (IF d.oldest = NoHash THEN h ELSE d.oldest)
        /\ e.newest = h /\ e.size = d.size + HashLength + Size[h] /\ e.preimages = d.preimages
    BY <1>2, <1>3
  <1>5. DOMAIN D = DOMAIN d.dirties \cup {h} /\ D[h] = cachedNode(d.newest)
        /\ D = [x \in DOMAIN D |-> D[x]]
    BY <1>1
  <1>6. h \in OrNone /\ d.newest \in OrNone /\ d.oldest \in OrNone /\ d.size \in Int
        /\ Size[h] \in Nat
    BY DatabaseFacts, RefFacts DEF OrNone
  <1>7. ASSUME NEW x \in DOMAIN d.dirties
        PROVE  /\ IsNode(D[x])
               /\ D[x].parents = d.dirties[x].parents + Occurrences(Kids[h], x)
               /\ D[x].tracked = d.dirties[x].tracked
               /\ D[x].children = d.dirties[x].children
               /\ D[x].flushPrev = d.dirties[x].flushPrev
               /\ D[x].flushNext = IF d.oldest # NoHash /\ x = d.newest THEN h
                                   ELSE d.dirties[x].flushNext
    <2>1. PICK n, p, f, g : /\ n = d.dirties[x] /\ p = n.parents + Occurrences(Kids[h], x)
                            /\ f = n.flushPrev
                            /\ g = IF d.oldest # NoHash /\ x = d.newest THEN h ELSE n.flushNext
      OBVIOUS
    <2>2. IsNode(n)
      BY <2>1 DEF IsDatabase
    <2>3. n \in [parents : Nat, tracked : BOOLEAN, children : {n.children},
                 flushPrev : OrNone, flushNext : OrNone]
      BY <2>2 DEF IsNode
    <2>4. p \in Nat /\ f \in OrNone /\ g \in OrNone
      <3>1. Kids[h] \in Seq(Hashes)
        BY RefFacts
      <3>2. Len(Kids[h]) \in Nat /\ DOMAIN Kids[h] = 1 .. Len(Kids[h])
        BY <3>1, LenProperties
      <3>3. Occurrences(Kids[h], x) \in Nat
        BY <3>2, OccurrencesNat
      <3> QED BY <1>6, <2>1, <2>3, <3>3
    <2>5. PICK c : c = [n EXCEPT !.parents = p]
      OBVIOUS
    <2>6. PICK m : m = [c EXCEPT !.flushNext = g]
      OBVIOUS
    <2>7. /\ c \in [parents : Nat, tracked : BOOLEAN, children : {n.children},
                    flushPrev : OrNone, flushNext : OrNone]
          /\ c.parents = p /\ c.flushPrev = f /\ c.flushNext = n.flushNext
          /\ c.tracked = n.tracked /\ c.children = n.children
      BY <2>1, <2>3, <2>4, <2>5
    <2>8. /\ m \in [parents : Nat, tracked : BOOLEAN, children : {n.children},
                    flushPrev : OrNone, flushNext : OrNone]
          /\ m.parents = p /\ m.flushPrev = f /\ m.flushNext = g
          /\ m.tracked = n.tracked /\ m.children = n.children
      BY <2>4, <2>6, <2>7
    <2>9. IsNode(m)
      BY <2>2, <2>8 DEF IsNode
    <2>10. D[x] = m
      <3>1. x # h
        OBVIOUS
      <3>2. counted(n, x, h) = c
        BY <2>1, <2>5 DEF counted
      <3>3. D[x] = [counted(n, x, h) EXCEPT
                      !.flushNext = IF d.oldest # NoHash /\ x = d.newest THEN h ELSE @]
        BY <1>1, <2>1, <3>1
      <3>4. g = IF d.oldest # NoHash /\ x = d.newest THEN h ELSE c.flushNext
        BY <2>1, <2>7
      <3> QED BY <2>6, <3>2, <3>3, <3>4
    <2> QED BY <2>1, <2>8, <2>9, <2>10
  <1>8. IsNode(D[h])
    <2>1. PICK n : n = cachedNode(d.newest)
      OBVIOUS
    <2>2. n = [parents |-> 0, tracked |-> FALSE, children |-> << >>,
               flushPrev |-> d.newest, flushNext |-> NoHash]
      BY <2>1 DEF cachedNode
    <2>3. DOMAIN n.children = {} /\ n.children \in [{} -> Nat \ {0}]
      BY <2>2
    <2>4. n \in [parents : Nat, tracked : BOOLEAN, children : {n.children},
                 flushPrev : OrNone, flushNext : OrNone]
      BY <1>6, <2>2 DEF OrNone
    <2> QED BY <1>5, <2>1, <2>3, <2>4 DEF IsNode
  <1>9. IsDatabase(e)
    <2>1. e \in [dirties : {e.dirties}, oldest : OrNone, newest : OrNone, size : Int,
                 preimages : SUBSET Keys]
      <3>1. PICK o, w : /\ o = (IF d.oldest = NoHash THEN h ELSE d.oldest)
                        /\ w = d.size + HashLength + Size[h]
        OBVIOUS
      <3>2. o \in OrNone /\ w \in Int
        BY <1>6, <3>1 DEF HashLength
      <3>3. e = [d EXCEPT !.dirties = D, !.oldest = o, !.newest = h, !.size = w]
        BY <1>2, <3>1
      <3>4. e \in [dirties : {D}, oldest : OrNone, newest : OrNone, size : Int,
                   preimages : SUBSET Keys]
        BY <1>3, <1>6, <3>2, <3>3
      <3> QED BY <1>4, <3>4
    <2>2. DOMAIN d.dirties \subseteq OrNone /\ NoHash \in DOMAIN d.dirties
      BY DEF IsDatabase
    <2>3. DOMAIN D \subseteq OrNone /\ NoHash \in DOMAIN D
      BY <1>5, <1>6, <2>2
    <2>4. \A x \in DOMAIN D : IsNode(D[x])
      BY <1>5, <1>7, <1>8
    <2> QED BY <1>4, <1>5, <2>1, <2>3, <2>4 DEF IsDatabase
  <1> QED BY <1>4, <1>5, <1>7, <1>9


\* Sound, but for the references at the leaf of h.
SoundBut(d, K, h) ==
  /\ Maps(d) /\ Weighed(d)
  /\ Closed(Nodes(d), K)
  /\ \A x \in Nodes(d) \ {h} : Tied(d, x, K)
  /\ DOMAIN d.dirties[NoHash].children \subseteq Nodes(d) \cup K
  /\ Counted(d, Nodes(d), K)

LEMMA InsertSound ==
  ASSUME NEW d, IsDatabase(d), NEW K, Sound(d, K), NEW h \in Hashes, h \notin DOMAIN d.dirties,
         References(h) \subseteq Nodes(d) \cup K, NEW e, e = insert(d, h)
  PROVE  /\ IsDatabase(e) /\ SoundBut(e, K, h) /\ Nodes(e) = Nodes(d) \cup {h}
         /\ DOMAIN e.dirties = DOMAIN d.dirties \cup {h}
         /\ e.dirties[NoHash].children = d.dirties[NoHash].children
         /\ e.preimages = d.preimages
  <1>1. /\ IsDatabase(e) /\ DOMAIN e.dirties = DOMAIN d.dirties \cup {h}
        /\ e.dirties[h] = cachedNode(d.newest)
        /\ \A x \in DOMAIN d.dirties :
             /\ e.dirties[x].parents = d.dirties[x].parents + Occurrences(Kids[h], x)
             /\ e.dirties[x].tracked = d.dirties[x].tracked
             /\ e.dirties[x].children = d.dirties[x].children
        /\ e.size = d.size + HashLength + Size[h]
        /\ e.preimages = d.preimages
    BY InsertIs
  <1>2. PICK L : L = Nodes(d)
    OBVIOUS
  <1>3. /\ L \subseteq Hashes /\ NoHash \notin L /\ DOMAIN d.dirties = L \cup {NoHash}
        /\ IsFiniteSet(L) /\ h \notin L /\ h # NoHash
    BY <1>2, DatabaseFacts, HashFacts
  <1>4. Nodes(e) = L \cup {h} /\ DOMAIN e.dirties = L \cup {h, NoHash}
    BY <1>1, <1>3 DEF Nodes
  <1>5. /\ e.dirties[h].tracked = FALSE /\ DOMAIN e.dirties[h].children = {}
        /\ e.dirties[h].parents = 0
    BY <1>1 DEF cachedNode
  <1>6. e.dirties[NoHash].children = d.dirties[NoHash].children
    BY <1>1, <1>3
  <1>7. Maps(e)
    <2>1. e.dirties[NoHash].tracked
      BY <1>1, <1>3 DEF Sound, Maps
    <2>2. ASSUME NEW x \in L \cup {h, NoHash}
          PROVE  e.dirties[x].tracked \/ DOMAIN e.dirties[x].children = {}
      BY <1>1, <1>3, <1>5 DEF Sound, Maps
    <2>3. ASSUME NEW x \in L \cup {h}
          PROVE  /\ DOMAIN e.dirties[x].children \subseteq Ext[x]
                 /\ \A y \in DOMAIN e.dirties[x].children : e.dirties[x].children[y] = 1
      BY <1>1, <1>2, <1>3, <1>5 DEF Sound, Maps
    <2> QED BY <1>4, <2>1, <2>2, <2>3 DEF Maps
  <1>8. Weighed(e)
    <2>1. ASSUME NEW x \in L PROVE Weight(d, x) = Weight(e, x)
      BY <1>1, <1>3, WeightKept
    <2>2. Weight(e, h) = HashLength + Size[h]
      <3>1. childrenOf(e, h) = 0
        BY <1>5 DEF childrenOf
      <3>2. Size[h] \in Nat
        BY RefFacts
      <3> QED BY <3>1, <3>2 DEF Weight, HashLength
    <2>3. Total(e) = Total(d) + Weight(e, h)
      <3>1. h \in Nodes(e) /\ Nodes(d) = Nodes(e) \ {h}
        BY <1>2, <1>3, <1>4
      <3>2. \A x \in Nodes(d) : Weight(d, x) = Weight(e, x)
        BY <1>2, <2>1
      <3> QED BY <1>1, <3>1, <3>2, TotalAdds
    <2>4. PICK c : c = childSize * Cardinality(DOMAIN d.dirties[NoHash].children)
      OBVIOUS
    <2>5. d.size = Total(d) + c
      BY <2>4 DEF Sound, Weighed, Total
    <2>6. c \in Nat /\ Total(d) \in Nat /\ Size[h] \in Nat
      <3>1. Cardinality(DOMAIN d.dirties[NoHash].children) \in Nat
        BY <1>3, NodeFacts
      <3> QED BY <2>4, <3>1, TotalNat, RefFacts DEF childSize, HashLength
    <2>7. e.size = Total(e) + c
      BY <1>1, <2>2, <2>3, <2>5, <2>6 DEF HashLength
    <2> QED BY <1>6, <2>4, <2>7 DEF Weighed, Total
  <1>9. Closed(L \cup {h}, K)
    BY <1>2 DEF Closed, Sound
  <1>10. ASSUME NEW x \in L PROVE Tied(e, x, K)
    BY <1>1, <1>2, <1>3 DEF Tied, Sound
  <1>11. Counted(e, L \cup {h}, K)
    <2>1. /\ L \cup {NoHash} \in SUBSET DOMAIN d.dirties
          /\ L \cup {h, NoHash} \in SUBSET DOMAIN e.dirties
      BY <1>3, <1>4
    <2>2. ASSUME NEW x PROVE Counts(e, L \cup {h}, x) = Counts(d, L, x) + Occurrences(Kids[h], x)
      <3>1. PICK S, T : S = L \cup {h, NoHash} /\ T = L \cup {NoHash}
        OBVIOUS
      <3>2. /\ S \in SUBSET DOMAIN e.dirties /\ T \in SUBSET DOMAIN d.dirties /\ h \in S
            /\ T = S \ {h}
        BY <1>3, <2>1, <3>1
      <3>3. \A q \in T : RefersTo(d, q, x) = RefersTo(e, q, x)
        <4>1. ASSUME NEW q \in T PROVE RefersTo(d, q, x) = RefersTo(e, q, x)
          <5>1. e.dirties[q].children = d.dirties[q].children
            BY <1>1, <3>2
          <5> QED BY <5>1, RefersKept
        <4> QED BY <4>1
      <3>4. Referrers(e, S, x) = Referrers(d, T, x) + RefersTo(e, h, x)
        BY <1>1, <3>2, <3>3, ReferrersAdds
      <3>5. RefersTo(e, h, x) = Occurrences(Kids[h], x) + 0
        BY <1>3, <1>5 DEF RefersTo
      <3>6. Kids[h] \in Seq(Hashes)
        BY RefFacts
      <3>7. Len(Kids[h]) \in Nat /\ DOMAIN Kids[h] = 1 .. Len(Kids[h])
        BY <3>6, LenProperties
      <3>8. Occurrences(Kids[h], x) \in Nat
        BY <3>7, OccurrencesNat
      <3>9. S = (L \cup {h}) \cup {NoHash}
        BY <3>1
      <3> QED BY <3>1, <3>4, <3>5, <3>8, <3>9 DEF Counts
    <2>3. ASSUME NEW x \in L \ K PROVE e.dirties[x].parents = Counts(e, L \cup {h}, x)
      <3>1. d.dirties[x].parents = Counts(d, L, x)
        BY <1>2 DEF Sound, Counted
      <3> QED BY <1>1, <1>3, <2>2, <3>1
    <2>4. ASSUME h \notin K PROVE e.dirties[h].parents = Counts(e, L \cup {h}, h)
      <3>1. ASSUME NEW p \in L \cup {NoHash} PROVE RefersTo(d, p, h) = 0
        <4>1. CASE p = NoHash
          <5>1. h \notin DOMAIN d.dirties[NoHash].children
            BY <1>2, <1>3, <2>4 DEF Sound
          <5> QED BY <1>3, <4>1, <5>1, RefersZero
        <4>2. CASE p \in L
          <5>1. h \notin References(p)
            BY <1>2, <1>3, <2>4, <4>2 DEF Sound, Closed
          <5>2. h \notin Range(Kids[p]) /\ h \notin Ext[p]
            BY <5>1 DEF References
          <5>3. h \notin DOMAIN d.dirties[p].children
            BY <1>2, <4>2, <5>2 DEF Sound, Maps
          <5> QED BY <1>3, <4>2, <5>2, <5>3, RefersZero
        <4> QED BY <4>1, <4>2
      <3>2. Counts(d, L, h) = 0
        BY <2>1, <3>1, ReferrersNat DEF Counts
      <3>3. Occurrences(Kids[h], h) = 0
        <4>1. Kids[h] \in Seq(Hashes) /\ h \notin Range(Kids[h])
          BY RefFacts
        <4>2. Len(Kids[h]) \in Nat /\ DOMAIN Kids[h] = 1 .. Len(Kids[h])
          BY <4>1, LenProperties
        <4> QED BY <4>1, <4>2, OccurrencesNat
      <3> QED BY <1>5, <2>2, <3>2, <3>3
    <2> QED BY <2>3, <2>4 DEF Counted
  <1>12. DOMAIN e.dirties[NoHash].children \subseteq L \cup {h} \cup K
    BY <1>2, <1>6 DEF Sound
  <1>13. \A x \in Nodes(e) \ {h} : Tied(e, x, K)
    BY <1>4, <1>10
  <1>14. SoundBut(e, K, h)
    BY <1>4, <1>7, <1>8, <1>9, <1>11, <1>12, <1>13 DEF SoundBut
  <1> QED BY <1>1, <1>2, <1>4, <1>6, <1>14

\* The flush list of all nodes.
Linked(d, K) ==
  \E pos \in [Hashes -> Nat] : /\ Ordered(d, Nodes(d), pos)
                               /\ Children1st(Nodes(d), K, pos)

LEMMA InsertLinked ==
  ASSUME NEW d, IsDatabase(d), NEW K, Sound(d, K), Linked(d, K),
         NEW h \in Hashes, h \notin DOMAIN d.dirties, NEW e, e = insert(d, h)
  PROVE  Linked(e, K)
  <1>1. /\ IsDatabase(e) /\ DOMAIN e.dirties = DOMAIN d.dirties \cup {h}
        /\ e.dirties[h] = cachedNode(d.newest)
        /\ \A x \in DOMAIN d.dirties :
             /\ e.dirties[x].flushPrev = d.dirties[x].flushPrev
             /\ e.dirties[x].flushNext = IF d.oldest # NoHash /\ x = d.newest THEN h
                                         ELSE d.dirties[x].flushNext
        /\ e.oldest = IF d.oldest = NoHash THEN h ELSE d.oldest
        /\ e.newest = h
    BY InsertIs
  <1>2. PICK L : L = Nodes(d)
    OBVIOUS
  <1>3. /\ L \subseteq Hashes /\ NoHash \notin L /\ DOMAIN d.dirties = L \cup {NoHash}
        /\ IsFiniteSet(L) /\ h \notin L /\ h # NoHash
    BY <1>2, DatabaseFacts, HashFacts
  <1>4. Nodes(e) = L \cup {h}
    BY <1>1, <1>3 DEF Nodes
  <1>5. PICK pos \in [Hashes -> Nat] : Ordered(d, L, pos) /\ Children1st(L, K, pos)
    BY <1>2 DEF Linked
  <1>6. \A x \in L : pos[x] \in Nat
    BY <1>3
  <1>7. PICK t \in Nat : \A x \in L : pos[x] < t
    <2>1. CASE L = {}
      BY <2>1
    <2>2. CASE L # {}
      <3>1. PICK a \in L : \A x \in L : pos[x] <= pos[a]
        BY <1>3, <1>6, <2>2, LastBy
      <3>2. PICK t : t = pos[a] + 1
        OBVIOUS
      <3>3. t \in Nat /\ \A x \in L : pos[x] < t
        BY <1>6, <3>1, <3>2
      <3> QED BY <3>3
    <2> QED BY <2>1, <2>2
  <1>8. PICK p : p = [pos EXCEPT ![h] = t]
    OBVIOUS
  <1>9. /\ p \in [Hashes -> Nat] /\ p[h] = t
        /\ \A x \in L : p[x] = pos[x] /\ p[x] \in Nat /\ p[x] < t
    BY <1>3, <1>6, <1>7, <1>8
  <1>10. Children1st(L \cup {h}, K, p)
    <2>1. ASSUME NEW y \in L \cup {h}, NEW x \in References(y), x \in L \cup {h}, x \notin K
          PROVE  p[x] < p[y]
      <3>1. CASE y = h
        <4>1. x # h
          BY <2>1, <3>1, RefFacts
        <4> QED BY <1>9, <2>1, <3>1, <4>1
      <3>2. CASE y \in L
        <4>1. x \in L
          <5>1. References(y) \subseteq L \cup K
            BY <1>2, <3>2 DEF Sound, Closed
          <5> QED BY <2>1, <5>1
        <4>2. pos[x] < pos[y]
          BY <1>5, <2>1, <3>2, <4>1 DEF Children1st
        <4> QED BY <1>9, <3>2, <4>1, <4>2
      <3> QED BY <3>1, <3>2
    <2> QED BY <2>1 DEF Children1st
  <1>11. Ordered(e, L \cup {h}, p)
    <2>1. /\ e.dirties[h].flushPrev = d.newest /\ e.dirties[h].flushNext = NoHash
          /\ e.newest = h
      BY <1>1 DEF cachedNode
    <2>2. \A x, y \in L \cup {h} : p[x] = p[y] => x = y
      <3>1. ASSUME NEW x \in L, NEW y \in L, p[x] = p[y] PROVE x = y
        BY <1>5, <1>9, <3>1 DEF Ordered
      <3>2. ASSUME NEW x \in L PROVE p[x] # p[h]
        BY <1>9
      <3> QED BY <3>1, <3>2
    <2>3. \A x \in L \cup {h} : p[x] <= p[h]
      BY <1>9
    <2>4. CASE L = {}
      <3>1. d.oldest = NoHash
        BY <1>5, <2>4 DEF Ordered
      <3>2. e.oldest = h
        BY <1>1, <3>1
      <3>3. Follows(L \cup {h}, p, h, NoHash)
        BY <2>3 DEF Follows
      <3> QED BY <1>9, <2>1, <2>2, <2>3, <2>4, <3>2, <3>3 DEF Ordered
    <2>5. CASE L # {}
      <3>1. /\ d.oldest \in L /\ \A x \in L : pos[d.oldest] <= pos[x]
            /\ d.newest \in L /\ \A x \in L : pos[x] <= pos[d.newest]
            /\ \A x \in L : Follows(L, pos, x, d.dirties[x].flushNext)
            /\ \A x \in L \ {d.oldest} : /\ d.dirties[x].flushPrev \in L
                                         /\ d.dirties[d.dirties[x].flushPrev].flushNext = x
        BY <1>5, <2>5 DEF Ordered
      <3>2. e.oldest = d.oldest /\ d.oldest # NoHash
        BY <1>1, <1>3, <3>1
      <3>3. \A x \in L \cup {h} : p[e.oldest] <= p[x]
        BY <1>9, <3>1, <3>2
      <3>4. e.dirties[d.newest].flushNext = h
        BY <1>1, <1>3, <3>1, <3>2
      <3>5. \A x \in L : x # d.newest => e.dirties[x].flushNext = d.dirties[x].flushNext
        BY <1>1, <1>3
      <3>6. ASSUME NEW x \in L, x # d.newest
            PROVE  /\ d.dirties[x].flushNext \in L /\ pos[x] < pos[d.dirties[x].flushNext]
                   /\ \A y \in L : pos[y] <= pos[x] \/ pos[d.dirties[x].flushNext] <= pos[y]
        <4>1. pos[x] # pos[d.newest] /\ pos[x] <= pos[d.newest]
          BY <1>5, <3>1, <3>6 DEF Ordered
        <4>2. ~ (pos[d.newest] <= pos[x])
          BY <1>6, <3>1, <4>1
        <4>3. Follows(L, pos, x, d.dirties[x].flushNext)
          BY <3>1
        <4>4. d.dirties[x].flushNext # NoHash
          BY <3>1, <4>2, <4>3 DEF Follows
        <4> QED BY <4>3, <4>4 DEF Follows
      <3>7. ASSUME NEW x \in L \cup {h} PROVE Follows(L \cup {h}, p, x, e.dirties[x].flushNext)
        <4>1. CASE x = h
          BY <2>1, <2>3, <4>1 DEF Follows
        <4>2. CASE x = d.newest
          <5>1. \A y \in L \cup {h} : p[y] <= p[d.newest] \/ p[h] <= p[y]
            BY <1>9, <3>1
          <5> QED BY <1>3, <1>9, <3>1, <3>4, <4>2, <5>1 DEF Follows
        <4>3. CASE x # h /\ x # d.newest
          <5>1. PICK z : z = d.dirties[x].flushNext
            OBVIOUS
          <5>2. /\ z \in L /\ pos[x] < pos[z] /\ x \in L
                /\ \A y \in L : pos[y] <= pos[x] \/ pos[z] <= pos[y]
            BY <3>6, <4>3, <5>1
          <5>3. z # NoHash /\ e.dirties[x].flushNext = z
            BY <1>3, <3>5, <4>3, <5>1, <5>2
          <5>4. \A y \in L \cup {h} : p[y] <= p[x] \/ p[z] <= p[y]
            BY <1>9, <5>2
          <5> QED BY <1>9, <5>2, <5>3, <5>4 DEF Follows
        <4> QED BY <4>1, <4>2, <4>3
      <3>8. ASSUME NEW x \in (L \cup {h}) \ {e.oldest}
            PROVE  /\ e.dirties[x].flushPrev \in L \cup {h}
                   /\ e.dirties[e.dirties[x].flushPrev].flushNext = x
        <4>1. CASE x = h
          BY <2>1, <3>1, <3>4, <4>1
        <4>2. CASE x # h
          <5>1. PICK z : z = d.dirties[x].flushPrev
            OBVIOUS
          <5>2. x \in L /\ x # d.oldest
            BY <3>2, <3>8, <4>2
          <5>3. z \in L /\ d.dirties[z].flushNext = x
            BY <3>1, <5>1, <5>2
          <5>4. z # d.newest
            <6>1. CASE z = d.newest
              <7>1. Follows(L, pos, z, x)
                BY <3>1, <5>3
              <7>2. pos[z] < pos[x] /\ pos[x] <= pos[z]
                BY <1>3, <3>1, <5>2, <6>1, <7>1 DEF Follows
              <7> QED BY <1>6, <5>2, <5>3, <7>2
            <6> QED BY <6>1
          <5> QED BY <1>1, <1>3, <3>5, <5>1, <5>2, <5>3, <5>4
        <4> QED BY <4>1, <4>2
      <3> QED BY <1>9, <2>1, <2>2, <2>3, <3>1, <3>2, <3>3, <3>7, <3>8 DEF Ordered
    <2> QED BY <2>4, <2>5
  <1> QED BY <1>4, <1>9, <1>10, <1>11 DEF Linked

-----------------------------------------------------------------------------
(* reference.                                                              *)

\* A map of external children.
IsRefs(refs) == DOMAIN refs \subseteq Roots /\ refs \in [DOMAIN refs -> Nat \ {0}]

LEMMA ReferFacts ==
  ASSUME NEW refs, IsRefs(refs), NEW child \in Roots
  PROVE  /\ IsRefs(refer(refs, child))
         /\ DOMAIN refer(refs, child) = DOMAIN refs \cup {child}
         /\ \A x \in DOMAIN refs : x # child => refer(refs, child)[x] = refs[x]
         /\ refer(refs, child)[child] = IF child \in DOMAIN refs THEN refs[child] + 1 ELSE 1
  <1>6. PICK m : m = refer(refs, child)
    OBVIOUS
  <1>1. m = [x \in DOMAIN refs \cup {child} |->
               IF x \notin DOMAIN refs THEN 1 ELSE IF x = child THEN refs[x] + 1 ELSE refs[x]]
    BY <1>6 DEF refer
  <1>2. \A x \in DOMAIN refs : refs[x] \in Nat \ {0}
    BY DEF IsRefs
  <1>3. /\ DOMAIN m = DOMAIN refs \cup {child}
        /\ \A x \in DOMAIN refs \cup {child} :
             m[x] = IF x \notin DOMAIN refs THEN 1
                    ELSE IF x = child THEN refs[x] + 1 ELSE refs[x]
    BY <1>1
  <1>4. \A x \in DOMAIN m : m[x] \in Nat \ {0}
    BY <1>2, <1>3
  <1>5. m = [x \in DOMAIN m |-> m[x]]
    BY <1>1
  <1>7. IsRefs(m)
    BY <1>3, <1>4, <1>5 DEF IsRefs
  <1> QED BY <1>3, <1>6, <1>7

\* What tie does.
Tying(d, child, parent, e) ==
  /\ IsDatabase(e) /\ DOMAIN e.dirties = DOMAIN d.dirties /\ KeepsLinks(d, e)
  /\ e.preimages = d.preimages
  /\ e.dirties[child].parents = d.dirties[child].parents + 1
  /\ \A x \in DOMAIN d.dirties \ {child} : e.dirties[x].parents = d.dirties[x].parents
  /\ \A x \in DOMAIN d.dirties \ {parent} :
       /\ e.dirties[x].tracked = d.dirties[x].tracked
       /\ e.dirties[x].children = d.dirties[x].children
  /\ e.dirties[parent].tracked = TRUE
  /\ e.dirties[parent].children = refer(d.dirties[parent].children, child)
  /\ e.size = d.size + (IF d.dirties[parent].tracked THEN 0 ELSE cachedNodeChildrenSize)
                + (IF child \in DOMAIN d.dirties[parent].children THEN 0 ELSE childSize)

LEMMA TieIs ==
  ASSUME NEW d, IsDatabase(d), NEW child \in Roots, child \in DOMAIN d.dirties,
         NEW parent \in DOMAIN d.dirties, child # parent, NEW e, e = tie(d, child, parent)
  PROVE  Tying(d, child, parent, e)
  <1>1. PICK n, p, w : /\ n = d.dirties[child] /\ p = d.dirties[parent]
                       /\ w = d.size + (IF p.tracked THEN 0 ELSE cachedNodeChildrenSize)
                              + (IF child \in DOMAIN p.children THEN 0 ELSE childSize)
    OBVIOUS
  <1>2. IsNode(n) /\ IsNode(p)
    BY <1>1 DEF IsDatabase
  <1>3. /\ n \in [parents : Nat, tracked : BOOLEAN, children : {n.children},
                  flushPrev : OrNone, flushNext : OrNone]
        /\ p \in [parents : Nat, tracked : BOOLEAN, children : {p.children},
                  flushPrev : OrNone, flushNext : OrNone]
    BY <1>2 DEF IsNode
  <1>4. PICK r : r = refer(p.children, child)
    OBVIOUS
  <1>5. PICK n1, p1 : n1 = [n EXCEPT !.parents = n.parents + 1]
                      /\ p1 = [[p EXCEPT !.tracked = TRUE] EXCEPT !.children = r]
    OBVIOUS
  <1>6. /\ n1 \in [parents : Nat, tracked : BOOLEAN, children : {n.children},
                   flushPrev : OrNone, flushNext : OrNone]
        /\ n1.parents = n.parents + 1 /\ n1.flushPrev = n.flushPrev
        /\ n1.flushNext = n.flushNext /\ n1.tracked = n.tracked /\ n1.children = n.children
    BY <1>3, <1>5
  <1>7. /\ p1 \in [parents : Nat, tracked : BOOLEAN, children : {r},
                   flushPrev : OrNone, flushNext : OrNone]
        /\ p1.parents = p.parents /\ p1.flushPrev = p.flushPrev
        /\ p1.flushNext = p.flushNext /\ p1.tracked = TRUE /\ p1.children = r
    BY <1>3, <1>5
  <1>8. /\ DOMAIN r = DOMAIN p.children \cup {child} /\ r \in [DOMAIN r -> Nat \ {0}]
    <2>1. IsRefs(p.children)
      BY <1>2 DEF IsNode, IsRefs
    <2> QED BY <1>4, <2>1, ReferFacts DEF IsRefs
  <1>9. IsNode(n1) /\ IsNode(p1)
    BY <1>2, <1>6, <1>7, <1>8 DEF IsNode
  <1>10. PICK D : D = [x \in DOMAIN d.dirties |-> IF x = child THEN n1 ELSE IF x = parent THEN p1
                                                  ELSE d.dirties[x]]
    OBVIOUS
  <1>11. d \in [dirties : {d.dirties}, oldest : OrNone, newest : OrNone, size : Int,
                preimages : SUBSET Keys]
         /\ d.dirties = [x \in DOMAIN d.dirties |-> d.dirties[x]]
    BY DEF IsDatabase
  <1>12. w \in Int
    <2>1. d.size \in Int
      BY <1>11
    <2> QED BY <1>1, <2>1 DEF cachedNodeChildrenSize, childSize, HashLength
  <1>13. e = [d EXCEPT !.dirties = D, !.size = w]
    <2>1. PICK D1 : D1 = [d.dirties EXCEPT ![child] = n1]
      OBVIOUS
    <2>2. PICK D2 : D2 = [D1 EXCEPT ![parent] = [p EXCEPT !.tracked = TRUE]]
      OBVIOUS
    <2>3. PICK D3 : D3 = [D2 EXCEPT ![parent] = p1]
      OBVIOUS
    <2>4. D3 = D
      BY <1>10, <1>11, <2>1, <2>2, <2>3
    <2>5. D1[parent] = p
      BY <1>1, <2>1
    <2>6. PICK d1, d2, d3 : /\ d1 = [d EXCEPT !.dirties[child].parents = @ + 1]
                            /\ d2 = [d1 EXCEPT !.dirties[parent].tracked = TRUE]
                            /\ d3 = [d2 EXCEPT !.dirties[parent].children = r]
      OBVIOUS
    <2>7. e = [d3 EXCEPT !.size = @ + (IF p.tracked THEN 0 ELSE cachedNodeChildrenSize)
                           + (IF child \in DOMAIN p.children THEN 0 ELSE childSize)]
      BY <1>1, <1>4, <2>6 DEF tie
    <2>8. d1 = [d EXCEPT !.dirties = D1]
      BY <1>1, <1>5, <2>1, <2>6
    <2>9. d1.dirties = D1
      BY <1>11, <2>8
    <2>10. d2 = [d1 EXCEPT !.dirties = D2]
      BY <2>2, <2>5, <2>6, <2>9
    <2>11. d2 = [d EXCEPT !.dirties = D2] /\ d2.dirties = D2
      BY <1>11, <2>8, <2>10
    <2>12. D2[parent] = [p EXCEPT !.tracked = TRUE] /\ D2[parent].children = p.children
      BY <1>3, <2>1, <2>2
    <2>13. d3 = [d2 EXCEPT !.dirties = D3]
      BY <1>5, <2>3, <2>6, <2>11, <2>12
    <2>14. d3 = [d EXCEPT !.dirties = D] /\ d3.size = d.size
      BY <1>11, <2>4, <2>11, <2>13
    <2>15. e = [d3 EXCEPT !.size = w]
      BY <1>1, <2>7, <2>14
    <2> QED BY <1>11, <2>14, <2>15
  <1>14. /\ e.dirties = D /\ e.size = w /\ e.oldest = d.oldest /\ e.newest = d.newest
         /\ e.preimages = d.preimages
    BY <1>11, <1>13
  <1>15. DOMAIN D = DOMAIN d.dirties /\ D = [x \in DOMAIN D |-> D[x]]
    BY <1>10
  <1>16. D[child] = n1 /\ D[parent] = p1
    BY <1>10
  <1>17. \A x \in DOMAIN d.dirties : x # child /\ x # parent => D[x] = d.dirties[x]
    BY <1>10
  <1>18. IsDatabase(e)
    <2>1. e \in [dirties : {D}, oldest : OrNone, newest : OrNone, size : Int,
                 preimages : SUBSET Keys]
      BY <1>11, <1>12, <1>13
    <2>2. \A x \in DOMAIN D : IsNode(D[x])
      BY <1>9, <1>10, <1>15, <1>16, <1>17 DEF IsDatabase
    <2>3. DOMAIN D \subseteq OrNone /\ NoHash \in DOMAIN D
      BY <1>15 DEF IsDatabase
    <2> QED BY <1>14, <1>15, <2>1, <2>2, <2>3 DEF IsDatabase
  <1>19. KeepsLinks(d, e)
    BY <1>1, <1>6, <1>7, <1>14, <1>15, <1>16, <1>17 DEF KeepsLinks
  <1> QED BY <1>1, <1>4, <1>6, <1>7, <1>14, <1>15, <1>16, <1>17, <1>18, <1>19 DEF Tying


\* A reference in a map of external children weighs in once for each child.
LEMMA TieWeighed ==
  ASSUME NEW d, IsDatabase(d), Maps(d), Weighed(d), NEW child \in Roots, child \in DOMAIN d.dirties,
         NEW parent \in DOMAIN d.dirties, child # parent, NEW e, e = tie(d, child, parent)
  PROVE  Weighed(e)
  <1>1. /\ IsDatabase(e) /\ DOMAIN e.dirties = DOMAIN d.dirties
        /\ \A x \in DOMAIN d.dirties \ {parent} :
             /\ e.dirties[x].tracked = d.dirties[x].tracked
             /\ e.dirties[x].children = d.dirties[x].children
        /\ e.dirties[parent].tracked = TRUE
        /\ e.dirties[parent].children = refer(d.dirties[parent].children, child)
        /\ e.size = d.size + (IF d.dirties[parent].tracked THEN 0 ELSE cachedNodeChildrenSize)
                      + (IF child \in DOMAIN d.dirties[parent].children THEN 0 ELSE childSize)
    <2>1. Tying(d, child, parent, e)
      BY TieIs
    <2> QED BY <2>1 DEF Tying
  <1>2. PICK c, m : /\ c = DOMAIN d.dirties[parent].children
                    /\ m = DOMAIN e.dirties[parent].children
    OBVIOUS
  <1>3. m = c \cup {child} /\ IsFiniteSet(c) /\ Cardinality(c) \in Nat
    <2>1. IsNode(d.dirties[parent])
      BY DEF IsDatabase
    <2>2. IsRefs(d.dirties[parent].children)
      BY <2>1 DEF IsNode, IsRefs
    <2>3. DOMAIN refer(d.dirties[parent].children, child)
            = DOMAIN d.dirties[parent].children \cup {child}
      BY <2>2, ReferFacts
    <2> QED BY <1>1, <1>2, <2>3, NodeFacts
  <1>4. PICK a \in Nat : a = IF child \in c THEN 0 ELSE 1
    OBVIOUS
  <1>5. Cardinality(m) = Cardinality(c) + a
    <2>1. Cardinality(c \cup {child}) = IF child \in c THEN Cardinality(c) ELSE Cardinality(c) + 1
      BY <1>3, FS_AddElement
    <2> QED BY <1>3, <1>4, <2>1
  <1>6. Nodes(e) = Nodes(d)
    BY <1>1 DEF Nodes
  <1>7. ASSUME NEW x \in DOMAIN d.dirties, x # parent
        PROVE  /\ Weight(e, x) = Weight(d, x)
               /\ e.dirties[x].children = d.dirties[x].children
    BY <1>1, <1>7, WeightKept
  <1>8. PICK u : u = Cardinality(DOMAIN d.dirties[NoHash].children)
    OBVIOUS
  <1>9. u \in Nat /\ Total(d) \in Nat /\ NoHash \in DOMAIN d.dirties
    BY <1>8, NodeFacts, TotalNat, DatabaseFacts
  <1>10. d.size = Total(d) + childSize * u
    BY <1>8 DEF Weighed, Total
  <1>11. CASE parent = NoHash
    <2>1. Total(e) = Total(d)
      <3>1. ASSUME NEW x \in Nodes(d) PROVE Weight(e, x) = Weight(d, x)
        <4>1. x \in DOMAIN d.dirties /\ x # NoHash
          BY DEF Nodes
        <4> QED BY <1>7, <1>11, <4>1
      <3> QED BY <1>6, <3>1, TotalKept
    <2>2. e.size = d.size + childSize * a
      BY <1>1, <1>2, <1>4, <1>9, <1>10, <1>11 DEF Maps, childSize, HashLength
    <2>3. Cardinality(DOMAIN e.dirties[NoHash].children) = u + a
      BY <1>2, <1>5, <1>8, <1>11
    <2>4. e.size = Total(e) + childSize * (u + a)
      BY ONLY <1>9, <1>10, <2>1, <2>2, a \in Nat DEF childSize, HashLength
    <2> QED BY <2>3, <2>4 DEF Weighed, Total
  <1>12. CASE parent # NoHash
    <2>1. parent \in Nodes(d) /\ parent \in Hashes
      BY <1>12, DatabaseFacts
    <2>2. Cardinality(DOMAIN e.dirties[NoHash].children) = u
      BY <1>7, <1>8, <1>9, <1>12
    <2>3. ASSUME NEW x \in Nodes(d) \ {parent} PROVE Weight(e, x) = Weight(d, x)
      BY <1>7, DatabaseFacts
    <2>4. Total(e) = Total(d) - Weight(d, parent) + Weight(e, parent)
      BY <1>1, <1>6, <2>1, <2>3, TotalMoves
    <2>5. Weight(d, parent) \in Nat /\ Weight(e, parent) \in Nat
      BY <1>1, <1>6, <2>1, WeightNat
    <2>6. PICK t : t = IF d.dirties[parent].tracked THEN 0 ELSE cachedNodeChildrenSize
      OBVIOUS
    <2>7. t \in Nat
      BY <2>6 DEF cachedNodeChildrenSize
    <2>8. childrenOf(e, parent) = childrenOf(d, parent) + t + childSize * a
      <3>1. childrenOf(e, parent) = cachedNodeChildrenSize + childSize * (Cardinality(c) + a)
        BY <1>1, <1>2, <1>5 DEF childrenOf
      <3>2. CASE d.dirties[parent].tracked
        <4>1. childrenOf(d, parent) = cachedNodeChildrenSize + childSize * Cardinality(c)
          BY <1>2, <3>2 DEF childrenOf
        <4>2. t = 0
          BY <2>6, <3>2
        <4> QED BY <1>3, <3>1, <4>1, <4>2 DEF childSize, HashLength, cachedNodeChildrenSize
      <3>3. CASE ~ d.dirties[parent].tracked
        <4>1. childrenOf(d, parent) = 0 /\ t = cachedNodeChildrenSize
          BY <2>6, <3>3 DEF childrenOf
        <4>2. c = {}
          BY <1>2, <3>3 DEF Maps
        <4>3. Cardinality(c) = 0
          BY <4>2, FS_EmptySet
        <4> QED BY <3>1, <4>1, <4>3 DEF childSize, HashLength, cachedNodeChildrenSize
      <3> QED BY <3>2, <3>3
    <2>9. Weight(e, parent) = Weight(d, parent) + t + childSize * a
      <3>1. childrenOf(d, parent) \in Nat /\ Size[parent] \in Nat
        BY <2>1, NodeFacts, RefFacts
      <3> QED BY <2>7, <2>8, <3>1 DEF Weight, childSize, HashLength
    <2>10. e.size = d.size + t + childSize * a
      <3>1. e.size = d.size + t + (IF child \in c THEN 0 ELSE childSize)
        BY <1>1, <1>2, <2>6
      <3>2. (IF child \in c THEN 0 ELSE childSize) = childSize * a
        BY <1>4 DEF childSize, HashLength
      <3> QED BY <3>1, <3>2
    <2>11. e.size = Total(e) + childSize * u
      BY ONLY <1>9, <1>10, <2>4, <2>5, <2>7, <2>9, <2>10, a \in Nat DEF childSize, HashLength
    <2> QED BY <2>2, <2>11 DEF Weighed, Total
  <1> QED BY <1>11, <1>12

LEMMA TieSound ==
  ASSUME NEW d, IsDatabase(d), NEW K, NEW h, SoundBut(d, K, h),
         NEW child \in Roots, child \in DOMAIN d.dirties, NEW parent \in DOMAIN d.dirties,
         parent # NoHash => child \in Ext[parent] \ DOMAIN d.dirties[parent].children,
         NEW e, e = tie(d, child, parent)
  PROVE  /\ IsDatabase(e) /\ SoundBut(e, K, h)
         /\ DOMAIN e.dirties = DOMAIN d.dirties /\ KeepsLinks(d, e)
         /\ e.preimages = d.preimages
         /\ \A x \in DOMAIN d.dirties \ {parent} :
              e.dirties[x].children = d.dirties[x].children
         /\ e.dirties[parent].children = refer(d.dirties[parent].children, child)
         /\ DOMAIN e.dirties[parent].children = DOMAIN d.dirties[parent].children \cup {child}
  <1>1. PICK L : L = Nodes(d)
    OBVIOUS
  <1>2. /\ L \subseteq Hashes /\ NoHash \notin L /\ DOMAIN d.dirties = L \cup {NoHash}
        /\ child \in L
    BY <1>1, DatabaseFacts, HashFacts
  <1>3. child # parent
    <2>1. CASE parent = NoHash
      BY <1>2, <2>1
    <2>2. CASE parent # NoHash
      <3>1. parent \in Hashes
        BY <1>2, <2>2
      <3>2. child \in References(parent) /\ parent \notin References(parent)
        BY <2>2, <3>1, RefFacts
      <3> QED BY <3>2
    <2> QED BY <2>1, <2>2
  <1>4. /\ IsDatabase(e) /\ DOMAIN e.dirties = DOMAIN d.dirties /\ KeepsLinks(d, e)
        /\ e.preimages = d.preimages
        /\ e.dirties[child].parents = d.dirties[child].parents + 1
        /\ \A x \in DOMAIN d.dirties \ {child} : e.dirties[x].parents = d.dirties[x].parents
        /\ \A x \in DOMAIN d.dirties \ {parent} :
             /\ e.dirties[x].tracked = d.dirties[x].tracked
             /\ e.dirties[x].children = d.dirties[x].children
        /\ e.dirties[parent].tracked = TRUE
        /\ e.dirties[parent].children = refer(d.dirties[parent].children, child)
    <2>1. Tying(d, child, parent, e)
      BY <1>3, TieIs
    <2> QED BY <2>1 DEF Tying
  <1>5. PICK c, m : c = d.dirties[parent].children /\ m = e.dirties[parent].children
    OBVIOUS
  <1>6. /\ DOMAIN m = DOMAIN c \cup {child}
        /\ \A x \in DOMAIN c : x # child => m[x] = c[x]
        /\ m[child] = IF child \in DOMAIN c THEN c[child] + 1 ELSE 1
        /\ \A x \in DOMAIN c : c[x] \in Nat \ {0}
    <2>1. IsNode(d.dirties[parent])
      BY DEF IsDatabase
    <2>2. IsRefs(c)
      BY <1>5, <2>1 DEF IsNode, IsRefs
    <2>3. m = refer(c, child)
      BY <1>4, <1>5
    <2>4. /\ DOMAIN refer(c, child) = DOMAIN c \cup {child}
          /\ \A x \in DOMAIN c : x # child => refer(c, child)[x] = c[x]
          /\ refer(c, child)[child] = IF child \in DOMAIN c THEN c[child] + 1 ELSE 1
      BY <2>2, ReferFacts
    <2> QED BY <2>2, <2>3, <2>4 DEF IsRefs
  <1>7. Nodes(e) = L
    BY <1>1, <1>4 DEF Nodes
  <1>8. Maps(e)
    <2>1. e.dirties[NoHash].tracked
      BY <1>2, <1>4 DEF SoundBut, Maps
    <2>2. \A x \in DOMAIN e.dirties : e.dirties[x].tracked \/ DOMAIN e.dirties[x].children = {}
      BY <1>4 DEF SoundBut, Maps
    <2>3. ASSUME NEW x \in L
          PROVE  /\ DOMAIN e.dirties[x].children \subseteq Ext[x]
                 /\ \A y \in DOMAIN e.dirties[x].children : e.dirties[x].children[y] = 1
      <3>1. /\ DOMAIN d.dirties[x].children \subseteq Ext[x]
            /\ \A y \in DOMAIN d.dirties[x].children : d.dirties[x].children[y] = 1
        BY <1>1 DEF SoundBut, Maps
      <3>2. CASE x = parent
        <4>1. child \in Ext[parent] /\ child \notin DOMAIN c
          BY <1>2, <1>5, <3>2
        <4> QED BY <1>5, <1>6, <3>1, <3>2, <4>1
      <3>3. CASE x # parent
        BY <1>2, <1>4, <3>1, <3>3
      <3> QED BY <3>2, <3>3
    <2> QED BY <1>7, <2>1, <2>2, <2>3 DEF Maps
  <1>9. Weighed(e)
    BY <1>3, TieWeighed DEF SoundBut
  <1>10. \A x \in DOMAIN d.dirties :
           DOMAIN d.dirties[x].children \subseteq DOMAIN e.dirties[x].children
    BY <1>4, <1>5, <1>6
  <1>11. ASSUME NEW x \in L \ {h} PROVE Tied(e, x, K)
    BY <1>1, <1>2, <1>10 DEF Tied, SoundBut
  <1>12. DOMAIN e.dirties[NoHash].children \subseteq L \cup K
    <2>1. DOMAIN d.dirties[NoHash].children \subseteq L \cup K
      BY <1>1 DEF SoundBut
    <2>2. CASE parent = NoHash
      BY <1>2, <1>5, <1>6, <2>1, <2>2
    <2>3. CASE parent # NoHash
      BY <1>2, <1>4, <2>1, <2>3
    <2> QED BY <2>2, <2>3
  <1>13. Counted(e, L, K)
    <2>1. PICK S : S = L \cup {NoHash}
      OBVIOUS
    <2>2. S \in SUBSET DOMAIN d.dirties /\ S \subseteq DOMAIN e.dirties /\ parent \in S
      BY <1>2, <1>4, <2>1
    <2>3. ASSUME NEW x
          PROVE  RefersTo(e, parent, x) = RefersTo(d, parent, x) + (IF x = child THEN 1 ELSE 0)
      <3>1. PICK o : o = IF parent = NoHash THEN 0 ELSE Occurrences(Kids[parent], x)
        OBVIOUS
      <3>2. o \in Nat
        BY <3>1, RefersNat
      <3>3. /\ RefersTo(e, parent, x) = o + (IF x \in DOMAIN m THEN m[x] ELSE 0)
            /\ RefersTo(d, parent, x) = o + (IF x \in DOMAIN c THEN c[x] ELSE 0)
        BY <1>5, <3>1 DEF RefersTo
      <3> QED BY <1>6, <3>2, <3>3
    <2>4. ASSUME NEW x PROVE Counts(e, L, x) = Counts(d, L, x) + (IF x = child THEN 1 ELSE 0)
      <3>1. ASSUME NEW q \in S \ {parent} PROVE RefersTo(e, q, x) = RefersTo(d, q, x)
        <4>1. e.dirties[q].children = d.dirties[q].children
          BY <1>4, <2>2
        <4> QED BY <4>1 DEF RefersTo
      <3>2. Referrers(e, S, x) = Referrers(d, S, x) - RefersTo(d, parent, x) + RefersTo(e, parent, x)
        BY <1>4, <2>2, <3>1, ReferrersMoves
      <3>3. Referrers(d, S, x) \in Nat /\ RefersTo(d, parent, x) \in Nat
        BY <2>2, ReferrersNat, RefersNat
      <3>4. RefersTo(e, parent, x) = RefersTo(d, parent, x) + (IF x = child THEN 1 ELSE 0)
        BY <2>3
      <3>5. Referrers(e, S, x) = Referrers(d, S, x) + (IF x = child THEN 1 ELSE 0)
        BY ONLY <3>2, <3>3, <3>4
      <3> QED BY <2>1, <3>5 DEF Counts
    <2>5. ASSUME NEW x \in L \ K PROVE e.dirties[x].parents = Counts(e, L, x)
      <3>1. d.dirties[x].parents = Counts(d, L, x)
        BY <1>1 DEF SoundBut, Counted
      <3>2. Counts(d, L, x) \in Nat
        BY <2>1, <2>2, ReferrersNat DEF Counts
      <3> QED BY <1>2, <1>4, <2>4, <3>1, <3>2
    <2> QED BY <2>5 DEF Counted
  <1>14. Closed(L, K)
    BY <1>1 DEF SoundBut
  <1>15. SoundBut(e, K, h)
    BY <1>7, <1>8, <1>9, <1>11, <1>12, <1>13, <1>14 DEF SoundBut
  <1> QED BY <1>4, <1>5, <1>6, <1>15

\* A reference to a node that is not cached, and to one that a leaf already
\* refers to, changes nothing.
LEMMA ReferenceSound ==
  ASSUME NEW d, IsDatabase(d), NEW K, NEW h, SoundBut(d, K, h),
         NEW parent \in DOMAIN d.dirties, NEW child \in Roots, child \in Nodes(d) \cup K,
         parent # NoHash => child \in Ext[parent],
         NEW e, e = reference(d, child, parent)
  PROVE  /\ IsDatabase(e) /\ SoundBut(e, K, h)
         /\ DOMAIN e.dirties = DOMAIN d.dirties /\ KeepsLinks(d, e)
         /\ e.preimages = d.preimages
         /\ \A x \in DOMAIN d.dirties \ {parent} :
              e.dirties[x].children = d.dirties[x].children
         /\ DOMAIN d.dirties[parent].children \subseteq DOMAIN e.dirties[parent].children
         /\ child \in K \cup DOMAIN e.dirties[parent].children
         /\ parent = NoHash =>
              e.dirties[NoHash].children =
                IF child \in Nodes(d) THEN refer(d.dirties[NoHash].children, child)
                ELSE d.dirties[NoHash].children
  <1>1. child \in DOMAIN d.dirties <=> child \in Nodes(d)
    BY HashFacts DEF Nodes
  <1>2. KeepsLinks(d, d)
    BY DEF KeepsLinks
  <1>3. CASE child \notin DOMAIN d.dirties
    <2>1. e = d
      BY <1>3 DEF reference
    <2> QED BY <1>1, <1>2, <1>3, <2>1
  <1>4. CASE child \in DOMAIN d.dirties[parent].children /\ parent # NoHash
    <2>1. e = d
      BY <1>4 DEF reference
    <2> QED BY <1>2, <1>4, <2>1
  <1>5. CASE /\ child \in DOMAIN d.dirties
             /\ child \notin DOMAIN d.dirties[parent].children \/ parent = NoHash
    <2>1. e = tie(d, child, parent)
      BY <1>5 DEF reference
    <2>2. parent # NoHash => child \in Ext[parent] \ DOMAIN d.dirties[parent].children
      BY <1>5
    <2>3. /\ IsDatabase(e) /\ SoundBut(e, K, h)
          /\ DOMAIN e.dirties = DOMAIN d.dirties /\ KeepsLinks(d, e)
          /\ e.preimages = d.preimages
          /\ \A x \in DOMAIN d.dirties \ {parent} :
               e.dirties[x].children = d.dirties[x].children
          /\ e.dirties[parent].children = refer(d.dirties[parent].children, child)
          /\ DOMAIN e.dirties[parent].children = DOMAIN d.dirties[parent].children \cup {child}
      BY <1>5, <2>1, <2>2, TieSound
    <2> QED BY <1>1, <1>5, <2>3
  <1> QED BY <1>3, <1>4, <1>5


\* b has become c with the first k references of h.
Storing(b, c, q, k, K, h) ==
  /\ IsDatabase(c) /\ SoundBut(c, K, h)
  /\ DOMAIN c.dirties = DOMAIN b.dirties /\ KeepsLinks(b, c)
  /\ c.preimages = b.preimages
  /\ c.dirties[NoHash].children = b.dirties[NoHash].children
  /\ \A i \in 1 .. k : q[i] \in K \cup DOMAIN c.dirties[h].children

LEMMA StoreTied ==
  ASSUME NEW b, IsDatabase(b), NEW K, NEW h \in Nodes(b), SoundBut(b, K, h),
         References(h) \subseteq Nodes(b) \cup K,
         NEW e, e = Callback(b, h)
  PROVE  /\ IsDatabase(e) /\ Sound(e, K)
         /\ DOMAIN e.dirties = DOMAIN b.dirties /\ KeepsLinks(b, e)
         /\ e.preimages = b.preimages
         /\ e.dirties[NoHash].children = b.dirties[NoHash].children
  <1>1. h \in Hashes /\ h \in DOMAIN b.dirties /\ h # NoHash
    BY DatabaseFacts
  <1>2. PICK q, n : q = SetToSeq(Ext[h]) /\ n = Cardinality(Ext[h])
    OBVIOUS
  <1>3. IsFiniteSet(Ext[h]) /\ Ext[h] \subseteq Roots /\ Ext[h] \subseteq References(h)
    BY <1>1, RefFacts
  <1>4. /\ n \in Nat /\ DOMAIN q = 1 .. n
        /\ \A i \in 1 .. n : q[i] \in Ext[h]
        /\ \A x \in Ext[h] : \E i \in 1 .. n : q[i] = x
    BY ONLY <1>2, <1>3, SetToSeqFacts
  <1>5. PICK a : Turns(<<"reference", h>>, q, b, n, a) /\ Callback(b, h) = a[n]
    BY <1>2, <1>4, CallbackTurns
  <1>6. e = a[n]
    BY <1>2, <1>5
  <1>7. a[0] = b /\ \A k \in 1 .. n : a[k] = reference(a[k - 1], q[k], h)
    BY <1>5 DEF Turns, Turn
  <1>8. PICK B \in SUBSET (0 .. n) : B = {k \in 0 .. n : ~ Storing(b, a[k], q, k, K, h)}
    OBVIOUS
  <1>9. ASSUME B # {} PROVE FALSE
    <2>1. PICK k \in B : \A i \in B : k <= i
      BY <1>4, <1>9, FirstOne
    <2>2. k \in 0 .. n /\ ~ Storing(b, a[k], q, k, K, h)
      BY <1>8, <2>1
    <2>3. k # 0
      <3>1. Storing(b, b, q, 0, K, h)
        BY DEF Storing, KeepsLinks
      <3> QED BY <1>7, <2>2, <3>1
    <2>4. k - 1 \in 0 .. n /\ k - 1 < k /\ k \in 1 .. n
      BY <1>4, <2>2, <2>3
    <2>5. k - 1 \notin B
      BY <2>1, <2>4
    <2>6. PICK c, f : c = a[k - 1] /\ f = a[k]
      OBVIOUS
    <2>7. Storing(b, c, q, k - 1, K, h)
      BY <1>8, <2>4, <2>5, <2>6
    <2>8. f = reference(c, q[k], h)
      BY <1>7, <2>4, <2>6
    <2>9. /\ IsDatabase(c) /\ SoundBut(c, K, h) /\ DOMAIN c.dirties = DOMAIN b.dirties
          /\ h \in DOMAIN c.dirties /\ q[k] \in Roots /\ q[k] \in Ext[h]
          /\ Nodes(c) = Nodes(b) /\ q[k] \in Nodes(c) \cup K
      BY <1>1, <1>3, <1>4, <2>4, <2>7 DEF Storing, Nodes
    <2>10. /\ IsDatabase(f) /\ SoundBut(f, K, h)
           /\ DOMAIN f.dirties = DOMAIN c.dirties /\ KeepsLinks(c, f)
           /\ f.preimages = c.preimages
           /\ \A x \in DOMAIN c.dirties \ {h} :
                f.dirties[x].children = c.dirties[x].children
           /\ DOMAIN c.dirties[h].children \subseteq DOMAIN f.dirties[h].children
           /\ q[k] \in K \cup DOMAIN f.dirties[h].children
      BY <1>1, <2>8, <2>9, ReferenceSound
    <2>11. KeepsLinks(b, f)
      BY <2>7, <2>9, <2>10 DEF Storing, KeepsLinks
    <2>12. f.dirties[NoHash].children = b.dirties[NoHash].children
      <3>1. NoHash \in DOMAIN c.dirties \ {h}
        BY <1>1, <2>9 DEF IsDatabase
      <3> QED BY <2>7, <2>10, <3>1 DEF Storing
    <2>13. ASSUME NEW i \in 1 .. k PROVE q[i] \in K \cup DOMAIN f.dirties[h].children
      <3>1. CASE i = k
        BY <2>10, <3>1
      <3>2. CASE i # k
        <4>1. i \in 1 .. k - 1
          BY <2>4, <3>2
        <4> QED BY <2>7, <2>10, <4>1 DEF Storing
      <3> QED BY <3>1, <3>2
    <2>14. Storing(b, f, q, k, K, h)
      BY <2>7, <2>9, <2>10, <2>11, <2>12, <2>13 DEF Storing
    <2> QED BY <2>2, <2>6, <2>14
  <1>10. n \in 0 .. n
    BY <1>4
  <1>11. Storing(b, e, q, n, K, h)
    BY <1>6, <1>8, <1>9, <1>10
  <1>12. Tied(e, h, K)
    BY <1>4, <1>11 DEF Tied, Storing
  <1>13. Sound(e, K)
    <2>1. SoundBut(e, K, h)
      BY <1>11 DEF Storing
    <2>2. \A x \in Nodes(e) : Tied(e, x, K)
      BY <1>12, <2>1 DEF SoundBut
    <2> QED BY <2>1, <2>2 DEF SoundBut, Sound
  <1> QED BY <1>11, <1>13 DEF Storing

LEMMA LinkedKept ==
  ASSUME NEW d, IsDatabase(d), NEW K, Linked(d, K), NEW e, IsDatabase(e),
         DOMAIN e.dirties = DOMAIN d.dirties, KeepsLinks(d, e)
  PROVE  Linked(e, K)
  <1>1. PICK pos \in [Hashes -> Nat] : Ordered(d, Nodes(d), pos) /\ Children1st(Nodes(d), K, pos)
    BY DEF Linked
  <1>2. Nodes(e) = Nodes(d) /\ Nodes(d) \subseteq DOMAIN d.dirties
    BY DEF Nodes
  <1>3. Ordered(e, Nodes(d), pos)
    BY <1>1, <1>2, OrderedKept
  <1> QED BY <1>1, <1>2, <1>3 DEF Linked

\* A node and what its leaf refers to.
LEMMA StoreNodeSound ==
  ASSUME NEW d, IsDatabase(d), NEW K, Sound(d, K), Linked(d, K), NEW h \in Hashes,
         References(h) \subseteq Nodes(d) \cup K, NEW e, e = storeNode(d, h)
  PROVE  /\ IsDatabase(e) /\ Sound(e, K) /\ Linked(e, K)
         /\ Nodes(e) = Nodes(d) \cup {h}
         /\ e.preimages = d.preimages
         /\ e.dirties[NoHash].children = d.dirties[NoHash].children
  <1>1. PICK b : b = insert(d, h)
    OBVIOUS
  <1>2. e = Callback(b, h)
    BY <1>1 DEF storeNode, Callback
  <1>3. /\ IsDatabase(b) /\ SoundBut(b, K, h) /\ Linked(b, K) /\ Nodes(b) = Nodes(d) \cup {h}
        /\ b.preimages = d.preimages
        /\ b.dirties[NoHash].children = d.dirties[NoHash].children
    <2>1. CASE h \in DOMAIN d.dirties
      <3>1. b = d
        BY <1>1, <2>1 DEF insert
      <3>2. h \in Nodes(d)
        BY <2>1, HashFacts DEF Nodes
      <3>3. SoundBut(d, K, h)
        BY DEF Sound, SoundBut
      <3> QED BY <3>1, <3>2, <3>3
    <2>2. CASE h \notin DOMAIN d.dirties
      BY <1>1, <2>2, InsertSound, InsertLinked
    <2> QED BY <2>1, <2>2
  <1>4. h \in Nodes(b) /\ References(h) \subseteq Nodes(b) \cup K
    BY <1>3
  <1>5. /\ IsDatabase(e) /\ Sound(e, K)
        /\ DOMAIN e.dirties = DOMAIN b.dirties /\ KeepsLinks(b, e)
        /\ e.preimages = b.preimages
        /\ e.dirties[NoHash].children = b.dirties[NoHash].children
    BY <1>2, <1>3, <1>4, StoreTied
  <1>6. Linked(e, K)
    BY <1>3, <1>5, LinkedKept
  <1>7. Nodes(e) = Nodes(b)
    BY <1>5 DEF Nodes
  <1> QED BY <1>3, <1>5, <1>6, <1>7

\* The nodes of a list in which what a node refers to comes before it.
LEMMA StoreSound ==
  ASSUME NEW d, IsDatabase(d), NEW K, Sound(d, K), Linked(d, K),
         NEW U, U \subseteq Hashes, NEW s \in Seq(Hashes), Range(s) = U,
         InOrder(s, U, [h \in U |-> References(h)]),
         \A h \in U : References(h) \subseteq U \cup Nodes(d) \cup K,
         NEW e, e = FoldLeft(storeNode, d, s)
  PROVE  /\ IsDatabase(e) /\ Sound(e, K) /\ Linked(e, K)
         /\ Nodes(e) = Nodes(d) \cup U
         /\ e.preimages = d.preimages
         /\ e.dirties[NoHash].children = d.dirties[NoHash].children
  <1>1. PICK n : n = Len(s)
    OBVIOUS
  <1>2. n \in Nat /\ DOMAIN s = 1 .. n /\ \A k \in 1 .. n : s[k] \in Hashes /\ s[k] \in U
    BY <1>1, LenProperties, ElementOfSeq DEF Range
  <1>3. PICK a : Turns(<<"store">>, s, d, n, a) /\ FoldLeft(storeNode, d, s) = a[n]
    BY <1>2, StoreTurns
  <1>4. a[0] = d /\ \A k \in 1 .. n : a[k] = storeNode(a[k - 1], s[k])
    BY <1>3 DEF Turns, Turn
  <1> DEFINE Stored(k) == /\ IsDatabase(a[k]) /\ Sound(a[k], K) /\ Linked(a[k], K)
                          /\ Nodes(a[k]) = Nodes(d) \cup {s[i] : i \in 1 .. k}
                          /\ a[k].preimages = d.preimages
                          /\ a[k].dirties[NoHash].children = d.dirties[NoHash].children
  <1>5. PICK B \in SUBSET (0 .. n) : B = {k \in 0 .. n : ~ Stored(k)}
    OBVIOUS
  <1>6. ASSUME B # {} PROVE FALSE
    <2>1. PICK k \in B : \A i \in B : k <= i
      BY <1>2, <1>6, FirstOne
    <2>2. k \in 0 .. n /\ ~ Stored(k)
      BY <1>5, <2>1
    <2>3. k # 0
      <3>1. Stored(0)
        <4>1. {s[i] : i \in 1 .. 0} = {}
          OBVIOUS
        <4> QED BY <1>4, <4>1
      <3> QED BY <2>2, <3>1
    <2>4. k - 1 \in 0 .. n /\ k - 1 < k /\ k \in 1 .. n
      BY <1>2, <2>2, <2>3
    <2>5. k - 1 \notin B
      BY <2>1, <2>4
    <2>6. PICK c, f, h : c = a[k - 1] /\ f = a[k] /\ h = s[k]
      OBVIOUS
    <2>7. Stored(k - 1)
      BY <1>5, <2>4, <2>5
    <2>8. /\ IsDatabase(c) /\ Sound(c, K) /\ Linked(c, K)
          /\ Nodes(c) = Nodes(d) \cup {s[i] : i \in 1 .. k - 1}
          /\ c.preimages = d.preimages
          /\ c.dirties[NoHash].children = d.dirties[NoHash].children
      BY <2>6, <2>7
    <2>9. f = storeNode(c, h) /\ h \in Hashes /\ h \in U
      BY <1>2, <1>4, <2>4, <2>6
    <2>10. References(h) \subseteq Nodes(c) \cup K
      <3>1. ASSUME NEW y \in References(h), y \in U PROVE y \in Nodes(c)
        <4>1. k \in DOMAIN s /\ y \in [x \in U |-> References(x)][s[k]] \cap U
          BY <1>2, <2>4, <2>6, <2>9, <3>1
        <4>2. PICK j \in 1 .. k - 1 : s[j] = y
          BY <4>1 DEF InOrder
        <4> QED BY <2>8, <4>2
      <3>2. References(h) \subseteq U \cup Nodes(d) \cup K
        BY <2>9
      <3> QED BY <2>8, <3>1, <3>2
    <2>11. /\ IsDatabase(f) /\ Sound(f, K) /\ Linked(f, K)
           /\ Nodes(f) = Nodes(c) \cup {h}
           /\ f.preimages = c.preimages
           /\ f.dirties[NoHash].children = c.dirties[NoHash].children
      BY <2>8, <2>9, <2>10, StoreNodeSound
    <2>12. {s[i] : i \in 1 .. k} = {s[i] : i \in 1 .. k - 1} \cup {h}
      <3>1. \A i \in 1 .. k : i \in 1 .. k - 1 \/ i = k
        BY <2>4
      <3>2. k \in 1 .. k /\ \A i \in 1 .. k - 1 : i \in 1 .. k
        BY <2>4
      <3> QED BY <2>6, <3>1, <3>2
    <2>13. Stored(k)
      BY <2>6, <2>8, <2>11, <2>12
    <2> QED BY <2>2, <2>13
  <1>7. n \in 0 .. n
    BY <1>2
  <1>8. Stored(n)
    BY <1>5, <1>6, <1>7
  <1>9. {s[i] : i \in 1 .. n} = U
    BY <1>2 DEF Range
  <1> QED BY <1>3, <1>8, <1>9

-----------------------------------------------------------------------------
(* The flush list.                                                         *)

\* d has become e, and only the links may differ.
Relinked(d, e) ==
  /\ IsDatabase(e) /\ DOMAIN e.dirties = DOMAIN d.dirties
  /\ KeepsRefs(d, e) /\ KeepsCounts(d, e)
  /\ e.size = d.size /\ e.preimages = d.preimages

\* d has become e, with the links of x changed to v.
PrevSet(d, x, v, e) ==
  /\ Relinked(d, e) /\ e.oldest = d.oldest /\ e.newest = d.newest
  /\ \A y \in DOMAIN d.dirties : e.dirties[y].flushNext = d.dirties[y].flushNext
  /\ \A y \in DOMAIN d.dirties :
       e.dirties[y].flushPrev = IF y = x THEN v ELSE d.dirties[y].flushPrev
NextSet(d, x, v, e) ==
  /\ Relinked(d, e) /\ e.oldest = d.oldest /\ e.newest = d.newest
  /\ \A y \in DOMAIN d.dirties : e.dirties[y].flushPrev = d.dirties[y].flushPrev
  /\ \A y \in DOMAIN d.dirties :
       e.dirties[y].flushNext = IF y = x THEN v ELSE d.dirties[y].flushNext
EndsSet(d, v, w, e) ==
  Relinked(d, e) /\ e.oldest = v /\ e.newest = w /\ e.dirties = d.dirties

\* One link.
LEMMA SetLink ==
  ASSUME NEW d, IsDatabase(d), NEW x \in DOMAIN d.dirties, NEW v \in OrNone
  PROVE  /\ PrevSet(d, x, v, [d EXCEPT !.dirties[x].flushPrev = v])
         /\ NextSet(d, x, v, [d EXCEPT !.dirties[x].flushNext = v])
  <1>1. PICK n, m, o : /\ n = d.dirties[x]
                       /\ m = [n EXCEPT !.flushPrev = v] /\ o = [n EXCEPT !.flushNext = v]
    OBVIOUS
  <1>2. IsNode(n)
    BY <1>1 DEF IsDatabase
  <1>3. n \in [parents : Nat, tracked : BOOLEAN, children : {n.children},
               flushPrev : OrNone, flushNext : OrNone]
    BY <1>2 DEF IsNode
  <1>4. /\ m \in [parents : Nat, tracked : BOOLEAN, children : {n.children},
                  flushPrev : OrNone, flushNext : OrNone]
        /\ m.parents = n.parents /\ m.tracked = n.tracked /\ m.children = n.children
        /\ m.flushPrev = v /\ m.flushNext = n.flushNext
    BY <1>1, <1>3
  <1>5. /\ o \in [parents : Nat, tracked : BOOLEAN, children : {n.children},
                  flushPrev : OrNone, flushNext : OrNone]
        /\ o.parents = n.parents /\ o.tracked = n.tracked /\ o.children = n.children
        /\ o.flushPrev = n.flushPrev /\ o.flushNext = v
    BY <1>1, <1>3
  <1>6. IsNode(m) /\ IsNode(o)
    BY <1>2, <1>4, <1>5 DEF IsNode
  <1>7. /\ d \in [dirties : {d.dirties}, oldest : OrNone, newest : OrNone, size : Int,
                  preimages : SUBSET Keys]
        /\ d.dirties = [y \in DOMAIN d.dirties |-> d.dirties[y]]
        /\ DOMAIN d.dirties \subseteq OrNone /\ NoHash \in DOMAIN d.dirties
        /\ \A y \in DOMAIN d.dirties : IsNode(d.dirties[y])
    BY DEF IsDatabase
  <1>8. ASSUME NEW r, IsNode(r), r.parents = n.parents, r.tracked = n.tracked,
               r.children = n.children, NEW e, e = [d EXCEPT !.dirties = [@ EXCEPT ![x] = r]]
        PROVE  /\ Relinked(d, e) /\ e.oldest = d.oldest /\ e.newest = d.newest
               /\ e.dirties[x] = r
               /\ \A y \in DOMAIN d.dirties : y # x => e.dirties[y] = d.dirties[y]
    <2>1. PICK D : D = [d.dirties EXCEPT ![x] = r]
      OBVIOUS
    <2>2. e = [d EXCEPT !.dirties = D]
      BY <1>8, <2>1
    <2>3. /\ DOMAIN D = DOMAIN d.dirties /\ D = [y \in DOMAIN D |-> D[y]]
          /\ D[x] = r /\ \A y \in DOMAIN d.dirties : y # x => D[y] = d.dirties[y]
      BY <1>7, <2>1
    <2>4. /\ e.dirties = D /\ e.oldest = d.oldest /\ e.newest = d.newest
          /\ e.size = d.size /\ e.preimages = d.preimages
          /\ e \in [dirties : {D}, oldest : OrNone, newest : OrNone, size : Int,
                    preimages : SUBSET Keys]
      BY <1>7, <2>2
    <2>5. \A y \in DOMAIN D : IsNode(D[y])
      BY <1>7, <1>8, <2>3
    <2>6. IsDatabase(e)
      BY <1>7, <2>3, <2>4, <2>5 DEF IsDatabase
    <2>7. KeepsRefs(d, e) /\ KeepsCounts(d, e)
      BY <1>1, <1>8, <2>3, <2>4 DEF KeepsRefs, KeepsCounts
    <2> QED BY <2>3, <2>4, <2>6, <2>7 DEF Relinked
  <1>9. PICK e : e = [d EXCEPT !.dirties[x].flushPrev = v]
    OBVIOUS
  <1>10. /\ Relinked(d, e) /\ e.oldest = d.oldest /\ e.newest = d.newest
         /\ e.dirties[x] = m
         /\ \A y \in DOMAIN d.dirties : y # x => e.dirties[y] = d.dirties[y]
    <2>1. e = [d EXCEPT !.dirties = [@ EXCEPT ![x] = m]]
      BY <1>1, <1>9
    <2> QED BY <1>4, <1>6, <1>8, <2>1
  <1>11. PICK f : f = [d EXCEPT !.dirties[x].flushNext = v]
    OBVIOUS
  <1>12. /\ Relinked(d, f) /\ f.oldest = d.oldest /\ f.newest = d.newest
         /\ f.dirties[x] = o
         /\ \A y \in DOMAIN d.dirties : y # x => f.dirties[y] = d.dirties[y]
    <2>1. f = [d EXCEPT !.dirties = [@ EXCEPT ![x] = o]]
      BY <1>1, <1>11
    <2> QED BY <1>5, <1>6, <1>8, <2>1
  <1>13. /\ \A y \in DOMAIN d.dirties : e.dirties[y].flushNext = d.dirties[y].flushNext
         /\ \A y \in DOMAIN d.dirties :
              e.dirties[y].flushPrev = IF y = x THEN v ELSE d.dirties[y].flushPrev
    BY <1>1, <1>4, <1>10
  <1>14. /\ \A y \in DOMAIN d.dirties : f.dirties[y].flushPrev = d.dirties[y].flushPrev
         /\ \A y \in DOMAIN d.dirties :
              f.dirties[y].flushNext = IF y = x THEN v ELSE d.dirties[y].flushNext
    BY <1>1, <1>5, <1>12
  <1> QED BY <1>9, <1>10, <1>11, <1>12, <1>13, <1>14 DEF PrevSet, NextSet

LEMMA SetEnds ==
  ASSUME NEW d, IsDatabase(d), NEW v \in OrNone, NEW w \in OrNone
  PROVE  EndsSet(d, v, w, [[d EXCEPT !.oldest = v] EXCEPT !.newest = w])
  <1>0. PICK e : e = [[d EXCEPT !.oldest = v] EXCEPT !.newest = w]  OBVIOUS
  <1>1. /\ d \in [dirties : {d.dirties}, oldest : OrNone, newest : OrNone, size : Int,
                  preimages : SUBSET Keys]
    BY DEF IsDatabase
  <1>2. /\ e \in [dirties : {d.dirties}, oldest : OrNone, newest : OrNone, size : Int,
                  preimages : SUBSET Keys]
        /\ e.oldest = v /\ e.newest = w /\ e.dirties = d.dirties /\ e.size = d.size
        /\ e.preimages = d.preimages
    BY <1>0, <1>1
  <1>3. IsDatabase(e)
    BY <1>2 DEF IsDatabase
  <1> QED BY <1>0, <1>2, <1>3 DEF Relinked, KeepsRefs, KeepsCounts, EndsSet

LEMMA RelinkedTwice ==
  ASSUME NEW d, NEW e, NEW f, Relinked(d, e), Relinked(e, f)
  PROVE  Relinked(d, f)
  BY DEF Relinked, KeepsRefs, KeepsCounts


\* What unlink does, node by node.
Unlinking(d, h, e) ==
  LET n == d.dirties[h]
  IN  /\ Relinked(d, e)
      /\ e.oldest = IF h = d.oldest THEN n.flushNext ELSE d.oldest
      /\ e.newest = IF h # d.oldest /\ h = d.newest THEN n.flushPrev ELSE d.newest
      /\ \A y \in DOMAIN d.dirties :
           e.dirties[y].flushNext =
             IF h # d.oldest /\ y = n.flushPrev
             THEN IF h = d.newest THEN NoHash ELSE n.flushNext
             ELSE d.dirties[y].flushNext
      /\ \A y \in DOMAIN d.dirties :
           e.dirties[y].flushPrev =
             IF h = d.oldest /\ y = n.flushNext THEN NoHash
             ELSE IF h # d.oldest /\ h # d.newest /\ y = n.flushNext THEN n.flushPrev
             ELSE d.dirties[y].flushPrev

LEMMA UnlinkIs ==
  ASSUME NEW d, IsDatabase(d), NEW h \in DOMAIN d.dirties,
         d.dirties[h].flushPrev \in DOMAIN d.dirties \/ h = d.oldest,
         d.dirties[h].flushNext \in DOMAIN d.dirties
  PROVE  Unlinking(d, h, unlink(d, h))
<1>1. PICK p, x : p = d.dirties[h].flushPrev /\ x = d.dirties[h].flushNext  OBVIOUS
<1>2. /\ p \in OrNone /\ x \in OrNone /\ x \in DOMAIN d.dirties
      /\ NoHash \in OrNone
      /\ d.oldest \in OrNone /\ d.newest \in OrNone
  <2>1. d.oldest \in OrNone /\ d.newest \in OrNone
    BY DatabaseFacts
  <2> QED BY <2>1, <1>1, NodeFacts DEF OrNone
<1>3. PICK e : e = unlink(d, h)  OBVIOUS
<1>4. CASE h = d.oldest
  <2>1. PICK a : a = [[d EXCEPT !.oldest = x] EXCEPT !.newest = d.newest]  OBVIOUS
  <2>2. /\ Relinked(d, a) /\ a.oldest = x /\ a.newest = d.newest /\ a.dirties = d.dirties
    <3>1. EndsSet(d, x, d.newest, a)
      BY <1>2, <2>1, SetEnds
    <3> QED BY <3>1 DEF EndsSet
  <2>3. PICK b : b = [a EXCEPT !.dirties[x].flushPrev = NoHash]  OBVIOUS
  <2>4. IsDatabase(a)
    BY <2>2 DEF Relinked
  <2>5. /\ Relinked(a, b) /\ b.oldest = a.oldest /\ b.newest = a.newest
        /\ \A y \in DOMAIN a.dirties : b.dirties[y].flushNext = a.dirties[y].flushNext
        /\ \A y \in DOMAIN a.dirties :
             b.dirties[y].flushPrev = IF y = x THEN NoHash ELSE a.dirties[y].flushPrev
    <3>1. PrevSet(a, x, NoHash, b)
      BY <2>4, <2>3, <2>2, <1>2, SetLink
    <3> QED BY <3>1 DEF PrevSet
  <2>6. Relinked(d, b)
    BY <2>2, <2>5, RelinkedTwice
  <2>7. e = b
    <3>1. e = [d EXCEPT !.oldest = x, !.dirties[x].flushPrev = NoHash]
      BY <1>4, <1>3, <1>1 DEF unlink
    <3>2. d \in [dirties : {d.dirties}, oldest : OrNone, newest : OrNone, size : Int,
            preimages : SUBSET Keys]
      BY DEF IsDatabase
    <3> QED BY <3>1, <3>2, <2>1, <2>3
  <2> QED BY <2>7, <2>6, <2>5, <2>2, <1>4, <1>3, <1>1 DEF Unlinking
<1>5. CASE h # d.oldest /\ h = d.newest
  <2>1. PICK a : a = [[d EXCEPT !.oldest = d.oldest] EXCEPT !.newest = p]  OBVIOUS
  <2>2. /\ Relinked(d, a) /\ a.oldest = d.oldest /\ a.newest = p /\ a.dirties = d.dirties
    <3>1. EndsSet(d, d.oldest, p, a)
      BY <1>2, <2>1, SetEnds
    <3> QED BY <3>1 DEF EndsSet
  <2>3. PICK b : b = [a EXCEPT !.dirties[p].flushNext = NoHash]  OBVIOUS
  <2>4. IsDatabase(a) /\ p \in DOMAIN d.dirties
    BY <2>2, <1>1, <1>5 DEF Relinked
  <2>5. /\ Relinked(a, b) /\ b.oldest = a.oldest /\ b.newest = a.newest
        /\ \A y \in DOMAIN a.dirties : b.dirties[y].flushPrev = a.dirties[y].flushPrev
        /\ \A y \in DOMAIN a.dirties :
             b.dirties[y].flushNext = IF y = p THEN NoHash ELSE a.dirties[y].flushNext
    <3>1. NextSet(a, p, NoHash, b)
      BY <2>4, <2>3, <2>2, <1>2, SetLink
    <3> QED BY <3>1 DEF NextSet
  <2>6. Relinked(d, b)
    BY <2>2, <2>5, RelinkedTwice
  <2>7. e = b
    <3>1. e = [d EXCEPT !.newest = p, !.dirties[p].flushNext = NoHash]
      BY <1>5, <1>3, <1>1 DEF unlink
    <3>2. d \in [dirties : {d.dirties}, oldest : OrNone, newest : OrNone, size : Int,
            preimages : SUBSET Keys]
      BY DEF IsDatabase
    <3> QED BY <3>1, <3>2, <2>1, <2>3
  <2> QED BY <2>7, <2>6, <2>5, <2>2, <1>5, <1>3, <1>1 DEF Unlinking
<1>6. CASE h # d.oldest /\ h # d.newest
  <2>3. PICK a : a = [d EXCEPT !.dirties[p].flushNext = x]  OBVIOUS
  <2>4. p \in DOMAIN d.dirties
    BY <1>1, <1>6
  <2>5. /\ Relinked(d, a) /\ a.oldest = d.oldest /\ a.newest = d.newest
        /\ \A y \in DOMAIN d.dirties : a.dirties[y].flushPrev = d.dirties[y].flushPrev
        /\ \A y \in DOMAIN d.dirties :
             a.dirties[y].flushNext = IF y = p THEN x ELSE d.dirties[y].flushNext
    <3>1. NextSet(d, p, x, a)
      BY <2>4, <2>3, <1>2, SetLink
    <3> QED BY <3>1 DEF NextSet
  <2>1. PICK b : b = [a EXCEPT !.dirties[x].flushPrev = p]  OBVIOUS
  <2>2. IsDatabase(a) /\ x \in DOMAIN a.dirties /\ DOMAIN a.dirties = DOMAIN d.dirties
    BY <2>5, <1>2 DEF Relinked
  <2>8. /\ Relinked(a, b) /\ b.oldest = a.oldest /\ b.newest = a.newest
        /\ \A y \in DOMAIN a.dirties : b.dirties[y].flushNext = a.dirties[y].flushNext
        /\ \A y \in DOMAIN a.dirties :
             b.dirties[y].flushPrev = IF y = x THEN p ELSE a.dirties[y].flushPrev
    <3>1. PrevSet(a, x, p, b)
      BY <2>1, <2>2, <1>2, SetLink
    <3> QED BY <3>1 DEF PrevSet
  <2>6. Relinked(d, b)
    BY <2>8, <2>5, RelinkedTwice
  <2>7. e = b
    BY <1>6, <1>3, <1>1, <2>1, <2>3 DEF unlink
  <2> QED BY <2>7, <2>6, <2>5, <2>8, <2>2, <1>6, <1>3, <1>1 DEF Unlinking
<1> QED BY <1>3, <1>4, <1>5, <1>6

\* The node after a node determines it.
LEMMA NextUnique ==
  ASSUME NEW d, NEW L, L \subseteq Hashes, NEW pos, Ordered(d, L, pos), NEW x \in L, NEW y \in L,
         d.dirties[x].flushNext = d.dirties[y].flushNext, d.dirties[x].flushNext # NoHash
  PROVE  x = y
<1>1. PICK b : b = d.dirties[x].flushNext  OBVIOUS
<1>2. Follows(L, pos, x, b) /\ Follows(L, pos, y, b) /\ b # NoHash
  BY <1>1 DEF Ordered
<1>3. pos[x] \in Nat /\ pos[y] \in Nat /\ b \in L /\ pos[b] \in Nat
  BY <1>2 DEF Ordered, Follows
<1>4. pos[x] < pos[b] /\ pos[y] < pos[b]
  BY <1>2 DEF Follows
<1>5. pos[x] <= pos[y] \/ pos[b] <= pos[x]
  BY <1>2 DEF Follows
<1>6. pos[y] <= pos[x] \/ pos[b] <= pos[y]
  BY <1>2 DEF Follows
<1>7. pos[x] = pos[y]
  BY ONLY <1>3, <1>4, <1>5, <1>6
<1> QED BY <1>7 DEF Ordered

\* The links around a node of the list.
LEMMA LinkFacts ==
  ASSUME NEW d, IsDatabase(d), NEW L, L \subseteq Nodes(d), NEW pos, Ordered(d, L, pos), NEW h \in L
  PROVE  /\ d.dirties[h].flushNext \in L \cup {NoHash} /\ d.dirties[h].flushNext # h
         /\ d.dirties[h].flushNext = NoHash <=> h = d.newest
         /\ h # d.oldest => /\ d.dirties[h].flushPrev \in L /\ d.dirties[h].flushPrev # h
                            /\ d.dirties[d.dirties[h].flushPrev].flushNext = h
         /\ \A x \in L : d.dirties[x].flushNext = h => h # d.oldest /\ x = d.dirties[h].flushPrev
         /\ d.oldest \in L /\ d.newest \in L /\ h # NoHash /\ h \in DOMAIN d.dirties
<1>1. L \subseteq Hashes /\ NoHash \notin L /\ L \subseteq DOMAIN d.dirties
  BY DatabaseFacts
<1>2. \A x \in L : pos[x] \in Nat
  BY <1>1 DEF Ordered
<1>3. d.oldest \in L /\ d.newest \in L /\ pos[d.oldest] <= pos[h] /\ pos[h] <= pos[d.newest]
  BY DEF Ordered
<1>4. \A x \in L : Follows(L, pos, x, d.dirties[x].flushNext)
  BY DEF Ordered
<1>5. d.dirties[h].flushNext \in L \cup {NoHash} /\ d.dirties[h].flushNext # h
  <2>1. PICK b : b = d.dirties[h].flushNext  OBVIOUS
  <2>2. b # NoHash => b \in L /\ pos[h] < pos[b]
    BY <1>4, <2>1 DEF Follows
  <2>3. pos[h] \in Nat  BY <1>2
  <2>4. b # h
    <3>1. CASE b = NoHash  BY <3>1, <1>1
    <3>2. CASE b # NoHash
      <4>1. pos[h] < pos[b]  BY <3>2, <2>2
      <4> QED BY ONLY <4>1, <2>3
    <3> QED BY <3>1, <3>2
  <2> QED BY <2>1, <2>2, <2>4
<1>6. d.dirties[h].flushNext = NoHash <=> h = d.newest
  <2>1. PICK b : b = d.dirties[h].flushNext  OBVIOUS
  <2>2. pos[h] \in Nat /\ pos[d.newest] \in Nat  BY <1>2, <1>3
  <2>3. ASSUME b = NoHash  PROVE h = d.newest
    <3>1. pos[d.newest] <= pos[h]
      BY <1>4, <1>3, <2>1, <2>3 DEF Follows
    <3>2. pos[d.newest] = pos[h]
      BY ONLY <3>1, <2>2, <1>3
    <3> QED BY <3>2, <1>3 DEF Ordered
  <2>4. ASSUME h = d.newest  PROVE b = NoHash
    <3>1. SUFFICES ASSUME b # NoHash  PROVE FALSE  OBVIOUS
    <3>2. b \in L /\ pos[h] < pos[b]
      BY <1>4, <2>1, <3>1 DEF Follows
    <3>3. pos[b] <= pos[h] /\ pos[b] \in Nat
      BY <3>2, <2>4, <1>2 DEF Ordered
    <3> QED BY ONLY <3>2, <3>3, <2>2
  <2> QED BY <2>1, <2>3, <2>4
<1>7. ASSUME h # d.oldest
      PROVE  /\ d.dirties[h].flushPrev \in L /\ d.dirties[h].flushPrev # h
             /\ d.dirties[d.dirties[h].flushPrev].flushNext = h
  <2>1. /\ d.dirties[h].flushPrev \in L
        /\ d.dirties[d.dirties[h].flushPrev].flushNext = h
    BY <1>7 DEF Ordered
  <2> QED BY <2>1, <1>5
<1>8. ASSUME NEW x \in L, d.dirties[x].flushNext = h
      PROVE  h # d.oldest /\ x = d.dirties[h].flushPrev
  <2>1. Follows(L, pos, x, h) /\ h # NoHash
    BY <1>4, <1>8, <1>1
  <2>2. pos[x] < pos[h]
    BY <2>1 DEF Follows
  <2>3. h # d.oldest
    <3>1. SUFFICES ASSUME h = d.oldest  PROVE FALSE  OBVIOUS
    <3>2. pos[h] <= pos[x]
      BY <3>1 DEF Ordered
    <3>3. pos[h] \in Nat /\ pos[x] \in Nat  BY <1>2
    <3> QED BY ONLY <2>2, <3>2, <3>3
  <2>4. PICK p : p = d.dirties[h].flushPrev  OBVIOUS
  <2>5. p \in L /\ d.dirties[p].flushNext = h
    BY <2>3, <2>4, <1>7
  <2>6. x = p
    BY <2>5, <1>8, <1>1, NextUnique
  <2> QED BY <2>3, <2>4, <2>6
<1> QED BY <1>1, <1>3, <1>5, <1>6, <1>7, <1>8

LEMMA UnlinkOrdered ==
  ASSUME NEW d, IsDatabase(d), NEW L, L \subseteq Nodes(d), NEW pos, Ordered(d, L, pos), NEW h \in L,
         NEW e, e = unlink(d, h)
  PROVE  Relinked(d, e) /\ Ordered(e, L \ {h}, pos)
<1>1. L \subseteq Hashes /\ NoHash \notin L /\ L \subseteq DOMAIN d.dirties /\ NoHash \in DOMAIN d.dirties
      /\ h \in DOMAIN d.dirties
  BY DatabaseFacts DEF Nodes
<1>2. PICK p, x : p = d.dirties[h].flushPrev /\ x = d.dirties[h].flushNext  OBVIOUS
<1>3. /\ x \in L \cup {NoHash} /\ x # h
      /\ x = NoHash <=> h = d.newest
      /\ h # d.oldest => p \in L /\ p # h /\ d.dirties[p].flushNext = h
      /\ \A z \in L : d.dirties[z].flushNext = h => h # d.oldest /\ z = p
      /\ d.oldest \in L /\ d.newest \in L /\ h # NoHash
  BY <1>2, LinkFacts
<1>4. x \in DOMAIN d.dirties /\ (p \in DOMAIN d.dirties \/ h = d.oldest)
  BY <1>3, <1>1
<1>5. Unlinking(d, h, e)
  BY <1>1, <1>2, <1>4, UnlinkIs
<1>6. PICK M : M = L \ {h}  OBVIOUS
<1>7. /\ Relinked(d, e)
      /\ e.oldest = IF h = d.oldest THEN x ELSE d.oldest
      /\ e.newest = IF h # d.oldest /\ h = d.newest THEN p ELSE d.newest
      /\ \A y \in DOMAIN d.dirties :
           e.dirties[y].flushNext =
             IF h # d.oldest /\ y = p THEN x ELSE d.dirties[y].flushNext
      /\ \A y \in DOMAIN d.dirties :
           e.dirties[y].flushPrev =
             IF h = d.oldest /\ y = x THEN NoHash
             ELSE IF h # d.oldest /\ h # d.newest /\ y = x THEN p
             ELSE d.dirties[y].flushPrev
  BY <1>5, <1>2, <1>3 DEF Unlinking
<1>8. /\ \A y \in L : pos[y] \in Nat
      /\ \A y, z \in L : pos[y] = pos[z] => y = z
      /\ \A y \in L : pos[d.oldest] <= pos[y]
      /\ \A y \in L : pos[y] <= pos[d.newest]
      /\ \A y \in L : Follows(L, pos, y, d.dirties[y].flushNext)
      /\ \A y \in L \ {d.oldest} : /\ d.dirties[y].flushPrev \in L
                                   /\ d.dirties[d.dirties[y].flushPrev].flushNext = y
  BY <1>1 DEF Ordered
<1>9. Follows(L, pos, h, x)
  BY <1>8, <1>2
<1>10. h # d.oldest => Follows(L, pos, p, h)
  BY <1>8, <1>3
<1>11. x # NoHash => x \in M /\ pos[h] < pos[x] /\ \A z \in M : pos[z] <= pos[h] \/ pos[x] <= pos[z]
  BY <1>9, <1>6, <1>3 DEF Follows
<1>12. h # d.oldest => p \in M /\ pos[p] < pos[h] /\ \A z \in M : pos[z] <= pos[p] \/ pos[h] <= pos[z]
  BY <1>10, <1>6, <1>3 DEF Follows
<1>13. \A z \in M : pos[z] \in Nat /\ pos[z] # pos[h] /\ pos[h] \in Nat
  BY <1>8, <1>6
<1>14. IF M = {} THEN e.oldest = NoHash
       ELSE /\ e.oldest \in M /\ \A y \in M : pos[e.oldest] <= pos[y]
            /\ e.newest \in M /\ \A y \in M : pos[y] <= pos[e.newest]
  <2>1. CASE h = d.oldest
    <3>1. e.oldest = x /\ e.newest = d.newest
      BY <2>1, <1>7
    <3>2. CASE x = NoHash
      <4>1. h = d.newest  BY <3>2, <1>3
      <4>2. M = {}
        <5>1. SUFFICES ASSUME NEW z \in M  PROVE FALSE  OBVIOUS
        <5>2. pos[h] <= pos[z] /\ pos[z] <= pos[h] /\ pos[z] \in Nat /\ pos[h] \in Nat
          BY <4>1, <2>1, <1>8, <1>6
        <5>3. pos[h] = pos[z]  BY ONLY <5>2
        <5> QED BY <5>3, <1>13
      <4> QED BY <4>2, <3>1, <3>2
    <3>3. CASE x # NoHash
      <4>1. h # d.newest  BY <3>3, <1>3
      <4>2. d.newest \in M /\ \A y \in M : pos[y] <= pos[d.newest]
        BY <4>1, <1>3, <1>6, <1>8
      <4>3. ASSUME NEW y \in M  PROVE pos[x] <= pos[y]
        <5>1. pos[h] <= pos[y]
          BY <2>1, <1>8, <1>6
        <5>2. pos[y] <= pos[h] \/ pos[x] <= pos[y]
          BY <1>11, <3>3
        <5>3. pos[y] \in Nat /\ pos[y] # pos[h] /\ pos[h] \in Nat
          BY <1>13
        <5> QED BY ONLY <5>1, <5>2, <5>3
      <4> QED BY <4>2, <4>3, <3>1, <1>11, <3>3
    <3> QED BY <3>2, <3>3
  <2>2. CASE h # d.oldest
    <3>1. e.oldest = d.oldest
      BY <2>2, <1>7
    <3>2. d.oldest \in M /\ \A y \in M : pos[d.oldest] <= pos[y]
      BY <2>2, <1>3, <1>6, <1>8
    <3>3. CASE h = d.newest
      <4>1. e.newest = p  BY <3>3, <2>2, <1>7
      <4>2. ASSUME NEW y \in M  PROVE pos[y] <= pos[p]
        <5>1. pos[y] <= pos[h] /\ (pos[y] <= pos[p] \/ pos[h] <= pos[y])
          BY <3>3, <2>2, <1>8, <1>12, <1>6
        <5>2. pos[y] \in Nat /\ pos[y] # pos[h] /\ pos[h] \in Nat
          BY <1>13
        <5> QED BY ONLY <5>1, <5>2
      <4> QED BY <4>1, <4>2, <3>1, <3>2, <1>12, <2>2
    <3>4. CASE h # d.newest
      <4>1. e.newest = d.newest /\ d.newest \in M  BY <3>4, <1>7, <1>3, <1>6
      <4> QED BY <4>1, <3>1, <3>2, <1>8, <1>6
    <3> QED BY <3>3, <3>4
  <2> QED BY <2>1, <2>2
<1>15. ASSUME NEW y \in M  PROVE Follows(M, pos, y, e.dirties[y].flushNext)
  <2>1. y \in L /\ y # h /\ y \in DOMAIN d.dirties
    BY <1>6, <1>1
  <2>2. CASE h # d.oldest /\ y = p
    <3>1. e.dirties[y].flushNext = x
      BY <2>2, <1>7, <2>1
    <3>2. pos[p] < pos[h] /\ pos[p] \in Nat /\ pos[h] \in Nat
      BY <2>2, <1>12, <1>13
    <3>3. CASE x = NoHash
      <4>1. ASSUME NEW z \in M  PROVE pos[z] <= pos[y]
        <5>1. pos[z] <= pos[h]
          BY <3>3, <1>3, <1>8, <1>6
        <5>2. pos[z] <= pos[y] \/ pos[h] <= pos[z]
          BY <2>2, <1>12
        <5>3. pos[z] \in Nat /\ pos[z] # pos[h] /\ pos[h] \in Nat
          BY <1>13
        <5> QED BY ONLY <5>1, <5>2, <5>3
      <4> QED BY <4>1, <3>1, <3>3 DEF Follows
    <3>4. CASE x # NoHash
      <4>1. ASSUME NEW z \in M  PROVE pos[z] <= pos[y] \/ pos[x] <= pos[z]
        <5>1. pos[z] <= pos[h] \/ pos[x] <= pos[z]
          BY <3>4, <1>11
        <5>2. pos[z] <= pos[y] \/ pos[h] <= pos[z]
          BY <2>2, <1>12
        <5>3. pos[z] \in Nat /\ pos[z] # pos[h] /\ pos[h] \in Nat
          BY <1>13
        <5> QED BY ONLY <5>1, <5>2, <5>3
      <4>2. x \in M /\ pos[h] < pos[x] /\ pos[x] \in Nat
        BY <3>4, <1>11, <1>13
      <4>3. pos[y] < pos[x]
        <5>1. pos[y] < pos[h] /\ pos[y] \in Nat  BY <3>2, <2>2
        <5> QED BY ONLY <5>1, <4>2, <3>2
      <4> QED BY <4>1, <4>2, <4>3, <3>1, <3>4 DEF Follows
    <3> QED BY <3>3, <3>4
  <2>3. CASE ~ (h # d.oldest /\ y = p)
    <3>1. e.dirties[y].flushNext = d.dirties[y].flushNext
      BY <2>3, <1>7, <2>1
    <3>2. d.dirties[y].flushNext # h
      BY <2>3, <1>3, <2>1
    <3>3. Follows(L, pos, y, d.dirties[y].flushNext)
      BY <1>8, <2>1
    <3> QED BY <3>1, <3>2, <3>3, <1>6 DEF Follows
  <2> QED BY <2>2, <2>3
<1>16. ASSUME NEW y \in M \ {e.oldest}
       PROVE  e.dirties[y].flushPrev \in M /\ e.dirties[e.dirties[y].flushPrev].flushNext = y
  <2>1. y \in L /\ y # h /\ y \in DOMAIN d.dirties
    BY <1>6, <1>1
  <2>2. CASE h = d.oldest
    <3>1. y # x /\ y # d.oldest
      BY <2>2, <2>1, <1>7
    <3>2. PICK z : z = d.dirties[y].flushPrev  OBVIOUS
    <3>3. e.dirties[y].flushPrev = z
      BY <2>2, <2>1, <3>1, <3>2, <1>7
    <3>4. z \in L /\ d.dirties[z].flushNext = y
      BY <3>1, <3>2, <2>1, <1>8
    <3>5. z # h
      BY <3>4, <3>1, <1>2
    <3>6. e.dirties[z].flushNext = y
      BY <3>4, <2>2, <1>7, <1>1
    <3> QED BY <3>3, <3>4, <3>5, <3>6, <1>6
  <2>3. CASE h # d.oldest
    <3>0. e.oldest = d.oldest  BY <2>3, <1>7
    <3>1. CASE y = x
      <4>1. h # d.newest
        BY <3>1, <2>1, <1>3, <1>1
      <4>2. e.dirties[y].flushPrev = p
        BY <4>1, <3>1, <2>1, <2>3, <1>7
      <4>3. e.dirties[p].flushNext = x
        BY <2>3, <1>3, <1>1, <1>7
      <4> QED BY <4>2, <4>3, <3>1, <1>12, <2>3
    <3>2. CASE y # x
      <4>2. PICK z : z = d.dirties[y].flushPrev  OBVIOUS
      <4>3. e.dirties[y].flushPrev = z
        BY <2>3, <2>1, <3>2, <4>2, <1>7
      <4>4. z \in L /\ d.dirties[z].flushNext = y
        BY <3>0, <4>2, <2>1, <1>8
      <4>5. z # h
        BY <4>4, <3>2, <1>2
      <4>6. z # p
        BY <4>4, <1>3, <2>3, <2>1
      <4>7. e.dirties[z].flushNext = y
        BY <4>4, <4>6, <1>7, <1>1
      <4> QED BY <4>3, <4>4, <4>5, <4>7, <1>6
    <3> QED BY <3>1, <3>2
  <2> QED BY <2>2, <2>3
<1>17. \A y, z \in M : pos[y] = pos[z] => y = z
  BY <1>8, <1>6
<1>18. pos \in [Hashes -> Nat]
  BY DEF Ordered
<1>19. Ordered(e, M, pos)
  BY <1>14, <1>15, <1>16, <1>17, <1>18 DEF Ordered
<1> QED BY <1>19, <1>7, <1>6

-----------------------------------------------------------------------------
(* Nodes and references that go away.                                      *)

\* d has become e without the node h, which took n bytes besides its own.
Dropping(d, h, e, n) ==
  /\ IsDatabase(e) /\ DOMAIN e.dirties = DOMAIN d.dirties \ {h}
  /\ \A x \in DOMAIN e.dirties : e.dirties[x] = d.dirties[x]
  /\ e.preimages = d.preimages
  /\ e.size = d.size - HashLength - Size[h] - n

\* drop, with n bytes more and another oldest node.
Dropped(d, h, v, n) == [[drop(d, h) EXCEPT !.oldest = v] EXCEPT !.size = @ - n]

LEMMA DropIs ==
  ASSUME NEW d, IsDatabase(d), NEW h \in Nodes(d), NEW v \in OrNone, NEW n \in Int,
         NEW e, e = Dropped(d, h, v, n)
  PROVE  Dropping(d, h, e, n) /\ e.oldest = v /\ e.newest = d.newest
<1>1. PICK D : D = Restrict(d.dirties, DOMAIN d.dirties \ {h})  OBVIOUS
<1>2. D = [x \in DOMAIN d.dirties \ {h} |-> d.dirties[x]]
  BY <1>1 DEF Restrict
<1>3. /\ d \in [dirties : {d.dirties}, oldest : OrNone, newest : OrNone, size : Int,
                preimages : SUBSET Keys]
      /\ DOMAIN d.dirties \subseteq OrNone /\ NoHash \in DOMAIN d.dirties
      /\ \A y \in DOMAIN d.dirties : IsNode(d.dirties[y])
  BY DEF IsDatabase
<1>4. Size[h] \in Int /\ HashLength \in Int /\ h \in Hashes
  BY DatabaseFacts, RefFacts DEF HashLength
<1>5. PICK k : k = d.size - HashLength - Size[h]  OBVIOUS
<1>6. k \in Int /\ k - n \in Int
  BY <1>3, <1>4, <1>5
<1>7. PICK c : c = [d EXCEPT !.dirties = D]  OBVIOUS
<1>8. /\ c \in [dirties : {D}, oldest : OrNone, newest : OrNone, size : Int, preimages : SUBSET Keys]
      /\ c.size = d.size /\ c.newest = d.newest /\ c.preimages = d.preimages
  BY <1>3, <1>7
<1>9. drop(d, h) = [c EXCEPT !.size = k]
  <2>1. drop(d, h) = [d EXCEPT !.dirties = D, !.size = @ - HashLength - Size[h]]
    BY <1>1 DEF drop
  <2> QED BY <2>1, <1>3, <1>5, <1>7
<1>10. PICK b : b = [[c EXCEPT !.size = k] EXCEPT !.oldest = v]  OBVIOUS
<1>13. /\ b \in [dirties : {D}, oldest : OrNone, newest : OrNone, size : Int, preimages : SUBSET Keys]
       /\ b.size = k /\ b.oldest = v /\ b.newest = d.newest /\ b.preimages = d.preimages
  BY <1>6, <1>8, <1>10
<1>14. e = [b EXCEPT !.size = k - n]
  BY <1>9, <1>10, <1>13 DEF Dropped
<1>11. /\ e.dirties = D /\ e.oldest = v /\ e.newest = d.newest /\ e.size = k - n
       /\ e.preimages = d.preimages
       /\ e \in [dirties : {D}, oldest : OrNone, newest : OrNone, size : Int,
                 preimages : SUBSET Keys]
  BY <1>6, <1>13, <1>14
<1>12. /\ DOMAIN D = DOMAIN d.dirties \ {h} /\ D = [x \in DOMAIN D |-> D[x]]
       /\ \A x \in DOMAIN D : D[x] = d.dirties[x]
       /\ DOMAIN D \subseteq OrNone /\ NoHash \in DOMAIN D
       /\ \A y \in DOMAIN D : IsNode(D[y])
  <2>1. h # NoHash  BY DatabaseFacts
  <2> QED BY <1>2, <1>3, <2>1
<1>15. IsDatabase(e)
  BY <1>11, <1>12 DEF IsDatabase
<1>16. e.size = d.size - HashLength - Size[h] - n
  BY <1>5, <1>11
<1> QED BY <1>11, <1>12, <1>15, <1>16 DEF Dropping

\* d has become e: the parent has given up a reference to the child.
Forgetting(d, child, parent, e) ==
  LET refs == d.dirties[parent].children
      rest == e.dirties[parent].children
  IN  /\ IsDatabase(e) /\ DOMAIN e.dirties = DOMAIN d.dirties
      /\ KeepsLinks(d, e) /\ KeepsCounts(d, e) /\ e.preimages = d.preimages
      /\ \A x \in DOMAIN d.dirties : e.dirties[x].tracked = d.dirties[x].tracked
      /\ \A x \in DOMAIN d.dirties \ {parent} : e.dirties[x].children = d.dirties[x].children
      /\ DOMAIN rest = IF child \in DOMAIN refs /\ refs[child] > 1 THEN DOMAIN refs
                       ELSE DOMAIN refs \ {child}
      /\ \A x \in DOMAIN rest : rest[x] = IF x = child THEN refs[x] - 1 ELSE refs[x]
      /\ e.size = d.size - (IF child \in DOMAIN refs /\ refs[child] <= 1 THEN childSize ELSE 0)

\* d has become c, with the map r at a node and the size k.
Remapped(d, parent, r, k, c) ==
  /\ IsDatabase(c) /\ DOMAIN c.dirties = DOMAIN d.dirties
  /\ KeepsLinks(d, c) /\ KeepsCounts(d, c) /\ c.preimages = d.preimages
  /\ \A x \in DOMAIN d.dirties : c.dirties[x].tracked = d.dirties[x].tracked
  /\ \A x \in DOMAIN d.dirties \ {parent} : c.dirties[x].children = d.dirties[x].children
  /\ c.dirties[parent].children = r /\ c.size = k

LEMMA ForgetIs ==
  ASSUME NEW d, IsDatabase(d), NEW parent \in DOMAIN d.dirties, NEW child
  PROVE  Forgetting(d, child, parent, forget(d, child, parent))
<1>1. PICK n, refs : n = d.dirties[parent] /\ refs = d.dirties[parent].children  OBVIOUS
<1>2. PICK e : e = forget(d, child, parent)  OBVIOUS
<1>3. /\ d \in [dirties : {d.dirties}, oldest : OrNone, newest : OrNone, size : Int,
                preimages : SUBSET Keys]
      /\ d.dirties = [y \in DOMAIN d.dirties |-> d.dirties[y]]
      /\ DOMAIN d.dirties \subseteq OrNone /\ NoHash \in DOMAIN d.dirties
      /\ \A y \in DOMAIN d.dirties : IsNode(d.dirties[y])
  BY DEF IsDatabase
<1>4. /\ n \in [parents : Nat, tracked : BOOLEAN, children : {n.children},
                flushPrev : OrNone, flushNext : OrNone]
      /\ DOMAIN refs \subseteq Roots /\ refs \in [DOMAIN refs -> Nat \ {0}]
      /\ n.children = refs
  BY <1>1, <1>3 DEF IsNode
<1>5. childSize \in Int
  BY DEF childSize, HashLength
\* A node whose map has become r.
<1>6. ASSUME NEW r, DOMAIN r \subseteq Roots, r \in [DOMAIN r -> Nat \ {0}], NEW k \in Int,
             NEW c, c = [[d EXCEPT !.dirties[parent].children = r] EXCEPT !.size = k]
      PROVE  Remapped(d, parent, r, k, c)
  <2>1. PICK m, D : m = [n EXCEPT !.children = r] /\ D = [d.dirties EXCEPT ![parent] = m]
    OBVIOUS
  <2>2. /\ m \in [parents : Nat, tracked : BOOLEAN, children : {r},
                  flushPrev : OrNone, flushNext : OrNone]
        /\ m.parents = n.parents /\ m.tracked = n.tracked /\ m.children = r
        /\ m.flushPrev = n.flushPrev /\ m.flushNext = n.flushNext
    BY <2>1, <1>4
  <2>3. IsNode(m)
    BY <2>2, <1>6 DEF IsNode
  <2>4. /\ DOMAIN D = DOMAIN d.dirties /\ D = [y \in DOMAIN D |-> D[y]]
        /\ D[parent] = m /\ \A y \in DOMAIN d.dirties : y # parent => D[y] = d.dirties[y]
    BY <2>1, <1>3
  <2>5. c = [[d EXCEPT !.dirties = D] EXCEPT !.size = k]
    BY <1>6, <2>1, <1>1
  <2>6. /\ c.dirties = D /\ c.oldest = d.oldest /\ c.newest = d.newest
        /\ c.size = k /\ c.preimages = d.preimages
        /\ c \in [dirties : {D}, oldest : OrNone, newest : OrNone, size : Int,
                  preimages : SUBSET Keys]
    BY <2>5, <1>3, <1>6
  <2>7. \A y \in DOMAIN D : IsNode(D[y])
    BY <2>3, <2>4, <1>3
  <2>8. IsDatabase(c)
    BY <2>4, <2>6, <2>7, <1>3 DEF IsDatabase
  <2>9. KeepsLinks(d, c) /\ KeepsCounts(d, c)
    BY <1>1, <2>2, <2>4, <2>6 DEF KeepsLinks, KeepsCounts
  <2> QED BY <1>1, <2>2, <2>4, <2>6, <2>8, <2>9 DEF Remapped
<1>7. CASE child \notin DOMAIN refs
  <2>1. e = d
    BY <1>1, <1>2, <1>7 DEF forget
  <2>2. d.size = d.size - 0
    BY <1>3
  <2> QED BY <2>1, <2>2, <1>1, <1>2, <1>7 DEF Forgetting, KeepsLinks, KeepsCounts
<1>8. CASE child \in DOMAIN refs /\ refs[child] > 1
  <2>1. PICK r : r = [refs EXCEPT ![child] = @ - 1]  OBVIOUS
  <2>2. /\ DOMAIN r = DOMAIN refs /\ r \in [DOMAIN r -> Nat \ {0}]
        /\ \A x \in DOMAIN r : r[x] = IF x = child THEN refs[x] - 1 ELSE refs[x]
    <3>1. refs[child] \in Nat /\ refs[child] > 1  BY <1>4, <1>8
    <3>2. refs[child] - 1 \in Nat \ {0}  BY ONLY <3>1
    <3> QED BY <3>2, <2>1, <1>4
  <2>3. PICK c : c = [[d EXCEPT !.dirties[parent].children = r] EXCEPT !.size = d.size]  OBVIOUS
  <2>4. /\ IsDatabase(c) /\ DOMAIN c.dirties = DOMAIN d.dirties
        /\ KeepsLinks(d, c) /\ KeepsCounts(d, c) /\ c.preimages = d.preimages
        /\ \A x \in DOMAIN d.dirties : c.dirties[x].tracked = d.dirties[x].tracked
        /\ \A x \in DOMAIN d.dirties \ {parent} : c.dirties[x].children = d.dirties[x].children
        /\ c.dirties[parent].children = r /\ c.size = d.size
    <3>1. d.size \in Int /\ DOMAIN r \subseteq Roots  BY <2>2, <1>3, <1>4
    <3>2. Remapped(d, parent, r, d.size, c)
      BY <3>1, <2>2, <2>3, <1>6
    <3> QED BY <3>2 DEF Remapped
  <2>5. e = c
    <3>1. e = [d EXCEPT !.dirties[parent].children[child] = @ - 1]
      BY <1>1, <1>2, <1>8 DEF forget
    <3>2. e = [d EXCEPT !.dirties[parent].children = r]
      BY <3>1, <2>1, <1>1
    <3> QED BY <3>2, <2>3, <1>3
  <2>6. d.size = d.size - 0 /\ ~ refs[child] <= 1
    BY <1>3, <1>4, <1>8
  <2> QED BY <2>2, <2>4, <2>5, <2>6, <1>1, <1>2, <1>8 DEF Forgetting
<1>9. CASE child \in DOMAIN refs /\ ~ refs[child] > 1
  <2>1. PICK r : r = Restrict(refs, DOMAIN refs \ {child})  OBVIOUS
  <2>2. r = [x \in DOMAIN refs \ {child} |-> refs[x]]
    BY <2>1 DEF Restrict
  <2>7. /\ DOMAIN r = DOMAIN refs \ {child} /\ r \in [DOMAIN r -> Nat \ {0}]
        /\ \A x \in DOMAIN r : r[x] = refs[x] /\ x # child
    BY <2>2, <1>4
  <2>8. d.size - childSize \in Int  BY <1>3, <1>5
  <2>3. PICK c : c = [[d EXCEPT !.dirties[parent].children = r] EXCEPT !.size = d.size - childSize]
    OBVIOUS
  <2>4. /\ IsDatabase(c) /\ DOMAIN c.dirties = DOMAIN d.dirties
        /\ KeepsLinks(d, c) /\ KeepsCounts(d, c) /\ c.preimages = d.preimages
        /\ \A x \in DOMAIN d.dirties : c.dirties[x].tracked = d.dirties[x].tracked
        /\ \A x \in DOMAIN d.dirties \ {parent} : c.dirties[x].children = d.dirties[x].children
        /\ c.dirties[parent].children = r /\ c.size = d.size - childSize
    <3>1. DOMAIN r \subseteq Roots  BY <2>7, <1>4
    <3>2. Remapped(d, parent, r, d.size - childSize, c)
      BY <3>1, <2>7, <2>8, <2>3, <1>6
    <3> QED BY <3>2 DEF Remapped
  <2>5. e = c
    <3>1. e = [d EXCEPT !.dirties[parent].children = r, !.size = @ - childSize]
      BY <1>1, <1>2, <1>9, <2>1 DEF forget
    <3> QED BY <3>1, <2>3, <1>3
  <2>6. refs[child] <= 1
    BY <1>4, <1>9
  <2> QED BY <2>7, <2>4, <2>5, <2>6, <1>1, <1>2, <1>9 DEF Forgetting
<1> QED BY <1>7, <1>8, <1>9

\* d has become e: only the count of the child may have changed, to m.
Counting(d, child, e, m) ==
  /\ IsDatabase(e) /\ DOMAIN e.dirties = DOMAIN d.dirties
  /\ KeepsLinks(d, e) /\ KeepsRefs(d, e) /\ e.preimages = d.preimages /\ e.size = d.size
  /\ e.dirties[child].parents = m
  /\ \A x \in DOMAIN d.dirties \ {child} : e.dirties[x].parents = d.dirties[x].parents

LEMMA CountDownIs ==
  ASSUME NEW d, IsDatabase(d), NEW child \in DOMAIN d.dirties, NEW m, m = d.dirties[child].parents
  PROVE  Counting(d, child, countDown(d, child), IF m > 0 THEN m - 1 ELSE m)
<1>1. PICK n : n = d.dirties[child]  OBVIOUS
<1>2. PICK k : k = IF m > 0 THEN m - 1 ELSE m  OBVIOUS
<1>3. /\ d \in [dirties : {d.dirties}, oldest : OrNone, newest : OrNone, size : Int,
                preimages : SUBSET Keys]
      /\ d.dirties = [y \in DOMAIN d.dirties |-> d.dirties[y]]
      /\ DOMAIN d.dirties \subseteq OrNone /\ NoHash \in DOMAIN d.dirties
      /\ \A y \in DOMAIN d.dirties : IsNode(d.dirties[y])
  BY DEF IsDatabase
<1>4. n \in [parents : Nat, tracked : BOOLEAN, children : {n.children},
             flushPrev : OrNone, flushNext : OrNone]
  BY <1>1, <1>3 DEF IsNode
<1>5. k \in Nat
  <2>1. m \in Nat  BY <1>1, <1>4
  <2> QED BY ONLY <2>1, <1>2
<1>6. PICK c, D : c = [n EXCEPT !.parents = k] /\ D = [d.dirties EXCEPT ![child] = c]  OBVIOUS
<1>7. /\ c \in [parents : Nat, tracked : BOOLEAN, children : {n.children},
                flushPrev : OrNone, flushNext : OrNone]
      /\ c.parents = k /\ c.tracked = n.tracked /\ c.children = n.children
      /\ c.flushPrev = n.flushPrev /\ c.flushNext = n.flushNext
  BY <1>4, <1>5, <1>6
<1>8. IsNode(c)
  <2>1. IsNode(n)  BY <1>1, <1>3
  <2> QED BY <2>1, <1>7 DEF IsNode
<1>9. PICK e : e = countDown(d, child)  OBVIOUS
<1>10. e = [d EXCEPT !.dirties = D]
  BY <1>9, <1>6, <1>2, <1>1 DEF countDown
<1>11. /\ DOMAIN D = DOMAIN d.dirties /\ D = [y \in DOMAIN D |-> D[y]]
       /\ D[child] = c /\ \A y \in DOMAIN d.dirties : y # child => D[y] = d.dirties[y]
  BY <1>3, <1>6
<1>12. /\ e.dirties = D /\ e.oldest = d.oldest /\ e.newest = d.newest
       /\ e.size = d.size /\ e.preimages = d.preimages
       /\ e \in [dirties : {D}, oldest : OrNone, newest : OrNone, size : Int,
                 preimages : SUBSET Keys]
  BY <1>3, <1>10
<1>13. \A y \in DOMAIN D : IsNode(D[y])
  BY <1>3, <1>8, <1>11
<1>14. IsDatabase(e)
  BY <1>3, <1>11, <1>12, <1>13 DEF IsDatabase
<1>15. KeepsLinks(d, e) /\ KeepsRefs(d, e)
  BY <1>1, <1>7, <1>11, <1>12 DEF KeepsLinks, KeepsRefs
<1> QED BY <1>2, <1>7, <1>9, <1>11, <1>12, <1>14, <1>15 DEF Counting

LEMMA DropSame ==
  ASSUME NEW d, IsDatabase(d), NEW h
  PROVE  [drop(d, h) EXCEPT !.oldest = d.oldest] = drop(d, h)
<1>1. PICK D : D = Restrict(d.dirties, DOMAIN d.dirties \ {h})  OBVIOUS
<1>2. d \in [dirties : {d.dirties}, oldest : OrNone, newest : OrNone, size : Int,
             preimages : SUBSET Keys]
  BY DEF IsDatabase
<1>3. PICK c, k : c = [d EXCEPT !.dirties = D] /\ k = d.size - HashLength - Size[h]  OBVIOUS
<1>4. drop(d, h) = [d EXCEPT !.dirties = D, !.size = @ - HashLength - Size[h]]
  BY <1>1 DEF drop
<1>5. drop(d, h) = [c EXCEPT !.size = k]
  BY <1>2, <1>3, <1>4
<1>6. c.oldest = d.oldest /\ c = [c EXCEPT !.oldest = d.oldest]
  BY <1>2, <1>3
<1> QED BY <1>2, <1>3, <1>5, <1>6

\* d has become e without a node and with all that the node took.
Leaving(d, h, e) ==
  /\ IsDatabase(e) /\ DOMAIN e.dirties = DOMAIN d.dirties \ {h}
  /\ KeepsRefs(d, e) /\ KeepsCounts(d, e)
  /\ e.preimages = d.preimages
  /\ e.size = d.size - Weight(d, h)

LEMMA LeavingWeighed ==
  ASSUME NEW d, IsDatabase(d), NEW h \in Nodes(d), NEW e, Leaving(d, h, e), Weighed(d)
  PROVE  Weighed(e)
<1>1. /\ IsDatabase(e) /\ Nodes(e) = Nodes(d) \ {h} /\ h # NoHash /\ NoHash \in DOMAIN e.dirties
      /\ NoHash \in DOMAIN d.dirties
  BY DatabaseFacts DEF Leaving, Nodes, IsDatabase
<1>2. \A x \in Nodes(e) : Weight(e, x) = Weight(d, x)
  <2>1. TAKE x \in Nodes(e)
  <2>2. e.dirties[x].children = d.dirties[x].children /\ e.dirties[x].tracked = d.dirties[x].tracked
    BY DEF Leaving, KeepsRefs, Nodes
  <2> QED BY <2>2, WeightKept
<1>3. Total(d) = Total(e) + Weight(d, h)
  BY <1>1, <1>2, TotalAdds
<1>4. e.dirties[NoHash].children = d.dirties[NoHash].children
  BY <1>1 DEF Leaving, KeepsRefs
<1>5. PICK n : n = childSize * Cardinality(DOMAIN d.dirties[NoHash].children)  OBVIOUS
<1>6. n \in Int
  <2>1. Cardinality(DOMAIN d.dirties[NoHash].children) \in Nat
    BY <1>1, NodeFacts
  <2> QED BY <2>1, <1>5 DEF childSize, HashLength
<1>7. d.size = Total(d) + n
  BY <1>5 DEF Weighed, Total
<1>8. e.size = d.size - Weight(d, h)
  BY DEF Leaving
<1>9. Total(d) \in Nat /\ Total(e) \in Nat /\ Weight(d, h) \in Nat
  BY <1>1, TotalNat, WeightNat
<1>10. e.size = Total(e) + n
  BY ONLY <1>3, <1>6, <1>7, <1>8, <1>9
<1> QED BY <1>10, <1>4, <1>5 DEF Weighed, Total

\* A node that is on disk with what it refers to leaves.
LEMMA LeavingSound ==
  ASSUME NEW d, IsDatabase(d), NEW K, Sound(d, K), NEW h \in Nodes(d), h \in K, References(h) \subseteq K,
         NEW e, Leaving(d, h, e)
  PROVE  Sound(e, K)
<1>1. /\ IsDatabase(e) /\ Nodes(e) = Nodes(d) \ {h} /\ h # NoHash /\ NoHash \in DOMAIN e.dirties
      /\ NoHash \in DOMAIN d.dirties /\ KeepsRefs(d, e) /\ KeepsCounts(d, e)
      /\ DOMAIN e.dirties = DOMAIN d.dirties \ {h}
  BY DatabaseFacts DEF Leaving, Nodes, IsDatabase
<1>2. Maps(e) /\ Weighed(e)
  BY <1>1, MapsKept, LeavingWeighed DEF Sound
<1>3. Closed(Nodes(e), K)
  BY <1>1 DEF Sound, Closed
<1>4. \A x \in Nodes(e) : Tied(e, x, K)
  <2>1. TAKE x \in Nodes(e)
  <2>2. Tied(d, x, K)  BY <1>1 DEF Sound
  <2>3. e.dirties[x].children = d.dirties[x].children
    BY <1>1 DEF KeepsRefs, Nodes
  <2> QED BY <2>2, <2>3 DEF Tied
<1>5. DOMAIN e.dirties[NoHash].children \subseteq Nodes(e) \cup K
  <2>1. e.dirties[NoHash].children = d.dirties[NoHash].children
    BY <1>1 DEF KeepsRefs
  <2> QED BY <2>1, <1>1 DEF Sound
<1>6. Counted(e, Nodes(e), K)
  <2>1. SUFFICES ASSUME NEW y \in Nodes(e) \ K
                 PROVE  e.dirties[y].parents = Counts(e, Nodes(e), y)
    BY DEF Counted
  <2>2. e.dirties[y].parents = d.dirties[y].parents
    BY <1>1 DEF KeepsCounts, Nodes
  <2>3. d.dirties[y].parents = Referrers(d, DOMAIN d.dirties, y)
    <3>1. d.dirties[y].parents = Counts(d, Nodes(d), y)
      BY <1>1 DEF Sound, Counted
    <3> QED BY <3>1, DatabaseFacts DEF Counts
  <2>4. RefersTo(d, h, y) = 0
    <3>1. h \in Hashes /\ h \in DOMAIN d.dirties  BY DatabaseFacts
    <3>2. Range(Kids[h]) \subseteq References(h) /\ Ext[h] \subseteq References(h)
      BY <3>1, RefFacts
    <3>3. DOMAIN d.dirties[h].children \subseteq Ext[h]
      BY DEF Sound, Maps
    <3>4. y \notin Range(Kids[h]) /\ y \notin DOMAIN d.dirties[h].children
      BY <3>2, <3>3
    <3> QED BY <3>1, <3>4, RefersZero
  <2>5. \A q \in DOMAIN e.dirties : RefersTo(e, q, y) = RefersTo(d, q, y)
    <3>1. TAKE q \in DOMAIN e.dirties
    <3>2. e.dirties[q].children = d.dirties[q].children
      BY <1>1 DEF KeepsRefs
    <3> QED BY <3>2, RefersKept
  <2>6. Referrers(d, DOMAIN d.dirties, y) = Referrers(e, DOMAIN e.dirties, y) + RefersTo(d, h, y)
    <3>1. PICK S, T : S = DOMAIN d.dirties /\ T = DOMAIN e.dirties  OBVIOUS
    <3>2. S \in SUBSET DOMAIN d.dirties /\ h \in S /\ T \in SUBSET DOMAIN e.dirties /\ T = S \ {h}
      BY <3>1, <1>1, DatabaseFacts
    <3>3. \A q \in T : RefersTo(e, q, y) = RefersTo(d, q, y)
      BY <3>1, <2>5
    <3>4. Referrers(d, S, y) = Referrers(e, T, y) + RefersTo(d, h, y)
      BY <3>2, <3>3, <1>1, ReferrersAdds
    <3> QED BY <3>1, <3>4
  <2>7. Referrers(e, DOMAIN e.dirties, y) \in Nat
    BY <1>1, ReferrersNat
  <2>8. DOMAIN e.dirties = Nodes(e) \cup {NoHash}
    BY <1>1, DatabaseFacts
  <2> QED BY <2>2, <2>3, <2>4, <2>6, <2>7, <2>8 DEF Counts
<1> QED BY <1>2, <1>3, <1>4, <1>5, <1>6 DEF Sound

LEMMA LeavingNeeded ==
  ASSUME NEW d, NEW h, NEW K, NEW e, Leaving(d, h, e), Needed(d, K)
  PROVE  Needed(e, K)
BY DEF Leaving, KeepsCounts, Needed, Nodes

LEMMA PutIs ==
  ASSUME NEW d, IsDatabase(d), NEW pos, Ordered(d, Nodes(d), pos), NEW h \in Nodes(d)
  PROVE  Leaving(d, h, Put(d, h)) /\ Ordered(Put(d, h), Nodes(d) \ {h}, pos)
<1>1. PICK u, e : u = unlink(d, h) /\ e = Put(d, h)  OBVIOUS
<1>2. Relinked(d, u) /\ Ordered(u, Nodes(d) \ {h}, pos)
  BY <1>1, UnlinkOrdered
<1>3. IsDatabase(u) /\ DOMAIN u.dirties = DOMAIN d.dirties /\ Nodes(u) = Nodes(d) /\ u.oldest \in OrNone
  <2>1. IsDatabase(u) /\ DOMAIN u.dirties = DOMAIN d.dirties  BY <1>2 DEF Relinked
  <2> QED BY <2>1, DatabaseFacts DEF Nodes
<1>4. h \in DOMAIN d.dirties /\ h \in Hashes  BY DatabaseFacts
<1>5. childrenOf(d, h) \in Int /\ Size[h] \in Nat
  BY <1>4, NodeFacts, RefFacts
<1>6. e = [[drop(u, h) EXCEPT !.oldest = u.oldest] EXCEPT !.size = @ - childrenOf(d, h)]
  BY <1>1, <1>3, <1>4, DropSame DEF Put
<1>7. Dropping(u, h, e, childrenOf(d, h)) /\ e.oldest = u.oldest /\ e.newest = u.newest
  <2>1. PICK v, n : v = u.oldest /\ n = childrenOf(d, h)  OBVIOUS
  <2>2. v \in OrNone /\ n \in Int /\ h \in Nodes(u) /\ IsDatabase(u)
    BY <2>1, <1>3, <1>5
  <2>3. e = Dropped(u, h, v, n)
    BY <2>1, <1>6 DEF Dropped
  <2>4. Dropping(u, h, e, n) /\ e.oldest = v /\ e.newest = u.newest
    BY ONLY <2>2, <2>3, DropIs
  <2> QED BY <2>1, <2>4
<1>8. /\ IsDatabase(e) /\ DOMAIN e.dirties = DOMAIN d.dirties \ {h}
      /\ \A x \in DOMAIN e.dirties : e.dirties[x] = u.dirties[x]
      /\ e.preimages = d.preimages
      /\ e.size = d.size - HashLength - Size[h] - childrenOf(d, h)
  BY <1>2, <1>3, <1>7 DEF Dropping, Relinked
<1>9. KeepsRefs(d, e) /\ KeepsCounts(d, e)
  BY <1>2, <1>8 DEF Relinked, KeepsRefs, KeepsCounts
<1>10. e.size = d.size - Weight(d, h)
  <2>1. PICK s, c : s = Size[h] /\ c = childrenOf(d, h)  OBVIOUS
  <2>2. d.size \in Int  BY DatabaseFacts
  <2>3. Weight(d, h) = 32 + s + c  BY <2>1 DEF Weight, HashLength
  <2>4. e.size = d.size - 32 - s - c  BY <2>1, <1>8 DEF HashLength
  <2>5. s \in Int /\ c \in Int  BY <2>1, <1>5
  <2> QED BY ONLY <2>2, <2>3, <2>4, <2>5
<1>11. Leaving(d, h, e)
  BY <1>8, <1>9, <1>10 DEF Leaving
<1>12. KeepsLinks(u, e)
  BY <1>7, <1>8, <1>3 DEF KeepsLinks
<1>13. Ordered(e, Nodes(d) \ {h}, pos)
  <2>1. PICK M : M = Nodes(d) \ {h}  OBVIOUS
  <2>2. M \subseteq DOMAIN u.dirties /\ M \subseteq DOMAIN e.dirties
    BY <2>1, <1>3, <1>8 DEF Nodes
  <2>3. Ordered(u, M, pos)  BY <2>1, <1>2
  <2>4. Ordered(e, M, pos)
    BY <2>2, <2>3, <1>12, OrderedKept
  <2> QED BY <2>1, <2>4
<1> QED BY <1>1, <1>11, <1>13

LEMMA ClearOldestIs ==
  ASSUME NEW d, IsDatabase(d), NEW pos, Ordered(d, Nodes(d), pos), NEW stop, d.oldest # stop,
         d.oldest \in Nodes(d)
  PROVE  /\ Leaving(d, d.oldest, clearOldest(d, stop))
         /\ Ordered(clearOldest(d, stop), Nodes(d) \ {d.oldest}, pos)
<1>1. PICK h, u, e, x : /\ h = d.oldest /\ u = unlink(d, h) /\ e = clearOldest(d, stop)
                        /\ x = d.dirties[h].flushNext
  OBVIOUS
<1>2. Relinked(d, u) /\ Ordered(u, Nodes(d) \ {h}, pos)
  BY <1>1, UnlinkOrdered
<1>3. IsDatabase(u) /\ DOMAIN u.dirties = DOMAIN d.dirties /\ Nodes(u) = Nodes(d)
  BY <1>2 DEF Relinked, Nodes
<1>4. h \in DOMAIN d.dirties /\ h \in Hashes  BY <1>1, DatabaseFacts
<1>5. childrenOf(d, h) \in Int /\ Size[h] \in Nat /\ x \in OrNone
  BY <1>1, <1>4, NodeFacts, RefFacts
<1>6. e = [[drop(d, h) EXCEPT !.oldest = x] EXCEPT !.size = @ - childrenOf(d, h)]
  <2>1. e = [drop(d, h) EXCEPT !.oldest = x, !.size = @ - childrenOf(d, h)]
    BY <1>1 DEF clearOldest
  <2>2. PICK g : g = drop(d, h)  OBVIOUS
  <2>3. e = [g EXCEPT !.oldest = x, !.size = g.size - childrenOf(d, h)]
    BY <2>1, <2>2
  <2>4. [g EXCEPT !.oldest = x].size = g.size
    OBVIOUS
  <2>5. e = [[g EXCEPT !.oldest = x] EXCEPT !.size = g.size - childrenOf(d, h)]
    BY <2>3
  <2> QED BY <2>2, <2>4, <2>5
<1>7. Dropping(d, h, e, childrenOf(d, h)) /\ e.oldest = x /\ e.newest = d.newest
  <2>1. PICK n : n = childrenOf(d, h)  OBVIOUS
  <2>2. x \in OrNone /\ n \in Int /\ h \in Nodes(d) /\ IsDatabase(d)
    BY <2>1, <1>1, <1>5
  <2>3. e = Dropped(d, h, x, n)
    BY <2>1, <1>6 DEF Dropped
  <2>4. Dropping(d, h, e, n) /\ e.oldest = x /\ e.newest = d.newest
    BY ONLY <2>2, <2>3, DropIs
  <2> QED BY <2>1, <2>4
<1>8. /\ IsDatabase(e) /\ DOMAIN e.dirties = DOMAIN d.dirties \ {h}
      /\ \A y \in DOMAIN e.dirties : e.dirties[y] = d.dirties[y]
      /\ e.preimages = d.preimages
      /\ e.size = d.size - HashLength - Size[h] - childrenOf(d, h)
  BY <1>7 DEF Dropping
<1>9. KeepsRefs(d, e) /\ KeepsCounts(d, e)
  BY <1>8 DEF KeepsRefs, KeepsCounts
<1>10. e.size = d.size - Weight(d, h)
  <2>1. PICK s, c : s = Size[h] /\ c = childrenOf(d, h)  OBVIOUS
  <2>2. d.size \in Int  BY DatabaseFacts
  <2>3. Weight(d, h) = 32 + s + c  BY <2>1 DEF Weight, HashLength
  <2>4. e.size = d.size - 32 - s - c  BY <2>1, <1>8 DEF HashLength
  <2>5. s \in Int /\ c \in Int  BY <2>1, <1>5
  <2> QED BY ONLY <2>2, <2>3, <2>4, <2>5
<1>11. Leaving(d, h, e)
  BY <1>8, <1>9, <1>10 DEF Leaving
<1>12. PICK M : M = Nodes(d) \ {h}  OBVIOUS
<1>13. Unlinking(d, h, u)
  <2>1. x \in Nodes(d) \cup {NoHash}
    BY <1>1, LinkFacts
  <2>2. x \in DOMAIN d.dirties
    BY <2>1, DatabaseFacts
  <2> QED BY <1>1, <1>4, <2>2, UnlinkIs
<1>14. /\ u.oldest = x /\ u.newest = d.newest
       /\ \A y \in DOMAIN d.dirties : u.dirties[y].flushNext = d.dirties[y].flushNext
       /\ \A y \in DOMAIN d.dirties : y # x => u.dirties[y].flushPrev = d.dirties[y].flushPrev
  BY <1>1, <1>13 DEF Unlinking
<1>15. Ordered(u, M, pos) /\ M \subseteq DOMAIN d.dirties /\ M \subseteq DOMAIN e.dirties
  BY <1>2, <1>12, <1>8 DEF Nodes
<1>16. /\ e.oldest = u.oldest /\ e.newest = u.newest
       /\ \A y \in M : e.dirties[y].flushNext = u.dirties[y].flushNext
       /\ \A y \in M \ {u.oldest} : e.dirties[y].flushPrev = u.dirties[y].flushPrev
  BY <1>7, <1>8, <1>14, <1>15
<1>17. Ordered(e, M, pos)
  <2>1. /\ pos \in [Hashes -> Nat]
        /\ \A y, z \in M : pos[y] = pos[z] => y = z
        /\ IF M = {} THEN e.oldest = NoHash
           ELSE /\ e.oldest \in M /\ \A y \in M : pos[e.oldest] <= pos[y]
                /\ e.newest \in M /\ \A y \in M : pos[y] <= pos[e.newest]
    BY <1>15, <1>16 DEF Ordered
  <2>2. \A y \in M : Follows(M, pos, y, e.dirties[y].flushNext)
    BY <1>15, <1>16 DEF Ordered
  <2>3. ASSUME NEW y \in M \ {e.oldest}
        PROVE  /\ e.dirties[y].flushPrev \in M
               /\ e.dirties[e.dirties[y].flushPrev].flushNext = y
    <3>1. /\ u.dirties[y].flushPrev \in M
          /\ u.dirties[u.dirties[y].flushPrev].flushNext = y
      BY <1>15, <1>16 DEF Ordered
    <3> QED BY <3>1, <1>16
  <2> QED BY <2>1, <2>2, <2>3 DEF Ordered
<1> QED BY <1>1, <1>11, <1>12, <1>17

LEMMA SameSound ==
  ASSUME NEW d, IsDatabase(d), NEW K, Sound(d, K), NEW e, IsDatabase(e),
         DOMAIN e.dirties = DOMAIN d.dirties, KeepsRefs(d, e), KeepsCounts(d, e),
         e.size = d.size
  PROVE  Sound(e, K) /\ Nodes(e) = Nodes(d)
<1>1. /\ IsDatabase(e) /\ DOMAIN e.dirties = DOMAIN d.dirties
      /\ KeepsRefs(d, e) /\ KeepsCounts(d, e) /\ e.size = d.size
      /\ Nodes(e) = Nodes(d) /\ NoHash \in DOMAIN d.dirties
  BY DEF Nodes, IsDatabase
<1>2. Maps(e) /\ Weighed(e)
  BY <1>1, MapsKept, WeighedKept DEF Sound
<1>3. Closed(Nodes(e), K)
  BY <1>1 DEF Sound
<1>4. \A x \in Nodes(e) : Tied(e, x, K)
  <2>1. TAKE x \in Nodes(e)
  <2>2. Tied(d, x, K)  BY <1>1 DEF Sound
  <2>3. e.dirties[x].children = d.dirties[x].children
    BY <1>1 DEF KeepsRefs, Nodes
  <2> QED BY <2>2, <2>3 DEF Tied
<1>5. DOMAIN e.dirties[NoHash].children \subseteq Nodes(e) \cup K
  <2>1. e.dirties[NoHash].children = d.dirties[NoHash].children
    BY <1>1 DEF KeepsRefs
  <2> QED BY <2>1, <1>1 DEF Sound
<1>6. Counted(e, Nodes(e), K)
  <2>1. SUFFICES ASSUME NEW y \in Nodes(e) \ K
                 PROVE  e.dirties[y].parents = Counts(e, Nodes(e), y)
    BY DEF Counted
  <2>2. e.dirties[y].parents = d.dirties[y].parents
    BY <1>1 DEF KeepsCounts, Nodes
  <2>3. PICK S : S = Nodes(d) \cup {NoHash}  OBVIOUS
  <2>4. S = DOMAIN d.dirties  BY <2>3, DatabaseFacts
  <2>5. d.dirties[y].parents = Referrers(d, S, y)
    BY <1>1, <2>3 DEF Sound, Counted, Counts
  <2>6. \A q \in S : RefersTo(e, q, y) = RefersTo(d, q, y)
    <3>1. TAKE q \in S
    <3>2. e.dirties[q].children = d.dirties[q].children
      BY <2>4, <1>1 DEF KeepsRefs
    <3> QED BY <3>2, RefersKept
  <2>7. Referrers(e, S, y) = Referrers(d, S, y)
    BY <2>6, ReferrersKept
  <2> QED BY <2>2, <2>3, <2>5, <2>7, <1>1 DEF Counts
<1> QED BY <1>1, <1>2, <1>3, <1>4, <1>5, <1>6 DEF Sound

LEMMA RelinkedSound ==
  ASSUME NEW d, IsDatabase(d), NEW K, Sound(d, K), NEW e, Relinked(d, e)
  PROVE  Sound(e, K) /\ Nodes(e) = Nodes(d)
<1>1. /\ IsDatabase(e) /\ DOMAIN e.dirties = DOMAIN d.dirties
      /\ KeepsRefs(d, e) /\ KeepsCounts(d, e) /\ e.size = d.size
  BY DEF Relinked
<1> QED BY <1>1, SameSound

\* d has become e by nodes that left.
Shrunk(d, e, K, pos) ==
  /\ IsDatabase(e) /\ Sound(e, K) /\ Ordered(e, Nodes(e), pos)
  /\ Nodes(e) \subseteq Nodes(d)
  /\ KeepsRefs(d, e) /\ KeepsCounts(d, e)
  /\ e.preimages = d.preimages

LEMMA ShrunkFirst ==
  ASSUME NEW d, IsDatabase(d), NEW K, Sound(d, K), NEW pos, Ordered(d, Nodes(d), pos)
  PROVE  Shrunk(d, d, K, pos)
BY DEF Shrunk, KeepsRefs, KeepsCounts

LEMMA ShrunkOn ==
  ASSUME NEW d, NEW e, NEW K, NEW pos, Shrunk(d, e, K, pos), NEW h \in Nodes(e), h \in K,
         References(h) \subseteq K,
         NEW f, Leaving(e, h, f), Ordered(f, Nodes(e) \ {h}, pos)
  PROVE  Shrunk(d, f, K, pos) /\ Nodes(f) = Nodes(e) \ {h}
<1>1. IsDatabase(e) /\ Sound(e, K)
  BY DEF Shrunk
<1>2. Sound(f, K)
  BY <1>1, LeavingSound
<1>3. Nodes(f) = Nodes(e) \ {h} /\ IsDatabase(f)
  BY DEF Leaving, Nodes
<1>4. KeepsRefs(d, f) /\ KeepsCounts(d, f)
  BY DEF Shrunk, Leaving, KeepsRefs, KeepsCounts
<1> QED BY <1>2, <1>3, <1>4 DEF Shrunk, Leaving

LEMMA ShrunkPut ==
  ASSUME NEW d, NEW c, NEW K, NEW pos, Shrunk(d, c, K, pos), NEW h \in Hashes, h \in K,
         References(h) \subseteq K,
         NEW f, f = Put(c, h)
  PROVE  Shrunk(d, f, K, pos) /\ Nodes(f) = Nodes(c) \ {h}
<1>0. IsDatabase(c) /\ Ordered(c, Nodes(c), pos)  BY DEF Shrunk
<1>1. CASE h \in Nodes(c)
  <2>1. Leaving(c, h, f) /\ Ordered(f, Nodes(c) \ {h}, pos)
    BY <1>0, <1>1, PutIs
  <2> QED BY <1>1, <2>1, ShrunkOn
<1>2. CASE h \notin Nodes(c)
  <2>1. h \notin DOMAIN c.dirties
    BY <1>0, <1>2, DatabaseFacts, HashFacts
  <2>2. f = c
    BY <2>1 DEF Put
  <2> QED BY <2>2, <1>2
<1> QED BY <1>1, <1>2

\* A batch that is on disk is uncached.
LEMMA PutsSound ==
  ASSUME NEW d, IsDatabase(d), NEW K, Sound(d, K), NEW pos, Ordered(d, Nodes(d), pos),
         NEW b \in Seq(Hashes), Range(b) \subseteq K,
         \A h \in Range(b) : References(h) \subseteq K
  PROVE  \E e : e = FoldLeft(Put, d, b) /\ Shrunk(d, e, K, pos) /\ Nodes(e) = Nodes(d) \ Range(b)
<1>1. PICK n : n = Len(b)
  OBVIOUS
<1>2. n \in Nat /\ DOMAIN b = 1 .. n /\ \A k \in 1 .. n : b[k] \in Hashes /\ b[k] \in Range(b)
  BY <1>1, LenProperties, ElementOfSeq DEF Range
<1>3. PICK a : Turns(<<"put">>, b, d, n, a) /\ FoldLeft(Put, d, b) = a[n]
  BY <1>2, PutTurns
<1>4. a[0] = d /\ \A k \in 1 .. n : a[k] = Put(a[k - 1], b[k])
  BY <1>3 DEF Turns, Turn
<1> DEFINE Good(k) == Shrunk(d, a[k], K, pos) /\ Nodes(a[k]) = Nodes(d) \ {b[i] : i \in 1 .. k}
<1>5. PICK B \in SUBSET (0 .. n) : B = {k \in 0 .. n : ~ Good(k)}
  OBVIOUS
<1>6. ASSUME B # {} PROVE FALSE
  <2>1. PICK k \in B : \A i \in B : k <= i
    BY <1>2, <1>6, FirstOne
  <2>2. k \in 0 .. n /\ ~ Good(k)
    BY <1>5, <2>1
  <2>3. k # 0
    <3>1. Good(0)
      <4>1. {b[i] : i \in 1 .. 0} = {}
        OBVIOUS
      <4>2. Shrunk(d, d, K, pos)
        BY ShrunkFirst
      <4> QED BY <1>4, <4>1, <4>2
    <3> QED BY <2>2, <3>1
  <2>4. k - 1 \in 0 .. n /\ k - 1 < k /\ k \in 1 .. n
    BY <1>2, <2>2, <2>3
  <2>5. k - 1 \notin B
    BY <2>1, <2>4
  <2>6. PICK c, f, h : c = a[k - 1] /\ f = a[k] /\ h = b[k]
    OBVIOUS
  <2>7. Good(k - 1)
    BY <1>5, <2>4, <2>5
  <2>8. Shrunk(d, c, K, pos) /\ Nodes(c) = Nodes(d) \ {b[i] : i \in 1 .. k - 1}
    BY <2>6, <2>7
  <2>9. f = Put(c, h) /\ h \in Hashes /\ h \in Range(b)
    BY <1>2, <1>4, <2>4, <2>6
  <2>10. Shrunk(d, f, K, pos) /\ Nodes(f) = Nodes(c) \ {h}
    <3>1. h \in K /\ References(h) \subseteq K /\ Shrunk(d, c, K, pos)
      BY <2>8, <2>9
    <3> QED BY <3>1, <2>9, ShrunkPut
  <2>12. {b[i] : i \in 1 .. k} = {b[i] : i \in 1 .. k - 1} \cup {h}
    <3>1. \A i \in 1 .. k : i \in 1 .. k - 1 \/ i = k
      BY <2>4
    <3>2. k \in 1 .. k /\ \A i \in 1 .. k - 1 : i \in 1 .. k
      BY <2>4
    <3> QED BY <2>6, <3>1, <3>2
  <2>13. Good(k)
    BY <2>6, <2>8, <2>10, <2>12
  <2> QED BY <2>2, <2>13
<1>7. n \in 0 .. n
  BY <1>2
<1>8. Good(n)
  BY <1>5, <1>6, <1>7
<1>9. {b[i] : i \in 1 .. n} = Range(b)
  BY <1>2 DEF Range
<1> QED BY <1>3, <1>8, <1>9

\* Cap's last loop: what comes before a node is uncached.
LEMMA ClearSound ==
  ASSUME NEW d, IsDatabase(d), NEW K, Sound(d, K), NEW pos, Ordered(d, Nodes(d), pos),
         NEW stop \in Nodes(d) \cup {NoHash},
         NEW R, R = {x \in Nodes(d) : stop # NoHash /\ pos[stop] <= pos[x]},
         Nodes(d) \ R \subseteq K, \A h \in Nodes(d) \ R : References(h) \subseteq K,
         NEW e, e = clear(d, stop)
  PROVE  Shrunk(d, e, K, pos) /\ Nodes(e) = R
<1>1. PICK n : n = Cardinality(Nodes(d))
  OBVIOUS
<1>2. n \in Nat
  <2>1. IsFiniteSet(Nodes(d))  BY DatabaseFacts
  <2> QED BY <2>1, <1>1, FS_CardinalityType
<1>3. PICK a : /\ a[0] = d
               /\ \A k \in 1 .. n : a[k] = clearOldest(a[k - 1], stop)
               /\ clear(d, stop) = IF stop = NoHash THEN a[n]
                                   ELSE [a[n] EXCEPT !.dirties[stop].flushPrev = NoHash]
  BY <1>1, <1>2, ClearTurns
<1>4. R \subseteq Nodes(d) /\ Nodes(d) \subseteq Hashes /\ NoHash \notin Nodes(d)
  BY DatabaseFacts
<1>5. stop # NoHash => stop \in R
  <2>1. SUFFICES ASSUME stop # NoHash  PROVE stop \in R  OBVIOUS
  <2>2. stop \in Nodes(d) /\ pos[stop] \in Nat
    BY <2>1, <1>4 DEF Ordered
  <2> QED BY <2>1, <2>2
<1> DEFINE Good(k) == /\ Shrunk(d, a[k], K, pos) /\ R \subseteq Nodes(a[k])
                      /\ a[k].oldest = stop \/ Cardinality(Nodes(a[k])) = n - k
<1>6. PICK B \in SUBSET (0 .. n) : B = {k \in 0 .. n : ~ Good(k)}
  OBVIOUS
<1>7. ASSUME B # {} PROVE FALSE
  <2>1. PICK k \in B : \A i \in B : k <= i
    BY <1>2, <1>7, FirstOne
  <2>2. k \in 0 .. n /\ ~ Good(k)
    BY <1>6, <2>1
  <2>3. k # 0
    <3>1. Good(0)
      <4>2. Shrunk(d, d, K, pos)
        BY ShrunkFirst
      <4>3. n = n - 0  BY <1>2
      <4> QED BY <1>1, <1>3, <1>4, <4>2, <4>3
    <3> QED BY <2>2, <3>1
  <2>4. k - 1 \in 0 .. n /\ k - 1 < k /\ k \in 1 .. n
    BY <1>2, <2>2, <2>3
  <2>5. k - 1 \notin B
    BY <2>1, <2>4
  <2>6. PICK c, f, h : c = a[k - 1] /\ f = a[k] /\ h = c.oldest
    OBVIOUS
  <2>7. Good(k - 1)
    BY <1>6, <2>4, <2>5
  <2>8. /\ Shrunk(d, c, K, pos) /\ R \subseteq Nodes(c)
        /\ h = stop \/ Cardinality(Nodes(c)) = n - (k - 1)
    BY <2>6, <2>7
  <2>9. f = clearOldest(c, stop)
    BY <1>3, <2>4, <2>6
  <2>10. IsDatabase(c) /\ Ordered(c, Nodes(c), pos) /\ Nodes(c) \subseteq Nodes(d)
    BY <2>8 DEF Shrunk
  <2>11. Good(k)
    <3>1. CASE h = stop
      <4>1. f = c
        BY <3>1, <2>9, <2>6 DEF clearOldest
      <4> QED BY <4>1, <3>1, <2>8, <2>6
    <3>2. CASE h # stop
      <4>1. Nodes(c) # {}
        <5>1. SUFFICES ASSUME Nodes(c) = {}  PROVE FALSE  OBVIOUS
        <5>2. h = NoHash
          BY <5>1, <2>6, <2>10 DEF Ordered
        <5>3. stop \in R
          BY <5>2, <3>2, <1>5
        <5> QED BY <5>1, <5>3, <2>8
      <4>2. h \in Nodes(c) /\ \A x \in Nodes(c) : pos[h] <= pos[x]
        BY <4>1, <2>6, <2>10 DEF Ordered
      <4>3. h \notin R
        <5>1. SUFFICES ASSUME h \in R  PROVE FALSE  OBVIOUS
        <5>2. stop # NoHash /\ pos[stop] <= pos[h] /\ stop \in R
          BY <5>1, <1>5
        <5>3. stop \in Nodes(c) /\ pos[h] <= pos[stop]
          BY <5>2, <2>8, <4>2
        <5>4. pos[h] \in Nat /\ pos[stop] \in Nat
          BY <5>3, <4>2, <2>10, <1>4 DEF Ordered
        <5>5. pos[h] = pos[stop]
          BY ONLY <5>2, <5>3, <5>4
        <5> QED BY <5>5, <5>3, <4>2, <3>2, <2>10 DEF Ordered
      <4>4. h \in K /\ References(h) \subseteq K
        BY <4>2, <4>3, <2>10
      <4>5. Leaving(c, h, f) /\ Ordered(f, Nodes(c) \ {h}, pos)
        BY <4>2, <3>2, <2>9, <2>10, <2>6, ClearOldestIs
      <4>6. Shrunk(d, f, K, pos) /\ Nodes(f) = Nodes(c) \ {h}
        <5>1. Shrunk(d, c, K, pos)  BY <2>8
        <5> QED BY ONLY <5>1, <4>2, <4>4, <4>5, ShrunkOn
      <4>7. Cardinality(Nodes(f)) = n - k
        <5>1. IsFiniteSet(Nodes(c))  BY <2>10, DatabaseFacts
        <5>2. Cardinality(Nodes(f)) = Cardinality(Nodes(c)) - 1
          BY <5>1, <4>2, <4>6, FS_RemoveElement
        <5>3. Cardinality(Nodes(c)) = n - (k - 1)
          BY <2>8, <3>2
        <5> QED BY <5>2, <5>3, <1>2, <2>4
      <4>8. R \subseteq Nodes(f)
        BY <4>3, <4>6, <2>8
      <4> QED BY <4>6, <4>7, <4>8, <2>6
    <3> QED BY <3>1, <3>2
  <2> QED BY <2>2, <2>11
<1>8. n \in 0 .. n
  BY <1>2
<1>9. PICK c : c = a[n]  OBVIOUS
<1>10. /\ Shrunk(d, c, K, pos) /\ R \subseteq Nodes(c)
       /\ c.oldest = stop \/ Cardinality(Nodes(c)) = n - n
  <2>1. Good(n)
    BY <1>6, <1>7, <1>8
  <2> QED BY <2>1, <1>9
<1>11. IsDatabase(c) /\ Ordered(c, Nodes(c), pos) /\ Sound(c, K) /\ Nodes(c) \subseteq Nodes(d)
       /\ KeepsRefs(d, c) /\ KeepsCounts(d, c) /\ c.preimages = d.preimages
  BY <1>10 DEF Shrunk
<1>12. c.oldest = stop
  <2>1. SUFFICES ASSUME Cardinality(Nodes(c)) = n - n  PROVE c.oldest = stop
    BY <1>10
  <2>2. Cardinality(Nodes(c)) = 0  BY <2>1, <1>2
  <2>3. Nodes(c) = {}
    <3>1. IsFiniteSet(Nodes(c))  BY <1>11, DatabaseFacts
    <3> QED BY <3>1, <2>2, FS_EmptySet
  <2>4. c.oldest = NoHash
    BY <2>3, <1>11 DEF Ordered
  <2>5. stop = NoHash
    BY <2>3, <1>10, <1>5
  <2> QED BY <2>4, <2>5
<1>13. Nodes(c) = R
  <2>1. SUFFICES ASSUME NEW x \in Nodes(c)  PROVE x \in R
    BY <1>10
  <2>2. c.oldest \in Nodes(c) /\ pos[c.oldest] <= pos[x]
    BY <2>1, <1>11 DEF Ordered
  <2>3. stop # NoHash
    BY <2>2, <1>12, <1>11, <1>4
  <2> QED BY <2>2, <2>3, <1>11, <1>12
<1>14. CASE stop = NoHash
  <2>1. e = c
    BY <1>14, <1>3, <1>9
  <2> QED BY <2>1, <1>10, <1>13
<1>15. CASE stop # NoHash
  <2>1. e = [c EXCEPT !.dirties[stop].flushPrev = NoHash]
    BY <1>15, <1>3, <1>9
  <2>2. stop \in DOMAIN c.dirties /\ NoHash \in OrNone
    BY <1>15, <1>5, <1>13 DEF Nodes, OrNone
  <2>3. PrevSet(c, stop, NoHash, e)
    <3>1. IsDatabase(c)  BY <1>11
    <3> QED BY ONLY <2>1, <2>2, <3>1, SetLink
  <2>4. Relinked(c, e)
    BY <2>3 DEF PrevSet
  <2>5. Sound(e, K) /\ Nodes(e) = Nodes(c) /\ IsDatabase(e)
    <3>1. IsDatabase(e)  BY <2>4 DEF Relinked
    <3> QED BY <3>1, <2>4, <1>11, RelinkedSound
  <2>6. KeepsRefs(d, e) /\ KeepsCounts(d, e) /\ e.preimages = d.preimages
    BY <2>4, <1>11 DEF Relinked, KeepsRefs, KeepsCounts
  <2>7. Ordered(e, Nodes(e), pos)
    <3>1. PICK L : L = Nodes(c)  OBVIOUS
    <3>2. Ordered(c, L, pos) /\ L \subseteq DOMAIN c.dirties /\ c.oldest = stop
      BY <3>1, <1>11, <1>12, DatabaseFacts
    <3>3. /\ e.oldest = c.oldest /\ e.newest = c.newest
          /\ \A y \in L : e.dirties[y].flushNext = c.dirties[y].flushNext
          /\ \A y \in L \ {stop} : e.dirties[y].flushPrev = c.dirties[y].flushPrev
      BY <2>3, <3>2 DEF PrevSet
    <3>4. /\ pos \in [Hashes -> Nat]
          /\ \A y, z \in L : pos[y] = pos[z] => y = z
          /\ IF L = {} THEN e.oldest = NoHash
             ELSE /\ e.oldest \in L /\ \A y \in L : pos[e.oldest] <= pos[y]
                  /\ e.newest \in L /\ \A y \in L : pos[y] <= pos[e.newest]
      BY <3>2, <3>3 DEF Ordered
    <3>5. \A y \in L : Follows(L, pos, y, e.dirties[y].flushNext)
      BY <3>2, <3>3 DEF Ordered
    <3>6. ASSUME NEW y \in L \ {e.oldest}
          PROVE  /\ e.dirties[y].flushPrev \in L
                 /\ e.dirties[e.dirties[y].flushPrev].flushNext = y
      <4>1. /\ c.dirties[y].flushPrev \in L
            /\ c.dirties[c.dirties[y].flushPrev].flushNext = y
        BY <3>2, <3>3 DEF Ordered
      <4> QED BY <4>1, <3>2, <3>3
    <3>7. Ordered(e, L, pos)
      BY <3>4, <3>5, <3>6 DEF Ordered
    <3> QED BY <3>1, <3>7, <2>5
  <2> QED BY <2>5, <2>6, <2>7, <1>11, <1>13 DEF Shrunk
<1> QED BY <1>14, <1>15

-----------------------------------------------------------------------------
(* The walk of dereference.                                                *)

LEMMA ForChildsFacts ==
  ASSUME NEW d, IsDatabase(d), Maps(d), NEW h \in Nodes(d), NEW q, q = forChilds(d, h)
  PROVE  /\ q \in Seq(Hashes) /\ Len(q) \in Nat
         /\ Range(q) = DOMAIN d.dirties[h].children \cup Range(Kids[h])
         /\ Range(q) \subseteq References(h)
         /\ DOMAIN d.dirties[h].children \subseteq Range(q)
         /\ \A x : Occurrences(q, x) = RefersTo(d, h, x)
<1>1. PICK c : c = d.dirties[h].children  OBVIOUS
<1>2. h \in Hashes /\ h \in DOMAIN d.dirties /\ h # NoHash
  BY DatabaseFacts
<1>3. DOMAIN c \subseteq Roots /\ IsFiniteSet(DOMAIN c) /\ DOMAIN c \in SUBSET Hashes
  BY <1>1, <1>2, NodeFacts, HashFacts
<1>4. DOMAIN c \subseteq Ext[h] /\ \A x \in DOMAIN c : c[x] = 1
  BY <1>1 DEF Maps
<1>5. /\ Kids[h] \in Seq(Hashes)
      /\ Range(Kids[h]) \subseteq References(h) /\ Ext[h] \subseteq References(h)
  BY <1>2, RefFacts
<1>6. PICK s, k : s = SetToSeq(DOMAIN c) /\ k = Kids[h]  OBVIOUS
<1>7. s \in Seq(Hashes) /\ Range(s) = DOMAIN c
  BY <1>3, <1>6, SetToSeqIsSeq
<1>8. q = s \o k
  BY <1>1, <1>6 DEF forChilds
<1>9. k \in Seq(Hashes)
  BY <1>5, <1>6
<1>10. q \in Seq(Hashes) /\ Range(q) = Range(s) \cup Range(k)
  BY <1>7, <1>8, <1>9, ConcatRange
<1>11. ASSUME NEW x  PROVE Occurrences(q, x) = RefersTo(d, h, x)
  <2>1. Occurrences(q, x) = Occurrences(s, x) + Occurrences(k, x)
    BY <1>7, <1>8, <1>9, OccurrencesConcat
  <2>2. Occurrences(s, x) = IF x \in DOMAIN c THEN 1 ELSE 0
    BY <1>3, <1>6, OccurrencesOnce
  <2>3. RefersTo(d, h, x) = Occurrences(k, x) + (IF x \in DOMAIN c THEN c[x] ELSE 0)
    BY <1>1, <1>2, <1>6 DEF RefersTo
  <2>4. (IF x \in DOMAIN c THEN c[x] ELSE 0) = IF x \in DOMAIN c THEN 1 ELSE 0
    BY <1>4
  <2>5. Occurrences(k, x) \in Nat
    <3>1. Len(k) \in Nat /\ DOMAIN k = 1 .. Len(k)  BY <1>9
    <3> QED BY <3>1, OccurrencesNat
  <2>6. PICK a, b : a = Occurrences(k, x) /\ b = IF x \in DOMAIN c THEN 1 ELSE 0  OBVIOUS
  <2>7. a \in Int /\ b \in Int  BY <2>5, <2>6
  <2>8. Occurrences(q, x) = b + a /\ RefersTo(d, h, x) = a + b
    BY <2>1, <2>2, <2>3, <2>4, <2>6
  <2> QED BY ONLY <2>7, <2>8
<1>12. Len(q) \in Nat  BY <1>10
<1> QED BY <1>1, <1>4, <1>5, <1>6, <1>7, <1>10, <1>11, <1>12

LEMMA ForChildsKept ==
  ASSUME NEW d, NEW e, NEW h, e.dirties[h].children = d.dirties[h].children
  PROVE  forChilds(e, h) = forChilds(d, h)
BY DEF forChilds

\* What there is to do for the nodes of L.
Load(d, L) == SumFunction([p \in L |-> Len(forChilds(d, p)) + 1])

LEMMA LoadKept ==
  ASSUME NEW d, NEW e, NEW L, \A h \in L : e.dirties[h].children = d.dirties[h].children
  PROVE  Load(e, L) = Load(d, L)
<1>1. \A h \in L : forChilds(e, h) = forChilds(d, h)
  BY ForChildsKept
<1>2. [p \in L |-> Len(forChilds(e, p)) + 1] = [p \in L |-> Len(forChilds(d, p)) + 1]
  BY <1>1
<1> QED BY <1>2 DEF Load

LEMMA LoadMoves ==
  ASSUME NEW d, IsDatabase(d), Maps(d), NEW L, L \subseteq Nodes(d), NEW h \in L
  PROVE  /\ Load(d, L) = Load(d, L \ {h}) + Len(forChilds(d, h)) + 1
         /\ Load(d, L) \in Nat /\ Load(d, L \ {h}) \in Nat /\ Len(forChilds(d, h)) \in Nat
<1>1. PICK f : f = [p \in L |-> Len(forChilds(d, p)) + 1]  OBVIOUS
<1>2. PICK e : e = [p \in L \ {h} |-> Len(forChilds(d, p)) + 1]  OBVIOUS
<1>3. IsFiniteSet(L) /\ IsFiniteSet(L \ {h})
  BY DatabaseFacts, FS_Subset
<1>4. \A p \in L : Len(forChilds(d, p)) \in Nat
  BY ForChildsFacts
<1>5. DOMAIN f = L /\ \A p \in L : f[p] \in Nat
  BY <1>1, <1>4
<1>6. DOMAIN e = L \ {h} /\ \A p \in L \ {h} : e[p] = f[p]
  BY <1>1, <1>2
<1>7. SumFunction(f) = SumFunction(e) + f[h]
  BY <1>3, <1>5, <1>6, SumAdds
<1>8. SumFunction(e) \in Nat
  <2>1. \A p \in L \ {h} : e[p] \in Nat  BY <1>5, <1>6
  <2> QED BY <1>3, <1>6, <2>1, SumNat
<1>9. SumFunction(f) \in Nat
  BY <1>3, <1>5, SumNat
<1>10. Load(d, L) = SumFunction(f) /\ Load(d, L \ {h}) = SumFunction(e)
  BY <1>1, <1>2 DEF Load
<1>11. f[h] = Len(forChilds(d, h)) + 1 /\ Len(forChilds(d, h)) \in Nat
  BY <1>1, <1>4
<1> QED BY <1>7, <1>8, <1>9, <1>10, <1>11

LEMMA LoadNat ==
  ASSUME NEW d, IsDatabase(d), Maps(d), NEW L, L \subseteq Nodes(d)
  PROVE  Load(d, L) \in Nat
<1>1. PICK f : f = [p \in L |-> Len(forChilds(d, p)) + 1]  OBVIOUS
<1>3. IsFiniteSet(L)
  BY DatabaseFacts, FS_Subset
<1>4. \A p \in L : Len(forChilds(d, p)) \in Nat
  BY ForChildsFacts
<1>5. DOMAIN f = L /\ \A p \in L : f[p] \in Nat
  BY <1>1, <1>4
<1> QED BY <1>1, <1>3, <1>5, SumNat DEF Load

Entries == [op : {"call", "delete"}, child : Hashes, parent : OrNone]

\* The stack s of a walk, when the nodes outside L wait for their deletion:
\* they rank above what stands before them, and have no external reference left
\* but for those a call before them will take away.
Stacked(d, s, L, rank) ==
  /\ s \in Seq(Entries)
  /\ \A i \in DOMAIN s : s[i].op = "delete" => s[i].child \in Nodes(d) \ L
  /\ \A h \in Nodes(d) \ L : \E i \in DOMAIN s : s[i].op = "delete" /\ s[i].child = h
  /\ \A i \in DOMAIN s :
       s[i].op = "call" =>
         \E j \in DOMAIN s : i < j /\ s[j].op = "delete" /\ s[j].child = s[i].parent
  /\ \A i, j \in DOMAIN s :
       i < j /\ s[j].op = "delete" => rank[s[i].child] < rank[s[j].child]
  /\ \A h \in Nodes(d) \ L : \A x \in DOMAIN d.dirties[h].children :
       \E i \in DOMAIN s : s[i].op = "call" /\ s[i].child = x /\ s[i].parent = h

\* A node may be expanded above a stack.
Ranks(s, x, rank) == \A j \in DOMAIN s : s[j].op = "delete" => rank[x] < rank[s[j].child]

\* t is c above one entry y above s.
Above(c, y, s, t) ==
  /\ DOMAIN t = 1 .. Len(c) + 1 + Len(s) /\ Len(t) = Len(c) + 1 + Len(s)
  /\ \A i \in 1 .. Len(c) : t[i] = c[i] /\ i \in DOMAIN t /\ i < Len(c) + 1
  /\ t[Len(c) + 1] = y /\ Len(c) + 1 \in DOMAIN t
  /\ \A i \in 1 .. Len(s) :
       /\ t[Len(c) + 1 + i] = s[i] /\ Len(c) + 1 + i \in DOMAIN t /\ Len(c) + 1 < Len(c) + 1 + i
       /\ \A j \in 1 .. Len(s) : i < j <=> Len(c) + 1 + i < Len(c) + 1 + j
  /\ \A i \in DOMAIN t : \/ i \in 1 .. Len(c)
                         \/ i = Len(c) + 1
                         \/ \E j \in 1 .. Len(s) : i = Len(c) + 1 + j

LEMMA AboveFacts ==
  ASSUME NEW X, NEW c \in Seq(X), NEW y \in X, NEW s \in Seq(X)
  PROVE  c \o <<y>> \o s \in Seq(X) /\ Above(c, y, s, c \o <<y>> \o s)
<1>1. PICK o, u, t : o = <<y>> /\ u = c \o o /\ t = u \o s  OBVIOUS
<1>2. o \in Seq(X) /\ Len(o) = 1 /\ o[1] = y
  BY <1>1
<1>3. /\ u \in Seq(X) /\ Len(u) = Len(c) + Len(o)
      /\ Len(c) \in Nat
      /\ \A i \in 1 .. Len(c) : u[i] = c[i]
      /\ \A i \in 1 .. Len(o) : u[Len(c) + i] = o[i]
  BY <1>1, <1>2, ConcatFacts
<1>4. /\ t \in Seq(X) /\ Len(t) = Len(u) + Len(s)
      /\ Len(s) \in Nat /\ DOMAIN t = 1 .. Len(u) + Len(s)
      /\ \A i \in 1 .. Len(u) : t[i] = u[i]
      /\ \A i \in 1 .. Len(s) : t[Len(u) + i] = s[i]
  BY <1>1, <1>3, ConcatFacts
<1>5. PICK m, n : m = Len(c) /\ n = Len(s)  OBVIOUS
<1>6. m \in Nat /\ n \in Nat /\ Len(u) = m + 1
  BY <1>2, <1>3, <1>4, <1>5
<1>7. DOMAIN t = 1 .. m + 1 + n /\ Len(t) = m + 1 + n
  BY <1>4, <1>5, <1>6
<1>8. \A i \in 1 .. m : t[i] = c[i] /\ i \in DOMAIN t /\ i < m + 1
  <2>1. TAKE i \in 1 .. m
  <2>2. i \in 1 .. m + 1 /\ i \in 1 .. m + 1 + n /\ i < m + 1
    BY ONLY <1>6, i \in 1 .. m
  <2> QED BY <2>2, <1>3, <1>4, <1>5, <1>6, <1>7
<1>9. t[m + 1] = y /\ m + 1 \in DOMAIN t
  <2>1. m + 1 \in 1 .. m + 1 /\ m + 1 \in 1 .. m + 1 + n
    BY ONLY <1>6
  <2>2. u[m + 1] = y
    BY <1>2, <1>3, <1>5
  <2> QED BY <2>1, <2>2, <1>4, <1>6, <1>7
<1>10. \A i \in 1 .. n :
         /\ t[m + 1 + i] = s[i] /\ m + 1 + i \in DOMAIN t /\ m + 1 < m + 1 + i
         /\ \A j \in 1 .. n : i < j <=> m + 1 + i < m + 1 + j
  <2>1. TAKE i \in 1 .. n
  <2>2. m + 1 + i \in 1 .. m + 1 + n /\ m + 1 < m + 1 + i
    BY <1>6
  <2>3. \A j \in 1 .. n : i < j <=> m + 1 + i < m + 1 + j
    BY <1>6
  <2>4. t[m + 1 + i] = s[i]
    BY <1>4, <1>5, <1>6
  <2> QED BY <2>2, <2>3, <2>4, <1>7
<1>11. \A i \in DOMAIN t : \/ i \in 1 .. m \/ i = m + 1 \/ \E j \in 1 .. n : i = m + 1 + j
  <2>1. SUFFICES ASSUME NEW i \in 1 .. m + 1 + n, i \notin 1 .. m, i # m + 1
                 PROVE  \E j \in 1 .. n : i = m + 1 + j
    BY <1>7
  <2>2. PICK j : j = i - (m + 1)  OBVIOUS
  <2>3. j \in 1 .. n /\ i = m + 1 + j
    BY <1>6, <2>1, <2>2
  <2> QED BY <2>3
<1>12. Above(c, y, s, t)
  BY <1>5, <1>7, <1>8, <1>9, <1>10, <1>11 DEF Above
<1> QED BY <1>1, <1>4, <1>12

LEMMA CallsFacts ==
  ASSUME NEW q \in Seq(Hashes), NEW x \in Hashes
  PROVE  /\ Calls(q, x) \in Seq(Entries) /\ Len(Calls(q, x)) = Len(q)
         /\ \A i \in 1 .. Len(q) : Calls(q, x)[i] = Call(q[i], x)
         /\ Delete(x) \in Entries
<1>1. PICK n, c : n = Len(q) /\ c = Calls(q, x)  OBVIOUS
<1>2. n \in Nat /\ DOMAIN q = 1 .. n /\ \A i \in 1 .. n : q[i] \in Hashes
  BY <1>1, LenProperties, ElementOfSeq
<1>3. c = [i \in 1 .. n |-> Call(q[i], x)]
  BY <1>1, <1>2 DEF Calls
<1>4. \A i \in 1 .. n : Call(q[i], x) \in Entries
  BY <1>2 DEF Call, Entries, OrNone
<1>5. Delete(x) \in Entries
  BY DEF Delete, Entries, OrNone
<1>6. c \in [1 .. n -> Entries]
  BY <1>3, <1>4
<1>7. c \in Seq(Entries) /\ Len(c) = n
  BY <1>2, <1>6
<1> QED BY <1>1, <1>3, <1>5, <1>7

\* q lists what a node refers to, with all its external children.
Lists(d, x, q) ==
  /\ q \in Seq(Hashes) /\ Range(q) \subseteq References(x)
  /\ DOMAIN d.dirties[x].children \subseteq Range(q)

Pushed(q, x, s) == Calls(q, x) \o <<Delete(x)>> \o s

\* The children of a node are called, then the node is deleted.
LEMMA StackPush ==
  ASSUME NEW d, NEW s, NEW L, L \subseteq Nodes(d), NEW rank, Ranked(rank), Stacked(d, s, L, rank),
         NEW x \in L, x \in Hashes, Ranks(s, x, rank),
         NEW q, Lists(d, x, q),
         NEW e, Nodes(e) = Nodes(d), KeepsRefs(d, e),
         NEW t, t = Pushed(q, x, s)
  PROVE  Stacked(e, t, L \ {x}, rank) /\ Len(t) = Len(q) + 1 + Len(s)
<1>1. PICK c, y, M : c = Calls(q, x) /\ y = Delete(x) /\ M = L \ {x}  OBVIOUS
<1>0. /\ q \in Seq(Hashes) /\ Range(q) \subseteq References(x)
      /\ DOMAIN d.dirties[x].children \subseteq Range(q)
      /\ Nodes(d) \subseteq DOMAIN e.dirties
  BY DEF Lists, Nodes
<1>2. /\ c \in Seq(Entries) /\ Len(c) = Len(q) /\ y \in Entries
      /\ \A i \in 1 .. Len(c) : c[i] = Call(q[i], x)
  BY <1>0, <1>1, CallsFacts
<1>3. s \in Seq(Entries)
  BY DEF Stacked
<1>4. t \in Seq(Entries) /\ Above(c, y, s, t)
  BY <1>1, <1>2, <1>3, AboveFacts DEF Pushed
<1>5. PICK m, n : m = Len(c) /\ n = Len(s)  OBVIOUS
<1>6. m \in Nat /\ n \in Nat /\ DOMAIN s = 1 .. n /\ DOMAIN q = 1 .. m
  BY <1>0, <1>2, <1>3, <1>5, LenProperties
<1>7. /\ DOMAIN t = 1 .. m + 1 + n /\ Len(t) = m + 1 + n
      /\ \A i \in 1 .. m : t[i] = Call(q[i], x) /\ i \in DOMAIN t /\ i < m + 1
      /\ t[m + 1] = y /\ m + 1 \in DOMAIN t
      /\ \A i \in 1 .. n :
           /\ t[m + 1 + i] = s[i] /\ m + 1 + i \in DOMAIN t /\ m + 1 < m + 1 + i
           /\ \A j \in 1 .. n : i < j <=> m + 1 + i < m + 1 + j
      /\ \A i \in DOMAIN t : \/ i \in 1 .. m
                             \/ i = m + 1
                             \/ \E j \in 1 .. n : i = m + 1 + j
  BY <1>2, <1>4, <1>5 DEF Above
<1>8. /\ \A i \in 1 .. m : /\ t[i].op = "call" /\ t[i].child = q[i] /\ t[i].parent = x
                           /\ q[i] \in References(x) /\ rank[q[i]] < rank[x]
      /\ t[m + 1].op = "delete" /\ t[m + 1].child = x
  <2>1. \A i \in 1 .. m : t[i].op = "call" /\ t[i].child = q[i] /\ t[i].parent = x
    <3>1. TAKE i \in 1 .. m
    <3>2. PICK z, r : z = q[i] /\ r = t[i]  OBVIOUS
    <3>3. r = Call(z, x)  BY <3>2, <1>7
    <3>4. r = [op |-> "call", child |-> z, parent |-> x]  BY <3>3 DEF Call
    <3>5. r.op = "call" /\ r.child = z /\ r.parent = x  BY ONLY <3>4
    <3> QED BY <3>2, <3>5
  <2>2. \A i \in 1 .. m : q[i] \in References(x)
    BY <1>0, <1>6 DEF Range
  <2>3. \A i \in 1 .. m : rank[q[i]] < rank[x]
    BY <2>2 DEF Ranked
  <2>4. t[m + 1].op = "delete" /\ t[m + 1].child = x
    BY <1>7, <1>1 DEF Delete
  <2> QED BY <2>1, <2>2, <2>3, <2>4
<1>9. M \subseteq Nodes(d) /\ Nodes(e) \ M = (Nodes(d) \ L) \cup {x}
  BY <1>1
<1>10. ASSUME NEW i \in DOMAIN t, t[i].op = "delete"  PROVE t[i].child \in Nodes(e) \ M
  <2>1. CASE i \in 1 .. m  BY <2>1, <1>8, <1>10
  <2>2. CASE i = m + 1  BY <2>2, <1>8, <1>9
  <2>3. ASSUME NEW j \in 1 .. n, i = m + 1 + j  PROVE t[i].child \in Nodes(e) \ M
    <3>1. s[j].op = "delete" /\ t[i] = s[j]
      BY <2>3, <1>7, <1>10
    <3>2. s[j].child \in Nodes(d) \ L
      BY <3>1, <1>6 DEF Stacked
    <3> QED BY <3>1, <3>2, <1>9
  <2> QED BY <2>1, <2>2, <2>3, <1>7
<1>11. ASSUME NEW h \in Nodes(e) \ M
       PROVE  \E i \in DOMAIN t : t[i].op = "delete" /\ t[i].child = h
  <2>1. CASE h = x  BY <2>1, <1>8, <1>7
  <2>2. CASE h # x
    <3>1. PICK j \in 1 .. n : s[j].op = "delete" /\ s[j].child = h
      BY <2>2, <1>9, <1>6 DEF Stacked
    <3> QED BY <3>1, <1>7
  <2> QED BY <2>1, <2>2
<1>12. ASSUME NEW i \in DOMAIN t, t[i].op = "call"
       PROVE  \E j \in DOMAIN t : i < j /\ t[j].op = "delete" /\ t[j].child = t[i].parent
  <2>1. CASE i \in 1 .. m  BY <2>1, <1>8, <1>7
  <2>2. CASE i = m + 1  BY <2>2, <1>8, <1>12
  <2>3. ASSUME NEW k \in 1 .. n, i = m + 1 + k
        PROVE  \E j \in DOMAIN t : i < j /\ t[j].op = "delete" /\ t[j].child = t[i].parent
    <3>1. s[k].op = "call" /\ t[i] = s[k]
      BY <2>3, <1>7, <1>12
    <3>4. k \in DOMAIN s  BY <2>3, <1>6
    <3>5. PICK j \in DOMAIN s : k < j /\ s[j].op = "delete" /\ s[j].child = s[k].parent
      BY <3>1, <3>4 DEF Stacked
    <3>2. j \in 1 .. n /\ k < j /\ s[j].op = "delete" /\ s[j].child = s[k].parent
      BY <3>5, <1>6
    <3>3. m + 1 + j \in DOMAIN t /\ i < m + 1 + j /\ t[m + 1 + j] = s[j]
      BY <3>2, <2>3, <1>7
    <3> QED BY <3>1, <3>2, <3>3
  <2> QED BY <2>1, <2>2, <2>3, <1>7
<1>13. ASSUME NEW i \in DOMAIN t, NEW j \in DOMAIN t, i < j, t[j].op = "delete"
       PROVE  rank[t[i].child] < rank[t[j].child]
  <2>1. rank[x] \in Int /\ \A h \in Hashes : rank[h] \in Int
    <3>1. \A h \in Hashes : rank[h] \in 0 .. Cardinality(Hashes)
      BY DEF Ranked
    <3> QED BY <3>1
  <2>2. CASE j \in 1 .. m  BY <2>2, <1>8, <1>13
  <2>3. CASE j = m + 1
    <3>1. i \in 1 .. m
      <4>1. SUFFICES ASSUME NEW k \in 1 .. n, i = m + 1 + k  PROVE FALSE
        BY <1>7, <1>13, <2>3
      <4>2. i \in Int /\ m + 1 \in Int /\ m + 1 < i  BY <4>1, <1>7, <1>6
      <4> QED BY ONLY <4>2, <2>3, <1>13
    <3> QED BY <3>1, <2>3, <1>8
  <2>4. ASSUME NEW l \in 1 .. n, j = m + 1 + l  PROVE rank[t[i].child] < rank[t[j].child]
    <3>1. s[l].op = "delete" /\ t[j] = s[l] /\ l \in DOMAIN s
      BY <2>4, <1>7, <1>13, <1>6
    <3>2. rank[x] < rank[s[l].child]
      BY <3>1 DEF Ranks
    <3>3. s[l].child \in Hashes /\ rank[s[l].child] \in Int
      <4>1. s[l] \in Entries
        BY <1>3, <1>5, <2>4, ElementOfSeq
      <4>2. s[l].child \in Hashes
        BY <4>1 DEF Entries
      <4> QED BY <4>2, <2>1
    <3>4. CASE i \in 1 .. m
      <4>1. rank[q[i]] < rank[x] /\ q[i] \in Hashes /\ rank[q[i]] \in Int
        <5>1. rank[q[i]] < rank[x]  BY <3>4, <1>8
        <5>2. q[i] \in Hashes
          BY <3>4, <1>0, <1>6, ElementOfSeq
        <5> QED BY <5>1, <5>2, <2>1
      <4>2. rank[q[i]] < rank[s[l].child]
        BY ONLY <4>1, <3>2, <3>3, <2>1
      <4> QED BY <4>2, <3>4, <3>1, <1>8
    <3>5. CASE i = m + 1  BY <3>5, <3>1, <3>2, <1>8
    <3>6. ASSUME NEW k \in 1 .. n, i = m + 1 + k  PROVE rank[t[i].child] < rank[t[j].child]
      <4>1. k < l /\ t[i] = s[k]
        BY <3>6, <2>4, <1>7, <1>13
      <4>2. rank[s[k].child] < rank[s[l].child]
        BY <4>1, <3>1, <1>6 DEF Stacked
      <4> QED BY <4>1, <4>2, <3>1
    <3> QED BY <3>4, <3>5, <3>6, <1>7
  <2> QED BY <2>2, <2>3, <2>4, <1>7
<1>14. ASSUME NEW h \in Nodes(e) \ M, NEW z \in DOMAIN e.dirties[h].children
       PROVE  \E i \in DOMAIN t : t[i].op = "call" /\ t[i].child = z /\ t[i].parent = h
  <2>0. h \in Nodes(d) /\ z \in DOMAIN d.dirties[h].children
    BY <1>0, <1>14 DEF KeepsRefs
  <2>1. CASE h = x
    <3>1. z \in Range(q)  BY <2>0, <2>1, <1>0
    <3>2. PICK i \in 1 .. m : q[i] = z
      BY <3>1, <1>6 DEF Range
    <3> QED BY <3>2, <2>1, <1>8, <1>7
  <2>2. CASE h # x
    <3>1. h \in Nodes(d) \ L  BY <2>2, <1>9
    <3>2. PICK j \in DOMAIN s : s[j].op = "call" /\ s[j].child = z /\ s[j].parent = h
      BY <3>1, <2>0 DEF Stacked
    <3>3. j \in 1 .. n  BY <1>6
    <3> QED BY <3>2, <3>3, <1>7
  <2> QED BY <2>1, <2>2
<1>15. Stacked(e, t, M, rank)
  BY <1>4, <1>10, <1>11, <1>12, <1>13, <1>14 DEF Stacked
<1> QED BY <1>1, <1>2, <1>5, <1>7, <1>15

LEMMA TailFacts ==
  ASSUME NEW X, NEW s \in Seq(X), s # << >>
  PROVE  /\ Tail(s) \in Seq(X) /\ Len(Tail(s)) = Len(s) - 1 /\ Len(s) \in Nat \ {0}
         /\ Head(s) = s[1] /\ s[1] \in X /\ 1 \in DOMAIN s
         /\ \A i \in DOMAIN Tail(s) : /\ Tail(s)[i] = s[i + 1] /\ i + 1 \in DOMAIN s
                                      /\ i \in Int /\ 1 < i + 1
         /\ \A i \in DOMAIN s : i \in Int /\ (i # 1 => i - 1 \in DOMAIN Tail(s) /\ i = (i - 1) + 1)
<1>1. PICK n, t : n = Len(s) /\ t = Tail(s)  OBVIOUS
<1>2. n \in Nat \ {0} /\ DOMAIN s = 1 .. n /\ Head(s) = s[1] /\ s[1] \in X /\ 1 \in DOMAIN s
  BY <1>1, ElementOfSeq, LenProperties, EmptySeq
<1>3. /\ t \in Seq(X) /\ Len(t) = n - 1
      /\ \A i \in 1 .. Len(t) : t[i] = s[i + 1]
  BY <1>1, HeadTailProperties
<1>4. DOMAIN t = 1 .. n - 1
  BY <1>3, LenProperties
<1>5. \A i \in 1 .. n - 1 : i + 1 \in 1 .. n /\ i \in Int /\ 1 < i + 1
  BY <1>2
<1>6. \A i \in 1 .. n : i \in Int /\ (i # 1 => i - 1 \in 1 .. n - 1 /\ i = (i - 1) + 1)
  BY <1>2
<1> QED BY <1>1, <1>2, <1>3, <1>4, <1>5, <1>6

\* The top of the stack is a node to delete.
LEMMA StackDelete ==
  ASSUME NEW d, NEW s, NEW L, L \subseteq Nodes(d), NEW rank, Ranked(rank), Stacked(d, s, L, rank),
         s # << >>, NEW h, h = s[1].child, s[1].op = "delete"
  PROVE  h \in Nodes(d) \ L /\ DOMAIN d.dirties[h].children = {}
<1>1. s \in Seq(Entries) /\ 1 \in DOMAIN s
  BY TailFacts DEF Stacked
<1>2. h \in Nodes(d) \ L
  BY <1>1 DEF Stacked
<1>3. ASSUME NEW x \in DOMAIN d.dirties[h].children  PROVE FALSE
  <2>1. PICK i \in DOMAIN s : s[i].op = "call" /\ s[i].parent = h
    BY <1>2 DEF Stacked
  <2>2. PICK j \in DOMAIN s : i < j /\ s[j].op = "delete" /\ s[j].child = h
    BY <2>1 DEF Stacked
  <2>3. 1 < j
    <3>1. DOMAIN s = 1 .. Len(s) /\ Len(s) \in Nat  BY <1>1
    <3>2. i \in 1 .. Len(s) /\ j \in 1 .. Len(s)  BY <3>1
    <3> QED BY ONLY <3>1, <3>2, <2>2
  <2>4. rank[h] < rank[h]
    <3>1. rank[s[1].child] < rank[s[j].child]
      BY <1>1, <2>2, <2>3 DEF Stacked
    <3> QED BY <3>1, <2>2
  <2>5. h \in Hashes
    <3>1. s[1] \in Entries
      BY <1>1, TailFacts DEF Stacked
    <3> QED BY <3>1 DEF Entries
  <2>6. rank[h] \in 0 .. Cardinality(Hashes)
    BY <2>5 DEF Ranked
  <2> QED BY <2>4, <2>6
<1> QED BY <1>2, <1>3

LEMMA StackDeleted ==
  ASSUME NEW d, NEW s, NEW L, L \subseteq Nodes(d), NEW rank, Ranked(rank), Stacked(d, s, L, rank),
         s # << >>, NEW h, h = s[1].child, s[1].op = "delete",
         NEW e, Nodes(e) = Nodes(d) \ {h}, KeepsRefs(d, e), Nodes(e) \subseteq DOMAIN e.dirties
  PROVE  Stacked(e, Tail(s), L, rank)
<1>1. PICK t : t = Tail(s)  OBVIOUS
<1>2. /\ t \in Seq(Entries) /\ s[1] \in Entries /\ 1 \in DOMAIN s
      /\ \A i \in DOMAIN t : t[i] = s[i + 1] /\ i + 1 \in DOMAIN s /\ i \in Int /\ 1 < i + 1
      /\ \A i \in DOMAIN s : i \in Int /\ (i # 1 => i - 1 \in DOMAIN t /\ i = (i - 1) + 1)
  <2>1. s \in Seq(Entries)  BY DEF Stacked
  <2> QED BY <1>1, <2>1, TailFacts
<1>3. h \in Hashes /\ rank[h] \in Nat
  <2>1. h \in Hashes  BY <1>2 DEF Entries
  <2>2. rank[h] \in 0 .. Cardinality(Hashes)  BY <2>1 DEF Ranked
  <2> QED BY <2>1, <2>2
<1>4. \A i \in DOMAIN t : t[i].op = "delete" => t[i].child # h /\ t[i].child \in Nodes(d) \ L
  <2>1. TAKE i \in DOMAIN t
  <2>2. SUFFICES ASSUME t[i].op = "delete"  PROVE t[i].child # h /\ t[i].child \in Nodes(d) \ L
    OBVIOUS
  <2>3. s[i + 1].op = "delete" /\ i + 1 \in DOMAIN s /\ 1 < i + 1 /\ t[i] = s[i + 1]
    BY <1>2, <2>2
  <2>4. rank[h] < rank[s[i + 1].child]
    BY <1>2, <2>3 DEF Stacked
  <2>5. s[i + 1].child # h
    BY <2>4, <1>3
  <2> QED BY <2>3, <2>5 DEF Stacked
<1>5. ASSUME NEW x \in Nodes(e) \ L  PROVE \E i \in DOMAIN t : t[i].op = "delete" /\ t[i].child = x
  <2>1. x \in Nodes(d) \ L /\ x # h  BY <1>5
  <2>2. PICK i \in DOMAIN s : s[i].op = "delete" /\ s[i].child = x
    BY <2>1 DEF Stacked
  <2>3. i # 1  BY <2>1, <2>2
  <2>4. i - 1 \in DOMAIN t /\ t[i - 1] = s[i]
    BY <1>2, <2>3
  <2> QED BY <2>2, <2>4
<1>6. ASSUME NEW i \in DOMAIN t, t[i].op = "call"
      PROVE  \E j \in DOMAIN t : i < j /\ t[j].op = "delete" /\ t[j].child = t[i].parent
  <2>1. s[i + 1].op = "call" /\ i + 1 \in DOMAIN s /\ t[i] = s[i + 1]
    BY <1>2, <1>6
  <2>2. PICK k \in DOMAIN s : i + 1 < k /\ s[k].op = "delete" /\ s[k].child = s[i + 1].parent
    BY <2>1 DEF Stacked
  <2>3. i \in Int /\ 1 < i + 1 /\ k \in Int  BY <1>2
  <2>4. k # 1 /\ i < k - 1  BY ONLY <2>2, <2>3
  <2>5. k - 1 \in DOMAIN t /\ t[k - 1] = s[k]
    BY <1>2, <2>4
  <2> QED BY <2>1, <2>2, <2>4, <2>5
<1>7. ASSUME NEW i \in DOMAIN t, NEW j \in DOMAIN t, i < j, t[j].op = "delete"
      PROVE  rank[t[i].child] < rank[t[j].child]
  <2>1. /\ i + 1 \in DOMAIN s /\ j + 1 \in DOMAIN s /\ t[i] = s[i + 1] /\ t[j] = s[j + 1]
        /\ i \in Int /\ j \in Int
    BY <1>2
  <2>2. i + 1 < j + 1  BY ONLY <2>1, <1>7
  <2> QED BY <2>1, <2>2, <1>7 DEF Stacked
<1>8. ASSUME NEW x \in Nodes(e) \ L, NEW z \in DOMAIN e.dirties[x].children
      PROVE  \E i \in DOMAIN t : t[i].op = "call" /\ t[i].child = z /\ t[i].parent = x
  <2>1. x \in Nodes(d) \ L /\ z \in DOMAIN d.dirties[x].children
    BY <1>8 DEF KeepsRefs
  <2>2. PICK i \in DOMAIN s : s[i].op = "call" /\ s[i].child = z /\ s[i].parent = x
    BY <2>1 DEF Stacked
  <2>3. i # 1  BY <2>2
  <2>4. i - 1 \in DOMAIN t /\ t[i - 1] = s[i]
    BY <1>2, <2>3
  <2> QED BY <2>2, <2>4
<1>9. ASSUME NEW i \in DOMAIN t, t[i].op = "delete"  PROVE t[i].child \in Nodes(e) \ L
  BY <1>4, <1>9
<1>10. Stacked(e, t, L, rank)
  BY <1>2, <1>5, <1>6, <1>7, <1>8, <1>9 DEF Stacked
<1> QED BY <1>1, <1>10

\* No map of external children has changed but that of p.
KeepsOther(d, e, p) == \A h \in Nodes(d) \ {p} : e.dirties[h].children = d.dirties[h].children

\* The top of the stack is a call: its parent forgets the child.
LEMMA StackCalled ==
  ASSUME NEW d, NEW s, NEW L, L \subseteq Nodes(d), NEW rank, Ranked(rank), Stacked(d, s, L, rank),
         s # << >>, NEW x, x = s[1].child, NEW p, p = s[1].parent, s[1].op = "call",
         NEW e, Nodes(e) = Nodes(d), KeepsOther(d, e, p),
         DOMAIN e.dirties[p].children \subseteq DOMAIN d.dirties[p].children \ {x}
  PROVE  Stacked(e, Tail(s), L, rank) /\ Ranks(Tail(s), x, rank)
<1>1. PICK t : t = Tail(s)  OBVIOUS
<1>2. /\ t \in Seq(Entries) /\ s[1] \in Entries /\ 1 \in DOMAIN s
      /\ \A i \in DOMAIN t : t[i] = s[i + 1] /\ i + 1 \in DOMAIN s /\ i \in Int /\ 1 < i + 1
      /\ \A i \in DOMAIN s : i \in Int /\ (i # 1 => i - 1 \in DOMAIN t /\ i = (i - 1) + 1)
  <2>1. s \in Seq(Entries)  BY DEF Stacked
  <2> QED BY <1>1, <2>1, TailFacts
<1>4. \A i \in DOMAIN t : t[i].op = "delete" => t[i].child \in Nodes(e) \ L
  <2>1. TAKE i \in DOMAIN t
  <2>2. SUFFICES ASSUME t[i].op = "delete"  PROVE t[i].child \in Nodes(d) \ L
    OBVIOUS
  <2>3. s[i + 1].op = "delete" /\ i + 1 \in DOMAIN s /\ t[i] = s[i + 1]
    BY <1>2, <2>2
  <2> QED BY <2>3 DEF Stacked
<1>5. ASSUME NEW h \in Nodes(e) \ L  PROVE \E i \in DOMAIN t : t[i].op = "delete" /\ t[i].child = h
  <2>2. PICK i \in DOMAIN s : s[i].op = "delete" /\ s[i].child = h
    BY <1>5 DEF Stacked
  <2>3. i # 1  BY <2>2
  <2>4. i - 1 \in DOMAIN t /\ t[i - 1] = s[i]
    BY <1>2, <2>3
  <2> QED BY <2>2, <2>4
<1>6. ASSUME NEW i \in DOMAIN t, t[i].op = "call"
      PROVE  \E j \in DOMAIN t : i < j /\ t[j].op = "delete" /\ t[j].child = t[i].parent
  <2>1. s[i + 1].op = "call" /\ i + 1 \in DOMAIN s /\ t[i] = s[i + 1]
    BY <1>2, <1>6
  <2>2. PICK k \in DOMAIN s : i + 1 < k /\ s[k].op = "delete" /\ s[k].child = s[i + 1].parent
    BY <2>1 DEF Stacked
  <2>3. i \in Int /\ 1 < i + 1 /\ k \in Int  BY <1>2
  <2>4. k # 1 /\ i < k - 1  BY ONLY <2>2, <2>3
  <2>5. k - 1 \in DOMAIN t /\ t[k - 1] = s[k]
    BY <1>2, <2>4
  <2> QED BY <2>1, <2>2, <2>4, <2>5
<1>7. ASSUME NEW i \in DOMAIN t, NEW j \in DOMAIN t, i < j, t[j].op = "delete"
      PROVE  rank[t[i].child] < rank[t[j].child]
  <2>1. /\ i + 1 \in DOMAIN s /\ j + 1 \in DOMAIN s /\ t[i] = s[i + 1] /\ t[j] = s[j + 1]
        /\ i \in Int /\ j \in Int
    BY <1>2
  <2>2. i + 1 < j + 1  BY ONLY <2>1, <1>7
  <2> QED BY <2>1, <2>2, <1>7 DEF Stacked
<1>8. ASSUME NEW h \in Nodes(e) \ L, NEW z \in DOMAIN e.dirties[h].children
      PROVE  \E i \in DOMAIN t : t[i].op = "call" /\ t[i].child = z /\ t[i].parent = h
  <2>1. h \in Nodes(d) \ L /\ z \in DOMAIN d.dirties[h].children /\ ~ (h = p /\ z = x)
    BY <1>8 DEF KeepsOther
  <2>2. PICK i \in DOMAIN s : s[i].op = "call" /\ s[i].child = z /\ s[i].parent = h
    BY <2>1 DEF Stacked
  <2>3. i # 1  BY <2>1, <2>2
  <2>4. i - 1 \in DOMAIN t /\ t[i - 1] = s[i]
    BY <1>2, <2>3
  <2> QED BY <2>2, <2>4
<1>9. Ranks(t, x, rank)
  <2>1. SUFFICES ASSUME NEW j \in DOMAIN t, t[j].op = "delete"  PROVE rank[x] < rank[t[j].child]
    BY DEF Ranks
  <2>2. j + 1 \in DOMAIN s /\ t[j] = s[j + 1] /\ 1 < j + 1
    BY <1>2
  <2> QED BY <2>1, <2>2, <1>2 DEF Stacked
<1>10. Stacked(e, t, L, rank)
  BY <1>2, <1>4, <1>5, <1>6, <1>7, <1>8 DEF Stacked
<1> QED BY <1>1, <1>9, <1>10

LEMMA CallParent ==
  ASSUME NEW d, NEW s, NEW L, NEW rank, Stacked(d, s, L, rank), s # << >>, s[1].op = "call"
  PROVE  s[1].parent \in Nodes(d) \ L /\ s[1].child \in Hashes
<1>1. s \in Seq(Entries) /\ 1 \in DOMAIN s /\ s[1] \in Entries
  BY TailFacts DEF Stacked
<1>2. PICK j \in DOMAIN s : s[j].op = "delete" /\ s[j].child = s[1].parent
  BY <1>1 DEF Stacked
<1>3. s[j].child \in Nodes(d) \ L
  BY <1>2 DEF Stacked
<1>4. s[1].child \in Hashes
  BY <1>1 DEF Entries
<1> QED BY <1>2, <1>3, <1>4

\* A memory database of which only the nodes in L are linked.
Partly(d, L, K, pos) ==
  /\ IsDatabase(d) /\ Maps(d) /\ Weighed(d)
  /\ L \subseteq Nodes(d)
  /\ Closed(L, K)
  /\ \A h \in L : Tied(d, h, K)
  /\ DOMAIN d.dirties[NoHash].children \subseteq L \cup K
  /\ Ordered(d, L, pos)

\* What a linked node counts: references from linked nodes, calls on the stack,
\* and one more for x.
Owed(d, s, L, K, x) ==
  \A h \in L \ K :
    /\ d.dirties[h].parents = Counts(d, L, h) + Pending(s, h) + (IF h = x THEN 1 ELSE 0)
    /\ d.dirties[h].parents > 0

Walking(d, s, L, K, pos, rank) ==
  Partly(d, L, K, pos) /\ Owed(d, s, L, K, NoHash) /\ Stacked(d, s, L, rank)

\* d has become e, and neither the meta root nor the preimages have changed.
Apart(d, e) ==
  /\ Nodes(e) \subseteq Nodes(d)
  /\ e.preimages = d.preimages
  /\ e.dirties[NoHash].children = d.dirties[NoHash].children

LEMMA CountsNat ==
  ASSUME NEW d, IsDatabase(d), NEW L, L \subseteq Nodes(d), NEW h
  PROVE  Counts(d, L, h) \in Nat
<1>1. PICK S : S = L \cup {NoHash}  OBVIOUS
<1>2. S \in SUBSET DOMAIN d.dirties
  BY <1>1, DatabaseFacts
<1>3. Referrers(d, S, h) \in Nat
  BY <1>2, ReferrersNat
<1> QED BY <1>1, <1>3 DEF Counts

LEMMA CountsKept ==
  ASSUME NEW d, NEW e, NEW L, \A x \in L \cup {NoHash} : e.dirties[x].children = d.dirties[x].children,
         NEW h
  PROVE  Counts(e, L, h) = Counts(d, L, h)
<1>1. PICK S : S = L \cup {NoHash}  OBVIOUS
<1>2. \A q \in S : RefersTo(e, q, h) = RefersTo(d, q, h)
  BY <1>1, RefersKept
<1>3. Referrers(e, S, h) = Referrers(d, S, h)
  BY <1>2, ReferrersKept
<1> QED BY <1>1, <1>3 DEF Counts

LEMMA CountsTakes ==
  ASSUME NEW d, IsDatabase(d), NEW L, L \subseteq Nodes(d), NEW x \in L, NEW h
  PROVE  Counts(d, L, h) = Counts(d, L \ {x}, h) + RefersTo(d, x, h)
<1>1. PICK S, T : S = L \cup {NoHash} /\ T = (L \ {x}) \cup {NoHash}  OBVIOUS
<1>2. S \in SUBSET DOMAIN d.dirties /\ x \in S /\ T \in SUBSET DOMAIN d.dirties /\ T = S \ {x}
  BY <1>1, DatabaseFacts
<1>3. Referrers(d, S, h) = Referrers(d, T, h) + RefersTo(d, x, h)
  BY <1>2, ReferrersAdds
<1> QED BY <1>1, <1>3 DEF Counts

\* The count of x has reached zero.
AtZero(g, s, L, K, x) ==
  /\ \A h \in L \ K : g.dirties[h].parents = Counts(g, L, h) + Pending(s, h)
  /\ \A h \in L \ K : h # x => g.dirties[h].parents > 0
  /\ g.dirties[x].parents = 0

\* A node that counts no reference leaves the list, and its children are to be
\* called.
LEMMA Expand ==
  ASSUME NEW g, NEW s, NEW L, NEW K, NEW pos, NEW rank, Ranked(rank),
         Partly(g, L, K, pos), Stacked(g, s, L, rank),
         NEW x \in L, Ranks(s, x, rank), AtZero(g, s, L, K, x),
         NEW u, u = unlink(g, x),
         NEW q, q = forChilds(g, x),
         NEW t, t = Pushed(q, x, s)
  PROVE  /\ Walking(u, t, L \ {x}, K, pos, rank) /\ Apart(g, u)
         /\ Len(t) + Load(u, L \ {x}) = Len(s) + Load(g, L)
<1>a. /\ \A h \in L \ K : g.dirties[h].parents = Counts(g, L, h) + Pending(s, h)
      /\ \A h \in L \ K : h # x => g.dirties[h].parents > 0
      /\ g.dirties[x].parents = 0
  BY DEF AtZero
<1>b. t = Calls(q, x) \o <<Delete(x)>> \o s
  BY DEF Pushed
<1>1. PICK M : M = L \ {x}  OBVIOUS
<1>2. /\ IsDatabase(g) /\ Maps(g) /\ Weighed(g) /\ L \subseteq Nodes(g) /\ Closed(L, K)
      /\ Ordered(g, L, pos) /\ DOMAIN g.dirties[NoHash].children \subseteq L \cup K
  BY DEF Partly
<1>3. x \in Nodes(g) /\ x \in Hashes /\ L \subseteq DOMAIN g.dirties /\ L \subseteq Hashes
      /\ NoHash \in DOMAIN g.dirties /\ NoHash \notin L
  BY <1>2, DatabaseFacts
<1>4. /\ q \in Seq(Hashes) /\ Len(q) \in Nat
      /\ Range(q) \subseteq References(x)
      /\ DOMAIN g.dirties[x].children \subseteq Range(q)
      /\ \A y : Occurrences(q, y) = RefersTo(g, x, y)
  BY <1>2, <1>3, ForChildsFacts
<1>5. Relinked(g, u) /\ Ordered(u, M, pos)
  BY <1>1, <1>2, UnlinkOrdered
<1>6. /\ IsDatabase(u) /\ DOMAIN u.dirties = DOMAIN g.dirties /\ Nodes(u) = Nodes(g)
      /\ KeepsRefs(g, u) /\ KeepsCounts(g, u) /\ u.size = g.size /\ u.preimages = g.preimages
  BY <1>5 DEF Relinked, Nodes
<1>7. Maps(u) /\ Weighed(u)
  BY <1>2, <1>6, MapsKept, WeighedKept
<1>8. \A h \in DOMAIN g.dirties : /\ u.dirties[h].children = g.dirties[h].children
                                  /\ u.dirties[h].parents = g.dirties[h].parents
  BY <1>6 DEF KeepsRefs, KeepsCounts
<1>9. ASSUME x \notin K, NEW p \in L \cup {NoHash}  PROVE RefersTo(g, p, x) = 0
  <2>1. x \in L \ K /\ Pending(s, x) \in Nat /\ Counts(g, L, x) \in Nat
    <3>1. s \in Seq(Entries)  BY DEF Stacked
    <3> QED BY <3>1, <1>9, <1>2, PendingNat, CountsNat
  <2>2. Counts(g, L, x) + Pending(s, x) = 0
    BY <2>1, <1>a
  <2>3. Counts(g, L, x) = 0
    BY ONLY <2>1, <2>2
  <2>4. PICK S : S = L \cup {NoHash}  OBVIOUS
  <2>5. Referrers(g, S, x) = 0
    BY <2>3, <2>4 DEF Counts
  <2>6. S \in SUBSET DOMAIN g.dirties
    BY <2>4, <1>3
  <2>7. \A y \in S : RefersTo(g, y, x) = 0
    BY <2>5, <2>6, <1>2, ReferrersNat
  <2> QED BY <2>7, <2>4
<1>10. Closed(M, K)
  <2>1. SUFFICES ASSUME NEW h \in M  PROVE References(h) \subseteq M \cup K
    BY DEF Closed
  <2>2. h \in L /\ h \in Hashes /\ h # NoHash /\ h \in DOMAIN g.dirties
    BY <1>1, <1>3
  <2>3. References(h) \subseteq L \cup K
    BY <2>2, <1>2 DEF Closed
  <2>4. ASSUME x \in References(h), x \notin K  PROVE FALSE
    <3>1. RefersTo(g, h, x) = 0
      BY <2>2, <2>4, <1>9
    <3>2. x \notin Range(Kids[h]) /\ x \notin DOMAIN g.dirties[h].children
      BY <3>1, <2>2, <1>2, RefersZero
    <3>3. x \in Ext[h]
      BY <3>2, <2>4 DEF References
    <3>4. Tied(g, h, K)
      BY <2>2 DEF Partly
    <3> QED BY <3>2, <3>3, <3>4, <2>4 DEF Tied
  <2> QED BY <2>3, <2>4, <1>1
<1>11. \A h \in M : Tied(u, h, K)
  <2>1. TAKE h \in M
  <2>2. Tied(g, h, K) /\ h \in DOMAIN g.dirties
    BY <1>1, <1>3 DEF Partly
  <2> QED BY <2>2, <1>8 DEF Tied
<1>12. DOMAIN u.dirties[NoHash].children \subseteq M \cup K
  <2>1. DOMAIN g.dirties[NoHash].children \subseteq L \cup K
    BY <1>2
  <2>2. ASSUME x \in DOMAIN g.dirties[NoHash].children, x \notin K  PROVE FALSE
    <3>1. RefersTo(g, NoHash, x) = 0
      BY <2>2, <1>9
    <3> QED BY <3>1, <2>2, <1>2, <1>3, RefersZero
  <2> QED BY <2>1, <2>2, <1>1, <1>3, <1>8
<1>13. Partly(u, M, K, pos)
  <2>1. M \subseteq Nodes(u)  BY <1>1, <1>2, <1>6
  <2> QED BY <2>1, <1>5, <1>6, <1>7, <1>10, <1>11, <1>12 DEF Partly
<1>14. Stacked(u, t, M, rank) /\ Len(t) = Len(q) + 1 + Len(s)
  <2>1. Lists(g, x, q)
    BY <1>4 DEF Lists
  <2>2. L \subseteq Nodes(g)  BY <1>2
  <2>4. Nodes(u) = Nodes(g) /\ KeepsRefs(g, u) /\ x \in Hashes
    BY <1>6, <1>3
  <2>5. Stacked(u, t, L \ {x}, rank) /\ Len(t) = Len(q) + 1 + Len(s)
    <3>1. /\ Ranked(rank) /\ Stacked(g, s, L, rank) /\ x \in L /\ Ranks(s, x, rank)
          /\ t = Pushed(q, x, s)
      BY DEF Pushed
    <3> QED BY ONLY <2>1, <2>2, <2>4, <3>1, StackPush
  <2> QED BY <2>5, <1>1
<1>15. ASSUME NEW h \in M \ K
       PROVE  /\ u.dirties[h].parents = Counts(u, M, h) + Pending(t, h) + (IF h = NoHash THEN 1 ELSE 0)
              /\ u.dirties[h].parents > 0
  <2>1. h \in L \ K /\ h # x /\ h # NoHash /\ h \in DOMAIN g.dirties
    BY <1>1, <1>3
  <2>2. u.dirties[h].parents = Counts(g, L, h) + Pending(s, h) /\ u.dirties[h].parents > 0
    BY <2>1, <1>8, <1>a
  <2>3. Counts(g, L, h) = Counts(g, M, h) + RefersTo(g, x, h)
    BY <1>1, <1>2, CountsTakes
  <2>4. Counts(u, M, h) = Counts(g, M, h)
    <3>1. \A y \in M \cup {NoHash} : u.dirties[y].children = g.dirties[y].children
      BY <1>1, <1>3, <1>8
    <3> QED BY <3>1, CountsKept
  <2>5. Pending(t, h) = RefersTo(g, x, h) + Pending(s, h)
    <3>1. PICK c, o : c = Calls(q, x) /\ o = <<Delete(x)>>  OBVIOUS
    <3>2. c \in Seq(Entries) /\ o \in Seq(Entries) /\ s \in Seq(Entries)
      <4>1. c \in Seq(Entries) /\ Delete(x) \in Entries
        BY <3>1, <1>3, <1>4, CallsFacts
      <4> QED BY <4>1, <3>1 DEF Stacked
    <3>3. c \o o \in Seq(Entries)
      BY <3>2
    <3>4. Pending(t, h) = Pending(c \o o, h) + Pending(s, h)
      <4>1. PICK v : v = c \o o  OBVIOUS
      <4>2. t = v \o s  BY <3>1, <4>1, <1>b
      <4>3. v \in Seq(Entries)  BY <3>3, <4>1
      <4>4. Pending(v \o s, h) = Pending(v, h) + Pending(s, h)
        BY <4>3, <3>2, PendingConcat
      <4> QED BY <4>1, <4>2, <4>4
    <3>5. Pending(c \o o, h) = Pending(c, h) + Pending(o, h)
      BY <3>2, PendingConcat
    <3>6. Pending(o, h) = 0
      <4>1. Len(o) = 1 /\ o[1] = Delete(x)  BY <3>1
      <4>2. Delete(x).op = "delete"  BY DEF Delete
      <4>3. \A i \in 1 .. Len(o) : ~ (o[i].op = "call" /\ o[i].child = h)
        BY <4>1, <4>2
      <4> QED BY <4>3, <3>2, PendingNat
    <3>7. Pending(c, h) = RefersTo(g, x, h)
      BY <3>1, <1>4, PendingCalls
    <3>8. RefersTo(g, x, h) \in Nat
      BY <1>2, <1>3, RefersNat
    <3> QED BY <3>4, <3>5, <3>6, <3>7, <3>8
  <2>6. PICK a, b, c : a = Counts(g, M, h) /\ b = RefersTo(g, x, h) /\ c = Pending(s, h)
    OBVIOUS
  <2>7. a \in Nat /\ b \in Nat /\ c \in Nat
    <3>1. M \subseteq Nodes(g)  BY <1>1, <1>2
    <3>2. s \in Seq(Entries)  BY DEF Stacked
    <3> QED BY <3>1, <3>2, <2>6, <1>2, <1>3, CountsNat, RefersNat, PendingNat
  <2>8. u.dirties[h].parents = a + b + c /\ Counts(u, M, h) + Pending(t, h) = a + (b + c)
    BY <2>2, <2>3, <2>4, <2>5, <2>6
  <2>9. a + b + c = a + (b + c) /\ a + (b + c) = a + (b + c) + 0
    BY ONLY <2>7
  <2> QED BY <2>1, <2>2, <2>8, <2>9
<1>16. Owed(u, t, M, K, NoHash)
  BY <1>15 DEF Owed
<1>17. Len(t) + Load(u, M) = Len(s) + Load(g, L)
  <2>1. Load(u, M) = Load(g, M)
    <3>1. \A h \in M : u.dirties[h].children = g.dirties[h].children
      BY <1>1, <1>3, <1>8
    <3> QED BY <3>1, LoadKept
  <2>2. /\ Load(g, L) = Load(g, M) + Len(q) + 1
        /\ Load(g, L) \in Nat /\ Load(g, M) \in Nat
    BY <1>1, <1>2, LoadMoves
  <2>3. Len(s) \in Nat
    <3>1. s \in Seq(Entries)  BY DEF Stacked
    <3> QED BY <3>1
  <2>4. PICK a, b, c : a = Len(s) /\ b = Load(g, M) /\ c = Len(q)  OBVIOUS
  <2>5. a \in Nat /\ b \in Nat /\ c \in Nat  BY <2>2, <2>3, <2>4, <1>4
  <2>6. (c + 1 + a) + b = a + (b + c + 1)  BY ONLY <2>5
  <2> QED BY <2>1, <2>2, <2>4, <2>6, <1>14
<1>18. Apart(g, u)
  BY <1>6, <1>8, <1>3 DEF Apart
<1> QED BY <1>1, <1>13, <1>14, <1>16, <1>17, <1>18 DEF Walking

LEMMA ForgetMaps ==
  ASSUME NEW d, IsDatabase(d), Maps(d), NEW parent \in DOMAIN d.dirties, NEW child,
         NEW e, Forgetting(d, child, parent, e)
  PROVE  Maps(e) /\ Nodes(e) = Nodes(d) /\ KeepsOther(d, e, parent)
<1>1. /\ IsDatabase(e) /\ DOMAIN e.dirties = DOMAIN d.dirties /\ NoHash \in DOMAIN d.dirties
      /\ \A x \in DOMAIN d.dirties : e.dirties[x].tracked = d.dirties[x].tracked
      /\ \A x \in DOMAIN d.dirties \ {parent} : e.dirties[x].children = d.dirties[x].children
  BY DEF Forgetting, IsDatabase
<1>2. PICK refs, rest : refs = d.dirties[parent].children /\ rest = e.dirties[parent].children
  OBVIOUS
<1>3. /\ DOMAIN rest = IF child \in DOMAIN refs /\ refs[child] > 1 THEN DOMAIN refs
                       ELSE DOMAIN refs \ {child}
      /\ \A x \in DOMAIN rest : rest[x] = IF x = child THEN refs[x] - 1 ELSE refs[x]
  BY <1>2 DEF Forgetting
<1>4. DOMAIN rest \subseteq DOMAIN refs
  BY <1>3
<1>5. /\ d.dirties[NoHash].tracked
      /\ \A h \in DOMAIN d.dirties : d.dirties[h].tracked \/ DOMAIN d.dirties[h].children = {}
      /\ \A h \in Nodes(d) :
           /\ DOMAIN d.dirties[h].children \subseteq Ext[h]
           /\ \A x \in DOMAIN d.dirties[h].children : d.dirties[h].children[x] = 1
  BY DEF Maps
<1>6. Nodes(e) = Nodes(d)
  BY <1>1 DEF Nodes
<1>7. \A h \in DOMAIN e.dirties : e.dirties[h].tracked \/ DOMAIN e.dirties[h].children = {}
  <2>1. TAKE h \in DOMAIN e.dirties
  <2>2. CASE h = parent
    <3>1. d.dirties[h].tracked \/ DOMAIN d.dirties[h].children = {}
      BY <1>1, <1>5
    <3> QED BY <3>1, <2>2, <1>1, <1>2, <1>4
  <2>3. CASE h # parent
    BY <2>3, <1>1, <1>5
  <2> QED BY <2>2, <2>3
<1>8. ASSUME NEW h \in Nodes(e)
      PROVE  /\ DOMAIN e.dirties[h].children \subseteq Ext[h]
             /\ \A x \in DOMAIN e.dirties[h].children : e.dirties[h].children[x] = 1
  <2>1. h \in Nodes(d) /\ h \in DOMAIN d.dirties
    BY <1>6 DEF Nodes
  <2>2. CASE h = parent
    <3>1. DOMAIN refs \subseteq Ext[h] /\ \A x \in DOMAIN refs : refs[x] = 1
      BY <2>1, <2>2, <1>2, <1>5
    <3>2. DOMAIN rest = DOMAIN refs \ {child}
      <4>1. child \in DOMAIN refs => ~ refs[child] > 1  BY <3>1
      <4> QED BY <4>1, <1>3
    <3>3. \A x \in DOMAIN rest : rest[x] = 1
      BY <3>1, <3>2, <1>3
    <3> QED BY <3>1, <3>2, <3>3, <2>2, <1>2
  <2>3. CASE h # parent
    BY <2>1, <2>3, <1>1, <1>5
  <2> QED BY <2>2, <2>3
<1>9. Maps(e)
  BY <1>1, <1>5, <1>7, <1>8 DEF Maps
<1>10. KeepsOther(d, e, parent)
  BY <1>1 DEF KeepsOther, Nodes
<1> QED BY <1>6, <1>9, <1>10

LEMMA ForgetWeighed ==
  ASSUME NEW d, IsDatabase(d), Maps(d), Weighed(d), NEW parent \in DOMAIN d.dirties, NEW child,
         NEW e, Forgetting(d, child, parent, e)
  PROVE  Weighed(e)
<1>1. /\ IsDatabase(e) /\ DOMAIN e.dirties = DOMAIN d.dirties /\ NoHash \in DOMAIN d.dirties
      /\ \A x \in DOMAIN d.dirties : e.dirties[x].tracked = d.dirties[x].tracked
      /\ \A x \in DOMAIN d.dirties \ {parent} : e.dirties[x].children = d.dirties[x].children
      /\ Nodes(e) = Nodes(d) /\ NoHash \notin Nodes(d)
  BY DEF Forgetting, IsDatabase, Nodes
<1>2. PICK refs, rest : refs = d.dirties[parent].children /\ rest = e.dirties[parent].children
  OBVIOUS
<1>3. PICK m, n : m = Cardinality(DOMAIN refs) /\ n = Cardinality(DOMAIN rest)  OBVIOUS
<1>4. /\ IsFiniteSet(DOMAIN refs) /\ m \in Nat /\ n \in Nat
      /\ \A x \in DOMAIN refs : refs[x] \in Nat \ {0}
  <2>1. parent \in DOMAIN e.dirties  BY <1>1
  <2> QED BY <1>1, <1>2, <1>3, <2>1, NodeFacts
<1>5. PICK k : k = IF child \in DOMAIN refs /\ refs[child] <= 1 THEN 1 ELSE 0  OBVIOUS
<1>6. n = m - k /\ k \in Nat
  <2>1. DOMAIN rest = IF child \in DOMAIN refs /\ refs[child] > 1 THEN DOMAIN refs
                      ELSE DOMAIN refs \ {child}
    BY <1>2 DEF Forgetting
  <2>2. CASE child \notin DOMAIN refs
    <3>1. DOMAIN rest = DOMAIN refs  BY <2>1, <2>2
    <3> QED BY <3>1, <2>2, <1>3, <1>4, <1>5
  <2>3. CASE child \in DOMAIN refs /\ refs[child] > 1
    <3>1. DOMAIN rest = DOMAIN refs  BY <2>1, <2>3
    <3>2. ~ refs[child] <= 1  BY <2>3, <1>4
    <3> QED BY <3>1, <3>2, <1>3, <1>4, <1>5
  <2>4. CASE child \in DOMAIN refs /\ ~ refs[child] > 1
    <3>1. DOMAIN rest = DOMAIN refs \ {child}  BY <2>1, <2>4
    <3>2. refs[child] <= 1  BY <2>4, <1>4
    <3>3. Cardinality(DOMAIN refs \ {child}) = Cardinality(DOMAIN refs) - 1
      BY <2>4, <1>4, FS_RemoveElement
    <3> QED BY <3>1, <3>2, <3>3, <2>4, <1>3, <1>5
  <2> QED BY <2>2, <2>3, <2>4
<1>7. e.size = d.size - 34 * k
  <2>1. e.size = d.size - (IF child \in DOMAIN refs /\ refs[child] <= 1 THEN 34 ELSE 0)
    BY <1>2 DEF Forgetting, childSize, HashLength
  <2> QED BY <2>1, <1>5
<1>8. d.size = Total(d) + 34 * Cardinality(DOMAIN d.dirties[NoHash].children)
  BY DEF Weighed, Total, childSize, HashLength
<1>9. Total(d) \in Nat /\ Total(e) \in Nat
  BY <1>1, TotalNat
<1>10. e.size = Total(e) + 34 * Cardinality(DOMAIN e.dirties[NoHash].children)
  <2>1. CASE parent = NoHash
    <3>1. \A h \in Nodes(d) : Weight(e, h) = Weight(d, h)
      <4>1. TAKE h \in Nodes(d)
      <4>2. e.dirties[h].children = d.dirties[h].children /\ e.dirties[h].tracked = d.dirties[h].tracked
        BY <2>1, <1>1 DEF Nodes
      <4> QED BY <4>2, WeightKept
    <3>2. Total(e) = Total(d)
      BY <3>1, <1>1, TotalKept
    <3>3. d.size = Total(d) + 34 * m
      BY <2>1, <1>2, <1>3, <1>8
    <3>4. e.size = Total(e) + 34 * n
      BY ONLY <3>2, <3>3, <1>4, <1>6, <1>7, <1>9
    <3> QED BY <3>4, <2>1, <1>2, <1>3
  <2>2. CASE parent # NoHash
    <3>1. parent \in Nodes(d)  BY <2>2 DEF Nodes
    <3>2. \A x \in Nodes(d) \ {parent} : Weight(e, x) = Weight(d, x)
      <4>1. TAKE x \in Nodes(d) \ {parent}
      <4>2. e.dirties[x].children = d.dirties[x].children /\ e.dirties[x].tracked = d.dirties[x].tracked
        BY <1>1 DEF Nodes
      <4> QED BY <4>2, WeightKept
    <3>3. Total(e) = Total(d) - Weight(d, parent) + Weight(e, parent)
      BY <3>1, <3>2, <1>1, TotalMoves
    <3>4. PICK w : w = Cardinality(DOMAIN d.dirties[NoHash].children)  OBVIOUS
    <3>5. w = Cardinality(DOMAIN e.dirties[NoHash].children) /\ w \in Nat
      BY <3>4, <2>2, <1>1, NodeFacts
    <3>6. Weight(d, parent) = 32 + Size[parent] + (IF d.dirties[parent].tracked THEN 48 + 34 * m ELSE 0)
      BY <1>2, <1>3 DEF Weight, childrenOf, HashLength, childSize, cachedNodeChildrenSize
    <3>7. Weight(e, parent) = 32 + Size[parent] + (IF d.dirties[parent].tracked THEN 48 + 34 * n ELSE 0)
      BY <1>1, <1>2, <1>3 DEF Weight, childrenOf, HashLength, childSize, cachedNodeChildrenSize
    <3>8. Size[parent] \in Nat
      BY <3>1, DatabaseFacts, RefFacts
    <3>9. ~ d.dirties[parent].tracked => k = 0
      <4>1. SUFFICES ASSUME ~ d.dirties[parent].tracked  PROVE k = 0  OBVIOUS
      <4>2. DOMAIN refs = {}  BY <4>1, <1>2 DEF Maps
      <4> QED BY <4>2, <1>5
    <3>10. Weight(e, parent) = Weight(d, parent) - 34 * k
      <4>1. PICK s : s = Size[parent]  OBVIOUS
      <4>2. CASE d.dirties[parent].tracked
        <5>1. Weight(d, parent) = 32 + s + (48 + 34 * m) /\ Weight(e, parent) = 32 + s + (48 + 34 * n)
          BY <4>1, <4>2, <3>6, <3>7
        <5> QED BY ONLY <5>1, <4>1, <3>8, <1>4, <1>6
      <4>3. CASE ~ d.dirties[parent].tracked
        <5>1. Weight(d, parent) = 32 + s + 0 /\ Weight(e, parent) = 32 + s + 0 /\ k = 0
          BY <4>1, <4>3, <3>6, <3>7, <3>9
        <5> QED BY ONLY <5>1, <4>1, <3>8
      <4> QED BY <4>2, <4>3
    <3>11. Weight(d, parent) \in Nat  BY <3>1, WeightNat
    <3>12. d.size = Total(d) + 34 * w  BY <3>4, <1>8
    <3>13. e.size = Total(e) + 34 * w
      BY ONLY <3>3, <3>5, <3>10, <3>11, <3>12, <1>6, <1>7, <1>9
    <3> QED BY <3>13, <3>5
  <2> QED BY <2>1, <2>2
<1> QED BY <1>10 DEF Weighed, Total, childSize, HashLength

LEMMA PendingPop ==
  ASSUME NEW s \in Seq(Entries), s # << >>, NEW h
  PROVE  Pending(s, h) = Pending(Tail(s), h)
                           + (IF s[1].op = "call" /\ s[1].child = h THEN 1 ELSE 0)
<1>1. PICK o, t : o = <<s[1]>> /\ t = Tail(s)  OBVIOUS
<1>2. /\ t \in Seq(Entries) /\ Len(t) = Len(s) - 1 /\ Len(s) \in Nat \ {0} /\ s[1] \in Entries
      /\ \A i \in DOMAIN t : t[i] = s[i + 1]
  BY <1>1, TailFacts
<1>3. o \in Seq(Entries) /\ Len(o) = 1 /\ o[1] = s[1] /\ DOMAIN o = {1}
  BY <1>1, <1>2
<1>4. s = o \o t
  <2>1. Head(s) = s[1]  BY TailFacts
  <2>2. s = <<Head(s)>> \o Tail(s)
    BY HeadTailProperties
  <2> QED BY <2>1, <2>2, <1>1
<1>5. Pending(o \o t, h) = Pending(o, h) + Pending(t, h)
  BY <1>2, <1>3, PendingConcat
<1>6. Pending(t, h) \in Nat
  BY <1>2, PendingNat
<1>7. Pending(o, h) = IF s[1].op = "call" /\ s[1].child = h THEN 1 ELSE 0
  <2>1. PICK A : A = {i \in DOMAIN o : o[i].op = "call" /\ o[i].child = h}  OBVIOUS
  <2>2. Pending(o, h) = Cardinality(A)  BY <2>1 DEF Pending
  <2>3. CASE s[1].op = "call" /\ s[1].child = h
    <3>1. A = {1}  BY <2>1, <2>3, <1>3
    <3>2. Cardinality({1}) = 1  BY FS_Singleton
    <3> QED BY <3>1, <3>2, <2>2, <2>3
  <2>4. CASE ~ (s[1].op = "call" /\ s[1].child = h)
    <3>1. A = {}  BY <2>1, <2>4, <1>3
    <3>2. Cardinality({}) = 0  BY FS_EmptySet
    <3> QED BY <3>1, <3>2, <2>2, <2>4
  <2> QED BY <2>3, <2>4
<1>8. PICK a, b : a = Pending(t, h) /\ b = IF s[1].op = "call" /\ s[1].child = h THEN 1 ELSE 0
  OBVIOUS
<1>9. a \in Int /\ b \in Int  BY <1>6, <1>8
<1>10. b + a = a + b  BY ONLY <1>9
<1> QED BY <1>1, <1>4, <1>5, <1>7, <1>8, <1>10

\* The walk is at c, with n steps to go at most.
Reached(d, c, K, pos, rank, n) ==
  \E L \in SUBSET Nodes(d) : /\ Walking(c.db, c.stack, L, K, pos, rank) /\ Apart(d, c.db)
                             /\ Len(c.stack) + Load(c.db, L) = n

LEMMA VisitStep ==
  ASSUME NEW d, NEW s, NEW L, NEW K, NEW pos, NEW rank, Ranked(rank),
         Partly(d, L, K, pos), Stacked(d, s, L, rank),
         NEW x \in Hashes, Ranks(s, x, rank), Owed(d, s, L, K, x),
         NEW n, n = Len(s) + Load(d, L)
  PROVE  Reached(d, visit(d, x, s), K, pos, rank, n)
<1>0. /\ IsDatabase(d) /\ Maps(d) /\ Weighed(d) /\ L \subseteq Nodes(d) /\ Closed(L, K)
      /\ Ordered(d, L, pos) /\ DOMAIN d.dirties[NoHash].children \subseteq L \cup K
  BY DEF Partly
<1>a. L \subseteq DOMAIN d.dirties /\ NoHash \notin L /\ NoHash \in DOMAIN d.dirties
  BY <1>0, DatabaseFacts
<1>b. s \in Seq(Entries)
  BY DEF Stacked
<1>c. x # NoHash
  BY HashFacts
<1>1. /\ IsDatabase(d) /\ Maps(d) /\ Weighed(d) /\ L \subseteq Nodes(d) /\ Closed(L, K)
      /\ Ordered(d, L, pos) /\ DOMAIN d.dirties[NoHash].children \subseteq L \cup K
      /\ L \subseteq DOMAIN d.dirties /\ NoHash \notin L /\ NoHash \in DOMAIN d.dirties
      /\ s \in Seq(Entries) /\ x # NoHash
  BY <1>0, <1>a, <1>b, <1>c
<1>2. PICK c : c = visit(d, x, s)  OBVIOUS
<1>3. CASE x \notin DOMAIN d.dirties
  <2>1. c = [db |-> d, stack |-> s]
    BY <1>2, <1>3 DEF visit
  <2>2. c.db = d /\ c.stack = s  BY ONLY <2>1
  <2>3. Owed(d, s, L, K, NoHash)
    <3>1. \A h \in L : h # x /\ h # NoHash  BY <1>1, <1>3
    <3> QED BY <3>1 DEF Owed
  <2>4. Apart(d, d)  BY DEF Apart
  <2>5. Walking(d, s, L, K, pos, rank)
    BY <2>3 DEF Walking
  <2> QED BY <2>2, <2>4, <2>5, <1>1, <1>2 DEF Reached
<1>4. CASE x \in DOMAIN d.dirties
  <2>1. x \in L
    <3>1. SUFFICES ASSUME x \in Nodes(d) \ L  PROVE FALSE
      BY <1>1, <1>4 DEF Nodes
    <3>2. PICK i \in DOMAIN s : s[i].op = "delete" /\ s[i].child = x
      BY <3>1 DEF Stacked
    <3>3. rank[x] < rank[x]
      BY <3>2 DEF Ranks
    <3>4. rank[x] \in 0 .. Cardinality(Hashes)
      BY DEF Ranked
    <3> QED BY <3>3, <3>4
  <2>2. PICK g, m, k : g = countDown(d, x) /\ m = d.dirties[x].parents /\ k = IF m > 0 THEN m - 1 ELSE m
    OBVIOUS
  <2>3. Counting(d, x, g, k)
    BY <2>2, <1>1, <1>4, CountDownIs
  <2>4. /\ IsDatabase(g) /\ DOMAIN g.dirties = DOMAIN d.dirties /\ Nodes(g) = Nodes(d)
        /\ KeepsLinks(d, g) /\ KeepsRefs(d, g) /\ g.preimages = d.preimages /\ g.size = d.size
        /\ g.dirties[x].parents = k
        /\ \A y \in DOMAIN d.dirties \ {x} : g.dirties[y].parents = d.dirties[y].parents
    BY <2>3 DEF Counting, Nodes
  <2>5. \A y \in DOMAIN d.dirties : g.dirties[y].children = d.dirties[y].children
    BY <2>4 DEF KeepsRefs
  <2>6. Partly(g, L, K, pos)
    <3>1. Maps(g) /\ Weighed(g)
      BY <1>1, <2>4, MapsKept, WeighedKept
    <3>2. Ordered(g, L, pos)
      BY <1>1, <2>4, OrderedKept
    <3>3. \A h \in L : Tied(g, h, K)
      <4>1. TAKE h \in L
      <4>2. Tied(d, h, K)  BY DEF Partly
      <4> QED BY <4>2, <2>5, <1>1 DEF Tied
    <3>4. DOMAIN g.dirties[NoHash].children \subseteq L \cup K /\ L \subseteq Nodes(g)
      BY <1>1, <2>4, <2>5
    <3> QED BY <3>1, <3>2, <3>3, <3>4, <2>4, <1>1 DEF Partly
  <2>7. Stacked(g, s, L, rank)
    <3>1. \A h \in Nodes(d) : g.dirties[h].children = d.dirties[h].children
      BY <2>5 DEF Nodes
    <3> QED BY <3>1, <2>4 DEF Stacked
  <2>8. Load(g, L) = Load(d, L)
    <3>1. \A h \in L : g.dirties[h].children = d.dirties[h].children
      BY <2>5, <1>1
    <3> QED BY <3>1, LoadKept
  <2>9. \A h \in L : Counts(g, L, h) = Counts(d, L, h)
    <3>1. \A y \in L \cup {NoHash} : g.dirties[y].children = d.dirties[y].children
      BY <2>5, <1>1
    <3> QED BY <3>1, CountsKept
  <2>10. ASSUME NEW h \in L \ K
         PROVE  /\ g.dirties[h].parents = Counts(g, L, h) + Pending(s, h)
                /\ h # x => g.dirties[h].parents > 0
    <3>1. PICK a, b : a = Counts(d, L, h) /\ b = Pending(s, h)  OBVIOUS
    <3>2. a \in Nat /\ b \in Nat
      BY <3>1, <1>1, CountsNat, PendingNat
    <3>3. /\ d.dirties[h].parents = a + b + (IF h = x THEN 1 ELSE 0)
          /\ d.dirties[h].parents > 0
      BY <3>1 DEF Owed
    <3>4. CASE h = x
      <4>1. m = a + b + 1 /\ m > 0  BY <3>3, <3>4, <2>2
      <4>2. k = m - 1  BY <4>1, <2>2
      <4>3. k = a + b  BY ONLY <4>1, <4>2, <3>2
      <4> QED BY <4>3, <3>1, <3>4, <2>4, <2>9
    <3>5. CASE h # x
      <4>1. g.dirties[h].parents = d.dirties[h].parents
        BY <3>5, <2>4, <1>1
      <4>2. d.dirties[h].parents = a + b + 0  BY <3>3, <3>5
      <4>3. a + b + 0 = a + b  BY ONLY <3>2
      <4> QED BY <4>1, <4>2, <4>3, <3>1, <3>3, <2>9
    <3> QED BY <3>4, <3>5
  <2>11. Apart(d, g)
    BY <2>4, <2>5, <1>1 DEF Apart
  <2>12. CASE k # 0
    <3>1. c = [db |-> g, stack |-> s]
      BY <1>2, <1>4, <2>12, <2>2, <2>4 DEF visit
    <3>2. c.db = g /\ c.stack = s  BY ONLY <3>1
    <3>3. Owed(g, s, L, K, NoHash)
      <4>1. SUFFICES ASSUME NEW h \in L \ K
                     PROVE  /\ g.dirties[h].parents = Counts(g, L, h) + Pending(s, h) + (IF h = NoHash THEN 1 ELSE 0)
                            /\ g.dirties[h].parents > 0
        BY DEF Owed
      <4>2. h # NoHash  BY <1>1
      <4>3. Counts(g, L, h) + Pending(s, h) = Counts(g, L, h) + Pending(s, h) + 0
        <5>1. Counts(g, L, h) \in Nat
          BY <1>1, <2>4, CountsNat
        <5>2. Pending(s, h) \in Nat
          BY <1>1, PendingNat
        <5> QED BY ONLY <5>1, <5>2
      <4>4. g.dirties[h].parents > 0
        <5>1. CASE h = x
          <6>1. k \in Nat
            <7>1. x \in DOMAIN g.dirties  BY <1>4, <2>4
            <7> QED BY <7>1, <2>4, NodeFacts
          <6>2. k > 0  BY ONLY <6>1, <2>12
          <6> QED BY <6>2, <5>1, <2>4
        <5>2. CASE h # x  BY <5>2, <2>10
        <5> QED BY <5>1, <5>2
      <4> QED BY <4>2, <4>3, <4>4, <2>10
    <3>4. Walking(g, s, L, K, pos, rank)
      BY <3>3, <2>6, <2>7 DEF Walking
    <3> QED BY <3>2, <3>4, <2>8, <2>11, <1>1, <1>2 DEF Reached
  <2>13. CASE k = 0
    <3>1. PICK u, q, t : u = unlink(g, x) /\ q = forChilds(g, x) /\ t = Pushed(q, x, s)
      OBVIOUS
    <3>2. c = [db |-> u, stack |-> t]
      BY <1>2, <1>4, <2>13, <2>2, <2>4, <3>1 DEF visit, Pushed
    <3>3. c.db = u /\ c.stack = t  BY ONLY <3>2
    <3>4. PICK M : M = L \ {x}  OBVIOUS
    <3>5. /\ \A h \in L \ K : g.dirties[h].parents = Counts(g, L, h) + Pending(s, h)
          /\ \A h \in L \ K : h # x => g.dirties[h].parents > 0
          /\ g.dirties[x].parents = 0
      BY <2>10, <2>13, <2>4
    <3>a. AtZero(g, s, L, K, x)
      BY ONLY <3>5 DEF AtZero
    <3>b. Ranked(rank) /\ Ranks(s, x, rank)  OBVIOUS
    <3>6. /\ Walking(u, t, L \ {x}, K, pos, rank) /\ Apart(g, u)
          /\ Len(t) + Load(u, L \ {x}) = Len(s) + Load(g, L)
      BY ONLY <3>1, <3>a, <3>b, <2>1, <2>6, <2>7, Expand
    <3>7. Apart(d, u)
      BY <3>6, <2>11 DEF Apart
    <3>8. M \in SUBSET Nodes(d)  BY <3>4, <1>1
    <3> QED BY <3>3, <3>4, <3>6, <3>7, <3>8, <2>8, <1>2 DEF Reached
  <2> QED BY <2>12, <2>13
<1> QED BY <1>3, <1>4

LEMMA DeleteIs ==
  ASSUME NEW d, IsDatabase(d), NEW h \in Nodes(d), DOMAIN d.dirties[h].children = {}
  PROVE  Leaving(d, h, delete(d, h)) /\ KeepsLinks(d, delete(d, h))
<1>1. PICK e, n : e = delete(d, h) /\ n = IF d.dirties[h].tracked THEN cachedNodeChildrenSize ELSE 0
  OBVIOUS
<1>2. n \in Int
  BY <1>1 DEF cachedNodeChildrenSize
<1>3. d.oldest \in OrNone /\ h \in Hashes /\ Size[h] \in Nat /\ d.size \in Int
  BY DatabaseFacts, RefFacts
<1>4. PICK v : v = d.oldest  OBVIOUS
<1>5. e = Dropped(d, h, v, n)
  BY <1>1, <1>4, DropSame DEF delete, Dropped
<1>6. Dropping(d, h, e, n) /\ e.oldest = v /\ e.newest = d.newest
  BY <1>2, <1>3, <1>4, <1>5, DropIs
<1>7. /\ IsDatabase(e) /\ DOMAIN e.dirties = DOMAIN d.dirties \ {h}
      /\ \A x \in DOMAIN e.dirties : e.dirties[x] = d.dirties[x]
      /\ e.preimages = d.preimages
      /\ e.size = d.size - HashLength - Size[h] - n
  BY <1>6 DEF Dropping
<1>8. KeepsRefs(d, e) /\ KeepsCounts(d, e) /\ KeepsLinks(d, e)
  BY <1>4, <1>6, <1>7 DEF KeepsRefs, KeepsCounts, KeepsLinks
<1>9. childrenOf(d, h) = n
  <2>1. Cardinality({}) = 0  BY FS_EmptySet
  <2>2. childrenOf(d, h) = IF d.dirties[h].tracked THEN 48 + 34 * 0 ELSE 0
    BY <2>1 DEF childrenOf, childSize, HashLength, cachedNodeChildrenSize
  <2> QED BY <2>2, <1>1 DEF cachedNodeChildrenSize
<1>10. e.size = d.size - Weight(d, h)
  <2>1. PICK s : s = Size[h]  OBVIOUS
  <2>2. Weight(d, h) = 32 + s + n  BY <2>1, <1>9 DEF Weight, HashLength
  <2>3. e.size = d.size - 32 - s - n  BY <2>1, <1>7 DEF HashLength
  <2>4. s \in Int /\ d.size \in Int  BY <2>1, <1>3
  <2> QED BY ONLY <2>2, <2>3, <2>4, <1>2
<1> QED BY <1>1, <1>7, <1>8, <1>10 DEF Leaving

LEMMA DeleteStep ==
  ASSUME NEW d, NEW s, NEW L, NEW K, NEW pos, NEW rank, Ranked(rank),
         Walking(d, s, L, K, pos, rank), s # << >>,
         NEW h, h = s[1].child, s[1].op = "delete",
         NEW e, e = delete(d, h)
  PROVE  Walking(e, Tail(s), L, K, pos, rank) /\ Apart(d, e) /\ Load(e, L) = Load(d, L)
<1>0. Partly(d, L, K, pos) /\ Owed(d, s, L, K, NoHash) /\ Stacked(d, s, L, rank)
  BY DEF Walking
<1>1. /\ IsDatabase(d) /\ Maps(d) /\ Weighed(d) /\ L \subseteq Nodes(d) /\ Closed(L, K)
      /\ Ordered(d, L, pos) /\ DOMAIN d.dirties[NoHash].children \subseteq L \cup K
  BY <1>0 DEF Partly
<1>2. L \subseteq DOMAIN d.dirties /\ NoHash \notin Nodes(d) /\ DOMAIN d.dirties = Nodes(d) \cup {NoHash}
  BY <1>1, DatabaseFacts
<1>3. h \in Nodes(d) \ L /\ DOMAIN d.dirties[h].children = {}
  <2>1. Ranked(rank) /\ s # << >> /\ h = s[1].child /\ s[1].op = "delete"  OBVIOUS
  <2>2. L \subseteq Nodes(d)  BY <1>1
  <2> QED BY ONLY <2>1, <2>2, <1>0, StackDelete
<1>4. Leaving(d, h, e) /\ KeepsLinks(d, e)
  BY <1>1, <1>3, DeleteIs
<1>5. /\ IsDatabase(e) /\ DOMAIN e.dirties = DOMAIN d.dirties \ {h}
      /\ KeepsRefs(d, e) /\ KeepsCounts(d, e) /\ e.preimages = d.preimages
  BY <1>4 DEF Leaving
<1>6. Nodes(e) = Nodes(d) \ {h} /\ L \subseteq Nodes(e) /\ L \subseteq DOMAIN e.dirties
      /\ Nodes(e) \subseteq DOMAIN e.dirties /\ NoHash \in DOMAIN e.dirties
  BY <1>1, <1>2, <1>3, <1>5 DEF Nodes
<1>7. \A y \in DOMAIN e.dirties : /\ e.dirties[y].children = d.dirties[y].children
                                  /\ e.dirties[y].parents = d.dirties[y].parents
  BY <1>5 DEF KeepsRefs, KeepsCounts
<1>8. Maps(e) /\ Weighed(e)
  <2>1. Maps(e)  BY <1>1, <1>5, MapsKept
  <2>2. Weighed(e)  BY <1>1, <1>3, <1>4, LeavingWeighed
  <2> QED BY <2>1, <2>2
<1>9. Ordered(e, L, pos)
  BY <1>1, <1>2, <1>4, <1>6, OrderedKept
<1>10. \A y \in L : Tied(e, y, K)
  <2>1. TAKE y \in L
  <2>2. Tied(d, y, K) /\ y \in DOMAIN e.dirties  BY <1>0, <1>6 DEF Partly
  <2> QED BY <2>2, <1>7 DEF Tied
<1>11. Partly(e, L, K, pos)
  BY <1>1, <1>5, <1>6, <1>7, <1>8, <1>9, <1>10 DEF Partly
<1>12. Stacked(e, Tail(s), L, rank)
  <2>1. Ranked(rank) /\ s # << >> /\ h = s[1].child /\ s[1].op = "delete"  OBVIOUS
  <2>2. L \subseteq Nodes(d)  BY <1>1
  <2> QED BY ONLY <2>1, <2>2, <1>0, <1>5, <1>6, StackDeleted
<1>13. Owed(e, Tail(s), L, K, NoHash)
  <2>1. SUFFICES ASSUME NEW y \in L \ K
                 PROVE  /\ e.dirties[y].parents = Counts(e, L, y) + Pending(Tail(s), y) + (IF y = NoHash THEN 1 ELSE 0)
                        /\ e.dirties[y].parents > 0
    BY DEF Owed
  <2>2. /\ d.dirties[y].parents = Counts(d, L, y) + Pending(s, y) + (IF y = NoHash THEN 1 ELSE 0)
        /\ d.dirties[y].parents > 0
    BY <1>0 DEF Owed
  <2>3. Counts(e, L, y) = Counts(d, L, y)
    <3>1. \A z \in L \cup {NoHash} : e.dirties[z].children = d.dirties[z].children
      BY <1>6, <1>7
    <3> QED BY <3>1, CountsKept
  <2>4. Pending(s, y) = Pending(Tail(s), y)
    <3>1. s \in Seq(Entries)  BY <1>0 DEF Stacked
    <3>2. Pending(s, y) = Pending(Tail(s), y) + (IF s[1].op = "call" /\ s[1].child = y THEN 1 ELSE 0)
      BY <3>1, PendingPop
    <3>3. ~ (s[1].op = "call" /\ s[1].child = y)  OBVIOUS
    <3>4. Tail(s) \in Seq(Entries)  BY <3>1, TailFacts
    <3>5. Pending(Tail(s), y) \in Nat  BY <3>4, PendingNat
    <3>6. Pending(s, y) = Pending(Tail(s), y) + 0  BY <3>2, <3>3
    <3> QED BY ONLY <3>5, <3>6
  <2>5. e.dirties[y].parents = d.dirties[y].parents
    BY <1>6, <1>7
  <2> QED BY <2>2, <2>3, <2>4, <2>5
<1>14. Apart(d, e)
  BY <1>5, <1>6, <1>7 DEF Apart
<1>15. Load(e, L) = Load(d, L)
  <2>1. \A y \in L : e.dirties[y].children = d.dirties[y].children
    BY <1>6, <1>7
  <2> QED BY <2>1, LoadKept
<1> QED BY <1>11, <1>12, <1>13, <1>14, <1>15 DEF Walking

LEMMA CallStep ==
  ASSUME NEW d, NEW s, NEW L, NEW K, NEW pos, NEW rank, Ranked(rank),
         Walking(d, s, L, K, pos, rank), s # << >>, s[1].op = "call",
         NEW x, x = s[1].child, NEW p, p = s[1].parent,
         NEW e, e = forget(d, x, p)
  PROVE  /\ Partly(e, L, K, pos) /\ Stacked(e, Tail(s), L, rank) /\ Ranks(Tail(s), x, rank)
         /\ Owed(e, Tail(s), L, K, x) /\ x \in Hashes
         /\ Apart(d, e) /\ Load(e, L) = Load(d, L)
<1>0. Partly(d, L, K, pos) /\ Owed(d, s, L, K, NoHash) /\ Stacked(d, s, L, rank)
  BY DEF Walking
<1>1. /\ IsDatabase(d) /\ Maps(d) /\ Weighed(d) /\ L \subseteq Nodes(d) /\ Closed(L, K)
      /\ Ordered(d, L, pos) /\ DOMAIN d.dirties[NoHash].children \subseteq L \cup K
  BY <1>0 DEF Partly
<1>2. L \subseteq DOMAIN d.dirties /\ NoHash \notin Nodes(d) /\ DOMAIN d.dirties = Nodes(d) \cup {NoHash}
  BY <1>1, DatabaseFacts
<1>3. p \in Nodes(d) \ L /\ x \in Hashes
  <2>1. s[1].parent \in Nodes(d) \ L /\ s[1].child \in Hashes
    BY <1>0, CallParent
  <2> QED BY <2>1
<1>4. p # NoHash /\ p \in DOMAIN d.dirties /\ x # NoHash
  BY <1>2, <1>3, HashFacts
<1>5. Forgetting(d, x, p, e)
  BY <1>1, <1>4, ForgetIs
<1>6. /\ IsDatabase(e) /\ DOMAIN e.dirties = DOMAIN d.dirties
      /\ KeepsLinks(d, e) /\ KeepsCounts(d, e) /\ e.preimages = d.preimages
      /\ \A y \in DOMAIN d.dirties \ {p} : e.dirties[y].children = d.dirties[y].children
  BY <1>5 DEF Forgetting
<1>7. Maps(e) /\ Nodes(e) = Nodes(d) /\ KeepsOther(d, e, p)
  BY <1>1, <1>4, <1>5, ForgetMaps
<1>8. Weighed(e)
  BY <1>1, <1>4, <1>5, ForgetWeighed
<1>9. DOMAIN e.dirties[p].children \subseteq DOMAIN d.dirties[p].children \ {x}
  <2>1. DOMAIN e.dirties[p].children =
          IF x \in DOMAIN d.dirties[p].children /\ d.dirties[p].children[x] > 1
          THEN DOMAIN d.dirties[p].children ELSE DOMAIN d.dirties[p].children \ {x}
    BY <1>5 DEF Forgetting
  <2>2. x \in DOMAIN d.dirties[p].children => d.dirties[p].children[x] = 1
    BY <1>1, <1>3 DEF Maps
  <2>3. ~ (x \in DOMAIN d.dirties[p].children /\ d.dirties[p].children[x] > 1)
    BY <2>2
  <2> QED BY <2>1, <2>3
<1>10. Ordered(e, L, pos)
  BY <1>1, <1>2, <1>6, OrderedKept
<1>11. \A y \in L \cup {NoHash} : e.dirties[y].children = d.dirties[y].children
  BY <1>2, <1>3, <1>4, <1>6
<1>12. \A y \in L : Tied(e, y, K)
  <2>1. TAKE y \in L
  <2>2. Tied(d, y, K)  BY <1>0 DEF Partly
  <2> QED BY <2>2, <1>11 DEF Tied
<1>13. Partly(e, L, K, pos)
  BY <1>1, <1>6, <1>7, <1>8, <1>10, <1>11, <1>12 DEF Partly
<1>14. Stacked(e, Tail(s), L, rank) /\ Ranks(Tail(s), x, rank)
  <2>1. Ranked(rank) /\ s # << >> /\ x = s[1].child /\ p = s[1].parent /\ s[1].op = "call"  OBVIOUS
  <2>2. L \subseteq Nodes(d)  BY <1>1
  <2> QED BY ONLY <2>1, <2>2, <1>0, <1>7, <1>9, StackCalled
<1>15. Owed(e, Tail(s), L, K, x)
  <2>1. SUFFICES ASSUME NEW y \in L \ K
                 PROVE  /\ e.dirties[y].parents = Counts(e, L, y) + Pending(Tail(s), y) + (IF y = x THEN 1 ELSE 0)
                        /\ e.dirties[y].parents > 0
    BY DEF Owed
  <2>2. /\ d.dirties[y].parents = Counts(d, L, y) + Pending(s, y) + (IF y = NoHash THEN 1 ELSE 0)
        /\ d.dirties[y].parents > 0
    BY <1>0 DEF Owed
  <2>3. Counts(e, L, y) = Counts(d, L, y)
    BY <1>11, CountsKept
  <2>4. s \in Seq(Entries)  BY <1>0 DEF Stacked
  <2>5. Pending(s, y) = Pending(Tail(s), y) + (IF y = x THEN 1 ELSE 0)
    <3>1. Pending(s, y) = Pending(Tail(s), y) + (IF s[1].op = "call" /\ s[1].child = y THEN 1 ELSE 0)
      BY <2>4, PendingPop
    <3>2. (s[1].op = "call" /\ s[1].child = y) <=> y = x  OBVIOUS
    <3> QED BY <3>1, <3>2
  <2>6. Tail(s) \in Seq(Entries)  BY <2>4, TailFacts
  <2>7. Pending(Tail(s), y) \in Nat /\ Counts(d, L, y) \in Nat
    BY <2>6, <1>1, PendingNat, CountsNat
  <2>8. y # NoHash /\ y \in DOMAIN e.dirties
    BY <1>1, <1>2, <1>6
  <2>9. e.dirties[y].parents = d.dirties[y].parents
    BY <2>8, <1>6 DEF KeepsCounts
  <2>10. PICK a, b, k : a = Counts(d, L, y) /\ b = Pending(Tail(s), y) /\ k = IF y = x THEN 1 ELSE 0
    OBVIOUS
  <2>11. d.dirties[y].parents = a + (b + k) + 0
    BY <2>2, <2>5, <2>8, <2>10
  <2>12. k \in Nat /\ a \in Nat /\ b \in Nat
    BY <2>7, <2>10
  <2>13. a + (b + k) + 0 = a + b + k
    BY ONLY <2>12
  <2> QED BY <2>2, <2>3, <2>9, <2>10, <2>11, <2>13
<1>16. Apart(d, e)
  BY <1>6, <1>7, <1>11 DEF Apart
<1>17. Load(e, L) = Load(d, L)
  BY <1>11, LoadKept
<1> QED BY <1>3, <1>13, <1>14, <1>15, <1>16, <1>17

LEMMA ApartTwice ==
  ASSUME NEW d, NEW e, NEW f, Apart(d, e), Apart(e, f)
  PROVE  Apart(d, f)
BY DEF Apart

LEMMA WalkStep ==
  ASSUME NEW d, NEW c, NEW K, NEW pos, NEW rank, Ranked(rank), NEW n,
         Reached(d, c, K, pos, rank, n), c.stack # << >>
  PROVE  Reached(d, walkOn(c), K, pos, rank, n - 1)
<1>1. PICK L \in SUBSET Nodes(d) :
        /\ Walking(c.db, c.stack, L, K, pos, rank) /\ Apart(d, c.db)
        /\ Len(c.stack) + Load(c.db, L) = n
  BY DEF Reached
<1>2. PICK b, s : b = c.db /\ s = c.stack  OBVIOUS
<1>3. Walking(b, s, L, K, pos, rank) /\ Apart(d, b) /\ Len(s) + Load(b, L) = n /\ s # << >>
  BY <1>1, <1>2
<1>4. s \in Seq(Entries) /\ IsDatabase(b) /\ Maps(b) /\ L \subseteq Nodes(b)
  BY <1>3 DEF Walking, Stacked, Partly
<1>5. Len(Tail(s)) = Len(s) - 1 /\ Len(s) \in Nat \ {0} /\ Head(s) = s[1] /\ s[1] \in Entries
  BY <1>3, <1>4, TailFacts
<1>6. Load(b, L) \in Nat
  BY <1>4, LoadNat
<1>7. s[1].op \in {"call", "delete"}
  BY <1>5 DEF Entries
<1>8. CASE s[1].op = "delete"
  <2>1. PICK h, e : h = s[1].child /\ e = delete(b, h)  OBVIOUS
  <2>2. Walking(e, Tail(s), L, K, pos, rank) /\ Apart(b, e) /\ Load(e, L) = Load(b, L)
    <3>1. Ranked(rank)  OBVIOUS
    <3> QED BY ONLY <3>1, <2>1, <1>3, <1>8, DeleteStep
  <2>3. walkOn(c) = [db |-> e, stack |-> Tail(s)]
    BY <1>2, <1>3, <1>5, <1>8, <2>1 DEF walkOn
  <2>4. walkOn(c).db = e /\ walkOn(c).stack = Tail(s)
    BY ONLY <2>3
  <2>5. Apart(d, e)
    BY <2>2, <1>3, ApartTwice
  <2>6. Len(Tail(s)) + Load(e, L) = n - 1
    <3>1. PICK k, m, l : k = Len(s) /\ m = Load(b, L) /\ l = Len(Tail(s))  OBVIOUS
    <3>2. l = k - 1 /\ k \in Nat /\ m \in Nat /\ k + m = n  BY <3>1, <1>3, <1>5, <1>6
    <3>3. l + m = n - 1  BY ONLY <3>2
    <3> QED BY <3>1, <3>3, <2>2
  <2> QED BY <2>2, <2>4, <2>5, <2>6 DEF Reached
<1>9. CASE s[1].op = "call"
  <2>1. PICK x, p, e : x = s[1].child /\ p = s[1].parent /\ e = forget(b, x, p)  OBVIOUS
  <2>2. /\ Partly(e, L, K, pos) /\ Stacked(e, Tail(s), L, rank) /\ Ranks(Tail(s), x, rank)
        /\ Owed(e, Tail(s), L, K, x) /\ x \in Hashes
        /\ Apart(b, e) /\ Load(e, L) = Load(b, L)
    <3>1. Ranked(rank)  OBVIOUS
    <3> QED BY ONLY <3>1, <2>1, <1>3, <1>9, CallStep
  <2>3. PICK m : m = Len(Tail(s)) + Load(e, L)  OBVIOUS
  <2>4. m = n - 1
    <3>1. PICK k, q, l : k = Len(s) /\ q = Load(b, L) /\ l = Len(Tail(s))  OBVIOUS
    <3>2. l = k - 1 /\ k \in Nat /\ q \in Nat /\ k + q = n /\ m = l + q
      BY <3>1, <1>3, <1>5, <1>6, <2>2, <2>3
    <3> QED BY ONLY <3>2
  <2>5. PICK f : f = visit(e, x, Tail(s))  OBVIOUS
  <2>6. Reached(e, f, K, pos, rank, m)
    <3>1. Ranked(rank)  OBVIOUS
    <3> QED BY ONLY <3>1, <2>2, <2>3, <2>5, VisitStep
  <2>7. walkOn(c) = f
    BY <1>2, <1>3, <1>5, <1>9, <2>1, <2>5 DEF walkOn
  <2>8. PICK M \in SUBSET Nodes(e) :
          /\ Walking(f.db, f.stack, M, K, pos, rank) /\ Apart(e, f.db)
          /\ Len(f.stack) + Load(f.db, M) = m
    BY <2>6 DEF Reached
  <2>9. Apart(d, e)
    BY <2>2, <1>3, ApartTwice
  <2>10. Apart(d, f.db) /\ M \in SUBSET Nodes(d)
    BY <2>8, <2>9, ApartTwice DEF Apart
  <2>11. Reached(d, f, K, pos, rank, m)
    BY <2>8, <2>10 DEF Reached
  <2> QED BY <2>4, <2>7, <2>11
<1> QED BY <1>7, <1>8, <1>9

LEMMA EmptyStack ==
  ASSUME NEW d, NEW rank, NEW x
  PROVE  /\ Stacked(d, << >>, Nodes(d), rank) /\ Ranks(<< >>, x, rank)
         /\ Pending(<< >>, x) = 0 /\ Len(<< >>) = 0
<1>1. << >> \in Seq(Entries) /\ DOMAIN << >> = {} /\ Len(<< >>) = 0
  OBVIOUS
<1>2. Stacked(d, << >>, Nodes(d), rank)
  BY <1>1 DEF Stacked
<1>3. Ranks(<< >>, x, rank)
  BY <1>1 DEF Ranks
<1>4. Pending(<< >>, x) = 0
  <2>1. \A i \in 1 .. Len(<< >>) : ~ (<< >>[i].op = "call" /\ << >>[i].child = x)
    BY <1>1
  <2> QED BY <1>1, <2>1, PendingNat
<1> QED BY <1>1, <1>2, <1>3, <1>4

\* The walk's beginning: the meta root has forgotten the root.
LEMMA DereferenceStart ==
  ASSUME NEW d, IsDatabase(d), NEW K, Sound(d, K), Needed(d, K),
         NEW pos, Ordered(d, Nodes(d), pos),
         NEW r \in Roots, r \notin K => r \in DOMAIN d.dirties[NoHash].children,
         NEW f, f = forget(d, r, NoHash)
  PROVE  /\ Forgetting(d, r, NoHash, f)
         /\ Partly(f, Nodes(d), K, pos) /\ Owed(f, << >>, Nodes(d), K, r)
         /\ Nodes(f) = Nodes(d) /\ Load(f, Nodes(d)) = Load(d, Nodes(d))
<1>1. PICK L : L = Nodes(d)  OBVIOUS
<1>2. /\ L \subseteq DOMAIN d.dirties /\ NoHash \notin L /\ DOMAIN d.dirties = L \cup {NoHash}
      /\ NoHash \in DOMAIN d.dirties
  BY <1>1, DatabaseFacts
<1>3. /\ Maps(d) /\ Weighed(d) /\ Closed(L, K) /\ Counted(d, L, K)
      /\ DOMAIN d.dirties[NoHash].children \subseteq L \cup K
  BY <1>1 DEF Sound
<1>4. Forgetting(d, r, NoHash, f)
  BY <1>2, ForgetIs
<1>5. /\ IsDatabase(f) /\ DOMAIN f.dirties = DOMAIN d.dirties
      /\ KeepsLinks(d, f) /\ KeepsCounts(d, f)
      /\ \A y \in DOMAIN d.dirties \ {NoHash} : f.dirties[y].children = d.dirties[y].children
  BY <1>4 DEF Forgetting
<1>6. Maps(f) /\ Nodes(f) = L
  BY <1>1, <1>2, <1>3, <1>4, ForgetMaps
<1>7. Weighed(f)
  BY <1>2, <1>3, <1>4, ForgetWeighed
<1>8. PICK a, b : a = d.dirties[NoHash].children /\ b = f.dirties[NoHash].children
  OBVIOUS
<1>9. /\ DOMAIN b = IF r \in DOMAIN a /\ a[r] > 1 THEN DOMAIN a ELSE DOMAIN a \ {r}
      /\ \A x \in DOMAIN b : b[x] = IF x = r THEN a[x] - 1 ELSE a[x]
  BY <1>4, <1>8 DEF Forgetting
<1>10. DOMAIN b \subseteq L \cup K
  BY <1>3, <1>8, <1>9
<1>11. \A y \in L : f.dirties[y].children = d.dirties[y].children
  BY <1>2, <1>5
<1>12. Partly(f, L, K, pos)
  <2>1. Ordered(f, L, pos)
    BY <1>1, <1>2, <1>5, OrderedKept
  <2>2. \A y \in L : Tied(f, y, K)
    <3>1. TAKE y \in L
    <3>2. Tied(d, y, K)  BY <1>1 DEF Sound
    <3> QED BY <3>2, <1>11 DEF Tied
  <2> QED BY <2>1, <2>2, <1>3, <1>5, <1>6, <1>7, <1>8, <1>10 DEF Partly
<1>13. Owed(f, << >>, L, K, r)
  <2>1. SUFFICES ASSUME NEW h \in L \ K
                 PROVE  /\ f.dirties[h].parents = Counts(f, L, h) + Pending(<< >>, h) + (IF h = r THEN 1 ELSE 0)
                        /\ f.dirties[h].parents > 0
    BY DEF Owed
  <2>2. f.dirties[h].parents = d.dirties[h].parents
    BY <1>2, <1>5 DEF KeepsCounts
  <2>3. d.dirties[h].parents = Counts(d, L, h)
    BY <1>3 DEF Counted
  <2>4. d.dirties[h].parents > 0
    BY <1>1 DEF Needed
  <2>5. PICK S : S = L \cup {NoHash}  OBVIOUS
  <2>6. \A q \in S \ {NoHash} : RefersTo(f, q, h) = RefersTo(d, q, h)
    <3>1. TAKE q \in S \ {NoHash}
    <3>2. f.dirties[q].children = d.dirties[q].children
      BY <2>5, <1>11
    <3> QED BY <3>2, RefersKept
  <2>7. Referrers(f, S, h) = Referrers(d, S, h) - RefersTo(d, NoHash, h) + RefersTo(f, NoHash, h)
    <3>1. S \in SUBSET DOMAIN d.dirties /\ S \subseteq DOMAIN f.dirties /\ NoHash \in S
      BY <2>5, <1>2, <1>5
    <3> QED BY <3>1, <2>6, <1>5, ReferrersMoves
  <2>8. PICK m, n, k : m = RefersTo(d, NoHash, h) /\ n = RefersTo(f, NoHash, h) /\ k = IF h = r THEN 1 ELSE 0
    OBVIOUS
  <2>9. m \in Nat /\ n \in Nat /\ k \in Nat
    BY <1>2, <1>5, <2>8, RefersNat
  <2>10. /\ m = 0 + (IF h \in DOMAIN a THEN a[h] ELSE 0)
         /\ n = 0 + (IF h \in DOMAIN b THEN b[h] ELSE 0)
    BY <2>8, <1>8 DEF RefersTo
  <2>11. \A y \in DOMAIN a : a[y] \in Nat \ {0}
    BY <1>2, <1>8, NodeFacts
  <2>12. m = n + k
    <3>1. CASE h # r
      <4>1. n = 0 + (IF h \in DOMAIN a THEN a[h] ELSE 0)
        BY <3>1, <2>10, <1>9
      <4>2. k = 0  BY <3>1, <2>8
      <4>3. m = n  BY <4>1, <2>10
      <4> QED BY ONLY <4>2, <4>3, <2>9
    <3>2. CASE h = r
      <4>1. r \in DOMAIN a
        BY <3>2, <1>8
      <4>2. k = 1 /\ m = 0 + a[r]  BY <3>2, <4>1, <2>8, <2>10
      <4>3. PICK v : v = a[r]  OBVIOUS
      <4>4. v \in Nat \ {0}  BY <4>1, <4>3, <2>11
      <4>5. CASE v > 1
        <5>1. n = 0 + b[r] /\ b[r] = v - 1
          BY <4>1, <4>3, <4>5, <1>9, <2>10, <3>2
        <5>2. m = 0 + v  BY <4>2, <4>3
        <5>3. n = 0 + (v - 1)  BY <5>1
        <5>4. k = 1  BY <4>2
        <5> QED BY ONLY <4>4, <5>2, <5>3, <5>4
      <4>6. CASE v = 1
        <5>0. ~ (v > 1)  BY ONLY <4>6
        <5>a. ~ (r \in DOMAIN a /\ a[r] > 1)  BY <4>3, <5>0
        <5>b. DOMAIN b = DOMAIN a \ {r}  BY <5>a, <1>9
        <5>1. r \notin DOMAIN b
          BY ONLY <5>b
        <5>2. n = 0 + 0  BY <5>1, <2>10, <3>2
        <5>3. m = 0 + 1  BY <4>2, <4>3, <4>6
        <5>4. k = 1  BY <4>2
        <5> QED BY ONLY <5>2, <5>3, <5>4
      <4>7. v > 1 \/ v = 1  BY ONLY <4>4
      <4> QED BY <4>5, <4>6, <4>7
    <3> QED BY <3>1, <3>2
  <2>13. PICK u, w : u = Referrers(d, S, h) /\ w = Referrers(f, S, h)  OBVIOUS
  <2>14. u \in Nat /\ w \in Nat
    <3>1. S \in SUBSET DOMAIN d.dirties /\ S \in SUBSET DOMAIN f.dirties
      BY <2>5, <1>2, <1>5
    <3> QED BY <3>1, <2>13, <1>5, ReferrersNat
  <2>15. w = u - m + n  BY <2>7, <2>8, <2>13
  <2>16. u = w + 0 + k
    BY ONLY <2>9, <2>12, <2>14, <2>15
  <2>17. Counts(d, L, h) = u /\ Counts(f, L, h) = w
    BY <2>5, <2>13 DEF Counts
  <2>18. Pending(<< >>, h) = 0
    BY EmptyStack
  <2> QED BY <2>2, <2>3, <2>4, <2>8, <2>16, <2>17, <2>18
<1>14. Load(f, L) = Load(d, L)
  BY <1>11, LoadKept
<1> QED BY <1>1, <1>4, <1>6, <1>12, <1>13, <1>14

\* After m turns at most the stack is empty.
Stage(d, c, K, pos, rank, m) ==
  \E n : Reached(d, c, K, pos, rank, n) /\ (c.stack = << >> \/ n = m)

LEMMA StageStep ==
  ASSUME NEW d, NEW c, NEW K, NEW pos, NEW rank, Ranked(rank), NEW m,
         Stage(d, c, K, pos, rank, m)
  PROVE  Stage(d, walkOn(c), K, pos, rank, m - 1)
<1>1. PICK n : Reached(d, c, K, pos, rank, n) /\ (c.stack = << >> \/ n = m)
  BY DEF Stage
<1>2. CASE c.stack = << >>
  <2>1. walkOn(c) = c
    BY <1>2 DEF walkOn
  <2> QED BY <1>1, <1>2, <2>1 DEF Stage
<1>3. CASE c.stack # << >>
  <2>1. Reached(d, walkOn(c), K, pos, rank, n - 1)
    BY <1>1, <1>3, WalkStep
  <2>2. n = m  BY <1>1, <1>3
  <2> QED BY <2>1, <2>2 DEF Stage
<1> QED BY <1>2, <1>3

\* A walk that has come to its end.
Ended(d, c, K, pos) ==
  /\ IsDatabase(c) /\ Sound(c, K) /\ Needed(c, K) /\ Ordered(c, Nodes(c), pos)
  /\ Apart(d, c)

LEMMA StageEnd ==
  ASSUME NEW d, NEW c, NEW K, NEW pos, NEW rank, Stage(d, c, K, pos, rank, 0)
  PROVE  Ended(d, c.db, K, pos)
<1>1. PICK n : Reached(d, c, K, pos, rank, n) /\ (c.stack = << >> \/ n = 0)
  BY DEF Stage
<1>2. PICK L \in SUBSET Nodes(d) :
        /\ Walking(c.db, c.stack, L, K, pos, rank) /\ Apart(d, c.db)
        /\ Len(c.stack) + Load(c.db, L) = n
  BY <1>1 DEF Reached
<1>3. PICK b, s : b = c.db /\ s = c.stack  OBVIOUS
<1>4. Partly(b, L, K, pos) /\ Owed(b, s, L, K, NoHash) /\ Stacked(b, s, L, rank) /\ Apart(d, b)
  BY <1>2, <1>3 DEF Walking
<1>5. /\ IsDatabase(b) /\ Maps(b) /\ Weighed(b) /\ L \subseteq Nodes(b) /\ Closed(L, K)
      /\ Ordered(b, L, pos) /\ DOMAIN b.dirties[NoHash].children \subseteq L \cup K
      /\ \A h \in L : Tied(b, h, K)
  BY <1>4 DEF Partly
<1>6. s \in Seq(Entries)
  BY <1>4 DEF Stacked
<1>7. s = << >>
  <2>1. CASE n = 0
    <3>1. Load(b, L) \in Nat  BY <1>5, LoadNat
    <3>2. Len(s) \in Nat  BY <1>6
    <3>3. Len(s) + Load(b, L) = 0  BY <2>1, <1>2, <1>3
    <3>4. Len(s) = 0  BY ONLY <3>1, <3>2, <3>3
    <3> QED BY <3>4, <1>6
  <2> QED BY <2>1, <1>1, <1>3
<1>8. L = Nodes(b)
  <2>1. \A h \in Nodes(b) \ L : \E i \in DOMAIN s : s[i].op = "delete" /\ s[i].child = h
    BY <1>4 DEF Stacked
  <2>2. DOMAIN s = {}  BY <1>7
  <2> QED BY <2>1, <2>2, <1>5
<1>9. ASSUME NEW h \in L \ K
      PROVE  b.dirties[h].parents = Counts(b, L, h) /\ b.dirties[h].parents > 0
  <2>1. /\ b.dirties[h].parents = Counts(b, L, h) + Pending(s, h) + (IF h = NoHash THEN 1 ELSE 0)
        /\ b.dirties[h].parents > 0
    BY <1>4 DEF Owed
  <2>2. Pending(s, h) = 0
    BY <1>7, EmptyStack
  <2>3. h # NoHash  BY <1>5, DatabaseFacts
  <2>4. b.dirties[h].parents = Counts(b, L, h) + 0 + 0
    BY <2>1, <2>2, <2>3
  <2>5. Counts(b, L, h) \in Nat
    BY <1>5, CountsNat
  <2>6. Counts(b, L, h) + 0 + 0 = Counts(b, L, h)
    BY ONLY <2>5
  <2> QED BY <2>1, <2>4, <2>6
<1>10. Counted(b, L, K) /\ Needed(b, K)
  BY <1>8, <1>9 DEF Counted, Needed
<1>11. Sound(b, K)
  BY <1>5, <1>8, <1>10 DEF Sound
<1> QED BY <1>3, <1>4, <1>5, <1>8, <1>10, <1>11 DEF Ended

LEMMA DereferenceSound ==
  ASSUME NEW d, IsDatabase(d), NEW K, Sound(d, K), Needed(d, K),
         NEW pos, Ordered(d, Nodes(d), pos),
         NEW r \in Roots, r \notin K => r \in DOMAIN d.dirties[NoHash].children,
         NEW e, e = dereference(d, r, NoHash)
  PROVE  \E f : Forgetting(d, r, NoHash, f) /\ Ended(f, e, K, pos)
<1>1. PICK f : f = forget(d, r, NoHash)  OBVIOUS
<1>2. /\ Forgetting(d, r, NoHash, f)
      /\ Partly(f, Nodes(d), K, pos) /\ Owed(f, << >>, Nodes(d), K, r)
      /\ Nodes(f) = Nodes(d) /\ Load(f, Nodes(d)) = Load(d, Nodes(d))
  BY <1>1, DereferenceStart
<1>3. PICK L : L = Nodes(d)  OBVIOUS
<1>4. PICK rank : Ranked(rank)
  BY RankExists
<1>5. PICK N : N = Load(d, L)  OBVIOUS
<1>6. N \in Nat /\ N = walkLength(d)
  <2>1. Maps(d)  BY DEF Sound
  <2>2. N \in Nat  BY <1>3, <1>5, <2>1, LoadNat
  <2> QED BY <2>2, <1>3, <1>5 DEF Load, walkLength
<1>7. PICK a : /\ a[0] = visit(f, r, << >>)
               /\ \A k \in 1 .. N : a[k] = walkOn(a[k - 1])
               /\ e = a[N].db
  BY <1>1, <1>6, WalkTurns
<1>8. Reached(f, a[0], K, pos, rank, N)
  <2>1. Partly(f, L, K, pos) /\ Owed(f, << >>, L, K, r)
    BY <1>2, <1>3
  <2>2. Stacked(f, << >>, L, rank) /\ Ranks(<< >>, r, rank)
    BY <1>2, <1>3, EmptyStack
  <2>3. N = Len(<< >>) + Load(f, L)
    <3>1. Load(f, L) = N  BY <1>2, <1>3, <1>5
    <3>2. Len(<< >>) = 0  BY EmptyStack
    <3>3. N = 0 + N  BY ONLY <1>6
    <3> QED BY <3>1, <3>2, <3>3
  <2>4. r \in Hashes  BY HashFacts
  <2> QED BY <2>1, <2>2, <2>3, <2>4, <1>4, <1>7, VisitStep
<1>9. \A k \in 0 .. N : Stage(f, a[k], K, pos, rank, N - k)
  <2>1. PICK B : B = {k \in 0 .. N : ~ Stage(f, a[k], K, pos, rank, N - k)}  OBVIOUS
  <2>2. SUFFICES ASSUME B # {}  PROVE FALSE
    BY <2>1
  <2>3. PICK k \in B : \A j \in B : k <= j
    <3>1. B \in SUBSET (0 .. N)  BY <2>1
    <3> QED BY <3>1, <2>2, <1>6, FirstOne
  <2>4. k \in 0 .. N /\ ~ Stage(f, a[k], K, pos, rank, N - k)
    BY <2>1
  <2>5. k # 0
    <3>1. N - 0 = N  BY ONLY <1>6
    <3>2. Stage(f, a[0], K, pos, rank, N)  BY <1>8 DEF Stage
    <3> QED BY <2>4, <3>1, <3>2
  <2>6. k \in 1 .. N /\ k - 1 \in 0 .. N /\ ~ (k <= k - 1) /\ N - (k - 1) - 1 = N - k
    BY ONLY <1>6, <2>4, <2>5
  <2>7. Stage(f, a[k - 1], K, pos, rank, N - (k - 1))
    BY <2>1, <2>3, <2>6
  <2>8. Stage(f, walkOn(a[k - 1]), K, pos, rank, N - (k - 1) - 1)
    BY <2>7, <1>4, StageStep
  <2>9. a[k] = walkOn(a[k - 1])
    BY <1>7, <2>6
  <2> QED BY <2>4, <2>6, <2>8, <2>9
<1>10. Stage(f, a[N], K, pos, rank, 0)
  <2>1. N \in 0 .. N /\ N - N = 0  BY ONLY <1>6
  <2> QED BY <2>1, <1>9
<1>11. Ended(f, e, K, pos)
  BY <1>7, <1>10, StageEnd
<1> QED BY <1>2, <1>11

-----------------------------------------------------------------------------
(* What the steps share.                                                   *)


\* Everything but the preimages is the same.
Repictured(d, e) ==
  /\ IsDatabase(e) /\ e.dirties = d.dirties /\ e.oldest = d.oldest /\ e.newest = d.newest
  /\ e.size = d.size

LEMMA SetPreimages ==
  ASSUME NEW d, IsDatabase(d), NEW ks \in SUBSET Keys, NEW e, e = [d EXCEPT !.preimages = ks]
  PROVE  Repictured(d, e) /\ e.preimages = ks
<1>1. d \in [dirties : {d.dirties}, oldest : OrNone, newest : OrNone, size : Int,
             preimages : SUBSET Keys]
  BY DEF IsDatabase
<1>2. /\ e \in [dirties : {d.dirties}, oldest : OrNone, newest : OrNone, size : Int,
                preimages : SUBSET Keys]
      /\ e.oldest = d.oldest /\ e.newest = d.newest /\ e.dirties = d.dirties /\ e.size = d.size
      /\ e.preimages = ks
  BY <1>1
<1>3. IsDatabase(e)
  BY <1>2 DEF IsDatabase
<1> QED BY <1>2, <1>3 DEF Repictured

LEMMA RepicturedKept ==
  ASSUME NEW d, IsDatabase(d), NEW e, Repictured(d, e), NEW K
  PROVE  /\ Nodes(e) = Nodes(d) /\ DOMAIN e.dirties = DOMAIN d.dirties
         /\ Sound(d, K) => Sound(e, K)
         /\ Needed(d, K) => Needed(e, K)
         /\ \A L, pos : Ordered(d, L, pos) => Ordered(e, L, pos)
         /\ \A R : Cost(e, R) = Cost(d, R)
<1>1. IsDatabase(e) /\ e.dirties = d.dirties /\ e.oldest = d.oldest /\ e.newest = d.newest
      /\ e.size = d.size
  BY DEF Repictured
<1>2. Nodes(e) = Nodes(d) /\ DOMAIN e.dirties = DOMAIN d.dirties
  BY <1>1 DEF Nodes
<1>3. KeepsRefs(d, e) /\ KeepsCounts(d, e)
  BY <1>1 DEF KeepsRefs, KeepsCounts
<1>4. Sound(d, K) => Sound(e, K)
  BY <1>1, <1>2, <1>3, SameSound
<1>5. Needed(d, K) => Needed(e, K)
  BY <1>1, <1>2 DEF Needed
<1>6. \A L, pos : Ordered(d, L, pos) => Ordered(e, L, pos)
  BY <1>1 DEF Ordered
<1>7. \A R : Cost(e, R) = Cost(d, R)
  <2>1. TAKE R
  <2>2. \A h \in R : Weight(e, h) = Weight(d, h)
    BY <1>1 DEF Weight, childrenOf
  <2>3. [h \in R |-> Weight(e, h) + cachedNodeSize] = [h \in R |-> Weight(d, h) + cachedNodeSize]
    BY <2>2
  <2> QED BY <2>3 DEF Cost
<1> QED BY <1>2, <1>4, <1>5, <1>6, <1>7

\* What holds over a disk holds over a larger one.
LEMMA DiskGrows ==
  ASSUME NEW d, NEW K, NEW M, K \subseteq M
  PROVE  /\ Sound(d, K) => Sound(d, M)
         /\ Needed(d, K) => Needed(d, M)
         /\ \A h : HeldAt(d, K, h) => HeldAt(d, M, h)
         /\ \A L, pos : Children1st(L, K, pos) => Children1st(L, M, pos)
<1>1. Sound(d, K) => Sound(d, M)
  <2>1. SUFFICES ASSUME Sound(d, K)  PROVE Sound(d, M)
    OBVIOUS
  <2>2. Closed(Nodes(d), M)
    BY <2>1 DEF Sound, Closed
  <2>3. \A h \in Nodes(d) : Tied(d, h, M)
    BY <2>1 DEF Sound, Tied
  <2>4. Counted(d, Nodes(d), M)
    BY <2>1 DEF Sound, Counted
  <2> QED BY <2>1, <2>2, <2>3, <2>4 DEF Sound
<1>2. Needed(d, K) => Needed(d, M)
  BY DEF Needed
<1>3. \A h : HeldAt(d, K, h) => HeldAt(d, M, h)
  <2>1. TAKE h
  <2>2. \A r \in Roots \ M : r \in Roots \ K  OBVIOUS
  <2> QED BY <2>2 DEF HeldAt
<1>4. \A L, pos : Children1st(L, K, pos) => Children1st(L, M, pos)
  BY DEF Children1st
<1> QED BY <1>1, <1>2, <1>3, <1>4

LEMMA CompleteBelow ==
  ASSUME NEW K, Complete(K), NEW r \in Hashes, r \in K
  PROVE  Below(r) \subseteq K
<1>1. PICK S : S = K \cap Hashes  OBVIOUS
<1>2. S \in SUBSET Hashes /\ r \in S /\ S \subseteq K
  BY <1>1
<1>3. \A p \in S : References(p) \subseteq S
  <2>1. TAKE p \in S
  <2>2. References(p) \subseteq K  BY <1>1 DEF Complete
  <2>3. References(p) \subseteq Hashes  BY <1>2, RefFacts
  <2> QED BY <1>1, <2>2, <2>3
<1>4. Below(r) \subseteq S
  BY <1>2, <1>3, BelowFacts
<1> QED BY <1>2, <1>4

\* A batch that is whole can be written.
LEMMA WriteComplete ==
  ASSUME NEW K, Complete(K), NEW b, Whole(b, K)
  PROVE  Complete(K \cup Range(b))
<1>1. SUFFICES ASSUME NEW h \in (K \cup Range(b)) \cap Hashes
               PROVE  References(h) \subseteq K \cup Range(b)
  BY DEF Complete
<1>2. CASE h \in K
  BY <1>2 DEF Complete
<1>3. CASE h \in Range(b)
  BY <1>3 DEF Whole
<1> QED BY <1>2, <1>3

\* So can preimages, which are no node hashes.
LEMMA KeysComplete ==
  ASSUME NEW K, Complete(K), NEW ks \in SUBSET Keys
  PROVE  Complete(K \cup ks)
<1>1. \A h \in (K \cup ks) \cap Hashes : h \in K \cap Hashes
  BY KeyFacts
<1> QED BY <1>1 DEF Complete

\* A node that is not on disk is referred to by a node or held by the caller.
Wanted(d, h) == (\E p \in Nodes(d) : h \in References(p)) \/ h \in DOMAIN d.dirties[NoHash].children

LEMMA NeededIf ==
  ASSUME NEW d, IsDatabase(d), NEW K, Sound(d, K), NEW h \in Nodes(d), h \notin K
  PROVE  d.dirties[h].parents > 0 <=> Wanted(d, h)
<1>1. PICK S : S = Nodes(d) \cup {NoHash}  OBVIOUS
<1>2. S \in SUBSET DOMAIN d.dirties /\ NoHash \notin Nodes(d) /\ S = DOMAIN d.dirties
  BY <1>1, DatabaseFacts
<1>3. d.dirties[h].parents = Referrers(d, S, h)
  BY <1>1 DEF Sound, Counted, Counts
<1>4. /\ Referrers(d, S, h) \in Nat
      /\ Referrers(d, S, h) = 0 <=> \A p \in S : RefersTo(d, p, h) = 0
  BY <1>2, ReferrersNat
<1>5. \A p \in S : RefersTo(d, p, h) = 0 <=> /\ p # NoHash => h \notin Range(Kids[p])
                                             /\ h \notin DOMAIN d.dirties[p].children
  BY <1>2, RefersZero
<1>6. ASSUME NEW p \in Nodes(d)
      PROVE  (h \in Range(Kids[p]) \/ h \in DOMAIN d.dirties[p].children) <=> h \in References(p)
  <2>1. DOMAIN d.dirties[p].children \subseteq Ext[p]
    BY DEF Sound, Maps
  <2>2. Ext[p] \subseteq K \cup DOMAIN d.dirties[p].children
    BY DEF Sound, Tied
  <2> QED BY <2>1, <2>2 DEF References
<1>7. (\A p \in S : RefersTo(d, p, h) = 0) <=> ~ Wanted(d, h)
  <2>1. ASSUME \A p \in S : RefersTo(d, p, h) = 0  PROVE ~ Wanted(d, h)
    <3>1. \A p \in Nodes(d) : h \notin References(p)
      <4>1. TAKE p \in Nodes(d)
      <4>2. p \in S /\ p # NoHash  BY <1>1, <1>2
      <4>3. h \notin Range(Kids[p]) /\ h \notin DOMAIN d.dirties[p].children
        BY <2>1, <4>2, <1>5
      <4> QED BY <4>3, <1>6
    <3>2. h \notin DOMAIN d.dirties[NoHash].children
      <4>1. NoHash \in S  BY <1>1
      <4> QED BY <4>1, <2>1, <1>5
    <3> QED BY <3>1, <3>2 DEF Wanted
  <2>2. ASSUME ~ Wanted(d, h), NEW p \in S  PROVE RefersTo(d, p, h) = 0
    <3>1. CASE p = NoHash
      <4>1. h \notin DOMAIN d.dirties[p].children
        BY <3>1, <2>2 DEF Wanted
      <4> QED BY <4>1, <3>1, <1>5
    <3>2. CASE p # NoHash
      <4>1. p \in Nodes(d)  BY <3>2, <1>1
      <4>2. h \notin References(p)  BY <4>1, <2>2 DEF Wanted
      <4>3. h \notin Range(Kids[p]) /\ h \notin DOMAIN d.dirties[p].children
        BY <4>1, <4>2, <1>6
      <4> QED BY <4>3, <1>5
    <3> QED BY <3>1, <3>2
  <2> QED BY <2>1, <2>2
<1>8. PICK n : n = d.dirties[h].parents  OBVIOUS
<1>9. n \in Nat /\ (n = 0 <=> ~ Wanted(d, h))
  BY <1>3, <1>4, <1>7, <1>8
<1>10. n > 0 <=> n # 0
  BY ONLY <1>9
<1> QED BY <1>8, <1>9, <1>10

-----------------------------------------------------------------------------
(* The flush list as Cap goes through it.                                  *)


LEMMA ListStarts ==
  ASSUME NEW d, IsDatabase(d), NEW pos, Ordered(d, Nodes(d), pos)
  PROVE  ListFrom(d, d.oldest, pos) = Nodes(d) /\ d.oldest \in Nodes(d) \cup {NoHash}
<1>1. CASE Nodes(d) = {}
  <2>1. d.oldest = NoHash
    BY <1>1 DEF Ordered
  <2> QED BY <1>1, <2>1 DEF ListFrom
<1>2. CASE Nodes(d) # {}
  <2>1. d.oldest \in Nodes(d) /\ \A x \in Nodes(d) : pos[d.oldest] <= pos[x]
    BY <1>2 DEF Ordered
  <2>2. d.oldest # NoHash
    BY <2>1, DatabaseFacts
  <2> QED BY <2>1, <2>2 DEF ListFrom
<1> QED BY <1>1, <1>2

LEMMA ListGoesOn ==
  ASSUME NEW d, IsDatabase(d), NEW pos, Ordered(d, Nodes(d), pos), NEW h \in Nodes(d),
         NEW k, k = d.dirties[h].flushNext
  PROVE  /\ ListFrom(d, k, pos) = ListFrom(d, h, pos) \ {h}
         /\ k \in Nodes(d) \cup {NoHash} /\ h \in ListFrom(d, h, pos)
<1>1. Nodes(d) \subseteq Hashes /\ NoHash \notin Nodes(d)
  BY DatabaseFacts
<1>2. /\ \A x \in Nodes(d) : pos[x] \in Nat
      /\ \A x, y \in Nodes(d) : pos[x] = pos[y] => x = y
      /\ Follows(Nodes(d), pos, h, k)
  BY <1>1 DEF Ordered
<1>3. h # NoHash /\ pos[h] <= pos[h] /\ pos[h] \in Nat
  BY <1>1, <1>2
<1>4. h \in ListFrom(d, h, pos)
  BY <1>3 DEF ListFrom
<1>5. CASE k = NoHash
  <2>1. \A x \in Nodes(d) : pos[x] <= pos[h]
    BY <1>2, <1>5 DEF Follows
  <2>2. ListFrom(d, k, pos) = {}
    BY <1>5 DEF ListFrom
  <2>3. \A x \in ListFrom(d, h, pos) : x = h
    <3>1. TAKE x \in ListFrom(d, h, pos)
    <3>2. x \in Nodes(d) /\ pos[h] <= pos[x]
      BY DEF ListFrom
    <3>3. pos[x] = pos[h]
      BY <3>2, <2>1, <1>2, <1>3
    <3> QED BY <3>2, <3>3, <1>2
  <2> QED BY <2>2, <2>3, <1>4, <1>5
<1>6. CASE k # NoHash
  <2>1. /\ k \in Nodes(d) /\ pos[h] < pos[k]
        /\ \A x \in Nodes(d) : pos[x] <= pos[h] \/ pos[k] <= pos[x]
    BY <1>2, <1>6 DEF Follows
  <2>2. \A x \in Nodes(d) : pos[k] <= pos[x] <=> pos[h] <= pos[x] /\ x # h
    <3>1. TAKE x \in Nodes(d)
    <3>2. PICK a, b, c : a = pos[h] /\ b = pos[k] /\ c = pos[x]  OBVIOUS
    <3>3. a \in Nat /\ b \in Nat /\ c \in Nat /\ a < b /\ (c <= a \/ b <= c)
      BY <3>2, <2>1, <1>2
    <3>4. b <= c => a <= c /\ a # c
      BY ONLY <3>3
    <3>5. a <= c /\ a # c => b <= c
      BY ONLY <3>3
    <3>6. a = c <=> x = h
      BY <3>2, <1>2
    <3> QED BY <3>2, <3>4, <3>5, <3>6
  <2> QED BY <2>1, <2>2, <1>4, <1>1, <1>6 DEF ListFrom
<1> QED BY <1>4, <1>5, <1>6

LEMMA CostTakes ==
  ASSUME NEW d, IsDatabase(d), NEW R, R \subseteq Nodes(d), NEW h \in R
  PROVE  /\ Cost(d, R) = Cost(d, R \ {h}) + Weight(d, h) + cachedNodeSize
         /\ Cost(d, R \ {h}) \in Nat /\ Weight(d, h) \in Nat
<1>1. \A x \in R : Weight(d, x) \in Nat
  BY WeightNat
<1>2. IsFiniteSet(R) /\ IsFiniteSet(R \ {h})
  BY DatabaseFacts, FS_Subset
<1>3. PICK f, e : /\ f = [x \in R |-> Weight(d, x) + cachedNodeSize]
                  /\ e = [x \in R \ {h} |-> Weight(d, x) + cachedNodeSize]
  OBVIOUS
<1>4. /\ DOMAIN f = R /\ DOMAIN e = R \ {h}
      /\ \A x \in R : f[x] \in Nat
      /\ \A x \in R \ {h} : e[x] = f[x]
  BY <1>1, <1>3 DEF cachedNodeSize
<1>a. f[h] = Weight(d, h) + cachedNodeSize
  BY <1>3
<1>b. IsFiniteSet(R) /\ h \in R
  BY <1>2
<1>5. SumFunction(f) = SumFunction(e) + f[h]
  BY ONLY <1>4, <1>b, SumAdds
<1>6. SumFunction(e) \in Nat
  BY <1>2, <1>4, SumNat
<1>7. Cost(d, R) = SumFunction(f) /\ Cost(d, R \ {h}) = SumFunction(e)
  BY <1>3 DEF Cost
<1>8. PICK a, b, w : a = SumFunction(f) /\ b = SumFunction(e) /\ w = Weight(d, h)  OBVIOUS
<1>9. b \in Nat /\ w \in Nat  BY <1>1, <1>6, <1>8
<1>10. a = b + (w + 96)  BY <1>a, <1>5, <1>8 DEF cachedNodeSize
<1>11. a = b + w + 96  BY ONLY <1>9, <1>10
<1> QED BY <1>7, <1>8, <1>9, <1>11 DEF cachedNodeSize

LEMMA CostNone ==
  ASSUME NEW d
  PROVE  Cost(d, {}) = 0
  BY SumEmpty DEF Cost

\* The part of Total that is in R.
Part(d, R) == SumFunction([h \in R |-> Weight(d, h)])

LEMMA PartTakes ==
  ASSUME NEW d, IsDatabase(d), NEW R, R \subseteq Nodes(d), NEW h \in R
  PROVE  Part(d, R) = Part(d, R \ {h}) + Weight(d, h) /\ Part(d, R \ {h}) \in Nat
<1>1. \A x \in R : Weight(d, x) \in Nat
  BY WeightNat
<1>2. IsFiniteSet(R) /\ IsFiniteSet(R \ {h})
  BY DatabaseFacts, FS_Subset
<1>3. PICK f, e : f = [x \in R |-> Weight(d, x)] /\ e = [x \in R \ {h} |-> Weight(d, x)]
  OBVIOUS
<1>4. /\ DOMAIN f = R /\ DOMAIN e = R \ {h}
      /\ \A x \in R : f[x] \in Nat
      /\ \A x \in R \ {h} : e[x] = f[x]
      /\ f[h] = Weight(d, h)
  BY <1>1, <1>3
<1>5. SumFunction(f) = SumFunction(e) + f[h]
  BY <1>2, <1>4, SumAdds
<1>6. SumFunction(e) \in Nat
  BY <1>2, <1>4, SumNat
<1> QED BY <1>3, <1>4, <1>5, <1>6 DEF Part

CostOf(d, R, k) == Cost(d, R) = Part(d, R) + 96 * k

LEMMA CostIs ==
  ASSUME NEW d, IsDatabase(d)
  PROVE  CostOf(d, Nodes(d), Cardinality(Nodes(d)))
<1>1. PICK N : N = Cardinality(Nodes(d))  OBVIOUS
<1>2. N \in Nat /\ IsFiniteSet(Nodes(d))
  BY <1>1, DatabaseFacts, FS_CardinalityType
<1>3. PICK B : B = {k \in 0 .. N : \E R \in SUBSET Nodes(d) : Cardinality(R) = k /\ ~ CostOf(d, R, k)}
  OBVIOUS
<1>4. ASSUME B # {}  PROVE FALSE
  <2>1. PICK k \in B : \A j \in B : k <= j
    <3>1. B \in SUBSET (0 .. N)  BY <1>3
    <3> QED BY <3>1, <1>2, <1>4, FirstOne
  <2>2. k \in 0 .. N  BY <1>3
  <2>3. PICK R \in SUBSET Nodes(d) : Cardinality(R) = k /\ ~ CostOf(d, R, k)
    BY <1>3
  <2>4. /\ R = {} <=> k = 0
        /\ \A x \in R : /\ R \ {x} \in SUBSET Nodes(d)
                        /\ Cardinality(R \ {x}) = k - 1
    BY <2>3, <1>2, PartFacts
  <2>5. R # {}
    <3>1. SUFFICES ASSUME R = {}  PROVE FALSE  OBVIOUS
    <3>2. Cost(d, R) = 0 /\ Part(d, R) = 0 /\ k = 0
      BY <3>1, <2>4, CostNone, SumEmpty DEF Part
    <3>3. 0 = 0 + 96 * 0  OBVIOUS
    <3> QED BY <2>3, <3>2, <3>3 DEF CostOf
  <2>6. PICK x \in R : TRUE  BY <2>5
  <2>7. k - 1 \in 0 .. N /\ ~ (k <= k - 1)
    <3>1. k # 0  BY <2>4, <2>5
    <3> QED BY ONLY <3>1, <2>2, <1>2
  <2>8. CostOf(d, R \ {x}, k - 1)
    BY <2>1, <2>4, <2>6, <2>7, <1>3
  <2>9. PICK a, b, p, q, w : /\ a = Cost(d, R) /\ b = Cost(d, R \ {x}) /\ p = Part(d, R)
                             /\ q = Part(d, R \ {x}) /\ w = Weight(d, x)
    OBVIOUS
  <2>10. a = b + w + 96 /\ b \in Nat /\ w \in Nat
    <3>1. R \subseteq Nodes(d) /\ x \in R  BY <2>6
    <3> QED BY <3>1, <2>9, CostTakes DEF cachedNodeSize
  <2>11. p = q + w /\ q \in Nat
    <3>1. R \subseteq Nodes(d) /\ x \in R  BY <2>6
    <3> QED BY <3>1, <2>9, PartTakes
  <2>12. b = q + 96 * (k - 1)
    BY <2>8, <2>9 DEF CostOf
  <2>13. a = p + 96 * k
    BY ONLY <2>2, <2>10, <2>11, <2>12, <1>2
  <2> QED BY <2>3, <2>9, <2>13 DEF CostOf
<1>5. B = {}  BY <1>4
<1>6. N \in 0 .. N /\ Nodes(d) \in SUBSET Nodes(d)
  BY <1>2
<1> QED BY <1>1, <1>3, <1>5, <1>6

LEMMA MemoryIs ==
  ASSUME NEW d, IsDatabase(d), Weighed(d)
  PROVE  memory(d) = Cost(d, Nodes(d)) /\ memory(d) \in Nat
<1>1. PICK a, t, n, m : /\ a = Cost(d, Nodes(d)) /\ t = Total(d) /\ n = Cardinality(Nodes(d))
                        /\ m = Cardinality(DOMAIN d.dirties[NoHash].children)
  OBVIOUS
<1>2. t \in Nat  BY <1>1, TotalNat
<1>3. n \in Nat
  BY <1>1, DatabaseFacts, FS_CardinalityType
<1>4. m \in Nat
  <2>1. NoHash \in DOMAIN d.dirties  BY DEF IsDatabase
  <2> QED BY <2>1, <1>1, NodeFacts
<1>5. a = t + 96 * n
  BY <1>1, CostIs DEF CostOf, Part, Total
<1>6. d.size = t + 34 * m
  BY <1>1 DEF Weighed, Total, childSize, HashLength
<1>7. memory(d) = d.size + 96 * n - 34 * m
  BY <1>1 DEF memory, childSize, HashLength, cachedNodeSize
<1>8. PICK s, z : s = d.size /\ z = memory(d)  OBVIOUS
<1>9. s = t + 34 * m /\ z = s + 96 * n - 34 * m
  BY <1>6, <1>7, <1>8
<1>10. z = a /\ z \in Nat
  BY ONLY <1>2, <1>3, <1>4, <1>5, <1>9
<1> QED BY <1>1, <1>8, <1>10

LEMMA CostKept ==
  ASSUME NEW d, NEW e, KeepsRefs(d, e), NEW R, R \subseteq Nodes(e)
  PROVE  Cost(e, R) = Cost(d, R)
<1>1. \A h \in R : Weight(e, h) = Weight(d, h)
  <2>1. TAKE h \in R
  <2>2. h \in DOMAIN e.dirties  BY DEF Nodes
  <2>3. e.dirties[h].children = d.dirties[h].children /\ e.dirties[h].tracked = d.dirties[h].tracked
    BY <2>2 DEF KeepsRefs
  <2> QED BY <2>3, WeightKept
<1>2. [h \in R |-> Weight(e, h) + cachedNodeSize] = [h \in R |-> Weight(d, h) + cachedNodeSize]
  BY <1>1
<1> QED BY <1>2 DEF Cost

-----------------------------------------------------------------------------
(* The invariant: what a step starts from, and what is to be shown of it.  *)


Jobs == {Idle} \cup CapJob \cup CommitJob

LEMMA JobFacts ==
  ASSUME NEW j \in Jobs
  PROVE  /\ j.op \in {"idle", "cap", "capClear", "commit", "commitEnd"}
         /\ j.op \in {"cap", "capClear"} <=> j \in CapJob
         /\ j.op \in {"commit", "commitEnd"} <=> j \in CommitJob
         /\ j.op = "idle" <=> j = Idle
<1>1. CASE j = Idle
  <2>1. j.op = "idle"  BY <1>1 DEF Idle
  <2>2. j \notin CapJob /\ j \notin CommitJob
    BY <2>1 DEF CapJob, CommitJob
  <2> QED BY <1>1, <2>1, <2>2
<1>2. CASE j \in CapJob
  <2>1. j.op \in {"cap", "capClear"}  BY <1>2 DEF CapJob
  <2>2. j \notin CommitJob /\ j # Idle
    BY <2>1 DEF CommitJob, Idle
  <2> QED BY <1>2, <2>1, <2>2
<1>3. CASE j \in CommitJob
  <2>1. j.op \in {"commit", "commitEnd"}  BY <1>3 DEF CommitJob
  <2>2. j \notin CapJob /\ j # Idle
    BY <2>1 DEF CapJob, Idle
  <2> QED BY <1>3, <2>1, <2>2
<1> QED BY <1>1, <1>2, <1>3 DEF Jobs

\* What every step starts from.
LEMMA InvFacts ==
  ASSUME DatabaseInv
  PROVE  /\ IsDatabase(db) /\ Sound(db, disk) /\ Needed(db, disk) /\ Complete(disk)
         /\ disk \subseteq Hashes \cup Keys /\ job \in Jobs /\ held \in [Roots -> Nat]
         /\ recorded \subseteq Keys /\ faults \in 0 .. MaxFaults
         /\ HeldAt(db, disk, held) /\ PreimageAt(db, disk, job, recorded)
         /\ recorded \subseteq disk \cup db.preimages /\ db.preimages \subseteq Keys
         /\ Linked(db, disk)
         /\ job \in CommitJob => CommitAt(db, disk, job)
         /\ \E pos \in [Hashes -> Nat] : ListAt(db, disk, job, pos)
<1>1. /\ IsDatabase(db) /\ Sound(db, disk) /\ Needed(db, disk) /\ Complete(disk)
      /\ disk \subseteq Hashes \cup Keys /\ job \in Jobs /\ held \in [Roots -> Nat]
      /\ recorded \subseteq Keys /\ faults \in 0 .. MaxFaults
  BY DEF DatabaseInv, TypeInv, Jobs
<1>2. /\ HeldAt(db, disk, held) /\ PreimageAt(db, disk, job, recorded)
      /\ job \in CommitJob => CommitAt(db, disk, job)
      /\ \E pos \in [Hashes -> Nat] : ListAt(db, disk, job, pos)
  BY DEF DatabaseInv
<1>3. Linked(db, disk)
  BY <1>2 DEF ListAt, Linked
<1>4. recorded \subseteq disk \cup db.preimages
  BY <1>2 DEF PreimageAt
<1>5. db.preimages \subseteq Keys
  BY <1>1, DatabaseFacts
<1> QED BY <1>1, <1>2, <1>3, <1>4, <1>5

\* What is to be shown of a step after which nothing is going on.
LEMMA InvIdle ==
  ASSUME job' = Idle, IsDatabase(db'), disk' \subseteq Hashes \cup Keys, held' \in [Roots -> Nat],
         recorded' \subseteq Keys, faults' \in 0 .. MaxFaults, Complete(disk'),
         Sound(db', disk'), Needed(db', disk'), HeldAt(db', disk', held'),
         recorded' \subseteq disk' \cup db'.preimages, Linked(db', disk')
  PROVE  DatabaseInv'
<1>1. job' \in Jobs /\ job'.op = "idle" /\ job' \notin CapJob /\ job' \notin CommitJob
  <2>1. Idle \in Jobs  BY DEF Jobs
  <2>2. Idle.op = "idle"  BY DEF Idle
  <2>3. Idle \notin CapJob /\ Idle \notin CommitJob
    BY <2>1, <2>2, JobFacts
  <2> QED BY <2>1, <2>2, <2>3
<1>2. TypeInv'
  BY <1>1 DEF TypeInv, Jobs
<1>3. PreimageAt(db', disk', job', recorded')
  BY <1>1 DEF PreimageAt
<1>4. PICK pos \in [Hashes -> Nat] : /\ Ordered(db', Nodes(db'), pos)
                                     /\ Children1st(Nodes(db'), disk', pos)
  BY DEF Linked
<1>5. ListAt(db', disk', job', pos)
  BY <1>1, <1>4 DEF ListAt
<1> QED BY <1>1, <1>2, <1>3, <1>5 DEF DatabaseInv

LEMMA NewDatabaseIs ==
  ASSUME NEW K, NEW h, h = [r \in Roots |-> 0]
  PROVE  /\ IsDatabase(NewDatabase) /\ Sound(NewDatabase, K) /\ Needed(NewDatabase, K)
         /\ HeldAt(NewDatabase, K, h) /\ Linked(NewDatabase, K)
         /\ NewDatabase.preimages = {}
<1>1. PICK n, d : n = [cachedNode(NoHash) EXCEPT !.tracked = TRUE] /\ d = NewDatabase
  OBVIOUS
<1>2. /\ n = [parents |-> 0, tracked |-> TRUE, children |-> << >>,
              flushPrev |-> NoHash, flushNext |-> NoHash]
  BY <1>1 DEF cachedNode
<1>3. /\ n.tracked = TRUE /\ n.children = << >>
      /\ n \in [parents : Nat, tracked : BOOLEAN, children : {n.children},
                flushPrev : OrNone, flushNext : OrNone]
  BY <1>2 DEF OrNone
<1>4. << >> \in [{} -> Nat \ {0}] /\ DOMAIN << >> = {}
  OBVIOUS
<1>5. IsNode(n)
  BY <1>3, <1>4 DEF IsNode
<1>6. d = [dirties |-> [x \in {NoHash} |-> n], oldest |-> NoHash, newest |-> NoHash, size |-> 0,
           preimages |-> {}]
  BY <1>1 DEF NewDatabase
<1>7. /\ d.dirties = [x \in {NoHash} |-> n] /\ d.oldest = NoHash /\ d.newest = NoHash
      /\ d.size = 0 /\ d.preimages = {}
      /\ d \in [dirties : {d.dirties}, oldest : OrNone, newest : OrNone, size : Int,
                preimages : SUBSET Keys]
  BY <1>6 DEF OrNone
<1>8. DOMAIN d.dirties = {NoHash} /\ d.dirties[NoHash] = n
  BY <1>7
<1>9. IsDatabase(d)
  <2>1. d.dirties = [x \in DOMAIN d.dirties |-> d.dirties[x]]
    BY <1>7, <1>8
  <2> QED BY <2>1, <1>5, <1>7, <1>8 DEF IsDatabase, OrNone
<1>10. Nodes(d) = {} /\ d.dirties[NoHash].children = << >>
  BY <1>3, <1>8 DEF Nodes
<1>11. Sound(d, K)
  <2>1. Maps(d)
    BY <1>3, <1>8, <1>10 DEF Maps
  <2>2. Weighed(d)
    <3>1. SumFunction([x \in {} |-> Weight(d, x)]) = 0
      BY SumEmpty
    <3>2. Cardinality(DOMAIN d.dirties[NoHash].children) = 0
      BY <1>4, <1>10, FS_EmptySet
    <3> QED BY <3>1, <3>2, <1>7, <1>10 DEF Weighed, childSize, HashLength
  <2> QED BY <2>1, <2>2, <1>4, <1>10 DEF Sound, Closed, Counted
<1>12. Needed(d, K)
  BY <1>10 DEF Needed
<1>13. HeldAt(d, K, h)
  <2>1. \A r \in Roots \ K : r \notin DOMAIN d.dirties[NoHash].children /\ h[r] = 0
    BY <1>4, <1>10
  <2> QED BY <2>1 DEF HeldAt
<1>14. Linked(d, K)
  <2>1. PICK pos : pos = [x \in Hashes |-> 0]  OBVIOUS
  <2>2. pos \in [Hashes -> Nat]  BY <2>1
  <2>3. Ordered(d, Nodes(d), pos)
    BY <2>2, <1>7, <1>10 DEF Ordered
  <2>4. Children1st(Nodes(d), K, pos)
    BY <1>10 DEF Children1st
  <2> QED BY <2>2, <2>3, <2>4 DEF Linked
<1> QED BY <1>1, <1>7, <1>9, <1>11, <1>12, <1>13, <1>14

LEMMA InvInit ==
  ASSUME Init
  PROVE  DatabaseInv
<1>1. /\ db = NewDatabase /\ disk = {} /\ job = Idle /\ held = [r \in Roots |-> 0]
      /\ recorded = {} /\ faults = 0
  BY DEF Init
<1>2. /\ IsDatabase(db) /\ Sound(db, disk) /\ Needed(db, disk)
      /\ HeldAt(db, disk, held) /\ Linked(db, disk)
  BY <1>1, NewDatabaseIs
<1>3. job \in Jobs /\ job.op = "idle" /\ job \notin CapJob /\ job \notin CommitJob
  <2>1. Idle \in Jobs  BY DEF Jobs
  <2>2. Idle.op = "idle"  BY DEF Idle
  <2>3. Idle \notin CapJob /\ Idle \notin CommitJob
    BY <2>1, <2>2, JobFacts
  <2> QED BY <1>1, <2>1, <2>2, <2>3
<1>4. TypeInv
  <2>1. held \in [Roots -> Nat]  BY <1>1
  <2>2. faults \in 0 .. MaxFaults  BY <1>1, BoundAssumption
  <2> QED BY <2>1, <2>2, <1>1, <1>2, <1>3 DEF TypeInv, Jobs
<1>5. Complete(disk)
  BY <1>1 DEF Complete
<1>6. PreimageAt(db, disk, job, recorded)
  BY <1>1, <1>3 DEF PreimageAt
<1>7. PICK pos \in [Hashes -> Nat] : /\ Ordered(db, Nodes(db), pos)
                                     /\ Children1st(Nodes(db), disk, pos)
  BY <1>2 DEF Linked
<1>8. ListAt(db, disk, job, pos)
  BY <1>3, <1>7 DEF ListAt
<1> QED BY <1>2, <1>3, <1>4, <1>5, <1>6, <1>8 DEF DatabaseInv

LEMMA CrashInv ==
  ASSUME DatabaseInv, Crash
  PROVE  DatabaseInv'
<1>1. /\ db' = NewDatabase /\ job' = Idle /\ held' = [r \in Roots |-> 0]
      /\ recorded' = recorded \cap disk /\ faults' = faults + 1 /\ disk' = disk
      /\ faults < MaxFaults
  BY DEF Crash
<1>2. /\ Complete(disk) /\ disk \subseteq Hashes \cup Keys /\ recorded \subseteq Keys
      /\ faults \in 0 .. MaxFaults
  BY InvFacts
<1>3. /\ IsDatabase(db') /\ Sound(db', disk') /\ Needed(db', disk')
      /\ HeldAt(db', disk', held') /\ Linked(db', disk')
  BY <1>1, NewDatabaseIs
<1>4. held' \in [Roots -> Nat]  BY <1>1
<1>5. faults' \in 0 .. MaxFaults  BY <1>1, <1>2, BoundAssumption
<1>6. recorded' \subseteq Keys /\ recorded' \subseteq disk' \cup db'.preimages
  BY <1>1, <1>2
<1> QED BY <1>1, <1>2, <1>3, <1>4, <1>5, <1>6, InvIdle

LEMMA WriteFailsInv ==
  ASSUME DatabaseInv, WriteFails
  PROVE  DatabaseInv'
<1>1. /\ job' = Idle /\ db' = db /\ disk' = disk /\ held' = held /\ recorded' = recorded
      /\ faults' = faults + 1 /\ faults < MaxFaults
  BY DEF WriteFails
<1>2. /\ IsDatabase(db) /\ Sound(db, disk) /\ Needed(db, disk) /\ Complete(disk)
      /\ disk \subseteq Hashes \cup Keys /\ held \in [Roots -> Nat]
      /\ recorded \subseteq Keys /\ faults \in 0 .. MaxFaults
      /\ HeldAt(db, disk, held) /\ recorded \subseteq disk \cup db.preimages
      /\ Linked(db, disk)
  BY InvFacts
<1>3. faults' \in 0 .. MaxFaults  BY <1>1, <1>2, BoundAssumption
<1> QED BY <1>1, <1>2, <1>3, InvIdle

-----------------------------------------------------------------------------
(* The caller's calls.                                                     *)


LEMMA LinkedFewer ==
  ASSUME NEW d, NEW e, Nodes(e) \subseteq Nodes(d), NEW K, NEW pos,
         Children1st(Nodes(d), K, pos), Ordered(e, Nodes(e), pos)
  PROVE  Linked(e, K)
<1>1. Children1st(Nodes(e), K, pos)
  BY DEF Children1st
<1>2. pos \in [Hashes -> Nat]
  BY DEF Ordered
<1> QED BY <1>1, <1>2 DEF Linked

LEMMA DereferenceInv ==
  ASSUME DatabaseInv, NEW r \in Roots, Dereference(r)
  PROVE  DatabaseInv'
<1>1. /\ db' = dereference(db, r, NoHash) /\ held' = [held EXCEPT ![r] = @ - 1] /\ held[r] > 0
      /\ job = Idle /\ job' = Idle /\ disk' = disk /\ recorded' = recorded /\ faults' = faults
  BY DEF Dereference
<1>2. /\ IsDatabase(db) /\ Sound(db, disk) /\ Needed(db, disk) /\ Complete(disk)
      /\ disk \subseteq Hashes \cup Keys /\ held \in [Roots -> Nat]
      /\ recorded \subseteq Keys /\ faults \in 0 .. MaxFaults
      /\ HeldAt(db, disk, held) /\ recorded \subseteq disk \cup db.preimages
  BY InvFacts
<1>3. PICK pos \in [Hashes -> Nat] : Ordered(db, Nodes(db), pos) /\ Children1st(Nodes(db), disk, pos)
  BY InvFacts DEF ListAt
<1>4. PICK a : a = db.dirties[NoHash].children  OBVIOUS
<1>5. \A x \in Roots \ disk : held[x] = IF x \in DOMAIN a THEN a[x] ELSE 0
  BY <1>2, <1>4 DEF HeldAt
<1>6. r \notin disk => r \in DOMAIN a
  <2>1. SUFFICES ASSUME r \notin disk, r \notin DOMAIN a  PROVE FALSE
    OBVIOUS
  <2>2. held[r] = 0  BY <2>1, <1>5
  <2> QED BY <2>2, <1>1
<1>7. PICK e : e = db'  OBVIOUS
<1>8. PICK f : Forgetting(db, r, NoHash, f) /\ Ended(f, e, disk, pos)
  <2>1. r \in Roots  OBVIOUS
  <2>2. e = dereference(db, r, NoHash)  BY <1>1, <1>7
  <2>3. r \notin disk => r \in DOMAIN db.dirties[NoHash].children  BY <1>4, <1>6
  <2>4. IsDatabase(db) /\ Sound(db, disk) /\ Needed(db, disk) /\ Ordered(db, Nodes(db), pos)
    BY <1>2, <1>3
  <2> QED BY ONLY <2>1, <2>2, <2>3, <2>4, DereferenceSound
<1>9. /\ IsDatabase(e) /\ Sound(e, disk) /\ Needed(e, disk) /\ Ordered(e, Nodes(e), pos)
      /\ Nodes(e) \subseteq Nodes(f) /\ e.preimages = f.preimages
      /\ e.dirties[NoHash].children = f.dirties[NoHash].children
  BY <1>8 DEF Ended, Apart
<1>10. DOMAIN f.dirties = DOMAIN db.dirties /\ f.preimages = db.preimages
  BY <1>8 DEF Forgetting
<1>11. Linked(e, disk)
  <2>1. Nodes(e) \subseteq Nodes(db)
    BY <1>9, <1>10 DEF Nodes
  <2> QED BY <2>1, <1>3, <1>9, LinkedFewer
<1>12. PICK b : b = e.dirties[NoHash].children  OBVIOUS
<1>13. /\ DOMAIN b = IF r \in DOMAIN a /\ a[r] > 1 THEN DOMAIN a ELSE DOMAIN a \ {r}
       /\ \A x \in DOMAIN b : b[x] = IF x = r THEN a[x] - 1 ELSE a[x]
  BY <1>4, <1>8, <1>9, <1>12 DEF Forgetting
<1>14. held' \in [Roots -> Nat]
  <2>1. held[r] - 1 \in Nat  BY <1>1, <1>2
  <2> QED BY <2>1, <1>1, <1>2
<1>15. ASSUME NEW x \in Roots \ disk
       PROVE  held'[x] = IF x \in DOMAIN b THEN b[x] ELSE 0
  <2>1. CASE x # r
    <3>1. held'[x] = held[x]  BY <2>1, <1>1, <1>2
    <3>2. x \in DOMAIN b <=> x \in DOMAIN a
      BY <2>1, <1>13
    <3>3. x \in DOMAIN b => b[x] = a[x]
      BY <2>1, <1>13
    <3> QED BY <3>1, <3>2, <3>3, <1>5
  <2>2. CASE x = r
    <3>1. PICK v : v = a[r]  OBVIOUS
    <3>2. r \in DOMAIN a /\ held[r] = v
      BY <2>2, <3>1, <1>5, <1>6
    <3>3. held'[r] = v - 1  BY <3>2, <1>1, <1>2
    <3>4. v \in Nat /\ v > 0  BY <3>2, <1>1, <1>2
    <3>5. CASE v > 1
      <4>1. r \in DOMAIN b  BY <3>1, <3>2, <3>5, <1>13
      <4>2. b[r] = v - 1  BY <3>1, <4>1, <1>13
      <4> QED BY <4>1, <4>2, <3>3, <2>2
    <3>6. CASE v = 1
      <4>1. ~ (v > 1)  BY ONLY <3>6
      <4>2. ~ (r \in DOMAIN a /\ a[r] > 1)  BY <3>1, <4>1
      <4>3. DOMAIN b = DOMAIN a \ {r}  BY <4>2, <1>13
      <4>4. r \notin DOMAIN b  BY ONLY <4>3
      <4>5. held'[r] = 0  BY <3>3, <3>6
      <4> QED BY <4>4, <4>5, <2>2
    <3>7. v > 1 \/ v = 1  BY ONLY <3>4
    <3> QED BY <3>5, <3>6, <3>7
  <2> QED BY <2>1, <2>2
<1>16. HeldAt(e, disk, held')
  BY <1>12, <1>15 DEF HeldAt
<1>17. recorded' \subseteq disk' \cup db'.preimages
  BY <1>1, <1>2, <1>7, <1>9, <1>10
<1> QED BY <1>1, <1>2, <1>7, <1>9, <1>11, <1>14, <1>16, <1>17, InvIdle

LEMMA ReferenceRoot ==
  ASSUME NEW c, IsDatabase(c), NEW K, Sound(c, K), NEW r \in Roots, r \in Nodes(c) \cup K,
         NEW e, e = reference(c, r, NoHash)
  PROVE  /\ IsDatabase(e) /\ SoundBut(e, K, NoHash)
       /\ DOMAIN e.dirties = DOMAIN c.dirties /\ KeepsLinks(c, e)
       /\ e.preimages = c.preimages
       /\ r \in K \cup DOMAIN e.dirties[NoHash].children
       /\ DOMAIN c.dirties[NoHash].children \subseteq DOMAIN e.dirties[NoHash].children
       /\ e.dirties[NoHash].children =
                IF r \in Nodes(c) THEN refer(c.dirties[NoHash].children, r)
                ELSE c.dirties[NoHash].children
<1>1. PICK p : p = NoHash  OBVIOUS
<1>2. SoundBut(c, K, p)
  BY <1>1 DEF Sound, SoundBut
<1>3. p \in DOMAIN c.dirties
  BY <1>1, DatabaseFacts
<1>4. p # NoHash => r \in Ext[p]
  BY <1>1
<1>5. e = reference(c, r, p)  BY <1>1
<1>6. IsDatabase(c) /\ r \in Roots /\ r \in Nodes(c) \cup K  OBVIOUS
<1>7. /\ IsDatabase(e) /\ SoundBut(e, K, p)
       /\ DOMAIN e.dirties = DOMAIN c.dirties /\ KeepsLinks(c, e)
       /\ e.preimages = c.preimages
  BY ONLY <1>2, <1>3, <1>4, <1>5, <1>6, ReferenceSound
<1>8. /\ r \in K \cup DOMAIN e.dirties[p].children
      /\ DOMAIN c.dirties[p].children \subseteq DOMAIN e.dirties[p].children
  BY ONLY <1>2, <1>3, <1>4, <1>5, <1>6, ReferenceSound
<1>9. p = NoHash =>
              e.dirties[NoHash].children =
                IF r \in Nodes(c) THEN refer(c.dirties[NoHash].children, r)
                ELSE c.dirties[NoHash].children
  BY ONLY <1>2, <1>3, <1>4, <1>5, <1>6, ReferenceSound
<1> QED BY <1>1, <1>7, <1>8, <1>9

\* What the nodes of U refer to is in S.
Supplied(U, S) == \A h \in U : References(h) \subseteq S

\* The databases that CommitTrie goes through: b with the preimages, c with the
\* nodes, e with the reference to the root.
Committed(d, ks, s, r) ==
  reference(FoldLeft(storeNode, [d EXCEPT !.preimages = ks], s), r, NoHash)

LEMMA StoreTrie ==
  ASSUME NEW d, IsDatabase(d), NEW K, Sound(d, K), Linked(d, K), Needed(d, K),
         NEW r \in Roots, NEW U, U \subseteq Hashes, Attached(U, r),
         Supplied(U, U \cup (Nodes(d) \cup K)), r \in U \cup (Nodes(d) \cup K),
         NEW s, Stores(s, U),
         NEW ks \in SUBSET Keys,
         NEW e, e = Committed(d, ks, s, r)
  PROVE  /\ IsDatabase(e) /\ Sound(e, K) /\ Linked(e, K) /\ Needed(e, K)
         /\ Nodes(e) = Nodes(d) \cup U /\ e.preimages = ks
         /\ r \notin K => e.dirties[NoHash].children = refer(d.dirties[NoHash].children, r)
         /\ r \in K => \/ e.dirties[NoHash].children = refer(d.dirties[NoHash].children, r)
                       \/ e.dirties[NoHash].children = d.dirties[NoHash].children
<1>1. PICK b : b = [d EXCEPT !.preimages = ks]  OBVIOUS
<1>2. Repictured(d, b) /\ b.preimages = ks
  BY <1>1, SetPreimages
<1>3. /\ IsDatabase(b) /\ b.dirties = d.dirties /\ Nodes(b) = Nodes(d)
      /\ DOMAIN b.dirties = DOMAIN d.dirties /\ Sound(b, K)
  BY <1>2, RepicturedKept DEF Repictured
<1>4. Linked(b, K)
  <2>1. \A L, pos : Ordered(d, L, pos) => Ordered(b, L, pos)
    BY <1>2, RepicturedKept
  <2>2. PICK pos \in [Hashes -> Nat] : Ordered(d, Nodes(d), pos) /\ Children1st(Nodes(d), K, pos)
    BY DEF Linked
  <2>3. Ordered(b, Nodes(b), pos) /\ Children1st(Nodes(b), K, pos)
    BY <2>1, <2>2, <1>3
  <2> QED BY <2>3 DEF Linked
<1>5. PICK c : c = FoldLeft(storeNode, b, s)  OBVIOUS
<1>6. /\ IsDatabase(c) /\ Sound(c, K) /\ Linked(c, K)
      /\ Nodes(c) = Nodes(b) \cup U
      /\ c.preimages = b.preimages
      /\ c.dirties[NoHash].children = b.dirties[NoHash].children
  <2>1. \A h \in U : References(h) \subseteq U \cup Nodes(b) \cup K
    BY <1>3 DEF Supplied
  <2>2. U \subseteq Hashes /\ s \in Seq(Hashes) /\ Range(s) = U
    BY DEF Stores
  <2>3. InOrder(s, U, [h \in U |-> References(h)])
    BY DEF Stores
  <2> QED BY ONLY <2>1, <2>2, <2>3, <1>3, <1>4, <1>5, StoreSound
<1>7. e = reference(c, r, NoHash)
  BY <1>1, <1>5 DEF Committed
<1>9. r \in Nodes(c) \cup K /\ NoHash \in DOMAIN c.dirties
  <2>1. NoHash \in DOMAIN c.dirties  BY <1>6, DatabaseFacts
  <2> QED BY <2>1, <1>3, <1>6
<1>10. /\ IsDatabase(e) /\ SoundBut(e, K, NoHash)
       /\ DOMAIN e.dirties = DOMAIN c.dirties /\ KeepsLinks(c, e)
       /\ e.preimages = c.preimages
       /\ r \in K \cup DOMAIN e.dirties[NoHash].children
       /\ DOMAIN c.dirties[NoHash].children \subseteq DOMAIN e.dirties[NoHash].children
       /\ e.dirties[NoHash].children =
                IF r \in Nodes(c) THEN refer(c.dirties[NoHash].children, r)
                ELSE c.dirties[NoHash].children
  <2>1. IsDatabase(c) /\ Sound(c, K) /\ r \in Roots /\ r \in Nodes(c) \cup K
    BY <1>6, <1>9
  <2> QED BY ONLY <2>1, <1>7, ReferenceRoot
<1>11. Nodes(e) = Nodes(d) \cup U
  BY <1>3, <1>6, <1>10 DEF Nodes
<1>12. Sound(e, K)
  <2>1. \A x \in Nodes(e) : x \in Nodes(e) \ {NoHash}
    BY <1>10, DatabaseFacts
  <2> QED BY <2>1, <1>10 DEF Sound, SoundBut
<1>13. Linked(e, K)
  BY <1>6, <1>10, LinkedKept
<1>14. Needed(e, K)
  <2>1. SUFFICES ASSUME NEW h \in Nodes(e) \ K  PROVE e.dirties[h].parents > 0
    BY DEF Needed
  <2>2. Wanted(e, h)
    <3>1. CASE h = r
      BY <3>1, <1>10 DEF Wanted
    <3>2. CASE h \in U \ {r}
      <4>1. PICK p \in U : h \in References(p)  BY <3>2 DEF Attached
      <4> QED BY <4>1, <1>11 DEF Wanted
    <3>3. CASE h \in Nodes(d)
      <4>1. d.dirties[h].parents > 0
        BY <3>3 DEF Needed
      <4>2. Wanted(d, h)
        BY <4>1, <3>3, NeededIf
      <4>3. DOMAIN d.dirties[NoHash].children \subseteq DOMAIN e.dirties[NoHash].children
        BY <1>3, <1>6, <1>10
      <4> QED BY <4>2, <4>3, <1>11 DEF Wanted
    <3> QED BY <3>1, <3>2, <3>3, <1>11
  <2> QED BY <2>2, <1>10, <1>12, NeededIf
<1>15. r \notin K => r \in Nodes(c)
  BY <1>9
<1> QED BY <1>2, <1>3, <1>6, <1>10, <1>11, <1>12, <1>13, <1>14, <1>15

LEMMA CommitTrieInv ==
  ASSUME DatabaseInv, NEW r \in Roots, NEW U \in SUBSET Below(r), CommitTrie(r, U)
  PROVE  DatabaseInv'
<1>1. PICK order : order = OrderOf(U, r)
  OBVIOUS
<1>2. /\ job = Idle /\ job' = Idle /\ disk' = disk /\ faults' = faults
      /\ U = {} \/ r \in U
      /\ \A h \in U \ {r} : \E p \in U : h \in References(p)
      /\ \A h \in U : References(h) \subseteq U \cup Available
      /\ r \in U \cup Available
      /\ held' = [held EXCEPT ![r] = @ + 1]
      /\ recorded' = recorded \cup Preimages[r]
  BY DEF CommitTrie
<1>3. db' = reference(FoldLeft(storeNode, insertPreimage(db, Preimages[r]), order), r, NoHash)
  BY <1>1 DEF CommitTrie, OrderOf
<1>4. /\ IsDatabase(db) /\ Sound(db, disk) /\ Needed(db, disk) /\ Complete(disk)
      /\ disk \subseteq Hashes \cup Keys /\ held \in [Roots -> Nat]
      /\ recorded \subseteq Keys /\ faults \in 0 .. MaxFaults
      /\ HeldAt(db, disk, held) /\ recorded \subseteq disk \cup db.preimages
      /\ Linked(db, disk) /\ db.preimages \subseteq Keys
  BY InvFacts
<1>5. r \in Hashes /\ U \subseteq Hashes
  <2>1. r \in Hashes  BY HashFacts
  <2> QED BY <2>1, BelowFacts
<1>a. Attached(U, r)
  BY <1>2 DEF Attached
<1>6. Stores(order, U)
  <2>1. r \in Roots  OBVIOUS
  <2> QED BY ONLY <2>1, <1>1, <1>a, <1>5, StoreOrder
<1>7. PICK ks : ks = db.preimages \cup Preimages[r]  OBVIOUS
<1>8. ks \in SUBSET Keys /\ Preimages[r] \subseteq Keys
  BY <1>4, <1>7 DEF Keys
<1>9. insertPreimage(db, Preimages[r]) = [db EXCEPT !.preimages = ks]
  BY <1>7 DEF insertPreimage
<1>10. PICK e : e = db'  OBVIOUS
<1>11. e = Committed(db, ks, order, r)
  BY <1>3, <1>9, <1>10 DEF Committed
<1>12. /\ IsDatabase(e) /\ Sound(e, disk) /\ Linked(e, disk) /\ Needed(e, disk)
       /\ Nodes(e) = Nodes(db) \cup U /\ e.preimages = ks
       /\ r \notin disk => e.dirties[NoHash].children = refer(db.dirties[NoHash].children, r)
       /\ r \in disk => \/ e.dirties[NoHash].children = refer(db.dirties[NoHash].children, r)
                        \/ e.dirties[NoHash].children = db.dirties[NoHash].children
  <2>1. /\ Supplied(U, U \cup (Nodes(db) \cup disk))
        /\ r \in U \cup (Nodes(db) \cup disk)
    BY <1>2 DEF Available, Supplied
  <2>2. r \in Roots  OBVIOUS
  <2>3. IsDatabase(db) /\ Sound(db, disk) /\ Needed(db, disk) /\ Linked(db, disk)
    BY <1>4
  <2> QED BY ONLY <2>1, <2>2, <2>3, <1>a, <1>5, <1>6, <1>8, <1>11, StoreTrie
<1>13. PICK a, b : a = db.dirties[NoHash].children /\ b = e.dirties[NoHash].children  OBVIOUS
<1>14. IsRefs(a)
  <2>1. NoHash \in DOMAIN db.dirties /\ IsNode(db.dirties[NoHash])
    BY <1>4 DEF IsDatabase
  <2> QED BY <2>1, <1>13 DEF IsNode, IsRefs
<1>15. /\ DOMAIN refer(a, r) = DOMAIN a \cup {r}
       /\ \A x \in DOMAIN a : x # r => refer(a, r)[x] = a[x]
       /\ refer(a, r)[r] = IF r \in DOMAIN a THEN a[r] + 1 ELSE 1
  BY <1>14, ReferFacts
<1>16. \A x \in Roots \ disk : held[x] = IF x \in DOMAIN a THEN a[x] ELSE 0
  BY <1>4, <1>13 DEF HeldAt
<1>17. held' \in [Roots -> Nat]
  BY <1>2, <1>4
<1>18. ASSUME NEW x \in Roots \ disk
       PROVE  held'[x] = IF x \in DOMAIN b THEN b[x] ELSE 0
  <2>1. CASE x # r
    <3>1. held'[x] = held[x]  BY <2>1, <1>2, <1>4
    <3>2. b = refer(a, r) \/ b = a  BY <1>12, <1>13
    <3>3. (x \in DOMAIN b <=> x \in DOMAIN a) /\ (x \in DOMAIN a => b[x] = a[x])
      BY <2>1, <3>2, <1>15
    <3> QED BY <3>1, <3>3, <1>16
  <2>2. CASE x = r
    <3>1. b = refer(a, r)  BY <2>2, <1>12, <1>13
    <3>2. held'[r] = held[r] + 1  BY <1>2, <1>4
    <3>3. r \in DOMAIN b  BY <3>1, <1>15
    <3>4. CASE r \in DOMAIN a
      <4>1. b[r] = a[r] + 1  BY <3>1, <3>4, <1>15
      <4>2. held[r] = a[r]  BY <2>2, <3>4, <1>16
      <4> QED BY <4>1, <4>2, <3>2, <3>3, <2>2
    <3>5. CASE r \notin DOMAIN a
      <4>1. b[r] = 1  BY <3>1, <3>5, <1>15
      <4>2. held[r] = 0  BY <2>2, <3>5, <1>16
      <4>3. held'[r] = 0 + 1  BY <4>2, <3>2
      <4> QED BY <4>1, <4>3, <3>3, <2>2
    <3> QED BY <3>4, <3>5
  <2> QED BY <2>1, <2>2
<1>19. HeldAt(e, disk, held')
  BY <1>13, <1>18 DEF HeldAt
<1>20. recorded' \subseteq Keys /\ recorded' \subseteq disk' \cup db'.preimages
  BY <1>2, <1>4, <1>7, <1>8, <1>10, <1>12
<1> QED BY <1>2, <1>4, <1>10, <1>12, <1>17, <1>19, <1>20, InvIdle

-----------------------------------------------------------------------------
(* Cap.                                                                    *)


LEMMA AppendFacts ==
  ASSUME NEW b \in Seq(Hashes), NEW h \in Hashes, NEW c, c = Append(b, h)
  PROVE  c \in Seq(Hashes) /\ Range(c) = Range(b) \cup {h}
<1>1. PICK n : n = Len(b)  OBVIOUS
<1>2. n \in Nat /\ DOMAIN b = 1 .. n  BY <1>1
<1>3. /\ c \in Seq(Hashes) /\ DOMAIN c = 1 .. n + 1
      /\ \A i \in 1 .. n : c[i] = b[i]
      /\ c[n + 1] = h
  BY <1>1
<1>4. n + 1 \in 1 .. n + 1 /\ \A i \in 1 .. n + 1 : i \in 1 .. n \/ i = n + 1
  BY ONLY <1>2
<1>5. \A i \in 1 .. n : i \in 1 .. n + 1
  BY ONLY <1>2
<1> QED BY <1>2, <1>3, <1>4, <1>5 DEF Range

LEMMA RangeEmpty == Range(<< >>) = {} /\ << >> \in Seq(Hashes)
<1>1. DOMAIN << >> = {}  OBVIOUS
<1> QED BY <1>1 DEF Range

LEMMA RangeIn ==
  ASSUME NEW b \in Seq(Hashes)
  PROVE  Range(b) \subseteq Hashes
BY ElementOfSeq, LenProperties DEF Range

\* What is to be shown of any step.
LEMMA InvAny ==
  ASSUME job' \in Jobs, IsDatabase(db'), disk' \subseteq Hashes \cup Keys, held' \in [Roots -> Nat],
         recorded' \subseteq Keys, faults' \in 0 .. MaxFaults, Complete(disk'),
         Sound(db', disk'), Needed(db', disk'), HeldAt(db', disk', held'),
         PreimageAt(db', disk', job', recorded'),
         NEW pos \in [Hashes -> Nat], ListAt(db', disk', job', pos),
         job' \in CommitJob => CommitAt(db', disk', job')
  PROVE  DatabaseInv'
<1>1. TypeInv'
  BY DEF TypeInv, Jobs
<1> QED BY <1>1 DEF DatabaseInv

CapGoes(j, b, s, o) == [j EXCEPT !.batch = b, !.size = s, !.oldest = o]

LEMMA CapSet ==
  ASSUME NEW j \in CapJob, NEW b \in Seq(Hashes), NEW s \in Int, NEW o \in OrNone,
         NEW i, i = CapGoes(j, b, s, o)
  PROVE  /\ i \in CapJob /\ i.op = j.op /\ i.limit = j.limit /\ i.batch = b /\ i.size = s
         /\ i.oldest = o /\ i.flushPreimages = j.flushPreimages
BY DEF CapJob, CapGoes

LEMMA CapFields ==
  ASSUME NEW j \in CapJob
  PROVE  /\ j.limit \in Limits /\ j.size \in Int /\ j.oldest \in OrNone
         /\ j.batch \in Seq(Hashes) /\ j.flushPreimages \in BOOLEAN
BY DEF CapJob

CapBegun(d, l, f) ==
  [op |-> "cap", limit |-> l, size |-> memory(d), oldest |-> d.oldest, batch |-> << >>,
   flushPreimages |-> f]

LEMMA CapBegins ==
  ASSUME NEW d, IsDatabase(d), NEW K, Sound(d, K), NEW pos, Ordered(d, Nodes(d), pos),
         NEW l \in Limits, NEW f \in BOOLEAN, NEW j, j = CapBegun(d, l, f)
  PROVE  j \in CapJob /\ CapAt(d, K, j, pos) /\ j.flushPreimages = f
<1>1. memory(d) = Cost(d, Nodes(d)) /\ memory(d) \in Nat
  BY MemoryIs DEF Sound
<1>2. d.oldest \in OrNone
  BY DatabaseFacts
<1>3. PICK m, o : m = memory(d) /\ o = d.oldest  OBVIOUS
<1>4. j = [op |-> "cap", limit |-> l, size |-> m, oldest |-> o, batch |-> << >>,
           flushPreimages |-> f]
  BY <1>3 DEF CapBegun
<1>5. m \in Int /\ o \in OrNone  BY <1>1, <1>2, <1>3
<1>6. /\ j \in CapJob /\ j.op = "cap" /\ j.size = m /\ j.oldest = o /\ j.batch = << >>
      /\ j.flushPreimages = f
  BY ONLY <1>4, <1>5, l \in Limits, f \in BOOLEAN DEF CapJob
<1>7. ListFrom(d, o, pos) = Nodes(d) /\ o \in Nodes(d) \cup {NoHash}
  BY <1>3, ListStarts
<1>8. Whole(j.batch, K) /\ Range(j.batch) = {}
  BY <1>6, RangeEmpty DEF Whole
<1> QED BY <1>1, <1>3, <1>6, <1>7, <1>8 DEF CapAt

\* The batch b, or nothing of it once it is full and has gone to the disk.
Flushed(b, K, c, M) == (c = << >> /\ M = K \cup Range(b)) \/ (c = b /\ M = K)

CapBatch(j) == Append(j.batch, j.oldest)

CapPushed(d, j, b) ==
  [j EXCEPT !.batch = b,
            !.size = @ - HashLength - Size[j.oldest] - cachedNodeSize - childrenOf(d, j.oldest),
            !.oldest = d.dirties[@].flushNext]

LEMMA CapPushes ==
  ASSUME NEW d, IsDatabase(d), NEW K, Sound(d, K), NEW pos, Ordered(d, Nodes(d), pos),
         Children1st(Nodes(d), K, pos),
         NEW j \in CapJob, j.op = "cap", CapAt(d, K, j, pos), j.oldest # NoHash,
         NEW b, b = CapBatch(j),
         NEW c, NEW M, Flushed(b, K, c, M),
         NEW i, i = CapPushed(d, j, c)
  PROVE  /\ i \in CapJob /\ CapAt(d, M, i, pos)
         /\ Whole(b, K) /\ Range(b) \subseteq Nodes(d) /\ i.flushPreimages = j.flushPreimages
<1>1. PICK h, k : h = j.oldest /\ k = d.dirties[h].flushNext
  OBVIOUS
<1>2. PICK rest : rest = ListFrom(d, h, pos)  OBVIOUS
<1>3. /\ h \in Nodes(d) \cup {NoHash} /\ Nodes(d) \ rest \subseteq K \cup Range(j.batch)
      /\ Range(j.batch) \subseteq Nodes(d) /\ Whole(j.batch, K) /\ j.size = Cost(d, rest)
  BY <1>1, <1>2 DEF CapAt
<1>4. h \in Nodes(d) /\ h \in Hashes /\ Nodes(d) \subseteq Hashes
  BY <1>1, <1>3, DatabaseFacts
<1>5. j.batch \in Seq(Hashes)
  BY CapFields
<1>6. b \in Seq(Hashes) /\ Range(b) = Range(j.batch) \cup {h}
  BY <1>1, <1>4, <1>5, AppendFacts DEF CapBatch
<1>7. /\ ListFrom(d, k, pos) = rest \ {h} /\ k \in Nodes(d) \cup {NoHash} /\ h \in rest
  BY <1>1, <1>2, <1>4, ListGoesOn
<1>8. Whole(b, K)
  <2>1. SUFFICES ASSUME NEW y \in Range(b), NEW x \in References(y)
                 PROVE  x \in K \cup Range(b)
    BY DEF Whole
  <2>2. CASE y \in Range(j.batch)
    BY <2>2, <1>3, <1>6 DEF Whole
  <2>3. CASE y = h
    <3>1. x \in Nodes(d) \cup K
      BY <2>3, <1>4 DEF Sound, Closed
    <3>2. ASSUME x \in Nodes(d), x \notin K  PROVE x \in Range(b)
      <4>1. pos[x] < pos[h]
        BY <2>3, <3>2, <1>4 DEF Children1st
      <4>2. pos[x] \in Nat /\ pos[h] \in Nat
        BY <3>2, <1>4 DEF Ordered
      <4>3. ~ (pos[h] <= pos[x])
        BY <4>1, <4>2
      <4>4. x \notin rest
        BY <4>3, <1>2 DEF ListFrom
      <4> QED BY <4>4, <3>2, <1>3, <1>6
    <3> QED BY <3>1, <3>2
  <2> QED BY <2>2, <2>3, <1>6
<1>9. Range(b) \subseteq Nodes(d)
  BY <1>3, <1>4, <1>6
<1>10. (c = << >> /\ M = K \cup Range(b)) \/ (c = b /\ M = K)
  BY DEF Flushed
<1>11. /\ c \in Seq(Hashes) /\ Range(c) \subseteq Nodes(d)
       /\ K \cup Range(b) = M \cup Range(c) /\ Whole(c, M)
  <2>1. CASE c = << >> /\ M = K \cup Range(b)
    <3>1. c = << >>  BY <2>1
    <3>2. Range(c) = {} /\ c \in Seq(Hashes)
      BY ONLY <3>1, RangeEmpty
    <3> QED BY <3>2, <2>1 DEF Whole
  <2>2. CASE c = b /\ M = K
    BY <2>2, <1>6, <1>8, <1>9
  <2> QED BY <2>1, <2>2, <1>10
<1>12. PICK s, w, t, z : s = j.size /\ w = Weight(d, h) /\ t = Cost(d, rest \ {h}) /\ z = childrenOf(d, h)
  OBVIOUS
<1>13. s = t + w + 96 /\ t \in Nat /\ w \in Nat
  <2>1. rest \subseteq Nodes(d)  BY <1>2 DEF ListFrom
  <2> QED BY <2>1, <1>3, <1>7, <1>12, CostTakes DEF cachedNodeSize
<1>14. PICK y : y = Size[h]  OBVIOUS
<1>15. w = 32 + y + z /\ y \in Nat /\ z \in Nat
  <2>1. y \in Nat  BY <1>4, <1>14, RefFacts
  <2>2. z \in Nat
    <3>1. h \in DOMAIN d.dirties  BY <1>4 DEF Nodes
    <3> QED BY <3>1, <1>12, NodeFacts
  <2> QED BY <2>1, <2>2, <1>12, <1>14 DEF Weight, HashLength
<1>16. i = [j EXCEPT !.batch = c, !.size = s - 32 - y - 96 - z, !.oldest = k]
  BY <1>1, <1>12, <1>14 DEF CapPushed, HashLength, cachedNodeSize
<1>17. PICK v : v = s - 32 - y - 96 - z  OBVIOUS
<1>18. v = t /\ v \in Int
  BY ONLY <1>13, <1>15, <1>17
<1>19. i = CapGoes(j, c, v, k)
  BY <1>16, <1>17 DEF CapGoes
<1>20. k \in OrNone
  BY <1>4, <1>7 DEF OrNone
<1>21. /\ i \in CapJob /\ i.op = j.op /\ i.batch = c /\ i.size = v
       /\ i.oldest = k /\ i.flushPreimages = j.flushPreimages
  <2>1. j \in CapJob  OBVIOUS
  <2>2. c \in Seq(Hashes)  BY <1>11
  <2> QED BY ONLY <2>1, <2>2, <1>18, <1>19, <1>20, CapSet
<1>22. PICK R : R = ListFrom(d, i.oldest, pos)  OBVIOUS
<1>23. R = rest \ {h}  BY <1>7, <1>21, <1>22
<1>24. Nodes(d) \ R \subseteq M \cup Range(i.batch)
  BY <1>3, <1>6, <1>11, <1>21, <1>23
<1>25. i.size = Cost(d, R)
  BY <1>12, <1>18, <1>21, <1>23
<1>26. i.op # "capClear" /\ i.oldest \in Nodes(d) \cup {NoHash} /\ Range(i.batch) \subseteq Nodes(d)
       /\ Whole(i.batch, M)
  BY <1>7, <1>11, <1>21
<1>27. CapAt(d, M, i, pos)
  BY <1>22, <1>24, <1>25, <1>26 DEF CapAt
<1> QED BY <1>1, <1>8, <1>9, <1>21, <1>27

LEMMA CapWrites ==
  ASSUME NEW d, NEW K, NEW pos,
         NEW j \in CapJob, CapAt(d, K, j, pos), ~ (j.size > j.limit /\ j.oldest # NoHash),
         NEW i, i = [j EXCEPT !.op = "capClear"]
  PROVE  /\ i \in CapJob /\ CapAt(d, K \cup Range(j.batch), i, pos)
         /\ Whole(j.batch, K) /\ Range(j.batch) \subseteq Nodes(d)
         /\ i.flushPreimages = j.flushPreimages
<1>1. /\ i \in CapJob /\ i.op = "capClear" /\ i.limit = j.limit /\ i.batch = j.batch
      /\ i.size = j.size /\ i.oldest = j.oldest /\ i.flushPreimages = j.flushPreimages
  BY DEF CapJob
<1>2. PICK rest : rest = ListFrom(d, j.oldest, pos)  OBVIOUS
<1>3. /\ j.oldest \in Nodes(d) \cup {NoHash} /\ Nodes(d) \ rest \subseteq K \cup Range(j.batch)
      /\ Range(j.batch) \subseteq Nodes(d) /\ Whole(j.batch, K) /\ j.size = Cost(d, rest)
  BY <1>2 DEF CapAt
<1>4. i.size <= i.limit \/ i.oldest = NoHash
  <2>1. j.size \in Int /\ j.limit \in Int
    BY CapFields, BoundAssumption
  <2>2. j.size <= j.limit \/ j.oldest = NoHash
    BY <2>1
  <2> QED BY <2>2, <1>1
<1>5. Whole(i.batch, K \cup Range(j.batch))
  BY <1>1, <1>3 DEF Whole
<1>6. CapAt(d, K \cup Range(j.batch), i, pos)
  BY <1>1, <1>2, <1>3, <1>4, <1>5 DEF CapAt
<1> QED BY <1>1, <1>3, <1>6

\* Cap's steps: the disk grows, and nothing else but the job changes.
LEMMA InvDisk ==
  ASSUME DatabaseInv, db' = db, held' = held, recorded' = recorded, faults' = faults,
         NEW W, disk' = disk \cup W, W \subseteq Hashes \cup Keys, Complete(disk \cup W),
         job' \in Jobs, PreimageAt(db, disk \cup W, job', recorded),
         NEW pos \in [Hashes -> Nat], ListAt(db, disk \cup W, job', pos),
         job' \in CommitJob => CommitAt(db, disk \cup W, job')
  PROVE  DatabaseInv'
<1>1. /\ IsDatabase(db) /\ Sound(db, disk) /\ Needed(db, disk)
      /\ disk \subseteq Hashes \cup Keys /\ held \in [Roots -> Nat]
      /\ recorded \subseteq Keys /\ faults \in 0 .. MaxFaults
      /\ HeldAt(db, disk, held)
  BY InvFacts
<1>2. PICK M : M = disk'  OBVIOUS
<1>3. disk \subseteq M /\ M = disk \cup W  BY <1>2
<1>4. Sound(db, M) /\ Needed(db, M) /\ HeldAt(db, M, held)
  BY <1>1, <1>3, DiskGrows
<1>5. M \subseteq Hashes \cup Keys  BY <1>1, <1>3
<1>6. Complete(M) /\ PreimageAt(db, M, job', recorded) /\ ListAt(db, M, job', pos)
      /\ (job' \in CommitJob => CommitAt(db, M, job'))
  BY <1>3
<1> QED BY <1>1, <1>2, <1>4, <1>5, <1>6, InvAny

LEMMA CapStartInv ==
  ASSUME DatabaseInv, NEW l \in Limits, CapStart(l)
  PROVE  DatabaseInv'
<1>1. PICK flush, W :
        /\ flush \in BOOLEAN /\ job' = CapBegun(db, l, flush) /\ disk' = disk \cup W
        /\ (flush /\ W = db.preimages) \/ (~ flush /\ W = {})
  <2>1. CASE Cardinality(db.preimages) > PreimageLimit
    <3>1. job' = CapBegun(db, l, TRUE) /\ disk' = disk \cup db.preimages
      BY <2>1 DEF CapStart, CapBegun
    <3> QED BY <3>1
  <2>2. CASE ~ (Cardinality(db.preimages) > PreimageLimit)
    <3>1. (Cardinality(db.preimages) > PreimageLimit) = FALSE  BY <2>2
    <3>2. job' = CapBegun(db, l, FALSE)
      BY <3>1 DEF CapStart, CapBegun
    <3>3. disk' = disk \cup {}
      BY <2>2 DEF CapStart
    <3> QED BY <3>2, <3>3
  <2> QED BY <2>1, <2>2
<1>2. /\ job = Idle /\ db' = db /\ held' = held /\ recorded' = recorded /\ faults' = faults
  BY DEF CapStart
<1>3. /\ IsDatabase(db) /\ Sound(db, disk) /\ Complete(disk) /\ disk \subseteq Hashes \cup Keys
      /\ recorded \subseteq disk \cup db.preimages /\ db.preimages \subseteq Keys
  BY InvFacts
<1>4. PICK pos \in [Hashes -> Nat] : Ordered(db, Nodes(db), pos) /\ Children1st(Nodes(db), disk, pos)
  BY InvFacts DEF ListAt
<1>5. PICK M : M = disk \cup W  OBVIOUS
<1>6. disk' = disk \cup W /\ W \subseteq Keys /\ disk \subseteq M
  BY <1>1, <1>3, <1>5
<1>7. Sound(db, M)
  BY <1>3, <1>6, DiskGrows
<1>8. PICK j : j = job'  OBVIOUS
<1>9. j \in CapJob /\ CapAt(db, M, j, pos) /\ j.flushPreimages = flush
  <2>1. l \in Limits /\ flush \in BOOLEAN /\ j = CapBegun(db, l, flush)
    BY <1>1, <1>8
  <2>2. IsDatabase(db) /\ Ordered(db, Nodes(db), pos)  BY <1>3, <1>4
  <2> QED BY ONLY <2>1, <2>2, <1>7, CapBegins
<1>10. ListAt(db, M, j, pos)
  <2>1. Children1st(Nodes(db), M, pos)
    BY <1>4, <1>6, DiskGrows
  <2> QED BY <2>1, <1>4, <1>9 DEF ListAt
<1>11. PreimageAt(db, M, j, recorded)
  <2>1. recorded \subseteq M \cup db.preimages  BY <1>3, <1>6
  <2>2. CASE flush
    <3>1. db.preimages \subseteq M  BY <2>2, <1>1, <1>5
    <3> QED BY <2>1, <3>1 DEF PreimageAt
  <2>3. CASE ~ flush
    BY <2>1, <2>3, <1>9 DEF PreimageAt
  <2> QED BY <2>2, <2>3
<1>12. Complete(M)
  BY <1>3, <1>5, <1>6, KeysComplete
<1>13. job' \in Jobs /\ job' \notin CommitJob
  <2>1. j \in Jobs  BY <1>9 DEF Jobs
  <2>2. j \notin CommitJob  BY <2>1, <1>9, JobFacts
  <2> QED BY <2>1, <2>2, <1>8
<1>14. /\ Complete(disk \cup W) /\ PreimageAt(db, disk \cup W, job', recorded)
       /\ ListAt(db, disk \cup W, job', pos)
  BY <1>5, <1>8, <1>10, <1>11, <1>12
<1> QED BY <1>2, <1>6, <1>13, <1>14, InvDisk

LEMMA CapPushInv ==
  ASSUME DatabaseInv, CapPush
  PROVE  DatabaseInv'
<1>1. PICK b : b = CapBatch(job)  OBVIOUS
<1>2. PICK c, W, M :
        /\ job' = CapPushed(db, job, c) /\ disk' = disk \cup W /\ M = disk \cup W
        /\ (c = << >> /\ W = Range(b)) \/ (c = b /\ W = {})
  <2>1. CASE ValueSize(b) >= IdealBatchSize
    <3>1. job' = CapPushed(db, job, << >>) /\ disk' = disk \cup Range(b)
      BY <2>1, <1>1 DEF CapPush, CapPushed, CapBatch, Written
    <3> QED BY <3>1
  <2>2. CASE ~ (ValueSize(b) >= IdealBatchSize)
    <3>1. job' = CapPushed(db, job, b) /\ disk' = disk \cup {}
      BY <2>2, <1>1 DEF CapPush, CapPushed, CapBatch
    <3> QED BY <3>1
  <2> QED BY <2>1, <2>2
<1>3. /\ job.op = "cap" /\ job.oldest # NoHash
      /\ db' = db /\ held' = held /\ recorded' = recorded /\ faults' = faults
  BY DEF CapPush
<1>4. /\ IsDatabase(db) /\ Sound(db, disk) /\ Complete(disk) /\ disk \subseteq Hashes \cup Keys
      /\ PreimageAt(db, disk, job, recorded) /\ job \in Jobs
  BY InvFacts
<1>5. job \in CapJob
  BY <1>3, <1>4, JobFacts
<1>6. PICK pos \in [Hashes -> Nat] : /\ Ordered(db, Nodes(db), pos) /\ Children1st(Nodes(db), disk, pos)
                                     /\ CapAt(db, disk, job, pos)
  BY <1>5, InvFacts DEF ListAt
<1>7. Flushed(b, disk, c, M)
  BY <1>2 DEF Flushed
<1>8. PICK i, j : i = job' /\ j = job  OBVIOUS
<1>9. /\ i \in CapJob /\ CapAt(db, M, i, pos)
      /\ Whole(b, disk) /\ Range(b) \subseteq Nodes(db) /\ i.flushPreimages = j.flushPreimages
  <2>1. /\ j \in CapJob /\ j.op = "cap" /\ CapAt(db, disk, j, pos) /\ j.oldest # NoHash
        /\ b = CapBatch(j) /\ i = CapPushed(db, j, c)
    BY <1>1, <1>2, <1>3, <1>5, <1>6, <1>8
  <2>2. /\ IsDatabase(db) /\ Sound(db, disk) /\ Ordered(db, Nodes(db), pos)
        /\ Children1st(Nodes(db), disk, pos)
    BY <1>4, <1>6
  <2> QED BY ONLY <2>1, <2>2, <1>7, CapPushes
<1>10. /\ disk' = disk \cup W /\ disk \subseteq M /\ W \subseteq Hashes \cup Keys
  <2>1. Nodes(db) \subseteq Hashes  BY <1>4, DatabaseFacts
  <2> QED BY <2>1, <1>2, <1>9
<1>11. Complete(M)
  <2>1. CASE W = Range(b)
    <3>1. Complete(disk \cup Range(b))
      BY <1>4, <1>9, WriteComplete
    <3> QED BY <3>1, <2>1, <1>2
  <2>2. CASE W = {}
    <3>1. M = disk  BY <2>2, <1>2
    <3> QED BY <3>1, <1>4
  <2> QED BY <2>1, <2>2, <1>2
<1>12. ListAt(db, M, i, pos)
  <2>1. Children1st(Nodes(db), M, pos)
    BY <1>6, <1>10, DiskGrows
  <2> QED BY <2>1, <1>6, <1>9 DEF ListAt
<1>13. PreimageAt(db, M, i, recorded)
  <2>1. j.op # "idle"  BY <1>3, <1>8
  <2>2. PreimageAt(db, disk, j, recorded)  BY <1>4, <1>8
  <2> QED BY <2>1, <2>2, <1>9, <1>10 DEF PreimageAt
<1>14. i \in Jobs /\ i \notin CommitJob
  <2>1. i \in Jobs  BY <1>9 DEF Jobs
  <2> QED BY <2>1, <1>9, JobFacts
<1>15. /\ Complete(disk \cup W) /\ PreimageAt(db, disk \cup W, job', recorded)
       /\ ListAt(db, disk \cup W, job', pos) /\ job' \in Jobs /\ job' \notin CommitJob
  BY <1>2, <1>8, <1>11, <1>12, <1>13, <1>14
<1> QED BY <1>3, <1>10, <1>15, InvDisk

LEMMA CapWriteInv ==
  ASSUME DatabaseInv, CapWrite
  PROVE  DatabaseInv'
<1>1. PICK W, M : W = Range(job.batch) /\ M = disk \cup W  OBVIOUS
<1>2. PICK i, j : i = job' /\ j = job  OBVIOUS
<1>3. /\ j.op = "cap" /\ ~ (j.size > j.limit /\ j.oldest # NoHash)
      /\ db' = db /\ held' = held /\ recorded' = recorded /\ faults' = faults
      /\ i = [j EXCEPT !.op = "capClear"] /\ disk' = disk \cup W
  BY <1>1, <1>2 DEF CapWrite, Written
<1>4. /\ IsDatabase(db) /\ Complete(disk) /\ PreimageAt(db, disk, j, recorded) /\ j \in Jobs
  BY <1>2, InvFacts
<1>5. j \in CapJob
  BY <1>3, <1>4, JobFacts
<1>6. PICK pos \in [Hashes -> Nat] : /\ Ordered(db, Nodes(db), pos) /\ Children1st(Nodes(db), disk, pos)
                                     /\ CapAt(db, disk, j, pos)
  BY <1>2, <1>5, InvFacts DEF ListAt
<1>7. /\ i \in CapJob /\ CapAt(db, disk \cup Range(j.batch), i, pos)
      /\ Whole(j.batch, disk) /\ Range(j.batch) \subseteq Nodes(db)
      /\ i.flushPreimages = j.flushPreimages
  BY <1>3, <1>5, <1>6, CapWrites
<1>8. W = Range(j.batch)  BY <1>1, <1>2
<1>9. W \subseteq Hashes \cup Keys /\ disk \subseteq M
  <2>1. Nodes(db) \subseteq Hashes  BY <1>4, DatabaseFacts
  <2> QED BY <2>1, <1>1, <1>7, <1>8
<1>10. Complete(M)
  BY <1>1, <1>4, <1>7, <1>8, WriteComplete
<1>11. ListAt(db, M, i, pos)
  <2>1. Children1st(Nodes(db), M, pos)
    BY <1>6, <1>9, DiskGrows
  <2> QED BY <2>1, <1>1, <1>6, <1>7, <1>8 DEF ListAt
<1>12. PreimageAt(db, M, i, recorded)
  <2>1. j.op # "idle"  BY <1>3
  <2> QED BY <2>1, <1>4, <1>7, <1>9 DEF PreimageAt
<1>13. i \in Jobs /\ i \notin CommitJob
  <2>1. i \in Jobs  BY <1>7 DEF Jobs
  <2> QED BY <2>1, <1>7, JobFacts
<1>14. /\ Complete(disk \cup W) /\ PreimageAt(db, disk \cup W, job', recorded)
       /\ ListAt(db, disk \cup W, job', pos) /\ job' \in Jobs /\ job' \notin CommitJob
  BY <1>1, <1>2, <1>10, <1>11, <1>12, <1>13
<1> QED BY <1>3, <1>9, <1>14, InvDisk

\* What holds of a memory database still holds when nodes have left it.
LEMMA ShrunkKeeps ==
  ASSUME NEW d, NEW e, NEW K, NEW pos \in [Hashes -> Nat], Shrunk(d, e, K, pos),
         Needed(d, K), Children1st(Nodes(d), K, pos),
         NEW h, HeldAt(d, K, h)
  PROVE  /\ Needed(e, K) /\ HeldAt(e, K, h) /\ Children1st(Nodes(e), K, pos) /\ Linked(e, K)
<1>1. /\ IsDatabase(e) /\ Ordered(e, Nodes(e), pos) /\ Nodes(e) \subseteq Nodes(d)
      /\ KeepsRefs(d, e) /\ KeepsCounts(d, e)
  BY DEF Shrunk
<1>2. Needed(e, K)
  <2>1. SUFFICES ASSUME NEW x \in Nodes(e) \ K  PROVE e.dirties[x].parents > 0
    BY DEF Needed
  <2>2. x \in DOMAIN e.dirties  BY DEF Nodes
  <2>3. e.dirties[x].parents = d.dirties[x].parents
    BY <1>1, <2>2 DEF KeepsCounts
  <2>4. d.dirties[x].parents > 0
    BY <1>1 DEF Needed
  <2> QED BY <2>3, <2>4
<1>3. HeldAt(e, K, h)
  <2>1. NoHash \in DOMAIN e.dirties
    BY <1>1, DatabaseFacts
  <2>2. e.dirties[NoHash].children = d.dirties[NoHash].children
    BY <1>1, <2>1 DEF KeepsRefs
  <2> QED BY <2>2 DEF HeldAt
<1>4. Children1st(Nodes(e), K, pos)
  BY <1>1 DEF Children1st
<1>5. Linked(e, K)
  BY <1>1, <1>4 DEF Linked
<1> QED BY <1>2, <1>3, <1>4, <1>5

\* The same with the preimages forgotten as well.
LEMMA ShrunkEnds ==
  ASSUME NEW d, NEW f, NEW K, NEW pos \in [Hashes -> Nat], Shrunk(d, f, K, pos),
         Needed(d, K), Children1st(Nodes(d), K, pos),
         NEW h, HeldAt(d, K, h),
         NEW ks \in SUBSET Keys, NEW e, e = [f EXCEPT !.preimages = ks]
  PROVE  /\ IsDatabase(e) /\ Sound(e, K) /\ Needed(e, K) /\ HeldAt(e, K, h) /\ Linked(e, K)
         /\ e.preimages = ks /\ Nodes(e) = Nodes(f) /\ \A R : Cost(e, R) = Cost(f, R)
<1>1. /\ Needed(f, K) /\ HeldAt(f, K, h) /\ Children1st(Nodes(f), K, pos)
  BY ShrunkKeeps
<1>2. IsDatabase(f) /\ Sound(f, K) /\ Ordered(f, Nodes(f), pos)
  BY DEF Shrunk
<1>3. Repictured(f, e) /\ e.preimages = ks
  BY <1>2, SetPreimages
<1>4. /\ Nodes(e) = Nodes(f) /\ Sound(e, K) /\ Needed(e, K)
      /\ \A L, q : Ordered(f, L, q) => Ordered(e, L, q)
      /\ \A R : Cost(e, R) = Cost(f, R)
  BY <1>1, <1>2, <1>3, RepicturedKept
<1>5. Ordered(e, Nodes(e), pos) /\ Children1st(Nodes(e), K, pos)
  BY <1>1, <1>2, <1>4
<1>6. Linked(e, K)
  BY <1>5 DEF Linked
<1>7. IsDatabase(e) /\ e.dirties = f.dirties
  BY <1>3 DEF Repictured
<1>8. HeldAt(e, K, h)
  BY <1>1, <1>7 DEF HeldAt
<1> QED BY <1>3, <1>4, <1>6, <1>7, <1>8

\* Cap uncaches what it has put on disk.
LEMMA CapClears ==
  ASSUME NEW d, IsDatabase(d), NEW K, Complete(K), Sound(d, K), NEW pos, Ordered(d, Nodes(d), pos),
         NEW j \in CapJob, j.op = "capClear", CapAt(d, K, j, pos),
         NEW f, f = clear(d, j.oldest)
  PROVE  /\ Shrunk(d, f, K, pos)
         /\ Cost(f, Nodes(f)) <= j.limit
<1>1. PICK o : o = j.oldest  OBVIOUS
<1>2. PICK R : R = ListFrom(d, o, pos)  OBVIOUS
<1>3. /\ o \in Nodes(d) \cup {NoHash} /\ Nodes(d) \ R \subseteq K \cup Range(j.batch)
      /\ j.size = Cost(d, R) /\ Range(j.batch) \subseteq K
      /\ j.size <= j.limit \/ o = NoHash
  BY <1>1, <1>2 DEF CapAt
<1>4. Nodes(d) \ R \subseteq K
  BY <1>3
<1>5. Nodes(d) \subseteq Hashes  BY DatabaseFacts
<1>6. \A h \in Nodes(d) \ R : References(h) \subseteq K
  BY <1>4, <1>5 DEF Complete
<1>7. R = {x \in Nodes(d) : o # NoHash /\ pos[o] <= pos[x]}
  BY <1>2 DEF ListFrom
<1>8. Shrunk(d, f, K, pos) /\ Nodes(f) = R
  <2>1. /\ IsDatabase(d) /\ Sound(d, K) /\ Ordered(d, Nodes(d), pos)
        /\ f = clear(d, o) /\ o \in Nodes(d) \cup {NoHash}
    BY <1>1, <1>3
  <2> QED BY ONLY <2>1, <1>4, <1>6, <1>7, ClearSound
<1>9. Cost(f, R) = Cost(d, R)
  <2>1. KeepsRefs(d, f)  BY <1>8 DEF Shrunk
  <2> QED BY <2>1, <1>8, CostKept
<1>10. Cost(d, R) <= j.limit
  <2>1. CASE o = NoHash
    <3>1. R = {}  BY <2>1, <1>7
    <3>2. Cost(d, R) = 0  BY <3>1, CostNone
    <3>3. j.limit \in Nat  BY CapFields, BoundAssumption
    <3> QED BY <3>2, <3>3
  <2>2. CASE o # NoHash
    BY <2>2, <1>3
  <2> QED BY <2>1, <2>2
<1> QED BY <1>8, <1>9, <1>10

\* What Cap leaves: the invariant, and a cache within its allowance.
LEMMA CapClearDone ==
  ASSUME DatabaseInv, CapClear
  PROVE  DatabaseInv' /\ memory(db') <= job.limit
<1>1. PICK j, f : j = job /\ f = clear(db, j.oldest)  OBVIOUS
<1>2. PICK ks : ks = IF j.flushPreimages THEN {} ELSE f.preimages  OBVIOUS
<1>3. PICK e : e = db'  OBVIOUS
<1>4. /\ j.op = "capClear" /\ e = [f EXCEPT !.preimages = ks]
      /\ job' = Idle /\ disk' = disk /\ held' = held /\ recorded' = recorded /\ faults' = faults
  BY <1>1, <1>2, <1>3 DEF CapClear
<1>5. /\ IsDatabase(db) /\ Sound(db, disk) /\ Needed(db, disk) /\ Complete(disk)
      /\ disk \subseteq Hashes \cup Keys /\ j \in Jobs /\ held \in [Roots -> Nat]
      /\ recorded \subseteq Keys /\ faults \in 0 .. MaxFaults
      /\ HeldAt(db, disk, held) /\ PreimageAt(db, disk, j, recorded)
      /\ recorded \subseteq disk \cup db.preimages /\ db.preimages \subseteq Keys
  BY <1>1, InvFacts
<1>6. j \in CapJob
  BY <1>4, <1>5, JobFacts
<1>7. PICK pos \in [Hashes -> Nat] : /\ Ordered(db, Nodes(db), pos) /\ Children1st(Nodes(db), disk, pos)
                                     /\ CapAt(db, disk, j, pos)
  BY <1>1, <1>6, InvFacts DEF ListAt
<1>8. Shrunk(db, f, disk, pos) /\ Cost(f, Nodes(f)) <= j.limit
  BY <1>1, <1>4, <1>5, <1>6, <1>7, CapClears
<1>9. f.preimages = db.preimages
  BY <1>8 DEF Shrunk
<1>10. ks \in SUBSET Keys /\ recorded \subseteq disk \cup ks
  <2>1. CASE j.flushPreimages
    <3>1. ks = {}  BY <2>1, <1>2
    <3>2. db.preimages \subseteq disk
      BY <2>1, <1>4, <1>5 DEF PreimageAt
    <3> QED BY <3>1, <3>2, <1>5
  <2>2. CASE ~ j.flushPreimages
    BY <2>2, <1>2, <1>5, <1>9
  <2> QED BY <2>1, <2>2
<1>11. /\ IsDatabase(e) /\ Sound(e, disk) /\ Needed(e, disk) /\ HeldAt(e, disk, held) /\ Linked(e, disk)
       /\ e.preimages = ks /\ Nodes(e) = Nodes(f) /\ \A R : Cost(e, R) = Cost(f, R)
  <2>1. /\ Needed(db, disk) /\ Children1st(Nodes(db), disk, pos) /\ HeldAt(db, disk, held)
        /\ pos \in [Hashes -> Nat]
    BY <1>5, <1>7
  <2>2. Shrunk(db, f, disk, pos) /\ e = [f EXCEPT !.preimages = ks] /\ ks \in SUBSET Keys
    BY <1>4, <1>8, <1>10
  <2> QED BY ONLY <2>1, <2>2, ShrunkEnds
<1>12. DatabaseInv'
  BY <1>3, <1>4, <1>5, <1>10, <1>11, InvIdle
<1>13. memory(e) = Cost(e, Nodes(e))
  BY <1>11, MemoryIs DEF Sound
<1>14. memory(e) <= j.limit
  BY <1>8, <1>11, <1>13
<1> QED BY <1>1, <1>3, <1>12, <1>14

-----------------------------------------------------------------------------
(* Commit.                                                                 *)


CommitGoes(j, b, t, w) == [j EXCEPT !.batch = b, !.todo = t, !.written = w]

LEMMA CommitSet ==
  ASSUME NEW j \in CommitJob, NEW b \in Seq(Hashes), NEW t \in Seq(Hashes), NEW w \in BOOLEAN,
         NEW i, i = CommitGoes(j, b, t, w)
  PROVE  /\ i \in CommitJob /\ i.op = j.op /\ i.root = j.root /\ i.batch = b /\ i.todo = t
         /\ i.written = w
BY DEF CommitJob, CommitGoes

LEMMA CommitFields ==
  ASSUME NEW j \in CommitJob
  PROVE  /\ j.op \in {"commit", "commitEnd"} /\ j.root \in Roots /\ j.batch \in Seq(Hashes)
         /\ j.todo \in Seq(Hashes) /\ j.written \in BOOLEAN
BY DEF CommitJob

\* While Commit is at work, the preimages are on disk.
LEMMA CommitPreimages ==
  ASSUME NEW j \in CommitJob, NEW d, NEW K, NEW r
  PROVE  PreimageAt(d, K, j, r) <=> (r \subseteq K \cup d.preimages /\ d.preimages \subseteq K)
<1>1. j \in Jobs /\ j.op # "idle" /\ j \notin CapJob
  <2>1. j \in Jobs  BY DEF Jobs
  <2> QED BY <2>1, JobFacts
<1> QED BY <1>1 DEF PreimageAt

\* A batch on disk is uncached.
LEMMA BatchLeaves ==
  ASSUME NEW d, IsDatabase(d), NEW K, Complete(K), Sound(d, K), NEW pos, Ordered(d, Nodes(d), pos),
         NEW b \in Seq(Hashes), Range(b) \subseteq K
  PROVE  \E e : e = FoldLeft(Put, d, b) /\ Shrunk(d, e, K, pos) /\ Nodes(e) = Nodes(d) \ Range(b)
<1>1. Range(b) \subseteq Hashes  BY RangeIn
<1>2. \A h \in Range(b) : References(h) \subseteq K
  BY <1>1 DEF Complete
<1> QED BY <1>2, PutsSound

CommitRests(j) == CommitGoes(j, << >>, j.todo, FALSE)

\* What Commit still has to do, when its batch is on disk and uncached.
LEMMA CommitEmptied ==
  ASSUME NEW d, NEW e, NEW K, NEW j \in CommitJob, CommitAt(d, K, j), j.op = "commit",
         Range(j.batch) \subseteq K, Nodes(d) \subseteq Nodes(e) \cup K,
         NEW i, i = CommitRests(j)
  PROVE  i \in CommitJob /\ CommitAt(e, K, i)
<1>1. j.batch \in Seq(Hashes) /\ j.todo \in Seq(Hashes)
  BY CommitFields
<1>2. PICK t, b, n, w : t = j.todo /\ b = j.batch /\ n = << >> /\ w = FALSE  OBVIOUS
<1>3. n \in Seq(Hashes) /\ Range(n) = {}
  BY <1>2, RangeEmpty
<1>4. /\ i \in CommitJob /\ i.op = j.op /\ i.root = j.root /\ i.batch = n /\ i.todo = t
      /\ i.written = w
  <2>1. t \in Seq(Hashes) /\ n \in Seq(Hashes)  BY <1>1, <1>2, <1>3
  <2>2. i = CommitGoes(j, n, t, w)  BY <1>2 DEF CommitRests
  <2>3. w \in BOOLEAN  BY <1>2
  <2>4. j \in CommitJob  OBVIOUS
  <2> QED BY ONLY <2>1, <2>2, <2>3, <2>4, CommitSet
<1>5. \A k : Before(K, b, t, k) = Before(K, n, t, k)
  BY <1>2, <1>3 DEF Before
<1>6. Whole(n, K)
  BY <1>3 DEF Whole
<1>7. ASSUME NEW k \in DOMAIN t
      PROVE  t[k] \in Nodes(e) \cup K /\ References(t[k]) \subseteq Before(K, n, t, k)
  <2>1. t[k] \in Nodes(d) \cup K /\ References(t[k]) \subseteq Before(K, b, t, k)
    BY <1>2 DEF CommitAt
  <2> QED BY <2>1, <1>5
<1>8. j.root \in Before(K, n, t, Len(t) + 1)
  <2>1. j.root \in Before(K, b, t, Len(t) + 1)
    BY <1>2 DEF CommitAt
  <2> QED BY <2>1, <1>5
<1>9. i.op # "commitEnd"  BY <1>4
<1> QED BY <1>2, <1>4, <1>6, <1>7, <1>8, <1>9 DEF CommitAt

LEMMA CommitReplayInv ==
  ASSUME DatabaseInv, CommitReplay
  PROVE  DatabaseInv'
<1>1. PICK j, i, e : j = job /\ i = job' /\ e = db'  OBVIOUS
<1>2. /\ j.op = "commit" /\ j.written /\ e = FoldLeft(Put, db, j.batch)
      /\ i = CommitRests(j)
      /\ disk' = disk /\ held' = held /\ recorded' = recorded /\ faults' = faults
  BY <1>1 DEF CommitReplay, CommitRests, CommitGoes
<1>3. /\ IsDatabase(db) /\ Sound(db, disk) /\ Needed(db, disk) /\ Complete(disk)
      /\ disk \subseteq Hashes \cup Keys /\ j \in Jobs /\ held \in [Roots -> Nat]
      /\ recorded \subseteq Keys /\ faults \in 0 .. MaxFaults
      /\ HeldAt(db, disk, held) /\ PreimageAt(db, disk, j, recorded)
  BY <1>1, InvFacts
<1>4. j \in CommitJob
  BY <1>2, <1>3, JobFacts
<1>5. CommitAt(db, disk, j)
  BY <1>1, <1>4, InvFacts
<1>6. PICK pos \in [Hashes -> Nat] : /\ Ordered(db, Nodes(db), pos) /\ Children1st(Nodes(db), disk, pos)
  BY InvFacts DEF ListAt
<1>7. Range(j.batch) \subseteq disk
  BY <1>2, <1>5 DEF CommitAt
<1>8. PICK f : f = FoldLeft(Put, db, j.batch) /\ Shrunk(db, f, disk, pos) /\ Nodes(f) = Nodes(db) \ Range(j.batch)
  <2>1. j.batch \in Seq(Hashes)  BY <1>4, CommitFields
  <2>2. IsDatabase(db) /\ Complete(disk) /\ Sound(db, disk) /\ Ordered(db, Nodes(db), pos)
    BY <1>3, <1>6
  <2> QED BY ONLY <2>1, <2>2, <1>7, BatchLeaves
<1>9. Shrunk(db, e, disk, pos) /\ Nodes(e) = Nodes(db) \ Range(j.batch)
  BY <1>2, <1>8
<1>10. IsDatabase(e) /\ Sound(e, disk) /\ Ordered(e, Nodes(e), pos) /\ e.preimages = db.preimages
  BY <1>9 DEF Shrunk
<1>11. Needed(e, disk) /\ HeldAt(e, disk, held) /\ Children1st(Nodes(e), disk, pos)
  BY <1>3, <1>6, <1>9, ShrunkKeeps
<1>12. i \in CommitJob /\ CommitAt(e, disk, i)
  <2>1. Nodes(db) \subseteq Nodes(e) \cup disk
    BY <1>7, <1>9
  <2>2. i = CommitRests(j) /\ j.op = "commit"  BY <1>2
  <2> QED BY ONLY <2>1, <2>2, <1>4, <1>5, <1>7, CommitEmptied
<1>13. i \in Jobs /\ i \notin CapJob
  <2>1. i \in Jobs  BY <1>12 DEF Jobs
  <2> QED BY <2>1, <1>12, JobFacts
<1>14. ListAt(e, disk, i, pos)
  BY <1>10, <1>11, <1>13 DEF ListAt
<1>15. PreimageAt(e, disk, i, recorded)
  BY <1>3, <1>4, <1>10, <1>12, CommitPreimages
<1> QED BY <1>1, <1>2, <1>3, <1>10, <1>11, <1>12, <1>13, <1>14, <1>15, InvAny

LEMMA CommitEndInv ==
  ASSUME DatabaseInv, CommitEnd
  PROVE  DatabaseInv'
<1>1. PICK j, e : j = job /\ e = db'  OBVIOUS
<1>3. /\ IsDatabase(db) /\ Sound(db, disk) /\ Needed(db, disk) /\ Complete(disk)
      /\ disk \subseteq Hashes \cup Keys /\ j \in Jobs /\ held \in [Roots -> Nat]
      /\ recorded \subseteq Keys /\ faults \in 0 .. MaxFaults
      /\ HeldAt(db, disk, held) /\ PreimageAt(db, disk, j, recorded)
  BY <1>1, InvFacts
<1>2. /\ j.op = "commitEnd" /\ e = [FoldLeft(Put, db, j.batch) EXCEPT !.preimages = {}]
      /\ job' = Idle
      /\ disk' = disk /\ held' = held /\ recorded' = recorded /\ faults' = faults
  BY <1>1 DEF CommitEnd
<1>4. j \in CommitJob
  BY <1>2, <1>3, JobFacts
<1>5. CommitAt(db, disk, j)
  BY <1>1, <1>4, InvFacts
<1>6. PICK pos \in [Hashes -> Nat] : /\ Ordered(db, Nodes(db), pos) /\ Children1st(Nodes(db), disk, pos)
  BY InvFacts DEF ListAt
<1>7. Range(j.batch) \subseteq disk
  BY <1>2, <1>5 DEF CommitAt
<1>8. PICK f : f = FoldLeft(Put, db, j.batch) /\ Shrunk(db, f, disk, pos) /\ Nodes(f) = Nodes(db) \ Range(j.batch)
  <2>1. j.batch \in Seq(Hashes)  BY <1>4, CommitFields
  <2>2. IsDatabase(db) /\ Complete(disk) /\ Sound(db, disk) /\ Ordered(db, Nodes(db), pos)
    BY <1>3, <1>6
  <2> QED BY ONLY <2>1, <2>2, <1>7, BatchLeaves
<1>9. e = [f EXCEPT !.preimages = {}]
  BY <1>2, <1>8
<1>10. recorded \subseteq disk
  BY <1>3, <1>4, CommitPreimages
<1>11. /\ IsDatabase(e) /\ Sound(e, disk) /\ Needed(e, disk) /\ HeldAt(e, disk, held) /\ Linked(e, disk)
  <2>1. {} \in SUBSET Keys  OBVIOUS
  <2> QED BY <2>1, <1>3, <1>6, <1>8, <1>9, ShrunkEnds
<1> QED BY <1>1, <1>2, <1>3, <1>10, <1>11, InvIdle

LEMMA TailOn ==
  ASSUME NEW t \in Seq(Hashes), t # << >>, NEW u, u = Tail(t)
  PROVE  /\ u \in Seq(Hashes) /\ t[1] = Head(t) /\ 1 \in DOMAIN t /\ Len(u) + 1 = Len(t)
         /\ Len(u) \in Nat /\ DOMAIN u = 1 .. Len(u)
         /\ \A k \in 1 .. Len(u) : u[k] = t[k + 1] /\ k + 1 \in DOMAIN t
<1>1. PICK n : n = Len(t)  OBVIOUS
<1>2. n \in Nat /\ n # 0 /\ DOMAIN t = 1 .. n
  BY <1>1
<1>3. u \in Seq(Hashes) /\ Len(u) = n - 1 /\ \A k \in 1 .. n - 1 : u[k] = t[k + 1]
  BY <1>1, <1>2
<1>4. n - 1 \in Nat /\ n - 1 + 1 = n /\ 1 \in 1 .. n /\ \A k \in 1 .. n - 1 : k + 1 \in 1 .. n
  BY ONLY <1>2
<1>5. DOMAIN u = 1 .. n - 1  BY <1>3
<1>6. t[1] = Head(t)  OBVIOUS
<1> QED BY <1>1, <1>2, <1>3, <1>4, <1>5, <1>6

Split(t, h, u) == t # << >> /\ h = Head(t) /\ u = Tail(t)

\* What comes before position k of the tail came before the next position.
LEMMA BeforeTail ==
  ASSUME NEW t \in Seq(Hashes), NEW u, NEW h, Split(t, h, u),
         NEW K, NEW M, NEW b, NEW c, K \cup Range(b) \cup {h} \subseteq M \cup Range(c),
         NEW k \in 1 .. Len(u) + 1
  PROVE  Before(K, b, t, k + 1) \subseteq Before(M, c, u, k)
<1>1. PICK n : n = Len(u)  OBVIOUS
<1>2. /\ n \in Nat /\ t[1] = h
      /\ \A i \in 1 .. n : u[i] = t[i + 1]
  BY <1>1, TailOn DEF Split
<1>3. k \in 1 .. n + 1  BY <1>1
<1>4. ASSUME NEW i \in 1 .. k + 1 - 1  PROVE t[i] \in Before(M, c, u, k)
  <2>1. CASE i = 1
    BY <2>1, <1>2 DEF Before
  <2>2. CASE i # 1
    <3>1. i - 1 \in 1 .. n /\ i - 1 \in 1 .. k - 1 /\ i - 1 + 1 = i
      BY ONLY <1>2, <1>3, <1>4, <2>2
    <3>2. t[i] = u[i - 1]
      BY <3>1, <1>2
    <3> QED BY <3>1, <3>2 DEF Before
  <2> QED BY <2>1, <2>2
<1>5. {t[i] : i \in 1 .. k + 1 - 1} \subseteq Before(M, c, u, k)
  BY <1>4
<1>6. K \cup Range(b) \subseteq Before(M, c, u, k)
  BY DEF Before
<1> QED BY <1>5, <1>6 DEF Before

BatchWith(d, j, h) == IF h \in Nodes(d) THEN Append(j.batch, h) ELSE j.batch

\* Whether the batch is due, and what is written.
Due(c, w, W) == (w /\ W = Range(c)) \/ (~ w /\ W = {})

Ahead(j, h) == j.todo # << >> /\ h = Head(j.todo)

CommitPushed(j, c, w) == CommitGoes(j, c, Tail(j.todo), w)

LEMMA CommitPushes ==
  ASSUME NEW d, IsDatabase(d), NEW K,
         NEW j \in CommitJob, j.op = "commit", CommitAt(d, K, j),
         NEW h, Ahead(j, h), NEW c, c = BatchWith(d, j, h),
         NEW w \in BOOLEAN, NEW W, Due(c, w, W), NEW M, M = K \cup W,
         NEW i, i = CommitPushed(j, c, w)
  PROVE  i \in CommitJob /\ CommitAt(d, M, i) /\ Whole(c, K) /\ c \in Seq(Hashes)
<1>1. PICK t, u, b : t = j.todo /\ u = Tail(t) /\ b = j.batch  OBVIOUS
<1>2. t \in Seq(Hashes) /\ b \in Seq(Hashes) /\ t # << >>
  BY <1>1, CommitFields DEF Ahead
<1>3. /\ Whole(b, K)
      /\ \A k \in DOMAIN t : /\ t[k] \in Nodes(d) \cup K
                             /\ References(t[k]) \subseteq Before(K, b, t, k)
      /\ j.root \in Before(K, b, t, Len(t) + 1)
  BY <1>1 DEF CommitAt
<1>4. /\ u \in Seq(Hashes) /\ t[1] = h /\ 1 \in DOMAIN t /\ Len(u) + 1 = Len(t)
      /\ Len(u) \in Nat /\ DOMAIN u = 1 .. Len(u)
      /\ \A k \in 1 .. Len(u) : u[k] = t[k + 1] /\ k + 1 \in DOMAIN t
  <2>1. h = Head(t)  BY <1>1 DEF Ahead
  <2> QED BY <2>1, <1>1, <1>2, TailOn
<1>5. References(h) \subseteq K \cup Range(b) /\ h \in Nodes(d) \cup K
  <2>1. Before(K, b, t, 1) = K \cup Range(b)
    BY DEF Before
  <2> QED BY <2>1, <1>3, <1>4
<1>6. c \in Seq(Hashes) /\ K \cup Range(b) \cup {h} = K \cup Range(c) /\ Whole(c, K)
  <2>1. CASE h \in Nodes(d)
    <3>1. c = Append(b, h)  BY <2>1, <1>1 DEF BatchWith
    <3>2. h \in Hashes  BY <2>1, DatabaseFacts
    <3>3. c \in Seq(Hashes) /\ Range(c) = Range(b) \cup {h}
      BY <3>1, <3>2, <1>2, AppendFacts
    <3>4. Whole(c, K)
      BY <3>3, <1>3, <1>5 DEF Whole
    <3> QED BY <3>3, <3>4
  <2>2. CASE h \notin Nodes(d)
    <3>1. c = b /\ h \in K  BY <2>2, <1>1, <1>5 DEF BatchWith
    <3> QED BY <3>1, <1>2, <1>3
  <2> QED BY <2>1, <2>2
<1>7. K \subseteq M /\ (w => Range(c) \subseteq M)
  BY DEF Due
<1>8. K \cup Range(b) \cup {h} \subseteq M \cup Range(c)
  BY <1>6, <1>7
<1>9. /\ i \in CommitJob /\ i.op = j.op /\ i.root = j.root /\ i.batch = c /\ i.todo = u
      /\ i.written = w
  <2>1. i = CommitGoes(j, c, u, w)  BY <1>1 DEF CommitPushed
  <2>2. j \in CommitJob /\ w \in BOOLEAN  OBVIOUS
  <2> QED BY ONLY <2>1, <2>2, <1>4, <1>6, CommitSet
<1>10. ASSUME NEW k \in 1 .. Len(u) + 1
       PROVE  Before(K, b, t, k + 1) \subseteq Before(M, c, u, k)
  <2>1. Split(t, h, u)  BY <1>1, <1>2 DEF Split, Ahead
  <2>2. k \in 1 .. Len(u) + 1  OBVIOUS
  <2> QED BY ONLY <2>1, <2>2, <1>2, <1>8, BeforeTail
<1>11. ASSUME NEW k \in DOMAIN u
       PROVE  u[k] \in Nodes(d) \cup M /\ References(u[k]) \subseteq Before(M, c, u, k)
  <2>1. k \in 1 .. Len(u) + 1 /\ k \in 1 .. Len(u)
    BY <1>4
  <2>2. u[k] = t[k + 1] /\ k + 1 \in DOMAIN t
    BY <2>1, <1>4
  <2>3. t[k + 1] \in Nodes(d) \cup K /\ References(t[k + 1]) \subseteq Before(K, b, t, k + 1)
    BY <2>2, <1>3
  <2>4. Before(K, b, t, k + 1) \subseteq Before(M, c, u, k)
    BY <2>1, <1>10
  <2> QED BY <2>2, <2>3, <2>4, <1>7
<1>12. j.root \in Before(M, c, u, Len(u) + 1)
  <2>1. Len(u) + 1 \in 1 .. Len(u) + 1  BY <1>4
  <2>2. Before(K, b, t, Len(t) + 1) \subseteq Before(M, c, u, Len(u) + 1)
    BY <2>1, <1>4, <1>10
  <2> QED BY <2>2, <1>3
<1>13. Whole(c, M)
  BY <1>6, <1>7 DEF Whole
<1>14. /\ i.op # "commitEnd"
       /\ i.written => Range(i.batch) \subseteq M
  BY <1>7, <1>9
<1>15. CommitAt(d, M, i)
  <2>1. i.batch = c /\ i.todo = u /\ i.root = j.root  BY <1>9
  <2>2. /\ Whole(i.batch, M)
        /\ i.root \in Before(M, i.batch, i.todo, Len(i.todo) + 1)
    BY <2>1, <1>12, <1>13
  <2>3. \A k \in DOMAIN i.todo : /\ i.todo[k] \in Nodes(d) \cup M
                                 /\ References(i.todo[k]) \subseteq Before(M, i.batch, i.todo, k)
    <3>1. TAKE k \in DOMAIN i.todo
    <3>2. k \in DOMAIN u  BY <2>1
    <3>3. u[k] \in Nodes(d) \cup M /\ References(u[k]) \subseteq Before(M, c, u, k)
      BY <3>2, <1>11
    <3> QED BY ONLY <2>1, <3>3
  <2> QED BY ONLY <2>2, <2>3, <1>14 DEF CommitAt
<1> QED BY <1>6, <1>9, <1>15

LEMMA CommitPushInv ==
  ASSUME DatabaseInv, CommitPush
  PROVE  DatabaseInv'
<1>1. PICK j, i : j = job /\ i = job'  OBVIOUS
<1>2. PICK h, c : h = Head(j.todo) /\ c = BatchWith(db, j, h)  OBVIOUS
<1>3. PICK w, W :
        w \in BOOLEAN /\ i = CommitPushed(j, c, w) /\ disk' = disk \cup W /\ Due(c, w, W)
  <2>1. CASE h \in Nodes(db) /\ ValueSize(c) >= IdealBatchSize
    <3>1. i = CommitPushed(j, c, TRUE)
      BY <2>1, <1>1, <1>2 DEF CommitPush, CommitPushed, CommitGoes, BatchWith
    <3>2. disk' = disk \cup Range(c)
      BY <2>1, <1>1, <1>2 DEF CommitPush, BatchWith, Written
    <3> QED BY <3>1, <3>2 DEF Due
  <2>2. CASE ~ (h \in Nodes(db) /\ ValueSize(c) >= IdealBatchSize)
    <3>1. (h \in Nodes(db) /\ ValueSize(c) >= IdealBatchSize) = FALSE
      BY <2>2
    <3>2. i = CommitPushed(j, c, FALSE)
      BY <3>1, <1>1, <1>2 DEF CommitPush, CommitPushed, CommitGoes, BatchWith
    <3>3. disk' = disk \cup {}
      BY <2>2, <1>1, <1>2 DEF CommitPush, BatchWith
    <3> QED BY <3>2, <3>3 DEF Due
  <2> QED BY <2>1, <2>2
<1>4. /\ j.op = "commit" /\ j.todo # << >>
      /\ db' = db /\ held' = held /\ recorded' = recorded /\ faults' = faults
  BY <1>1 DEF CommitPush
<1>5. /\ IsDatabase(db) /\ Complete(disk) /\ disk \subseteq Hashes \cup Keys
      /\ PreimageAt(db, disk, j, recorded) /\ j \in Jobs
  BY <1>1, InvFacts
<1>6. j \in CommitJob
  BY <1>4, <1>5, JobFacts
<1>7. CommitAt(db, disk, j)
  BY <1>1, <1>6, InvFacts
<1>8. PICK M : M = disk \cup W  OBVIOUS
<1>9. i \in CommitJob /\ CommitAt(db, M, i) /\ Whole(c, disk) /\ c \in Seq(Hashes)
  <2>1. w \in BOOLEAN  BY <1>3
  <2>2. IsDatabase(db) /\ j.op = "commit" /\ Ahead(j, h) /\ c = BatchWith(db, j, h)
    BY <1>2, <1>4, <1>5 DEF Ahead
  <2> QED BY ONLY <2>1, <2>2, <1>3, <1>6, <1>7, <1>8, CommitPushes
<1>10. W \subseteq Hashes /\ Complete(M) /\ disk \subseteq M
  <2>1. CASE W = Range(c)
    <3>1. Range(c) \subseteq Hashes  BY <1>9, RangeIn
    <3>2. Complete(disk \cup Range(c))
      BY <1>5, <1>9, WriteComplete
    <3> QED BY <3>1, <3>2, <2>1, <1>8
  <2>2. CASE W = {}
    <3>1. M = disk  BY <2>2, <1>8
    <3> QED BY <3>1, <2>2, <1>5
  <2> QED BY <2>1, <2>2, <1>3 DEF Due
<1>11. i \in Jobs /\ i \notin CapJob
  <2>1. i \in Jobs  BY <1>9 DEF Jobs
  <2> QED BY <2>1, <1>9, JobFacts
<1>12. PICK pos \in [Hashes -> Nat] : /\ Ordered(db, Nodes(db), pos) /\ Children1st(Nodes(db), disk, pos)
  BY InvFacts DEF ListAt
<1>13. ListAt(db, M, i, pos)
  <2>1. Children1st(Nodes(db), M, pos)
    BY <1>10, <1>12, DiskGrows
  <2> QED BY <2>1, <1>11, <1>12 DEF ListAt
<1>14. PreimageAt(db, M, i, recorded)
  <2>1. recorded \subseteq disk \cup db.preimages /\ db.preimages \subseteq disk
    BY <1>5, <1>6, CommitPreimages
  <2>2. recorded \subseteq M \cup db.preimages /\ db.preimages \subseteq M
    BY <2>1, <1>10
  <2> QED BY <2>2, <1>9, CommitPreimages
<1>15. /\ Complete(disk \cup W) /\ PreimageAt(db, disk \cup W, job', recorded)
       /\ ListAt(db, disk \cup W, job', pos) /\ job' \in Jobs
       /\ job' \in CommitJob => CommitAt(db, disk \cup W, job')
       /\ disk' = disk \cup W /\ W \subseteq Hashes \cup Keys
  BY <1>1, <1>3, <1>8, <1>9, <1>10, <1>11, <1>13, <1>14
<1> QED BY <1>4, <1>15, InvDisk

CommitLast(j) == [j EXCEPT !.op = "commitEnd"]

\* The last batch goes to the disk.
LEMMA CommitWrites ==
  ASSUME NEW d, NEW K, NEW j \in CommitJob, CommitAt(d, K, j), j.todo = << >>,
         NEW i, i = CommitLast(j), NEW M, M = K \cup Range(j.batch)
  PROVE  i \in CommitJob /\ CommitAt(d, M, i) /\ Whole(j.batch, K)
<1>1. /\ i \in CommitJob /\ i.batch = j.batch /\ i.todo = j.todo /\ i.root = j.root
  BY DEF CommitJob, CommitLast
<1>2. PICK b, t : b = j.batch /\ t = j.todo  OBVIOUS
<1>3. DOMAIN t = {}  BY <1>2
<1>4. Whole(b, K) /\ j.root \in Before(K, b, t, Len(t) + 1)
  BY <1>2 DEF CommitAt
<1>5. Whole(b, M) /\ Range(b) \subseteq M
  BY <1>2, <1>4 DEF Whole
<1>6. j.root \in Before(M, b, t, Len(t) + 1)
  BY <1>2, <1>4 DEF Before
<1>7. i.batch = b /\ i.todo = t /\ i.root = j.root  BY <1>1, <1>2
<1>8. /\ Whole(i.batch, M) /\ Range(i.batch) \subseteq M /\ i.todo = << >>
      /\ i.root \in Before(M, i.batch, i.todo, Len(i.todo) + 1)
  BY <1>2, <1>5, <1>6, <1>7
<1>9. DOMAIN i.todo = {}  BY <1>3, <1>7
<1>10. CommitAt(d, M, i)
  BY ONLY <1>8, <1>9 DEF CommitAt
<1> QED BY <1>1, <1>2, <1>4, <1>10

LEMMA CommitWriteInv ==
  ASSUME DatabaseInv, CommitWrite
  PROVE  DatabaseInv'
<1>1. PICK j, i, W, M : j = job /\ i = job' /\ W = Range(j.batch) /\ M = disk \cup W  OBVIOUS
<1>2. /\ j.op = "commit" /\ j.todo = << >> /\ i = CommitLast(j) /\ disk' = disk \cup W
      /\ db' = db /\ held' = held /\ recorded' = recorded /\ faults' = faults
  BY <1>1 DEF CommitWrite, CommitLast, Written
<1>3. /\ IsDatabase(db) /\ Complete(disk) /\ disk \subseteq Hashes \cup Keys
      /\ PreimageAt(db, disk, j, recorded) /\ j \in Jobs
  BY <1>1, InvFacts
<1>4. j \in CommitJob
  BY <1>2, <1>3, JobFacts
<1>5. CommitAt(db, disk, j)
  BY <1>1, <1>4, InvFacts
<1>6. i \in CommitJob /\ CommitAt(db, M, i) /\ Whole(j.batch, disk)
  <2>1. j.todo = << >> /\ i = CommitLast(j) /\ M = disk \cup Range(j.batch)
    BY <1>1, <1>2
  <2> QED BY ONLY <2>1, <1>4, <1>5, CommitWrites
<1>7. W \subseteq Hashes /\ Complete(M) /\ disk \subseteq M
  <2>1. Range(j.batch) \subseteq Hashes  BY <1>4, CommitFields, RangeIn
  <2>2. Complete(disk \cup Range(j.batch))
    BY <1>3, <1>6, WriteComplete
  <2> QED BY <2>1, <2>2, <1>1
<1>8. i \in Jobs /\ i \notin CapJob
  <2>1. i \in Jobs  BY <1>6 DEF Jobs
  <2> QED BY <2>1, <1>6, JobFacts
<1>9. PICK pos \in [Hashes -> Nat] : /\ Ordered(db, Nodes(db), pos) /\ Children1st(Nodes(db), disk, pos)
  BY InvFacts DEF ListAt
<1>10. ListAt(db, M, i, pos)
  <2>1. Children1st(Nodes(db), M, pos)
    BY <1>7, <1>9, DiskGrows
  <2> QED BY <2>1, <1>8, <1>9 DEF ListAt
<1>11. PreimageAt(db, M, i, recorded)
  <2>1. recorded \subseteq disk \cup db.preimages /\ db.preimages \subseteq disk
    BY <1>3, <1>4, CommitPreimages
  <2>2. recorded \subseteq M \cup db.preimages /\ db.preimages \subseteq M
    BY <2>1, <1>7
  <2> QED BY <2>2, <1>6, CommitPreimages
<1>12. /\ Complete(disk \cup W) /\ PreimageAt(db, disk \cup W, job', recorded)
       /\ ListAt(db, disk \cup W, job', pos) /\ job' \in Jobs
       /\ job' \in CommitJob => CommitAt(db, disk \cup W, job')
       /\ disk' = disk \cup W /\ W \subseteq Hashes \cup Keys
  BY <1>1, <1>2, <1>6, <1>7, <1>8, <1>10, <1>11
<1> QED BY <1>2, <1>12, InvDisk

\* The nodes Commit visits.
ChildrenOf(d) == [h \in Nodes(d) |-> forChilds(d, h)]
Todo(d, r) == postorder(Nodes(d), ChildrenOf(d), r)

LEMMA TodoFacts ==
  ASSUME NEW d, IsDatabase(d), NEW K, Sound(d, K), NEW r \in Hashes, NEW t, t = Todo(d, r)
  PROVE  /\ t \in Seq(Hashes)
         /\ \A i \in DOMAIN t : t[i] \in Nodes(d) /\ References(t[i]) \subseteq Before(K, << >>, t, i)
         /\ r \in Nodes(d) => r \in Range(t)
<1>1. PICK S, kids : S = Nodes(d) /\ kids = ChildrenOf(d)  OBVIOUS
<1>2. S \subseteq Hashes /\ t = postorder(S, kids, r)
  BY <1>1, DatabaseFacts DEF Todo
<1>3. \A h \in S : kids[h] = forChilds(d, h)
  BY <1>1 DEF ChildrenOf
<1>4. Maps(d)  BY DEF Sound
<1>5. ASSUME NEW h \in S
      PROVE  /\ kids[h] \in Seq(Hashes) /\ Range(kids[h]) \subseteq References(h)
             /\ Range(kids[h]) = DOMAIN d.dirties[h].children \cup Range(Kids[h])
  <2>1. PICK q : q = kids[h]  OBVIOUS
  <2>2. h \in Nodes(d) /\ q = forChilds(d, h)
    BY <1>1, <1>3, <2>1
  <2>3. IsDatabase(d)  OBVIOUS
  <2>4. /\ q \in Seq(Hashes) /\ Range(q) \subseteq References(h)
        /\ Range(q) = DOMAIN d.dirties[h].children \cup Range(Kids[h])
    BY ONLY <2>2, <2>3, <1>4, ForChildsFacts
  <2> QED BY <2>1, <2>4
<1>6. Inside(S, kids)
  BY <1>5 DEF Inside
<1>7. PICK f : Postordered(S, kids, f) /\ \A h : postorder(S, kids, h) = f[h]
  BY <1>2, <1>6, PostorderIs
<1>8. PostFacts(S, kids, f[r], r)
  BY <1>2, <1>6, <1>7, PostorderFacts
<1>9. f[r] = t  BY <1>2, <1>7
<1>10. PICK C : C = [y \in S |-> Range(kids[y])]  OBVIOUS
<1>11. t \in Seq(Hashes) /\ InOrder(t, S, C) /\ (r \in S => r \in Range(t))
  BY <1>8, <1>9, <1>10 DEF PostFacts
<1>12. ASSUME NEW i \in DOMAIN t
       PROVE  t[i] \in Nodes(d) /\ References(t[i]) \subseteq Before(K, << >>, t, i)
  <2>1. t[i] \in S /\ \A y \in C[t[i]] \cap S : \E k \in 1 .. i - 1 : t[k] = y
    BY <1>11 DEF InOrder
  <2>2. PICK h : h = t[i]  OBVIOUS
  <2>3. h \in Nodes(d) /\ h \in S /\ C[h] = DOMAIN d.dirties[h].children \cup Range(Kids[h])
    BY <1>1, <1>5, <1>10, <2>1, <2>2
  <2>4. Ext[h] \subseteq K \cup DOMAIN d.dirties[h].children /\ References(h) \subseteq Nodes(d) \cup K
    BY <2>3 DEF Sound, Tied, Closed
  <2>5. ASSUME NEW x \in References(h)  PROVE x \in Before(K, << >>, t, i)
    <3>1. x \in K \/ (x \in C[h] /\ x \in S)
      BY <1>1, <2>3, <2>4 DEF References
    <3>2. CASE x \in C[h] /\ x \in S
      <4>1. \E k \in 1 .. i - 1 : t[k] = x  BY <2>1, <2>2, <3>2
      <4> QED BY <4>1 DEF Before
    <3>3. CASE x \in K
      BY <3>3 DEF Before
    <3> QED BY <3>1, <3>2, <3>3
  <2> QED BY <2>2, <2>3, <2>5
<1> QED BY <1>1, <1>11, <1>12

CommitBegun(r, t) == [op |-> "commit", root |-> r, batch |-> << >>, written |-> FALSE, todo |-> t]

LEMMA CommitBegins ==
  ASSUME NEW d, IsDatabase(d), NEW K, Sound(d, K), NEW r \in Roots, r \in Nodes(d) \cup K,
         NEW j, j = CommitBegun(r, Todo(d, r))
  PROVE  j \in CommitJob /\ CommitAt(d, K, j)
<1>1. PICK t, b : t = Todo(d, r) /\ b = << >>  OBVIOUS
<1>2. r \in Hashes  BY HashAssumption
<1>3. /\ t \in Seq(Hashes)
      /\ \A i \in DOMAIN t : t[i] \in Nodes(d) /\ References(t[i]) \subseteq Before(K, b, t, i)
      /\ r \in Nodes(d) => r \in Range(t)
  BY <1>1, <1>2, TodoFacts
<1>4. b \in Seq(Hashes) /\ Range(b) = {}
  BY <1>1, RangeEmpty
<1>5. j = [op |-> "commit", root |-> r, batch |-> b, written |-> FALSE, todo |-> t]
  BY <1>1 DEF CommitBegun
<1>6. /\ j \in CommitJob /\ j.op = "commit" /\ j.root = r /\ j.batch = b /\ ~ j.written /\ j.todo = t
  BY <1>3, <1>4, <1>5 DEF CommitJob
<1>7. Whole(j.batch, K)
  BY <1>4, <1>6 DEF Whole
<1>8. r \in Before(K, b, t, Len(t) + 1)
  <2>1. CASE r \in Nodes(d)
    <3>1. PICK n : n = Len(t)  OBVIOUS
    <3>2. n \in Nat /\ DOMAIN t = 1 .. n  BY <1>3, <3>1
    <3>3. PICK k \in 1 .. n : t[k] = r
      BY <1>3, <2>1, <3>2 DEF Range
    <3>4. k \in 1 .. n + 1 - 1  BY <3>2
    <3>5. r \in {t[q] : q \in 1 .. Len(t) + 1 - 1}
      BY <3>1, <3>3, <3>4
    <3> QED BY <3>5 DEF Before
  <2>2. CASE r \in K
    BY <2>2 DEF Before
  <2> QED BY <2>1, <2>2
<1>9. \A i \in DOMAIN j.todo : /\ j.todo[i] \in Nodes(d) \cup K
                               /\ References(j.todo[i]) \subseteq Before(K, j.batch, j.todo, i)
  BY <1>3, <1>6
<1>10. j.root \in Before(K, j.batch, j.todo, Len(j.todo) + 1)
  BY <1>6, <1>8
<1>11. ~ j.written /\ j.op # "commitEnd"  BY <1>6
<1>12. CommitAt(d, K, j)
  BY ONLY <1>7, <1>9, <1>10, <1>11 DEF CommitAt
<1> QED BY <1>6, <1>12

LEMMA CommitStartInv ==
  ASSUME DatabaseInv, NEW r \in Roots, CommitStart(r)
  PROVE  DatabaseInv'
<1>1. PICK i, W, M : i = job' /\ W = db.preimages /\ M = disk \cup W  OBVIOUS
<1>2. /\ held[r] > 0 /\ i = CommitBegun(r, Todo(db, r)) /\ disk' = disk \cup W
      /\ db' = db /\ held' = held /\ recorded' = recorded /\ faults' = faults
  BY <1>1 DEF CommitStart, CommitBegun, Todo, ChildrenOf
<1>3. /\ IsDatabase(db) /\ Sound(db, disk) /\ Complete(disk) /\ disk \subseteq Hashes \cup Keys
      /\ held \in [Roots -> Nat] /\ HeldAt(db, disk, held)
      /\ recorded \subseteq disk \cup db.preimages /\ db.preimages \subseteq Keys
  BY InvFacts
<1>4. disk \subseteq M /\ Sound(db, M)
  BY <1>1, <1>3, DiskGrows
<1>5. r \in Nodes(db) \cup M
  <2>1. SUFFICES ASSUME r \notin disk  PROVE r \in Nodes(db)
    BY <1>4
  <2>2. PICK meta : meta = db.dirties[NoHash].children  OBVIOUS
  <2>3. held[r] = IF r \in DOMAIN meta THEN meta[r] ELSE 0
    BY <1>3, <2>1, <2>2 DEF HeldAt
  <2>4. r \in DOMAIN meta
    BY <1>2, <2>3
  <2>5. DOMAIN meta \subseteq Nodes(db) \cup disk
    BY <1>3, <2>2 DEF Sound
  <2> QED BY <2>1, <2>4, <2>5
<1>6. i \in CommitJob /\ CommitAt(db, M, i)
  <2>1. r \in Roots  OBVIOUS
  <2>2. IsDatabase(db) /\ i = CommitBegun(r, Todo(db, r))  BY <1>2, <1>3
  <2> QED BY ONLY <2>1, <2>2, <1>4, <1>5, CommitBegins
<1>7. Complete(M)
  BY <1>1, <1>3, KeysComplete
<1>8. i \in Jobs /\ i \notin CapJob
  <2>1. i \in Jobs  BY <1>6 DEF Jobs
  <2> QED BY <2>1, <1>6, JobFacts
<1>9. PICK pos \in [Hashes -> Nat] : /\ Ordered(db, Nodes(db), pos) /\ Children1st(Nodes(db), disk, pos)
  BY InvFacts DEF ListAt
<1>10. ListAt(db, M, i, pos)
  <2>1. Children1st(Nodes(db), M, pos)
    BY <1>4, <1>9, DiskGrows
  <2> QED BY <2>1, <1>8, <1>9 DEF ListAt
<1>11. PreimageAt(db, M, i, recorded)
  <2>1. recorded \subseteq M \cup db.preimages /\ db.preimages \subseteq M
    BY <1>1, <1>3
  <2> QED BY <2>1, <1>6, CommitPreimages
<1>12. /\ Complete(disk \cup W) /\ PreimageAt(db, disk \cup W, job', recorded)
       /\ ListAt(db, disk \cup W, job', pos) /\ job' \in Jobs
       /\ job' \in CommitJob => CommitAt(db, disk \cup W, job')
       /\ disk' = disk \cup W /\ W \subseteq Hashes \cup Keys
  BY <1>1, <1>2, <1>3, <1>6, <1>7, <1>8, <1>10, <1>11
<1> QED BY <1>2, <1>12, InvDisk

LEMMA NextInv ==
  ASSUME DatabaseInv, [Next]_vars
  PROVE  DatabaseInv'
<1>1. CASE vars' = vars
  <2>1. /\ db' = db /\ disk' = disk /\ job' = job /\ held' = held /\ recorded' = recorded
        /\ faults' = faults
    BY <1>1 DEF vars
  <2>2. /\ IsDatabase(db) /\ Sound(db, disk) /\ Needed(db, disk) /\ Complete(disk)
        /\ disk \subseteq Hashes \cup Keys /\ job \in Jobs /\ held \in [Roots -> Nat]
        /\ recorded \subseteq Keys /\ faults \in 0 .. MaxFaults
        /\ HeldAt(db, disk, held) /\ PreimageAt(db, disk, job, recorded)
        /\ job \in CommitJob => CommitAt(db, disk, job)
    BY InvFacts
  <2>3. PICK pos \in [Hashes -> Nat] : ListAt(db, disk, job, pos)
    BY InvFacts
  <2> QED BY <2>1, <2>2, <2>3, InvAny
<1>2. CASE \E r \in Roots : \E U \in SUBSET Below(r) : CommitTrie(r, U)
  BY <1>2, CommitTrieInv
<1>3. CASE \E r \in Roots : Dereference(r)
  BY <1>3, DereferenceInv
<1>4. CASE \E r \in Roots : CommitStart(r)
  BY <1>4, CommitStartInv
<1>5. CASE \E l \in Limits : CapStart(l)
  BY <1>5, CapStartInv
<1>6. CASE CapPush  BY <1>6, CapPushInv
<1>7. CASE CapWrite  BY <1>7, CapWriteInv
<1>8. CASE CapClear  BY <1>8, CapClearDone
<1>9. CASE CommitPush  BY <1>9, CommitPushInv
<1>10. CASE CommitReplay  BY <1>10, CommitReplayInv
<1>11. CASE CommitWrite  BY <1>11, CommitWriteInv
<1>12. CASE CommitEnd  BY <1>12, CommitEndInv
<1>13. CASE WriteFails  BY <1>13, WriteFailsInv
<1>14. CASE Crash  BY <1>14, CrashInv
<1>15. Next \/ vars' = vars
  OBVIOUS
<1> QED BY <1>1, <1>2, <1>3, <1>4, <1>5, <1>6, <1>7, <1>8, <1>9, <1>10, <1>11, <1>12, <1>13, <1>14,
           <1>15 DEF Next

-----------------------------------------------------------------------------
(* What the invariant says.                                                *)


LEMMA InvTypeOK ==
  ASSUME DatabaseInv
  PROVE  TypeOK
<1>1. /\ IsDatabase(db) /\ Sound(db, disk) /\ disk \subseteq Hashes \cup Keys /\ job \in Jobs
      /\ held \in [Roots -> Nat] /\ faults \in 0 .. MaxFaults
  BY InvFacts
<1>2. NoHash \in DOMAIN db.dirties /\ DOMAIN db.dirties \subseteq Hashes \cup {NoHash}
      /\ {db.oldest, db.newest} \subseteq Hashes \cup {NoHash}
  BY <1>1, DatabaseFacts DEF OrNone
<1>3. ASSUME NEW h \in DOMAIN db.dirties
      PROVE  /\ db.dirties[h].parents \in Nat
             /\ db.dirties[h].tracked \/ db.dirties[h].children = << >>
             /\ Range(db.dirties[h].children) \subseteq Nat \ {0}
  <2>1. PICK n, c : n = db.dirties[h] /\ c = n.children  OBVIOUS
  <2>2. IsNode(n) /\ (n.tracked \/ DOMAIN c = {})
    BY <1>1, <2>1 DEF IsDatabase, Sound, Maps
  <2>3. c \in [DOMAIN c -> Nat \ {0}]
    BY <2>1, <2>2 DEF IsNode
  <2>4. Range(c) \subseteq Nat \ {0}
    BY <2>3 DEF Range
  <2>5. DOMAIN c = {} => c = << >>
    <3>1. ASSUME DOMAIN c = {}  PROVE c = << >>
      <4>1. c \in [{} -> Nat \ {0}]  BY <3>1, <2>3
      <4>2. << >> \in [{} -> Nat \ {0}]  OBVIOUS
      <4> QED BY <4>1, <4>2
    <3> QED BY <3>1
  <2>6. n.parents \in Nat  BY <1>1, <2>1, NodeFacts
  <2> QED BY <2>1, <2>2, <2>4, <2>5, <2>6
<1>4. job.op \in {"idle", "cap", "capClear", "commit", "commitEnd"}
  BY <1>1, JobFacts
<1> QED BY <1>1, <1>2, <1>3, <1>4 DEF TypeOK

LEMMA InvCountsExact ==
  ASSUME DatabaseInv
  PROVE  CountsExact
<1>1. IsDatabase(db) /\ Sound(db, disk)
  BY InvFacts
<1>2. DOMAIN db.dirties = Nodes(db) \cup {NoHash}
  BY <1>1, DatabaseFacts
<1>3. \A h \in Nodes(db) \ disk : db.dirties[h].parents = Referrers(db, Nodes(db) \cup {NoHash}, h)
  BY <1>1 DEF Sound, Counted, Counts
<1> QED BY <1>2, <1>3 DEF CountsExact

LEMMA InvSizesExact ==
  ASSUME DatabaseInv
  PROVE  SizesExact
<1>1. Weighed(db)
  BY InvFacts DEF Sound
<1>2. [h \in Nodes(db) |-> Weight(db, h)] = [h \in Nodes(db) |-> HashLength + Size[h] + childrenOf(db, h)]
  BY DEF Weight
<1> QED BY <1>1, <1>2 DEF SizesExact, Weighed

LEMMA InvDiskComplete ==
  ASSUME DatabaseInv
  PROVE  DiskComplete
BY InvFacts DEF Complete, DiskComplete

\* A root that the caller holds is cached or on disk.
LEMMA HeldFound ==
  ASSUME DatabaseInv, NEW r \in Roots, held[r] > 0
  PROVE  r \in Nodes(db) \cup disk
<1>1. Sound(db, disk) /\ HeldAt(db, disk, held) /\ held \in [Roots -> Nat]
  BY InvFacts
<1>2. SUFFICES ASSUME r \notin disk  PROVE r \in Nodes(db)
  OBVIOUS
<1>3. PICK meta : meta = db.dirties[NoHash].children  OBVIOUS
<1>4. held[r] = IF r \in DOMAIN meta THEN meta[r] ELSE 0
  BY <1>1, <1>2, <1>3 DEF HeldAt
<1>5. r \in DOMAIN meta
  <2>1. SUFFICES ASSUME r \notin DOMAIN meta  PROVE FALSE  OBVIOUS
  <2>2. held[r] = 0  BY <2>1, <1>4
  <2> QED BY <2>2
<1>6. DOMAIN meta \subseteq Nodes(db) \cup disk
  BY <1>1, <1>3 DEF Sound
<1> QED BY <1>2, <1>5, <1>6

LEMMA InvHeldReadable ==
  ASSUME DatabaseInv
  PROVE  HeldReadable
<1>1. IsDatabase(db) /\ Sound(db, disk) /\ Complete(disk)
  BY InvFacts
<1>2. PICK S : S = Available \cap Hashes  OBVIOUS
<1>3. Nodes(db) \subseteq Hashes  BY <1>1, DatabaseFacts
<1>4. ASSUME NEW p \in S  PROVE References(p) \subseteq S
  <2>1. p \in Hashes /\ (p \in Nodes(db) \/ p \in disk)
    BY <1>2 DEF Available
  <2>2. References(p) \subseteq Hashes
    BY <2>1, RefFacts
  <2>3. References(p) \subseteq Nodes(db) \cup disk
    BY <1>1, <2>1 DEF Sound, Closed, Complete
  <2> QED BY <2>2, <2>3, <1>2 DEF Available
<1>5. ASSUME NEW r \in Roots, held[r] > 0  PROVE Below(r) \subseteq Available
  <2>1. r \in Hashes  BY HashAssumption
  <2>2. r \in S
    BY <1>2, <1>5, <2>1, HeldFound DEF Available
  <2>3. S \in SUBSET Hashes /\ \A p \in S : References(p) \subseteq S
    BY <1>2, <1>4
  <2>4. Below(r) \subseteq S
    BY <2>1, <2>2, <2>3, BelowFacts
  <2> QED BY <2>4, <1>2
<1> QED BY <1>5 DEF HeldReadable, Live

LEMMA InvNoGarbage ==
  ASSUME DatabaseInv
  PROVE  NoGarbage
<1>1. /\ IsDatabase(db) /\ Sound(db, disk) /\ Complete(disk) /\ Needed(db, disk)
      /\ HeldAt(db, disk, held) /\ held \in [Roots -> Nat]
  BY InvFacts
<1>2. PICK rank : Ranked(rank)
  BY RankExists
<1>3. Nodes(db) \subseteq Hashes  BY <1>1, DatabaseFacts
<1>4. PICK B : B = {h \in Nodes(db) : h \notin Live \cup disk}  OBVIOUS
<1>5. ASSUME B # {}  PROVE FALSE
  <2>1. PICK N : N = Cardinality(Hashes)  OBVIOUS
  <2>2. N \in Nat  BY <2>1, HashAssumption, FS_CardinalityType
  <2>3. \A x \in B : rank[x] \in 0 .. N
    BY <1>2, <1>3, <1>4, <2>1 DEF Ranked
  <2>4. PICK f : f = [x \in B |-> N - rank[x]]  OBVIOUS
  <2>5. \A x \in B : f[x] \in Nat
    BY <2>2, <2>3, <2>4
  <2>6. PICK h \in B : \A y \in B : f[h] <= f[y]
    BY <1>5, <2>5, FirstBy
  <2>7. h \in Nodes(db) /\ h \notin Live /\ h \notin disk /\ h \in Hashes
    BY <1>3, <1>4, <2>6
  <2>8. db.dirties[h].parents > 0
    BY <1>1, <2>7 DEF Needed
  <2>9. Wanted(db, h)
    BY <1>1, <2>7, <2>8, NeededIf
  <2>10. CASE \E p \in Nodes(db) : h \in References(p)
    <3>1. PICK p \in Nodes(db) : h \in References(p)  BY <2>10
    <3>2. p \notin disk
      BY <1>1, <1>3, <2>7, <3>1 DEF Complete
    <3>3. p \in Hashes  BY <1>3
    <3>4. rank[h] < rank[p]
      BY <1>2, <3>1, <3>3 DEF Ranked
    <3>5. p \notin B
      <4>1. SUFFICES ASSUME p \in B  PROVE FALSE  OBVIOUS
      <4>2. N - rank[h] <= N - rank[p]
        BY <2>4, <2>6, <4>1
      <4>3. rank[h] \in 0 .. N /\ rank[p] \in 0 .. N
        BY <2>3, <2>6, <4>1
      <4> QED BY <2>2, <3>4, <4>2, <4>3
    <3>6. p \in Live  BY <1>4, <3>2, <3>5
    <3>7. PICK r \in Roots : held[r] > 0 /\ p \in Below(r)
      BY <3>6 DEF Live
    <3>8. h \in Below(r)
      <4>1. r \in Hashes  BY HashAssumption
      <4> QED BY <4>1, <3>1, <3>7, BelowFacts
    <3>9. h \in Live  BY <3>7, <3>8 DEF Live
    <3> QED BY <3>9, <2>7
  <2>11. CASE h \in DOMAIN db.dirties[NoHash].children
    <3>1. PICK meta : meta = db.dirties[NoHash].children  OBVIOUS
    <3>2. NoHash \in DOMAIN db.dirties  BY <1>1, DatabaseFacts
    <3>3. h \in Roots /\ meta[h] \in Nat \ {0}
      BY <1>1, <2>11, <3>1, <3>2, NodeFacts
    <3>4. held[h] = meta[h]
      BY <1>1, <2>7, <2>11, <3>1, <3>3 DEF HeldAt
    <3>5. held[h] > 0  BY <3>3, <3>4
    <3>6. h \in Below(h)  BY <2>7, BelowFacts
    <3>7. h \in Live  BY <3>3, <3>5, <3>6 DEF Live
    <3> QED BY <3>7, <2>7
  <2> QED BY <2>9, <2>10, <2>11 DEF Wanted
<1> QED BY <1>4, <1>5 DEF NoGarbage

\* No step takes anything from the disk.
LEMMA DiskKept ==
  ASSUME [Next]_vars
  PROVE  disk \subseteq disk'
<1>1. CASE vars' = vars
  BY <1>1 DEF vars
<1>2. CASE Next
  <2>1. CASE \E r \in Roots : \E U \in SUBSET Below(r) : CommitTrie(r, U)
    BY <2>1 DEF CommitTrie
  <2>2. CASE \E r \in Roots : Dereference(r)
    BY <2>2 DEF Dereference
  <2>3. CASE \E r \in Roots : CommitStart(r)
    BY <2>3 DEF CommitStart
  <2>4. CASE \E l \in Limits : CapStart(l)
    BY <2>4 DEF CapStart
  <2>5. CASE CapPush  BY <2>5 DEF CapPush, Written
  <2>6. CASE CapWrite  BY <2>6 DEF CapWrite, Written
  <2>7. CASE CommitPush  BY <2>7 DEF CommitPush, Written
  <2>8. CASE CommitWrite  BY <2>8 DEF CommitWrite, Written
  <2>9. CASE CapClear \/ CommitReplay \/ CommitEnd \/ WriteFails \/ Crash
    BY <2>9 DEF CapClear, CommitReplay, CommitEnd, WriteFails, Crash
  <2> QED BY <1>2, <2>1, <2>2, <2>3, <2>4, <2>5, <2>6, <2>7, <2>8, <2>9 DEF Next
<1> QED BY <1>1, <1>2

LEMMA CommitEndDurable ==
  ASSUME DatabaseInv, CommitEnd
  PROVE  Below(job.root) \cup recorded \subseteq disk'
<1>1. PICK j, t : j = job /\ t = j.todo  OBVIOUS
<1>2. j.op = "commitEnd" /\ disk' = disk
  BY <1>1 DEF CommitEnd
<1>3. /\ Complete(disk) /\ j \in Jobs /\ PreimageAt(db, disk, j, recorded)
  BY <1>1, InvFacts
<1>4. j \in CommitJob  BY <1>2, <1>3, JobFacts
<1>5. CommitAt(db, disk, j)  BY <1>1, <1>4, InvFacts
<1>6. /\ Range(j.batch) \subseteq disk /\ t = << >>
      /\ j.root \in Before(disk, j.batch, t, Len(t) + 1)
  BY <1>1, <1>2, <1>5 DEF CommitAt
<1>7. j.root \in disk
  <2>1. Len(t) + 1 - 1 = 0  BY <1>6
  <2>2. 1 .. Len(t) + 1 - 1 = {}
    BY <2>1
  <2> QED BY <2>2, <1>6 DEF Before
<1>8. j.root \in Hashes
  <2>1. j.root \in Roots  BY <1>4, CommitFields
  <2> QED BY <2>1, HashAssumption
<1>9. Below(j.root) \subseteq disk
  BY <1>3, <1>7, <1>8, CompleteBelow
<1>10. recorded \subseteq disk
  BY <1>3, <1>4, CommitPreimages
<1> QED BY <1>1, <1>2, <1>9, <1>10

-----------------------------------------------------------------------------
(* The flush list, node by node.                                           *)


Earlier(S, pos, x) == {y \in S : pos[y] < pos[x]}

\* c counts, for every node of a list, the nodes before it.
Positions(S, pos, n, c) ==
  /\ \A x \in S : c[x] \in 0 .. n - 1
  /\ \A x, y \in S : pos[x] < pos[y] => c[x] < c[y]
  /\ \A x \in S : (\A y \in S : pos[x] <= pos[y]) => c[x] = 0
  /\ \A x \in S : (\A y \in S : pos[y] <= pos[x]) <=> c[x] = n - 1
  /\ \A x, y \in S :
       pos[x] < pos[y] /\ (\A z \in S : pos[z] <= pos[x] \/ pos[y] <= pos[z]) => c[y] = c[x] + 1

LEMMA PositionsExist ==
  ASSUME NEW S, IsFiniteSet(S), NEW n, n = Cardinality(S), NEW pos, \A x \in S : pos[x] \in Nat,
         \A x, y \in S : pos[x] = pos[y] => x = y
  PROVE  \E c : Positions(S, pos, n, c)
<1>1. PICK c : c = [x \in S |-> Cardinality(Earlier(S, pos, x))]  OBVIOUS
<1>2. n \in Nat  BY FS_CardinalityType
<1>3. ASSUME NEW x \in S
      PROVE  /\ IsFiniteSet(Earlier(S, pos, x)) /\ x \notin Earlier(S, pos, x)
             /\ IsFiniteSet(S \ {x}) /\ Cardinality(S \ {x}) = n - 1
             /\ c[x] = Cardinality(Earlier(S, pos, x)) /\ c[x] \in Nat
  <2>1. Earlier(S, pos, x) \subseteq S /\ x \notin Earlier(S, pos, x)
    BY DEF Earlier
  <2>2. IsFiniteSet(Earlier(S, pos, x))  BY <2>1, FS_Subset
  <2>3. Cardinality(Earlier(S, pos, x)) \in Nat  BY <2>2, FS_CardinalityType
  <2>4. IsFiniteSet(S \ {x}) /\ Cardinality(S \ {x}) = Cardinality(S) - 1
    BY FS_RemoveElement
  <2> QED BY <1>1, <2>1, <2>2, <2>3, <2>4
<1>4. ASSUME NEW x \in S  PROVE c[x] \in 0 .. n - 1
  <2>1. Earlier(S, pos, x) \subseteq S \ {x}
    BY <1>3 DEF Earlier
  <2>2. Cardinality(Earlier(S, pos, x)) <= Cardinality(S \ {x})
    BY <2>1, <1>3, FS_Subset
  <2>3. c[x] \in Nat /\ c[x] <= n - 1
    BY <2>2, <1>3
  <2> QED BY <2>3, <1>2
<1>5. ASSUME NEW x \in S, NEW y \in S, pos[x] < pos[y]  PROVE c[x] < c[y]
  <2>1. Earlier(S, pos, x) \cup {x} \subseteq Earlier(S, pos, y)
    <3>1. pos[x] \in Nat /\ pos[y] \in Nat /\ \A z \in S : pos[z] \in Nat
      OBVIOUS
    <3> QED BY <3>1, <1>5 DEF Earlier
  <2>2. PICK a, b : a = Earlier(S, pos, x) /\ b = Earlier(S, pos, y)  OBVIOUS
  <2>3. Cardinality(a \cup {x}) = Cardinality(a) + 1
    BY <1>3, <2>2, FS_AddElement
  <2>4. Cardinality(a \cup {x}) <= Cardinality(b)
    BY <1>3, <2>1, <2>2, FS_Subset
  <2>5. c[x] \in Nat /\ c[y] \in Nat /\ c[x] = Cardinality(a) /\ c[y] = Cardinality(b)
    BY <1>3, <2>2
  <2>6. c[x] + 1 <= c[y]  BY <2>3, <2>4, <2>5
  <2> QED BY <2>5, <2>6
<1>6. ASSUME NEW x \in S  PROVE (\A y \in S : pos[y] <= pos[x]) <=> c[x] = n - 1
  <2>1. ASSUME \A y \in S : pos[y] <= pos[x]  PROVE c[x] = n - 1
    <3>1. ASSUME NEW y \in S, y # x  PROVE y \in Earlier(S, pos, x)
      <4>1. pos[y] <= pos[x] /\ pos[y] # pos[x] /\ pos[x] \in Nat /\ pos[y] \in Nat
        BY <2>1, <3>1
      <4> QED BY <4>1 DEF Earlier
    <3>2. Earlier(S, pos, x) = S \ {x}
      BY <3>1, <1>3 DEF Earlier
    <3> QED BY <3>2, <1>3
  <2>2. ASSUME c[x] = n - 1, NEW y \in S, ~ (pos[y] <= pos[x])  PROVE FALSE
    <3>1. pos[x] < pos[y]
      BY <2>2
    <3>2. c[x] < c[y]  BY <3>1, <1>5
    <3>3. c[y] \in 0 .. n - 1  BY <1>4
    <3> QED BY <3>2, <3>3, <2>2, <1>2
  <2> QED BY <2>1, <2>2
<1>7. ASSUME NEW x \in S, NEW y \in S, pos[x] < pos[y],
             \A z \in S : pos[z] <= pos[x] \/ pos[y] <= pos[z]
      PROVE  c[y] = c[x] + 1
  <2>1. Earlier(S, pos, y) = Earlier(S, pos, x) \cup {x}
    <3>1. ASSUME NEW z \in S  PROVE pos[z] < pos[y] <=> (pos[z] < pos[x] \/ z = x)
      <4>1. pos[z] \in Nat /\ pos[x] \in Nat /\ pos[y] \in Nat /\ (pos[z] = pos[x] => z = x)
        OBVIOUS
      <4>2. pos[z] <= pos[x] \/ pos[y] <= pos[z]  BY <1>7
      <4> QED BY <4>1, <4>2, <1>7
    <3> QED BY <3>1 DEF Earlier
  <2>2. PICK a : a = Earlier(S, pos, x)  OBVIOUS
  <2>3. Cardinality(a \cup {x}) = Cardinality(a) + 1
    BY <1>3, <2>2, FS_AddElement
  <2> QED BY <2>1, <2>2, <2>3, <1>3
<1>8. \A x \in S : c[x] \in 0 .. n - 1  BY <1>4
<1>9. \A x, y \in S : pos[x] < pos[y] => c[x] < c[y]  BY <1>5
<1>10. \A x \in S : (\A y \in S : pos[y] <= pos[x]) <=> c[x] = n - 1
  BY <1>6
<1>11. \A x, y \in S :
         pos[x] < pos[y] /\ (\A z \in S : pos[z] <= pos[x] \/ pos[y] <= pos[z]) => c[y] = c[x] + 1
  BY <1>7
<1>12. ASSUME NEW x \in S, \A y \in S : pos[x] <= pos[y]  PROVE c[x] = 0
  <2>1. ASSUME NEW y \in S  PROVE ~ (pos[y] < pos[x])
    <3>1. pos[y] \in Nat /\ pos[x] \in Nat /\ pos[x] <= pos[y]  BY <1>12
    <3> QED BY <3>1
  <2>2. Earlier(S, pos, x) = {}  BY <2>1 DEF Earlier
  <2> QED BY <2>2, <1>3, FS_EmptySet
<1>13. \A x \in S : (\A y \in S : pos[x] <= pos[y]) => c[x] = 0
  BY <1>12
<1> QED BY <1>8, <1>9, <1>10, <1>11, <1>13 DEF Positions

\* The list as its pointers lead from the oldest node.
Listed(d, n, l) ==
  l = [i \in 1 .. n + 1 |-> IF i = 1 THEN d.oldest ELSE NextIn(d, l[i - 1])]

LEMMA ListedExists ==
  ASSUME NEW d, NEW n \in Nat
  PROVE  \E l : Listed(d, n, l)
<1>1. PICK t : t = <<"next", d>>  OBVIOUS
<1>2. \A s, x : Turn(t, s, x) = NextIn(d, s)
  BY <1>1 DEF Turn
<1>3. PICK o : o = d.oldest  OBVIOUS
<1>4. PICK f : Iteration(t, o, n, f)
  BY IterationExists
<1>5. f = [k \in 0 .. n |-> IF k = 0 THEN o ELSE NextIn(d, f[k - 1])]
  BY <1>2, <1>4 DEF Iteration
<1>6. PICK l : l = [i \in 1 .. n + 1 |-> f[i - 1]]  OBVIOUS
<1>7. ASSUME NEW i \in 1 .. n + 1
      PROVE  l[i] = IF i = 1 THEN o ELSE NextIn(d, l[i - 1])
  <2>1. i - 1 \in 0 .. n /\ l[i] = f[i - 1]
    BY <1>6
  <2>2. CASE i = 1
    <3>1. f[0] = o  BY <1>5
    <3>2. i - 1 = 0  BY <2>2
    <3> QED BY <3>1, <3>2, <2>1, <2>2
  <2>3. CASE i # 1
    <3>1. i - 1 # 0 /\ i - 1 \in 1 .. n + 1  BY <2>3
    <3>2. l[i - 1] = f[i - 1 - 1]  BY <3>1, <1>6
    <3>3. f[i - 1] = NextIn(d, f[i - 1 - 1])
      BY <2>1, <3>1, <1>5
    <3> QED BY <3>2, <3>3, <2>1, <2>3
  <2> QED BY <2>2, <2>3
<1>8. l = [i \in 1 .. n + 1 |-> IF i = 1 THEN o ELSE NextIn(d, l[i - 1])]
  <2>1. l = [i \in 1 .. n + 1 |-> l[i]]  BY <1>6
  <2> QED BY <2>1, <1>7
<1> QED BY <1>3, <1>8 DEF Listed

ListShape(d, K, n, l) ==
  /\ l[n + 1] = NoHash
  /\ {l[i] : i \in 1 .. n} = Nodes(d)
  /\ n > 0 => l[n] = d.newest
  /\ \A i \in 2 .. n : d.dirties[l[i]].flushPrev = l[i - 1]
  /\ \A i, j \in 1 .. n : i < j /\ l[j] \in References(l[i]) => l[j] \in K

\* The i-th node of the list has i - 1 nodes before it.
LEMMA ListedAt ==
  ASSUME NEW d, IsDatabase(d), NEW pos, Ordered(d, Nodes(d), pos), NEW n, n = Cardinality(Nodes(d)),
         NEW c, Positions(Nodes(d), pos, n, c), NEW l, Listed(d, n, l)
  PROVE  \A i \in 1 .. n : l[i] \in Nodes(d) /\ c[l[i]] = i - 1
<1>1. PICK S : S = Nodes(d)  OBVIOUS
<1>2. /\ IsFiniteSet(S) /\ S \subseteq DOMAIN d.dirties /\ \A x \in S : pos[x] \in Nat
  BY <1>1, DatabaseFacts DEF Ordered
<1>3. n \in Nat  BY <1>1, <1>2, FS_CardinalityType
<1>4. PICK B \in SUBSET (0 .. n) : B = {i \in 1 .. n : ~ (l[i] \in S /\ c[l[i]] = i - 1)}
  <2>1. \A i \in 1 .. n : i \in 0 .. n  BY <1>3
  <2> QED BY <2>1
<1>5. ASSUME B # {}  PROVE FALSE
  <2>1. PICK k \in B : \A i \in B : k <= i
    BY <1>3, <1>5, FirstOne
  <2>2. k \in 1 .. n /\ ~ (l[k] \in S /\ c[l[k]] = k - 1)
    BY <1>4
  <2>3. CASE k = 1
    <3>1. PICK o : o = d.oldest  OBVIOUS
    <3>2. l[1] = o
      <4>1. 1 \in 1 .. n + 1  BY <1>3
      <4> QED BY <3>1, <4>1 DEF Listed
    <3>3. S # {}
      <4>1. SUFFICES ASSUME S = {}  PROVE FALSE  OBVIOUS
      <4>2. n = 0  BY <4>1, <1>1, FS_EmptySet
      <4> QED BY <4>2, <2>2
    <3>4. o \in S /\ \A x \in S : pos[o] <= pos[x]
      BY <1>1, <3>1, <3>3 DEF Ordered
    <3>5. c[o] = 0
      BY <1>1, <3>4 DEF Positions
    <3> QED BY <2>2, <2>3, <3>2, <3>4, <3>5
  <2>4. CASE k # 1
    <3>1. k - 1 \in 1 .. n /\ k \in 1 .. n + 1 /\ k - 1 < k /\ k - 1 \notin B
      BY <1>3, <2>1, <2>2, <2>4
    <3>2. PICK x, y : x = l[k - 1] /\ y = d.dirties[x].flushNext  OBVIOUS
    <3>3. x \in S /\ c[x] = k - 1 - 1
      BY <1>4, <3>1, <3>2
    <3>4. l[k] = y
      <4>1. l[k] = NextIn(d, l[k - 1])
        BY <3>1, <2>4 DEF Listed
      <4>2. x \in DOMAIN d.dirties  BY <1>2, <3>3
      <4> QED BY <4>1, <4>2, <3>2 DEF NextIn
    <3>5. Follows(S, pos, x, y)
      BY <1>1, <3>2, <3>3 DEF Ordered
    <3>6. y # NoHash
      <4>1. SUFFICES ASSUME y = NoHash  PROVE FALSE  OBVIOUS
      <4>2. \A z \in S : pos[z] <= pos[x]
        BY <4>1, <3>5 DEF Follows
      <4>3. c[x] = n - 1
        BY <1>1, <3>3, <4>2 DEF Positions
      <4> QED BY <1>3, <2>2, <3>3, <4>3
    <3>7. y \in S /\ pos[x] < pos[y] /\ \A z \in S : pos[z] <= pos[x] \/ pos[y] <= pos[z]
      BY <3>5, <3>6 DEF Follows
    <3>8. c[y] = c[x] + 1
      BY <1>1, <3>3, <3>7 DEF Positions
    <3>9. c[y] = k - 1  BY <3>3, <3>8, <2>2
    <3> QED BY <2>2, <3>4, <3>7, <3>9
  <2> QED BY <2>3, <2>4
<1> QED BY <1>1, <1>4, <1>5

LEMMA ListExact ==
  ASSUME NEW d, IsDatabase(d), NEW K, NEW pos, Ordered(d, Nodes(d), pos),
         Children1st(Nodes(d), K, pos), NEW n, n = Cardinality(Nodes(d)), NEW l, Listed(d, n, l)
  PROVE  ListShape(d, K, n, l)
<1>1. PICK S : S = Nodes(d)  OBVIOUS
<1>2. /\ IsFiniteSet(S) /\ S \subseteq DOMAIN d.dirties /\ \A x \in S : pos[x] \in Nat
      /\ \A x, y \in S : pos[x] = pos[y] => x = y
  BY <1>1, DatabaseFacts DEF Ordered
<1>3. n \in Nat  BY <1>1, <1>2, FS_CardinalityType
<1>4. PICK c : Positions(S, pos, n, c)
  BY <1>1, <1>2, PositionsExist
<1>5. \A i \in 1 .. n : l[i] \in S /\ c[l[i]] = i - 1
  BY <1>1, <1>4, ListedAt
<1>6. \A x, y \in S : pos[x] < pos[y] => c[x] < c[y]
  BY <1>4 DEF Positions
<1>7. ASSUME NEW x \in S, NEW y \in S, c[x] = c[y]  PROVE x = y
  <2>1. pos[x] \in Nat /\ pos[y] \in Nat  BY <1>2
  <2>2. c[x] \in 0 .. n - 1 /\ c[y] \in 0 .. n - 1
    BY <1>4 DEF Positions
  <2>3. ~ (c[x] < c[y]) /\ ~ (c[y] < c[x])
    BY <1>7, <2>2
  <2>4. ~ (pos[x] < pos[y]) /\ ~ (pos[y] < pos[x])
    BY <1>6, <2>3
  <2>5. pos[x] = pos[y]  BY <2>1, <2>4
  <2> QED BY <2>5, <1>2
<1>8. {l[i] : i \in 1 .. n} = S
  <2>1. ASSUME NEW x \in S  PROVE \E i \in 1 .. n : l[i] = x
    <3>1. c[x] \in 0 .. n - 1  BY <1>4 DEF Positions
    <3>2. PICK k : k = c[x] + 1  OBVIOUS
    <3>3. k \in 1 .. n /\ k - 1 = c[x]  BY <1>3, <3>1, <3>2
    <3>4. l[k] \in S /\ c[l[k]] = c[x]  BY <1>5, <3>3
    <3>5. l[k] = x  BY <1>7, <3>4
    <3> QED BY <3>3, <3>5
  <2> QED BY <2>1, <1>5
<1>9. CASE n = 0
  <2>1. S = {}  BY <1>1, <1>2, <1>9, FS_EmptySet
  <2>2. d.oldest = NoHash  BY <1>1, <2>1 DEF Ordered
  <2>3. l[1] = d.oldest
    <3>1. 1 \in 1 .. n + 1  BY <1>9
    <3> QED BY <3>1 DEF Listed
  <2>4. n + 1 = 1 /\ 1 .. n = {} /\ 2 .. n = {} /\ ~ (n > 0)  BY <1>9
  <2> QED BY <2>2, <2>3, <2>4, <1>1, <1>8 DEF ListShape
<1>10. CASE n # 0
  <2>1. n \in 1 .. n /\ n + 1 \in 1 .. n + 1 /\ n + 1 # 1 /\ n + 1 - 1 = n
    BY <1>3, <1>10
  <2>2. PICK x, y : x = l[n] /\ y = d.dirties[x].flushNext  OBVIOUS
  <2>3. x \in S /\ c[x] = n - 1  BY <1>5, <2>1, <2>2
  <2>4. \A z \in S : pos[z] <= pos[x]
    BY <1>4, <2>3 DEF Positions
  <2>5. l[n + 1] = NoHash
    <3>1. l[n + 1] = NextIn(d, l[n])
      BY <2>1 DEF Listed
    <3>2. l[n + 1] = y
      <4>1. x \in DOMAIN d.dirties  BY <1>2, <2>3
      <4> QED BY <3>1, <4>1, <2>2 DEF NextIn
    <3>3. Follows(S, pos, x, y)
      BY <1>1, <2>2, <2>3 DEF Ordered
    <3>4. y = NoHash
      <4>1. SUFFICES ASSUME y # NoHash  PROVE FALSE  OBVIOUS
      <4>2. y \in S /\ pos[x] < pos[y]
        BY <3>3, <4>1 DEF Follows
      <4>3. pos[y] <= pos[x] /\ pos[x] \in Nat /\ pos[y] \in Nat
        BY <1>2, <2>3, <2>4, <4>2
      <4> QED BY <4>2, <4>3
    <3> QED BY <3>2, <3>4
  <2>6. l[n] = d.newest
    <3>1. PICK z : z = d.newest  OBVIOUS
    <3>2. z \in S /\ \A v \in S : pos[v] <= pos[z]
      BY <1>1, <2>3, <3>1 DEF Ordered
    <3>3. pos[x] <= pos[z] /\ pos[z] <= pos[x] /\ pos[x] \in Nat /\ pos[z] \in Nat
      BY <1>2, <2>3, <2>4, <3>2
    <3>4. pos[x] = pos[z]  BY <3>3
    <3> QED BY <1>2, <2>2, <2>3, <3>1, <3>2, <3>4
  <2>7. ASSUME NEW i \in 2 .. n  PROVE d.dirties[l[i]].flushPrev = l[i - 1]
    <3>1. i \in 1 .. n /\ i - 1 \in 1 .. n /\ i \in 1 .. n + 1 /\ i # 1
      BY <1>3
    <3>2. PICK u, v, p : u = l[i - 1] /\ v = l[i] /\ p = d.dirties[v].flushPrev  OBVIOUS
    <3>3. u \in S /\ v \in S /\ c[v] = i - 1
      BY <1>5, <3>1, <3>2
    <3>4. v = d.dirties[u].flushNext
      <4>1. v = NextIn(d, u)
        BY <3>1, <3>2 DEF Listed
      <4>2. u \in DOMAIN d.dirties  BY <1>2, <3>3
      <4> QED BY <4>1, <4>2 DEF NextIn
    <3>5. v # d.oldest
      <4>1. SUFFICES ASSUME v = d.oldest  PROVE FALSE  OBVIOUS
      <4>2. \A z \in S : pos[v] <= pos[z]
        BY <1>1, <3>3, <4>1 DEF Ordered
      <4>3. c[v] = 0  BY <1>4, <3>3, <4>2 DEF Positions
      <4> QED BY <3>1, <3>3, <4>3
    <3>6. p \in S /\ d.dirties[p].flushNext = v
      BY <1>1, <3>2, <3>3, <3>5 DEF Ordered
    <3>7. Follows(S, pos, u, v) /\ Follows(S, pos, p, v)
      BY <1>1, <3>3, <3>4, <3>6 DEF Ordered
    <3>8. v # NoHash
      BY <1>1, <3>3, DatabaseFacts
    <3>9. /\ pos[u] < pos[v] /\ pos[p] < pos[v]
          /\ pos[p] <= pos[u] \/ pos[v] <= pos[p]
          /\ pos[u] <= pos[p] \/ pos[v] <= pos[u]
      BY <3>3, <3>6, <3>7, <3>8 DEF Follows
    <3>10. pos[u] \in Nat /\ pos[v] \in Nat /\ pos[p] \in Nat
      BY <1>2, <3>3, <3>6
    <3>11. pos[u] = pos[p]  BY ONLY <3>9, <3>10
    <3> QED BY <1>2, <3>2, <3>3, <3>6, <3>11
  <2>8. ASSUME NEW i \in 1 .. n, NEW j \in 1 .. n, i < j, l[j] \in References(l[i]), l[j] \notin K
        PROVE  FALSE
    <3>1. PICK u, v : u = l[i] /\ v = l[j]  OBVIOUS
    <3>2. u \in S /\ v \in S /\ c[u] = i - 1 /\ c[v] = j - 1
      BY <1>5, <3>1
    <3>3. pos[v] < pos[u]
      BY <1>1, <2>8, <3>1, <3>2 DEF Children1st
    <3>4. c[v] < c[u]  BY <1>6, <3>2, <3>3
    <3> QED BY <2>8, <3>2, <3>4
  <2>9. \A i, j \in 1 .. n : i < j /\ l[j] \in References(l[i]) => l[j] \in K
    BY <2>8
  <2>10. \A i \in 2 .. n : d.dirties[l[i]].flushPrev = l[i - 1]
    BY <2>7
  <2> QED BY <2>5, <2>6, <2>9, <2>10, <1>1, <1>8 DEF ListShape
<1> QED BY <1>9, <1>10

LEMMA InvFlushListExact ==
  ASSUME DatabaseInv
  PROVE  FlushListExact
<1>1. PICK n : n = Cardinality(Nodes(db))  OBVIOUS
<1>2. IsDatabase(db)  BY InvFacts
<1>3. n \in Nat
  BY <1>1, <1>2, DatabaseFacts, FS_CardinalityType
<1>4. PICK pos \in [Hashes -> Nat] : Ordered(db, Nodes(db), pos) /\ Children1st(Nodes(db), disk, pos)
  BY InvFacts DEF ListAt
<1>5. PICK l : l = CHOOSE f : f = [i \in 1 .. Cardinality(Nodes(db)) + 1 |->
                 IF i = 1 THEN db.oldest
                 ELSE IF f[i - 1] \in DOMAIN db.dirties THEN db.dirties[f[i - 1]].flushNext ELSE NoHash]
  OBVIOUS
<1>6. PICK f : Listed(db, n, f)
  BY <1>3, ListedExists
<1>7. f = [i \in 1 .. n + 1 |->
             IF i = 1 THEN db.oldest
             ELSE IF f[i - 1] \in DOMAIN db.dirties THEN db.dirties[f[i - 1]].flushNext ELSE NoHash]
  BY <1>6 DEF Listed, NextIn
<1>8. l = [i \in 1 .. n + 1 |->
             IF i = 1 THEN db.oldest
             ELSE IF l[i - 1] \in DOMAIN db.dirties THEN db.dirties[l[i - 1]].flushNext ELSE NoHash]
  BY <1>1, <1>5, <1>7
<1>9. Listed(db, n, l)
  BY <1>8 DEF Listed, NextIn
<1>10. ListShape(db, disk, n, l)
  BY <1>1, <1>2, <1>4, <1>9, ListExact
<1>11. /\ l[n + 1] = NoHash
       /\ {l[i] : i \in 1 .. n} = Nodes(db)
       /\ n > 0 => l[n] = db.newest
       /\ \A i \in 2 .. n : db.dirties[l[i]].flushPrev = l[i - 1]
       /\ \A i, j \in 1 .. n : i < j /\ l[j] \in References(l[i]) => l[j] \in disk
  BY <1>10 DEF ListShape
<1> QED BY ONLY <1>1, <1>5, <1>11 DEF FlushListExact

-----------------------------------------------------------------------------
(* The theorems.                                                           *)


\* At every step of every call, after a failed write and after a crash, the
\* memory database, the disk, Cap's or Commit's progress and the caller's
\* references agree: what CommitTrie, Dereference, Cap and Commit rely on.
THEOREM DatabaseInvariant == Spec => []DatabaseInv
<1>1. Init => DatabaseInv
  BY InvInit
<1>2. DatabaseInv /\ [Next]_vars => DatabaseInv'
  BY NextInv
<1> QED BY <1>1, <1>2, PTL DEF Spec

\* Whatever Cap and Commit have put on disk is there with all that it refers
\* to, also between two batches: a process that dies leaves no root behind that
\* opens half a trie.
THEOREM DiskAlwaysComplete == Spec => []DiskComplete
<1>1. DatabaseInv => DiskComplete
  BY InvDiskComplete
<1> QED BY <1>1, DatabaseInvariant, PTL

\* dereference collects what nobody holds, and only that: every node of a held
\* trie is in memory or on disk, and a node that is only in memory belongs to a
\* held trie, whatever the tries share and however often a root is referenced.
THEOREM HeldAlwaysExact == Spec => []HeldExactly
<1>1. DatabaseInv => HeldExactly
  BY InvHeldReadable, InvNoGarbage DEF HeldExactly
<1> QED BY <1>1, DatabaseInvariant, PTL

\* node and Node look among the dirty nodes and then on the disk, without the
\* lock in between: a node of a held trie that the first look-up misses is found
\* by the second, when Cap or Commit uncaches it in the meantime.
THEOREM ReadersNeverMiss == Spec => ReadNeverMisses
<1>1. DatabaseInv /\ [Next]_vars
        => [\A h \in Live : h \notin lookup(1) /\ faults' = faults => h \in lookup(2)']_vars
  <2>1. SUFFICES ASSUME DatabaseInv, [Next]_vars,
                        NEW h \in Live, h \notin lookup(1)
                 PROVE  h \in lookup(2)'
    OBVIOUS
  <2>2. disk \subseteq disk'
    BY <2>1, DiskKept
  <2>3. Live \subseteq Nodes(db) \cup disk
    BY <2>1, InvHeldReadable DEF HeldReadable, Available
  <2>4. lookup(1) = Nodes(db) /\ lookup(2)' = disk'
    BY DEF lookup
  <2> QED BY <2>1, <2>2, <2>3, <2>4
<1> QED BY <1>1, DatabaseInvariant, PTL DEF Spec, ReadNeverMisses

\* The counts of insert, reference and dereference, the flush list of insert,
\* dereference, Cap and cleaner.Put, and the sizes Cap decides by are what the
\* cached nodes say, whatever calls were made before.
THEOREM BooksAlwaysAgree == Spec => []Bookkeeping
<1>1. DatabaseInv => Bookkeeping
  BY InvTypeOK, InvCountsExact, InvFlushListExact, InvSizesExact DEF Bookkeeping
<1> QED BY <1>1, DatabaseInvariant, PTL

\* When Commit returns, its whole trie and every preimage handed over is on disk
\* and stays there; when Cap returns, the cache is within the allowance.
THEOREM JobsAlwaysDone == Spec => JobsDone
<1>1. DatabaseInv /\ [Next]_vars
        => [/\ CommitEnd => Below(job.root) \cup recorded \subseteq disk'
            /\ disk \subseteq disk']_vars
  BY DiskKept, CommitEndDurable
<1>2. DatabaseInv /\ [Next]_vars => [CapClear => memory(db') <= job.limit]_vars
  BY CapClearDone
<1> QED BY <1>1, <1>2, DatabaseInvariant, PTL DEF Spec, JobsDone, CommitDurable, CapObeyed
=============================================================================
