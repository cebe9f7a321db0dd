-------------------------- MODULE Committee_proofs --------------------------
(***************************************************************************)
(* Proofs about module Committee, for any networks: any topology, any size *)
(* of the shards, any block of any PShard.                                 *)
(***************************************************************************)
EXTENDS CommitteeInv, TLAPS, FiniteSetTheorems, SequenceTheorems

-----------------------------------------------------------------------------
(* Numbers.                                                                *)

\* A set of numbers up to a bound has a first and a last member.
LEMMA FirstOne ==
  ASSUME NEW k \in Nat, NEW S \in SUBSET (0 .. k), S # {}
  PROVE  \E x \in S : \A y \in S : x <= y
  <1> DEFINE Below(x) == {y \in S : y <= x}
             T == {Below(x) : x \in S}
             R == StrictSubsetOrdering(0 .. k)
             F == FiniteSubsetsOf(0 .. k)
  <1>1. IsWellFoundedOn(R, F)
    BY FS_StrictSubsetOrderingWellFounded
  <1>2. T \subseteq F
    <2>1. IsFiniteSet(0 .. k)
      BY FS_Interval
    <2> SUFFICES ASSUME NEW x \in S PROVE Below(x) \in F
      OBVIOUS
    <2>2. Below(x) \in SUBSET (0 .. k)
      OBVIOUS
    <2>3. IsFiniteSet(Below(x))
      BY <2>1, <2>2, FS_Subset
    <2> QED BY <2>2, <2>3 DEF FiniteSubsetsOf
  <1>3. T # {}
    OBVIOUS
  <1>4. PICK B \in T : \A C \in T : <<C, B>> \notin R
    <2> HIDE DEF R, F, T
    <2> QED BY <1>1, <1>2, <1>3, WFMin
  <1>5. PICK x \in S : B = Below(x)
    OBVIOUS
  <1>6. ASSUME NEW y \in S, ~(x <= y) PROVE FALSE
    <2>1. x \in Int /\ y \in Int /\ S \subseteq Int
      OBVIOUS
    <2>2. \A z \in S : z <= y => z <= x
      BY <2>1, <1>6
    <2>3. x <= x /\ ~(x <= y)
      BY <2>1, <1>6
    <2>4. Below(y) \subseteq Below(x) /\ x \in Below(x) /\ x \notin Below(y)
      BY <2>2, <2>3
    <2>5. Below(y) \in SUBSET (0 .. k) /\ Below(x) \in SUBSET (0 .. k)
      OBVIOUS
    <2>6. <<Below(y), Below(x)>> \in R
      <3> HIDE DEF Below
      <3> QED BY <2>4, <2>5 DEF StrictSubsetOrdering
    <2> QED BY <2>6, <1>4, <1>5
  <1> QED BY <1>6

LEMMA LastOne ==
  ASSUME NEW k \in Nat, NEW S \in SUBSET (0 .. k), S # {}
  PROVE  \E x \in S : \A y \in S : y <= x
  <1>1. PICK T \in SUBSET (0 .. k) : T = {i \in 0 .. k : k - i \in S}
    OBVIOUS
  <1>2. \A x \in S : x \in 0 .. k /\ k - x \in T
    BY <1>1
  <1>3. T # {}
    BY <1>2
  <1>4. PICK i \in T : \A j \in T : i <= j
    BY <1>3, FirstOne
  <1>5. k - i \in S /\ i \in 0 .. k
    BY <1>1, <1>4
  <1>6. ASSUME NEW y \in S PROVE y <= k - i
    <2>1. y \in 0 .. k /\ i <= k - y
      BY <1>2, <1>4
    <2> QED BY <2>1, <1>5
  <1> QED BY <1>5, <1>6

LEMMA DivUnique ==
  ASSUME NEW n \in Nat \ {0}, NEW x \in Nat, NEW p \in Nat, p * n <= x, x < p * n + n
  PROVE  x \div n = p /\ x % n = x - p * n
  <1>1. x \div n = p
    OBVIOUS
  <1>2. x % n = x - (x \div n) * n
    OBVIOUS
  <1> QED BY <1>1, <1>2

LEMMA Products ==
  ASSUME NEW n \in Nat \ {0}, NEW p \in Nat, NEW q \in Nat
  PROVE  /\ p * n \in Nat /\ (p + 1) * n = p * n + n
         /\ p < q => p * n + n <= q * n
         /\ p * n < q * n + n => p <= q
  OBVIOUS

-----------------------------------------------------------------------------
(* What FlattenSeq makes of a sequence of sequences.                       *)

Joins(q, k, f) == f = [i \in 1 .. k |-> IF i = 1 THEN q[i] ELSE f[i-1] \o q[i]]

\* The first n of them.
Joined(q) == CHOOSE f : Joins(q, Len(q), f)

LEMMA JoinedJoins ==
  ASSUME NEW q, Len(q) \in Nat
  PROVE  Joins(q, Len(q), Joined(q))
  <1> DEFINE L == Len(q)
  <1>1. PICK S \in SUBSET (0 .. L) : S = {k \in 0 .. L : ~ \E f : Joins(q, k, f)}
    OBVIOUS
  <1>2. ASSUME S # {} PROVE FALSE
    <2>1. PICK k \in S : \A j \in S : k <= j
      BY <1>2, FirstOne
    <2>2. k \in 0 .. L /\ ~ \E f : Joins(q, k, f)
      BY <1>1
    <2>3. Joins(q, 0, [i \in 1 .. 0 |-> q])
      BY DEF Joins
    <2>4. k - 1 \in 0 .. L /\ k - 1 \notin S
      <3>1. k # 0
        BY <2>2, <2>3
      <3> QED BY <2>1, <2>2, <3>1
    <2>5. PICK f : Joins(q, k - 1, f)
      BY <1>1, <2>4
    <2>11. PICK v : v = IF k = 1 THEN q[k] ELSE f[k - 1] \o q[k]
      OBVIOUS
    <2>6. PICK g : g = [i \in 1 .. k |-> IF i = k THEN v ELSE f[i]]
      OBVIOUS
    <2>7. /\ DOMAIN g = 1 .. k
          /\ g[k] = v
          /\ \A i \in 1 .. k - 1 : g[i] = f[i]
      <3>1. k \in 1 .. k /\ \A i \in 1 .. k - 1 : i \in 1 .. k /\ i # k
        BY <2>2, <2>4
      <3> QED BY <2>6, <3>1
    <2>8. \A i \in 1 .. k - 1 : f[i] = IF i = 1 THEN q[i] ELSE f[i - 1] \o q[i]
      BY <2>5 DEF Joins
    <2>9. ASSUME NEW i \in 1 .. k
          PROVE  g[i] = IF i = 1 THEN q[i] ELSE g[i - 1] \o q[i]
      <3>1. CASE i = k
        <4>1. i # 1 => k - 1 \in 1 .. k - 1
          BY <2>2, <3>1
        <4> QED BY <2>11, <2>7, <3>1, <4>1
      <3>2. CASE i # k
        <4>1. i \in 1 .. k - 1 /\ (i # 1 => i - 1 \in 1 .. k - 1)
          BY <2>2, <3>2
        <4> QED BY <2>7, <2>8, <4>1
      <3> QED BY <3>1, <3>2
    <2>10. Joins(q, k, g)
      BY <2>6, <2>9 DEF Joins
    <2> QED BY <2>2, <2>10
  <1>3. \E f : Joins(q, L, f)
    BY <1>1, <1>2
  <1> QED BY <1>3 DEF Joined

\* What is in the first k sequences comes before what is in the others.
Holds(q, j, k) ==
  /\ j[k] \in Seq(Nat)
  /\ \A p \in 1 .. Len(j[k]) : \E i \in 1 .. k : j[k][p] \in Range(q[i])
  /\ \A i \in 1 .. k : \A x \in Range(q[i]) : \E p \in 1 .. Len(j[k]) : j[k][p] = x

LEMMA JoinedHolds ==
  ASSUME NEW q \in Seq(Seq(Nat)), NEW j, Joins(q, Len(q), j)
  PROVE  /\ \A k \in 1 .. Len(q) : Holds(q, j, k)
         /\ Len(q) # 0 => j[1] = q[1]
         /\ \A k \in 2 .. Len(q) : j[k] = j[k - 1] \o q[k]
  <1>1. PICK L : L = Len(q)
    OBVIOUS
  <1>2. L \in Nat /\ \A k \in 1 .. L : q[k] \in Seq(Nat)
    BY <1>1, LenProperties, ElementOfSeq
  <1>3. \A k \in 1 .. L : j[k] = IF k = 1 THEN q[k] ELSE j[k - 1] \o q[k]
    BY <1>1 DEF Joins
  <1>4. /\ L # 0 => j[1] = q[1]
        /\ \A k \in 2 .. L : j[k] = j[k - 1] \o q[k] /\ k - 1 \in 1 .. L /\ k \in 1 .. L
    <2>1. L # 0 => 1 \in 1 .. L
      BY <1>2
    <2>2. \A k \in 2 .. L : k \in 1 .. L /\ k # 1 /\ k - 1 \in 1 .. L
      BY <1>2
    <2>3. L # 0 => j[1] = q[1]
      BY <1>3, <2>1
    <2>4. \A k \in 2 .. L : j[k] = j[k - 1] \o q[k]
      BY <1>3, <2>2
    <2> QED BY <2>2, <2>3, <2>4
  <1>5. ASSUME NEW s \in Seq(Nat)
        PROVE  /\ Range(s) = {s[p] : p \in 1 .. Len(s)} /\ Len(s) \in Nat
    BY LenProperties DEF Range
  <1>6. ASSUME L # 0 PROVE Holds(q, j, 1)
    <2>1. q[1] \in Seq(Nat) /\ 1 \in 1 .. L
      BY <1>2, <1>6
    <2>2. j[1] = q[1]
      BY <1>4, <1>6
    <2>3. 1 \in 1 .. 1
      OBVIOUS
    <2>4. PICK s : s = q[1]
      OBVIOUS
    <2>5. Range(s) = {s[p] : p \in 1 .. Len(s)} /\ s \in Seq(Nat)
      BY <1>5, <2>1, <2>4
    <2>6. \A p \in 1 .. Len(s) : \E i \in 1 .. 1 : s[p] \in Range(q[i])
      BY <2>3, <2>4, <2>5
    <2>7. \A i \in 1 .. 1 : \A x \in Range(q[i]) : \E p \in 1 .. Len(s) : s[p] = x
      <3>1. \A i \in 1 .. 1 : i = 1
        OBVIOUS
      <3> QED BY <2>4, <2>5, <3>1
    <2>8. s = j[1]
      BY <2>2, <2>4
    <2> QED BY <2>5, <2>6, <2>7, <2>8 DEF Holds
  <1>7. ASSUME NEW k \in 2 .. L, Holds(q, j, k - 1) PROVE Holds(q, j, k)
    <2>1. PICK s, t, u : s = j[k - 1] /\ t = q[k] /\ u = j[k]
      OBVIOUS
    <2>2. s \in Seq(Nat) /\ t \in Seq(Nat) /\ u = s \o t
      BY <1>2, <1>4, <1>7, <2>1 DEF Holds
    <2>3. PICK m, n : m = Len(s) /\ n = Len(t)
      OBVIOUS
    <2>4. /\ u \in Seq(Nat) /\ Len(u) = m + n /\ m \in Nat /\ n \in Nat
          /\ \A p \in 1 .. m + n : u[p] = IF p <= m THEN s[p] ELSE t[p - m]
      BY <2>2, <2>3, ConcatProperties, LenProperties
    <2>5. ASSUME NEW p \in 1 .. m + n PROVE \E i \in 1 .. k : u[p] \in Range(q[i])
      <3>1. CASE p <= m
        <4>1. p \in 1 .. m /\ u[p] = s[p]
          BY <2>4, <3>1
        <4>2. \E i \in 1 .. k - 1 : s[p] \in Range(q[i])
          BY <1>7, <2>1, <2>3, <4>1 DEF Holds
        <4> QED BY <4>1, <4>2
      <3>2. CASE ~(p <= m)
        <4>1. p - m \in 1 .. n /\ u[p] = t[p - m]
          BY <2>4, <3>2
        <4>2. u[p] \in Range(t)
          BY <1>5, <2>2, <2>3, <4>1
        <4> QED BY <2>1, <4>2
      <3> QED BY <3>1, <3>2
    <2>6. ASSUME NEW i \in 1 .. k, NEW x \in Range(q[i])
          PROVE  \E p \in 1 .. m + n : u[p] = x
      <3>1. CASE i = k
        <4>1. PICK r \in 1 .. n : t[r] = x
          BY <1>5, <2>1, <2>2, <2>3, <3>1
        <4>2. m + r \in 1 .. m + n /\ ~(m + r <= m) /\ m + r - m = r
          BY <2>4
        <4>3. u[m + r] = t[m + r - m]
          BY <2>4, <4>2
        <4>4. t[m + r - m] = t[r]
          BY <4>2
        <4> QED BY <4>1, <4>2, <4>3, <4>4
      <3>2. CASE i # k
        <4>1. i \in 1 .. k - 1
          BY <3>2
        <4>2. PICK r \in 1 .. m : s[r] = x
          BY <1>7, <2>1, <2>3, <4>1 DEF Holds
        <4>3. r \in 1 .. m + n /\ r <= m
          BY <2>4
        <4> QED BY <2>4, <4>2, <4>3
      <3> QED BY <3>1, <3>2
    <2> QED BY <2>1, <2>4, <2>5, <2>6 DEF Holds
  <1>8. PICK S \in SUBSET (0 .. L) : S = {k \in 1 .. L : ~ Holds(q, j, k)}
    <2>1. {k \in 1 .. L : ~ Holds(q, j, k)} \in SUBSET (0 .. L)
      BY <1>2
    <2> QED BY <2>1
  <1>9. ASSUME S # {} PROVE FALSE
    <2>1. PICK k \in S : \A i \in S : k <= i
      BY <1>2, <1>9, FirstOne
    <2>2. k \in 1 .. L /\ ~ Holds(q, j, k)
      BY <1>8
    <2>3. k # 1
      BY <1>6, <2>2
    <2>4. k \in 2 .. L /\ k - 1 \in 1 .. L /\ ~(k <= k - 1)
      BY <1>2, <2>2, <2>3
    <2>5. Holds(q, j, k - 1)
      BY <1>8, <2>1, <2>4
    <2> QED BY <1>7, <2>2, <2>4, <2>5
  <1> QED BY <1>1, <1>4, <1>8, <1>9

\* What comes later does not move what is there.
Prefixed(j, k, m) ==
  Len(j[k]) <= Len(j[m]) /\ \A p \in 1 .. Len(j[k]) : j[m][p] = j[k][p]

LEMMA JoinedPrefix ==
  ASSUME NEW q \in Seq(Seq(Nat)), NEW j, Joins(q, Len(q), j), NEW k \in 1 .. Len(q)
  PROVE  \A m \in k .. Len(q) : Prefixed(j, k, m)
  <1>1. PICK L : L = Len(q)
    OBVIOUS
  <1>2. L \in Nat /\ k \in 1 .. L /\ \A m \in 1 .. L : q[m] \in Seq(Nat)
    BY <1>1, LenProperties, ElementOfSeq
  <1>3. /\ \A m \in 1 .. L : j[m] \in Seq(Nat)
        /\ \A m \in 2 .. L : j[m] = j[m - 1] \o q[m]
    BY <1>1, JoinedHolds DEF Holds
  <1>4. Prefixed(j, k, k)
    BY <1>2, <1>3, LenProperties DEF Prefixed
  <1>5. ASSUME NEW m \in k + 1 .. L, Prefixed(j, k, m - 1) PROVE Prefixed(j, k, m)
    <2>1. m \in 2 .. L /\ m - 1 \in 1 .. L /\ m \in 1 .. L
      BY <1>2
    <2>2. PICK a, b, c, t : a = j[k] /\ b = j[m - 1] /\ c = j[m] /\ t = q[m]
      OBVIOUS
    <2>3. a \in Seq(Nat) /\ b \in Seq(Nat) /\ t \in Seq(Nat) /\ c = b \o t
      BY <1>2, <1>3, <2>1, <2>2
    <2>4. /\ Len(a) \in Nat /\ Len(b) \in Nat /\ Len(t) \in Nat
          /\ Len(c) = Len(b) + Len(t)
          /\ \A p \in 1 .. Len(b) + Len(t) : c[p] = IF p <= Len(b) THEN b[p] ELSE t[p - Len(b)]
      BY <2>3, ConcatProperties, LenProperties
    <2>5. Len(a) <= Len(b) /\ \A p \in 1 .. Len(a) : b[p] = a[p]
      BY <1>5, <2>2 DEF Prefixed
    <2>6. \A p \in 1 .. Len(a) : p \in 1 .. Len(b) + Len(t) /\ p <= Len(b)
      BY <2>4, <2>5
    <2>7. Len(a) <= Len(c)
      BY <2>4, <2>5
    <2>8. ASSUME NEW p \in 1 .. Len(a) PROVE c[p] = a[p]
      <3>1. c[p] = b[p]
        BY <2>4, <2>6
      <3> QED BY <2>5, <3>1
    <2> QED BY <2>2, <2>7, <2>8 DEF Prefixed
  <1>6. PICK S \in SUBSET (0 .. L) : S = {m \in k .. L : ~ Prefixed(j, k, m)}
    <2>1. {m \in k .. L : ~ Prefixed(j, k, m)} \in SUBSET (0 .. L)
      BY <1>2
    <2> QED BY <2>1
  <1>7. ASSUME S # {} PROVE FALSE
    <2>1. PICK m \in S : \A i \in S : m <= i
      BY <1>2, <1>7, FirstOne
    <2>2. m \in k .. L /\ ~ Prefixed(j, k, m)
      BY <1>6
    <2>3. m # k
      BY <1>4, <2>2
    <2>4. m \in k + 1 .. L /\ m - 1 \in k .. L /\ ~(m <= m - 1)
      BY <1>2, <2>2, <2>3
    <2>5. Prefixed(j, k, m - 1)
      BY <1>6, <2>1, <2>4
    <2> QED BY <1>5, <2>2, <2>4, <2>5
  <1> QED BY <1>1, <1>6, <1>7

\* What is in two of the sequences q is in u twice.
Repeats(q, u) ==
  \A i, k \in 1 .. Len(q) : \A x \in Range(q[i]) \cap Range(q[k]) :
    i < k => \E p, r \in 1 .. Len(u) : p < r /\ u[p] = x /\ u[r] = x

\* Nothing is lost and nothing is added, and nothing put together.
LEMMA Flattened ==
  ASSUME NEW q \in Seq(Seq(Nat)), Len(q) # 0, NEW u, u = FlattenSeq(q)
  PROVE  /\ u \in Seq(Nat)
         /\ Range(u) = UNION {Range(q[i]) : i \in 1 .. Len(q)}
         /\ Repeats(q, u)
  <1>1. PICK L, j : L = Len(q) /\ j = Joined(q)
    OBVIOUS
  <1>2. L \in Nat \ {0} /\ \A m \in 1 .. L : q[m] \in Seq(Nat)
    BY <1>1, LenProperties, ElementOfSeq
  <1>3. Joins(q, L, j)
    BY <1>1, <1>2, JoinedJoins
  <1>4. FlattenSeq(q) = j[L]
    BY <1>1, <1>2 DEF FlattenSeq, Joined, Joins
  <1>5. u = j[L] /\ L \in 1 .. L
    BY <1>2, <1>4
  <1>6. /\ \A k \in 1 .. L : Holds(q, j, k)
        /\ \A k \in 2 .. L : j[k] = j[k - 1] \o q[k]
    <2>1. Joins(q, Len(q), j)
      BY <1>1, <1>3
    <2> QED BY ONLY <1>1, <2>1, q \in Seq(Seq(Nat)), JoinedHolds
  <1>7. \A k \in 1 .. L : \A m \in k .. L : Prefixed(j, k, m)
    BY <1>1, <1>3, JoinedPrefix
  <1>8. /\ u \in Seq(Nat)
        /\ \A p \in 1 .. Len(u) : \E i \in 1 .. L : u[p] \in Range(q[i])
        /\ \A i \in 1 .. L : \A x \in Range(q[i]) : \E p \in 1 .. Len(u) : u[p] = x
    <2>1. Holds(q, j, L)
      BY <1>5, <1>6
    <2>2. u = j[L]
      BY <1>5
    <2>3. u \in Seq(Nat)
      BY ONLY <2>1, <2>2 DEF Holds
    <2>4. \A p \in 1 .. Len(u) : \E i \in 1 .. L : u[p] \in Range(q[i])
      BY ONLY <2>1, <2>2, Zenon DEF Holds
    <2>5. \A i \in 1 .. L : \A x \in Range(q[i]) : \E p \in 1 .. Len(u) : u[p] = x
      BY ONLY <2>1, <2>2, Zenon DEF Holds
    <2> QED BY ONLY <2>3, <2>4, <2>5
  <1>9. Range(u) = {u[p] : p \in 1 .. Len(u)}
    BY <1>8, LenProperties DEF Range
  <1>10. Range(u) = UNION {Range(q[i]) : i \in 1 .. L}
    <2>1. ASSUME NEW x \in Range(u) PROVE \E i \in 1 .. L : x \in Range(q[i])
      <3>1. PICK p \in 1 .. Len(u) : x = u[p]
        BY ONLY x \in Range(u), <1>9
      <3> QED BY <1>8, <3>1
    <2>2. ASSUME NEW i \in 1 .. L, NEW x \in Range(q[i]) PROVE x \in Range(u)
      <3>1. PICK p \in 1 .. Len(u) : x = u[p]
        BY <1>8
      <3> QED BY ONLY <1>9, <3>1
    <2> QED BY <2>1, <2>2, Zenon
  <1>11. Repeats(q, u)
    <2> SUFFICES ASSUME NEW i \in 1 .. Len(q), NEW k \in 1 .. Len(q),
                        NEW x \in Range(q[i]) \cap Range(q[k]), i < k
                 PROVE  \E p, r \in 1 .. Len(u) : p < r /\ u[p] = x /\ u[r] = x
      BY Zenon DEF Repeats
    <2>1. k \in 2 .. L /\ k - 1 \in 1 .. L /\ i \in 1 .. k - 1 /\ L \in k .. L
      BY <1>1, <1>2
    <2>2. PICK a, b, t : a = j[k - 1] /\ b = j[k] /\ t = q[k]
      OBVIOUS
    <2>3. a \in Seq(Nat) /\ t \in Seq(Nat) /\ b = a \o t
      <3>1. k \in 1 .. L /\ t \in Seq(Nat)
        BY <1>2, <2>1, <2>2
      <3>2. a \in Seq(Nat)
        BY ONLY <1>6, <2>1, <2>2 DEF Holds
      <3>3. b = a \o t
        BY ONLY <1>6, <2>1, <2>2
      <3> QED BY <3>1, <3>2, <3>3
    <2>4. /\ Len(a) \in Nat /\ Len(t) \in Nat /\ Len(b) = Len(a) + Len(t)
          /\ \A p \in 1 .. Len(a) + Len(t) : b[p] = IF p <= Len(a) THEN a[p] ELSE t[p - Len(a)]
      BY <2>3, ConcatProperties, LenProperties
    <2>5. PICK p \in 1 .. Len(a) : a[p] = x
      BY <1>6, <2>1, <2>2 DEF Holds
    <2>6. PICK r \in 1 .. Len(t) : t[r] = x
      <3>1. Range(t) = {t[o] : o \in 1 .. Len(t)}
        BY <2>3, LenProperties DEF Range
      <3> QED BY <2>2, <3>1
    <2>7. /\ p \in 1 .. Len(b) /\ p <= Len(a) /\ Len(a) + r \in 1 .. Len(b)
          /\ ~(Len(a) + r <= Len(a)) /\ Len(a) + r - Len(a) = r /\ p < Len(a) + r
      <3>1. PICK d, e, f : d = Len(a) /\ e = Len(t) /\ f = Len(b)
        OBVIOUS
      <3>2. d \in Nat /\ e \in Nat /\ f = d + e
        BY ONLY <2>4, <3>1
      <3>3. p \in 1 .. d /\ r \in 1 .. e
        BY <3>1
      <3>4. /\ p \in 1 .. f /\ p <= d /\ d + r \in 1 .. f
            /\ ~(d + r <= d) /\ d + r - d = r /\ p < d + r
        BY ONLY <3>2, <3>3
      <3> QED BY <3>1, <3>4, Zenon
    <2>8. b[p] = x
      BY <2>4, <2>5, <2>7
    <2>9. b[Len(a) + r] = x
      <3>1. b[Len(a) + r] = t[Len(a) + r - Len(a)]
        BY <2>4, <2>7
      <3>2. t[Len(a) + r - Len(a)] = t[r]
        BY <2>7
      <3> QED BY <2>6, <3>1, <3>2
    <2>10. Len(b) <= Len(u) /\ \A o \in 1 .. Len(b) : u[o] = b[o]
      <3>1. Prefixed(j, k, L)
        BY <1>7, <2>1
      <3> QED BY <1>5, <2>2, <3>1 DEF Prefixed
    <2>11. Len(u) \in Nat
      BY <1>8, LenProperties
    <2>12. p \in 1 .. Len(u) /\ Len(a) + r \in 1 .. Len(u)
      BY <2>4, <2>7, <2>10, <2>11
    <2> QED BY <2>7, <2>8, <2>9, <2>10, <2>12
  <1> QED BY <1>1, <1>8, <1>10, <1>11

-----------------------------------------------------------------------------
(* The topology.                                                           *)

RNum(topo) == Len(topo.RShardIds)
PNum(topo) == Len(PShardSeq(topo))
RShards(topo) == 1 .. RNum(topo)
PShards(topo) == FirstPShard .. FirstPShard + PNum(topo) - 1
Shards(topo) == RShards(topo) \cup PShards(topo)

LEMMA RShardFacts ==
  ASSUME NEW topo, WellFormed(topo)
  PROVE  /\ RNum(topo) \in Nat /\ RNum(topo) # 0 /\ RNum(topo) < FirstPShard
         /\ topo.RShardIds \in Seq(Nat)
         /\ DOMAIN topo.RShardIds = RShards(topo)
         /\ \A r \in RShards(topo) : topo.RShardIds[r] = r
         /\ Range(topo.RShardIds) = RShards(topo)
         /\ DOMAIN topo.PShardIds = RShards(topo)
         /\ \A r \in RShards(topo) : topo.PShardIds[r] \in Seq(Nat)
  <1>1. PICK q : q = topo.RShardIds
    OBVIOUS
  <1>2. /\ q \in Seq(Nat) /\ q # <<>> /\ q = [i \in DOMAIN q |-> i]
        /\ Len(q) < FirstPShard
        /\ DOMAIN topo.PShardIds = Range(q)
        /\ \A r \in DOMAIN topo.PShardIds : topo.PShardIds[r] \in Seq(Nat)
    BY <1>1 DEF WellFormed
  <1>3. Len(q) \in Nat /\ Len(q) # 0 /\ DOMAIN q = 1 .. Len(q)
    BY <1>2, LenProperties, EmptySeq
  <1>4. \A r \in 1 .. Len(q) : q[r] = r
    BY <1>2, <1>3
  <1>5. Range(q) = 1 .. Len(q)
    <2>1. Range(q) = {q[i] : i \in DOMAIN q}
      BY DEF Range
    <2> QED BY <1>3, <1>4, <2>1
  <1> QED BY <1>1, <1>2, <1>3, <1>4, <1>5 DEF RNum, RShards

LEMMA PShardFacts ==
  ASSUME NEW topo, WellFormed(topo)
  PROVE  /\ PShardSeq(topo) \in Seq(Nat) /\ PNum(topo) \in Nat
         /\ \A k \in 1 .. PNum(topo) : PShardSeq(topo)[k] = k - 1 + FirstPShard
         /\ Range(PShardSeq(topo)) = PShards(topo)
         /\ PShards(topo) = UNION {Range(topo.PShardIds[r]) : r \in RShards(topo)}
         /\ \A r, t \in RShards(topo) :
              \A s \in Range(topo.PShardIds[r]) \cap Range(topo.PShardIds[t]) : r = t
  <1>1. PICK R, q, u : /\ R = RNum(topo) /\ q = [r \in 1 .. R |-> topo.PShardIds[r]]
                       /\ u = PShardSeq(topo)
    OBVIOUS
  <1>2. /\ R \in Nat /\ R # 0 /\ DOMAIN topo.RShardIds = 1 .. R
        /\ \A r \in 1 .. R : topo.RShardIds[r] = r /\ topo.PShardIds[r] \in Seq(Nat)
    BY <1>1, RShardFacts DEF RShards
  <1>3. \A r \in 1 .. R : PShardsBelow(topo, topo.RShardIds[r]) = topo.PShardIds[r]
    BY <1>2 DEF PShardsBelow
  <1>4. u = FlattenSeq(q)
    <2>1. [i \in DOMAIN topo.RShardIds |-> PShardsBelow(topo, topo.RShardIds[i])] = q
      BY <1>1, <1>2, <1>3
    <2> QED BY <1>1, <2>1 DEF PShardSeq
  <1>5. q \in Seq(Seq(Nat)) /\ Len(q) = R /\ \A r \in 1 .. R : q[r] = topo.PShardIds[r]
    BY <1>1, <1>2
  <1>6. /\ u \in Seq(Nat)
        /\ Range(u) = UNION {Range(q[r]) : r \in 1 .. R}
        /\ Repeats(q, u)
    <2>1. q \in Seq(Seq(Nat)) /\ Len(q) # 0
      BY <1>2, <1>5
    <2>2. /\ u \in Seq(Nat)
          /\ Range(u) = UNION {Range(q[r]) : r \in 1 .. Len(q)}
          /\ Repeats(q, u)
      BY ONLY <2>1, <1>4, Flattened
    <2>3. Len(q) = R
      BY <1>5
    <2> QED BY ONLY <2>2, <2>3, Zenon
  <1>7. PICK n : n = Len(u)
    OBVIOUS
  <1>8. n \in Nat /\ DOMAIN u = 1 .. n
    BY <1>6, <1>7, LenProperties
  <1>9. \A k \in 1 .. n : u[k] = k - 1 + FirstPShard
    <2>1. u = [k \in DOMAIN u |-> k - 1 + FirstPShard]
      BY <1>1 DEF WellFormed
    <2> QED BY <1>8, <2>1
  <1>10. Range(u) = FirstPShard .. FirstPShard + n - 1
    <2>1. Range(u) = {u[k] : k \in 1 .. n}
      BY <1>8 DEF Range
    <2>2. ASSUME NEW s \in FirstPShard .. FirstPShard + n - 1 PROVE s \in Range(u)
      <3>1. PICK k : k = s - FirstPShard + 1
        OBVIOUS
      <3>2. k \in 1 .. n /\ k - 1 + FirstPShard = s
        BY <1>8, <3>1 DEF FirstPShard
      <3>3. u[k] = s
        BY <1>9, <3>2
      <3> QED BY <2>1, <3>2, <3>3
    <2>3. \A k \in 1 .. n : k - 1 + FirstPShard \in FirstPShard .. FirstPShard + n - 1
      BY <1>8 DEF FirstPShard
    <2> QED BY <1>9, <2>1, <2>2, <2>3
  <1>11. {Range(q[r]) : r \in 1 .. R} = {Range(topo.PShardIds[r]) : r \in 1 .. R}
    BY <1>5
  <1>12. ASSUME NEW r \in 1 .. R, NEW t \in 1 .. R,
                NEW s \in Range(q[r]) \cap Range(q[t]), r < t
         PROVE  FALSE
    <2>1. PICK p, o \in 1 .. n : p < o /\ u[p] = s /\ u[o] = s
      BY <1>5, <1>6, <1>7, <1>12 DEF Repeats
    <2>2. p - 1 + FirstPShard = o - 1 + FirstPShard
      BY <1>9, <2>1
    <2> QED BY <1>8, <2>1, <2>2 DEF FirstPShard
  <1>13. ASSUME NEW r \in 1 .. R, NEW t \in 1 .. R,
                NEW s \in Range(topo.PShardIds[r]) \cap Range(topo.PShardIds[t])
         PROVE  r = t
    <2>1. s \in Range(q[r]) \cap Range(q[t])
      BY <1>5
    <2>2. ~(r < t) /\ ~(t < r)
      BY <1>12, <2>1
    <2> QED BY <1>2, <2>2
  <1> QED BY <1>1, <1>6, <1>7, <1>8, <1>9, <1>10, <1>11, <1>13 DEF PNum, PShards, RShards

\* The k-th shard that gets node ids.
LEMMA ShardFacts ==
  ASSUME NEW topo, WellFormed(topo), NEW R, R = RNum(topo), NEW P, P = PNum(topo)
  PROVE  /\ DOMAIN ShardSeq(topo) = 1 .. R + P /\ Len(ShardSeq(topo)) = R + P
         /\ \A k \in 1 .. R + P :
              ShardSeq(topo)[k] = IF k <= R THEN k ELSE k - R - 1 + FirstPShard
         /\ Range(ShardSeq(topo)) = Shards(topo)
  <1>1. PICK a, b, c : /\ a = [r \in DOMAIN topo.RShardIds |-> r] /\ b = PShardSeq(topo)
                       /\ c = ShardSeq(topo)
    OBVIOUS
  <1>2. /\ R \in Nat /\ R # 0 /\ R < FirstPShard /\ DOMAIN topo.RShardIds = 1 .. R
        /\ RShards(topo) = 1 .. R
    BY RShardFacts DEF RShards
  <1>3. /\ b \in Seq(Nat) /\ Len(b) = P /\ P \in Nat
        /\ \A k \in 1 .. P : b[k] = k - 1 + FirstPShard
        /\ PShards(topo) = FirstPShard .. FirstPShard + P - 1
    BY <1>1, PShardFacts DEF PNum, PShards
  <1>4. a \in Seq(Nat) /\ Len(a) = R /\ \A k \in 1 .. R : a[k] = k
    BY <1>1, <1>2
  <1>5. c = a \o b
    BY <1>1 DEF ShardSeq
  <1>6. /\ c \in Seq(Nat) /\ Len(c) = R + P
        /\ \A k \in 1 .. R + P : c[k] = IF k <= R THEN a[k] ELSE b[k - R]
    <2>1. /\ c \in Seq(Nat) /\ Len(c) = Len(a) + Len(b)
          /\ \A k \in 1 .. Len(a) + Len(b) : c[k] = IF k <= Len(a) THEN a[k] ELSE b[k - Len(a)]
      BY <1>3, <1>4, <1>5, ConcatProperties
    <2>2. Len(a) = R /\ Len(b) = P
      BY <1>3, <1>4
    <2> QED BY ONLY <2>1, <2>2, Zenon
  <1>7. ASSUME NEW k \in 1 .. R + P
        PROVE  c[k] = IF k <= R THEN k ELSE k - R - 1 + FirstPShard
    <2>1. CASE k <= R
      BY <1>2, <1>4, <1>6, <2>1
    <2>2. CASE ~(k <= R)
      <3>1. k - R \in 1 .. P
        BY <1>2, <1>3, <2>2
      <3> QED BY <1>3, <1>6, <2>2, <3>1
    <2> QED BY <2>1, <2>2
  <1>8. DOMAIN c = 1 .. R + P
    BY <1>6, LenProperties
  <1>9. Range(c) = {c[k] : k \in 1 .. R + P}
    BY <1>8 DEF Range
  <1>10. ASSUME NEW s \in Range(c) PROVE s \in Shards(topo)
    <2>1. PICK k \in 1 .. R + P : s = c[k]
      BY <1>9
    <2>2. s = IF k <= R THEN k ELSE k - R - 1 + FirstPShard
      BY <1>7, <2>1
    <2>3. R \in Nat /\ P \in Nat
      BY <1>2, <1>3
    <2>4. s \in 1 .. R \/ s \in FirstPShard .. FirstPShard + P - 1
      BY ONLY k \in 1 .. R + P, <2>2, <2>3 DEF FirstPShard
    <2>5. Shards(topo) = (1 .. R) \cup (FirstPShard .. FirstPShard + P - 1)
      BY <1>2, <1>3 DEF Shards
    <2> QED BY ONLY <2>4, <2>5
  <1>11. ASSUME NEW s \in Shards(topo) PROVE s \in Range(c)
    <2>1. CASE s \in 1 .. R
      <3>1. s \in 1 .. R + P /\ s <= R
        BY <1>2, <1>3, <2>1
      <3> QED BY <1>7, <1>9, <3>1
    <2>2. CASE s \in FirstPShard .. FirstPShard + P - 1
      <3>1. PICK k : k = s - FirstPShard + 1 + R
        OBVIOUS
      <3>2. k \in 1 .. R + P /\ ~(k <= R) /\ k - R - 1 + FirstPShard = s
        <4>1. R \in Nat /\ P \in Nat /\ s \in 1001 .. 1001 + P - 1 /\ k = s - 1001 + 1 + R
          BY <1>2, <1>3, <2>2, <3>1 DEF FirstPShard
        <4>2. k \in 1 .. R + P /\ ~(k <= R) /\ k - R - 1 + 1001 = s
          BY ONLY <4>1
        <4> QED BY <4>2 DEF FirstPShard
      <3>3. c[k] = k - R - 1 + FirstPShard
        BY <1>7, <3>2
      <3> QED BY <1>9, <3>2, <3>3
    <2> QED BY <1>2, <1>3, <2>1, <2>2 DEF Shards
  <1> QED BY <1>1, <1>6, <1>7, <1>8, <1>10, <1>11

-----------------------------------------------------------------------------
(* Node ids.                                                               *)

\* The place of a shard in ShardSeq, and how many nodes come before its own.
Place(topo, s) == IF s < FirstPShard THEN s ELSE s - FirstPShard + 1 + RNum(topo)
Before(topo, n, s) == (Place(topo, s) - 1) * n

NodesOf(topo, n, s) == Before(topo, n, s) + 1 .. Before(topo, n, s) + n

LEMMA PlaceFacts ==
  ASSUME NEW topo, WellFormed(topo), NEW s \in Shards(topo)
  PROVE  /\ Place(topo, s) \in 1 .. RNum(topo) + PNum(topo)
         /\ s \in Nat
         /\ \A k \in 1 .. RNum(topo) + PNum(topo) : ShardSeq(topo)[k] = s <=> k = Place(topo, s)
         /\ s \in PShards(topo) <=> ~(s < FirstPShard)
         /\ s \in RShards(topo) <=> s < FirstPShard
  <1>1. PICK R, P, p : R = RNum(topo) /\ P = PNum(topo) /\ p = Place(topo, s)
    OBVIOUS
  <1>2. R \in Nat /\ R < 1001 /\ P \in Nat
    BY <1>1, RShardFacts, PShardFacts DEF FirstPShard
  <1>3. /\ RShards(topo) = 1 .. R /\ PShards(topo) = 1001 .. 1001 + P - 1
        /\ s \in (1 .. R) \cup (1001 .. 1001 + P - 1)
    BY <1>1 DEF Shards, RShards, PShards, FirstPShard
  <1>4. p = IF s < 1001 THEN s ELSE s - 1001 + 1 + R
    BY <1>1 DEF Place, FirstPShard
  <1>5. \A k \in 1 .. R + P : ShardSeq(topo)[k] = IF k <= R THEN k ELSE k - R - 1 + 1001
    BY <1>1, ShardFacts DEF FirstPShard
  <1>6. p \in 1 .. R + P /\ s \in Nat
    BY <1>2, <1>3, <1>4
  <1>7. ASSUME NEW k \in 1 .. R + P PROVE ShardSeq(topo)[k] = s <=> k = p
    <2>1. PICK v : v = ShardSeq(topo)[k] /\ v = IF k <= R THEN k ELSE k - R - 1 + 1001
      BY <1>5
    <2>2. v = s <=> k = p
      BY <1>2, <1>3, <1>4, <2>1
    <2> QED BY <2>1, <2>2
  <1>8. /\ s \in PShards(topo) <=> ~(s < FirstPShard)
        /\ s \in RShards(topo) <=> s < FirstPShard
    BY <1>2, <1>3 DEF FirstPShard
  <1> QED BY <1>1, <1>6, <1>7, <1>8

LEMMA NodeLists ==
  ASSUME NEW topo, WellFormed(topo), NEW n \in Nat \ {0}
  PROVE  /\ DOMAIN Nodes(topo, n) = Shards(topo)
         /\ \A s \in Shards(topo) : /\ Before(topo, n, s) \in Nat
                                    /\ Range(Nodes(topo, n)[s]) = NodesOf(topo, n, s)
  <1>1. DOMAIN Nodes(topo, n) = Shards(topo)
    BY ShardFacts DEF Nodes
  <1>2. ASSUME NEW s \in Shards(topo)
        PROVE  /\ Before(topo, n, s) \in Nat
               /\ Range(Nodes(topo, n)[s]) = NodesOf(topo, n, s)
    <2>1. PICK p, b, L : /\ p = Place(topo, s) /\ b = (p - 1) * n
                         /\ L = Nodes(topo, n)[s]
      OBVIOUS
    <2>2. p \in Nat \ {0} /\ p - 1 \in Nat
      BY <2>1, PlaceFacts, RShardFacts, PShardFacts
    <2>3. b \in Nat /\ p * n - n = b
      BY <2>1, <2>2
    <2>4. (CHOOSE k \in DOMAIN ShardSeq(topo) : ShardSeq(topo)[k] = s) = p
      <3>1. DOMAIN ShardSeq(topo) = 1 .. RNum(topo) + PNum(topo)
        BY ShardFacts
      <3>2. /\ p \in DOMAIN ShardSeq(topo)
            /\ \A k \in DOMAIN ShardSeq(topo) : ShardSeq(topo)[k] = s <=> k = p
        BY <2>1, <3>1, PlaceFacts
      <3> QED BY <3>2
    <2>5. L = [i \in 1 .. n |-> p * n - n + i]
      <3>1. s \in Range(ShardSeq(topo))
        BY ShardFacts
      <3>2. L = [i \in 1 .. n |-> (CHOOSE k \in DOMAIN ShardSeq(topo) : ShardSeq(topo)[k] = s) * n
                                    - n + i]
        BY <2>1, <3>1 DEF Nodes
      <3> QED BY <2>4, <3>2
    <2>6. \A i \in 1 .. n : L[i] = b + i
      BY <2>3, <2>5
    <2>7. Range(L) = {L[i] : i \in 1 .. n}
      BY <2>5 DEF Range
    <2>8. Range(L) = b + 1 .. b + n
      <3>1. ASSUME NEW x \in b + 1 .. b + n PROVE x \in Range(L)
        <4>1. PICK i : i = x - b
          OBVIOUS
        <4>2. i \in 1 .. n /\ x = b + i
          BY <2>3, <4>1
        <4> QED BY <2>6, <2>7, <4>2
      <3>2. \A i \in 1 .. n : b + i \in b + 1 .. b + n
        BY <2>3
      <3> QED BY <2>6, <2>7, <3>1, <3>2
    <2> QED BY <2>1, <2>3, <2>8 DEF NodesOf, Before
  <1> QED BY <1>1, <1>2

\* The division finds the shard that the node was counted into.
LEMMA ShardOfNode ==
  ASSUME NEW topo, WellFormed(topo), NEW n \in Nat \ {0}
  PROVE  /\ \A x \in 1 .. (RNum(topo) + PNum(topo)) * n :
              /\ ShardIdOf(topo, n, x) \in Shards(topo)
              /\ x \in NodesOf(topo, n, ShardIdOf(topo, n, x))
         /\ \A s \in Shards(topo) : \A x \in NodesOf(topo, n, s) :
              /\ x \in 1 .. (RNum(topo) + PNum(topo)) * n
              /\ ShardIdOf(topo, n, x) = s
              /\ x % n = 0 <=> x = Before(topo, n, s) + n
  <1>1. PICK R, P : R = RNum(topo) /\ P = PNum(topo)
    OBVIOUS
  <1>2. R \in Nat /\ R < 1001 /\ P \in Nat
    BY <1>1, RShardFacts, PShardFacts DEF FirstPShard
  <1>3. Shards(topo) = (1 .. R) \cup (1001 .. 1001 + P - 1)
    BY <1>1 DEF Shards, RShards, PShards, FirstPShard
  <1>4. ASSUME NEW x \in 1 .. (R + P) * n
        PROVE  /\ ShardIdOf(topo, n, x) \in Shards(topo)
               /\ x \in NodesOf(topo, n, ShardIdOf(topo, n, x))
    <2>1. PICK a, r, s : /\ a = (x - 1) \div n /\ r = (x - 1) % n
                         /\ s = ShardIdOf(topo, n, x)
      OBVIOUS
    <2>2. x - 1 \in Nat
      OBVIOUS
    <2>3. a \in Nat /\ r \in 0 .. n - 1 /\ x - 1 = a * n + r
      <3>1. PICK y : y = x - 1
        OBVIOUS
      <3>2. y \in Nat
        BY <2>2, <3>1
      <3>3. a = y \div n /\ r = y % n
        BY ONLY <2>1, <3>1
      <3>4. a \in Nat
        BY <3>2, <3>3
      <3>5. r \in 0 .. n - 1
        BY <3>2, <3>3
      <3>6. PICK m : m = a * n
        OBVIOUS
      <3>7. m \in Nat
        BY <3>4, <3>6
      <3>8. r = y - m
        BY <3>2, <3>3, <3>6
      <3> QED BY <3>1, <3>2, <3>4, <3>5, <3>6, <3>7, <3>8
    <2>4. a < R + P
      <3>1. a * n < (R + P) * n
        BY <1>2, <2>3
      <3> QED BY ONLY <1>2, <2>3, <3>1, n \in Nat \ {0}
    <2>5. s = IF a < R THEN a + 1 ELSE a + 1001 - R
      BY <1>1, <2>1 DEF ShardIdOf, RNum, FirstPShard
    <2>6. s \in Shards(topo)
      BY <1>2, <1>3, <2>3, <2>4, <2>5
    <2>7. Place(topo, s) - 1 = a
      <3>1. Place(topo, s) = IF s < 1001 THEN s ELSE s - 1001 + 1 + R
        BY <1>1 DEF Place, FirstPShard
      <3> QED BY <1>2, <2>3, <2>5, <3>1
    <2>8. PICK b : b = a * n
      OBVIOUS
    <2>9. b \in Nat /\ b = Before(topo, n, s)
      BY <2>3, <2>7, <2>8 DEF Before
    <2>10. x \in b + 1 .. b + n
      BY <2>3, <2>8, <2>9
    <2> QED BY <2>1, <2>6, <2>9, <2>10 DEF NodesOf
  <1>5. ASSUME NEW s \in Shards(topo), NEW x \in NodesOf(topo, n, s)
        PROVE  /\ x \in 1 .. (R + P) * n
               /\ ShardIdOf(topo, n, x) = s
               /\ x % n = 0 <=> x = Before(topo, n, s) + n
    <2>1. PICK p, b : p = Place(topo, s) - 1 /\ b = p * n
      OBVIOUS
    <2>2. p \in Nat /\ p < R + P /\ s \in Nat /\ s \in (1 .. R) \cup (1001 .. 1001 + P - 1)
      BY <1>1, <1>2, <1>3, <2>1, PlaceFacts
    <2>3. p = IF s < 1001 THEN s - 1 ELSE s - 1001 + R
      <3>1. Place(topo, s) = IF s < 1001 THEN s ELSE s - 1001 + 1 + R
        BY <1>1 DEF Place, FirstPShard
      <3> QED BY <1>2, <2>1, <2>2, <3>1
    <2>4. b \in Nat /\ b = Before(topo, n, s) /\ x \in b + 1 .. b + n
      BY <2>1, <2>2 DEF Before, NodesOf
    <2>5. x - 1 \in Nat /\ p * n <= x - 1 /\ x - 1 < p * n + n
      BY <2>1, <2>4
    <2>6. (x - 1) \div n = p
      BY <2>2, <2>5, DivUnique
    <2>7. ShardIdOf(topo, n, x) = s
      <3>1. ShardIdOf(topo, n, x) = IF p < R THEN p + 1 ELSE p + 1001 - R
        BY <1>1, <2>6 DEF ShardIdOf, RNum, FirstPShard
      <3> QED BY <1>2, <2>2, <2>3, <3>1
    <2>8. b + n <= (R + P) * n
      BY <1>2, <2>1, <2>2, Products
    <2>9. x \in 1 .. (R + P) * n
      <3>1. PICK m : m = (R + P) * n
        OBVIOUS
      <3>2. m \in Nat
        BY <1>2, <3>1
      <3> QED BY <2>4, <2>8, <3>1, <3>2
    <2>10. x % n = 0 <=> x = b + n
      <3>1. CASE x = b + n
        <4>1. x = (p + 1) * n /\ p + 1 \in Nat
          <5>1. (p + 1) * n = p * n + n
            BY <2>2, Products
          <5> QED BY <2>1, <2>2, <3>1, <5>1
        <4>2. x \in Nat /\ (p + 1) * n <= x /\ x < (p + 1) * n + n
          BY <2>4, <4>1
        <4>3. x % n = x - (p + 1) * n
          BY <4>1, <4>2, DivUnique
        <4> QED BY <2>4, <3>1, <4>1, <4>3
      <3>2. CASE x # b + n
        <4>1. x \in Nat /\ p * n <= x /\ x < p * n + n
          BY <2>1, <2>4, <3>2
        <4>2. x % n = x - p * n
          BY <2>2, <4>1, DivUnique
        <4>3. x % n = x - b
          BY <2>1, <4>2
        <4> QED BY <2>4, <3>2, <4>3
      <3> QED BY <3>1, <3>2
    <2> QED BY <2>4, <2>7, <2>9, <2>10
  <1> QED BY <1>1, <1>4, <1>5

\* A node belongs to one shard.
LEMMA NodesApart ==
  ASSUME NEW topo, WellFormed(topo), NEW n \in Nat \ {0},
         NEW s \in Shards(topo), NEW t \in Shards(topo),
         NEW x \in NodesOf(topo, n, s), x \in NodesOf(topo, n, t)
  PROVE  s = t
  BY ShardOfNode

\* The RShard of a PShard.
LEMMA AboveFacts ==
  ASSUME NEW topo, WellFormed(topo), NEW s \in PShards(topo),
         NEW r, r = RShardIdOf(topo, s)
  PROVE  /\ r \in RShards(topo)
         /\ s \in Range(topo.PShardIds[r])
         /\ \A t \in RShards(topo) : s \in Range(topo.PShardIds[t]) => t = r
  <1>1. PICK A : A = {t \in Range(topo.RShardIds) : s \in Range(topo.PShardIds[t])}
    OBVIOUS
  <1>2. A = {t \in RShards(topo) : s \in Range(topo.PShardIds[t])}
    BY <1>1, RShardFacts
  <1>3. A # {}
    BY <1>2, PShardFacts
  <1>4. r \in A
    BY <1>1, <1>3 DEF RShardIdOf
  <1>5. \A t \in RShards(topo) : s \in Range(topo.PShardIds[t]) => t = r
    BY <1>2, <1>4, PShardFacts
  <1> QED BY <1>2, <1>4, <1>5

-----------------------------------------------------------------------------
(* The configurations of one network.                                      *)

LEMMA NetworkFacts ==
  ASSUME network \in DOMAIN Networks, NEW t, t = Networks[network].topo
  PROVE  /\ WellFormed(t)
         /\ size \in Nat /\ size # 0 /\ size # 1
         /\ ShardIds[network] = Shards(t) /\ PShardIds[network] = PShards(t)
         /\ NodeIds = 1 .. (RNum(t) + PNum(t)) * size
         /\ \A x \in NodeIds : Conf(x) = NewConfig(t, size, x)
         /\ \A s \in Shards(t) : /\ Members(s) = NodesOf(t, size, s)
                                 /\ Before(t, size, s) \in Nat
  <1>1. WellFormed(t) /\ size \in Nat /\ size # 0 /\ size # 1
    BY ConfigAssumption DEF size
  <1>2. ShardIds[network] = Shards(t) /\ PShardIds[network] = PShards(t)
    BY <1>1, ShardFacts, PShardFacts DEF ShardIds, PShardIds
  <1>3. PICK L : L = Len(ShardSeq(t))
    OBVIOUS
  <1>4. L = RNum(t) + PNum(t) /\ RNum(t) \in Nat \ {0} /\ PNum(t) \in Nat
    BY <1>1, <1>3, ShardFacts, RShardFacts, PShardFacts
  <1>5. Configs[network] = [x \in 1 .. L * size |-> NewConfig(t, size, x)]
    BY <1>3 DEF Configs, size
  <1>6. NodeIds = 1 .. L * size
    BY <1>5 DEF NodeIds
  <1>7. \A x \in NodeIds : Conf(x) = NewConfig(t, size, x)
    BY <1>5, <1>6 DEF Conf
  <1>8. 1 \in NodeIds
    <2>1. PICK m : m = L * size
      OBVIOUS
    <2>2. m \in Nat /\ m # 0
      BY <1>1, <1>4, <2>1
    <2> QED BY <1>6, <2>1, <2>2
  <1>9. Conf(1).Nodes = Nodes(t, size)
    BY <1>7, <1>8 DEF NewConfig
  <1>10. \A s \in Shards(t) : Members(s) = NodesOf(t, size, s) /\ Before(t, size, s) \in Nat
    BY <1>1, <1>9, NodeLists DEF Members
  <1> QED BY <1>1, <1>2, <1>4, <1>6, <1>7, <1>10

LEMMA ConfFields ==
  ASSUME network \in DOMAIN Networks, NEW t, t = Networks[network].topo,
         NEW x \in NodeIds, NEW c, c = Conf(x)
  PROVE  /\ c.Topo = t /\ c.Nodes = Nodes(t, size) /\ c.NodeNumPerShard = size
         /\ c.NodeId = x /\ c.ShardId = ShardIdOf(t, size, x)
         /\ c.RShardId = RShardIdOf(t, c.ShardId)
         /\ c.IsLeader = (x % size = 0)
         /\ c.ConsensusThreshold = (size * 2) \div 3 + 1
         /\ c.RShardNum = RNum(t) /\ c.PShardNum = PNum(t)
  <1>1. c = NewConfig(t, size, x)
    BY NetworkFacts
  <1> QED BY <1>1 DEF NewConfig, RNum, PNum

\* Who is where.
LEMMA Places ==
  ASSUME network \in DOMAIN Networks
  PROVE  /\ \A x \in NodeIds : /\ Conf(x).ShardId \in ShardIds[network]
                               /\ x \in Members(Conf(x).ShardId)
         /\ \A s \in ShardIds[network] : \A x \in Members(s) :
              x \in NodeIds /\ Conf(x).ShardId = s
         /\ PShardIds[network] \subseteq ShardIds[network]
         /\ NodeIds \subseteq Nat
  <1>1. PICK t : t = Networks[network].topo
    OBVIOUS
  <1>2. /\ WellFormed(t) /\ size \in Nat \ {0}
        /\ ShardIds[network] = Shards(t) /\ PShardIds[network] = PShards(t)
        /\ NodeIds = 1 .. (RNum(t) + PNum(t)) * size
        /\ \A s \in Shards(t) : Members(s) = NodesOf(t, size, s)
    BY <1>1, NetworkFacts
  <1>3. \A x \in NodeIds : Conf(x).ShardId = ShardIdOf(t, size, x)
    BY <1>1, ConfFields
  <1>4. ASSUME NEW x \in NodeIds
        PROVE  Conf(x).ShardId \in ShardIds[network] /\ x \in Members(Conf(x).ShardId)
    <2>1. /\ ShardIdOf(t, size, x) \in Shards(t)
          /\ x \in NodesOf(t, size, ShardIdOf(t, size, x))
      BY <1>2, ShardOfNode
    <2> QED BY <1>2, <1>3, <2>1
  <1>5. ASSUME NEW s \in ShardIds[network], NEW x \in Members(s)
        PROVE  x \in NodeIds /\ Conf(x).ShardId = s
    <2>1. s \in Shards(t) /\ x \in NodesOf(t, size, s)
      BY <1>2
    <2>2. x \in 1 .. (RNum(t) + PNum(t)) * size /\ ShardIdOf(t, size, x) = s
      BY ONLY <1>2, <2>1, ShardOfNode
    <2> QED BY <1>2, <1>3, <2>2
  <1> QED BY <1>2, <1>4, <1>5 DEF Shards

\* The last node of a shard leads it.
LEMMA Leaders ==
  ASSUME network \in DOMAIN Networks, NEW s \in ShardIds[network]
  PROVE  /\ LeaderOf(s) \in Members(s)
         /\ {x \in Members(s) : Conf(x).IsLeader} = {LeaderOf(s)}
  <1>1. PICK t, l : t = Networks[network].topo /\ l = Before(t, size, s) + size
    OBVIOUS
  <1>2. /\ WellFormed(t) /\ size \in Nat \ {0} /\ s \in Shards(t)
        /\ Members(s) = NodesOf(t, size, s) /\ Before(t, size, s) \in Nat
    BY <1>1, NetworkFacts
  <1>3. l \in Members(s)
    BY <1>1, <1>2 DEF NodesOf
  <1>4. \A x \in Members(s) : x \in NodeIds /\ (Conf(x).IsLeader <=> x % size = 0)
    BY <1>1, Places, ConfFields
  <1>5. \A x \in Members(s) : Conf(x).IsLeader <=> x = l
    BY <1>1, <1>2, <1>4, ShardOfNode
  <1>6. LeaderOf(s) = l
    BY <1>3, <1>5 DEF LeaderOf
  <1> QED BY <1>3, <1>5, <1>6

\* In a PShard keys count the members from 0 on, and keys are what the offset
\* of the shard is taken off.
LEMMA Keys ==
  ASSUME network \in DOMAIN Networks, NEW s \in PShardIds[network], NEW m, m = Min(Members(s))
  PROVE  /\ m \in Nat /\ m # 0 /\ Members(s) = m .. m + size - 1
         /\ \A x \in NodeIds : getKeyOffset(Conf(x), s) = m
         /\ \A x \in Members(s) : /\ nodeId2Key(Conf(x)) = x - m
                                  /\ \A k \in Nat : key2NodeId(Conf(x), k) = k + m
  <1>1. PICK t, b : t = Networks[network].topo /\ b = Before(t, size, s)
    OBVIOUS
  <1>2. /\ WellFormed(t) /\ size \in Nat /\ size # 0
        /\ s \in PShards(t) /\ s \in Shards(t) /\ s \in ShardIds[network]
        /\ Members(s) = NodesOf(t, size, s) /\ b \in Nat
    BY <1>1, NetworkFacts DEF Shards
  <1>3. Members(s) = b + 1 .. b + size
    BY <1>1, <1>2 DEF NodesOf
  <1>4. m = b + 1
    <2>1. b + 1 \in Members(s) /\ \A x \in Members(s) : b + 1 <= x /\ x \in Int
      BY <1>2, <1>3
    <2> QED BY <1>2, <2>1 DEF Min
  <1>5. (RNum(t) + s - FirstPShard) * size = b
    <2>1. Place(t, s) - 1 = RNum(t) + s - FirstPShard
      <3>1. RNum(t) \in Nat /\ s \in Nat /\ ~(s < FirstPShard)
        BY <1>2, RShardFacts, PlaceFacts
      <3> QED BY <3>1 DEF Place, FirstPShard
    <2> QED BY <1>1, <2>1 DEF Before
  <1>6. \A x \in NodeIds : getKeyOffset(Conf(x), s) = m
    BY <1>1, <1>4, <1>5, ConfFields DEF getKeyOffset
  <1>7. ASSUME NEW x \in Members(s)
        PROVE  nodeId2Key(Conf(x)) = x - m /\ \A k \in Nat : key2NodeId(Conf(x), k) = k + m
    <2>1. PICK c : c = Conf(x)
      OBVIOUS
    <2>2. x \in NodeIds /\ c.ShardId = s
      BY <1>2, <2>1, Places
    <2>3. c.NodeId = x /\ c.RShardNum = RNum(t) /\ c.NodeNumPerShard = size
      BY <1>1, <2>1, <2>2, ConfFields
    <2>4. (c.RShardNum + c.ShardId - FirstPShard) * c.NodeNumPerShard = b
      BY <1>5, <2>2, <2>3
    <2>5. nodeId2Key(c) = x - b - 1 /\ \A k \in Nat : key2NodeId(c, k) = k + b + 1
      BY <2>3, <2>4 DEF nodeId2Key, key2NodeId
    <2>6. x - b - 1 = x - m
      BY <1>2, <1>3, <1>4
    <2> QED BY <1>2, <1>4, <2>1, <2>5, <2>6
  <1>8. m .. m + size - 1 = b + 1 .. b + size
    BY <1>2, <1>4
  <1> QED BY <1>2, <1>3, <1>4, <1>6, <1>7, <1>8

-----------------------------------------------------------------------------
(* Topics.                                                                 *)

LEMMA Subscribers ==
  ASSUME network \in DOMAIN Networks, NEW s \in ShardIds[network]
  PROVE  {x \in NodeIds : Subscribed(x) = idToTopic(s)} = Members(s)
  <1>1. \A r : idToTopic(r) = idToTopic(s) <=> r = s
    BY DEF idToTopic
  <1>2. {x \in NodeIds : Subscribed(x) = idToTopic(s)} = {x \in NodeIds : Conf(x).ShardId = s}
    BY <1>1 DEF Subscribed
  <1> QED BY <1>2, Places

\* Gossip to some shards reaches nobody but their members.
LEMMA Gossiped ==
  ASSUME network \in DOMAIN Networks, up \subseteq NodeIds,
         NEW S \in SUBSET ShardIds[network], NEW x
  PROVE  Gossip(x, S) \subseteq up \cap UNION {Members(s) : s \in S}
  <1>1. ASSUME NEW y \in Gossip(x, S)
        PROVE  y \in up /\ \E s \in S : y \in Members(s)
    <2>1. y \in up /\ y \in NodeIds /\ \E s \in S : Subscribed(y) = idToTopic(s)
      BY DEF Gossip
    <2> QED BY <2>1, Subscribers
  <1> QED BY <1>1

\* The RShard that a PShard's nodes take for theirs has it in its list.
LEMMA AboveShard ==
  ASSUME network \in DOMAIN Networks, shard \in PShardIds[network]
  PROVE  /\ Above \in ShardIds[network] /\ Above < FirstPShard
         /\ \A x \in Members(shard) : Conf(x).RShardId = Above
         /\ \A s \in PShardIds[network] : ~(s < FirstPShard) /\ s \in Nat
  <1>1. PICK t, r : t = Networks[network].topo /\ r = RShardIdOf(t, shard)
    OBVIOUS
  <1>2. /\ WellFormed(t)
        /\ ShardIds[network] = Shards(t) /\ PShardIds[network] = PShards(t)
    BY <1>1, NetworkFacts
  <1>3. /\ r \in RShards(t) /\ shard \in Range(t.PShardIds[r])
        /\ \A q \in RShards(t) : shard \in Range(t.PShardIds[q]) => q = r
    BY <1>1, <1>2, AboveFacts
  <1>4. DOMAIN t.PShardIds = RShards(t)
    BY <1>2, RShardFacts
  <1>5. Above = r
    BY <1>1, <1>3, <1>4 DEF Above
  <1>6. r \in Shards(t) /\ r < FirstPShard
    BY <1>2, <1>3, PlaceFacts DEF Shards
  <1>7. ASSUME NEW x \in Members(shard)
        PROVE  Conf(x).RShardId = r
    <2>1. x \in NodeIds /\ Conf(x).ShardId = shard
      BY Places
    <2> QED BY <1>1, <2>1, ConfFields
  <1>8. \A s \in PShardIds[network] : ~(s < FirstPShard) /\ s \in Nat
    BY <1>2, PlaceFacts DEF Shards
  <1> QED BY <1>2, <1>5, <1>6, <1>7, <1>8

LEMMA ConfigsAgree ==
  ASSUME network \in DOMAIN Networks
  PROVE  CommitteesAgree
  <1>1. PICK t : t = Networks[network].topo
    OBVIOUS
  <1>2. /\ WellFormed(t) /\ size \in Nat /\ size # 0
        /\ ShardIds[network] = Shards(t) /\ PShardIds[network] = PShards(t)
    BY <1>1, NetworkFacts
  <1>3. ASSUME NEW x \in NodeIds, NEW s \in ShardIds[network]
        PROVE  idToTopic(s) \in Topics(Conf(x))
    <2>1. Conf(x).Topo = t
      BY <1>1, ConfFields
    <2>2. Range(t.RShardIds) = RShards(t)
      BY <1>2, RShardFacts
    <2>3. CASE s \in RShards(t)
      BY <2>1, <2>2, <2>3 DEF Topics
    <2>4. CASE s \in PShards(t)
      <3>1. PICK r \in RShards(t) : s \in Range(t.PShardIds[r])
        BY <1>2, <2>4, PShardFacts
      <3>2. idToTopic(s) \in {idToTopic(q) : q \in Range(t.PShardIds[r])}
        BY <3>1
      <3>3. idToTopic(s) \in UNION {{idToTopic(q) : q \in Range(t.PShardIds[o])} :
                                       o \in Range(t.RShardIds)}
        BY <2>2, <3>1, <3>2
      <3> QED BY <2>1, <3>3 DEF Topics
    <2> QED BY <1>2, <2>3, <2>4 DEF Shards
  <1>4. \A x \in NodeIds : x \in Members(Conf(x).ShardId)
    BY Places
  <1>5. ASSUME NEW s \in ShardIds[network]
        PROVE  Cardinality({x \in Members(s) : Conf(x).IsLeader}) = 1
    BY Leaders, FS_Singleton
  <1>6. ASSUME NEW s \in PShardIds[network]
        PROVE  /\ {nodeId2Key(Conf(x)) : x \in Members(s)} = 0 .. size - 1
               /\ \A x, y \in Members(s) : key2NodeId(Conf(x), nodeId2Key(Conf(y))) = y
    <2>1. PICK m : m = Min(Members(s))
      OBVIOUS
    <2>2. /\ m \in Nat /\ Members(s) = m .. m + size - 1
          /\ \A x \in Members(s) : /\ nodeId2Key(Conf(x)) = x - m
                                   /\ \A k \in Nat : key2NodeId(Conf(x), k) = k + m
      BY <2>1, Keys
    <2>3. \A x \in Members(s) : x - m \in 0 .. size - 1 /\ x - m \in Nat /\ x - m + m = x
      <3>1. m \in Nat /\ size \in Nat /\ Members(s) = m .. m + size - 1
        BY <1>2, <2>2
      <3> QED BY ONLY <3>1
    <2>4. ASSUME NEW k \in 0 .. size - 1
          PROVE  \E x \in Members(s) : nodeId2Key(Conf(x)) = k
      <3>1. k + m \in Members(s) /\ k + m - m = k
        BY <1>2, <2>2
      <3> QED BY <2>2, <3>1
    <2>5. {nodeId2Key(Conf(x)) : x \in Members(s)} = 0 .. size - 1
      BY <2>2, <2>3, <2>4
    <2>6. ASSUME NEW x \in Members(s), NEW y \in Members(s)
          PROVE  key2NodeId(Conf(x), nodeId2Key(Conf(y))) = y
      <3>1. nodeId2Key(Conf(y)) = y - m /\ y - m \in Nat /\ y - m + m = y
        BY <2>2, <2>3
      <3>2. key2NodeId(Conf(x), y - m) = y - m + m
        BY <2>2, <3>1
      <3> QED BY <3>1, <3>2
    <2> QED BY <2>5, <2>6
  <1> QED BY <1>3, <1>4, <1>5, <1>6, Subscribers DEF CommitteesAgree

-----------------------------------------------------------------------------
(* Bitmaps.                                                                *)

Bitmaps(len) == [1 .. (len + 7) \div 8 -> Byte]

LEMMA InBitmap ==
  ASSUME NEW L \in Nat, NEW b \in [1 .. L -> Byte]
  PROVE  /\ b \in Seq(Byte) /\ Len(b) = L
         /\ \A x : x \in GetElement(b) <=> /\ x \in Nat /\ x \div 8 + 1 \in 1 .. L
                                           /\ x % 8 \in b[x \div 8 + 1]
  <1>1. b \in Seq(Byte) /\ Len(b) = L
    OBVIOUS
  <1>2. \A i \in 1 .. L : b[i] \subseteq 0 .. 7
    BY DEF Byte
  <1>3. ASSUME NEW x \in GetElement(b)
        PROVE  x \in Nat /\ x \div 8 + 1 \in 1 .. L /\ x % 8 \in b[x \div 8 + 1]
    <2>1. PICK i \in 1 .. L : \E j \in b[i] : x = 8 * (i - 1) + j
      BY DEF GetElement
    <2>2. PICK j \in b[i] : x = 8 * (i - 1) + j
      BY <2>1
    <2>3. i \in Nat \ {0} /\ j \in 0 .. 7
      BY <1>2
    <2>4. x \in Nat /\ x \div 8 = i - 1 /\ x % 8 = j
      BY ONLY <2>2, <2>3
    <2>5. x \div 8 + 1 = i
      BY <2>3, <2>4
    <2> QED BY <2>4, <2>5
  <1>4. ASSUME NEW x \in Nat, x \div 8 + 1 \in 1 .. L, x % 8 \in b[x \div 8 + 1]
        PROVE  x \in GetElement(b)
    <2>1. PICK i, j : i = x \div 8 + 1 /\ j = x % 8
      OBVIOUS
    <2>2. i \in 1 .. L /\ j \in b[i]
      BY <1>4, <2>1
    <2>3. x = 8 * (i - 1) + j
      BY <2>1
    <2> QED BY <2>2, <2>3 DEF GetElement
  <1> QED BY <1>1, <1>3, <1>4

LEMMA BitmapLength ==
  ASSUME NEW len \in Nat
  PROVE  /\ (len + 7) \div 8 \in Nat
         /\ \A k \in 0 .. len - 1 : k \div 8 + 1 \in 1 .. (len + 7) \div 8 /\ k % 8 \in 0 .. 7
  OBVIOUS

LEMMA NewBitmapFacts ==
  ASSUME NEW len \in Nat
  PROVE  NewBitmap(len) \in Bitmaps(len) /\ GetElement(NewBitmap(len)) = {}
  BY DEF NewBitmap, Bitmaps, GetElement, Byte

LEMMA SetKeyFacts ==
  ASSUME NEW len \in Nat, NEW b \in Bitmaps(len), NEW k \in 0 .. len - 1
  PROVE  /\ SetKey(b, k) \in Bitmaps(len)
         /\ GetElement(SetKey(b, k)) = GetElement(b) \cup {k}
  <1>1. PICK L, c, q, r : /\ L = (len + 7) \div 8 /\ c = SetKey(b, k)
                          /\ q = k \div 8 + 1 /\ r = k % 8
    OBVIOUS
  <1>2. L \in Nat /\ q \in 1 .. L /\ r \in 0 .. 7 /\ k \in Nat
    BY <1>1, BitmapLength
  <1>3. b \in [1 .. L -> Byte]
    BY <1>1 DEF Bitmaps
  <1>4. c = [b EXCEPT ![q] = b[q] \cup {r}]
    BY <1>1, <1>2, <1>3 DEF SetKey
  <1>5. b[q] \cup {r} \in Byte
    BY <1>2, <1>3 DEF Byte
  <1>6. /\ c \in [1 .. L -> Byte] /\ c[q] = b[q] \cup {r}
        /\ \A i \in 1 .. L : i # q => c[i] = b[i]
    BY <1>2, <1>3, <1>4, <1>5
  <1>7. ASSUME NEW x
        PROVE  x \in GetElement(c) <=> x \in GetElement(b) \/ x = k
    <2>1. /\ x \in GetElement(c) <=> /\ x \in Nat /\ x \div 8 + 1 \in 1 .. L
                                     /\ x % 8 \in c[x \div 8 + 1]
          /\ x \in GetElement(b) <=> /\ x \in Nat /\ x \div 8 + 1 \in 1 .. L
                                     /\ x % 8 \in b[x \div 8 + 1]
      BY <1>2, <1>3, <1>6, InBitmap
    <2>2. ASSUME x \in Nat PROVE x = k <=> x \div 8 + 1 = q /\ x % 8 = r
      BY <1>1, <1>2, <2>2
    <2>3. CASE ~(x \in Nat)
      BY <1>2, <2>1, <2>3
    <2>4. CASE x \in Nat
      <3>1. PICK o, p : o = x \div 8 + 1 /\ p = x % 8
        OBVIOUS
      <3>2. x = k <=> o = q /\ p = r
        BY <2>2, <2>4, <3>1
      <3>3. /\ x \in GetElement(c) <=> o \in 1 .. L /\ p \in c[o]
            /\ x \in GetElement(b) <=> o \in 1 .. L /\ p \in b[o]
        BY <2>1, <2>4, <3>1
      <3>4. CASE o = q
        BY <1>2, <1>6, <3>2, <3>3, <3>4
      <3>5. CASE o # q
        BY <1>6, <3>2, <3>3, <3>5
      <3>6. Byte' = Byte
        BY DEF Byte
      <3> QED BY <3>4, <3>5, <3>6, Zenon
    <2> QED BY <2>3, <2>4
  <1> QED BY <1>1, <1>6, <1>7 DEF Bitmaps

LEMMA MergeFacts ==
  ASSUME NEW len \in Nat, NEW b \in Bitmaps(len), NEW v \in Bitmaps(len)
  PROVE  /\ Merge(b, v).bitmap \in Bitmaps(len)
         /\ GetElement(Merge(b, v).bitmap) = GetElement(b) \cup GetElement(v)
         /\ Merge(b, v).newKeys = GetElement(v) \ GetElement(b)
  <1>1. PICK L, c, d : /\ L = (len + 7) \div 8
                       /\ c = [i \in 1 .. L |-> b[i] \cup v[i]]
                       /\ d = [i \in 1 .. L |-> v[i] \ b[i]]
    OBVIOUS
  <1>2. L \in Nat /\ b \in [1 .. L -> Byte] /\ v \in [1 .. L -> Byte]
    BY <1>1, BitmapLength DEF Bitmaps
  <1>3. c \in [1 .. L -> Byte] /\ d \in [1 .. L -> Byte]
    BY <1>1, <1>2 DEF Byte
  <1>4. Len(b) = Len(v) /\ DOMAIN b = 1 .. L
    BY <1>2
  <1>5. Merge(b, v).bitmap = c
    BY <1>1, <1>4 DEF Merge
  <1>6. Merge(b, v).newKeys = GetElement(d)
    <2>1. Merge(b, v).newKeys =
            UNION {{8 * (i - 1) + j : j \in v[i] \ b[i]} : i \in 1 .. L}
      BY <1>4 DEF Merge
    <2>2. \A i \in 1 .. L : d[i] = v[i] \ b[i]
      BY <1>1
    <2>3. GetElement(d) = UNION {{8 * (i - 1) + j : j \in d[i]} : i \in 1 .. L}
      BY <1>3 DEF GetElement
    <2>4. {{8 * (i - 1) + j : j \in d[i]} : i \in 1 .. L} =
            {{8 * (i - 1) + j : j \in v[i] \ b[i]} : i \in 1 .. L}
      BY <2>2
    <2> QED BY <2>1, <2>3, <2>4
  <1>7. ASSUME NEW x
        PROVE  /\ x \in GetElement(c) <=> x \in GetElement(b) \/ x \in GetElement(v)
               /\ x \in GetElement(d) <=> x \in GetElement(v) /\ x \notin GetElement(b)
    <2>1. PICK o, p : o = x \div 8 + 1 /\ p = x % 8
      OBVIOUS
    <2>2. \A w \in [1 .. L -> Byte] :
             x \in GetElement(w) <=> x \in Nat /\ o \in 1 .. L /\ p \in w[o]
      BY <1>2, <2>1, InBitmap
    <2>3. o \in 1 .. L => c[o] = b[o] \cup v[o] /\ d[o] = v[o] \ b[o]
      BY <1>1
    <2> QED BY <1>2, <1>3, <2>2, <2>3
  <1>8. GetElement(c) = GetElement(b) \cup GetElement(v)
    BY <1>7
  <1>9. GetElement(d) = GetElement(v) \ GetElement(b)
    BY <1>7
  <1> QED BY <1>1, <1>3, <1>5, <1>6, <1>8, <1>9 DEF Bitmaps

-----------------------------------------------------------------------------
(* The destinations of a block: one SetKey after another.                  *)

LEMMA OneTo ==
  ASSUME NEW n \in Nat
  PROVE  IsFiniteSet(1 .. n) /\ Cardinality(1 .. n) = n
  <1>1. 1 \in Int /\ n \in Int
    OBVIOUS
  <1>2. Cardinality(1 .. n) = IF 1 > n THEN 0 ELSE n - 1 + 1
    BY ONLY <1>1, FS_Interval
  <1>3. IsFiniteSet(1 .. n)
    BY ONLY <1>1, FS_Interval
  <1> QED BY <1>2, <1>3

LEMMA SetToSeqFacts ==
  ASSUME NEW S, IsFiniteSet(S), NEW n, n = Cardinality(S), NEW q, q = SetToSeq(S)
  PROVE  /\ n \in Nat /\ DOMAIN q = 1 .. n
         /\ \A i \in 1 .. n : q[i] \in S
         /\ \A s \in S : \E i \in 1 .. n : q[i] = s
  <1>1. n \in Nat /\ ExistsBijection(1 .. n, S)
    BY FS_CardinalityType
  <1>2. \E f \in [1 .. n -> S] : IsInjective(f)
    BY <1>1 DEF ExistsBijection, Bijection, Injection
  <1>3. q \in [1 .. n -> S] /\ IsInjective(q)
    BY <1>2 DEF SetToSeq
  <1>4. q \in Injection(1 .. n, S)
    BY <1>3 DEF Injection
  <1>5. Cardinality(1 .. n) = n
    BY <1>1, OneTo
  <1>6. q \in Surjection(1 .. n, S)
    BY <1>4, <1>5, FS_Injection
  <1> QED BY <1>1, <1>3, <1>6 DEF Surjection

\* FoldLeft takes the largest index off.
Folds(q, b, k, g) ==
  g = [T \in {U \in SUBSET DOMAIN q : Cardinality(U) <= k} |->
         IF T = {} THEN b ELSE SetKey(g[T \ {Max(T)}], q[Max(T)] - FirstPShard)]

LEMMA LargestIn ==
  ASSUME NEW n \in Nat, NEW T \in SUBSET (1 .. n)
  PROVE  /\ IsFiniteSet(T) /\ Cardinality(T) \in Nat /\ Cardinality(T) <= n
         /\ T # {} => /\ Max(T) \in T
                      /\ T \ {Max(T)} \in SUBSET (1 .. n)
                      /\ Cardinality(T) # 0
                      /\ Cardinality(T \ {Max(T)}) = Cardinality(T) - 1
  <1>1. IsFiniteSet(1 .. n) /\ Cardinality(1 .. n) = n
    BY OneTo
  <1>2. IsFiniteSet(T) /\ Cardinality(T) <= n /\ Cardinality(T) \in Nat
    BY <1>1, FS_Subset, FS_CardinalityType
  <1>3. ASSUME T # {} PROVE Max(T) \in T
    <2>1. T \in SUBSET (0 .. n)
      OBVIOUS
    <2>2. PICK x \in T : \A y \in T : y <= x
      BY <1>3, <2>1, LastOne
    <2>3. \A y \in T : x >= y
      BY <2>2
    <2> QED BY <2>2, <2>3 DEF Max
  <1>4. ASSUME T # {}
        PROVE  Cardinality(T) # 0 /\ Cardinality(T \ {Max(T)}) = Cardinality(T) - 1
    BY <1>2, <1>3, <1>4, FS_EmptySet, FS_RemoveElement
  <1> QED BY <1>2, <1>3, <1>4

LEMMA FoldExists ==
  ASSUME NEW q, NEW b, NEW n \in Nat, DOMAIN q = 1 .. n
  PROVE  \E g : Folds(q, b, n, g)
  <1>3. ASSUME NEW T \in SUBSET (1 .. n)
        PROVE  /\ Cardinality(T) \in Nat /\ (Cardinality(T) <= 0 => T = {})
               /\ T # {} => /\ T \ {Max(T)} \in SUBSET (1 .. n)
                            /\ Cardinality(T \ {Max(T)}) = Cardinality(T) - 1
    <2>1. /\ IsFiniteSet(T) /\ Cardinality(T) \in Nat
          /\ T # {} => /\ T \ {Max(T)} \in SUBSET (1 .. n)
                       /\ Cardinality(T) # 0
                       /\ Cardinality(T \ {Max(T)}) = Cardinality(T) - 1
      BY ONLY n \in Nat, T \in SUBSET (1 .. n), LargestIn
    <2> QED BY <2>1
  <1>1. PICK S \in SUBSET (0 .. n) : S = {k \in 0 .. n : ~ \E g : Folds(q, b, k, g)}
    OBVIOUS
  <1>2. ASSUME S # {} PROVE FALSE
    <2>1. PICK k \in S : \A j \in S : k <= j
      BY <1>2, FirstOne
    <2>2. k \in 0 .. n /\ ~ \E g : Folds(q, b, k, g)
      BY <1>1
    <2>3. k # 0
      <3>1. PICK g : g = [T \in {U \in SUBSET (1 .. n) : Cardinality(U) <= 0} |-> b]
        OBVIOUS
      <3>2. \A T \in SUBSET (1 .. n) : Cardinality(T) <= 0 => T = {}
        BY <1>3
      <3>3. Folds(q, b, 0, g)
        BY <3>1, <3>2 DEF Folds
      <3> QED BY <2>2, <3>3
    <2>4. k - 1 \in 0 .. n /\ k - 1 \notin S
      BY <2>1, <2>2, <2>3
    <2>5. PICK f : Folds(q, b, k - 1, f)
      BY <1>1, <2>4
    <2>6. PICK D : D = {U \in SUBSET (1 .. n) : Cardinality(U) <= k}
      OBVIOUS
    <2>7. PICK g : g = [T \in D |-> IF T = {} THEN b
                                   ELSE SetKey(f[T \ {Max(T)}], q[Max(T)] - FirstPShard)]
      OBVIOUS
    <2>8. \A T \in SUBSET (1 .. n) : Cardinality(T) <= k - 1 =>
            T \in D /\ f[T] = IF T = {} THEN b
                              ELSE SetKey(f[T \ {Max(T)}], q[Max(T)] - FirstPShard)
      <3>1. \A T \in SUBSET (1 .. n) : Cardinality(T) <= k - 1 => Cardinality(T) <= k
        <4>1. k \in Nat
          BY <2>2
        <4>2. \A T \in SUBSET (1 .. n) : Cardinality(T) \in Nat
          BY <1>3
        <4> QED BY ONLY <4>1, <4>2
      <3> QED BY <2>5, <2>6, <3>1 DEF Folds
    <2>9. \A T \in SUBSET (1 .. n) : Cardinality(T) <= k - 1 => g[T] = f[T]
      BY <2>7, <2>8
    <2>10. ASSUME NEW T \in D
           PROVE  g[T] = IF T = {} THEN b
                         ELSE SetKey(g[T \ {Max(T)}], q[Max(T)] - FirstPShard)
      <3>1. CASE T = {}
        BY <2>7, <3>1
      <3>2. CASE T # {}
        <4>1. T \in SUBSET (1 .. n) /\ Cardinality(T) <= k
          BY <2>6
        <4>2. PICK U : U = T \ {Max(T)}
          OBVIOUS
        <4>3. U \in SUBSET (1 .. n) /\ Cardinality(U) <= k - 1
          <5>1. /\ Cardinality(T) \in Nat /\ U \in SUBSET (1 .. n)
                /\ Cardinality(U) = Cardinality(T) - 1
            BY <1>3, <3>2, <4>1, <4>2
          <5> QED BY <2>2, <4>1, <5>1
        <4>4. g[U] = f[U]
          BY <2>9, <4>3
        <4> QED BY <2>7, <3>2, <4>2, <4>4
      <3> QED BY <3>1, <3>2
    <2>11. Folds(q, b, k, g)
      BY <2>6, <2>7, <2>10 DEF Folds
    <2> QED BY <2>2, <2>11
  <1> QED BY <1>1, <1>2

LEMMA OutboundFolds ==
  ASSUME NEW c, NEW S, NEW q, q = SetToSeq(S), NEW n \in Nat, DOMAIN q = 1 .. n,
         NEW b, b = NewBitmap(c.PShardNum)
  PROVE  \E g : Folds(q, b, n, g) /\ OutboundDst(c, S) = g[1 .. n]
  <1>1. PICK g : g = CHOOSE h : h = [T \in SUBSET DOMAIN q |->
                   IF T = {} THEN b ELSE SetKey(h[T \ {Max(T)}], q[Max(T)] - FirstPShard)]
    OBVIOUS
  <1>2. OutboundDst(c, S) = g[DOMAIN q]
    BY <1>1 DEF OutboundDst, FoldLeft, MapThenFoldSet
  <1>3. {U \in SUBSET DOMAIN q : Cardinality(U) <= n} = SUBSET DOMAIN q
    BY LargestIn
  <1>4. PICK h : Folds(q, b, n, h)
    BY FoldExists
  <1>5. h = [T \in SUBSET DOMAIN q |->
               IF T = {} THEN b ELSE SetKey(h[T \ {Max(T)}], q[Max(T)] - FirstPShard)]
    BY <1>3, <1>4 DEF Folds
  <1>6. g = [T \in SUBSET DOMAIN q |->
               IF T = {} THEN b ELSE SetKey(g[T \ {Max(T)}], q[Max(T)] - FirstPShard)]
    BY <1>1, <1>5
  <1>7. Folds(q, b, n, g)
    BY <1>3, <1>6 DEF Folds
  <1> QED BY <1>2, <1>7

LEMMA OutboundFacts ==
  ASSUME NEW c, c.PShardNum \in Nat,
         NEW S \in SUBSET (FirstPShard .. FirstPShard + c.PShardNum - 1)
  PROVE  /\ OutboundDst(c, S) \in Bitmaps(c.PShardNum)
         /\ GetElement(OutboundDst(c, S)) = {s - FirstPShard : s \in S}
  <1>1. PICK P, q, n, b : /\ P = c.PShardNum /\ q = SetToSeq(S) /\ n = Cardinality(S)
                          /\ b = NewBitmap(P)
    OBVIOUS
  <1>2. P \in Nat /\ \A s \in S : s \in Nat /\ s - FirstPShard \in 0 .. P - 1
    BY <1>1 DEF FirstPShard
  <1>3. IsFiniteSet(S)
    <2>1. IsFiniteSet(FirstPShard .. FirstPShard + P - 1)
      BY <1>2, FS_Interval DEF FirstPShard
    <2> QED BY <1>1, <2>1, FS_Subset
  <1>4. /\ n \in Nat /\ DOMAIN q = 1 .. n
        /\ \A i \in 1 .. n : q[i] \in S
        /\ \A s \in S : \E i \in 1 .. n : q[i] = s
    BY ONLY <1>1, <1>3, SetToSeqFacts
  <1>5. PICK g : Folds(q, b, n, g) /\ OutboundDst(c, S) = g[1 .. n]
    BY <1>1, <1>4, OutboundFolds
  <1>6. \A T \in SUBSET (1 .. n) :
          g[T] = IF T = {} THEN b ELSE SetKey(g[T \ {Max(T)}], q[Max(T)] - FirstPShard)
    <2>1. \A T \in SUBSET (1 .. n) : Cardinality(T) <= n
      BY <1>4, LargestIn
    <2> QED BY <1>4, <1>5, <2>1 DEF Folds
  <1> DEFINE Right(k) == /\ g[1 .. k] \in Bitmaps(P)
                         /\ GetElement(g[1 .. k]) = {q[i] - FirstPShard : i \in 1 .. k}
  <1>7. Right(0)
    <2>1. g[1 .. 0] = b
      <3>1. 1 .. 0 \in SUBSET (1 .. n) /\ 1 .. 0 = {}
        OBVIOUS
      <3>2. g[1 .. 0] = IF 1 .. 0 = {} THEN b
                        ELSE SetKey(g[(1 .. 0) \ {Max(1 .. 0)}], q[Max(1 .. 0)] - FirstPShard)
        BY ONLY <1>6, <3>1
      <3> QED BY ONLY <3>1, <3>2
    <2> QED BY <1>1, <1>2, <2>1, NewBitmapFacts
  <1>8. ASSUME NEW k \in 1 .. n, Right(k - 1) PROVE Right(k)
    <2>1. Max(1 .. k) = k
      <3>1. k \in 1 .. k /\ \A y \in 1 .. k : k >= y
        OBVIOUS
      <3>2. \A x \in 1 .. k : x >= k => x = k
        OBVIOUS
      <3> QED BY <3>1, <3>2 DEF Max
    <2>2. (1 .. k) \ {k} = 1 .. k - 1 /\ 1 .. k # {} /\ 1 .. k \in SUBSET (1 .. n)
      <3>1. k \in Nat /\ k # 0 /\ n \in Nat /\ k <= n
        BY <1>4
      <3>2. (1 .. k) \ {k} = 1 .. k - 1
        BY ONLY <3>1
      <3>3. k \in 1 .. k
        BY ONLY <3>1
      <3>4. 1 .. k \in SUBSET (1 .. n)
        BY ONLY <3>1
      <3> QED BY <3>2, <3>3, <3>4
    <2>3. PICK d, e, o : d = g[1 .. k - 1] /\ e = g[1 .. k] /\ o = q[k] - FirstPShard
      OBVIOUS
    <2>4. e = SetKey(d, o)
      <3>1. g[1 .. k] = SetKey(g[(1 .. k) \ {Max(1 .. k)}], q[Max(1 .. k)] - FirstPShard)
        BY ONLY <1>6, <2>2
      <3> QED BY <2>1, <2>2, <2>3, <3>1
    <2>5. /\ d \in Bitmaps(P)
          /\ GetElement(d) = {q[i] - FirstPShard : i \in 1 .. k - 1}
      BY <1>8, <2>3
    <2>6. o \in 0 .. P - 1
      BY <1>2, <1>4, <2>3
    <2>7. e \in Bitmaps(P) /\ GetElement(e) = GetElement(d) \cup {o}
      BY ONLY <1>2, <2>4, <2>5, <2>6, SetKeyFacts
    <2>8. {q[i] - FirstPShard : i \in 1 .. k - 1} \cup {o} = {q[i] - FirstPShard : i \in 1 .. k}
      <3>1. \A i : i \in 1 .. k <=> i \in 1 .. k - 1 \/ i = k
        OBVIOUS
      <3> QED BY <2>3, <3>1
    <2> QED BY <2>3, <2>5, <2>7, <2>8
  <1> HIDE DEF Right
  <1>9. PICK W \in SUBSET (0 .. n) : W = {k \in 0 .. n : ~ Right(k)}
    OBVIOUS
  <1>10. ASSUME W # {} PROVE FALSE
    <2>1. PICK k \in W : \A j \in W : k <= j
      BY <1>4, <1>10, FirstOne
    <2>2. k \in 0 .. n /\ ~ Right(k)
      BY <1>9
    <2>3. k # 0
      BY <1>7, <2>2
    <2>4. k \in 1 .. n /\ k - 1 \in 0 .. n /\ ~(k <= k - 1)
      BY <1>4, <2>2, <2>3
    <2>5. Right(k - 1)
      BY <1>9, <2>1, <2>4
    <2> QED BY <1>8, <2>2, <2>4, <2>5
  <1>11. Right(n)
    BY <1>4, <1>9, <1>10
  <1>12. {q[i] - FirstPShard : i \in 1 .. n} = {s - FirstPShard : s \in S}
    BY <1>4
  <1> QED BY <1>1, <1>5, <1>11, <1>12 DEF Right

-----------------------------------------------------------------------------
(* The committee that votes.                                               *)

Threshold == (size * 2) \div 3 + 1

LEMMA HomeNode ==
  ASSUME network \in DOMAIN Networks, shard \in PShardIds[network],
         NEW m, m = Min(Members(shard)), NEW x \in Members(shard)
  PROVE  /\ x \in NodeIds /\ x \in Nat /\ Conf(x).ShardId = shard
         /\ nodeId2Key(Conf(x)) = x - m
         /\ x - m \in 0 .. size - 1 /\ x - m + m = x
         /\ \A k \in Nat : key2NodeId(Conf(x), k) = k + m
  <1>1. /\ shard \in ShardIds[network] /\ NodeIds \subseteq Nat
        /\ x \in NodeIds /\ Conf(x).ShardId = shard
    BY Places
  <1>2. size \in Nat /\ size # 0 /\ size # 1
    BY NetworkFacts
  <1>3. /\ m \in Nat /\ Members(shard) = m .. m + size - 1
        /\ nodeId2Key(Conf(x)) = x - m
        /\ \A k \in Nat : key2NodeId(Conf(x), k) = k + m
    <2>1. m \in Nat /\ Members(shard) = m .. m + size - 1
      BY Keys
    <2>2. nodeId2Key(Conf(x)) = x - m
      BY Keys, Zenon
    <2>3. \A k \in Nat : key2NodeId(Conf(x), k) = k + m
      BY Keys, Zenon
    <2> QED BY <2>1, <2>2, <2>3, Zenon
  <1>4. x - m \in 0 .. size - 1 /\ x - m + m = x
    <2>1. x \in m .. m + size - 1 /\ m \in Nat /\ size \in Nat
      BY <1>2, <1>3, Zenon
    <2>2. x \in Int /\ m <= x /\ x <= m + size - 1
      BY ONLY <2>1
    <2> QED BY ONLY <2>1, <2>2
  <1> QED BY <1>1, <1>3, <1>4

LEMMA Home ==
  ASSUME network \in DOMAIN Networks, shard \in PShardIds[network]
  PROVE  /\ size \in Nat /\ size # 0 /\ size # 1
         /\ Min(Members(shard)) \in Nat /\ IsFiniteSet(Members(shard))
         /\ Members(shard) \subseteq NodeIds /\ NodeIds \subseteq Nat
         /\ LeaderOf(shard) \in Members(shard)
         /\ Validators = Members(shard) \ {LeaderOf(shard)}
  <1>1. /\ shard \in ShardIds[network] /\ NodeIds \subseteq Nat
        /\ Members(shard) \subseteq NodeIds
    BY Places
  <1>2. size \in Nat /\ size # 0 /\ size # 1
    BY NetworkFacts
  <1>3. PICK m : m = Min(Members(shard))
    OBVIOUS
  <1>4. m \in Nat /\ Members(shard) = m .. m + size - 1
    BY <1>3, Keys
  <1>5. LeaderOf(shard) \in Members(shard)
    BY <1>1, Leaders
  <1>6. IsFiniteSet(Members(shard))
    <2>1. m \in Int /\ m + size - 1 \in Int
      BY <1>2, <1>4
    <2> QED BY <1>4, <2>1, FS_Interval
  <1> QED BY <1>1, <1>2, <1>3, <1>4, <1>5, <1>6 DEF Validators

LEMMA HomeConf ==
  ASSUME network \in DOMAIN Networks, shard \in PShardIds[network],
         NEW x \in NodeIds
  PROVE  /\ Conf(x).NodeNumPerShard = size /\ Conf(x).ConsensusThreshold = Threshold
         /\ getKeyOffset(Conf(x), shard) = Min(Members(shard))
         /\ PubKeyDB(Conf(x), shard) = Members(shard)
         /\ Conf(x).PShardNum = Cardinality(PShardIds[network])
         /\ Conf(x).PShardNum \in Nat
         /\ PShardIds[network] = FirstPShard .. FirstPShard + Conf(x).PShardNum - 1
         /\ shard - FirstPShard \in 0 .. Conf(x).PShardNum - 1
  <1>1. PICK t, P : t = Networks[network].topo /\ P = PNum(t)
    OBVIOUS
  <1>2. /\ WellFormed(t) /\ size \in Nat \ {0}
        /\ PShardIds[network] = PShards(t) /\ shard \in Shards(t)
        /\ Members(shard) = NodesOf(t, size, shard)
    BY <1>1, NetworkFacts DEF Shards
  <1>3. /\ Conf(x).NodeNumPerShard = size /\ Conf(x).ConsensusThreshold = Threshold
        /\ Conf(x).PShardNum = P /\ Conf(x).Nodes = Nodes(t, size)
    BY <1>1, ConfFields DEF Threshold
  <1>4. PubKeyDB(Conf(x), shard) = Members(shard)
    BY <1>2, <1>3, NodeLists DEF PubKeyDB
  <1>5. P \in Nat /\ PShardIds[network] = FirstPShard .. FirstPShard + P - 1
    BY <1>1, <1>2, PShardFacts DEF PShards
  <1>6. Cardinality(PShardIds[network]) = P
    <2>1. PICK a, b : a = FirstPShard /\ b = FirstPShard + P - 1
      OBVIOUS
    <2>2. a \in Int /\ b \in Int /\ (a > b => P = 0) /\ b - a + 1 = P
      BY <1>5, <2>1 DEF FirstPShard
    <2>3. Cardinality(a .. b) = IF a > b THEN 0 ELSE b - a + 1
      BY ONLY <2>2, FS_Interval
    <2> QED BY <1>5, <2>1, <2>2, <2>3
  <1>7. shard - FirstPShard \in 0 .. P - 1
    BY <1>5 DEF FirstPShard
  <1>8. getKeyOffset(Conf(x), shard) = Min(Members(shard))
    BY Keys
  <1> QED BY <1>3, <1>4, <1>5, <1>6, <1>7, <1>8

\* Whether there are enough does not depend on who asks.
LEMMA EnoughFacts ==
  ASSUME network \in DOMAIN Networks, shard \in PShardIds[network],
         NEW x \in NodeIds, NEW b
  PROVE  Enough(Conf(x), b) <=> GetSize(b) >= Threshold
  BY HomeConf DEF Enough

\* Sets of members and their keys.
KeysOf(S) == {x - Min(Members(shard)) : x \in S}

LEMMA KeysFacts ==
  ASSUME network \in DOMAIN Networks, shard \in PShardIds[network],
         NEW S \in SUBSET Members(shard), NEW m, m = Min(Members(shard))
  PROVE  /\ KeysOf(S) \subseteq 0 .. size - 1
         /\ {k + m : k \in KeysOf(S)} = S
         /\ \A x \in Members(shard) : x - m \in KeysOf(S) <=> x \in S
         /\ \A x \in Members(shard) : KeysOf(S \cup {x}) = KeysOf(S) \cup {x - m}
  <1>1. /\ m \in Nat
        /\ \A x \in Members(shard) : x - m \in 0 .. size - 1 /\ x - m + m = x /\ x \in Nat
    BY Home, HomeNode
  <1>2. \A T : KeysOf(T) = {x - m : x \in T}
    BY DEF KeysOf
  <1>3. {k + m : k \in KeysOf(S)} = S
    <2>1. ASSUME NEW x \in S PROVE \E k \in KeysOf(S) : x = k + m
      <3>1. x - m \in KeysOf(S) /\ x - m + m = x
        BY <1>1, <1>2
      <3> QED BY <3>1
    <2>2. ASSUME NEW k \in KeysOf(S) PROVE k + m \in S
      <3>1. PICK x \in S : k = x - m
        BY <1>2
      <3> QED BY <1>1, <3>1
    <2> QED BY <2>1, <2>2
  <1>4. ASSUME NEW x \in Members(shard) PROVE x - m \in KeysOf(S) <=> x \in S
    <2>1. ASSUME NEW y \in S, x - m = y - m PROVE x = y
      BY <1>1, <2>1
    <2> QED BY <1>2, <2>1
  <1>5. \A x : KeysOf(S \cup {x}) = KeysOf(S) \cup {x - m}
    BY <1>2
  <1>6. KeysOf(S) \subseteq 0 .. size - 1
    BY <1>1, <1>2
  <1> QED BY <1>3, <1>4, <1>5, <1>6

LEMMA OwnBitmapFacts ==
  ASSUME network \in DOMAIN Networks, shard \in PShardIds[network],
         NEW x \in Members(shard), NEW b, b = OwnBitmap(Conf(x))
  PROVE  /\ b \in Bitmaps(size) /\ GetElement(b) = {x - Min(Members(shard))}
         /\ key2NodeId(Conf(LeaderOf(shard)), Min(GetElement(b))) = x
  <1>1. PICK M, m, k : M = Members(shard) /\ m = Min(M) /\ k = x - m
    OBVIOUS
  <1>2. /\ size \in Nat /\ M \subseteq NodeIds /\ LeaderOf(shard) \in M
        /\ nodeId2Key(Conf(x)) = k /\ k \in 0 .. size - 1 /\ k + m = x
        /\ \A i \in Nat : key2NodeId(Conf(LeaderOf(shard)), i) = i + m
    <2>1. PICK l : l = LeaderOf(shard)
      OBVIOUS
    <2>2. size \in Nat /\ M \subseteq NodeIds /\ l \in Members(shard) /\ m = Min(Members(shard))
      BY <1>1, <2>1, Home
    <2>3. \A i \in Nat : key2NodeId(Conf(l), i) = i + m
      BY <2>2, HomeNode
    <2>4. nodeId2Key(Conf(x)) = x - m /\ x - m \in 0 .. size - 1 /\ x - m + m = x
      BY <2>2, HomeNode
    <2> QED BY <1>1, <2>1, <2>2, <2>3, <2>4
  <1>3. Conf(x).NodeNumPerShard = size
    BY <1>1, <1>2, HomeConf
  <1>4. b = SetKey(NewBitmap(size), k)
    BY <1>2, <1>3 DEF OwnBitmap
  <1>5. b \in Bitmaps(size) /\ GetElement(b) = {k}
    BY <1>2, <1>4, NewBitmapFacts, SetKeyFacts
  <1>6. Min({k}) = k
    BY <1>2 DEF Min
  <1> QED BY <1>1, <1>2, <1>5, <1>6

LEMMA AddSigned ==
  ASSUME NEW S \in SUBSET NodeIds, NEW x \in NodeIds, x \notin S
  PROVE  Add(Signed(S), Signed({x})) = Signed(S \cup {x})
  BY DEF Add, Signed

LEMMA SignedApart ==
  ASSUME NEW S \in SUBSET NodeIds, NEW x \in NodeIds, x \notin S
  PROVE  Signed(S \cup {x}) # Signed(S)
  <1>1. Signed(S \cup {x})[x] = 1 /\ Signed(S)[x] = 0
    BY DEF Signed
  <1> QED BY <1>1

LEMMA SignedType == \A S : Signed(S) \in [NodeIds -> Nat]
  BY DEF Signed

-----------------------------------------------------------------------------
(* The invariant.                                                          *)

\* The nodes that the block concerns.
Concerned == {shard, Above} \cup meant
Reach == UNION {Members(s) : s \in Concerned}

LEMMA ReachFacts ==
  ASSUME network \in DOMAIN Networks, shard \in PShardIds[network],
         meant \subseteq PShardIds[network]
  PROVE  /\ Concerned \subseteq ShardIds[network]
         /\ Reach \subseteq NodeIds
         /\ Members(shard) \subseteq Reach
         /\ \A x \in Reach : x \in NodeIds /\ Conf(x).ShardId \in Concerned
         /\ \A s \in PShardIds[network] : ~(s < FirstPShard) /\ s \in Nat
  <1>1. /\ shard \in ShardIds[network] /\ meant \subseteq ShardIds[network]
        /\ \A s \in ShardIds[network] : \A x \in Members(s) :
             x \in NodeIds /\ Conf(x).ShardId = s
    BY Places
  <1>2. /\ Above \in ShardIds[network]
        /\ \A s \in PShardIds[network] : ~(s < FirstPShard) /\ s \in Nat
    BY AboveShard
  <1>3. Concerned \subseteq ShardIds[network] /\ shard \in Concerned
    BY <1>1, <1>2 DEF Concerned
  <1>4. \A x \in Reach : x \in NodeIds /\ Conf(x).ShardId \in Concerned
    BY <1>1, <1>3 DEF Reach
  <1>5. Members(shard) \subseteq Reach
    BY <1>3 DEF Reach
  <1> QED BY <1>2, <1>3, <1>4, <1>5

\* What the invariant says of a state, in these terms.
LEMMA InvFacts ==
  ASSUME CommitteeInv
  PROVE  /\ network \in DOMAIN Networks
         /\ shard \in PShardIds[network] /\ meant \subseteq PShardIds[network]
         /\ bitmap \in Bitmaps(size) /\ sig \in [NodeIds -> Nat]
         /\ committed \subseteq Members(shard) /\ counted \subseteq Validators
         /\ headers \subseteq Reach /\ inbox \subseteq Reach /\ inbox \subseteq up
         /\ up \subseteq NodeIds /\ present \subseteq up
         /\ GetElement(bitmap) = KeysOf(counted \cup {LeaderOf(shard)})
         /\ sig = Signed(counted \cup {LeaderOf(shard)})
         /\ cert = {} \/ cert = {[bitmap |-> bitmap, sig |-> sig]}
         /\ cert # {} <=> GetSize(bitmap) >= Threshold
         /\ GetElement(dst) = {s - FirstPShard : s \in meant}
  <1>1. TypeOK /\ VotesCounted /\ CertOfVotes /\ DstMeant /\ OnlyDestinations
    BY DEF CommitteeInv
  <1>2. /\ network \in DOMAIN Networks
        /\ shard \in PShardIds[network] /\ meant \subseteq PShardIds[network]
        /\ bitmap \in Bitmaps(size) /\ sig \in [NodeIds -> Nat]
        /\ committed \subseteq Members(shard) /\ counted \subseteq Validators
        /\ inbox \subseteq up /\ up \subseteq NodeIds /\ present \subseteq up
    BY <1>1 DEF TypeOK, Bitmaps
  <1>3. headers \subseteq Reach /\ inbox \subseteq Reach
    BY <1>1 DEF OnlyDestinations, Reach, Concerned
  <1>4. /\ GetElement(bitmap) = KeysOf(counted \cup {LeaderOf(shard)})
        /\ sig = Signed(counted \cup {LeaderOf(shard)})
    BY <1>1 DEF VotesCounted, KeysOf
  <1>5. LeaderOf(shard) \in NodeIds
    BY <1>2, Home
  <1>6. /\ cert = {} \/ cert = {[bitmap |-> bitmap, sig |-> sig]}
        /\ cert # {} <=> GetSize(bitmap) >= Threshold
    BY <1>1, <1>2, <1>5, EnoughFacts DEF CertOfVotes
  <1> QED BY <1>1, <1>2, <1>3, <1>4, <1>6 DEF DstMeant

\* What the topology determines does not change.
LEMMA Fixed ==
  ASSUME network' = network, shard' = shard, meant' = meant
  PROVE  /\ NodeIds' = NodeIds /\ size' = size
         /\ (PShardIds[network])' = PShardIds[network]
         /\ Members(shard)' = Members(shard)
         /\ LeaderOf(shard)' = LeaderOf(shard)
         /\ Validators' = Validators /\ Reach' = Reach
         /\ \A S : Signed(S)' = Signed(S)
  BY DEF NodeIds, size, Members, LeaderOf, Conf, Validators, Reach, Concerned,
         Above, Signed

\* A state with the same topology and block, whose other parts are right.
LEMMA Kept ==
  ASSUME CommitteeInv,
         network' = network, shard' = shard, meant' = meant, dst' = dst,
         bitmap' \in Bitmaps(size),
         counted' \subseteq Validators,
         GetElement(bitmap') = KeysOf(counted' \cup {LeaderOf(shard)}),
         sig' = Signed(counted' \cup {LeaderOf(shard)}),
         cert' = {} \/ cert' = {[bitmap |-> bitmap', sig |-> sig']},
         cert' # {} <=> GetSize(bitmap') >= Threshold,
         committed' \subseteq Members(shard),
         headers' \subseteq Reach, inbox' \subseteq Reach, inbox' \subseteq up',
         up' \subseteq NodeIds, present' \subseteq up'
  PROVE  CommitteeInv'
  <1>1. /\ network \in DOMAIN Networks
        /\ shard \in PShardIds[network] /\ meant \subseteq PShardIds[network]
        /\ LeaderOf(shard) \in NodeIds /\ Reach \subseteq NodeIds
    BY InvFacts, Home, ReachFacts
  <1>2. /\ NodeIds' = NodeIds /\ size' = size
        /\ (PShardIds[network])' = PShardIds[network]
        /\ Members(shard)' = Members(shard)
        /\ LeaderOf(shard)' = LeaderOf(shard)
        /\ Validators' = Validators /\ Reach' = Reach
        /\ \A S : Signed(S)' = Signed(S)
    BY Fixed
  <1>3. TypeOK'
    <2>1. (dst \in [1 .. (Cardinality(PShardIds[network]) + 7) \div 8 -> Byte])'
      <3>1. dst \in [1 .. (Cardinality(PShardIds[network]) + 7) \div 8 -> Byte]
        BY DEF CommitteeInv, TypeOK
      <3> QED BY <3>1
    <2>2. Cardinality(cert') <= 1
      <3>1. PICK c : c = [bitmap |-> bitmap', sig |-> sig']
        OBVIOUS
      <3>2. Cardinality({}) = 0 /\ Cardinality({c}) = 1
        BY FS_EmptySet, FS_Singleton
      <3>3. cert' = {} \/ cert' = {c}
        BY <3>1
      <3> QED BY <3>2, <3>3
    <2>3. sig' \in [NodeIds -> Nat]
      BY SignedType
    <2>4. headers' \subseteq NodeIds
      BY <1>1
    <2> QED BY <1>1, <1>2, <2>1, <2>2, <2>3, <2>4 DEF TypeOK, Bitmaps
  <1>4. VotesCounted'
    <2>1. GetElement(bitmap') =
            {x - Min(Members(shard)) : x \in counted' \cup {LeaderOf(shard)}}
      BY DEF KeysOf
    <2>2. Signed(counted \cup {LeaderOf(shard)})' = Signed(counted' \cup {LeaderOf(shard)})
      BY <1>2 DEF Signed
    <2> QED BY <1>2, <2>1, <2>2 DEF VotesCounted
  <1>5. CertOfVotes'
    <2>1. Enough(Conf(LeaderOf(shard)), bitmap)' <=> GetSize(bitmap') >= Threshold
      <3>1. Conf(LeaderOf(shard))' = Conf(LeaderOf(shard))
        BY <1>2 DEF Conf
      <3>2. Conf(LeaderOf(shard)).ConsensusThreshold = Threshold
        BY <1>1, HomeConf
      <3> QED BY <3>1, <3>2 DEF Enough
    <2> QED BY <2>1 DEF CertOfVotes
  <1>6. DstMeant'
    BY DEF CommitteeInv, DstMeant
  <1>7. OnlyDestinations'
    BY <1>2 DEF OnlyDestinations, Reach, Concerned
  <1> QED BY <1>3, <1>4, <1>5, <1>6, <1>7 DEF CommitteeInv

LEMMA InvInit ==
  ASSUME Init
  PROVE  CommitteeInv
  <1>1. PICK w \in Networks[network].blocks : shard = w[1] /\ meant = w[2]
    BY DEF Init
  <1>2. network \in DOMAIN Networks
    BY DEF Init
  <1>3. shard \in PShardIds[network] /\ meant \subseteq PShardIds[network]
    BY <1>1, <1>2, ConfigAssumption DEF PShardIds
  <1>4. PICK l : l = LeaderOf(shard)
    OBVIOUS
  <1>5. /\ l \in Members(shard) /\ l \in NodeIds
        /\ size \in Nat /\ size # 0 /\ size # 1
    BY <1>2, <1>3, <1>4, Home
  <1>6. /\ bitmap \in Bitmaps(size)
        /\ GetElement(bitmap) = {l - Min(Members(shard))}
    BY <1>2, <1>3, <1>4, <1>5, OwnBitmapFacts DEF Init
  <1>7. /\ dst \in [1 .. (Cardinality(PShardIds[network]) + 7) \div 8 -> Byte]
        /\ DstMeant
    <2>1. PICK c, P : c = Conf(l) /\ P = Cardinality(PShardIds[network])
      OBVIOUS
    <2>2. /\ c.PShardNum = P /\ c.PShardNum \in Nat
          /\ PShardIds[network] = FirstPShard .. FirstPShard + c.PShardNum - 1
      BY <1>2, <1>3, <1>5, <2>1, HomeConf
    <2>3. /\ OutboundDst(c, meant) \in Bitmaps(c.PShardNum)
          /\ GetElement(OutboundDst(c, meant)) = {s - FirstPShard : s \in meant}
      BY ONLY <1>3, <2>2, OutboundFacts
    <2>4. dst = OutboundDst(c, meant)
      BY <1>4, <2>1 DEF Init
    <2> QED BY <2>1, <2>2, <2>3, <2>4 DEF Bitmaps, DstMeant
  <1>8. TypeOK
    <2>1. up \subseteq NodeIds
      BY DEF Init
    <2>2. sig \in [NodeIds -> Nat]
      BY SignedType DEF Init
    <2>3. Cardinality(cert) <= 1
      BY FS_EmptySet DEF Init
    <2> QED BY <1>2, <1>3, <1>6, <1>7, <2>1, <2>2, <2>3 DEF TypeOK, Bitmaps, Init
  <1>9. VotesCounted
    BY <1>4, <1>6 DEF VotesCounted, Init
  <1>10. CertOfVotes
    <2>1. GetSize(bitmap) = 1
      BY <1>6, FS_Singleton DEF GetSize
    <2>2. ~(1 >= Threshold)
      BY <1>5 DEF Threshold
    <2>3. ~Enough(Conf(l), bitmap)
      BY <1>2, <1>3, <1>5, <2>1, <2>2, EnoughFacts
    <2> QED BY <1>4, <2>3 DEF CertOfVotes, Init
  <1>11. OnlyDestinations
    BY DEF OnlyDestinations, Init
  <1> QED BY <1>7, <1>8, <1>9, <1>10, <1>11 DEF CommitteeInv

LEMMA LaunchKeeps ==
  ASSUME CommitteeInv, NEW x \in NodeIds, Launch(x)
  PROVE  CommitteeInv'
  <1>1. up' = up \cup {x}
    BY DEF Launch
  <1>2. UNCHANGED <<network, shard, dst, bitmap, sig, cert, committed,
                    headers, inbox, counted, present, meant>>
    BY DEF Launch
  <1> QED BY <1>1, <1>2, InvFacts, Kept

LEMMA IdleKeeps ==
  ASSUME CommitteeInv, UNCHANGED vars
  PROVE  CommitteeInv'
  <1>1. UNCHANGED <<network, shard, dst, bitmap, sig, cert, committed,
                    headers, inbox, up, counted, present, meant>>
    BY DEF vars
  <1> QED BY <1>1, InvFacts, Kept

-----------------------------------------------------------------------------
(* Votes.                                                                  *)

\* The vote of a validator is merged if it is new, and counts once.
LEMMA VoteMerged ==
  ASSUME CommitteeInv, NEW v \in Validators, OnPrecommitVoteMsg(v),
         NEW S, S = counted \cup {v, LeaderOf(shard)}
  PROVE  /\ bitmap' \in Bitmaps(size) /\ GetElement(bitmap') = KeysOf(S)
         /\ sig' = Signed(S)
  <1>1. PICK l, m, vote, c : /\ l = LeaderOf(shard) /\ m = Min(Members(shard))
                             /\ vote = OwnBitmap(Conf(v)) /\ c = Conf(l)
    OBVIOUS
  <1>2. PICK merged : merged = Merge(bitmap, vote)
    OBVIOUS
  <1>3. IF VerifySign(c, Signed({v}), key2NodeId(c, Min(GetElement(vote))), c.ShardId)
            /\ merged.newKeys # {}
        THEN bitmap' = merged.bitmap /\ sig' = Add(sig, Signed({v}))
        ELSE UNCHANGED <<bitmap, sig>>
    BY <1>1, <1>2 DEF OnPrecommitVoteMsg
  <1>4. PICK D : D = counted \cup {l}
    OBVIOUS
  <1>5. /\ network \in DOMAIN Networks /\ shard \in PShardIds[network]
        /\ bitmap \in Bitmaps(size) /\ counted \subseteq Validators
        /\ GetElement(bitmap) = KeysOf(D) /\ sig = Signed(D)
    BY <1>1, <1>4, InvFacts
  <1>6. /\ size \in Nat /\ Members(shard) \subseteq NodeIds
        /\ l \in Members(shard) /\ v \in Members(shard)
        /\ D \subseteq Members(shard) /\ S = D \cup {v}
    BY <1>1, <1>4, <1>5, Home
  <1>7. /\ vote \in Bitmaps(size) /\ GetElement(vote) = {v - m}
        /\ key2NodeId(c, Min(GetElement(vote))) = v
    BY <1>1, <1>5, <1>6, OwnBitmapFacts
  <1>8. /\ merged.bitmap \in Bitmaps(size)
        /\ GetElement(merged.bitmap) = GetElement(bitmap) \cup GetElement(vote)
        /\ merged.newKeys = GetElement(vote) \ GetElement(bitmap)
    BY ONLY <1>2, <1>5, <1>6, <1>7, MergeFacts
  <1>9. (v - m \in KeysOf(D) <=> v \in D) /\ KeysOf(S) = KeysOf(D) \cup {v - m}
    BY <1>1, <1>5, <1>6, KeysFacts
  <1>10. VerifySign(c, Signed({v}), v, c.ShardId)
    <2>1. c.ShardId = shard /\ PubKeyDB(c, shard) = Members(shard)
      BY <1>1, <1>5, <1>6, HomeNode, HomeConf
    <2> QED BY <1>6, <2>1 DEF VerifySign
  <1>11. CASE v \in D
    <2>1. UNCHANGED <<bitmap, sig>>
      BY <1>3, <1>5, <1>7, <1>8, <1>9, <1>11
    <2>2. S = D
      BY <1>6, <1>11
    <2> QED BY <1>5, <2>1, <2>2
  <1>12. CASE v \notin D
    <2>1. bitmap' = merged.bitmap /\ sig' = Add(sig, Signed({v}))
      BY <1>3, <1>5, <1>7, <1>8, <1>9, <1>10, <1>12
    <2>2. Add(Signed(D), Signed({v})) = Signed(D \cup {v})
      BY <1>6, <1>12, AddSigned
    <2> QED BY <1>5, <1>6, <1>7, <1>8, <1>9, <2>1, <2>2
  <1> QED BY <1>11, <1>12

\* Who commits sends the header to nobody but the RShard above.
LEMMA Committed ==
  ASSUME CommitteeInv, NEW x \in Members(shard), Commit(x)
  PROVE  /\ committed' \subseteq Members(shard)
         /\ headers' \subseteq Reach /\ inbox' \subseteq Reach /\ inbox' \subseteq up
  <1>1. /\ network \in DOMAIN Networks /\ shard \in PShardIds[network]
        /\ meant \subseteq PShardIds[network] /\ up \subseteq NodeIds
        /\ committed \subseteq Members(shard)
        /\ headers \subseteq Reach /\ inbox \subseteq Reach /\ inbox \subseteq up
    BY InvFacts
  <1>2. PICK T : T = {Conf(x).RShardId}
    OBVIOUS
  <1>3. /\ committed' = committed \cup {x} /\ headers' = headers \cup {x}
        /\ inbox' = inbox \cup Gossip(x, T)
    BY <1>2 DEF Commit
  <1>4. T = {Above} /\ T \subseteq ShardIds[network]
    BY <1>1, <1>2, AboveShard
  <1>5. Gossip(x, T) \subseteq up \cap UNION {Members(s) : s \in T}
    BY <1>1, <1>4, Gossiped
  <1>6. UNION {Members(s) : s \in T} \subseteq Reach
    BY <1>4 DEF Reach, Concerned
  <1>7. x \in Reach
    BY <1>1, ReachFacts
  <1> QED BY <1>1, <1>3, <1>5, <1>6, <1>7

LEMMA VoteKeeps ==
  ASSUME CommitteeInv, NEW v \in Validators, OnPrecommitVoteMsg(v)
  PROVE  CommitteeInv'
  <1>1. PICK l : l = LeaderOf(shard)
    OBVIOUS
  <1>2. /\ network \in DOMAIN Networks /\ shard \in PShardIds[network]
        /\ committed \subseteq Members(shard) /\ counted \subseteq Validators
        /\ headers \subseteq Reach /\ inbox \subseteq Reach /\ inbox \subseteq up
        /\ up \subseteq NodeIds /\ present \subseteq up
        /\ cert # {} <=> GetSize(bitmap) >= Threshold
    BY InvFacts
  <1>3. l \in Members(shard) /\ l \in NodeIds
    BY <1>1, <1>2, Home
  <1>4. /\ ~Enough(Conf(l), bitmap)
        /\ counted' = counted \cup {v}
        /\ IF Enough(Conf(l), bitmap')
           THEN /\ cert' = {[bitmap |-> bitmap', sig |-> sig']}
                /\ present' = up
                /\ Commit(l)
           ELSE UNCHANGED <<cert, present, committed, headers, inbox>>
        /\ network' = network /\ shard' = shard /\ dst' = dst /\ up' = up
        /\ meant' = meant
    BY <1>1 DEF OnPrecommitVoteMsg
  <1>5. /\ Enough(Conf(l), bitmap) <=> GetSize(bitmap) >= Threshold
        /\ Enough(Conf(l), bitmap') <=> GetSize(bitmap') >= Threshold
    BY <1>2, <1>3, EnoughFacts
  <1>6. cert = {}
    BY <1>2, <1>4, <1>5
  <1>7. PICK S : S = counted \cup {v, l}
    OBVIOUS
  <1>8. /\ bitmap' \in Bitmaps(size) /\ GetElement(bitmap') = KeysOf(S)
        /\ sig' = Signed(S)
    BY <1>1, <1>7, VoteMerged
  <1>9. S = counted' \cup {LeaderOf(shard)} /\ counted' \subseteq Validators
    BY <1>1, <1>2, <1>4, <1>7
  <1>10. CASE Enough(Conf(l), bitmap')
    <2>1. cert' = {[bitmap |-> bitmap', sig |-> sig']} /\ present' = up /\ Commit(l)
      BY <1>4, <1>10
    <2>2. /\ committed' \subseteq Members(shard)
          /\ headers' \subseteq Reach /\ inbox' \subseteq Reach /\ inbox' \subseteq up
      BY <1>3, <2>1, Committed
    <2> QED BY <1>2, <1>4, <1>5, <1>8, <1>9, <1>10, <2>1, <2>2, Kept
  <1>11. CASE ~Enough(Conf(l), bitmap')
    <2>1. UNCHANGED <<cert, present, committed, headers, inbox>>
      BY <1>4, <1>11
    <2> QED BY <1>2, <1>4, <1>5, <1>6, <1>8, <1>9, <1>11, <2>1, Kept
  <1> QED BY <1>10, <1>11

LEMMA CommitKeeps ==
  ASSUME CommitteeInv, NEW v \in Validators, OnCommitMsg(v)
  PROVE  CommitteeInv'
  <1>1. /\ Commit(v)
        /\ UNCHANGED <<network, shard, dst, bitmap, sig, cert, up, counted,
                       present, meant>>
    BY DEF OnCommitMsg
  <1>2. v \in Members(shard)
    BY InvFacts, Home
  <1>3. /\ committed' \subseteq Members(shard)
        /\ headers' \subseteq Reach /\ inbox' \subseteq Reach /\ inbox' \subseteq up
    BY <1>1, <1>2, Committed
  <1> QED BY <1>1, <1>3, InvFacts, Kept

-----------------------------------------------------------------------------
(* The header on its way.                                                  *)

\* A node sends a header to its own shard and, from an RShard, to those that
\* it is meant for.
LEMMA Forwarded ==
  ASSUME CommitteeInv, NEW x \in Reach
  PROVE  ForwardTo(Conf(x)) \subseteq Concerned
  <1>1. /\ GetElement(dst) = {s - FirstPShard : s \in meant}
        /\ meant \subseteq PShardIds[network]
        /\ Conf(x).ShardId \in Concerned
        /\ \A s \in meant : s \in Nat
    BY InvFacts, ReachFacts
  <1>2. ASSUME NEW k \in GetElement(dst) PROVE k + FirstPShard \in meant
    <2>1. PICK s \in meant : k = s - FirstPShard
      BY <1>1
    <2>2. k + FirstPShard = s
      BY <1>1, <2>1 DEF FirstPShard
    <2> QED BY <2>2
  <1> QED BY <1>1, <1>2 DEF ForwardTo, Concerned

LEMMA HeaderKeeps ==
  ASSUME CommitteeInv, NEW x \in NodeIds, HandleHeaderMsg(x)
  PROVE  CommitteeInv'
  <1>1. /\ network \in DOMAIN Networks /\ shard \in PShardIds[network]
        /\ meant \subseteq PShardIds[network] /\ up \subseteq NodeIds
        /\ headers \subseteq Reach /\ inbox \subseteq Reach /\ inbox \subseteq up
    BY InvFacts
  <1>2. x \in Reach
    BY <1>1 DEF HandleHeaderMsg
  <1>3. PICK T : T = ForwardTo(Conf(x))
    OBVIOUS
  <1>4. /\ headers' = headers \/ headers' = headers \cup {x}
        /\ inbox' \subseteq inbox \cup Gossip(x, T)
        /\ UNCHANGED <<network, shard, dst, bitmap, sig, cert, committed, up,
                       counted, present, meant>>
    BY <1>3 DEF HandleHeaderMsg
  <1>5. T \subseteq Concerned /\ T \subseteq ShardIds[network]
    BY <1>1, <1>2, <1>3, Forwarded, ReachFacts
  <1>6. Gossip(x, T) \subseteq up \cap UNION {Members(s) : s \in T}
    BY <1>1, <1>5, Gossiped
  <1>7. UNION {Members(s) : s \in T} \subseteq Reach
    BY <1>5 DEF Reach
  <1>8. headers' \subseteq Reach /\ inbox' \subseteq Reach /\ inbox' \subseteq up
    BY <1>1, <1>2, <1>4, <1>6, <1>7
  <1> QED BY <1>4, <1>8, InvFacts, Kept

-----------------------------------------------------------------------------
(* What the certificate is worth.                                          *)

\* The keys in a bitmap, taken for nodes of the shard.
LEMMA Verifies ==
  ASSUME network \in DOMAIN Networks, shard \in PShardIds[network],
         NEW x \in NodeIds, NEW s, NEW b, NEW S \in SUBSET Members(shard),
         GetElement(b) = KeysOf(S)
  PROVE  VerifyAggregateSig(Conf(x), s, b, shard, getKeyOffset(Conf(x), shard))
            <=> s = Signed(S)
  <1>1. PICK m : m = Min(Members(shard))
    OBVIOUS
  <1>2. getKeyOffset(Conf(x), shard) = m /\ PubKeyDB(Conf(x), shard) = Members(shard)
    BY <1>1, HomeConf
  <1>3. {k + m : k \in GetElement(b)} = S
    BY <1>1, KeysFacts
  <1>4. S \cap Members(shard) = S
    OBVIOUS
  <1> QED BY <1>2, <1>3, <1>4 DEF VerifyAggregateSig, GetAggregatePubKey

LEMMA Certified ==
  ASSUME CommitteeInv
  PROVE  CertificateVerifies
  <1> SUFFICES ASSUME NEW c \in cert
      PROVE  /\ 3 * GetSize(c.bitmap) > 2 * size
             /\ \A x \in NodeIds :
                  /\ CheckHeader(Conf(x), c)
                  /\ VerifyAggregateSig(Conf(x), c.sig, c.bitmap, shard,
                                        getKeyOffset(Conf(x), shard))
             /\ \A x \in Validators : \A k \in (0 .. size - 1) \ GetElement(c.bitmap) :
                  ~VerifyAggregateSig(Conf(x), c.sig, SetKey(c.bitmap, k), shard,
                                      getKeyOffset(Conf(x), shard))
    BY DEF CertificateVerifies
  <1>1. PICK S, m : S = counted \cup {LeaderOf(shard)} /\ m = Min(Members(shard))
    OBVIOUS
  <1>2. /\ network \in DOMAIN Networks /\ shard \in PShardIds[network]
        /\ bitmap \in Bitmaps(size) /\ counted \subseteq Validators
        /\ GetElement(bitmap) = KeysOf(S) /\ sig = Signed(S)
        /\ c.bitmap = bitmap /\ c.sig = sig
        /\ GetSize(bitmap) >= Threshold
    <2>1. /\ network \in DOMAIN Networks /\ shard \in PShardIds[network]
          /\ bitmap \in Bitmaps(size) /\ counted \subseteq Validators
          /\ GetElement(bitmap) = KeysOf(S) /\ sig = Signed(S)
      BY <1>1, InvFacts
    <2>2. PICK d : d = [bitmap |-> bitmap, sig |-> sig]
      OBVIOUS
    <2>3. cert # {} /\ (cert = {} \/ cert = {d})
      BY <2>2, InvFacts
    <2>4. GetSize(bitmap) >= Threshold
      BY <2>3, InvFacts
    <2>5. c = d
      BY <2>3
    <2>6. c.bitmap = bitmap /\ c.sig = sig
      BY ONLY <2>2, <2>5
    <2> QED BY <2>1, <2>4, <2>6
  <1>3. /\ size \in Nat /\ size # 0 /\ S \subseteq Members(shard)
        /\ Members(shard) \subseteq NodeIds /\ Validators \subseteq NodeIds
    BY <1>1, <1>2, Home
  <1>4. GetSize(bitmap) \in Nat
    <2>1. KeysOf(S) \subseteq 0 .. size - 1
      BY <1>1, <1>2, <1>3, KeysFacts
    <2>2. IsFiniteSet(0 .. size - 1)
      <3>1. PICK e : e = size - 1
        OBVIOUS
      <3>2. 0 \in Int /\ e \in Int
        BY <1>3, <3>1
      <3> QED BY <3>1, <3>2, FS_Interval
    <2> QED BY <1>2, <2>1, <2>2, FS_Subset, FS_CardinalityType DEF GetSize
  <1>5. 3 * GetSize(c.bitmap) > 2 * size
    <2>1. PICK g : g = GetSize(bitmap)
      OBVIOUS
    <2>2. g \in Nat /\ g >= (size * 2) \div 3 + 1
      BY <1>2, <1>4, <2>1 DEF Threshold
    <2>3. 3 * g > 2 * size
      BY ONLY <1>3, <2>2
    <2> QED BY <1>2, <2>1, <2>3
  <1>6. ASSUME NEW x \in NodeIds
        PROVE  /\ CheckHeader(Conf(x), c)
               /\ VerifyAggregateSig(Conf(x), c.sig, c.bitmap, shard,
                                     getKeyOffset(Conf(x), shard))
    <2>1. /\ Conf(x).ConsensusThreshold = Threshold
          /\ shard - FirstPShard \in 0 .. Conf(x).PShardNum - 1
      BY <1>2, HomeConf
    <2>2. CheckHeader(Conf(x), c)
      BY <1>2, <2>1 DEF CheckHeader, GetSize
    <2> QED BY <1>2, <1>3, <2>2, Verifies
  <1>7. ASSUME NEW x \in Validators, NEW k \in (0 .. size - 1) \ GetElement(c.bitmap)
        PROVE  ~VerifyAggregateSig(Conf(x), c.sig, SetKey(c.bitmap, k), shard,
                                   getKeyOffset(Conf(x), shard))
    <2>1. PICK y, T, d : y = k + m /\ T = S \cup {y} /\ d = SetKey(bitmap, k)
      OBVIOUS
    <2>2. y \in Members(shard) /\ y - m = k
      <3>1. m \in Nat /\ Members(shard) = m .. m + size - 1
        BY <1>1, <1>2, Keys
      <3>2. k \in 0 .. size - 1
        OBVIOUS
      <3>3. y \in m .. m + size - 1 /\ y - m = k
        BY ONLY <1>3, <2>1, <3>1, <3>2
      <3> QED BY <3>1, <3>3
    <2>3. (y - m \in KeysOf(S) <=> y \in S) /\ KeysOf(T) = KeysOf(S) \cup {y - m}
      <3>1. m = Min(Members(shard))
        BY <1>1
      <3>2. KeysOf(S \cup {y}) = KeysOf(S) \cup {y - m}
        BY <1>2, <1>3, <2>2, <3>1, KeysFacts
      <3>3. y - m \in KeysOf(S) <=> y \in S
        BY <1>2, <1>3, <2>2, <3>1, KeysFacts
      <3> QED BY <2>1, <3>2, <3>3, Zenon
    <2>4. y \notin S
      BY <1>2, <1>7, <2>2, <2>3
    <2>5. GetElement(d) = GetElement(bitmap) \cup {k}
      BY <1>2, <1>3, <2>1, SetKeyFacts
    <2>6. GetElement(d) = KeysOf(T) /\ T \in SUBSET Members(shard)
      BY <1>2, <1>3, <2>1, <2>2, <2>3, <2>5
    <2>7. x \in NodeIds
      BY <1>3
    <2>8. VerifyAggregateSig(Conf(x), c.sig, d, shard, getKeyOffset(Conf(x), shard))
            <=> c.sig = Signed(T)
      BY <1>2, <2>6, <2>7, Verifies
    <2>9. Signed(T) # Signed(S)
      BY <1>3, <2>1, <2>2, <2>4, SignedApart
    <2> QED BY <1>2, <2>1, <2>8, <2>9
  <1> QED BY <1>5, <1>6, <1>7

-----------------------------------------------------------------------------
(* The theorems.                                                           *)

LEMMA InvStep ==
  ASSUME CommitteeInv, [Next]_vars
  PROVE  CommitteeInv'
  <1>1. ASSUME NEW x \in NodeIds, Launch(x) PROVE CommitteeInv'
    BY <1>1, LaunchKeeps
  <1>2. ASSUME NEW x \in NodeIds, HandleHeaderMsg(x) PROVE CommitteeInv'
    BY <1>2, HeaderKeeps
  <1>3. ASSUME NEW v \in Validators, OnPrecommitVoteMsg(v) PROVE CommitteeInv'
    BY <1>3, VoteKeeps
  <1>4. ASSUME NEW v \in Validators, LateVote(v) PROVE CommitteeInv'
    BY <1>4, IdleKeeps DEF LateVote
  <1>5. ASSUME NEW v \in Validators, OnCommitMsg(v) PROVE CommitteeInv'
    BY <1>5, CommitKeeps
  <1>6. ASSUME UNCHANGED vars PROVE CommitteeInv'
    BY <1>6, IdleKeeps
  <1> QED BY <1>1, <1>2, <1>3, <1>4, <1>5, <1>6 DEF Next

\* In a committee of any size the leader's bitmap and aggregate (OnPrecommitVoteMsg
\* of consensus/protocol.go), the header that Commit makes of them and the
\* destinations that CreateNewBlock writes into it belong together.
THEOREM CommitteeInvariant == Spec => []CommitteeInv
  <1>1. Init => CommitteeInv
    BY InvInit
  <1>2. CommitteeInv /\ [Next]_vars => CommitteeInv'
    BY InvStep
  <1> QED BY <1>1, <1>2, PTL DEF Spec

\* Whatever the topology of config.json, the configurations that NewConfig
\* computes in each node, with nodeId2Key and key2NodeId of consensus/protocol.go,
\* are those of one and the same network.
THEOREM AgreeAlways == Spec => []CommitteesAgree
  <1>1. CommitteeInv => CommitteesAgree
    BY InvFacts, ConfigsAgree
  <1> QED BY <1>1, CommitteeInvariant, PTL

\* A header that Commit sends carries signatures of more than two thirds of the
\* committee, which VerifyAggregateSig and CheckHeader accept at every node and
\* which no other bitmap with more signers goes with.
THEOREM CertificatesConvince == Spec => []VotesCertified
  <1>1. CommitteeInv => VotesCertified
    BY Certified DEF CommitteeInv, VotesCertified
  <1> QED BY <1>1, CommitteeInvariant, PTL

\* HandleHeaderMsg forwards a header, from topic to topic, to nobody but the
\* shard that made it, the RShard above and the shards with transfers in it.
THEOREM HeadersStayOnPath == Spec => []OnlyDestinations
  <1>1. CommitteeInv => OnlyDestinations
    BY DEF CommitteeInv
  <1> QED BY <1>1, CommitteeInvariant, PTL
=============================================================================
