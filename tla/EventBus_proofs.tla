--------------------------- MODULE EventBus_proofs ---------------------------
(***************************************************************************)
(* Proofs about module EventBus, for any number of topics, listeners,      *)
(* messages and ids: from BusInv, every listener is served as the bus      *)
(* promises while others subscribe, unsubscribe and publish.               *)
(***************************************************************************)
EXTENDS EventBusInv, TLAPS, FiniteSetTheorems, SequenceTheorems

-----------------------------------------------------------------------------
(* Counting in sequences.                                                  *)

LEMMA OccurrencesNat ==
  ASSUME NEW S, NEW seq \in Seq(S), NEW x
  PROVE  Occurrences(x, seq) \in Nat
  <1>1. IsFiniteSet(1 .. Len(seq))
    BY LenProperties, FS_Interval
  <1>2. {i \in DOMAIN seq : seq[i] = x} \in SUBSET (1 .. Len(seq))
    BY LenProperties
  <1>3. IsFiniteSet({i \in DOMAIN seq : seq[i] = x})
    BY <1>1, <1>2, FS_Subset
  <1> QED BY <1>3, FS_CardinalityType DEF Occurrences

LEMMA OccurrencesEmpty ==
  ASSUME NEW x
  PROVE  Occurrences(x, <<>>) = 0
  <1>1. {i \in DOMAIN <<>> : <<>>[i] = x} = {}
    OBVIOUS
  <1> QED BY <1>1, FS_EmptySet DEF Occurrences

LEMMA OccurrencesAppend ==
  ASSUME NEW S, NEW seq \in Seq(S), NEW y \in S, NEW x
  PROVE  Occurrences(x, Append(seq, y)) = Occurrences(x, seq) + (IF x = y THEN 1 ELSE 0)
  <1> DEFINE n == Len(seq)
             old == {i \in DOMAIN seq : seq[i] = x}
             new == {i \in DOMAIN Append(seq, y) : Append(seq, y)[i] = x}
  <1>1. n \in Nat /\ DOMAIN seq = 1 .. n /\ DOMAIN Append(seq, y) = 1 .. n + 1
    BY LenProperties, AppendProperties
  <1>2. /\ \A i \in 1 .. n : Append(seq, y)[i] = seq[i]
        /\ Append(seq, y)[n + 1] = y
    BY AppendProperties
  <1>3. IsFiniteSet(old)
    <2>1. IsFiniteSet(1 .. n) /\ old \in SUBSET (1 .. n)
      BY <1>1, FS_Interval
    <2> QED BY <2>1, FS_Subset
  <1>4. n + 1 \notin old
    BY <1>1
  <1>5. CASE x = y
    <2>1. new = old \cup {n + 1}
      BY <1>1, <1>2, <1>5
    <2>2. Cardinality(new) = Cardinality(old) + 1
      BY <2>1, <1>3, <1>4, FS_AddElement
    <2> QED BY <2>2, <1>5 DEF Occurrences
  <1>6. CASE x # y
    <2>1. new = old
      BY <1>1, <1>2, <1>6
    <2>2. Occurrences(x, Append(seq, y)) = Occurrences(x, seq)
      BY <2>1 DEF Occurrences
    <2>3. Occurrences(x, seq) \in Nat
      BY OccurrencesNat
    <2> QED BY <2>2, <2>3, <1>6
  <1> QED BY <1>5, <1>6

\* A goroutine that reaches l goes one place further and adds one notice for l
\* and its message, whether or not there is room for it in the channel.
LEMMA Advanced ==
  ASSUME NEW g \in Goroutine, NEW l \in AnyListener, NEW h, h = Advance(g, l)
  PROVE  /\ h \in Goroutine /\ h.next = g.next + 1 /\ h.pc = g.pc /\ h.list = g.list
         /\ h.due = g.due /\ h.past = g.past
         /\ h.failed = IF Accepts(l) THEN g.failed ELSE Append(g.failed, l)
  <1>1. /\ g.pc \in {"idle", "start", "notify", "done"} /\ g.list \in Seq(IdListener)
        /\ g.next \in Nat /\ g.failed \in Seq(AnyListener)
        /\ g.due \in SUBSET AnyListener /\ g.past \in SUBSET AnyListener
    BY DEF Goroutine
  <1>2. PICK f \in Seq(AnyListener) : f = IF Accepts(l) THEN g.failed ELSE Append(g.failed, l)
    BY <1>1, AppendProperties
  <1>3. h = [g EXCEPT !.next = g.next + 1, !.failed = f]
    BY <1>2 DEF Advance, Goroutine
  <1>4. /\ h.next = g.next + 1 /\ h.pc = g.pc /\ h.list = g.list
        /\ h.due = g.due /\ h.past = g.past /\ h.failed = f
    BY <1>3 DEF Goroutine
  <1>5. h = [pc |-> g.pc, list |-> g.list, next |-> g.next + 1, failed |-> f,
             due |-> g.due, past |-> g.past]
    BY <1>3 DEF Goroutine
  <1>6. h \in Goroutine
    BY <1>1, <1>5 DEF Goroutine
  <1> QED BY <1>2, <1>4, <1>6

LEMMA NoticeAdded ==
  ASSUME BusTypes, NEW m \in Msg, NEW g \in Goroutine, NEW l \in AnyListener,
         NEW h, h = Advance(g, l), sent' = Notified(l, m)
  PROVE  /\ \A a \in AnyListener : Notices(m, h, a)'
               = Notices(m, g, a) + (IF a = l THEN 1 ELSE 0)
         /\ \A a \in AnyListener, q \in Msg : (q # m \/ a # l) =>
               Occurrences(q, sent'[a]) = Occurrences(q, sent[a])
         /\ sent' \in [AnyListener -> Seq(Msg \cup {Older})]
  <1> DEFINE A == Msg \cup {Older}
  <1>0. sent \in [AnyListener -> Seq(A)] /\ g.failed \in Seq(AnyListener) /\ m \in A
    BY DEF BusTypes, Goroutine
  <1>1. \A a \in AnyListener : Occurrences(m, sent[a]) \in Nat
    BY <1>0, OccurrencesNat
  <1>2. \A a \in AnyListener : Occurrences(a, g.failed) \in Nat
    BY <1>0, OccurrencesNat
  <1>a. \A a \in AnyListener : Notices(m, g, a) = Occurrences(m, sent[a]) + Occurrences(a, g.failed)
    BY DEF Notices
  <1>b. \A a \in AnyListener : Notices(m, h, a)' = Occurrences(m, sent'[a]) + Occurrences(a, h.failed)
    BY DEF Notices
  <1>3. CASE Accepts(l)
    <2>1. sent' = [sent EXCEPT ![l] = Append(@, m)] /\ h.failed = g.failed
      BY <1>3, Advanced DEF Notified
    <2>2. sent'[l] = Append(sent[l], m) /\ \A a \in AnyListener : a # l => sent'[a] = sent[a]
      BY <2>1, <1>0
    <2>3. Append(sent[l], m) \in Seq(A)
      BY <1>0, AppendProperties
    <2>4. ASSUME NEW q
          PROVE  Occurrences(q, Append(sent[l], m))
                    = Occurrences(q, sent[l]) + (IF q = m THEN 1 ELSE 0)
      <3>1. sent[l] \in Seq(A)
        BY <1>0
      <3> HIDE DEF A
      <3> QED BY <3>1, <1>0, OccurrencesAppend
    <2>5. sent' \in [AnyListener -> Seq(A)]
      BY <2>1, <2>3, <1>0
    <2>7. Occurrences(m, sent'[l]) = Occurrences(m, sent[l]) + 1
      BY <2>4, <2>2
    <2>8. \A a \in AnyListener : Notices(m, h, a)'
               = Notices(m, g, a) + (IF a = l THEN 1 ELSE 0)
      <3> TAKE a \in AnyListener
      <3>1. CASE a = l
        BY <3>1, <2>7, <2>1, <1>1, <1>2, <1>a, <1>b
      <3>2. CASE a # l
        BY <3>2, <2>2, <2>1, <1>1, <1>2, <1>a, <1>b
      <3> QED BY <3>1, <3>2
    <2>9. \A a \in AnyListener, q \in Msg : (q # m \/ a # l) =>
               Occurrences(q, sent'[a]) = Occurrences(q, sent[a])
      <3> SUFFICES ASSUME NEW a \in AnyListener, NEW q \in Msg, q # m \/ a # l
                   PROVE  Occurrences(q, sent'[a]) = Occurrences(q, sent[a])
        OBVIOUS
      <3>1. Occurrences(q, sent[l]) \in Nat
        BY <1>0, OccurrencesNat
      <3>2. CASE a # l
        BY <3>2, <2>2
      <3>3. CASE a = l
        <4>1. Occurrences(q, Append(sent[l], m)) = Occurrences(q, sent[l]) + 0
          BY <3>3, <2>4
        <4> QED BY <3>1, <3>3, <4>1, <2>2
      <3> QED BY <3>2, <3>3
    <2> QED BY <2>5, <2>8, <2>9
  <1>4. CASE ~Accepts(l)
    <2>1. sent' = sent /\ h.failed = Append(g.failed, l)
      BY <1>4, Advanced DEF Notified
    <2>4. \A a \in AnyListener : Occurrences(a, Append(g.failed, l))
               = Occurrences(a, g.failed) + (IF a = l THEN 1 ELSE 0)
      BY <1>0, OccurrencesAppend
    <2>5. \A a \in AnyListener : Notices(m, h, a)'
               = Notices(m, g, a) + (IF a = l THEN 1 ELSE 0)
      BY <2>1, <2>4, <1>1, <1>2, <1>a, <1>b
    <2> QED BY <2>1, <2>5, <1>0
  <1> QED BY <1>3, <1>4

-----------------------------------------------------------------------------
(* Lists of listeners.                                                     *)

\* A set of numbers that has a member has a least one.
LEMMA LeastOne ==
  ASSUME NEW n \in Nat, NEW S \in SUBSET (1 .. n), S # {}
  PROVE  Min(S) \in S
  <1> DEFINE Below(x) == {y \in S : y <= x}
             T == {Below(x) : x \in S}
             R == StrictSubsetOrdering(1 .. n)
             F == FiniteSubsetsOf(1 .. n)
  <1>1. IsWellFoundedOn(R, F)
    BY FS_StrictSubsetOrderingWellFounded
  <1>2. T \subseteq F
    <2>1. IsFiniteSet(1 .. n)
      BY FS_Interval
    <2> SUFFICES ASSUME NEW x \in S PROVE Below(x) \in F
      OBVIOUS
    <2>2. Below(x) \in SUBSET (1 .. n)
      OBVIOUS
    <2>3. IsFiniteSet(Below(x))
      BY <2>1, <2>2, FS_Subset
    <2> QED BY <2>2, <2>3 DEF FiniteSubsetsOf
  <1>3. T # {}
    OBVIOUS
  <1>4. PICK B \in T : \A C \in T : <<C, B>> \notin R
    <2> HIDE DEF R, F, T
    <2> QED BY <1>1, <1>2, <1>3, WFMin
  <1>5. PICK x \in S : B = Below(x)
    OBVIOUS
  <1>6. \A y \in S : x <= y
    <2> SUFFICES ASSUME NEW y \in S, ~(x <= y) PROVE FALSE
      OBVIOUS
    <2>1. y \in 1 .. n /\ x \in 1 .. n /\ y < x
      OBVIOUS
    <2>a. S \subseteq Nat
      OBVIOUS
    <2>2. Below(y) \subseteq Below(x) /\ x \in Below(x) /\ x \notin Below(y)
      <3>1. \A z \in S : z <= y => z <= x
        BY <2>1, <2>a
      <3>2. x <= x /\ ~(x <= y)
        BY <2>1
      <3> QED BY <3>1, <3>2
    <2>3. <<Below(y), Below(x)>> \in R
      <3>1. Below(y) \in SUBSET (1 .. n) /\ Below(x) \in SUBSET (1 .. n)
        OBVIOUS
      <3> HIDE DEF Below
      <3> QED BY <2>2, <3>1 DEF StrictSubsetOrdering
    <2> QED BY <2>3, <1>4, <1>5
  <1>7. \E z \in S : \A y \in S : z <= y
    BY <1>6
  <1> QED BY <1>7 DEF Min

\* RemoveAt takes out the element at a place and keeps the others in order.
LEMMA RemoveAtFacts ==
  ASSUME NEW S, NEW list \in Seq(S), NEW n \in 1 .. Len(list)
  PROVE  LET d == RemoveAt(list, n) IN
         /\ d \in Seq(S) /\ Len(d) = Len(list) - 1
         /\ \A i \in 1 .. Len(list) - 1 : d[i] = IF i < n THEN list[i] ELSE list[i + 1]
  <1>1. PICK k \in Nat : k = Len(list)
    BY LenProperties
  <1>2. \A i \in 1 .. k : list[i] \in S
    BY <1>1, ElementOfSeq
  <1>3. PICK a : a = SubSeq(list, 1, n - 1)
    OBVIOUS
  <1>4. PICK b : b = SubSeq(list, n + 1, k)
    OBVIOUS
  <1>5. a \in Seq(S) /\ Len(a) = n - 1 /\ \A i \in 1 .. n - 1 : a[i] = list[i]
    <2>1. \A i \in 1 .. n - 1 : list[i] \in S
      BY <1>1, <1>2
    <2>2. /\ a \in Seq(S) /\ Len(a) = IF 1 <= n - 1 THEN (n - 1) - 1 + 1 ELSE 0
          /\ \A i \in 1 .. (n - 1) - 1 + 1 : a[i] = list[1 + i - 1]
      BY <2>1, <1>1, <1>3, SubSeqProperties
    <2> QED BY <2>2, <1>1
  <1>6. b \in Seq(S) /\ Len(b) = k - n /\ \A i \in 1 .. k - n : b[i] = list[n + i]
    <2>1. \A i \in n + 1 .. k : list[i] \in S
      BY <1>1, <1>2
    <2>2. /\ b \in Seq(S) /\ Len(b) = IF n + 1 <= k THEN k - (n + 1) + 1 ELSE 0
          /\ \A i \in 1 .. k - (n + 1) + 1 : b[i] = list[(n + 1) + i - 1]
      BY <2>1, <1>1, <1>4, SubSeqProperties
    <2>3. k - (n + 1) + 1 = k - n
      BY <1>1
    <2>4. Len(b) = k - n
      BY <2>2, <1>1
    <2>5. ASSUME NEW i \in 1 .. k - n PROVE b[i] = list[n + i]
      <3>1. (n + 1) + i - 1 = n + i
        BY <1>1
      <3> QED BY <2>2, <2>3, <3>1
    <2> QED BY <2>2, <2>4, <2>5
  <1>7. /\ a \o b \in Seq(S) /\ Len(a \o b) = k - 1
        /\ \A i \in 1 .. k - 1 : (a \o b)[i] = IF i <= n - 1 THEN a[i] ELSE b[i - (n - 1)]
    <2>1. /\ a \o b \in Seq(S) /\ Len(a \o b) = Len(a) + Len(b)
          /\ \A i \in 1 .. Len(a) + Len(b) :
                (a \o b)[i] = IF i <= Len(a) THEN a[i] ELSE b[i - Len(a)]
      BY <1>5, <1>6, ConcatProperties
    <2>2. Len(a) + Len(b) = k - 1 /\ Len(a) = n - 1
      BY <1>1, <1>5, <1>6
    <2> QED BY <2>1, <2>2
  <1>8. \A i \in 1 .. k - 1 : (a \o b)[i] = IF i < n THEN list[i] ELSE list[i + 1]
    <2> SUFFICES ASSUME NEW i \in 1 .. k - 1
                 PROVE  (a \o b)[i] = IF i < n THEN list[i] ELSE list[i + 1]
      OBVIOUS
    <2>1. CASE i < n
      BY <2>1, <1>5, <1>7, <1>1
    <2>2. CASE ~(i < n)
      <3>1. i - (n - 1) \in 1 .. k - n /\ n + (i - (n - 1)) = i + 1
        BY <2>2, <1>1
      <3>2. b[i - (n - 1)] = list[i + 1]
        BY <3>1, <1>6
      <3> QED BY <2>2, <3>2, <1>7, <1>1
    <2> QED BY <2>1, <2>2
  <1> QED BY <1>1, <1>3, <1>4, <1>7, <1>8 DEF RemoveAt

\* Delete leaves out one element with the id, if there is one.
LEMMA DeleteFacts ==
  ASSUME NEW list \in Seq(IdListener), NEW id, NEW d, d = Delete(list, id)
  PROVE  /\ d \in Seq(IdListener)
         /\ \/ d = list /\ \A i \in 1 .. Len(list) : list[i].id # id
            \/ \E n \in 1 .. Len(list) :
                  /\ list[n].id = id /\ Len(d) = Len(list) - 1
                  /\ \A i \in 1 .. Len(list) - 1 : d[i] = IF i < n THEN list[i] ELSE list[i + 1]
  <1> DEFINE found == {i \in DOMAIN list : list[i].id = id}
  <1>1. Len(list) \in Nat /\ DOMAIN list = 1 .. Len(list)
    BY LenProperties
  <1>2. CASE found = {}
    BY <1>1, <1>2 DEF Delete
  <1>3. CASE found # {}
    <2>1. found \in SUBSET (1 .. Len(list))
      BY <1>1
    <2>2. Min(found) \in found
      <3> HIDE DEF found
      <3> QED BY <1>1, <1>3, <2>1, LeastOne
    <2>3. PICK n \in 1 .. Len(list) : n = Min(found) /\ list[n].id = id
      BY <2>1, <2>2
    <2>4. d = RemoveAt(list, n)
      BY <1>3, <2>3 DEF Delete
    <2>5. /\ d \in Seq(IdListener) /\ Len(d) = Len(list) - 1
          /\ \A i \in 1 .. Len(list) - 1 : d[i] = IF i < n THEN list[i] ELSE list[i + 1]
      BY <2>4, RemoveAtFacts
    <2> QED BY <2>3, <2>5
  <1> QED BY <1>2, <1>3

\* What Append does to a list whose listeners are distinct.
LEMMA ListAppended ==
  ASSUME NEW list \in Seq(IdListener), Distinct(list), NEW e \in IdListener,
         ~Among(e.lis, list, Len(list)), NEW d, d = Append(list, e)
  PROVE  /\ d \in Seq(IdListener) /\ Distinct(d)
         /\ \A i \in 1 .. Len(d) : d[i] = e \/ \E j \in 1 .. Len(list) : d[i] = list[j]
         /\ \A l : Among(l, d, Len(d)) <=> (l = e.lis \/ Among(l, list, Len(list)))
  <1>1. PICK k \in Nat : k = Len(list)
    BY LenProperties
  <1>2. /\ d \in Seq(IdListener) /\ Len(d) = k + 1 /\ d[k + 1] = e
        /\ \A i \in 1 .. k : d[i] = list[i]
    BY <1>1, AppendProperties
  <1>3. \A i \in 1 .. k : list[i].lis # e.lis
    BY <1>1 DEF Among
  <1>4. Distinct(d)
    BY <1>1, <1>2, <1>3 DEF Distinct
  <1>5. \A i \in 1 .. Len(d) : d[i] = e \/ \E j \in 1 .. Len(list) : d[i] = list[j]
    BY <1>1, <1>2
  <1>6. \A l : Among(l, d, Len(d)) <=> (l = e.lis \/ Among(l, list, Len(list)))
    BY <1>1, <1>2 DEF Among
  <1> QED BY <1>2, <1>4, <1>5, <1>6

\* What Delete does to such a list: the listener it takes out was given the id.
LEMMA ListDeleted ==
  ASSUME NEW list \in Seq(IdListener), Distinct(list), NEW id, NEW d, d = Delete(list, id)
  PROVE  /\ d \in Seq(IdListener) /\ Distinct(d)
         /\ \A i \in 1 .. Len(d) : \E j \in 1 .. Len(list) : d[i] = list[j]
         /\ \/ d = list /\ \A i \in 1 .. Len(list) : list[i].id # id
            \/ \E n \in 1 .. Len(list) :
                  /\ list[n].id = id
                  /\ \A l : Among(l, d, Len(d)) <=> (l # list[n].lis /\ Among(l, list, Len(list)))
  <1>1. d \in Seq(IdListener)
    BY DeleteFacts
  <1>2. CASE d = list /\ \A i \in 1 .. Len(list) : list[i].id # id
    BY <1>2
  <1>3. CASE ~(d = list /\ \A i \in 1 .. Len(list) : list[i].id # id)
    <2>0. PICK k \in Nat : k = Len(list)
      BY LenProperties
    <2>1. PICK n \in 1 .. k :
             /\ list[n].id = id /\ Len(d) = k - 1
             /\ \A i \in 1 .. k - 1 : d[i] = IF i < n THEN list[i] ELSE list[i + 1]
      BY <2>0, <1>3, DeleteFacts
    <2>2. \A i, j \in 1 .. k : list[i].lis = list[j].lis => i = j
      BY <2>0 DEF Distinct
    <2>3. Distinct(d)
      <3> SUFFICES ASSUME NEW i \in 1 .. k - 1, NEW j \in 1 .. k - 1, d[i].lis = d[j].lis
                   PROVE  i = j
        BY <2>1 DEF Distinct
      <3>1. PICK a \in 1 .. k : d[i] = list[a] /\ a = IF i < n THEN i ELSE i + 1
        BY <2>0, <2>1
      <3>2. PICK b \in 1 .. k : d[j] = list[b] /\ b = IF j < n THEN j ELSE j + 1
        BY <2>0, <2>1
      <3>3. a = b
        BY <3>1, <3>2, <2>2
      <3> QED BY <3>1, <3>2, <3>3
    <2>4. ASSUME NEW i \in 1 .. k - 1
          PROVE  \E j \in 1 .. k : j # n /\ d[i] = list[j]
      BY <2>0, <2>1
    <2>5. ASSUME NEW j \in 1 .. k, j # n
          PROVE  \E i \in 1 .. k - 1 : d[i] = list[j]
      <3>1. CASE j < n
        BY <2>0, <2>1, <3>1
      <3>2. CASE ~(j < n)
        <4>1. j - 1 \in 1 .. k - 1 /\ ~(j - 1 < n) /\ (j - 1) + 1 = j
          BY <2>5, <3>2, <2>0
        <4> QED BY <4>1, <2>1
      <3> QED BY <3>1, <3>2
    <2>6. ASSUME NEW l
          PROVE  Among(l, d, Len(d)) <=> (l # list[n].lis /\ Among(l, list, Len(list)))
      <3>1. ASSUME Among(l, d, Len(d)) PROVE l # list[n].lis /\ Among(l, list, Len(list))
        <4>1. PICK i \in 1 .. k - 1 : d[i].lis = l
          BY <3>1, <2>1 DEF Among
        <4>2. PICK j \in 1 .. k : j # n /\ d[i] = list[j]
          BY <2>4
        <4> QED BY <4>1, <4>2, <2>0, <2>2 DEF Among
      <3>2. ASSUME l # list[n].lis, Among(l, list, Len(list)) PROVE Among(l, d, Len(d))
        <4>1. PICK j \in 1 .. k : list[j].lis = l
          BY <3>2, <2>0 DEF Among
        <4>2. PICK i \in 1 .. k - 1 : d[i] = list[j]
          BY <4>1, <3>2, <2>5
        <4> QED BY <4>1, <4>2, <2>1 DEF Among
      <3> QED BY <3>1, <3>2
    <2> QED BY <1>1, <2>0, <2>1, <2>3, <2>4, <2>6
  <1> QED BY <1>2, <1>3

-----------------------------------------------------------------------------
(* Subscriptions.                                                          *)

LEMMA Keys ==
  /\ \A t \in Topic, l \in Listener : <<t, l>> \in Subscription /\ t \in Key /\ t # "default"
  /\ \A l \in DefaultListener : <<"default", l>> \in Subscription
  /\ "default" \in Key
  /\ \A k, l : <<k, l>> \in Subscription => (k \in Key /\ l \in AnyListener)
  /\ \A l : <<"default", l>> \in Subscription => l \in DefaultListener
  /\ \A t \in Topic : \A l : <<t, l>> \in Subscription => l \in Listener
  /\ \A p \in Subscription : p = <<p[1], p[2]>>
  BY BusAssumption DEF Subscription, Key, AnyListener

\* An id that is a listener's own now was its own before a subscription.
LEMMA OwnIdBefore ==
  ASSUME BusTypes, NEW p \in Subscription, subID[p] = NoId,
         NEW id \in ListenerId, subID' = [subID EXCEPT ![p] = id],
         NEW k, NEW l, <<k, l>> \in Subscription, subID[<<k, l>>] # NoId
  PROVE  subID'[<<k, l>>] = subID[<<k, l>>] /\ (OwnId(k, l)' => OwnId(k, l))
  <1>1. subID \in [Subscription -> ListenerId \cup {NoId}]
    BY DEF BusTypes, TypeOK
  <1>2. subID'[<<k, l>>] = subID[<<k, l>>]
    BY <1>1
  <1>3. ASSUME OwnId(k, l)' PROVE OwnId(k, l)
    <2> SUFFICES ASSUME NEW q \in Subscription, q[1] = k, q # <<k, l>>
                 PROVE  subID[q] # subID[<<k, l>>]
      BY DEF OwnId
    <2>1. subID'[q] # subID'[<<k, l>>]
      BY <1>3 DEF OwnId
    <2>2. CASE q = p
      BY <2>2
    <2>3. CASE q # p
      BY <2>1, <2>3, <1>1, <1>2
    <2> QED BY <2>2, <2>3
  <1> QED BY <1>2, <1>3

\* A listener that subscribes is listed; the lists of other keys stay.
LEMMA SubscribedListed ==
  ASSUME BusTypes, ListInv, NEW k \in Key, NEW l, <<k, l>> \in Subscription,
         subID[<<k, l>>] = NoId, NEW id \in ListenerId,
         subID' = [subID EXCEPT ![<<k, l>>] = id], gone' = gone,
         ListOf(k)' = Append(ListOf(k), [id |-> id, lis |-> l]),
         ListOf(k) \in Seq(IdListener),
         \A j \in Key : j # k => ListOf(j)' = ListOf(j)
  PROVE  ListInv'
  <1>0. subID \in [Subscription -> ListenerId \cup {NoId}] /\ gone \subseteq Subscription
    BY DEF BusTypes, TypeOK
  <1>1. \A p \in gone' : subID'[p] # NoId
    BY <1>0, BusAssumption DEF ListInv
  <1>2. \A p \in Subscription : p # <<k, l>> => subID'[p] = subID[p]
    BY <1>0
  <1>3. subID'[<<k, l>>] = id /\ id # NoId
    BY <1>0, BusAssumption
  <1>4. ASSUME NEW j \in Key, j # k PROVE Listed(j)'
    <2>1. ListOf(j)' = ListOf(j) /\ Listed(j)
      BY <1>4 DEF ListInv
    <2>2. \A a : OwnId(j, a)' <=> OwnId(j, a)
      <3> TAKE a
      <3>1. \A p \in Subscription : p[1] = j => subID'[p] = subID[p]
        BY <1>2, <1>4
      <3>2. subID'[<<j, a>>] = subID[<<j, a>>]
        <4>1. CASE <<j, a>> \in Subscription
          BY <4>1, <3>1
        <4>2. CASE <<j, a>> \notin Subscription
          BY <4>2, <1>0
        <4> QED BY <4>1, <4>2
      <3> QED BY <3>1, <3>2 DEF OwnId
    <2>3. \A a : <<j, a>> \in Subscription => subID'[<<j, a>>] = subID[<<j, a>>]
      BY <1>2, <1>4
    <2> QED BY <2>1, <2>2, <2>3 DEF Listed
  <1>5. Listed(k)'
    <2>0. PICK list \in Seq(IdListener) : list = ListOf(k)
      OBVIOUS
    <2>1. PICK e \in IdListener : e = [id |-> id, lis |-> l]
      BY Keys DEF IdListener
    <2>2. PICK d : d = ListOf(k)' /\ d = Append(list, e)
      BY <2>0, <2>1
    <2>3. /\ Distinct(list)
          /\ \A i \in 1 .. Len(list) :
                <<k, list[i].lis>> \in Subscription /\ subID[<<k, list[i].lis>>] = list[i].id
      BY <2>0 DEF ListInv, Listed
    <2>4. \A i \in 1 .. Len(list) : list[i].id \in ListenerId
      <3>1. \A i \in 1 .. Len(list) : list[i] \in IdListener
        BY ElementOfSeq
      <3> QED BY <3>1 DEF IdListener
    <2>5. e.lis = l /\ e.id = id
      BY <2>1
    <2>6. ~Among(l, list, Len(list))
      BY <2>3, <2>4, BusAssumption DEF Among
    <2>7. /\ Distinct(d)
          /\ \A i \in 1 .. Len(d) : d[i] = e \/ \E j \in 1 .. Len(list) : d[i] = list[j]
          /\ \A a : Among(a, d, Len(d)) <=> (a = l \/ Among(a, list, Len(list)))
      BY <2>2, <2>3, <2>5, <2>6, ListAppended
    <2>8. ASSUME NEW i \in 1 .. Len(d)
          PROVE  <<k, d[i].lis>> \in Subscription /\ subID'[<<k, d[i].lis>>] = d[i].id
      <3>1. CASE d[i] = e
        BY <3>1, <2>5, <1>3
      <3>2. CASE \E j \in 1 .. Len(list) : d[i] = list[j]
        <4>1. PICK j \in 1 .. Len(list) : d[i] = list[j]
          BY <3>2
        <4>2. list[j].lis # l
          BY <2>6 DEF Among
        <4> QED BY <4>1, <4>2, <2>3, <1>2
      <3> QED BY <3>1, <3>2, <2>7
    <2>9. ASSUME NEW a \in AnyListener, <<k, a>> \in Subscription,
                 subID'[<<k, a>>] # NoId, OwnId(k, a)'
          PROVE  Among(a, d, Len(d)) <=> <<k, a>> \notin gone
      <3>1. CASE a = l
        <4>1. <<k, l>> \notin gone
          BY DEF ListInv
        <4> QED BY <3>1, <4>1, <2>7
      <3>2. CASE a # l
        <4>1. subID[<<k, a>>] # NoId
          BY <3>2, <2>9, <1>2
        <4>2. OwnId(k, a)
          BY <4>1, <2>9, OwnIdBefore
        <4>3. Among(a, list, Len(list)) <=> <<k, a>> \notin gone
          BY <4>1, <4>2, <2>9, <2>0 DEF ListInv, Listed
        <4> QED BY <3>2, <4>3, <2>7
      <3> QED BY <3>1, <3>2
    <2> QED BY <2>2, <2>7, <2>8, <2>9 DEF Listed
  <1> QED BY <1>1, <1>4, <1>5 DEF ListInv

\* A listener that unsubscribes under an id of its own is listed no longer, and
\* no other listener with an id of its own is taken out.
LEMMA UnsubscribedListed ==
  ASSUME BusTypes, ListInv, NEW k \in Key, NEW l, <<k, l>> \in Subscription,
         subID[<<k, l>>] # NoId, <<k, l>> \notin gone,
         subID' = subID, gone' = gone \cup {<<k, l>>},
         ListOf(k)' = Delete(ListOf(k), subID[<<k, l>>]),
         ListOf(k) \in Seq(IdListener),
         \A j \in Key : j # k => ListOf(j)' = ListOf(j)
  PROVE  ListInv'
  <1>1. \A p \in gone' : subID'[p] # NoId
    BY DEF ListInv
  <1>2. \A j, a : OwnId(j, a)' <=> OwnId(j, a)
    BY DEF OwnId
  <1>3. ASSUME NEW j \in Key, j # k PROVE Listed(j)'
    <2>1. ListOf(j)' = ListOf(j) /\ Listed(j)
      BY <1>3 DEF ListInv
    <2>2. \A a : <<j, a>> \in gone' <=> <<j, a>> \in gone
      BY <1>3
    <2> QED BY <2>1, <2>2, <1>2 DEF Listed
  <1>4. Listed(k)'
    <2>0. PICK list \in Seq(IdListener) : list = ListOf(k)
      OBVIOUS
    <2>1. PICK id : id = subID[<<k, l>>]
      OBVIOUS
    <2>2. PICK d : d = ListOf(k)' /\ d = Delete(list, id)
      BY <2>0, <2>1
    <2>3. /\ Distinct(list)
          /\ \A i \in 1 .. Len(list) :
                <<k, list[i].lis>> \in Subscription /\ subID[<<k, list[i].lis>>] = list[i].id
      BY <2>0 DEF ListInv, Listed
    <2>4. /\ Distinct(d)
          /\ \A i \in 1 .. Len(d) : \E j \in 1 .. Len(list) : d[i] = list[j]
          /\ \/ d = list /\ \A i \in 1 .. Len(list) : list[i].id # id
             \/ \E n \in 1 .. Len(list) :
                   /\ list[n].id = id
                   /\ \A a : Among(a, d, Len(d)) <=> (a # list[n].lis /\ Among(a, list, Len(list)))
      <3>1. list \in Seq(IdListener) /\ d = Delete(list, id) /\ Distinct(list)
        BY <2>2, <2>3
      <3> QED BY ONLY <3>1, ListDeleted
    <2>5. \A i \in 1 .. Len(d) :
             <<k, d[i].lis>> \in Subscription /\ subID'[<<k, d[i].lis>>] = d[i].id
      BY <2>3, <2>4
    <2>6. ASSUME NEW a \in AnyListener, <<k, a>> \in Subscription,
                 subID[<<k, a>>] # NoId, OwnId(k, a)
          PROVE  Among(a, d, Len(d)) <=> <<k, a>> \notin gone'
      <3>1. Among(a, list, Len(list)) <=> <<k, a>> \notin gone
        BY <2>6, <2>0 DEF ListInv, Listed
      <3>2. \A b : (<<k, b>> \in Subscription /\ subID[<<k, b>>] = subID[<<k, a>>]) => b = a
        BY <2>6 DEF OwnId
      <3>3. CASE d = list /\ \A i \in 1 .. Len(list) : list[i].id # id
        <4>1. ~Among(l, list, Len(list))
          BY <3>3, <2>1, <2>3 DEF Among
        <4>2. a # l
          BY <4>1, <3>1
        <4> QED BY <4>2, <3>1, <3>3
      <3>4. CASE \E n \in 1 .. Len(list) :
                   /\ list[n].id = id
                   /\ \A b : Among(b, d, Len(d)) <=> (b # list[n].lis /\ Among(b, list, Len(list)))
        <4>1. PICK n \in 1 .. Len(list) :
                   /\ list[n].id = id
                   /\ \A b : Among(b, d, Len(d)) <=> (b # list[n].lis /\ Among(b, list, Len(list)))
          BY <3>4
        <4>2. subID[<<k, list[n].lis>>] = subID[<<k, l>>] /\ <<k, list[n].lis>> \in Subscription
          BY <4>1, <2>1, <2>3
        <4>3. CASE a = l
          <5>1. list[n].lis = a
            BY <4>2, <4>3, <3>2
          <5> QED BY <4>1, <4>3, <5>1
        <4>4. CASE a # l
          <5>1. list[n].lis # a
            BY <4>2, <4>4, <3>2
          <5> QED BY <4>1, <4>4, <5>1, <3>1
        <4> QED BY <4>3, <4>4
      <3> QED BY <3>3, <3>4, <2>4
    <2> QED BY <2>2, <2>4, <2>5, <2>6, <1>2 DEF Listed
  <1> QED BY <1>1, <1>3, <1>4 DEF ListInv

LEMMA ListSame ==
  ASSUME ListInv, listeners' = listeners, dispatchers' = dispatchers,
         subID' = subID, gone' = gone
  PROVE  ListInv'
  BY DEF ListInv, Listed, ListOf, OwnId, Distinct, Among

-----------------------------------------------------------------------------
(* Types.                                                                  *)

LEMMA IdleGoroutine ==
  /\ Idle \in Goroutine
  /\ \A D \in SUBSET AnyListener, P \in SUBSET AnyListener :
        [[Idle EXCEPT !.pc = "start"] EXCEPT !.due = D, !.past = P] \in Goroutine
  <1>1. <<>> \in Seq(IdListener) /\ <<>> \in Seq(AnyListener)
    BY EmptySeq
  <1> QED BY <1>1 DEF Idle, Goroutine

LEMMA SubscriberSets ==
  ASSUME BusTypes, NEW k
  PROVE  /\ Subscribers(k) \subseteq AnyListener /\ Former(k) \subseteq AnyListener
         /\ \A l \in Subscribers(k) :
               <<k, l>> \in Subscription /\ subID[<<k, l>>] # NoId /\ <<k, l>> \notin gone
         /\ \A l \in Former(k) : <<k, l>> \in gone
  <1>0. gone \subseteq Subscription
    BY DEF BusTypes, TypeOK
  <1>1. ASSUME NEW l \in Subscribers(k)
        PROVE  /\ l \in AnyListener /\ <<k, l>> \in Subscription
               /\ subID[<<k, l>>] # NoId /\ <<k, l>> \notin gone
    <2>1. PICK p \in Subscription : p[1] = k /\ p[2] = l /\ subID[p] # NoId /\ p \notin gone
      BY DEF Subscribers
    <2>2. p = <<k, l>>
      BY <2>1, Keys
    <2> QED BY <2>1, <2>2, Keys
  <1>2. ASSUME NEW l \in Former(k)
        PROVE  l \in AnyListener /\ <<k, l>> \in gone
    <2>1. PICK p \in gone : p[1] = k /\ p[2] = l
      BY DEF Former
    <2>2. p = <<k, l>> /\ <<k, l>> \in Subscription
      BY <2>1, <1>0, Keys
    <2> QED BY <2>1, <2>2, Keys
  <1> QED BY <1>1, <1>2

LEMMA TypesInit ==
  ASSUME Init
  PROVE  BusTypes
  <1>1. \A l \in AnyListener : sent[l] \in Seq(Msg \cup {Older}) /\ Len(sent[l]) \in 0 .. 1
    <2> TAKE l \in AnyListener
    <2>1. CASE l \in Busy
      BY <2>1 DEF Init
    <2>2. CASE l \notin Busy
      BY <2>2, EmptySeq DEF Init
    <2> QED BY <2>1, <2>2
  <1>2. sent = [l \in AnyListener |-> sent[l]]
    BY DEF Init
  <1>3. sent \in [AnyListener -> Seq(Msg \cup {Older})]
    BY <1>1, <1>2
  <1>4. publisher \in [Msg -> Goroutine] /\ forwarder \in [Msg -> Goroutine]
    BY IdleGoroutine DEF Init
  <1>5. listeners \in [Topic -> Seq(IdListener)] /\ dispatchers \in Seq(IdListener)
    BY EmptySeq DEF Init
  <1>6. read \in [AnyListener -> Nat]
    BY DEF Init
  <1>7. \A l \in AnyListener :
          /\ read[l] \in 0 .. Len(sent[l])
          /\ l \notin Callback => Len(sent[l]) - read[l] <= Capacity
    BY <1>1, BusAssumption DEF Init
  <1>8. \A m \in Msg : publisher[m].pc = "idle" /\ forwarder[m].pc = "idle"
    BY DEF Init, Idle
  <1> QED BY <1>3, <1>4, <1>5, <1>6, <1>7, <1>8 DEF Init, BusTypes, TypeOK

\* Changes of the lists and of who is subscribed.
LEMMA TypesLists ==
  ASSUME BusTypes, UNCHANGED <<sent, read, publisher, forwarder>>,
         listeners' \in [Topic -> Seq(IdListener)], dispatchers' \in Seq(IdListener),
         topicSet' \subseteq Topic,
         subID' \in [Subscription -> ListenerId \cup {NoId}], gone' \subseteq Subscription
  PROVE  BusTypes'
  BY DEF BusTypes, TypeOK

\* Changes of the goroutines.
LEMMA TypesGoroutines ==
  ASSUME BusTypes, UNCHANGED <<listeners, dispatchers, topicSet, subID, gone, sent, read>>,
         publisher' \in [Msg -> Goroutine], forwarder' \in [Msg -> Goroutine]
  PROVE  BusTypes'
  <1>1. \A m \in Msg : publisher'[m] \in Goroutine /\ forwarder'[m] \in Goroutine
    OBVIOUS
  <1>2. \A m \in Msg :
          /\ publisher'[m].pc \in {"idle", "start", "notify", "done"}
          /\ forwarder'[m].pc \in {"idle", "start", "notify", "done"}
    BY <1>1 DEF Goroutine
  <1> QED BY <1>2 DEF BusTypes, TypeOK

\* A notice: a channel that has no room for it stays as it is.
LEMMA TypesNotice ==
  ASSUME BusTypes, UNCHANGED <<listeners, dispatchers, topicSet, subID, gone, read>>,
         NEW m \in Msg, NEW g \in Goroutine, NEW l \in AnyListener,
         sent' = Notified(l, m),
         publisher' \in [Msg -> Goroutine], forwarder' \in [Msg -> Goroutine]
  PROVE  BusTypes'
  <1>1. \A q \in Msg : publisher'[q] \in Goroutine /\ forwarder'[q] \in Goroutine
    OBVIOUS
  <1>2. \A q \in Msg :
          /\ publisher'[q].pc \in {"idle", "start", "notify", "done"}
          /\ forwarder'[q].pc \in {"idle", "start", "notify", "done"}
    BY <1>1 DEF Goroutine
  <1>3. sent' \in [AnyListener -> Seq(Msg \cup {Older})]
    BY NoticeAdded
  <1>4. sent \in [AnyListener -> Seq(Msg \cup {Older})] /\ read \in [AnyListener -> Nat]
    BY DEF BusTypes
  <1>5. ASSUME NEW a \in AnyListener
        PROVE  /\ read[a] \in 0 .. Len(sent'[a])
               /\ a \notin Callback => Len(sent'[a]) - read[a] <= Capacity
    <2>1. /\ read[a] \in 0 .. Len(sent[a])
          /\ a \notin Callback => Len(sent[a]) - read[a] <= Capacity
      BY DEF BusTypes, TypeOK
    <2>2. CASE a = l /\ Accepts(l)
      <3>1. sent'[a] = Append(sent[a], m)
        BY <2>2, <1>4 DEF Notified
      <3>2. Len(sent'[a]) = Len(sent[a]) + 1 /\ Len(sent[a]) \in Nat
        BY <3>1, <1>4, AppendProperties, LenProperties
      <3> QED BY <3>2, <2>1, <2>2, <1>4, BusAssumption DEF Accepts
    <2>3. CASE ~(a = l /\ Accepts(l))
      <3>1. sent'[a] = sent[a]
        BY <2>3, <1>4 DEF Notified
      <3> QED BY <3>1, <2>1
    <2> QED BY <2>2, <2>3
  <1> QED BY <1>2, <1>3, <1>5 DEF BusTypes, TypeOK

-----------------------------------------------------------------------------
(* What a step leaves alone.                                               *)

\* Who has unsubscribed stays so; who has an id keeps it, and the id is not
\* made its own again.
SubscribersKept ==
  /\ gone \subseteq gone'
  /\ \A k, l : (<<k, l>> \in Subscription /\ subID[<<k, l>>] # NoId) =>
        subID'[<<k, l>>] = subID[<<k, l>>] /\ (OwnId(k, l)' => OwnId(k, l))

LEMMA SameSubscribers ==
  ASSUME subID' = subID, gone \subseteq gone'
  PROVE  SubscribersKept
  BY DEF SubscribersKept, OwnId

LEMMA RememberedKept ==
  ASSUME SubscribersKept, NEW g, NEW k, Remembered(g, k)
  PROVE  Remembered(g, k)'
  BY DEF Remembered, SubscribersKept

LEMMA GoneHaveIds ==
  ASSUME BusTypes, ListInv, NEW k, NEW l, <<k, l>> \in gone
  PROVE  <<k, l>> \in Subscription /\ subID[<<k, l>>] # NoId
  BY DEF BusTypes, TypeOK, ListInv

\* The notices that count for m are the same.
LEMMA NotifiedKept ==
  ASSUME NEW m, NEW g, NEW L, NEW list, NEW n, NotifiedFirst(m, g, L, list, n),
         \A l \in L : Occurrences(m, sent'[l]) = Occurrences(m, sent[l])
  PROVE  NotifiedFirst(m, g, L, list, n)'
  BY DEF NotifiedFirst, Notices, Among

LEMMA PublisherKept ==
  ASSUME BusTypes, ListInv, NEW m \in Msg, PublisherInv(m), SubscribersKept,
         publisher'[m] = publisher[m],
         \A l \in Listener : Occurrences(m, sent'[l]) = Occurrences(m, sent[l])
  PROVE  PublisherInv(m)'
  <1>1. PICK g : g = publisher[m] /\ g = publisher'[m]
    OBVIOUS
  <1>2. PICK k : k = TopicOf[m]
    OBVIOUS
  <1>3. /\ Remembered(g, k) /\ Distinct(g.list)
        /\ \A i \in 1 .. Len(g.list) : g.list[i].lis \in Listener
        /\ g.next \in 1 .. Len(g.list) + 1
        /\ NotifiedFirst(m, g, Listener, g.list, g.next - 1)
        /\ g.pc \in {"idle", "start"} => g.list = <<>>
        /\ g.pc \in {"notify", "done"} =>
              /\ \A l \in g.due : (<<k, l>> \notin gone /\ OwnId(k, l))
                                      => Among(l, g.list, Len(g.list))
              /\ \A l \in g.past : OwnId(k, l) => ~Among(l, g.list, Len(g.list))
        /\ g.pc = "done" => g.next = Len(g.list) + 1
    BY <1>1, <1>2 DEF PublisherInv
  <1>4. Remembered(g, k)' /\ NotifiedFirst(m, g, Listener, g.list, g.next - 1)'
    BY <1>3, RememberedKept, NotifiedKept
  <1>5. ASSUME g.pc \in {"notify", "done"}, NEW l \in g.due, <<k, l>> \notin gone', OwnId(k, l)'
        PROVE  Among(l, g.list, Len(g.list))
    <2>1. <<k, l>> \in Subscription /\ subID[<<k, l>>] # NoId
      BY <1>3 DEF Remembered
    <2>2. OwnId(k, l) /\ <<k, l>> \notin gone
      BY <2>1, <1>5 DEF SubscribersKept
    <2> QED BY <2>2, <1>3, <1>5
  <1>6. ASSUME g.pc \in {"notify", "done"}, NEW l \in g.past, OwnId(k, l)'
        PROVE  ~Among(l, g.list, Len(g.list))
    <2>1. <<k, l>> \in Subscription /\ subID[<<k, l>>] # NoId
      BY <1>3, GoneHaveIds DEF Remembered
    <2>2. OwnId(k, l)
      BY <2>1, <1>6 DEF SubscribersKept
    <2> QED BY <2>2, <1>3, <1>6
  <1> HIDE DEF Remembered, NotifiedFirst, Distinct, Among, OwnId
  <1> QED BY <1>1, <1>2, <1>3, <1>4, <1>5, <1>6 DEF PublisherInv

LEMMA ForwarderKept ==
  ASSUME BusTypes, ListInv, NEW m \in Msg, ForwarderInv(m), SubscribersKept,
         forwarder'[m] = forwarder[m],
         publisher'[m].pc = "idle" => publisher[m].pc = "idle",
         forwarder[m].pc = "notify" => dispatchers' = dispatchers,
         \A l \in DefaultListener : Occurrences(m, sent'[l]) = Occurrences(m, sent[l])
  PROVE  ForwarderInv(m)'
  <1>1. PICK g : g = forwarder[m] /\ g = forwarder'[m]
    OBVIOUS
  <1>3. /\ publisher[m].pc = "idle" => g.pc = "idle"
        /\ Remembered(g, "default")
        /\ g.pc \in {"idle", "start"} =>
              g.next = 1 /\ NotifiedFirst(m, g, DefaultListener, <<>>, 0)
        /\ g.pc = "notify" =>
              /\ g.next \in 1 .. Len(dispatchers) + 1
              /\ NotifiedFirst(m, g, DefaultListener, dispatchers, g.next - 1)
        /\ Served(m, g, "default")
    BY <1>1 DEF ForwarderInv
  <1>4. Remembered(g, "default")'
    BY <1>3, RememberedKept
  <1>5. g.pc \in {"idle", "start"} =>
           g.next = 1 /\ NotifiedFirst(m, g, DefaultListener, <<>>, 0)'
    BY <1>3, NotifiedKept
  <1>6. g.pc = "notify" =>
              /\ g.next \in 1 .. Len(dispatchers') + 1
              /\ NotifiedFirst(m, g, DefaultListener, dispatchers, g.next - 1)'
    <2> SUFFICES ASSUME g.pc = "notify"
                 PROVE  /\ g.next \in 1 .. Len(dispatchers') + 1
                        /\ NotifiedFirst(m, g, DefaultListener, dispatchers, g.next - 1)'
      OBVIOUS
    <2>1. PICK list : list = dispatchers /\ list = dispatchers'
      BY <1>1
    <2>2. NotifiedFirst(m, g, DefaultListener, list, g.next - 1)
      BY <1>3, <2>1
    <2>3. NotifiedFirst(m, g, DefaultListener, list, g.next - 1)'
      BY <2>2, NotifiedKept
    <2>4. NotifiedFirst(m, g, DefaultListener, dispatchers, g.next - 1)'
      BY <2>1, <2>3 DEF NotifiedFirst, Among
    <2> QED BY <1>3, <2>1, <2>4
  <1>7. Served(m, g, "default")'
    <2> SUFFICES ASSUME g.pc = "done"
                 PROVE  /\ \A l \in g.due : (<<"default", l>> \notin gone' /\ OwnId("default", l)')
                               => Notices(m, g, l)' = 1
                        /\ \A l \in g.past : OwnId("default", l)' => Notices(m, g, l)' = 0
      BY DEF Served
    <2>1. ASSUME NEW l, <<"default", l>> \in Subscription
          PROVE  Notices(m, g, l)' = Notices(m, g, l)
      <3>1. l \in DefaultListener
        BY <2>1, Keys
      <3> QED BY <3>1 DEF Notices
    <2>2. ASSUME NEW l \in g.due, <<"default", l>> \notin gone', OwnId("default", l)'
          PROVE  Notices(m, g, l)' = 1
      <3>1. <<"default", l>> \in Subscription /\ subID[<<"default", l>>] # NoId
        BY <1>3 DEF Remembered
      <3>2. OwnId("default", l) /\ <<"default", l>> \notin gone
        BY <3>1, <2>2 DEF SubscribersKept
      <3>3. Notices(m, g, l) = 1
        BY <3>2, <1>3 DEF Served
      <3> QED BY <2>1, <3>1, <3>3
    <2>3. ASSUME NEW l \in g.past, OwnId("default", l)'
          PROVE  Notices(m, g, l)' = 0
      <3>1. <<"default", l>> \in Subscription /\ subID[<<"default", l>>] # NoId
        BY <1>3, GoneHaveIds DEF Remembered
      <3>2. OwnId("default", l)
        BY <3>1, <2>3 DEF SubscribersKept
      <3>3. Notices(m, g, l) = 0
        BY <3>2, <1>3 DEF Served
      <3> QED BY <2>1, <3>1, <3>3
    <2> QED BY <2>2, <2>3
  <1> QED BY <1>1, <1>3, <1>4, <1>5, <1>6, <1>7 DEF ForwarderInv

-----------------------------------------------------------------------------
(* The steps.                                                              *)

GoroutinesInv == \A m \in Msg : PublisherInv(m) /\ ForwarderInv(m)

LEMMA InvInit ==
  ASSUME Init
  PROVE  BusInv
  <1>1. BusTypes
    BY TypesInit
  <1>2. ListInv
    <2>1. \A k \in Key : ListOf(k) = <<>>
      BY DEF Init, ListOf, Key
    <2>2. \A p \in Subscription : subID[p] = NoId
      BY DEF Init
    <2>3. gone = {}
      BY DEF Init
    <2> QED BY <2>1, <2>2, <2>3 DEF ListInv, Listed, Distinct
  <1>3. ASSUME NEW m \in Msg, NEW l \in AnyListener
        PROVE  Notices(m, Idle, l) = 0
    <2>1. Occurrences(l, Idle.failed) = 0
      BY OccurrencesEmpty DEF Idle
    <2>2. Occurrences(m, sent[l]) = 0
      <3>1. CASE l \in Busy
        <4>1. sent[l] = <<Older>> /\ m # Older
          BY <3>1, BusAssumption DEF Init
        <4>2. {i \in DOMAIN sent[l] : sent[l][i] = m} = {}
          BY <4>1
        <4> QED BY <4>2, FS_EmptySet DEF Occurrences
      <3>2. CASE l \notin Busy
        BY <3>2, OccurrencesEmpty DEF Init
      <3> QED BY <3>1, <3>2
    <2> QED BY <2>1, <2>2 DEF Notices
  <1>4. ASSUME NEW m \in Msg PROVE PublisherInv(m) /\ ForwarderInv(m)
    <2>1. publisher[m] = Idle /\ forwarder[m] = Idle
      BY DEF Init
    <2>2. /\ Idle.pc = "idle" /\ Idle.list = <<>> /\ Idle.next = 1
          /\ Idle.due = {} /\ Idle.past = {}
      BY DEF Idle
    <2>3. /\ NotifiedFirst(m, Idle, Listener, <<>>, 0)
          /\ NotifiedFirst(m, Idle, DefaultListener, <<>>, 0)
      BY <1>3 DEF NotifiedFirst, Among, AnyListener
    <2>4. Remembered(Idle, TopicOf[m]) /\ Remembered(Idle, "default")
      BY <2>2 DEF Remembered
    <2>5. Len(<<>>) = 0 /\ Distinct(<<>>)
      BY DEF Distinct
    <2>6. Idle.next - 1 = 0
      BY <2>2
    <2>7. PublisherInv(m)
      BY <2>1, <2>2, <2>3, <2>4, <2>5, <2>6 DEF PublisherInv
    <2>8. ForwarderInv(m)
      BY <2>1, <2>2, <2>3, <2>4 DEF ForwarderInv, Served
    <2> QED BY <2>7, <2>8
  <1> QED BY <1>1, <1>2, <1>4 DEF BusInv

\* The goroutines while someone subscribes or unsubscribes.
LEMMA GoroutinesKept ==
  ASSUME BusInv, SubscribersKept, UNCHANGED <<sent, publisher, forwarder>>,
         dispatchers' = dispatchers \/ Free
  PROVE  GoroutinesInv'
  <1> SUFFICES ASSUME NEW m \in Msg PROVE PublisherInv(m)' /\ ForwarderInv(m)'
    BY DEF GoroutinesInv
  <1>1. BusTypes /\ ListInv /\ PublisherInv(m) /\ ForwarderInv(m)
    BY DEF BusInv
  <1>2. forwarder[m].pc = "notify" => dispatchers' = dispatchers
    BY DEF Free
  <1>3. PublisherInv(m)'
    BY <1>1, PublisherKept
  <1>4. ForwarderInv(m)'
    BY <1>1, <1>2, ForwarderKept
  <1> QED BY <1>3, <1>4

LEMMA InvParts ==
  /\ BusInv <=> BusTypes /\ ListInv /\ GoroutinesInv
  /\ BusInv' <=> BusTypes' /\ ListInv' /\ GoroutinesInv'
  BY DEF BusInv, GoroutinesInv

LEMMA ListTypes ==
  ASSUME BusTypes
  PROVE  /\ \A t \in Topic : listeners[t] \in Seq(IdListener)
         /\ \A k \in Key : ListOf(k) \in Seq(IdListener)
         /\ subID \in [Subscription -> ListenerId \cup {NoId}] /\ gone \subseteq Subscription
  BY DEF BusTypes, TypeOK, Key, ListOf

LEMMA SubscribeInv ==
  ASSUME BusInv, NEW t \in Topic, NEW l \in Listener, Subscribe(t, l)
  PROVE  BusInv'
  <1>0. BusTypes /\ ListInv
    BY DEF BusInv
  <1>1. PICK id \in ListenerId :
          /\ subID[<<t, l>>] = NoId
          /\ listeners' = [listeners EXCEPT ![t] = Append(@, [id |-> id, lis |-> l])]
          /\ subID' = [subID EXCEPT ![<<t, l>>] = id]
          /\ UNCHANGED <<dispatchers, topicSet, gone, sent, read, publisher, forwarder>>
    BY DEF Subscribe
  <1>2. <<t, l>> \in Subscription /\ t \in Key /\ t # "default"
    BY Keys
  <1>3. PICK e \in IdListener : e = [id |-> id, lis |-> l]
    BY DEF IdListener, AnyListener
  <1>4. listeners[t] \in Seq(IdListener) /\ listeners \in [Topic -> Seq(IdListener)]
    BY <1>0 DEF BusTypes, TypeOK
  <1>5. Append(listeners[t], e) \in Seq(IdListener)
    BY <1>4, AppendProperties
  <1>6. listeners' = [listeners EXCEPT ![t] = Append(listeners[t], e)]
    BY <1>1, <1>3
  <1>7. listeners' \in [Topic -> Seq(IdListener)]
    BY <1>4, <1>5, <1>6
  <1>8. BusTypes'
    <2>1. /\ dispatchers' \in Seq(IdListener) /\ topicSet' \subseteq Topic
          /\ gone' \subseteq Subscription
      BY <1>0, <1>1 DEF BusTypes, TypeOK
    <2>2. subID' \in [Subscription -> ListenerId \cup {NoId}]
      BY <1>0, <1>1, <1>2, ListTypes
    <2> QED BY <1>0, <1>1, <1>7, <2>1, <2>2, TypesLists
  <1>9. ListInv'
    <2>1. ListOf(t)' = Append(ListOf(t), [id |-> id, lis |-> l])
      BY <1>2, <1>3, <1>4, <1>6 DEF ListOf
    <2>2. \A j \in Key : j # t => ListOf(j)' = ListOf(j)
      BY <1>1, <1>4, <1>6 DEF ListOf, Key
    <2>3. ListOf(t) \in Seq(IdListener)
      BY <1>0, <1>2, ListTypes
    <2> QED BY <1>0, <1>1, <1>2, <2>1, <2>2, <2>3, SubscribedListed
  <1>10. SubscribersKept
    BY <1>0, <1>1, <1>2, OwnIdBefore DEF SubscribersKept
  <1>11. GoroutinesInv'
    BY <1>1, <1>10, GoroutinesKept
  <1> QED BY <1>8, <1>9, <1>11, InvParts

LEMMA UnsubscribeInv ==
  ASSUME BusInv, NEW t \in Topic, NEW l \in Listener, Unsubscribe(t, l)
  PROVE  BusInv'
  <1>0. BusTypes /\ ListInv
    BY DEF BusInv
  <1>1. /\ subID[<<t, l>>] # NoId /\ <<t, l>> \notin gone
        /\ listeners' = [listeners EXCEPT ![t] = Delete(listeners[t], subID[<<t, l>>])]
        /\ gone' = gone \cup {<<t, l>>}
        /\ UNCHANGED <<dispatchers, topicSet, subID, sent, read, publisher, forwarder>>
    BY DEF Unsubscribe
  <1>2. <<t, l>> \in Subscription /\ t \in Key /\ t # "default"
    BY Keys
  <1>4. listeners[t] \in Seq(IdListener) /\ listeners \in [Topic -> Seq(IdListener)]
    BY <1>0 DEF BusTypes, TypeOK
  <1>5. Delete(listeners[t], subID[<<t, l>>]) \in Seq(IdListener)
    BY <1>4, DeleteFacts
  <1>7. listeners' \in [Topic -> Seq(IdListener)]
    BY <1>1, <1>4, <1>5
  <1>8. BusTypes'
    <2>1. /\ dispatchers' \in Seq(IdListener) /\ topicSet' \subseteq Topic
          /\ gone' \subseteq Subscription
          /\ subID' \in [Subscription -> ListenerId \cup {NoId}]
      BY <1>0, <1>1, <1>2 DEF BusTypes, TypeOK
    <2> QED BY <1>0, <1>1, <1>7, <2>1, TypesLists
  <1>9. ListInv'
    <2>1. ListOf(t)' = Delete(ListOf(t), subID[<<t, l>>])
      BY <1>1, <1>2, <1>4 DEF ListOf
    <2>2. \A j \in Key : j # t => ListOf(j)' = ListOf(j)
      BY <1>1, <1>4 DEF ListOf, Key
    <2>3. ListOf(t) \in Seq(IdListener)
      BY <1>0, <1>2, ListTypes
    <2> QED BY <1>0, <1>1, <1>2, <2>1, <2>2, <2>3, UnsubscribedListed
  <1>10. SubscribersKept
    BY <1>1, SameSubscribers
  <1>11. GoroutinesInv'
    BY <1>1, <1>10, GoroutinesKept
  <1> QED BY <1>8, <1>9, <1>11, InvParts

LEMMA SubscribeDefaultInv ==
  ASSUME BusInv, NEW l \in DefaultListener, SubscribeDefault(l)
  PROVE  BusInv'
  <1>0. BusTypes /\ ListInv
    BY DEF BusInv
  <1>1. PICK id \in ListenerId :
          /\ Free /\ subID[<<"default", l>>] = NoId
          /\ dispatchers' = Append(dispatchers, [id |-> id, lis |-> l])
          /\ subID' = [subID EXCEPT ![<<"default", l>>] = id]
          /\ UNCHANGED <<listeners, topicSet, gone, sent, read, publisher, forwarder>>
    BY DEF SubscribeDefault
  <1>2. <<"default", l>> \in Subscription /\ "default" \in Key
    BY Keys
  <1>3. PICK e \in IdListener : e = [id |-> id, lis |-> l]
    BY DEF IdListener, AnyListener
  <1>4. dispatchers \in Seq(IdListener)
    BY <1>0 DEF BusTypes, TypeOK
  <1>7. dispatchers' \in Seq(IdListener)
    BY <1>1, <1>3, <1>4, AppendProperties
  <1>8. BusTypes'
    <2>1. /\ listeners' \in [Topic -> Seq(IdListener)] /\ topicSet' \subseteq Topic
          /\ gone' \subseteq Subscription
      BY <1>0, <1>1 DEF BusTypes, TypeOK
    <2>2. subID' \in [Subscription -> ListenerId \cup {NoId}]
      BY <1>0, <1>1, <1>2, ListTypes
    <2> QED BY <1>0, <1>1, <1>7, <2>1, <2>2, TypesLists
  <1>9. ListInv'
    <2>1. ListOf("default")' = Append(ListOf("default"), [id |-> id, lis |-> l])
      BY <1>1 DEF ListOf
    <2>2. \A j \in Key : j # "default" => ListOf(j)' = ListOf(j)
      BY <1>1 DEF ListOf
    <2>3. ListOf("default") \in Seq(IdListener)
      BY <1>0, <1>2, ListTypes
    <2> QED BY <1>0, <1>1, <1>2, <2>1, <2>2, <2>3, SubscribedListed
  <1>10. SubscribersKept
    BY <1>0, <1>1, <1>2, OwnIdBefore DEF SubscribersKept
  <1>11. GoroutinesInv'
    BY <1>1, <1>10, GoroutinesKept
  <1> QED BY <1>8, <1>9, <1>11, InvParts

LEMMA DeleteDefaultInv ==
  ASSUME BusInv, NEW l \in DefaultListener, DeleteDefault(l)
  PROVE  BusInv'
  <1>0. BusTypes /\ ListInv
    BY DEF BusInv
  <1>1. /\ Free /\ subID[<<"default", l>>] # NoId /\ <<"default", l>> \notin gone
        /\ dispatchers' = Delete(dispatchers, subID[<<"default", l>>])
        /\ gone' = gone \cup {<<"default", l>>}
        /\ UNCHANGED <<listeners, topicSet, subID, sent, read, publisher, forwarder>>
    BY DEF DeleteDefault, LockForDelete
  <1>2. <<"default", l>> \in Subscription /\ "default" \in Key
    BY Keys
  <1>4. dispatchers \in Seq(IdListener)
    BY <1>0 DEF BusTypes, TypeOK
  <1>7. dispatchers' \in Seq(IdListener)
    BY <1>1, <1>4, DeleteFacts
  <1>8. BusTypes'
    <2>1. /\ listeners' \in [Topic -> Seq(IdListener)] /\ topicSet' \subseteq Topic
          /\ gone' \subseteq Subscription
          /\ subID' \in [Subscription -> ListenerId \cup {NoId}]
      BY <1>0, <1>1, <1>2 DEF BusTypes, TypeOK
    <2> QED BY <1>0, <1>1, <1>7, <2>1, TypesLists
  <1>9. ListInv'
    <2>1. ListOf("default")' = Delete(ListOf("default"), subID[<<"default", l>>])
      BY <1>1 DEF ListOf
    <2>2. \A j \in Key : j # "default" => ListOf(j)' = ListOf(j)
      BY <1>1 DEF ListOf
    <2>3. ListOf("default") \in Seq(IdListener)
      BY <1>0, <1>2, ListTypes
    <2> QED BY <1>0, <1>1, <1>2, <2>1, <2>2, <2>3, UnsubscribedListed
  <1>10. SubscribersKept
    BY <1>1, SameSubscribers
  <1>11. GoroutinesInv'
    BY <1>1, <1>10, GoroutinesKept
  <1> QED BY <1>8, <1>9, <1>11, InvParts

LEMMA AddTopicDefaultInv ==
  ASSUME BusInv, NEW t \in Topic, AddTopicDefault(t)
  PROVE  BusInv'
  <1>0. BusTypes /\ ListInv
    BY DEF BusInv
  <1>1. /\ topicSet' = topicSet \cup {t}
        /\ UNCHANGED <<listeners, dispatchers, subID, gone, sent, read, publisher, forwarder>>
    BY DEF AddTopicDefault
  <1>2. BusTypes'
    BY <1>0, <1>1 DEF BusTypes, TypeOK
  <1>3. ListInv'
    BY <1>0, <1>1, ListSame
  <1>4. SubscribersKept
    BY <1>1, SameSubscribers
  <1>5. GoroutinesInv'
    BY <1>1, <1>4, GoroutinesKept
  <1> QED BY <1>2, <1>3, <1>5, InvParts

LEMMA ReceiveInv ==
  ASSUME BusInv, NEW l \in AnyListener, Receive(l)
  PROVE  BusInv'
  <1>0. BusTypes /\ ListInv
    BY DEF BusInv
  <1>1. /\ read[l] < Len(sent[l]) /\ read' = [read EXCEPT ![l] = @ + 1]
        /\ UNCHANGED <<listeners, dispatchers, topicSet, subID, gone, sent, publisher, forwarder>>
    BY DEF Receive
  <1>2. BusTypes'
    <2>1. read \in [AnyListener -> Nat] /\ sent \in [AnyListener -> Seq(Msg \cup {Older})]
      BY <1>0 DEF BusTypes
    <2>2. read' \in [AnyListener -> Nat]
      BY <1>1, <2>1
    <2>3. ASSUME NEW a \in AnyListener
          PROVE  /\ read'[a] \in 0 .. Len(sent[a])
                 /\ a \notin Callback => Len(sent[a]) - read'[a] <= Capacity
      <3>1. /\ read[a] \in 0 .. Len(sent[a]) /\ Len(sent[a]) \in Nat
            /\ a \notin Callback => Len(sent[a]) - read[a] <= Capacity
        BY <1>0, <2>1, LenProperties DEF BusTypes, TypeOK
      <3>2. CASE a = l
        <4>1. read'[a] = read[a] + 1
          BY <3>2, <1>1, <2>1
        <4> QED BY <4>1, <3>1, <3>2, <1>1, BusAssumption
      <3>3. CASE a # l
        BY <3>3, <3>1, <1>1, <2>1
      <3> QED BY <3>2, <3>3
    <2> QED BY <1>0, <1>1, <2>2, <2>3 DEF BusTypes, TypeOK
  <1>3. ListInv'
    BY <1>0, <1>1, ListSame
  <1>4. SubscribersKept
    BY <1>1, SameSubscribers
  <1>5. GoroutinesInv'
    BY <1>1, <1>4, GoroutinesKept
  <1> QED BY <1>2, <1>3, <1>5, InvParts

\* A step of the goroutines of m: those of other messages are not concerned.
LEMMA OthersKept ==
  ASSUME BusInv, UNCHANGED <<dispatchers, subID, gone>>, NEW m \in Msg,
         NEW q \in Msg, q # m,
         publisher'[q] = publisher[q], forwarder'[q] = forwarder[q],
         \A l \in AnyListener : Occurrences(q, sent'[l]) = Occurrences(q, sent[l])
  PROVE  PublisherInv(q)' /\ ForwarderInv(q)'
  <1>1. BusTypes /\ ListInv /\ PublisherInv(q) /\ ForwarderInv(q)
    BY DEF BusInv
  <1>2. SubscribersKept
    BY SameSubscribers
  <1>3. Listener \subseteq AnyListener /\ DefaultListener \subseteq AnyListener
    BY DEF AnyListener
  <1>4. PublisherInv(q)'
    BY <1>1, <1>2, <1>3, PublisherKept
  <1>5. ForwarderInv(q)'
    BY <1>1, <1>2, <1>3, ForwarderKept
  <1> QED BY <1>4, <1>5

LEMMA PublishInv ==
  ASSUME BusInv, NEW m \in Msg, Publish(m)
  PROVE  BusInv'
  <1>0. BusTypes /\ ListInv /\ PublisherInv(m) /\ ForwarderInv(m)
    BY DEF BusInv
  <1>a. publisher \in [Msg -> Goroutine] /\ forwarder \in [Msg -> Goroutine]
    BY <1>0 DEF BusTypes
  <1>1. PICK k : k = TopicOf[m]
    OBVIOUS
  <1>2. PICK D \in SUBSET AnyListener : D = Subscribers(k)
    BY <1>0, SubscriberSets
  <1>3. PICK P \in SUBSET AnyListener : P = Former(k)
    BY <1>0, SubscriberSets
  <1>4. PICK start \in Goroutine : start = [Idle EXCEPT !.pc = "start"]
    BY IdleGoroutine DEF Idle, Goroutine
  <1>5. PICK g \in Goroutine : g = [start EXCEPT !.due = D, !.past = P]
    BY <1>4, IdleGoroutine
  <1>6. /\ publisher[m].pc = "idle"
        /\ publisher' = [publisher EXCEPT ![m] = g]
        /\ forwarder' = [forwarder EXCEPT ![m] = start]
        /\ UNCHANGED <<listeners, dispatchers, topicSet, subID, gone, sent, read>>
    BY <1>1, <1>2, <1>3, <1>4, <1>5 DEF Publish
  <1>7. /\ start.pc = "start" /\ start.list = <<>> /\ start.next = 1 /\ start.failed = <<>>
        /\ start.due = {} /\ start.past = {}
    BY <1>4 DEF Idle
  <1>8. /\ g.pc = "start" /\ g.list = <<>> /\ g.next = 1 /\ g.failed = <<>>
        /\ g.due = D /\ g.past = P
    BY <1>4, <1>5 DEF Idle
  <1>9. publisher'[m] = g /\ forwarder'[m] = start
    BY <1>a, <1>6
  <1>10. BusTypes'
    <2>1. publisher' \in [Msg -> Goroutine] /\ forwarder' \in [Msg -> Goroutine]
      BY <1>a, <1>6
    <2> QED BY <1>0, <1>6, <2>1, TypesGoroutines
  <1>11. ListInv'
    BY <1>0, <1>6, ListSame
  <1>12. \A q \in Msg : q # m => PublisherInv(q)' /\ ForwarderInv(q)'
    <2> SUFFICES ASSUME NEW q \in Msg, q # m PROVE PublisherInv(q)' /\ ForwarderInv(q)'
      OBVIOUS
    <2>1. publisher'[q] = publisher[q] /\ forwarder'[q] = forwarder[q]
      BY <1>a, <1>6
    <2> QED BY <2>1, <1>6, OthersKept
  <1>13. Len(<<>>) = 0 /\ Distinct(<<>>) /\ \A l : ~Among(l, <<>>, 0)
    BY DEF Distinct, Among
  <1>14. \A l : Occurrences(l, <<>>) = 0
    BY OccurrencesEmpty
  <1>15. PublisherInv(m)'
    <2>1. \A l \in Listener : Notices(m, g, l)' = 0
      <3> TAKE l \in Listener
      <3>1. PICK old \in Goroutine : old = publisher[m]
        BY <1>a
      <3>2. old.list = <<>> /\ old.next \in 1 .. Len(<<>>) + 1
            /\ NotifiedFirst(m, old, Listener, old.list, old.next - 1)
        BY <3>1, <1>0, <1>6 DEF PublisherInv
      <3>3. old.next - 1 = 0
        BY <3>2, <1>13
      <3>4. Notices(m, old, l) = 0
        BY <3>2, <3>3, <1>13 DEF NotifiedFirst
      <3>5. l \in AnyListener
        BY DEF AnyListener
      <3>6. Occurrences(l, old.failed) \in Nat
        BY OccurrencesNat DEF Goroutine
      <3>7. Occurrences(m, sent[l]) \in Nat
        BY <1>0, <3>5, OccurrencesNat DEF BusTypes
      <3>8. Occurrences(m, sent[l]) = 0
        BY <3>4, <3>6, <3>7 DEF Notices
      <3> QED BY <3>8, <1>14, <1>8, <1>6 DEF Notices
    <2>2. NotifiedFirst(m, g, Listener, <<>>, 0)'
      BY <2>1, <1>13 DEF NotifiedFirst, Among
    <2>3. Remembered(g, k)'
      BY <1>0, <1>2, <1>3, <1>6, <1>8, SubscriberSets DEF Remembered
    <2>4. g.next - 1 = 0
      BY <1>8
    <2> QED BY <2>2, <2>3, <2>4, <1>1, <1>8, <1>9, <1>13 DEF PublisherInv
  <1>16. ForwarderInv(m)'
    <2>1. \A l \in DefaultListener : Notices(m, start, l)' = 0
      <3> TAKE l \in DefaultListener
      <3>1. PICK old \in Goroutine : old = forwarder[m]
        BY <1>a
      <3>2. NotifiedFirst(m, old, DefaultListener, <<>>, 0)
        BY <3>1, <1>0, <1>6 DEF ForwarderInv
      <3>4. Notices(m, old, l) = 0
        BY <3>2, <1>13 DEF NotifiedFirst
      <3>5. l \in AnyListener
        BY DEF AnyListener
      <3>6. Occurrences(l, old.failed) \in Nat
        BY OccurrencesNat DEF Goroutine
      <3>7. Occurrences(m, sent[l]) \in Nat
        BY <1>0, <3>5, OccurrencesNat DEF BusTypes
      <3>8. Occurrences(m, sent[l]) = 0
        BY <3>4, <3>6, <3>7 DEF Notices
      <3> QED BY <3>8, <1>14, <1>7, <1>6 DEF Notices
    <2>2. NotifiedFirst(m, start, DefaultListener, <<>>, 0)'
      BY <2>1, <1>13 DEF NotifiedFirst, Among
    <2>3. Remembered(start, "default")'
      BY <1>7 DEF Remembered
    <2> QED BY <2>2, <2>3, <1>7, <1>8, <1>9 DEF ForwarderInv, Served
  <1>17. GoroutinesInv'
    BY <1>12, <1>15, <1>16 DEF GoroutinesInv
  <1> QED BY <1>10, <1>11, <1>17, InvParts

\* A step of the publisher of m alone: what remains to be shown of it.
LEMMA PublisherStep ==
  ASSUME BusInv, NEW m \in Msg, NEW g \in Goroutine, g.pc # "idle",
         publisher[m].pc # "idle", publisher' = [publisher EXCEPT ![m] = g],
         UNCHANGED <<listeners, dispatchers, topicSet, subID, gone, read, forwarder>>,
         BusTypes',
         \A q \in Msg, l \in AnyListener :
            (q # m \/ l \in DefaultListener) => Occurrences(q, sent'[l]) = Occurrences(q, sent[l]),
         PublisherInv(m)'
  PROVE  BusInv'
  <1>0. BusTypes /\ ListInv /\ ForwarderInv(m)
    BY DEF BusInv
  <1>1. publisher \in [Msg -> Goroutine]
    BY <1>0 DEF BusTypes
  <1>2. ListInv'
    BY <1>0, ListSame
  <1>3. \A q \in Msg : q # m => PublisherInv(q)' /\ ForwarderInv(q)'
    <2> SUFFICES ASSUME NEW q \in Msg, q # m PROVE PublisherInv(q)' /\ ForwarderInv(q)'
      OBVIOUS
    <2>1. publisher'[q] = publisher[q] /\ forwarder'[q] = forwarder[q]
      BY <1>1
    <2> QED BY <2>1, OthersKept
  <1>4. ForwarderInv(m)'
    <2>1. SubscribersKept
      BY SameSubscribers
    <2>2. publisher'[m] = g
      BY <1>1
    <2>3. \A l \in DefaultListener : Occurrences(m, sent'[l]) = Occurrences(m, sent[l])
      BY DEF AnyListener
    <2> QED BY <1>0, <2>1, <2>2, <2>3, ForwarderKept
  <1>5. GoroutinesInv'
    BY <1>3, <1>4 DEF GoroutinesInv
  <1> QED BY <1>2, <1>5, InvParts

LEMMA LoadInv ==
  ASSUME BusInv, NEW m \in Msg, Load(m)
  PROVE  BusInv'
  <1>0. BusTypes /\ ListInv /\ PublisherInv(m)
    BY DEF BusInv
  <1>a. publisher \in [Msg -> Goroutine] /\ forwarder \in [Msg -> Goroutine]
    BY <1>0 DEF BusTypes
  <1>1. PICK k \in Topic : k = TopicOf[m]
    BY BusAssumption
  <1>2. PICK list \in Seq(IdListener) : list = listeners[k]
    BY <1>0, ListTypes
  <1>3. PICK old \in Goroutine : old = publisher[m]
    BY <1>a
  <1>4. PICK g : g = [old EXCEPT !.pc = "notify", !.list = list]
    OBVIOUS
  <1>5. /\ g.pc = "notify" /\ g.list = list /\ g.next = old.next /\ g.failed = old.failed
        /\ g.due = old.due /\ g.past = old.past /\ g \in Goroutine
    BY <1>4 DEF Goroutine
  <1>6. /\ old.pc = "start" /\ publisher' = [publisher EXCEPT ![m] = g]
        /\ UNCHANGED <<listeners, dispatchers, topicSet, subID, gone, sent, read, forwarder>>
    BY <1>1, <1>2, <1>3, <1>4 DEF Load
  <1>7. publisher'[m] = g
    BY <1>a, <1>6
  <1>8. BusTypes'
    <2>1. publisher' \in [Msg -> Goroutine] /\ forwarder' \in [Msg -> Goroutine]
      BY <1>a, <1>5, <1>6
    <2> QED BY <1>0, <1>6, <2>1, TypesGoroutines
  <1>9. PublisherInv(m)'
    <2>1. /\ Remembered(old, k) /\ old.list = <<>> /\ old.next \in 1 .. Len(<<>>) + 1
          /\ NotifiedFirst(m, old, Listener, <<>>, old.next - 1)
      BY <1>0, <1>1, <1>3, <1>6 DEF PublisherInv
    <2>2. old.next = 1 /\ old.next - 1 = 0 /\ g.next - 1 = 0
      BY <2>1, <1>5
    <2>3. k \in Key /\ k # "default" /\ list = ListOf(k)
      BY <1>1, <1>2, BusAssumption DEF Key, ListOf
    <2>4. /\ Distinct(list)
          /\ \A i \in 1 .. Len(list) : <<k, list[i].lis>> \in Subscription
          /\ \A l \in AnyListener :
                (<<k, l>> \in Subscription /\ subID[<<k, l>>] # NoId /\ OwnId(k, l))
                    => (Among(l, list, Len(list)) <=> <<k, l>> \notin gone)
      BY <1>0, <2>3 DEF ListInv, Listed
    <2>5. \A i \in 1 .. Len(list) : list[i].lis \in Listener
      BY <2>4, Keys
    <2>6. NotifiedFirst(m, g, Listener, list, 0)'
      <3>1. \A l \in Listener : Notices(m, old, l) = 0
        BY <2>1, <2>2 DEF NotifiedFirst, Among
      <3>2. \A l \in Listener : Notices(m, g, l)' = 0
        BY <3>1, <1>5, <1>6 DEF Notices
      <3> QED BY <3>2 DEF NotifiedFirst, Among
    <2>7. Remembered(g, k)'
      BY <2>1, <1>5, <1>6 DEF Remembered
    <2>8. \A l : OwnId(k, l)' <=> OwnId(k, l)
      BY <1>6 DEF OwnId
    <2>9. \A l \in g.due : (<<k, l>> \notin gone /\ OwnId(k, l)) => Among(l, list, Len(list))
      BY <2>1, <2>4, <1>5, Keys DEF Remembered
    <2>10. \A l \in g.past : OwnId(k, l) => ~Among(l, list, Len(list))
      <3> SUFFICES ASSUME NEW l \in g.past, OwnId(k, l) PROVE ~Among(l, list, Len(list))
        OBVIOUS
      <3>1. <<k, l>> \in gone
        BY <2>1, <1>5 DEF Remembered
      <3>2. <<k, l>> \in Subscription /\ subID[<<k, l>>] # NoId /\ l \in AnyListener
        BY <3>1, <1>0, GoneHaveIds, Keys
      <3> QED BY <3>1, <3>2, <2>4
    <2>11. Len(list) \in Nat
      BY LenProperties
    <2>12. g.next \in 1 .. Len(list) + 1
      BY <2>2, <2>11, <1>5
    <2> QED BY <2>2, <2>4, <2>5, <2>6, <2>7, <2>8, <2>9, <2>10, <2>12, <1>1, <1>5, <1>6, <1>7
            DEF PublisherInv
  <1> QED BY <1>3, <1>5, <1>6, <1>8, <1>9, PublisherStep

LEMMA PublishNotifyInv ==
  ASSUME BusInv, NEW m \in Msg, PublishNotify(m)
  PROVE  BusInv'
  <1>0. BusTypes /\ ListInv /\ PublisherInv(m)
    BY DEF BusInv
  <1>a. publisher \in [Msg -> Goroutine] /\ forwarder \in [Msg -> Goroutine]
    BY <1>0 DEF BusTypes
  <1>1. PICK k : k = TopicOf[m]
    OBVIOUS
  <1>2. PICK old \in Goroutine : old = publisher[m]
    BY <1>a
  <1>3. PICK l \in AnyListener : l = old.list[old.next].lis
    BY <1>2 DEF PublishNotify, LoadedList, MayNotify
  <1>4. PICK g : g = Advance(old, l)
    OBVIOUS
  <1>5. /\ g \in Goroutine /\ g.next = old.next + 1 /\ g.pc = old.pc /\ g.list = old.list
        /\ g.due = old.due /\ g.past = old.past
    BY <1>4, Advanced
  <1>6. /\ old.pc = "notify" /\ old.next <= Len(old.list)
        /\ sent' = Notified(l, m) /\ publisher' = [publisher EXCEPT ![m] = g]
        /\ UNCHANGED <<listeners, dispatchers, topicSet, subID, gone, read, forwarder>>
    BY <1>2, <1>3, <1>4 DEF PublishNotify, LoadedList
  <1>7. publisher'[m] = g
    BY <1>a, <1>6
  <1>8. BusTypes'
    <2>1. publisher' \in [Msg -> Goroutine] /\ forwarder' \in [Msg -> Goroutine]
      BY <1>a, <1>5, <1>6
    <2> QED BY <1>0, <1>6, <2>1, TypesNotice
  <1>9. /\ Remembered(old, k) /\ Distinct(old.list)
        /\ \A i \in 1 .. Len(old.list) : old.list[i].lis \in Listener
        /\ old.next \in 1 .. Len(old.list) + 1
        /\ NotifiedFirst(m, old, Listener, old.list, old.next - 1)
        /\ \A a \in old.due : (<<k, a>> \notin gone /\ OwnId(k, a))
                                      => Among(a, old.list, Len(old.list))
        /\ \A a \in old.past : OwnId(k, a) => ~Among(a, old.list, Len(old.list))
    BY <1>0, <1>1, <1>2, <1>6 DEF PublisherInv
  <1>10. /\ \A a \in AnyListener : Notices(m, g, a)'
               = Notices(m, old, a) + (IF a = l THEN 1 ELSE 0)
         /\ \A a \in AnyListener, q \in Msg : (q # m \/ a # l) =>
               Occurrences(q, sent'[a]) = Occurrences(q, sent[a])
    BY <1>0, <1>4, <1>6, NoticeAdded
  <1>11. PICK n \in Nat : n = Len(old.list)
    BY LenProperties DEF Goroutine
  <1>12. PICK p \in 1 .. n : p = old.next
    BY <1>6, <1>9, <1>11
  <1>13. l \in Listener /\ l = old.list[p].lis
    BY <1>3, <1>9, <1>11, <1>12
  <1>14. NotifiedFirst(m, g, Listener, g.list, g.next - 1)'
    <2>1. g.next - 1 = p /\ old.next - 1 = p - 1
      BY <1>5, <1>12
    <2>2. ASSUME NEW a \in Listener
          PROVE  Notices(m, g, a)' = IF Among(a, old.list, p) THEN 1 ELSE 0
      <3>1. Notices(m, old, a) = IF Among(a, old.list, p - 1) THEN 1 ELSE 0
        BY <1>9, <2>1 DEF NotifiedFirst
      <3>2. Notices(m, g, a)' = Notices(m, old, a) + (IF a = l THEN 1 ELSE 0)
        BY <1>10 DEF AnyListener
      <3>3. CASE a = l
        <4>1. ~Among(a, old.list, p - 1)
          <5> SUFFICES ASSUME NEW i \in 1 .. p - 1, old.list[i].lis = l PROVE FALSE
            BY <3>3 DEF Among
          <5>1. i \in 1 .. n /\ i # p
            BY <1>12
          <5> QED BY <5>1, <1>9, <1>11, <1>13 DEF Distinct
        <4>2. Among(a, old.list, p)
          BY <3>3, <1>13 DEF Among
        <4> QED BY <3>1, <3>2, <3>3, <4>1, <4>2
      <3>4. CASE a # l
        <4>1. Among(a, old.list, p) <=> Among(a, old.list, p - 1)
          BY <3>4, <1>13 DEF Among
        <4> QED BY <3>1, <3>2, <3>4, <4>1
      <3> QED BY <3>3, <3>4
    <2> QED BY <2>1, <2>2, <1>5 DEF NotifiedFirst, Among
  <1>15. PublisherInv(m)'
    <2>1. Remembered(g, k)'
      BY <1>9, <1>5, <1>6 DEF Remembered
    <2>2. \A a : OwnId(k, a)' <=> OwnId(k, a)
      BY <1>6 DEF OwnId
    <2>3. g.next \in 1 .. Len(g.list) + 1
      BY <1>5, <1>11, <1>12
    <2> QED BY <2>1, <2>2, <2>3, <1>1, <1>5, <1>6, <1>7, <1>9, <1>14 DEF PublisherInv
  <1>16. \A q \in Msg, a \in AnyListener :
            (q # m \/ a \in DefaultListener) => Occurrences(q, sent'[a]) = Occurrences(q, sent[a])
    BY <1>10, <1>13, BusAssumption
  <1> QED BY <1>2, <1>5, <1>6, <1>8, <1>15, <1>16, PublisherStep

LEMMA PublishReturnInv ==
  ASSUME BusInv, NEW m \in Msg, PublishReturn(m)
  PROVE  BusInv'
  <1>0. BusTypes /\ ListInv /\ PublisherInv(m)
    BY DEF BusInv
  <1>a. publisher \in [Msg -> Goroutine] /\ forwarder \in [Msg -> Goroutine]
    BY <1>0 DEF BusTypes
  <1>1. PICK k : k = TopicOf[m]
    OBVIOUS
  <1>2. PICK old \in Goroutine : old = publisher[m]
    BY <1>a
  <1>4. PICK g : g = [old EXCEPT !.pc = "done"]
    OBVIOUS
  <1>5. /\ g.pc = "done" /\ g.list = old.list /\ g.next = old.next /\ g.failed = old.failed
        /\ g.due = old.due /\ g.past = old.past /\ g \in Goroutine
    BY <1>4 DEF Goroutine
  <1>6. /\ old.pc = "notify" /\ old.next > Len(old.list)
        /\ publisher' = [publisher EXCEPT ![m] = g]
        /\ UNCHANGED <<listeners, dispatchers, topicSet, subID, gone, sent, read, forwarder>>
    BY <1>2, <1>4 DEF PublishReturn, LoadedList
  <1>7. publisher'[m] = g
    BY <1>a, <1>6
  <1>8. BusTypes'
    <2>1. publisher' \in [Msg -> Goroutine] /\ forwarder' \in [Msg -> Goroutine]
      BY <1>a, <1>5, <1>6
    <2> QED BY <1>0, <1>6, <2>1, TypesGoroutines
  <1>9. /\ Remembered(old, k) /\ Distinct(old.list)
        /\ \A i \in 1 .. Len(old.list) : old.list[i].lis \in Listener
        /\ old.next \in 1 .. Len(old.list) + 1
        /\ NotifiedFirst(m, old, Listener, old.list, old.next - 1)
        /\ \A a \in old.due : (<<k, a>> \notin gone /\ OwnId(k, a))
                                      => Among(a, old.list, Len(old.list))
        /\ \A a \in old.past : OwnId(k, a) => ~Among(a, old.list, Len(old.list))
    BY <1>0, <1>1, <1>2, <1>6 DEF PublisherInv
  <1>10. Len(old.list) \in Nat
    BY LenProperties DEF Goroutine
  <1>11. g.next = Len(g.list) + 1
    BY <1>5, <1>6, <1>9, <1>10
  <1>12. Remembered(g, k)'
    BY <1>9, <1>5, <1>6 DEF Remembered
  <1>13. \A a : OwnId(k, a)' <=> OwnId(k, a)
    BY <1>6 DEF OwnId
  <1>14. NotifiedFirst(m, g, Listener, g.list, g.next - 1)'
    BY <1>5, <1>6, <1>9 DEF NotifiedFirst, Notices, Among
  <1>15. PublisherInv(m)'
    BY <1>1, <1>5, <1>6, <1>7, <1>9, <1>11, <1>12, <1>13, <1>14 DEF PublisherInv
  <1> QED BY <1>2, <1>5, <1>6, <1>8, <1>15, PublisherStep

\* A step of the forwarder of m alone.
LEMMA ForwarderStep ==
  ASSUME BusInv, NEW m \in Msg, NEW g \in Goroutine,
         forwarder' = [forwarder EXCEPT ![m] = g],
         UNCHANGED <<listeners, dispatchers, topicSet, subID, gone, read, publisher>>,
         BusTypes',
         \A q \in Msg, l \in AnyListener :
            (q # m \/ l \in Listener) => Occurrences(q, sent'[l]) = Occurrences(q, sent[l]),
         ForwarderInv(m)'
  PROVE  BusInv'
  <1>0. BusTypes /\ ListInv /\ PublisherInv(m)
    BY DEF BusInv
  <1>1. forwarder \in [Msg -> Goroutine]
    BY <1>0 DEF BusTypes
  <1>2. ListInv'
    BY <1>0, ListSame
  <1>3. \A q \in Msg : q # m => PublisherInv(q)' /\ ForwarderInv(q)'
    <2> SUFFICES ASSUME NEW q \in Msg, q # m PROVE PublisherInv(q)' /\ ForwarderInv(q)'
      OBVIOUS
    <2>1. publisher'[q] = publisher[q] /\ forwarder'[q] = forwarder[q]
      BY <1>1
    <2> QED BY <2>1, OthersKept
  <1>4. PublisherInv(m)'
    <2>1. SubscribersKept
      BY SameSubscribers
    <2>2. \A l \in Listener : Occurrences(m, sent'[l]) = Occurrences(m, sent[l])
      BY DEF AnyListener
    <2> QED BY <1>0, <2>1, <2>2, PublisherKept
  <1>5. GoroutinesInv'
    BY <1>3, <1>4 DEF GoroutinesInv
  <1> QED BY <1>2, <1>5, InvParts

LEMMA ForwardInv ==
  ASSUME BusInv, NEW m \in Msg, Forward(m)
  PROVE  BusInv'
  <1>0. BusTypes /\ ListInv /\ ForwarderInv(m)
    BY DEF BusInv
  <1>a. publisher \in [Msg -> Goroutine] /\ forwarder \in [Msg -> Goroutine]
    BY <1>0 DEF BusTypes
  <1>1. PICK old \in Goroutine : old = forwarder[m]
    BY <1>a
  <1>2. PICK D \in SUBSET AnyListener :
           D = IF TopicOf[m] \in topicSet THEN Subscribers("default") ELSE {}
    BY <1>0, SubscriberSets
  <1>3. PICK P \in SUBSET AnyListener : P = Former("default")
    BY <1>0, SubscriberSets
  <1>4. PICK c \in {"notify", "done"} : c = IF TopicOf[m] \in topicSet THEN "notify" ELSE "done"
    OBVIOUS
  <1>5. PICK g : g = [old EXCEPT !.pc = c, !.due = D, !.past = P]
    OBVIOUS
  <1>6. /\ g.pc = c /\ g.list = old.list /\ g.next = old.next /\ g.failed = old.failed
        /\ g.due = D /\ g.past = P /\ g \in Goroutine
    BY <1>4, <1>5 DEF Goroutine
  <1>7. /\ old.pc = "start" /\ forwarder' = [forwarder EXCEPT ![m] = g]
        /\ UNCHANGED <<listeners, dispatchers, topicSet, subID, gone, sent, read, publisher>>
    BY <1>1, <1>2, <1>3, <1>4, <1>5 DEF Forward
  <1>8. forwarder'[m] = g
    BY <1>a, <1>7
  <1>9. BusTypes'
    <2>1. publisher' \in [Msg -> Goroutine] /\ forwarder' \in [Msg -> Goroutine]
      BY <1>a, <1>6, <1>7
    <2> QED BY <1>0, <1>7, <2>1, TypesGoroutines
  <1>10. ForwarderInv(m)'
    <2>1. /\ publisher[m].pc # "idle" /\ old.next = 1
          /\ NotifiedFirst(m, old, DefaultListener, <<>>, 0)
      BY <1>0, <1>1, <1>7 DEF ForwarderInv
    <2>2. \A l \in DefaultListener : Notices(m, g, l)' = 0
      <3>1. \A l \in DefaultListener : Notices(m, old, l) = 0
        BY <2>1 DEF NotifiedFirst, Among
      <3> QED BY <3>1, <1>6, <1>7 DEF Notices
    <2>3. Remembered(g, "default")'
      BY <1>0, <1>2, <1>3, <1>6, <1>7, SubscriberSets DEF Remembered
    <2>4. g.next \in 1 .. Len(dispatchers) + 1 /\ g.next - 1 = 0
      <3>1. Len(dispatchers) \in Nat
        BY <1>0, LenProperties DEF BusTypes, TypeOK
      <3> QED BY <3>1, <2>1, <1>6
    <2>5. NotifiedFirst(m, g, DefaultListener, dispatchers, g.next - 1)'
      BY <2>2, <2>4 DEF NotifiedFirst, Among
    <2>6. Served(m, g, "default")'
      <3> SUFFICES ASSUME g.pc = "done"
                   PROVE  /\ g.due = {}
                          /\ \A l \in g.past : Notices(m, g, l)' = 0
        BY DEF Served
      <3>1. g.due = {}
        BY <1>2, <1>4, <1>6
      <3>2. \A l \in g.past : l \in DefaultListener
        <4>1. \A l \in g.past : <<"default", l>> \in gone
          BY <1>0, <1>3, <1>6, SubscriberSets
        <4>2. \A l \in g.past : <<"default", l>> \in Subscription
          BY <4>1, <1>0, GoneHaveIds
        <4> QED BY <4>2, Keys
      <3> QED BY <3>1, <3>2, <2>2
    <2> QED BY <2>1, <2>3, <2>4, <2>5, <2>6, <1>4, <1>6, <1>7, <1>8 DEF ForwarderInv
  <1> QED BY <1>6, <1>7, <1>9, <1>10, ForwarderStep

LEMMA ForwardNotifyInv ==
  ASSUME BusInv, NEW m \in Msg, ForwardNotify(m)
  PROVE  BusInv'
  <1>0. BusTypes /\ ListInv /\ ForwarderInv(m)
    BY DEF BusInv
  <1>a. publisher \in [Msg -> Goroutine] /\ forwarder \in [Msg -> Goroutine]
    BY <1>0 DEF BusTypes
  <1>1. PICK list \in Seq(IdListener) : list = dispatchers
    BY <1>0 DEF BusTypes, TypeOK
  <1>2. PICK old \in Goroutine : old = forwarder[m]
    BY <1>a
  <1>3. PICK l \in AnyListener : l = list[old.next].lis
    BY <1>1, <1>2 DEF ForwardNotify, MayNotify
  <1>4. PICK g : g = Advance(old, l)
    OBVIOUS
  <1>5. /\ g \in Goroutine /\ g.next = old.next + 1 /\ g.pc = old.pc
        /\ g.due = old.due /\ g.past = old.past
    BY <1>4, Advanced
  <1>6. /\ old.pc = "notify" /\ old.next <= Len(list)
        /\ sent' = Notified(l, m) /\ forwarder' = [forwarder EXCEPT ![m] = g]
        /\ UNCHANGED <<listeners, dispatchers, topicSet, subID, gone, read, publisher>>
    BY <1>1, <1>2, <1>3, <1>4 DEF ForwardNotify
  <1>7. forwarder'[m] = g
    BY <1>a, <1>6
  <1>8. BusTypes'
    <2>1. publisher' \in [Msg -> Goroutine] /\ forwarder' \in [Msg -> Goroutine]
      BY <1>a, <1>5, <1>6
    <2> QED BY <1>0, <1>6, <2>1, TypesNotice
  <1>9. /\ publisher[m].pc = "idle" => old.pc = "idle"
        /\ Remembered(old, "default") /\ old.next \in 1 .. Len(list) + 1
        /\ NotifiedFirst(m, old, DefaultListener, list, old.next - 1)
    BY <1>0, <1>1, <1>2, <1>6 DEF ForwarderInv
  <1>10. /\ \A a \in AnyListener : Notices(m, g, a)'
               = Notices(m, old, a) + (IF a = l THEN 1 ELSE 0)
         /\ \A a \in AnyListener, q \in Msg : (q # m \/ a # l) =>
               Occurrences(q, sent'[a]) = Occurrences(q, sent[a])
    BY <1>0, <1>4, <1>6, NoticeAdded
  <1>11. PICK n \in Nat : n = Len(list)
    BY LenProperties
  <1>12. PICK p \in 1 .. n : p = old.next
    BY <1>6, <1>9, <1>11
  <1>13. /\ Distinct(list) /\ l \in DefaultListener /\ l = list[p].lis
    <2>1. list = ListOf("default") /\ "default" \in Key
      BY <1>1 DEF ListOf, Key
    <2>2. Distinct(list) /\ \A i \in 1 .. Len(list) : <<"default", list[i].lis>> \in Subscription
      BY <1>0, <2>1 DEF ListInv, Listed
    <2> QED BY <2>2, <1>3, <1>11, <1>12, Keys
  <1>14. NotifiedFirst(m, g, DefaultListener, list, g.next - 1)'
    <2>1. g.next - 1 = p /\ old.next - 1 = p - 1
      BY <1>5, <1>12
    <2>2. ASSUME NEW a \in DefaultListener
          PROVE  Notices(m, g, a)' = IF Among(a, list, p) THEN 1 ELSE 0
      <3>1. Notices(m, old, a) = IF Among(a, list, p - 1) THEN 1 ELSE 0
        BY <1>9, <2>1 DEF NotifiedFirst
      <3>2. Notices(m, g, a)' = Notices(m, old, a) + (IF a = l THEN 1 ELSE 0)
        BY <1>10 DEF AnyListener
      <3>3. CASE a = l
        <4>1. ~Among(a, list, p - 1)
          <5> SUFFICES ASSUME NEW i \in 1 .. p - 1, list[i].lis = l PROVE FALSE
            BY <3>3 DEF Among
          <5>1. i \in 1 .. n /\ i # p
            BY <1>12
          <5> QED BY <5>1, <1>11, <1>13 DEF Distinct
        <4>2. Among(a, list, p)
          BY <3>3, <1>13 DEF Among
        <4> QED BY <3>1, <3>2, <3>3, <4>1, <4>2
      <3>4. CASE a # l
        <4>1. Among(a, list, p) <=> Among(a, list, p - 1)
          BY <3>4, <1>13 DEF Among
        <4> QED BY <3>1, <3>2, <3>4, <4>1
      <3> QED BY <3>3, <3>4
    <2> QED BY <2>1, <2>2 DEF NotifiedFirst, Among
  <1>15. ForwarderInv(m)'
    <2>1. Remembered(g, "default")'
      BY <1>9, <1>5, <1>6 DEF Remembered
    <2>2. g.next \in 1 .. Len(dispatchers') + 1
      BY <1>1, <1>5, <1>6, <1>11, <1>12
    <2>3. NotifiedFirst(m, g, DefaultListener, dispatchers, g.next - 1)'
      BY <1>1, <1>6, <1>14 DEF NotifiedFirst, Among
    <2> QED BY <2>1, <2>2, <2>3, <1>5, <1>6, <1>7, <1>9 DEF ForwarderInv, Served
  <1>16. \A q \in Msg, a \in AnyListener :
            (q # m \/ a \in Listener) => Occurrences(q, sent'[a]) = Occurrences(q, sent[a])
    BY <1>10, <1>13, BusAssumption
  <1> QED BY <1>5, <1>6, <1>8, <1>15, <1>16, ForwarderStep

LEMMA ForwardReturnInv ==
  ASSUME BusInv, NEW m \in Msg, ForwardReturn(m)
  PROVE  BusInv'
  <1>0. BusTypes /\ ListInv /\ ForwarderInv(m)
    BY DEF BusInv
  <1>a. publisher \in [Msg -> Goroutine] /\ forwarder \in [Msg -> Goroutine]
    BY <1>0 DEF BusTypes
  <1>1. PICK list \in Seq(IdListener) : list = dispatchers
    BY <1>0 DEF BusTypes, TypeOK
  <1>2. PICK old \in Goroutine : old = forwarder[m]
    BY <1>a
  <1>4. PICK g : g = [old EXCEPT !.pc = "done"]
    OBVIOUS
  <1>5. /\ g.pc = "done" /\ g.list = old.list /\ g.next = old.next /\ g.failed = old.failed
        /\ g.due = old.due /\ g.past = old.past /\ g \in Goroutine
    BY <1>4 DEF Goroutine
  <1>6. /\ old.pc = "notify" /\ old.next > Len(list)
        /\ forwarder' = [forwarder EXCEPT ![m] = g]
        /\ UNCHANGED <<listeners, dispatchers, topicSet, subID, gone, sent, read, publisher>>
    BY <1>1, <1>2, <1>4 DEF ForwardReturn
  <1>7. forwarder'[m] = g
    BY <1>a, <1>6
  <1>8. BusTypes'
    <2>1. publisher' \in [Msg -> Goroutine] /\ forwarder' \in [Msg -> Goroutine]
      BY <1>a, <1>5, <1>6
    <2> QED BY <1>0, <1>6, <2>1, TypesGoroutines
  <1>9. /\ publisher[m].pc = "idle" => old.pc = "idle"
        /\ Remembered(old, "default") /\ old.next \in 1 .. Len(list) + 1
        /\ NotifiedFirst(m, old, DefaultListener, list, old.next - 1)
    BY <1>0, <1>1, <1>2, <1>6 DEF ForwarderInv
  <1>10. old.next - 1 = Len(list)
    <2>1. Len(list) \in Nat
      BY LenProperties
    <2> QED BY <2>1, <1>6, <1>9
  <1>11. \A l \in DefaultListener : Notices(m, g, l)' = IF Among(l, list, Len(list)) THEN 1 ELSE 0
    BY <1>5, <1>6, <1>9, <1>10 DEF NotifiedFirst, Notices
  <1>12. \A l \in AnyListener :
            (<<"default", l>> \in Subscription /\ subID[<<"default", l>>] # NoId /\ OwnId("default", l))
                => (Among(l, list, Len(list)) <=> <<"default", l>> \notin gone)
    <2>1. list = ListOf("default") /\ "default" \in Key
      BY <1>1 DEF ListOf, Key
    <2> QED BY <1>0, <2>1 DEF ListInv, Listed
  <1>13. Served(m, g, "default")'
    <2>1. ASSUME NEW l \in g.due, <<"default", l>> \notin gone, OwnId("default", l)
          PROVE  Notices(m, g, l)' = 1
      <3>1. <<"default", l>> \in Subscription /\ subID[<<"default", l>>] # NoId
        BY <1>5, <1>9 DEF Remembered
      <3>2. l \in DefaultListener /\ l \in AnyListener
        BY <3>1, Keys
      <3>3. Among(l, list, Len(list))
        BY <3>1, <3>2, <2>1, <1>12
      <3> QED BY <3>2, <3>3, <1>11
    <2>2. ASSUME NEW l \in g.past, OwnId("default", l)
          PROVE  Notices(m, g, l)' = 0
      <3>1. <<"default", l>> \in gone
        BY <1>5, <1>9 DEF Remembered
      <3>2. <<"default", l>> \in Subscription /\ subID[<<"default", l>>] # NoId
        BY <3>1, <1>0, GoneHaveIds
      <3>3. l \in DefaultListener /\ l \in AnyListener
        BY <3>2, Keys
      <3>4. ~Among(l, list, Len(list))
        BY <3>1, <3>2, <3>3, <2>2, <1>12
      <3> QED BY <3>3, <3>4, <1>11
    <2>3. \A l : OwnId("default", l)' <=> OwnId("default", l)
      BY <1>6 DEF OwnId
    <2> QED BY <2>1, <2>2, <2>3, <1>6 DEF Served
  <1>14. Remembered(g, "default")'
    BY <1>9, <1>5, <1>6 DEF Remembered
  <1>15. ForwarderInv(m)'
    BY <1>5, <1>6, <1>7, <1>9, <1>13, <1>14 DEF ForwarderInv
  <1> QED BY <1>5, <1>6, <1>8, <1>15, ForwarderStep

LEMMA InvStutter ==
  ASSUME BusInv, UNCHANGED vars
  PROVE  BusInv'
  <1>0. BusTypes /\ ListInv
    BY DEF BusInv
  <1>1. BusTypes'
    BY <1>0 DEF BusTypes, TypeOK, vars
  <1>2. ListInv'
    BY <1>0, ListSame DEF vars
  <1>3. SubscribersKept
    BY SameSubscribers DEF vars
  <1>4. GoroutinesInv'
    BY <1>3, GoroutinesKept DEF vars
  <1> QED BY <1>1, <1>2, <1>4, InvParts

-----------------------------------------------------------------------------
(* The theorems.                                                           *)

\* In every reachable state the lists of listeners are those of the
\* subscriptions, and every goroutine in Publish or Forward has notified
\* exactly the listeners it has passed, each of them once.
THEOREM BusInvariant == Spec => []BusInv
  <1>1. Init => BusInv
    BY InvInit
  <1>2. BusInv /\ [Next]_vars => BusInv'
    <2> SUFFICES ASSUME BusInv, [Next]_vars PROVE BusInv'
      OBVIOUS
    <2>1. ASSUME NEW t \in Topic, NEW l \in Listener, Subscribe(t, l) PROVE BusInv'
      BY <2>1, SubscribeInv
    <2>2. ASSUME NEW t \in Topic, NEW l \in Listener, Unsubscribe(t, l) PROVE BusInv'
      BY <2>2, UnsubscribeInv
    <2>3. ASSUME NEW t \in Topic, AddTopicDefault(t) PROVE BusInv'
      BY <2>3, AddTopicDefaultInv
    <2>4. ASSUME NEW l \in DefaultListener, SubscribeDefault(l) PROVE BusInv'
      BY <2>4, SubscribeDefaultInv
    <2>5. ASSUME NEW l \in DefaultListener, DeleteDefault(l) PROVE BusInv'
      BY <2>5, DeleteDefaultInv
    <2>6. ASSUME NEW m \in Msg, Publish(m) PROVE BusInv'
      BY <2>6, PublishInv
    <2>7. ASSUME NEW m \in Msg, PublishStep(m) PROVE BusInv'
      BY <2>7, LoadInv, PublishNotifyInv, PublishReturnInv DEF PublishStep
    <2>8. ASSUME NEW m \in Msg, ForwardStep(m) PROVE BusInv'
      BY <2>8, ForwardInv, ForwardNotifyInv, ForwardReturnInv DEF ForwardStep
    <2>9. ASSUME NEW l \in AnyListener, Receive(l) PROVE BusInv'
      BY <2>9, ReceiveInv
    <2>10. CASE UNCHANGED vars
      BY <2>10, InvStutter
    <2> QED BY <2>1, <2>2, <2>3, <2>4, <2>5, <2>6, <2>7, <2>8, <2>9, <2>10 DEF Next
  <1> QED BY <1>1, <1>2, PTL DEF Spec

\* What a goroutine in Publish owes its topic's listeners when it returns.
LEMMA InvServesTopic ==
  ASSUME BusInv
  PROVE  TopicServed
  <1> SUFFICES ASSUME NEW m \in Msg PROVE Served(m, publisher[m], TopicOf[m])
    BY DEF TopicServed
  <1>0. BusTypes /\ ListInv /\ PublisherInv(m)
    BY DEF BusInv
  <1>1. PICK g \in Goroutine : g = publisher[m]
    BY <1>0 DEF BusTypes
  <1>2. PICK k \in Topic : k = TopicOf[m]
    BY BusAssumption
  <1> SUFFICES ASSUME g.pc = "done" PROVE Served(m, g, k)
    BY <1>1, <1>2 DEF Served
  <1>3. /\ Remembered(g, k) /\ g.next = Len(g.list) + 1
        /\ NotifiedFirst(m, g, Listener, g.list, g.next - 1)
        /\ \A l \in g.due : (<<k, l>> \notin gone /\ OwnId(k, l))
                                => Among(l, g.list, Len(g.list))
        /\ \A l \in g.past : OwnId(k, l) => ~Among(l, g.list, Len(g.list))
    BY <1>0, <1>1, <1>2 DEF PublisherInv
  <1>4. g.next - 1 = Len(g.list)
    <2>1. Len(g.list) \in Nat
      BY LenProperties DEF Goroutine
    <2> QED BY <2>1, <1>3
  <1>5. \A l \in Listener : Notices(m, g, l) = IF Among(l, g.list, Len(g.list)) THEN 1 ELSE 0
    BY <1>3, <1>4 DEF NotifiedFirst
  <1>6. ASSUME NEW l \in g.due, <<k, l>> \notin gone, OwnId(k, l) PROVE Notices(m, g, l) = 1
    <2>1. l \in Listener
      BY <1>3, Keys DEF Remembered
    <2> QED BY <2>1, <1>3, <1>5, <1>6
  <1>7. ASSUME NEW l \in g.past, OwnId(k, l) PROVE Notices(m, g, l) = 0
    <2>1. l \in Listener
      BY <1>0, <1>3, GoneHaveIds, Keys DEF Remembered
    <2> QED BY <2>1, <1>3, <1>5, <1>7
  <1> QED BY <1>6, <1>7 DEF Served

\* However publishing, subscribing, unsubscribing and reading interleave, a
\* listener that is subscribed throughout is notified exactly once of a
\* message, by its channel or by the error Publish and Forward return, one that
\* left before is not notified, and no channel holds more than its buffer.
THEOREM EveryListenerServed == Spec => []ListenersServed
  <1>1. BusInv => ListenersServed
    <2> SUFFICES ASSUME BusInv PROVE ListenersServed
      OBVIOUS
    <2>1. TypeOK
      BY DEF BusInv, BusTypes
    <2>2. DefaultServed
      BY DEF BusInv, ForwarderInv, DefaultServed
    <2> QED BY <2>1, <2>2, InvServesTopic DEF ListenersServed
  <1> QED BY <1>1, BusInvariant, PTL
=============================================================================
