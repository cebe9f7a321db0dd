--------------------------- MODULE StateDB_proofs ---------------------------
(***************************************************************************)
(* Proofs about module StateDB, for any set of addresses, any width of     *)
(* balances and any length of the journal.  Induction over the journal is  *)
(* replaced by a look at the first place where a claim would fail.         *)
(***************************************************************************)
EXTENDS StateDBInv, TLAPS, FiniteSetTheorems, SequenceTheorems

-----------------------------------------------------------------------------
(* The first and the last of a finite set of numbers.                      *)

LEMMA FirstOne ==
  ASSUME NEW k \in Nat, NEW S \in SUBSET (0 .. k), S # {}
  PROVE  \E x \in S : \A y \in S : x <= y
  <1> DEFINE Below(x) == {y \in S : y <= x}
             T == {Below(x) : x \in S}
             R == StrictSubsetOrdering(0 .. k)
             F == FiniteSubsetsOf(0 .. k)
  <1>1. IsWellFoundedOn(R, F)
    BY FS_StrictSubsetOrderingWellFounded
  <1>2. T \subseteq F
    <2>1. IsFiniteSet(0 .. k)
      BY FS_Interval
    <2> SUFFICES ASSUME NEW x \in S PROVE Below(x) \in F
      OBVIOUS
    <2>2. Below(x) \in SUBSET (0 .. k)
      OBVIOUS
    <2>3. IsFiniteSet(Below(x))
      BY <2>1, <2>2, FS_Subset
    <2> QED BY <2>2, <2>3 DEF FiniteSubsetsOf
  <1>3. T # {}
    OBVIOUS
  <1>4. PICK B \in T : \A C \in T : <<C, B>> \notin R
    <2> HIDE DEF R, F, T
    <2> QED BY <1>1, <1>2, <1>3, WFMin
  <1>5. PICK x \in S : B = Below(x)
    OBVIOUS
  <1>6. ASSUME NEW y \in S, ~(x <= y) PROVE FALSE
    <2>1. x \in Int /\ y \in Int /\ S \subseteq Int
      OBVIOUS
    <2>2. \A z \in S : z <= y => z <= x
      BY <2>1, <1>6
    <2>3. x <= x /\ ~(x <= y)
      BY <2>1, <1>6
    <2>4. Below(y) \subseteq Below(x) /\ x \in Below(x) /\ x \notin Below(y)
      BY <2>2, <2>3
    <2>5. Below(y) \in SUBSET (0 .. k) /\ Below(x) \in SUBSET (0 .. k)
      OBVIOUS
    <2>6. <<Below(y), Below(x)>> \in R
      <3> HIDE DEF Below
      <3> QED BY <2>4, <2>5 DEF StrictSubsetOrdering
    <2> QED BY <2>6, <1>4, <1>5
  <1> QED BY <1>6

LEMMA LastOne ==
  ASSUME NEW k \in Nat, NEW S \in SUBSET (0 .. k), S # {}
  PROVE  \E x \in S : \A y \in S : y <= x
  <1>1. PICK T \in SUBSET (0 .. k) : T = {i \in 0 .. k : k - i \in S}
    OBVIOUS
  <1>2. \A x \in S : x \in 0 .. k /\ k - x \in T
    BY <1>1
  <1>3. T # {}
    BY <1>2
  <1>4. PICK i \in T : \A j \in T : i <= j
    BY <1>3, FirstOne
  <1>5. k - i \in S /\ i \in 0 .. k
    BY <1>1, <1>4
  <1>6. ASSUME NEW y \in S PROVE y <= k - i
    <2>1. y \in 0 .. k /\ i <= k - y
      BY <1>2, <1>4
    <2> QED BY <2>1, <1>5
  <1> QED BY <1>5, <1>6

-----------------------------------------------------------------------------
(* Records.                                                                *)

Rec(t, o, p, d, es, c, r) ==
  [trie |-> t, stateObjects |-> o, pending |-> p, dirty |-> d,
   entries |-> es, dirties |-> c, refund |-> r]

IsRec(s) ==
  s = Rec(s.trie, s.stateObjects, s.pending, s.dirty, s.entries, s.dirties, s.refund)

LEMMA StateRec ==
  ASSUME NEW s \in State
  PROVE  /\ IsRec(s)
         /\ s.trie \in [Address -> Account]
         /\ s.stateObjects \in [Address -> Object \cup {Nil}]
         /\ s.pending \in SUBSET Address /\ s.dirty \in SUBSET Address
         /\ s.entries \in Seq(Entry) /\ Len(s.entries) \in Nat
         /\ s.dirties \in [Address -> Nat] /\ s.refund \in Nat
  BY LenProperties DEF State, IsRec, Rec

LEMMA RecState ==
  ASSUME NEW t \in [Address -> Account], NEW o \in [Address -> Object \cup {Nil}],
         NEW p \in SUBSET Address, NEW d \in SUBSET Address, NEW es \in Seq(Entry),
         NEW c \in [Address -> Nat], NEW r \in Nat
  PROVE  Rec(t, o, p, d, es, c, r) \in State
  BY DEF State, Rec

LEMMA EntryKinds ==
  ASSUME NEW e \in Entry
  PROVE  /\ e.kind \in {"create", "touch", "reset", "suicide", "balance", "refund"}
         /\ e.kind # "refund" => e.addr \in Address
  BY DEF Entry

\* What undoing an entry does to the objects: it looks at the trie besides.
LoadObjects(t, o, a) ==
  IF o[a] = Nil /\ t[a] # Nil THEN [o EXCEPT ![a] = newObject(t[a])] ELSE o

UndoObjects(e, t, o) ==
  LET l == LoadObjects(t, o, e.addr)
  IN  CASE e.kind = "create" -> [o EXCEPT ![e.addr] = Nil]
        [] e.kind = "reset" -> [o EXCEPT ![e.addr] = e.prevObject]
        [] e.kind = "suicide" ->
             IF ~(l[e.addr] # Nil /\ ~l[e.addr].deleted) THEN l
             ELSE [[l EXCEPT ![e.addr].suicided = e.prev]
                      EXCEPT ![e.addr].balance = e.prevBalance]
        [] e.kind = "balance" -> [l EXCEPT ![e.addr].balance = e.prevBalance]
        [] e.kind \in {"touch", "refund"} -> o

UndoDirties(e, c) == [a \in Address |-> c[a] - (IF a \in Dirtied(e) THEN 1 ELSE 0)]

UndoDirty(e, d) == IF e.kind = "create" THEN d \ {e.addr} ELSE d
UndoRefund(e, r) == IF e.kind = "refund" THEN e.prevRefund ELSE r

LEMMA LoadRec ==
  ASSUME NEW t, NEW o, NEW p, NEW d, NEW es, NEW c, NEW r, NEW a
  PROVE  Load(Rec(t, o, p, d, es, c, r), a) = Rec(t, LoadObjects(t, o, a), p, d, es, c, r)
  <1>1. PICK q : q = [o EXCEPT ![a] = newObject(t[a])]
    OBVIOUS
  <1>2. [Rec(t, o, p, d, es, c, r) EXCEPT !.stateObjects = q] = Rec(t, q, p, d, es, c, r)
    BY DEF Rec
  <1>3. Load(Rec(t, o, p, d, es, c, r), a) =
          IF o[a] = Nil /\ t[a] # Nil
          THEN [Rec(t, o, p, d, es, c, r) EXCEPT !.stateObjects = q]
          ELSE Rec(t, o, p, d, es, c, r)
    BY <1>1 DEF Load, Rec
  <1> QED BY <1>1, <1>2, <1>3 DEF LoadObjects

LEMMA UndoRec ==
  ASSUME NEW e \in Entry, NEW t, NEW o, NEW p, NEW d, NEW es, NEW c, NEW r
  PROVE  UndoEntry(e, Rec(t, o, p, d, es, c, r)) =
           Rec(t, UndoObjects(e, t, o), p,
               UndoDirty(e, d),
               es, UndoDirties(e, c),
               UndoRefund(e, r))
  <1>1. PICK x : x = Rec(t, o, p, d, es, c, r)
    OBVIOUS
  <1>2. PICK l : l = LoadObjects(t, o, e.addr)
    OBVIOUS
  <1>3. PICK y : y = Rec(t, l, p, d, es, c, r)
    OBVIOUS
  <1>4. /\ x.stateObjects = o /\ x.dirty = d
        /\ y.stateObjects = l
    BY <1>1, <1>3 DEF Rec
  <1>5. Load(x, e.addr) = y
    BY <1>1, <1>2, <1>3, LoadRec
  <1>6. \A q : [x EXCEPT !.stateObjects = q] = Rec(t, q, p, d, es, c, r)
    BY <1>1 DEF Rec
  <1>7. \A q : [y EXCEPT !.stateObjects = q] = Rec(t, q, p, d, es, c, r)
    BY <1>3 DEF Rec
  <1>8. \A q, w : [x EXCEPT !.stateObjects = q, !.dirty = w] = Rec(t, q, p, w, es, c, r)
    <2> SUFFICES ASSUME NEW q, NEW w
                 PROVE  [x EXCEPT !.stateObjects = q, !.dirty = w] = Rec(t, q, p, w, es, c, r)
      OBVIOUS
    <2>1. PICK z : z = Rec(t, q, p, d, es, c, r)
      OBVIOUS
    <2>2. [x EXCEPT !.stateObjects = q, !.dirty = w] = [z EXCEPT !.dirty = w]
      BY <1>6, <2>1
    <2> QED BY <2>1, <2>2 DEF Rec
  <1>9. \A w : [x EXCEPT !.refund = w] = Rec(t, o, p, d, es, c, w)
    BY <1>1 DEF Rec
  <1>10. UndoChange(x, e) =
           Rec(t, UndoObjects(e, t, o), p,
               UndoDirty(e, d),
               es, c, UndoRefund(e, r))
    <2>1. CASE e.kind = "create"
      <3>1. UndoChange(x, e) = [x EXCEPT !.stateObjects = [o EXCEPT ![e.addr] = Nil],
                                         !.dirty = d \ {e.addr}]
        BY <2>1, <1>4 DEF UndoChange
      <3> QED BY <2>1, <3>1, <1>8 DEF UndoObjects, UndoDirty, UndoRefund
    <2>2. CASE e.kind = "touch"
      BY <2>2, <1>1 DEF UndoChange, UndoObjects, UndoDirty, UndoRefund
    <2>3. CASE e.kind = "reset"
      <3>1. UndoChange(x, e) = [x EXCEPT !.stateObjects = [o EXCEPT ![e.addr] = e.prevObject]]
        BY <2>3, <1>4 DEF UndoChange
      <3> QED BY <2>3, <3>1, <1>6 DEF UndoObjects, UndoDirty, UndoRefund
    <2>4. CASE e.kind = "suicide"
      <3>1. CASE ~IsLive(y, e.addr)
        <4>1. UndoChange(x, e) = y
          BY <2>4, <1>5, <3>1 DEF UndoChange
        <4> QED BY <2>4, <3>1, <4>1, <1>2, <1>3, <1>4 DEF UndoObjects, UndoDirty, UndoRefund, IsLive
      <3>2. CASE IsLive(y, e.addr)
        <4>1. PICK m : m = [l EXCEPT ![e.addr].suicided = e.prev]
          OBVIOUS
        <4>2. PICK z : z = Rec(t, m, p, d, es, c, r)
          OBVIOUS
        <4>3. [y EXCEPT !.stateObjects[e.addr].suicided = e.prev] = z
          BY <4>1, <4>2, <1>4, <1>7
        <4>4. z.stateObjects = m /\ \A q : [z EXCEPT !.stateObjects = q] = Rec(t, q, p, d, es, c, r)
          BY <4>2 DEF Rec
        <4>5. UndoChange(x, e) = [y EXCEPT !.stateObjects[e.addr].suicided = e.prev,
                                           !.stateObjects[e.addr].balance = e.prevBalance]
          BY <2>4, <1>5, <3>2 DEF UndoChange
        <4>6. UndoChange(x, e) = [z EXCEPT !.stateObjects[e.addr].balance = e.prevBalance]
          BY <4>3, <4>5
        <4>7. UndoChange(x, e) = Rec(t, [m EXCEPT ![e.addr].balance = e.prevBalance], p, d, es, c, r)
          BY <4>4, <4>6
        <4> QED BY <2>4, <3>2, <4>1, <4>7, <1>2, <1>4 DEF UndoObjects, UndoDirty, UndoRefund, IsLive
      <3> QED BY <3>1, <3>2
    <2>5. CASE e.kind = "balance"
      <3>1. UndoChange(x, e) = [y EXCEPT !.stateObjects[e.addr].balance = e.prevBalance]
        BY <2>5, <1>5 DEF UndoChange
      <3>2. UndoChange(x, e) = Rec(t, [l EXCEPT ![e.addr].balance = e.prevBalance], p, d, es, c, r)
        BY <3>1, <1>4, <1>7
      <3> QED BY <2>5, <3>2, <1>2 DEF UndoObjects, UndoDirty, UndoRefund
    <2>6. CASE e.kind = "refund"
      BY <2>6, <1>9 DEF UndoChange, UndoObjects, UndoDirty, UndoRefund
    <2> QED BY <2>1, <2>2, <2>3, <2>4, <2>5, <2>6, EntryKinds
  <1>11. PICK u, v, w : /\ u = UndoObjects(e, t, o)
                        /\ v = UndoDirty(e, d)
                        /\ w = UndoRefund(e, r)
    OBVIOUS
  <1>12. UndoChange(x, e) = Rec(t, u, p, v, es, c, w)
    BY <1>10, <1>11
  <1>13. UndoEntry(e, x) = [Rec(t, u, p, v, es, c, w) EXCEPT !.dirties = UndoDirties(e, c)]
    <2>1. Rec(t, u, p, v, es, c, w).dirties = c
      BY DEF Rec
    <2> QED BY <1>12, <2>1 DEF UndoEntry, UndoDirties
  <1>14. [Rec(t, u, p, v, es, c, w) EXCEPT !.dirties = UndoDirties(e, c)] =
           Rec(t, u, p, v, es, UndoDirties(e, c), w)
    BY DEF Rec
  <1> QED BY <1>1, <1>11, <1>13, <1>14

-----------------------------------------------------------------------------
(* What revert computes: one entry after the other is undone.              *)

Runs(s, k, f) ==
  f = [i \in 0 .. k |-> IF i = 0 THEN s
                        ELSE UndoEntry(s.entries[Len(s.entries) - i + 1], f[i - 1])]

LEMMA UndoneRuns ==
  ASSUME NEW s, Len(s.entries) \in Nat
  PROVE  Runs(s, Len(s.entries), Undone(s))
  <1> DEFINE L == Len(s.entries)
  <1>1. PICK S \in SUBSET (0 .. L) : S = {k \in 0 .. L : ~ \E f : Runs(s, k, f)}
    OBVIOUS
  <1>2. ASSUME S # {} PROVE FALSE
    <2>1. PICK k \in S : \A j \in S : k <= j
      BY <1>2, FirstOne
    <2>2. k \in 0 .. L /\ ~ \E f : Runs(s, k, f)
      BY <1>1
    <2>3. Runs(s, 0, [i \in 0 .. 0 |-> s])
      BY DEF Runs
    <2>4. k - 1 \in 0 .. L /\ k - 1 \notin S
      <3>1. k # 0
        BY <2>2, <2>3
      <3> QED BY <2>1, <2>2, <3>1
    <2>5. PICK f : Runs(s, k - 1, f)
      BY <1>1, <2>4
    <2>6. PICK g : g = [i \in 0 .. k |-> IF i = k THEN UndoEntry(s.entries[L - k + 1], f[k - 1])
                                         ELSE f[i]]
      OBVIOUS
    <2>7. /\ DOMAIN g = 0 .. k
          /\ g[k] = UndoEntry(s.entries[L - k + 1], f[k - 1])
          /\ \A i \in 0 .. k - 1 : g[i] = f[i]
      BY <2>2, <2>6
    <2>8. \A i \in 0 .. k - 1 :
             f[i] = IF i = 0 THEN s ELSE UndoEntry(s.entries[L - i + 1], f[i - 1])
      BY <2>5 DEF Runs
    <2>9. ASSUME NEW i \in 0 .. k
          PROVE  g[i] = IF i = 0 THEN s ELSE UndoEntry(s.entries[L - i + 1], g[i - 1])
      <3>1. CASE i = k
        <4>1. i # 0 /\ i - 1 \in 0 .. k - 1 /\ k - 1 \in 0 .. k - 1
          BY <2>4, <3>1
        <4> QED BY <2>7, <3>1, <4>1
      <3>2. CASE i # k
        <4>1. i \in 0 .. k - 1 /\ (i # 0 => i - 1 \in 0 .. k - 1)
          BY <2>2, <3>2
        <4> QED BY <2>7, <2>8, <4>1
      <3> QED BY <3>1, <3>2
    <2>10. Runs(s, k, g)
      BY <2>6, <2>9 DEF Runs
    <2> QED BY <2>2, <2>10
  <1>3. \E f : Runs(s, L, f)
    BY <1>1, <1>2
  <1> QED BY <1>3 DEF Runs, Undone

LEMMA UndoneSteps ==
  ASSUME NEW s, Len(s.entries) \in Nat
  PROVE  /\ Undone(s)[0] = s
         /\ \A i \in 1 .. Len(s.entries) :
              Undone(s)[i] = UndoEntry(s.entries[Len(s.entries) - i + 1], Undone(s)[i - 1])
  <1>1. PICK f : f = Undone(s)
    OBVIOUS
  <1>2. Runs(s, Len(s.entries), f)
    BY <1>1, UndoneRuns
  <1> QED BY <1>1, <1>2 DEF Runs

\* The state before the newest entry.
Pop(s) ==
  [UndoEntry(s.entries[Len(s.entries)], s)
     EXCEPT !.entries = SubSeq(s.entries, 1, Len(s.entries) - 1)]

\* A journal of good entries, whatever the rest of the state.
Journalled(s) == IsRec(s) /\ s.entries \in Seq(Entry) /\ Len(s.entries) \in Nat

LEMMA PopRec ==
  ASSUME NEW s, Journalled(s), s.entries # <<>>,
         NEW e, e = s.entries[Len(s.entries)]
  PROVE  /\ e \in Entry
         /\ Pop(s) = Rec(s.trie, UndoObjects(e, s.trie, s.stateObjects), s.pending,
                         UndoDirty(e, s.dirty),
                         SubSeq(s.entries, 1, Len(s.entries) - 1),
                         UndoDirties(e, s.dirties),
                         UndoRefund(e, s.refund))
  <1>1. e \in Entry /\ IsRec(s)
    BY LenProperties, ElementOfSeq DEF Journalled
  <1>2. PICK t, o, p, d, es, c, r : s = Rec(t, o, p, d, es, c, r)
    BY ONLY <1>1 DEF IsRec
  <1>3. /\ s.trie = t /\ s.stateObjects = o /\ s.pending = p /\ s.dirty = d
        /\ s.entries = es /\ s.dirties = c /\ s.refund = r
    BY <1>2 DEF Rec
  <1>4. PICK u, v, b, w : /\ u = UndoObjects(e, t, o)
                          /\ v = UndoDirty(e, d)
                          /\ b = UndoDirties(e, c)
                          /\ w = UndoRefund(e, r)
    OBVIOUS
  <1>5. UndoEntry(e, s) = Rec(t, u, p, v, es, b, w)
    <2>1. UndoEntry(e, Rec(t, o, p, d, es, c, r)) =
            Rec(t, UndoObjects(e, t, o), p,
                UndoDirty(e, d),
                es, UndoDirties(e, c),
                UndoRefund(e, r))
      BY ONLY <1>1, UndoRec
    <2> QED BY ONLY <2>1, <1>2, <1>4
  <1>6. PICK q : q = SubSeq(es, 1, Len(es) - 1)
    OBVIOUS
  <1>7. [Rec(t, u, p, v, es, b, w) EXCEPT !.entries = q] = Rec(t, u, p, v, q, b, w)
    BY DEF Rec
  <1>8. Pop(s) = Rec(t, u, p, v, q, b, w)
    BY <1>3, <1>5, <1>6, <1>7 DEF Pop
  <1> QED BY <1>1, <1>3, <1>4, <1>6, <1>8

LEMMA Prefix ==
  ASSUME NEW S, NEW q \in Seq(S), NEW n \in 0 .. Len(q)
  PROVE  /\ SubSeq(q, 1, n) \in Seq(S)
         /\ Len(SubSeq(q, 1, n)) = n
         /\ \A i \in 1 .. n : SubSeq(q, 1, n)[i] = q[i]
         /\ SubSeq(q, 1, Len(q)) = q
         /\ \A m \in 0 .. n : SubSeq(SubSeq(q, 1, n), 1, m) = SubSeq(q, 1, m)
  <1>1. Len(q) \in Nat
    BY LenProperties
  <1>2. \A i \in 1 .. Len(q) : q[i] \in S
    BY ElementOfSeq
  <1>3. PICK p : p = SubSeq(q, 1, n)
    OBVIOUS
  <1>4. p \in Seq(S) /\ Len(p) = n /\ \A i \in 1 .. n : p[i] = q[i]
    BY <1>1, <1>2, <1>3, SubSeqProperties
  <1>5. SubSeq(q, 1, Len(q)) = q
    BY SubSeqFull
  <1>6. ASSUME NEW m \in 0 .. n
        PROVE  SubSeq(p, 1, m) = SubSeq(q, 1, m)
    <2>1. \A i \in 1 .. m : p[i] \in S /\ q[i] \in S /\ p[i] = q[i]
      BY <1>1, <1>2, <1>4
    <2>2. PICK a, b : a = SubSeq(p, 1, m) /\ b = SubSeq(q, 1, m)
      OBVIOUS
    <2>3. a \in Seq(S) /\ Len(a) = m /\ \A i \in 1 .. m : a[i] = p[i]
      BY <2>1, <2>2, SubSeqProperties
    <2>4. b \in Seq(S) /\ Len(b) = m /\ \A i \in 1 .. m : b[i] = q[i]
      BY <2>1, <2>2, SubSeqProperties
    <2>5. a = b
      BY <2>1, <2>3, <2>4, SeqEqual
    <2> QED BY <2>2, <2>5
  <1> QED BY <1>3, <1>4, <1>5, <1>6

LEMMA UndoKeeps ==
  ASSUME NEW s, Journalled(s), NEW e \in Entry
  PROVE  Journalled(UndoEntry(e, s)) /\ UndoEntry(e, s).entries = s.entries
  <1>1. IsRec(s)
    BY DEF Journalled
  <1>2. PICK t, o, p, d, es, c, r : s = Rec(t, o, p, d, es, c, r)
    BY ONLY <1>1 DEF IsRec
  <1>3. PICK u, v, b, w : UndoEntry(e, s) = Rec(t, u, p, v, es, b, w)
    BY <1>2, UndoRec
  <1>4. s.entries = es
    BY <1>2 DEF Rec
  <1> QED BY <1>3, <1>4 DEF Rec, IsRec, Journalled

LEMMA UndoneKeeps ==
  ASSUME NEW s, Journalled(s)
  PROVE  \A i \in 0 .. Len(s.entries) :
            Journalled(Undone(s)[i]) /\ Undone(s)[i].entries = s.entries
  <1>1. PICK f, k : f = Undone(s) /\ k = Len(s.entries)
    OBVIOUS
  <1>2. /\ k \in Nat /\ f[0] = s
        /\ \A i \in 1 .. k : f[i] = UndoEntry(s.entries[k - i + 1], f[i - 1])
    BY <1>1, UndoneSteps DEF Journalled
  <1>3. PICK S \in SUBSET (0 .. k) :
               S = {i \in 0 .. k : ~ (Journalled(f[i]) /\ f[i].entries = s.entries)}
    OBVIOUS
  <1>4. ASSUME S # {} PROVE FALSE
    <2>1. PICK i \in S : \A j \in S : i <= j
      BY <1>2, <1>4, FirstOne
    <2>2. i \in 1 .. k /\ i - 1 \in 0 .. k /\ k - i + 1 \in 1 .. k
      BY <1>2, <1>3
    <2>3. i - 1 \notin S
      BY <2>1, <2>2
    <2>4. Journalled(f[i - 1]) /\ f[i - 1].entries = s.entries
      BY <1>3, <2>2, <2>3
    <2>5. s.entries[k - i + 1] \in Entry
      BY <1>1, <2>2, ElementOfSeq DEF Journalled
    <2>6. Journalled(f[i]) /\ f[i].entries = s.entries
      BY <1>2, <2>2, <2>4, <2>5, UndoKeeps
    <2> QED BY <1>3, <2>6
  <1> QED BY <1>1, <1>3, <1>4

LEMMA RevertSteps ==
  ASSUME NEW s, Journalled(s)
  PROVE  /\ revert(s, Len(s.entries)) = s
         /\ \A n \in 0 .. Len(s.entries) :
              /\ Journalled(revert(s, n))
              /\ revert(s, n).entries = SubSeq(s.entries, 1, n)
              /\ Len(revert(s, n).entries) = n
         /\ \A n \in 0 .. Len(s.entries) - 1 : revert(s, n) = Pop(revert(s, n + 1))
  <1>1. PICK f, k : f = Undone(s) /\ k = Len(s.entries)
    OBVIOUS
  <1>2. /\ k \in Nat /\ f[0] = s
        /\ \A i \in 1 .. k : f[i] = UndoEntry(s.entries[k - i + 1], f[i - 1])
    BY <1>1, UndoneSteps DEF Journalled
  <1>3. \A i \in 0 .. k : Journalled(f[i]) /\ f[i].entries = s.entries
    BY <1>1, UndoneKeeps
  <1>4. s.entries \in Seq(Entry) /\ IsRec(s)
    BY DEF Journalled
  <1>5. \A n : revert(s, n) = [f[k - n] EXCEPT !.entries = SubSeq(f[k - n].entries, 1, n)]
    BY <1>1 DEF revert
  <1>6. ASSUME NEW n \in 0 .. k, NEW x, x = f[k - n], NEW q, q = SubSeq(s.entries, 1, n)
        PROVE  /\ revert(s, n) = Rec(x.trie, x.stateObjects, x.pending, x.dirty, q,
                                     x.dirties, x.refund)
               /\ q \in Seq(Entry) /\ Len(q) = n
    <2>1. k - n \in 0 .. k
      BY <1>2
    <2>2. IsRec(x) /\ x.entries = s.entries
      BY <1>3, <1>6, <2>1 DEF Journalled
    <2>3. revert(s, n) = [x EXCEPT !.entries = q]
      BY <1>5, <1>6, <2>2
    <2>4. PICK t, o, p, d, es, c, r : x = Rec(t, o, p, d, es, c, r)
      BY ONLY <2>2 DEF IsRec
    <2>5. [x EXCEPT !.entries = q] = Rec(t, o, p, d, q, c, r)
      BY <2>4 DEF Rec
    <2>6. /\ x.trie = t /\ x.stateObjects = o /\ x.pending = p /\ x.dirty = d
          /\ x.dirties = c /\ x.refund = r
      BY <2>4 DEF Rec
    <2> QED BY <1>1, <1>4, <1>6, <2>3, <2>5, <2>6, Prefix
  <1>7. ASSUME NEW n \in 0 .. k
        PROVE  /\ Journalled(revert(s, n))
               /\ revert(s, n).entries = SubSeq(s.entries, 1, n)
               /\ Len(revert(s, n).entries) = n
    <2>1. PICK x, q : x = f[k - n] /\ q = SubSeq(s.entries, 1, n)
      OBVIOUS
    <2>2. /\ revert(s, n) = Rec(x.trie, x.stateObjects, x.pending, x.dirty, q,
                                x.dirties, x.refund)
          /\ q \in Seq(Entry) /\ Len(q) = n
      BY <1>6, <2>1
    <2> QED BY <1>2, <2>1, <2>2 DEF Journalled, IsRec, Rec
  <1>8. revert(s, k) = s
    <2>1. SubSeq(s.entries, 1, k) = s.entries
      BY <1>1, <1>4, SubSeqFull
    <2>2. k - k = 0
      BY <1>2
    <2>3. s = f[k - k] /\ k \in 0 .. k
      BY <1>2, <2>2
    <2>4. revert(s, k) = Rec(s.trie, s.stateObjects, s.pending, s.dirty, s.entries,
                             s.dirties, s.refund)
      BY <1>6, <2>1, <2>3
    <2> QED BY <1>4, <2>4 DEF IsRec
  <1>9. ASSUME NEW n \in 0 .. k - 1
        PROVE  revert(s, n) = Pop(revert(s, n + 1))
    <2>1. PICK y, x, q, p, e : /\ y = revert(s, n + 1) /\ x = f[k - (n + 1)]
                               /\ q = SubSeq(s.entries, 1, n + 1)
                               /\ p = SubSeq(s.entries, 1, n)
                               /\ e = s.entries[n + 1]
      OBVIOUS
    <2>2. /\ n \in 0 .. k /\ n + 1 \in 0 .. k /\ k - n \in 1 .. k
          /\ (k - n) - 1 = k - (n + 1) /\ k - (k - n) + 1 = n + 1
          /\ k - (n + 1) \in 0 .. k /\ (n + 1) - 1 = n /\ n + 1 \in 1 .. n + 1
      BY <1>2
    <2>3. /\ y = Rec(x.trie, x.stateObjects, x.pending, x.dirty, q, x.dirties, x.refund)
          /\ q \in Seq(Entry) /\ Len(q) = n + 1
      BY <1>6, <2>1, <2>2
    <2>4. /\ Journalled(y) /\ y.entries = q
      BY <1>7, <2>1, <2>2
    <2>5. q[n + 1] = e /\ SubSeq(q, 1, n) = p
      <3>1. /\ \A i \in 1 .. n + 1 : q[i] = s.entries[i]
            /\ \A m \in 0 .. n + 1 : SubSeq(q, 1, m) = SubSeq(s.entries, 1, m)
        BY <1>1, <1>4, <2>1, <2>2, Prefix
      <3>2. n \in 0 .. n + 1
        BY <2>2
      <3> QED BY <2>1, <2>2, <3>1, <3>2
    <2>6. y.entries # <<>> /\ e = y.entries[Len(y.entries)]
      BY <2>2, <2>3, <2>4, <2>5
    <2>7. e \in Entry /\
          Pop(y) = Rec(y.trie, UndoObjects(e, y.trie, y.stateObjects), y.pending,
                       UndoDirty(e, y.dirty), SubSeq(y.entries, 1, Len(y.entries) - 1),
                       UndoDirties(e, y.dirties), UndoRefund(e, y.refund))
      BY <2>4, <2>6, PopRec
    <2>8. /\ y.trie = x.trie /\ y.stateObjects = x.stateObjects /\ y.pending = x.pending
          /\ y.dirty = x.dirty /\ y.dirties = x.dirties /\ y.refund = x.refund
      BY <2>3 DEF Rec
    <2>9. Pop(y) = Rec(x.trie, UndoObjects(e, x.trie, x.stateObjects), x.pending,
                       UndoDirty(e, x.dirty), p,
                       UndoDirties(e, x.dirties), UndoRefund(e, x.refund))
      BY <2>2, <2>3, <2>4, <2>5, <2>7, <2>8
    <2>10. PICK z : z = f[k - n]
      OBVIOUS
    <2>11. z = UndoEntry(e, x) /\ IsRec(x)
      BY <1>2, <1>3, <2>1, <2>2, <2>10 DEF Journalled
    <2>12. PICK t, o, a, d, es, c, r : x = Rec(t, o, a, d, es, c, r)
      BY ONLY <2>11 DEF IsRec
    <2>13. z = Rec(t, UndoObjects(e, t, o), a, UndoDirty(e, d), es,
                   UndoDirties(e, c), UndoRefund(e, r))
      BY <2>7, <2>11, <2>12, UndoRec
    <2>14. /\ x.trie = t /\ x.stateObjects = o /\ x.pending = a /\ x.dirty = d
           /\ x.dirties = c /\ x.refund = r
      BY <2>12 DEF Rec
    <2>15. /\ z.trie = t /\ z.stateObjects = UndoObjects(e, t, o) /\ z.pending = a
           /\ z.dirty = UndoDirty(e, d) /\ z.dirties = UndoDirties(e, c)
           /\ z.refund = UndoRefund(e, r)
      BY <2>13 DEF Rec
    <2>16. revert(s, n) = Rec(z.trie, z.stateObjects, z.pending, z.dirty, p,
                              z.dirties, z.refund)
      BY <1>6, <2>1, <2>2, <2>10
    <2> QED BY <2>1, <2>9, <2>14, <2>15, <2>16
  <1> QED BY <1>1, <1>7, <1>8, <1>9

-----------------------------------------------------------------------------
(* Chains of states: what a journal leads back through.                    *)

Chain(s, h) ==
  /\ h[Len(s.entries)] = s
  /\ \A n \in 0 .. Len(s.entries) : Good(h[n])
  /\ \A n \in 0 .. Len(s.entries) - 1 : h[n] = Pop(h[n + 1])

LEMMA GoodJournalled ==
  ASSUME NEW s, Good(s)
  PROVE  /\ Journalled(s)
         /\ IsRec(s)
         /\ s.trie \in [Address -> Account]
         /\ s.stateObjects \in [Address -> Object \cup {Nil}]
         /\ s.pending \in SUBSET Address /\ s.dirty \in SUBSET Address
         /\ s.entries \in Seq(Entry) /\ Len(s.entries) \in Nat
         /\ s.dirties \in [Address -> Nat] /\ s.refund \in Nat
  BY StateRec DEF Good, Journalled

LEMMA InvChain ==
  ASSUME NEW s, JournalInv(s)
  PROVE  Chain(s, [n \in 0 .. Len(s.entries) |-> revert(s, n)])
  <1>1. Journalled(s) /\ Len(s.entries) \in Nat
    BY GoodJournalled DEF JournalInv
  <1>2. /\ revert(s, Len(s.entries)) = s
        /\ \A n \in 0 .. Len(s.entries) - 1 : revert(s, n) = Pop(revert(s, n + 1))
    BY <1>1, RevertSteps
  <1>3. PICK h, k : /\ k = Len(s.entries)
                    /\ h = [n \in 0 .. k |-> revert(s, n)]
    OBVIOUS
  <1>4. h[k] = s
    BY <1>1, <1>2, <1>3
  <1>5. \A n \in 0 .. k : Good(h[n])
    BY <1>3 DEF JournalInv
  <1>6. ASSUME NEW n \in 0 .. k - 1
        PROVE  h[n] = Pop(h[n + 1])
    <2>1. n \in 0 .. k /\ n + 1 \in 0 .. k
      BY <1>1, <1>3
    <2> QED BY <1>2, <1>3, <2>1
  <1> QED BY <1>3, <1>4, <1>5, <1>6 DEF Chain

LEMMA ChainInv ==
  ASSUME NEW s, NEW h, Len(s.entries) \in Nat, Chain(s, h)
  PROVE  /\ JournalInv(s)
         /\ \A n \in 0 .. Len(s.entries) : revert(s, n) = h[n]
  <1>1. PICK k : k = Len(s.entries)
    OBVIOUS
  <1>2. /\ k \in Nat /\ h[k] = s
        /\ \A n \in 0 .. k : Good(h[n])
        /\ \A n \in 0 .. k - 1 : h[n] = Pop(h[n + 1])
    BY <1>1 DEF Chain
  <1>3. Good(s) /\ Journalled(s)
    BY <1>2, GoodJournalled
  <1>4. /\ revert(s, k) = s
        /\ \A n \in 0 .. k - 1 : revert(s, n) = Pop(revert(s, n + 1))
    BY <1>1, <1>3, RevertSteps
  <1>5. PICK S \in SUBSET (0 .. k) : S = {n \in 0 .. k : revert(s, n) # h[n]}
    OBVIOUS
  <1>6. ASSUME S # {} PROVE FALSE
    <2>1. PICK n \in S : \A m \in S : m <= n
      BY <1>2, <1>6, LastOne
    <2>2. n \in 0 .. k - 1 /\ n + 1 \in 0 .. k
      BY <1>2, <1>4, <1>5
    <2>3. n + 1 \notin S
      BY <2>1, <2>2
    <2>4. revert(s, n + 1) = h[n + 1]
      BY <1>5, <2>2, <2>3
    <2>5. revert(s, n) = h[n]
      BY <1>2, <1>4, <2>2, <2>4
    <2> QED BY <1>5, <2>5
  <1>7. \A n \in 0 .. k : revert(s, n) = h[n]
    BY <1>5, <1>6
  <1> QED BY <1>1, <1>2, <1>3, <1>7 DEF JournalInv

\* u is s after some calls: every way back from s leads from u to a state that
\* shows the same.
Keeps(s, u) ==
  /\ JournalInv(u)
  /\ Len(s.entries) <= Len(u.entries)
  /\ \A n \in 0 .. Len(s.entries) :
        /\ View(revert(u, n)) = View(revert(s, n))
        /\ revert(u, n).refund = revert(s, n).refund

\* Besides, only the account a shows something else.
Writes(s, u, a) ==
  /\ Keeps(s, u)
  /\ u.refund = s.refund
  /\ \E v \in Balance : View(u) = [View(s) EXCEPT ![a] = v]

LEMMA KeepsTrans ==
  ASSUME NEW s, NEW t, NEW u, Len(s.entries) \in Nat, Len(t.entries) \in Nat,
         Len(u.entries) \in Nat, Keeps(s, t), Keeps(t, u)
  PROVE  Keeps(s, u)
  BY DEF Keeps

\* One entry more.
LEMMA PushKeeps ==
  ASSUME NEW s, JournalInv(s), NEW u, Good(u), Pop(u) = s,
         Len(u.entries) = Len(s.entries) + 1
  PROVE  Keeps(s, u)
  <1>1. PICK k : k = Len(s.entries)
    OBVIOUS
  <1>2. k \in Nat
    BY <1>1, GoodJournalled DEF JournalInv
  <1>3. PICK h : h = [n \in 0 .. k |-> revert(s, n)]
    OBVIOUS
  <1>4. /\ h[k] = s
        /\ \A n \in 0 .. k : Good(h[n])
        /\ \A n \in 0 .. k - 1 : h[n] = Pop(h[n + 1])
    <2>1. Chain(s, h)
      BY <1>1, <1>3, InvChain
    <2> QED BY <1>1, <2>1 DEF Chain
  <1>5. PICK g : g = [n \in 0 .. k + 1 |-> IF n = k + 1 THEN u ELSE h[n]]
    OBVIOUS
  <1>6. g[k + 1] = u /\ \A n \in 0 .. k : g[n] = h[n]
    BY <1>2, <1>5
  <1>7. \A n \in 0 .. k + 1 : Good(g[n])
    <2>1. \A n \in 0 .. k + 1 : n = k + 1 \/ n \in 0 .. k
      BY <1>2
    <2> QED BY <1>4, <1>6, <2>1
  <1>8. ASSUME NEW n \in 0 .. (k + 1) - 1
        PROVE  g[n] = Pop(g[n + 1])
    <2>1. CASE n = k
      BY <1>2, <1>4, <1>6, <2>1
    <2>2. CASE n # k
      <3>1. n \in 0 .. k - 1 /\ n \in 0 .. k /\ n + 1 \in 0 .. k
        BY <1>2, <2>2
      <3> QED BY <1>4, <1>6, <3>1
    <2> QED BY <2>1, <2>2
  <1>9. Chain(u, g)
    BY <1>1, <1>6, <1>7, <1>8 DEF Chain
  <1>10. JournalInv(u) /\ \A n \in 0 .. k + 1 : revert(u, n) = g[n]
    BY <1>1, <1>2, <1>9, ChainInv
  <1>11. \A n \in 0 .. k : revert(u, n) = revert(s, n)
    <2>1. \A n \in 0 .. k : n \in 0 .. k + 1
      BY <1>2
    <2> QED BY <1>3, <1>6, <1>10, <2>1
  <1> QED BY <1>1, <1>2, <1>10, <1>11 DEF Keeps

\* A change of s that goes unnoticed, before and after every revert.
LEMMA LiftKeeps ==
  ASSUME NEW s, JournalInv(s), NEW g, NEW u, Len(u.entries) = Len(s.entries),
         g[Len(s.entries)] = u,
         \A n \in 0 .. Len(s.entries) :
            /\ Good(g[n])
            /\ View(g[n]) = View(revert(s, n))
            /\ g[n].refund = revert(s, n).refund,
         \A n \in 0 .. Len(s.entries) - 1 : g[n] = Pop(g[n + 1])
  PROVE  Keeps(s, u)
  <1>1. Len(s.entries) \in Nat
    BY GoodJournalled DEF JournalInv
  <1>2. Chain(u, g)
    BY DEF Chain
  <1>3. JournalInv(u) /\ \A n \in 0 .. Len(s.entries) : revert(u, n) = g[n]
    BY <1>1, <1>2, ChainInv
  <1> QED BY <1>1, <1>3 DEF Keeps

-----------------------------------------------------------------------------
(* One account.                                                            *)

\* What undoing an entry makes of the object it is about.
UndoneObject(e, ob) ==
  CASE e.kind = "create" -> Nil
    [] e.kind = "reset" -> e.prevObject
    [] e.kind = "suicide" ->
         [[ob EXCEPT !.suicided = e.prev] EXCEPT !.balance = e.prevBalance]
    [] e.kind = "balance" -> [ob EXCEPT !.balance = e.prevBalance]
    [] e.kind = "touch" -> ob

Applies(e, o) ==
  e.kind # "refund" =>
    /\ o[e.addr] # Nil
    /\ e.kind = "suicide" => ~o[e.addr].deleted

LEMMA UndoneAt ==
  ASSUME NEW e \in Entry, NEW t, NEW o \in [Address -> Object \cup {Nil}], Applies(e, o)
  PROVE  UndoObjects(e, t, o) =
           IF e.kind = "refund" THEN o
           ELSE [o EXCEPT ![e.addr] = UndoneObject(e, o[e.addr])]
  <1>1. CASE e.kind = "refund"
    BY <1>1 DEF UndoObjects
  <1>2. CASE e.kind # "refund"
    <2>1. PICK a : a = e.addr
      OBVIOUS
    <2>2. a \in Address /\ o[a] # Nil
      BY <1>2, <2>1, EntryKinds DEF Applies
    <2>3. LoadObjects(t, o, a) = o
      BY <2>2 DEF LoadObjects
    <2>4. CASE e.kind = "create"
      BY <2>1, <2>4 DEF UndoObjects, UndoneObject
    <2>5. CASE e.kind = "reset"
      BY <2>1, <2>5 DEF UndoObjects, UndoneObject
    <2>6. CASE e.kind = "touch"
      <3>1. UndoObjects(e, t, o) = o
        BY <2>6 DEF UndoObjects
      <3>2. UndoneObject(e, o[a]) = o[a]
        BY <2>6 DEF UndoneObject
      <3>3. [o EXCEPT ![a] = o[a]] = o
        BY <2>2
      <3> QED BY <1>2, <2>1, <3>1, <3>2, <3>3
    <2>7. CASE e.kind = "balance"
      <3>1. UndoObjects(e, t, o) = [o EXCEPT ![a].balance = e.prevBalance]
        BY <2>1, <2>3, <2>7 DEF UndoObjects
      <3>2. UndoneObject(e, o[a]) = [o[a] EXCEPT !.balance = e.prevBalance]
        BY <2>7 DEF UndoneObject
      <3> QED BY <1>2, <2>1, <3>1, <3>2
    <2>8. CASE e.kind = "suicide"
      <3>1. ~o[a].deleted
        BY <2>1, <2>8 DEF Applies
      <3>2. PICK ob : ob = [o[a] EXCEPT !.suicided = e.prev]
        OBVIOUS
      <3>3. PICK m : m = [o EXCEPT ![a].suicided = e.prev]
        OBVIOUS
      <3>4. m = [o EXCEPT ![a] = ob]
        BY <3>2, <3>3
      <3>5. m[a] = ob
        BY <2>2, <3>4
      <3>6. UndoObjects(e, t, o) = [m EXCEPT ![a].balance = e.prevBalance]
        BY <2>1, <2>2, <2>3, <2>8, <3>1, <3>3 DEF UndoObjects
      <3>7. PICK oc : oc = [ob EXCEPT !.balance = e.prevBalance]
        OBVIOUS
      <3>8. UndoObjects(e, t, o) = [m EXCEPT ![a] = oc]
        BY <3>5, <3>6, <3>7
      <3>9. [m EXCEPT ![a] = oc] = [o EXCEPT ![a] = oc]
        BY <2>2, <3>4
      <3>10. UndoneObject(e, o[a]) = oc
        BY <2>8, <3>2, <3>7 DEF UndoneObject
      <3> QED BY <1>2, <2>1, <3>8, <3>9, <3>10
    <2> QED BY <1>2, <2>4, <2>5, <2>6, <2>7, <2>8, EntryKinds
  <1> QED BY <1>1, <1>2

LEMMA BalanceZero == 0 \in Balance /\ Width \in Nat /\ Width > 0
  BY BoundsAssumption DEF Balance

LEMMA NilApart == Nil \notin Balance /\ Nil \notin Object
  BY NilAssumption DEF Balance, Object

\* What an account shows, its object being ob and its entry in the trie b.
Shown(ob, b) ==
  IF ob = Nil THEN IF b = Nil THEN 0 ELSE b
  ELSE IF ob.deleted \/ ob.suicided THEN 0 ELSE ob.balance

LEMMA ShownBalance ==
  ASSUME NEW ob \in Object \cup {Nil}, NEW b \in Account
  PROVE  Shown(ob, b) \in Balance
  <1>1. CASE ob = Nil
    BY <1>1, BalanceZero DEF Shown, Account
  <1>2. CASE ob # Nil
    <2>1. ob.balance \in Balance
      BY <1>2 DEF Object
    <2> QED BY <1>2, <2>1, BalanceZero DEF Shown
  <1> QED BY <1>1, <1>2

LEMMA VisibleGood ==
  ASSUME NEW s, Good(s)
  PROVE  /\ \A a \in Address : Visible(s, a) = Shown(s.stateObjects[a], s.trie[a])
         /\ View(s) = [a \in Address |-> Shown(s.stateObjects[a], s.trie[a])]
         /\ View(s) \in [Address -> Balance]
  <1>1. /\ s.stateObjects \in [Address -> Object \cup {Nil}]
        /\ s.trie \in [Address -> Account]
        /\ SuicidesCounted(s)
    BY GoodJournalled DEF Good
  <1>2. ASSUME NEW a \in Address
        PROVE  Visible(s, a) = Shown(s.stateObjects[a], s.trie[a])
    <2>1. PICK ob : ob = s.stateObjects[a]
      OBVIOUS
    <2>2. (ob # Nil /\ ob.suicided /\ ~ob.deleted) => s.dirties[a] > 0
      BY <1>1, <2>1 DEF SuicidesCounted
    <2>3. ob # Nil => ob.deleted \in BOOLEAN /\ ob.suicided \in BOOLEAN
      BY <1>1, <2>1 DEF Object
    <2>4. CASE ob = Nil
      BY <2>1, <2>4 DEF Visible, Shown
    <2>5. CASE ob # Nil
      BY <2>1, <2>2, <2>3, <2>5 DEF Visible, Shown
    <2> QED BY <2>4, <2>5
  <1>3. \A a \in Address : Shown(s.stateObjects[a], s.trie[a]) \in Balance
    BY <1>1, ShownBalance
  <1> QED BY <1>2, <1>3 DEF View

-----------------------------------------------------------------------------
(* Reading and touching.                                                   *)

Disk(b) == IF b = Nil THEN 0 ELSE b
Held(ob) == IF ob.deleted THEN 0 ELSE ob.balance

\* Good, field by field.
Sound(t, q, p, d, es, c, r) ==
  /\ t \in [Address -> Account] /\ q \in [Address -> Object \cup {Nil}]
  /\ p \in SUBSET Address /\ d \in SUBSET Address
  /\ es \in Seq(Entry) /\ c \in [Address -> Nat] /\ r \in Nat
  /\ \A a \in p \cup d : q[a] # Nil
  /\ \A a \in Address : (q[a] # Nil /\ c[a] = 0 /\ a \notin p) => Held(q[a]) = Disk(t[a])
  /\ \A a \in Address : (q[a] # Nil /\ q[a].suicided /\ ~q[a].deleted) => c[a] > 0
  /\ es = <<>> => r = 0
  /\ es # <<>> => Applies(es[Len(es)], q)

LEMMA FieldsOfRec ==
  ASSUME NEW t, NEW q, NEW p, NEW d, NEW es, NEW c, NEW r,
         NEW s, s = Rec(t, q, p, d, es, c, r)
  PROVE  /\ s.trie = t /\ s.stateObjects = q /\ s.pending = p /\ s.dirty = d
         /\ s.entries = es /\ s.dirties = c /\ s.refund = r
  BY DEF Rec

LEMMA SoundGood ==
  ASSUME NEW t, NEW q, NEW p, NEW d, NEW es, NEW c, NEW r, Sound(t, q, p, d, es, c, r)
  PROVE  Good(Rec(t, q, p, d, es, c, r))
  <1>1. PICK s : s = Rec(t, q, p, d, es, c, r)
    OBVIOUS
  <1>2. /\ s.trie = t /\ s.stateObjects = q /\ s.pending = p /\ s.dirty = d
        /\ s.entries = es /\ s.dirties = c /\ s.refund = r
    BY <1>1, FieldsOfRec
  <1>3. s \in State
    BY <1>1, RecState DEF Sound
  <1>4. Cached(s)
    BY <1>2 DEF Cached, Sound
  <1>5. Coherent(s)
    BY <1>2 DEF Coherent, Sound, Held, Disk
  <1>6. SuicidesCounted(s)
    BY <1>2 DEF SuicidesCounted, Sound
  <1>7. s.entries = <<>> => s.refund = 0
    BY <1>2 DEF Sound
  <1>8. LastApplies(s)
    BY <1>2 DEF LastApplies, Sound, Applies
  <1> QED BY <1>1, <1>3, <1>4, <1>5, <1>6, <1>7, <1>8 DEF Good

LEMMA GoodSound ==
  ASSUME NEW s, Good(s)
  PROVE  /\ Sound(s.trie, s.stateObjects, s.pending, s.dirty, s.entries, s.dirties, s.refund)
         /\ IsRec(s) /\ Len(s.entries) \in Nat
  <1>1. /\ IsRec(s) /\ Len(s.entries) \in Nat
        /\ s.trie \in [Address -> Account]
        /\ s.stateObjects \in [Address -> Object \cup {Nil}]
        /\ s.pending \in SUBSET Address /\ s.dirty \in SUBSET Address
        /\ s.entries \in Seq(Entry)
        /\ s.dirties \in [Address -> Nat] /\ s.refund \in Nat
    BY GoodJournalled
  <1>2. \A a \in s.pending \cup s.dirty : s.stateObjects[a] # Nil
    BY DEF Good, Cached
  <1>3. \A a \in Address :
           (s.stateObjects[a] # Nil /\ s.dirties[a] = 0 /\ a \notin s.pending)
              => Held(s.stateObjects[a]) = Disk(s.trie[a])
    BY DEF Good, Coherent, Held, Disk
  <1>4. \A a \in Address : (s.stateObjects[a] # Nil /\ s.stateObjects[a].suicided
                              /\ ~s.stateObjects[a].deleted) => s.dirties[a] > 0
    BY DEF Good, SuicidesCounted
  <1>5. s.entries = <<>> => s.refund = 0
    BY DEF Good
  <1>6. s.entries # <<>> => Applies(s.entries[Len(s.entries)], s.stateObjects)
    BY DEF Good, LastApplies, Applies
  <1> QED BY <1>1, <1>2, <1>3, <1>4, <1>5, <1>6 DEF Sound

\* The state before the newest entry of a good state.
LEMMA PopGood ==
  ASSUME NEW s, Good(s), s.entries # <<>>, NEW e, e = s.entries[Len(s.entries)]
  PROVE  /\ e \in Entry
         /\ Applies(e, s.stateObjects)
         /\ Pop(s) = Rec(s.trie,
                         IF e.kind = "refund" THEN s.stateObjects
                         ELSE [s.stateObjects EXCEPT ![e.addr] =
                                 UndoneObject(e, s.stateObjects[e.addr])],
                         s.pending, UndoDirty(e, s.dirty),
                         SubSeq(s.entries, 1, Len(s.entries) - 1),
                         UndoDirties(e, s.dirties), UndoRefund(e, s.refund))
  <1>1. /\ Journalled(s) /\ s.stateObjects \in [Address -> Object \cup {Nil}]
        /\ Applies(e, s.stateObjects)
    BY GoodJournalled, GoodSound DEF Sound
  <1>2. /\ e \in Entry
        /\ Pop(s) = Rec(s.trie, UndoObjects(e, s.trie, s.stateObjects), s.pending,
                        UndoDirty(e, s.dirty), SubSeq(s.entries, 1, Len(s.entries) - 1),
                        UndoDirties(e, s.dirties), UndoRefund(e, s.refund))
    BY <1>1, PopRec
  <1> QED BY <1>1, <1>2, UndoneAt

LEMMA LoadGood ==
  ASSUME NEW s, Good(s), NEW a \in Address
  PROVE  /\ Good(Load(s, a))
         /\ View(Load(s, a)) = View(s)
         /\ Load(s, a) = Rec(s.trie, LoadObjects(s.trie, s.stateObjects, a), s.pending,
                             s.dirty, s.entries, s.dirties, s.refund)
         /\ Load(s, a).refund = s.refund /\ Load(s, a).entries = s.entries
         /\ Load(s, a).trie = s.trie
         /\ Load(s, a).stateObjects[a] = Nil => s.trie[a] = Nil
  <1>1. PICK t, o, p, d, es, c, r : s = Rec(t, o, p, d, es, c, r) /\ Sound(t, o, p, d, es, c, r)
    BY GoodSound DEF IsRec
  <1>2. /\ s.trie = t /\ s.stateObjects = o /\ s.pending = p /\ s.dirty = d
        /\ s.entries = es /\ s.dirties = c /\ s.refund = r
    BY <1>1, FieldsOfRec
  <1>3. PICK q : q = LoadObjects(t, o, a)
    OBVIOUS
  <1>4. PICK u : u = Rec(t, q, p, d, es, c, r)
    OBVIOUS
  <1>5. u = Load(s, a)
    BY <1>1, <1>3, <1>4, LoadRec
  <1>6. /\ u.trie = t /\ u.stateObjects = q /\ u.pending = p /\ u.dirty = d
        /\ u.entries = es /\ u.dirties = c /\ u.refund = r
    BY <1>4, FieldsOfRec
  <1>7. CASE ~(o[a] = Nil /\ t[a] # Nil)
    <2>1. q = o
      BY <1>3, <1>7 DEF LoadObjects
    <2>2. u = s
      BY <1>1, <1>4, <2>1
    <2> QED BY <1>2, <1>3, <1>4, <1>5, <1>6, <1>7, <2>1, <2>2
  <1>8. CASE o[a] = Nil /\ t[a] # Nil
    <2>1. PICK ob : ob = newObject(t[a])
      OBVIOUS
    <2>2. t[a] \in Balance
      BY <1>1, <1>8 DEF Sound, Account
    <2>3. /\ ob \in Object /\ ob # Nil /\ ob.balance = t[a]
          /\ ~ob.deleted /\ ~ob.suicided
      <3>1. ob = [balance |-> t[a], suicided |-> FALSE, deleted |-> FALSE]
        BY <2>1 DEF newObject
      <3>2. ob \in Object
        BY <2>2, <3>1 DEF Object
      <3>3. ob.balance = t[a] /\ ob.deleted = FALSE /\ ob.suicided = FALSE
        BY <3>1
      <3> QED BY <3>2, <3>3, NilApart
    <2>4. q = [o EXCEPT ![a] = ob]
      BY <1>3, <1>8, <2>1 DEF LoadObjects
    <2>5. /\ q \in [Address -> Object \cup {Nil}] /\ q[a] = ob
          /\ \A b \in Address \ {a} : q[b] = o[b]
      BY <1>1, <2>3, <2>4 DEF Sound
    <2>6. Held(ob) = Disk(t[a])
      BY <1>8, <2>3 DEF Held, Disk
    <2>7. Sound(t, q, p, d, es, c, r)
      <3>1. \A b \in p \cup d : q[b] # Nil
        BY <1>1, <2>3, <2>5 DEF Sound
      <3>2. \A b \in Address : (q[b] # Nil /\ c[b] = 0 /\ b \notin p) => Held(q[b]) = Disk(t[b])
        BY <1>1, <2>5, <2>6 DEF Sound
      <3>3. \A b \in Address : (q[b] # Nil /\ q[b].suicided /\ ~q[b].deleted) => c[b] > 0
        BY <1>1, <2>3, <2>5 DEF Sound
      <3>4. es # <<>> => Applies(es[Len(es)], q)
        <4> SUFFICES ASSUME es # <<>> PROVE Applies(es[Len(es)], q)
          OBVIOUS
        <4>1. PICK e : e = es[Len(es)]
          OBVIOUS
        <4>2. e \in Entry /\ Applies(e, o)
          BY <1>1, <1>2, <4>1, PopGood
        <4>3. e.kind # "refund" => e.addr \in Address \ {a}
          BY <1>8, <4>2, EntryKinds DEF Applies
        <4> QED BY <2>5, <4>1, <4>2, <4>3 DEF Applies
      <3> QED BY <1>1, <2>5, <3>1, <3>2, <3>3, <3>4 DEF Sound
    <2>8. Good(u)
      BY <1>4, <2>7, SoundGood
    <2>9. \A b \in Address : Shown(q[b], t[b]) = Shown(o[b], t[b])
      <3>1. Shown(q[a], t[a]) = Shown(o[a], t[a])
        BY <1>8, <2>3, <2>5 DEF Shown
      <3> QED BY <2>5, <3>1
    <2>10. View(u) = View(s)
      <3>1. View(s) = [b \in Address |-> Shown(o[b], t[b])]
        BY <1>2, VisibleGood
      <3>2. View(u) = [b \in Address |-> Shown(q[b], t[b])]
        BY <1>6, <2>8, VisibleGood
      <3> QED BY <2>9, <3>1, <3>2
    <2> QED BY <1>2, <1>3, <1>4, <1>5, <1>6, <2>3, <2>5, <2>8, <2>10
  <1> QED BY <1>7, <1>8

\* Undoing an entry does not care whether an account that it is not about has
\* been loaded.
LEMMA LoadPop ==
  ASSUME NEW s, Good(s), s.entries # <<>>, NEW a \in Address,
         s.stateObjects[a] = Nil, s.trie[a] # Nil
  PROVE  /\ Pop(s).stateObjects[a] = Nil
         /\ Pop(s).trie = s.trie
         /\ Pop(Load(s, a)) = Load(Pop(s), a)
  <1>1. PICK e : e = s.entries[Len(s.entries)]
    OBVIOUS
  <1>2. PICK t, o, p, d, es, c, r :
               /\ t = s.trie /\ o = s.stateObjects /\ p = s.pending /\ d = s.dirty
               /\ es = s.entries /\ c = s.dirties /\ r = s.refund
    OBVIOUS
  <1>3. PICK d2, es2, c2, r2 :
               /\ d2 = UndoDirty(e, d) /\ es2 = SubSeq(es, 1, Len(es) - 1)
               /\ c2 = UndoDirties(e, c) /\ r2 = UndoRefund(e, r)
    OBVIOUS
  <1>4. PICK o2 : o2 = (IF e.kind = "refund" THEN o
                        ELSE [o EXCEPT ![e.addr] = UndoneObject(e, o[e.addr])])
    OBVIOUS
  <1>5. /\ e \in Entry /\ Applies(e, o)
        /\ Pop(s) = Rec(t, o2, p, d2, es2, c2, r2)
    BY <1>1, <1>2, <1>3, <1>4, PopGood
  <1>6. o \in [Address -> Object \cup {Nil}]
    BY <1>2, GoodJournalled
  <1>7. e.kind # "refund" => e.addr \in Address /\ e.addr # a
    BY <1>2, <1>5, EntryKinds DEF Applies
  <1>8. o2[a] = Nil
    BY <1>2, <1>4, <1>6, <1>7
  <1>9. PICK u, q, x : /\ u = Load(s, a) /\ q = LoadObjects(t, o, a)
                       /\ x = newObject(t[a])
    OBVIOUS
  <1>10. q = [o EXCEPT ![a] = x]
    BY <1>2, <1>9 DEF LoadObjects
  <1>11. /\ Good(u) /\ u = Rec(t, q, p, d, es, c, r)
    BY <1>2, <1>9, LoadGood
  <1>12. /\ u.trie = t /\ u.stateObjects = q /\ u.pending = p /\ u.dirty = d
         /\ u.entries = es /\ u.dirties = c /\ u.refund = r
    BY <1>11, FieldsOfRec
  <1>13. PICK q2 : q2 = (IF e.kind = "refund" THEN q
                         ELSE [q EXCEPT ![e.addr] = UndoneObject(e, q[e.addr])])
    OBVIOUS
  <1>14. Pop(u) = Rec(t, q2, p, d2, es2, c2, r2)
    BY <1>1, <1>2, <1>3, <1>11, <1>12, <1>13, PopGood
  <1>15. q2 = [o2 EXCEPT ![a] = x]
    <2>1. CASE e.kind = "refund"
      BY <1>4, <1>10, <1>13, <2>1
    <2>2. CASE e.kind # "refund"
      <3>1. PICK b, y : b = e.addr /\ y = UndoneObject(e, o[b])
        OBVIOUS
      <3>2. b \in Address /\ b # a /\ q[b] = o[b]
        BY <1>6, <1>7, <1>10, <2>2, <3>1
      <3>3. o2 = [o EXCEPT ![b] = y]
        BY <1>4, <2>2, <3>1
      <3>4. q2 = [q EXCEPT ![b] = y]
        BY <1>13, <2>2, <3>1, <3>2
      <3>5. \A z \in Address : [[o EXCEPT ![a] = x] EXCEPT ![b] = y][z]
                                 = [[o EXCEPT ![b] = y] EXCEPT ![a] = x][z]
        BY <1>6, <3>2
      <3>6. [[o EXCEPT ![a] = x] EXCEPT ![b] = y] = [[o EXCEPT ![b] = y] EXCEPT ![a] = x]
        BY <1>6, <3>5
      <3> QED BY <1>10, <3>3, <3>4, <3>6
    <2> QED BY <2>1, <2>2
  <1>16. Load(Pop(s), a) = Rec(t, LoadObjects(t, o2, a), p, d2, es2, c2, r2)
    BY <1>5, LoadRec
  <1>17. LoadObjects(t, o2, a) = q2
    BY <1>2, <1>8, <1>9, <1>15 DEF LoadObjects
  <1>18. Pop(s).stateObjects = o2 /\ Pop(s).trie = t
    BY <1>5, FieldsOfRec
  <1> QED BY <1>2, <1>8, <1>9, <1>14, <1>16, <1>17, <1>18

LEMMA LoadKeeps ==
  ASSUME NEW s, JournalInv(s), NEW a \in Address
  PROVE  Keeps(s, Load(s, a))
  <1>1. PICK h, k : k = Len(s.entries) /\ h = [n \in 0 .. k |-> revert(s, n)]
    OBVIOUS
  <1>2. /\ k \in Nat /\ Good(s) /\ h[k] = s
        /\ \A n \in 0 .. k : Good(h[n])
        /\ \A n \in 0 .. k - 1 : h[n] = Pop(h[n + 1])
    <2>1. Chain(s, h)
      BY <1>1, InvChain
    <2> QED BY <1>1, <2>1, GoodJournalled DEF JournalInv, Chain
  <1>3. CASE ~(s.stateObjects[a] = Nil /\ s.trie[a] # Nil)
    <2>1. Load(s, a) = s
      BY <1>3 DEF Load
    <2> QED BY <1>1, <1>2, <2>1 DEF Keeps
  <1>4. CASE s.stateObjects[a] = Nil /\ s.trie[a] # Nil
    <2>1. \A n \in 0 .. k : Len(h[n].entries) = n
      BY <1>1, <1>2, RevertSteps, GoodJournalled
    <2>2. PICK S \in SUBSET (0 .. k) :
                 S = {n \in 0 .. k : ~(h[n].stateObjects[a] = Nil /\ h[n].trie[a] # Nil)}
      OBVIOUS
    <2>3. ASSUME NEW n \in 0 .. k - 1, h[n + 1].stateObjects[a] = Nil, h[n + 1].trie[a] # Nil
          PROVE  /\ h[n].stateObjects[a] = Nil /\ h[n].trie[a] # Nil
                 /\ Pop(Load(h[n + 1], a)) = Load(h[n], a)
      <3>1. PICK x : x = h[n + 1]
        OBVIOUS
      <3>2. n + 1 \in 0 .. k /\ n + 1 # 0
        BY <1>2
      <3>3. Good(x) /\ Len(x.entries) = n + 1
        BY <1>2, <2>1, <3>1, <3>2
      <3>4. x.entries # <<>>
        BY <3>2, <3>3
      <3>5. h[n] = Pop(x)
        BY <1>2, <3>1
      <3> QED BY <2>3, <3>1, <3>3, <3>4, <3>5, LoadPop
    <2>4. ASSUME S # {} PROVE FALSE
      <3>1. PICK n \in S : \A m \in S : m <= n
        BY <1>2, <2>4, LastOne
      <3>2. n \in 0 .. k - 1 /\ n + 1 \in 0 .. k
        BY <1>2, <1>4, <2>2
      <3>3. n + 1 \notin S
        BY <3>1, <3>2
      <3>4. h[n].stateObjects[a] = Nil /\ h[n].trie[a] # Nil
        BY <2>2, <2>3, <3>2, <3>3
      <3> QED BY <2>2, <3>4
    <2>5. PICK g : g = [n \in 0 .. k |-> Load(h[n], a)]
      OBVIOUS
    <2>6. g[k] = Load(s, a) /\ Load(s, a).entries = s.entries
      BY <1>2, <2>5, LoadGood
    <2>7. \A n \in 0 .. k : Good(g[n]) /\ View(g[n]) = View(revert(s, n))
                              /\ g[n].refund = revert(s, n).refund
      BY <1>1, <1>2, <2>5, LoadGood
    <2>8. ASSUME NEW n \in 0 .. k - 1
          PROVE  g[n] = Pop(g[n + 1])
      <3>1. n \in 0 .. k /\ n + 1 \in 0 .. k
        BY <1>2
      <3>2. h[n + 1].stateObjects[a] = Nil /\ h[n + 1].trie[a] # Nil
        BY <2>2, <2>4, <3>1
      <3> QED BY <2>3, <2>5, <3>1, <3>2
    <2> QED BY <1>1, <2>6, <2>7, <2>8, LiftKeeps
  <1> QED BY <1>3, <1>4

\* The second count of a touched Ripemd, which no revert takes back.
Bump(s, a) ==
  Rec(s.trie, s.stateObjects, s.pending, s.dirty, s.entries,
      [s.dirties EXCEPT ![a] = @ + 1], s.refund)

LEMMA BumpGood ==
  ASSUME NEW s, Good(s), NEW a \in Address
  PROVE  /\ Good(Bump(s, a)) /\ View(Bump(s, a)) = View(s)
         /\ Bump(s, a).refund = s.refund /\ Bump(s, a).entries = s.entries
         /\ Bump(s, a).stateObjects = s.stateObjects
  <1>1. PICK t, o, p, d, es, c, r :
               /\ t = s.trie /\ o = s.stateObjects /\ p = s.pending /\ d = s.dirty
               /\ es = s.entries /\ c = s.dirties /\ r = s.refund
    OBVIOUS
  <1>2. Sound(t, o, p, d, es, c, r)
    BY <1>1, GoodSound
  <1>3. PICK b : b = [c EXCEPT ![a] = @ + 1]
    OBVIOUS
  <1>4. c \in [Address -> Nat]
    BY <1>2 DEF Sound
  <1>5. b[a] = c[a] + 1 /\ \A x \in Address \ {a} : b[x] = c[x]
    BY <1>3, <1>4
  <1>6. b \in [Address -> Nat]
    BY <1>3, <1>4
  <1>7. \A x \in Address : (b[x] = 0 => c[x] = 0) /\ (c[x] > 0 => b[x] > 0)
    BY <1>4, <1>5
  <1>8. Sound(t, o, p, d, es, b, r)
    BY <1>2, <1>6, <1>7 DEF Sound
  <1>9. PICK u : u = Bump(s, a)
    OBVIOUS
  <1>10. u = Rec(t, o, p, d, es, b, r)
    BY <1>1, <1>3, <1>9 DEF Bump
  <1>11. Good(u)
    BY <1>8, <1>10, SoundGood
  <1>12. /\ u.trie = t /\ u.stateObjects = o /\ u.entries = es /\ u.refund = r
    BY <1>10, FieldsOfRec
  <1>13. View(u) = View(s)
    BY <1>1, <1>11, <1>12, VisibleGood
  <1> QED BY <1>1, <1>9, <1>11, <1>12, <1>13

LEMMA BumpPop ==
  ASSUME NEW s, Good(s), s.entries # <<>>, NEW a \in Address
  PROVE  Pop(Bump(s, a)) = Bump(Pop(s), a)
  <1>1. PICK e : e = s.entries[Len(s.entries)]
    OBVIOUS
  <1>2. PICK t, o, p, d, es, c, r :
               /\ t = s.trie /\ o = s.stateObjects /\ p = s.pending /\ d = s.dirty
               /\ es = s.entries /\ c = s.dirties /\ r = s.refund
    OBVIOUS
  <1>3. PICK o2, d2, es2, r2 :
               /\ o2 = (IF e.kind = "refund" THEN o
                        ELSE [o EXCEPT ![e.addr] = UndoneObject(e, o[e.addr])])
               /\ d2 = UndoDirty(e, d) /\ es2 = SubSeq(es, 1, Len(es) - 1)
               /\ r2 = UndoRefund(e, r)
    OBVIOUS
  <1>4. PICK c2 : c2 = UndoDirties(e, c)
    OBVIOUS
  <1>5. Pop(s) = Rec(t, o2, p, d2, es2, c2, r2)
    BY <1>1, <1>2, <1>3, <1>4, PopGood
  <1>6. PICK b, u : b = [c EXCEPT ![a] = @ + 1] /\ u = Bump(s, a)
    OBVIOUS
  <1>7. u = Rec(t, o, p, d, es, b, r)
    BY <1>2, <1>6 DEF Bump
  <1>8. /\ u.trie = t /\ u.stateObjects = o /\ u.pending = p /\ u.dirty = d
        /\ u.entries = es /\ u.dirties = b /\ u.refund = r
    BY <1>7, FieldsOfRec
  <1>9. Good(u)
    BY <1>6, BumpGood
  <1>10. PICK b2 : b2 = UndoDirties(e, b)
    OBVIOUS
  <1>11. Pop(u) = Rec(t, o2, p, d2, es2, b2, r2)
    BY <1>1, <1>2, <1>3, <1>8, <1>9, <1>10, PopGood
  <1>12. c \in [Address -> Nat]
    BY <1>2, GoodJournalled
  <1>13. b2 = [c2 EXCEPT ![a] = @ + 1]
    <2>1. PICK f : f = [x \in Address |-> IF x \in Dirtied(e) THEN 1 ELSE 0]
      OBVIOUS
    <2>2. \A x \in Address : f[x] \in Nat /\ c[x] \in Nat
      BY <1>12, <2>1
    <2>3. c2 = [x \in Address |-> c[x] - f[x]]
      BY <1>4, <2>1 DEF UndoDirties
    <2>4. b2 = [x \in Address |-> b[x] - f[x]]
      BY <1>10, <2>1 DEF UndoDirties
    <2>5. b = [x \in Address |-> IF x = a THEN c[x] + 1 ELSE c[x]]
      BY <1>6, <1>12
    <2>6. [c2 EXCEPT ![a] = @ + 1] = [x \in Address |-> IF x = a THEN c2[a] + 1 ELSE c2[x]]
      BY <2>3
    <2>7. \A x \in Address : b2[x] = (IF x = a THEN c2[a] + 1 ELSE c2[x])
      BY <2>2, <2>3, <2>4, <2>5
    <2> QED BY <2>4, <2>6, <2>7
  <1>14. /\ Pop(s).trie = t /\ Pop(s).stateObjects = o2 /\ Pop(s).pending = p
         /\ Pop(s).dirty = d2 /\ Pop(s).entries = es2 /\ Pop(s).dirties = c2
         /\ Pop(s).refund = r2
    BY <1>5, FieldsOfRec
  <1> QED BY <1>6, <1>11, <1>13, <1>14 DEF Bump

LEMMA BumpKeeps ==
  ASSUME NEW s, JournalInv(s), NEW a \in Address
  PROVE  Keeps(s, Bump(s, a))
  <1>1. PICK h, k : k = Len(s.entries) /\ h = [n \in 0 .. k |-> revert(s, n)]
    OBVIOUS
  <1>2. /\ k \in Nat /\ Good(s) /\ h[k] = s
        /\ \A n \in 0 .. k : Good(h[n])
        /\ \A n \in 0 .. k - 1 : h[n] = Pop(h[n + 1])
    <2>1. Chain(s, h)
      BY <1>1, InvChain
    <2> QED BY <1>1, <2>1, GoodJournalled DEF JournalInv, Chain
  <1>3. \A n \in 0 .. k : Len(h[n].entries) = n
    BY <1>1, <1>2, RevertSteps, GoodJournalled
  <1>4. PICK g : g = [n \in 0 .. k |-> Bump(h[n], a)]
    OBVIOUS
  <1>5. g[k] = Bump(s, a) /\ Bump(s, a).entries = s.entries
    BY <1>2, <1>4, BumpGood
  <1>6. \A n \in 0 .. k : Good(g[n]) /\ View(g[n]) = View(revert(s, n))
                            /\ g[n].refund = revert(s, n).refund
    BY <1>1, <1>2, <1>4, BumpGood
  <1>7. ASSUME NEW n \in 0 .. k - 1
        PROVE  g[n] = Pop(g[n + 1])
    <2>1. n \in 0 .. k /\ n + 1 \in 0 .. k /\ n + 1 # 0
      BY <1>2
    <2>2. PICK x : x = h[n + 1]
      OBVIOUS
    <2>3. Good(x) /\ Len(x.entries) = n + 1
      BY <1>2, <1>3, <2>1, <2>2
    <2>4. x.entries # <<>>
      BY <2>1, <2>3
    <2>5. Pop(Bump(x, a)) = Bump(h[n], a)
      BY <1>2, <2>2, <2>3, <2>4, BumpPop
    <2> QED BY <1>4, <2>1, <2>2, <2>5
  <1> QED BY <1>1, <1>5, <1>6, <1>7, LiftKeeps

-----------------------------------------------------------------------------
(* Changes that go into the journal.                                       *)

CountDirties(e, c) == [a \in Address |-> c[a] + (IF a \in Dirtied(e) THEN 1 ELSE 0)]

LEMMA JournalRec ==
  ASSUME NEW s, IsRec(s), NEW e
  PROVE  Journal(s, e) = Rec(s.trie, s.stateObjects, s.pending, s.dirty,
                             Append(s.entries, e), CountDirties(e, s.dirties), s.refund)
  <1>1. PICK t, o, p, d, es, c, r : s = Rec(t, o, p, d, es, c, r)
    BY DEF IsRec
  <1>2. /\ s.trie = t /\ s.stateObjects = o /\ s.pending = p /\ s.dirty = d
        /\ s.entries = es /\ s.dirties = c /\ s.refund = r
    BY <1>1, FieldsOfRec
  <1>3. PICK x, y : x = Append(es, e) /\ y = CountDirties(e, c)
    OBVIOUS
  <1>4. Journal(s, e) = [s EXCEPT !.entries = x, !.dirties = y]
    BY <1>2, <1>3 DEF Journal, CountDirties
  <1>5. [s EXCEPT !.entries = x] = Rec(t, o, p, d, x, c, r)
    BY <1>1 DEF Rec
  <1>6. PICK z : z = Rec(t, o, p, d, x, c, r)
    OBVIOUS
  <1>7. [s EXCEPT !.entries = x, !.dirties = y] = [z EXCEPT !.dirties = y]
    BY <1>5, <1>6
  <1>8. [z EXCEPT !.dirties = y] = Rec(t, o, p, d, x, y, r)
    BY <1>6 DEF Rec
  <1> QED BY <1>2, <1>3, <1>4, <1>7, <1>8

LEMMA AppendPrefix ==
  ASSUME NEW es \in Seq(Entry), NEW e \in Entry, NEW x, x = Append(es, e)
  PROVE  /\ x \in Seq(Entry) /\ Len(x) = Len(es) + 1 /\ x # <<>>
         /\ x[Len(x)] = e /\ SubSeq(x, 1, Len(x) - 1) = es
  <1>1. /\ x \in Seq(Entry) /\ Len(x) = Len(es) + 1 /\ Len(es) \in Nat
        /\ \A i \in 1 .. Len(es) : x[i] = es[i]
        /\ x[Len(es) + 1] = e
    BY AppendProperties, LenProperties
  <1>2. Len(x) - 1 = Len(es) /\ Len(x) # 0 /\ Len(es) \in 0 .. Len(x)
    BY <1>1
  <1>3. PICK y : y = SubSeq(x, 1, Len(es))
    OBVIOUS
  <1>4. y \in Seq(Entry) /\ Len(y) = Len(es) /\ \A i \in 1 .. Len(es) : y[i] = x[i]
    BY <1>1, <1>2, <1>3, Prefix
  <1>5. y = es
    BY <1>1, <1>4, SeqEqual
  <1> QED BY <1>1, <1>2, <1>3, <1>5

\* The state s after the change of an object, and its entry.
Pushed(s, e, ob) ==
  Rec(s.trie, [s.stateObjects EXCEPT ![e.addr] = ob], s.pending, s.dirty,
      Append(s.entries, e), CountDirties(e, s.dirties), s.refund)

\* The entry takes the change back, and the new object is accounted for.
Matches(s, e, ob) ==
  /\ e \in Entry /\ e.kind # "refund" /\ ob \in Object
  /\ UndoneObject(e, ob) = s.stateObjects[e.addr]
  /\ e.kind = "suicide" => ~ob.deleted
  /\ e.kind = "create" => s.stateObjects[e.addr] = Nil
  /\ (e.kind = "reset" /\ s.dirties[e.addr] = 0) =>
        /\ ob.suicided => ob.deleted
        /\ e.addr \notin s.pending => Held(ob) = Disk(s.trie[e.addr])

LEMMA PushObject ==
  ASSUME NEW s, Good(s), NEW e, NEW ob, Matches(s, e, ob), NEW u, u = Pushed(s, e, ob)
  PROVE  /\ Good(u) /\ Pop(u) = s
         /\ Len(u.entries) = Len(s.entries) + 1
         /\ u.refund = s.refund
         /\ View(u) = [View(s) EXCEPT ![e.addr] = Shown(ob, s.trie[e.addr])]
  <1>1. PICK t, o, p, d, es, c, r : s = Rec(t, o, p, d, es, c, r) /\ Sound(t, o, p, d, es, c, r)
    BY GoodSound DEF IsRec
  <1>2. /\ s.trie = t /\ s.stateObjects = o /\ s.pending = p /\ s.dirty = d
        /\ s.entries = es /\ s.dirties = c /\ s.refund = r
    BY <1>1, FieldsOfRec
  <1>3. PICK a : a = e.addr
    OBVIOUS
  <1>4. e \in Entry /\ e.kind # "refund" /\ a \in Address /\ ob \in Object /\ ob # Nil
    BY <1>3, EntryKinds, NilApart DEF Matches
  <1>5. PICK q, x, y : q = [o EXCEPT ![a] = ob] /\ x = Append(es, e) /\ y = CountDirties(e, c)
    OBVIOUS
  <1>6. u = Rec(t, q, p, d, x, y, r)
    BY <1>2, <1>3, <1>5 DEF Pushed
  <1>7. /\ u.trie = t /\ u.stateObjects = q /\ u.pending = p /\ u.dirty = d
        /\ u.entries = x /\ u.dirties = y /\ u.refund = r
    BY <1>6, FieldsOfRec
  <1>8. /\ o \in [Address -> Object \cup {Nil}] /\ c \in [Address -> Nat]
        /\ es \in Seq(Entry) /\ t \in [Address -> Account]
    BY <1>1 DEF Sound
  <1>9. /\ x \in Seq(Entry) /\ Len(x) = Len(es) + 1 /\ x # <<>>
        /\ x[Len(x)] = e /\ SubSeq(x, 1, Len(x) - 1) = es
    BY <1>4, <1>5, <1>8, AppendPrefix
  <1>10. /\ q \in [Address -> Object \cup {Nil}] /\ q[a] = ob
         /\ \A z \in Address \ {a} : q[z] = o[z]
    BY <1>4, <1>5, <1>8
  <1>11. PICK f : f = [z \in Address |-> IF z \in Dirtied(e) THEN 1 ELSE 0]
    OBVIOUS
  <1>12. /\ \A z \in Address : f[z] \in {0, 1} /\ c[z] \in Nat
         /\ y = [z \in Address |-> c[z] + f[z]]
         /\ e.kind # "reset" => f[a] = 1
    BY <1>3, <1>4, <1>5, <1>8, <1>11 DEF CountDirties, Dirtied
  <1>13. /\ y \in [Address -> Nat]
         /\ \A z \in Address : (y[z] = 0 => c[z] = 0) /\ (c[z] > 0 => y[z] > 0)
         /\ e.kind # "reset" => y[a] > 0
    BY <1>4, <1>12
  <1>14. Sound(t, q, p, d, x, y, r)
    <2>1. \A z \in p \cup d : q[z] # Nil
      BY <1>1, <1>4, <1>10 DEF Sound
    <2>2. ASSUME NEW z \in Address, q[z] # Nil, y[z] = 0, z \notin p
          PROVE  Held(q[z]) = Disk(t[z])
      <3>1. c[z] = 0
        BY <1>13, <2>2
      <3>2. CASE z = a
        <4>1. e.kind = "reset"
          BY <1>4, <1>13, <2>2, <3>2
        <4> QED BY <1>2, <1>3, <1>10, <2>2, <3>1, <3>2, <4>1 DEF Matches
      <3>3. CASE z # a
        BY <1>1, <1>10, <2>2, <3>1, <3>3 DEF Sound
      <3> QED BY <3>2, <3>3
    <2>3. ASSUME NEW z \in Address, q[z] # Nil, q[z].suicided, ~q[z].deleted
          PROVE  y[z] > 0
      <3>1. CASE z = a
        <4>1. CASE e.kind # "reset"
          BY <1>13, <3>1, <4>1
        <4>2. CASE e.kind = "reset"
          <5>1. c[a] # 0
            BY <1>2, <1>3, <1>10, <2>3, <3>1, <4>2 DEF Matches
          <5>2. c[a] > 0
            BY <1>4, <1>12, <5>1
          <5> QED BY <1>4, <1>13, <3>1, <5>2
        <4> QED BY <4>1, <4>2
      <3>2. CASE z # a
        <4>1. c[z] > 0
          BY <1>1, <1>10, <2>3, <3>2 DEF Sound
        <4> QED BY <1>13, <4>1
      <3> QED BY <3>1, <3>2
    <2>4. Applies(e, q)
      BY <1>3, <1>4, <1>10 DEF Applies, Matches
    <2> QED BY <1>1, <1>9, <1>10, <1>13, <2>1, <2>2, <2>3, <2>4 DEF Sound
  <1>15. Good(u)
    BY <1>6, <1>14, SoundGood
  <1>16. Pop(u) = s
    <2>1. Pop(u) = Rec(t, [q EXCEPT ![a] = UndoneObject(e, q[a])], p, UndoDirty(e, d),
                       es, UndoDirties(e, y), UndoRefund(e, r))
      BY <1>3, <1>4, <1>7, <1>9, <1>15, PopGood
    <2>2. [q EXCEPT ![a] = UndoneObject(e, q[a])] = o
      <3>1. UndoneObject(e, q[a]) = o[a]
        BY <1>2, <1>3, <1>10 DEF Matches
      <3>2. [q EXCEPT ![a] = o[a]] = o
        BY <1>4, <1>5, <1>8
      <3> QED BY <3>1, <3>2
    <2>3. UndoDirty(e, d) = d
      <3>1. e.kind = "create" => a \notin d
        BY <1>1, <1>2, <1>3 DEF Matches, Sound
      <3> QED BY <1>3, <3>1 DEF UndoDirty
    <2>4. UndoDirties(e, y) = c
      <3>1. UndoDirties(e, y) = [z \in Address |-> y[z] - f[z]]
        BY <1>11 DEF UndoDirties
      <3>2. \A z \in Address : y[z] - f[z] = c[z]
        BY <1>12
      <3> QED BY <1>8, <3>1, <3>2
    <2>5. UndoRefund(e, r) = r
      BY <1>4 DEF UndoRefund
    <2> QED BY <1>1, <2>1, <2>2, <2>3, <2>4, <2>5
  <1>17. View(u) = [View(s) EXCEPT ![a] = Shown(ob, t[a])]
    <2>1. View(s) = [z \in Address |-> Shown(o[z], t[z])]
      BY <1>2, VisibleGood
    <2>2. View(u) = [z \in Address |-> Shown(q[z], t[z])]
      BY <1>7, <1>15, VisibleGood
    <2>3. \A z \in Address : Shown(q[z], t[z]) = IF z = a THEN Shown(ob, t[a])
                                                 ELSE Shown(o[z], t[z])
      BY <1>10
    <2> QED BY <2>1, <2>2, <2>3
  <1> QED BY <1>2, <1>3, <1>7, <1>9, <1>15, <1>16, <1>17

RefundEntry(s) == [kind |-> "refund", prevRefund |-> s.refund]
ChargedTo(s, v) == [Journal(s, RefundEntry(s)) EXCEPT !.refund = v]

LEMMA PushRefund ==
  ASSUME NEW s, Good(s), NEW v \in Nat, NEW u, u = ChargedTo(s, v)
  PROVE  /\ Good(u) /\ Pop(u) = s
         /\ Len(u.entries) = Len(s.entries) + 1
         /\ u.refund = v
         /\ View(u) = View(s)
  <1> DEFINE e == RefundEntry(s)
  <1>1. PICK t, o, p, d, es, c, r : s = Rec(t, o, p, d, es, c, r) /\ Sound(t, o, p, d, es, c, r)
    BY GoodSound DEF IsRec
  <1>2. /\ s.trie = t /\ s.stateObjects = o /\ s.pending = p /\ s.dirty = d
        /\ s.entries = es /\ s.dirties = c /\ s.refund = r
    BY <1>1, FieldsOfRec
  <1>3. e \in Entry /\ e.kind = "refund" /\ e.prevRefund = r
    BY <1>1, <1>2 DEF Entry, Sound, RefundEntry
  <1> HIDE DEF e
  <1>4. c \in [Address -> Nat] /\ es \in Seq(Entry)
    BY <1>1 DEF Sound
  <1>5. CountDirties(e, c) = c /\ UndoDirties(e, c) = c
    <2>1. \A a \in Address : a \notin Dirtied(e) /\ c[a] \in Nat
      BY <1>3, <1>4 DEF Dirtied
    <2> QED BY <1>4, <2>1 DEF CountDirties, UndoDirties
  <1>6. PICK x : x = Append(es, e)
    OBVIOUS
  <1>7. /\ x \in Seq(Entry) /\ Len(x) = Len(es) + 1 /\ x # <<>>
        /\ x[Len(x)] = e /\ SubSeq(x, 1, Len(x) - 1) = es
    BY <1>3, <1>4, <1>6, AppendPrefix
  <1>8. u = Rec(t, o, p, d, x, c, v)
    <2>1. IsRec(s)
      BY <1>1, <1>2 DEF IsRec
    <2>2. Journal(s, e) = Rec(t, o, p, d, x, c, r)
      BY <1>2, <1>5, <1>6, <2>1, JournalRec
    <2>3. [Rec(t, o, p, d, x, c, r) EXCEPT !.refund = v] = Rec(t, o, p, d, x, c, v)
      BY DEF Rec
    <2> QED BY <2>2, <2>3 DEF ChargedTo, e
  <1>9. /\ u.trie = t /\ u.stateObjects = o /\ u.pending = p /\ u.dirty = d
        /\ u.entries = x /\ u.dirties = c /\ u.refund = v
    BY ONLY <1>8, FieldsOfRec
  <1>10. Sound(t, o, p, d, x, c, v)
    <2>1. Applies(e, o)
      BY <1>3 DEF Applies
    <2> QED BY <1>1, <1>7, <2>1 DEF Sound
  <1>11. Good(u)
    BY <1>8, <1>10, SoundGood
  <1>12. Pop(u) = s
    <2>1. Pop(u) = Rec(t, o, p, UndoDirty(e, d), es, UndoDirties(e, c), UndoRefund(e, v))
      BY <1>3, <1>7, <1>9, <1>11, PopGood
    <2>2. UndoDirty(e, d) = d /\ UndoRefund(e, v) = r
      BY <1>3 DEF UndoDirty, UndoRefund
    <2> QED BY <1>1, <1>5, <2>1, <2>2
  <1>13. View(u) = View(s)
    BY ONLY Good(s), <1>2, <1>9, <1>11, VisibleGood
  <1> QED BY <1>2, <1>7, <1>9, <1>11, <1>12, <1>13

LEMMA InvGood ==
  ASSUME NEW s, JournalInv(s)
  PROVE  /\ Good(s) /\ IsRec(s) /\ Len(s.entries) \in Nat
         /\ s.trie \in [Address -> Account]
         /\ s.stateObjects \in [Address -> Object \cup {Nil}]
         /\ s.dirties \in [Address -> Nat]
         /\ View(s) \in [Address -> Balance]
  BY GoodJournalled, VisibleGood DEF JournalInv

LEMMA WritesTrans ==
  ASSUME NEW s, NEW t, NEW u, NEW a \in Address, JournalInv(s), Writes(s, t, a), Writes(t, u, a)
  PROVE  Writes(s, u, a)
  <1>1. Keeps(s, t) /\ Keeps(t, u) /\ t.refund = s.refund /\ u.refund = t.refund
    BY DEF Writes
  <1>2. JournalInv(t) /\ JournalInv(u)
    BY <1>1 DEF Keeps
  <1>3. Keeps(s, u)
    BY <1>1, <1>2, InvGood, KeepsTrans
  <1>4. PICK v \in Balance : View(t) = [View(s) EXCEPT ![a] = v]
    BY DEF Writes
  <1>5. PICK w \in Balance : View(u) = [View(t) EXCEPT ![a] = w]
    BY DEF Writes
  <1>6. View(s) \in [Address -> Balance]
    BY InvGood
  <1>7. View(u) = [View(s) EXCEPT ![a] = w]
    BY <1>4, <1>5, <1>6
  <1> QED BY <1>1, <1>3, <1>7 DEF Writes

\* Nothing else is shown.
LEMMA WritesNothing ==
  ASSUME NEW s, NEW u, NEW a \in Address, JournalInv(s), Keeps(s, u),
         u.refund = s.refund, View(u) = View(s)
  PROVE  Writes(s, u, a)
  <1>1. View(s) \in [Address -> Balance]
    BY InvGood
  <1>2. PICK f : f = View(s)
    OBVIOUS
  <1>3. f[a] \in Balance /\ f = [f EXCEPT ![a] = f[a]]
    BY <1>1, <1>2
  <1> QED BY <1>2, <1>3 DEF Writes

LEMMA LoadWrites ==
  ASSUME NEW s, NEW a \in Address, JournalInv(s)
  PROVE  /\ Writes(s, Load(s, a), a)
         /\ Load(Load(s, a), a) = Load(s, a)
  <1>1. PICK t : t = Load(s, a)
    OBVIOUS
  <1>2. /\ View(t) = View(s) /\ t.refund = s.refund /\ t.trie = s.trie
        /\ t.stateObjects[a] = Nil => s.trie[a] = Nil
    BY <1>1, InvGood, LoadGood
  <1>3. Load(t, a) = t
    BY <1>2 DEF Load
  <1>4. Keeps(s, t)
    BY <1>1, LoadKeeps
  <1> QED BY <1>1, <1>2, <1>3, <1>4, WritesNothing

LEMMA PushWrites ==
  ASSUME NEW s, NEW a \in Address, JournalInv(s), NEW e, NEW ob,
         Matches(s, e, ob), e.addr = a
  PROVE  Writes(s, Pushed(s, e, ob), a)
  <1>1. PICK u : u = Pushed(s, e, ob)
    OBVIOUS
  <1>2. /\ Good(u) /\ Pop(u) = s /\ Len(u.entries) = Len(s.entries) + 1
        /\ u.refund = s.refund
        /\ View(u) = [View(s) EXCEPT ![a] = Shown(ob, s.trie[a])]
    BY <1>1, InvGood, PushObject
  <1>3. Keeps(s, u)
    BY <1>2, PushKeeps
  <1>4. Shown(ob, s.trie[a]) \in Balance
    <2>1. ob \in Object \cup {Nil}
      BY DEF Matches
    <2>2. s.trie[a] \in Account
      BY InvGood
    <2> QED BY <2>1, <2>2, ShownBalance
  <1> QED BY <1>1, <1>2, <1>3, <1>4 DEF Writes

LEMMA SetObject ==
  ASSUME NEW s, IsRec(s), NEW e, NEW ob
  PROVE  [Journal(s, e) EXCEPT !.stateObjects = [@ EXCEPT ![e.addr] = ob]] = Pushed(s, e, ob)
  <1>1. PICK t, o, p, d, x, y, r :
               /\ t = s.trie /\ o = s.stateObjects /\ p = s.pending /\ d = s.dirty
               /\ x = Append(s.entries, e) /\ y = CountDirties(e, s.dirties) /\ r = s.refund
    OBVIOUS
  <1>2. PICK j : j = Journal(s, e)
    OBVIOUS
  <1>3. j = Rec(t, o, p, d, x, y, r)
    BY <1>1, <1>2, JournalRec
  <1>4. j.stateObjects = o
    BY <1>3, FieldsOfRec
  <1>5. PICK q : q = [o EXCEPT ![e.addr] = ob]
    OBVIOUS
  <1>6. [j EXCEPT !.stateObjects = q] = Rec(t, q, p, d, x, y, r)
    BY <1>3 DEF Rec
  <1> QED BY <1>1, <1>2, <1>4, <1>5, <1>6 DEF Pushed

LEMMA ObjectFields ==
  ASSUME NEW ob \in Object
  PROVE  /\ ob = [balance |-> ob.balance, suicided |-> ob.suicided, deleted |-> ob.deleted]
         /\ ob.balance \in Balance /\ ob.suicided \in BOOLEAN /\ ob.deleted \in BOOLEAN
  BY DEF Object

LEMMA ObjectBalance ==
  ASSUME NEW ob \in Object, NEW v \in Balance, NEW x, x = [ob EXCEPT !.balance = v]
  PROVE  /\ x = [balance |-> v, suicided |-> ob.suicided, deleted |-> ob.deleted]
         /\ x \in Object
         /\ x.balance = v /\ x.suicided = ob.suicided /\ x.deleted = ob.deleted
  <1>1. x = [balance |-> v, suicided |-> ob.suicided, deleted |-> ob.deleted]
    BY DEF Object
  <1>2. x \in Object
    BY <1>1, ObjectFields DEF Object
  <1> QED BY ONLY <1>1, <1>2

LEMMA ObjectSuicided ==
  ASSUME NEW ob \in Object, NEW m \in BOOLEAN, NEW x, x = [ob EXCEPT !.suicided = m]
  PROVE  /\ x = [balance |-> ob.balance, suicided |-> m, deleted |-> ob.deleted]
         /\ x \in Object
         /\ x.balance = ob.balance /\ x.suicided = m /\ x.deleted = ob.deleted
  <1>1. x = [balance |-> ob.balance, suicided |-> m, deleted |-> ob.deleted]
    BY DEF Object
  <1>2. x \in Object
    BY <1>1, ObjectFields DEF Object
  <1> QED BY ONLY <1>1, <1>2

LEMMA NewObject ==
  ASSUME NEW b \in Balance
  PROVE  /\ newObject(b) \in Object /\ newObject(b) # Nil
         /\ newObject(b).balance = b
         /\ newObject(b).deleted = FALSE /\ newObject(b).suicided = FALSE
         /\ \A c \in Balance : [newObject(b) EXCEPT !.balance = c] = newObject(c)
  <1>1. PICK x : x = newObject(b)
    OBVIOUS
  <1>2. x = [balance |-> b, suicided |-> FALSE, deleted |-> FALSE]
    BY <1>1 DEF newObject
  <1>3. x.balance = b /\ x.deleted = FALSE /\ x.suicided = FALSE
    BY <1>2
  <1>4. x \in Object /\ x # Nil
    <2>1. x \in Object
      BY <1>2 DEF Object
    <2> QED BY <2>1, NilApart
  <1>5. ASSUME NEW c \in Balance
        PROVE  [x EXCEPT !.balance = c] = newObject(c)
    <2>1. [x EXCEPT !.balance = c] =
            [balance |-> c, suicided |-> x.suicided, deleted |-> x.deleted]
      BY <1>4, ObjectBalance
    <2> QED BY <1>3, <2>1 DEF newObject
  <1> QED BY <1>1, <1>3, <1>4, <1>5

LEMMA CreateWrites ==
  ASSUME NEW s, NEW a \in Address, JournalInv(s), Load(s, a) = s, ~IsLive(s, a)
  PROVE  /\ Writes(s, createObject(s, a), a)
         /\ IsLive(createObject(s, a), a)
  <1>1. PICK o, ob, nb : o = s.stateObjects /\ ob = o[a] /\ nb = newObject(0)
    OBVIOUS
  <1>2. /\ Good(s) /\ IsRec(s) /\ o \in [Address -> Object \cup {Nil}]
        /\ s.trie \in [Address -> Account]
    BY <1>1, InvGood
  <1>3. /\ nb \in Object /\ nb # Nil /\ nb.balance = 0
        /\ nb.deleted = FALSE /\ nb.suicided = FALSE
    BY <1>1, BalanceZero, NewObject
  <1>4. PICK e : e = IF ob = Nil THEN [kind |-> "create", addr |-> a]
                     ELSE [kind |-> "reset", addr |-> a, prevObject |-> ob]
    OBVIOUS
  <1>5. e.addr = a
    BY <1>4
  <1>6. createObject(s, a) = [Journal(s, e) EXCEPT !.stateObjects = [@ EXCEPT ![e.addr] = nb]]
    BY <1>1, <1>4, <1>5 DEF createObject
  <1>7. createObject(s, a) = Pushed(s, e, nb)
    BY <1>2, <1>6, SetObject
  <1>8. Matches(s, e, nb)
    <2>1. CASE ob = Nil
      <3>1. e = [kind |-> "create", addr |-> a]
        BY <1>4, <2>1
      <3>2. e \in Entry /\ e.kind = "create"
        BY <3>1 DEF Entry
      <3> QED BY <1>1, <1>3, <1>5, <2>1, <3>2 DEF Matches, UndoneObject
    <2>2. CASE ob # Nil
      <3>1. e = [kind |-> "reset", addr |-> a, prevObject |-> ob]
        BY <1>4, <2>2
      <3>2. ob \in Object
        BY <1>1, <1>2, <2>2
      <3>3. e \in Entry /\ e.kind = "reset" /\ e.prevObject = ob
        BY <3>1, <3>2 DEF Entry
      <3>4. ob.deleted
        BY <1>1, <2>2 DEF IsLive
      <3>5. (s.dirties[a] = 0 /\ a \notin s.pending) => Disk(s.trie[a]) = 0
        <4>1. (s.dirties[a] = 0 /\ a \notin s.pending) => Held(ob) = Disk(s.trie[a])
          BY <1>1, <1>2, <2>2, GoodSound DEF Sound
        <4>2. Held(ob) = 0
          BY <3>4 DEF Held
        <4> QED BY <4>1, <4>2
      <3>6. Held(nb) = 0
        BY <1>3 DEF Held
      <3> QED BY <1>1, <1>3, <1>5, <3>3, <3>5, <3>6 DEF Matches, UndoneObject
    <2> QED BY <2>1, <2>2
  <1>9. Writes(s, createObject(s, a), a)
    BY <1>5, <1>7, <1>8, PushWrites
  <1>10. createObject(s, a).stateObjects = [o EXCEPT ![a] = nb]
    BY <1>1, <1>5, <1>7, FieldsOfRec DEF Pushed
  <1>11. createObject(s, a).stateObjects[a] = nb
    BY <1>2, <1>10
  <1> QED BY <1>3, <1>9, <1>11 DEF IsLive

LEMMA GetOrNewWrites ==
  ASSUME NEW s, NEW a \in Address, JournalInv(s)
  PROVE  /\ Writes(s, GetOrNewstateObject(s, a), a)
         /\ IsLive(GetOrNewstateObject(s, a), a)
  <1>1. PICK t : t = Load(s, a)
    OBVIOUS
  <1>2. Writes(s, t, a) /\ Load(t, a) = t
    BY <1>1, LoadWrites
  <1>3. JournalInv(t)
    BY <1>2 DEF Writes, Keeps
  <1>4. GetOrNewstateObject(s, a) = IF IsLive(t, a) THEN t ELSE createObject(t, a)
    BY <1>1 DEF GetOrNewstateObject
  <1>5. CASE IsLive(t, a)
    BY <1>2, <1>4, <1>5
  <1>6. CASE ~IsLive(t, a)
    BY <1>2, <1>3, <1>4, <1>6, CreateWrites, WritesTrans
  <1> QED BY <1>5, <1>6

\* An object that the caller may change.
LEMMA LiveObject ==
  ASSUME NEW s, NEW a \in Address, JournalInv(s), IsLive(s, a), NEW ob, ob = s.stateObjects[a]
  PROVE  /\ ob \in Object /\ ob # Nil /\ ob.deleted = FALSE
         /\ ob.suicided \in BOOLEAN /\ ob.balance \in Balance
  <1>1. ob \in Object /\ ob # Nil /\ ~ob.deleted
    BY InvGood DEF IsLive
  <1> QED BY <1>1 DEF Object

LEMMA SetBalanceWrites ==
  ASSUME NEW s, NEW a \in Address, JournalInv(s), IsLive(s, a), NEW v \in Balance
  PROVE  Writes(s, SetObjectBalance(s, a, v), a)
  <1>1. PICK ob : ob = s.stateObjects[a]
    OBVIOUS
  <1>2. /\ ob \in Object /\ ob # Nil /\ ob.deleted = FALSE /\ ob.balance \in Balance
    BY <1>1, LiveObject
  <1>3. PICK nb : nb = [ob EXCEPT !.balance = v]
    OBVIOUS
  <1>4. nb \in Object /\ [nb EXCEPT !.balance = ob.balance] = ob
    <2>1. nb = [balance |-> v, suicided |-> ob.suicided, deleted |-> ob.deleted]
          /\ nb \in Object /\ nb.suicided = ob.suicided /\ nb.deleted = ob.deleted
      BY ONLY <1>2, <1>3, v \in Balance, ObjectBalance
    <2>2. [nb EXCEPT !.balance = ob.balance] =
            [balance |-> ob.balance, suicided |-> ob.suicided, deleted |-> ob.deleted]
      BY ONLY <1>2, <2>1, ObjectBalance
    <2> QED BY ONLY <1>2, <2>1, <2>2, ObjectFields
  <1>5. PICK e : e = [kind |-> "balance", addr |-> a, prevBalance |-> ob.balance]
    OBVIOUS
  <1>6. e \in Entry /\ e.kind = "balance" /\ e.addr = a /\ e.prevBalance = ob.balance
    BY <1>2, <1>5 DEF Entry
  <1>7. UndoneObject(e, nb) = ob
    BY <1>4, <1>6 DEF UndoneObject
  <1>8. Matches(s, e, nb)
    BY <1>1, <1>4, <1>6, <1>7 DEF Matches
  <1>9. SetObjectBalance(s, a, v) = Pushed(s, e, nb)
    <2>1. PICK j : j = Journal(s, e)
      OBVIOUS
    <2>2. j.stateObjects = s.stateObjects
      BY <2>1, InvGood, JournalRec, FieldsOfRec
    <2>3. SetObjectBalance(s, a, v) = [j EXCEPT !.stateObjects[a].balance = v]
      BY <1>1, <1>5, <2>1 DEF SetObjectBalance
    <2>4. [j EXCEPT !.stateObjects[a].balance = v]
            = [j EXCEPT !.stateObjects = [@ EXCEPT ![a] = nb]]
      BY <1>1, <1>3, <2>2
    <2> QED BY <1>6, <2>1, <2>3, <2>4, InvGood, SetObject
  <1> QED BY <1>6, <1>8, <1>9, PushWrites

LEMMA TouchWrites ==
  ASSUME NEW s, NEW a \in Address, JournalInv(s), IsLive(s, a)
  PROVE  Writes(s, touch(s, a), a)
  <1>1. PICK ob, e : /\ ob = s.stateObjects[a]
                     /\ e = [kind |-> "touch", addr |-> a]
    OBVIOUS
  <1>2. ob \in Object
    BY <1>1, LiveObject
  <1>3. e \in Entry /\ e.kind = "touch" /\ e.addr = a
    BY <1>1 DEF Entry
  <1>4. \A t : t.stateObjects = s.stateObjects => Matches(t, e, ob)
    BY <1>1, <1>2, <1>3 DEF Matches, UndoneObject
  <1>5. PICK t, o, p, d, x, c, y, r :
               /\ t = s.trie /\ o = s.stateObjects /\ p = s.pending /\ d = s.dirty
               /\ x = Append(s.entries, e) /\ c = s.dirties /\ y = CountDirties(e, c)
               /\ r = s.refund
    OBVIOUS
  <1>6. PICK j : j = Journal(s, e)
    OBVIOUS
  <1>7. j = Rec(t, o, p, d, x, y, r)
    BY <1>5, <1>6, InvGood, JournalRec
  <1>8. o \in [Address -> Object \cup {Nil}] /\ c \in [Address -> Nat]
    BY <1>5, InvGood
  <1>9. [o EXCEPT ![a] = ob] = o
    BY <1>1, <1>5, <1>8
  <1>10. CASE a # Ripemd
    <2>1. touch(s, a) = j
      BY <1>1, <1>6, <1>10 DEF touch
    <2>2. Pushed(s, e, ob) = Rec(t, o, p, d, x, y, r)
      BY <1>3, <1>5, <1>9 DEF Pushed
    <2> QED BY <1>3, <1>4, <1>7, <2>1, <2>2, PushWrites
  <1>11. CASE a = Ripemd
    <2>1. PICK u, b : u = Bump(s, a) /\ b = [c EXCEPT ![a] = @ + 1]
      OBVIOUS
    <2>2. Keeps(s, u) /\ View(u) = View(s) /\ u.refund = s.refund
      BY <2>1, InvGood, BumpGood, BumpKeeps
    <2>3. Writes(s, u, a) /\ JournalInv(u)
      BY <2>2, WritesNothing DEF Keeps
    <2>4. u = Rec(t, o, p, d, s.entries, b, r)
      BY <1>5, <2>1 DEF Bump
    <2>5. /\ u.trie = t /\ u.stateObjects = o /\ u.pending = p /\ u.dirty = d
          /\ u.entries = s.entries /\ u.dirties = b /\ u.refund = r
      BY <2>4, FieldsOfRec
    <2>6. Pushed(u, e, ob) = Rec(t, o, p, d, x, CountDirties(e, b), r)
      BY <1>3, <1>5, <1>9, <2>5 DEF Pushed
    <2>7. Writes(u, Pushed(u, e, ob), a)
      BY <1>3, <1>4, <1>5, <2>3, <2>5, PushWrites
    <2>8. PICK w : w = [y EXCEPT ![a] = @ + 1]
      OBVIOUS
    <2>9. CountDirties(e, b) = w
      <3>1. PICK f : f = [z \in Address |-> IF z \in Dirtied(e) THEN 1 ELSE 0]
        OBVIOUS
      <3>2. \A z \in Address : f[z] \in Nat /\ c[z] \in Nat
        BY <1>8, <3>1
      <3>3. y = [z \in Address |-> c[z] + f[z]] /\ CountDirties(e, b) = [z \in Address |-> b[z] + f[z]]
        BY <1>5, <3>1 DEF CountDirties
      <3>4. b = [z \in Address |-> IF z = a THEN c[z] + 1 ELSE c[z]]
        BY <1>8, <2>1
      <3>5. w = [z \in Address |-> IF z = a THEN y[z] + 1 ELSE y[z]]
        BY <2>8, <3>3
      <3>6. \A z \in Address : b[z] + f[z] = IF z = a THEN y[z] + 1 ELSE y[z]
        BY <3>2, <3>3, <3>4
      <3> QED BY <3>3, <3>5, <3>6
    <2>10. touch(s, a) = Rec(t, o, p, d, x, w, r)
      <3>1. touch(s, a) = [j EXCEPT !.dirties[a] = @ + 1]
        BY <1>1, <1>6, <1>11 DEF touch
      <3>2. j.dirties = y
        BY <1>7, FieldsOfRec
      <3>3. touch(s, a) = [j EXCEPT !.dirties = w]
        BY <2>8, <3>1, <3>2
      <3>4. [j EXCEPT !.dirties = w] = Rec(t, o, p, d, x, w, r)
        BY <1>7 DEF Rec
      <3> QED BY <3>3, <3>4
    <2> QED BY <2>3, <2>6, <2>7, <2>9, <2>10, WritesTrans
  <1> QED BY <1>10, <1>11

LEMMA Wrapped ==
  ASSUME NEW i \in Int
  PROVE  i % Width \in Balance
  BY BalanceZero DEF Balance

LEMMA AddWrites ==
  ASSUME NEW s, NEW a \in Address, JournalInv(s), NEW v \in Amounts
  PROVE  Writes(s, Add(s, a, v), a)
  <1>1. PICK t, b : t = GetOrNewstateObject(s, a) /\ b = t.stateObjects[a].balance
    OBVIOUS
  <1>2. Writes(s, t, a) /\ IsLive(t, a)
    BY <1>1, GetOrNewWrites
  <1>3. JournalInv(t)
    BY <1>2 DEF Writes, Keeps
  <1>4. b \in Balance
    BY <1>1, <1>2, <1>3, LiveObject
  <1>5. v \in Nat /\ b \in Nat
    BY <1>4, BoundsAssumption DEF Balance
  <1>6. (b + v) % Width \in Balance
    BY <1>5, Wrapped
  <1>7. CASE v > 0
    <2>1. Add(s, a, v) = SetObjectBalance(t, a, (b + v) % Width)
      BY <1>1, <1>5, <1>7 DEF Add
    <2> QED BY <1>2, <1>3, <1>6, <2>1, SetBalanceWrites, WritesTrans
  <1>8. CASE v = 0 /\ empty(t.stateObjects[a])
    <2>1. Add(s, a, v) = touch(t, a)
      BY <1>1, <1>8 DEF Add
    <2> QED BY <1>2, <1>3, <2>1, TouchWrites, WritesTrans
  <1>9. CASE v = 0 /\ ~empty(t.stateObjects[a])
    <2>1. Add(s, a, v) = t
      BY <1>1, <1>9 DEF Add
    <2> QED BY <1>2, <2>1
  <1> QED BY <1>5, <1>7, <1>8, <1>9

LEMMA SubWrites ==
  ASSUME NEW s, NEW a \in Address, JournalInv(s), NEW v \in Amounts
  PROVE  Writes(s, Sub(s, a, v), a)
  <1>1. PICK t, b : t = GetOrNewstateObject(s, a) /\ b = t.stateObjects[a].balance
    OBVIOUS
  <1>2. Writes(s, t, a) /\ IsLive(t, a)
    BY <1>1, GetOrNewWrites
  <1>3. JournalInv(t)
    BY <1>2 DEF Writes, Keeps
  <1>4. b \in Balance
    BY <1>1, <1>2, <1>3, LiveObject
  <1>5. v \in Nat /\ b \in Nat
    BY <1>4, BoundsAssumption DEF Balance
  <1>6. (b - v) % Width \in Balance
    BY <1>5, Wrapped
  <1>7. CASE v = 0
    <2>1. Sub(s, a, v) = t
      BY <1>1, <1>7 DEF Sub
    <2> QED BY <1>2, <2>1
  <1>8. CASE v # 0
    <2>1. Sub(s, a, v) = SetObjectBalance(t, a, (b - v) % Width)
      BY <1>1, <1>8 DEF Sub
    <2> QED BY <1>2, <1>3, <1>6, <2>1, SetBalanceWrites, WritesTrans
  <1> QED BY <1>7, <1>8

LEMMA SetWrites ==
  ASSUME NEW s, NEW a \in Address, JournalInv(s), NEW v \in Amounts
  PROVE  Writes(s, SetObjectBalance(GetOrNewstateObject(s, a), a, v), a)
  <1>1. PICK t : t = GetOrNewstateObject(s, a)
    OBVIOUS
  <1>2. Writes(s, t, a) /\ IsLive(t, a)
    BY <1>1, GetOrNewWrites
  <1>3. JournalInv(t)
    BY <1>2 DEF Writes, Keeps
  <1>4. v \in Balance
    BY BoundsAssumption DEF Balance
  <1> QED BY <1>1, <1>2, <1>3, <1>4, SetBalanceWrites, WritesTrans

LEMMA SuicideWrites ==
  ASSUME NEW s, NEW a \in Address, JournalInv(s), IsLive(s, a),
         NEW ob, ob = s.stateObjects[a],
         NEW e, e = [kind |-> "suicide", addr |-> a,
                     prev |-> ob.suicided, prevBalance |-> ob.balance]
  PROVE  Writes(s, [Journal(s, e) EXCEPT !.stateObjects[a].suicided = TRUE,
                                         !.stateObjects[a].balance = 0], a)
  <1>1. /\ ob \in Object /\ ob # Nil /\ ob.deleted = FALSE
        /\ ob.suicided \in BOOLEAN /\ ob.balance \in Balance
    BY LiveObject
  <1>2. /\ e \in Entry /\ e.kind = "suicide" /\ e.addr = a
        /\ e.prev = ob.suicided /\ e.prevBalance = ob.balance
    BY <1>1 DEF Entry
  <1>3. PICK mb : mb = [ob EXCEPT !.suicided = TRUE]
    OBVIOUS
  <1>4. PICK nb : nb = [mb EXCEPT !.balance = 0]
    OBVIOUS
  <1>5. /\ mb \in Object /\ mb.balance = ob.balance /\ mb.deleted = FALSE
    BY ONLY <1>1, <1>3, ObjectSuicided
  <1>6. /\ nb \in Object /\ nb.suicided = mb.suicided /\ nb.deleted = FALSE
    BY ONLY <1>4, <1>5, BalanceZero, ObjectBalance
  <1>7. UndoneObject(e, nb) = ob
    <2>1. PICK x : x = [nb EXCEPT !.suicided = ob.suicided]
      OBVIOUS
    <2>2. /\ x \in Object /\ x.suicided = ob.suicided /\ x.deleted = FALSE
      BY ONLY <1>1, <1>6, <2>1, ObjectSuicided
    <2>3. [x EXCEPT !.balance = ob.balance] =
            [balance |-> ob.balance, suicided |-> ob.suicided, deleted |-> FALSE]
      <3>1. PICK y : y = [x EXCEPT !.balance = ob.balance]
        OBVIOUS
      <3>2. y = [balance |-> ob.balance, suicided |-> x.suicided, deleted |-> x.deleted]
        BY ONLY <1>1, <2>2, <3>1, ObjectBalance
      <3> QED BY ONLY <2>2, <3>1, <3>2
    <2>4. ob = [balance |-> ob.balance, suicided |-> ob.suicided, deleted |-> FALSE]
      BY ONLY <1>1, ObjectFields
    <2>5. UndoneObject(e, nb) = [[nb EXCEPT !.suicided = ob.suicided] EXCEPT !.balance = ob.balance]
      BY <1>2 DEF UndoneObject
    <2> QED BY <2>1, <2>3, <2>4, <2>5
  <1>8. Matches(s, e, nb)
    BY <1>2, <1>6, <1>7 DEF Matches
  <1>9. [Journal(s, e) EXCEPT !.stateObjects[a].suicided = TRUE,
                              !.stateObjects[a].balance = 0] = Pushed(s, e, nb)
    <2>1. PICK j, o : j = Journal(s, e) /\ o = s.stateObjects
      OBVIOUS
    <2>2. IsRec(s) /\ o \in [Address -> Object \cup {Nil}]
      BY <2>1, InvGood
    <2>3. PICK t, p, d, x, y, r : j = Rec(t, o, p, d, x, y, r)
      BY <2>1, <2>2, JournalRec
    <2>4. j.stateObjects = o
      BY <2>3, FieldsOfRec
    <2>5. PICK m : m = [o EXCEPT ![a].suicided = TRUE]
      OBVIOUS
    <2>6. m = [o EXCEPT ![a] = mb] /\ m[a] = mb
      BY <1>3, <2>1, <2>2, <2>5
    <2>7. PICK k : k = [j EXCEPT !.stateObjects = m]
      OBVIOUS
    <2>8. k = Rec(t, m, p, d, x, y, r)
      BY <2>3, <2>7 DEF Rec
    <2>9. k.stateObjects = m
      BY <2>8, FieldsOfRec
    <2>10. [j EXCEPT !.stateObjects[a].suicided = TRUE] = k
      BY <2>4, <2>5, <2>7
    <2>11. [j EXCEPT !.stateObjects[a].suicided = TRUE, !.stateObjects[a].balance = 0]
             = [k EXCEPT !.stateObjects[a].balance = 0]
      BY <2>10
    <2>12. PICK q : q = [m EXCEPT ![a] = nb]
      OBVIOUS
    <2>13. [k EXCEPT !.stateObjects[a].balance = 0] = [k EXCEPT !.stateObjects = q]
      BY <1>4, <2>6, <2>9, <2>12
    <2>14. [k EXCEPT !.stateObjects = q] = Rec(t, q, p, d, x, y, r)
      BY <2>8 DEF Rec
    <2>15. q = [o EXCEPT ![a] = nb]
      BY <2>2, <2>6, <2>12
    <2>16. [j EXCEPT !.stateObjects = q] = Rec(t, q, p, d, x, y, r)
      BY <2>3 DEF Rec
    <2>17. [j EXCEPT !.stateObjects = q] = Pushed(s, e, nb)
      BY <1>2, <2>1, <2>2, <2>4, <2>15, SetObject
    <2> QED BY <2>1, <2>11, <2>13, <2>14, <2>16, <2>17
  <1> QED BY <1>2, <1>8, <1>9, PushWrites

LEMMA CreateAccountWrites ==
  ASSUME NEW s, NEW a \in Address, JournalInv(s), Load(s, a) = s, IsLive(s, a)
  PROVE  Writes(s, [createObject(s, a) EXCEPT
                      !.stateObjects[a].balance = s.stateObjects[a].balance], a)
  <1>1. PICK o, ob, e, nb, u :
               /\ o = s.stateObjects /\ ob = o[a]
               /\ e = [kind |-> "reset", addr |-> a, prevObject |-> ob]
               /\ nb = newObject(ob.balance) /\ u = createObject(s, a)
    OBVIOUS
  <1>2. /\ Good(s) /\ IsRec(s) /\ o \in [Address -> Object \cup {Nil}]
    BY <1>1, InvGood
  <1>3. /\ ob \in Object /\ ob # Nil /\ ob.deleted = FALSE /\ ob.balance \in Balance
    BY <1>1, LiveObject
  <1>4. /\ nb \in Object /\ nb # Nil /\ nb.balance = ob.balance
        /\ nb.deleted = FALSE /\ nb.suicided = FALSE
    BY <1>1, <1>3, NewObject
  <1>5. e \in Entry /\ e.kind = "reset" /\ e.addr = a /\ e.prevObject = ob
    BY <1>1, <1>3 DEF Entry
  <1>6. Matches(s, e, nb)
    <2>1. (s.dirties[a] = 0 /\ a \notin s.pending) => Held(nb) = Disk(s.trie[a])
      <3>1. (s.dirties[a] = 0 /\ a \notin s.pending) => Held(ob) = Disk(s.trie[a])
        BY <1>1, <1>2, <1>3, GoodSound DEF Sound
      <3>2. Held(nb) = Held(ob)
        BY <1>3, <1>4 DEF Held
      <3> QED BY <3>1, <3>2
    <2> QED BY <1>1, <1>4, <1>5, <2>1 DEF Matches, UndoneObject
  <1>7. [u EXCEPT !.stateObjects[a].balance = ob.balance] = Pushed(s, e, nb)
    <2>1. PICK z : z = newObject(0)
      OBVIOUS
    <2>2. [z EXCEPT !.balance = ob.balance] = nb
      BY <1>1, <1>3, <2>1, BalanceZero, NewObject
    <2>3. u = [Journal(s, e) EXCEPT !.stateObjects = [@ EXCEPT ![e.addr] = z]]
      BY <1>1, <1>3, <1>5, <2>1 DEF createObject
    <2>4. u = Pushed(s, e, z)
      BY <1>2, <2>3, SetObject
    <2>5. PICK t, p, d, x, y, r :
                 /\ t = s.trie /\ p = s.pending /\ d = s.dirty
                 /\ x = Append(s.entries, e) /\ y = CountDirties(e, s.dirties)
                 /\ r = s.refund
      OBVIOUS
    <2>6. PICK q : q = [o EXCEPT ![a] = z]
      OBVIOUS
    <2>7. u = Rec(t, q, p, d, x, y, r)
      BY <1>1, <1>5, <2>4, <2>5, <2>6 DEF Pushed
    <2>8. u.stateObjects = q /\ q[a] = z
      BY <1>2, <2>6, <2>7, FieldsOfRec
    <2>9. PICK w : w = [o EXCEPT ![a] = nb]
      OBVIOUS
    <2>10. [q EXCEPT ![a].balance = ob.balance] = w
      BY <1>2, <2>2, <2>6, <2>8, <2>9
    <2>11. [u EXCEPT !.stateObjects[a].balance = ob.balance] = [u EXCEPT !.stateObjects = w]
      BY <2>8, <2>10
    <2>12. [u EXCEPT !.stateObjects = w] = Rec(t, w, p, d, x, y, r)
      BY <2>7 DEF Rec
    <2>13. Pushed(s, e, nb) = Rec(t, w, p, d, x, y, r)
      BY <1>1, <1>5, <2>5, <2>9 DEF Pushed
    <2> QED BY <2>11, <2>12, <2>13
  <1> QED BY <1>1, <1>5, <1>6, <1>7, PushWrites

-----------------------------------------------------------------------------
(* From the journal to the trie.                                           *)

FinalObjects(s, dl) ==
  [a \in Address |->
     IF a \in Touched(s) /\ (s.stateObjects[a].suicided \/ (dl /\ empty(s.stateObjects[a])))
     THEN [s.stateObjects[a] EXCEPT !.deleted = TRUE] ELSE s.stateObjects[a]]

FinalDirties(s) == IF s.entries = <<>> THEN s.dirties ELSE Clean

LEMMA ClearRec ==
  ASSUME NEW t, NEW q, NEW p, NEW d, NEW es, NEW c, NEW r, es = <<>> => r = 0
  PROVE  clearJournalAndRefund(Rec(t, q, p, d, es, c, r)) =
           Rec(t, q, p, d, <<>>, IF es = <<>> THEN c ELSE Clean, 0)
  <1>1. PICK x : x = Rec(t, q, p, d, es, c, r)
    OBVIOUS
  <1>2. x.entries = es
    BY <1>1, FieldsOfRec
  <1>3. CASE es = <<>>
    BY <1>1, <1>2, <1>3 DEF clearJournalAndRefund
  <1>4. CASE es # <<>>
    <2>1. PICK y : y = Rec(t, q, p, d, <<>>, c, r)
      OBVIOUS
    <2>2. [x EXCEPT !.entries = <<>>] = y
      BY <1>1, <2>1 DEF Rec
    <2>3. PICK z : z = Rec(t, q, p, d, <<>>, Clean, r)
      OBVIOUS
    <2>4. [y EXCEPT !.dirties = Clean] = z
      BY <2>1, <2>3 DEF Rec
    <2>5. [z EXCEPT !.refund = 0] = Rec(t, q, p, d, <<>>, Clean, 0)
      BY <2>3 DEF Rec
    <2>6. clearJournalAndRefund(x) = [x EXCEPT !.entries = <<>>, !.dirties = Clean, !.refund = 0]
      BY <1>2, <1>4 DEF clearJournalAndRefund
    <2>7. [x EXCEPT !.entries = <<>>, !.dirties = Clean, !.refund = 0]
            = [[[x EXCEPT !.entries = <<>>] EXCEPT !.dirties = Clean] EXCEPT !.refund = 0]
      OBVIOUS
    <2>8. clearJournalAndRefund(x) = Rec(t, q, p, d, <<>>, Clean, 0)
      BY <2>2, <2>4, <2>5, <2>6, <2>7
    <2> QED BY <1>1, <1>4, <2>8
  <1> QED BY <1>3, <1>4

LEMMA FinalisedRec ==
  ASSUME NEW s, Good(s), NEW dl \in BOOLEAN
  PROVE  Finalised(s, dl) = Rec(s.trie, FinalObjects(s, dl), s.pending \cup Touched(s),
                                s.dirty \cup Touched(s), <<>>, FinalDirties(s), 0)
  <1>1. PICK t, o, p, d, es, c, r : s = Rec(t, o, p, d, es, c, r) /\ Sound(t, o, p, d, es, c, r)
    BY GoodSound DEF IsRec
  <1>2. /\ s.trie = t /\ s.stateObjects = o /\ s.pending = p /\ s.dirty = d
        /\ s.entries = es /\ s.dirties = c /\ s.refund = r
    BY <1>1, FieldsOfRec
  <1>3. PICK q, p2, d2 : /\ q = FinalObjects(s, dl)
                         /\ p2 = s.pending \cup Touched(s) /\ d2 = s.dirty \cup Touched(s)
    OBVIOUS
  <1>4. PICK x, y, z : /\ x = Rec(t, q, p, d, es, c, r)
                       /\ y = Rec(t, q, p2, d, es, c, r)
                       /\ z = Rec(t, q, p2, d2, es, c, r)
    OBVIOUS
  <1>5. /\ [s EXCEPT !.stateObjects = q] = x
        /\ [x EXCEPT !.pending = p2] = y
        /\ [y EXCEPT !.dirty = d2] = z
    BY <1>1, <1>4 DEF Rec
  <1>6. Finalised(s, dl) =
          clearJournalAndRefund([s EXCEPT !.stateObjects = q, !.pending = p2, !.dirty = d2])
    BY <1>2, <1>3 DEF Finalised, FinalObjects
  <1>7. [s EXCEPT !.stateObjects = q, !.pending = p2, !.dirty = d2]
          = [[[s EXCEPT !.stateObjects = q] EXCEPT !.pending = p2] EXCEPT !.dirty = d2]
    OBVIOUS
  <1>8. es = <<>> => r = 0
    BY <1>1 DEF Sound
  <1>9. clearJournalAndRefund(z) = Rec(t, q, p2, d2, <<>>, IF es = <<>> THEN c ELSE Clean, 0)
    BY <1>4, <1>8, ClearRec
  <1> QED BY <1>2, <1>3, <1>5, <1>6, <1>7, <1>9 DEF FinalDirties

LEMMA CleanType == Clean \in [Address -> Nat] /\ \A a \in Address : Clean[a] = 0
  BY DEF Clean

LEMMA EmptyEntries == <<>> \in Seq(Entry) /\ Len(<<>>) = 0
  BY EmptySeq

LEMMA ObjectDeleted ==
  ASSUME NEW ob \in Object, NEW x, x = [ob EXCEPT !.deleted = TRUE]
  PROVE  /\ x \in Object
         /\ x.balance = ob.balance /\ x.suicided = ob.suicided /\ x.deleted = TRUE
  <1>1. x = [balance |-> ob.balance, suicided |-> ob.suicided, deleted |-> TRUE]
    BY DEF Object
  <1>2. x \in Object
    BY <1>1, ObjectFields DEF Object
  <1> QED BY ONLY <1>1, <1>2

LEMMA FinalObject ==
  ASSUME NEW s, Good(s), NEW dl \in BOOLEAN, NEW a \in Address, NEW ob, NEW x,
         ob = s.stateObjects[a], x = FinalObjects(s, dl)[a]
  PROVE  /\ x \in Object \cup {Nil} /\ (x = Nil <=> ob = Nil)
         /\ a \notin Touched(s) => x = ob
         /\ (x # Nil /\ x.suicided) => x.deleted
         /\ Shown(x, s.trie[a]) = Shown(ob, s.trie[a])
  <1>1. Sound(s.trie, s.stateObjects, s.pending, s.dirty, s.entries, s.dirties, s.refund)
    BY GoodSound
  <1>2. ob \in Object \cup {Nil} /\ s.dirties[a] \in Nat
    BY <1>1 DEF Sound
  <1>3. a \in Touched(s) <=> (s.dirties[a] > 0 /\ ob # Nil)
    BY DEF Touched
  <1>4. CASE a \in Touched(s) /\ (ob.suicided \/ (dl /\ empty(ob)))
    <2>1. x = [ob EXCEPT !.deleted = TRUE]
      BY <1>4 DEF FinalObjects
    <2>2. ob \in Object /\ ob # Nil /\ ob.suicided \in BOOLEAN /\ ob.deleted \in BOOLEAN
      BY <1>2, <1>3, <1>4, ObjectFields
    <2>3. x \in Object /\ x.balance = ob.balance /\ x.suicided = ob.suicided /\ x.deleted = TRUE
      BY ONLY <2>1, <2>2, ObjectDeleted
    <2>4. x # Nil
      BY <2>3, NilApart
    <2>5. Shown(x, s.trie[a]) = 0
      BY <2>3, <2>4 DEF Shown
    <2>6. Shown(ob, s.trie[a]) = 0
      BY <1>4, <2>2 DEF Shown, empty
    <2> QED BY <1>4, <2>2, <2>3, <2>4, <2>5, <2>6
  <1>5. CASE ~(a \in Touched(s) /\ (ob.suicided \/ (dl /\ empty(ob))))
    <2>1. x = ob
      BY <1>5 DEF FinalObjects
    <2>2. ASSUME ob # Nil, ob.suicided, ~ob.deleted PROVE FALSE
      <3>1. s.dirties[a] > 0
        BY <1>1, <2>2 DEF Sound
      <3> QED BY <1>3, <1>5, <2>2, <3>1
    <2>3. ob # Nil => ob.deleted \in BOOLEAN
      BY <1>2, ObjectFields
    <2> QED BY <1>2, <2>1, <2>2, <2>3
  <1> QED BY <1>4, <1>5

LEMMA FinalObjectKept ==
  ASSUME NEW s, Good(s), NEW a \in Address, NEW ob, ob = s.stateObjects[a],
         ob # Nil, ob.suicided => ob.deleted, NEW x, x = FinalObjects(s, FALSE)[a]
  PROVE  x = ob \/ (ob.deleted /\ x.deleted)
  <1>1. CASE a \in Touched(s) /\ ob.suicided
    <2>1. x = [ob EXCEPT !.deleted = TRUE]
      BY <1>1 DEF FinalObjects
    <2>2. ob \in Object
      BY GoodJournalled
    <2>3. x.deleted = TRUE
      BY ONLY <2>1, <2>2, ObjectDeleted
    <2> QED BY <1>1, <2>3
  <1>2. CASE ~(a \in Touched(s) /\ ob.suicided)
    BY <1>2 DEF FinalObjects
  <1> QED BY <1>1, <1>2

\* After Finalise every object that counts for the journal is pending.
LEMMA FinalDirty ==
  ASSUME NEW s, Good(s), NEW a \in Address, a \notin Touched(s), s.stateObjects[a] # Nil
  PROVE  s.dirties[a] = 0
  <1>1. s.dirties[a] \in Nat
    BY GoodJournalled
  <1> QED BY <1>1 DEF Touched

LEMMA FinalDirtiesType ==
  ASSUME NEW s, Good(s)
  PROVE  FinalDirties(s) \in [Address -> Nat]
  <1>1. s.dirties \in [Address -> Nat] /\ Clean \in [Address -> Nat]
    <2>1. s.dirties \in [Address -> Nat]
      BY GoodJournalled
    <2> QED BY ONLY <2>1, CleanType
  <1> QED BY <1>1 DEF FinalDirties

\* What Finalise, IntermediateRoot, Commit and Copy leave: no journal, and the
\* same balances.
Sealed(s, u) ==
  /\ Good(u)
  /\ u.entries = <<>> /\ u.refund = 0
  /\ View(u) = View(s)

LEMMA FinalisedSealed ==
  ASSUME NEW s, Good(s), NEW dl \in BOOLEAN
  PROVE  Sealed(s, Finalised(s, dl))
  <1>1. PICK t, o, p, d, c, T :
               /\ t = s.trie /\ o = s.stateObjects /\ p = s.pending /\ d = s.dirty
               /\ c = s.dirties /\ T = Touched(s)
    OBVIOUS
  <1>2. Sound(t, o, p, d, s.entries, c, s.refund)
    BY <1>1, GoodSound
  <1>3. PICK q, c2, u : /\ q = FinalObjects(s, dl) /\ c2 = FinalDirties(s)
                        /\ u = Finalised(s, dl)
    OBVIOUS
  <1>4. u = Rec(t, q, p \cup T, d \cup T, <<>>, c2, 0)
    BY <1>1, <1>3, FinalisedRec
  <1>5. /\ u.trie = t /\ u.stateObjects = q /\ u.entries = <<>> /\ u.refund = 0
    BY <1>4, FieldsOfRec
  <1>6. T \in SUBSET Address /\ \A a \in T : o[a] # Nil
    BY <1>1 DEF Touched
  <1>7. \A a \in Address : /\ q[a] \in Object \cup {Nil} /\ (q[a] = Nil <=> o[a] = Nil)
                           /\ a \notin T => q[a] = o[a]
                           /\ (q[a] # Nil /\ q[a].suicided) => q[a].deleted
                           /\ Shown(q[a], t[a]) = Shown(o[a], t[a])
    <2> SUFFICES ASSUME NEW a \in Address
                 PROVE  /\ q[a] \in Object \cup {Nil} /\ (q[a] = Nil <=> o[a] = Nil)
                        /\ a \notin T => q[a] = o[a]
                        /\ (q[a] # Nil /\ q[a].suicided) => q[a].deleted
                        /\ Shown(q[a], t[a]) = Shown(o[a], t[a])
      OBVIOUS
    <2>1. PICK ob, x : ob = o[a] /\ x = q[a]
      OBVIOUS
    <2>2. ob = s.stateObjects[a] /\ x = FinalObjects(s, dl)[a]
      BY <1>1, <1>3, <2>1
    <2>3. /\ x \in Object \cup {Nil} /\ (x = Nil <=> ob = Nil)
          /\ a \notin Touched(s) => x = ob
          /\ (x # Nil /\ x.suicided) => x.deleted
          /\ Shown(x, s.trie[a]) = Shown(ob, s.trie[a])
      BY ONLY Good(s), dl \in BOOLEAN, a \in Address, <2>2, FinalObject
    <2> QED BY <1>1, <2>1, <2>3
  <1>8. q \in [Address -> Object \cup {Nil}]
    BY <1>3, <1>7 DEF FinalObjects
  <1>9. Sound(t, q, p \cup T, d \cup T, <<>>, c2, 0)
    <2>1. \A a \in (p \cup T) \cup (d \cup T) : q[a] # Nil
      BY <1>2, <1>6, <1>7 DEF Sound
    <2>2. ASSUME NEW a \in Address, q[a] # Nil, a \notin p \cup T
          PROVE  Held(q[a]) = Disk(t[a])
      <3>1. q[a] = o[a] /\ o[a] # Nil /\ a \notin T
        BY <1>7, <2>2
      <3>2. c[a] = 0
        BY <1>1, <3>1, FinalDirty
      <3> QED BY <1>2, <2>2, <3>1, <3>2 DEF Sound
    <2>3. c2 \in [Address -> Nat]
      BY <1>3, FinalDirtiesType
    <2> QED BY <1>2, <1>6, <1>7, <1>8, <2>1, <2>2, <2>3, EmptyEntries DEF Sound
  <1>10. Good(u)
    BY <1>4, <1>9, SoundGood
  <1>11. View(u) = View(s)
    <2>1. View(u) = [a \in Address |-> Shown(q[a], t[a])]
      BY <1>5, <1>10, VisibleGood
    <2>2. View(s) = [a \in Address |-> Shown(o[a], t[a])]
      BY <1>1, VisibleGood
    <2> QED BY <1>7, <2>1, <2>2
  <1> QED BY <1>3, <1>5, <1>10, <1>11 DEF Sealed

\* The accounts after IntermediateRoot.
FlushedTrie(s, dl) ==
  LET q == FinalObjects(s, dl)
  IN  [a \in Address |->
         IF a \in s.pending \cup Touched(s)
         THEN IF q[a].deleted THEN Nil ELSE q[a].balance
         ELSE s.trie[a]]

LEMMA FlushedRec ==
  ASSUME NEW s, Good(s), NEW dl \in BOOLEAN
  PROVE  Flushed(s, dl) = Rec(FlushedTrie(s, dl), FinalObjects(s, dl), {},
                              s.dirty \cup Touched(s), <<>>, FinalDirties(s), 0)
  <1>1. PICK t, q, p, d, c : /\ t = s.trie /\ q = FinalObjects(s, dl)
                             /\ p = s.pending \cup Touched(s)
                             /\ d = s.dirty \cup Touched(s) /\ c = FinalDirties(s)
    OBVIOUS
  <1>2. PICK f : f = Finalised(s, dl)
    OBVIOUS
  <1>3. f = Rec(t, q, p, d, <<>>, c, 0)
    BY <1>1, <1>2, FinalisedRec
  <1>4. f.trie = t /\ f.stateObjects = q /\ f.pending = p
    BY <1>3, FieldsOfRec
  <1>5. PICK t2 : t2 = FlushedTrie(s, dl)
    OBVIOUS
  <1>6. Flushed(s, dl) = [f EXCEPT !.trie = t2, !.pending = {}]
    <2>1. t2 = [a \in Address |-> IF a \in f.pending
                                 THEN IF f.stateObjects[a].deleted THEN Nil
                                      ELSE f.stateObjects[a].balance
                                 ELSE f.trie[a]]
      BY <1>1, <1>4, <1>5 DEF FlushedTrie
    <2> QED BY <1>2, <2>1 DEF Flushed
  <1>7. PICK x : x = Rec(t2, q, p, d, <<>>, c, 0)
    OBVIOUS
  <1>8. [f EXCEPT !.trie = t2] = x
    <2>1. [Rec(t, q, p, d, <<>>, c, 0) EXCEPT !.trie = t2] = Rec(t2, q, p, d, <<>>, c, 0)
      BY DEF Rec
    <2> QED BY ONLY <1>3, <1>7, <2>1
  <1>9. [x EXCEPT !.pending = {}] = Rec(t2, q, {}, d, <<>>, c, 0)
    <2>1. \A v : [x EXCEPT !.pending = v] = Rec(t2, q, v, d, <<>>, c, 0)
      BY ONLY <1>7 DEF Rec
    <2> QED BY ONLY <2>1
  <1>10. [f EXCEPT !.trie = t2, !.pending = {}] = [[f EXCEPT !.trie = t2] EXCEPT !.pending = {}]
    OBVIOUS
  <1> QED BY <1>1, <1>5, <1>6, <1>8, <1>9, <1>10

\* The trie has what is visible.
LEMMA FlushedTrieShows ==
  ASSUME NEW s, Good(s), NEW dl \in BOOLEAN, NEW t2, t2 = FlushedTrie(s, dl),
         NEW q, q = FinalObjects(s, dl)
  PROVE  /\ t2 \in [Address -> Account]
         /\ q \in [Address -> Object \cup {Nil}]
         /\ \A a \in Address : /\ q[a] # Nil => Held(q[a]) = Disk(t2[a])
                               /\ Shown(q[a], t2[a]) = Disk(t2[a])
                               /\ Disk(t2[a]) = Shown(s.stateObjects[a], s.trie[a])
                               /\ ~(q[a] # Nil /\ q[a].suicided /\ ~q[a].deleted)
  <1>1. PICK t, o, p, c, T : /\ t = s.trie /\ o = s.stateObjects /\ p = s.pending
                             /\ c = s.dirties /\ T = Touched(s)
    OBVIOUS
  <1>2. Sound(t, o, p, s.dirty, s.entries, c, s.refund)
    BY <1>1, GoodSound
  <1>3. \A a \in Address : /\ q[a] \in Object \cup {Nil} /\ (q[a] = Nil <=> o[a] = Nil)
                           /\ a \notin T => q[a] = o[a]
                           /\ (q[a] # Nil /\ q[a].suicided) => q[a].deleted
                           /\ Shown(q[a], t[a]) = Shown(o[a], t[a])
    <2> SUFFICES ASSUME NEW a \in Address
                 PROVE  /\ q[a] \in Object \cup {Nil} /\ (q[a] = Nil <=> o[a] = Nil)
                        /\ a \notin T => q[a] = o[a]
                        /\ (q[a] # Nil /\ q[a].suicided) => q[a].deleted
                        /\ Shown(q[a], t[a]) = Shown(o[a], t[a])
      OBVIOUS
    <2>1. PICK ob, x : ob = o[a] /\ x = q[a]
      OBVIOUS
    <2>2. ob = s.stateObjects[a] /\ x = FinalObjects(s, dl)[a]
      BY <1>1, <2>1
    <2>3. /\ x \in Object \cup {Nil} /\ (x = Nil <=> ob = Nil)
          /\ a \notin Touched(s) => x = ob
          /\ (x # Nil /\ x.suicided) => x.deleted
          /\ Shown(x, s.trie[a]) = Shown(ob, s.trie[a])
      BY ONLY Good(s), dl \in BOOLEAN, a \in Address, <2>2, FinalObject
    <2> QED BY <1>1, <2>1, <2>3
  <1>4. q \in [Address -> Object \cup {Nil}]
    BY <1>3 DEF FinalObjects
  <1>5. \A a \in p \cup T : o[a] # Nil
    BY <1>1, <1>2 DEF Sound, Touched
  <1>6. ASSUME NEW a \in Address
        PROVE  /\ t2[a] \in Account
               /\ q[a] # Nil => Held(q[a]) = Disk(t2[a])
               /\ q[a] = Nil => t2[a] = t[a]
    <2>1. t2[a] = IF a \in p \cup T THEN IF q[a].deleted THEN Nil ELSE q[a].balance ELSE t[a]
      BY <1>1 DEF FlushedTrie
    <2>2. CASE a \in p \cup T
      <3>1. q[a] # Nil /\ q[a] \in Object
        BY <1>3, <1>5, <2>2
      <3>2. q[a].balance \in Balance
        BY <3>1, ObjectFields
      <3>3. CASE q[a].deleted
        BY <2>1, <2>2, <3>1, <3>3 DEF Held, Disk, Account
      <3>4. CASE ~q[a].deleted
        <4>1. t2[a] = q[a].balance
          BY <2>1, <2>2, <3>4
        <4>2. t2[a] # Nil /\ t2[a] \in Account
          BY <3>2, <4>1, NilApart DEF Account
        <4> QED BY <3>1, <3>4, <4>1, <4>2 DEF Held, Disk
      <3> QED BY <3>3, <3>4
    <2>3. CASE a \notin p \cup T
      <3>1. t2[a] = t[a]
        BY <2>1, <2>3
      <3>2. t[a] \in Account
        BY <1>2 DEF Sound
      <3>3. ASSUME q[a] # Nil PROVE Held(q[a]) = Disk(t[a])
        <4>1. o[a] # Nil /\ q[a] = o[a] /\ a \notin T
          BY <1>3, <2>3, <3>3
        <4>2. c[a] = 0
          BY <1>1, <4>1, FinalDirty
        <4> QED BY <1>2, <2>3, <4>1, <4>2 DEF Sound
      <3> QED BY <3>1, <3>2, <3>3
    <2> QED BY <2>2, <2>3
  <1>7. t2 \in [Address -> Account]
    BY <1>6 DEF FlushedTrie
  <1>8. ASSUME NEW a \in Address
        PROVE  /\ Shown(q[a], t2[a]) = Disk(t2[a])
               /\ Disk(t2[a]) = Shown(o[a], t[a])
    <2>1. CASE q[a] = Nil
      BY <1>3, <1>6, <2>1 DEF Shown, Disk
    <2>2. CASE q[a] # Nil
      <3>1. Shown(q[a], t2[a]) = Held(q[a]) /\ Shown(q[a], t[a]) = Held(q[a])
        <4>1. q[a].deleted \in BOOLEAN /\ q[a].suicided \in BOOLEAN
          BY <1>3, <2>2, ObjectFields
        <4> QED BY <1>3, <2>2, <4>1 DEF Shown, Held
      <3> QED BY <1>3, <1>6, <2>2, <3>1
    <2> QED BY <2>1, <2>2
  <1> QED BY <1>1, <1>3, <1>4, <1>6, <1>7, <1>8

\* Both IntermediateRoot and Commit, which differ in what stays dirty.
LEMMA FlushSealed ==
  ASSUME NEW s, Good(s), NEW dl \in BOOLEAN, NEW d, d \in {{}, s.dirty \cup Touched(s)}, NEW u,
         u = Rec(FlushedTrie(s, dl), FinalObjects(s, dl), {}, d, <<>>, FinalDirties(s), 0)
  PROVE  Sealed(s, u) /\ View(New(u.trie)) = View(s) /\ u.trie \in [Address -> Account]
  <1>1. PICK t2, q, c2 : /\ t2 = FlushedTrie(s, dl) /\ q = FinalObjects(s, dl)
                         /\ c2 = FinalDirties(s)
    OBVIOUS
  <1>2. u = Rec(t2, q, {}, d, <<>>, c2, 0)
    BY <1>1
  <1>3. /\ u.trie = t2 /\ u.stateObjects = q /\ u.entries = <<>> /\ u.refund = 0
    BY ONLY <1>2, FieldsOfRec
  <1>4. /\ t2 \in [Address -> Account]
        /\ q \in [Address -> Object \cup {Nil}]
        /\ \A a \in Address : /\ q[a] # Nil => Held(q[a]) = Disk(t2[a])
                              /\ Shown(q[a], t2[a]) = Disk(t2[a])
                              /\ Disk(t2[a]) = Shown(s.stateObjects[a], s.trie[a])
                              /\ ~(q[a] # Nil /\ q[a].suicided /\ ~q[a].deleted)
    BY ONLY Good(s), dl \in BOOLEAN, <1>1, FlushedTrieShows
  <1>5. c2 \in [Address -> Nat]
    BY <1>1, FinalDirtiesType
  <1>6. d \in SUBSET Address /\ \A a \in d : q[a] # Nil
    <2>1. s.dirty \in SUBSET Address /\ \A a \in s.dirty : s.stateObjects[a] # Nil
      BY GoodSound DEF Sound
    <2>2. Touched(s) \in SUBSET Address /\ \A a \in Touched(s) : s.stateObjects[a] # Nil
      BY DEF Touched
    <2>3. \A a \in Address : q[a] = Nil => s.stateObjects[a] = Nil
      <3> SUFFICES ASSUME NEW a \in Address PROVE q[a] = Nil => s.stateObjects[a] = Nil
        OBVIOUS
      <3>1. PICK ob, x : ob = s.stateObjects[a] /\ x = FinalObjects(s, dl)[a]
        OBVIOUS
      <3>2. x = Nil <=> ob = Nil
        BY ONLY Good(s), dl \in BOOLEAN, a \in Address, <3>1, FinalObject
      <3> QED BY <1>1, <3>1, <3>2
    <2> QED BY <2>1, <2>2, <2>3
  <1>7. Sound(t2, q, {}, d, <<>>, c2, 0)
    <2>1. \A a \in {} \cup d : q[a] # Nil
      BY <1>6
    <2> QED BY ONLY <1>4, <1>5, <1>6, <2>1, EmptyEntries DEF Sound
  <1>8. Good(u)
    BY ONLY <1>2, <1>7, SoundGood
  <1>9. View(s) = [a \in Address |-> Shown(s.stateObjects[a], s.trie[a])]
    BY VisibleGood
  <1>10. View(u) = [a \in Address |-> Shown(q[a], t2[a])]
    BY ONLY <1>3, <1>8, VisibleGood
  <1>11. View(u) = View(s)
    BY <1>4, <1>9, <1>10
  <1>12. View(New(t2)) = [a \in Address |-> Disk(t2[a])]
    <2>1. PICK n : n = New(t2)
      OBVIOUS
    <2>2. n.trie = t2 /\ n.stateObjects = [a \in Address |-> Nil]
      BY ONLY <2>1 DEF New
    <2>3. \A a \in Address : Visible(n, a) = Disk(t2[a])
      BY <2>2 DEF Visible, Disk
    <2> QED BY <2>1, <2>3 DEF View
  <1>13. View(New(t2)) = View(s)
    BY <1>4, <1>9, <1>12
  <1> QED BY <1>3, <1>4, <1>8, <1>11, <1>13 DEF Sealed

LEMMA FlushedSealed ==
  ASSUME NEW s, Good(s), NEW dl \in BOOLEAN
  PROVE  Sealed(s, Flushed(s, dl))
  <1>1. PICK d, u : d = s.dirty \cup Touched(s) /\ u = Flushed(s, dl)
    OBVIOUS
  <1>2. u = Rec(FlushedTrie(s, dl), FinalObjects(s, dl), {}, d, <<>>, FinalDirties(s), 0)
    BY <1>1, FlushedRec
  <1>3. d \in {{}, s.dirty \cup Touched(s)}
    BY <1>1
  <1>4. Sealed(s, u)
    BY ONLY Good(s), dl \in BOOLEAN, <1>2, <1>3, FlushSealed
  <1> QED BY <1>1, <1>4

LEMMA CommittedRec ==
  ASSUME NEW s, Good(s), NEW dl \in BOOLEAN
  PROVE  Committed(s, dl) = Rec(FlushedTrie(s, dl), FinalObjects(s, dl), {}, {},
                                <<>>, FinalDirties(s), 0)
  <1>1. PICK t2, q, d, c2, f : /\ t2 = FlushedTrie(s, dl) /\ q = FinalObjects(s, dl)
                               /\ d = s.dirty \cup Touched(s) /\ c2 = FinalDirties(s)
                               /\ f = Flushed(s, dl)
    OBVIOUS
  <1>2. f = Rec(t2, q, {}, d, <<>>, c2, 0)
    BY <1>1, FlushedRec
  <1>3. \A v, p : [Rec(t2, q, p, d, <<>>, c2, 0) EXCEPT !.dirty = v] = Rec(t2, q, p, v, <<>>, c2, 0)
    BY DEF Rec
  <1>4. [Rec(t2, q, {}, d, <<>>, c2, 0) EXCEPT !.dirty = {}] = Rec(t2, q, {}, {}, <<>>, c2, 0)
    BY ONLY <1>3
  <1>5. Committed(s, dl) = [f EXCEPT !.dirty = {}]
    BY <1>1 DEF Committed
  <1> QED BY ONLY <1>1, <1>2, <1>4, <1>5

LEMMA CommittedSealed ==
  ASSUME NEW s, Good(s), NEW dl \in BOOLEAN
  PROVE  /\ Sealed(s, Committed(s, dl))
         /\ Committed(s, dl).trie = FlushedTrie(s, dl)
         /\ View(New(Committed(s, dl).trie)) = View(s)
         /\ Committed(s, dl).trie \in [Address -> Account]
  <1>1. PICK d, u : d = {} /\ u = Committed(s, dl)
    OBVIOUS
  <1>2. u = Rec(FlushedTrie(s, dl), FinalObjects(s, dl), {}, d, <<>>, FinalDirties(s), 0)
    BY <1>1, CommittedRec
  <1>3. d \in {{}, s.dirty \cup Touched(s)}
    BY <1>1
  <1>4. Sealed(s, u) /\ View(New(u.trie)) = View(s) /\ u.trie \in [Address -> Account]
    BY ONLY Good(s), dl \in BOOLEAN, <1>2, <1>3, FlushSealed
  <1>5. u.trie = FlushedTrie(s, dl)
    BY ONLY <1>2, FieldsOfRec
  <1> QED BY <1>1, <1>4, <1>5

CopiedObjects(s) ==
  [a \in Address |-> IF a \in Touched(s) \cup s.pending \cup s.dirty
                     THEN s.stateObjects[a] ELSE Nil]

LEMMA CopiedRec ==
  ASSUME NEW s, Good(s)
  PROVE  Copied(s) = Rec(s.trie, CopiedObjects(s), s.pending \cup Touched(s),
                         s.dirty \cup Touched(s), <<>>, Clean, s.refund)
  <1>1. PICK t, o, p, d, es, c, r : s = Rec(t, o, p, d, es, c, r)
    BY GoodSound DEF IsRec
  <1>2. /\ s.trie = t /\ s.stateObjects = o /\ s.pending = p /\ s.dirty = d
        /\ s.entries = es /\ s.dirties = c /\ s.refund = r
    BY ONLY <1>1, FieldsOfRec
  <1>3. PICK q, p2, d2, n, k :
               /\ q = CopiedObjects(s) /\ p2 = s.pending \cup Touched(s)
               /\ d2 = s.dirty \cup Touched(s) /\ n = <<>> /\ k = Clean
    OBVIOUS
  <1>4. PICK x1, x2, x3, x4 :
               /\ x1 = Rec(t, q, p, d, es, c, r) /\ x2 = Rec(t, q, p2, d, es, c, r)
               /\ x3 = Rec(t, q, p2, d2, es, c, r) /\ x4 = Rec(t, q, p2, d2, n, c, r)
    OBVIOUS
  <1>5. [s EXCEPT !.stateObjects = q] = x1
    BY ONLY <1>1, <1>4 DEF Rec
  <1>6. [x1 EXCEPT !.pending = p2] = x2
    BY ONLY <1>4 DEF Rec
  <1>7. [x2 EXCEPT !.dirty = d2] = x3
    BY ONLY <1>4 DEF Rec
  <1>8. [x3 EXCEPT !.entries = n] = x4
    BY ONLY <1>4 DEF Rec
  <1>9. [x4 EXCEPT !.dirties = k] = Rec(t, q, p2, d2, n, k, r)
    BY ONLY <1>4 DEF Rec
  <1>10. Copied(s) = [s EXCEPT !.stateObjects = q, !.pending = p2, !.dirty = d2,
                               !.entries = n, !.dirties = k]
    BY <1>2, <1>3 DEF Copied, CopiedObjects
  <1>11. [s EXCEPT !.stateObjects = q, !.pending = p2, !.dirty = d2, !.entries = n,
                   !.dirties = k]
           = [[[[[s EXCEPT !.stateObjects = q] EXCEPT !.pending = p2] EXCEPT !.dirty = d2]
                 EXCEPT !.entries = n] EXCEPT !.dirties = k]
    OBVIOUS
  <1> QED BY ONLY <1>2, <1>3, <1>5, <1>6, <1>7, <1>8, <1>9, <1>10, <1>11

LEMMA CopiedSealed ==
  ASSUME NEW s, Good(s), Settled(s)
  PROVE  Sealed(s, Copied(s))
  <1>1. PICK t, o, p, d, c, T, K :
               /\ t = s.trie /\ o = s.stateObjects /\ p = s.pending /\ d = s.dirty
               /\ c = s.dirties /\ T = Touched(s) /\ K = T \cup p \cup d
    OBVIOUS
  <1>2. Sound(t, o, p, d, s.entries, c, s.refund)
    BY <1>1, GoodSound
  <1>3. PICK q, u : q = CopiedObjects(s) /\ u = Copied(s)
    OBVIOUS
  <1>4. s.refund = 0 /\ \A a \in Address : (o[a] # Nil /\ o[a].suicided) => o[a].deleted
    BY <1>1 DEF Settled
  <1>5. u = Rec(t, q, p \cup T, d \cup T, <<>>, Clean, 0)
    BY <1>1, <1>3, <1>4, CopiedRec
  <1>6. /\ u.trie = t /\ u.stateObjects = q /\ u.entries = <<>> /\ u.refund = 0
    BY ONLY <1>5, FieldsOfRec
  <1>7. T \in SUBSET Address /\ \A a \in T : o[a] # Nil
    BY <1>1 DEF Touched
  <1>8. /\ q = [a \in Address |-> IF a \in K THEN o[a] ELSE Nil]
        /\ o \in [Address -> Object \cup {Nil}]
        /\ p \in SUBSET Address /\ d \in SUBSET Address
    BY <1>1, <1>2, <1>3 DEF CopiedObjects, Sound
  <1>9. q \in [Address -> Object \cup {Nil}]
    BY <1>8
  <1>10. ASSUME NEW a \in Address, o[a] # Nil, a \notin p \cup T
         PROVE  Held(o[a]) = Disk(t[a])
    <2>1. c[a] = 0
      BY <1>1, <1>10, FinalDirty
    <2> QED BY <1>2, <1>10, <2>1 DEF Sound
  <1>11. Sound(t, q, p \cup T, d \cup T, <<>>, Clean, 0)
    <2>1. \A a \in (p \cup T) \cup (d \cup T) : q[a] # Nil
      BY <1>1, <1>2, <1>7, <1>8 DEF Sound
    <2>2. \A a \in Address : (q[a] # Nil /\ a \notin p \cup T) => Held(q[a]) = Disk(t[a])
      BY <1>8, <1>10
    <2>3. \A a \in Address : ~(q[a] # Nil /\ q[a].suicided /\ ~q[a].deleted)
      BY <1>4, <1>8
    <2> QED BY <1>2, <1>7, <1>9, <2>1, <2>2, <2>3, EmptyEntries, CleanType DEF Sound
  <1>12. Good(u)
    BY ONLY <1>5, <1>11, SoundGood
  <1>13. View(u) = View(s)
    <2>1. View(u) = [a \in Address |-> Shown(q[a], t[a])]
      BY ONLY <1>6, <1>12, VisibleGood
    <2>2. View(s) = [a \in Address |-> Shown(o[a], t[a])]
      BY <1>1, VisibleGood
    <2>3. ASSUME NEW a \in Address
          PROVE  Shown(q[a], t[a]) = Shown(o[a], t[a])
      <3>1. CASE a \in K \/ o[a] = Nil
        BY <1>8, <3>1
      <3>2. CASE a \notin K /\ o[a] # Nil
        <4>1. q[a] = Nil /\ a \notin p \cup T
          BY <1>1, <1>8, <3>2
        <4>2. Shown(q[a], t[a]) = Disk(t[a])
          BY <4>1 DEF Shown, Disk
        <4>3. Shown(o[a], t[a]) = Held(o[a])
          <5>1. o[a].suicided \in BOOLEAN /\ o[a].deleted \in BOOLEAN
            BY <1>8, <3>2, ObjectFields
          <5> QED BY <1>4, <3>2, <5>1 DEF Shown, Held
        <4> QED BY <1>10, <3>2, <4>1, <4>2, <4>3
      <3> QED BY <3>1, <3>2
    <2> QED BY <2>1, <2>2, <2>3
  <1> QED BY <1>3, <1>6, <1>12, <1>13 DEF Sealed

\* A state that is opened at a root, with what a reset of the journal leaves.
LEMMA OpenedGood ==
  ASSUME NEW t \in [Address -> Account], NEW c \in [Address -> Nat], NEW u,
         u = Rec(t, [a \in Address |-> Nil], {}, {}, <<>>, c, 0)
  PROVE  /\ Good(u) /\ u.entries = <<>> /\ u.refund = 0
         /\ View(u) = [a \in Address |-> Disk(t[a])]
  <1>1. PICK q : q = [a \in Address |-> Nil]
    OBVIOUS
  <1>2. u = Rec(t, q, {}, {}, <<>>, c, 0)
    BY <1>1
  <1>3. u.trie = t /\ u.stateObjects = q /\ u.entries = <<>> /\ u.refund = 0
    BY ONLY <1>2, FieldsOfRec
  <1>4. q \in [Address -> Object \cup {Nil}] /\ \A a \in Address : q[a] = Nil
    BY <1>1
  <1>5. Sound(t, q, {}, {}, <<>>, c, 0)
    BY <1>4, EmptyEntries DEF Sound
  <1>6. Good(u)
    BY ONLY <1>2, <1>5, SoundGood
  <1>7. View(u) = [a \in Address |-> Shown(q[a], t[a])]
    BY ONLY <1>3, <1>6, VisibleGood
  <1>8. \A a \in Address : Shown(q[a], t[a]) = Disk(t[a])
    BY <1>4 DEF Shown, Disk
  <1> QED BY <1>3, <1>6, <1>7, <1>8

LEMMA NewGood ==
  ASSUME NEW t \in [Address -> Account]
  PROVE  /\ Good(New(t)) /\ New(t).entries = <<>> /\ New(t).refund = 0
         /\ View(New(t)) = [a \in Address |-> Disk(t[a])]
  <1>1. PICK u, c : u = New(t) /\ c = Clean
    OBVIOUS
  <1>2. u = Rec(t, [a \in Address |-> Nil], {}, {}, <<>>, c, 0)
    BY <1>1 DEF New, Rec
  <1>3. c \in [Address -> Nat]
    BY <1>1, CleanType
  <1>4. /\ Good(u) /\ u.entries = <<>> /\ u.refund = 0
        /\ View(u) = [a \in Address |-> Disk(t[a])]
    BY ONLY t \in [Address -> Account], <1>2, <1>3, OpenedGood
  <1> QED BY <1>1, <1>4

LEMMA ResetGood ==
  ASSUME NEW s, Good(s), NEW t \in [Address -> Account], NEW u,
         u = clearJournalAndRefund(
               [New(t) EXCEPT !.entries = s.entries, !.dirties = s.dirties,
                              !.refund = s.refund])
  PROVE  /\ Good(u) /\ u.entries = <<>> /\ u.refund = 0
         /\ View(u) = View(New(t))
  <1>1. PICK q, z, n, k, es, c, r :
               /\ q = [a \in Address |-> Nil] /\ z = {} /\ n = <<>> /\ k = Clean
               /\ es = s.entries /\ c = s.dirties /\ r = s.refund
    OBVIOUS
  <1>2. /\ c \in [Address -> Nat]
        /\ es = <<>> => r = 0
    <2>1. Sound(s.trie, s.stateObjects, s.pending, s.dirty, s.entries, s.dirties, s.refund)
      BY ONLY Good(s), GoodSound
    <2>2. s.dirties \in [Address -> Nat] /\ (s.entries = <<>> => s.refund = 0)
      BY ONLY <2>1 DEF Sound
    <2> QED BY ONLY <1>1, <2>2
  <1>3. PICK x0 : x0 = New(t)
    OBVIOUS
  <1>4. x0 = Rec(t, q, z, z, n, k, 0)
    BY <1>1, <1>3 DEF New, Rec
  <1>5. PICK x1, x2 : x1 = Rec(t, q, z, z, es, k, 0) /\ x2 = Rec(t, q, z, z, es, c, 0)
    OBVIOUS
  <1>6. [x0 EXCEPT !.entries = es] = x1
    BY ONLY <1>4, <1>5 DEF Rec
  <1>7. [x1 EXCEPT !.dirties = c] = x2
    BY ONLY <1>5 DEF Rec
  <1>8. [x2 EXCEPT !.refund = r] = Rec(t, q, z, z, es, c, r)
    BY ONLY <1>5 DEF Rec
  <1>9. [x0 EXCEPT !.entries = es, !.dirties = c, !.refund = r]
          = [[[x0 EXCEPT !.entries = es] EXCEPT !.dirties = c] EXCEPT !.refund = r]
    OBVIOUS
  <1>10. u = clearJournalAndRefund(Rec(t, q, z, z, es, c, r))
    <2>1. u = clearJournalAndRefund([x0 EXCEPT !.entries = es, !.dirties = c, !.refund = r])
      BY <1>1, <1>3
    <2> QED BY ONLY <1>6, <1>7, <1>8, <1>9, <2>1
  <1>11. PICK c2 : c2 = IF es = <<>> THEN c ELSE Clean
    OBVIOUS
  <1>12. u = Rec(t, q, z, z, <<>>, c2, 0)
    BY ONLY <1>2, <1>10, <1>11, ClearRec
  <1>13. c2 \in [Address -> Nat]
    BY <1>2, <1>11, CleanType
  <1>14. u = Rec(t, [a \in Address |-> Nil], {}, {}, <<>>, c2, 0)
    BY ONLY <1>1, <1>12
  <1>15. /\ Good(u) /\ u.entries = <<>> /\ u.refund = 0
         /\ View(u) = [a \in Address |-> Disk(t[a])]
    BY ONLY t \in [Address -> Account], <1>13, <1>14, OpenedGood
  <1>16. View(New(t)) = [a \in Address |-> Disk(t[a])]
    BY NewGood
  <1> QED BY ONLY <1>15, <1>16

-----------------------------------------------------------------------------
(* The invariant.                                                          *)

LEMMA EmptyInv ==
  ASSUME NEW u, Good(u), u.entries = <<>>
  PROVE  JournalInv(u)
  <1>1. Len(u.entries) = 0 /\ Journalled(u)
    BY EmptyEntries, GoodJournalled
  <1>2. revert(u, 0) = u
    BY <1>1, RevertSteps
  <1>3. \A n \in 0 .. Len(u.entries) : n = 0
    BY <1>1
  <1> QED BY <1>2, <1>3 DEF JournalInv

\* One revert after the other is the last one.
LEMMA RevertChain ==
  ASSUME NEW s, JournalInv(s), NEW n \in 0 .. Len(s.entries), NEW x, x = revert(s, n)
  PROVE  /\ JournalInv(x) /\ Len(x.entries) = n
         /\ \A m \in 0 .. n : revert(x, m) = revert(s, m)
  <1>1. PICK k : k = Len(s.entries)
    OBVIOUS
  <1>2. PICK h : h = [m \in 0 .. k |-> revert(s, m)]
    OBVIOUS
  <1>3. Chain(s, h) /\ Journalled(s) /\ k \in Nat
    BY <1>1, <1>2, InvChain, InvGood, GoodJournalled
  <1>4. /\ \A m \in 0 .. k : Good(h[m])
        /\ \A m \in 0 .. k - 1 : h[m] = Pop(h[m + 1])
    BY <1>1, <1>3 DEF Chain
  <1>5. h[n] = x /\ Len(x.entries) = n
    BY <1>1, <1>2, <1>3, RevertSteps
  <1>6. Chain(x, h)
    <2>1. \A m \in 0 .. n : m \in 0 .. k
      BY <1>1, <1>3
    <2>2. \A m \in 0 .. n - 1 : m \in 0 .. k - 1
      BY <1>1, <1>3
    <2> QED BY <1>4, <1>5, <2>1, <2>2 DEF Chain
  <1>7. Len(x.entries) \in Nat
    BY <1>1, <1>3, <1>5
  <1>8. JournalInv(x) /\ \A m \in 0 .. n : revert(x, m) = h[m]
    BY <1>5, <1>6, <1>7, ChainInv
  <1>9. \A m \in 0 .. n : h[m] = revert(s, m)
    BY <1>1, <1>2, <1>3
  <1> QED BY <1>5, <1>8, <1>9

LEMMA MarksKept ==
  ASSUME NEW s, NEW u, NEW ms, JournalInv(s), Keeps(s, u), MarksFit(s, ms)
  PROVE  MarksFit(u, ms)
  <1>1. Len(s.entries) \in Nat /\ Len(u.entries) \in Nat
    BY InvGood DEF Keeps
  <1>2. ASSUME NEW i \in 1 .. Len(ms)
        PROVE  Shows(u, ms[i])
    <2>1. Shows(s, ms[i]) /\ ms[i] \in Mark
      BY ElementOfSeq DEF MarksFit
    <2>2. PICK n : n = ms[i].length
      OBVIOUS
    <2>3. n \in 0 .. Len(s.entries) /\ n <= Len(u.entries)
      BY <1>1, <2>1, <2>2 DEF Shows, Mark, Keeps
    <2>4. View(revert(u, n)) = View(revert(s, n)) /\ revert(u, n).refund = revert(s, n).refund
      BY <2>3 DEF Keeps
    <2> QED BY <2>1, <2>2, <2>3, <2>4 DEF Shows
  <1> QED BY <1>2 DEF MarksFit

LEMMA NoMarks ==
  ASSUME NEW s
  PROVE  MarksFit(s, <<>>)
  <1>1. <<>> \in Seq(Mark) /\ Len(<<>>) = 0
    BY EmptySeq
  <1>2. 1 .. 0 = {}
    OBVIOUS
  <1> QED BY <1>1, <1>2 DEF MarksFit

LEMMA MarksMarked ==
  ASSUME NEW s, NEW ms, JournalInv(s), MarksFit(s, ms), NEW m,
         m = [length |-> Len(s.entries), refund |-> s.refund, bal |-> View(s)]
  PROVE  MarksFit(s, Append(ms, m))
  <1>1. /\ Len(s.entries) \in Nat /\ Good(s) /\ Journalled(s)
        /\ s.refund \in Nat /\ View(s) \in [Address -> Balance]
    BY InvGood, GoodJournalled
  <1>2. /\ m \in Mark /\ m.length = Len(s.entries) /\ m.refund = s.refund /\ m.bal = View(s)
    BY <1>1 DEF Mark
  <1>3. revert(s, Len(s.entries)) = s
    BY <1>1, RevertSteps
  <1>4. Shows(s, m)
    BY <1>1, <1>2, <1>3 DEF Shows
  <1>5. PICK n, x : n = Len(ms) /\ x = Append(ms, m)
    OBVIOUS
  <1>6. ms \in Seq(Mark) /\ n \in Nat
    BY <1>5, LenProperties DEF MarksFit
  <1>7. /\ x \in Seq(Mark) /\ Len(x) = n + 1
        /\ \A i \in 1 .. n : x[i] = ms[i]
        /\ x[n + 1] = m
    BY <1>2, <1>5, <1>6, AppendProperties
  <1>8. ASSUME NEW i \in 1 .. n + 1
        PROVE  Shows(s, x[i]) /\ \A j \in 1 .. i : x[j].length <= x[i].length
    <2>1. CASE i \in 1 .. n
      <3>1. \A j \in 1 .. i : j \in 1 .. n
        BY <1>6, <2>1
      <3> QED BY <1>5, <1>7, <2>1, <3>1 DEF MarksFit
    <2>2. CASE i = n + 1
      <3>1. x[i] = m
        BY <1>7, <2>2
      <3>2. ASSUME NEW j \in 1 .. i
            PROVE  x[j].length <= m.length
        <4>1. CASE j = n + 1
          BY <1>1, <1>2, <1>7, <4>1
        <4>2. CASE j \in 1 .. n
          BY <1>2, <1>5, <1>7, <4>2 DEF MarksFit, Shows
        <4> QED BY <1>6, <2>2, <4>1, <4>2
      <3> QED BY <1>4, <3>1, <3>2
    <2> QED BY <1>6, <2>1, <2>2
  <1> QED BY <1>5, <1>7, <1>8 DEF MarksFit

LEMMA MarksReverted ==
  ASSUME NEW s, NEW ms, JournalInv(s), MarksFit(s, ms), NEW i \in 1 .. Len(ms),
         NEW u, u = revert(s, ms[i].length)
  PROVE  /\ JournalInv(u) /\ MarksFit(u, SubSeq(ms, 1, i))
         /\ View(u) = ms[i].bal /\ u.refund = ms[i].refund
  <1>1. PICK n, p : n = ms[i].length /\ p = SubSeq(ms, 1, i)
    OBVIOUS
  <1>2. ms \in Seq(Mark) /\ Len(ms) \in Nat /\ Len(s.entries) \in Nat
    BY LenProperties, InvGood DEF MarksFit
  <1>3. ms[i] \in Mark /\ Shows(s, ms[i])
    BY <1>2, ElementOfSeq DEF MarksFit
  <1>4. n \in 0 .. Len(s.entries) /\ View(u) = ms[i].bal /\ u.refund = ms[i].refund
    BY <1>1, <1>2, <1>3 DEF Shows, Mark
  <1>5. /\ JournalInv(u) /\ Len(u.entries) = n
        /\ \A m \in 0 .. n : revert(u, m) = revert(s, m)
    BY <1>1, <1>4, RevertChain
  <1>6. i \in 0 .. Len(ms) /\ i \in Nat
    BY <1>2
  <1>7. p \in Seq(Mark) /\ Len(p) = i /\ \A j \in 1 .. i : p[j] = ms[j]
    BY ONLY <1>1, <1>2, <1>6, Prefix
  <1>8. ASSUME NEW j \in 1 .. i
        PROVE  Shows(u, p[j]) /\ \A l \in 1 .. j : p[l].length <= p[j].length
    <2>1. j \in 1 .. Len(ms) /\ \A l \in 1 .. j : l \in 1 .. i
      BY <1>2
    <2>2. Shows(s, ms[j]) /\ \A l \in 1 .. j : ms[l].length <= ms[j].length
      BY <2>1 DEF MarksFit
    <2>3. ms[j].length <= n /\ ms[j] \in Mark
      BY <1>1, <1>2, <2>1, ElementOfSeq DEF MarksFit
    <2>4. ms[j].length \in 0 .. n
      BY <1>4, <2>3 DEF Mark
    <2>5. Shows(u, ms[j])
      BY <1>5, <2>2, <2>3, <2>4 DEF Shows
    <2> QED BY <1>7, <2>1, <2>2, <2>5
  <1> QED BY <1>1, <1>4, <1>5, <1>7, <1>8 DEF MarksFit

\* What the calls do to the state, as far as its caller can tell.
Written == \E a \in Address : Writes(sdb, sdb', a) /\ UNCHANGED <<saved, marks>>

Charged ==
  /\ Keeps(sdb, sdb') /\ View(sdb') = View(sdb) /\ sdb'.refund \in Nat
  /\ UNCHANGED <<saved, marks>>

SealedNow == Sealed(sdb, sdb') /\ marks' = <<>> /\ UNCHANGED saved

SavedNow ==
  /\ Sealed(sdb, sdb') /\ marks' = <<>>
  /\ \E t \in [Address -> Account] : View(New(t)) = View(sdb) /\ saved' = saved \cup {t}

Opened ==
  \E t \in saved :
    /\ Good(sdb') /\ sdb'.entries = <<>> /\ sdb'.refund = 0
    /\ View(sdb') = View(New(t))
    /\ marks' = <<>> /\ UNCHANGED saved

Step ==
  \/ Written \/ Charged \/ SealedNow \/ SavedNow \/ Opened \/ Snapshot
  \/ \E i \in 1 .. Len(marks) : Revert(i)

LEMMA UpdateStep ==
  ASSUME NEW u, NEW a \in Address, Writes(sdb, u, a), Update(u)
  PROVE  Written
  BY DEF Update, Written

LEMMA SuicideStep ==
  ASSUME AccountInv, NEW a \in Address, Suicide(a)
  PROVE  Written
  <1>1. PICK s, ob, e, u :
               /\ s = Load(sdb, a) /\ ob = s.stateObjects[a]
               /\ e = [kind |-> "suicide", addr |-> a,
                       prev |-> ob.suicided, prevBalance |-> ob.balance]
               /\ u = [Journal(s, e) EXCEPT !.stateObjects[a].suicided = TRUE,
                                            !.stateObjects[a].balance = 0]
    OBVIOUS
  <1>2. JournalInv(sdb)
    BY DEF AccountInv
  <1>3. Writes(sdb, s, a)
    BY <1>1, <1>2, LoadWrites
  <1>4. JournalInv(s)
    BY <1>3 DEF Writes, Keeps
  <1>5. IsLive(s, a) /\ Update(u)
    BY <1>1 DEF Suicide
  <1>6. Writes(s, u, a)
    BY ONLY a \in Address, <1>1, <1>4, <1>5, SuicideWrites
  <1>7. Writes(sdb, u, a)
    BY <1>2, <1>3, <1>6, WritesTrans
  <1> QED BY <1>5, <1>7, UpdateStep

LEMMA CreateAccountStep ==
  ASSUME AccountInv, NEW a \in Address, CreateAccount(a)
  PROVE  Written
  <1>1. PICK s : s = Load(sdb, a)
    OBVIOUS
  <1>2. JournalInv(sdb)
    BY DEF AccountInv
  <1>3. Writes(sdb, s, a) /\ Load(s, a) = s
    BY <1>1, <1>2, LoadWrites
  <1>4. JournalInv(s)
    BY <1>3 DEF Writes, Keeps
  <1>5. CASE IsLive(s, a)
    <2>1. PICK u : u = [createObject(s, a) EXCEPT
                          !.stateObjects[a].balance = s.stateObjects[a].balance]
      OBVIOUS
    <2>2. Update(u)
      BY <1>1, <1>5, <2>1 DEF CreateAccount
    <2>3. Writes(s, u, a)
      BY <1>3, <1>4, <1>5, <2>1, CreateAccountWrites
    <2> QED BY <1>2, <1>3, <2>2, <2>3, WritesTrans, UpdateStep
  <1>6. CASE ~IsLive(s, a)
    <2>1. PICK u : u = createObject(s, a)
      OBVIOUS
    <2>2. Update(u)
      BY <1>1, <1>6, <2>1 DEF CreateAccount
    <2>3. Writes(s, u, a)
      BY <1>3, <1>4, <1>6, <2>1, CreateWrites
    <2> QED BY <1>2, <1>3, <2>2, <2>3, WritesTrans, UpdateStep
  <1> QED BY <1>5, <1>6

LEMMA RefundStep ==
  ASSUME AccountInv, NEW v \in Nat, Update(ChargedTo(sdb, v))
  PROVE  Charged
  <1>1. JournalInv(sdb) /\ Good(sdb)
    BY InvGood DEF AccountInv
  <1>2. PICK u : u = ChargedTo(sdb, v)
    OBVIOUS
  <1>3. /\ Good(u) /\ Pop(u) = sdb /\ Len(u.entries) = Len(sdb.entries) + 1
        /\ u.refund = v /\ View(u) = View(sdb)
    BY <1>1, <1>2, PushRefund
  <1>4. Keeps(sdb, u)
    BY <1>1, <1>3, PushKeeps
  <1> QED BY <1>2, <1>3, <1>4 DEF Update, Charged

LEMMA EveryStep ==
  ASSUME AccountInv, Next
  PROVE  Step
  <1>1. JournalInv(sdb) /\ Good(sdb) /\ sdb.refund \in Nat /\ saved \subseteq [Address -> Account]
    BY InvGood, GoodJournalled DEF AccountInv
  <1>2. marks \in Seq(Mark)
    BY DEF AccountInv, MarksFit
  <1>3. ASSUME NEW a \in Address, NEW v \in Amounts, AddBalance(a, v)
        PROVE  Written
    BY <1>1, <1>3, AddWrites, UpdateStep DEF AddBalance
  <1>4. ASSUME NEW a \in Address, NEW v \in Amounts, SubBalance(a, v)
        PROVE  Written
    BY <1>1, <1>4, SubWrites, UpdateStep DEF SubBalance
  <1>5. ASSUME NEW a \in Address, NEW v \in Amounts, SetBalance(a, v)
        PROVE  Written
    BY <1>1, <1>5, SetWrites, UpdateStep DEF SetBalance
  <1>6. ASSUME NEW a \in Address, GetBalance(a)
        PROVE  Written
    BY <1>1, <1>6, LoadWrites, UpdateStep DEF GetBalance
  <1>7. ASSUME NEW a \in Address, Suicide(a)
        PROVE  Written
    BY <1>7, SuicideStep
  <1>8. ASSUME NEW a \in Address, CreateAccount(a)
        PROVE  Written
    BY <1>8, CreateAccountStep
  <1>9. ASSUME NEW g \in Gas, AddRefund(g)
        PROVE  Charged
    <2>1. PICK v, j : v = sdb.refund + g /\ j = Journal(sdb, RefundEntry(sdb))
      OBVIOUS
    <2>2. v \in Nat
      BY <1>1, <2>1, BoundsAssumption
    <2>3. j.refund = sdb.refund
      BY <1>1, <2>1, InvGood, JournalRec, FieldsOfRec
    <2>4. Update([j EXCEPT !.refund = v])
      BY <1>9, <2>1, <2>3 DEF AddRefund, RefundEntry
    <2> QED BY <2>1, <2>2, <2>4, RefundStep DEF ChargedTo
  <1>10. ASSUME NEW g \in Gas, SubRefund(g)
         PROVE  Charged
    <2>1. PICK v, j : v = sdb.refund - g /\ j = Journal(sdb, RefundEntry(sdb))
      OBVIOUS
    <2>2. v \in Nat
      BY <1>1, <1>10, <2>1, BoundsAssumption DEF SubRefund
    <2>3. j.refund = sdb.refund
      BY <1>1, <2>1, InvGood, JournalRec, FieldsOfRec
    <2>4. Update([j EXCEPT !.refund = v])
      BY <1>10, <2>1, <2>3 DEF SubRefund, RefundEntry
    <2> QED BY <2>1, <2>2, <2>4, RefundStep DEF ChargedTo
  <1>11. ASSUME NEW i \in DOMAIN marks, Revert(i)
         PROVE  Step
    BY <1>2, <1>11, LenProperties DEF Step
  <1>12. ASSUME NEW d \in BOOLEAN, Finalise(d)
         PROVE  SealedNow
    BY <1>1, <1>12, FinalisedSealed DEF Finalise, SealedNow
  <1>13. ASSUME NEW d \in BOOLEAN, IntermediateRoot(d)
         PROVE  SealedNow
    BY <1>1, <1>13, FlushedSealed DEF IntermediateRoot, SealedNow
  <1>14. ASSUME NEW d \in BOOLEAN, Commit(d)
         PROVE  SavedNow
    BY <1>1, <1>14, CommittedSealed DEF Commit, SavedNow
  <1>15. ASSUME NEW t \in saved, Open(t)
         PROVE  Opened
    BY <1>1, <1>15, NewGood DEF Open, Opened
  <1>16. ASSUME NEW t \in saved, Reset(t)
         PROVE  Opened
    BY <1>1, <1>16, ResetGood DEF Reset, Opened
  <1>17. ASSUME Copy
         PROVE  SealedNow
    BY <1>1, <1>17, CopiedSealed DEF Copy, SealedNow
  <1> QED BY <1>3, <1>4, <1>5, <1>6, <1>7, <1>8, <1>9, <1>10, <1>11, <1>12, <1>13,
             <1>14, <1>15, <1>16, <1>17 DEF Next, Step

LEMMA StepInv ==
  ASSUME AccountInv, Step
  PROVE  AccountInv'
  <1>1. /\ JournalInv(sdb) /\ Good(sdb) /\ MarksFit(sdb, marks)
        /\ saved \subseteq [Address -> Account]
    BY InvGood DEF AccountInv
  <1>2. ASSUME Keeps(sdb, sdb'), UNCHANGED <<saved, marks>>
        PROVE  AccountInv'
    <2>1. MarksFit(sdb', marks)
      BY <1>1, <1>2, MarksKept
    <2> QED BY <1>1, <1>2, <2>1 DEF AccountInv, Keeps
  <1>3. ASSUME Good(sdb'), sdb'.entries = <<>>, marks' = <<>>,
               saved' \subseteq [Address -> Account]
        PROVE  AccountInv'
    <2>1. JournalInv(sdb')
      BY <1>3, EmptyInv
    <2>2. MarksFit(sdb', marks')
      BY <1>3, NoMarks
    <2> QED BY <1>3, <2>1, <2>2 DEF AccountInv
  <1>4. CASE Written
    BY <1>2, <1>4 DEF Written, Writes
  <1>5. CASE Charged
    BY <1>2, <1>5 DEF Charged
  <1>6. CASE SealedNow
    BY <1>1, <1>3, <1>6 DEF SealedNow, Sealed
  <1>7. CASE SavedNow
    BY <1>1, <1>3, <1>7 DEF SavedNow, Sealed
  <1>8. CASE Opened
    BY <1>1, <1>3, <1>8 DEF Opened
  <1>9. CASE Snapshot
    <2>1. PICK m : m = [length |-> Len(sdb.entries), refund |-> sdb.refund, bal |-> View(sdb)]
      OBVIOUS
    <2>2. sdb' = sdb /\ saved' = saved /\ marks' = Append(marks, m)
      BY <1>9, <2>1 DEF Snapshot
    <2>3. MarksFit(sdb, Append(marks, m))
      BY <1>1, <2>1, MarksMarked
    <2> QED BY <1>1, <2>2, <2>3 DEF AccountInv
  <1>10. ASSUME NEW i \in 1 .. Len(marks), Revert(i)
         PROVE  AccountInv'
    <2>1. /\ sdb' = revert(sdb, marks[i].length) /\ marks' = SubSeq(marks, 1, i)
          /\ saved' = saved
      BY <1>10 DEF Revert
    <2>2. JournalInv(sdb') /\ MarksFit(sdb', SubSeq(marks, 1, i))
      BY <1>1, <2>1, MarksReverted
    <2> QED BY <1>1, <2>1, <2>2 DEF AccountInv
  <1> QED BY <1>4, <1>5, <1>6, <1>7, <1>8, <1>9, <1>10 DEF Step

-----------------------------------------------------------------------------
(* The theorems.                                                           *)

LEMMA InitInv ==
  ASSUME Init
  PROVE  AccountInv
  <1>1. NoAccounts \in [Address -> Account]
    BY DEF NoAccounts, Account
  <1>2. Good(sdb) /\ sdb.entries = <<>>
    BY <1>1, NewGood DEF Init
  <1>3. JournalInv(sdb)
    BY <1>2, EmptyInv
  <1>4. MarksFit(sdb, marks)
    BY NoMarks DEF Init
  <1> QED BY <1>1, <1>3, <1>4 DEF Init, AccountInv

\* Whatever the calls and however many reverts follow, the journal leads back
\* through states that are as sound as the present one (journal.go:53-75,
\* statedb.go:399-410), and every snapshot that the caller still holds shows
\* what its revert will bring back.
THEOREM AccountInvariant == Spec => []AccountInv
  <1>1. Init => AccountInv
    BY InitInv
  <1>2. AccountInv /\ [Next]_vars => AccountInv'
    <2> SUFFICES ASSUME AccountInv, [Next]_vars
                 PROVE  AccountInv'
      OBVIOUS
    <2>1. CASE Next
      BY <2>1, EveryStep, StepInv
    <2>2. CASE UNCHANGED vars
      BY <2>2 DEF vars, AccountInv
    <2> QED BY <2>1, <2>2
  <1> QED BY <1>1, <1>2, PTL DEF Spec

LEMMA InvCoherent ==
  ASSUME AccountInv
  PROVE  StateCoherent
  <1>1. /\ Good(sdb) /\ MarksFit(sdb, marks) /\ saved \subseteq [Address -> Account]
    BY InvGood DEF AccountInv
  <1>2. /\ sdb.trie \in [Address -> Account]
        /\ sdb.stateObjects \in [Address -> Object \cup {Nil}]
        /\ sdb.pending \in SUBSET Address /\ sdb.dirty \in SUBSET Address
        /\ sdb.dirties \in [Address -> Nat] /\ sdb.refund \in Nat
        /\ Len(sdb.entries) \in Nat
    BY <1>1, GoodJournalled
  <1>3. ASSUME NEW i \in DOMAIN marks
        PROVE  marks[i].length \in 0 .. Len(sdb.entries)
    <2>1. marks \in Seq(Mark) /\ DOMAIN marks = 1 .. Len(marks)
      BY <1>1, LenProperties DEF MarksFit
    <2>2. marks[i] \in Mark
      BY <2>1, ElementOfSeq
    <2>3. marks[i].length <= Len(sdb.entries)
      BY <1>1, <2>1 DEF MarksFit, Shows
    <2> QED BY <1>2, <2>2, <2>3 DEF Mark
  <1>4. TypeOK
    BY <1>1, <1>2, <1>3 DEF TypeOK
  <1> QED BY <1>1, <1>4 DEF StateCoherent, PendingCached, CacheCoherent, Good

\* Every pending and dirty address has its object, also after a revert has
\* deleted objects, and an object that nothing will write shows what the trie
\* has (statedb.go:327-357, 425-454, 505-519).
THEOREM StateStaysCoherent == Spec => []StateCoherent
  <1>1. AccountInv => StateCoherent
    BY InvCoherent
  <1> QED BY <1>1, AccountInvariant, PTL

LEMMA CopyCommits ==
  ASSUME NEW s, Good(s), Settled(s)
  PROVE  Committed(Copied(s), FALSE).trie = Committed(s, FALSE).trie
  <1>1. PICK c : c = Copied(s)
    OBVIOUS
  <1>2. /\ Good(c)
        /\ c = Rec(s.trie, CopiedObjects(s), s.pending \cup Touched(s),
                   s.dirty \cup Touched(s), <<>>, Clean, s.refund)
    BY <1>1, CopiedSealed, CopiedRec DEF Sealed
  <1>3. /\ c.trie = s.trie /\ c.stateObjects = CopiedObjects(s) /\ c.dirties = Clean
        /\ c.pending = s.pending \cup Touched(s)
    BY ONLY <1>2, FieldsOfRec
  <1>4. Touched(c) = {}
    BY <1>3, CleanType DEF Touched
  <1>5. ASSUME NEW a \in s.pending \cup Touched(s)
        PROVE  LET x == FinalObjects(s, FALSE)[a]
                   y == FinalObjects(c, FALSE)[a]
               IN  (IF y.deleted THEN Nil ELSE y.balance) = (IF x.deleted THEN Nil ELSE x.balance)
    <2>1. PICK ob, x, y : /\ ob = s.stateObjects[a] /\ x = FinalObjects(s, FALSE)[a]
                          /\ y = FinalObjects(c, FALSE)[a]
      OBVIOUS
    <2>2. a \in Address /\ ob # Nil
      BY <2>1, GoodSound DEF Sound, Touched
    <2>3. ob.suicided => ob.deleted
      BY <2>1, <2>2 DEF Settled
    <2>4. x = ob \/ (ob.deleted /\ x.deleted)
      BY ONLY Good(s), <2>1, <2>2, <2>3, FinalObjectKept
    <2>5. y = ob
      BY <1>3, <1>4, <2>1, <2>2 DEF FinalObjects, CopiedObjects
    <2> QED BY <2>1, <2>4, <2>5
  <1>6. FlushedTrie(c, FALSE) = FlushedTrie(s, FALSE)
    <2>1. c.pending \cup Touched(c) = s.pending \cup Touched(s)
      BY <1>3, <1>4
    <2> QED BY <1>3, <1>5, <2>1 DEF FlushedTrie
  <1>7. /\ Committed(c, FALSE).trie = FlushedTrie(c, FALSE)
        /\ Committed(s, FALSE).trie = FlushedTrie(s, FALSE)
    BY <1>2, CommittedSealed
  <1> QED BY <1>1, <1>6, <1>7

\* A copy of a settled state commits what its original would commit: nothing
\* that it drops with the journal was still to be applied (statedb.go:425-454).
THEOREM CopiesCommitAlike == Spec => []CopyFaithful
  <1>1. AccountInv => CopyFaithful
    BY InvGood, CopyCommits DEF AccountInv, CopyFaithful
  <1> QED BY <1>1, AccountInvariant, PTL

-----------------------------------------------------------------------------
(* The refinement.                                                         *)

LedgerMark == [bal : [Address -> Balance], refund : Nat]

\* What the ledger knows of the caller's snapshots, and of the saved roots.
Balances(ms) == [i \in DOMAIN ms |-> [bal |-> ms[i].bal, refund |-> ms[i].refund]]
Versions(ts) == {View(New(t)) : t \in ts}

LEMMA BalancesSeq ==
  ASSUME NEW ms \in Seq(Mark), NEW b, b = Balances(ms)
  PROVE  /\ b \in Seq(LedgerMark) /\ Len(b) = Len(ms) /\ DOMAIN b = 1 .. Len(ms)
         /\ \A i \in 1 .. Len(ms) : b[i] = [bal |-> ms[i].bal, refund |-> ms[i].refund]
  <1>1. Len(ms) \in Nat /\ DOMAIN ms = 1 .. Len(ms)
    BY LenProperties
  <1>2. \A i \in 1 .. Len(ms) : ms[i] \in Mark
    BY ElementOfSeq
  <1>3. \A i \in 1 .. Len(ms) : [bal |-> ms[i].bal, refund |-> ms[i].refund] \in LedgerMark
    BY <1>2 DEF Mark, LedgerMark
  <1>4. b = [i \in 1 .. Len(ms) |-> [bal |-> ms[i].bal, refund |-> ms[i].refund]]
    BY <1>1 DEF Balances
  <1>5. b \in Seq(LedgerMark)
    BY <1>1, <1>3, <1>4
  <1>6. Len(b) = Len(ms)
    BY <1>1, <1>4, <1>5, LenProperties
  <1> QED BY <1>4, <1>5, <1>6

LEMMA BalancesAppend ==
  ASSUME NEW ms \in Seq(Mark), NEW m \in Mark
  PROVE  Balances(Append(ms, m)) =
           Append(Balances(ms), [bal |-> m.bal, refund |-> m.refund])
  <1>1. PICK b, x, l : /\ b = Balances(ms) /\ x = Balances(Append(ms, m))
                       /\ l = [bal |-> m.bal, refund |-> m.refund]
    OBVIOUS
  <1>2. PICK n, ns : n = Len(ms) /\ ns = Append(ms, m)
    OBVIOUS
  <1>3. /\ ns \in Seq(Mark) /\ Len(ns) = n + 1 /\ n \in Nat
        /\ \A i \in 1 .. n : ns[i] = ms[i]
        /\ ns[n + 1] = m
    BY <1>2, AppendProperties, LenProperties
  <1>4. /\ b \in Seq(LedgerMark) /\ Len(b) = n
        /\ \A i \in 1 .. n : b[i] = [bal |-> ms[i].bal, refund |-> ms[i].refund]
    BY <1>1, <1>2, BalancesSeq
  <1>5. /\ x \in Seq(LedgerMark) /\ Len(x) = n + 1
        /\ \A i \in 1 .. n + 1 : x[i] = [bal |-> ns[i].bal, refund |-> ns[i].refund]
    <2>1. ns \in Seq(Mark) /\ x = Balances(ns)
      BY ONLY <1>1, <1>2, <1>3
    <2>2. /\ x \in Seq(LedgerMark) /\ Len(x) = Len(ns)
          /\ \A i \in 1 .. Len(ns) : x[i] = [bal |-> ns[i].bal, refund |-> ns[i].refund]
      BY ONLY <2>1, BalancesSeq
    <2>3. Len(ns) = n + 1
      BY ONLY <1>3
    <2> QED BY ONLY <2>2, <2>3
  <1>6. l \in LedgerMark
    BY <1>1 DEF Mark, LedgerMark
  <1>7. PICK y : y = Append(b, l)
    OBVIOUS
  <1>8. /\ y \in Seq(LedgerMark) /\ Len(y) = n + 1
        /\ \A i \in 1 .. n : y[i] = b[i]
        /\ y[n + 1] = l
    BY <1>4, <1>6, <1>7, AppendProperties
  <1>9. \A i \in 1 .. n + 1 : x[i] = y[i]
    <2>1. x[n + 1] = y[n + 1]
      BY <1>1, <1>3, <1>5, <1>8
    <2>2. ASSUME NEW i \in 1 .. n
          PROVE  x[i] = y[i]
      <3>1. i \in 1 .. n + 1 /\ ns[i] = ms[i] /\ y[i] = b[i]
        BY ONLY i \in 1 .. n, <1>3, <1>8
      <3>2. x[i] = [bal |-> ns[i].bal, refund |-> ns[i].refund]
        BY ONLY <3>1, <1>5
      <3>3. b[i] = [bal |-> ms[i].bal, refund |-> ms[i].refund]
        BY ONLY i \in 1 .. n, <1>4
      <3> QED BY ONLY <3>1, <3>2, <3>3
    <2> QED BY ONLY <1>3, <2>1, <2>2
  <1>10. x = y
    BY <1>5, <1>8, <1>9, SeqEqual
  <1> QED BY <1>1, <1>7, <1>10

LEMMA BalancesPrefix ==
  ASSUME NEW ms \in Seq(Mark), NEW i \in 1 .. Len(ms)
  PROVE  Balances(SubSeq(ms, 1, i)) = SubSeq(Balances(ms), 1, i)
  <1>1. PICK b, p, x, y : /\ b = Balances(ms) /\ p = SubSeq(ms, 1, i)
                          /\ x = Balances(p) /\ y = SubSeq(b, 1, i)
    OBVIOUS
  <1>2. i \in 0 .. Len(ms) /\ Len(ms) \in Nat
    BY LenProperties
  <1>3. p \in Seq(Mark) /\ Len(p) = i /\ \A j \in 1 .. i : p[j] = ms[j]
    BY ONLY ms \in Seq(Mark), <1>1, <1>2, Prefix
  <1>4. /\ b \in Seq(LedgerMark) /\ Len(b) = Len(ms)
        /\ \A j \in 1 .. Len(ms) : b[j] = [bal |-> ms[j].bal, refund |-> ms[j].refund]
    BY <1>1, BalancesSeq
  <1>5. /\ x \in Seq(LedgerMark) /\ Len(x) = i
        /\ \A j \in 1 .. i : x[j] = [bal |-> p[j].bal, refund |-> p[j].refund]
    <2>1. p \in Seq(Mark) /\ x = Balances(p)
      BY ONLY <1>1, <1>3
    <2>2. /\ x \in Seq(LedgerMark) /\ Len(x) = Len(p)
          /\ \A j \in 1 .. Len(p) : x[j] = [bal |-> p[j].bal, refund |-> p[j].refund]
      BY ONLY <2>1, BalancesSeq
    <2>3. Len(p) = i
      BY ONLY <1>3
    <2> QED BY ONLY <2>2, <2>3
  <1>6. i \in 0 .. Len(b)
    BY <1>2, <1>4
  <1>7. y \in Seq(LedgerMark) /\ Len(y) = i /\ \A j \in 1 .. i : y[j] = b[j]
    BY ONLY <1>1, <1>4, <1>6, Prefix
  <1>8. \A j \in 1 .. i : x[j] = y[j]
    BY <1>2, <1>3, <1>4, <1>5, <1>7
  <1>9. x = y
    BY <1>5, <1>7, <1>8, SeqEqual
  <1> QED BY <1>1, <1>9

LEMMA BalancesNone == Balances(<<>>) = <<>>
  <1>1. PICK n, b : n = <<>> /\ b = Balances(n)
    OBVIOUS
  <1>2. n \in Seq(Mark) /\ Len(n) = 0
    BY <1>1, EmptySeq
  <1>3. b \in Seq(LedgerMark) /\ Len(b) = 0
    BY <1>1, <1>2, BalancesSeq
  <1>4. b = <<>>
    BY <1>3, EmptySeq
  <1> QED BY <1>1, <1>4

LEMMA LedgerInit ==
  ASSUME Init
  PROVE  Ledger!Init
  <1>1. NoAccounts \in [Address -> Account] /\ \A a \in Address : NoAccounts[a] = Nil
    BY DEF NoAccounts, Account
  <1>2. View(New(NoAccounts)) = [a \in Address |-> 0]
    <2>1. View(New(NoAccounts)) = [a \in Address |-> Disk(NoAccounts[a])]
      BY <1>1, NewGood
    <2>2. \A a \in Address : Disk(NoAccounts[a]) = 0
      BY <1>1 DEF Disk
    <2> QED BY <2>1, <2>2
  <1>3. New(NoAccounts).refund = 0
    BY <1>1, NewGood
  <1>4. sdb = New(NoAccounts) /\ saved = {NoAccounts} /\ marks = <<>>
    BY DEF Init
  <1>5. Balances(marks) = <<>>
    BY <1>4, BalancesNone
  <1>6. Versions(saved) = {[a \in Address |-> 0]}
    BY <1>2, <1>4 DEF Versions
  <1> QED BY <1>2, <1>3, <1>4, <1>5, <1>6 DEF Ledger!Init, Ledger!Zero, Balances, Versions

LEMMA LedgerStep ==
  ASSUME AccountInv, Step
  PROVE  Ledger!Next
  <1>1. /\ JournalInv(sdb) /\ Good(sdb) /\ MarksFit(sdb, marks) /\ marks \in Seq(Mark)
        /\ sdb.refund \in Nat /\ View(sdb) \in [Address -> Balance]
        /\ Len(sdb.entries) \in Nat
    BY InvGood, GoodJournalled DEF AccountInv, MarksFit
  <1>2. ASSUME UNCHANGED <<saved, marks>>
        PROVE  Balances(marks)' = Balances(marks) /\ Versions(saved)' = Versions(saved)
    BY <1>2
  <1>3. CASE Written
    <2>1. PICK a \in Address : Writes(sdb, sdb', a) /\ UNCHANGED <<saved, marks>>
      BY <1>3 DEF Written
    <2>2. PICK v \in Balance : View(sdb') = [View(sdb) EXCEPT ![a] = v]
      BY <2>1 DEF Writes
    <2>3. sdb'.refund = sdb.refund
      BY <2>1 DEF Writes
    <2>4. Ledger!Write(a)
      BY <1>2, <2>1, <2>2, <2>3 DEF Ledger!Write, Balances, Versions
    <2> QED BY <2>4 DEF Ledger!Next
  <1>4. CASE Charged
    <2>1. Ledger!Charge
      BY <1>2, <1>4 DEF Charged, Ledger!Charge, Balances, Versions
    <2> QED BY <2>1 DEF Ledger!Next
  <1>5. CASE SealedNow
    <2>1. Balances(marks)' = <<>>
      BY <1>5, BalancesNone DEF SealedNow
    <2>2. Ledger!Seal
      BY <1>5, <2>1 DEF SealedNow, Sealed, Ledger!Seal, Balances
    <2> QED BY <2>2 DEF Ledger!Next
  <1>6. CASE SavedNow
    <2>1. Balances(marks)' = <<>>
      BY <1>6, BalancesNone DEF SavedNow
    <2>2. Versions(saved)' = Versions(saved) \cup {View(sdb)}
      BY <1>6 DEF SavedNow, Versions
    <2>3. Ledger!Save
      BY <1>6, <2>1, <2>2 DEF SavedNow, Sealed, Ledger!Save, Balances, Versions
    <2> QED BY <2>3 DEF Ledger!Next
  <1>7. CASE Opened
    <2>1. Balances(marks)' = <<>>
      BY <1>7, BalancesNone DEF Opened
    <2>2. View(sdb') \in Versions(saved) /\ sdb'.refund = 0 /\ saved' = saved
      BY <1>7 DEF Opened, Versions
    <2>3. Ledger!Open
      BY <2>1, <2>2 DEF Ledger!Open, Balances, Versions
    <2> QED BY <2>3 DEF Ledger!Next
  <1>8. CASE Snapshot
    <2>1. PICK m : m = [length |-> Len(sdb.entries), refund |-> sdb.refund, bal |-> View(sdb)]
      OBVIOUS
    <2>2. m \in Mark /\ m.refund = sdb.refund /\ m.bal = View(sdb)
      BY <1>1, <2>1 DEF Mark
    <2>3. sdb' = sdb /\ saved' = saved /\ marks' = Append(marks, m)
      BY <1>8, <2>1 DEF Snapshot
    <2>4. Balances(marks') = Append(Balances(marks), [bal |-> View(sdb), refund |-> sdb.refund])
      BY <1>1, <2>2, <2>3, BalancesAppend
    <2>5. Ledger!Mark
      BY <2>3, <2>4 DEF Ledger!Mark, Balances, Versions
    <2> QED BY <2>5 DEF Ledger!Next
  <1>9. ASSUME NEW i \in 1 .. Len(marks), Revert(i)
        PROVE  Ledger!Next
    <2>1. /\ sdb' = revert(sdb, marks[i].length) /\ marks' = SubSeq(marks, 1, i)
          /\ saved' = saved
      BY <1>9 DEF Revert
    <2>2. View(sdb') = marks[i].bal /\ sdb'.refund = marks[i].refund
      BY <1>1, <2>1, MarksReverted
    <2>3. Balances(marks') = SubSeq(Balances(marks), 1, i)
      BY <1>1, <2>1, BalancesPrefix
    <2>4. PICK b : b = Balances(marks)
      OBVIOUS
    <2>5. i \in DOMAIN b /\ b[i] = [bal |-> marks[i].bal, refund |-> marks[i].refund]
      BY <1>1, <2>4, BalancesSeq
    <2>6. b[i].bal = marks[i].bal /\ b[i].refund = marks[i].refund
      BY <2>5
    <2>7. Ledger!GoBack(i)
      BY <2>1, <2>2, <2>3, <2>4, <2>6 DEF Ledger!GoBack, Balances, Versions
    <2> QED BY <2>4, <2>5, <2>7 DEF Ledger!Next, Balances
  <1> QED BY <1>3, <1>4, <1>5, <1>6, <1>7, <1>8, <1>9 DEF Step

\* Behind cache, journal and trie the state is a table of balances: a call
\* writes at most one account, a revert brings back exactly what its snapshot
\* showed, Commit saves what is visible, and a saved root brings that back
\* (statedb.go:371-410, 478-553).
THEOREM LedgerImplemented == Spec => ImplementsLedger
  <1>1. Init => Ledger!Init
    BY LedgerInit
  <1>2. AccountInv /\ [Next]_vars
          => [Ledger!Next]_<<View(sdb), sdb.refund,
                             [i \in DOMAIN marks |-> [bal |-> marks[i].bal,
                                                      refund |-> marks[i].refund]],
                             {View(New(t)) : t \in saved}>>
    <2>1. ASSUME AccountInv, Next
          PROVE  Ledger!Next
      BY <2>1, EveryStep, LedgerStep
    <2>2. ASSUME UNCHANGED vars
          PROVE  UNCHANGED <<View(sdb), sdb.refund,
                             [i \in DOMAIN marks |-> [bal |-> marks[i].bal,
                                                      refund |-> marks[i].refund]],
                             {View(New(t)) : t \in saved}>>
      BY <2>2 DEF vars
    <2> QED BY <2>1, <2>2
  <1> QED BY <1>1, <1>2, AccountInvariant, PTL DEF Spec, ImplementsLedger, Ledger!Spec
=============================================================================
