--------------------------- MODULE TrieDatabaseInv ---------------------------
(***************************************************************************)
(* The inductive invariant of the trie node database.                      *)
(*                                                                         *)
(* The parts that speak of a memory database take it as a parameter, with   *)
(* the set L of its nodes that are in the flush list and the set K of what *)
(* is on disk: between two calls L is all that is cached, during a walk of *)
(* dereference the nodes that wait for their deletion have left it.        *)
(***************************************************************************)
EXTENDS TrieDatabase

OrNone == Hashes \cup {NoHash}

IsNode(n) ==
  /\ n \in [parents : Nat, tracked : BOOLEAN, children : {n.children},
            flushPrev : OrNone, flushNext : OrNone]
  /\ DOMAIN n.children \subseteq Roots
  /\ n.children \in [DOMAIN n.children -> Nat \ {0}]

IsDatabase(d) ==
  /\ d \in [dirties : {d.dirties}, oldest : OrNone, newest : OrNone, size : Int,
            preimages : SUBSET Keys]
  /\ d.dirties = [h \in DOMAIN d.dirties |-> d.dirties[h]]
  /\ DOMAIN d.dirties \subseteq OrNone /\ NoHash \in DOMAIN d.dirties
  /\ \A h \in DOMAIN d.dirties : IsNode(d.dirties[h])

CapJob ==
  [op : {"cap", "capClear"}, limit : Limits, size : Int, oldest : OrNone,
   batch : Seq(Hashes), flushPreimages : BOOLEAN]

CommitJob ==
  [op : {"commit", "commitEnd"}, root : Roots, batch : Seq(Hashes),
   written : BOOLEAN, todo : Seq(Hashes)]

TypeInv ==
  /\ IsDatabase(db)
  /\ disk \subseteq Hashes \cup Keys
  /\ job \in {Idle} \cup CapJob \cup CommitJob
  /\ held \in [Roots -> Nat]
  /\ recorded \subseteq Keys
  /\ faults \in 0 .. MaxFaults

-----------------------------------------------------------------------------
(* A memory database. *)

\* A map of external children is made before it is filled; only the meta root
\* counts repeats.
Maps(d) ==
  /\ d.dirties[NoHash].tracked
  /\ \A h \in DOMAIN d.dirties : d.dirties[h].tracked \/ DOMAIN d.dirties[h].children = {}
  /\ \A h \in Nodes(d) :
       /\ DOMAIN d.dirties[h].children \subseteq Ext[h]
       /\ \A x \in DOMAIN d.dirties[h].children : d.dirties[h].children[x] = 1

Weight(d, h) == HashLength + Size[h] + childrenOf(d, h)

Weighed(d) ==
  d.size = SumFunction([h \in Nodes(d) |-> Weight(d, h)])
             + childSize * Cardinality(DOMAIN d.dirties[NoHash].children)

\* The external references of a node have been counted, unless they were on
\* disk.
Tied(d, h, K) == Ext[h] \subseteq K \cup DOMAIN d.dirties[h].children

\* What a linked node refers to is linked or on disk.
Closed(L, K) == \A h \in L : References(h) \subseteq L \cup K

\* The count of a linked node that is not on disk: the references from linked
\* nodes and from the meta root.
Counts(d, L, h) == Referrers(d, L \cup {NoHash}, h)
Counted(d, L, K) == \A h \in L \ K : d.dirties[h].parents = Counts(d, L, h)

\* b comes next after a.
Follows(L, pos, a, b) ==
  IF b = NoHash THEN \A x \in L : pos[x] <= pos[a]
  ELSE b \in L /\ pos[a] < pos[b] /\ \A x \in L : pos[x] <= pos[a] \/ pos[b] <= pos[x]

\* The flush list links L in the order of pos; flushPrev of the oldest and, when
\* the list is empty, newest may hold anything.
Ordered(d, L, pos) ==
  /\ pos \in [Hashes -> Nat]
  /\ \A x, y \in L : pos[x] = pos[y] => x = y
  /\ IF L = {} THEN d.oldest = NoHash
     ELSE /\ d.oldest \in L /\ \A x \in L : pos[d.oldest] <= pos[x]
          /\ d.newest \in L /\ \A x \in L : pos[x] <= pos[d.newest]
  /\ \A h \in L : Follows(L, pos, h, d.dirties[h].flushNext)
  /\ \A h \in L \ {d.oldest} : /\ d.dirties[h].flushPrev \in L
                               /\ d.dirties[d.dirties[h].flushPrev].flushNext = h

\* A node comes after what it refers to, unless that is on disk.
Children1st(L, K, pos) ==
  \A h \in L : \A x \in References(h) \cap L : x \in K \/ pos[x] < pos[h]

\* Everything about a memory database but the order of its list.
Sound(d, K) ==
  /\ Maps(d) /\ Weighed(d)
  /\ Closed(Nodes(d), K)
  /\ \A h \in Nodes(d) : Tied(d, h, K)
  /\ DOMAIN d.dirties[NoHash].children \subseteq Nodes(d) \cup K
  /\ Counted(d, Nodes(d), K)

\* A node that is not on disk is referred to.
Needed(d, K) == \A h \in Nodes(d) \ K : d.dirties[h].parents > 0

-----------------------------------------------------------------------------
(* The caller and the jobs, of the memory database d over the disk K. *)

\* What is on disk is there with all that it refers to.
Complete(K) == \A h \in K \cap Hashes : References(h) \subseteq K

\* The meta root counts the references the caller holds on a root that is not on
\* disk.
HeldAt(d, K, h) ==
  LET meta == d.dirties[NoHash].children
  IN  \A r \in Roots \ K : h[r] = IF r \in DOMAIN meta THEN meta[r] ELSE 0

PreimageAt(d, K, j, r) ==
  /\ r \subseteq K \cup d.preimages
  /\ \/ j.op = "idle"
     \/ j \in CapJob /\ ~j.flushPreimages
     \/ d.preimages \subseteq K

\* A batch refers to nothing that is not on disk or in it.
Whole(batch, K) == \A h \in Range(batch) : References(h) \subseteq K \cup Range(batch)

\* The nodes of the flush list from h on, and what Cap takes them to weigh.
ListFrom(d, h, pos) == {x \in Nodes(d) : h # NoHash /\ pos[h] <= pos[x]}
Cost(d, R) == SumFunction([h \in R |-> Weight(d, h) + cachedNodeSize])

\* Cap has put what comes before its position on disk or into its batch, and
\* its size is what comes after.
CapAt(d, K, j, pos) ==
  LET rest == ListFrom(d, j.oldest, pos)
  IN  /\ j.oldest \in Nodes(d) \cup {NoHash}
      /\ Nodes(d) \ rest \subseteq K \cup Range(j.batch)
      /\ Range(j.batch) \subseteq Nodes(d)
      /\ Whole(j.batch, K)
      /\ j.size = Cost(d, rest)
      /\ j.op = "capClear" => /\ Range(j.batch) \subseteq K
                              /\ j.size <= j.limit \/ j.oldest = NoHash

\* What is on disk, in the batch or among the first nodes of todo.
Before(K, batch, todo, i) == K \cup Range(batch) \cup {todo[k] : k \in 1 .. i - 1}

\* Commit has its trie on disk, in its batch and ahead of it, children first.
CommitAt(d, K, j) ==
  /\ Whole(j.batch, K)
  /\ \A i \in DOMAIN j.todo : /\ j.todo[i] \in Nodes(d) \cup K
                              /\ References(j.todo[i]) \subseteq Before(K, j.batch, j.todo, i)
  /\ j.root \in Before(K, j.batch, j.todo, Len(j.todo) + 1)
  /\ j.written => Range(j.batch) \subseteq K
  /\ j.op = "commitEnd" => Range(j.batch) \subseteq K /\ j.todo = << >>

ListAt(d, K, j, pos) ==
  /\ Ordered(d, Nodes(d), pos)
  /\ Children1st(Nodes(d), K, pos)
  /\ j \in CapJob => CapAt(d, K, j, pos)

DatabaseInv ==
  /\ TypeInv
  /\ Complete(disk)
  /\ Sound(db, disk) /\ Needed(db, disk)
  /\ HeldAt(db, disk, held) /\ PreimageAt(db, disk, job, recorded)
  /\ \E pos \in [Hashes -> Nat] : ListAt(db, disk, job, pos)
  /\ job \in CommitJob => CommitAt(db, disk, job)
=============================================================================
