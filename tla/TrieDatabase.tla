---------------------------- MODULE TrieDatabase ----------------------------
(***************************************************************************)
(* The trie node database of trie/database.go: dirty nodes with reference  *)
(* counts in memory, collected when nobody refers to them any more, flushed *)
(* oldest first by Cap, and moved to the disk, children first, by Commit.  *)
(*                                                                         *)
(* A node is known by its hash.  Kids[h] are the hashes inside a node, in  *)
(* order and with repetition (forGatherChildren); Ext[h] are the roots of  *)
(* other tries that the caller's leaf callback ties to it.                 *)
(*                                                                         *)
(* The database asks for one mutator at a time, so Cap and Commit, which   *)
(* work on the disk without the lock, run step by step while only readers  *)
(* and a crash come between.  The clean cache is off, as in this program   *)
(* (state.NewDatabase passes cache 0); the disk is a set of keys.  The     *)
(* counters dirtiesSize and childrenSize, of which only the sum is ever    *)
(* compared with anything, are one: size.                                  *)
(***************************************************************************)
EXTENDS Integers, FiniteSets, SequencesExt

CONSTANTS Hashes,         \* node hashes, positive integers
          Kids,           \* hash -> hashes inside the node
          Ext,            \* hash -> roots of other tries its leaf refers to
          Size,           \* hash -> size of the node's encoding
          Roots,          \* roots of tries the caller commits
          Preimages,      \* root -> keys whose preimages its SecureTrie holds
          Limits,         \* memory allowances Cap is called with
          IdealBatchSize, \* ethdb.IdealBatchSize
          PreimageLimit,  \* how many preimages Cap leaves in memory (4 MB)
          MaxHeld,        \* bound: references the caller holds at a time
          MaxFaults       \* bound: crashes and failing writes together

NoHash == 0               \* common.Hash{}, the meta root

\* The hashes a node refers to, inside it and at its leaf.
References(h) == Ext[h] \cup Range(Kids[h])

\* The least set with h that is closed under references.
BelowOf ==
  [h \in Hashes |->
     {x \in Hashes : \A S \in SUBSET Hashes :
                       h \in S /\ (\A p \in S : References(p) \subseteq S) => x \in S}]
Below(h) == BelowOf[h]

ASSUME HashAssumption ==
  /\ IsFiniteSet(Hashes) /\ Hashes \subseteq Nat \ {NoHash}
  /\ Roots \subseteq Hashes

\* Kids and Ext are functions on Hashes, Ext[h] holds roots.
ASSUME NodeAssumption ==
  /\ \A h \in Hashes : Kids[h] \in Seq(Hashes) /\ Ext[h] \in SUBSET Roots
  /\ \A h \in Hashes : Size[h] \in Nat

\* A hash covers what is below its node, so no node is below itself.
ASSUME RankAssumption ==
  \E rank \in [Hashes -> 0 .. Cardinality(Hashes)] :
    \A h \in Hashes : \A x \in References(h) : rank[x] < rank[h]

\* Storage tries are committed without a leaf callback: only the account trie
\* refers to other tries.
ASSUME LeafAssumption ==
  \A h \in Hashes : \A x \in Ext[h] : \A y \in Below(x) : Ext[y] = {}

\* The keys of preimages have a prefix and are no node hashes.
ASSUME KeyAssumption == \A r \in Roots : Preimages[r] \cap Hashes = {}

ASSUME BoundAssumption ==
  /\ MaxHeld \in Nat /\ MaxFaults \in Nat
  /\ IdealBatchSize \in Nat /\ PreimageLimit \in Nat /\ Limits \subseteq Nat

VARIABLES db,        \* Database
          disk,      \* diskdb: the hashes and preimage keys on disk
          job,       \* what Cap or Commit is doing
          held,      \* ghost: the references on roots the caller holds
          recorded,  \* ghost: preimages handed to this database
          faults     \* crashes and failed writes so far

vars == <<db, disk, job, held, recorded, faults>>

HashLength == 32
cachedNodeSize == 96
cachedNodeChildrenSize == 48
childSize == HashLength + 2

-----------------------------------------------------------------------------
(* The memory database. *)

\* cachedNode; tracked: its map of external children has been made.
cachedNode(prev) ==
  [parents |-> 0, tracked |-> FALSE, children |-> << >>,
   flushPrev |-> prev, flushNext |-> NoHash]

NewDatabase ==
  [dirties |-> [h \in {NoHash} |-> [cachedNode(NoHash) EXCEPT !.tracked = TRUE]],
   oldest |-> NoHash, newest |-> NoHash, size |-> 0,
   preimages |-> {}]

Nodes(d) == DOMAIN d.dirties \ {NoHash}

\* Mutant: external children are forgotten.
forChildsInside(d, h) == Kids[h]

\* The hashes a cached node refers to: external ones, then those inside it.
forChilds(d, h) == SetToSeq(DOMAIN d.dirties[h].children) \o Kids[h]

Occurrences(s, x) == Cardinality({i \in DOMAIN s : s[i] = x})

\* Mutant: a child that is there twice is counted once.
countedOnce(n, x, h) == [n EXCEPT !.parents = IF x \in Range(Kids[h]) THEN @ + 1 ELSE @]

\* The node n of hash x once the node of hash h is cached as well.
counted(n, x, h) == [n EXCEPT !.parents = @ + Occurrences(Kids[h], x)]

insert(d, h) ==
  IF h \in DOMAIN d.dirties THEN d
  ELSE [d EXCEPT
          !.dirties = [x \in DOMAIN @ \cup {h} |->
                         IF x = h THEN cachedNode(d.newest)
                         ELSE [counted(d.dirties[x], x, h) EXCEPT
                                 !.flushNext = IF d.oldest # NoHash /\ x = d.newest
                                               THEN h ELSE @]],
          !.oldest = IF @ = NoHash THEN h ELSE @,
          !.newest = h,
          !.size = @ + HashLength + Size[h]]

insertPreimage(d, ks) == [d EXCEPT !.preimages = @ \cup ks]

\* One more reference in a map of external children.
refer(refs, child) ==
  [x \in DOMAIN refs \cup {child} |->
     IF x \notin DOMAIN refs THEN 1 ELSE IF x = child THEN refs[x] + 1 ELSE refs[x]]

\* The child counts a reference, and the parent's map has it.
tie(d, child, parent) ==
  LET p == d.dirties[parent]
  IN  [d EXCEPT !.dirties[child].parents = @ + 1,
                !.dirties[parent].tracked = TRUE,
                !.dirties[parent].children = refer(p.children, child),
                !.size = @ + (IF p.tracked THEN 0 ELSE cachedNodeChildrenSize)
                           + (IF child \in DOMAIN p.children THEN 0 ELSE childSize)]

\* Mutant: a second reference of a root is not counted either.
referenceOnce(d, child, parent) ==
  IF child \notin DOMAIN d.dirties \/ child \in DOMAIN d.dirties[parent].children
  THEN d ELSE tie(d, child, parent)

\* A child that is not cached is on disk; only the meta root counts repeats.
reference(d, child, parent) ==
  IF \/ child \notin DOMAIN d.dirties
     \/ child \in DOMAIN d.dirties[parent].children /\ parent # NoHash
  THEN d ELSE tie(d, child, parent)

\* Mutant: the end of the list is not treated apart.
unlinkInside(d, h) ==
  LET n == d.dirties[h]
  IN  IF h = d.oldest
      THEN [d EXCEPT !.oldest = n.flushNext, !.dirties[n.flushNext].flushPrev = NoHash]
      ELSE [d EXCEPT !.dirties[n.flushPrev].flushNext = n.flushNext,
                     !.dirties[n.flushNext].flushPrev = n.flushPrev]

\* Take a node out of the flush list.  When the only node leaves, newest keeps
\* its hash.
unlink(d, h) ==
  LET n == d.dirties[h]
  IN  CASE h = d.oldest ->
             [d EXCEPT !.oldest = n.flushNext, !.dirties[n.flushNext].flushPrev = NoHash]
        [] h # d.oldest /\ h = d.newest ->
             [d EXCEPT !.newest = n.flushPrev, !.dirties[n.flushPrev].flushNext = NoHash]
        [] h # d.oldest /\ h # d.newest ->
             [d EXCEPT !.dirties[n.flushPrev].flushNext = n.flushNext,
                       !.dirties[n.flushNext].flushPrev = n.flushPrev]

drop(d, h) == [d EXCEPT !.dirties = Restrict(@, DOMAIN @ \ {h}),
                        !.size = @ - HashLength - Size[h]]

\* The parent's external reference to a child goes away.
forget(d, child, parent) ==
  LET refs == d.dirties[parent].children
  IN  IF child \notin DOMAIN refs THEN d
      ELSE IF refs[child] > 1 THEN [d EXCEPT !.dirties[parent].children[child] = @ - 1]
      ELSE [d EXCEPT !.dirties[parent].children = Restrict(@, DOMAIN @ \ {child}),
                     !.size = @ - childSize]

\* Mutant: counts down below zero.
countDownUnguarded(d, child) == [d EXCEPT !.dirties[child].parents = @ - 1]

\* Not below zero: the references of a node that was flushed and inserted again
\* may not all have been counted.
countDown(d, child) == [d EXCEPT !.dirties[child].parents = IF @ > 0 THEN @ - 1 ELSE @]

\* A node whose references have been dropped is deleted.
delete(d, h) ==
  [drop(d, h) EXCEPT !.size = @ - (IF d.dirties[h].tracked THEN cachedNodeChildrenSize ELSE 0)]

\* The stack of dereference's recursion: calls to make, and the nodes to delete
\* once the calls before them have been made.
Call(child, parent) == [op |-> "call", child |-> child, parent |-> parent]
Delete(h) == [op |-> "delete", child |-> h, parent |-> NoHash]
Calls(s, parent) == [i \in DOMAIN s |-> Call(s[i], parent)]

\* dereference after the parent has forgotten the child.
visit(d, child, stack) ==
  LET g == countDown(d, child)
  IN  IF child \notin DOMAIN d.dirties THEN [db |-> d, stack |-> stack]
      ELSE IF g.dirties[child].parents # 0 THEN [db |-> g, stack |-> stack]
      ELSE [db    |-> unlink(g, child),
            stack |-> Calls(forChilds(g, child), child) \o <<Delete(child)>> \o stack]

walkOn(c) ==
  LET t == Head(c.stack)
  IN  IF c.stack = << >> THEN c
      ELSE IF t.op = "delete" THEN [db |-> delete(c.db, t.child), stack |-> Tail(c.stack)]
      ELSE visit(forget(c.db, t.child, t.parent), t.child, Tail(c.stack))

\* No node is expanded twice, so the walk ends within so many steps.
walkLength(d) == SumFunction([p \in Nodes(d) |-> Len(forChilds(d, p)) + 1])

dereference(d, child, parent) ==
  LET walk[n \in 0 .. walkLength(d)] ==
        IF n = 0 THEN visit(forget(d, child, parent), child, << >>) ELSE walkOn(walk[n - 1])
  IN  walk[walkLength(d)].db

\* Size: all that is cached, with its metadata, without the meta root's map.
memory(d) ==
  d.size + cachedNodeSize * Cardinality(Nodes(d))
    - childSize * Cardinality(DOMAIN d.dirties[NoHash].children)

\* What a cached node's map of external children takes.
childrenOf(d, h) ==
  IF d.dirties[h].tracked
  THEN cachedNodeChildrenSize + childSize * Cardinality(DOMAIN d.dirties[h].children)
  ELSE 0

\* Mutant: the map of external children stays on the account.
PutNodeOnly(d, h) == IF h \notin DOMAIN d.dirties THEN d ELSE drop(unlink(d, h), h)

\* cleaner.Put: uncache a node that has been written to disk.  (The code takes
\* the map's size off dirtiesSize, not off childrenSize where it was added.)
Put(d, h) ==
  IF h \notin DOMAIN d.dirties THEN d
  ELSE [drop(unlink(d, h), h) EXCEPT !.size = @ - childrenOf(d, h)]

\* A turn of Cap's last loop, which uncaches everything before a node of the
\* flush list.
clearOldest(d, stop) ==
  IF d.oldest = stop THEN d
  ELSE [drop(d, d.oldest) EXCEPT !.oldest = d.dirties[d.oldest].flushNext,
                                 !.size = @ - childrenOf(d, d.oldest)]

clear(d, stop) ==
  LET turns == Cardinality(Nodes(d))
      after[n \in 0 .. turns] == IF n = 0 THEN d ELSE clearOldest(after[n - 1], stop)
  IN  IF stop = NoHash THEN after[turns]
      ELSE [after[turns] EXCEPT !.dirties[stop].flushPrev = NoHash]

\* Mutant: a node is written before its children.
preorder(S, kids, h) ==
  LET pre[x \in Hashes] ==
        IF x \notin S THEN << >>
        ELSE <<x>> \o FlattenSeq([i \in DOMAIN kids[x] |-> pre[kids[x][i]]])
  IN  pre[h]

\* The nodes of S below h, children first.
postorder(S, kids, h) ==
  LET post[x \in Hashes] ==
        IF x \notin S THEN << >>
        ELSE FlattenSeq([i \in DOMAIN kids[x] |-> post[kids[x][i]]]) \o <<x>>
  IN  post[h]

-----------------------------------------------------------------------------
(* The caller's view. *)

Live == UNION {Below(r) : r \in {r \in Roots : held[r] > 0}}

Available == Nodes(db) \cup disk

\* Mutant: the disk is asked first.
lookupDiskFirst(n) == IF n = 1 THEN disk ELSE Nodes(db)

\* node and Node: the n-th place where a reader looks, among the dirty nodes
\* under the read lock and then, without it, on the disk.
lookup(n) == IF n = 1 THEN Nodes(db) ELSE disk

-----------------------------------------------------------------------------
(* The steps. *)

Idle == [op |-> "idle"]

Init ==
  /\ db = NewDatabase
  /\ disk = {}
  /\ job = Idle
  /\ held = [r \in Roots |-> 0]
  /\ recorded = {}
  /\ faults = 0

\* committer.store and commitLoop: insert a node, then the leaf callback.
storeNode(d, h) ==
  FoldLeft(LAMBDA e, x : reference(e, x, h), insert(d, h), SetToSeq(Ext[h]))

\* A SecureTrie with root r is committed and its root is referenced: the
\* preimages of its keys and its dirty nodes, the set U, go to the database,
\* the tries its leaves refer to first.  The nodes it has not loaded are there.
CommitTrie(r, U) ==
  LET tries == SetToSeq(UNION {Ext[h] : h \in U}) \o <<r>>
      order == FlattenSeq([i \in DOMAIN tries |-> postorder(U, Kids, tries[i])])
  IN  /\ job = Idle
      /\ FoldFunction(+, 0, held) < MaxHeld
      /\ U = {} \/ r \in U
      /\ \A h \in U \ {r} : \E p \in U : h \in References(p)
      /\ \A h \in U : References(h) \subseteq U \cup Available
      /\ r \in U \cup Available
      /\ db' = reference(FoldLeft(storeNode, insertPreimage(db, Preimages[r]), order),
                         r, NoHash)
      /\ held' = [held EXCEPT ![r] = @ + 1]
      /\ recorded' = recorded \cup Preimages[r]
      /\ UNCHANGED <<disk, job, faults>>

\* Dereference: the caller gives a root up.
Dereference(r) ==
  /\ job = Idle
  /\ held[r] > 0
  /\ db' = dereference(db, r, NoHash)
  /\ held' = [held EXCEPT ![r] = @ - 1]
  /\ UNCHANGED <<disk, job, recorded, faults>>

ValueSize(batch) == FoldLeft(LAMBDA s, h : s + HashLength + Size[h], 0, batch)
Written(batch) == disk \cup Range(batch)

\* Mutant: only the useful data is compared with the allowance.
CapStartDataOnly(limit) ==
  LET flush == Cardinality(db.preimages) > PreimageLimit
  IN  /\ job = Idle
      /\ disk' = IF flush THEN disk \cup db.preimages ELSE disk
      /\ job' = [op |-> "cap", limit |-> limit, size |-> db.size,
                 oldest |-> db.oldest, batch |-> << >>, flushPreimages |-> flush]
      /\ UNCHANGED <<db, held, recorded, faults>>

\* Cap: preimages above their limit fill more than a batch and are written at
\* once.
CapStart(limit) ==
  LET flush == Cardinality(db.preimages) > PreimageLimit
  IN  /\ job = Idle
      /\ disk' = IF flush THEN disk \cup db.preimages ELSE disk
      /\ job' = [op |-> "cap", limit |-> limit, size |-> memory(db),
                 oldest |-> db.oldest, batch |-> << >>, flushPreimages |-> flush]
      /\ UNCHANGED <<db, held, recorded, faults>>

CapPush ==
  LET batch == Append(job.batch, job.oldest)
      full  == ValueSize(batch) >= IdealBatchSize
  IN  /\ job.op = "cap" /\ job.size > job.limit /\ job.oldest # NoHash
      /\ disk' = IF full THEN Written(batch) ELSE disk
      /\ job' = [job EXCEPT !.batch = IF full THEN << >> ELSE batch,
                            !.size = @ - HashLength - Size[job.oldest] - cachedNodeSize
                                       - childrenOf(db, job.oldest),
                            !.oldest = db.dirties[@].flushNext]
      /\ UNCHANGED <<db, held, recorded, faults>>

CapWrite ==
  /\ job.op = "cap" /\ ~(job.size > job.limit /\ job.oldest # NoHash)
  /\ disk' = Written(job.batch)
  /\ job' = [job EXCEPT !.op = "capClear"]
  /\ UNCHANGED <<db, held, recorded, faults>>

CapClear ==
  /\ job.op = "capClear"
  /\ db' = [clear(db, job.oldest) EXCEPT
              !.preimages = IF job.flushPreimages THEN {} ELSE @]
  /\ job' = Idle
  /\ UNCHANGED <<disk, held, recorded, faults>>

\* Mutant: the preimages are not written.
CommitStartNodes(r) ==
  /\ job = Idle
  /\ held[r] > 0
  /\ job' = [op |-> "commit", root |-> r, batch |-> << >>, written |-> FALSE,
             todo |-> postorder(Nodes(db),
                                [h \in Nodes(db) |-> forChilds(db, h)], r)]
  /\ UNCHANGED <<db, disk, held, recorded, faults>>

\* Commit: all preimages are written before the first node.
CommitStart(r) ==
  /\ job = Idle
  /\ held[r] > 0
  /\ disk' = disk \cup db.preimages
  /\ job' = [op |-> "commit", root |-> r, batch |-> << >>, written |-> FALSE,
             todo |-> postorder(Nodes(db),
                                [h \in Nodes(db) |-> forChilds(db, h)], r)]
  /\ UNCHANGED <<db, held, recorded, faults>>

CommitPush ==
  LET h     == Head(job.todo)
      batch == IF h \in Nodes(db) THEN Append(job.batch, h) ELSE job.batch
      full  == h \in Nodes(db) /\ ValueSize(batch) >= IdealBatchSize
  IN  /\ job.op = "commit" /\ ~job.written /\ job.todo # << >>
      /\ disk' = IF full THEN Written(batch) ELSE disk
      /\ job' = [job EXCEPT !.todo = Tail(@), !.batch = batch, !.written = full]
      /\ UNCHANGED <<db, held, recorded, faults>>

\* Uncache a batch that has been written, under the lock.
CommitReplay ==
  /\ job.op = "commit" /\ job.written
  /\ db' = FoldLeft(Put, db, job.batch)
  /\ job' = [job EXCEPT !.batch = << >>, !.written = FALSE]
  /\ UNCHANGED <<disk, held, recorded, faults>>

CommitWrite ==
  /\ job.op = "commit" /\ ~job.written /\ job.todo = << >>
  /\ disk' = Written(job.batch)
  /\ job' = [job EXCEPT !.op = "commitEnd"]
  /\ UNCHANGED <<db, held, recorded, faults>>

CommitEnd ==
  /\ job.op = "commitEnd"
  /\ db' = [FoldLeft(Put, db, job.batch) EXCEPT !.preimages = {}]
  /\ job' = Idle
  /\ UNCHANGED <<disk, held, recorded, faults>>

\* A write of a batch fails, and Cap or Commit returns the error.
WriteFails ==
  /\ faults < MaxFaults
  /\ \/ job.op = "cap"
     \/ job.op = "commit" /\ ~job.written
  /\ job' = Idle
  /\ faults' = faults + 1
  /\ UNCHANGED <<db, disk, held, recorded>>

\* The process dies and comes back with an empty database over the same disk.
Crash ==
  /\ faults < MaxFaults
  /\ db' = NewDatabase
  /\ job' = Idle
  /\ held' = [r \in Roots |-> 0]
  /\ recorded' = recorded \cap disk
  /\ faults' = faults + 1
  /\ UNCHANGED <<disk>>

Next ==
  \/ \E r \in Roots : \/ \E U \in SUBSET Below(r) : CommitTrie(r, U)
                      \/ Dereference(r)
                      \/ CommitStart(r)
  \/ \E l \in Limits : CapStart(l)
  \/ CapPush \/ CapWrite \/ CapClear
  \/ CommitPush \/ CommitReplay \/ CommitWrite \/ CommitEnd
  \/ WriteFails
  \/ Crash

Spec == Init /\ [][Next]_vars

-----------------------------------------------------------------------------
(* Properties. *)

Keys == UNION {Preimages[r] : r \in Roots}

\* Every variable keeps its type; the empty hash stays in the dirty map, where
\* it holds the references of roots.
TypeOK ==
  /\ \A h \in DOMAIN db.dirties :
       /\ h \in Hashes \cup {NoHash}
       /\ db.dirties[h].parents \in Nat
       /\ db.dirties[h].tracked \/ db.dirties[h].children = << >>
       /\ Range(db.dirties[h].children) \subseteq Nat \ {0}
  /\ NoHash \in DOMAIN db.dirties
  /\ {db.oldest, db.newest} \subseteq Hashes \cup {NoHash}
  /\ disk \subseteq Hashes \cup Keys
  /\ job.op \in {"idle", "cap", "capClear", "commit", "commitEnd"}
  /\ held \in [Roots -> Nat]
  /\ faults \in 0 .. MaxFaults

\* Every node of every trie whose root the caller holds is in memory or on
\* disk, at every step of Dereference, Cap and Commit and after a failed write:
\* collecting one trie never takes a node that another one shares, and nothing
\* is uncached before it is written.
HeldReadable == Live \subseteq Available

\* A reader that does not find a node of a held trie at its first look-up finds
\* it at the second, with a step of Cap or Commit in between: what leaves the
\* memory is on the disk already.
ReadNeverMisses ==
  [][\A h \in Live : h \notin lookup(1) /\ faults' = faults => h \in lookup(2)']_vars

\* Whatever is on disk is there with all that it refers to, also between the
\* batches of Cap and Commit: the process may die at any moment and every root
\* that is found on disk opens a whole trie.
DiskComplete == \A h \in disk \cap Hashes : References(h) \subseteq disk

\* When Commit returns without an error its whole trie, with parts that were
\* flushed or committed long before, and every preimage handed over so far, is
\* on disk, where no step takes anything away.
CommitDurable ==
  [][/\ CommitEnd => Below(job.root) \cup recorded \subseteq disk'
     /\ disk \subseteq disk']_vars

\* The references to a node from what is cached: from nodes that hold it inside
\* and from maps of external children.
RefersTo(d, p, h) ==
  (IF p = NoHash THEN 0 ELSE Occurrences(Kids[p], h))
    + (IF h \in DOMAIN d.dirties[p].children THEN d.dirties[p].children[h] ELSE 0)

Referrers(d, S, h) == SumFunction([p \in S |-> RefersTo(d, p, h)])

\* The reference count of a node that is only in memory is exact, across
\* repeated children, shared subtrees and repeated references of roots; of a
\* node that was flushed and inserted again it may be too low, which costs a
\* read from disk and no data.
CountsExact ==
  \A h \in Nodes(db) : h \notin disk => db.dirties[h].parents = Referrers(db, DOMAIN db.dirties, h)

\* Nothing is kept that nobody needs: a node that is only in memory belongs to
\* a held trie.
NoGarbage == Nodes(db) \subseteq Live \cup disk

\* The flush list links every cached node once, in both directions, also after
\* nodes left it from the middle and after it ran empty with newest stale; and
\* a node comes after what it refers to, unless that is on disk.
FlushListExact ==
  LET n == Cardinality(Nodes(db))
      l[i \in 1 .. n + 1] ==
        IF i = 1 THEN db.oldest
        ELSE IF l[i - 1] \in DOMAIN db.dirties THEN db.dirties[l[i - 1]].flushNext ELSE NoHash
  IN  /\ l[n + 1] = NoHash
      /\ {l[i] : i \in 1 .. n} = Nodes(db)
      /\ n > 0 => l[n] = db.newest
      /\ \A i \in 2 .. n : db.dirties[l[i]].flushPrev = l[i - 1]
      /\ \A i, j \in 1 .. n : i < j /\ l[j] \in References(l[i]) => l[j] \in disk

\* The counters are the size of what is cached, after any mixture of repeated
\* references, collection, Cap and Commit: Cap decides by them what to flush.
SizesExact ==
  db.size = SumFunction([h \in Nodes(db) |-> HashLength + Size[h] + childrenOf(db, h)])
              + childSize * Cardinality(DOMAIN db.dirties[NoHash].children)

\* When Cap returns without an error the cache is within the allowance.
CapObeyed == [][CapClear => memory(db') <= job.limit]_vars

\* Collection takes what nobody holds, and only that.
HeldExactly == HeldReadable /\ NoGarbage

\* Reference counts, flush list and sizes agree with the nodes that are cached.
Bookkeeping == TypeOK /\ CountsExact /\ FlushListExact /\ SizesExact

\* What Commit and Cap promise holds when they return.
JobsDone == CommitDurable /\ CapObeyed
=============================================================================
