----------------------------- MODULE TrieProof ------------------------------
(***************************************************************************)
(* Merkle proofs over the trie: trie/proof.go.  A block's header carries   *)
(* the root of the tries of its chunks; a chunk travels with the proof     *)
(* that Prove makes and the receiving shard checks with VerifyProof.       *)
(*                                                                         *)
(* A proof is the set of its stored nodes: every receiver files the nodes  *)
(* it got under their own hash.                                            *)
(***************************************************************************)
EXTENDS Trie

\* hasher.proofHash: the stored form of a node, from its children's hashes.
proofHash(n) == hash([n EXCEPT !.hash = NilNode]).hashed.of

\* The expanded nodes on the path of a key, as far as the path goes.
RECURSIVE pathNodes(_, _, _)
pathNodes(db, n, key) ==
  IF key = << >> \/ n = NilNode THEN [nodes |-> << >>, err |-> FALSE]
  ELSE
  LET below == CASE n.kind = "short" -> pathNodes(db, n.val, Drop(key, Len(n.key)))
                 [] n.kind = "full"  -> pathNodes(db, n.children[Head(key)], Tail(key))
  IN
  CASE n.kind = "short" /\ ~IsPrefix(n.key, key) -> [nodes |-> <<n>>, err |-> FALSE]
    [] n.kind = "short" /\ IsPrefix(n.key, key) ->
         [nodes |-> <<n>> \o below.nodes, err |-> below.err]
    [] n.kind = "full" -> [nodes |-> <<n>> \o below.nodes, err |-> below.err]
    [] n.kind = "hash" -> IF Missing(db, n) THEN [nodes |-> << >>, err |-> TRUE]
                          ELSE pathNodes(db, resolveHash(db, n), key)

\* Mutant: one level too few.
ProveBelow(db, n, key, fromLevel) ==
  LET p == pathNodes(db, n, keybytesToBinary(key))
  IN  [proof |-> IF p.err THEN {}
                 ELSE {proofHash(p.nodes[i]) : i \in fromLevel + 2 .. Len(p.nodes)},
       err |-> p.err]

\* Prove: the stored nodes on the key's path, without the first fromLevel.
Prove(db, n, key, fromLevel) ==
  LET p == pathNodes(db, n, keybytesToBinary(key))
  IN  [proof |-> IF p.err THEN {}
                 ELSE {proofHash(p.nodes[i]) : i \in fromLevel + 1 .. Len(p.nodes)},
       err |-> p.err]

\* Mutant: the key of a short node is not compared.
RECURSIVE getAnyway(_, _)
getAnyway(n, key) ==
  CASE n.kind = "short" -> getAnyway(n.val, Drop(key, Len(n.key)))
    [] n.kind = "full"  -> getAnyway(n.children[IF key = << >> THEN 2 ELSE Head(key)],
                                     Drop(key, 1))
    [] OTHER -> [rest |-> key, node |-> n]

\* get with skipResolved: follow the key to a value, a hash or nothing.
RECURSIVE get(_, _)
get(n, key) ==
  CASE n.kind = "short" -> IF IsPrefix(n.key, key)
                           THEN get(n.val, Drop(key, Len(n.key)))
                           ELSE [rest |-> << >>, node |-> NilNode]
    [] n.kind = "full"  -> get(n.children[Head(key)], Tail(key))
    [] OTHER -> [rest |-> key, node |-> n]

RECURSIVE verifyFrom(_, _, _)
verifyFrom(want, key, proof) ==
  IF want.of \notin proof THEN [value |-> NoValue, err |-> TRUE]
  ELSE LET g == get(decodeNode(want, want.of), key)
       IN  CASE g.node.kind = "nil"   -> [value |-> NoValue, err |-> FALSE]
             [] g.node.kind = "hash"  -> verifyFrom(g.node, g.rest, proof)
             [] g.node.kind = "value" -> [value |-> g.node.value, err |-> FALSE]

VerifyProof(rootHash, key, proof) ==
  verifyFrom(rootHash, keybytesToBinary(key), proof)

-----------------------------------------------------------------------------
(* Proofs of several keys at once: a pruned trie, as pairs of a path and   *)
(* the stored node, or only the hash, found there.                         *)

\* Mutant: the path below a short node lacks its key.
RECURSIVE PruneProofsFlat(_, _, _)
PruneProofsFlat(want, path, proof) ==
  IF want.of \notin proof THEN {[path |-> binaryToCompact(path), node |-> want]}
  ELSE LET n == decodeNode(NilNode, want.of)
           here == [path |-> binaryToCompact(path), node |-> n]
       IN  IF n.kind = "short"
           THEN IF n.val.kind = "hash" THEN PruneProofsFlat(n.val, path, proof)
                ELSE {here}
           ELSE UNION {IF n.children[i].kind = "hash"
                       THEN PruneProofsFlat(n.children[i], Append(path, i), proof)
                       ELSE {here} : i \in 0 .. 1}

\* PruneProofs: descend where the proofs' nodes are known, stop at leaves and
\* at subtrees that are only known by hash.
RECURSIVE PruneProofs(_, _, _)
PruneProofs(want, path, proof) ==
  IF want.of \notin proof THEN {[path |-> binaryToCompact(path), node |-> want]}
  ELSE LET n == decodeNode(NilNode, want.of)
           here == [path |-> binaryToCompact(path), node |-> n]
       IN  IF n.kind = "short"
           THEN IF n.val.kind = "hash" THEN PruneProofs(n.val, path \o n.key, proof)
                ELSE {here}
           ELSE UNION {IF n.children[i].kind = "hash"
                       THEN PruneProofs(n.children[i], Append(path, i), proof)
                       ELSE {here} : i \in 0 .. 1}

\* Proves ignores the errors of Prove.
Proves(db, n, keys, fromLevel) ==
  PruneProofs(Hash(n), << >>, UNION {Prove(db, n, k, fromLevel).proof : k \in keys})

\* insertNode: put a node at a path; nothing is loaded on the way.
RECURSIVE insertNode(_, _, _)
insertNode(n, key, val) ==
  IF key = << >> THEN val
  ELSE
  CASE n.kind = "nil" -> newShort(key, val)
    [] n.kind = "short" ->
         LET m == prefixLen(key, n.key)
             old == insert(<< >>, NilNode, Drop(n.key, m + 1), n.val).node
             new == insertNode(NilNode, Drop(key, m + 1), val)
             branch == newFull([NoChildren EXCEPT ![n.key[m + 1]] = old, ![key[m + 1]] = new])
         IN  IF m = Len(n.key) THEN newShort(n.key, insertNode(n.val, Drop(key, m), val))
             ELSE IF m = 0 THEN branch
             ELSE newShort(SubSeq(key, 1, m), branch)
    [] n.kind = "full" ->
         newFull([n.children EXCEPT ![Head(key)] = insertNode(@, Tail(key), val)])

\* VerifyProofs: rebuild the trie from the pairs, in the order of their paths
\* (the order of the database's iterator), and compare the root.
TryUpdateNode(n, e) == insertNode(n, compactToBinary(e.path), e.node)
VerifyProofs(rootHash, pairs) ==
  LET ByPath(a, b) == Less(a.path, b.path)
  IN  Hash(FoldLeft(TryUpdateNode, NilNode, SetToSortSeq(pairs, ByPath))) = rootHash

-----------------------------------------------------------------------------
(* Range proofs. *)

\* proofToPath: load the nodes on the path of a key into the tree.
RECURSIVE proofToPath(_, _, _, _)
proofToPath(n, key, proof, allowNonExistent) ==
  LET absent == [node |-> n, value |-> NoValue, err |-> ~allowNonExistent]
      onPath == n.kind = "short" => IsPrefix(n.key, key)
      rest == IF n.kind = "short" THEN Drop(key, Len(n.key)) ELSE Tail(key)
      child == IF n.kind = "short" THEN n.val ELSE n.children[Head(key)]
      r == IF child.kind = "hash"
           THEN proofToPath(decodeNode(child, child.of), rest, proof, allowNonExistent)
           ELSE proofToPath(child, rest, proof, allowNonExistent)
  IN  IF ~onPath \/ child = NilNode THEN absent
      ELSE IF child.kind = "value" THEN [node |-> n, value |-> child.value, err |-> FALSE]
      ELSE IF child.kind = "hash" /\ child.of \notin proof THEN [absent EXCEPT !.err = TRUE]
      ELSE IF n.kind = "short" THEN [r EXCEPT !.node = [n EXCEPT !.val = r.node]]
      ELSE [r EXCEPT !.node = [n EXCEPT !.children[Head(key)] = r.node]]

EdgePath(rootHash, n, key, proof, allowNonExistent) ==
  IF n = NilNode /\ rootHash.of \notin proof
  THEN [node |-> n, value |-> NoValue, err |-> TRUE]
  ELSE proofToPath(IF n = NilNode THEN decodeNode(rootHash, rootHash.of) ELSE n,
                   keybytesToBinary(key), proof, allowNonExistent)

dirtied(n) == [n EXCEPT !.hash = NilNode, !.dirty = TRUE]

\* The ways in which cutting a range out fails: a panic, the error of an empty
\* range.
PanicNode == [kind |-> "panic"]
EmptyRange == [kind |-> "emptyRange"]
Failed(n) == n \in {PanicNode, EmptyRange}

\* A node over what is left of its child.
overVal(n, r) == IF Failed(r) THEN r ELSE [dirtied(n) EXCEPT !.val = r]
overChild(n, i, r) == IF Failed(r) THEN r ELSE [dirtied(n) EXCEPT !.children[i] = r]
emptied(n, gone) ==
  [n EXCEPT !.children = [i \in 0 .. 2 |-> IF i \in gone THEN NilNode ELSE @[i]]]

\* unset: drop everything on one side of a path below a fork.  Dropping the
\* right side runs over the children up to index 15 of an array of three, so
\* it panics at the first full node.
RECURSIVE unset(_, _, _)
unset(n, key, removeLeft) ==
  CASE n.kind = "nil" -> n
    [] n.kind = "full" ->
         IF ~removeLeft THEN PanicNode
         ELSE overChild(emptied(n, 0 .. Head(key) - 1), Head(key),
                        unset(n.children[Head(key)], Tail(key), removeLeft))
    [] n.kind = "short" ->
         IF ~IsPrefix(n.key, key)
         THEN IF Compare(n.key, key) = (IF removeLeft THEN -1 ELSE 1) THEN NilNode ELSE n
         ELSE IF n.val.kind = "value" THEN NilNode
         ELSE overVal(n, unset(n.val, Drop(key, Len(n.key)), removeLeft))
    [] OTHER -> PanicNode

\* One edge of the range runs through a child of the node, or through the
\* node's value.
unsetChild(n, key, removeLeft) ==
  IF Failed(n) THEN n
  ELSE overChild(n, Head(key), unset(n.children[Head(key)], Tail(key), removeLeft))
unsetVal(n, key, removeLeft) ==
  IF n.val.kind = "value" THEN NilNode
  ELSE overVal(n, unset(n.val, Drop(key, Len(n.key)), removeLeft))

\* How a path compares with the key of a short node.
against(key, n) ==
  Compare(SubSeq(key, 1, IF Len(key) < Len(n.key) THEN Len(key) ELSE Len(n.key)), n.key)

\* unsetInternal: drop what lies between two paths.  NilNode for the whole tree.
RECURSIVE unsetInternal(_, _, _)
unsetInternal(n, left, right) ==
  CASE n.kind = "short" /\ against(left, n) = 0 /\ against(right, n) = 0 ->
         overVal(n, unsetInternal(n.val, Drop(left, Len(n.key)), Drop(right, Len(n.key))))
    [] n.kind = "short" /\ against(left, n) # 0 /\ against(right, n) # 0 ->
         IF against(left, n) = against(right, n) THEN EmptyRange ELSE NilNode
    [] n.kind = "short" /\ against(left, n) = 0 /\ against(right, n) # 0 ->
         unsetVal(n, left, FALSE)
    [] n.kind = "short" /\ against(left, n) # 0 /\ against(right, n) = 0 ->
         unsetVal(n, right, TRUE)
    [] n.kind = "full" ->
         IF Head(left) = Head(right) /\ n.children[Head(left)] # NilNode
         THEN overChild(n, Head(left),
                        unsetInternal(n.children[Head(left)], Tail(left), Tail(right)))
         ELSE unsetChild(unsetChild(emptied(n, Head(left) + 1 .. Head(right) - 1),
                                    left, FALSE), right, TRUE)
    [] OTHER -> PanicNode

Accepted == "accepted"
Rejected == "rejected"
Panicked == "panicked"

\* hasRightElement: is there anything to the right of a path?  A node that is
\* only known by hash makes it panic.
RECURSIVE hasRightElement(_, _)
hasRightElement(n, key) ==
  CASE n.kind = "nil" \/ n.kind = "value" -> "no"
    [] n.kind = "full" -> IF \E i \in Head(key) + 1 .. 1 : n.children[i] # NilNode
                          THEN "yes"
                          ELSE hasRightElement(n.children[Head(key)], Tail(key))
    [] n.kind = "short" -> IF IsPrefix(n.key, key)
                           THEN hasRightElement(n.val, Drop(key, Len(n.key)))
                           ELSE IF Compare(n.key, key) = 1 THEN "yes" ELSE "no"
    [] n.kind = "hash" -> Panicked

\* Rebuild a tree from the claimed pairs, in key order, over an empty
\* database.  The errors of TryUpdate are ignored.
Refilled(n, claim) ==
  LET update(t, k) ==
        LET r == insert(<< >>, t, keybytesToBinary(k), valueNode(claim[k]))
        IN  IF r.err THEN t ELSE r.node
  IN  FoldLeft(update, n, SetToSortSeq(DOMAIN claim, Less))

\* VerifyRangeProof of a claimed map for the keys from first to last.
VerifyAll(rootHash, claim) ==
  IF Hash(Refilled(NilNode, claim)) = rootHash THEN Accepted ELSE Rejected

\* Mutant: a value at the first key itself does not matter.
VerifyNoneRight(rootHash, first, proof) ==
  LET p == EdgePath(rootHash, NilNode, first, proof, TRUE)
      more == hasRightElement(p.node, keybytesToBinary(first))
  IN  IF p.err THEN Rejected
      ELSE CASE more = "no" -> Accepted [] more = "yes" -> Rejected [] OTHER -> Panicked

VerifyNone(rootHash, first, proof) ==
  LET p == EdgePath(rootHash, NilNode, first, proof, TRUE)
      more == hasRightElement(p.node, keybytesToBinary(first))
  IN  IF p.err \/ p.value # NoValue THEN Rejected
      ELSE CASE more = "no" -> Accepted [] more = "yes" -> Rejected [] OTHER -> Panicked

\* Mutant: the value is not compared.
VerifyOneAny(rootHash, first, claim, proof) ==
  LET p == EdgePath(rootHash, NilNode, first, proof, FALSE)
  IN  IF p.err \/ DOMAIN claim # {first} THEN Rejected
      ELSE IF hasRightElement(p.node, keybytesToBinary(first)) = Panicked THEN Panicked
      ELSE Accepted

VerifyOne(rootHash, first, claim, proof) ==
  LET p == EdgePath(rootHash, NilNode, first, proof, FALSE)
  IN  IF p.err \/ DOMAIN claim # {first} THEN Rejected
      ELSE IF p.value # claim[first] THEN Rejected
      ELSE IF hasRightElement(p.node, keybytesToBinary(first)) = Panicked THEN Panicked
      ELSE Accepted

\* The rest of the tree, with the claim filled in, has to have the root.  When
\* the whole tree was unset, the code goes on with the node it came from.
VerifyHull(rootHash, claim, whole, hull) ==
  LET top == SetToSortSeq(DOMAIN claim, Less)[Cardinality(DOMAIN claim)]
  IN  CASE hull = PanicNode  -> Panicked
        [] hull = EmptyRange -> Rejected
        [] ~Failed(hull) ->
             IF Hash(Refilled(hull, claim)) # rootHash THEN Rejected
             ELSE IF hasRightElement(IF hull = NilNode THEN whole ELSE hull,
                                     keybytesToBinary(top)) = Panicked
             THEN Panicked ELSE Accepted

VerifyLast(rootHash, first, last, claim, p) ==
  IF p.err THEN Rejected
  ELSE VerifyHull(rootHash, claim, p.node,
         unsetInternal(p.node, keybytesToBinary(first), keybytesToBinary(last)))

VerifyFirst(rootHash, first, last, claim, proof, p) ==
  IF p.err THEN Rejected
  ELSE VerifyLast(rootHash, first, last, claim,
                  EdgePath(rootHash, p.node, last, proof, TRUE))

VerifyTwoEdges(rootHash, first, last, claim, proof) ==
  IF ~Less(first, last) \/ Len(first) # Len(last) THEN Rejected
  ELSE VerifyFirst(rootHash, first, last, claim, proof,
                   EdgePath(rootHash, NilNode, first, proof, TRUE))

VerifyRangeProof(rootHash, first, last, claim, proof) ==
  IF DOMAIN claim = {} THEN VerifyNone(rootHash, first, proof)
  ELSE IF Cardinality(DOMAIN claim) = 1 /\ first = last
  THEN VerifyOne(rootHash, first, claim, proof)
  ELSE VerifyTwoEdges(rootHash, first, last, claim, proof)

-----------------------------------------------------------------------------
(* Properties. *)

\* A proof made by Prove convinces VerifyProof of exactly what the trie holds,
\* a value or the absence of one, whatever part of the trie is in memory: the
\* receiving shard accepts every chunk its sender proved.
ProofComplete ==
  \A k \in Keys :
    LET p == Prove(store, root, k, 0)
    IN  IF p.err THEN lost > 0
        ELSE content # Empty =>
               VerifyProof(Hash(root), k, p.proof) = [value |-> content[k], err |-> FALSE]

\* All nodes of other proofs and of older versions of the trie, whichever one of
\* them is missing, never make VerifyProof return a wrong value: it fails or
\* answers with the trie's value for the key.  (It follows a single path, so
\* what else is missing makes no difference.)
ProofSound ==
  root.kind = "hash" =>
  LET known == DOMAIN store \cup UNION {Prove(store, root, k, 0).proof : k \in Keys}
  IN  \A k \in Keys :
        \A drop \in {{}} \cup {{c} : c \in known} :
          LET r == VerifyProof(Hash(root), k, known \ drop)
          IN  r.err \/ r.value = content[k]

\* No key is a prefix of another, as for the hashed keys of accounts and the
\* RLP keys of chunks: full nodes then carry no values, and paths are ordered
\* as keys are.
PrefixFree(S) == \A a, b \in S : a # b => ~IsPrefix(a, b)

\* The pruned trie that Proves makes for any set of keys is accepted by
\* VerifyProofs: what is left out is replaced by its hash at its path.
ProofsComplete ==
  root.kind = "hash" /\ lost = 0 /\ PrefixFree(Present(content)) =>
    \A ks \in SUBSET Keys \ {{}} :
      VerifyProofs(Hash(root), Proves(store, root, ks, 0))

\* What a range proof may claim: values for some keys from first to last.
InRange(k, first, last) == ~Less(k, first) /\ ~Less(last, k)
Claims(first, last) ==
  UNION {[S -> Values] : S \in SUBSET {k \in Keys : InRange(k, first, last)}}
RangeProof(first, last) ==
  Prove(store, root, first, 0).proof \cup Prove(store, root, last, 0).proof

\* A claim about a range is accepted only if it has exactly the trie's entries
\* from first to last: nothing left out, nothing added, no value changed.  An
\* empty claim is accepted only when nothing lies at first or to its right.
\* (Whether a true claim is accepted is TwoEdgesAccepted.)
RangeSound ==
  root.kind = "hash" /\ lost = 0 =>
    \A first, last \in {k \in Keys : PrefixFree(Present(content) \cup {k})} :
      \A claim \in Claims(first, last) :
        VerifyRangeProof(Hash(root), first, last, claim, RangeProof(first, last)) = Accepted =>
          /\ \A k \in DOMAIN claim : claim[k] = content[k]
          /\ \A k \in Present(content) \ DOMAIN claim :
               IF claim = << >> THEN Less(k, first) ELSE ~InRange(k, first, last)

\* Without an edge proof, the claim is accepted exactly when it is the whole
\* trie; with one key at both edges, exactly when it is that key's value.
RangeEdges ==
  root.kind = "hash" /\ lost = 0 =>
    /\ \A claim \in UNION {[S -> Values] : S \in SUBSET Keys} :
         VerifyAll(Hash(root), claim) = Accepted
           <=> claim = [k \in Present(content) |-> content[k]]
    /\ \A k \in Keys, v \in Values :
         VerifyRangeProof(Hash(root), k, k, [x \in {k} |-> v], RangeProof(k, k)) = Accepted
           <=> content[k] = v

\* What VerifyRangeProof says, for the trie's own leaves from any entry to a later
\* one, with the proofs of both.
TwoEdges(Says(_)) ==
  root.kind = "hash" /\ lost = 0 /\ PrefixFree(Present(content)) =>
    \A first, last \in Present(content) :
      Less(first, last) /\ Len(first) = Len(last) =>
        LET leaves == {k \in Present(content) : InRange(k, first, last)}
        IN  Says(VerifyRangeProof(Hash(root), first, last, [k \in leaves |-> content[k]],
                                  RangeProof(first, last)))

\* The comment of VerifyRangeProof (proof.go:522) and TestRangeProof
\* (proof_test.go:251): the trie's leaves between two entries are accepted.
\* unset panics on them as soon as the left edge passes a full node below the
\* fork (proof.go:441).
TwoEdgesAccepted == LET IsAccepted(r) == r = Accepted IN TwoEdges(IsAccepted)

\* They are never rejected: cutting the trie open between two entries and filling
\* their leaves in again gives its root, wherever the cut does not panic.
TwoEdgesRestored == LET NotRejected(r) == r # Rejected IN TwoEdges(NotRejected)

\* Honest proofs of one key or several are accepted for what the trie holds.
ProofsAccepted == ProofComplete /\ ProofsComplete

\* With two edges, range proofs are accepted only for what the trie holds, and
\* that is never rejected; without an edge and for a single key they are accepted
\* exactly for what it holds.
RangesExact == RangeSound /\ TwoEdgesRestored /\ RangeEdges
=============================================================================
