---------------------------- MODULE TrieIterator ----------------------------
(***************************************************************************)
(* Iteration over the trie: trie/iterator.go.  A node iterator is a stack  *)
(* of the nodes from the root to the current one, each with the index of   *)
(* the child to go to next, and the path to the current node.  Creating    *)
(* one hashes the trie, so every node but a value has a hash.              *)
(***************************************************************************)
EXTENDS TrieProof

NoHash == NilNode

\* err: "no", "end" (of the iteration), "missing" (a node is not there) or
\* "seek" (a node is not there, and the start was not reached).
NewIt(start) == [start |-> start, stack |-> << >>, path |-> << >>, err |-> "no"]

\* nodeIteratorState.resolve: load a node that is only known by its hash.
entry(db, n, h, pathlen) ==
  IF n.kind = "hash"
  THEN [node |-> resolveHash(db, n), hash |-> n, index |-> -1, pathlen |-> pathlen]
  ELSE [node |-> n, hash |-> h, index |-> -1, pathlen |-> pathlen]

cache(n) == IF Expanded(n) THEN n.hash ELSE NoHash

\* Mutant: the value of a full node is passed over.
nextChildNoValue(e) ==
  LET n == e.node
      todo == {i \in e.index + 1 .. 1 : n.children[i] # NilNode}
  IN  CASE n.kind = "full" -> IF todo = {} THEN 3
                              ELSE CHOOSE i \in todo : \A j \in todo : i <= j
        [] n.kind = "short" -> IF e.index < 0 THEN 0 ELSE 3
        [] OTHER -> 3

\* The index of the child that nextChild goes to; 3 when there is none left.
nextChild(e) ==
  LET n == e.node
      todo == {i \in e.index + 1 .. 2 : n.children[i] # NilNode}
  IN  CASE n.kind = "full" -> IF todo = {} THEN 3
                              ELSE CHOOSE i \in todo : \A j \in todo : i <= j
        [] n.kind = "short" -> IF e.index < 0 THEN 0 ELSE 3
        [] OTHER -> 3

pop(it) ==
  [it EXCEPT !.path = SubSeq(it.path, 1, Last(it.stack).pathlen),
             !.stack = Front(it.stack)]

\* peek: the iterator after the pops it makes, and the entry it would push.
\* The pops stay even when nothing is pushed.
RECURSIVE climb(_)
climb(it) ==
  IF it.stack = << >> \/ nextChild(Last(it.stack)) # 3 THEN it ELSE climb(pop(it))

\* The child kid, number i of the top node, at the end of the path way.
offer(db, it, i, kid, way) ==
  IF kid.kind = "hash" /\ Missing(db, kid)
  THEN [it |-> it, err |-> "missing", push |-> << >>, path |-> it.path \o way]
  ELSE [it |-> [it EXCEPT !.stack[Len(it.stack)].index = i - 1],
        err |-> "no",
        push |-> <<entry(db, kid, cache(kid), Len(it.path))>>,
        path |-> it.path \o way]

offerChild(db, it, n, i) ==
  IF n.kind = "full" THEN offer(db, it, i, n.children[i], <<i>>)
                     ELSE offer(db, it, i, n.val, n.key)

offerNext(db, it) ==
  IF it.stack = << >> THEN [it |-> it, err |-> "end", push |-> << >>, path |-> << >>]
  ELSE offerChild(db, it, Last(it.stack).node, nextChild(Last(it.stack)))

peek(db, t, it, descend) ==
  IF it.stack # << >> THEN offerNext(db, climb(IF descend THEN it ELSE pop(it)))
  ELSE IF t.kind = "hash" /\ Missing(db, t)
  THEN [it |-> it, err |-> "missing", push |-> << >>, path |-> << >>]
  ELSE [it |-> it, err |-> "no", path |-> << >>,
        push |-> <<entry(db, t, IF t = NilNode THEN NoHash ELSE hash(t).hashed, 0)>>]

\* push: enter the entry; the parent's index moves past it.
push(p) ==
  LET st == p.it.stack
  IN  [p.it EXCEPT !.stack = (IF st = << >> THEN << >>
                              ELSE [st EXCEPT ![Len(st)].index = @ + 1]) \o p.push,
                   !.path = p.path, !.err = "no"]

seekKey(it) == Front(keybytesToBinary(it.start))
seekPeek(db, t, it) == peek(db, t, it, IsPrefix(it.path, seekKey(it)))

\* seek: move to just before the first node whose path is not below the key.
RECURSIVE seekOn(_, _, _)
seekOn(db, t, p) ==
  CASE p.err = "end"     -> [p.it EXCEPT !.err = "end"]
    [] p.err = "missing" -> [p.it EXCEPT !.err = "seek"]
    [] p.err = "no" -> IF Less(p.path, seekKey(p.it))
                       THEN seekOn(db, t, seekPeek(db, t, push(p)))
                       ELSE [p.it EXCEPT !.err = "no"]
seek(db, t, it) == seekOn(db, t, seekPeek(db, t, it))

newNodeIterator(db, t, start) == seek(db, t, NewIt(start))

\* Next: the iterator at the next node, or with err set when there is none.
\* A failed seek is tried again first.
enter(p) == IF p.err # "no" THEN [p.it EXCEPT !.err = p.err] ELSE push(p)
nextFrom(db, t, it, descend) ==
  IF it.err \in {"end", "seek"} THEN it ELSE enter(peek(db, t, it, descend))
next(db, t, it, descend) ==
  nextFrom(db, t, IF it.err = "seek" THEN seek(db, t, it) ELSE it, descend)

AtEnd(it) == it.err # "no"
Top(it) == Last(it.stack)
Leaf(it) == hasTermBin(it.path)
LeafKey(it) == binaryToKeybytes(it.path)
LeafBlob(it) == Top(it).node.value
HashAt(it) == IF it.stack = << >> THEN NoHash ELSE Top(it).hash

\* LeafProof: the stored nodes from the root down to the leaf.
LeafProof(it) ==
  {hash([it.stack[i].node EXCEPT !.hash = NilNode]).hashed.of : i \in 1 .. Len(it.stack) - 1}

\* Iterator: the leaves from an iterator's position on, and how it ended.
RECURSIVE LeavesAt(_, _, _)
LeavesAt(db, t, it) ==
  IF AtEnd(it) THEN [leaves |-> << >>, err |-> it.err]
  ELSE LET here == IF Leaf(it) THEN <<[key |-> LeafKey(it), value |-> LeafBlob(it),
                                       proof |-> LeafProof(it)]>> ELSE << >>
       IN  [LeavesAt(db, t, next(db, t, it, TRUE)) EXCEPT !.leaves = here \o @]
Leaves(db, t, it) == LeavesAt(db, t, next(db, t, it, TRUE))

-----------------------------------------------------------------------------
(* Two tries at once.  ord is the order of the bytes of two different      *)
(* hashes or values, which is arbitrary.                                   *)

compareHash(x, y, ord) ==
  IF x = y THEN 0 ELSE IF x = NoHash THEN -1 ELSE IF y = NoHash THEN 1 ELSE ord

\* Mutant: the values of leaves are not compared.
compareNodesByHash(a, b, ord) ==
  IF a.path # b.path THEN Compare(a.path, b.path)
  ELSE IF HashAt(a) # HashAt(b) THEN compareHash(HashAt(a), HashAt(b), ord) ELSE 0

compareNodes(a, b, ord) ==
  IF a.path # b.path THEN Compare(a.path, b.path)
  ELSE IF HashAt(a) # HashAt(b) THEN compareHash(HashAt(a), HashAt(b), ord)
  ELSE IF Leaf(a) /\ LeafBlob(a) # LeafBlob(b) THEN ord ELSE 0

\* differenceIterator.Next: the next node of b that a does not have.  Common
\* subtrees are skipped in both.
behind(d, a) == IF AtEnd(a) THEN [d EXCEPT !.eof = TRUE] ELSE [d EXCEPT !.a = a]
common(d, a, b) == IF AtEnd(b) THEN [d EXCEPT !.b = b] ELSE behind([d EXCEPT !.b = b], a)

RECURSIVE skipCommon(_, _, _, _, _)
skipCommon(db, ta, tb, d, ord) ==
  LET bare == HashAt(d.a) = NoHash
      order == compareNodes(d.a, d.b, ord)
  IN  IF d.eof \/ AtEnd(d.b) \/ order = 1 THEN d
      ELSE skipCommon(db, ta, tb,
             IF order = -1 THEN behind(d, next(db, ta, d.a, TRUE))
             ELSE common(d, next(db, ta, d.a, bare), next(db, tb, d.b, bare)), ord)

nextDifference(db, ta, tb, d, ord) ==
  skipCommon(db, ta, tb, [d EXCEPT !.b = next(db, tb, d.b, TRUE)], ord)

RECURSIVE Difference(_, _, _, _, _)
Difference(db, ta, tb, d, ord) ==
  IF AtEnd(d.b) THEN << >>
  ELSE (IF Leaf(d.b) THEN <<<<LeafKey(d.b), LeafBlob(d.b)>>>> ELSE << >>)
         \o Difference(db, ta, tb, nextDifference(db, ta, tb, d, ord), ord)

\* NewDifferenceIterator: the leaves of the trie tb that ta does not have.
NewDifferenceIterator(db, ta, tb, ord) ==
  Difference(db, ta, tb,
             nextDifference(db, ta, tb,
               [a |-> next(db, ta, newNodeIterator(db, ta, << >>), TRUE),
                b |-> newNodeIterator(db, tb, << >>), eof |-> FALSE], ord), ord)

\* unionIterator over two tries: a heap of iterators, each with its trie.
heapPush(h, x, ord) ==
  IF AtEnd(x.it) THEN h
  ELSE IF h # << >> /\ compareNodes(x.it, h[1].it, ord) = -1 THEN <<x>> \o h
  ELSE Append(h, x)
advance(db, x, descend) == [x EXCEPT !.it = next(db, x.trie, x.it, descend)]

\* Whatever stands at the same node as the least one is moved past it.
RECURSIVE skipSame(_, _, _, _)
skipSame(db, least, h, ord) ==
  IF h = << >> \/ compareNodes(least.it, Head(h).it, ord) # 0 THEN h
  ELSE skipSame(db, least,
         heapPush(Tail(h), advance(db, h[1], HashAt(h[1].it) = NoHash), ord), ord)

nextUnion(db, h, ord) ==
  heapPush(skipSame(db, h[1], Tail(h), ord), advance(db, h[1], TRUE), ord)

RECURSIVE Union(_, _, _)
Union(db, h, ord) ==
  IF h = << >> THEN << >>
  ELSE (IF Leaf(h[1].it) THEN <<<<LeafKey(h[1].it), LeafBlob(h[1].it)>>>> ELSE << >>)
         \o Union(db, nextUnion(db, h, ord), ord)

NewUnionIterator(db, ta, tb, ord) ==
  Union(db, nextUnion(db, <<[trie |-> ta, it |-> newNodeIterator(db, ta, << >>)],
                            [trie |-> tb, it |-> newNodeIterator(db, tb, << >>)]>>, ord), ord)

-----------------------------------------------------------------------------
(* Properties. *)

\* The order of iteration is the order of the paths; a key comes after the
\* keys it is a prefix of.
PathLess(a, b) == Less(keybytesToBinary(a), keybytesToBinary(b))
EntriesFrom(m, start) ==
  SetToSortSeq({k \in Present(m) : ~Less(keybytesToBinary(k), Front(keybytesToBinary(start)))},
               PathLess)

\* Creating an iterator hashes the trie first, as HashRoot does.
Hashed(n) == n = hash(n).cached

\* From any start, present or not, the iterator visits exactly the keys from
\* there on, in order, each with its value and a proof that verifies, however
\* much of the trie has to be loaded; it stops early only with an error.
IterationExact ==
  Hashed(root) =>
    \A start \in Keys \cup {<< >>} :
        LET r == Leaves(store, root, newNodeIterator(store, root, start))
            want == EntriesFrom(content, start)
        IN  IF r.err # "end" THEN lost > 0 /\ Len(r.leaves) <= Len(want)
            ELSE /\ [i \in DOMAIN r.leaves |-> r.leaves[i].key] = want
                 /\ \A i \in DOMAIN want :
                      /\ r.leaves[i].value = content[want[i]]
                      /\ VerifyProof(Hash(root), want[i], r.leaves[i].proof)
                           = [value |-> content[want[i]], err |-> FALSE]

\* The iterators over a committed version c and the trie t with the contents m:
\* the difference is what is new or changed in m, the union the entries of both.
PairExact(c, t, m) ==
  LET pairs(map) == {<<k, map[k]>> : k \in Present(map)}
      old == IF c.root = EmptyRoot THEN NilNode ELSE c.root
  IN  \A ord \in {-1, 1} :
        LET new == NewDifferenceIterator(store, old, t, ord)
            all == NewUnionIterator(store, old, t, ord)
        IN  /\ ToSet(new) = pairs(m) \ pairs(c.content)
            /\ IsInjective(new)
            /\ ToSet(all) = pairs(m) \cup pairs(c.content)
            /\ IsInjective(all)

\* Against every committed version, now and after any entry gets another value,
\* the difference iterator gives exactly the entries that are new or changed,
\* and the union iterator the entries of both, once each, though both skip whole
\* subtrees by their hash and only a leaf's value tells a changed entry apart.
TwoTriesExact ==
  lost = 0 /\ Hashed(root) =>
    \A c \in committed :
      /\ PairExact(c, root, content)
      /\ \A k \in Present(content) : \A v \in Values \ {content[k]} :
           LET r == insert(store, root, keybytesToBinary(k), valueNode(v))
           IN  PairExact(c, hash(r.node).cached, [content EXCEPT ![k] = v])

\* Iterators over one trie and over two lose no entry and repeat none.
IteratorsExact == IterationExact /\ TwoTriesExact
=============================================================================
