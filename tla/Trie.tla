-------------------------------- MODULE Trie --------------------------------
(***************************************************************************)
(* The Merkle Patricia trie of trie/trie.go, hasher.go, committer.go and   *)
(* node.go, as a node's state and the block's transaction roots use it:    *)
(* a tree in memory, parts of which are only known by their hash and are   *)
(* loaded from the node database when a walk reaches them.                 *)
(*                                                                         *)
(* The trie is binary: a full node has the children 0 and 1 and, at 2, the *)
(* value of the key that ends there.                                       *)
(*                                                                         *)
(* The hash of a node is modelled by the stored (collapsed) node itself,   *)
(* so equal hashes mean equal nodes, which is what a collision-free hash   *)
(* gives.  Nodes whose encoding is below 32 bytes, which the code embeds   *)
(* in their parent, do not occur: every value stored by the program is a   *)
(* 32-byte hash or an account.  The hasher's parallel mode, taken from 100 *)
(* changes on, computes the same tree and is not distinguished.            *)
(***************************************************************************)
EXTENDS TrieEncoding, FiniteSets

CONSTANTS Keys,        \* keys (sequences of bytes) that clients use
          Values,      \* non-empty values
          Writes,      \* the pairs of a key and a value that clients write
          Paths,       \* compact paths that TryGetNode is asked for
          NoValue,     \* the empty value: Get's answer for an absent key
          MaxEntries,  \* bound: entries the trie holds at a time
          MaxCommits   \* bound: commits and lost nodes together

ASSUME ValueAssumption == NoValue \notin Values /\ Writes \subseteq Keys \X Values
ASSUME BoundAssumption == MaxEntries \in Nat /\ MaxCommits \in Nat

VARIABLES root,        \* Trie.root
          store,       \* the node database: stored nodes by hash
          content,     \* ghost: the map a client has written
          committed,   \* ghost: the roots committed so far, with their content
          lost         \* how many nodes the database has lost

vars == <<root, store, content, committed, lost>>

-----------------------------------------------------------------------------
(* Nodes of node.go. *)

NilNode == [kind |-> "nil"]
valueNode(v) == [kind |-> "value", value |-> v]
hashNode(c) == [kind |-> "hash", of |-> c]
shortNode(key, val, h, d) ==
  [kind |-> "short", key |-> key, val |-> val, hash |-> h, dirty |-> d]
fullNode(kids, h, d) ==
  [kind |-> "full", children |-> kids, hash |-> h, dirty |-> d]

\* The stored form: the compact key, children by hash, no flags.
rawShort(key, val) == [kind |-> "rawShort", key |-> key, val |-> val]
rawFull(kids) == [kind |-> "rawFull", children |-> kids]

NoChildren == [i \in 0 .. 2 |-> NilNode]

\* nodeFlag{dirty: true}: no cached hash, must be written.
newShort(key, val) == shortNode(key, val, NilNode, TRUE)
newFull(kids) == fullNode(kids, NilNode, TRUE)

\* A node read back from its stored form: it carries the hash h it was asked
\* for by (or none), and is clean.
decodeNode(h, c) ==
  IF c.kind = "rawShort" THEN shortNode(compactToBinary(c.key), c.val, h, FALSE)
  ELSE fullNode(c.children, h, FALSE)

\* resolveHash: load a node by its hash.
Missing(db, n) == n.of \notin DOMAIN db
resolveHash(db, n) == decodeNode(n, db[n.of])

Drop(s, n) == SubSeq(s, n + 1, Len(s))

-----------------------------------------------------------------------------
(* Reading. *)

Found(v, n, r, e) == [value |-> v, node |-> n, resolved |-> r, err |-> e]

\* The value of the rest of a key below a node, and the node with what was
\* loaded on the way.  A missing node makes it an error.
RECURSIVE tryGet(_, _, _)
tryGet(db, n, key) ==
  CASE n.kind = "nil"   -> Found(NoValue, n, FALSE, FALSE)
    [] n.kind = "value" -> Found(n.value, n, FALSE, FALSE)
    [] n.kind = "short" ->
         IF ~IsPrefix(n.key, key) THEN Found(NoValue, n, FALSE, FALSE)
         ELSE LET r == tryGet(db, n.val, Drop(key, Len(n.key)))
              IN  IF r.resolved /\ ~r.err
                  THEN [r EXCEPT !.node = [n EXCEPT !.val = r.node]]
                  ELSE [r EXCEPT !.node = n]
    [] n.kind = "full"  ->
         LET r == tryGet(db, n.children[Head(key)], Tail(key))
         IN  IF r.resolved /\ ~r.err
             THEN [r EXCEPT !.node = [n EXCEPT !.children[Head(key)] = r.node]]
             ELSE [r EXCEPT !.node = n]
    [] n.kind = "hash"  ->
         IF Missing(db, n) THEN Found(NoValue, n, TRUE, TRUE)
         ELSE [tryGet(db, resolveHash(db, n), key) EXCEPT !.resolved = TRUE]

Get(db, n, key) == tryGet(db, n, keybytesToBinary(key))

\* The stored node at the end of a path: it is asked of the database by the
\* hash that is known for it, even when the node is in memory.  A node without
\* a cached hash is an error; no node at all at the end of the path panics.
Item(i, n, r, o) == [item |-> i, node |-> n, resolved |-> r, out |-> o]

RECURSIVE tryGetNode(_, _, _)
tryGetNode(db, n, path) ==
  LET h == IF n.kind = "hash" THEN n ELSE IF n.kind = "value" THEN NilNode ELSE n.hash
      below == CASE n.kind = "short" -> tryGetNode(db, n.val, Drop(path, Len(n.key)))
                 [] n.kind = "full"  -> tryGetNode(db, n.children[Head(path)], Tail(path))
                 [] n.kind = "hash"  -> tryGetNode(db, resolveHash(db, n), path)
      keep(m) == [below EXCEPT !.node = IF below.resolved /\ below.out = "ok" THEN m ELSE n]
  IN
  IF path = << >>
  THEN IF n = NilNode THEN Item(NilNode, n, FALSE, "panic")
       ELSE IF h = NilNode THEN Item(NilNode, n, FALSE, "error")
       ELSE IF Missing(db, h) THEN Item(NilNode, n, TRUE, "error")
       ELSE Item(db[h.of], n, TRUE, "ok")
  ELSE
  CASE n.kind \in {"nil", "value"} -> Item(NilNode, NilNode, FALSE, "ok")
    [] n.kind = "short" -> IF IsPrefix(n.key, path) THEN keep([n EXCEPT !.val = below.node])
                           ELSE Item(NilNode, n, FALSE, "ok")
    [] n.kind = "full" -> keep([n EXCEPT !.children[Head(path)] = below.node])
    [] n.kind = "hash" -> IF Missing(db, n) THEN Item(NilNode, n, TRUE, "error")
                          ELSE [below EXCEPT !.resolved = TRUE]

-----------------------------------------------------------------------------
(* Writing. *)

Written(d, n, e) == [dirty |-> d, node |-> n, err |-> e]

\* A copy of a full node with another child and fresh flags.
\* Mutant: the copy keeps the flags.
withChildKeepsFlags(n, i, nn) == [n EXCEPT !.children[i] = nn]
withChild(n, i, nn) == newFull([n.children EXCEPT ![i] = nn])

\* Insert a value (or, with an empty rest of the key, a node) below a node.
RECURSIVE insert(_, _, _, _)
insert(db, n, key, val) ==
  IF key = << >> THEN Written(n # val, val, FALSE)
  ELSE
  CASE n.kind = "nil" -> Written(TRUE, newShort(key, val), FALSE)
    [] n.kind = "short" ->
         LET m == prefixLen(key, n.key)
         IN  IF m = Len(n.key)
             THEN LET r == insert(db, n.val, Drop(key, m), val)
                  IN  IF ~r.dirty \/ r.err THEN Written(FALSE, n, r.err)
                      ELSE Written(TRUE, newShort(n.key, r.node), FALSE)
             ELSE LET old == insert(db, NilNode, Drop(n.key, m + 1), n.val).node
                      new == insert(db, NilNode, Drop(key, m + 1), val).node
                      branch == newFull([NoChildren EXCEPT ![n.key[m + 1]] = old,
                                                           ![key[m + 1]] = new])
                  IN  Written(TRUE,
                              IF m = 0 THEN branch
                              ELSE newShort(SubSeq(key, 1, m), branch),
                              FALSE)
    [] n.kind = "full" ->
         LET r == insert(db, n.children[Head(key)], Tail(key), val)
         IN  IF ~r.dirty \/ r.err THEN Written(FALSE, n, r.err)
             ELSE Written(TRUE, withChild(n, Head(key), r.node), FALSE)
    [] n.kind = "hash" ->
         IF Missing(db, n) THEN Written(FALSE, NilNode, TRUE)
         ELSE LET rn == resolveHash(db, n)
                  r  == insert(db, rn, key, val)
              IN  IF ~r.dirty \/ r.err THEN Written(FALSE, rn, r.err) ELSE r

\* Mutants: two short nodes stay one above the other; the remaining child is
\* not loaded.
reduceNoMerge(db, kids) ==
  LET left == {i \in 0 .. 2 : kids[i] # NilNode}
      pos  == CHOOSE i \in left : TRUE
  IN  IF Cardinality(left) # 1 THEN Written(TRUE, newFull(kids), FALSE)
      ELSE Written(TRUE, newShort(<<pos>>, kids[pos]), FALSE)
reduceUnloaded(db, kids) ==
  LET left == {i \in 0 .. 2 : kids[i] # NilNode}
      pos  == CHOOSE i \in left : TRUE
      kid  == kids[pos]
  IN  IF Cardinality(left) # 1 THEN Written(TRUE, newFull(kids), FALSE)
      ELSE IF pos # 2 /\ kid.kind = "short"
      THEN Written(TRUE, newShort(<<pos>> \o kid.key, kid.val), FALSE)
      ELSE Written(TRUE, newShort(<<pos>>, kid), FALSE)

\* What delete makes of a full node after one of its children went away: a
\* full node with a single child left becomes a short node, merged with that
\* child when it is a short node itself, which has to be loaded to see it.
reduce(db, kids) ==
  LET left == {i \in 0 .. 2 : kids[i] # NilNode}
      pos  == CHOOSE i \in left : TRUE
      kid  == kids[pos]
      kidn == IF kid.kind = "hash" THEN resolveHash(db, kid) ELSE kid
  IN  IF Cardinality(left) # 1 THEN Written(TRUE, newFull(kids), FALSE)
      ELSE IF pos # 2 /\ kid.kind = "hash" /\ Missing(db, kid)
      THEN Written(FALSE, NilNode, TRUE)
      ELSE IF pos # 2 /\ kidn.kind = "short"
      THEN Written(TRUE, newShort(<<pos>> \o kidn.key, kidn.val), FALSE)
      ELSE Written(TRUE, newShort(<<pos>>, kid), FALSE)

RECURSIVE delete(_, _, _)
delete(db, n, key) ==
  CASE n.kind = "nil"   -> Written(FALSE, n, FALSE)
    [] n.kind = "value" -> Written(TRUE, NilNode, FALSE)
    [] n.kind = "short" ->
         LET m == prefixLen(key, n.key)
             r == delete(db, n.val, Drop(key, m))
         IN  IF m < Len(n.key) THEN Written(FALSE, n, FALSE)
             ELSE IF m = Len(key) THEN Written(TRUE, NilNode, FALSE)
             ELSE IF ~r.dirty \/ r.err THEN Written(FALSE, n, r.err)
             ELSE IF r.node.kind = "short"
             THEN Written(TRUE, newShort(n.key \o r.node.key, r.node.val), FALSE)
             ELSE Written(TRUE, newShort(n.key, r.node), FALSE)
    [] n.kind = "full" ->
         LET r == delete(db, n.children[Head(key)], Tail(key))
         IN  IF ~r.dirty \/ r.err THEN Written(FALSE, n, r.err)
             ELSE reduce(db, [n.children EXCEPT ![Head(key)] = r.node])
    [] n.kind = "hash" ->
         IF Missing(db, n) THEN Written(FALSE, NilNode, TRUE)
         ELSE LET rn == resolveHash(db, n)
                  r  == delete(db, rn, key)
              IN  IF ~r.dirty \/ r.err THEN Written(FALSE, rn, r.err) ELSE r

-----------------------------------------------------------------------------
(* Hashing and committing. *)

Expanded(n) == n.kind \in {"short", "full"}

\* hasher.hash: the hash of a node, and the node with the hash cached in it
\* and below it.
RECURSIVE hash(_)
hash(n) ==
  CASE ~Expanded(n) -> [hashed |-> n, cached |-> n]
    [] Expanded(n) /\ n.hash # NilNode -> [hashed |-> n.hash, cached |-> n]
    [] n.kind = "short" /\ n.hash = NilNode ->
         LET r == hash(n.val)
             h == hashNode(rawShort(binaryToCompact(n.key), r.hashed))
         IN  [hashed |-> h, cached |-> [n EXCEPT !.val = r.cached, !.hash = h]]
    [] n.kind = "full" /\ n.hash = NilNode ->
         LET r == [i \in 0 .. 1 |-> hash(n.children[i])]
             h == hashNode(rawFull([i \in 0 .. 2 |->
                     IF i = 2 THEN n.children[2] ELSE r[i].hashed]))
             c == [i \in 0 .. 2 |->
                     IF i = 2 THEN n.children[2] ELSE r[i].cached]
         IN  [hashed |-> h, cached |-> [n EXCEPT !.children = c, !.hash = h]]

\* Trie.Hash: the hash of the whole trie; the empty root for no node at all.
EmptyRoot == hashNode(NilNode)
Hash(n) == IF n = NilNode THEN EmptyRoot ELSE hash(n).hashed

\* Mutant: what the children stored is forgotten.
storedAlone(n, puts, c) ==
  [node |-> n.hash, puts |-> <<[under |-> n.hash.of, node |-> c]>>]

\* committer.store: the collapsed node c goes to the database under the hash
\* that is cached in n.
stored(n, puts, c) ==
  [node |-> n.hash, puts |-> Append(puts, [under |-> n.hash.of, node |-> c])]

\* committer.commit: the stored nodes of everything dirty, children first,
\* and the hash that replaces the node.  A clean subtree is not visited.
RECURSIVE commit(_)
commit(n) ==
  CASE ~Expanded(n) -> [node |-> n, puts |-> << >>]
    [] Expanded(n) /\ n.hash # NilNode /\ ~n.dirty -> [node |-> n.hash, puts |-> << >>]
    [] n.kind = "short" /\ n.dirty ->
         LET r == IF n.val.kind = "full" THEN commit(n.val)
                  ELSE [node |-> n.val, puts |-> << >>]
         IN  stored(n, r.puts, rawShort(binaryToCompact(n.key), r.node))
    [] n.kind = "full" /\ n.dirty ->
         LET r == [i \in 0 .. 1 |-> commit(n.children[i])]
             c == [i \in 0 .. 2 |-> IF i = 2 THEN n.children[2] ELSE r[i].node]
         IN  stored(n, r[0].puts \o r[1].puts, rawFull(c))

\* Database.insert, seen from the trie: a hash that is known keeps its node.
RECURSIVE putAll(_, _)
putAll(db, puts) ==
  IF puts = << >> THEN db
  ELSE LET p == Head(puts)
       IN  putAll(IF p.under \in DOMAIN db THEN db
                  ELSE [c \in DOMAIN db \cup {p.under} |->
                          IF c = p.under THEN p.node ELSE db[c]],
                  Tail(puts))

-----------------------------------------------------------------------------
(* The operations. *)

Empty == [k \in Keys |-> NoValue]
Present(m) == {k \in Keys : m[k] # NoValue}

Init ==
  /\ root = NilNode
  /\ store = << >>
  /\ content = Empty
  /\ committed = {}
  /\ lost = 0

\* TryGet: keeps the nodes it loaded, unless one was missing.
TryGet(k) ==
  LET r == Get(store, root, k)
  IN  /\ root' = IF r.resolved /\ ~r.err THEN r.node ELSE root
      /\ UNCHANGED <<store, content, committed, lost>>

\* TryGetNode, where it does not panic.
TryGetNode(p) ==
  LET r == tryGetNode(store, root, compactToBinary(p))
  IN  /\ r.out # "panic"
      /\ root' = IF r.resolved /\ r.out = "ok" THEN r.node ELSE root
      /\ UNCHANGED <<store, content, committed, lost>>

\* TryUpdate with a value.
TryUpdate(k, v) ==
  LET r == insert(store, root, keybytesToBinary(k), valueNode(v))
  IN  /\ Cardinality(Present(content) \cup {k}) <= MaxEntries
      /\ root' = IF r.err THEN root ELSE r.node
      /\ content' = IF r.err THEN content ELSE [content EXCEPT ![k] = v]
      /\ UNCHANGED <<store, committed, lost>>

\* Mutant: the error is ignored.
TryDeleteIgnoresError(k) ==
  LET r == delete(store, root, keybytesToBinary(k))
  IN  /\ root' = r.node
      /\ content' = IF r.err THEN content ELSE [content EXCEPT ![k] = NoValue]
      /\ UNCHANGED <<store, committed, lost>>

\* TryDelete, and TryUpdate with the empty value.
TryDelete(k) ==
  LET r == delete(store, root, keybytesToBinary(k))
  IN  /\ root' = IF r.err THEN root ELSE r.node
      /\ content' = IF r.err THEN content ELSE [content EXCEPT ![k] = NoValue]
      /\ UNCHANGED <<store, committed, lost>>

\* Hash: caches the hashes in the nodes.
HashRoot ==
  /\ root' = hash(root).cached
  /\ UNCHANGED <<store, content, committed, lost>>

\* Commit: hash, write what is dirty, and keep only the hash of the root.
Commit ==
  /\ Cardinality(committed) + lost < MaxCommits
  /\ LET n == hash(root).cached
         r == commit(n)
     IN  /\ root' = IF Expanded(n) /\ ~n.dirty THEN n ELSE r.node
         /\ store' = putAll(store, r.puts)
  /\ committed' = committed \cup {[root |-> Hash(root), content |-> content]}
  /\ UNCHANGED <<content, lost>>

\* New: open the trie with a committed root.
New(c) ==
  LET missing == c.root # EmptyRoot /\ Missing(store, c.root)
  IN  /\ root' = IF missing THEN root
                ELSE IF c.root = EmptyRoot THEN NilNode
                ELSE resolveHash(store, c.root)
      /\ content' = IF missing THEN content ELSE c.content
      /\ UNCHANGED <<store, committed, lost>>

Reset ==
  /\ root' = NilNode
  /\ content' = Empty
  /\ UNCHANGED <<store, committed, lost>>

\* The database below the trie loses a node (it was never flushed, or it was
\* collected): external to the trie, which only sees it missing.
Lose(c) ==
  /\ Cardinality(committed) + lost < MaxCommits
  /\ store' = [d \in DOMAIN store \ {c} |-> store[d]]
  /\ lost' = lost + 1
  /\ UNCHANGED <<root, content, committed>>

Next ==
  \/ \E k \in Keys : TryGet(k) \/ TryDelete(k)
  \/ \E w \in Writes : TryUpdate(w[1], w[2])
  \/ \E p \in Paths : TryGetNode(p)
  \/ HashRoot
  \/ Commit
  \/ \E c \in committed : New(c)
  \/ Reset
  \/ \E c \in DOMAIN store : Lose(c)

Spec == Init /\ [][Next]_vars

-----------------------------------------------------------------------------
(* Properties. *)

(***************************************************************************)
(* The reference: the trie of a map, from the definition of a Patricia     *)
(* trie and not from any sequence of insertions.  S is a set of pairs of a *)
(* rest of a key and a value.                                              *)
(***************************************************************************)
RECURSIVE RefTrie(_)
RefTrie(S) ==
  LET p    == CHOOSE e \in S : TRUE
      same == CHOOSE m \in 0 .. Len(p[1]) :
                /\ \A e \in S : Len(e[1]) >= m /\ SubSeq(e[1], 1, m) = SubSeq(p[1], 1, m)
                /\ \E e \in S : Len(e[1]) = m \/ e[1][m + 1] # p[1][m + 1]
      below(i) == {<<Tail(e[1]), e[2]>> : e \in {e \in S : e[1][1] = i}}
  IN  CASE S = {} -> NilNode
        [] S # {} /\ p[1] = << >> -> valueNode(p[2])
        [] S # {} /\ p[1] # << >> /\ same > 0 ->
             hashNode(rawShort(binaryToCompact(SubSeq(p[1], 1, same)),
                               RefTrie({<<Drop(e[1], same), e[2]>> : e \in S})))
        [] S # {} /\ p[1] # << >> /\ same = 0 ->
             hashNode(rawFull([i \in 0 .. 2 |-> RefTrie(below(i))]))

RefRoot(m) ==
  IF Present(m) = {} THEN EmptyRoot
  ELSE RefTrie({<<keybytesToBinary(k), m[k]>> : k \in Present(m)})

\* The expanded nodes of the tree in memory.
RECURSIVE InMemory(_)
InMemory(n) ==
  CASE n.kind = "short" -> {n} \cup InMemory(n.val)
    [] n.kind = "full"  -> {n} \cup UNION {InMemory(n.children[i]) : i \in 0 .. 2}
    [] OTHER -> {}

\* Every variable keeps its type; a full node has at least two children, and a
\* short node never leads to another one.
TypeOK ==
  /\ root.kind \in {"nil", "hash", "short", "full"}
  /\ \A n \in InMemory(root) :
       /\ n.dirty \in BOOLEAN
       /\ n.kind = "short" => n.key # << >> /\ n.val.kind \in {"value", "hash", "full"}
       /\ n.kind = "full" => Cardinality({i \in 0 .. 2 : n.children[i] # NilNode}) >= 2
  /\ \A c \in DOMAIN store : c.kind \in {"rawShort", "rawFull"}
  /\ content \in [Keys -> Values \cup {NoValue}]
  /\ lost \in 0 .. MaxCommits

\* The root hash is a function of the map alone: whatever writes, deletes,
\* loads, cached hashes and failed operations came before, Hash gives the hash
\* of the reference trie.  The state root comparison of two nodes rests on it.
RootCanonical == Hash(root) = RefRoot(content)

\* Overwriting an entry with any value, from any mixture of loaded, hashed and
\* unloaded nodes, gives the root of the changed map: no cached hash survives
\* on the path of the write.  (One step ahead, so that the values need not
\* multiply the states.)
OverwriteExact ==
  \A k \in Present(content), v \in Values :
    LET r == insert(store, root, keybytesToBinary(k), valueNode(v))
    IN  IF r.err THEN lost > 0
        ELSE Hash(r.node) = RefRoot([content EXCEPT ![k] = v])

\* A read answers with what was last written, or with an error, and with an
\* error only when the database lost a node.
ReadsWhatWasWritten ==
  \A k \in Keys :
    LET r == Get(store, root, k)
    IN  IF r.err THEN lost > 0 ELSE r.value = content[k]

\* The node of the reference trie at the end of a path.
RECURSIVE NodeAt(_, _)
NodeAt(c, path) ==
  CASE path = << >> \/ c.kind \in {"nil", "value"} -> c
    [] path # << >> /\ c.kind = "hash" -> NodeAt(c.of, path)
    [] path # << >> /\ c.kind = "rawShort" ->
         IF IsPrefix(compactToBinary(c.key), path)
         THEN NodeAt(c.val, Drop(path, Len(compactToBinary(c.key)))) ELSE NilNode
    [] path # << >> /\ c.kind = "rawFull" -> NodeAt(c.children[Head(path)], Tail(path))

\* TryGetNode answers, when it answers, with the stored node that the trie of
\* the current map has at that path, never with one of an older version; just
\* after a commit it finds every node there is; and it panics only where the
\* trie has no node.
NodesByPath ==
  \A p \in Paths :
    LET path == compactToBinary(p)
        r == tryGetNode(store, root, path)
        n == NodeAt(IF content = Empty THEN NilNode ELSE RefRoot(content), path)
    IN  /\ r.item # NilNode => n = hashNode(r.item)
        /\ r.out = "panic" => n = NilNode
        /\ root.kind = "hash" /\ lost = 0 /\ n.kind = "hash" => hashNode(r.item) = n

\* Paths of every length with and without terminator: all short ones, and some
\* of two bytes and more.
CodecPaths ==
  LET short == UNION {[1 .. n -> 0 .. 1] : n \in 1 .. 9}
      long  == {[i \in 1 .. n |-> IF i % m = 1 THEN 1 ELSE 0] : n \in 10 .. 20, m \in 2 .. 4}
  IN  short \cup long \cup {Append(b, Terminator) : b \in short \cup long \cup {<< >>}}

\* The compact form gives the path back, so two paths never share a stored
\* key, whatever the number of odd bits; and the conversion in place, which
\* overwrites the buffer it still reads, writes the same bytes.
KeyCodec ==
  root = NilNode /\ store = << >> =>
    /\ \A b \in CodecPaths : /\ compactToBinary(binaryToCompact(b)) = b
                            /\ binaryToCompactInPlace(b) = binaryToCompact(b)
    /\ \A k \in Keys : binaryToKeybytes(keybytesToBinary(k)) = k

\* A committed root can be opened later, after any number of further writes
\* and commits, and still holds the map of its commit.
CommittedReadable ==
  \A c \in committed :
    lost = 0 /\ c.root # EmptyRoot =>
      /\ ~Missing(store, c.root)
      /\ \A k \in Keys : Get(store, c.root, k) = [Get(store, c.root, k) EXCEPT
                             !.value = c.content[k], !.err = FALSE]

\* The trie keeps its one shape, and root and contents determine each other, now
\* and after any next write.
TrieCanonical == TypeOK /\ RootCanonical /\ OverwriteExact

\* Reads by key and by path see the contents of the trie, and of every version
\* that was committed before.
ReadsExact == ReadsWhatWasWritten /\ CommittedReadable /\ NodesByPath
=============================================================================
