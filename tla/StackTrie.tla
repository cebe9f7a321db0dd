------------------------------ MODULE StackTrie -----------------------------
(***************************************************************************)
(* The stack trie of trie/stacktrie.go: a trie that is fed in key order    *)
(* and hashes a subtree as soon as the insertions have moved past it; and  *)
(* the roots of transaction lists (types/derive_sha.go), which are built   *)
(* in an order that suits either kind of trie.                             *)
(*                                                                         *)
(* Keys are the binary forms without terminator.  A node knows how many    *)
(* bits of a full key lie above it (off).                                  *)
(***************************************************************************)
EXTENDS Trie

NoKid == [type |-> "none"]
NoKids == [i \in 0 .. 1 |-> NoKid]
emptyNode(off) == [type |-> "empty", off |-> off]
leafNode(off, key, v) == [type |-> "leaf", off |-> off, key |-> key, val |-> v]
extNode(off, key, kid) == [type |-> "ext", off |-> off, key |-> key, kid |-> kid]
branchNode(off, kids) == [type |-> "branch", off |-> off, kids |-> kids]
hashedNode(h) == [type |-> "hashed", hash |-> h]
StPanic == [type |-> "panic", hash |-> NilNode]

\* hash: collapse a subtree into its hash.
RECURSIVE stHash(_)
stHash(st) ==
  CASE st.type \in {"hashed", "panic"} -> st
    [] st.type = "empty" -> hashedNode(EmptyRoot)
    [] st.type = "leaf" ->
         hashedNode(hashNode(rawShort(binaryToCompactInPlace(Append(st.key, Terminator)),
                                      valueNode(st.val))))
    [] st.type = "ext" ->
         hashedNode(hashNode(rawShort(binaryToCompact(st.key), stHash(st.kid).hash)))
    [] st.type = "branch" ->
         hashedNode(hashNode(rawFull([i \in 0 .. 2 |->
           IF i = 2 \/ st.kids[i % 2] = NoKid THEN NilNode ELSE stHash(st.kids[i]).hash])))

\* Mutant: the new leaf is one bit too high.
forkHigh(off, oldBit, old, key, v) ==
  branchNode(off, [NoKids EXCEPT ![oldBit] = stHash(old),
                                 ![key[off + 1]] = leafNode(off, Drop(key, off + 1), v)])

\* The branch that takes over where an old subtree and a new leaf part.
fork(off, oldBit, old, key, v) ==
  branchNode(off, [NoKids EXCEPT ![oldBit] = stHash(old),
                                 ![key[off + 1]] = leafNode(off + 1, Drop(key, off + 1), v)])

\* insert.  Inserting below a subtree that is hashed, or a key that is there,
\* panics.
RECURSIVE stInsert(_, _, _)
stInsert(st, key, v) ==
  LET rest == Drop(key, st.off)
      diff == prefixLen(st.key, rest)
      at   == st.off + diff
      old  == IF st.type = "leaf" THEN leafNode(diff + 1, Drop(st.key, diff + 1), st.val)
              ELSE IF diff < Len(st.key) - 1
              THEN extNode(diff + 1, Drop(st.key, diff + 1), st.kid)
              ELSE st.kid
      new  == fork(at, st.key[diff + 1], old, key, v)
      idx  == key[st.off + 1]
      kids == IF idx = 1 /\ st.kids[0] # NoKid
              THEN [st.kids EXCEPT ![0] = stHash(@)] ELSE st.kids
      kid  == IF kids[idx] = NoKid THEN emptyNode(st.off + 1) ELSE kids[idx]
  IN
  CASE st.type = "empty"  -> leafNode(st.off, rest, v)
    [] st.type = "branch" -> [st EXCEPT !.kids = [kids EXCEPT ![idx] = stInsert(kid, key, v)]]
    [] st.type = "ext" /\ diff = Len(st.key) -> [st EXCEPT !.kid = stInsert(@, key, v)]
    [] st.type = "leaf" /\ diff = Len(st.key) -> StPanic
    [] st.type \in {"ext", "leaf"} /\ diff < Len(st.key) ->
         IF diff = 0 THEN new ELSE extNode(st.off, SubSeq(st.key, 1, diff), new)
    [] st.type \in {"hashed", "panic"} -> StPanic

\* Update with a sequence of pairs of a key and a value, one half after the
\* other.  A panic is final.
RECURSIVE stUpdate(_, _)
stUpdate(st, pairs) ==
  LET m == Len(pairs) \div 2
      half == stUpdate(st, SubSeq(pairs, 1, m))
  IN  CASE Len(pairs) = 0 -> st
        [] Len(pairs) = 1 -> stInsert(st, Front(keybytesToBinary(pairs[1][1])), pairs[1][2])
        [] Len(pairs) > 1 -> IF half = StPanic THEN half ELSE stUpdate(half, Drop(pairs, m))

\* The root of a stack trie fed with such a sequence.
StackRoot(pairs) == stHash(stUpdate(emptyNode(0), pairs)).hash

\* The same with the ordinary trie, over no database.
RECURSIVE Update(_, _)
Update(t, pairs) ==
  LET m == Len(pairs) \div 2
      half == Update(t, SubSeq(pairs, 1, m))
  IN  CASE Len(pairs) = 0 -> t
        [] Len(pairs) = 1 ->
             insert(<< >>, t, keybytesToBinary(pairs[1][1]), valueNode(pairs[1][2])).node
        [] Len(pairs) > 1 -> IF half = NilNode THEN half ELSE Update(half, Drop(pairs, m))

TrieRoot(pairs) == Hash(Update(NilNode, pairs))

-----------------------------------------------------------------------------
(* types/derive_sha.go: the entries of a list are filed under the RLP of   *)
(* their index, a chunk's transactions from 1 on, a block's chunks from    *)
(* the number of the first shard on.                                       *)

rlpUint(i) == IF i = 0 THEN <<128>>
              ELSE IF i < 128 THEN <<i>>
              ELSE IF i < 256 THEN <<129, i>>
              ELSE <<130, i \div 256, i % 256>>

\* The hasher is a StackTrie or a Trie.
RootBy(hasher, pairs) == IF hasher = "StackTrie" THEN StackRoot(pairs) ELSE TrieRoot(pairs)

GetChunkRoot(txs, hasher) ==
  RootBy(hasher, [i \in 1 .. Len(txs) |-> <<rlpUint(i), txs[i]>>])
GetBlockTxRoot(chunks, hasher) ==
  RootBy(hasher, [i \in 1 .. Len(chunks) |-> <<rlpUint(i + 1000), chunks[i]>>])

-----------------------------------------------------------------------------
(* Properties. *)

\* Fed in key order with keys of which none is a prefix of another, the stack
\* trie has the root of the ordinary trie though it forgets what it hashed.
StackTrieAgrees ==
  root.kind = "hash" /\ (\A a, b \in Present(content) : a # b => ~IsPrefix(a, b)) =>
    LET ks == SetToSortSeq(Present(content), Less)
    IN  StackRoot([i \in DOMAIN ks |-> <<ks[i], content[ks[i]]>>]) = Hash(root)

\* The lengths of the lists that are checked: around the index at which the
\* RLP of an index grows to two bytes.
CONSTANT ListLengths

\* A list's indexes are fed in key order, so both tries give it one root, also
\* where the RLP of the index changes its length; and a list that is longer,
\* or has two entries swapped, has another root.
ListRoots ==
  root = NilNode /\ store = << >> =>
    \A n \in ListLengths :
      LET txs  == [i \in 1 .. n |-> i]
          swap == [txs EXCEPT ![1] = txs[n], ![n] = txs[1]]
          r    == GetChunkRoot(txs, "Trie")
      IN  /\ GetChunkRoot(txs, "StackTrie") = r
          /\ GetChunkRoot(Append(txs, n + 1), "Trie") # r
          /\ n > 1 => GetChunkRoot(swap, "Trie") # r
          /\ GetBlockTxRoot(txs, "StackTrie") = GetBlockTxRoot(txs, "Trie")

\* The stack trie and the trie give one root, to contents and to lists.
RootsAgree == StackTrieAgrees /\ ListRoots
=============================================================================
