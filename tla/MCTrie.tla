------------------------------- MODULE MCTrie -------------------------------
(***************************************************************************)
(* Bounded instance of Trie for TLC.                                       *)
(***************************************************************************)
EXTENDS TrieProof, TrieIterator, StackTrie

CONSTANTS v1, v2

\* Keys that part in the first byte, and one that is a prefix of another.
MCKeys == {<<1>>, <<1, 64>>, <<3>>, <<128>>}
\* The root, the nodes above and below the fork of the keys 1 and 3, and a leaf.
MCPaths == {binaryToCompact(p) : p \in {<<>>, <<0>>, <<0, 0, 0, 0, 0, 0>>,
                                         <<0, 0, 0, 0, 0, 0, 0>>, <<1>>}}
MCWrites == MCKeys \X {v1}
=============================================================================
