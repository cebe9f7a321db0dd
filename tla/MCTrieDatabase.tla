--------------------------- MODULE MCTrieDatabase ---------------------------
(***************************************************************************)
(* Bounded instance of TrieDatabase for TLC.                               *)
(*                                                                         *)
(* 1 and 2 are leaves.  3 is a full node over the leaves and the root of a *)
(* trie; 4 is a root with the leaf 1 twice; 5 is a root with the node 3    *)
(* inside and, at its leaf, a reference to the trie 4.                     *)
(***************************************************************************)
EXTENDS TrieDatabaseInv

MCHashes == 1 .. 5
MCKids == << << >>, << >>, <<1, 2>>, <<1, 1>>, <<3>> >>
MCExt == << {}, {}, {}, {}, {4} >>
MCSize == <<1, 2, 3, 4, 5>>
MCRoots == {3, 4, 5}
MCPreimages == [r \in MCRoots |-> IF r = 4 THEN {} ELSE {101}]

-----------------------------------------------------------------------------
\* The place of each node in the flush list, counted from the oldest.
Place ==
  LET n == Cardinality(Nodes(db))
      l[i \in 1 .. n + 1] ==
        IF i = 1 THEN db.oldest
        ELSE IF l[i - 1] \in DOMAIN db.dirties THEN db.dirties[l[i - 1]].flushNext ELSE NoHash
  IN  [h \in Hashes |->
         IF \E i \in 1 .. n : l[i] = h THEN CHOOSE i \in 1 .. n : l[i] = h ELSE 0]

\* DatabaseInv with the places for its pos: TLC cannot enumerate the functions
\* among which DatabaseInv says there is one.
DatabaseInvHere ==
  /\ TypeInv
  /\ Complete(disk)
  /\ Sound(db, disk) /\ Needed(db, disk)
  /\ HeldAt(db, disk, held) /\ PreimageAt(db, disk, job, recorded)
  /\ ListAt(db, disk, job, Place)
  /\ job \in CommitJob => CommitAt(db, disk, job)
=============================================================================
