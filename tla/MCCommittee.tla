---------------------------- MODULE MCCommittee -----------------------------
(***************************************************************************)
(* Bounded instance of Committee for TLC.                                  *)
(***************************************************************************)
EXTENDS CommitteeInv

\* One RShard; two with lists of different lengths; so many PShards that a
\* bitmap of shards has two bytes.
One == [RShardIds |-> <<1>>, PShardIds |-> << <<1001, 1002>> >>]
Two == [RShardIds |-> <<1, 2>>, PShardIds |-> << <<1001>>, <<1002, 1003>> >>]
Wide == [RShardIds |-> <<1, 2>>,
         PShardIds |-> << <<1001, 1002, 1003, 1004>>,
                          <<1005, 1006, 1007, 1008, 1009>> >>]

\* Every set of destinations of every PShard.
AllBlocks(P) == {<<s, D>> \in P \X SUBSET P : s \notin D}

\* With ten nodes a bitmap of signers has two bytes, and validators in both.
MCNetworks ==
    <<[topo |-> One, size |-> 10, blocks |-> AllBlocks({1001, 1002})],
      [topo |-> Two, size |-> 4, blocks |-> AllBlocks({1001, 1002, 1003})],
      [topo |-> Two, size |-> 2, blocks |-> AllBlocks({1001, 1002, 1003})],
      [topo |-> Wide, size |-> 2, blocks |-> {<<1002, {1001, 1009}>>}]>>
=============================================================================
