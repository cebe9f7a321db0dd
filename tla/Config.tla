------------------------------- MODULE Config -------------------------------
(***************************************************************************)
(* config/config.go: what a node derives from the topology, the number of  *)
(* nodes of a shard and its own id.  Every node does so for itself; nobody *)
(* compares the results.                                                   *)
(*                                                                         *)
(* RShards have the ids 1, 2, ...; PShards have the ids 1001, 1002, ...    *)
(***************************************************************************)
EXTENDS Integers, Sequences, Functions, SequencesExt

FirstPShard == 1001

\* topo.PShardIds[topo.RShardIds[shardId-1]]: the RShard id is used as an
\* index of the list of RShard ids.
PShardsBelow(topo, r) == topo.PShardIds[topo.RShardIds[r]]

\* The PShards in the order of the loops over the topology.
PShardSeq(topo) ==
    FlattenSeq([i \in DOMAIN topo.RShardIds |->
                  PShardsBelow(topo, topo.RShardIds[i])])

\* Topologies as in config.json: the ids of the RShards are 1, 2, ..., those
\* of the PShards are 1001, 1002, ... in the order of the lists, and none of
\* the former is as large as one of the latter.
WellFormed(topo) ==
    /\ topo.RShardIds \in Seq(Nat) \ {<< >>}
    /\ topo.RShardIds = [i \in DOMAIN topo.RShardIds |-> i]
    /\ Len(topo.RShardIds) < FirstPShard
    /\ \A r \in DOMAIN topo.PShardIds : topo.PShardIds[r] \in Seq(Nat)
    /\ DOMAIN topo.PShardIds = Range(topo.RShardIds)
    /\ PShardSeq(topo) =
         [i \in DOMAIN PShardSeq(topo) |-> i - 1 + FirstPShard]

\* The shards in the order in which node ids are given to them.
ShardSeq(topo) ==
    [r \in DOMAIN topo.RShardIds |-> r] \o PShardSeq(topo)

\* conf.Nodes: nodeIdCounter goes through the shards one after another.
Nodes(topo, size) ==
    [s \in Range(ShardSeq(topo)) |->
        [i \in 1 .. size |->
            (CHOOSE k \in DOMAIN ShardSeq(topo) : ShardSeq(topo)[k] = s) * size
                - size + i]]

\* Mutant of ShardIdOf: node ids taken to start at 0.
ShardIdOfZero(topo, size, nodeId) ==
    LET a == nodeId \div size
        r == Len(topo.RShardIds)
    IN  IF a < r THEN a + 1 ELSE a + FirstPShard - r

\* conf.ShardId
ShardIdOf(topo, size, nodeId) ==
    LET a == (nodeId - 1) \div size
        r == Len(topo.RShardIds)
    IN  IF a < r THEN a + 1 ELSE a + FirstPShard - r

\* conf.RShardId: the RShard that has the shard in its list; 0 without one.
RShardIdOf(topo, shardId) ==
    LET above == {r \in Range(topo.RShardIds) :
                    shardId \in Range(topo.PShardIds[r])}
    IN  IF above = {} THEN 0 ELSE CHOOSE r \in above : TRUE

NewConfig(topo, size, nodeId) ==
    LET shardId == ShardIdOf(topo, size, nodeId) IN
    [Topo |-> topo,
     Nodes |-> Nodes(topo, size),
     NodeNumPerShard |-> size,
     NodeId |-> nodeId,
     ShardId |-> shardId,
     RShardId |-> RShardIdOf(topo, shardId),
     IsLeader |-> nodeId % size = 0,
     ConsensusThreshold |-> (size * 2) \div 3 + 1,
     RShardNum |-> Len(topo.RShardIds),
     PShardNum |-> Len(PShardSeq(topo))]
=============================================================================
