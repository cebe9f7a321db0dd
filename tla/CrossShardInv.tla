--------------------------- MODULE CrossShardInv ---------------------------
(***************************************************************************)
(* The inductive invariant behind the safety of CrossShard: what a header  *)
(* or a chunk, on the wire or at a node, says of the block it comes from.  *)
(***************************************************************************)
EXTENDS CrossShard

\* A node commits what it has checked and checks what the leader has created.
OrderInv ==
    /\ \A s \in PShard : /\ checked[LeaderOf(s)] = Len(blocks[s])
                         /\ Len(blocks[s]) <= MaxHeight + 1
    /\ \A n \in PNode : /\ committed[n] <= checked[n]
                        /\ checked[n] <= Len(blocks[n[1]])

\* A block sends to other shards, and debits only what it sends.
BlockInv ==
    \A id \in Created :
        /\ id[1] \notin DOMAIN BlockOf(id).txs
        /\ BlockOf(id).debited \subseteq DOMAIN BlockOf(id).txs

\* A chunk on the wire is for a shard its block sends to, a header for the
\* RShard or for a shard that its block has debited a transfer to.
NetInv ==
    \A m \in net :
        /\ m.id \in Created
        /\ m.kind = "CHUNK" => m.to \in DOMAIN BlockOf(m.id).txs
        /\ m.kind = "HEADER" => m.to \in BlockOf(m.id).debited \cup {RShard}

\* A node has the headers of its own shard's blocks and of those that have
\* debited a transfer to it.
KnownInv ==
    \A n \in PNode :
        /\ \A id \in headers[n] :
             id \in Created /\ n[1] \in BlockOf(id).debited \cup {id[1]}
        /\ \A id \in chunks[n] : id \in Created /\ n[1] \in DOMAIN BlockOf(id).txs

\* The chunks that the leader of shard s has with their headers.
Matched(s) == headers[LeaderOf(s)] \cap chunks[LeaderOf(s)]

\* CreditOnce, one shard at a time: credited by one block, pending in one place
\* of the pool, not both.
Once(s) ==
    /\ \A i, j \in 1 .. Len(blocks[s]) :
         blocks[s][i].inbound \cap blocks[s][j].inbound # {} => i = j
    /\ \A i \in 1 .. Len(pool[s]) :
         /\ \A j \in 1 .. Len(blocks[s]) : pool[s][i] \notin blocks[s][j].inbound
         /\ \A j \in 1 .. Len(pool[s]) : pool[s][i] = pool[s][j] => i = j

\* Nothing else is pending or credited, and nothing twice.
PoolInv ==
    \A s \in PShard :
        /\ \A i \in 1 .. Len(blocks[s]) : blocks[s][i].inbound \subseteq Matched(s)
        /\ \A i \in 1 .. Len(pool[s]) : pool[s][i] \in Matched(s)
        /\ Once(s)

\* The inductive invariant, on top of TypeOK.
TransferInv == OrderInv /\ BlockInv /\ NetInv /\ KnownInv /\ PoolInv

\* A shard that has not started holds nothing.
BalanceInv ==
    \A s \in PShard : blocks[s] = <<>> => \A a \in Account : balance[s][a] = 0
=============================================================================
