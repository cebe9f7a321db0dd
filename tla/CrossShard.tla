----------------------------- MODULE CrossShard -----------------------------
(***************************************************************************)
(* Cross-shard transfers between processing shards (PShards) by way of the *)
(* relay shard (RShard): core/shardstates.go, core/txpool.go and the part  *)
(* of core/blockchain.go that creates, checks and commits blocks and       *)
(* handles headers and chunks of other shards.                             *)
(*                                                                         *)
(* The consensus of a shard appears as what module BFT shows of it: every  *)
(* node commits the leader's blocks in order, the leader commits a block   *)
(* when a quorum has checked it and creates the next when a quorum has     *)
(* committed it.                                                           *)
(*                                                                         *)
(* A block is named <<shard, height>>, and so are its header and, given    *)
(* the receiver, its chunk.  Hashes, Merkle proofs and signatures of these *)
(* honest messages always verify and are left out (module BFT, property    *)
(* HeadersCertified).  Every value transferred is 1, as RandTx makes it.   *)
(***************************************************************************)
EXTENDS Integers, FiniteSets, Sequences

CONSTANTS
    PShardNum,         \* PShards are 1 .. PShardNum (1001 and up in the code)
    NodeNumPerShard,   \* nodes of every PShard
    RNodeNum,          \* nodes of the RShard (NodeNumPerShard in the code)
    MaxHeight,         \* bound: no block above this height is created
    Short,             \* bound: PShards that stop one height earlier
    CrossShardHeights, \* transfers are generated below this height (200)
    TxLimit,           \* the argument of takeTxs1 (100)
    Account,           \* config.Accounts, the same in every shard
    GenesisBalance     \* what an account has in a new shard (10000000)

ASSUME SizesAssumption ==
    /\ PShardNum \in Nat \ {0} /\ NodeNumPerShard \in Nat \ {0}
    /\ RNodeNum \in Nat \ {0}
    /\ MaxHeight \in Nat /\ CrossShardHeights \in Nat /\ TxLimit \in Nat \ {0}
    /\ IsFiniteSet(Account) /\ GenesisBalance \in Nat

RShard == 0
PShard == 1 .. PShardNum

\* A node is <<its shard, its number there>>; number 0 is the leader.
PNode == PShard \X (0 .. NodeNumPerShard - 1)
RNode == {RShard} \X (0 .. RNodeNum - 1)
Node == PNode \cup RNode
LeaderOf(s) == <<s, 0>>
IsLeader(n) == n[2] = 0

ConsensusThreshold == (NodeNumPerShard * 2) \div 3 + 1

VARIABLES
    blocks,    \* [PShard -> Seq(Block)]: the leader's chain, heights from 0
    balance,   \* [PShard -> [Account -> Nat]]: the leader's StateDB
    checked,   \* [PNode -> Nat]: how many blocks a node has executed
    committed, \* [PNode -> Nat]: how many blocks a node has committed
    headers,   \* [Node -> SUBSET BlockId]: ShardState.Headers of all shards
    chunks,    \* [PNode -> SUBSET BlockId]: ShardState.InboundChunks
    pool,      \* [PShard -> Seq(BlockId)]: the leader's PendingInboundChunks
    net        \* every message that has been gossiped

vars == <<blocks, balance, checked, committed, headers, chunks, pool, net>>

-----------------------------------------------------------------------------
(* Blocks and messages.                                                    *)

BlockId == PShard \X (0 .. MaxHeight)
Transaction == [from : Account, to : Account]

\* txs: at most one transaction for each other shard.  debited: those that the
\* sender could pay, which is what OutboundDstBitmap of the header says.
\* inbound: the chunks the block credits.
Block == [txs : UNION {[S -> Transaction] : S \in SUBSET PShard},
          debited : SUBSET PShard, inbound : SUBSET BlockId]

BlockOf(id) == blocks[id[1]][id[2] + 1]
NoTxs == [s \in {} |-> <<>>]

Message == [kind : {"HEADER", "CHUNK"}, to : PShard \cup {RShard}, id : BlockId]

\* Protocol.Gossip to the topics of some shards.
Gossip(kind, id, shards) == {[kind |-> kind, to |-> s, id |-> id] : s \in shards}

-----------------------------------------------------------------------------
(* Block production at the leader.                                         *)

\* GenerateCrossShardTx2: one transaction for every other PShard.
GenerateCrossShardTx2(s) ==
    IF Len(blocks[s]) < CrossShardHeights
    THEN [PShard \ {s} -> Transaction]
    ELSE {NoTxs}

\* takeTxs1: chunks are taken while fewer than TxLimit transactions have been;
\* each chunk has one.
TakenCount(s) == IF Len(pool[s]) < TxLimit THEN Len(pool[s]) ELSE TxLimit
Taken(s) == SubSeq(pool[s], 1, TakenCount(s))

\* The balances after the inbound transactions.
Credit(s) ==
    [a \in Account |-> balance[s][a] +
        Cardinality({i \in 1 .. TakenCount(s) :
                       BlockOf(Taken(s)[i]).txs[s].to = a})]

SentBy(a, txs, S) == {s \in S : txs[s].from = a}

\* Mutant of Debits: an account that cannot pay is not skipped.
DebitsUnchecked(txs, bal) == {DOMAIN txs}

\* The transactions that may get executed: an account pays as many as it can.
\* Which of them depends on their order, and GetToShards walks over a map.
Debits(txs, bal) ==
    {D \in SUBSET DOMAIN txs : \A a \in Account :
        LET all == Cardinality(SentBy(a, txs, DOMAIN txs)) IN
        Cardinality(SentBy(a, txs, D)) = IF bal[a] < all THEN bal[a] ELSE all}

\* Consensus lets the leader go on: a quorum has committed all its blocks.
QuorumCommitted(s) ==
    Cardinality({n \in PNode : n[1] = s /\ committed[n] = Len(blocks[s])})
        >= ConsensusThreshold

LastHeight(s) == IF s \in Short THEN MaxHeight - 1 ELSE MaxHeight

Genesis(s) ==
    /\ Len(blocks[s]) = 0
    /\ blocks' = [blocks EXCEPT ![s] =
         <<[txs |-> NoTxs, debited |-> {}, inbound |-> {}]>>]
    /\ balance' = [balance EXCEPT ![s] = [a \in Account |-> GenesisBalance]]
    /\ checked' = [checked EXCEPT ![LeaderOf(s)] = 1]
    /\ UNCHANGED <<committed, headers, chunks, pool, net>>

CreateNewBlock(s) ==
    /\ Len(blocks[s]) \in 1 .. LastHeight(s)
    /\ QuorumCommitted(s)
    /\ \E txs \in GenerateCrossShardTx2(s) : \E D \in Debits(txs, Credit(s)) :
         /\ blocks' = [blocks EXCEPT ![s] = Append(@,
              [txs |-> txs, debited |-> D,
               inbound |-> {Taken(s)[i] : i \in 1 .. TakenCount(s)}])]
         /\ balance' = [balance EXCEPT ![s] =
              [a \in Account |-> Credit(s)[a] - Cardinality(SentBy(a, txs, D))]]
    /\ pool' = [pool EXCEPT ![s] = SubSeq(@, TakenCount(s) + 1, Len(@))]
    /\ checked' = [checked EXCEPT ![LeaderOf(s)] = @ + 1]
    /\ UNCHANGED <<committed, headers, chunks, net>>

-----------------------------------------------------------------------------
(* Checking and committing.                                                *)

\* CheckBlock of a validator waits for the header of every inbound chunk.
CheckBlock(n) ==
    LET s == n[1] IN
    /\ checked[n] = committed[n]
    /\ checked[n] < Len(blocks[s])
    /\ blocks[s][checked[n] + 1].inbound \subseteq headers[n]
    /\ checked' = [checked EXCEPT ![n] = @ + 1]
    /\ UNCHANGED <<blocks, balance, committed, headers, chunks, pool, net>>

\* Mutant of MayCommit: more than the threshold is asked for.
MayCommitAbove(n) ==
    LET s == n[1] IN
    IF IsLeader(n)
    THEN Cardinality({k \in PNode : k[1] = s /\ checked[k] = Len(blocks[s])})
            > ConsensusThreshold
    ELSE committed[LeaderOf(s)] >= checked[n]

\* Consensus lets node n commit its next block.
MayCommit(n) ==
    LET s == n[1] IN
    IF IsLeader(n)
    THEN Cardinality({k \in PNode : k[1] = s /\ checked[k] = Len(blocks[s])})
            >= ConsensusThreshold
    ELSE committed[LeaderOf(s)] >= checked[n]

\* Blockchain.Commit: every node sends the header to the RShard; only the
\* leader has the chunks in its OutboundChunkDB.
Commit(n) ==
    LET s == n[1]
        id == <<s, committed[n]>>
    IN  /\ committed[n] < checked[n]
        /\ MayCommit(n)
        /\ committed' = [committed EXCEPT ![n] = @ + 1]
        /\ headers' = [headers EXCEPT ![n] = @ \cup {id}]
        /\ net' = net \cup Gossip("HEADER", id, {RShard}) \cup
             (IF IsLeader(n) THEN Gossip("CHUNK", id, DOMAIN BlockOf(id).txs)
                             ELSE {})
        /\ UNCHANGED <<blocks, balance, checked, chunks, pool>>

-----------------------------------------------------------------------------
(* Headers and chunks of other shards.                                     *)

\* AddInboundChunkToTxPool, at the leader only.
AddToPool(n, id) ==
    pool' = IF n[1] # RShard /\ IsLeader(n)
            THEN [pool EXCEPT ![n[1]] = Append(@, id)]
            ELSE pool

\* Mutant of ForwardTo: the RShard sends a header to every PShard.
ForwardToAll(n, id) == {n[1]} \cup (IF n[1] = RShard THEN PShard ELSE {})

\* Where HandleHeaderMsg sends a header that is new: to its own shard and,
\* in the RShard, to the shards in OutboundDstBitmap.
ForwardTo(n, id) ==
    {n[1]} \cup (IF n[1] = RShard THEN BlockOf(id).debited ELSE {})

\* Mutant of UpdateHeader: the chunk that waits for the header stays where
\* it is.
UpdateHeaderOnly(n, id) ==
    /\ id \notin headers[n]
    /\ headers' = [headers EXCEPT ![n] = @ \cup {id}]
    /\ UNCHANGED pool

\* A header that arrives again is ignored; at a PShard's leader the second of
\* header and chunk puts the chunk into the pool.
UpdateHeader(n, id) ==
    /\ id \notin headers[n]
    /\ headers' = [headers EXCEPT ![n] = @ \cup {id}]
    /\ IF n \in PNode /\ id \in chunks[n] THEN AddToPool(n, id) ELSE UNCHANGED pool

HandleHeaderMsg(n, m) ==
    /\ m.kind = "HEADER" /\ m.to = n[1]
    /\ UpdateHeader(n, m.id)
    /\ net' = net \cup Gossip("HEADER", m.id, ForwardTo(n, m.id))
    /\ UNCHANGED <<blocks, balance, checked, committed, chunks>>

\* Mutant of UpdateInboundChunk: no check whether the chunk is known.
UpdateInboundChunkAgain(n, id) ==
    /\ chunks' = [chunks EXCEPT ![n] = @ \cup {id}]
    /\ IF id \in headers[n] THEN AddToPool(n, id) ELSE UNCHANGED pool

UpdateInboundChunk(n, id) ==
    /\ id \notin chunks[n]
    /\ chunks' = [chunks EXCEPT ![n] = @ \cup {id}]
    /\ IF id \in headers[n] THEN AddToPool(n, id) ELSE UNCHANGED pool

HandleInboundChunkMsg(n, m) ==
    /\ m.kind = "CHUNK"
    /\ n \in PNode /\ m.to = n[1]
    /\ UpdateInboundChunk(n, m.id)
    /\ net' = net \cup Gossip("CHUNK", m.id, {n[1]})
    /\ UNCHANGED <<blocks, balance, checked, committed, headers>>

-----------------------------------------------------------------------------
(* The specification.                                                      *)

Init ==
    /\ blocks = [s \in PShard |-> <<>>]
    /\ balance = [s \in PShard |-> [a \in Account |-> 0]]
    /\ checked = [n \in PNode |-> 0]
    /\ committed = [n \in PNode |-> 0]
    /\ headers = [n \in Node |-> {}]
    /\ chunks = [n \in PNode |-> {}]
    /\ pool = [s \in PShard |-> <<>>]
    /\ net = {}

Next ==
    \/ \E s \in PShard : Genesis(s) \/ CreateNewBlock(s)
    \/ \E n \in PNode : CheckBlock(n) \/ Commit(n)
    \/ \E n \in Node, m \in net :
         HandleHeaderMsg(n, m) \/ HandleInboundChunkMsg(n, m)

Spec == Init /\ [][Next]_vars

\* Every node keeps working, and what is gossiped reaches every node of the
\* shard it is sent to, at any time later and in any order.  (Finitely many exist
\* below MaxHeight, so a node that goes on handling them handles each.)
ReliableSpec ==
    /\ Spec
    /\ \A s \in PShard : WF_vars(Genesis(s) \/ CreateNewBlock(s))
    /\ \A n \in PNode : WF_vars(CheckBlock(n) \/ Commit(n))
    /\ \A n \in Node :
         WF_vars(\E m \in net : HandleHeaderMsg(n, m) \/ HandleInboundChunkMsg(n, m))

-----------------------------------------------------------------------------
(* Properties.                                                             *)

\* Every variable keeps its type; balances never become negative.
TypeOK ==
    /\ blocks \in [PShard -> Seq(Block)]
    /\ balance \in [PShard -> [Account -> Nat]]
    /\ checked \in [PNode -> 0 .. (MaxHeight + 1)]
    /\ committed \in [PNode -> 0 .. (MaxHeight + 1)]
    /\ headers \in [Node -> SUBSET BlockId]
    /\ chunks \in [PNode -> SUBSET BlockId]
    /\ pool \in [PShard -> Seq(BlockId)]
    /\ net \subseteq Message

\* The blocks created so far.
Created == {id \in BlockId : id[2] < Len(blocks[id[1]])}

TransferId == [id : BlockId, to : PShard]
Debited == {t \in TransferId : t.id \in Created /\ t.to \in BlockOf(t.id).debited}
Credited ==
    {t \in TransferId : \E i \in 1 .. Len(blocks[t.to]) :
                          t.id \in blocks[t.to][i].inbound}
InFlight == Debited \ Credited

\* No shard credits what was not debited: a transaction its sender could not
\* pay travels in the chunk like any other, and only OutboundDstBitmap keeps
\* the header, and with it the credit, from the receiver.
NoUnbackedCredit ==
    /\ Credited \subseteq Debited
    /\ \A s \in PShard : \A i \in 1 .. Len(pool[s]) :
         [id |-> pool[s][i], to |-> s] \in Debited

\* Whatever the order of header and chunk and however often each arrives, a
\* chunk is credited by one block and not pending any more when it is.
CreditOnce ==
    \A s \in PShard :
        /\ \A i, j \in 1 .. Len(blocks[s]) :
             blocks[s][i].inbound \cap blocks[s][j].inbound # {} => i = j
        /\ \A i \in 1 .. Len(pool[s]) :
             /\ [id |-> pool[s][i], to |-> s] \notin Credited
             /\ \A j \in 1 .. Len(pool[s]) : pool[s][i] = pool[s][j] => i = j

\* The units that accounts with balances bal hold, numbered, so that sums of
\* balances are numbers of units.
Units(bal) == UNION {{a} \X (1 .. bal[a]) : a \in Account}
TotalOf(s) == Cardinality(Units(balance[s]))
AllUnits == UNION {{s} \X Units(balance[s]) : s \in PShard}

\* The shards that have created their first block.
Started == {s \in PShard : blocks[s] # <<>>}

\* No balance falls below zero, and the sum of all balances and of what is in
\* flight is what genesis gave.
Conservation ==
    /\ TypeOK
    /\ Cardinality(AllUnits) + Cardinality(InFlight) =
         Cardinality(Started) * Cardinality(Account) * GenesisBalance

Totals == [s \in PShard |-> IF s \in Started THEN TotalOf(s) ELSE -1]

Abstract == INSTANCE Transfer WITH
    Shard <- PShard, Supply <- Cardinality(Account) * GenesisBalance,
    total <- Totals, inflight <- InFlight

\* Cross-shard transfers implement the abstract ones.
ImplementsTransfer == Abstract!Spec

\* Over a reliable network every transfer that a shard has committed reaches the
\* pool of the destination's leader, or has left it for a block: again and again,
\* and as chains are bounded in the end, there is none still on its way.
DebitArrives ==
    []<>(\A t \in Debited :
           committed[LeaderOf(t.id[1])] > t.id[2] =>
               t \in Credited \/ \E i \in 1 .. Len(pool[t.to]) : pool[t.to][i] = t.id)

\* Over a reliable network no CheckBlock waits for a header for ever: again and
\* again, and in the end, all nodes have committed every block proposed.
BlocksCommit ==
    []<>(\A n \in PNode : committed[n] = Len(blocks[n[1]]))
=============================================================================
