----------------------------- MODULE Blockchain -----------------------------
(***************************************************************************)
(* The chain every node of one processing shard (PShard) keeps, and the    *)
(* operations that change it: core/blockchain.go, with the parts of        *)
(* core/shardstates.go and core/txpool.go that consensus depends on.  The  *)
(* consensus protocol that calls these operations is module BFT.           *)
(*                                                                         *)
(* Node is the set of the shard's nodes.  The leader is the node with the  *)
(* largest key, because IsLeader holds for the node id divisible by        *)
(* NodeNumPerShard; the order of the other keys makes no difference.       *)
(*                                                                         *)
(* Data abstraction.  A block hash is the position of the block in the     *)
(* order of creation (headers carry a timestamp, so hashes never repeat),  *)
(* 0 standing for the zero hash.  A state root is named by the block that  *)
(* first produced it, 0 being the empty state.  The transactions of a      *)
(* block are represented by the root they are executed on and the root     *)
(* they lead to; an inbound chunk by its identifier.                       *)
(***************************************************************************)
EXTENDS Integers, FiniteSets, Sequences

CONSTANTS
    Node,       \* the nodes of the shard, NodeNumPerShard of them
    Leader,     \* the one whose config says IsLeader
    MaxHeight,  \* bound: no block above this height is created
    InboundIds, \* cross-shard chunks other shards may send to this shard
    TxLimit     \* the argument of takeTxs1 (100 in CreateNewBlock)

ASSUME NodeAssumption == IsFiniteSet(Node) /\ Leader \in Node
ASSUME MaxHeightAssumption == MaxHeight \in Nat
ASSUME TxLimitAssumption == TxLimit \in Nat \ {0}

Validator == Node \ {Leader}
Heights == 0 .. MaxHeight

\* config.ConsensusThreshold.
ConsensusThreshold == (Cardinality(Node) * 2) \div 3 + 1

\* CreateNewBlock generates cross-shard transactions below this height only.
CrossShardHeights == 200

VARIABLES
    latestBlock, \* [Node -> Block]: Blockchain.LatestBlock
    blockDB,     \* [Node -> [Heights -> Block]]: Blockchain.BlockDB
    stateDB,     \* [Node -> Root]: the root Blockchain.StateDB stands at
    roots,       \* [Node -> SUBSET Root]: the roots in the node's trie database
    chunkDB,     \* [Node -> SUBSET Nat]: the keys of OutboundChunkDB
    ownHeaders,  \* [Node -> SUBSET Nat]: ShardStates headers of this shard
    headers,     \* [Node -> SUBSET InboundIds]: headers of the source blocks
    pool,        \* Seq(InboundIds): the leader's PendingInboundChunks
    created,     \* Nat: blocks created so far; the last hash handed out
    sent         \* headers and chunks gossiped out of the shard

chainVars == <<latestBlock, blockDB, stateDB, roots, chunkDB, ownHeaders,
               headers, pool, created, sent>>

-----------------------------------------------------------------------------
(* Blocks and roots.                                                       *)

EmptyRoot == 0

\* The root of a state reached by executing a block on a state other than
\* the one its proposer executed it on: equal to no block's StateRoot.
DivergedRoot == -1

Block == [height : Heights, hash : Nat, prev : Nat, parent : Int, root : Int,
          inbound : SUBSET InboundIds, sign : SUBSET Node]

\* A nil *types.Block.
NoBlock == [height |-> 0, hash |-> 0, prev |-> 0, parent |-> EmptyRoot,
            root |-> EmptyRoot, inbound |-> {}, sign |-> {}]

Unsigned(b) == [b EXCEPT !.sign = {}]

\* The root StateDB.Commit returns after the block's transactions have been
\* applied to a state with root base.
Execute(base, b) == IF base = b.parent THEN b.root ELSE DivergedRoot

ChainInit ==
    /\ latestBlock = [n \in Node |-> NoBlock]
    /\ blockDB = [n \in Node |-> [h \in Heights |-> NoBlock]]
    /\ stateDB = [n \in Node |-> EmptyRoot]
    /\ roots = [n \in Node |-> {EmptyRoot}]
    /\ chunkDB = [n \in Node |-> {}]
    /\ ownHeaders = [n \in Node |-> {}]
    /\ headers = [n \in Node |-> {}]
    /\ pool = <<>>
    /\ created = 0
    /\ sent = {}

-----------------------------------------------------------------------------
(* Block production.                                                       *)

\* takeTxs1: chunks are taken in order while fewer than TxLimit transactions
\* have been taken; a chunk holds the single transaction that
\* GenerateCrossShardTx2 makes per destination.
TakenCount == IF Len(pool) < TxLimit THEN Len(pool) ELSE TxLimit
TakenChunks == SubSeq(pool, 1, TakenCount)

Genesis ==
    [height |-> 0, hash |-> created + 1, prev |-> 0,
     parent |-> stateDB[Leader], root |-> created + 1,
     inbound |-> {}, sign |-> {}]

\* The block CreateNewBlock builds on LatestBlock, whose transactions lead to
\* the state with the given root.
Successor(root) ==
    [height |-> latestBlock[Leader].height + 1, hash |-> created + 1,
     prev |-> latestBlock[Leader].hash, parent |-> stateDB[Leader],
     root |-> root,
     inbound |-> {TakenChunks[i] : i \in 1 .. TakenCount}, sign |-> {}]

\* The blocks CreateNewBlock may return: a block without effect leaves the
\* root as it is, any other produces a new one.
NewBlocks ==
    IF latestBlock[Leader] = NoBlock
    THEN {Genesis}
    ELSE {Successor(root) : root \in {stateDB[Leader], created + 1}}

\* CreateNewBlock executes the block and makes it LatestBlock before any
\* vote on it.  Genesis takes nothing from the pool and stores no chunks.
CreateNewBlock(b) ==
    /\ b \in NewBlocks
    /\ b.height <= MaxHeight
    /\ latestBlock' = [latestBlock EXCEPT ![Leader] = b]
    /\ stateDB' = [stateDB EXCEPT ![Leader] = b.root]
    /\ roots' = [roots EXCEPT ![Leader] = @ \cup {b.root}]
    /\ created' = created + 1
    /\ IF b.height = 0
       THEN UNCHANGED <<pool, chunkDB>>
       ELSE /\ pool' = SubSeq(pool, TakenCount + 1, Len(pool))
            /\ chunkDB' = [chunkDB EXCEPT ![Leader] = @ \cup {b.hash}]
    /\ UNCHANGED <<blockDB, ownHeaders, headers, sent>>

-----------------------------------------------------------------------------
(* Validation.                                                             *)

\* CheckBlock polls until the header of every inbound chunk is known.
HeadersKnown(n, b) == b.height = 0 \/ b.inbound \subseteq headers[n]

\* The conditions under which CheckBlock returns nil.
CheckBlockOK(n, b) ==
    /\ \/ b.height = 0
       \/ /\ latestBlock[n] # NoBlock
          /\ b.height = latestBlock[n].height + 1
    /\ Execute(stateDB[n], b) = b.root

\* Mutant of CheckBlock: the deferred RollBack is missing.
CheckBlockNoRollBack(n, b) ==
    /\ HeadersKnown(n, b)
    /\ roots' = [roots EXCEPT ![n] = @ \cup {Execute(stateDB[n], b)}]
    /\ stateDB' = [stateDB EXCEPT ![n] = Execute(@, b)]
    /\ UNCHANGED <<latestBlock, blockDB, chunkDB, ownHeaders, headers, pool,
                   created, sent>>

\* CheckBlock writes the executed state to the trie database and its deferred
\* RollBack returns StateDB to the root it started from.
CheckBlock(n, b) ==
    /\ HeadersKnown(n, b)
    /\ roots' = [roots EXCEPT ![n] = @ \cup {Execute(stateDB[n], b)}]
    /\ UNCHANGED <<latestBlock, blockDB, stateDB, chunkDB, ownHeaders,
                   headers, pool, created, sent>>

-----------------------------------------------------------------------------
(* Commitment and inbound headers.                                         *)

\* CheckHeader with headerFlag = false: only the number of signers counts.
CheckHeader(b) == Cardinality(b.sign) >= ConsensusThreshold

\* What Commit gossips: the header to the RShard and, where OutboundChunkDB
\* has the block, its chunks to their destination shards.
Outgoing(n, b) ==
    {[kind |-> "HEADER", from |-> n, block |-> b]} \cup
    (IF b.hash \in chunkDB[n] /\ b.height < CrossShardHeights
     THEN {[kind |-> "CHUNKS", from |-> n, block |-> b]}
     ELSE {})

\* RollBack adopts a root the trie database has; otherwise ExecuteBlock
\* applies the block to whatever state the node is in.
Commit(n, b) ==
    /\ latestBlock' = [latestBlock EXCEPT ![n] = b]
    /\ blockDB' = [blockDB EXCEPT ![n][b.height] = b]
    /\ IF b.root \in roots[n]
       THEN /\ stateDB' = [stateDB EXCEPT ![n] = b.root]
            /\ UNCHANGED roots
       ELSE /\ stateDB' = [stateDB EXCEPT ![n] = Execute(stateDB[n], b)]
            /\ roots' = [roots EXCEPT ![n] = @ \cup {Execute(stateDB[n], b)}]
    /\ ownHeaders' = [ownHeaders EXCEPT ![n] =
                        IF CheckHeader(b) THEN @ \cup {b.hash} ELSE @]
    /\ sent' = sent \cup Outgoing(n, b)
    /\ UNCHANGED <<chunkDB, headers, pool, created>>

\* Mutant of ReceiveHeader: a header that arrives again counts again.
ReceiveHeaderAgain(n, i) ==
    /\ headers' = [headers EXCEPT ![n] = @ \cup {i}]
    /\ pool' = IF n = Leader THEN Append(pool, i) ELSE pool
    /\ UNCHANGED <<latestBlock, blockDB, stateDB, roots, chunkDB, ownHeaders,
                   created, sent>>

\* UpdateHeader for a block of another shard whose chunk for this shard has
\* arrived too: only the first header counts, and only the leader puts the
\* chunk into its pool.
ReceiveHeader(n, i) ==
    /\ i \notin headers[n]
    /\ headers' = [headers EXCEPT ![n] = @ \cup {i}]
    /\ pool' = IF n = Leader THEN Append(pool, i) ELSE pool
    /\ UNCHANGED <<latestBlock, blockDB, stateDB, roots, chunkDB, ownHeaders,
                   created, sent>>

ChainTypeOK ==
    /\ latestBlock \in [Node -> Block]
    /\ blockDB \in [Node -> [Heights -> Block]]
    /\ stateDB \in [Node -> Int]
    /\ roots \in [Node -> SUBSET Int]
    /\ chunkDB \in [Node -> SUBSET Nat]
    /\ ownHeaders \in [Node -> SUBSET Nat]
    /\ headers \in [Node -> SUBSET InboundIds]
    /\ pool \in Seq(InboundIds)
    /\ created \in Nat
    /\ sent \subseteq [kind : {"HEADER", "CHUNKS"}, from : Node, block : Block]
=============================================================================
