-------------------------- MODULE CrossShard_proofs --------------------------
(***************************************************************************)
(* Proofs about module CrossShard, for every number of shards, nodes and   *)
(* accounts, every bound on the height and every transaction limit: from   *)
(* TypeOK and TransferInv, no shard credits what was not debited, and no   *)
(* shard credits anything twice.                                           *)
(***************************************************************************)
EXTENDS CrossShardInv, TLAPS, FiniteSetTheorems, SequenceTheorems

-----------------------------------------------------------------------------
(* Shards, nodes and block names.                                          *)

LEMMA ShardFacts ==
  /\ PShard \subseteq Nat /\ IsFiniteSet(PShard) /\ RShard \notin PShard
  /\ MaxHeight \in Nat /\ TxLimit \in Nat /\ TxLimit # 0 /\ PShardNum \in Nat
  <1>1. IsFiniteSet(1 .. PShardNum)
    BY SizesAssumption, FS_Interval
  <1> QED BY <1>1, SizesAssumption DEF PShard, RShard

LEMMA LeaderNodes ==
  ASSUME NEW s \in PShard
  PROVE  LeaderOf(s) \in PNode /\ LeaderOf(s)[1] = s /\ IsLeader(LeaderOf(s))
  BY SizesAssumption DEF LeaderOf, IsLeader, PNode

LEMMA NodeFacts ==
  ASSUME NEW n \in PNode
  PROVE  /\ n \in Node /\ n[1] \in PShard
         /\ IsLeader(n) => n = LeaderOf(n[1])
  BY DEF PNode, Node, LeaderOf, IsLeader

LEMMA RNodeFacts ==
  ASSUME NEW n \in Node, n \notin PNode
  PROVE  n[1] = RShard
  BY DEF Node, RNode

LEMMA BlockIdFacts ==
  ASSUME NEW id \in BlockId
  PROVE  id[1] \in PShard /\ id[2] \in Nat /\ id[2] <= MaxHeight /\ id = <<id[1], id[2]>>
  BY ShardFacts DEF BlockId

LEMMA BlockIdOf ==
  ASSUME NEW s \in PShard, NEW h \in Nat, h <= MaxHeight
  PROVE  <<s, h>> \in BlockId
  BY ShardFacts DEF BlockId

LEMMA LenFacts ==
  ASSUME TypeOK, NEW s \in PShard
  PROVE  /\ blocks[s] \in Seq(Block) /\ Len(blocks[s]) \in Nat
         /\ pool[s] \in Seq(BlockId) /\ Len(pool[s]) \in Nat
         /\ \A i \in 1 .. Len(blocks[s]) : blocks[s][i] \in Block
         /\ \A i \in 1 .. Len(pool[s]) : pool[s][i] \in BlockId
  BY ElementOfSeq, LenProperties DEF TypeOK

LEMMA CreatedBlock ==
  ASSUME TypeOK, NEW id \in Created
  PROVE  BlockOf(id) \in Block /\ id \in BlockId
  <1>1. id \in BlockId /\ id[2] < Len(blocks[id[1]])
    BY DEF Created
  <1>2. id[2] + 1 \in 1 .. Len(blocks[id[1]])
    BY <1>1, BlockIdFacts, LenFacts
  <1> QED BY <1>1, <1>2, BlockIdFacts, LenFacts DEF BlockOf

LEMMA BlockTxs ==
  ASSUME NEW b \in Block
  PROVE  /\ DOMAIN b.txs \subseteq PShard
         /\ \A s \in DOMAIN b.txs : b.txs[s] \in Transaction
         /\ b.debited \subseteq PShard /\ b.inbound \subseteq BlockId
  <1>1. /\ b.txs \in UNION {[S -> Transaction] : S \in SUBSET PShard}
        /\ b.debited \in SUBSET PShard /\ b.inbound \in SUBSET BlockId
    BY DEF Block
  <1>2. PICK S \in SUBSET PShard : b.txs \in [S -> Transaction]
    BY <1>1
  <1> QED BY <1>1, <1>2

-----------------------------------------------------------------------------
(* A block at the end of the chain of shard s.                             *)

LEMMA Grow ==
  ASSUME TypeOK, NEW s \in PShard, NEW h \in Nat, h = Len(blocks[s]), h <= MaxHeight,
         NEW b \in Block, blocks' = [blocks EXCEPT ![s] = Append(@, b)]
  PROVE  /\ blocks' \in [PShard -> Seq(Block)]
         /\ \A k \in PShard : k # s => blocks'[k] = blocks[k]
         /\ Len(blocks'[s]) = h + 1
         /\ \A i \in 1 .. h : blocks'[s][i] = blocks[s][i]
         /\ blocks'[s][h + 1] = b
  <1>1. blocks[s] \in Seq(Block) /\ blocks'[s] = Append(blocks[s], b)
    BY DEF TypeOK
  <1>2. /\ Append(blocks[s], b) \in Seq(Block)
        /\ Len(Append(blocks[s], b)) = h + 1
        /\ \A i \in 1 .. h : Append(blocks[s], b)[i] = blocks[s][i]
        /\ Append(blocks[s], b)[h + 1] = b
    BY <1>1, AppendProperties
  <1> QED BY <1>1, <1>2 DEF TypeOK

\* It has the next name; all others keep theirs.
LEMMA GrowCreated ==
  ASSUME TypeOK, NEW s \in PShard, NEW h \in Nat, h = Len(blocks[s]), h <= MaxHeight,
         NEW b \in Block, blocks' = [blocks EXCEPT ![s] = Append(@, b)]
  PROVE  /\ <<s, h>> \in BlockId /\ <<s, h>> \notin Created
         /\ Created' = Created \cup {<<s, h>>}
         /\ \A id \in Created : BlockOf(id)' = BlockOf(id)
         /\ BlockOf(<<s, h>>)' = b
  <1>1. /\ \A k \in PShard : k # s => blocks'[k] = blocks[k]
        /\ Len(blocks'[s]) = h + 1
        /\ \A i \in 1 .. h : blocks'[s][i] = blocks[s][i]
        /\ blocks'[s][h + 1] = b
    BY Grow
  <1>2. <<s, h>> \in BlockId /\ <<s, h>> \notin Created
    BY BlockIdOf DEF Created
  <1>3. ASSUME NEW id \in BlockId
        PROVE  id \in Created' <=> id \in Created \cup {<<s, h>>}
    <2>1. id[1] \in PShard /\ id[2] \in Nat /\ id = <<id[1], id[2]>>
      BY BlockIdFacts
    <2>2. CASE id[1] # s
      BY <1>1, <2>1, <2>2 DEF Created
    <2>3. CASE id[1] = s
      <3>1. id[2] < h + 1 <=> id[2] < h \/ id[2] = h
        BY <2>1
      <3> QED BY <1>1, <2>1, <2>3, <3>1 DEF Created
    <2> QED BY <2>2, <2>3
  <1>4. Created' = Created \cup {<<s, h>>}
    BY <1>2, <1>3 DEF Created
  <1>5. ASSUME NEW id \in Created PROVE BlockOf(id)' = BlockOf(id)
    <2>1. id[1] \in PShard /\ id[2] \in Nat /\ id[2] < Len(blocks[id[1]])
      BY BlockIdFacts DEF Created
    <2>2. id[1] = s => id[2] + 1 \in 1 .. h
      BY <2>1
    <2> QED BY <1>1, <2>1, <2>2 DEF BlockOf
  <1>6. BlockOf(<<s, h>>)' = b
    BY <1>1 DEF BlockOf
  <1> QED BY <1>2, <1>4, <1>5, <1>6

\* Nothing is created.
LEMMA SameBlocks ==
  ASSUME blocks' = blocks
  PROVE  Created' = Created /\ \A id : BlockOf(id)' = BlockOf(id)
  BY DEF Created, BlockOf

-----------------------------------------------------------------------------
(* Cardinalities are natural numbers.                                      *)

LEMMA TakenFacts ==
  ASSUME TypeOK, NEW s \in PShard
  PROVE  /\ TakenCount(s) \in Nat /\ TakenCount(s) <= Len(pool[s])
         /\ Taken(s) \in Seq(BlockId) /\ Len(Taken(s)) = TakenCount(s)
         /\ \A i \in 1 .. TakenCount(s) : i \in 1 .. Len(pool[s])
                                          /\ Taken(s)[i] = pool[s][i]
  <1>1. /\ TakenCount(s) \in Nat /\ TakenCount(s) <= Len(pool[s])
        /\ \A i \in 1 .. TakenCount(s) : i \in 1 .. Len(pool[s])
    BY LenFacts, ShardFacts DEF TakenCount
  <1>2. \A i \in 1 .. TakenCount(s) : pool[s][i] \in BlockId
    BY <1>1, LenFacts
  <1>3. /\ Taken(s) \in Seq(BlockId)
        /\ Len(Taken(s)) = IF 1 <= TakenCount(s) THEN TakenCount(s) - 1 + 1 ELSE 0
        /\ \A i \in 1 .. TakenCount(s) - 1 + 1 : Taken(s)[i] = pool[s][1 + i - 1]
    BY <1>1, <1>2, SubSeqProperties DEF Taken
  <1>4. Len(Taken(s)) = TakenCount(s)
    BY <1>1, <1>3
  <1>5. ASSUME NEW i \in 1 .. TakenCount(s) PROVE Taken(s)[i] = pool[s][i]
    <2>1. i \in 1 .. TakenCount(s) - 1 + 1 /\ 1 + i - 1 = i
      BY <1>1
    <2> QED BY <1>3, <2>1
  <1> QED BY <1>1, <1>3, <1>4, <1>5

LEMMA CreditType ==
  ASSUME TypeOK, NEW s \in PShard
  PROVE  Credit(s) \in [Account -> Nat]
  <1>1. IsFiniteSet(1 .. TakenCount(s))
    BY TakenFacts, FS_Interval
  <1>2. ASSUME NEW a \in Account
        PROVE  balance[s][a] +
                 Cardinality({i \in 1 .. TakenCount(s) :
                                BlockOf(Taken(s)[i]).txs[s].to = a}) \in Nat
    <2>1. balance[s][a] \in Nat
      BY DEF TypeOK
    <2>2. Cardinality({i \in 1 .. TakenCount(s) :
                         BlockOf(Taken(s)[i]).txs[s].to = a}) \in Nat
      BY <1>1, FS_Subset, FS_CardinalityType
    <2> QED BY <2>1, <2>2
  <1> QED BY <1>2 DEF Credit

LEMMA SentType ==
  ASSUME NEW txs, NEW a, NEW D \in SUBSET PShard
  PROVE  Cardinality(SentBy(a, txs, D)) \in Nat
  BY ShardFacts, FS_Subset, FS_CardinalityType DEF SentBy

LEMMA GeneratedTxs ==
  ASSUME NEW s \in PShard, NEW txs \in GenerateCrossShardTx2(s)
  PROVE  /\ txs \in UNION {[S -> Transaction] : S \in SUBSET PShard}
         /\ DOMAIN txs \subseteq PShard \ {s}
  <1>1. CASE txs \in [PShard \ {s} -> Transaction]
    BY <1>1
  <1>2. CASE txs = NoTxs
    <2>1. NoTxs \in [{} -> Transaction] /\ DOMAIN NoTxs = {}
      BY DEF NoTxs
    <2> QED BY <1>2, <2>1
  <1> QED BY <1>1, <1>2 DEF GenerateCrossShardTx2

\* What CreateNewBlock(s) appends, and what an account keeps.
LEMMA NewBlockFacts ==
  ASSUME TypeOK, NEW s \in PShard, NEW txs \in GenerateCrossShardTx2(s),
         NEW D \in Debits(txs, Credit(s))
  PROVE  /\ [txs |-> txs, debited |-> D,
             inbound |-> {Taken(s)[i] : i \in 1 .. TakenCount(s)}] \in Block
         /\ D \subseteq DOMAIN txs /\ D \subseteq PShard \ {s}
         /\ [a \in Account |-> Credit(s)[a] - Cardinality(SentBy(a, txs, D))]
              \in [Account -> Nat]
  <1>1. D \subseteq DOMAIN txs /\ DOMAIN txs \subseteq PShard \ {s}
    BY GeneratedTxs DEF Debits
  <1>2. \A i \in 1 .. TakenCount(s) : Taken(s)[i] \in BlockId
    BY TakenFacts, LenFacts
  <1>3. {Taken(s)[i] : i \in 1 .. TakenCount(s)} \subseteq BlockId
    BY <1>2
  <1>4. ASSUME NEW a \in Account
        PROVE  Credit(s)[a] - Cardinality(SentBy(a, txs, D)) \in Nat
    <2>1. Credit(s)[a] \in Nat
      BY CreditType
    <2>2. /\ Cardinality(SentBy(a, txs, D)) \in Nat
          /\ Cardinality(SentBy(a, txs, DOMAIN txs)) \in Nat
      BY <1>1, SentType
    <2>3. Cardinality(SentBy(a, txs, D)) =
            IF Credit(s)[a] < Cardinality(SentBy(a, txs, DOMAIN txs))
            THEN Credit(s)[a] ELSE Cardinality(SentBy(a, txs, DOMAIN txs))
      BY DEF Debits
    <2> QED BY <2>1, <2>2, <2>3
  <1> QED BY <1>1, <1>3, <1>4, GeneratedTxs DEF Block

-----------------------------------------------------------------------------
(* Type correctness.                                                       *)

LEMMA GossipType ==
  ASSUME NEW kind \in {"HEADER", "CHUNK"}, NEW id \in BlockId,
         NEW S \in SUBSET (PShard \cup {RShard})
  PROVE  Gossip(kind, id, S) \subseteq Message
  BY DEF Gossip, Message

LEMMA TypeInit ==
  ASSUME Init
  PROVE  TypeOK
  <1>1. <<>> \in Seq(Block) /\ <<>> \in Seq(BlockId)
    BY EmptySeq
  <1>2. 0 \in 0 .. (MaxHeight + 1)
    BY ShardFacts
  <1> QED BY <1>1, <1>2 DEF Init, TypeOK

LEMMA GenesisBlock ==
  LET b == [txs |-> NoTxs, debited |-> {}, inbound |-> {}]
  IN  b \in Block /\ DOMAIN b.txs = {}
  <1>1. NoTxs \in [{} -> Transaction] /\ DOMAIN NoTxs = {}
    BY DEF NoTxs
  <1>2. NoTxs \in UNION {[S -> Transaction] : S \in SUBSET PShard}
    BY <1>1
  <1> QED BY <1>1, <1>2 DEF Block

\* The chain of a new shard is as if its first block had been appended.
LEMMA GenesisAppends ==
  ASSUME TypeOK, NEW s \in PShard, Genesis(s)
  PROVE  /\ Len(blocks[s]) = 0
         /\ blocks' = [blocks EXCEPT ![s] =
              Append(@, [txs |-> NoTxs, debited |-> {}, inbound |-> {}])]
  <1>1. PICK b : b = [txs |-> NoTxs, debited |-> {}, inbound |-> {}]
    OBVIOUS
  <1>2. b \in Block
    BY <1>1, GenesisBlock
  <1>3. Len(blocks[s]) = 0 /\ blocks[s] = <<>>
    BY LenFacts, EmptySeq DEF Genesis
  <1>4. Append(<<>>, b) = <<b>>
    OBVIOUS
  <1>5. blocks' = [blocks EXCEPT ![s] = <<b>>]
    BY <1>1 DEF Genesis
  <1>6. blocks' = [blocks EXCEPT ![s] = Append(blocks[s], b)]
    BY <1>3, <1>4, <1>5
  <1> QED BY <1>1, <1>3, <1>6

LEMMA GenesisType ==
  ASSUME TypeOK, NEW s \in PShard, Genesis(s)
  PROVE  TypeOK'
  <1>1. PICK b : b = [txs |-> NoTxs, debited |-> {}, inbound |-> {}]
    OBVIOUS
  <1>2. blocks' \in [PShard -> Seq(Block)]
    BY <1>1, GenesisAppends, GenesisBlock, ShardFacts, Grow
  <1>3. 1 \in 0 .. (MaxHeight + 1) /\ [a \in Account |-> GenesisBalance] \in [Account -> Nat]
    BY SizesAssumption
  <1>4. checked' \in [PNode -> 0 .. (MaxHeight + 1)]
    BY <1>3 DEF Genesis, TypeOK
  <1>5. balance' \in [PShard -> [Account -> Nat]]
    BY <1>3 DEF Genesis, TypeOK
  <1> QED BY <1>2, <1>4, <1>5 DEF Genesis, TypeOK

LEMMA HeightBound ==
  ASSUME TypeOK, NEW s \in PShard, Len(blocks[s]) \in 1 .. LastHeight(s)
  PROVE  Len(blocks[s]) \in Nat /\ Len(blocks[s]) # 0 /\ Len(blocks[s]) <= MaxHeight
  BY ShardFacts DEF LastHeight

\* The rest of the pool.
LEMMA RestFacts ==
  ASSUME TypeOK, NEW s \in PShard, CreateNewBlock(s), NEW k \in Nat, k = TakenCount(s)
  PROVE  /\ pool' \in [PShard -> Seq(BlockId)]
         /\ \A r \in PShard : r # s => pool'[r] = pool[r]
         /\ Len(pool'[s]) = Len(pool[s]) - k
         /\ \A i \in 1 .. Len(pool'[s]) : k + i \in 1 .. Len(pool[s])
                                          /\ pool'[s][i] = pool[s][k + i]
  <1>1. PICK l, rest : l = Len(pool[s]) /\ rest = SubSeq(pool[s], k + 1, l)
    OBVIOUS
  <1>2. l \in Nat /\ k <= l /\ \A i \in k + 1 .. l : pool[s][i] \in BlockId
    BY <1>1, LenFacts, TakenFacts
  <1>3. /\ rest \in Seq(BlockId)
        /\ Len(rest) = IF k + 1 <= l THEN l - (k + 1) + 1 ELSE 0
        /\ \A i \in 1 .. l - (k + 1) + 1 : rest[i] = pool[s][k + 1 + i - 1]
    BY <1>1, <1>2, SubSeqProperties
  <1>4. Len(rest) = l - k
    BY <1>2, <1>3
  <1>5. ASSUME NEW i \in 1 .. Len(rest)
        PROVE  k + i \in 1 .. l /\ rest[i] = pool[s][k + i]
    <2>1. i \in 1 .. l - (k + 1) + 1 /\ k + 1 + i - 1 = k + i /\ k + i \in 1 .. l
      BY <1>2, <1>4
    <2> QED BY <1>3, <2>1
  <1>6. pool' = [pool EXCEPT ![s] = rest]
    BY <1>1 DEF CreateNewBlock
  <1>7. pool'[s] = rest /\ \A r \in PShard : r # s => pool'[r] = pool[r]
    BY <1>6 DEF TypeOK
  <1>8. pool' \in [PShard -> Seq(BlockId)]
    BY <1>3, <1>6 DEF TypeOK
  <1> QED BY <1>1, <1>4, <1>5, <1>7, <1>8

\* The step of CreateNewBlock(s): the block it appends and what accounts keep.
LEMMA NewBlock ==
  ASSUME TypeOK, NEW s \in PShard, CreateNewBlock(s)
  PROVE  \E b \in Block, keeps \in [Account -> Nat] :
           /\ blocks' = [blocks EXCEPT ![s] = Append(@, b)]
           /\ b.inbound = {Taken(s)[i] : i \in 1 .. TakenCount(s)}
           /\ s \notin DOMAIN b.txs /\ b.debited \subseteq DOMAIN b.txs
           /\ balance' = [balance EXCEPT ![s] = keeps]
           /\ \A a \in Account :
                Credit(s)[a] = keeps[a] + Cardinality(SentBy(a, b.txs, b.debited))
  <1>1. PICK txs \in GenerateCrossShardTx2(s) : \E D \in Debits(txs, Credit(s)) :
          /\ blocks' = [blocks EXCEPT ![s] = Append(@,
               [txs |-> txs, debited |-> D,
                inbound |-> {Taken(s)[i] : i \in 1 .. TakenCount(s)}])]
          /\ balance' = [balance EXCEPT ![s] =
               [a \in Account |-> Credit(s)[a] - Cardinality(SentBy(a, txs, D))]]
    BY DEF CreateNewBlock
  <1>2. PICK D \in Debits(txs, Credit(s)) :
          /\ blocks' = [blocks EXCEPT ![s] = Append(@,
               [txs |-> txs, debited |-> D,
                inbound |-> {Taken(s)[i] : i \in 1 .. TakenCount(s)}])]
          /\ balance' = [balance EXCEPT ![s] =
               [a \in Account |-> Credit(s)[a] - Cardinality(SentBy(a, txs, D))]]
    BY <1>1
  <1>3. PICK b, keeps :
          /\ b = [txs |-> txs, debited |-> D,
                  inbound |-> {Taken(s)[i] : i \in 1 .. TakenCount(s)}]
          /\ keeps = [a \in Account |-> Credit(s)[a] - Cardinality(SentBy(a, txs, D))]
    OBVIOUS
  <1>4. b \in Block /\ keeps \in [Account -> Nat] /\ D \subseteq DOMAIN txs
    BY ONLY TypeOK, s \in PShard, txs \in GenerateCrossShardTx2(s),
            D \in Debits(txs, Credit(s)), <1>3, NewBlockFacts
  <1>5. s \notin DOMAIN txs
    BY GeneratedTxs
  <1>6. ASSUME NEW a \in Account
        PROVE  Credit(s)[a] = keeps[a] + Cardinality(SentBy(a, txs, D))
    <2>1. keeps[a] = Credit(s)[a] - Cardinality(SentBy(a, txs, D))
      BY <1>3
    <2>2. D \subseteq PShard
      BY <1>4, GeneratedTxs
    <2>3. Credit(s)[a] \in Nat /\ Cardinality(SentBy(a, txs, D)) \in Nat
      BY <2>2, CreditType, SentType
    <2> QED BY <2>1, <2>3
  <1>7. /\ blocks' = [blocks EXCEPT ![s] = Append(@, b)]
        /\ balance' = [balance EXCEPT ![s] = keeps]
        /\ b.inbound = {Taken(s)[i] : i \in 1 .. TakenCount(s)}
        /\ b.txs = txs /\ b.debited = D
    BY <1>2, <1>3
  <1> QED BY <1>4, <1>5, <1>6, <1>7

LEMMA CreateNewBlockType ==
  ASSUME TypeOK, OrderInv, NEW s \in PShard, CreateNewBlock(s)
  PROVE  TypeOK'
  <1>1. PICK b \in Block : blocks' = [blocks EXCEPT ![s] = Append(@, b)]
    BY NewBlock
  <1>2. blocks' \in [PShard -> Seq(Block)]
    BY <1>1, HeightBound, Grow DEF CreateNewBlock
  <1>3. balance' \in [PShard -> [Account -> Nat]]
    BY NewBlock DEF TypeOK
  <1>4. checked' \in [PNode -> 0 .. (MaxHeight + 1)]
    <2>1. checked[LeaderOf(s)] + 1 \in 0 .. (MaxHeight + 1)
      BY HeightBound, ShardFacts DEF OrderInv, CreateNewBlock
    <2> QED BY <2>1 DEF CreateNewBlock, TypeOK
  <1>5. pool' \in [PShard -> Seq(BlockId)]
    BY TakenFacts, RestFacts
  <1> QED BY <1>2, <1>3, <1>4, <1>5 DEF CreateNewBlock, TypeOK

LEMMA CheckBlockType ==
  ASSUME TypeOK, OrderInv, NEW n \in PNode, CheckBlock(n)
  PROVE  TypeOK'
  <1>1. checked[n] \in Nat /\ checked[n] < Len(blocks[n[1]])
    BY DEF TypeOK, CheckBlock
  <1>2. Len(blocks[n[1]]) \in Nat /\ Len(blocks[n[1]]) <= MaxHeight + 1
    BY NodeFacts, LenFacts DEF OrderInv
  <1>3. checked[n] + 1 \in 0 .. (MaxHeight + 1)
    BY <1>1, <1>2, ShardFacts
  <1> QED BY <1>3 DEF CheckBlock, TypeOK

\* The block that node n commits next.
LEMMA NextCommitted ==
  ASSUME TypeOK, OrderInv, NEW n \in PNode, committed[n] < checked[n]
  PROVE  /\ <<n[1], committed[n]>> \in Created /\ n[1] \in PShard
         /\ committed[n] + 1 \in 0 .. (MaxHeight + 1)
         /\ committed[n] + 1 <= checked[n]
  <1>1. /\ committed[n] \in Nat /\ checked[n] \in Nat /\ checked[n] <= MaxHeight + 1
        /\ checked[n] <= Len(blocks[n[1]]) /\ Len(blocks[n[1]]) \in Nat /\ n[1] \in PShard
    BY NodeFacts, LenFacts DEF TypeOK, OrderInv
  <1>2. /\ committed[n] <= MaxHeight /\ committed[n] < Len(blocks[n[1]])
        /\ committed[n] + 1 \in 0 .. (MaxHeight + 1)
        /\ committed[n] + 1 <= checked[n]
    BY <1>1, ShardFacts
  <1> QED BY <1>1, <1>2, BlockIdOf DEF Created

LEMMA CommitType ==
  ASSUME TypeOK, OrderInv, NEW n \in PNode, Commit(n)
  PROVE  TypeOK'
  <1>1. PICK id : id = <<n[1], committed[n]>>
    OBVIOUS
  <1>2. /\ id \in Created /\ id \in BlockId /\ BlockOf(id) \in Block
        /\ committed[n] + 1 \in 0 .. (MaxHeight + 1) /\ n \in Node
    BY <1>1, NextCommitted, CreatedBlock, NodeFacts DEF Commit
  <1>3. /\ Gossip("HEADER", id, {RShard}) \subseteq Message
        /\ Gossip("CHUNK", id, DOMAIN BlockOf(id).txs) \subseteq Message
    BY <1>2, GossipType, BlockTxs
  <1>4. committed' \in [PNode -> 0 .. (MaxHeight + 1)]
    BY <1>2 DEF Commit, TypeOK
  <1>5. headers' \in [Node -> SUBSET BlockId]
    BY <1>1, <1>2 DEF Commit, TypeOK
  <1>6. net' \subseteq Message
    BY <1>1, <1>3 DEF Commit, TypeOK
  <1> QED BY <1>4, <1>5, <1>6 DEF Commit, TypeOK

LEMMA MessageFacts ==
  ASSUME TypeOK, NetInv, NEW m \in net
  PROVE  /\ m.id \in BlockId /\ m.id \in Created /\ m.to \in PShard \cup {RShard}
         /\ BlockOf(m.id) \in Block
  BY CreatedBlock DEF TypeOK, NetInv, Message

LEMMA AddToPoolType ==
  ASSUME TypeOK, NEW n \in Node, NEW id \in BlockId,
         AddToPool(n, id) \/ UNCHANGED pool
  PROVE  pool' \in [PShard -> Seq(BlockId)]
  <1>1. CASE n[1] # RShard /\ IsLeader(n) /\ pool' = [pool EXCEPT ![n[1]] = Append(@, id)]
    <2>1. n[1] \in PShard
      BY <1>1, NodeFacts, RNodeFacts
    <2>2. Append(pool[n[1]], id) \in Seq(BlockId)
      BY <2>1, LenFacts, AppendProperties
    <2> QED BY <1>1, <2>2 DEF TypeOK
  <1>2. CASE UNCHANGED pool
    BY <1>2 DEF TypeOK
  <1> QED BY <1>1, <1>2 DEF AddToPool

LEMMA HandleHeaderMsgType ==
  ASSUME TypeOK, NetInv, NEW n \in Node, NEW m \in net, HandleHeaderMsg(n, m)
  PROVE  TypeOK'
  <1>1. PICK id : id = m.id
    OBVIOUS
  <1>2. id \in BlockId /\ BlockOf(id) \in Block /\ n[1] \in PShard \cup {RShard}
    BY <1>1, MessageFacts DEF HandleHeaderMsg
  <1>3. ForwardTo(n, id) \subseteq PShard \cup {RShard}
    BY <1>2, BlockTxs DEF ForwardTo
  <1>4. Gossip("HEADER", id, ForwardTo(n, id)) \subseteq Message
    BY <1>2, <1>3, GossipType
  <1>5. net' \subseteq Message
    BY <1>1, <1>4 DEF HandleHeaderMsg, TypeOK
  <1>6. headers' \in [Node -> SUBSET BlockId]
    BY <1>1, <1>2 DEF HandleHeaderMsg, UpdateHeader, TypeOK
  <1>7. pool' \in [PShard -> Seq(BlockId)]
    BY <1>1, <1>2, AddToPoolType DEF HandleHeaderMsg, UpdateHeader
  <1> QED BY <1>5, <1>6, <1>7 DEF HandleHeaderMsg, TypeOK

LEMMA HandleInboundChunkMsgType ==
  ASSUME TypeOK, NetInv, NEW n \in Node, NEW m \in net, HandleInboundChunkMsg(n, m)
  PROVE  TypeOK'
  <1>1. PICK id : id = m.id
    OBVIOUS
  <1>2. id \in BlockId /\ n \in PNode /\ n[1] \in PShard
    BY <1>1, MessageFacts, NodeFacts DEF HandleInboundChunkMsg
  <1>3. Gossip("CHUNK", id, {n[1]}) \subseteq Message
    BY <1>2, GossipType
  <1>4. net' \subseteq Message
    BY <1>1, <1>3 DEF HandleInboundChunkMsg, TypeOK
  <1>5. chunks' \in [PNode -> SUBSET BlockId]
    BY <1>1, <1>2 DEF HandleInboundChunkMsg, UpdateInboundChunk, TypeOK
  <1>6. pool' \in [PShard -> Seq(BlockId)]
    BY <1>1, <1>2, AddToPoolType DEF HandleInboundChunkMsg, UpdateInboundChunk
  <1> QED BY <1>4, <1>5, <1>6 DEF HandleInboundChunkMsg, TypeOK

-----------------------------------------------------------------------------
(* TransferInv: steps that create a block.                                 *)

LEMMA GrowInv ==
  ASSUME TypeOK, BlockInv, NetInv, KnownInv, NEW s \in PShard,
         NEW h \in Nat, h = Len(blocks[s]), h <= MaxHeight, NEW b \in Block,
         blocks' = [blocks EXCEPT ![s] = Append(@, b)],
         s \notin DOMAIN b.txs, b.debited \subseteq DOMAIN b.txs,
         net' = net, headers' = headers, chunks' = chunks
  PROVE  BlockInv' /\ NetInv' /\ KnownInv'
  <1>1. /\ Created' = Created \cup {<<s, h>>}
        /\ \A id \in Created : BlockOf(id)' = BlockOf(id)
        /\ BlockOf(<<s, h>>)' = b
    BY GrowCreated
  <1>2. BlockInv'
    BY <1>1 DEF BlockInv
  <1>3. NetInv'
    BY <1>1 DEF NetInv
  <1>4. KnownInv'
    BY <1>1 DEF KnownInv
  <1> QED BY <1>2, <1>3, <1>4

LEMMA GrowOrder ==
  ASSUME TypeOK, OrderInv, NEW s \in PShard,
         NEW h \in Nat, h = Len(blocks[s]), h <= MaxHeight, NEW b \in Block,
         blocks' = [blocks EXCEPT ![s] = Append(@, b)],
         checked' = [checked EXCEPT ![LeaderOf(s)] = h + 1], committed' = committed
  PROVE  OrderInv'
  <1>1. /\ \A k \in PShard : k # s => blocks'[k] = blocks[k]
        /\ Len(blocks'[s]) = h + 1
    BY Grow
  <1>2. /\ checked'[LeaderOf(s)] = h + 1 /\ LeaderOf(s) \in PNode /\ LeaderOf(s)[1] = s
        /\ \A n \in PNode : n # LeaderOf(s) => checked'[n] = checked[n]
    BY LeaderNodes DEF TypeOK
  <1>3. ASSUME NEW k \in PShard
        PROVE  checked'[LeaderOf(k)] = Len(blocks'[k]) /\ Len(blocks'[k]) <= MaxHeight + 1
    <2>1. CASE k = s
      BY <1>1, <1>2, <2>1, ShardFacts
    <2>2. CASE k # s
      BY <1>1, <1>2, <2>2, LeaderNodes DEF OrderInv
    <2> QED BY <2>1, <2>2
  <1>4. ASSUME NEW n \in PNode
        PROVE  committed'[n] <= checked'[n] /\ checked'[n] <= Len(blocks'[n[1]])
    <2>1. /\ n[1] \in PShard /\ committed[n] <= checked[n]
          /\ checked[n] <= Len(blocks[n[1]])
      BY NodeFacts DEF OrderInv
    <2>2. checked[n] \in Nat /\ committed[n] \in Nat
      BY DEF TypeOK
    <2>3. CASE n = LeaderOf(s)
      BY <1>1, <1>2, <2>1, <2>2, <2>3
    <2>4. CASE n # LeaderOf(s)
      <3>1. n[1] = s => checked[n] <= h + 1
        BY <2>1, <2>2
      <3> QED BY <1>1, <1>2, <2>1, <2>2, <2>4, <3>1
    <2> QED BY <2>3, <2>4
  <1> QED BY <1>3, <1>4 DEF OrderInv

LEMMA GenesisInv ==
  ASSUME TypeOK, TransferInv, NEW s \in PShard, Genesis(s)
  PROVE  TransferInv'
  <1>1. PICK b : b = [txs |-> NoTxs, debited |-> {}, inbound |-> {}]
    OBVIOUS
  <1>2. /\ b \in Block /\ b.inbound = {} /\ s \notin DOMAIN b.txs
        /\ b.debited \subseteq DOMAIN b.txs
    BY <1>1, GenesisBlock
  <1>3. Len(blocks[s]) = 0 /\ blocks' = [blocks EXCEPT ![s] = Append(@, b)]
    BY <1>1, GenesisAppends
  <1>4. PICK h \in Nat : h = 0 /\ h <= MaxHeight /\ h + 1 = 1
    BY ShardFacts
  <1>5. BlockInv' /\ NetInv' /\ KnownInv'
    BY <1>2, <1>3, <1>4, GrowInv DEF TransferInv, Genesis
  <1>6. OrderInv'
    BY <1>2, <1>3, <1>4, GrowOrder DEF TransferInv, Genesis
  <1>7. PoolInv'
    <2>1. /\ \A k \in PShard : k # s => blocks'[k] = blocks[k]
          /\ Len(blocks'[s]) = 1 /\ blocks'[s][1] = b
      <3>1. h = Len(blocks[s])
        BY <1>3, <1>4
      <3>2. /\ \A k \in PShard : k # s => blocks'[k] = blocks[k]
            /\ Len(blocks'[s]) = h + 1 /\ blocks'[s][h + 1] = b
        <4>1. h \in Nat /\ h <= MaxHeight /\ b \in Block
          BY <1>2, <1>4
        <4>2. blocks' = [blocks EXCEPT ![s] = Append(@, b)]
          BY <1>3
        <4> HIDE <1>4
        <4> QED BY <3>1, <4>1, <4>2, Grow
      <3> QED BY <1>4, <3>2
    <2>2. pool' = pool /\ \A k : Matched(k)' = Matched(k)
      BY DEF Genesis, Matched
    <2>3. ASSUME NEW k \in PShard
          PROVE  /\ \A i \in 1 .. Len(blocks'[k]) : blocks'[k][i].inbound \subseteq Matched(k)'
                 /\ \A i \in 1 .. Len(pool'[k]) : pool'[k][i] \in Matched(k)'
                 /\ Once(k)'
      <3>1. CASE k # s
        BY <2>1, <2>2, <3>1 DEF TransferInv, PoolInv, Once
      <3>2. CASE k = s
        <4>1. \A i \in 1 .. Len(blocks'[k]) : i = 1 /\ blocks'[k][i].inbound = {}
          BY <1>2, <2>1, <3>2
        <4> QED BY <2>2, <4>1 DEF TransferInv, PoolInv, Once
      <3> QED BY <3>1, <3>2
    <2> QED BY <2>3 DEF PoolInv
  <1> QED BY <1>5, <1>6, <1>7 DEF TransferInv

\* The chunks taken from the pool are in no other block, and pending no more.
LEMMA CreateNewBlockPool ==
  ASSUME TypeOK, PoolInv, NEW s \in PShard, CreateNewBlock(s)
  PROVE  PoolInv'
  <1>1. PICK h, k : h = Len(blocks[s]) /\ k = TakenCount(s)
    OBVIOUS
  <1>2. PICK b \in Block : /\ blocks' = [blocks EXCEPT ![s] = Append(@, b)]
                           /\ b.inbound = {Taken(s)[i] : i \in 1 .. TakenCount(s)}
    BY NewBlock
  <1>3. h \in Nat /\ h <= MaxHeight /\ k \in Nat /\ k <= Len(pool[s]) /\ Len(pool[s]) \in Nat
    BY <1>1, HeightBound, TakenFacts, LenFacts DEF CreateNewBlock
  <1>4. /\ \A r \in PShard : r # s => blocks'[r] = blocks[r]
        /\ Len(blocks'[s]) = h + 1
        /\ \A i \in 1 .. h : blocks'[s][i] = blocks[s][i]
        /\ blocks'[s][h + 1] = b
    <2>1. h \in Nat /\ h = Len(blocks[s]) /\ h <= MaxHeight
      BY <1>1, <1>3
    <2>2. blocks' = [blocks EXCEPT ![s] = Append(@, b)]
      BY <1>2
    <2> QED BY <2>1, <2>2, Grow
  <1>5. /\ \A r \in PShard : r # s => pool'[r] = pool[r]
        /\ Len(pool'[s]) = Len(pool[s]) - k
        /\ \A i \in 1 .. Len(pool'[s]) : k + i \in 1 .. Len(pool[s])
                                         /\ pool'[s][i] = pool[s][k + i]
    <2>1. k \in Nat /\ k = TakenCount(s)
      BY <1>1, <1>3
    <2>2. TypeOK /\ CreateNewBlock(s)
      OBVIOUS
    <2> QED BY ONLY s \in PShard, <2>1, <2>2, RestFacts
  <1>6. \A r : Matched(r)' = Matched(r)
    BY DEF Matched, CreateNewBlock
  <1>7. \A x \in b.inbound : \E i \in 1 .. k : i \in 1 .. Len(pool[s]) /\ x = pool[s][i]
    BY <1>1, <1>2, TakenFacts
  <1>8. \A i \in 1 .. Len(blocks'[s]) : i \in 1 .. h \/ i = h + 1
    BY <1>3, <1>4
  <1>9. ASSUME NEW i \in 1 .. Len(blocks'[s])
        PROVE  blocks'[s][i].inbound \subseteq Matched(s)'
    <2>1. CASE i \in 1 .. h
      BY <1>1, <1>4, <1>6, <2>1 DEF PoolInv
    <2>2. CASE i = h + 1
      BY <1>4, <1>6, <1>7, <2>2 DEF PoolInv
    <2> QED BY <1>8, <2>1, <2>2
  <1>10. \A i \in 1 .. Len(pool'[s]) : pool'[s][i] \in Matched(s)'
    BY <1>5, <1>6 DEF PoolInv
  <1>11. Once(s)
    BY DEF PoolInv
  <1>12. \A i \in 1 .. h : blocks'[s][i].inbound \cap blocks'[s][h + 1].inbound = {}
    BY <1>1, <1>4, <1>7, <1>11 DEF Once
  <1>13. ASSUME NEW i \in 1 .. Len(blocks'[s]), NEW j \in 1 .. Len(blocks'[s]),
                blocks'[s][i].inbound \cap blocks'[s][j].inbound # {}
         PROVE  i = j
    <2>1. CASE i \in 1 .. h /\ j \in 1 .. h
      BY <1>1, <1>4, <1>11, <1>13, <2>1 DEF Once
    <2>2. CASE i \in 1 .. h /\ j = h + 1
      BY <1>12, <1>13, <2>2
    <2>3. CASE i = h + 1 /\ j \in 1 .. h
      BY <1>12, <1>13, <2>3
    <2> QED BY <1>8, <2>1, <2>2, <2>3
  <1>14. ASSUME NEW i \in 1 .. Len(pool'[s])
         PROVE  /\ \A j \in 1 .. Len(blocks'[s]) : pool'[s][i] \notin blocks'[s][j].inbound
                /\ \A j \in 1 .. Len(pool'[s]) : pool'[s][i] = pool'[s][j] => i = j
    <2>1. k + i \in 1 .. Len(pool[s]) /\ pool'[s][i] = pool[s][k + i]
      BY <1>5
    <2>2. \A j \in 1 .. h : pool'[s][i] \notin blocks'[s][j].inbound
      BY <1>1, <1>4, <1>11, <2>1 DEF Once
    <2>3. pool'[s][i] \notin b.inbound
      <3>1. \A j \in 1 .. k : j # k + i
        BY <1>3, <1>5
      <3> QED BY <1>7, <1>11, <2>1, <3>1 DEF Once
    <2>4. ASSUME NEW j \in 1 .. Len(pool'[s]), pool'[s][i] = pool'[s][j]
          PROVE  i = j
      <3>1. k + j \in 1 .. Len(pool[s]) /\ pool'[s][j] = pool[s][k + j]
        BY <1>5
      <3>2. k + i = k + j
        BY <1>11, <2>1, <2>4, <3>1 DEF Once
      <3> QED BY <1>3, <1>5, <3>2
    <2> QED BY <1>4, <1>8, <2>2, <2>3, <2>4
  <1>15. Once(s)'
    BY <1>13, <1>14 DEF Once
  <1>16. ASSUME NEW r \in PShard, r # s
         PROVE  /\ \A i \in 1 .. Len(blocks'[r]) : blocks'[r][i].inbound \subseteq Matched(r)'
                /\ \A i \in 1 .. Len(pool'[r]) : pool'[r][i] \in Matched(r)'
                /\ Once(r)'
    BY <1>4, <1>5, <1>6, <1>16 DEF PoolInv, Once
  <1> QED BY <1>9, <1>10, <1>15, <1>16 DEF PoolInv

LEMMA CreateNewBlockInv ==
  ASSUME TypeOK, TransferInv, NEW s \in PShard, CreateNewBlock(s)
  PROVE  TransferInv'
  <1>1. PICK h : h = Len(blocks[s])
    OBVIOUS
  <1>2. PICK b \in Block : /\ blocks' = [blocks EXCEPT ![s] = Append(@, b)]
                           /\ s \notin DOMAIN b.txs /\ b.debited \subseteq DOMAIN b.txs
    BY NewBlock
  <1>3. h \in Nat /\ h <= MaxHeight
    BY <1>1, HeightBound DEF CreateNewBlock
  <1>4. BlockInv' /\ NetInv' /\ KnownInv'
    BY <1>1, <1>2, <1>3, GrowInv DEF TransferInv, CreateNewBlock
  <1>5. checked' = [checked EXCEPT ![LeaderOf(s)] = h + 1]
    BY <1>1 DEF TransferInv, OrderInv, CreateNewBlock
  <1>6. OrderInv'
    BY <1>1, <1>2, <1>3, <1>5, GrowOrder DEF TransferInv, CreateNewBlock
  <1> QED BY <1>4, <1>6, CreateNewBlockPool DEF TransferInv

-----------------------------------------------------------------------------
(* TransferInv: steps that create no block.                                *)

\* The pools stay as they are; leaders may have more chunks with a header.
LEMMA SamePool ==
  ASSUME PoolInv, blocks' = blocks, pool' = pool,
         \A s \in PShard : Matched(s) \subseteq Matched(s)'
  PROVE  PoolInv'
  <1>1. ASSUME NEW s \in PShard
        PROVE  /\ \A i \in 1 .. Len(blocks'[s]) : blocks'[s][i].inbound \subseteq Matched(s)'
               /\ \A i \in 1 .. Len(pool'[s]) : pool'[s][i] \in Matched(s)'
               /\ Once(s)'
    <2>1. Once(s)'
      BY DEF PoolInv, Once
    <2> QED BY <2>1 DEF PoolInv
  <1> QED BY <1>1 DEF PoolInv

\* A chunk goes into a pool when its header or it arrives as the second.
LEMMA PoolGrows ==
  ASSUME TypeOK, PoolInv, blocks' = blocks, NEW r \in PShard, NEW id \in BlockId,
         pool' = [pool EXCEPT ![r] = Append(@, id)],
         id \notin Matched(r), id \in Matched(r)',
         \A s \in PShard : Matched(s) \subseteq Matched(s)'
  PROVE  PoolInv'
  <1>1. PICK l : l = Len(pool[r])
    OBVIOUS
  <1>2. l \in Nat /\ pool[r] \in Seq(BlockId)
    BY <1>1, LenFacts
  <1>3. /\ Len(pool'[r]) = l + 1 /\ \A i \in 1 .. l : pool'[r][i] = pool[r][i]
        /\ pool'[r][l + 1] = id
    <2>1. pool'[r] = Append(pool[r], id)
      BY DEF TypeOK
    <2>2. /\ Len(Append(pool[r], id)) = l + 1
          /\ \A i \in 1 .. l : Append(pool[r], id)[i] = pool[r][i]
          /\ Append(pool[r], id)[l + 1] = id
      BY <1>1, <1>2, AppendProperties
    <2> QED BY <2>1, <2>2
  <1>4. \A s \in PShard : s # r => pool'[s] = pool[s]
    BY DEF TypeOK
  <1>5. \A i \in 1 .. Len(pool'[r]) : i \in 1 .. l \/ i = l + 1
    BY <1>2, <1>3
  <1>6. /\ \A i \in 1 .. Len(blocks[r]) : id \notin blocks[r][i].inbound
        /\ \A i \in 1 .. l : pool[r][i] # id
    BY <1>1 DEF PoolInv
  <1>7. Once(r)
    BY DEF PoolInv
  <1>8. ASSUME NEW i \in 1 .. Len(pool'[r])
        PROVE  /\ pool'[r][i] \in Matched(r)'
               /\ \A j \in 1 .. Len(blocks[r]) : pool'[r][i] \notin blocks[r][j].inbound
               /\ \A j \in 1 .. Len(pool'[r]) : pool'[r][i] = pool'[r][j] => i = j
    <2>1. CASE i \in 1 .. l
      <3>1. pool'[r][i] = pool[r][i] /\ pool[r][i] # id /\ pool[r][i] \in Matched(r)
        BY <1>1, <1>3, <1>6, <2>1 DEF PoolInv
      <3>2. \A j \in 1 .. Len(blocks[r]) : pool[r][i] \notin blocks[r][j].inbound
        BY <1>1, <1>7, <2>1 DEF Once
      <3>3. \A j \in 1 .. l : pool[r][i] = pool[r][j] => i = j
        BY <1>1, <1>7, <2>1 DEF Once
      <3>4. \A j \in 1 .. Len(pool'[r]) : pool'[r][i] = pool'[r][j] => i = j
        BY <1>3, <1>5, <3>1, <3>3
      <3> QED BY <3>1, <3>2, <3>4
    <2>2. CASE i = l + 1
      <3>1. \A j \in 1 .. Len(pool'[r]) : pool'[r][i] = pool'[r][j] => i = j
        BY <1>3, <1>5, <1>6, <2>2
      <3> QED BY <1>3, <1>6, <2>2, <3>1
    <2> QED BY <1>5, <2>1, <2>2
  <1>9. Once(r)'
    BY <1>7, <1>8 DEF Once
  <1>10. ASSUME NEW s \in PShard
         PROVE  /\ \A i \in 1 .. Len(blocks'[s]) : blocks'[s][i].inbound \subseteq Matched(s)'
                /\ \A i \in 1 .. Len(pool'[s]) : pool'[s][i] \in Matched(s)'
                /\ Once(s)'
    <2>1. CASE s = r
      BY <1>8, <1>9, <2>1 DEF PoolInv
    <2>2. CASE s # r
      <3>1. pool'[s] = pool[s]
        BY <1>4, <2>2
      <3>2. Once(s)'
        BY <3>1 DEF PoolInv, Once
      <3> QED BY <3>1, <3>2 DEF PoolInv
    <2> QED BY <2>1, <2>2
  <1> QED BY <1>10 DEF PoolInv

LEMMA CheckBlockInv ==
  ASSUME TypeOK, TransferInv, NEW n \in PNode, CheckBlock(n)
  PROVE  TransferInv'
  <1>1. Created' = Created /\ \A id : BlockOf(id)' = BlockOf(id)
    BY SameBlocks DEF CheckBlock
  <1>2. BlockInv' /\ NetInv' /\ KnownInv'
    BY <1>1 DEF TransferInv, BlockInv, NetInv, KnownInv, CheckBlock
  <1>3. PoolInv'
    BY SamePool DEF TransferInv, CheckBlock, Matched
  <1>4. OrderInv'
    <2>1. /\ checked[n] \in Nat /\ committed[n] \in Nat /\ checked[n] < Len(blocks[n[1]])
          /\ Len(blocks[n[1]]) \in Nat /\ n[1] \in PShard
      BY NodeFacts, LenFacts DEF TypeOK, CheckBlock
    <2>2. \A s \in PShard : LeaderOf(s) # n
      BY <2>1, LeaderNodes DEF TransferInv, OrderInv
    <2>3. /\ checked'[n] = checked[n] + 1
          /\ \A k \in PNode : k # n => checked'[k] = checked[k]
      BY DEF CheckBlock, TypeOK
    <2>4. committed'[n] <= checked'[n] /\ checked'[n] <= Len(blocks'[n[1]])
      BY <2>1, <2>3 DEF CheckBlock
    <2>5. \A s \in PShard : checked'[LeaderOf(s)] = checked[LeaderOf(s)]
      BY <2>2, <2>3, LeaderNodes
    <2> QED BY <2>3, <2>4, <2>5 DEF TransferInv, OrderInv, CheckBlock
  <1> QED BY <1>2, <1>3, <1>4 DEF TransferInv

LEMMA CommitInv ==
  ASSUME TypeOK, TransferInv, NEW n \in PNode, Commit(n)
  PROVE  TransferInv'
  <1>0. OrderInv /\ BlockInv /\ NetInv /\ KnownInv /\ PoolInv
    BY DEF TransferInv
  <1>1. PICK id : id = <<n[1], committed[n]>>
    OBVIOUS
  <1>2. /\ id \in Created /\ id \in BlockId /\ id[1] = n[1] /\ n \in Node
        /\ committed[n] + 1 <= checked[n]
    BY <1>0, <1>1, NextCommitted, CreatedBlock, NodeFacts DEF Commit
  <1>3. Created' = Created /\ \A x : BlockOf(x)' = BlockOf(x)
    BY SameBlocks DEF Commit
  <1>4. /\ headers'[n] = headers[n] \cup {id} /\ chunks' = chunks
        /\ \A k \in Node : k # n => headers'[k] = headers[k]
    BY <1>1, <1>2 DEF Commit, TypeOK
  <1>5. BlockInv'
    BY <1>0, <1>3 DEF BlockInv
  <1>6. NetInv'
    <2>1. net' \subseteq net \cup Gossip("HEADER", id, {RShard})
                             \cup Gossip("CHUNK", id, DOMAIN BlockOf(id).txs)
      BY <1>1 DEF Commit
    <2>2. ASSUME NEW m \in net'
          PROVE  /\ m.id \in Created
                 /\ m.kind = "CHUNK" => m.to \in DOMAIN BlockOf(m.id).txs
                 /\ m.kind = "HEADER" => m.to \in BlockOf(m.id).debited \cup {RShard}
      <3>1. CASE m \in net
        BY <1>0, <3>1 DEF NetInv
      <3>2. CASE m \in Gossip("HEADER", id, {RShard})
        BY <1>2, <3>2 DEF Gossip
      <3>3. CASE m \in Gossip("CHUNK", id, DOMAIN BlockOf(id).txs)
        BY <1>2, <3>3 DEF Gossip
      <3> QED BY <2>1, <3>1, <3>2, <3>3
    <2> QED BY <1>3, <2>2 DEF NetInv
  <1>7. KnownInv'
    BY <1>0, <1>2, <1>3, <1>4, NodeFacts DEF KnownInv
  <1>8. PoolInv'
    <2>1. \A s \in PShard : Matched(s) \subseteq Matched(s)'
      BY <1>4, LeaderNodes, NodeFacts DEF Matched
    <2> QED BY <1>0, <2>1, SamePool DEF Commit
  <1>9. OrderInv'
    <2>1. /\ committed'[n] = committed[n] + 1
          /\ \A k \in PNode : k # n => committed'[k] = committed[k]
      BY DEF Commit, TypeOK
    <2> QED BY <1>0, <1>2, <2>1 DEF OrderInv, Commit
  <1> QED BY <1>5, <1>6, <1>7, <1>8, <1>9 DEF TransferInv

LEMMA HandleHeaderMsgInv ==
  ASSUME TypeOK, TransferInv, NEW n \in Node, NEW m \in net, HandleHeaderMsg(n, m)
  PROVE  TransferInv'
  <1>0. OrderInv /\ BlockInv /\ NetInv /\ KnownInv /\ PoolInv
    BY DEF TransferInv
  <1>1. PICK id : id = m.id
    OBVIOUS
  <1>2. /\ id \in Created /\ id \in BlockId /\ m.to = n[1]
        /\ n[1] \in BlockOf(id).debited \cup {RShard}
    BY <1>0, <1>1, MessageFacts DEF HandleHeaderMsg, NetInv
  <1>3. Created' = Created /\ \A x : BlockOf(x)' = BlockOf(x)
    BY SameBlocks DEF HandleHeaderMsg
  <1>4. /\ headers'[n] = headers[n] \cup {id} /\ chunks' = chunks /\ blocks' = blocks
        /\ \A k \in Node : k # n => headers'[k] = headers[k]
        /\ id \notin headers[n]
    BY <1>1 DEF HandleHeaderMsg, UpdateHeader, TypeOK
  <1>5. BlockInv'
    BY <1>0, <1>3 DEF BlockInv
  <1>6. NetInv'
    <2>1. net' = net \cup Gossip("HEADER", id, ForwardTo(n, id))
      BY <1>1 DEF HandleHeaderMsg
    <2>2. \A s \in ForwardTo(n, id) : s \in BlockOf(id).debited \cup {RShard}
      BY <1>2 DEF ForwardTo
    <2>3. ASSUME NEW x \in net'
          PROVE  /\ x.id \in Created
                 /\ x.kind = "CHUNK" => x.to \in DOMAIN BlockOf(x.id).txs
                 /\ x.kind = "HEADER" => x.to \in BlockOf(x.id).debited \cup {RShard}
      <3>1. CASE x \in net
        BY <1>0, <3>1 DEF NetInv
      <3>2. CASE x \in Gossip("HEADER", id, ForwardTo(n, id))
        BY <1>2, <2>2, <3>2 DEF Gossip
      <3> QED BY <2>1, <3>1, <3>2
    <2> QED BY <1>3, <2>3 DEF NetInv
  <1>7. KnownInv'
    <2>1. n \in PNode => n[1] # RShard
      BY NodeFacts, ShardFacts
    <2> QED BY <1>0, <1>2, <1>3, <1>4, <2>1, NodeFacts DEF KnownInv
  <1>8. PoolInv'
    <2>1. \A s \in PShard : Matched(s) \subseteq Matched(s)'
      BY <1>4, LeaderNodes, NodeFacts DEF Matched
    <2>2. CASE pool' = pool
      BY <1>0, <1>4, <2>1, <2>2, SamePool
    <2>3. CASE pool' # pool
      <3>1. /\ n \in PNode /\ id \in chunks[n] /\ IsLeader(n)
            /\ pool' = [pool EXCEPT ![n[1]] = Append(@, id)]
        BY <1>1, <2>3 DEF HandleHeaderMsg, UpdateHeader, AddToPool
      <3>2. n = LeaderOf(n[1]) /\ n[1] \in PShard
        BY <3>1, NodeFacts
      <3>3. id \notin Matched(n[1]) /\ id \in Matched(n[1])'
        BY <1>4, <3>1, <3>2 DEF Matched
      <3> QED BY <1>0, <1>2, <1>4, <2>1, <3>1, <3>2, <3>3, PoolGrows
    <2> QED BY <2>2, <2>3
  <1>9. OrderInv'
    BY <1>0 DEF OrderInv, HandleHeaderMsg
  <1> QED BY <1>5, <1>6, <1>7, <1>8, <1>9 DEF TransferInv

LEMMA HandleInboundChunkMsgInv ==
  ASSUME TypeOK, TransferInv, NEW n \in Node, NEW m \in net, HandleInboundChunkMsg(n, m)
  PROVE  TransferInv'
  <1>0. OrderInv /\ BlockInv /\ NetInv /\ KnownInv /\ PoolInv
    BY DEF TransferInv
  <1>1. PICK id : id = m.id
    OBVIOUS
  <1>2. /\ id \in Created /\ id \in BlockId /\ m.to = n[1] /\ n \in PNode
        /\ n[1] \in DOMAIN BlockOf(id).txs
    BY <1>0, <1>1, MessageFacts DEF HandleInboundChunkMsg, NetInv
  <1>3. Created' = Created /\ \A x : BlockOf(x)' = BlockOf(x)
    BY SameBlocks DEF HandleInboundChunkMsg
  <1>4. /\ chunks'[n] = chunks[n] \cup {id} /\ headers' = headers /\ blocks' = blocks
        /\ \A k \in PNode : k # n => chunks'[k] = chunks[k]
        /\ id \notin chunks[n]
    BY <1>1 DEF HandleInboundChunkMsg, UpdateInboundChunk, TypeOK
  <1>5. BlockInv'
    BY <1>0, <1>3 DEF BlockInv
  <1>6. NetInv'
    <2>1. net' = net \cup Gossip("CHUNK", id, {n[1]})
      BY <1>1 DEF HandleInboundChunkMsg
    <2>2. ASSUME NEW x \in net'
          PROVE  /\ x.id \in Created
                 /\ x.kind = "CHUNK" => x.to \in DOMAIN BlockOf(x.id).txs
                 /\ x.kind = "HEADER" => x.to \in BlockOf(x.id).debited \cup {RShard}
      <3>1. CASE x \in net
        BY <1>0, <3>1 DEF NetInv
      <3>2. CASE x \in Gossip("CHUNK", id, {n[1]})
        BY <1>2, <3>2 DEF Gossip
      <3> QED BY <2>1, <3>1, <3>2
    <2> QED BY <1>3, <2>2 DEF NetInv
  <1>7. KnownInv'
    BY <1>0, <1>2, <1>3, <1>4 DEF KnownInv
  <1>8. PoolInv'
    <2>1. \A s \in PShard : Matched(s) \subseteq Matched(s)'
      BY <1>4, LeaderNodes DEF Matched
    <2>2. CASE pool' = pool
      BY <1>0, <1>4, <2>1, <2>2, SamePool
    <2>3. CASE pool' # pool
      <3>1. /\ id \in headers[n] /\ IsLeader(n)
            /\ pool' = [pool EXCEPT ![n[1]] = Append(@, id)]
        BY <1>1, <2>3 DEF HandleInboundChunkMsg, UpdateInboundChunk, AddToPool
      <3>2. n = LeaderOf(n[1]) /\ n[1] \in PShard
        BY <1>2, <3>1, NodeFacts
      <3>3. id \notin Matched(n[1]) /\ id \in Matched(n[1])'
        BY <1>4, <3>1, <3>2 DEF Matched
      <3> QED BY <1>0, <1>2, <1>4, <2>1, <3>1, <3>2, <3>3, PoolGrows
    <2> QED BY <2>2, <2>3
  <1>9. OrderInv'
    BY <1>0 DEF OrderInv, HandleInboundChunkMsg
  <1> QED BY <1>5, <1>6, <1>7, <1>8, <1>9 DEF TransferInv

-----------------------------------------------------------------------------
(* The theorems.                                                           *)

LEMMA TransferInit ==
  ASSUME Init
  PROVE  TransferInv
  <1>1. \A s \in PShard : Len(blocks[s]) = 0 /\ Len(pool[s]) = 0
    BY DEF Init
  <1>2. Created = {}
    <2>1. \A id \in BlockId : ~(id[2] < Len(blocks[id[1]]))
      BY <1>1, BlockIdFacts
    <2> QED BY <2>1 DEF Created
  <1>3. OrderInv
    BY <1>1, LeaderNodes, NodeFacts, ShardFacts DEF OrderInv, Init
  <1>4. BlockInv /\ NetInv
    BY <1>2 DEF BlockInv, NetInv, Init
  <1>5. KnownInv
    BY NodeFacts DEF KnownInv, Init
  <1>6. PoolInv
    BY <1>1 DEF PoolInv, Once
  <1> QED BY <1>3, <1>4, <1>5, <1>6 DEF TransferInv

\* Whatever happens, and in whatever order headers and chunks arrive: chains,
\* balances, pools and messages keep their types (no balance falls below zero),
\* and every chunk that is pending or credited is one whose header came too.
THEOREM TransferInvariant == Spec => [](TypeOK /\ TransferInv)
  <1>1. Init => TypeOK /\ TransferInv
    BY TypeInit, TransferInit
  <1>2. TypeOK /\ TransferInv /\ [Next]_vars => TypeOK' /\ TransferInv'
    <2> SUFFICES ASSUME TypeOK, TransferInv, [Next]_vars
                 PROVE  TypeOK' /\ TransferInv'
      OBVIOUS
    <2>0. OrderInv /\ NetInv
      BY DEF TransferInv
    <2>1. ASSUME NEW s \in PShard, Genesis(s) PROVE TypeOK' /\ TransferInv'
      BY <2>1, GenesisType, GenesisInv
    <2>2. ASSUME NEW s \in PShard, CreateNewBlock(s) PROVE TypeOK' /\ TransferInv'
      BY <2>0, <2>2, CreateNewBlockType, CreateNewBlockInv
    <2>3. ASSUME NEW n \in PNode, CheckBlock(n) PROVE TypeOK' /\ TransferInv'
      BY <2>0, <2>3, CheckBlockType, CheckBlockInv
    <2>4. ASSUME NEW n \in PNode, Commit(n) PROVE TypeOK' /\ TransferInv'
      BY <2>0, <2>4, CommitType, CommitInv
    <2>5. ASSUME NEW n \in Node, NEW m \in net, HandleHeaderMsg(n, m)
          PROVE  TypeOK' /\ TransferInv'
      BY <2>0, <2>5, HandleHeaderMsgType, HandleHeaderMsgInv
    <2>6. ASSUME NEW n \in Node, NEW m \in net, HandleInboundChunkMsg(n, m)
          PROVE  TypeOK' /\ TransferInv'
      BY <2>0, <2>6, HandleInboundChunkMsgType, HandleInboundChunkMsgInv
    <2>7. CASE UNCHANGED vars
      <3>1. TypeOK'
        BY <2>7 DEF vars, TypeOK
      <3>2. OrderInv' /\ NetInv'
        BY <2>7 DEF TransferInv, OrderInv, NetInv, Created, BlockOf, vars
      <3>3. BlockInv' /\ KnownInv'
        BY <2>7 DEF TransferInv, BlockInv, KnownInv, Created, BlockOf, vars
      <3>4. PoolInv'
        BY <2>7, SamePool DEF TransferInv, Matched, vars
      <3> QED BY <3>1, <3>2, <3>3, <3>4 DEF TransferInv
    <2> QED BY <2>1, <2>2, <2>3, <2>4, <2>5, <2>6, <2>7 DEF Next
  <1> QED BY <1>1, <1>2, PTL DEF Spec

LEMMA CreditedMatched ==
  ASSUME TypeOK, TransferInv, NEW s \in PShard, NEW id \in BlockId, id \in Matched(s)
  PROVE  [id |-> id, to |-> s] \in Debited
  <1>1. PICK n : n = LeaderOf(s)
    OBVIOUS
  <1>2. n \in PNode /\ n[1] = s /\ id \in headers[n] /\ id \in chunks[n]
    BY <1>1, LeaderNodes DEF Matched
  <1>3. /\ id \in Created /\ s \in BlockOf(id).debited \cup {id[1]}
        /\ s \in DOMAIN BlockOf(id).txs
    BY <1>2 DEF TransferInv, KnownInv
  <1>4. s \in BlockOf(id).debited
    BY <1>3 DEF TransferInv, BlockInv
  <1> QED BY <1>3, <1>4 DEF Debited, TransferId

LEMMA InvBacked ==
  ASSUME TypeOK, TransferInv
  PROVE  NoUnbackedCredit
  <1>1. ASSUME NEW t \in Credited PROVE t \in Debited
    <2>1. t.id \in BlockId /\ t.to \in PShard /\ t = [id |-> t.id, to |-> t.to]
      BY DEF Credited, TransferId
    <2>2. t.id \in Matched(t.to)
      BY <2>1 DEF Credited, TransferInv, PoolInv
    <2> QED BY <2>1, <2>2, CreditedMatched
  <1>2. ASSUME NEW s \in PShard, NEW i \in 1 .. Len(pool[s])
        PROVE  [id |-> pool[s][i], to |-> s] \in Debited
    <2>1. pool[s][i] \in BlockId /\ pool[s][i] \in Matched(s)
      BY LenFacts DEF TransferInv, PoolInv
    <2> QED BY <2>1, CreditedMatched
  <1> QED BY <1>1, <1>2 DEF NoUnbackedCredit

\* No shard credits what was not debited: a chunk is credited once its header
\* has come too, and the RShard sends a header only to the shards that its
\* block has debited a transfer to.
THEOREM Backed == Spec => []NoUnbackedCredit
  <1>1. TypeOK /\ TransferInv => NoUnbackedCredit
    BY InvBacked
  <1> QED BY <1>1, TransferInvariant, PTL

\* A chunk is credited by one block and no longer pending when it is, however
\* often it or its header arrives and whichever of them is first.
THEOREM CreditedOnce == Spec => []CreditOnce
  <1>1. TypeOK /\ TransferInv => CreditOnce
    <2> SUFFICES ASSUME TypeOK, TransferInv, NEW s \in PShard
                 PROVE  /\ \A i, j \in 1 .. Len(blocks[s]) :
                             blocks[s][i].inbound \cap blocks[s][j].inbound # {} => i = j
                        /\ \A i \in 1 .. Len(pool[s]) :
                             /\ [id |-> pool[s][i], to |-> s] \notin Credited
                             /\ \A j \in 1 .. Len(pool[s]) :
                                  pool[s][i] = pool[s][j] => i = j
      BY DEF CreditOnce
    <2>1. Once(s)
      BY DEF TransferInv, PoolInv
    <2>2. \A i \in 1 .. Len(pool[s]) : [id |-> pool[s][i], to |-> s] \notin Credited
      BY <2>1 DEF Once, Credited
    <2> QED BY <2>1, <2>2 DEF Once
  <1> QED BY <1>1, TransferInvariant, PTL

-----------------------------------------------------------------------------
(* Counting units.                                                         *)

\* A finite union of finite sets, indexed by a finite set.
LEMMA IndexedUnion ==
  ASSUME NEW A, IsFiniteSet(A), NEW f, f = [a \in A |-> f[a]],
         \A a \in A : IsFiniteSet(f[a])
  PROVE  IsFiniteSet(UNION {f[a] : a \in A})
  <1>1. PICK R : R = {f[a] : a \in A}
    OBVIOUS
  <1>2. f \in Surjection(A, R)
    BY <1>1 DEF Surjection
  <1>3. IsFiniteSet(R)
    BY <1>2, FS_Surjection
  <1> QED BY <1>1, <1>3, FS_UNION

LEMMA PairsFinite ==
  ASSUME NEW x, NEW S, IsFiniteSet(S)
  PROVE  IsFiniteSet({x} \X S) /\ Cardinality({x} \X S) = Cardinality(S)
  <1>1. IsFiniteSet({x}) /\ Cardinality({x}) = 1
    BY FS_Singleton
  <1>2. IsFiniteSet({x} \X S) /\ Cardinality({x} \X S) = 1 * Cardinality(S)
    BY <1>1, FS_Product
  <1>3. Cardinality(S) \in Nat
    BY FS_CardinalityType
  <1> QED BY <1>2, <1>3

LEMMA UnitsFinite ==
  ASSUME NEW bal \in [Account -> Nat]
  PROVE  IsFiniteSet(Units(bal))
  <1>1. PICK f : f = [a \in Account |-> {a} \X (1 .. bal[a])]
    OBVIOUS
  <1>2. ASSUME NEW a \in Account PROVE IsFiniteSet(f[a])
    <2>1. IsFiniteSet(1 .. bal[a])
      BY FS_Interval
    <2> QED BY <1>1, <2>1, PairsFinite
  <1>3. IsFiniteSet(UNION {f[a] : a \in Account})
    BY <1>1, <1>2, SizesAssumption, IndexedUnion
  <1>4. UNION {f[a] : a \in Account} = Units(bal)
    BY <1>1 DEF Units
  <1> QED BY <1>3, <1>4

LEMMA UnitsElements ==
  ASSUME NEW bal \in [Account -> Nat]
  PROVE  \A u : u \in Units(bal) <=>
           /\ u = <<u[1], u[2]>> /\ u[1] \in Account
           /\ u[2] \in Nat /\ 1 <= u[2] /\ u[2] <= bal[u[1]]
  BY DEF Units

LEMMA BijectionFacts ==
  ASSUME NEW S, NEW T, NEW h \in Bijection(S, T)
  PROVE  /\ h \in [S -> T] /\ \A x, y \in S : h[x] = h[y] => x = y
         /\ \A t \in T : \E x \in S : h[x] = t
  BY DEF Bijection, Injection, IsInjective, Surjection

LEMMA IsBijection ==
  ASSUME NEW S, NEW T, NEW h \in [S -> T],
         \A x, y \in S : h[x] = h[y] => x = y, \A t \in T : \E x \in S : h[x] = t
  PROVE  h \in Injection(S, T) /\ h \in Surjection(S, T)
  BY DEF Injection, IsInjective, Surjection

\* T has one element for each unit that an account has in hi and not in lo.
LEMMA NewUnits ==
  ASSUME NEW lo \in [Account -> Nat], NEW hi \in [Account -> Nat],
         NEW T, IsFiniteSet(T), NEW g \in [T -> Account],
         \A a \in Account : hi[a] = lo[a] + Cardinality({t \in T : g[t] = a})
  PROVE  LET N == UNION {{a} \X (lo[a] + 1 .. hi[a]) : a \in Account}
         IN  IsFiniteSet(N) /\ Cardinality(N) = Cardinality(T)
  <1>1. PICK N, F : /\ N = UNION {{a} \X (lo[a] + 1 .. hi[a]) : a \in Account}
                    /\ F = [a \in Account |-> {t \in T : g[t] = a}]
    OBVIOUS
  <1>2. PICK c : c = [a \in Account |-> Cardinality(F[a])]
    OBVIOUS
  <1>3. ASSUME NEW a \in Account
        PROVE  /\ c[a] \in Nat /\ lo[a] \in Nat /\ hi[a] = lo[a] + c[a]
               /\ \E h : h \in Bijection(1 .. c[a], F[a])
    <2>1. F[a] = {t \in T : g[t] = a}
      BY <1>1
    <2>2. IsFiniteSet(F[a])
      BY <2>1, FS_Subset
    <2> QED BY <1>2, <2>1, <2>2, FS_CardinalityType DEF ExistsBijection
  <1>4. PICK f : f = [a \in Account |-> CHOOSE h : h \in Bijection(1 .. c[a], F[a])]
    OBVIOUS
  <1>5. \A a \in Account : f[a] \in Bijection(1 .. c[a], F[a])
    BY <1>3, <1>4
  <1>6. ASSUME NEW a \in Account
        PROVE  /\ \A i \in 1 .. c[a] : f[a][i] \in T /\ g[f[a][i]] = a
               /\ \A i, j \in 1 .. c[a] : f[a][i] = f[a][j] => i = j
               /\ \A t \in T : g[t] = a => \E i \in 1 .. c[a] : f[a][i] = t
    <2>1. F[a] = {t \in T : g[t] = a}
      BY <1>1
    <2>2. /\ f[a] \in [1 .. c[a] -> F[a]]
          /\ \A i, j \in 1 .. c[a] : f[a][i] = f[a][j] => i = j
          /\ \A t \in F[a] : \E i \in 1 .. c[a] : f[a][i] = t
      <3>1. PICK S, h : S = 1 .. c[a] /\ h = f[a]
        OBVIOUS
      <3>2. h \in Bijection(S, F[a])
        BY <1>5, <3>1
      <3>3. /\ h \in [S -> F[a]] /\ \A x, y \in S : h[x] = h[y] => x = y
            /\ \A t \in F[a] : \E x \in S : h[x] = t
        BY <3>2, BijectionFacts
      <3> QED BY <3>1, <3>3
    <2> QED BY <2>1, <2>2
  <1>7. ASSUME NEW p \in N
        PROVE  /\ p = <<p[1], p[2]>> /\ p[1] \in Account /\ p[2] \in Nat
               /\ p[2] - lo[p[1]] \in 1 .. c[p[1]]
    <2>1. PICK a \in Account : p \in {a} \X (lo[a] + 1 .. hi[a])
      BY <1>1
    <2>2. p = <<p[1], p[2]>> /\ p[1] = a /\ p[2] \in lo[a] + 1 .. hi[a]
      BY <2>1
    <2>3. p[2] \in Nat /\ p[2] - lo[a] \in 1 .. c[a]
      BY <1>3, <2>2
    <2> QED BY <2>2, <2>3
  <1>8. PICK G : G = [p \in N |-> f[p[1]][p[2] - lo[p[1]]]]
    OBVIOUS
  <1>9. \A p \in N : G[p] = f[p[1]][p[2] - lo[p[1]]]
    BY <1>8
  <1>10. ASSUME NEW p \in N PROVE G[p] \in T /\ g[G[p]] = p[1]
    BY <1>6, <1>7, <1>9
  <1>11. ASSUME NEW p \in N, NEW q \in N, G[p] = G[q] PROVE p = q
    <2>1. PICK a, i, j : a = p[1] /\ i = p[2] - lo[p[1]] /\ j = q[2] - lo[q[1]]
      OBVIOUS
    <2>2. p[1] = q[1]
      BY <1>10, <1>11
    <2>3. /\ a \in Account /\ lo[a] \in Nat /\ i \in 1 .. c[a] /\ j \in 1 .. c[a]
          /\ p = <<a, p[2]>> /\ q = <<a, q[2]>> /\ p[2] \in Nat /\ q[2] \in Nat
      BY <1>3, <1>7, <2>1, <2>2
    <2>4. f[a][i] = f[a][j]
      BY <1>9, <1>11, <2>1, <2>2
    <2>5. i = j
      BY <1>6, <2>3, <2>4
    <2>6. i = p[2] - lo[a] /\ j = q[2] - lo[a]
      BY <2>1, <2>2
    <2>7. \A x, y, z \in Nat : x - z = y - z => x = y
      OBVIOUS
    <2>8. p[2] = q[2]
      BY <2>3, <2>5, <2>6, <2>7
    <2> QED BY <2>3, <2>8
  <1>12. ASSUME NEW t \in T PROVE \E p \in N : G[p] = t
    <2>1. PICK a \in Account : a = g[t]
      OBVIOUS
    <2>2. PICK i \in 1 .. c[a] : f[a][i] = t
      BY <1>6, <2>1
    <2>3. i + lo[a] \in lo[a] + 1 .. hi[a] /\ (i + lo[a]) - lo[a] = i
      BY <1>3
    <2>4. PICK p : p = <<a, i + lo[a]>>
      OBVIOUS
    <2>5. p \in N /\ p[1] = a /\ p[2] - lo[a] = i
      BY <1>1, <2>3, <2>4
    <2> QED BY <1>9, <2>2, <2>5
  <1>13. G \in [N -> T]
    BY <1>8, <1>9, <1>10
  <1>14. G \in Injection(N, T) /\ G \in Surjection(N, T)
    BY <1>11, <1>12, <1>13, IsBijection
  <1>15. IsFiniteSet(N) /\ Cardinality(N) = Cardinality(T)
    BY <1>14, FS_Injection
  <1> QED BY <1>1, <1>15

LEMMA UnitsGrow ==
  ASSUME NEW lo \in [Account -> Nat], NEW hi \in [Account -> Nat],
         NEW T, IsFiniteSet(T), NEW g \in [T -> Account],
         \A a \in Account : hi[a] = lo[a] + Cardinality({t \in T : g[t] = a})
  PROVE  Cardinality(Units(hi)) = Cardinality(Units(lo)) + Cardinality(T)
  <1>1. PICK N : N = UNION {{a} \X (lo[a] + 1 .. hi[a]) : a \in Account}
    OBVIOUS
  <1>2. IsFiniteSet(N) /\ Cardinality(N) = Cardinality(T)
    BY <1>1, NewUnits
  <1>3. ASSUME NEW a \in Account PROVE lo[a] \in Nat /\ hi[a] \in Nat /\ lo[a] <= hi[a]
    <2>1. Cardinality({t \in T : g[t] = a}) \in Nat
      BY FS_Subset, FS_CardinalityType
    <2> QED BY <2>1
  <1>4. \A u : u \in N <=>
           /\ u = <<u[1], u[2]>> /\ u[1] \in Account
           /\ u[2] \in Nat /\ lo[u[1]] < u[2] /\ u[2] <= hi[u[1]]
    BY <1>1, <1>3
  <1>5. Units(hi) = Units(lo) \cup N /\ Units(lo) \cap N = {}
    BY <1>3, <1>4, UnitsElements
  <1>6. IsFiniteSet(Units(lo)) /\ Cardinality({}) = 0
    BY UnitsFinite, FS_EmptySet
  <1>7. Cardinality(Units(hi)) = Cardinality(Units(lo)) + Cardinality(N) - 0
    BY <1>2, <1>5, <1>6, FS_Union
  <1>8. Cardinality(Units(lo)) \in Nat /\ Cardinality(N) \in Nat
    BY <1>2, <1>6, FS_CardinalityType
  <1> QED BY <1>2, <1>7, <1>8

\* A chunk in the pool has a transaction for its shard.
LEMMA PendingTransaction ==
  ASSUME TypeOK, TransferInv, NEW s \in PShard, NEW i \in 1 .. Len(pool[s])
  PROVE  /\ pool[s][i] \in Created /\ s \in DOMAIN BlockOf(pool[s][i]).txs
         /\ BlockOf(pool[s][i]).txs[s] \in Transaction
  <1>1. PICK id, n : id = pool[s][i] /\ n = LeaderOf(s)
    OBVIOUS
  <1>2. n \in PNode /\ n[1] = s /\ id \in chunks[n]
    BY <1>1, LeaderNodes DEF TransferInv, PoolInv, Matched
  <1>3. id \in Created /\ s \in DOMAIN BlockOf(id).txs
    BY <1>2 DEF TransferInv, KnownInv
  <1>4. BlockOf(id).txs[s] \in Transaction
    BY <1>3, CreatedBlock, BlockTxs
  <1> QED BY <1>1, <1>3, <1>4

\* Every chunk taken adds one unit.
LEMMA CreditedUnits ==
  ASSUME TypeOK, TransferInv, NEW s \in PShard
  PROVE  Cardinality(Units(Credit(s))) = TotalOf(s) + TakenCount(s)
  <1>1. PICK k, T, g : /\ k = TakenCount(s) /\ T = 1 .. k
                       /\ g = [i \in T |-> BlockOf(Taken(s)[i]).txs[s].to]
    OBVIOUS
  <1>2. k \in Nat /\ IsFiniteSet(T) /\ Cardinality(T) = k
    BY <1>1, TakenFacts, FS_Interval
  <1>3. g \in [T -> Account]
    <2>1. ASSUME NEW i \in T PROVE BlockOf(Taken(s)[i]).txs[s].to \in Account
      <3>1. i \in 1 .. Len(pool[s]) /\ Taken(s)[i] = pool[s][i]
        BY <1>1, TakenFacts
      <3> QED BY <3>1, PendingTransaction DEF Transaction
    <2> QED BY <1>1, <2>1
  <1>4. PICK lo, hi : lo = balance[s] /\ hi = Credit(s)
    OBVIOUS
  <1>5. lo \in [Account -> Nat] /\ hi \in [Account -> Nat]
    BY <1>4, CreditType DEF TypeOK
  <1>6. ASSUME NEW a \in Account
        PROVE  hi[a] = lo[a] + Cardinality({t \in T : g[t] = a})
    <2>1. {t \in T : g[t] = a} =
            {i \in 1 .. TakenCount(s) : BlockOf(Taken(s)[i]).txs[s].to = a}
      BY <1>1
    <2> QED BY <1>4, <2>1 DEF Credit
  <1>7. Cardinality(Units(hi)) = Cardinality(Units(lo)) + Cardinality(T)
    BY <1>2, <1>3, <1>5, <1>6, UnitsGrow
  <1> QED BY <1>1, <1>2, <1>4, <1>7 DEF TotalOf

\* Every transfer debited takes one away.
LEMMA DebitedUnits ==
  ASSUME NEW b \in Block, b.debited \subseteq DOMAIN b.txs,
         NEW lo \in [Account -> Nat], NEW hi \in [Account -> Nat],
         \A a \in Account : hi[a] = lo[a] + Cardinality(SentBy(a, b.txs, b.debited))
  PROVE  /\ Cardinality(Units(hi)) = Cardinality(Units(lo)) + Cardinality(b.debited)
         /\ IsFiniteSet(b.debited)
  <1>1. PICK T, g : T = b.debited /\ g = [d \in T |-> b.txs[d].from]
    OBVIOUS
  <1>2. IsFiniteSet(T)
    BY <1>1, BlockTxs, ShardFacts, FS_Subset
  <1>3. g \in [T -> Account]
    BY <1>1, BlockTxs DEF Transaction
  <1>4. ASSUME NEW a \in Account
        PROVE  hi[a] = lo[a] + Cardinality({t \in T : g[t] = a})
    <2>1. {t \in T : g[t] = a} = SentBy(a, b.txs, b.debited)
      BY <1>1 DEF SentBy
    <2> QED BY <2>1
  <1>5. Cardinality(Units(hi)) = Cardinality(Units(lo)) + Cardinality(T)
    BY <1>2, <1>3, <1>4, UnitsGrow
  <1> QED BY <1>1, <1>2, <1>5

\* What an account has after genesis, and before.
LEMMA GenesisUnits ==
  /\ Cardinality(Units([a \in Account |-> GenesisBalance])) =
       Cardinality(Account) * GenesisBalance
  /\ \A bal : (\A a \in Account : bal[a] = 0) => Units(bal) = {}
  <1>1. PICK bal, S : bal = [a \in Account |-> GenesisBalance] /\ S = 1 .. GenesisBalance
    OBVIOUS
  <1>2. IsFiniteSet(S) /\ Cardinality(S) = GenesisBalance
    BY <1>1, SizesAssumption, FS_Interval
  <1>3. Units(bal) = Account \X S
    BY <1>1 DEF Units
  <1>4. Cardinality(Account \X S) = Cardinality(Account) * GenesisBalance
    BY <1>2, SizesAssumption, FS_Product
  <1>5. ASSUME NEW b, \A a \in Account : b[a] = 0 PROVE Units(b) = {}
    BY <1>5 DEF Units
  <1> QED BY <1>1, <1>3, <1>4, <1>5

-----------------------------------------------------------------------------
(* Transfers in flight.                                                    *)

LEMMA TransfersFinite == IsFiniteSet(TransferId)
  <1>1. IsFiniteSet(0 .. MaxHeight)
    BY ShardFacts, FS_Interval
  <1>2. IsFiniteSet(BlockId)
    BY <1>1, ShardFacts, FS_Product DEF BlockId
  <1>3. IsFiniteSet(BlockId \X PShard)
    BY <1>2, ShardFacts, FS_Product
  <1>4. PICK f : f = [t \in TransferId |-> <<t.id, t.to>>]
    OBVIOUS
  <1>5. f \in Injection(TransferId, BlockId \X PShard)
    <2>1. \A t \in TransferId : f[t] = <<t.id, t.to>> /\ f[t] \in BlockId \X PShard
      BY <1>4 DEF TransferId
    <2>2. ASSUME NEW t \in TransferId, NEW u \in TransferId, f[t] = f[u] PROVE t = u
      <3>1. t.id = u.id /\ t.to = u.to
        BY <2>1, <2>2
      <3> QED BY <3>1 DEF TransferId
    <2> QED BY <1>4, <2>1, <2>2 DEF Injection, IsInjective
  <1> QED BY <1>3, <1>5, FS_Injection

LEMMA SetsFinite ==
  /\ IsFiniteSet(Debited) /\ IsFiniteSet(Credited) /\ IsFiniteSet(InFlight)
  /\ Debited \subseteq TransferId /\ Credited \subseteq TransferId
  <1>1. Debited \subseteq TransferId /\ Credited \subseteq TransferId
        /\ InFlight \subseteq TransferId
    BY DEF Debited, Credited, InFlight
  <1> QED BY <1>1, TransfersFinite, FS_Subset

\* Nothing is debited or credited unless a block is created.
LEMMA SameTransfers ==
  ASSUME blocks' = blocks
  PROVE  Debited' = Debited /\ Credited' = Credited /\ InFlight' = InFlight
  BY DEF Debited, Credited, InFlight, Created, BlockOf

\* A new block debits and credits what it says.
LEMMA GrowTransfers ==
  ASSUME TypeOK, NEW s \in PShard, NEW h \in Nat, h = Len(blocks[s]), h <= MaxHeight,
         NEW b \in Block, blocks' = [blocks EXCEPT ![s] = Append(@, b)]
  PROVE  /\ Debited' = Debited \cup {[id |-> <<s, h>>, to |-> d] : d \in b.debited}
         /\ Credited' = Credited \cup {[id |-> x, to |-> s] : x \in b.inbound}
  <1>1. /\ <<s, h>> \in BlockId
        /\ Created' = Created \cup {<<s, h>>}
        /\ \A id \in Created : BlockOf(id)' = BlockOf(id)
        /\ BlockOf(<<s, h>>)' = b
    BY GrowCreated
  <1>2. b.debited \subseteq PShard /\ b.inbound \subseteq BlockId
    BY BlockTxs
  <1>3. ASSUME NEW t \in TransferId
        PROVE  t \in Debited' <=>
                 t \in Debited \/ t \in {[id |-> <<s, h>>, to |-> d] : d \in b.debited}
    <2>1. t = [id |-> t.id, to |-> t.to] /\ t.id \in BlockId /\ t.to \in PShard
      BY DEF TransferId
    <2>2. t \in Debited' <=> t.id \in Created' /\ t.to \in BlockOf(t.id)'.debited
      BY DEF Debited
    <2>3. t \in Debited <=> t.id \in Created /\ t.to \in BlockOf(t.id).debited
      BY DEF Debited
    <2>4. <<s, h>> \notin Created
      BY GrowCreated
    <2>5. CASE t.id = <<s, h>>
      BY <1>1, <2>1, <2>2, <2>3, <2>4, <2>5
    <2>6. CASE t.id # <<s, h>>
      BY <1>1, <2>1, <2>2, <2>3, <2>6
    <2> QED BY <2>5, <2>6
  <1>4. Debited' = Debited \cup {[id |-> <<s, h>>, to |-> d] : d \in b.debited}
    <2>1. \A d \in b.debited : [id |-> <<s, h>>, to |-> d] \in TransferId
      BY <1>1, <1>2 DEF TransferId
    <2>2. Debited \subseteq TransferId /\ Debited' \subseteq TransferId
      BY DEF Debited
    <2> QED BY <1>3, <2>1, <2>2
  <1>5. /\ \A k \in PShard : k # s => blocks'[k] = blocks[k]
        /\ Len(blocks'[s]) = h + 1
        /\ \A i \in 1 .. h : blocks'[s][i] = blocks[s][i]
        /\ blocks'[s][h + 1] = b
    BY Grow
  <1>6. ASSUME NEW t \in TransferId
        PROVE  t \in Credited' <=>
                 t \in Credited \/ t \in {[id |-> x, to |-> s] : x \in b.inbound}
    <2>1. t = [id |-> t.id, to |-> t.to] /\ t.id \in BlockId /\ t.to \in PShard
      BY DEF TransferId
    <2>2. t \in Credited' <=>
            \E i \in 1 .. Len(blocks'[t.to]) : t.id \in blocks'[t.to][i].inbound
      BY DEF Credited
    <2>3. t \in Credited <=>
            \E i \in 1 .. Len(blocks[t.to]) : t.id \in blocks[t.to][i].inbound
      BY DEF Credited
    <2>4. CASE t.to = s
      <3>1. \A i : i \in 1 .. h + 1 <=> i \in 1 .. h \/ i = h + 1
        OBVIOUS
      <3>2. t \in Credited' <=> t \in Credited \/ t.id \in b.inbound
        BY <1>5, <2>2, <2>3, <2>4, <3>1
      <3> QED BY <2>1, <2>4, <3>2
    <2>5. CASE t.to # s
      BY <1>5, <2>1, <2>2, <2>3, <2>5
    <2> QED BY <2>4, <2>5
  <1>7. Credited' = Credited \cup {[id |-> x, to |-> s] : x \in b.inbound}
    <2>1. \A x \in b.inbound : [id |-> x, to |-> s] \in TransferId
      BY <1>2 DEF TransferId
    <2>2. Credited \subseteq TransferId /\ Credited' \subseteq TransferId
      BY DEF Credited
    <2> QED BY <1>6, <2>1, <2>2
  <1> QED BY <1>4, <1>7

\* Renaming the elements of a finite set into transfers keeps their number.
LEMMA NamedTransfers ==
  ASSUME NEW S, IsFiniteSet(S), NEW N, NEW f \in [S -> N],
         \A x, y \in S : f[x] = f[y] => x = y, \A t \in N : \E x \in S : f[x] = t
  PROVE  IsFiniteSet(N) /\ Cardinality(N) = Cardinality(S)
  <1>1. f \in Injection(S, N) /\ f \in Surjection(S, N)
    BY IsBijection
  <1> QED BY <1>1, FS_Surjection

\* The chunks taken are in flight until the block credits them.
LEMMA BlockCredits ==
  ASSUME TypeOK, TransferInv, NEW s \in PShard, NEW in,
         in = {[id |-> x, to |-> s] : x \in {Taken(s)[i] : i \in 1 .. TakenCount(s)}}
  PROVE  in \subseteq InFlight /\ IsFiniteSet(in) /\ Cardinality(in) = TakenCount(s)
  <1>1. PICK k, T, f : /\ k = TakenCount(s) /\ T = 1 .. k
                       /\ f = [i \in T |-> [id |-> Taken(s)[i], to |-> s]]
    OBVIOUS
  <1>2. k \in Nat /\ IsFiniteSet(T) /\ Cardinality(T) = k
    BY <1>1, TakenFacts, FS_Interval
  <1>3. in = {f[i] : i \in T} /\ f \in [T -> in]
    BY <1>1
  <1>4. \A i \in T : i \in 1 .. Len(pool[s]) /\ f[i] = [id |-> pool[s][i], to |-> s]
    BY <1>1, TakenFacts
  <1>5. Once(s)
    BY DEF TransferInv, PoolInv
  <1>6. ASSUME NEW i \in T, NEW j \in T, f[i] = f[j] PROVE i = j
    <2>1. PICK x, y : x = pool[s][i] /\ y = pool[s][j]
      OBVIOUS
    <2>2. [id |-> x, to |-> s] = [id |-> y, to |-> s]
      BY <1>4, <1>6, <2>1
    <2>3. [id |-> x, to |-> s].id = x /\ [id |-> y, to |-> s].id = y
      OBVIOUS
    <2>4. pool[s][i] = pool[s][j]
      BY <2>1, <2>2, <2>3
    <2> QED BY <1>4, <1>5, <2>4 DEF Once
  <1>7. ASSUME NEW i \in T PROVE f[i] \in InFlight
    <2>1. i \in 1 .. Len(pool[s]) /\ f[i] = [id |-> pool[s][i], to |-> s]
      BY <1>4
    <2>2. pool[s][i] \in BlockId /\ pool[s][i] \in Matched(s)
      BY <2>1, LenFacts DEF TransferInv, PoolInv
    <2>3. f[i] \in Debited
      BY <2>1, <2>2, CreditedMatched
    <2>4. f[i] \notin Credited
      BY <1>5, <2>1 DEF Once, Credited
    <2> QED BY <2>3, <2>4 DEF InFlight
  <1>8. IsFiniteSet(in) /\ Cardinality(in) = Cardinality(T)
    BY <1>2, <1>3, <1>6, NamedTransfers
  <1> QED BY <1>1, <1>2, <1>3, <1>7, <1>8

\* The transfers the block debits have new names.
LEMMA BlockDebits ==
  ASSUME TypeOK, NEW s \in PShard, NEW h \in Nat, h = Len(blocks[s]), h <= MaxHeight,
         NEW S \in SUBSET PShard, NEW out,
         \A t : t \in out <=> \E d \in S : t = [id |-> <<s, h>>, to |-> d]
  PROVE  /\ out \subseteq TransferId /\ out \cap Debited = {}
         /\ IsFiniteSet(out) /\ Cardinality(out) = Cardinality(S)
  <1>1. <<s, h>> \in BlockId /\ <<s, h>> \notin Created
    BY BlockIdOf DEF Created
  <1>2. \A t \in out : t \in TransferId /\ t \notin Debited
    BY <1>1 DEF TransferId, Debited
  <1>3. IsFiniteSet(S)
    BY ShardFacts, FS_Subset
  <1>4. PICK f : f = [d \in S |-> [id |-> <<s, h>>, to |-> d]]
    OBVIOUS
  <1>5. f \in [S -> out] /\ \A t \in out : \E d \in S : f[d] = t
    BY <1>4
  <1>6. ASSUME NEW d \in S, NEW e \in S, f[d] = f[e] PROVE d = e
    <2>1. f[d].to = d /\ f[e].to = e
      BY <1>4
    <2> QED BY <1>6, <2>1
  <1>7. IsFiniteSet(out) /\ Cardinality(out) = Cardinality(S)
    BY <1>3, <1>5, <1>6, NamedTransfers
  <1> QED BY <1>2, <1>7

\* A block of shard s moves units: what leaves the shard and what it takes in.
LEMMA BlockMoves ==
  ASSUME TypeOK, TransferInv, NEW s \in PShard, CreateNewBlock(s)
  PROVE  \E in, out :
           /\ InFlight' = (InFlight \ in) \cup out
           /\ in \subseteq InFlight /\ out \subseteq TransferId
           /\ out \cap InFlight = {} /\ out \cap in = {}
           /\ IsFiniteSet(in) /\ IsFiniteSet(out)
           /\ \A t \in in : t.to = s
           /\ \A t \in out : t.to # s
           /\ TotalOf(s)' + Cardinality(out) = TotalOf(s) + Cardinality(in)
  <1>1. PICK b \in Block, keeps \in [Account -> Nat] :
           /\ blocks' = [blocks EXCEPT ![s] = Append(@, b)]
           /\ b.inbound = {Taken(s)[i] : i \in 1 .. TakenCount(s)}
           /\ s \notin DOMAIN b.txs /\ b.debited \subseteq DOMAIN b.txs
           /\ balance' = [balance EXCEPT ![s] = keeps]
           /\ \A a \in Account :
                Credit(s)[a] = keeps[a] + Cardinality(SentBy(a, b.txs, b.debited))
    BY NewBlock
  <1>2. PICK h : h = Len(blocks[s])
    OBVIOUS
  <1>3. h \in Nat /\ h <= MaxHeight
    BY <1>2, HeightBound DEF CreateNewBlock
  <1>4. PICK in, out : /\ in = {[id |-> x, to |-> s] : x \in b.inbound}
                       /\ out = {[id |-> <<s, h>>, to |-> d] : d \in b.debited}
    OBVIOUS
  <1>5. /\ in \subseteq InFlight /\ IsFiniteSet(in) /\ Cardinality(in) = TakenCount(s)
    <2>1. in = {[id |-> x, to |-> s] : x \in {Taken(s)[i] : i \in 1 .. TakenCount(s)}}
      BY <1>1, <1>4
    <2> QED BY <2>1, BlockCredits
  <1>6. /\ out \subseteq TransferId /\ out \cap Debited = {}
        /\ IsFiniteSet(out) /\ Cardinality(out) = Cardinality(b.debited)
    <2>1. PICK S : S = b.debited
      OBVIOUS
    <2>2. /\ S \in SUBSET PShard
          /\ \A t : t \in out <=> \E d \in S : t = [id |-> <<s, h>>, to |-> d]
      BY <1>4, <2>1, BlockTxs
    <2>3. /\ out \subseteq TransferId /\ out \cap Debited = {}
          /\ IsFiniteSet(out) /\ Cardinality(out) = Cardinality(S)
      BY ONLY TypeOK, s \in PShard, <1>2, <1>3, <2>2, BlockDebits
    <2> QED BY <2>1, <2>3
  <1>7. InFlight' = (InFlight \ in) \cup out
    <2>1. Debited' = Debited \cup out /\ Credited' = Credited \cup in
      <3>1. blocks' = [blocks EXCEPT ![s] = Append(@, b)]
        BY <1>1
      <3> QED BY <1>2, <1>3, <1>4, <3>1, GrowTransfers
    <2>2. Credited \subseteq Debited /\ in \subseteq Debited
      BY <1>5, InvBacked DEF NoUnbackedCredit, InFlight
    <2> QED BY <1>6, <2>1, <2>2 DEF InFlight
  <1>8. out \cap InFlight = {} /\ out \cap in = {}
    BY <1>5, <1>6 DEF InFlight
  <1>9. (\A t \in in : t.to = s) /\ (\A t \in out : t.to # s)
    BY <1>1, <1>4
  <1>10. TotalOf(s)' + Cardinality(out) = TotalOf(s) + Cardinality(in)
    <2>1. Cardinality(Units(Credit(s))) = TotalOf(s) + Cardinality(in)
      BY <1>5, CreditedUnits
    <2>2. Cardinality(Units(Credit(s))) = Cardinality(Units(keeps)) + Cardinality(out)
      <3>1. PICK hi : hi = Credit(s)
        OBVIOUS
      <3>2. hi \in [Account -> Nat]
        BY <3>1, CreditType
      <3>3. \A a \in Account : hi[a] = keeps[a] + Cardinality(SentBy(a, b.txs, b.debited))
        BY <1>1, <3>1
      <3>4. Cardinality(Units(hi)) = Cardinality(Units(keeps)) + Cardinality(b.debited)
        BY <1>1, <3>2, <3>3, DebitedUnits
      <3> QED BY <1>6, <3>1, <3>4
    <2>3. balance'[s] = keeps
      BY <1>1 DEF TypeOK
    <2> QED BY <2>1, <2>2, <2>3 DEF TotalOf
  <1> QED BY <1>5, <1>6, <1>7, <1>8, <1>9, <1>10

-----------------------------------------------------------------------------
(* The sum of all balances.                                                *)

\* A step that changes the balances of shard s changes the sum by as much.
LEMMA TotalsChange ==
  ASSUME TypeOK, NEW s \in PShard, NEW keeps \in [Account -> Nat],
         balance' = [balance EXCEPT ![s] = keeps]
  PROVE  /\ Cardinality(AllUnits)' + TotalOf(s) = Cardinality(AllUnits) + TotalOf(s)'
         /\ Cardinality(AllUnits) \in Nat /\ Cardinality(AllUnits)' \in Nat
         /\ TotalOf(s) \in Nat /\ TotalOf(s)' \in Nat
         /\ balance'[s] = keeps
         /\ \A r \in PShard : r # s => TotalOf(r)' = TotalOf(r)
  <1>1. PICK bal, new : bal = balance /\ new = balance'
    OBVIOUS
  <1>2. /\ bal \in [PShard -> [Account -> Nat]] /\ new \in [PShard -> [Account -> Nat]]
        /\ \A r \in PShard : r # s => new[r] = bal[r]
        /\ new[s] = keeps
    BY <1>1 DEF TypeOK
  <1>3. PICK U, V : /\ U = UNION {{r} \X Units(bal[r]) : r \in PShard}
                    /\ V = UNION {{r} \X Units(new[r]) : r \in PShard}
    OBVIOUS
  <1>4. /\ IsFiniteSet(U) /\ IsFiniteSet(V)
        /\ Cardinality(V) + Cardinality(Units(bal[s])) =
             Cardinality(U) + Cardinality(Units(new[s]))
    <2>0. /\ \A x : x \in U <=> \E r \in PShard : x \in {r} \X Units(bal[r])
          /\ \A x : x \in V <=> \E r \in PShard : x \in {r} \X Units(new[r])
      BY <1>3
    <2>1. PICK f, rest, u, v :
            /\ f = [r \in PShard \ {s} |-> {r} \X Units(bal[r])]
            /\ rest = UNION {f[r] : r \in PShard \ {s}}
            /\ u = {s} \X Units(bal[s]) /\ v = {s} \X Units(new[s])
      OBVIOUS
    <2>2. IsFiniteSet(rest)
      <3>1. IsFiniteSet(PShard \ {s})
        BY ShardFacts, FS_RemoveElement
      <3>2. ASSUME NEW r \in PShard \ {s} PROVE IsFiniteSet(f[r])
        <4>1. IsFiniteSet(Units(bal[r]))
          BY <1>2, UnitsFinite
        <4> QED BY <2>1, <4>1, PairsFinite
      <3>3. f = [r \in PShard \ {s} |-> f[r]]
        BY <2>1
      <3>4. IsFiniteSet(UNION {f[r] : r \in PShard \ {s}})
        BY <3>1, <3>2, <3>3, IndexedUnion
      <3> QED BY <2>1, <3>4
    <2>3. /\ IsFiniteSet(u) /\ Cardinality(u) = Cardinality(Units(bal[s]))
          /\ IsFiniteSet(v) /\ Cardinality(v) = Cardinality(Units(new[s]))
      <3>1. IsFiniteSet(Units(bal[s])) /\ IsFiniteSet(Units(new[s]))
        BY <1>2, UnitsFinite
      <3> QED BY <2>1, <3>1, PairsFinite
    <2>4. \A x : x \in rest <=> \E r \in PShard : r # s /\ x \in {r} \X Units(bal[r])
      BY <2>1
    <2>5. U = rest \cup u /\ V = rest \cup v
      <3>1. \A x : x \in u <=> x \in {s} \X Units(bal[s])
        BY <2>1
      <3>2. \A x : x \in v <=> x \in {s} \X Units(new[s])
        BY <2>1
      <3>3. \A x : x \in U <=> x \in rest \/ x \in u
        BY <1>2, <2>0, <2>4, <3>1
      <3>4. \A x : x \in V <=> x \in rest \/ x \in v
        BY <1>2, <2>0, <2>4, <3>2
      <3> QED BY <3>3, <3>4
    <2>6. rest \cap u = {} /\ rest \cap v = {}
      <3>1. (\A x \in rest : x[1] # s) /\ (\A x \in u : x[1] = s) /\ (\A x \in v : x[1] = s)
        BY <2>1, <2>4
      <3> QED BY <3>1
    <2>7. Cardinality({}) = 0
      BY FS_EmptySet
    <2>8. /\ IsFiniteSet(U) /\ Cardinality(U) = Cardinality(rest) + Cardinality(u) - 0
          /\ IsFiniteSet(V) /\ Cardinality(V) = Cardinality(rest) + Cardinality(v) - 0
      <3>1. IsFiniteSet(U) /\ Cardinality(U) = Cardinality(rest) + Cardinality(u) - 0
        BY <2>2, <2>3, <2>5, <2>6, <2>7, FS_Union
      <3>2. IsFiniteSet(V) /\ Cardinality(V) = Cardinality(rest) + Cardinality(v) - 0
        BY <2>2, <2>3, <2>5, <2>6, <2>7, FS_Union
      <3> QED BY <3>1, <3>2
    <2>9. Cardinality(rest) \in Nat /\ Cardinality(u) \in Nat /\ Cardinality(v) \in Nat
      BY <2>2, <2>3, FS_CardinalityType
    <2> QED BY <2>3, <2>8, <2>9
  <1>5. AllUnits = U /\ AllUnits' = V
    BY <1>1, <1>3 DEF AllUnits
  <1>6. /\ TotalOf(s) = Cardinality(Units(bal[s])) /\ TotalOf(s)' = Cardinality(Units(new[s]))
        /\ \A r \in PShard : r # s => TotalOf(r)' = TotalOf(r)
    BY <1>1, <1>2 DEF TotalOf
  <1>7. IsFiniteSet(Units(bal[s])) /\ IsFiniteSet(Units(new[s]))
    BY <1>2, UnitsFinite
  <1>8. /\ Cardinality(U) \in Nat /\ Cardinality(V) \in Nat
        /\ Cardinality(Units(bal[s])) \in Nat /\ Cardinality(Units(new[s])) \in Nat
    BY <1>4, <1>7, FS_CardinalityType
  <1> QED BY <1>1, <1>2, <1>4, <1>5, <1>6, <1>8

-----------------------------------------------------------------------------
(* Genesis and blocks, seen from the sums.                                 *)

LEMMA StartedFacts ==
  ASSUME TypeOK
  PROVE  /\ IsFiniteSet(Started) /\ Started \subseteq PShard
         /\ \A s \in PShard : s \in Started <=> Len(blocks[s]) # 0
  <1>1. Started \subseteq PShard
    BY DEF Started
  <1>2. \A s \in PShard : blocks[s] = <<>> <=> Len(blocks[s]) = 0
    BY LenFacts, EmptySeq
  <1> QED BY <1>1, <1>2, ShardFacts, FS_Subset DEF Started

\* A shard that starts gets what genesis gives to all accounts.
LEMMA GenesisMoves ==
  ASSUME TypeOK, BalanceInv, NEW s \in PShard, Genesis(s)
  PROVE  /\ s \notin Started /\ Started' = Started \cup {s}
         /\ InFlight' = InFlight /\ BalanceInv'
         /\ TotalOf(s) = 0 /\ TotalOf(s)' = Cardinality(Account) * GenesisBalance
         /\ \E keeps \in [Account -> Nat] : balance' = [balance EXCEPT ![s] = keeps]
  <1>1. PICK b, h : b = [txs |-> NoTxs, debited |-> {}, inbound |-> {}] /\ h = 0
    OBVIOUS
  <1>2. b \in Block /\ b.debited = {} /\ b.inbound = {} /\ h \in Nat /\ h <= MaxHeight
    BY <1>1, GenesisBlock, ShardFacts
  <1>3. h = Len(blocks[s]) /\ blocks' = [blocks EXCEPT ![s] = Append(@, b)]
    BY <1>1, GenesisAppends
  <1>4. Debited' = Debited /\ Credited' = Credited
    <2>1. /\ Debited' = Debited \cup {[id |-> <<s, h>>, to |-> d] : d \in b.debited}
          /\ Credited' = Credited \cup {[id |-> x, to |-> s] : x \in b.inbound}
      BY <1>2, <1>3, GrowTransfers
    <2> QED BY <1>2, <2>1
  <1>5. /\ \A r \in PShard : r # s => blocks'[r] = blocks[r]
        /\ blocks'[s] # <<>> /\ blocks[s] = <<>>
    <2>1. blocks'[s] = <<b>> /\ blocks[s] = <<>>
      BY <1>1, LenFacts, EmptySeq DEF Genesis, TypeOK
    <2> QED BY <1>2, <1>3, <2>1, Grow
  <1>6. s \notin Started /\ Started' = Started \cup {s}
    BY <1>5 DEF Started
  <1>7. PICK keeps : keeps = [a \in Account |-> GenesisBalance]
    OBVIOUS
  <1>8. /\ keeps \in [Account -> Nat] /\ balance' = [balance EXCEPT ![s] = keeps]
        /\ balance'[s] = keeps
    BY <1>7, SizesAssumption DEF Genesis, TypeOK
  <1>9. TotalOf(s)' = Cardinality(Account) * GenesisBalance
    BY <1>7, <1>8, GenesisUnits DEF TotalOf
  <1>10. TotalOf(s) = 0
    BY <1>5, GenesisUnits, FS_EmptySet DEF TotalOf, BalanceInv
  <1>11. BalanceInv'
    BY <1>5, <1>8 DEF BalanceInv, TypeOK
  <1> QED BY <1>4, <1>6, <1>8, <1>9, <1>10, <1>11 DEF InFlight

LEMMA NewBlockStarted ==
  ASSUME TypeOK, BalanceInv, NEW s \in PShard, CreateNewBlock(s)
  PROVE  /\ s \in Started /\ Started' = Started /\ BalanceInv'
         /\ \E keeps \in [Account -> Nat] : balance' = [balance EXCEPT ![s] = keeps]
  <1>1. PICK b \in Block, keeps \in [Account -> Nat] :
          /\ blocks' = [blocks EXCEPT ![s] = Append(@, b)]
          /\ balance' = [balance EXCEPT ![s] = keeps]
    BY NewBlock
  <1>2. Len(blocks[s]) \in Nat /\ Len(blocks[s]) # 0 /\ blocks[s] \in Seq(Block)
    BY HeightBound, LenFacts DEF CreateNewBlock
  <1>3. blocks'[s] = Append(blocks[s], b) /\ \A r \in PShard : r # s => blocks'[r] = blocks[r]
    BY <1>1 DEF TypeOK
  <1>4. blocks[s] # <<>> /\ blocks'[s] # <<>>
    BY <1>2, <1>3, EmptySeq, AppendProperties
  <1>5. s \in Started /\ Started' = Started
    BY <1>3, <1>4 DEF Started
  <1>6. BalanceInv'
    BY <1>1, <1>3, <1>4 DEF BalanceInv, TypeOK
  <1> QED BY <1>1, <1>5, <1>6

\* All other steps leave the sums alone.
LEMMA SameSums ==
  ASSUME blocks' = blocks, balance' = balance
  PROVE  /\ Started' = Started /\ InFlight' = InFlight /\ AllUnits' = AllUnits
         /\ \A s : TotalOf(s)' = TotalOf(s)
         /\ BalanceInv => BalanceInv'
  BY SameTransfers DEF Started, AllUnits, TotalOf, BalanceInv

-----------------------------------------------------------------------------
(* Conservation and the abstract transfers.                                *)

\* What a block does to the set of transfers in flight, counted.
LEMMA InFlightCount ==
  ASSUME NEW F, IsFiniteSet(F), NEW in \in SUBSET F,
         NEW out, IsFiniteSet(out), out \cap F = {}
  PROVE  /\ Cardinality((F \ in) \cup out) =
              (Cardinality(F) - Cardinality(in)) + Cardinality(out)
         /\ Cardinality(F) \in Nat /\ Cardinality(in) \in Nat /\ Cardinality(out) \in Nat
  <1>1. IsFiniteSet(in)
    BY FS_Subset
  <1>2. /\ Cardinality(F) \in Nat /\ Cardinality(in) \in Nat /\ Cardinality(out) \in Nat
        /\ Cardinality({}) = 0
    BY <1>1, FS_CardinalityType, FS_EmptySet
  <1>3. PICK rest : rest = F \ in
    OBVIOUS
  <1>4. IsFiniteSet(rest) /\ Cardinality(rest) = Cardinality(F) - Cardinality(in)
    <2>1. F \cap in = in
      OBVIOUS
    <2> QED BY <1>3, <2>1, FS_Difference
  <1>5. rest \cap out = {} /\ (F \ in) \cup out = rest \cup out
    BY <1>3
  <1>6. Cardinality(rest \cup out) = Cardinality(rest) + Cardinality(out)
    <2>1. Cardinality(rest \cup out) =
            Cardinality(rest) + Cardinality(out) - Cardinality(rest \cap out)
      BY <1>4, FS_Union
    <2>2. rest \cap out = {}
      BY <1>5
    <2>3. Cardinality(rest \cap out) = 0
      BY <1>2, <2>2, Zenon
    <2>4. Cardinality(rest) \in Nat /\ Cardinality(out) \in Nat
      BY <1>4, FS_CardinalityType
    <2> QED BY <2>1, <2>3, <2>4
  <1> QED BY <1>2, <1>4, <1>5, <1>6

LEMMA GenesisConserves ==
  ASSUME TypeOK, TransferInv, BalanceInv, Conservation, NEW s \in PShard, Genesis(s)
  PROVE  BalanceInv' /\ Conservation'
  <1>1. /\ s \notin Started /\ Started' = Started \cup {s}
        /\ InFlight' = InFlight /\ BalanceInv'
        /\ TotalOf(s) = 0 /\ TotalOf(s)' = Cardinality(Account) * GenesisBalance
    BY GenesisMoves
  <1>2. PICK keeps \in [Account -> Nat] : balance' = [balance EXCEPT ![s] = keeps]
    BY GenesisMoves
  <1>3. /\ Cardinality(AllUnits)' + TotalOf(s) = Cardinality(AllUnits) + TotalOf(s)'
        /\ Cardinality(AllUnits) \in Nat /\ Cardinality(AllUnits)' \in Nat
    BY <1>2, TotalsChange
  <1>4. Cardinality(Started') = Cardinality(Started) + 1
    BY <1>1, StartedFacts, FS_AddElement
  <1>5. PICK c, n, k, g, u, v :
          /\ c = Cardinality(Started) /\ n = Cardinality(Account) /\ g = GenesisBalance
          /\ k = Cardinality(InFlight) /\ u = Cardinality(AllUnits)
          /\ v = Cardinality(AllUnits')
    OBVIOUS
  <1>6. c \in Nat /\ n \in Nat /\ g \in Nat /\ k \in Nat /\ u \in Nat /\ v \in Nat
    BY <1>3, <1>5, SizesAssumption, StartedFacts, SetsFinite, FS_CardinalityType
  <1>7. u + k = c * n * g /\ v = u + n * g
    BY <1>1, <1>3, <1>5, <1>6 DEF Conservation
  <1>8. (c + 1) * n * g = c * n * g + n * g
    BY <1>6
  <1>9. v + k = (c + 1) * n * g
    <2>1. c * n * g \in Nat /\ n * g \in Nat
      BY <1>6
    <2> QED BY <1>6, <1>7, <1>8, <2>1
  <1>10. TypeOK'
    BY GenesisType
  <1>11. Cardinality(AllUnits') + Cardinality(InFlight') =
           Cardinality(Started') * Cardinality(Account) * GenesisBalance
    BY <1>1, <1>4, <1>5, <1>9
  <1> QED BY <1>1, <1>10, <1>11 DEF Conservation

LEMMA CreateNewBlockConserves ==
  ASSUME TypeOK, TransferInv, BalanceInv, Conservation, NEW s \in PShard, CreateNewBlock(s)
  PROVE  BalanceInv' /\ Conservation'
  <1>1. Started' = Started /\ BalanceInv'
    BY NewBlockStarted
  <1>2. PICK keeps \in [Account -> Nat] : balance' = [balance EXCEPT ![s] = keeps]
    BY NewBlockStarted
  <1>3. /\ Cardinality(AllUnits)' + TotalOf(s) = Cardinality(AllUnits) + TotalOf(s)'
        /\ Cardinality(AllUnits) \in Nat /\ Cardinality(AllUnits)' \in Nat
        /\ TotalOf(s) \in Nat /\ TotalOf(s)' \in Nat
    BY <1>2, TotalsChange
  <1>4. PICK in, out :
           /\ InFlight' = (InFlight \ in) \cup out
           /\ in \subseteq InFlight /\ out \cap InFlight = {} /\ IsFiniteSet(out)
           /\ TotalOf(s)' + Cardinality(out) = TotalOf(s) + Cardinality(in)
    BY BlockMoves
  <1>5. /\ Cardinality(InFlight') = (Cardinality(InFlight) - Cardinality(in)) + Cardinality(out)
        /\ Cardinality(InFlight) \in Nat /\ Cardinality(in) \in Nat
        /\ Cardinality(out) \in Nat
    <2>1. PICK F, G : F = InFlight /\ G = InFlight'
      OBVIOUS
    <2>2. /\ IsFiniteSet(F) /\ IsFiniteSet(out) /\ G = (F \ in) \cup out
          /\ in \in SUBSET F /\ out \cap F = {}
      BY <1>4, <2>1, SetsFinite
    <2>3. /\ Cardinality((F \ in) \cup out) = (Cardinality(F) - Cardinality(in)) + Cardinality(out)
          /\ Cardinality(F) \in Nat /\ Cardinality(in) \in Nat /\ Cardinality(out) \in Nat
      BY ONLY <2>2, InFlightCount
    <2> QED BY <2>1, <2>2, <2>3
  <1>6. Cardinality(AllUnits)' + Cardinality(InFlight') =
          Cardinality(AllUnits) + Cardinality(InFlight)
    <2>1. PICK u, v, k, l, i, o, t, w :
            /\ u = Cardinality(AllUnits) /\ v = Cardinality(AllUnits')
            /\ k = Cardinality(InFlight) /\ l = Cardinality(InFlight')
            /\ i = Cardinality(in) /\ o = Cardinality(out)
            /\ t = TotalOf(s) /\ w = TotalOf(s)'
      OBVIOUS
    <2>2. /\ u \in Nat /\ v \in Nat /\ k \in Nat /\ i \in Nat /\ o \in Nat
          /\ t \in Nat /\ w \in Nat
          /\ l = (k - i) + o /\ w + o = t + i /\ v + t = u + w
      BY <1>3, <1>4, <1>5, <2>1
    <2>3. v + l = u + k
      BY <2>2
    <2> QED BY <2>1, <2>3
  <1>7. TypeOK'
    BY CreateNewBlockType DEF TransferInv
  <1> QED BY <1>1, <1>6, <1>7 DEF Conservation

LEMMA ConservationInit ==
  ASSUME Init
  PROVE  BalanceInv /\ Conservation
  <1>1. Started = {} /\ BalanceInv
    BY DEF Init, Started, BalanceInv
  <1>2. InFlight = {}
    <2>1. TypeOK /\ TransferInv
      BY TypeInit, TransferInit
    <2>2. Created = {}
      BY BlockIdFacts DEF Init, Created
    <2> QED BY <2>2 DEF InFlight, Debited
  <1>3. AllUnits = {}
    <2>1. ASSUME NEW s \in PShard PROVE Units(balance[s]) = {}
      BY GenesisUnits DEF Init
    <2> QED BY <2>1 DEF AllUnits
  <1>4. Cardinality({}) = 0 /\ Cardinality(Account) \in Nat /\ GenesisBalance \in Nat
    BY FS_EmptySet, FS_CardinalityType, SizesAssumption
  <1>5. 0 * Cardinality(Account) * GenesisBalance = 0
    BY <1>4
  <1> QED BY <1>1, <1>2, <1>3, <1>4, <1>5, TypeInit DEF Conservation

\* Genesis gives, blocks debit and credit; nothing else moves a unit.
LEMMA OtherSteps ==
  ASSUME [Next]_vars, \A s \in PShard : ~Genesis(s) /\ ~CreateNewBlock(s)
  PROVE  blocks' = blocks /\ balance' = balance
  <1>1. CASE UNCHANGED vars
    BY <1>1 DEF vars
  <1>2. ASSUME NEW n \in PNode, CheckBlock(n) \/ Commit(n)
        PROVE  blocks' = blocks /\ balance' = balance
    BY <1>2 DEF CheckBlock, Commit
  <1>3. ASSUME NEW n \in Node, NEW m \in net,
               HandleHeaderMsg(n, m) \/ HandleInboundChunkMsg(n, m)
        PROVE  blocks' = blocks /\ balance' = balance
    BY <1>3 DEF HandleHeaderMsg, HandleInboundChunkMsg
  <1> QED BY <1>1, <1>2, <1>3 DEF Next

\* No unit is lost or made on its way between shards: with the transfers that
\* are debited and not yet credited, the balances of all accounts add up to
\* what the genesis blocks gave, and no account is overdrawn.
THEOREM SumInvariant == Spec => [](BalanceInv /\ Conservation)
  <1>1. Init => BalanceInv /\ Conservation
    BY ConservationInit
  <1>2. TypeOK /\ TransferInv /\ BalanceInv /\ Conservation /\ [Next]_vars /\ TypeOK'
          => BalanceInv' /\ Conservation'
    <2> SUFFICES ASSUME TypeOK, TransferInv, BalanceInv, Conservation, [Next]_vars, TypeOK'
                 PROVE  BalanceInv' /\ Conservation'
      OBVIOUS
    <2>1. ASSUME NEW s \in PShard, Genesis(s) PROVE BalanceInv' /\ Conservation'
      BY <2>1, GenesisConserves
    <2>2. ASSUME NEW s \in PShard, CreateNewBlock(s) PROVE BalanceInv' /\ Conservation'
      BY <2>2, CreateNewBlockConserves
    <2>3. ASSUME \A s \in PShard : ~Genesis(s) /\ ~CreateNewBlock(s)
          PROVE  BalanceInv' /\ Conservation'
      <3>1. blocks' = blocks /\ balance' = balance
        BY <2>3, OtherSteps
      <3> QED BY <3>1, SameSums DEF Conservation
    <2> QED BY <2>1, <2>2, <2>3
  <1> QED BY <1>1, <1>2, TransferInvariant, PTL DEF Spec

\* Money is conserved in every reachable state: CreateNewBlock debits what some
\* destination will credit, and credits it once.
THEOREM Conserved == Spec => []Conservation
  BY SumInvariant, PTL

-----------------------------------------------------------------------------
(* The abstract transfers.                                                 *)

LEMMA SameCardinality == \A S : Abstract!Cardinality(S) = Cardinality(S)
  BY DEF Abstract!Cardinality, Cardinality, Abstract!IsFiniteSet, IsFiniteSet

LEMMA GenesisOpens ==
  ASSUME TypeOK, BalanceInv, NEW s \in PShard, Genesis(s)
  PROVE  Abstract!Open(s)
  <1>1. /\ s \notin Started /\ Started' = Started \cup {s} /\ InFlight' = InFlight
        /\ TotalOf(s)' = Cardinality(Account) * GenesisBalance
    BY GenesisMoves
  <1>2. PICK keeps \in [Account -> Nat] : balance' = [balance EXCEPT ![s] = keeps]
    BY GenesisMoves
  <1>3. \A r \in PShard : r # s => TotalOf(r)' = TotalOf(r)
    BY <1>2, TotalsChange
  <1>4. Totals[s] = -1
    BY <1>1 DEF Totals
  <1>5. Totals' = [Totals EXCEPT ![s] = Cardinality(Account) * GenesisBalance]
    BY <1>1, <1>3 DEF Totals
  <1> QED BY <1>1, <1>4, <1>5 DEF Abstract!Open, Abstract!Closed

LEMMA CreateNewBlockTransfers ==
  ASSUME TypeOK, TransferInv, BalanceInv, NEW s \in PShard, CreateNewBlock(s)
  PROVE  Abstract!Block(s)
  <1>1. s \in Started /\ Started' = Started
    BY NewBlockStarted
  <1>2. PICK keeps \in [Account -> Nat] : balance' = [balance EXCEPT ![s] = keeps]
    BY NewBlockStarted
  <1>3. /\ TotalOf(s) \in Nat /\ TotalOf(s)' \in Nat
        /\ \A r \in PShard : r # s => TotalOf(r)' = TotalOf(r)
    BY <1>2, TotalsChange
  <1>4. PICK in, out :
           /\ InFlight' = (InFlight \ in) \cup out
           /\ in \subseteq InFlight /\ out \subseteq TransferId
           /\ out \cap InFlight = {} /\ out \cap in = {}
           /\ IsFiniteSet(in) /\ IsFiniteSet(out)
           /\ \A t \in in : t.to = s
           /\ \A t \in out : t.to # s
           /\ TotalOf(s)' + Cardinality(out) = TotalOf(s) + Cardinality(in)
    BY BlockMoves
  <1>5. InFlight \ InFlight' = in /\ InFlight' \ InFlight = out
    BY <1>4
  <1>6. Cardinality(in) \in Nat /\ Cardinality(out) \in Nat
    BY <1>4, FS_CardinalityType
  <1>7. PICK i, o, t, w : /\ i = Cardinality(in) /\ o = Cardinality(out)
                          /\ t = TotalOf(s) /\ w = TotalOf(s)'
    OBVIOUS
  <1>8. /\ i \in Nat /\ o \in Nat /\ t \in Nat /\ w \in Nat /\ w + o = t + i
    BY <1>3, <1>4, <1>6, <1>7
  <1>9. w = t + i - o /\ o <= t + i /\ t # -1
    BY <1>8
  <1>10. Totals[s] = t
    BY <1>1, <1>7 DEF Totals
  <1>11. Totals' = [Totals EXCEPT ![s] = Totals[s] + i - o]
    <2>1. Totals' = [Totals EXCEPT ![s] = w]
      BY <1>1, <1>3, <1>7 DEF Totals
    <2> QED BY <1>9, <1>10, <2>1
  <1>12. InFlight' \subseteq TransferId
    BY <1>4, SetsFinite DEF InFlight
  <1>13. Abstract!Cardinality(in) = i /\ Abstract!Cardinality(out) = o
    BY <1>7, SameCardinality
  <1> QED BY <1>4, <1>5, <1>9, <1>10, <1>11, <1>12, <1>13
          DEF Abstract!Block, Abstract!Closed

\* The shards implement the abstract transfers: whatever the order and the
\* repetition of messages, a step opens a shard, lets a block of one shard
\* take in transfers that are in flight to it and send out others that it can
\* pay, or changes neither totals nor transfers.
THEOREM TransferRefinement == Spec => ImplementsTransfer
  <1>1. Init => Abstract!Init
    <2> SUFFICES ASSUME Init PROVE Abstract!Init
      OBVIOUS
    <2>1. Started = {}
      BY DEF Init, Started
    <2>2. InFlight = {}
      <3>1. Created = {}
        BY BlockIdFacts DEF Init, Created
      <3> QED BY <3>1 DEF InFlight, Debited
    <2> QED BY <2>1, <2>2 DEF Abstract!Init, Abstract!Closed, Totals
  <1>2. TypeOK /\ TransferInv /\ BalanceInv /\ [Next]_vars
          => [Abstract!Next]_<<Totals, InFlight>>
    <2> SUFFICES ASSUME TypeOK, TransferInv, BalanceInv, [Next]_vars
                 PROVE  [Abstract!Next]_<<Totals, InFlight>>
      OBVIOUS
    <2>1. ASSUME NEW s \in PShard, Genesis(s) PROVE Abstract!Next
      BY <2>1, GenesisOpens DEF Abstract!Next
    <2>2. ASSUME NEW s \in PShard, CreateNewBlock(s) PROVE Abstract!Next
      BY <2>2, CreateNewBlockTransfers DEF Abstract!Next
    <2>3. ASSUME \A s \in PShard : ~Genesis(s) /\ ~CreateNewBlock(s)
          PROVE  UNCHANGED <<Totals, InFlight>>
      <3>1. blocks' = blocks /\ balance' = balance
        BY <2>3, OtherSteps
      <3>2. Started' = Started /\ InFlight' = InFlight /\ \A s : TotalOf(s)' = TotalOf(s)
        BY <3>1, SameSums
      <3>3. Totals' = Totals
        BY <3>2 DEF Totals
      <3> QED BY <3>2, <3>3
    <2> QED BY <2>1, <2>2, <2>3
  <1> QED BY <1>1, <1>2, SumInvariant, TransferInvariant, PTL
          DEF Spec, ImplementsTransfer, Abstract!Spec

=============================================================================
