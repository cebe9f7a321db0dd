--------------------------- MODULE BFTInv_proofs ---------------------------
(***************************************************************************)
(* Proofs about module BFT, for every shard size, every bound on the       *)
(* height, every set of inbound chunks and every transaction limit: types, *)
(* and agreement from the inductive invariant ChainInv.                    *)
(***************************************************************************)
EXTENDS BFTInv, TLAPS, FiniteSetTheorems, SequenceTheorems

-----------------------------------------------------------------------------
(* Type correctness.                                                       *)

\* The values the handlers build have the types of the fields they go into.
LEMMA HeightsNat == Heights \subseteq Nat /\ 0 \in Heights
  BY MaxHeightAssumption DEF Heights

LEMMA NoBlockType == NoBlock \in Block
  BY HeightsNat DEF NoBlock, Block, EmptyRoot

LEMMA SignedType ==
  ASSUME NEW b \in Block, NEW S \in SUBSET Node
  PROVE  [b EXCEPT !.sign = S] \in Block
  BY DEF Block

LEMMA HeaderOnlyType ==
  ASSUME NEW b \in Block
  PROVE  /\ HeaderOnly(b) \in Block
         /\ HeaderOnly(b).height = b.height
         /\ HeaderOnly(b).hash = b.hash
         /\ HeaderOnly(b).prev = b.prev
         /\ HeaderOnly(b).sign = {}
  BY DEF Block, HeaderOnly, Unsigned

LEMMA IndicatorType == \A S : Indicator(S) \in [Node -> Nat]
  BY DEF Indicator

LEMMA SignType ==
  ASSUME NEW p \in BFT_INIT .. BFT_COMMIT, NEW hash \in Nat, NEW n
  PROVE  Sign(p, hash, n) \in Signature
  BY IndicatorType DEF Sign, Signature

LEMMA AddType ==
  ASSUME NEW s \in Signature, NEW t \in Signature
  PROVE  Add(s, t) \in Signature
  <1>1. [n \in Node |-> s.by[n] + t.by[n]] \in [Node -> Nat]
    BY DEF Signature
  <1> QED BY <1>1 DEF Add, Signature

LEMMA NoMessageType == NoSig \in Signature /\ NoMessage \in Message
  <1>1. NoSig \in Signature
    BY IndicatorType DEF NoSig, Signature, BFT_INIT, BFT_COMMIT
  <1> QED BY <1>1, NoBlockType DEF NoMessage, Message, LeaderTypes

LEMMA PhaseType ==
  /\ BFT_INIT \in BFT_INIT .. BFT_COMMIT
  /\ BFT_PREPARE \in BFT_INIT .. BFT_COMMIT
  /\ BFT_PRECOMMIT \in BFT_INIT .. BFT_COMMIT
  /\ BFT_COMMIT \in BFT_INIT .. BFT_COMMIT
  BY DEF BFT_INIT, BFT_PREPARE, BFT_PRECOMMIT, BFT_COMMIT

LEMMA SwitchType ==
  ASSUME NEW q \in Phase, NEW h \in Heights, NEW p \in BFT_INIT .. BFT_COMMIT
  PROVE  Switch(q, At(h, p)) \in Phase
  BY HeightsNat DEF Switch, At, Phase

LEMMA NewBlockType ==
  ASSUME TypeOK, NEW b \in NewBlocks, b.height <= MaxHeight
  PROVE  b \in Block
  <1> USE DEF TypeOK, ChainTypeOK
  <1>0. Leader \in Node /\ latestBlock[Leader] \in Block
    BY NodeAssumption
  <1>1. stateDB[Leader] \in Int /\ created + 1 \in Nat
    BY <1>0
  <1>2. CASE latestBlock[Leader] = NoBlock
    BY <1>0, <1>1, <1>2, HeightsNat DEF NewBlocks, Genesis, Block
  <1>3. CASE latestBlock[Leader] # NoBlock
    <2>1. PICK root \in {stateDB[Leader], created + 1} : b = Successor(root)
      BY <1>3 DEF NewBlocks
    <2>2. b.height \in Heights
      <3>1. latestBlock[Leader].height \in 0 .. MaxHeight
        BY <1>0 DEF Block, Heights
      <3>2. b.height = latestBlock[Leader].height + 1
        BY <2>1 DEF Successor
      <3> QED BY <3>1, <3>2, MaxHeightAssumption DEF Heights
    <2>3. TakenCount \in Nat /\ TakenCount <= Len(pool)
      BY TxLimitAssumption DEF TakenCount
    <2>4. {TakenChunks[i] : i \in 1 .. TakenCount} \subseteq InboundIds
      BY <2>3 DEF TakenChunks
    <2> QED BY <1>0, <1>1, <2>1, <2>2, <2>4 DEF Successor, Block
  <1> QED BY <1>2, <1>3

LEMMA MarshalType ==
  ASSUME TypeOK, NEW g \in Goroutine
  PROVE  Marshal(g) \in Message
  <1>1. g.block \in Block /\ g.block.height \in Heights
    BY DEF Goroutine, Block
  <1>2. /\ prepareBitmap[g.block.height] \in SUBSET Node
        /\ precommitBitmap[g.block.height] \in SUBSET Node
        /\ {g.from} \in SUBSET Node
    BY <1>1 DEF TypeOK, Goroutine
  <1> QED BY <1>1, <1>2 DEF Marshal, Message, Goroutine, LeaderTypes, VoteTypes

LEMMA GossipType ==
  ASSUME TypeOK, NEW type \in LeaderTypes \cup VoteTypes, NEW b \in Block,
         NEW sig \in Signature, NEW n \in Node, NEW bitmap \in SUBSET Node,
         StartGossip(type, b, sig, n, bitmap)
  PROVE  gossip' \subseteq Goroutine /\ net' \subseteq Message
  BY DEF TypeOK, StartGossip, Goroutine, Message

LEMMA CommitType ==
  ASSUME TypeOK, NEW n \in Node, NEW b \in Block, Commit(n, b)
  PROVE  ChainTypeOK'
  <1> USE DEF TypeOK, ChainTypeOK
  <1>1. b.height \in Heights /\ b.hash \in Nat /\ b.root \in Int
    BY DEF Block
  <1>2. Execute(stateDB[n], b) \in Int
    BY <1>1 DEF Execute, DivergedRoot
  <1>3. blockDB' \in [Node -> [Heights -> Block]]
    BY <1>1 DEF Commit
  <1>4. latestBlock' \in [Node -> Block]
    BY DEF Commit
  <1>5. stateDB' \in [Node -> Int] /\ roots' \in [Node -> SUBSET Int]
    <2>1. CASE b.root \in roots[n]
      BY <1>1, <2>1 DEF Commit
    <2>2. CASE b.root \notin roots[n]
      <3> DEFINE r == Execute(stateDB[n], b)
      <3>1. r \in Int
        BY <1>2
      <3>2. /\ stateDB' = [stateDB EXCEPT ![n] = r]
            /\ roots' = [roots EXCEPT ![n] = roots[n] \cup {r}]
        BY <2>2 DEF Commit
      <3> HIDE DEF r
      <3> QED BY <3>1, <3>2
    <2> QED BY <2>1, <2>2
  <1>6. ownHeaders' \in [Node -> SUBSET Nat]
    BY <1>1 DEF Commit
  <1>7. sent' \subseteq [kind : {"HEADER", "CHUNKS"}, from : Node, block : Block]
    BY DEF Commit, Outgoing
  <1> QED BY <1>3, <1>4, <1>5, <1>6, <1>7 DEF Commit

LEMMA PrepareType ==
  ASSUME TypeOK, NEW b \in NewBlocks, Prepare(b)
  PROVE  /\ ChainTypeOK'
         /\ phase' \in [Node -> Phase]
         /\ currentBlock' \in [Node -> Block]
         /\ prepareBitmap' \in [Heights -> SUBSET Node]
         /\ aggregatePrepareSig' \in Signature
         /\ gossip' \subseteq Goroutine
         /\ net' \subseteq Message
  <1>1. b \in Block
    BY NewBlockType DEF Prepare, CreateNewBlock
  <1>2. b.height \in Heights /\ b.hash \in Nat /\ b.root \in Int /\ Leader \in Node
    BY <1>1, NodeAssumption DEF Block
  <1>3. ChainTypeOK'
    <2>1. pool' \in Seq(InboundIds)
      <3>1. TakenCount \in Nat /\ TakenCount <= Len(pool)
        BY TxLimitAssumption DEF TakenCount, TypeOK, ChainTypeOK
      <3>2. SubSeq(pool, TakenCount + 1, Len(pool)) \in Seq(InboundIds)
        BY <3>1 DEF TypeOK, ChainTypeOK
      <3> QED BY <3>2 DEF Prepare, CreateNewBlock, TypeOK, ChainTypeOK
    <2>2. chunkDB' \in [Node -> SUBSET Nat]
      <3>1. CASE b.height = 0
        BY <3>1 DEF Prepare, CreateNewBlock, TypeOK, ChainTypeOK
      <3>2. CASE b.height # 0
        <4>1. chunkDB' = [chunkDB EXCEPT ![Leader] = chunkDB[Leader] \cup {b.hash}]
          BY <3>2 DEF Prepare, CreateNewBlock
        <4> QED BY <1>2, <4>1 DEF TypeOK, ChainTypeOK
      <3> QED BY <3>1, <3>2
    <2>3. latestBlock' \in [Node -> Block] /\ stateDB' \in [Node -> Int]
      BY <1>1, <1>2 DEF Prepare, CreateNewBlock, TypeOK, ChainTypeOK
    <2>4. roots' \in [Node -> SUBSET Int]
      <3>1. roots' = [roots EXCEPT ![Leader] = roots[Leader] \cup {b.root}]
        BY DEF Prepare, CreateNewBlock
      <3> QED BY <1>2, <3>1 DEF TypeOK, ChainTypeOK
    <2> QED BY <2>1, <2>2, <2>3, <2>4
            DEF Prepare, CreateNewBlock, TypeOK, ChainTypeOK
  <1>4. phase' \in [Node -> Phase]
    BY <1>2, SwitchType, PhaseType DEF Prepare, TypeOK
  <1>5. Sign(BFT_PREPARE, b.hash, Leader) \in Signature
    BY <1>2, SignType, PhaseType
  <1>6. gossip' \subseteq Goroutine /\ net' \subseteq Message
    BY <1>1, <1>2, <1>5, GossipType DEF Prepare, LeaderTypes
  <1> QED BY <1>1, <1>2, <1>3, <1>4, <1>5, <1>6 DEF Prepare, TypeOK

\* Every step preserves the type invariant.
LEMMA TypeStep == TypeOK /\ [Next]_vars => TypeOK'
  <1> SUFFICES ASSUME TypeOK, [Next]_vars PROVE TypeOK'
    OBVIOUS
  <1>0. Leader \in Node /\ currentBlock[Leader] \in Block
    BY NodeAssumption DEF TypeOK
  <1>h. currentBlock[Leader].height \in Heights /\ currentBlock[Leader].hash \in Nat
    BY <1>0 DEF Block
  <1>1. CASE Start
    BY <1>1, PrepareType DEF Start, TypeOK
  <1>2. ASSUME NEW m \in net, OnPrepareVoteMsg(m) PROVE TypeOK'
    <2> DEFINE h == currentBlock[Leader].height
               bitmap == prepareBitmap[h] \cup m.bitmap
               sig == Add(aggregatePrepareSig, m.sig)
    <2>1. bitmap \in SUBSET Node /\ sig \in Signature
      BY <1>h, AddType DEF TypeOK, Message
    <2> HIDE DEF bitmap, sig
    <2>2. ChainTypeOK'
      BY <1>2 DEF OnPrepareVoteMsg, TypeOK, ChainTypeOK, chainVars
    <2>3. CASE Enough(bitmap)
      <3>1. Precommit(sig, bitmap)
        BY <1>2, <2>3 DEF OnPrepareVoteMsg, bitmap, sig
      <3>2. gossip' \subseteq Goroutine /\ net' \subseteq Message
        BY <1>0, <2>1, <3>1, GossipType DEF Precommit, LeaderTypes
      <3>3. phase' \in [Node -> Phase]
        BY <1>0, <1>h, <3>1, SwitchType, PhaseType DEF Precommit, TypeOK
      <3>4. Sign(BFT_PRECOMMIT, currentBlock[Leader].hash, Leader) \in Signature
        BY <1>h, SignType, PhaseType
      <3>5. precommitBitmap' \in [Heights -> SUBSET Node]
        BY <1>0, <3>1 DEF Precommit, TypeOK
      <3> QED BY <1>2, <2>1, <2>2, <3>1, <3>2, <3>3, <3>4, <3>5
              DEF OnPrepareVoteMsg, Precommit, TypeOK, bitmap, sig
    <2>4. CASE ~Enough(bitmap)
      BY <1>2, <2>1, <2>2, <2>4 DEF OnPrepareVoteMsg, TypeOK, bitmap, sig
    <2> QED BY <2>3, <2>4
  <1>3. ASSUME NEW m \in net, OnPrecommitVoteMsg(m) PROVE TypeOK'
    <2> DEFINE h == currentBlock[Leader].height
               bitmap == precommitBitmap[h] \cup m.bitmap
               sig == Add(aggregatePrecommitSig, m.sig)
    <2>1. bitmap \in SUBSET Node /\ sig \in Signature
      BY <1>h, AddType DEF TypeOK, Message
    <2> HIDE DEF bitmap, sig
    <2>3. CASE Enough(bitmap)
      <3> DEFINE signed == [currentBlock[Leader] EXCEPT !.sign = bitmap]
      <3>1. LeaderCommit(sig, bitmap)
        BY <1>3, <2>3 DEF OnPrecommitVoteMsg, bitmap, sig
      <3>2. gossip' \subseteq Goroutine /\ net' \subseteq Message
        BY <1>0, <2>1, <3>1, GossipType DEF LeaderCommit, LeaderTypes
      <3>3. phase' \in [Node -> Phase]
        BY <1>0, <1>h, <3>1, SwitchType, PhaseType DEF LeaderCommit, TypeOK
      <3>4. signed \in Block
        BY <1>0, <2>1, SignedType
      <3>5. ChainTypeOK'
        BY <1>0, <3>1, <3>4, CommitType DEF LeaderCommit
      <3>6. commitBitmap' \in [Heights -> SUBSET Node]
        BY <1>0, <3>1 DEF LeaderCommit, TypeOK
      <3>7. currentBlock' \in [Node -> Block]
        BY <3>1, <3>4 DEF LeaderCommit, TypeOK
      <3>8. latestCommittedBlockHash' \in [Node -> Nat]
        BY <1>h, <3>1 DEF LeaderCommit, TypeOK
      <3> QED BY <1>3, <2>1, <3>2, <3>3, <3>5, <3>6, <3>7, <3>8
              DEF OnPrecommitVoteMsg, TypeOK, bitmap, sig
    <2>4. CASE ~Enough(bitmap)
      BY <1>3, <2>1, <2>4
      DEF OnPrecommitVoteMsg, TypeOK, ChainTypeOK, chainVars, bitmap, sig
    <2> QED BY <2>3, <2>4
  <1>4. ASSUME NEW m \in net, OnCommitVoteMsg(m) PROVE TypeOK'
    <2> DEFINE h == currentBlock[Leader].height
               bitmap == commitBitmap[h] \cup m.bitmap
    <2>1. bitmap \in SUBSET Node
      BY <1>h DEF TypeOK, Message
    <2> HIDE DEF bitmap
    <2>3. CASE Enough(bitmap)
      <3>1. PICK b \in NewBlocks : Prepare(b)
        BY <1>4, <2>3 DEF OnCommitVoteMsg, bitmap
      <3> QED BY <1>4, <2>1, <3>1, PrepareType DEF OnCommitVoteMsg, TypeOK, bitmap
    <2>4. CASE ~Enough(bitmap)
      BY <1>4, <2>1, <2>4
      DEF OnCommitVoteMsg, TypeOK, ChainTypeOK, chainVars, bitmap
    <2> QED BY <2>3, <2>4
  <1>5. ASSUME NEW n \in Validator, FinishCheck(n) PROVE TypeOK'
    <2> DEFINE b == checking[n].block
    <2>1. n \in Node /\ b \in Block /\ b.height \in Heights /\ b.hash \in Nat /\ b.root \in Int
      BY DEF TypeOK, Message, Validator, Block
    <2> HIDE DEF b
    <2>2. Execute(stateDB[n], b) \in Int
      BY <2>1 DEF Execute, DivergedRoot
    <2>3. ChainTypeOK'
      BY <1>5, <2>1, <2>2 DEF FinishCheck, CheckBlock, TypeOK, ChainTypeOK, b
    <2>4. checking' \in [Node -> Message]
      BY <1>5, NoMessageType DEF FinishCheck, TypeOK
    <2>5. CASE CheckBlockOK(n, b)
      <3>1. /\ currentBlock' = [currentBlock EXCEPT ![n] = b]
            /\ phase' = [phase EXCEPT ![n] = Switch(@, At(b.height, BFT_PREPARE))]
            /\ StartGossip("PREPAREVOTE", HeaderOnly(b),
                           Sign(BFT_PREPARE, b.hash, n), n, {n})
        BY <1>5, <2>5 DEF FinishCheck, b
      <3>2. gossip' \subseteq Goroutine /\ net' \subseteq Message
        <4>1. HeaderOnly(b) \in Block /\ Sign(BFT_PREPARE, b.hash, n) \in Signature
          BY <2>1, HeaderOnlyType, SignType, PhaseType
        <4> QED BY <2>1, <3>1, <4>1, GossipType DEF VoteTypes
      <3>3. phase' \in [Node -> Phase]
        BY <2>1, <3>1, SwitchType, PhaseType DEF TypeOK
      <3> QED BY <1>5, <2>1, <2>3, <2>4, <3>1, <3>2, <3>3 DEF FinishCheck, TypeOK
    <2>6. CASE ~CheckBlockOK(n, b)
      BY <1>5, <2>3, <2>4, <2>6 DEF FinishCheck, TypeOK, b
    <2> QED BY <2>5, <2>6
  <1>6. ASSUME NEW n \in Validator, NEW m \in net, OnPrepareMsg(n, m) PROVE TypeOK'
    BY <1>6 DEF OnPrepareMsg, TypeOK, ChainTypeOK, chainVars
  <1>7. ASSUME NEW n \in Validator, NEW m \in net, OnPrecommitMsg(n, m) PROVE TypeOK'
    <2>1. /\ n \in Node /\ currentBlock[n] \in Block /\ m.block \in Block
          /\ currentBlock[n].height \in Heights /\ currentBlock[n].hash \in Nat
      BY DEF TypeOK, Message, Validator, Block
    <2>2. gossip' \subseteq Goroutine /\ net' \subseteq Message
      <3>1. /\ HeaderOnly(m.block) \in Block
            /\ Sign(BFT_PRECOMMIT, currentBlock[n].hash, n) \in Signature
        BY <2>1, HeaderOnlyType, SignType, PhaseType
      <3> QED BY <1>7, <2>1, <3>1, GossipType DEF OnPrecommitMsg, VoteTypes
    <2>3. phase' \in [Node -> Phase]
      BY <1>7, <2>1, SwitchType, PhaseType DEF OnPrecommitMsg, TypeOK
    <2> QED BY <1>7, <2>2, <2>3 DEF OnPrecommitMsg, TypeOK, ChainTypeOK, chainVars
  <1>8. ASSUME NEW n \in Validator, NEW m \in net, OnCommitMsg(n, m) PROVE TypeOK'
    <2> DEFINE signed == [currentBlock[n] EXCEPT !.sign = m.bitmap]
    <2>1. /\ n \in Node /\ currentBlock[n] \in Block /\ m.block \in Block
          /\ currentBlock[n].height \in Heights /\ currentBlock[n].hash \in Nat
          /\ m.bitmap \in SUBSET Node
      BY DEF TypeOK, Message, Validator, Block
    <2>2. gossip' \subseteq Goroutine /\ net' \subseteq Message
      <3>1. /\ HeaderOnly(m.block) \in Block
            /\ Sign(BFT_COMMIT, currentBlock[n].hash, n) \in Signature
        BY <2>1, HeaderOnlyType, SignType, PhaseType
      <3> QED BY <1>8, <2>1, <3>1, GossipType DEF OnCommitMsg, VoteTypes
    <2>3. phase' \in [Node -> Phase]
      BY <1>8, <2>1, SwitchType, PhaseType DEF OnCommitMsg, TypeOK
    <2>4. signed \in Block
      BY <2>1, SignedType
    <2>5. ChainTypeOK'
      BY <1>8, <2>1, <2>4, CommitType DEF OnCommitMsg
    <2>6. /\ currentBlock' \in [Node -> Block]
          /\ latestCommittedBlockHash' \in [Node -> Nat]
      BY <1>8, <2>1, <2>4 DEF OnCommitMsg, TypeOK
    <2> QED BY <1>8, <2>2, <2>3, <2>5, <2>6 DEF OnCommitMsg, TypeOK
  <1>9. ASSUME NEW n \in Validator, Crash(n) PROVE TypeOK'
    BY <1>9 DEF Crash, TypeOK, ChainTypeOK, chainVars
  <1>10. ASSUME NEW g \in gossip, TryGossip(g) PROVE TypeOK'
    BY <1>10, MarshalType DEF TryGossip, TypeOK, ChainTypeOK, chainVars
  <1>11. ASSUME NEW n \in Node, NEW i \in InboundIds, HandleHeaderMsg(n, i) PROVE TypeOK'
    BY <1>11 DEF HandleHeaderMsg, ReceiveHeader, TypeOK, ChainTypeOK, bftVars
  <1>12. CASE UNCHANGED vars
    BY <1>12 DEF vars, TypeOK, ChainTypeOK, chainVars, bftVars
  <1> QED
    BY <1>1, <1>2, <1>3, <1>4, <1>5, <1>6, <1>7, <1>8, <1>9, <1>10, <1>11, <1>12
    DEF Next, NilCurrentBlock, ConcurrentMapFault

\* Every variable of the shard always has its type: every message any node
\* can marshal, at any time, is well formed.
THEOREM TypeCorrect == Spec => []TypeOK
  <1>1. Init => TypeOK
    BY NodeAssumption, HeightsNat, NoBlockType, NoMessageType, IndicatorType
    DEF Init, ChainInit, TypeOK, ChainTypeOK, Phase, At, EmptyRoot, Validator,
        BFT_INIT, BFT_COMMIT
  <1> QED BY <1>1, TypeStep, PTL DEF Spec

-----------------------------------------------------------------------------
(* Facts about blocks and phases.                                          *)

LEMMA LeaderNode ==
  ASSUME TypeOK
  PROVE  /\ Leader \in Node
         /\ \A n \in Validator : n \in Node /\ n # Leader
         /\ \A n \in Node : n = Leader \/ n \in Validator
         /\ \A n \in Node : /\ currentBlock[n] \in Block
                            /\ phase[n] \in Phase
                            /\ phase[n].height \in Nat
                            /\ phase[n].bftPhase \in 0 .. 3
         /\ \A n \in Node, h \in Heights : blockDB[n][h] \in Block
         /\ \A m \in net : m \in Message /\ m.block \in Block
         /\ \A g \in gossip : g \in Goroutine /\ g.block \in Block
  BY NodeAssumption
  DEF TypeOK, ChainTypeOK, Validator, Phase, Message, Goroutine, BFT_INIT, BFT_COMMIT

LEMMA BlockFields ==
  ASSUME NEW b \in Block
  PROVE  /\ b.height \in Heights /\ b.height \in Nat /\ b.hash \in Nat
         /\ b.prev \in Nat /\ b.sign \in SUBSET Node
  BY HeightsNat DEF Block

LEMMA LinkedBlock ==
  ASSUME NEW b \in Block, Linked(b)
  PROVE  b # NoBlock
  BY BlockFields DEF Linked, NoBlock

LEMMA UnsignedBlock ==
  ASSUME NEW b \in Block
  PROVE  /\ Unsigned(b) \in Block
         /\ Unsigned(b).height = b.height
         /\ Unsigned(b).hash = b.hash
         /\ Unsigned(b).prev = b.prev
         /\ Unsigned(b).sign = {}
         /\ Linked(Unsigned(b)) <=> Linked(b)
         /\ b.sign = {} => Unsigned(b) = b
  BY DEF Block, Unsigned, Linked

LEMMA SignedBlock ==
  ASSUME NEW b \in Block, NEW S \in SUBSET Node, NEW signed,
         signed = [b EXCEPT !.sign = S]
  PROVE  /\ signed \in Block
         /\ signed.height = b.height
         /\ signed.hash = b.hash
         /\ signed.prev = b.prev
         /\ signed.sign = S
         /\ Unsigned(signed) = Unsigned(b)
         /\ Linked(signed) <=> Linked(b)
  BY DEF Block, Unsigned, Linked

LEMMA SameSigned ==
  ASSUME NEW a \in Block, NEW b \in Block, Unsigned(a) = Unsigned(b)
  PROVE  [a EXCEPT !.sign = b.sign] = b
  <1>1. /\ a.height = b.height /\ a.hash = b.hash /\ a.prev = b.prev
        /\ a.parent = b.parent /\ a.root = b.root /\ a.inbound = b.inbound
    BY DEF Block, Unsigned
  <1> QED BY <1>1 DEF Block

LEMMA SwitchNew ==
  ASSUME NEW q \in Phase, NEW h, NEW p, IsNew(q, At(h, p))
  PROVE  Switch(q, At(h, p)) = At(h, p)
  BY DEF Switch

LEMMA AtFields == \A h, p : At(h, p).height = h /\ At(h, p).bftPhase = p
  BY DEF At

-----------------------------------------------------------------------------
(* Consequences of the invariant in one state.                             *)

\* A proposal is unsigned, linked, and carries the height it is found at.
LEMMA ProposalFacts ==
  ASSUME TypeOK, LeaderInv, NEW b \in Block, IsProposal(b)
  PROVE  /\ b.sign = {} /\ Unsigned(b) = b
         /\ Linked(b)
         /\ b.height <= currentBlock[Leader].height
  <1> DEFINE h == b.height
             c == currentBlock[Leader]
  <1>1. h \in Heights /\ h \in Nat /\ c \in Block /\ c.height \in Nat
    BY LeaderNode, BlockFields
  <1>2. CASE Committed(Leader, h)
    <2>1. b = Unsigned(blockDB[Leader][h])
      BY <1>2 DEF IsProposal, LeaderBlock
    <2>2. blockDB[Leader][h] \in Block /\ Linked(blockDB[Leader][h])
      BY <1>1, <1>2, LeaderNode DEF LeaderInv
    <2> QED BY <2>1, <2>2, UnsignedBlock DEF IsProposal
  <1>3. CASE ~Committed(Leader, h)
    <2>1. b = c /\ c # NoBlock
      BY <1>3 DEF IsProposal, LeaderBlock
    <2>2. Linked(c) /\ phase[Leader].bftPhase # BFT_COMMIT
      BY <1>1, <1>3, <2>1 DEF LeaderInv, CommittedUpToCurrent
    <2>3. c.sign = {}
      BY <2>1, <2>2 DEF LeaderInv
    <2> QED BY <2>1, <2>2, <2>3, UnsignedBlock DEF IsProposal
  <1> QED BY <1>2, <1>3

\* The leader's block in progress is a proposal until it is committed.
LEMMA CurrentIsProposal ==
  ASSUME TypeOK, LeaderInv, currentBlock[Leader] # NoBlock,
         phase[Leader].bftPhase # BFT_COMMIT
  PROVE  /\ IsProposal(currentBlock[Leader])
         /\ ~Committed(Leader, currentBlock[Leader].height)
  <1>1. currentBlock[Leader].height \in Heights /\ currentBlock[Leader].height \in Nat
    BY LeaderNode, BlockFields
  <1>2. ~Committed(Leader, currentBlock[Leader].height)
    BY <1>1 DEF LeaderInv, CommittedUpToCurrent
  <1> QED BY <1>1, <1>2 DEF IsProposal, LeaderBlock

\* A vote the leader accepts is for its current height.
LEMMA VoteHeight ==
  ASSUME TypeOK, LeaderInv, NEW m \in net, MessageInv(m), NEW p, NEW bitmap,
         AcceptVote(m, p, bitmap)
  PROVE  /\ m.block.height = currentBlock[Leader].height
         /\ currentBlock[Leader] # NoBlock
         /\ ~Enough(bitmap)
         /\ ~(phase[Leader].bftPhase > p)
  <1>1. currentBlock[Leader] \in Block /\ m.block \in Block
    BY LeaderNode
  <1>2. currentBlock[Leader] # NoBlock /\ m.block.hash = currentBlock[Leader].hash
    BY DEF AcceptVote
  <1>3. Linked(currentBlock[Leader]) /\ Linked(m.block)
    BY <1>2 DEF LeaderInv, MessageInv
  <1>4. m.block.height = currentBlock[Leader].height
    BY <1>1, <1>2, <1>3, BlockFields DEF Linked
  <1>5. phase[Leader].height = currentBlock[Leader].height
    BY <1>2 DEF LeaderInv
  <1> QED BY <1>2, <1>4, <1>5, AtFields DEF AcceptVote, IsOut

\* A validator's current block is linked and at its own phase.
LEMMA ValidatorFacts ==
  ASSUME TypeOK, LeaderInv, NEW n \in Validator, ValidatorInv(n),
         currentBlock[n] # NoBlock
  PROVE  /\ Linked(currentBlock[n])
         /\ currentBlock[Leader] # NoBlock
         /\ currentBlock[n].height <= currentBlock[Leader].height
         /\ phase[n].bftPhase \in 1 .. 3
  <1>1. currentBlock[n] \in Block /\ IsProposal(Unsigned(currentBlock[n]))
    BY LeaderNode DEF ValidatorInv
  <1>2. Linked(Unsigned(currentBlock[n]))
    BY <1>1, ProposalFacts, UnsignedBlock
  <1>3. phase[n].bftPhase \in 1 .. 3
    BY LeaderNode DEF ValidatorInv, BFT_INIT
  <1> QED BY <1>1, <1>2, <1>3, UnsignedBlock DEF IsProposal

-----------------------------------------------------------------------------
(* What a step leaves as it is.                                            *)

\* The leader's chain only grows, and no BlockDB loses or changes a block.
ChainExtends ==
    /\ \A b \in Block : IsProposal(b) => IsProposal(b)'
    /\ \A n \in Node, h \in Heights :
         Committed(n, h) => Committed(n, h)' /\ blockDB'[n][h] = blockDB[n][h]
    /\ currentBlock[Leader] # NoBlock =>
         /\ currentBlock'[Leader] # NoBlock
         /\ currentBlock[Leader].height <= currentBlock'[Leader].height

LEMMA SameChain ==
  ASSUME TypeOK, blockDB' = blockDB, currentBlock'[Leader] = currentBlock[Leader]
  PROVE  ChainExtends
  <1>1. \A n, h : Committed(n, h)' <=> Committed(n, h)
    BY DEF Committed
  <1>2. \A h : LeaderBlock(h)' = LeaderBlock(h)
    BY <1>1 DEF LeaderBlock
  <1>3. currentBlock[Leader].height \in Nat
    BY LeaderNode, BlockFields
  <1> QED BY <1>1, <1>2, <1>3 DEF ChainExtends, IsProposal

LEMMA MessageStable ==
  ASSUME TypeOK, TypeOK', ChainExtends, NEW m \in net, MessageInv(m)
  PROVE  MessageInv(m)'
  <1>1. m \in Message /\ m.block \in Block /\ m.block.height \in Heights
        /\ m.block.height \in Nat
    BY LeaderNode, BlockFields
  <1>2. currentBlock[Leader].height \in Nat /\ currentBlock'[Leader].height \in Nat
    <2>1. currentBlock[Leader] \in Block /\ currentBlock'[Leader] \in Block
      BY NodeAssumption DEF TypeOK
    <2> QED BY <2>1, BlockFields
  <1>3. /\ currentBlock'[Leader] # NoBlock
        /\ m.block.height <= currentBlock'[Leader].height
    BY <1>1, <1>2 DEF MessageInv, ChainExtends
  <1>4. m.type \in LeaderTypes => IsProposal(m.block)'
    BY <1>1 DEF MessageInv, ChainExtends
  <1>5. m.type = "COMMIT" => /\ Committed(Leader, m.block.height)'
                             /\ m.bitmap = blockDB'[Leader][m.block.height].sign
    BY <1>1, LeaderNode DEF MessageInv, ChainExtends
  <1>6. m.bitmap \subseteq Node
    BY <1>1 DEF Message
  <1>7. m.type = "COMMITVOTE" => \A n \in m.bitmap : Committed(n, m.block.height)'
    BY <1>1, <1>6 DEF MessageInv, ChainExtends
  <1>8. /\ Linked(m.block)
        /\ m.type \in VoteTypes => \E n \in Validator : m.bitmap = {n}
    BY DEF MessageInv
  <1> QED BY <1>3, <1>4, <1>5, <1>7, <1>8 DEF MessageInv

LEMMA GoroutineStable ==
  ASSUME TypeOK, ChainExtends, net \subseteq net', NEW g \in gossip,
         GoroutineInv(g),
         g.type = "PRECOMMIT" =>
            prepareBitmap'[g.block.height] = prepareBitmap[g.block.height],
         g.type = "COMMIT" =>
            precommitBitmap'[g.block.height] = precommitBitmap[g.block.height]
  PROVE  GoroutineInv(g)'
  <1>1. g \in Goroutine /\ g.block \in Block
    BY LeaderNode
  <1>2. g.type = "PREPARE" => IsProposal(g.block)' /\ Linked(g.block)
    BY <1>1 DEF GoroutineInv, ChainExtends
  <1>3. g.type # "PREPARE" => Marshal(g)' = Marshal(g)
    BY <1>1 DEF Marshal, Goroutine, LeaderTypes, VoteTypes
  <1>4. /\ g.type # "PREPARE" => Marshal(g)' \in net'
        /\ g.type = "PRECOMMIT" => Enough(prepareBitmap'[g.block.height])
        /\ g.type = "COMMIT" => Enough(precommitBitmap'[g.block.height])
    BY <1>3 DEF GoroutineInv
  <1> QED BY <1>2, <1>4 DEF GoroutineInv, Enough

\* A validator that takes no part in the step.
LEMMA ValidatorStable ==
  ASSUME TypeOK, ChainExtends, net \subseteq net', NEW n \in Validator,
         ValidatorInv(n),
         phase'[n] = phase[n], currentBlock'[n] = currentBlock[n],
         latestCommittedBlockHash'[n] = latestCommittedBlockHash[n],
         blockDB'[n] = blockDB[n], checking'[n] = checking[n]
  PROVE  ValidatorInv(n)'
  <1>1. n \in Node /\ currentBlock[n] \in Block /\ Leader \in Node
    BY LeaderNode
  <1>2. \A h : Committed(n, h)' <=> Committed(n, h)
    BY DEF Committed
  <1>3. currentBlock[n] = NoBlock => Idle(n)'
    BY <1>2 DEF ValidatorInv, Idle
  <1>4. currentBlock[n] # NoBlock =>
          IsProposal(Unsigned(currentBlock[n]))' /\ CommittedUpToCurrent(n)'
    <2>1. Unsigned(currentBlock[n]) \in Block
      BY <1>1, UnsignedBlock
    <2>2. ASSUME currentBlock[n] # NoBlock
          PROVE  IsProposal(Unsigned(currentBlock[n]))'
      BY <2>1, <2>2 DEF ValidatorInv, ChainExtends
    <2>3. ASSUME currentBlock[n] # NoBlock PROVE CommittedUpToCurrent(n)'
      BY <1>2, <2>3 DEF ValidatorInv, CommittedUpToCurrent
    <2> QED BY <2>2, <2>3
  <1>5. \A h \in Heights : Committed(n, h) =>
          Committed(Leader, h)' /\ blockDB'[n][h] = blockDB'[Leader][h]
    BY <1>1 DEF ValidatorInv, ChainExtends
  <1> QED BY <1>2, <1>3, <1>4, <1>5 DEF ValidatorInv

\* A step that leaves the leader alone.
LEMMA LeaderStable ==
  ASSUME LeaderInv, currentBlock[Leader] # NoBlock,
         currentBlock'[Leader] = currentBlock[Leader],
         phase'[Leader] = phase[Leader], blockDB'[Leader] = blockDB[Leader],
         latestBlock'[Leader] = latestBlock[Leader], created' = created
  PROVE  LeaderInv'
  <1>1. \A h : Committed(Leader, h)' <=> Committed(Leader, h)
    BY DEF Committed
  <1> QED BY <1>1 DEF LeaderInv, CommittedUpToCurrent

LEMMA CommitCountStable ==
  ASSUME TypeOK, ChainExtends, CommitCountInv, commitBitmap' = commitBitmap,
         currentBlock'[Leader] = currentBlock[Leader]
  PROVE  CommitCountInv'
  <1>1. \A h \in Heights : commitBitmap[h] \subseteq Node
    BY DEF TypeOK
  <1> QED BY <1>1 DEF CommitCountInv, ChainExtends, Enough

\* A step of validator n preserves the invariant if it does so for n itself
\* and for what n sends.
LEMMA ValidatorStep ==
  ASSUME TypeOK, TypeOK', ChainInv, NEW n \in Validator,
         currentBlock[Leader] # NoBlock,
         \A k \in Node : k # n =>
            /\ phase'[k] = phase[k] /\ currentBlock'[k] = currentBlock[k]
            /\ latestCommittedBlockHash'[k] = latestCommittedBlockHash[k]
            /\ blockDB'[k] = blockDB[k] /\ checking'[k] = checking[k]
            /\ latestBlock'[k] = latestBlock[k],
         created' = created, prepareBitmap' = prepareBitmap,
         precommitBitmap' = precommitBitmap, commitBitmap' = commitBitmap,
         ChainExtends, net \subseteq net',
         \A m \in net' : m \in net \/ MessageInv(m)',
         \A g \in gossip' : g \in gossip \/ GoroutineInv(g)',
         ValidatorInv(n)'
  PROVE  ChainInv'
  <1>1. Leader \in Node /\ Leader # n
    BY LeaderNode
  <1>2. LeaderInv'
    BY <1>1, LeaderStable DEF ChainInv
  <1>3. ASSUME NEW k \in Validator PROVE ValidatorInv(k)'
    <2>1. CASE k = n
      BY <2>1
    <2>2. CASE k # n
      <3>1. k \in Node
        BY LeaderNode
      <3> QED BY <2>2, <3>1, ValidatorStable DEF ChainInv
    <2> QED BY <2>1, <2>2
  <1>4. ASSUME NEW m \in net' PROVE MessageInv(m)'
    BY MessageStable DEF ChainInv
  <1>5. ASSUME NEW g \in gossip' PROVE GoroutineInv(g)'
    BY GoroutineStable DEF ChainInv
  <1>6. CommitCountInv'
    BY <1>1, CommitCountStable DEF ChainInv
  <1> QED BY <1>2, <1>3, <1>4, <1>5, <1>6 DEF ChainInv

\* A vote for block b that validator n starts to gossip.
LEMMA VoteSent ==
  ASSUME TypeOK, TypeOK', NEW type \in VoteTypes, NEW b \in Block, NEW sig,
         NEW n \in Validator,
         StartGossip(type, HeaderOnly(b), sig, n, {n}),
         currentBlock'[Leader] # NoBlock, Linked(b),
         b.height <= currentBlock'[Leader].height,
         type = "COMMITVOTE" => Committed(n, b.height)'
  PROVE  /\ net \subseteq net'
         /\ \A m \in net' : m \in net \/ MessageInv(m)'
         /\ \A g \in gossip' : g \in gossip \/ GoroutineInv(g)'
  <1> DEFINE v == [type |-> type, block |-> HeaderOnly(b), sig |-> sig, bitmap |-> {n}]
             r == [type |-> type, block |-> HeaderOnly(b), sig |-> sig, from |-> n]
  <1>1. net' = net \cup {v} /\ gossip' = gossip \cup {r}
    BY DEF StartGossip
  <1>2. type \notin LeaderTypes /\ type # "PREPARE" /\ type # "PRECOMMIT" /\ type # "COMMIT"
    BY DEF VoteTypes, LeaderTypes
  <1>3. Linked(HeaderOnly(b)) /\ HeaderOnly(b).height = b.height
    BY HeaderOnlyType DEF Linked
  <1>4. MessageInv(v)'
    BY <1>2, <1>3 DEF MessageInv
  <1>5. Marshal(r)' = v
    BY <1>2 DEF Marshal
  <1>6. GoroutineInv(r)'
    BY <1>1, <1>2, <1>5 DEF GoroutineInv
  <1> QED BY <1>1, <1>4, <1>6

-----------------------------------------------------------------------------
(* The validators' actions.                                                *)

LEMMA OnPrepareMsgInv ==
  ASSUME TypeOK, TypeOK', ChainInv, NEW n \in Validator, NEW m \in net,
         OnPrepareMsg(n, m)
  PROVE  ChainInv'
  <1> DEFINE b == currentBlock[n]
  <1>0. LeaderInv /\ ValidatorInv(n) /\ MessageInv(m)
    BY DEF ChainInv
  <1>1. /\ n \in Node /\ b \in Block /\ m.block \in Block
        /\ m.type = "PREPARE" /\ currentBlock[Leader] # NoBlock
    BY <1>0, LeaderNode DEF OnPrepareMsg, MessageInv
  <1>2. ChainExtends
    BY SameChain DEF OnPrepareMsg, chainVars
  <1>3. b = NoBlock => m.block.height = 0
    BY DEF OnPrepareMsg, InOrder
  <1>4. b # NoBlock => /\ m.block.height = b.height + 1
                       /\ phase[n].bftPhase = BFT_COMMIT
    <2>1. SUFFICES ASSUME b # NoBlock
                   PROVE  /\ m.block.height = b.height + 1
                          /\ phase[n].bftPhase = BFT_COMMIT
      OBVIOUS
    <2>2. /\ phase[n].height = b.height /\ phase[n].bftPhase \in 1 .. 3
          /\ Linked(b) /\ Linked(m.block)
      BY <1>0, <2>1, ValidatorFacts DEF ValidatorInv, MessageInv
    <2>3. IsNew(phase[n], At(m.block.height, BFT_PREPARE))
      BY DEF OnPrepareMsg, InOrder
    <2>4. m.block.height > b.height
      BY <1>1, <2>2, <2>3, BlockFields, AtFields DEF IsNew, BFT_PREPARE
    <2>5. /\ m.block.prev = latestCommittedBlockHash[n]
          /\ m.block.height = b.height + 1
      BY <2>1, <2>4 DEF OnPrepareMsg, InOrder
    <2>6. latestCommittedBlockHash[n] =
            IF phase[n].bftPhase = BFT_COMMIT THEN b.hash ELSE b.prev
      BY <1>0, <2>1 DEF ValidatorInv
    <2>7. m.block.prev = b.height + 1
      BY <2>2, <2>5 DEF Linked
    <2>8. b.prev = b.height /\ b.height \in Nat
      BY <1>1, <2>2, BlockFields DEF Linked
    <2>9. b.prev # m.block.prev
      BY <2>7, <2>8
    <2> QED BY <2>5, <2>6, <2>9
  <1>5. checking' = [checking EXCEPT ![n] = m]
    BY DEF OnPrepareMsg
  <1>6. checking'[n] = m /\ \A k \in Node : k # n => checking'[k] = checking[k]
    BY <1>1, <1>5 DEF TypeOK
  <1>7. ValidatorInv(n)'
    <2>1. /\ currentBlock' = currentBlock /\ phase' = phase /\ blockDB' = blockDB
          /\ latestCommittedBlockHash' = latestCommittedBlockHash /\ net' = net
      BY DEF OnPrepareMsg, chainVars
    <2>2. \A k, h : Committed(k, h)' <=> Committed(k, h)
      BY <2>1 DEF Committed
    <2>3. b # NoBlock => IsProposal(Unsigned(b))'
      <3>1. \A h : LeaderBlock(h)' = LeaderBlock(h)
        BY <2>1, <2>2 DEF LeaderBlock
      <3> QED BY <1>0, <2>1, <3>1 DEF ValidatorInv, IsProposal
    <2> QED BY <1>0, <1>1, <1>3, <1>4, <1>6, <2>1, <2>2, <2>3
            DEF ValidatorInv, Idle, CommittedUpToCurrent
  <1> QED BY <1>1, <1>2, <1>6, <1>7, ValidatorStep DEF OnPrepareMsg, chainVars

LEMMA FinishCheckInv ==
  ASSUME TypeOK, TypeOK', ChainInv, NEW n \in Validator, FinishCheck(n)
  PROVE  ChainInv'
  <1> SUFFICES ASSUME NEW b, b = checking[n].block, NEW c, c = currentBlock[n]
               PROVE  ChainInv'
    OBVIOUS
  <1>0. LeaderInv /\ ValidatorInv(n)
    BY DEF ChainInv
  <1>1. /\ n \in Node /\ n # Leader /\ c \in Block /\ b \in Block
        /\ checking[n] \in net /\ checking[n].type = "PREPARE"
        /\ checking[n] # NoMessage
    BY <1>0, LeaderNode DEF FinishCheck, ValidatorInv
  <1>2. /\ MessageInv(checking[n]) /\ IsProposal(b) /\ Linked(b)
        /\ currentBlock[Leader] # NoBlock
        /\ b.height <= currentBlock[Leader].height
    BY <1>1 DEF ChainInv, MessageInv, LeaderTypes
  <1>3. /\ blockDB' = blockDB /\ latestBlock' = latestBlock /\ created' = created
        /\ latestCommittedBlockHash' = latestCommittedBlockHash
        /\ prepareBitmap' = prepareBitmap /\ precommitBitmap' = precommitBitmap
        /\ commitBitmap' = commitBitmap
        /\ checking' = [checking EXCEPT ![n] = NoMessage]
    BY DEF FinishCheck, CheckBlock
  <1>4. \A k, h : Committed(k, h)' <=> Committed(k, h)
    BY <1>3 DEF Committed
  <1>5. CASE CheckBlockOK(n, b)
    <2>1. /\ currentBlock' = [currentBlock EXCEPT ![n] = b]
          /\ phase' = [phase EXCEPT ![n] = Switch(phase[n], At(b.height, BFT_PREPARE))]
          /\ StartGossip("PREPAREVOTE", HeaderOnly(b), Sign(BFT_PREPARE, b.hash, n), n, {n})
      BY <1>5 DEF FinishCheck
    <2>2. /\ currentBlock'[n] = b
          /\ \A k \in Node : k # n => /\ currentBlock'[k] = currentBlock[k]
                                      /\ phase'[k] = phase[k]
                                      /\ checking'[k] = checking[k]
          /\ checking'[n] = NoMessage
          /\ phase'[n] = Switch(phase[n], At(b.height, BFT_PREPARE))
      BY <1>1, <1>3, <2>1 DEF TypeOK
    <2>3. currentBlock'[Leader] = currentBlock[Leader]
      BY <1>1, <2>2, LeaderNode
    <2>4. ChainExtends
      BY <1>3, <2>3, SameChain
    <2>5. /\ net \subseteq net'
          /\ \A m \in net' : m \in net \/ MessageInv(m)'
          /\ \A g \in gossip' : g \in gossip \/ GoroutineInv(g)'
      BY <1>1, <1>2, <2>1, <2>3, VoteSent DEF VoteTypes
    <2>6. /\ phase'[n] = At(b.height, BFT_PREPARE)
          /\ latestCommittedBlockHash[n] = b.prev
          /\ \A h \in Heights : Committed(n, h) <=> h < b.height
      <3>0. b.height \in Nat /\ c.height \in Nat /\ phase[n] \in Phase
        BY <1>1, BlockFields, LeaderNode
      <3>1. CASE c = NoBlock
        <4>1. Idle(n) /\ b.height = 0
          BY <1>0, <1>1, <3>1 DEF ValidatorInv
        <4>2. IsNew(phase[n], At(b.height, BFT_PREPARE))
          BY <4>1, AtFields DEF Idle, IsNew, BFT_INIT, BFT_PREPARE
        <4> QED BY <1>2, <2>2, <3>0, <4>1, <4>2, SwitchNew, HeightsNat DEF Idle, Linked
      <3>2. CASE c # NoBlock
        <4>1. /\ b.height = c.height + 1 /\ phase[n].bftPhase = BFT_COMMIT
              /\ phase[n].height = c.height /\ Linked(c)
              /\ latestCommittedBlockHash[n] = c.hash
              /\ CommittedUpToCurrent(n)
          BY <1>0, <1>1, <3>2, ValidatorFacts DEF ValidatorInv
        <4>2. IsNew(phase[n], At(b.height, BFT_PREPARE))
          BY <3>0, <4>1, AtFields DEF IsNew
        <4>3. \A h \in Heights : Committed(n, h) <=> h < b.height
          BY <3>0, <4>1, HeightsNat DEF CommittedUpToCurrent
        <4> QED BY <1>2, <2>2, <3>0, <4>1, <4>2, <4>3, SwitchNew DEF Linked
      <3> QED BY <3>1, <3>2
    <2>7. ValidatorInv(n)'
      <3>1. b # NoBlock /\ IsProposal(Unsigned(b))'
        BY <1>0, <1>1, <1>2, <2>4, LinkedBlock, ProposalFacts DEF ChainExtends
      <3>2. phase'[n].height = b.height /\ phase'[n].bftPhase = BFT_PREPARE
        BY <2>6, AtFields
      <3>3. CommittedUpToCurrent(n)'
        BY <1>4, <2>2, <2>6, <3>2 DEF CommittedUpToCurrent, BFT_PREPARE, BFT_COMMIT
      <3>4. latestCommittedBlockHash'[n] = b.prev
        BY <1>3, <2>6
      <3>5. \A h \in Heights : Committed(n, h)' =>
              Committed(Leader, h)' /\ blockDB'[n][h] = blockDB'[Leader][h]
        BY <1>0, <1>3, <1>4 DEF ValidatorInv
      <3> QED BY <2>2, <3>1, <3>2, <3>3, <3>4, <3>5
              DEF ValidatorInv, BFT_PREPARE, BFT_INIT, BFT_COMMIT
    <2> QED BY <1>2, <1>3, <2>2, <2>4, <2>5, <2>7, ValidatorStep
  <1>6. CASE ~CheckBlockOK(n, b)
    <2>1. UNCHANGED <<currentBlock, phase, gossip, net>>
      BY <1>6 DEF FinishCheck
    <2>2. ChainExtends
      BY <1>3, <2>1, SameChain
    <2>3. checking'[n] = NoMessage /\ \A k \in Node : k # n => checking'[k] = checking[k]
      BY <1>1, <1>3 DEF TypeOK
    <2>4. ValidatorInv(n)'
      <3>1. c # NoBlock => IsProposal(Unsigned(c))'
        BY <1>0, <1>1, <2>2, UnsignedBlock DEF ValidatorInv, ChainExtends
      <3> QED BY <1>0, <1>3, <1>4, <2>1, <2>3, <3>1
              DEF ValidatorInv, Idle, CommittedUpToCurrent
    <2> QED BY <1>2, <1>3, <2>1, <2>2, <2>3, <2>4, ValidatorStep
  <1> QED BY <1>5, <1>6

LEMMA OnPrecommitMsgInv ==
  ASSUME TypeOK, TypeOK', ChainInv, NEW n \in Validator, NEW m \in net,
         OnPrecommitMsg(n, m)
  PROVE  ChainInv'
  <1> SUFFICES ASSUME NEW b, b = currentBlock[n] PROVE ChainInv'
    OBVIOUS
  <1>0. LeaderInv /\ ValidatorInv(n) /\ MessageInv(m) /\ b # NoBlock
    BY DEF ChainInv, OnPrecommitMsg
  <1>1. /\ n \in Node /\ n # Leader /\ b \in Block /\ m.block \in Block
        /\ currentBlock[Leader] # NoBlock /\ Linked(m.block)
        /\ m.block.height <= currentBlock[Leader].height
        /\ phase[n] \in Phase
    BY <1>0, LeaderNode DEF MessageInv
  <1>2. /\ blockDB' = blockDB /\ latestBlock' = latestBlock /\ created' = created
        /\ latestCommittedBlockHash' = latestCommittedBlockHash
        /\ prepareBitmap' = prepareBitmap /\ precommitBitmap' = precommitBitmap
        /\ commitBitmap' = commitBitmap /\ checking' = checking
        /\ currentBlock' = currentBlock
    BY DEF OnPrecommitMsg, chainVars
  <1>3. ChainExtends
    BY <1>2, SameChain
  <1>4. /\ Linked(b) /\ phase[n].height = b.height /\ phase[n].bftPhase \in 1 .. 3
    BY <1>0, ValidatorFacts DEF ValidatorInv
  <1>5. m.block.height = b.height
    <2>1. m.block.hash = b.hash
      BY DEF OnPrecommitMsg, Certified
    <2> QED BY <1>1, <1>4, <2>1, BlockFields DEF Linked
  <1>6. IsNew(phase[n], At(b.height, BFT_PRECOMMIT))
    BY <1>5 DEF OnPrecommitMsg, InOrder
  <1>7. phase[n].bftPhase # BFT_COMMIT
    BY <1>1, <1>4, <1>6, BlockFields, AtFields DEF IsNew, BFT_PRECOMMIT, BFT_COMMIT
  <1>8. /\ phase'[n] = At(b.height, BFT_PRECOMMIT)
        /\ \A k \in Node : k # n => phase'[k] = phase[k]
    BY <1>1, <1>6, SwitchNew DEF OnPrecommitMsg, TypeOK
  <1>9. /\ net \subseteq net'
        /\ \A v \in net' : v \in net \/ MessageInv(v)'
        /\ \A g \in gossip' : g \in gossip \/ GoroutineInv(g)'
    BY <1>1, <1>2, VoteSent DEF OnPrecommitMsg, VoteTypes
  <1>10. ValidatorInv(n)'
    <2>1. \A k, h : Committed(k, h)' <=> Committed(k, h)
      BY <1>2 DEF Committed
    <2>2. IsProposal(Unsigned(currentBlock[n]))'
      <3>1. \A h : LeaderBlock(h)' = LeaderBlock(h)
        BY <1>2, <2>1 DEF LeaderBlock
      <3> QED BY <1>0, <1>2, <3>1 DEF ValidatorInv, IsProposal
    <2>3. phase'[n].height = b.height /\ phase'[n].bftPhase = BFT_PRECOMMIT
      BY <1>8, AtFields
    <2>4. CommittedUpToCurrent(n)'
      BY <1>0, <1>2, <1>7, <2>1, <2>3
      DEF ValidatorInv, CommittedUpToCurrent, BFT_PRECOMMIT, BFT_COMMIT
    <2>5. checking[n] = NoMessage
      BY DEF OnPrecommitMsg, Ready
    <2> QED BY <1>0, <1>2, <1>7, <2>1, <2>2, <2>3, <2>4, <2>5
            DEF ValidatorInv, BFT_PRECOMMIT, BFT_COMMIT, BFT_INIT
  <1> QED BY <1>1, <1>2, <1>3, <1>8, <1>9, <1>10, ValidatorStep

LEMMA OnCommitMsgInv ==
  ASSUME TypeOK, TypeOK', ChainInv, NEW n \in Validator, NEW m \in net,
         OnCommitMsg(n, m)
  PROVE  ChainInv' /\ ChainExtends
  <1> SUFFICES ASSUME NEW b, b = currentBlock[n],
                      NEW signed, signed = [b EXCEPT !.sign = m.bitmap]
               PROVE  ChainInv' /\ ChainExtends
    OBVIOUS
  <1>0. LeaderInv /\ ValidatorInv(n) /\ MessageInv(m) /\ b # NoBlock
    BY DEF ChainInv, OnCommitMsg
  <1>1. /\ n \in Node /\ n # Leader /\ b \in Block /\ m.block \in Block
        /\ currentBlock[Leader] # NoBlock /\ Linked(m.block)
        /\ m.block.height <= currentBlock[Leader].height
        /\ phase[n] \in Phase /\ m.bitmap \in SUBSET Node /\ Leader \in Node
    BY <1>0, LeaderNode DEF MessageInv, Message
  <1>2. /\ Linked(b) /\ phase[n].height = b.height /\ phase[n].bftPhase \in 1 .. 3
        /\ IsProposal(Unsigned(b))
    BY <1>0, ValidatorFacts DEF ValidatorInv
  <1>3. m.block.height = b.height /\ b.height \in Heights /\ b.height \in Nat
    <2>1. m.block.hash = b.hash
      BY DEF OnCommitMsg, Certified
    <2> QED BY <1>1, <1>2, <2>1, BlockFields DEF Linked
  <1>4. IsNew(phase[n], At(b.height, BFT_COMMIT))
    BY <1>3 DEF OnCommitMsg, InOrder
  <1>5. phase[n].bftPhase # BFT_COMMIT
    BY <1>1, <1>2, <1>4, BlockFields, AtFields DEF IsNew, BFT_COMMIT
  <1>6. signed = blockDB[Leader][b.height] /\ Committed(Leader, b.height)
    <2>1. /\ Committed(Leader, b.height)
          /\ m.bitmap = blockDB[Leader][b.height].sign
      BY <1>0, <1>3 DEF MessageInv, OnCommitMsg
    <2>2. Unsigned(b) = Unsigned(blockDB[Leader][b.height])
      BY <1>1, <1>2, <2>1, UnsignedBlock DEF IsProposal, LeaderBlock
    <2>3. blockDB[Leader][b.height] \in Block
      BY <1>3, LeaderNode
    <2> QED BY <1>1, <2>1, <2>2, <2>3, SameSigned
  <1>7. /\ signed \in Block /\ signed.height = b.height /\ signed.hash = b.hash
        /\ Unsigned(signed) = Unsigned(b) /\ signed # NoBlock
    <2>1. Linked(signed) /\ signed \in Block
      BY <1>1, <1>2, SignedBlock
    <2> QED BY <1>1, <2>1, SignedBlock, LinkedBlock
  <1>8. /\ latestBlock' = [latestBlock EXCEPT ![n] = signed]
        /\ blockDB' = [blockDB EXCEPT ![n][b.height] = signed]
        /\ created' = created
    BY <1>7 DEF OnCommitMsg, Commit
  <1>9. /\ prepareBitmap' = prepareBitmap /\ precommitBitmap' = precommitBitmap
        /\ commitBitmap' = commitBitmap /\ checking' = checking
        /\ currentBlock' = [currentBlock EXCEPT ![n] = signed]
        /\ latestCommittedBlockHash' = [latestCommittedBlockHash EXCEPT ![n] = b.hash]
        /\ phase' = [phase EXCEPT ![n] = At(b.height, BFT_COMMIT)]
    BY <1>1, <1>4, SwitchNew DEF OnCommitMsg
  <1>10. /\ currentBlock'[n] = signed /\ phase'[n] = At(b.height, BFT_COMMIT)
         /\ latestCommittedBlockHash'[n] = b.hash
         /\ \A k \in Node : k # n =>
              /\ phase'[k] = phase[k] /\ currentBlock'[k] = currentBlock[k]
              /\ latestCommittedBlockHash'[k] = latestCommittedBlockHash[k]
              /\ blockDB'[k] = blockDB[k] /\ latestBlock'[k] = latestBlock[k]
    BY <1>1, <1>8, <1>9 DEF TypeOK, ChainTypeOK
  <1>11. /\ blockDB'[n][b.height] = signed
         /\ \A h \in Heights : h # b.height => blockDB'[n][h] = blockDB[n][h]
    BY <1>1, <1>3, <1>8 DEF TypeOK, ChainTypeOK
  <1>12. /\ \A k \in Node, h \in Heights : k # n => (Committed(k, h)' <=> Committed(k, h))
         /\ Committed(n, b.height)' /\ ~Committed(n, b.height)
         /\ \A h \in Heights : h # b.height => (Committed(n, h)' <=> Committed(n, h))
    <2>1. ~Committed(n, b.height)
      BY <1>0, <1>3, <1>5 DEF ValidatorInv, CommittedUpToCurrent
    <2> QED BY <1>7, <1>10, <1>11, <2>1 DEF Committed
  <1>13. ChainExtends
    <2>1. \A h \in Heights : LeaderBlock(h)' = LeaderBlock(h)
      BY <1>1, <1>10, <1>12 DEF LeaderBlock
    <2>2. \A c \in Block : IsProposal(c) => IsProposal(c)'
      BY <1>1, <1>10, <2>1, BlockFields DEF IsProposal
    <2>3. currentBlock[Leader].height \in Nat
      BY LeaderNode, BlockFields
    <2>4. \A k \in Node, h \in Heights :
            Committed(k, h) => Committed(k, h)' /\ blockDB'[k][h] = blockDB[k][h]
      BY <1>10, <1>11, <1>12
    <2> QED BY <1>1, <1>10, <2>2, <2>3, <2>4 DEF ChainExtends
  <1>14. /\ net \subseteq net'
         /\ \A v \in net' : v \in net \/ MessageInv(v)'
         /\ \A g \in gossip' : g \in gossip \/ GoroutineInv(g)'
    <2>1. StartGossip("COMMITVOTE", HeaderOnly(m.block),
                      Sign(BFT_COMMIT, b.hash, n), n, {n})
      BY DEF OnCommitMsg
    <2> QED BY <1>1, <1>3, <1>10, <1>12, <2>1, VoteSent DEF VoteTypes
  <1>15. ValidatorInv(n)'
    <2>1. IsProposal(Unsigned(currentBlock[n]))'
      BY <1>1, <1>2, <1>7, <1>10, <1>13, UnsignedBlock DEF ChainExtends
    <2>2. phase'[n].height = b.height /\ phase'[n].bftPhase = BFT_COMMIT
      BY <1>10, AtFields
    <2>3. CommittedUpToCurrent(n)'
      <3>1. \A h \in Heights : Committed(n, h) <=> h < b.height
        BY <1>0, <1>5 DEF ValidatorInv, CommittedUpToCurrent
      <3> QED BY <1>3, <1>7, <1>10, <1>12, <2>2, <3>1, HeightsNat
              DEF CommittedUpToCurrent
    <2>4. \A h \in Heights : Committed(n, h)' =>
            Committed(Leader, h)' /\ blockDB'[n][h] = blockDB'[Leader][h]
      BY <1>0, <1>1, <1>6, <1>10, <1>11, <1>12 DEF ValidatorInv
    <2>5. checking[n] = NoMessage
      BY DEF OnCommitMsg, Ready
    <2> QED BY <1>7, <1>9, <1>10, <2>1, <2>2, <2>3, <2>4, <2>5
            DEF ValidatorInv, BFT_COMMIT, BFT_INIT
  <1> QED BY <1>1, <1>8, <1>9, <1>10, <1>13, <1>14, <1>15, ValidatorStep

-----------------------------------------------------------------------------
(* Steps that change no node's chain.                                      *)

LEMMA QuietStep ==
  ASSUME TypeOK, TypeOK', ChainInv,
         UNCHANGED <<latestBlock, blockDB, created, phase, currentBlock,
                     latestCommittedBlockHash, prepareBitmap, precommitBitmap,
                     commitBitmap, checking, gossip>>,
         net \subseteq net', \A m \in net' : m \in net \/ MessageInv(m)'
  PROVE  ChainInv'
  <1>1. ChainExtends
    BY SameChain
  <1>2. ASSUME NEW m \in net' PROVE MessageInv(m)'
    BY <1>1, MessageStable DEF ChainInv
  <1>3. LeaderInv'
    <2>1. currentBlock[Leader] = NoBlock => net' = {}
      BY <1>2 DEF MessageInv
    <2>2. \A h : Committed(Leader, h)' <=> Committed(Leader, h)
      BY DEF Committed
    <2> QED BY <2>1, <2>2 DEF ChainInv, LeaderInv, Idle, CommittedUpToCurrent
  <1>4. ASSUME NEW n \in Validator PROVE ValidatorInv(n)'
    BY <1>1, ValidatorStable DEF ChainInv
  <1>5. ASSUME NEW g \in gossip' PROVE GoroutineInv(g)'
    BY <1>1, GoroutineStable DEF ChainInv
  <1>6. CommitCountInv'
    BY <1>1, CommitCountStable DEF ChainInv
  <1> QED BY <1>2, <1>3, <1>4, <1>5, <1>6 DEF ChainInv

LEMMA TryGossipInv ==
  ASSUME TypeOK, TypeOK', ChainInv, NEW g \in gossip, TryGossip(g)
  PROVE  ChainInv'
  <1> SUFFICES ASSUME NEW m, m = Marshal(g) PROVE ChainInv'
    OBVIOUS
  <1>1. /\ net' = net \cup {m} /\ m \notin net
        /\ UNCHANGED <<latestBlock, blockDB, created, phase, currentBlock,
                       latestCommittedBlockHash, prepareBitmap, precommitBitmap,
                       commitBitmap, checking, gossip>>
    BY DEF TryGossip, chainVars
  <1>2. g \in Goroutine /\ g.block \in Block /\ GoroutineInv(g) /\ LeaderInv
    BY LeaderNode DEF ChainInv
  <1>3. g.type = "PREPARE" /\ IsProposal(g.block) /\ Linked(g.block)
    BY <1>1, <1>2 DEF GoroutineInv
  <1>4. m.type = "PREPARE" /\ m.block = g.block
    BY <1>3 DEF Marshal
  <1>5. IsProposal(g.block)'
    BY <1>1, <1>2, <1>3, SameChain DEF ChainExtends
  <1>6. MessageInv(m)'
    BY <1>1, <1>3, <1>4, <1>5 DEF MessageInv, IsProposal, VoteTypes
  <1> QED BY <1>1, <1>6, QuietStep

-----------------------------------------------------------------------------
(* The leader's actions.                                                   *)

\* A step of the leader preserves the invariant if it does so for the leader
\* and for what the leader sends, and leaves the bitmaps of running PRECOMMIT
\* and COMMIT goroutines alone.
LEMMA LeaderStep ==
  ASSUME TypeOK, TypeOK', ChainInv, ChainExtends,
         \A n \in Validator :
            /\ phase'[n] = phase[n] /\ currentBlock'[n] = currentBlock[n]
            /\ latestCommittedBlockHash'[n] = latestCommittedBlockHash[n]
            /\ blockDB'[n] = blockDB[n] /\ checking'[n] = checking[n],
         net \subseteq net', \A m \in net' : m \in net \/ MessageInv(m)',
         \A g \in gossip' : g \in gossip \/ GoroutineInv(g)',
         \A g \in gossip :
            /\ g.type = "PRECOMMIT" =>
                 prepareBitmap'[g.block.height] = prepareBitmap[g.block.height]
            /\ g.type = "COMMIT" =>
                 precommitBitmap'[g.block.height] = precommitBitmap[g.block.height],
         LeaderInv', CommitCountInv'
  PROVE  ChainInv'
  <1>1. ASSUME NEW n \in Validator PROVE ValidatorInv(n)'
    BY ValidatorStable DEF ChainInv
  <1>2. ASSUME NEW m \in net' PROVE MessageInv(m)'
    BY MessageStable DEF ChainInv
  <1>3. ASSUME NEW g \in gossip' PROVE GoroutineInv(g)'
    BY GoroutineStable DEF ChainInv
  <1> QED BY <1>1, <1>2, <1>3 DEF ChainInv

\* Where goroutines of the leader can be: only at heights it has reached, and
\* a COMMIT's only at a height it has committed.
LEMMA GoroutineHeight ==
  ASSUME TypeOK, ChainInv, NEW g \in gossip
  PROVE  /\ currentBlock[Leader] # NoBlock
         /\ g.block.height \in Heights /\ g.block.height \in Nat
         /\ g.block.height <= currentBlock[Leader].height
         /\ g.type = "COMMIT" => Committed(Leader, g.block.height)
  <1>1. g \in Goroutine /\ g.block \in Block /\ GoroutineInv(g)
    BY LeaderNode DEF ChainInv
  <1>2. CASE g.type = "PREPARE"
    BY <1>1, <1>2, BlockFields DEF GoroutineInv, IsProposal
  <1>3. CASE g.type # "PREPARE"
    <2>1. Marshal(g) \in net
      BY <1>1, <1>3 DEF GoroutineInv
    <2>2. MessageInv(Marshal(g))
      BY <2>1 DEF ChainInv
    <2>3. Marshal(g).block = g.block /\ Marshal(g).type = g.type
      BY DEF Marshal
    <2> QED BY <1>1, <2>2, <2>3, BlockFields DEF MessageInv
  <1> QED BY <1>2, <1>3

\* The leader proposes block b, its chain being empty or fully committed.
LEMMA PrepareInv ==
  ASSUME TypeOK, TypeOK', ChainInv, NEW b \in NewBlocks, Prepare(b),
         currentBlock[Leader] = NoBlock \/ phase[Leader].bftPhase = BFT_COMMIT,
         UNCHANGED <<latestCommittedBlockHash, precommitBitmap, checking>>,
         \A h \in Heights :
            /\ \A n \in commitBitmap'[h] : Committed(n, h)
            /\ h < b.height => Enough(commitBitmap'[h])
  PROVE  ChainInv' /\ ChainExtends
  <1> SUFFICES ASSUME NEW c, c = currentBlock[Leader] PROVE ChainInv' /\ ChainExtends
    OBVIOUS
  <1>0. LeaderInv /\ Leader \in Node /\ c \in Block /\ phase[Leader] \in Phase
    BY LeaderNode DEF ChainInv
  <1>1. b \in Block
    BY NewBlockType DEF Prepare, CreateNewBlock
  <1>2. /\ b.height \in Heights /\ b.height \in Nat
        /\ c.height \in Heights /\ c.height \in Nat
    BY <1>0, <1>1, BlockFields
  <1>3. /\ b.sign = {} /\ Linked(b) /\ created + 1 = b.height + 1
        /\ c = NoBlock => b.height = 0
        /\ c # NoBlock => b.height = c.height + 1
    <2>1. CASE c = NoBlock
      <3>1. created = 0 /\ latestBlock[Leader] = NoBlock
        BY <1>0, <2>1 DEF LeaderInv
      <3>2. b = Genesis
        BY <3>1 DEF NewBlocks
      <3> QED BY <2>1, <3>1, <3>2 DEF Genesis, Linked
    <2>2. CASE c # NoBlock
      <3>1. created = c.height + 1 /\ latestBlock[Leader] = c /\ Linked(c)
        BY <1>0, <2>2 DEF LeaderInv
      <3>2. PICK root : b = Successor(root)
        BY <2>2, <3>1 DEF NewBlocks
      <3>3. b.height = c.height + 1 /\ b.hash = created + 1 /\ b.prev = c.hash /\ b.sign = {}
        BY <3>1, <3>2 DEF Successor
      <3> QED BY <1>2, <2>2, <3>1, <3>3 DEF Linked
    <2> QED BY <2>1, <2>2
  <1>4. /\ blockDB' = blockDB
        /\ latestBlock' = [latestBlock EXCEPT ![Leader] = b]
        /\ created' = created + 1
        /\ currentBlock' = [currentBlock EXCEPT ![Leader] = b]
        /\ prepareBitmap' = [prepareBitmap EXCEPT ![b.height] = {Leader}]
        /\ phase' = [phase EXCEPT ![Leader] = Switch(phase[Leader], At(b.height, BFT_PREPARE))]
        /\ StartGossip("PREPARE", b, Sign(BFT_PREPARE, b.hash, Leader), Leader, {Leader})
    BY DEF Prepare, CreateNewBlock
  <1>5. IsNew(phase[Leader], At(b.height, BFT_PREPARE))
    <2>1. CASE c = NoBlock
      BY <1>0, <1>3, <2>1, AtFields DEF LeaderInv, Idle, IsNew, BFT_INIT, BFT_PREPARE
    <2>2. CASE c # NoBlock
      <3>1. phase[Leader].height = c.height
        BY <1>0, <2>2 DEF LeaderInv
      <3> QED BY <1>2, <1>3, <2>2, <3>1, AtFields DEF IsNew
    <2> QED BY <2>1, <2>2
  <1>6. /\ currentBlock'[Leader] = b /\ latestBlock'[Leader] = b
        /\ phase'[Leader] = At(b.height, BFT_PREPARE)
        /\ \A n \in Validator : phase'[n] = phase[n] /\ currentBlock'[n] = currentBlock[n]
    BY <1>0, <1>4, <1>5, SwitchNew, LeaderNode DEF TypeOK, ChainTypeOK
  <1>7. phase'[Leader].height = b.height /\ phase'[Leader].bftPhase = BFT_PREPARE
    BY <1>6, AtFields
  <1>8. \A n, h : Committed(n, h)' <=> Committed(n, h)
    BY <1>4 DEF Committed
  <1>9. \A h \in Heights : Committed(Leader, h) <=> h < b.height
    <2>1. CASE c = NoBlock
      BY <1>0, <1>3, <2>1, HeightsNat DEF LeaderInv, Idle
    <2>2. CASE c # NoBlock
      <3>1. CommittedUpToCurrent(Leader) /\ phase[Leader].bftPhase = BFT_COMMIT
        BY <1>0, <2>2 DEF LeaderInv
      <3>2. \A h \in Heights : Committed(Leader, h) <=> h < c.height \/ h = c.height
        BY <3>1 DEF CommittedUpToCurrent
      <3>3. b.height = c.height + 1
        BY <1>3, <2>2
      <3>4. ASSUME NEW h \in Heights PROVE (h < c.height \/ h = c.height) <=> h < b.height
        BY <1>2, <3>3, HeightsNat
      <3> QED BY <3>2, <3>4
    <2> QED BY <2>1, <2>2
  <1>10. b # NoBlock
    BY <1>1, <1>3, LinkedBlock
  <1>11. ChainExtends
    <2>1. ASSUME NEW d \in Block, IsProposal(d) PROVE IsProposal(d)'
      <3>1. c # NoBlock /\ d.height <= c.height /\ d = LeaderBlock(d.height)
        BY <2>1 DEF IsProposal
      <3>2. d.height \in Heights /\ d.height \in Nat
        BY BlockFields
      <3>3. d.height < b.height
        BY <1>2, <1>3, <3>1, <3>2
      <3>4. Committed(Leader, d.height)
        BY <1>9, <3>2, <3>3
      <3>5. LeaderBlock(d.height)' = LeaderBlock(d.height)
        BY <1>4, <1>8, <3>4 DEF LeaderBlock
      <3> QED BY <1>2, <1>6, <1>10, <3>1, <3>2, <3>3, <3>5 DEF IsProposal
    <2> QED BY <1>2, <1>3, <1>4, <1>6, <1>8, <1>10, <2>1 DEF ChainExtends
  <1>12. LeaderInv'
    <2>1. CommittedUpToCurrent(Leader)'
      BY <1>6, <1>7, <1>8, <1>9 DEF CommittedUpToCurrent, BFT_PREPARE, BFT_COMMIT
    <2>2. \A h \in Heights : Committed(Leader, h)' =>
            blockDB'[Leader][h].height = h /\ Linked(blockDB'[Leader][h])
      BY <1>0, <1>4, <1>8 DEF LeaderInv
    <2> QED BY <1>3, <1>4, <1>6, <1>7, <1>10, <2>1, <2>2
            DEF LeaderInv, BFT_PREPARE, BFT_INIT, BFT_COMMIT
  <1>13. CommitCountInv'
    BY <1>6, <1>8 DEF CommitCountInv, Enough
  <1> DEFINE m == [type |-> "PREPARE", block |-> b,
                   sig |-> Sign(BFT_PREPARE, b.hash, Leader), bitmap |-> {Leader}]
             g == [type |-> "PREPARE", block |-> b,
                   sig |-> Sign(BFT_PREPARE, b.hash, Leader), from |-> Leader]
  <1>14. net' = net \cup {m} /\ gossip' = gossip \cup {g}
    BY <1>4 DEF StartGossip
  <1>15. IsProposal(b)'
    BY <1>2, <1>6, <1>8, <1>9, <1>10 DEF IsProposal, LeaderBlock
  <1>16. MessageInv(m)'
    BY <1>2, <1>3, <1>6, <1>10, <1>15 DEF MessageInv, VoteTypes
  <1>17. GoroutineInv(g)'
    BY <1>3, <1>15 DEF GoroutineInv
  <1>18. ASSUME NEW r \in gossip, r.type = "PRECOMMIT"
         PROVE  prepareBitmap'[r.block.height] = prepareBitmap[r.block.height]
    <2>1. c # NoBlock /\ r.block.height \in Heights /\ r.block.height <= c.height
      BY GoroutineHeight
    <2> QED BY <1>2, <1>3, <1>4, <2>1, HeightsNat DEF TypeOK
  <1> HIDE DEF m, g
  <1>19. /\ net \subseteq net' /\ \A v \in net' : v \in net \/ MessageInv(v)'
         /\ \A r \in gossip' : r \in gossip \/ GoroutineInv(r)'
    BY <1>14, <1>16, <1>17
  <1> QED BY <1>4, <1>6, <1>11, <1>12, <1>13, <1>18, <1>19, LeaderStep

\* The bitmap of a round that is still collecting votes belongs to no
\* PRECOMMIT goroutine, and none of a height that is not yet committed
\* belongs to a COMMIT goroutine.
LEMMA CollectingBitmaps ==
  ASSUME TypeOK, ChainInv, NEW r \in gossip, NEW h
  PROVE  /\ r.type = "PRECOMMIT" /\ ~Enough(prepareBitmap[h]) => r.block.height # h
         /\ r.type = "COMMIT" /\ ~Enough(precommitBitmap[h]) => r.block.height # h
         /\ r.type = "COMMIT" /\ ~Committed(Leader, h) => r.block.height # h
  <1>1. GoroutineInv(r)
    BY DEF ChainInv
  <1>2. r.type = "COMMIT" => Committed(Leader, r.block.height)
    BY GoroutineHeight
  <1> QED BY <1>1, <1>2 DEF GoroutineInv

LEMMA OnPrepareVoteMsgInv ==
  ASSUME TypeOK, TypeOK', ChainInv, NEW m \in net, OnPrepareVoteMsg(m)
  PROVE  ChainInv'
  <1> SUFFICES ASSUME NEW c, c = currentBlock[Leader], NEW h, h = c.height,
                      NEW bitmap, bitmap = prepareBitmap[h] \cup m.bitmap
               PROVE  ChainInv'
    OBVIOUS
  <1>0. LeaderInv /\ MessageInv(m) /\ CommitCountInv
    BY DEF ChainInv
  <1>1. /\ Leader \in Node /\ c \in Block /\ h \in Heights /\ h \in Nat
        /\ phase[Leader] \in Phase /\ phase[Leader].bftPhase \in 0 .. 3
    BY LeaderNode, BlockFields
  <1>2. AcceptVote(m, BFT_PREPARE, prepareBitmap[h])
    BY DEF OnPrepareVoteMsg
  <1>3. /\ c # NoBlock /\ ~Enough(prepareBitmap[h])
        /\ ~(phase[Leader].bftPhase > BFT_PREPARE)
    BY <1>0, <1>2, VoteHeight
  <1>4. phase[Leader].height = h /\ phase[Leader].bftPhase = BFT_PREPARE
    BY <1>0, <1>1, <1>3 DEF LeaderInv, BFT_PREPARE, BFT_INIT
  <1>5. IsProposal(c) /\ ~Committed(Leader, h) /\ Linked(c)
    BY <1>0, <1>3, <1>4, CurrentIsProposal DEF LeaderInv, BFT_PREPARE, BFT_COMMIT
  <1>6. /\ prepareBitmap' = [prepareBitmap EXCEPT ![h] = bitmap]
        /\ UNCHANGED <<latestBlock, blockDB, created, currentBlock,
                       latestCommittedBlockHash, commitBitmap, checking>>
    BY DEF OnPrepareVoteMsg, chainVars
  <1>7. ChainExtends
    BY <1>6, SameChain
  <1>8. \A r \in gossip : r.type = "PRECOMMIT" =>
          prepareBitmap'[r.block.height] = prepareBitmap[r.block.height]
    BY <1>1, <1>3, <1>6, CollectingBitmaps, GoroutineHeight DEF TypeOK
  <1>9. CommitCountInv'
    BY <1>0, <1>6, <1>7, CommitCountStable
  <1>10. CASE Enough(bitmap)
    <2> SUFFICES ASSUME NEW sig, Precommit(sig, bitmap) PROVE ChainInv'
      BY <1>10 DEF OnPrepareVoteMsg
    <2>1. /\ phase' = [phase EXCEPT ![Leader] = Switch(phase[Leader], At(h, BFT_PRECOMMIT))]
          /\ StartGossip("PRECOMMIT", c, sig, Leader, bitmap)
          /\ precommitBitmap' = [precommitBitmap EXCEPT ![h] = {Leader}]
      BY DEF Precommit
    <2>2. IsNew(phase[Leader], At(h, BFT_PRECOMMIT))
      BY <1>4, AtFields DEF IsNew, BFT_PREPARE, BFT_PRECOMMIT
    <2>3. /\ phase'[Leader] = At(h, BFT_PRECOMMIT)
          /\ \A n \in Validator : phase'[n] = phase[n]
      BY <1>1, <2>1, <2>2, SwitchNew, LeaderNode DEF TypeOK
    <2>4. phase'[Leader].height = h /\ phase'[Leader].bftPhase = BFT_PRECOMMIT
      BY <2>3, AtFields
    <2>5. LeaderInv'
      <3>1. \A k : Committed(Leader, k)' <=> Committed(Leader, k)
        BY <1>6 DEF Committed
      <3>2. CommittedUpToCurrent(Leader)'
        BY <1>0, <1>3, <1>4, <1>6, <2>4, <3>1
        DEF LeaderInv, CommittedUpToCurrent, BFT_PREPARE, BFT_PRECOMMIT, BFT_COMMIT
      <3> QED BY <1>0, <1>3, <1>4, <1>6, <2>4, <3>1, <3>2
              DEF LeaderInv, BFT_INIT, BFT_PREPARE, BFT_PRECOMMIT, BFT_COMMIT
    <2> DEFINE v == [type |-> "PRECOMMIT", block |-> c, sig |-> sig, bitmap |-> bitmap]
               g == [type |-> "PRECOMMIT", block |-> c, sig |-> sig, from |-> Leader]
    <2>6. net' = net \cup {v} /\ gossip' = gossip \cup {g}
      BY <2>1 DEF StartGossip
    <2>7. IsProposal(c)'
      BY <1>1, <1>5, <1>7 DEF ChainExtends
    <2>8. MessageInv(v)'
      BY <1>1, <1>3, <1>5, <1>6, <2>7 DEF MessageInv, VoteTypes
    <2>9. prepareBitmap'[h] = bitmap
      BY <1>1, <1>6 DEF TypeOK
    <2>10. GoroutineInv(g)'
      <3>1. Marshal(g)' = v
        BY <2>9 DEF Marshal, VoteTypes
      <3> QED BY <1>10, <2>6, <2>9, <3>1 DEF GoroutineInv, Enough
    <2>11. \A r \in gossip : r.type = "COMMIT" =>
             precommitBitmap'[r.block.height] = precommitBitmap[r.block.height]
      BY <1>1, <1>5, <2>1, CollectingBitmaps, GoroutineHeight DEF TypeOK
    <2> HIDE DEF v, g
    <2>12. /\ net \subseteq net' /\ \A u \in net' : u \in net \/ MessageInv(u)'
           /\ \A r \in gossip' : r \in gossip \/ GoroutineInv(r)'
      BY <2>6, <2>8, <2>10
    <2> QED BY <1>6, <1>7, <1>8, <1>9, <2>3, <2>5, <2>11, <2>12, LeaderStep
  <1>11. CASE ~Enough(bitmap)
    <2>1. UNCHANGED <<phase, gossip, net, precommitBitmap>>
      BY <1>11 DEF OnPrepareVoteMsg
    <2>2. LeaderInv'
      BY <1>0, <1>3, <1>6, <2>1, LeaderStable
    <2> QED BY <1>6, <1>7, <1>8, <1>9, <2>1, <2>2, LeaderStep
  <1> QED BY <1>10, <1>11

\* The precommit vote that completes the quorum: the leader commits its block.
LEMMA LeaderCommitInv ==
  ASSUME TypeOK, TypeOK', ChainInv, currentBlock[Leader] # NoBlock,
         phase[Leader].bftPhase # BFT_COMMIT, NEW sig, NEW bitmap \in SUBSET Node,
         LeaderCommit(sig, bitmap), Enough(bitmap),
         ~Enough(precommitBitmap[currentBlock[Leader].height]),
         precommitBitmap' = [precommitBitmap EXCEPT ![currentBlock[Leader].height] = bitmap],
         UNCHANGED <<prepareBitmap, checking>>
  PROVE  ChainInv' /\ ChainExtends
  <1> SUFFICES ASSUME NEW c, c = currentBlock[Leader], NEW h, h = c.height,
                      NEW signed, signed = [c EXCEPT !.sign = bitmap]
               PROVE  ChainInv' /\ ChainExtends
    OBVIOUS
  <1>0. LeaderInv /\ CommitCountInv
    BY DEF ChainInv
  <1>1. /\ Leader \in Node /\ c \in Block /\ h \in Heights /\ h \in Nat
        /\ phase[Leader] \in Phase /\ phase[Leader].bftPhase \in 0 .. 3
    BY LeaderNode, BlockFields
  <1>2. /\ IsProposal(c) /\ ~Committed(Leader, h) /\ Linked(c) /\ c # NoBlock
        /\ c.sign = {} /\ phase[Leader].height = h
        /\ created = h + 1
        /\ \A k \in Heights : Committed(Leader, k) <=> k < h
    BY <1>0, CurrentIsProposal DEF LeaderInv, CommittedUpToCurrent
  <1>3. /\ signed \in Block /\ signed.height = h /\ signed.hash = c.hash
        /\ Unsigned(signed) = c /\ signed # NoBlock /\ Linked(signed)
        /\ signed.sign = bitmap
    <2>1. Linked(signed) /\ signed \in Block /\ signed.height = h
          /\ signed.hash = c.hash /\ Unsigned(signed) = Unsigned(c)
          /\ signed.sign = bitmap
      <3>1. bitmap \in SUBSET Node /\ signed = [c EXCEPT !.sign = bitmap]
        OBVIOUS
      <3>2. /\ signed \in Block /\ signed.height = c.height /\ signed.hash = c.hash
            /\ signed.sign = bitmap /\ Unsigned(signed) = Unsigned(c)
            /\ Linked(signed) <=> Linked(c)
        BY ONLY <1>1, <3>1, SignedBlock
      <3> QED BY <1>2, <3>2
    <2>2. Unsigned(c) = c
      BY <1>1, <1>2, UnsignedBlock
    <2>3. signed # NoBlock
      BY <2>1, LinkedBlock
    <2> QED BY <2>1, <2>2, <2>3
  <1>4. /\ phase' = [phase EXCEPT ![Leader] = Switch(phase[Leader], At(h, BFT_COMMIT))]
        /\ StartGossip("COMMIT", c, sig, Leader, bitmap)
        /\ commitBitmap' = [commitBitmap EXCEPT ![h] = {Leader}]
        /\ currentBlock' = [currentBlock EXCEPT ![Leader] = signed]
        /\ latestBlock' = [latestBlock EXCEPT ![Leader] = signed]
        /\ blockDB' = [blockDB EXCEPT ![Leader][h] = signed]
        /\ created' = created
        /\ latestCommittedBlockHash' =
             [latestCommittedBlockHash EXCEPT ![Leader] = c.hash]
    BY <1>3 DEF LeaderCommit, Commit
  <1>5. IsNew(phase[Leader], At(h, BFT_COMMIT))
    BY <1>1, <1>2, AtFields DEF IsNew, BFT_COMMIT
  <1>6. /\ phase'[Leader] = At(h, BFT_COMMIT)
        /\ currentBlock'[Leader] = signed /\ latestBlock'[Leader] = signed
        /\ \A n \in Validator :
             /\ phase'[n] = phase[n] /\ currentBlock'[n] = currentBlock[n]
             /\ latestCommittedBlockHash'[n] = latestCommittedBlockHash[n]
             /\ blockDB'[n] = blockDB[n]
    BY <1>1, <1>4, <1>5, SwitchNew, LeaderNode DEF TypeOK, ChainTypeOK
  <1>7. phase'[Leader].height = h /\ phase'[Leader].bftPhase = BFT_COMMIT
    BY <1>6, AtFields
  <1>8. /\ blockDB'[Leader][h] = signed
        /\ \A k \in Heights : k # h => blockDB'[Leader][k] = blockDB[Leader][k]
    BY <1>1, <1>4 DEF TypeOK, ChainTypeOK
  <1>9. /\ Committed(Leader, h)'
        /\ \A k \in Heights : k # h => (Committed(Leader, k)' <=> Committed(Leader, k))
        /\ \A n \in Validator, k \in Heights : Committed(n, k)' <=> Committed(n, k)
    BY <1>3, <1>6, <1>8 DEF Committed
  <1>10. ChainExtends
    <2>1. \A k \in Heights : k <= h => LeaderBlock(k)' = LeaderBlock(k)
      <3>1. LeaderBlock(h)' = LeaderBlock(h)
        BY <1>2, <1>3, <1>8, <1>9 DEF LeaderBlock
      <3>2. ASSUME NEW k \in Heights, k <= h, k # h PROVE LeaderBlock(k)' = LeaderBlock(k)
        <4>1. Committed(Leader, k)
          BY <1>1, <1>2, <3>2, HeightsNat
        <4> QED BY <1>8, <1>9, <3>2, <4>1 DEF LeaderBlock
      <3> QED BY <3>1, <3>2
    <2>2. \A d \in Block : IsProposal(d) => IsProposal(d)'
      BY <1>3, <1>6, <2>1, BlockFields DEF IsProposal
    <2>3. \A n \in Node, k \in Heights :
            Committed(n, k) => Committed(n, k)' /\ blockDB'[n][k] = blockDB[n][k]
      BY <1>2, <1>6, <1>8, <1>9, LeaderNode
    <2> QED BY <1>1, <1>3, <1>6, <2>2, <2>3 DEF ChainExtends
  <1>11. LeaderInv'
    <2>1. CommittedUpToCurrent(Leader)'
      <3>1. \A k \in Heights : Committed(Leader, k)' <=> k < h \/ k = h
        BY <1>1, <1>2, <1>9
      <3> QED BY <1>3, <1>6, <1>7, <3>1 DEF CommittedUpToCurrent
    <2>2. \A k \in Heights : Committed(Leader, k)' =>
            blockDB'[Leader][k].height = k /\ Linked(blockDB'[Leader][k])
      BY <1>0, <1>3, <1>8, <1>9 DEF LeaderInv
    <2> QED BY <1>2, <1>3, <1>4, <1>6, <1>7, <1>8, <2>1, <2>2
            DEF LeaderInv, BFT_COMMIT, BFT_INIT
  <1>12. CommitCountInv'
    <2>1. /\ commitBitmap'[h] = {Leader}
          /\ \A k \in Heights : k # h => commitBitmap'[k] = commitBitmap[k]
          /\ \A k \in Heights : commitBitmap[k] \subseteq Node
      BY <1>1, <1>4 DEF TypeOK
    <2>2. \A k \in Heights : \A n \in commitBitmap'[k] : Committed(n, k)'
      BY <1>0, <1>9, <1>10, <2>1 DEF CommitCountInv, ChainExtends
    <2>3. \A k \in Heights : k < h => Enough(commitBitmap'[k])
      <3>1. \A k \in Heights : k < h => k # h
        BY <1>1, HeightsNat
      <3> QED BY <1>0, <2>1, <3>1 DEF CommitCountInv
    <2> QED BY <1>3, <1>6, <2>2, <2>3 DEF CommitCountInv, Enough
  <1> DEFINE v == [type |-> "COMMIT", block |-> c, sig |-> sig, bitmap |-> bitmap]
             g == [type |-> "COMMIT", block |-> c, sig |-> sig, from |-> Leader]
  <1>13. net' = net \cup {v} /\ gossip' = gossip \cup {g}
    BY <1>4 DEF StartGossip
  <1>14. IsProposal(c)'
    BY <1>1, <1>2, <1>10 DEF ChainExtends
  <1>15. MessageInv(v)'
    <2>1. v.block = c /\ v.type = "COMMIT" /\ v.bitmap = bitmap
      OBVIOUS
    <2>2. /\ currentBlock'[Leader] # NoBlock /\ c.height <= currentBlock'[Leader].height
          /\ Committed(Leader, c.height)' /\ bitmap = blockDB'[Leader][c.height].sign
      BY <1>1, <1>3, <1>6, <1>8, <1>9
    <2> HIDE DEF v
    <2> QED BY <1>2, <1>14, <2>1, <2>2 DEF MessageInv, VoteTypes
  <1>16. precommitBitmap'[h] = bitmap
    BY <1>1 DEF TypeOK
  <1>17. GoroutineInv(g)'
    <2>1. Marshal(g)' = v
      BY <1>16 DEF Marshal, VoteTypes
    <2> QED BY <1>13, <1>16, <2>1 DEF GoroutineInv, Enough
  <1>18. \A r \in gossip : r.type = "COMMIT" =>
           precommitBitmap'[r.block.height] = precommitBitmap[r.block.height]
    BY <1>1, CollectingBitmaps, GoroutineHeight DEF TypeOK
  <1> HIDE DEF v, g
  <1>19. /\ net \subseteq net' /\ \A u \in net' : u \in net \/ MessageInv(u)'
         /\ \A r \in gossip' : r \in gossip \/ GoroutineInv(r)'
    BY <1>13, <1>15, <1>17
  <1> QED BY <1>6, <1>10, <1>11, <1>12, <1>18, <1>19, LeaderStep

LEMMA OnPrecommitVoteMsgInv ==
  ASSUME TypeOK, TypeOK', ChainInv, NEW m \in net, OnPrecommitVoteMsg(m)
  PROVE  ChainInv' /\ ChainExtends
  <1> SUFFICES ASSUME NEW c, c = currentBlock[Leader], NEW h, h = c.height,
                      NEW bitmap, bitmap = precommitBitmap[h] \cup m.bitmap
               PROVE  ChainInv' /\ ChainExtends
    OBVIOUS
  <1>0. LeaderInv /\ MessageInv(m) /\ CommitCountInv
    BY DEF ChainInv
  <1>1. /\ Leader \in Node /\ c \in Block /\ h \in Heights /\ h \in Nat
        /\ phase[Leader].bftPhase \in 0 .. 3
    BY LeaderNode, BlockFields
  <1>2. AcceptVote(m, BFT_PRECOMMIT, precommitBitmap[h])
    BY DEF OnPrecommitVoteMsg
  <1>3. /\ c # NoBlock /\ ~Enough(precommitBitmap[h])
        /\ ~(phase[Leader].bftPhase > BFT_PRECOMMIT)
    BY <1>0, <1>2, VoteHeight
  <1>4. phase[Leader].bftPhase # BFT_COMMIT
    BY <1>1, <1>3 DEF BFT_PRECOMMIT, BFT_COMMIT
  <1>5. bitmap \in SUBSET Node
    BY <1>1 DEF TypeOK, Message
  <1>6. /\ precommitBitmap' = [precommitBitmap EXCEPT ![h] = bitmap]
        /\ UNCHANGED <<prepareBitmap, checking>>
    BY DEF OnPrecommitVoteMsg
  <1>7. CASE Enough(bitmap)
    <2>1. PICK sig : LeaderCommit(sig, bitmap)
      BY <1>7 DEF OnPrecommitVoteMsg
    <2> QED BY <1>3, <1>4, <1>5, <1>6, <1>7, <2>1, LeaderCommitInv
  <1>8. CASE ~Enough(bitmap)
    <2>1. UNCHANGED <<latestBlock, blockDB, created, phase, gossip, net,
                      commitBitmap, currentBlock, latestCommittedBlockHash>>
      BY <1>8 DEF OnPrecommitVoteMsg, chainVars
    <2>2. ChainExtends
      BY <2>1, SameChain
    <2>3. LeaderInv'
      BY <1>0, <1>3, <2>1, LeaderStable
    <2>4. CommitCountInv'
      BY <1>0, <2>1, <2>2, CommitCountStable
    <2>5. \A r \in gossip : r.type = "COMMIT" =>
            precommitBitmap'[r.block.height] = precommitBitmap[r.block.height]
      BY <1>1, <1>3, <1>6, CollectingBitmaps, GoroutineHeight DEF TypeOK
    <2> QED BY <1>6, <2>1, <2>2, <2>3, <2>4, <2>5, LeaderStep
  <1> QED BY <1>7, <1>8

\* A successor is one above the leader's current block.
LEMMA SuccessorHeight ==
  ASSUME LeaderInv, currentBlock[Leader] # NoBlock, NEW b \in NewBlocks
  PROVE  b.height = currentBlock[Leader].height + 1
  <1>1. latestBlock[Leader] = currentBlock[Leader]
    BY DEF LeaderInv
  <1>2. PICK root : b = Successor(root)
    BY <1>1 DEF NewBlocks
  <1> QED BY <1>1, <1>2 DEF Successor

LEMMA OnCommitVoteMsgInv ==
  ASSUME TypeOK, TypeOK', ChainInv, NEW m \in net, OnCommitVoteMsg(m)
  PROVE  ChainInv' /\ ChainExtends
  <1> SUFFICES ASSUME NEW c, c = currentBlock[Leader], NEW h, h = c.height,
                      NEW bitmap, bitmap = commitBitmap[h] \cup m.bitmap
               PROVE  ChainInv' /\ ChainExtends
    OBVIOUS
  <1>0. LeaderInv /\ MessageInv(m) /\ CommitCountInv
    BY DEF ChainInv
  <1>1. Leader \in Node /\ c \in Block /\ h \in Heights /\ h \in Nat
    BY LeaderNode, BlockFields
  <1>2. AcceptVote(m, BFT_COMMIT, commitBitmap[h]) /\ m.type = "COMMITVOTE"
    BY DEF OnCommitVoteMsg
  <1>3. c # NoBlock /\ m.block.height = h
    BY <1>0, <1>2, VoteHeight
  <1>4. \A n \in m.bitmap : Committed(n, h)
    BY <1>0, <1>2, <1>3 DEF MessageInv
  <1>5. phase[Leader].bftPhase = BFT_COMMIT
    <2>1. PICK n \in Validator : m.bitmap = {n}
      BY <1>0, <1>2 DEF MessageInv, VoteTypes
    <2>2. Committed(Leader, h)
      BY <1>1, <1>4, <2>1 DEF ChainInv, ValidatorInv
    <2> QED BY <1>0, <1>1, <1>3, <2>2 DEF LeaderInv, CommittedUpToCurrent
  <1>6. /\ commitBitmap' = [commitBitmap EXCEPT ![h] = bitmap]
        /\ UNCHANGED <<latestCommittedBlockHash, precommitBitmap, checking>>
    BY DEF OnCommitVoteMsg
  <1>7. /\ commitBitmap'[h] = bitmap
        /\ \A k \in Heights : k # h => commitBitmap'[k] = commitBitmap[k]
    BY <1>1, <1>6 DEF TypeOK
  <1>8. \A k \in Heights : \A n \in commitBitmap'[k] : Committed(n, k)
    BY <1>0, <1>1, <1>4, <1>7 DEF CommitCountInv
  <1>9. \A k \in Heights : k < h => Enough(commitBitmap'[k])
    <2>1. \A k \in Heights : k < h => k # h
      BY <1>1, HeightsNat
    <2> QED BY <1>0, <1>7, <2>1 DEF CommitCountInv
  <1>10. CASE Enough(bitmap)
    <2>1. PICK b \in NewBlocks : Prepare(b)
      BY <1>10 DEF OnCommitVoteMsg
    <2>2. b.height = h + 1
      BY <1>0, <1>3, SuccessorHeight
    <2>3. \A k \in Heights : k < b.height => Enough(commitBitmap'[k])
      <3>1. \A k \in Heights : k < b.height => k < h \/ k = h
        BY <1>1, <2>2, HeightsNat
      <3> QED BY <1>7, <1>9, <1>10, <3>1
    <2> QED BY <1>5, <1>6, <1>8, <2>1, <2>3, PrepareInv
  <1>11. CASE ~Enough(bitmap)
    <2>1. UNCHANGED <<latestBlock, blockDB, created, phase, gossip, net,
                      currentBlock, prepareBitmap>>
      BY <1>11 DEF OnCommitVoteMsg, chainVars
    <2>2. ChainExtends
      BY <2>1, SameChain
    <2>3. LeaderInv'
      BY <1>0, <1>3, <2>1, LeaderStable
    <2>4. CommitCountInv'
      <3>1. \A n, k : Committed(n, k)' <=> Committed(n, k)
        BY <2>1 DEF Committed
      <3> QED BY <1>8, <1>9, <2>1, <3>1 DEF CommitCountInv, Enough
    <2> QED BY <1>6, <2>1, <2>2, <2>3, <2>4, LeaderStep
  <1> QED BY <1>10, <1>11

LEMMA StartInv ==
  ASSUME TypeOK, TypeOK', ChainInv, Start
  PROVE  ChainInv' /\ ChainExtends
  <1>1. PICK b \in NewBlocks : Prepare(b)
    BY DEF Start
  <1>2. /\ currentBlock[Leader] = NoBlock /\ LeaderInv /\ CommitCountInv
        /\ UNCHANGED <<latestCommittedBlockHash, precommitBitmap, commitBitmap, checking>>
    BY DEF Start, ChainInv
  <1>3. b.height = 0
    <2>1. latestBlock[Leader] = NoBlock
      BY <1>2 DEF LeaderInv
    <2> QED BY <2>1 DEF NewBlocks, Genesis
  <1>4. \A h \in Heights : ~(h < b.height)
    BY <1>3, HeightsNat
  <1> QED BY <1>1, <1>2, <1>4, PrepareInv DEF CommitCountInv

-----------------------------------------------------------------------------
(* Every step.                                                             *)

LEMMA ChainStep ==
  ASSUME TypeOK, TypeOK', ChainInv, [Next]_vars
  PROVE  ChainInv' /\ ChainExtends
  <1>1. CASE Start
    BY <1>1, StartInv
  <1>2. ASSUME NEW m \in net, OnPrepareVoteMsg(m) PROVE ChainInv' /\ ChainExtends
    BY <1>2, OnPrepareVoteMsgInv, SameChain DEF OnPrepareVoteMsg, chainVars
  <1>3. ASSUME NEW m \in net, OnPrecommitVoteMsg(m) PROVE ChainInv' /\ ChainExtends
    BY <1>3, OnPrecommitVoteMsgInv
  <1>4. ASSUME NEW m \in net, OnCommitVoteMsg(m) PROVE ChainInv' /\ ChainExtends
    BY <1>4, OnCommitVoteMsgInv
  <1>5. ASSUME NEW n \in Validator, FinishCheck(n) PROVE ChainInv' /\ ChainExtends
    <2>1. blockDB' = blockDB
      BY <1>5 DEF FinishCheck, CheckBlock
    <2>2. currentBlock'[Leader] = currentBlock[Leader]
      BY <1>5, LeaderNode DEF FinishCheck, TypeOK
    <2> QED BY <1>5, <2>1, <2>2, FinishCheckInv, SameChain
  <1>6. ASSUME NEW n \in Validator, NEW m \in net, OnPrepareMsg(n, m)
        PROVE  ChainInv' /\ ChainExtends
    BY <1>6, OnPrepareMsgInv, SameChain DEF OnPrepareMsg, chainVars
  <1>7. ASSUME NEW n \in Validator, NEW m \in net, OnPrecommitMsg(n, m)
        PROVE  ChainInv' /\ ChainExtends
    BY <1>7, OnPrecommitMsgInv, SameChain DEF OnPrecommitMsg, chainVars
  <1>8. ASSUME NEW n \in Validator, NEW m \in net, OnCommitMsg(n, m)
        PROVE  ChainInv' /\ ChainExtends
    BY <1>8, OnCommitMsgInv
  <1>9. ASSUME NEW n, Crash(n) PROVE ChainInv' /\ ChainExtends
    BY <1>9, QuietStep, SameChain DEF Crash, chainVars
  <1>10. ASSUME NEW g \in gossip, TryGossip(g) PROVE ChainInv' /\ ChainExtends
    BY <1>10, TryGossipInv, SameChain DEF TryGossip, chainVars
  <1>11. ASSUME NEW n \in Node, NEW i \in InboundIds, HandleHeaderMsg(n, i)
         PROVE  ChainInv' /\ ChainExtends
    BY <1>11, QuietStep, SameChain DEF HandleHeaderMsg, ReceiveHeader, bftVars
  <1>12. CASE UNCHANGED vars
    BY <1>12, QuietStep, SameChain DEF vars, chainVars, bftVars
  <1> QED BY <1>1, <1>2, <1>3, <1>4, <1>5, <1>6, <1>7, <1>8, <1>9, <1>10, <1>11, <1>12
          DEF Next, NilCurrentBlock, ConcurrentMapFault

LEMMA ChainInvInit == Init => ChainInv
  <1> SUFFICES ASSUME Init PROVE ChainInv
    OBVIOUS
  <1>1. Leader \in Node /\ \A n \in Validator : n \in Node
    BY NodeAssumption DEF Validator
  <1>2. \A n \in Node : /\ currentBlock[n] = NoBlock
                        /\ \A h \in Heights : ~Committed(n, h)
                        /\ phase[n] = At(0, BFT_INIT)
                        /\ latestCommittedBlockHash[n] = 0
                        /\ checking[n] = NoMessage
                        /\ latestBlock[n] = NoBlock
    BY DEF Init, ChainInit, Committed
  <1>3. net = {} /\ gossip = {} /\ created = 0
    BY DEF Init, ChainInit
  <1>4. LeaderInv
    BY <1>1, <1>2, <1>3 DEF LeaderInv, Idle
  <1>5. ASSUME NEW n \in Validator PROVE ValidatorInv(n)
    BY <1>1, <1>2 DEF ValidatorInv, Idle
  <1>6. CommitCountInv
    <2>1. \A h \in Heights : commitBitmap[h] = {} /\ ~(h < currentBlock[Leader].height)
      BY <1>1, <1>2, HeightsNat DEF Init, NoBlock
    <2> QED BY <2>1 DEF CommitCountInv
  <1> QED BY <1>3, <1>4, <1>5, <1>6 DEF ChainInv

-----------------------------------------------------------------------------
(* The theorems.                                                           *)

\* The inductive invariant holds in every reachable state, whatever the order
\* in which messages are delivered, repeated or lost and whoever stops.
THEOREM ChainInvariant == Spec => []ChainInv
  <1>1. Init => ChainInv
    BY ChainInvInit
  <1>2. TypeOK /\ TypeOK' /\ ChainInv /\ [Next]_vars => ChainInv'
    BY ChainStep
  <1> QED BY <1>1, <1>2, TypeCorrect, PTL DEF Spec

LEMMA AgreementState ==
  ASSUME TypeOK, ChainInv
  PROVE  ChainsAgree
  <1> SUFFICES ASSUME NEW n \in Node, NEW h \in Heights, Committed(n, h)
               PROVE  /\ blockDB[n][h] = blockDB[Leader][h]
                      /\ blockDB[n][h].height = h
                      /\ h > 0 => /\ Committed(n, h - 1)
                                  /\ blockDB[n][h].prev = blockDB[n][h - 1].hash
    BY DEF ChainsAgree
  <1>0. LeaderInv /\ h \in Nat
    BY HeightsNat DEF ChainInv
  <1>1. \A k \in Heights : Committed(n, k) =>
          Committed(Leader, k) /\ blockDB[n][k] = blockDB[Leader][k]
    BY LeaderNode DEF ChainInv, ValidatorInv
  <1>2. \A k \in Heights : Committed(n, k) =>
          blockDB[n][k].height = k /\ Linked(blockDB[n][k])
    BY <1>0, <1>1 DEF LeaderInv
  <1>3. CommittedUpToCurrent(n)
    <2>1. currentBlock[n] = NoBlock => Idle(n)
      BY LeaderNode DEF ChainInv, ValidatorInv, LeaderInv
    <2>2. currentBlock[n] # NoBlock
      BY <2>1 DEF Idle
    <2> QED BY <2>2, LeaderNode DEF ChainInv, ValidatorInv, LeaderInv
  <1>4. ASSUME h > 0
        PROVE  Committed(n, h - 1) /\ blockDB[n][h].prev = blockDB[n][h - 1].hash
    <2>1. h - 1 \in Heights /\ h - 1 \in Nat
      BY <1>0, <1>4, MaxHeightAssumption DEF Heights
    <2>2. currentBlock[n].height \in Nat
      BY LeaderNode, BlockFields
    <2>3. h <= currentBlock[n].height
      BY <1>0, <1>3, <2>2 DEF CommittedUpToCurrent
    <2>4. h - 1 < currentBlock[n].height
      BY <1>0, <2>2, <2>3
    <2>5. Committed(n, h - 1)
      BY <1>3, <2>1, <2>4 DEF CommittedUpToCurrent
    <2>6. /\ blockDB[n][h].height = h /\ Linked(blockDB[n][h])
          /\ blockDB[n][h - 1].height = h - 1 /\ Linked(blockDB[n][h - 1])
      BY <1>2, <2>1, <2>5
    <2>7. blockDB[n][h].prev = h /\ blockDB[n][h - 1].hash = (h - 1) + 1
      BY <2>6 DEF Linked
    <2> QED BY <1>0, <2>5, <2>7
  <1> QED BY <1>1, <1>2, <1>4

\* Agreement, for every shard size and chain length: what a node has
\* committed is the leader's chain, gapless and linked by hashes.
THEOREM Agreement == Spec => []ChainsAgree
  <1>1. TypeOK /\ ChainInv => ChainsAgree
    BY AgreementState
  <1> QED BY <1>1, TypeCorrect, ChainInvariant, PTL

LEMMA DurableState ==
  ASSUME TypeOK, ChainInv
  PROVE  QuorumDurable
  <1> SUFFICES ASSUME NEW h \in Heights, h < currentBlock[Leader].height
               PROVE  Cardinality({n \in Node : Committed(n, h)}) >= ConsensusThreshold
    BY DEF QuorumDurable
  <1> DEFINE S == {n \in Node : Committed(n, h)}
  <1>1. commitBitmap[h] \subseteq S /\ Enough(commitBitmap[h])
    BY DEF ChainInv, CommitCountInv, TypeOK
  <1>2. IsFiniteSet(S) /\ IsFiniteSet(Node)
    BY NodeAssumption, FS_Subset
  <1>3. /\ Cardinality(commitBitmap[h]) <= Cardinality(S)
        /\ Cardinality(commitBitmap[h]) \in Nat /\ Cardinality(S) \in Nat
    BY <1>1, <1>2, FS_Subset, FS_CardinalityType
  <1>4. ConsensusThreshold \in Int
    BY <1>2, FS_CardinalityType DEF ConsensusThreshold
  <1> HIDE DEF S
  <1>5. Cardinality(commitBitmap[h]) >= ConsensusThreshold
    BY <1>1 DEF Enough
  <1>6. Cardinality(S) >= ConsensusThreshold
    BY <1>3, <1>4, <1>5
  <1> QED BY <1>6 DEF S

\* The leader goes on to a height only when a quorum stores the one before.
THEOREM Durability == Spec => []QuorumDurable
  <1>1. TypeOK /\ ChainInv => QuorumDurable
    BY DurableState
  <1> QED BY <1>1, TypeCorrect, ChainInvariant, PTL

\* No step ever replaces a block that a node has committed.
THEOREM Finality == Spec => BlocksFinal
  <1>1. TypeOK /\ TypeOK' /\ ChainInv /\ [Next]_vars =>
          [\A n \in Node, h \in Heights :
             Committed(n, h) => blockDB'[n][h] = blockDB[n][h]]_vars
    BY ChainStep DEF ChainExtends
  <1> QED BY <1>1, TypeCorrect, ChainInvariant, PTL DEF Spec, BlocksFinal
=============================================================================
