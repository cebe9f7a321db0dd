-------------------------- MODULE BFTState_proofs --------------------------
(***************************************************************************)
(* The states and the inbound chunks behind the blocks of module BFT,      *)
(* proved from StateInv and InboundInv, and the committed blocks as an     *)
(* implementation of module ShardLog.                                      *)
(***************************************************************************)
EXTENDS BFTInv_proofs

-----------------------------------------------------------------------------
(* The leader's chain.                                                     *)

\* The leader's block at a height it has reached is a proposal.
LEMMA LeaderBlockFacts ==
  ASSUME TypeOK, LeaderInv, currentBlock[Leader] # NoBlock, NEW h \in Heights,
         h <= currentBlock[Leader].height
  PROVE  /\ LeaderBlock(h) \in Block
         /\ LeaderBlock(h).height = h
         /\ IsProposal(LeaderBlock(h))
  <1>1. currentBlock[Leader] \in Block /\ currentBlock[Leader].height \in Nat /\ h \in Nat
    BY LeaderNode, BlockFields, HeightsNat
  <1>2. CASE Committed(Leader, h)
    <2>1. blockDB[Leader][h] \in Block /\ blockDB[Leader][h].height = h
      BY <1>2, LeaderNode DEF LeaderInv
    <2>2. LeaderBlock(h) = Unsigned(blockDB[Leader][h])
      BY <1>2 DEF LeaderBlock
    <2> QED BY <2>1, <2>2, UnsignedBlock DEF IsProposal
  <1>3. CASE ~Committed(Leader, h)
    <2>1. LeaderBlock(h) = currentBlock[Leader]
      BY <1>3 DEF LeaderBlock
    <2>2. h = currentBlock[Leader].height
      BY <1>1, <1>3 DEF LeaderInv, CommittedUpToCurrent
    <2> QED BY <1>1, <2>1, <2>2 DEF IsProposal
  <1> QED BY <1>2, <1>3

\* Once proposed, a block stays where it is in the leader's chain.
LEMMA LeaderBlockStable ==
  ASSUME TypeOK, LeaderInv, ChainExtends, currentBlock[Leader] # NoBlock,
         NEW h \in Heights, h <= currentBlock[Leader].height
  PROVE  LeaderBlock(h)' = LeaderBlock(h)
  <1>1. PICK b : b = LeaderBlock(h)
    OBVIOUS
  <1>2. b \in Block /\ b.height = h /\ IsProposal(b)
    BY <1>1, LeaderBlockFacts
  <1>3. IsProposal(b)'
    BY <1>2 DEF ChainExtends
  <1>4. b = LeaderBlock(b.height)'
    BY <1>3 DEF IsProposal
  <1>5. LeaderBlock(b.height)' = LeaderBlock(h)'
    BY <1>2
  <1> QED BY <1>1, <1>4, <1>5

\* Signing leaves the transactions of a block alone.
LEMMA UnsignedData ==
  ASSUME NEW b \in Block
  PROVE  /\ Unsigned(b).root = b.root /\ Unsigned(b).parent = b.parent
         /\ Unsigned(b).inbound = b.inbound
  BY DEF Block, Unsigned

LEMMA CurrentData ==
  ASSUME TypeOK, LeaderInv, currentBlock[Leader] # NoBlock
  PROVE  /\ LeaderBlock(currentBlock[Leader].height).root = currentBlock[Leader].root
         /\ LeaderBlock(currentBlock[Leader].height).inbound = currentBlock[Leader].inbound
  <1>1. PICK c : c = currentBlock[Leader]
    OBVIOUS
  <1>2. c \in Block /\ c.height \in Heights /\ c.height \in Nat
    BY <1>1, LeaderNode, BlockFields
  <1>3. CASE Committed(Leader, c.height)
    <2>1. phase[Leader].bftPhase = BFT_COMMIT
      BY <1>1, <1>2, <1>3 DEF LeaderInv, CommittedUpToCurrent
    <2>2. blockDB[Leader][c.height] = c
      BY <1>1, <2>1 DEF LeaderInv
    <2> QED BY <1>1, <1>2, <1>3, <2>2, UnsignedData DEF LeaderBlock
  <1>4. CASE ~Committed(Leader, c.height)
    BY <1>1, <1>4 DEF LeaderBlock
  <1> QED BY <1>3, <1>4

-----------------------------------------------------------------------------
(* State roots: consequences of the invariant in one state.                *)

\* The block a validator checks was executed on the state it stands at.
LEMMA CheckedBlock ==
  ASSUME TypeOK, ChainInv, StateInv, NEW n \in Node, checking[n] # NoMessage
  PROVE  /\ CheckBlockOK(n, checking[n].block)
         /\ checking[n].block.root \in Nat
         /\ Execute(stateDB[n], checking[n].block) = checking[n].block.root
  <1>0. n \in Validator
    BY LeaderNode DEF StateInv
  <1>1. PICK b, c, l : b = checking[n].block /\ c = currentBlock[n] /\ l = latestBlock[n]
    OBVIOUS
  <1>2. /\ LeaderInv /\ ValidatorInv(n) /\ LatestInv(n) /\ RootInv(n) /\ RootsChained
        /\ checking[n] \in net /\ checking[n].type = "PREPARE"
    BY <1>0 DEF ChainInv, StateInv, ValidatorInv
  <1>3. /\ b \in Block /\ b.height \in Heights /\ b.height \in Nat
        /\ c \in Block /\ c.height \in Heights /\ c.height \in Nat
        /\ l \in Block /\ l.height \in Heights /\ l.height \in Nat
    BY <1>1, <1>2, LeaderNode, BlockFields DEF TypeOK, ChainTypeOK
  <1>4. IsProposal(b)
    BY <1>1, <1>2 DEF ChainInv, MessageInv, LeaderTypes
  <1>5. /\ b = LeaderBlock(b.height) /\ currentBlock[Leader] # NoBlock
        /\ b.height <= currentBlock[Leader].height
    BY <1>4 DEF IsProposal
  <1>6. /\ b.root \in Nat
        /\ b.parent = IF b.height = 0 THEN EmptyRoot ELSE LeaderBlock(b.height - 1).root
    BY <1>2, <1>3, <1>5 DEF RootsChained
  <1>7. stateDB[n] = l.root
    BY <1>1, <1>2 DEF RootInv
  <1>8. CASE c = NoBlock
    <2>1. b.height = 0 /\ \A h \in Heights : ~Committed(n, h)
      BY <1>1, <1>2, <1>8 DEF ValidatorInv, Idle
    <2>2. l = NoBlock
      BY <1>1, <1>2, <1>3, <2>1 DEF LatestInv, Committed
    <2>3. stateDB[n] = b.parent
      BY <1>6, <1>7, <2>1, <2>2 DEF NoBlock
    <2> QED BY <1>1, <1>6, <2>1, <2>3 DEF CheckBlockOK, Execute
  <1>9. CASE c # NoBlock
    <2>1. /\ b.height = c.height + 1
          /\ \A h \in Heights : Committed(n, h) <=> h < c.height \/ h = c.height
      BY <1>1, <1>2, <1>9 DEF ValidatorInv, CommittedUpToCurrent
    <2>2. l # NoBlock /\ c.height <= l.height
      BY <1>1, <1>2, <1>3, <2>1 DEF LatestInv
    <2>3. l = blockDB[n][l.height]
      BY <1>1, <1>2, <2>2 DEF LatestInv
    <2>4. l.height = c.height
      BY <1>3, <2>1, <2>2, <2>3 DEF Committed
    <2>5. l = blockDB[Leader][c.height] /\ Committed(Leader, c.height)
      BY <1>2, <1>3, <2>1, <2>3, <2>4 DEF ValidatorInv
    <2>6. LeaderBlock(c.height).root = l.root
      BY <1>3, <2>5, UnsignedData DEF LeaderBlock
    <2>7. b.height - 1 = c.height /\ b.height # 0
      BY <1>3, <2>1
    <2>8. stateDB[n] = b.parent
      BY <1>6, <1>7, <2>6, <2>7
    <2> QED BY <1>1, <1>6, <2>1, <2>2, <2>4, <2>8 DEF CheckBlockOK, Execute
  <1> QED BY <1>8, <1>9

-----------------------------------------------------------------------------
(* State roots: what a step leaves as it is.                               *)

\* The leader proposes nothing.
LEMMA RootsStable ==
  ASSUME TypeOK, LeaderInv, ChainExtends, RootsChained,
         currentBlock'[Leader] # NoBlock => currentBlock[Leader] # NoBlock,
         currentBlock'[Leader].height = currentBlock[Leader].height
  PROVE  RootsChained'
  <1> SUFFICES ASSUME currentBlock[Leader] # NoBlock, NEW h \in Heights,
                      h <= currentBlock[Leader].height
               PROVE  /\ LeaderBlock(h)'.root \in Nat
                      /\ LeaderBlock(h)'.parent =
                           IF h = 0 THEN EmptyRoot ELSE LeaderBlock(h - 1)'.root
    BY DEF RootsChained
  <1>1. LeaderBlock(h)' = LeaderBlock(h)
    BY LeaderBlockStable
  <1>2. h # 0 => LeaderBlock(h - 1)' = LeaderBlock(h - 1)
    <2>1. ASSUME h # 0 PROVE LeaderBlock(h - 1)' = LeaderBlock(h - 1)
      <3>1. h \in 0 .. MaxHeight /\ currentBlock[Leader].height \in Nat
        BY LeaderNode, BlockFields DEF Heights
      <3>2. h - 1 \in Heights /\ h - 1 <= currentBlock[Leader].height
        BY <2>1, <3>1, MaxHeightAssumption DEF Heights
      <3> QED BY <3>2, LeaderBlockStable
    <2> QED BY <2>1
  <1> QED BY <1>1, <1>2 DEF RootsChained

\* Node n takes no part in the step.
LEMMA NodeStateStable ==
  ASSUME NEW n, latestBlock'[n] = latestBlock[n], blockDB'[n] = blockDB[n],
         stateDB'[n] = stateDB[n], roots'[n] = roots[n],
         currentBlock'[n] = currentBlock[n]
  PROVE  (LatestInv(n) => LatestInv(n)') /\ (RootInv(n) => RootInv(n)')
  <1>1. \A h : Committed(n, h)' <=> Committed(n, h)
    BY DEF Committed
  <1> QED BY <1>1 DEF LatestInv, RootInv

\* A step of node n preserves the invariant if it does so for n itself.
LEMMA StateFrame ==
  ASSUME TypeOK, StateInv, NEW n \in Node,
         \A k \in Node : k # n =>
            /\ latestBlock'[k] = latestBlock[k] /\ blockDB'[k] = blockDB[k]
            /\ stateDB'[k] = stateDB[k] /\ roots'[k] = roots[k]
            /\ currentBlock'[k] = currentBlock[k],
         checking'[Leader] = checking[Leader], RootsChained',
         n # Leader => LatestInv(n)', RootInv(n)'
  PROVE  StateInv'
  <1>1. \A k \in Validator : k \in Node /\ k # Leader
    BY LeaderNode
  <1>2. ASSUME NEW k \in Validator PROVE LatestInv(k)'
    <2>1. k # n => LatestInv(k)'
      BY <1>1, NodeStateStable DEF StateInv
    <2> QED BY <1>1, <2>1
  <1>3. ASSUME NEW k \in Node PROVE RootInv(k)'
    <2>1. k # n => RootInv(k)'
      BY NodeStateStable DEF StateInv
    <2> QED BY <2>1
  <1> QED BY <1>2, <1>3 DEF StateInv

-----------------------------------------------------------------------------
(* State roots: the actions.                                               *)

\* Commit finds the root in the trie database: the block is not executed.
LEMMA CommitState ==
  ASSUME TypeOK, NEW n \in Node, NEW b \in Block, Commit(n, b), RootInv(n),
         b.root \in roots[n], currentBlock'[n] = b
  PROVE  /\ RootInv(n)'
         /\ \A k \in Node : k # n =>
              /\ latestBlock'[k] = latestBlock[k] /\ blockDB'[k] = blockDB[k]
              /\ stateDB'[k] = stateDB[k] /\ roots'[k] = roots[k]
         /\ latestBlock'[n] = b
         /\ blockDB'[n][b.height] = b
  <1>1. b.height \in Heights
    BY BlockFields
  <1>2. /\ latestBlock' = [latestBlock EXCEPT ![n] = b]
        /\ blockDB' = [blockDB EXCEPT ![n][b.height] = b]
        /\ stateDB' = [stateDB EXCEPT ![n] = b.root]
        /\ roots' = roots
    BY DEF Commit
  <1>3. latestBlock'[n] = b /\ stateDB'[n] = b.root
    BY <1>2 DEF TypeOK, ChainTypeOK
  <1>4. RootInv(n)'
    BY <1>2, <1>3 DEF RootInv
  <1> QED BY <1>1, <1>2, <1>4 DEF TypeOK, ChainTypeOK

LEMMA OnCommitMsgState ==
  ASSUME TypeOK, TypeOK', ChainInv, ChainInv', ChainExtends, StateInv,
         NEW n \in Validator, NEW m \in net, OnCommitMsg(n, m)
  PROVE  StateInv'
  <1>1. PICK b, signed : b = currentBlock[n] /\ signed = [b EXCEPT !.sign = m.bitmap]
    OBVIOUS
  <1>2. /\ n \in Node /\ n # Leader /\ Leader \in Node /\ b \in Block /\ b # NoBlock
        /\ m.bitmap \in SUBSET Node /\ RootInv(n) /\ LeaderInv
    BY <1>1, LeaderNode DEF Message, OnCommitMsg, StateInv, ChainInv
  <1>3. /\ signed \in Block /\ signed.height = b.height /\ signed.root = b.root
        /\ signed # NoBlock
    <2>1. Linked(b)
      BY <1>1, <1>2, ValidatorFacts DEF ChainInv
    <2>2. signed \in Block /\ signed.height = b.height /\ Linked(signed)
      BY ONLY <1>1, <1>2, <2>1, SignedBlock
    <2>3. signed.root = b.root
      BY <1>1, <1>2 DEF Block
    <2> QED BY <2>2, <2>3, LinkedBlock
  <1>4. /\ currentBlock' = [currentBlock EXCEPT ![n] = signed]
        /\ Commit(n, signed) /\ checking' = checking
        /\ phase' = [phase EXCEPT ![n] = Switch(phase[n], At(b.height, BFT_COMMIT))]
    BY <1>1 DEF OnCommitMsg
  <1>5. /\ currentBlock'[n] = signed
        /\ \A k \in Node : k # n => currentBlock'[k] = currentBlock[k]
    BY <1>2, <1>4 DEF TypeOK
  <1>6. signed.root \in roots[n]
    BY <1>1, <1>2, <1>3 DEF RootInv
  <1>7. /\ RootInv(n)'
        /\ \A k \in Node : k # n =>
             /\ latestBlock'[k] = latestBlock[k] /\ blockDB'[k] = blockDB[k]
             /\ stateDB'[k] = stateDB[k] /\ roots'[k] = roots[k]
        /\ latestBlock'[n] = signed
        /\ blockDB'[n][signed.height] = signed
    BY <1>2, <1>3, <1>4, <1>5, <1>6, CommitState
  <1>8. LatestInv(n)'
    <2>1. CommittedUpToCurrent(n)'
      BY <1>3, <1>5 DEF ChainInv, ValidatorInv
    <2>2. signed.height \in Nat
      BY <1>3, BlockFields
    <2>3. \A h \in Heights : Committed(n, h)' => h <= signed.height
      <3>1. \A h \in Heights : Committed(n, h)' => h < signed.height \/ h = signed.height
        BY <1>5, <2>1 DEF CommittedUpToCurrent
      <3>2. \A h \in Heights : h < signed.height \/ h = signed.height => h <= signed.height
        BY <2>2, HeightsNat
      <3> QED BY <3>1, <3>2
    <2> QED BY <1>3, <1>7, <2>3 DEF LatestInv
  <1>9. RootsChained'
    BY <1>2, <1>5, RootsStable DEF StateInv
  <1> QED BY <1>2, <1>4, <1>5, <1>7, <1>8, <1>9, StateFrame

LEMMA FinishCheckState ==
  ASSUME TypeOK, ChainInv, ChainExtends, StateInv, NEW n \in Validator, FinishCheck(n)
  PROVE  StateInv'
  <1>1. PICK b : b = checking[n].block
    OBVIOUS
  <1>2. n \in Node /\ n # Leader /\ Leader \in Node /\ RootInv(n) /\ LatestInv(n)
        /\ LeaderInv
    BY LeaderNode DEF StateInv, ChainInv
  <1>3. CheckBlockOK(n, b) /\ b.root \in Nat /\ Execute(stateDB[n], b) = b.root
    BY <1>1, <1>2, CheckedBlock DEF FinishCheck
  <1>4. /\ latestBlock' = latestBlock /\ blockDB' = blockDB /\ stateDB' = stateDB
        /\ roots' = [roots EXCEPT ![n] = roots[n] \cup {b.root}]
        /\ checking' = [checking EXCEPT ![n] = NoMessage]
        /\ currentBlock' = [currentBlock EXCEPT ![n] = b]
    BY <1>1, <1>3 DEF FinishCheck, CheckBlock
  <1>5. /\ currentBlock'[n] = b /\ roots'[n] = roots[n] \cup {b.root}
        /\ \A k \in Node : k # n => /\ currentBlock'[k] = currentBlock[k]
                                    /\ roots'[k] = roots[k]
                                    /\ checking'[k] = checking[k]
    BY <1>2, <1>4 DEF TypeOK, ChainTypeOK
  <1>6. RootInv(n)'
    BY <1>2, <1>3, <1>4, <1>5 DEF RootInv
  <1>7. LatestInv(n)'
    BY <1>2, <1>4 DEF LatestInv, Committed
  <1>8. RootsChained'
    BY <1>2, <1>5, RootsStable DEF StateInv
  <1> QED BY <1>2, <1>4, <1>5, <1>6, <1>7, <1>8, StateFrame

LEMMA LeaderCommitState ==
  ASSUME TypeOK, ChainInv, ChainExtends, StateInv, NEW sig, NEW bitmap \in SUBSET Node,
         LeaderCommit(sig, bitmap), currentBlock[Leader] # NoBlock, checking' = checking
  PROVE  StateInv'
  <1>1. PICK b, signed : b = currentBlock[Leader] /\ signed = [b EXCEPT !.sign = bitmap]
    OBVIOUS
  <1>2. Leader \in Node /\ b \in Block /\ RootInv(Leader) /\ LeaderInv
    BY <1>1, LeaderNode DEF StateInv, ChainInv
  <1>3. signed \in Block /\ signed.height = b.height /\ signed.root = b.root
    <2>1. signed \in Block /\ signed.height = b.height
      BY ONLY <1>1, <1>2, bitmap \in SUBSET Node, SignedBlock
    <2>2. signed.root = b.root
      BY <1>1, <1>2 DEF Block
    <2> QED BY <2>1, <2>2
  <1>4. /\ currentBlock' = [currentBlock EXCEPT ![Leader] = signed]
        /\ Commit(Leader, signed)
    BY <1>1 DEF LeaderCommit
  <1>5. /\ currentBlock'[Leader] = signed
        /\ \A k \in Node : k # Leader => currentBlock'[k] = currentBlock[k]
    BY <1>2, <1>4 DEF TypeOK
  <1>6. signed.root \in roots[Leader]
    BY <1>1, <1>2, <1>3 DEF RootInv
  <1>7. /\ RootInv(Leader)'
        /\ \A k \in Node : k # Leader =>
             /\ latestBlock'[k] = latestBlock[k] /\ blockDB'[k] = blockDB[k]
             /\ stateDB'[k] = stateDB[k] /\ roots'[k] = roots[k]
    BY <1>2, <1>3, <1>4, <1>5, <1>6, CommitState
  <1>8. RootsChained'
    BY <1>1, <1>2, <1>3, <1>5, RootsStable DEF StateInv
  <1> QED BY <1>2, <1>5, <1>7, <1>8, StateFrame

\* Nothing is committed at the height of a new block.
LEMMA NewHeight ==
  ASSUME TypeOK, LeaderInv, NEW b \in NewBlocks, Prepare(b)
  PROVE  ~Committed(Leader, b.height)'
  <1>1. b \in Block /\ b.height \in Heights /\ b.height \in Nat
    BY NewBlockType, BlockFields DEF Prepare, CreateNewBlock
  <1>2. blockDB' = blockDB
    BY DEF Prepare, CreateNewBlock
  <1>3. ~Committed(Leader, b.height)
    <2>1. CASE currentBlock[Leader] = NoBlock
      BY <1>1, <2>1 DEF LeaderInv, Idle
    <2>2. CASE currentBlock[Leader] # NoBlock
      <3>1. currentBlock[Leader].height \in Nat
        BY LeaderNode, BlockFields
      <3>2. b.height = currentBlock[Leader].height + 1
        BY <2>2, SuccessorHeight
      <3> QED BY <1>1, <2>2, <3>1, <3>2 DEF LeaderInv, CommittedUpToCurrent
    <2> QED BY <2>1, <2>2
  <1> QED BY <1>2, <1>3 DEF Committed

LEMMA PrepareState ==
  ASSUME TypeOK, TypeOK', ChainInv, ChainInv', ChainExtends, StateInv,
         NEW b \in NewBlocks, Prepare(b), checking' = checking
  PROVE  StateInv'
  <1>1. PICK c : c = currentBlock[Leader]
    OBVIOUS
  <1>2. /\ Leader \in Node /\ c \in Block /\ c.height \in Nat /\ c.height \in Heights
        /\ RootInv(Leader) /\ LeaderInv /\ created \in Nat
    BY <1>1, LeaderNode, BlockFields DEF StateInv, ChainInv, TypeOK, ChainTypeOK
  <1>3. b \in Block /\ b.height \in Nat /\ b.height \in Heights
    BY NewBlockType, BlockFields DEF Prepare, CreateNewBlock
  <1>4. /\ blockDB' = blockDB
        /\ latestBlock' = [latestBlock EXCEPT ![Leader] = b]
        /\ stateDB' = [stateDB EXCEPT ![Leader] = b.root]
        /\ roots' = [roots EXCEPT ![Leader] = roots[Leader] \cup {b.root}]
        /\ currentBlock' = [currentBlock EXCEPT ![Leader] = b]
    BY DEF Prepare, CreateNewBlock
  <1>5. /\ currentBlock'[Leader] = b /\ latestBlock'[Leader] = b
        /\ stateDB'[Leader] = b.root /\ roots'[Leader] = roots[Leader] \cup {b.root}
        /\ \A k \in Node : k # Leader =>
             /\ latestBlock'[k] = latestBlock[k] /\ stateDB'[k] = stateDB[k]
             /\ roots'[k] = roots[k] /\ currentBlock'[k] = currentBlock[k]
    BY <1>2, <1>4 DEF TypeOK, ChainTypeOK
  <1>6. stateDB[Leader] \in Nat
    BY <1>2 DEF RootInv
  <1>7. /\ b.root \in Nat /\ b.parent = stateDB[Leader]
        /\ c = NoBlock => b.height = 0 /\ b.parent = EmptyRoot
        /\ c # NoBlock => b.height = c.height + 1 /\ b.parent = c.root
    <2>1. CASE c = NoBlock
      <3>1. latestBlock[Leader] = NoBlock
        BY <1>1, <1>2, <2>1 DEF LeaderInv
      <3>2. b = Genesis /\ stateDB[Leader] = EmptyRoot
        BY <1>2, <3>1 DEF NewBlocks, RootInv, NoBlock
      <3> QED BY <1>2, <2>1, <3>2 DEF Genesis
    <2>2. CASE c # NoBlock
      <3>1. latestBlock[Leader] = c
        BY <1>1, <1>2, <2>2 DEF LeaderInv
      <3>2. PICK root \in {stateDB[Leader], created + 1} : b = Successor(root)
        BY <2>2, <3>1 DEF NewBlocks
      <3>3. stateDB[Leader] = c.root
        BY <1>2, <3>1 DEF RootInv
      <3> QED BY <1>2, <1>6, <2>2, <3>1, <3>2, <3>3 DEF Successor
    <2> QED BY <2>1, <2>2
  <1>8. RootInv(Leader)'
    BY <1>2, <1>5, <1>7 DEF RootInv
  <1>9. RootsChained'
    <2>1. \A h \in Heights : h <= b.height =>
            h = b.height \/ (c # NoBlock /\ h <= c.height)
      BY <1>2, <1>3, <1>7, HeightsNat
    <2>2. LeaderBlock(b.height)' = b
      BY <1>2, <1>5, NewHeight DEF LeaderBlock
    <2>3. \A h \in Heights : c # NoBlock /\ h <= c.height =>
            LeaderBlock(h)' = LeaderBlock(h)
      BY <1>1, <1>2, LeaderBlockStable
    <2>4. ASSUME NEW h \in Heights, c # NoBlock, h <= c.height
          PROVE  /\ LeaderBlock(h)'.root \in Nat
                 /\ LeaderBlock(h)'.parent =
                      IF h = 0 THEN EmptyRoot ELSE LeaderBlock(h - 1)'.root
      <3>1. /\ LeaderBlock(h).root \in Nat
            /\ LeaderBlock(h).parent =
                 IF h = 0 THEN EmptyRoot ELSE LeaderBlock(h - 1).root
        BY <1>1, <2>4 DEF StateInv, RootsChained
      <3>2. h # 0 => h - 1 \in Heights /\ h - 1 <= c.height
        BY <1>2, <2>4, MaxHeightAssumption DEF Heights
      <3> QED BY <2>3, <2>4, <3>1, <3>2
    <2>5. b.height # 0 => LeaderBlock(b.height - 1)'.root = c.root /\ c # NoBlock
      <3>1. ASSUME b.height # 0 PROVE LeaderBlock(b.height - 1)'.root = c.root /\ c # NoBlock
        <4>1. c # NoBlock /\ b.height - 1 = c.height
          BY <1>2, <1>3, <1>7, <3>1
        <4>2. LeaderBlock(c.height)' = LeaderBlock(c.height)
          BY <1>2, <2>3, <4>1
        <4> QED BY <1>1, <1>2, <4>1, <4>2, CurrentData
      <3> QED BY <3>1
    <2>6. ASSUME NEW h \in Heights, h <= b.height
          PROVE  /\ LeaderBlock(h)'.root \in Nat
                 /\ LeaderBlock(h)'.parent =
                      IF h = 0 THEN EmptyRoot ELSE LeaderBlock(h - 1)'.root
      <3>1. CASE h = b.height
        BY <1>2, <1>3, <1>7, <2>2, <2>5, <3>1
      <3> QED BY <2>1, <2>4, <2>6, <3>1
    <2> QED BY <1>5, <2>6 DEF RootsChained
  <1> QED BY <1>2, <1>4, <1>5, <1>8, <1>9, StateFrame

\* A step that changes no chain, no state and no check of the leader's.
LEMMA QuietState ==
  ASSUME TypeOK, ChainInv, ChainExtends, StateInv,
         UNCHANGED <<latestBlock, blockDB, stateDB, roots, currentBlock>>,
         checking'[Leader] = checking[Leader]
  PROVE  StateInv'
  <1>1. RootsChained'
    BY RootsStable DEF StateInv, ChainInv
  <1>2. \A n : (LatestInv(n) => LatestInv(n)') /\ (RootInv(n) => RootInv(n)')
    BY NodeStateStable
  <1> QED BY <1>1, <1>2 DEF StateInv

LEMMA StateStep ==
  ASSUME TypeOK, TypeOK', ChainInv, ChainInv', ChainExtends, StateInv, [Next]_vars
  PROVE  StateInv'
  <1>0. Leader \in Node /\ \A n \in Validator : n \in Node /\ n # Leader
    BY LeaderNode
  <1>1. CASE Start
    BY <1>1, PrepareState DEF Start
  <1>2. ASSUME NEW m \in net, OnPrepareVoteMsg(m) PROVE StateInv'
    BY <1>2, QuietState DEF OnPrepareVoteMsg, chainVars
  <1>3. ASSUME NEW m \in net, OnPrecommitVoteMsg(m) PROVE StateInv'
    <2> DEFINE bitmap == precommitBitmap[currentBlock[Leader].height] \cup m.bitmap
    <2>1. bitmap \in SUBSET Node
      <3>1. currentBlock[Leader].height \in Heights /\ m \in Message
        BY LeaderNode, BlockFields
      <3> QED BY <3>1 DEF TypeOK, Message
    <2>2. currentBlock[Leader] # NoBlock /\ checking' = checking
      BY <1>3 DEF OnPrecommitVoteMsg, AcceptVote
    <2>3. CASE Enough(bitmap)
      <3>1. PICK sig : LeaderCommit(sig, bitmap)
        BY <1>3, <2>3 DEF OnPrecommitVoteMsg
      <3> HIDE DEF bitmap
      <3> QED BY <2>1, <2>2, <3>1, LeaderCommitState
    <2>4. CASE ~Enough(bitmap)
      BY <1>3, <2>4, QuietState DEF OnPrecommitVoteMsg, chainVars
    <2> QED BY <2>3, <2>4
  <1>4. ASSUME NEW m \in net, OnCommitVoteMsg(m) PROVE StateInv'
    <2> DEFINE bitmap == commitBitmap[currentBlock[Leader].height] \cup m.bitmap
    <2>1. checking' = checking
      BY <1>4 DEF OnCommitVoteMsg
    <2>2. CASE Enough(bitmap)
      <3>1. PICK b \in NewBlocks : Prepare(b)
        BY <1>4, <2>2 DEF OnCommitVoteMsg
      <3> QED BY <2>1, <3>1, PrepareState
    <2>3. CASE ~Enough(bitmap)
      BY <1>4, <2>1, <2>3, QuietState DEF OnCommitVoteMsg, chainVars
    <2> QED BY <2>2, <2>3
  <1>5. ASSUME NEW n \in Validator, FinishCheck(n) PROVE StateInv'
    BY <1>5, FinishCheckState
  <1>6. ASSUME NEW n \in Validator, NEW m \in net, OnPrepareMsg(n, m) PROVE StateInv'
    <2>1. checking'[Leader] = checking[Leader]
      BY <1>0, <1>6 DEF OnPrepareMsg, TypeOK
    <2> QED BY <1>6, <2>1, QuietState DEF OnPrepareMsg, chainVars
  <1>7. ASSUME NEW n \in Validator, NEW m \in net, OnPrecommitMsg(n, m) PROVE StateInv'
    BY <1>7, QuietState DEF OnPrecommitMsg, chainVars
  <1>8. ASSUME NEW n \in Validator, NEW m \in net, OnCommitMsg(n, m) PROVE StateInv'
    BY <1>8, OnCommitMsgState
  <1>9. ASSUME NEW n, Crash(n) PROVE StateInv'
    BY <1>9, QuietState DEF Crash, chainVars
  <1>10. ASSUME NEW g \in gossip, TryGossip(g) PROVE StateInv'
    BY <1>10, QuietState DEF TryGossip, chainVars
  <1>11. ASSUME NEW n \in Node, NEW i \in InboundIds, HandleHeaderMsg(n, i) PROVE StateInv'
    BY <1>11, QuietState DEF HandleHeaderMsg, ReceiveHeader, bftVars
  <1>12. CASE UNCHANGED vars
    BY <1>12, QuietState DEF vars, chainVars, bftVars
  <1> QED BY <1>1, <1>2, <1>3, <1>4, <1>5, <1>6, <1>7, <1>8, <1>9, <1>10, <1>11, <1>12
          DEF Next, NilCurrentBlock, ConcurrentMapFault

LEMMA StateInvInit == Init => StateInv
  <1> SUFFICES ASSUME Init PROVE StateInv
    OBVIOUS
  <1>1. Leader \in Node /\ \A n \in Validator : n \in Node
    BY NodeAssumption DEF Validator
  <1>2. \A n \in Node : /\ currentBlock[n] = NoBlock /\ latestBlock[n] = NoBlock
                        /\ \A h \in Heights : ~Committed(n, h)
                        /\ checking[n] = NoMessage
                        /\ stateDB[n] = EmptyRoot /\ roots[n] = {EmptyRoot}
    BY DEF Init, ChainInit, Committed
  <1>3. NoBlock.root = EmptyRoot /\ EmptyRoot \in Nat
    BY DEF NoBlock, EmptyRoot
  <1>4. \A n \in Node : RootInv(n)
    BY <1>2, <1>3 DEF RootInv
  <1>5. \A n \in Validator : LatestInv(n)
    BY <1>1, <1>2 DEF LatestInv
  <1> QED BY <1>1, <1>2, <1>4, <1>5 DEF StateInv, RootsChained

-----------------------------------------------------------------------------
(* State roots: the theorems.                                              *)

\* The invariant of states holds in every reachable state.
THEOREM StateInvariant == Spec => []StateInv
  <1>1. Init => StateInv
    BY StateInvInit
  <1>2. TypeOK /\ TypeOK' /\ ChainInv /\ ChainInv' /\ StateInv /\ [Next]_vars => StateInv'
    BY ChainStep, StateStep
  <1> QED BY <1>1, <1>2, TypeCorrect, ChainInvariant, PTL DEF Spec

\* Every node's StateDB stands at the root of its latest block, that root and
\* the one of the block in progress are in its trie database, and no state is
\* ever the result of executing a block on the wrong one (Commit, RollBack).
THEOREM StateFollows == Spec => []StateFollowsChain
  <1>1. StateInv => StateFollowsChain
    BY DEF StateInv, RootInv, StateFollowsChain, DivergedRoot
  <1> QED BY <1>1, StateInvariant, PTL

\* CheckBlock never refuses a PREPARE that has passed OnPrepareMsg.
THEOREM BlocksAccepted == Spec => []HonestBlockAccepted
  <1>1. TypeOK /\ ChainInv /\ StateInv => HonestBlockAccepted
    BY CheckedBlock DEF HonestBlockAccepted
  <1> QED BY <1>1, TypeCorrect, ChainInvariant, StateInvariant, PTL

-----------------------------------------------------------------------------
(* Inbound chunks.                                                         *)

LEMMA UsedStable ==
  ASSUME TypeOK, LeaderInv, ChainExtends, NEW h \in Heights,
         currentBlock'[Leader] # NoBlock => currentBlock[Leader] # NoBlock,
         currentBlock'[Leader].height = currentBlock[Leader].height
  PROVE  Used(h)' = Used(h)
  <1>1. currentBlock[Leader] # NoBlock => currentBlock'[Leader] # NoBlock
    BY DEF ChainExtends
  <1>2. currentBlock[Leader] # NoBlock /\ h <= currentBlock[Leader].height =>
          LeaderBlock(h)' = LeaderBlock(h)
    BY LeaderBlockStable
  <1> QED BY <1>1, <1>2 DEF Used

\* The leader proposes no block and receives no header.
LEMMA QuietInbound ==
  ASSUME TypeOK, ChainInv, ChainExtends, InboundInv,
         currentBlock'[Leader] # NoBlock => currentBlock[Leader] # NoBlock,
         currentBlock'[Leader].height = currentBlock[Leader].height,
         pool' = pool, headers'[Leader] = headers[Leader]
  PROVE  InboundInv'
  <1>1. \A h \in Heights : Used(h)' = Used(h)
    BY UsedStable DEF ChainInv
  <1> QED BY <1>1 DEF InboundInv

\* A header that is new to the leader brings a chunk that is new to its pool
\* and to its blocks.
LEMMA HandleHeaderMsgInbound ==
  ASSUME TypeOK, ChainInv, ChainExtends, InboundInv, NEW n \in Node,
         NEW x \in InboundIds, HandleHeaderMsg(n, x)
  PROVE  InboundInv'
  <1>1. /\ currentBlock' = currentBlock /\ x \notin headers[n]
        /\ headers' = [headers EXCEPT ![n] = headers[n] \cup {x}]
        /\ pool' = IF n = Leader THEN Append(pool, x) ELSE pool
    BY DEF HandleHeaderMsg, ReceiveHeader, bftVars
  <1>2. CASE n # Leader
    BY <1>1, <1>2, QuietInbound, LeaderNode DEF TypeOK, ChainTypeOK
  <1>3. CASE n = Leader
    <2>1. \A h \in Heights : Used(h)' = Used(h)
      BY <1>1, UsedStable DEF ChainInv
    <2>2. /\ headers'[Leader] = headers[Leader] \cup {x} /\ x \notin headers[Leader]
          /\ pool' = Append(pool, x) /\ pool \in Seq(InboundIds)
      BY <1>1, <1>3 DEF TypeOK, ChainTypeOK
    <2>3. /\ Len(pool') = Len(pool) + 1 /\ Len(pool) \in Nat
          /\ pool'[Len(pool) + 1] = x
          /\ \A i \in 1 .. Len(pool) : pool'[i] = pool[i]
      BY <2>2
    <2>4. \A i \in 1 .. Len(pool') : i \in 1 .. Len(pool) \/ i = Len(pool) + 1
      BY <2>3
    <2>5. /\ \A i \in 1 .. Len(pool) : pool[i] # x
          /\ \A h \in Heights : x \notin Used(h)
      BY <2>2 DEF InboundInv
    <2>6. ASSUME NEW i \in 1 .. Len(pool')
          PROVE  /\ pool'[i] \in headers'[Leader]
                 /\ \A h \in Heights : pool'[i] \notin Used(h)
                 /\ \A j \in 1 .. Len(pool') : pool'[i] = pool'[j] => i = j
      BY <2>2, <2>3, <2>4, <2>5 DEF InboundInv
    <2> QED BY <2>1, <2>2, <2>6 DEF InboundInv
  <1> QED BY <1>2, <1>3

\* The chunks CreateNewBlock takes leave the pool for the new block.
LEMMA PrepareInbound ==
  ASSUME TypeOK, ChainInv, ChainExtends, InboundInv, NEW b \in NewBlocks, Prepare(b)
  PROVE  InboundInv'
  <1>1. PICK c : c = currentBlock[Leader]
    OBVIOUS
  <1>2. /\ Leader \in Node /\ c \in Block /\ c.height \in Nat /\ c.height \in Heights
        /\ LeaderInv /\ pool \in Seq(InboundIds) /\ Len(pool) \in Nat
    BY <1>1, LeaderNode, BlockFields DEF ChainInv, TypeOK, ChainTypeOK
  <1>3. b \in Block /\ b.height \in Nat /\ b.height \in Heights
    BY NewBlockType, BlockFields DEF Prepare, CreateNewBlock
  <1>4. /\ headers' = headers
        /\ currentBlock' = [currentBlock EXCEPT ![Leader] = b]
        /\ b.height = 0 => pool' = pool
        /\ b.height # 0 => pool' = SubSeq(pool, TakenCount + 1, Len(pool))
    BY DEF Prepare, CreateNewBlock
  <1>5. currentBlock'[Leader] = b
    BY <1>2, <1>4 DEF TypeOK
  <1>6. LeaderBlock(b.height)' = b
    BY <1>2, <1>5, NewHeight DEF LeaderBlock
  <1>7. Used(b.height)' = b.inbound
    <2>1. b # NoBlock
      <3>1. b.hash = created + 1 /\ created \in Nat
        BY DEF NewBlocks, Genesis, Successor, TypeOK, ChainTypeOK
      <3> QED BY <3>1 DEF NoBlock
    <2> QED BY <1>3, <1>5, <1>6, <2>1 DEF Used
  <1>8. CASE c = NoBlock
    <2>1. latestBlock[Leader] = NoBlock
      BY <1>1, <1>2, <1>8 DEF LeaderInv
    <2>2. b.height = 0 /\ b.inbound = {}
      BY <2>1 DEF NewBlocks, Genesis
    <2>3. \A h \in Heights : Used(h)' = {}
      <3>1. \A h \in Heights : h <= b.height => h = b.height
        BY <2>2, HeightsNat
      <3> QED BY <1>5, <1>7, <2>2, <3>1 DEF Used
    <2> QED BY <1>4, <2>2, <2>3 DEF InboundInv
  <1>9. CASE c # NoBlock
    <2>1. latestBlock[Leader] = c
      BY <1>1, <1>2, <1>9 DEF LeaderInv
    <2>2. PICK root : b = Successor(root)
      BY <1>9, <2>1 DEF NewBlocks
    <2>3. /\ TakenCount \in Nat /\ TakenCount <= Len(pool)
      BY <1>2, TxLimitAssumption DEF TakenCount
    <2>4. b.height = c.height + 1 /\ b.height # 0
      BY <1>2, <2>1, <2>2 DEF Successor
    <2>5. b.inbound = {pool[i] : i \in 1 .. TakenCount}
      <3>1. \A i \in 1 .. TakenCount : TakenChunks[i] = pool[i]
        BY <1>2, <2>3 DEF TakenChunks
      <3>2. b.inbound = {TakenChunks[i] : i \in 1 .. TakenCount}
        BY <2>2 DEF Successor
      <3> QED BY <3>1, <3>2
    <2>6. /\ Len(pool') = Len(pool) - TakenCount
          /\ \A i \in 1 .. Len(pool') : /\ pool'[i] = pool[i + TakenCount]
                                        /\ i + TakenCount \in 1 .. Len(pool)
                                        /\ i + TakenCount \notin 1 .. TakenCount
      BY <1>2, <1>4, <2>3, <2>4
    <2>7. \A h \in Heights : h # b.height => Used(h)' = Used(h)
      <3>1. \A h \in Heights : h <= c.height => LeaderBlock(h)' = LeaderBlock(h)
        BY <1>1, <1>2, <1>9, LeaderBlockStable
      <3>2. \A h \in Heights : h # b.height => (h <= c.height <=> h <= b.height)
        BY <1>2, <2>4, HeightsNat
      <3>3. b # NoBlock
        BY <1>1, <1>5, <1>9 DEF ChainExtends
      <3> QED BY <1>1, <1>5, <1>9, <3>1, <3>2, <3>3 DEF Used
    <2>8. \A h \in Heights : Used(h) \cap b.inbound = {}
      <3>1. \A i \in 1 .. TakenCount : i \in 1 .. Len(pool)
        BY <1>2, <2>3
      <3> QED BY <2>5, <3>1 DEF InboundInv
    <2>9. b.inbound \subseteq headers[Leader]
      <3>1. \A i \in 1 .. TakenCount : i \in 1 .. Len(pool)
        BY <1>2, <2>3
      <3> QED BY <2>5, <3>1 DEF InboundInv
    <2>10. \A h, k \in Heights : h # k => Used(h)' \cap Used(k)' = {}
      BY <1>7, <2>7, <2>8 DEF InboundInv
    <2>11. \A h \in Heights : Used(h)' \subseteq headers'[Leader]
      BY <1>4, <1>7, <2>7, <2>9 DEF InboundInv
    <2>12. ASSUME NEW i \in 1 .. Len(pool')
           PROVE  /\ pool'[i] \in headers'[Leader]
                  /\ \A h \in Heights : pool'[i] \notin Used(h)'
                  /\ \A j \in 1 .. Len(pool') : pool'[i] = pool'[j] => i = j
      <3>1. PICK k \in 1 .. Len(pool) : k = i + TakenCount /\ pool'[i] = pool[k]
        BY <2>6
      <3>2. k \notin 1 .. TakenCount
        BY <2>6, <3>1
      <3>3. pool[k] \notin b.inbound
        <4>1. \A j \in 1 .. TakenCount : j \in 1 .. Len(pool) /\ j # k
          BY <1>2, <2>3, <3>2
        <4>2. \A j \in 1 .. Len(pool) : pool[k] = pool[j] => k = j
          BY DEF InboundInv
        <4> QED BY <2>5, <4>1, <4>2
      <3>4. \A h \in Heights : pool'[i] \notin Used(h)'
        <4>1. \A h \in Heights : pool[k] \notin Used(h)
          BY DEF InboundInv
        <4> QED BY <1>7, <2>7, <3>1, <3>3, <4>1
      <3>5. ASSUME NEW j \in 1 .. Len(pool'), pool'[i] = pool'[j] PROVE i = j
        <4>1. pool'[j] = pool[j + TakenCount] /\ j + TakenCount \in 1 .. Len(pool)
          BY <2>6
        <4>2. k = j + TakenCount
          BY <3>1, <3>5, <4>1 DEF InboundInv
        <4> QED BY <2>3, <3>1, <4>2
      <3>6. pool'[i] \in headers'[Leader]
        BY <1>4, <3>1 DEF InboundInv
      <3> QED BY <3>4, <3>5, <3>6
    <2> QED BY <2>10, <2>11, <2>12 DEF InboundInv
  <1> QED BY <1>8, <1>9

LEMMA InboundStep ==
  ASSUME TypeOK, TypeOK', ChainInv, ChainExtends, InboundInv, [Next]_vars
  PROVE  InboundInv'
  <1>0. Leader \in Node /\ \A n \in Validator : n \in Node /\ n # Leader
    BY LeaderNode
  <1>1. CASE Start
    BY <1>1, PrepareInbound DEF Start
  <1>2. ASSUME NEW m \in net, OnPrepareVoteMsg(m) PROVE InboundInv'
    BY <1>2, QuietInbound DEF OnPrepareVoteMsg, chainVars
  <1>3. ASSUME NEW m \in net, OnPrecommitVoteMsg(m) PROVE InboundInv'
    <2> DEFINE bitmap == precommitBitmap[currentBlock[Leader].height] \cup m.bitmap
    <2>1. CASE Enough(bitmap)
      <3>1. /\ currentBlock' = [currentBlock EXCEPT ![Leader] =
                                  [currentBlock[Leader] EXCEPT !.sign = bitmap]]
            /\ pool' = pool /\ headers' = headers
        BY <1>3, <2>1 DEF OnPrecommitVoteMsg, LeaderCommit, Commit
      <3>2. currentBlock[Leader] # NoBlock /\ currentBlock[Leader] \in Block
        BY <1>3, LeaderNode DEF OnPrecommitVoteMsg, AcceptVote
      <3>3. currentBlock'[Leader].height = currentBlock[Leader].height
        BY <1>0, <3>1, <3>2 DEF TypeOK, Block
      <3> QED BY <3>1, <3>2, <3>3, QuietInbound
    <2>2. CASE ~Enough(bitmap)
      BY <1>3, <2>2, QuietInbound DEF OnPrecommitVoteMsg, chainVars
    <2> QED BY <2>1, <2>2
  <1>4. ASSUME NEW m \in net, OnCommitVoteMsg(m) PROVE InboundInv'
    <2> DEFINE bitmap == commitBitmap[currentBlock[Leader].height] \cup m.bitmap
    <2>1. CASE Enough(bitmap)
      <3>1. PICK b \in NewBlocks : Prepare(b)
        BY <1>4, <2>1 DEF OnCommitVoteMsg
      <3> QED BY <3>1, PrepareInbound
    <2>2. CASE ~Enough(bitmap)
      BY <1>4, <2>2, QuietInbound DEF OnCommitVoteMsg, chainVars
    <2> QED BY <2>1, <2>2
  <1>5. ASSUME NEW n \in Validator, FinishCheck(n) PROVE InboundInv'
    <2>1. pool' = pool /\ headers' = headers
      BY <1>5 DEF FinishCheck, CheckBlock
    <2>2. currentBlock'[Leader] = currentBlock[Leader]
      BY <1>0, <1>5 DEF FinishCheck, TypeOK
    <2> QED BY <2>1, <2>2, QuietInbound
  <1>6. ASSUME NEW n \in Validator, NEW m \in net, OnPrepareMsg(n, m) PROVE InboundInv'
    BY <1>6, QuietInbound DEF OnPrepareMsg, chainVars
  <1>7. ASSUME NEW n \in Validator, NEW m \in net, OnPrecommitMsg(n, m) PROVE InboundInv'
    BY <1>7, QuietInbound DEF OnPrecommitMsg, chainVars
  <1>8. ASSUME NEW n \in Validator, NEW m \in net, OnCommitMsg(n, m) PROVE InboundInv'
    <2>1. pool' = pool /\ headers' = headers
      BY <1>8 DEF OnCommitMsg, Commit
    <2>2. currentBlock'[Leader] = currentBlock[Leader]
      BY <1>0, <1>8 DEF OnCommitMsg, TypeOK
    <2> QED BY <2>1, <2>2, QuietInbound
  <1>9. ASSUME NEW n, Crash(n) PROVE InboundInv'
    BY <1>9, QuietInbound DEF Crash, chainVars
  <1>10. ASSUME NEW g \in gossip, TryGossip(g) PROVE InboundInv'
    BY <1>10, QuietInbound DEF TryGossip, chainVars
  <1>11. ASSUME NEW n \in Node, NEW i \in InboundIds, HandleHeaderMsg(n, i)
         PROVE  InboundInv'
    BY <1>11, HandleHeaderMsgInbound
  <1>12. CASE UNCHANGED vars
    BY <1>12, QuietInbound DEF vars, chainVars, bftVars
  <1> QED BY <1>1, <1>2, <1>3, <1>4, <1>5, <1>6, <1>7, <1>8, <1>9, <1>10, <1>11, <1>12
          DEF Next, NilCurrentBlock, ConcurrentMapFault

LEMMA InboundOnceState ==
  ASSUME TypeOK, ChainInv, InboundInv
  PROVE  InboundOnce
  <1>0. LeaderInv
    BY DEF ChainInv
  <1>1. ASSUME NEW b \in Proposed
        PROVE  b.height \in Heights /\ b.hash = b.height + 1 /\ b.inbound = Used(b.height)
    <2>1. currentBlock[Leader] \in Block /\ currentBlock[Leader].height \in Nat
      BY LeaderNode, BlockFields
    <2>2. ASSUME NEW h \in Heights, b = blockDB[Leader][h], b # NoBlock
          PROVE  b.height \in Heights /\ b.hash = b.height + 1 /\ b.inbound = Used(b.height)
      <3>1. Committed(Leader, h) /\ b \in Block
        BY <2>2, LeaderNode DEF Committed
      <3>2. b.height = h /\ Linked(b)
        BY <1>0, <2>2, <3>1 DEF LeaderInv
      <3>3. currentBlock[Leader] # NoBlock
        BY <1>0, <3>1 DEF LeaderInv, Idle
      <3>4. h <= currentBlock[Leader].height
        <4>1. h < currentBlock[Leader].height \/ h = currentBlock[Leader].height
          BY <1>0, <3>1, <3>3 DEF LeaderInv, CommittedUpToCurrent
        <4> QED BY <2>1, <4>1, HeightsNat
      <3>5. LeaderBlock(h).inbound = b.inbound
        BY <2>2, <3>1, UnsignedData DEF LeaderBlock
      <3> QED BY <3>2, <3>3, <3>4, <3>5 DEF Used, Linked
    <2>3. ASSUME b = currentBlock[Leader], b # NoBlock
          PROVE  b.height \in Heights /\ b.hash = b.height + 1 /\ b.inbound = Used(b.height)
      <3>1. Linked(b) /\ b.height \in Heights /\ b.height <= currentBlock[Leader].height
        BY <1>0, <2>1, <2>3, BlockFields DEF LeaderInv
      <3>2. LeaderBlock(b.height).inbound = b.inbound
        BY <1>0, <2>3, CurrentData
      <3> QED BY <2>3, <3>1, <3>2 DEF Used, Linked
    <2> QED BY <2>2, <2>3 DEF Proposed
  <1>2. \A a, b \in Proposed : a.inbound \cap b.inbound # {} => a.hash = b.hash
    BY <1>1 DEF InboundInv
  <1>3. \A i \in 1 .. Len(pool) : \A b \in Proposed : pool[i] \notin b.inbound
    BY <1>1 DEF InboundInv
  <1> QED BY <1>2, <1>3 DEF InboundOnce, InboundInv

\* The invariant of inbound chunks holds in every reachable state.
THEOREM InboundInvariant == Spec => []InboundInv
  <1>1. Init => InboundInv
    <2>1. ASSUME Init PROVE pool = <<>> /\ currentBlock[Leader] = NoBlock
      BY <2>1, NodeAssumption DEF Init, ChainInit
    <2>2. ASSUME pool = <<>> PROVE \A i \in 1 .. Len(pool) : FALSE
      BY <2>2
    <2> QED BY <2>1, <2>2 DEF InboundInv, Used
  <1>2. TypeOK /\ TypeOK' /\ ChainInv /\ InboundInv /\ [Next]_vars => InboundInv'
    BY ChainStep, InboundStep
  <1> QED BY <1>1, <1>2, TypeCorrect, ChainInvariant, PTL DEF Spec

\* An inbound chunk enters at most one block of the leader's and is out of
\* the pool from then on, however often its header arrives (UpdateHeader,
\* takeTxs1, CreateNewBlock).
THEOREM InboundCreditedOnce == Spec => []InboundOnce
  <1>1. TypeOK /\ ChainInv /\ InboundInv => InboundOnce
    BY InboundOnceState
  <1> QED BY <1>1, TypeCorrect, ChainInvariant, InboundInvariant, PTL

-----------------------------------------------------------------------------
(* Module BFT implements module ShardLog: under the refinement mapping     *)
(* CommittedLog every step of the protocol is a step of the replicated log *)
(* or leaves the log as it is.                                             *)

\* The log of a node has the hash of a block exactly where the block is.
LEMMA LogEntries ==
  ASSUME TypeOK, ChainInv, NEW n \in Node, NEW h \in Heights
  PROVE  /\ h \in Nat
         /\ Committed(n, h) => CommittedLog[n][h] = h + 1
         /\ ~Committed(n, h) => CommittedLog[n][h] = 0
         /\ CommittedLog[n][h] # 0 <=> Committed(n, h)
  <1>1. CommittedLog[n][h] = blockDB[n][h].hash /\ h \in Nat
    BY HeightsNat DEF CommittedLog
  <1>2. ASSUME Committed(n, h) PROVE blockDB[n][h].hash = h + 1
    <2>1. Committed(Leader, h) /\ blockDB[n][h] = blockDB[Leader][h]
      BY <1>2, LeaderNode DEF ChainInv, ValidatorInv
    <2>2. blockDB[Leader][h].height = h /\ Linked(blockDB[Leader][h])
      BY <2>1 DEF ChainInv, LeaderInv
    <2> QED BY <2>1, <2>2 DEF Linked
  <1>3. ~Committed(n, h) => blockDB[n][h].hash = 0
    BY DEF Committed, NoBlock
  <1> QED BY <1>1, <1>2, <1>3

\* Storing a block at height h of node n fills position h of n's log.
LEMMA LogUpdate ==
  ASSUME TypeOK, NEW n \in Node, NEW b \in Block,
         blockDB' = [blockDB EXCEPT ![n][b.height] = b]
  PROVE  CommittedLog' = [CommittedLog EXCEPT ![n][b.height] = b.hash]
  <1> DEFINE h == b.height
             new == [CommittedLog EXCEPT ![n][h] = b.hash]
  <1>1. h \in Heights /\ blockDB \in [Node -> [Heights -> Block]]
    BY BlockFields DEF TypeOK, ChainTypeOK
  <1>2. ASSUME NEW k \in Node, NEW i \in Heights
        PROVE  blockDB'[k][i].hash = new[k][i]
    BY <1>1 DEF CommittedLog
  <1>3. new \in [Node -> [Heights -> Nat]]
    <2>1. CommittedLog \in [Node -> [Heights -> Nat]]
      BY <1>1, BlockFields DEF CommittedLog
    <2>2. b.hash \in Nat
      BY BlockFields
    <2> QED BY <1>1, <2>1, <2>2
  <1> HIDE DEF new
  <1>4. CommittedLog' = [k \in Node |-> [i \in Heights |-> blockDB'[k][i].hash]]
    BY DEF CommittedLog
  <1>5. new = [k \in Node |-> [i \in Heights |-> new[k][i]]]
    BY <1>3
  <1>6. CommittedLog' = new
    BY <1>2, <1>4, <1>5
  <1> QED BY <1>6 DEF new

\* The next position a node has to fill is its current height, until it
\* commits there.
LEMMA NextPosition ==
  ASSUME TypeOK, ChainInv, NEW n \in Node, currentBlock[n] # NoBlock,
         phase[n].bftPhase # BFT_COMMIT
  PROVE  /\ Abstract!NextFree(n, currentBlock[n].height)
         /\ \A h \in Heights : Committed(n, h) <=> h < currentBlock[n].height
         /\ currentBlock[n].height \in Heights
         /\ Linked(currentBlock[n])
  <1>1. PICK c : c = currentBlock[n]
    OBVIOUS
  <1>2. c \in Block /\ c.height \in Heights /\ c.height \in Nat
    BY <1>1, LeaderNode, BlockFields
  <1>3. CommittedUpToCurrent(n) /\ Linked(c)
    BY <1>1, LeaderNode, ValidatorFacts DEF ChainInv, ValidatorInv, LeaderInv
  <1>4. \A h \in Heights : Committed(n, h) <=> h < c.height
    BY <1>1, <1>3 DEF CommittedUpToCurrent
  <1>5. CommittedLog[n][c.height] = 0 /\ \A k \in Heights : k < c.height => CommittedLog[n][k] # 0
    BY <1>2, <1>4, LogEntries
  <1> QED BY <1>1, <1>2, <1>3, <1>4, <1>5 DEF Abstract!NextFree, Abstract!Positions, Heights

\* The leader's commit appends to its log.
LEMMA LeaderCommitLog ==
  ASSUME TypeOK, ChainInv, NEW m \in net, OnPrecommitVoteMsg(m), NEW sig,
         NEW bitmap \in SUBSET Node, LeaderCommit(sig, bitmap)
  PROVE  Abstract!Next
  <1>1. PICK c, h, signed : /\ c = currentBlock[Leader] /\ h = c.height
                            /\ signed = [c EXCEPT !.sign = bitmap]
    OBVIOUS
  <1>2. /\ Leader \in Node /\ c \in Block /\ LeaderInv /\ MessageInv(m)
        /\ phase[Leader].bftPhase \in 0 .. 3
    BY <1>1, LeaderNode DEF ChainInv
  <1>3. c # NoBlock /\ phase[Leader].bftPhase # BFT_COMMIT
    <2>1. AcceptVote(m, BFT_PRECOMMIT, precommitBitmap[h])
      BY <1>1 DEF OnPrecommitVoteMsg
    <2>2. c # NoBlock /\ ~(phase[Leader].bftPhase > BFT_PRECOMMIT)
      BY <1>1, <1>2, <2>1, VoteHeight
    <2> QED BY <1>2, <2>2 DEF BFT_PRECOMMIT, BFT_COMMIT
  <1>4. /\ Abstract!NextFree(Leader, h) /\ h \in Heights /\ Linked(c)
        /\ \A k \in Heights : Committed(Leader, k) <=> k < h
    BY <1>1, <1>2, <1>3, NextPosition
  <1>5. signed \in Block /\ signed.height = h /\ signed.hash = c.hash
    <2>1. signed \in Block /\ signed.height = c.height /\ signed.hash = c.hash
      BY <1>1, <1>2 DEF Block
    <2> QED BY <1>1, <2>1
  <1>6. c.hash = h + 1 /\ h \in Nat /\ h \in 0 .. MaxHeight
    BY <1>1, <1>4, HeightsNat DEF Linked, Heights
  <1>7. CommittedLog' = [CommittedLog EXCEPT ![Leader][h] = h + 1]
    <2>1. Commit(Leader, signed)
      BY <1>1 DEF LeaderCommit
    <2>2. blockDB' = [blockDB EXCEPT ![Leader][signed.height] = signed]
      BY <2>1 DEF Commit
    <2>3. CommittedLog' = [CommittedLog EXCEPT ![Leader][signed.height] = signed.hash]
      BY <1>2, <1>5, <2>2, LogUpdate
    <2> QED BY <1>5, <1>6, <2>3
  <1>8. \A k \in Heights : CommittedLog[Leader][k] # h + 1
    <2>1. ASSUME NEW k \in Heights PROVE CommittedLog[Leader][k] # h + 1
      <3>1. /\ k \in Nat
            /\ k < h => CommittedLog[Leader][k] = k + 1
            /\ ~(k < h) => CommittedLog[Leader][k] = 0
        BY <1>2, <1>4, LogEntries
      <3> QED BY <1>6, <3>1
    <2> QED BY <2>1
  <1>9. h > 0 => Cardinality({n \in Node : CommittedLog[n][h - 1] # 0}) >= ConsensusThreshold
    <2>1. ASSUME h > 0
          PROVE  Cardinality({n \in Node : CommittedLog[n][h - 1] # 0}) >= ConsensusThreshold
      <3>1. h - 1 \in Heights /\ h - 1 < c.height
        BY <1>1, <1>6, <2>1, MaxHeightAssumption DEF Heights
      <3>2. {n \in Node : CommittedLog[n][h - 1] # 0} = {n \in Node : Committed(n, h - 1)}
        BY <3>1, LogEntries
      <3>3. Cardinality({n \in Node : Committed(n, h - 1)}) >= ConsensusThreshold
        BY <1>1, <3>1, DurableState DEF QuorumDurable
      <3> QED BY <3>2, <3>3
    <2> QED BY <2>1
  <1>10. Abstract!Append(h, h + 1)
    BY <1>4, <1>7, <1>8, <1>9
    DEF Abstract!Append, Abstract!Positions, Heights, Abstract!Cardinality, Cardinality,
        Abstract!IsFiniteSet, IsFiniteSet
  <1>11. h + 1 \in 1 .. (MaxHeight + 1) /\ h \in Abstract!Positions
    BY <1>6, MaxHeightAssumption DEF Abstract!Positions
  <1> QED BY <1>10, <1>11 DEF Abstract!Next

\* A validator's commit copies the next entry of the leader's log.
LEMMA OnCommitMsgLog ==
  ASSUME TypeOK, TypeOK', ChainInv, NEW n \in Validator, NEW m \in net,
         OnCommitMsg(n, m)
  PROVE  Abstract!Next
  <1>1. PICK c, h, signed : /\ c = currentBlock[n] /\ h = c.height
                            /\ signed = [c EXCEPT !.sign = m.bitmap]
    OBVIOUS
  <1>2. /\ Leader \in Node /\ n \in Node /\ n # Leader /\ c \in Block /\ LeaderInv
        /\ ValidatorInv(n) /\ MessageInv(m) /\ c # NoBlock /\ phase[n] \in Phase
        /\ m.block \in Block /\ m.bitmap \in SUBSET Node /\ h \in Nat
    BY <1>1, LeaderNode, BlockFields DEF ChainInv, OnCommitMsg, Message
  <1>3. Linked(c) /\ phase[n].height = h
    BY <1>1, <1>2, ValidatorFacts DEF ValidatorInv
  <1>4. m.block.height = h
    <2>1. m.block.hash = c.hash /\ Linked(m.block)
      BY <1>1, <1>2 DEF OnCommitMsg, Certified, MessageInv
    <2> QED BY <1>1, <1>2, <1>3, <2>1, BlockFields DEF Linked
  <1>5. phase[n].bftPhase # BFT_COMMIT
    <2>1. IsNew(phase[n], At(h, BFT_COMMIT))
      BY <1>4 DEF OnCommitMsg, InOrder
    <2> QED BY <1>2, <1>3, <2>1, AtFields DEF IsNew, BFT_COMMIT
  <1>6. Abstract!NextFree(n, h) /\ h \in Heights
    BY <1>1, <1>2, <1>5, NextPosition
  <1>7. Committed(Leader, h)
    BY <1>2, <1>4 DEF MessageInv, OnCommitMsg
  <1>8. CommittedLog[Leader][h] = h + 1 /\ c.hash = h + 1
    BY <1>1, <1>2, <1>3, <1>6, <1>7, LogEntries DEF Linked
  <1>9. CommittedLog' = [CommittedLog EXCEPT ![n][h] = CommittedLog[Leader][h]]
    <2>1. signed \in Block /\ signed.height = c.height /\ signed.hash = c.hash
      BY ONLY <1>1, <1>2, SignedBlock
    <2>2. Commit(n, signed)
      BY <1>1 DEF OnCommitMsg
    <2>3. blockDB' = [blockDB EXCEPT ![n][signed.height] = signed]
      BY <2>2 DEF Commit
    <2>4. CommittedLog' = [CommittedLog EXCEPT ![n][signed.height] = signed.hash]
      BY <1>2, <2>1, <2>3, LogUpdate
    <2> QED BY <1>1, <1>8, <2>1, <2>4
  <1>10. Abstract!Copy(n, h)
    BY <1>2, <1>6, <1>8, <1>9 DEF Abstract!Copy
  <1>11. h \in Abstract!Positions /\ n \in Node \ {Leader}
    BY <1>2, <1>6 DEF Abstract!Positions, Heights
  <1> QED BY <1>10, <1>11 DEF Abstract!Next

\* No other step stores a block.
LEMMA LogStep ==
  ASSUME TypeOK, TypeOK', ChainInv, [Next]_vars
  PROVE  [Abstract!Next]_CommittedLog
  <1>0. blockDB' = blockDB => UNCHANGED CommittedLog
    BY DEF CommittedLog
  <1>1. CASE Start
    BY <1>0, <1>1 DEF Start, Prepare, CreateNewBlock
  <1>2. ASSUME NEW m \in net, OnPrepareVoteMsg(m) PROVE UNCHANGED CommittedLog
    BY <1>0, <1>2 DEF OnPrepareVoteMsg, chainVars
  <1>3. ASSUME NEW m \in net, OnPrecommitVoteMsg(m) PROVE [Abstract!Next]_CommittedLog
    <2> DEFINE bitmap == precommitBitmap[currentBlock[Leader].height] \cup m.bitmap
    <2>1. bitmap \in SUBSET Node
      <3>1. currentBlock[Leader].height \in Heights /\ m \in Message
        BY LeaderNode, BlockFields
      <3> QED BY <3>1 DEF TypeOK, Message
    <2>2. CASE Enough(bitmap)
      <3>1. PICK sig : LeaderCommit(sig, bitmap)
        BY <1>3, <2>2 DEF OnPrecommitVoteMsg
      <3> HIDE DEF bitmap
      <3> QED BY <1>3, <2>1, <3>1, LeaderCommitLog
    <2>3. CASE ~Enough(bitmap)
      BY <1>0, <1>3, <2>3 DEF OnPrecommitVoteMsg, chainVars
    <2> QED BY <2>2, <2>3
  <1>4. ASSUME NEW m \in net, OnCommitVoteMsg(m) PROVE UNCHANGED CommittedLog
    <2>1. blockDB' = blockDB
      BY <1>4 DEF OnCommitVoteMsg, Prepare, CreateNewBlock, chainVars
    <2> QED BY <1>0, <2>1
  <1>5. ASSUME NEW n \in Validator, FinishCheck(n) PROVE UNCHANGED CommittedLog
    BY <1>0, <1>5 DEF FinishCheck, CheckBlock
  <1>6. ASSUME NEW n \in Validator, NEW m \in net, OnPrepareMsg(n, m)
        PROVE  UNCHANGED CommittedLog
    BY <1>0, <1>6 DEF OnPrepareMsg, chainVars
  <1>7. ASSUME NEW n \in Validator, NEW m \in net, OnPrecommitMsg(n, m)
        PROVE  UNCHANGED CommittedLog
    BY <1>0, <1>7 DEF OnPrecommitMsg, chainVars
  <1>8. ASSUME NEW n \in Validator, NEW m \in net, OnCommitMsg(n, m) PROVE Abstract!Next
    BY <1>8, OnCommitMsgLog
  <1>9. ASSUME NEW n, Crash(n) PROVE UNCHANGED CommittedLog
    BY <1>0, <1>9 DEF Crash, chainVars
  <1>10. ASSUME NEW g \in gossip, TryGossip(g) PROVE UNCHANGED CommittedLog
    BY <1>0, <1>10 DEF TryGossip, chainVars
  <1>11. ASSUME NEW n \in Node, NEW i \in InboundIds, HandleHeaderMsg(n, i)
         PROVE  UNCHANGED CommittedLog
    BY <1>0, <1>11 DEF HandleHeaderMsg, ReceiveHeader
  <1>12. CASE UNCHANGED vars
    BY <1>0, <1>12 DEF vars, chainVars
  <1> QED BY <1>1, <1>2, <1>3, <1>4, <1>5, <1>6, <1>7, <1>8, <1>9, <1>10, <1>11, <1>12
          DEF Next, NilCurrentBlock, ConcurrentMapFault

\* The consensus of a shard implements the replicated log, for every shard
\* size and chain length and whatever the network does: the leader appends a
\* fresh block on top of one a quorum stores, a validator copies the leader's
\* next block, and nothing else ever happens to a BlockDB.
THEOREM Refinement == Spec => ImplementsLog
  <1>1. Init => Abstract!Init
    BY DEF Init, ChainInit, Abstract!Init, Abstract!Positions, CommittedLog, Heights, NoBlock
  <1>2. TypeOK /\ TypeOK' /\ ChainInv /\ [Next]_vars => [Abstract!Next]_CommittedLog
    BY LogStep
  <1> QED BY <1>1, <1>2, TypeCorrect, ChainInvariant, PTL DEF Spec, ImplementsLog, Abstract!Spec
=============================================================================
