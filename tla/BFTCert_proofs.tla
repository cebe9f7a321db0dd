--------------------------- MODULE BFTCert_proofs ---------------------------
(***************************************************************************)
(* What the certificates of module BFT stand for, proved from CertInv:     *)
(* every signer a PRECOMMIT, a COMMIT or a header names did vote, is        *)
(* counted once, and a quorum of them stands behind every commit.          *)
(***************************************************************************)
EXTENDS BFTInv_proofs

-----------------------------------------------------------------------------
(* Signatures.                                                             *)

\* Adding a new signer's signature to an aggregate is adding the signer to
\* the bitmap.
LEMMA AddSigner ==
  ASSUME NEW s, NEW t, NEW p, NEW hash, NEW B \in SUBSET Node, NEW n \in Node,
         n \notin B, VerifyAggregateSig(s, p, hash, B),
         VerifyAggregateSig(t, p, hash, {n})
  PROVE  VerifyAggregateSig(Add(s, t), p, hash, B \cup {n})
  <1>1. /\ s = [bftPhase |-> p, hash |-> hash, by |-> Indicator(B)]
        /\ t = [bftPhase |-> p, hash |-> hash, by |-> Indicator({n})]
    BY DEF VerifyAggregateSig
  <1>2. [k \in Node |-> s.by[k] + t.by[k]] = Indicator(B \cup {n})
    <2>1. \A k \in Node : s.by[k] + t.by[k] = IF k \in B \cup {n} THEN 1 ELSE 0
      BY <1>1 DEF Indicator
    <2> QED BY <2>1 DEF Indicator
  <1>3. Add(s, t) = [s EXCEPT !.by = Indicator(B \cup {n})]
    BY <1>2 DEF Add
  <1> QED BY <1>1, <1>3 DEF VerifyAggregateSig

\* A validator's vote verifies against the validator's own key.
LEMMA VoteSignature ==
  ASSUME NEW n \in Validator, NEW s, NEW p, NEW hash, VerifySign(s, p, hash, {n})
  PROVE  VerifyAggregateSig(s, p, hash, {n})
  <1>1. FirstKeys({n}) = {n}
    BY DEF FirstKeys, Validator
  <1> QED BY <1>1 DEF VerifySign

\* A vote the leader accepts is one new validator's, with a valid signature.
LEMMA AcceptedVote ==
  ASSUME TypeOK, LeaderInv, NEW m \in net, MessageInv(m), m.type \in VoteTypes,
         NEW p, NEW B, AcceptVote(m, p, B)
  PROVE  \E n \in Validator :
            /\ m.bitmap = {n} /\ n \notin B
            /\ m.block.hash = currentBlock[Leader].hash
            /\ VerifyAggregateSig(m.sig, p, currentBlock[Leader].hash, {n})
  <1>1. PICK n \in Validator : m.bitmap = {n}
    BY DEF MessageInv
  <1>2. n \notin B /\ m.block.hash = currentBlock[Leader].hash
        /\ VerifySign(m.sig, p, m.block.hash, {n})
    BY <1>1 DEF AcceptVote
  <1> QED BY <1>1, <1>2, VoteSignature

\* A hash determines the height.
LEMMA SameHash ==
  ASSUME NEW a \in Block, NEW b \in Block, Linked(a), Linked(b), a.hash = b.hash
  PROVE  a.height = b.height
  BY BlockFields DEF Linked

-----------------------------------------------------------------------------
(* Phases.                                                                 *)

\* No step takes a node back to an earlier phase.
PhasesGrow ==
    \A n \in Node : \/ phase'[n] = phase[n]
                    \/ \E h \in Heights, p \in 0 .. 3 :
                         phase'[n] = Switch(phase[n], At(h, p))

LEMMA SwitchReached ==
  ASSUME NEW q \in Phase, NEW h \in Nat, NEW p \in 0 .. 3
  PROVE  ~IsOut(At(h, p), Switch(q, At(h, p)))
  BY DEF Phase, At, IsOut, IsNew, Switch, BFT_INIT, BFT_COMMIT

LEMMA SwitchKeeps ==
  ASSUME NEW q \in Phase, NEW h \in Nat, NEW p \in 0 .. 3,
         NEW k \in Nat, NEW r \in 0 .. 3, ~IsOut(At(k, r), q)
  PROVE  ~IsOut(At(k, r), Switch(q, At(h, p)))
  BY DEF Phase, At, IsOut, IsNew, Switch, BFT_INIT, BFT_COMMIT

LEMMA ReachedStable ==
  ASSUME TypeOK, PhasesGrow, NEW n \in Node, NEW h \in Nat, NEW p \in 0 .. 3,
         Reached(n, h, p)
  PROVE  Reached(n, h, p)'
  <1>1. phase[n] \in Phase
    BY LeaderNode
  <1>2. CASE phase'[n] = phase[n]
    BY <1>2 DEF Reached
  <1>3. ASSUME NEW k \in Heights, NEW r \in 0 .. 3,
               phase'[n] = Switch(phase[n], At(k, r))
        PROVE  Reached(n, h, p)'
    <2>1. ~IsOut(At(h, p), Switch(phase[n], At(k, r)))
      BY <1>1, HeightsNat, SwitchKeeps DEF Reached
    <2> QED BY <1>3, <2>1 DEF Reached
  <1> QED BY <1>2, <1>3 DEF PhasesGrow

-----------------------------------------------------------------------------
(* What a step leaves as it is.                                            *)

LEMMA VotedStable ==
  ASSUME net \subseteq net', NEW n, NEW b, NEW p, Voted(n, b, p)
  PROVE  Voted(n, b, p)'
  BY DEF Voted

\* A vote on the wire has been cast.
LEMMA VoteCast ==
  ASSUME NEW n, NEW b, NEW m \in net, m.block.hash = b.hash, m.bitmap = {n}
  PROVE  /\ m.type = "PREPAREVOTE" => Voted(n, b, BFT_PREPARE)
         /\ m.type = "PRECOMMITVOTE" => Voted(n, b, BFT_PRECOMMIT)
  BY DEF Voted, BFT_PREPARE, BFT_PRECOMMIT, BFT_COMMIT

LEMMA MessageCertStable ==
  ASSUME TypeOK, net \subseteq net', PhasesGrow, NEW m \in net, MessageCert(m)
  PROVE  MessageCert(m)'
  <1>1. /\ m.block.height \in Nat /\ m.bitmap \subseteq Node /\ Leader \in Node
        /\ BFT_PRECOMMIT \in 0 .. 3
    BY LeaderNode, BlockFields DEF Message, BFT_PRECOMMIT
  <1>2. \A p : QuorumCert(m, p) => QuorumCert(m, p)'
    BY VotedStable DEF QuorumCert
  <1>3. \A n \in Node : Reached(n, m.block.height, BFT_PRECOMMIT) =>
                        Reached(n, m.block.height, BFT_PRECOMMIT)'
    BY <1>1, ReachedStable
  <1> QED BY <1>1, <1>2, <1>3 DEF MessageCert

LEMMA BlockCertStable ==
  ASSUME net \subseteq net', NEW b, BlockCert(b)
  PROVE  BlockCert(b)'
  BY VotedStable DEF BlockCert

\* The leader takes no part in the step.
LEMMA LeaderCertStable ==
  ASSUME LeaderCert, net \subseteq net',
         currentBlock'[Leader] = currentBlock[Leader],
         phase'[Leader] = phase[Leader],
         UNCHANGED <<prepareBitmap, precommitBitmap, aggregatePrepareSig,
                     aggregatePrecommitSig>>
  PROVE  LeaderCert'
  BY VotedStable DEF LeaderCert

\* A step preserves the invariant if it does so for the leader's aggregates
\* and for what is sent and committed for the first time.
LEMMA CertFrame ==
  ASSUME TypeOK, ChainExtends, CertInv, net \subseteq net', PhasesGrow, LeaderCert',
         \A m \in net' : m \in net \/ MessageCert(m)',
         \A h \in Heights : Committed(Leader, h)' =>
            Committed(Leader, h) \/ BlockCert(blockDB[Leader][h])',
         \A s \in sent' : s \in sent \/ BlockCert(s.block)'
  PROVE  CertInv'
  <1>1. \A m \in net' : MessageCert(m)'
    BY MessageCertStable DEF CertInv
  <1>2. \A h \in Heights : Committed(Leader, h)' => BlockCert(blockDB[Leader][h])'
    <2>1. \A h \in Heights : Committed(Leader, h) => blockDB'[Leader][h] = blockDB[Leader][h]
      BY LeaderNode DEF ChainExtends
    <2>2. ASSUME NEW h \in Heights, Committed(Leader, h)
          PROVE  BlockCert(blockDB[Leader][h])'
      <3>1. PICK b : b = blockDB[Leader][h]
        OBVIOUS
      <3>2. BlockCert(b)' /\ b = blockDB'[Leader][h]
        BY <2>1, <2>2, <3>1, BlockCertStable DEF CertInv
      <3> QED BY <3>2 DEF BlockCert
    <2> QED BY <2>2
  <1>3. \A s \in sent' : BlockCert(s.block)'
    BY BlockCertStable DEF CertInv
  <1> QED BY <1>1, <1>2, <1>3 DEF CertInv

-----------------------------------------------------------------------------
(* The validators' actions.                                                *)

\* A vote that validator n starts to gossip.
LEMMA VoteCert ==
  ASSUME TypeOK, NEW type \in VoteTypes, NEW b \in Block, NEW sig,
         NEW n \in Validator,
         StartGossip(type, HeaderOnly(b), sig, n, {n}),
         type = "PRECOMMITVOTE" =>
            /\ Reached(Leader, b.height, BFT_PRECOMMIT)'
            /\ Reached(n, b.height, BFT_PRECOMMIT)'
  PROVE  /\ net \subseteq net'
         /\ \A m \in net' : m \in net \/ MessageCert(m)'
  <1> DEFINE v == [type |-> type, block |-> HeaderOnly(b), sig |-> sig, bitmap |-> {n}]
  <1>1. net' = net \cup {v}
    BY DEF StartGossip
  <1>2. HeaderOnly(b).height = b.height
    BY HeaderOnlyType
  <1>3. MessageCert(v)'
    BY <1>2 DEF MessageCert, VoteTypes
  <1> QED BY <1>1, <1>3

LEMMA FinishCheckCert ==
  ASSUME TypeOK, ChainExtends, CertInv, ChainInv, NEW n \in Validator, FinishCheck(n)
  PROVE  CertInv'
  <1> SUFFICES ASSUME NEW b, b = checking[n].block PROVE CertInv'
    OBVIOUS
  <1>1. /\ n \in Node /\ n # Leader /\ Leader \in Node
        /\ b \in Block /\ b.height \in Heights
    <2>1. checking[n] \in net
      BY DEF FinishCheck, ChainInv, ValidatorInv
    <2> QED BY <2>1, LeaderNode, BlockFields
  <1>2. /\ blockDB' = blockDB /\ sent' = sent
        /\ UNCHANGED <<prepareBitmap, precommitBitmap, aggregatePrepareSig,
                       aggregatePrecommitSig>>
    BY DEF FinishCheck, CheckBlock
  <1>3. /\ currentBlock'[Leader] = currentBlock[Leader]
        /\ phase'[Leader] = phase[Leader]
        /\ PhasesGrow
    <2>1. CASE CheckBlockOK(n, b)
      <3>1. /\ currentBlock' = [currentBlock EXCEPT ![n] = b]
            /\ phase' = [phase EXCEPT ![n] = Switch(phase[n], At(b.height, BFT_PREPARE))]
        BY <2>1 DEF FinishCheck
      <3> QED BY <1>1, <3>1 DEF TypeOK, PhasesGrow, BFT_PREPARE
    <2>2. CASE ~CheckBlockOK(n, b)
      BY <2>2 DEF FinishCheck, PhasesGrow
    <2> QED BY <2>1, <2>2
  <1>4. net \subseteq net' /\ \A m \in net' : m \in net \/ MessageCert(m)'
    <2>1. CASE CheckBlockOK(n, b)
      <3>1. StartGossip("PREPAREVOTE", HeaderOnly(b), Sign(BFT_PREPARE, b.hash, n), n, {n})
        BY <2>1 DEF FinishCheck
      <3> QED BY <1>1, <3>1, VoteCert DEF VoteTypes
    <2>2. CASE ~CheckBlockOK(n, b)
      BY <2>2 DEF FinishCheck
    <2> QED BY <2>1, <2>2
  <1>5. LeaderCert'
    BY <1>2, <1>3, <1>4, LeaderCertStable DEF CertInv
  <1>6. \A h \in Heights : Committed(Leader, h)' => Committed(Leader, h)
    BY <1>2 DEF Committed
  <1> QED BY <1>2, <1>3, <1>4, <1>5, <1>6, CertFrame

LEMMA OnPrecommitMsgCert ==
  ASSUME TypeOK, ChainExtends, CertInv, ChainInv, NEW n \in Validator, NEW m \in net,
         OnPrecommitMsg(n, m)
  PROVE  CertInv'
  <1> SUFFICES ASSUME NEW b, b = currentBlock[n] PROVE CertInv'
    OBVIOUS
  <1>1. /\ n \in Node /\ n # Leader /\ Leader \in Node /\ phase[n] \in Phase
        /\ b \in Block /\ b.height \in Heights /\ b.height \in Nat
        /\ m.block \in Block /\ m.block.height \in Nat
    BY LeaderNode, BlockFields
  <1>2. /\ blockDB' = blockDB /\ sent' = sent
        /\ UNCHANGED <<currentBlock, prepareBitmap, precommitBitmap,
                       aggregatePrepareSig, aggregatePrecommitSig>>
    BY DEF OnPrecommitMsg, chainVars
  <1>3. phase' = [phase EXCEPT ![n] = Switch(phase[n], At(b.height, BFT_PRECOMMIT))]
    BY DEF OnPrecommitMsg
  <1>4. phase'[Leader] = phase[Leader] /\ PhasesGrow
        /\ phase'[n] = Switch(phase[n], At(b.height, BFT_PRECOMMIT))
    BY <1>1, <1>3 DEF TypeOK, PhasesGrow, BFT_PRECOMMIT
  <1>5. m.block.height = b.height
    <2>1. m.block.hash = b.hash /\ b # NoBlock
      BY DEF OnPrecommitMsg, Certified
    <2>2. Linked(m.block) /\ Linked(b)
      BY <2>1, ValidatorFacts DEF ChainInv, MessageInv
    <2> QED BY <1>1, <2>1, <2>2, SameHash
  <1>6. Reached(n, m.block.height, BFT_PRECOMMIT)'
    BY <1>1, <1>4, <1>5, SwitchReached DEF Reached, BFT_PRECOMMIT
  <1>7. Reached(Leader, m.block.height, BFT_PRECOMMIT)'
    BY <1>1, <1>4, ReachedStable DEF CertInv, MessageCert, OnPrecommitMsg, BFT_PRECOMMIT
  <1>8. net \subseteq net' /\ \A v \in net' : v \in net \/ MessageCert(v)'
    BY <1>1, <1>6, <1>7, VoteCert DEF OnPrecommitMsg, VoteTypes
  <1>9. LeaderCert'
    BY <1>2, <1>4, <1>8, LeaderCertStable DEF CertInv
  <1>10. \A h \in Heights : Committed(Leader, h)' => Committed(Leader, h)
    BY <1>2 DEF Committed
  <1> QED BY <1>2, <1>4, <1>8, <1>9, <1>10, CertFrame

\* The block a validator commits, and whose header it sends, is the leader's.
LEMMA OnCommitMsgCert ==
  ASSUME TypeOK, TypeOK', ChainExtends, CertInv, ChainInv, ChainInv',
         NEW n \in Validator, NEW m \in net, OnCommitMsg(n, m)
  PROVE  CertInv'
  <1> SUFFICES ASSUME NEW b, b = currentBlock[n],
                      NEW signed, signed = [b EXCEPT !.sign = m.bitmap]
               PROVE  CertInv'
    OBVIOUS
  <1>1. /\ n \in Node /\ n # Leader /\ Leader \in Node /\ phase[n] \in Phase
        /\ b \in Block /\ b.height \in Heights /\ b.height \in Nat
        /\ m.block \in Block /\ m.bitmap \in SUBSET Node
    BY LeaderNode, BlockFields DEF Message
  <1>2. /\ UNCHANGED <<prepareBitmap, precommitBitmap, aggregatePrepareSig,
                       aggregatePrecommitSig>>
        /\ phase' = [phase EXCEPT ![n] = Switch(phase[n], At(b.height, BFT_COMMIT))]
        /\ currentBlock' = [currentBlock EXCEPT ![n] = signed]
        /\ Commit(n, signed)
    BY DEF OnCommitMsg
  <1>3. phase'[Leader] = phase[Leader] /\ PhasesGrow
        /\ currentBlock'[Leader] = currentBlock[Leader]
    BY <1>1, <1>2 DEF TypeOK, PhasesGrow, BFT_COMMIT
  <1>4. net \subseteq net' /\ \A v \in net' : v \in net \/ MessageCert(v)'
    BY <1>1, VoteCert DEF OnCommitMsg, VoteTypes
  <1>5. LeaderCert'
    BY <1>2, <1>3, <1>4, LeaderCertStable DEF CertInv
  <1>6. signed \in Block /\ signed.height = b.height /\ signed # NoBlock
    <2>1. Linked(b)
      BY ValidatorFacts DEF ChainInv, OnCommitMsg
    <2>2. signed \in Block /\ signed.height = b.height /\ (Linked(signed) <=> Linked(b))
      BY <1>1, SignedBlock
    <2> QED BY <2>1, <2>2, LinkedBlock
  <1>7. /\ blockDB'[Leader] = blockDB[Leader]
        /\ blockDB'[n][b.height] = signed
    BY <1>1, <1>2, <1>6 DEF Commit, TypeOK, ChainTypeOK
  <1>8. \A h \in Heights : Committed(Leader, h)' => Committed(Leader, h)
    BY <1>7 DEF Committed
  <1>9. BlockCert(signed)'
    <2>1. Committed(Leader, b.height)' /\ signed = blockDB'[Leader][b.height]
      BY <1>1, <1>6, <1>7 DEF ChainInv, ValidatorInv, Committed
    <2>2. BlockCert(signed)
      BY <1>1, <1>7, <1>8, <2>1 DEF CertInv
    <2> QED BY <1>4, <2>2, BlockCertStable
  <1>10. \A s \in sent' : s \in sent \/ BlockCert(s.block)'
    <2>1. \A s \in sent' : s \in sent \/ s.block = signed
      BY <1>2 DEF Commit, Outgoing
    <2> QED BY <1>9, <2>1 DEF BlockCert
  <1> QED BY <1>3, <1>4, <1>5, <1>8, <1>10, CertFrame

\* A step that changes neither the leader nor a phase nor what has been sent,
\* but for the bytes of a PREPARE.
LEMMA QuietCert ==
  ASSUME TypeOK, ChainExtends, CertInv, net \subseteq net',
         \A m \in net' : m \in net \/ m.type = "PREPARE",
         UNCHANGED <<blockDB, sent, phase, currentBlock, prepareBitmap,
                     precommitBitmap, aggregatePrepareSig, aggregatePrecommitSig>>
  PROVE  CertInv'
  <1>1. PhasesGrow
    BY DEF PhasesGrow
  <1>2. \A m \in net' : m \in net \/ MessageCert(m)'
    BY DEF MessageCert
  <1>3. LeaderCert'
    BY LeaderCertStable DEF CertInv
  <1>4. \A h \in Heights : Committed(Leader, h)' => Committed(Leader, h)
    BY DEF Committed
  <1> QED BY <1>1, <1>2, <1>3, <1>4, CertFrame

-----------------------------------------------------------------------------
(* The leader's actions.                                                   *)

\* A block the leader proposes puts it into the prepare phase of a new height.
LEMMA PreparePhase ==
  ASSUME TypeOK, LeaderInv, NEW b \in NewBlocks, Prepare(b)
  PROVE  phase'[Leader] = At(b.height, BFT_PREPARE)
  <1>1. /\ Leader \in Node /\ phase[Leader] \in Phase /\ phase[Leader].height \in Nat
        /\ currentBlock[Leader].height \in Nat
    BY LeaderNode, BlockFields
  <1>2. IsNew(phase[Leader], At(b.height, BFT_PREPARE))
    <2>1. CASE currentBlock[Leader] = NoBlock
      <3>1. phase[Leader] = At(0, BFT_INIT) /\ latestBlock[Leader] = NoBlock
        BY <2>1 DEF LeaderInv, Idle
      <3>2. b.height = 0
        BY <3>1 DEF NewBlocks, Genesis
      <3> QED BY <3>1, <3>2, AtFields DEF IsNew, BFT_INIT, BFT_PREPARE
    <2>2. CASE currentBlock[Leader] # NoBlock
      <3>1. phase[Leader].height = currentBlock[Leader].height
        BY <2>2 DEF LeaderInv
      <3> QED BY <1>1, <2>2, <3>1, SuccessorHeight, AtFields DEF IsNew
    <2> QED BY <2>1, <2>2
  <1>3. phase' = [phase EXCEPT ![Leader] = Switch(phase[Leader], At(b.height, BFT_PREPARE))]
    BY DEF Prepare
  <1> QED BY <1>1, <1>2, <1>3, SwitchNew DEF TypeOK

LEMMA PrepareCert ==
  ASSUME TypeOK, ChainExtends, CertInv, LeaderInv, NEW b \in NewBlocks, Prepare(b),
         UNCHANGED <<precommitBitmap, aggregatePrecommitSig>>
  PROVE  CertInv'
  <1>1. Leader \in Node /\ b \in Block /\ b.height \in Heights
    BY LeaderNode, NewBlockType, BlockFields DEF Prepare, CreateNewBlock
  <1>2. /\ blockDB' = blockDB /\ sent' = sent
        /\ currentBlock' = [currentBlock EXCEPT ![Leader] = b]
        /\ prepareBitmap' = [prepareBitmap EXCEPT ![b.height] = {Leader}]
        /\ aggregatePrepareSig' = Sign(BFT_PREPARE, b.hash, Leader)
        /\ phase' = [phase EXCEPT ![Leader] = Switch(phase[Leader], At(b.height, BFT_PREPARE))]
        /\ StartGossip("PREPARE", b, Sign(BFT_PREPARE, b.hash, Leader), Leader, {Leader})
    BY DEF Prepare, CreateNewBlock
  <1>3. PhasesGrow
    BY <1>1, <1>2 DEF TypeOK, PhasesGrow, BFT_PREPARE
  <1>4. net \subseteq net' /\ \A m \in net' : m \in net \/ MessageCert(m)'
    BY <1>2 DEF StartGossip, MessageCert
  <1>5. LeaderCert'
    <2>1. currentBlock'[Leader] = b /\ prepareBitmap'[b.height] = {Leader}
      BY <1>1, <1>2 DEF TypeOK
    <2>2. VerifyAggregateSig(aggregatePrepareSig', BFT_PREPARE, b.hash, {Leader})
      BY <1>2 DEF Sign, VerifyAggregateSig
    <2>3. ~(phase'[Leader].bftPhase >= BFT_PRECOMMIT)
      BY PreparePhase, AtFields DEF BFT_PREPARE, BFT_PRECOMMIT
    <2> QED BY <2>1, <2>2, <2>3 DEF LeaderCert, Voted, VerifyAggregateSig
  <1>6. \A h \in Heights : Committed(Leader, h)' => Committed(Leader, h)
    BY <1>2 DEF Committed
  <1> QED BY <1>2, <1>3, <1>4, <1>5, <1>6, CertFrame

\* A vote keeps the aggregate in step with the bitmap: the case of PREPARE.
LEMMA OnPrepareVoteMsgCert ==
  ASSUME TypeOK, TypeOK', ChainExtends, CertInv, ChainInv, NEW m \in net,
         OnPrepareVoteMsg(m)
  PROVE  CertInv'
  <1> SUFFICES ASSUME NEW c, c = currentBlock[Leader], NEW h, h = c.height,
                      NEW B, B = prepareBitmap[h], NEW bitmap, bitmap = B \cup m.bitmap,
                      NEW sig, sig = Add(aggregatePrepareSig, m.sig)
               PROVE  CertInv'
    OBVIOUS
  <1>0. LeaderInv /\ MessageInv(m) /\ LeaderCert
    BY DEF ChainInv, CertInv
  <1>1. /\ Leader \in Node /\ c \in Block /\ h \in Heights /\ h \in Nat
        /\ phase[Leader] \in Phase /\ phase[Leader].bftPhase \in 0 .. 3
    BY LeaderNode, BlockFields
  <1>2. AcceptVote(m, BFT_PREPARE, B) /\ m.type = "PREPAREVOTE"
    BY DEF OnPrepareVoteMsg
  <1>3. c # NoBlock /\ ~(phase[Leader].bftPhase > BFT_PREPARE)
    BY <1>0, <1>2, VoteHeight
  <1>4. PICK n \in Validator :
            /\ m.bitmap = {n} /\ n \notin B /\ m.block.hash = c.hash
            /\ VerifyAggregateSig(m.sig, BFT_PREPARE, c.hash, {n})
    BY <1>0, <1>2, AcceptedVote DEF VoteTypes
  <1>5. /\ VerifyAggregateSig(aggregatePrepareSig, BFT_PREPARE, c.hash, B)
        /\ \A k \in B : Voted(k, c, BFT_PREPARE)
    BY <1>0, <1>3 DEF LeaderCert
  <1>6. VerifyAggregateSig(sig, BFT_PREPARE, c.hash, bitmap)
    <2>1. B \in SUBSET Node /\ n \in Node
      BY <1>1, LeaderNode DEF TypeOK
    <2> QED BY <1>4, <1>5, <2>1, AddSigner
  <1>7. /\ prepareBitmap' = [prepareBitmap EXCEPT ![h] = bitmap]
        /\ aggregatePrepareSig' = sig
        /\ UNCHANGED <<blockDB, sent, currentBlock>>
    BY DEF OnPrepareVoteMsg, chainVars
  <1>8. prepareBitmap'[h] = bitmap
    BY <1>1, <1>7 DEF TypeOK
  <1>9. Voted(n, c, BFT_PREPARE)
    BY <1>2, <1>4, VoteCast
  <1>10. \A k \in Heights : Committed(Leader, k)' => Committed(Leader, k)
    BY <1>7 DEF Committed
  <1>11. CASE Enough(bitmap)
    <2>1. Precommit(sig, bitmap)
      BY <1>11 DEF OnPrepareVoteMsg
    <2>2. /\ phase' = [phase EXCEPT ![Leader] = Switch(phase[Leader], At(h, BFT_PRECOMMIT))]
          /\ StartGossip("PRECOMMIT", c, sig, Leader, bitmap)
          /\ precommitBitmap' = [precommitBitmap EXCEPT ![h] = {Leader}]
          /\ aggregatePrecommitSig' = Sign(BFT_PRECOMMIT, c.hash, Leader)
      BY <2>1 DEF Precommit
    <2>3. /\ PhasesGrow /\ phase'[Leader] = Switch(phase[Leader], At(h, BFT_PRECOMMIT))
          /\ precommitBitmap'[h] = {Leader}
      BY <1>1, <2>2 DEF TypeOK, PhasesGrow, BFT_PRECOMMIT
    <2> DEFINE v == [type |-> "PRECOMMIT", block |-> c, sig |-> sig, bitmap |-> bitmap]
    <2>4. net' = net \cup {v} /\ net \subseteq net'
      BY <2>2 DEF StartGossip
    <2>5. \A k \in bitmap : Voted(k, c, BFT_PREPARE)'
      BY <1>4, <1>5, <1>9, <2>4, VotedStable
    <2>6. MessageCert(v)'
      <3>1. Reached(Leader, h, BFT_PRECOMMIT)'
        BY <1>1, <2>3, SwitchReached DEF Reached, BFT_PRECOMMIT
      <3>2. QuorumCert(v, BFT_PREPARE)'
        BY <1>6, <1>11, <2>5 DEF QuorumCert, Enough
      <3> QED BY <3>1, <3>2 DEF MessageCert
    <2>7. LeaderCert'
      <3>1. VerifyAggregateSig(aggregatePrecommitSig', BFT_PRECOMMIT, c.hash, {Leader})
        BY <2>2 DEF Sign, VerifyAggregateSig
      <3> QED BY <1>6, <1>7, <1>8, <2>3, <2>5, <3>1
              DEF LeaderCert, VerifyAggregateSig, Voted
    <2> HIDE DEF v
    <2> QED BY <1>7, <1>10, <2>3, <2>4, <2>6, <2>7, CertFrame
  <1>12. CASE ~Enough(bitmap)
    <2>1. UNCHANGED <<phase, gossip, net, precommitBitmap, aggregatePrecommitSig>>
      BY <1>12 DEF OnPrepareVoteMsg
    <2>2. PhasesGrow /\ net \subseteq net'
      BY <2>1 DEF PhasesGrow
    <2>3. \A k \in bitmap : Voted(k, c, BFT_PREPARE)'
      BY <1>4, <1>5, <1>9, <2>2, VotedStable
    <2>4. LeaderCert'
      <3>1. ~(phase'[Leader].bftPhase >= BFT_PRECOMMIT)
        BY <1>1, <1>3, <2>1 DEF BFT_PREPARE, BFT_PRECOMMIT
      <3> QED BY <1>6, <1>7, <1>8, <2>3, <3>1 DEF LeaderCert, VerifyAggregateSig
    <2> QED BY <1>7, <1>10, <2>1, <2>2, <2>4, CertFrame
  <1> QED BY <1>11, <1>12

\* The case of PRECOMMIT; the vote that completes the quorum puts the
\* certificate into the block.
LEMMA OnPrecommitVoteMsgCert ==
  ASSUME TypeOK, TypeOK', ChainExtends, CertInv, ChainInv, NEW m \in net,
         OnPrecommitVoteMsg(m)
  PROVE  CertInv'
  <1> SUFFICES ASSUME NEW c, c = currentBlock[Leader], NEW h, h = c.height,
                      NEW B, B = precommitBitmap[h], NEW bitmap, bitmap = B \cup m.bitmap,
                      NEW sig, sig = Add(aggregatePrecommitSig, m.sig)
               PROVE  CertInv'
    OBVIOUS
  <1>0. LeaderInv /\ MessageInv(m) /\ LeaderCert
    BY DEF ChainInv, CertInv
  <1>1. /\ Leader \in Node /\ c \in Block /\ h \in Heights /\ h \in Nat
        /\ phase[Leader] \in Phase /\ phase[Leader].bftPhase \in 0 .. 3
    BY LeaderNode, BlockFields
  <1>2. AcceptVote(m, BFT_PRECOMMIT, B) /\ m.type = "PRECOMMITVOTE"
    BY DEF OnPrecommitVoteMsg
  <1>3. c # NoBlock /\ m.block.height = h
    BY <1>0, <1>2, VoteHeight
  <1>4. PICK n \in Validator :
            /\ m.bitmap = {n} /\ n \notin B /\ m.block.hash = c.hash
            /\ VerifyAggregateSig(m.sig, BFT_PRECOMMIT, c.hash, {n})
    BY <1>0, <1>2, AcceptedVote DEF VoteTypes
  <1>5. phase[Leader].bftPhase >= BFT_PRECOMMIT
    <2>1. Reached(Leader, h, BFT_PRECOMMIT)
      BY <1>2, <1>3 DEF CertInv, MessageCert
    <2>2. phase[Leader].height = h
      BY <1>0, <1>3 DEF LeaderInv
    <2> QED BY <1>1, <2>1, <2>2, AtFields DEF Reached, IsOut, BFT_PRECOMMIT
  <1>6. /\ VerifyAggregateSig(aggregatePrecommitSig, BFT_PRECOMMIT, c.hash, B)
        /\ \A k \in B : Voted(k, c, BFT_PRECOMMIT)
        /\ VerifyAggregateSig(aggregatePrepareSig, BFT_PREPARE, c.hash, prepareBitmap[h])
        /\ \A k \in prepareBitmap[h] : Voted(k, c, BFT_PREPARE)
    BY <1>0, <1>3, <1>5 DEF LeaderCert
  <1>7. bitmap \in SUBSET Node /\ VerifyAggregateSig(sig, BFT_PRECOMMIT, c.hash, bitmap)
    <2>1. B \in SUBSET Node /\ n \in Node
      BY <1>1, LeaderNode DEF TypeOK
    <2> QED BY <1>4, <1>6, <2>1, AddSigner
  <1>8. /\ precommitBitmap' = [precommitBitmap EXCEPT ![h] = bitmap]
        /\ aggregatePrecommitSig' = sig
        /\ UNCHANGED <<prepareBitmap, aggregatePrepareSig>>
    BY DEF OnPrecommitVoteMsg
  <1>9. precommitBitmap'[h] = bitmap
    BY <1>1, <1>8 DEF TypeOK
  <1>10. Voted(n, c, BFT_PRECOMMIT)
    BY <1>2, <1>4, VoteCast
  <1>11. ASSUME net \subseteq net', NEW d, d = currentBlock'[Leader],
                d.hash = c.hash, d.height = h
         PROVE  LeaderCert'
    <2>1. /\ \A k \in bitmap : Voted(k, c, BFT_PRECOMMIT)'
          /\ \A k \in prepareBitmap[h] : Voted(k, c, BFT_PREPARE)'
      BY <1>4, <1>6, <1>10, <1>11, VotedStable
    <2>2. \A k, p : Voted(k, c, p)' => Voted(k, d, p)'
      BY <1>11 DEF Voted
    <2>3. /\ VerifyAggregateSig(aggregatePrepareSig', BFT_PREPARE, d.hash, prepareBitmap'[h])
          /\ VerifyAggregateSig(aggregatePrecommitSig', BFT_PRECOMMIT, d.hash, bitmap)
      BY <1>6, <1>7, <1>8, <1>11
    <2>4. /\ \A k \in bitmap : Voted(k, currentBlock[Leader], BFT_PRECOMMIT)'
          /\ \A k \in prepareBitmap[h] : Voted(k, currentBlock[Leader], BFT_PREPARE)'
      <3>1. ASSUME NEW k, NEW p, Voted(k, c, p)'
            PROVE  Voted(k, currentBlock[Leader], p)'
        <4>1. Voted(k, d, p)'
          BY <2>2, <3>1
        <4> QED BY <1>11, <4>1 DEF Voted
      <3> QED BY <2>1, <3>1
    <2> QED BY <1>8, <1>9, <1>11, <2>3, <2>4 DEF LeaderCert, VerifyAggregateSig
  <1>12. CASE Enough(bitmap)
    <2> DEFINE v == [type |-> "COMMIT", block |-> c, sig |-> sig, bitmap |-> bitmap]
    <2>0. PICK signed : signed = [c EXCEPT !.sign = bitmap]
      OBVIOUS
    <2>1. LeaderCommit(sig, bitmap)
      BY <1>12 DEF OnPrecommitVoteMsg
    <2>2. /\ phase' = [phase EXCEPT ![Leader] = Switch(phase[Leader], At(h, BFT_COMMIT))]
          /\ StartGossip("COMMIT", c, sig, Leader, bitmap)
          /\ currentBlock' = [currentBlock EXCEPT ![Leader] = signed]
          /\ Commit(Leader, signed)
      BY <2>0, <2>1 DEF LeaderCommit
    <2>3. /\ signed \in Block /\ signed.height = h /\ signed.hash = c.hash
          /\ signed.sign = bitmap
      <3>1. /\ signed \in Block /\ signed.height = c.height /\ signed.hash = c.hash
            /\ signed.sign = bitmap
        BY ONLY <1>1, <1>7, <2>0, SignedBlock
      <3> QED BY <3>1
    <2>4. PhasesGrow /\ currentBlock'[Leader] = signed
      BY <1>1, <2>2 DEF TypeOK, PhasesGrow, BFT_COMMIT
    <2>5. net' = net \cup {v} /\ net \subseteq net'
      BY <2>2 DEF StartGossip
    <2>6. LeaderCert'
      BY <1>11, <2>3, <2>4, <2>5
    <2>7. \A k \in bitmap : Voted(k, c, BFT_PRECOMMIT)'
      BY <1>4, <1>6, <1>10, <2>5, VotedStable
    <2>8. MessageCert(v)'
      <3>1. QuorumCert(v, BFT_PRECOMMIT)'
        BY <1>7, <1>12, <2>7 DEF QuorumCert, Enough
      <3> QED BY <3>1 DEF MessageCert
    <2>9. BlockCert(signed)'
      <3>1. \A k \in bitmap : Voted(k, signed, BFT_PRECOMMIT)'
        BY <2>3, <2>7 DEF Voted
      <3> QED BY <1>12, <2>3, <3>1 DEF BlockCert, CheckHeader, Enough
    <2>10. \A k \in Heights : Committed(Leader, k)' =>
             Committed(Leader, k) \/ BlockCert(blockDB[Leader][k])'
      <3>1. /\ blockDB'[Leader][h] = signed
            /\ \A k \in Heights : k # h => blockDB'[Leader][k] = blockDB[Leader][k]
        BY <1>1, <2>2, <2>3 DEF Commit, TypeOK, ChainTypeOK
      <3>2. \A k \in Heights : k # h => (Committed(Leader, k)' <=> Committed(Leader, k))
        BY <3>1 DEF Committed
      <3>3. BlockCert(blockDB[Leader][h])'
        BY <2>9, <3>1 DEF BlockCert
      <3> QED BY <3>2, <3>3
    <2>11. \A s \in sent' : s \in sent \/ BlockCert(s.block)'
      <3>1. \A s \in sent' : s \in sent \/ s.block = signed
        BY <2>2 DEF Commit, Outgoing
      <3> QED BY <2>9, <3>1 DEF BlockCert
    <2> HIDE DEF v
    <2> QED BY <2>4, <2>5, <2>6, <2>8, <2>10, <2>11, CertFrame
  <1>13. CASE ~Enough(bitmap)
    <2>1. UNCHANGED <<blockDB, sent, phase, net, currentBlock>>
      BY <1>13 DEF OnPrecommitVoteMsg, chainVars
    <2>2. PhasesGrow /\ net \subseteq net' /\ LeaderCert'
      BY <1>11, <2>1 DEF PhasesGrow
    <2>3. \A k \in Heights : Committed(Leader, k)' => Committed(Leader, k)
      BY <2>1 DEF Committed
    <2> QED BY <2>1, <2>2, <2>3, CertFrame
  <1> QED BY <1>12, <1>13

-----------------------------------------------------------------------------
(* Every step.                                                             *)

LEMMA CertStep ==
  ASSUME TypeOK, TypeOK', ChainInv, ChainInv', ChainExtends, CertInv, [Next]_vars
  PROVE  CertInv'
  <1>0. LeaderInv
    BY DEF ChainInv
  <1>1. CASE Start
    BY <1>0, <1>1, PrepareCert DEF Start
  <1>2. ASSUME NEW m \in net, OnPrepareVoteMsg(m) PROVE CertInv'
    BY <1>2, OnPrepareVoteMsgCert
  <1>3. ASSUME NEW m \in net, OnPrecommitVoteMsg(m) PROVE CertInv'
    BY <1>3, OnPrecommitVoteMsgCert
  <1>4. ASSUME NEW m \in net, OnCommitVoteMsg(m) PROVE CertInv'
    <2> DEFINE bitmap == commitBitmap[currentBlock[Leader].height] \cup m.bitmap
    <2>1. UNCHANGED <<precommitBitmap, aggregatePrecommitSig>>
      BY <1>4 DEF OnCommitVoteMsg
    <2>2. CASE Enough(bitmap)
      <3>1. PICK b \in NewBlocks : Prepare(b)
        BY <1>4, <2>2 DEF OnCommitVoteMsg
      <3> QED BY <1>0, <2>1, <3>1, PrepareCert
    <2>3. CASE ~Enough(bitmap)
      BY <1>4, <2>1, <2>3, QuietCert DEF OnCommitVoteMsg, chainVars
    <2> QED BY <2>2, <2>3
  <1>5. ASSUME NEW n \in Validator, FinishCheck(n) PROVE CertInv'
    BY <1>5, FinishCheckCert
  <1>6. ASSUME NEW n \in Validator, NEW m \in net, OnPrepareMsg(n, m) PROVE CertInv'
    BY <1>6, QuietCert DEF OnPrepareMsg, chainVars
  <1>7. ASSUME NEW n \in Validator, NEW m \in net, OnPrecommitMsg(n, m) PROVE CertInv'
    BY <1>7, OnPrecommitMsgCert
  <1>8. ASSUME NEW n \in Validator, NEW m \in net, OnCommitMsg(n, m) PROVE CertInv'
    BY <1>8, OnCommitMsgCert
  <1>9. ASSUME NEW n, Crash(n) PROVE CertInv'
    BY <1>9, QuietCert DEF Crash, chainVars
  <1>10. ASSUME NEW g \in gossip, TryGossip(g) PROVE CertInv'
    <2>1. /\ net' = net \cup {Marshal(g)} /\ Marshal(g) \notin net
          /\ UNCHANGED <<blockDB, sent, phase, currentBlock, prepareBitmap,
                         precommitBitmap, aggregatePrepareSig, aggregatePrecommitSig>>
      BY <1>10 DEF TryGossip, chainVars
    <2>2. g.type = "PREPARE"
      BY <2>1 DEF ChainInv, GoroutineInv
    <2>3. Marshal(g).type = "PREPARE"
      BY <2>2 DEF Marshal
    <2> QED BY <2>1, <2>3, QuietCert
  <1>11. ASSUME NEW n \in Node, NEW i \in InboundIds, HandleHeaderMsg(n, i)
         PROVE  CertInv'
    BY <1>11, QuietCert DEF HandleHeaderMsg, ReceiveHeader, bftVars
  <1>12. CASE UNCHANGED vars
    BY <1>12, QuietCert DEF vars, chainVars, bftVars
  <1> QED BY <1>1, <1>2, <1>3, <1>4, <1>5, <1>6, <1>7, <1>8, <1>9, <1>10, <1>11, <1>12
          DEF Next, NilCurrentBlock, ConcurrentMapFault

LEMMA CertInvInit == Init => CertInv
  <1> SUFFICES ASSUME Init PROVE CertInv
    OBVIOUS
  <1>1. /\ currentBlock[Leader] = NoBlock /\ net = {} /\ sent = {}
        /\ \A h \in Heights : ~Committed(Leader, h)
    BY NodeAssumption DEF Init, ChainInit, Committed
  <1> QED BY <1>1 DEF CertInv, LeaderCert

-----------------------------------------------------------------------------
(* The theorems.                                                           *)

\* The invariant of certificates holds in every reachable state.
THEOREM CertInvariant == Spec => []CertInv
  <1>1. Init => CertInv
    BY CertInvInit
  <1>2. TypeOK /\ TypeOK' /\ ChainInv /\ ChainInv' /\ CertInv /\ [Next]_vars => CertInv'
    BY ChainStep, CertStep
  <1> QED BY <1>1, <1>2, TypeCorrect, ChainInvariant, PTL DEF Spec

\* Every PRECOMMIT and COMMIT on the wire, however late its goroutine
\* marshalled it, carries a certificate that verifies, of a quorum of nodes
\* that cast the vote it counts, each counted once (OnPrepareVoteMsg,
\* OnPrecommitVoteMsg), for every shard size.
THEOREM HonestCertificates == Spec => []CertificatesHonest
  <1>1. CertInv => CertificatesHonest
    BY DEF CertInv, MessageCert, QuorumCert, CertificatesHonest
  <1> QED BY <1>1, CertInvariant, PTL

\* Every header that leaves the shard passes CheckHeader elsewhere, and each
\* node it names as a signer voted for that very block (Commit).
THEOREM CertifiedHeaders == Spec => []HeadersCertified
  <1>1. CertInv => HeadersCertified
    BY DEF CertInv, BlockCert, HeadersCertified
  <1> QED BY <1>1, CertInvariant, PTL

LEMMA CommitQuorumState ==
  ASSUME TypeOK, ChainInv, CertInv
  PROVE  CommitNeedsQuorum
  <1> SUFFICES ASSUME NEW n \in Node, NEW h \in Heights, Committed(n, h)
               PROVE  Cardinality({k \in Node : Reached(k, h, BFT_PRECOMMIT)})
                        >= ConsensusThreshold
    BY DEF CommitNeedsQuorum, Reached
  <1>0. LeaderInv /\ h \in Nat /\ Leader \in Node
    BY HeightsNat, LeaderNode DEF ChainInv
  <1>1. Committed(Leader, h)
    BY LeaderNode DEF ChainInv, ValidatorInv
  <1>2. PICK b : b = blockDB[Leader][h]
    OBVIOUS
  <1>3. b \in Block /\ Linked(b) /\ b.height = h /\ BlockCert(b)
    BY <1>0, <1>1, <1>2, LeaderNode DEF LeaderInv, CertInv
  <1>4. Reached(Leader, h, BFT_PRECOMMIT)
    <2>1. currentBlock[Leader] # NoBlock
      BY <1>0, <1>1 DEF LeaderInv, Idle
    <2>2. /\ phase[Leader].height = currentBlock[Leader].height
          /\ phase[Leader].height \in Nat /\ CommittedUpToCurrent(Leader)
      BY <1>0, <2>1, LeaderNode DEF LeaderInv
    <2>3. \/ h < phase[Leader].height
          \/ h = phase[Leader].height /\ phase[Leader].bftPhase = BFT_COMMIT
      BY <1>1, <2>2 DEF CommittedUpToCurrent
    <2> QED BY <1>0, <2>2, <2>3, AtFields DEF Reached, IsOut, BFT_PRECOMMIT, BFT_COMMIT
  <1>5. ASSUME NEW k \in b.sign PROVE k \in Node /\ Reached(k, h, BFT_PRECOMMIT)
    <2>1. k \in Node /\ Voted(k, b, BFT_PRECOMMIT)
      BY <1>3, BlockFields DEF BlockCert
    <2>2. CASE k = Leader
      BY <1>4, <2>1, <2>2
    <2>3. CASE k # Leader
      <3>1. PICK m \in net : /\ m.type = "PRECOMMITVOTE" /\ m.block.hash = b.hash
                             /\ m.bitmap = {k}
        BY <2>1, <2>3 DEF Voted, BFT_PREPARE, BFT_PRECOMMIT, BFT_COMMIT
      <3>2. m.block \in Block /\ Linked(m.block)
        BY LeaderNode DEF ChainInv, MessageInv
      <3>3. m.block.height = h
        BY <1>3, <3>1, <3>2, SameHash
      <3> QED BY <2>1, <3>1, <3>3 DEF CertInv, MessageCert
    <2> QED BY <2>2, <2>3
  <1> DEFINE S == {k \in Node : Reached(k, h, BFT_PRECOMMIT)}
  <1>6. b.sign \subseteq S
    BY <1>5
  <1>7. IsFiniteSet(S) /\ IsFiniteSet(Node)
    BY NodeAssumption, FS_Subset
  <1>8. /\ Cardinality(b.sign) <= Cardinality(S)
        /\ Cardinality(b.sign) \in Nat /\ Cardinality(S) \in Nat
    BY <1>6, <1>7, FS_Subset, FS_CardinalityType
  <1>9. ConsensusThreshold \in Int
    BY <1>7, FS_CardinalityType DEF ConsensusThreshold
  <1> HIDE DEF S
  <1>10. Cardinality(b.sign) >= ConsensusThreshold
    BY <1>3 DEF BlockCert, CheckHeader
  <1>11. Cardinality(S) >= ConsensusThreshold
    BY <1>8, <1>9, <1>10
  <1> QED BY <1>11 DEF S

\* No node commits a block before a quorum is in its precommit phase or
\* beyond, although OnCommitMsg accepts a COMMIT in phase PREPARE.
THEOREM CommitQuorum == Spec => []CommitNeedsQuorum
  <1>1. TypeOK /\ ChainInv /\ CertInv => CommitNeedsQuorum
    BY CommitQuorumState
  <1> QED BY <1>1, TypeCorrect, ChainInvariant, CertInvariant, PTL
=============================================================================
