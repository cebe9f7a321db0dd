------------------------------- MODULE BFTInv -------------------------------
(***************************************************************************)
(* The inductive invariant behind the safety of BFT: what the leader, each *)
(* validator, every message and every TryGossip goroutine know of the one  *)
(* chain the leader builds.                                                *)
(***************************************************************************)
EXTENDS BFT

\* A height is the position of its block in the order of creation.
Linked(b) == b.hash = b.height + 1 /\ b.prev = b.height

\* The leader's block of height h as it was proposed.
LeaderBlock(h) ==
    IF Committed(Leader, h) THEN Unsigned(blockDB[Leader][h])
                            ELSE currentBlock[Leader]

IsProposal(b) ==
    /\ currentBlock[Leader] # NoBlock
    /\ b.height <= currentBlock[Leader].height
    /\ b = LeaderBlock(b.height)

\* Node n has committed exactly the blocks below its current one, and that
\* one too in its commit phase.
CommittedUpToCurrent(n) ==
    \A h \in Heights : Committed(n, h) <=>
        \/ h < currentBlock[n].height
        \/ h = currentBlock[n].height /\ phase[n].bftPhase = BFT_COMMIT

\* Consensus has not reached node n.
Idle(n) ==
    /\ phase[n] = At(0, BFT_INIT)
    /\ latestCommittedBlockHash[n] = 0
    /\ \A h \in Heights : ~Committed(n, h)

LeaderInv ==
    LET b == currentBlock[Leader] IN
    /\ b = NoBlock =>
         /\ Idle(Leader)
         /\ created = 0 /\ latestBlock[Leader] = NoBlock
         /\ net = {} /\ gossip = {}
    /\ b # NoBlock =>
         /\ created = b.height + 1 /\ latestBlock[Leader] = b
         /\ phase[Leader].height = b.height
         /\ phase[Leader].bftPhase # BFT_INIT
         /\ Linked(b)
         /\ CommittedUpToCurrent(Leader)
         /\ phase[Leader].bftPhase = BFT_COMMIT => blockDB[Leader][b.height] = b
         /\ phase[Leader].bftPhase # BFT_COMMIT => b.sign = {}
    /\ \A h \in Heights : Committed(Leader, h) =>
         blockDB[Leader][h].height = h /\ Linked(blockDB[Leader][h])

ValidatorInv(n) ==
    LET b == currentBlock[n] IN
    /\ b = NoBlock => Idle(n)
    /\ b # NoBlock =>
         /\ IsProposal(Unsigned(b))
         /\ phase[n].height = b.height
         /\ phase[n].bftPhase # BFT_INIT
         /\ CommittedUpToCurrent(n)
         /\ latestCommittedBlockHash[n] =
              IF phase[n].bftPhase = BFT_COMMIT THEN b.hash ELSE b.prev
    /\ \A h \in Heights : Committed(n, h) =>
         Committed(Leader, h) /\ blockDB[n][h] = blockDB[Leader][h]
    /\ checking[n] # NoMessage =>
         /\ checking[n] \in net /\ checking[n].type = "PREPARE"
         /\ b = NoBlock => checking[n].block.height = 0
         /\ b # NoBlock => /\ checking[n].block.height = b.height + 1
                           /\ phase[n].bftPhase = BFT_COMMIT

\* What a message on the wire stands for.
MessageInv(m) ==
    LET h == m.block.height IN
    /\ currentBlock[Leader] # NoBlock /\ h <= currentBlock[Leader].height
    /\ Linked(m.block)
    /\ m.type \in LeaderTypes => IsProposal(m.block)
    /\ m.type = "COMMIT" =>
         Committed(Leader, h) /\ m.bitmap = blockDB[Leader][h].sign
    /\ m.type \in VoteTypes => \E n \in Validator : m.bitmap = {n}
    /\ m.type = "COMMITVOTE" => \A n \in m.bitmap : Committed(n, h)

\* A goroutine other than a PREPARE's repeats bytes it has sent before: the
\* bitmap of a PRECOMMIT or COMMIT is full and no longer changes.
GoroutineInv(g) ==
    LET h == g.block.height IN
    /\ g.type = "PREPARE" => IsProposal(g.block) /\ Linked(g.block)
    /\ g.type # "PREPARE" => Marshal(g) \in net
    /\ g.type = "PRECOMMIT" => Enough(prepareBitmap[h])
    /\ g.type = "COMMIT" => Enough(precommitBitmap[h])

\* Who is counted as having committed has done so, and the leader has left
\* no height before enough were counted.
CommitCountInv ==
    \A h \in Heights :
        /\ \A n \in commitBitmap[h] : Committed(n, h)
        /\ h < currentBlock[Leader].height => Enough(commitBitmap[h])

\* The inductive invariant: together these keep every node on one chain.
ChainInv ==
    /\ LeaderInv
    /\ \A n \in Validator : ValidatorInv(n)
    /\ \A m \in net : MessageInv(m)
    /\ \A g \in gossip : GoroutineInv(g)
    /\ CommitCountInv

-----------------------------------------------------------------------------
(* Certificates: what bitmaps and signatures say of the votes cast.        *)

\* Node n has got to phase p of height h, or further.
Reached(n, h, p) == ~IsOut(At(h, p), phase[n])

\* The leader's aggregates are those of its bitmaps, and only voters are in
\* the bitmaps.  There is no precommit aggregate before the precommit phase.
LeaderCert ==
    LET b == currentBlock[Leader] IN
    b # NoBlock =>
        /\ VerifyAggregateSig(aggregatePrepareSig, BFT_PREPARE, b.hash,
                              prepareBitmap[b.height])
        /\ \A n \in prepareBitmap[b.height] : Voted(n, b, BFT_PREPARE)
        /\ phase[Leader].bftPhase >= BFT_PRECOMMIT =>
             /\ VerifyAggregateSig(aggregatePrecommitSig, BFT_PRECOMMIT, b.hash,
                                   precommitBitmap[b.height])
             /\ \A n \in precommitBitmap[b.height] : Voted(n, b, BFT_PRECOMMIT)

\* The certificate in m is of a quorum, verifies for phase p, and counts only
\* nodes that voted.
QuorumCert(m, p) ==
    /\ Cardinality(m.bitmap) >= ConsensusThreshold
    /\ VerifyAggregateSig(m.sig, p, m.block.hash, m.bitmap)
    /\ \A n \in m.bitmap : Voted(n, m.block, p)

\* What a message proves of its sender: who votes has got to the phase, and
\* nobody is ahead of the leader.
MessageCert(m) ==
    /\ m.type = "PRECOMMIT" => /\ QuorumCert(m, BFT_PREPARE)
                               /\ Reached(Leader, m.block.height, BFT_PRECOMMIT)
    /\ m.type = "COMMIT" => QuorumCert(m, BFT_PRECOMMIT)
    /\ m.type = "PRECOMMITVOTE" =>
         /\ Reached(Leader, m.block.height, BFT_PRECOMMIT)
         /\ \A n \in m.bitmap : Reached(n, m.block.height, BFT_PRECOMMIT)

\* The signers a block names are a quorum that voted for it.
BlockCert(b) ==
    /\ CheckHeader(b)
    /\ \A n \in b.sign : Voted(n, b, BFT_PRECOMMIT)

\* The inductive invariant behind certificates, on top of ChainInv.
CertInv ==
    /\ LeaderCert
    /\ \A m \in net : MessageCert(m)
    /\ \A h \in Heights : Committed(Leader, h) => BlockCert(blockDB[Leader][h])
    /\ \A s \in sent : BlockCert(s.block)

-----------------------------------------------------------------------------
(* State roots: every node executes the leader's blocks one on another.    *)

\* A block is executed on the state its predecessor leads to.
RootsChained ==
    currentBlock[Leader] # NoBlock =>
        \A h \in Heights : h <= currentBlock[Leader].height =>
            /\ LeaderBlock(h).root \in Nat
            /\ LeaderBlock(h).parent =
                 IF h = 0 THEN EmptyRoot ELSE LeaderBlock(h - 1).root

\* LatestBlock of a validator is the last block it has committed.
LatestInv(n) ==
    /\ latestBlock[n] = NoBlock => \A h \in Heights : ~Committed(n, h)
    /\ latestBlock[n] # NoBlock =>
         /\ latestBlock[n] = blockDB[n][latestBlock[n].height]
         /\ \A h \in Heights : Committed(n, h) => h <= latestBlock[n].height

RootInv(n) ==
    /\ stateDB[n] = latestBlock[n].root
    /\ stateDB[n] \in roots[n] /\ currentBlock[n].root \in roots[n]
    /\ roots[n] \subseteq Nat

\* The inductive invariant behind states, on top of ChainInv.  The leader
\* never checks a block, it executes its own.
StateInv ==
    /\ RootsChained
    /\ checking[Leader] = NoMessage
    /\ \A n \in Validator : LatestInv(n)
    /\ \A n \in Node : RootInv(n)

-----------------------------------------------------------------------------
(* Inbound chunks at the leader.                                           *)

\* The chunks that the leader's block of height h has taken.
Used(h) ==
    IF currentBlock[Leader] # NoBlock /\ h <= currentBlock[Leader].height
    THEN LeaderBlock(h).inbound ELSE {}

\* The inductive invariant behind inbound chunks, on top of ChainInv: a chunk
\* is new as long as its header is, then once in the pool, then in one block.
InboundInv ==
    /\ \A h, k \in Heights : h # k => Used(h) \cap Used(k) = {}
    /\ \A h \in Heights : Used(h) \subseteq headers[Leader]
    /\ \A i \in 1 .. Len(pool) :
         /\ pool[i] \in headers[Leader]
         /\ \A h \in Heights : pool[i] \notin Used(h)
         /\ \A j \in 1 .. Len(pool) : pool[i] = pool[j] => i = j
=============================================================================
