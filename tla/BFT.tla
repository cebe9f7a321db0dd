-------------------------------- MODULE BFT --------------------------------
(***************************************************************************)
(* The three-phase BFT protocol of one processing shard: consensus/        *)
(* protocol.go, leader.go and validator.go on top of module Blockchain.    *)
(*                                                                         *)
(* Every node handles its BFT messages in one goroutine (HandleBFTMsg), so *)
(* a handler is one action, except that OnPrepareMsg may stay inside       *)
(* CheckBlock for as long as a header is missing.  Each message is sent by *)
(* a goroutine of its own (TryGossip) that marshals the message again on   *)
(* every iteration.  The leader's messages hold a slice of the leader's    *)
(* bitmap and not a copy of it: what goes onto the wire is the bitmap as   *)
(* it is at that time.                                                     *)
(*                                                                         *)
(* The network delivers any message ever sent, in any order, any number of *)
(* times or never.  There is no view change, and a node keeps nothing over *)
(* a restart, so a node that stops is a node that takes no more steps.     *)
(***************************************************************************)
EXTENDS Blockchain

VARIABLES
    phase,                    \* [Node -> Phase]
    currentBlock,             \* [Node -> Block]
    latestCommittedBlockHash, \* [Node -> Nat]
    prepareBitmap,            \* [Heights -> SUBSET Node]: the leader's bitmap
    precommitBitmap,          \*   objects, one per height because TryGossip
    commitBitmap,             \*   goroutines of old heights still hold them
    aggregatePrepareSig,      \* Signature (leader)
    aggregatePrecommitSig,    \* Signature (leader)
    checking,                 \* [Node -> Message]: the PREPARE in CheckBlock
    gossip,                   \* the running TryGossip goroutines
    net,                      \* every message that has been on the wire
    crashed                   \* the nodes whose process has died

bftVars == <<phase, currentBlock, latestCommittedBlockHash, prepareBitmap,
             precommitBitmap, commitBitmap, aggregatePrepareSig,
             aggregatePrecommitSig, checking, gossip, net, crashed>>
vars == <<chainVars, bftVars>>

-----------------------------------------------------------------------------
(* Phases.                                                                 *)

BFT_INIT == 0
BFT_PREPARE == 1
BFT_PRECOMMIT == 2
BFT_COMMIT == 3

Phase == [height : Nat, bftPhase : BFT_INIT .. BFT_COMMIT]

At(h, p) == [height |-> h, bftPhase |-> p]

\* x is later than p.
IsNew(p, x) ==
    \/ p.height < x.height
    \/ p.height = x.height /\ p.bftPhase < x.bftPhase

\* Mutant of IsOut: >= in place of > between the phases.
IsOutOrSame(p, x) ==
    \/ p.height > x.height
    \/ p.height = x.height /\ p.bftPhase >= x.bftPhase

\* x is earlier than p.
IsOut(p, x) ==
    \/ p.height > x.height
    \/ p.height = x.height /\ p.bftPhase > x.bftPhase

Switch(p, x) == IF IsNew(p, x) THEN x ELSE p

-----------------------------------------------------------------------------
(* Signatures: an aggregate over one text counts how often each node's     *)
(* signature was added.  The text is the block hash and the byte of the    *)
(* phase appended to it (none in the precommit phase).                     *)

Indicator(S) == [n \in Node |-> IF n \in S THEN 1 ELSE 0]

Signature == [bftPhase : BFT_INIT .. BFT_COMMIT, hash : Nat,
              by : [Node -> Nat]]

NoSig == [bftPhase |-> BFT_INIT, hash |-> 0, by |-> Indicator({})]

Sign(p, hash, n) == [bftPhase |-> p, hash |-> hash, by |-> Indicator({n})]

\* Mutant of Add: the signature is removed from the aggregate.
Sub(s, t) == [s EXCEPT !.by = [n \in Node |-> s.by[n] - t.by[n]]]

Add(s, t) == [s EXCEPT !.by = [n \in Node |-> s.by[n] + t.by[n]]]

\* VerifyAggregateSig: the aggregate key is the sum of the keys in the bitmap.
VerifyAggregateSig(s, p, hash, bitmap) ==
    s = [bftPhase |-> p, hash |-> hash, by |-> Indicator(bitmap)]

\* A single signature is checked against Bitmap.GetElement()[0], the smallest
\* key in the bitmap: the leader's only if no validator's is there.
FirstKeys(bitmap) ==
    IF bitmap = {Leader} THEN {Leader} ELSE bitmap \ {Leader}

VerifySign(s, p, hash, bitmap) ==
    \E k \in FirstKeys(bitmap) : VerifyAggregateSig(s, p, hash, {k})

-----------------------------------------------------------------------------
(* Messages and the goroutines that send them.                             *)

LeaderTypes == {"PREPARE", "PRECOMMIT", "COMMIT"}
VoteTypes == {"PREPAREVOTE", "PRECOMMITVOTE", "COMMITVOTE"}

Message == [type : LeaderTypes \cup VoteTypes, block : Block,
            sig : Signature, bitmap : SUBSET Node]

Goroutine == [type : LeaderTypes \cup VoteTypes, block : Block,
              sig : Signature, from : Node]

NoMessage == [type |-> "PREPARE", block |-> NoBlock, sig |-> NoSig,
              bitmap |-> {}]

\* The bytes goroutine g would send now: a leader's message reads the bitmap
\* object it shares with the leader, a vote has a bitmap of its own.
Marshal(g) ==
    [type |-> g.type, block |-> g.block, sig |-> g.sig,
     bitmap |->
        CASE g.type \in {"PREPARE", "PRECOMMIT"} ->
                prepareBitmap[g.block.height]
          [] g.type = "COMMIT" -> precommitBitmap[g.block.height]
          [] g.type \in VoteTypes -> {g.from}]

\* The phase a goroutine was started in.
SentPhase(g) ==
    At(g.block.height,
       CASE g.type \in {"PREPARE", "PREPAREVOTE"} -> BFT_PREPARE
         [] g.type \in {"PRECOMMIT", "PRECOMMITVOTE"} -> BFT_PRECOMMIT
         [] g.type \in {"COMMIT", "COMMITVOTE"} -> BFT_COMMIT)

\* go TryGossip(...), up to its first Gossip.
StartGossip(type, b, sig, n, bitmap) ==
    /\ gossip' = gossip \cup
         {[type |-> type, block |-> b, sig |-> sig, from |-> n]}
    /\ net' = net \cup
         {[type |-> type, block |-> b, sig |-> sig, bitmap |-> bitmap]}

\* A later iteration of TryGossip: the loop marshals and gossips without
\* looking at the phase, and never ends.  An iteration that repeats bytes sent
\* before, as the extra Gossip does while the phase is not outdated, leaves
\* the set net as it is and is not shown as a step.
TryGossip(g) ==
    /\ g.from \notin crashed
    /\ Marshal(g) \notin net
    /\ net' = net \cup {Marshal(g)}
    /\ UNCHANGED <<chainVars, phase, currentBlock, latestCommittedBlockHash,
                   prepareBitmap, precommitBitmap, commitBitmap,
                   aggregatePrepareSig, aggregatePrecommitSig, checking,
                   gossip, crashed>>

-----------------------------------------------------------------------------
(* The leader.                                                             *)

Prepare(b) ==
    LET sig == Sign(BFT_PREPARE, b.hash, Leader) IN
    /\ CreateNewBlock(b)
    /\ currentBlock' = [currentBlock EXCEPT ![Leader] = b]
    /\ prepareBitmap' = [prepareBitmap EXCEPT ![b.height] = {Leader}]
    /\ aggregatePrepareSig' = sig
    /\ phase' = [phase EXCEPT ![Leader] = Switch(@, At(b.height, BFT_PREPARE))]
    /\ StartGossip("PREPARE", b, sig, Leader, {Leader})

\* Start: the leader prepares its first block (no block is loaded at start).
Start ==
    /\ currentBlock[Leader] = NoBlock
    /\ \E b \in NewBlocks : Prepare(b)
    /\ UNCHANGED <<latestCommittedBlockHash, precommitBitmap, commitBitmap,
                   aggregatePrecommitSig, checking, crashed>>

\* Mutant of Enough: one vote too few.
AlmostEnough(bitmap) == Cardinality(bitmap) + 1 >= ConsensusThreshold

\* bitmap.GetSize() >= ConsensusThreshold.
Enough(bitmap) == Cardinality(bitmap) >= ConsensusThreshold

\* Mutant of AcceptVote: a vote that brings no new signer is added again.
AcceptAnyVote(m, p, bitmap) ==
    /\ currentBlock[Leader] # NoBlock
    /\ ~IsOut(phase[Leader], At(m.block.height, p))
    /\ m.block.hash = currentBlock[Leader].hash
    /\ ~Enough(bitmap)
    /\ VerifySign(m.sig, p, m.block.hash, m.bitmap)

\* The part the three vote handlers share: the vote is for the current block,
\* its phase is not over, more votes are needed and the signer is a new one.
AcceptVote(m, p, bitmap) ==
    /\ currentBlock[Leader] # NoBlock
    /\ ~IsOut(phase[Leader], At(m.block.height, p))
    /\ m.block.hash = currentBlock[Leader].hash
    /\ ~Enough(bitmap)
    /\ VerifySign(m.sig, p, m.block.hash, m.bitmap)
    /\ m.bitmap \ bitmap # {}

Precommit(sig, bitmap) ==
    LET b == currentBlock[Leader] IN
    /\ phase' = [phase EXCEPT ![Leader] = Switch(@, At(b.height, BFT_PRECOMMIT))]
    /\ StartGossip("PRECOMMIT", b, sig, Leader, bitmap)
    /\ precommitBitmap' = [precommitBitmap EXCEPT ![b.height] = {Leader}]
    /\ aggregatePrecommitSig' = Sign(BFT_PRECOMMIT, b.hash, Leader)

OnPrepareVoteMsg(m) ==
    LET h == currentBlock[Leader].height
        bitmap == prepareBitmap[h] \cup m.bitmap
        sig == Add(aggregatePrepareSig, m.sig)
    IN  /\ m.type = "PREPAREVOTE"
        /\ AcceptVote(m, BFT_PREPARE, prepareBitmap[h])
        /\ prepareBitmap' = [prepareBitmap EXCEPT ![h] = bitmap]
        /\ aggregatePrepareSig' = sig
        /\ IF Enough(bitmap)
           THEN Precommit(sig, bitmap)
           ELSE UNCHANGED <<phase, gossip, net, precommitBitmap,
                            aggregatePrecommitSig>>
        /\ UNCHANGED <<chainVars, currentBlock, latestCommittedBlockHash,
                       commitBitmap, checking, crashed>>

\* Leader.Commit: the message carries the block as proposed; the signature
\* and a copy of the bitmap then go into the block that is stored.
LeaderCommit(sig, bitmap) ==
    LET b == currentBlock[Leader]
        signed == [b EXCEPT !.sign = bitmap]
    IN  /\ phase' = [phase EXCEPT
                       ![Leader] = Switch(@, At(b.height, BFT_COMMIT))]
        /\ StartGossip("COMMIT", b, sig, Leader, bitmap)
        /\ commitBitmap' = [commitBitmap EXCEPT ![b.height] = {Leader}]
        /\ currentBlock' = [currentBlock EXCEPT ![Leader] = signed]
        /\ Commit(Leader, signed)
        /\ latestCommittedBlockHash' =
             [latestCommittedBlockHash EXCEPT ![Leader] = b.hash]

OnPrecommitVoteMsg(m) ==
    LET h == currentBlock[Leader].height
        bitmap == precommitBitmap[h] \cup m.bitmap
        sig == Add(aggregatePrecommitSig, m.sig)
    IN  /\ m.type = "PRECOMMITVOTE"
        /\ AcceptVote(m, BFT_PRECOMMIT, precommitBitmap[h])
        /\ precommitBitmap' = [precommitBitmap EXCEPT ![h] = bitmap]
        /\ aggregatePrecommitSig' = sig
        /\ IF Enough(bitmap)
           THEN LeaderCommit(sig, bitmap)
           ELSE UNCHANGED <<chainVars, phase, gossip, net, commitBitmap,
                            currentBlock, latestCommittedBlockHash>>
        /\ UNCHANGED <<prepareBitmap, aggregatePrepareSig, checking, crashed>>

\* The vote that completes the quorum starts the next height at once.
OnCommitVoteMsg(m) ==
    LET h == currentBlock[Leader].height
        bitmap == commitBitmap[h] \cup m.bitmap
    IN  /\ m.type = "COMMITVOTE"
        /\ AcceptVote(m, BFT_COMMIT, commitBitmap[h])
        /\ commitBitmap' = [commitBitmap EXCEPT ![h] = bitmap]
        /\ IF Enough(bitmap)
           THEN \E b \in NewBlocks : Prepare(b)
           ELSE UNCHANGED <<chainVars, phase, gossip, net, currentBlock,
                            prepareBitmap, aggregatePrepareSig>>
        /\ UNCHANGED <<latestCommittedBlockHash, precommitBitmap,
                       aggregatePrecommitSig, checking, crashed>>

-----------------------------------------------------------------------------
(* The validators.                                                         *)

\* The handler goroutine of n is free to take a message.
Ready(n) == n \notin crashed /\ checking[n] = NoMessage

\* Mutant of InOrder: blocks may be skipped.
InAnyOrder(n, m, p) ==
    /\ IsNew(phase[n], At(m.block.height, p))
    /\ currentBlock[n] = NoBlock => m.block.height = 0

\* The common entry of the three handlers: the message is later than the
\* node's phase and neither skips genesis nor any block after it.
InOrder(n, m, p) ==
    /\ IsNew(phase[n], At(m.block.height, p))
    /\ currentBlock[n] = NoBlock => m.block.height = 0
    /\ (currentBlock[n] # NoBlock /\ m.block.height > currentBlock[n].height)
         => /\ m.block.prev = latestCommittedBlockHash[n]
            /\ m.block.height = currentBlock[n].height + 1

\* A block with just its header, as votes carry it.
HeaderOnly(b) == [Unsigned(b) EXCEPT !.inbound = {}]

\* OnPrepareMsg up to the call of CheckBlock.
OnPrepareMsg(n, m) ==
    /\ Ready(n)
    /\ m.type = "PREPARE"
    /\ InOrder(n, m, BFT_PREPARE)
    /\ VerifySign(m.sig, BFT_PREPARE, m.block.hash, m.bitmap)
    /\ checking' = [checking EXCEPT ![n] = m]
    /\ UNCHANGED <<chainVars, phase, currentBlock, latestCommittedBlockHash,
                   prepareBitmap, precommitBitmap, commitBitmap,
                   aggregatePrepareSig, aggregatePrecommitSig, gossip, net,
                   crashed>>

\* OnPrepareMsg from the return of CheckBlock: a vote, or an error.
FinishCheck(n) ==
    LET b == checking[n].block IN
    /\ n \notin crashed
    /\ checking[n] # NoMessage
    /\ CheckBlock(n, b)
    /\ checking' = [checking EXCEPT ![n] = NoMessage]
    /\ IF CheckBlockOK(n, b)
       THEN /\ currentBlock' = [currentBlock EXCEPT ![n] = b]
            /\ phase' = [phase EXCEPT
                           ![n] = Switch(@, At(b.height, BFT_PREPARE))]
            /\ StartGossip("PREPAREVOTE", HeaderOnly(b),
                           Sign(BFT_PREPARE, b.hash, n), n, {n})
       ELSE UNCHANGED <<currentBlock, phase, gossip, net>>
    /\ UNCHANGED <<latestCommittedBlockHash, prepareBitmap, precommitBitmap,
                   commitBitmap, aggregatePrepareSig, aggregatePrecommitSig,
                   crashed>>

\* Mutant of Certified: any certified block counts as the current one.
CertifiedAnyBlock(n, m, p) ==
    /\ Enough(m.bitmap)
    /\ VerifyAggregateSig(m.sig, p, m.block.hash, m.bitmap)

\* The certificate in a PRECOMMIT or COMMIT: for the node's current block,
\* with enough signers, and valid.
Certified(n, m, p) ==
    /\ m.block.hash = currentBlock[n].hash
    /\ Enough(m.bitmap)
    /\ VerifyAggregateSig(m.sig, p, currentBlock[n].hash, m.bitmap)

OnPrecommitMsg(n, m) ==
    LET b == currentBlock[n] IN
    /\ Ready(n)
    /\ m.type = "PRECOMMIT"
    /\ InOrder(n, m, BFT_PRECOMMIT)
    /\ b # NoBlock
    /\ Certified(n, m, BFT_PREPARE)
    /\ phase' = [phase EXCEPT ![n] = Switch(@, At(b.height, BFT_PRECOMMIT))]
    /\ StartGossip("PRECOMMITVOTE", HeaderOnly(m.block),
                   Sign(BFT_PRECOMMIT, b.hash, n), n, {n})
    /\ UNCHANGED <<chainVars, currentBlock, latestCommittedBlockHash,
                   prepareBitmap, precommitBitmap, commitBitmap,
                   aggregatePrepareSig, aggregatePrecommitSig, checking,
                   crashed>>

\* A COMMIT is accepted in phase PRECOMMIT and in phase PREPARE alike.
OnCommitMsg(n, m) ==
    LET b == currentBlock[n]
        signed == [b EXCEPT !.sign = m.bitmap]
    IN  /\ Ready(n)
        /\ m.type = "COMMIT"
        /\ InOrder(n, m, BFT_COMMIT)
        /\ b # NoBlock
        /\ Certified(n, m, BFT_PRECOMMIT)
        /\ phase' = [phase EXCEPT ![n] = Switch(@, At(b.height, BFT_COMMIT))]
        /\ StartGossip("COMMITVOTE", HeaderOnly(m.block),
                       Sign(BFT_COMMIT, b.hash, n), n, {n})
        /\ currentBlock' = [currentBlock EXCEPT ![n] = signed]
        /\ Commit(n, signed)
        /\ latestCommittedBlockHash' =
             [latestCommittedBlockHash EXCEPT ![n] = b.hash]
        /\ UNCHANGED <<prepareBitmap, precommitBitmap, commitBitmap,
                       aggregatePrepareSig, aggregatePrecommitSig, checking,
                       crashed>>

\* The process of n dies; its goroutines with it.
Crash(n) ==
    /\ crashed' = crashed \cup {n}
    /\ UNCHANGED <<chainVars, phase, currentBlock, latestCommittedBlockHash,
                   prepareBitmap, precommitBitmap, commitBitmap,
                   aggregatePrepareSig, aggregatePrecommitSig, checking,
                   gossip, net>>

\* OnPrecommitMsg and OnCommitMsg of the genesis block read the hash of
\* currentBlock although the node has none: a nil dereference, which nothing
\* recovers from.
NilCurrentBlock(n, m) ==
    /\ Ready(n)
    /\ \/ m.type = "PRECOMMIT" /\ InOrder(n, m, BFT_PRECOMMIT)
       \/ m.type = "COMMIT" /\ InOrder(n, m, BFT_COMMIT)
    /\ currentBlock[n] = NoBlock
    /\ Crash(n)

\* CheckBlock reads the map of headers without the lock under which
\* UpdateHeader writes it; when the runtime notices, it stops the process.
ConcurrentMapFault(n, i) ==
    /\ n \notin crashed
    /\ checking[n].block.inbound # {}
    /\ i \notin headers[n]
    /\ Crash(n)

-----------------------------------------------------------------------------
(* The specification.                                                      *)

\* HandleHeaderMsg runs next to the BFT handler.
HandleHeaderMsg(n, i) ==
    /\ n \notin crashed
    /\ ReceiveHeader(n, i)
    /\ UNCHANGED bftVars

Init ==
    /\ ChainInit
    /\ phase = [n \in Node |-> At(0, BFT_INIT)]
    /\ currentBlock = [n \in Node |-> NoBlock]
    /\ latestCommittedBlockHash = [n \in Node |-> 0]
    /\ prepareBitmap = [h \in Heights |-> {}]
    /\ precommitBitmap = [h \in Heights |-> {}]
    /\ commitBitmap = [h \in Heights |-> {}]
    /\ aggregatePrepareSig = NoSig
    /\ aggregatePrecommitSig = NoSig
    /\ checking = [n \in Node |-> NoMessage]
    /\ gossip = {}
    /\ net = {}
    /\ crashed = {}

Next ==
    \/ Start
    \/ \E m \in net : \/ OnPrepareVoteMsg(m)
                      \/ OnPrecommitVoteMsg(m)
                      \/ OnCommitVoteMsg(m)
    \/ \E n \in Validator :
         \/ FinishCheck(n)
         \/ \E m \in net : \/ OnPrepareMsg(n, m)
                           \/ OnPrecommitMsg(n, m)
                           \/ OnCommitMsg(n, m)
                           \/ NilCurrentBlock(n, m)
         \/ \E i \in InboundIds : ConcurrentMapFault(n, i)
    \/ \E g \in gossip : TryGossip(g)
    \/ \E n \in Node, i \in InboundIds : HandleHeaderMsg(n, i)

Spec == Init /\ [][Next]_vars

-----------------------------------------------------------------------------
(* Safety.                                                                 *)

\* Every variable stays in its type; a process that dies is a validator's.
TypeOK ==
    /\ ChainTypeOK
    /\ phase \in [Node -> Phase]
    /\ currentBlock \in [Node -> Block]
    /\ latestCommittedBlockHash \in [Node -> Nat]
    /\ prepareBitmap \in [Heights -> SUBSET Node]
    /\ precommitBitmap \in [Heights -> SUBSET Node]
    /\ commitBitmap \in [Heights -> SUBSET Node]
    /\ aggregatePrepareSig \in Signature
    /\ aggregatePrecommitSig \in Signature
    /\ checking \in [Node -> Message]
    /\ gossip \subseteq Goroutine
    /\ net \subseteq Message
    /\ crashed \subseteq Validator

Committed(n, h) == blockDB[n][h] # NoBlock

\* Agreement: whatever order messages arrive in, the blocks a node has
\* committed are the leader's, signatures included, without a gap, and linked
\* by their previous hashes (OnCommitMsg, Blockchain.Commit).
ChainsAgree ==
    \A n \in Node, h \in Heights : Committed(n, h) =>
        /\ blockDB[n][h] = blockDB[Leader][h]
        /\ blockDB[n][h].height = h
        /\ h > 0 => /\ Committed(n, h - 1)
                    /\ blockDB[n][h].prev = blockDB[n][h - 1].hash

\* The leader proposes a block only when a quorum has committed the one
\* before (OnCommitVoteMsg): leaving a height behind leaves it at a quorum.
QuorumDurable ==
    \A h \in Heights : h < currentBlock[Leader].height =>
        Cardinality({n \in Node : Committed(n, h)}) >= ConsensusThreshold

\* Node n has voted for block b in phase p.
Voted(n, b, p) ==
    \/ n = Leader
    \/ \E m \in net : /\ m.type = CASE p = BFT_PREPARE -> "PREPAREVOTE"
                                    [] p = BFT_PRECOMMIT -> "PRECOMMITVOTE"
                                    [] p = BFT_COMMIT -> "COMMITVOTE"
                      /\ m.block.hash = b.hash
                      /\ m.bitmap = {n}

\* A PRECOMMIT or COMMIT on the wire, however late it was marshalled, carries
\* a certificate that verifies, of a quorum of nodes that all cast the vote it
\* counts, each counted once.
CertificatesHonest ==
    \A m \in net :
        /\ m.type = "PRECOMMIT" =>
             /\ Cardinality(m.bitmap) >= ConsensusThreshold
             /\ VerifyAggregateSig(m.sig, BFT_PREPARE, m.block.hash, m.bitmap)
             /\ \A n \in m.bitmap : Voted(n, m.block, BFT_PREPARE)
        /\ m.type = "COMMIT" =>
             /\ Cardinality(m.bitmap) >= ConsensusThreshold
             /\ VerifyAggregateSig(m.sig, BFT_PRECOMMIT, m.block.hash, m.bitmap)
             /\ \A n \in m.bitmap : Voted(n, m.block, BFT_PRECOMMIT)

\* A header that leaves the shard is one every other shard's CheckHeader lets
\* pass, and the nodes it names as signers did vote for that block.
HeadersCertified ==
    \A s \in sent :
        /\ CheckHeader(s.block)
        /\ \A n \in s.block.sign : Voted(n, s.block, BFT_PRECOMMIT)

\* A block is committed anywhere only when a quorum is in its precommit phase
\* or beyond, although OnCommitMsg itself does not require PRECOMMIT.
CommitNeedsQuorum ==
    \A n \in Node, h \in Heights : Committed(n, h) =>
        Cardinality({k \in Node : ~IsOut(At(h, BFT_PRECOMMIT), phase[k])})
            >= ConsensusThreshold

\* The state a node stands at is the one its latest block leads to, whatever
\* CheckBlock executed and rolled back in between, and committing never has
\* to execute the block again (Commit, RollBack).
StateFollowsChain ==
    \A n \in Node :
        /\ stateDB[n] = latestBlock[n].root
        /\ stateDB[n] \in roots[n]
        /\ currentBlock[n].root \in roots[n]
        /\ DivergedRoot \notin roots[n]

\* CheckBlock never refuses the leader's block: a PREPARE that passes the
\* checks of OnPrepareMsg extends the chain and the state of the node.
HonestBlockAccepted ==
    \A n \in Node : checking[n] # NoMessage => CheckBlockOK(n, checking[n].block)

\* The blocks the leader has proposed.
Proposed ==
    ({blockDB[Leader][h] : h \in Heights} \cup {currentBlock[Leader]})
        \ {NoBlock}

\* An inbound chunk enters at most one block, and is no longer in the pool
\* when it has: the leader credits it once (takeTxs1, CreateNewBlock).
InboundOnce ==
    /\ \A a, b \in Proposed : a.inbound \cap b.inbound # {} => a.hash = b.hash
    /\ \A i \in 1 .. Len(pool) :
         /\ \A j \in 1 .. Len(pool) : pool[i] = pool[j] => i = j
         /\ \A b \in Proposed : pool[i] \notin b.inbound

\* A committed block is never replaced, not even by a certified message for
\* the same height that is delivered again.
BlocksFinal ==
    [][\A n \in Node, h \in Heights :
         Committed(n, h) => blockDB'[n][h] = blockDB[n][h]]_vars

-----------------------------------------------------------------------------
(* The abstract specification the protocol implements.                     *)

\* The logs of block hashes that BlockDB stands for.
CommittedLog == [n \in Node |-> [h \in Heights |-> blockDB[n][h].hash]]

Abstract == INSTANCE ShardLog WITH
    Hash <- 1 .. (MaxHeight + 1), Threshold <- ConsensusThreshold,
    log <- CommittedLog

\* Consensus implements the replicated log: the leader commits a fresh block
\* on top of one a quorum has committed, validators commit the leader's next
\* block, nothing else ever happens to a BlockDB.
ImplementsLog == Abstract!Spec

-----------------------------------------------------------------------------
(* Liveness, for a set S of validators whose processes keep running.       *)

\* The network loses messages, but what a goroutine sends again and again
\* arrives in the end: bytes as they are marshalled now, not older ones.
LossyFairness(S) ==
    /\ WF_vars(Start)
    /\ \A n \in S :
         /\ WF_vars(FinishCheck(n))
         /\ WF_vars(\E g \in gossip : OnPrepareMsg(n, Marshal(g)))
         /\ WF_vars(\E g \in gossip : OnPrecommitMsg(n, Marshal(g)))
         /\ WF_vars(\E g \in gossip : OnCommitMsg(n, Marshal(g)))
         /\ WF_vars(\E g \in gossip :
                      /\ g.from = n /\ n \notin crashed
                      /\ OnPrepareVoteMsg(Marshal(g)))
         /\ WF_vars(\E g \in gossip :
                      /\ g.from = n /\ n \notin crashed
                      /\ OnPrecommitVoteMsg(Marshal(g)))
         /\ WF_vars(\E g \in gossip :
                      /\ g.from = n /\ n \notin crashed
                      /\ OnCommitVoteMsg(Marshal(g)))

\* Node n has prepared height h, or is beyond it.
Prepared(n, h) == ~IsNew(phase[n], At(h, BFT_PREPARE))
=============================================================================
