----------------------------- MODULE Committee ------------------------------
(***************************************************************************)
(* From the node ids to a header at the shards it is meant for: the        *)
(* committee of one PShard collects the signatures of a block in a bitmap, *)
(* and the header finds its way through the topics of the gossip network.  *)
(*                                                                         *)
(* Modules BFT and CrossShard speak of sets of nodes and of shards.  Here  *)
(* are the numbers that the code has in their place: config.NewConfig, the *)
(* keys of consensus/protocol.go and core/shardstates.go, types.Bitmap,    *)
(* bls.PubKeyStore, the topics of p2p/node.go.  Of the consensus only the  *)
(* precommit votes are here, whose signatures go into the header; prepare  *)
(* and commit votes are collected by the same lines.                       *)
(***************************************************************************)
EXTENDS Bitmap, Config

CONSTANTS
    Networks,  \* sequence of networks: topology, number of nodes of a shard, and
               \*   the blocks to look at, as a PShard and the shards it sends to
    MaxLate,   \* bound: nodes that launch after the votes have begun
    MaxRouted  \* bound: in larger shards only the votes are looked at

ASSUME ConfigAssumption ==
    /\ \A w \in DOMAIN Networks :
          /\ WellFormed(Networks[w].topo)
          /\ Networks[w].size \in Nat \ {0, 1}
          /\ \A b \in Networks[w].blocks :
                /\ b[1] \in Range(PShardSeq(Networks[w].topo))
                /\ b[2] \subseteq Range(PShardSeq(Networks[w].topo))
    /\ MaxLate \in Nat /\ MaxRouted \in Nat

VARIABLES
    network,   \* which of the Networks this is
    shard,     \* the PShard whose block is voted on
    dst,       \* OutboundDstBitmap of the block
    bitmap,    \* precommitBitmap of the leader
    sig,       \* aggregatePrecommitSig of the leader
    cert,      \* {} or {the Signature and SignBitMap of the committed block}
    committed, \* nodes that have committed the block
    headers,   \* nodes that have the header in their ShardStates
    inbox,     \* nodes with the header in their HeaderMsgQueue
    up,        \* nodes that have launched
    counted,   \* history: voters whose vote the leader has handled in time
    present,   \* history: nodes that were up when the leader committed
    meant      \* history: the shards the block has transfers to

vars == <<network, shard, dst, bitmap, sig, cert, committed, headers, inbox,
          up, counted, present, meant>>

\* What every node of every network has in its configuration.
ShardIds == [w \in DOMAIN Networks |-> Range(ShardSeq(Networks[w].topo))]
PShardIds == [w \in DOMAIN Networks |-> Range(PShardSeq(Networks[w].topo))]
Configs ==
    [w \in DOMAIN Networks |->
        [x \in 1 .. Len(ShardSeq(Networks[w].topo)) * Networks[w].size |->
            NewConfig(Networks[w].topo, Networks[w].size, x)]]

Conf(x) == Configs[network][x]
NodeIds == DOMAIN Configs[network]
size == Networks[network].size
Members(s) == Range(Conf(1).Nodes[s])
LeaderOf(s) == CHOOSE x \in Members(s) : Conf(x).IsLeader

\* The RShard that has the PShard in its list.
Above == CHOOSE r \in DOMAIN Networks[network].topo.PShardIds :
            shard \in Range(Networks[network].topo.PShardIds[r])

-----------------------------------------------------------------------------
(* Keys and signatures.  The aggregate of signatures on the block's hash   *)
(* counts how often each node's was added, the aggregate of public keys    *)
(* how often each node's key.                                              *)

\* Mutant of getKeyOffset: the nodes of the RShards are forgotten.
getKeyOffsetNoRShards(conf, shardId) ==
    (shardId - FirstPShard) * conf.NodeNumPerShard + 1

getKeyOffset(conf, shardId) ==
    (conf.RShardNum + shardId - FirstPShard) * conf.NodeNumPerShard + 1

nodeId2Key(conf) ==
    conf.NodeId
        - (conf.RShardNum + conf.ShardId - FirstPShard) * conf.NodeNumPerShard - 1

key2NodeId(conf, key) ==
    key + (conf.RShardNum + conf.ShardId - FirstPShard) * conf.NodeNumPerShard + 1

Signed(S) == [x \in NodeIds |-> IF x \in S THEN 1 ELSE 0]

\* bls.Sign.Add
Add(s, t) == [x \in NodeIds |-> s[x] + t[x]]

\* PubKeyStore: NewPubKeyStore and Reset give every shard the keys of its
\* nodes.  A node that is not there has no key, and adds nothing to a sum.
PubKeyDB(conf, shardId) == Range(conf.Nodes[shardId])

GetAggregatePubKey(conf, shardId, b, offset) ==
    Signed({i + offset : i \in GetElement(b)} \cap PubKeyDB(conf, shardId))

VerifyAggregateSig(conf, s, b, shardId, offset) ==
    s = GetAggregatePubKey(conf, shardId, b, offset)

VerifySign(conf, s, nodeId, shardId) ==
    nodeId \in PubKeyDB(conf, shardId) /\ s = Signed({nodeId})

\* The bitmap with a node's own key, which goes along with its signature.
OwnBitmap(conf) == SetKey(NewBitmap(conf.NodeNumPerShard), nodeId2Key(conf))

-----------------------------------------------------------------------------
(* Topics.  A node joins the topic of every shard, and subscribes to that  *)
(* of its own.                                                             *)

idToTopic(s) == <<IF s <= 1000 THEN "RShard-" ELSE "PShard-", s>>

Topics(conf) ==
    {idToTopic(s) : s \in Range(conf.Topo.RShardIds)} \cup
    UNION {{idToTopic(s) : s \in Range(conf.Topo.PShardIds[r])} :
              r \in Range(conf.Topo.RShardIds)}

Subscribed(x) == idToTopic(Conf(x).ShardId)

\* Gossip of node x to some shards: whoever is subscribed by now gets it,
\* but for the sender.
Gossip(x, shards) ==
    {y \in up \ {x} : Subscribed(y) \in {idToTopic(s) : s \in shards}}

\* Launch: the node is up once it has joined and subscribed.
Launch(x) ==
    /\ x \notin up
    /\ up' = up \cup {x}
    /\ UNCHANGED <<network, shard, dst, bitmap, sig, cert, committed,
                   headers, inbox, counted, present, meant>>

-----------------------------------------------------------------------------
(* Votes.                                                                  *)

\* Blockchain.Commit: the node has the header now and sends it to its RShard.
\* The chunks that the leader sends at the same time are in CrossShard.
Commit(x) ==
    /\ committed' = committed \cup {x}
    /\ headers' = headers \cup {x}
    /\ inbox' = inbox \cup Gossip(x, {Conf(x).RShardId})

Enough(conf, b) == GetSize(b) >= conf.ConsensusThreshold

\* OnPrecommitVoteMsg at the leader, with the vote of validator v, which is
\* sent again and again.
OnPrecommitVoteMsg(v) ==
    LET leader == LeaderOf(shard)
        conf == Conf(leader)
        vote == OwnBitmap(Conf(v))
        signer == key2NodeId(conf, Min(GetElement(vote)))
        merged == Merge(bitmap, vote)
    IN  /\ {v, leader} \subseteq up
        /\ ~Enough(conf, bitmap)
        /\ counted' = counted \cup {v}
        /\ IF VerifySign(conf, Signed({v}), signer, conf.ShardId) /\ merged.newKeys # {}
           THEN /\ bitmap' = merged.bitmap
                /\ sig' = Add(sig, Signed({v}))
           ELSE UNCHANGED <<bitmap, sig>>
        /\ IF Enough(conf, bitmap')
           THEN /\ cert' = {[bitmap |-> bitmap', sig |-> sig']}
                /\ present' = up
                /\ Commit(leader)
           ELSE UNCHANGED <<cert, present, committed, headers, inbox>>
        /\ UNCHANGED <<network, shard, dst, up, meant>>

\* The leader returns at once when it has enough.
LateVote(v) ==
    /\ {v, LeaderOf(shard)} \subseteq up
    /\ Enough(Conf(LeaderOf(shard)), bitmap)
    /\ UNCHANGED vars

\* OnCommitMsg at a validator.
OnCommitMsg(v) ==
    /\ size <= MaxRouted
    /\ v \in up \ committed
    /\ \E c \in cert :
         /\ Enough(Conf(v), c.bitmap)
         /\ VerifyAggregateSig(Conf(v), c.sig, c.bitmap, Conf(v).ShardId,
                               getKeyOffset(Conf(v), Conf(v).ShardId))
    /\ Commit(v)
    /\ UNCHANGED <<network, shard, dst, bitmap, sig, cert, up, counted,
                   present, meant>>

-----------------------------------------------------------------------------
(* The header on its way.                                                  *)

\* UpdateHeader knows the shards 1001 .. 1000 + PShardNum.  CheckHeader, with
\* headerFlag off, checks the number of signatures only.
CheckHeader(conf, c) ==
    /\ shard - FirstPShard \in 0 .. conf.PShardNum - 1
    /\ Cardinality(GetElement(c.bitmap)) >= conf.ConsensusThreshold

\* Mutant of ForwardTo: the destinations are read as shard ids.
ForwardToKeys(conf) ==
    {conf.ShardId} \cup (IF conf.ShardId < FirstPShard THEN GetElement(dst) ELSE {})

\* Mutant of ForwardTo: the destinations are counted from 1.
ForwardToNext(conf) ==
    {conf.ShardId} \cup
    (IF conf.ShardId < FirstPShard THEN {k + FirstPShard + 1 : k \in GetElement(dst)}
                                   ELSE {})

\* Where a node sends a header that is new to it.
ForwardTo(conf) ==
    {conf.ShardId} \cup
    (IF conf.ShardId < FirstPShard THEN {k + FirstPShard : k \in GetElement(dst)}
                                   ELSE {})

HandleHeaderMsg(x) ==
    /\ size <= MaxRouted
    /\ x \in inbox
    /\ \E c \in cert :
         IF x \notin headers /\ CheckHeader(Conf(x), c)
         THEN /\ headers' = headers \cup {x}
              /\ inbox' = (inbox \ {x}) \cup Gossip(x, ForwardTo(Conf(x)))
         ELSE /\ inbox' = inbox \ {x}
              /\ UNCHANGED headers
    /\ UNCHANGED <<network, shard, dst, bitmap, sig, cert, committed, up,
                   counted, present, meant>>

-----------------------------------------------------------------------------
(* The specification.                                                      *)

\* CreateNewBlock: one bit for every shard that a transfer goes to.
OutboundDst(conf, shards) ==
    FoldLeft(LAMBDA b, s : SetKey(b, s - FirstPShard), NewBitmap(conf.PShardNum),
             SetToSeq(shards))

Init ==
    /\ network \in DOMAIN Networks
    /\ \E b \in Networks[network].blocks : shard = b[1] /\ meant = b[2]
    /\ dst = OutboundDst(Conf(LeaderOf(shard)), meant)
    /\ \E k \in 0 .. (IF size <= MaxRouted THEN MaxLate ELSE 0) :
       \E late \in [1 .. k -> UNION {Members(s) : s \in {shard, Above} \cup meant}] :
         up = NodeIds \ Range(late)
    /\ bitmap = OwnBitmap(Conf(LeaderOf(shard)))
    /\ sig = Signed({LeaderOf(shard)})
    /\ cert = {} /\ committed = {} /\ headers = {} /\ inbox = {}
    /\ counted = {} /\ present = {}

Validators == Members(shard) \ {LeaderOf(shard)}

Next ==
    \/ \E x \in NodeIds : Launch(x) \/ HandleHeaderMsg(x)
    \/ \E v \in Validators :
         OnPrecommitVoteMsg(v) \/ LateVote(v) \/ OnCommitMsg(v)

\* Nodes keep handling the headers they have received.
Spec == Init /\ [][Next]_vars /\ WF_vars(\E x \in NodeIds : HandleHeaderMsg(x))

-----------------------------------------------------------------------------
(* Properties.                                                             *)

\* Every variable keeps its type: bitmaps have the length their purpose asks
\* for, and nobody but nodes of the network is ever reached.
TypeOK ==
    /\ network \in DOMAIN Networks
    /\ shard \in PShardIds[network] /\ meant \subseteq PShardIds[network]
    /\ dst \in [1 .. (Cardinality(PShardIds[network]) + 7) \div 8 -> Byte]
    /\ bitmap \in [1 .. (size + 7) \div 8 -> Byte]
    /\ sig \in [NodeIds -> Nat]
    /\ Cardinality(cert) <= 1
    /\ committed \subseteq Members(shard) /\ counted \subseteq Validators
    /\ headers \subseteq NodeIds /\ inbox \subseteq up
    /\ up \subseteq NodeIds /\ present \subseteq up

\* The configurations that the nodes compute, each for itself, fit together:
\* a node is in the list of the shard it takes for its own, every shard has
\* one leader and one subscriber per member, every node can gossip to every
\* shard, and in a PShard the keys count the members from 0 on.
CommitteesAgree ==
    /\ \A x \in NodeIds :
         /\ x \in Members(Conf(x).ShardId)
         /\ \A s \in ShardIds[network] : idToTopic(s) \in Topics(Conf(x))
    /\ \A s \in ShardIds[network] :
         /\ Cardinality({x \in Members(s) : Conf(x).IsLeader}) = 1
         /\ {x \in NodeIds : Subscribed(x) = idToTopic(s)} = Members(s)
    /\ \A s \in PShardIds[network] :
         /\ {nodeId2Key(Conf(x)) : x \in Members(s)} = 0 .. size - 1
         /\ \A x, y \in Members(s) : key2NodeId(Conf(x), nodeId2Key(Conf(y))) = y

\* The leader's bitmap and aggregate follow the votes: every vote that came in
\* time counts, once, however often it arrives.
VotesCounted ==
    LET signers == counted \cup {LeaderOf(shard)} IN
    /\ GetElement(bitmap) = {x - Min(Members(shard)) : x \in signers}
    /\ sig = Signed(signers)

\* What is in the header proves that more than two thirds of the committee
\* signed, to every node of every shard and to the code that headerFlag turns
\* off as well; a validator would not take it for the signature of more.
CertificateVerifies ==
    \A c \in cert :
        LET verifies(x, b) == VerifyAggregateSig(Conf(x), c.sig, b, shard,
                                                 getKeyOffset(Conf(x), shard))
        IN  /\ 3 * GetSize(c.bitmap) > 2 * size
            /\ \A x \in NodeIds : CheckHeader(Conf(x), c) /\ verifies(x, c.bitmap)
            /\ \A x \in Validators :
               \A k \in (0 .. size - 1) \ GetElement(c.bitmap) :
                 ~verifies(x, SetKey(c.bitmap, k))

\* A header reaches nobody but its own shard, the RShard above and the shards
\* that it has transfers to: another shard that had the header would credit
\* transfers that were not paid for.
OnlyDestinations ==
    headers \cup inbox \subseteq
        UNION {Members(s) : s \in {shard, Above} \cup meant}

\* Nobody sends a header twice.  Still every node of a destination that was up
\* when the leader committed gets it, as long as one node of the RShard was
\* up too, whoever launches late and in whatever order nodes handle it.
DestinationsReached ==
    (/\ cert # {} /\ size <= MaxRouted
     /\ present \cap Members(Above) # {})
        ~> present \cap UNION {Members(s) : s \in meant} \subseteq headers

\* From votes to certificate: every vote counts once, and what they add up to
\* convinces all nodes of the network.
VotesCertified == TypeOK /\ VotesCounted /\ CertificateVerifies
=============================================================================
