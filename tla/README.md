# Verification of Mitosis

Mitosis is a sharded blockchain in Go. Processing shards (PShards, ids from
1001) run a three-phase BFT protocol over their own chain and send transfers to
each other; a relay shard (RShard) passes block headers on. This directory
holds TLA+ modules for the parts of the program that carry its correctness,
TLC configurations that check them on small instances, and TLAPS proofs of the
results that hold for every instance. Paths below are relative to
`src/Mitosis/`.

## 1. The system

| part | state | operations | talks to |
| --- | --- | --- | --- |
| consensus (`consensus/`) | `phase`, `currentBlock`, `latestCommittedBlockHash`, three bitmaps and aggregate signatures, one `TryGossip` goroutine per message ever sent | leader: `Prepare`, `OnPrepareVoteMsg`, `Precommit`, `OnPrecommitVoteMsg`, `Commit`, `OnCommitVoteMsg`; validator: `OnPrepareMsg`, `OnPrecommitMsg`, `OnCommitMsg` | chain (calls), network, event bus (queue) |
| chain (`core/blockchain.go`) | `LatestBlock`, `BlockDB`, `StateDB`, `OutboundChunkDB` | `Genesis`, `CreateNewBlock`, `CheckBlock`, `Commit`, `RollBack`, `ExecuteBlock`, `HandleHeaderMsg`, `HandleInboundChunkMsg` | consensus, shard states, pool, network |
| shard states (`core/shardstates.go`) | headers and inbound chunks of every PShard | `UpdateHeader`, `UpdateInboundChunk`, `CheckHeader`, `CheckInboundChunk` | pool (leader only) |
| pool (`core/txpool.go`) | `PendingInboundChunks` | `AddInboundChunk`, `takeTxs1`, `GenerateCrossShardTx2` | chain |
| configuration (`config/`) | ids of shards and nodes, threshold, leader flag | `NewConfig` | all |
| bitmaps (`types/bitmap.go`) | bytes | `SetKey`, `Merge`, `GetElement`, `GetSize` | consensus, chain |
| messages (`message/`, `topics/`) | values | encode, decode | all |
| signatures (`bls/`) | key pair, table of public keys | `Sign`, `VerifySign`, `VerifyAggregateSig` | consensus |
| account state (`state/`) | live objects, journal, trie | `AddBalance`, `SubBalance`, `Commit`, snapshots | chain, trie |
| trie (`trie/trie.go` and what it calls) | a tree of loaded nodes, hashes and cached hashes | `TryGet`, `TryUpdate`, `TryDelete`, `Hash`, `Commit`, `New`; proofs; iterators | state, types, node database |
| stack trie (`trie/stacktrie.go`, `types/derive_sha.go`) | the right edge of a trie | `TryUpdate`, `Hash`; `GetChunkRoot`, `GetBlockTxRoot` | chain |
| node database (`trie/database.go`) | dirty nodes with counts, flush list, preimages; disk | `insert`, `Reference`, `Dereference`, `Cap`, `Commit` | trie, state |
| event bus (`eventbus/`) | listeners per topic | `Subscribe`, `Unsubscribe`, `Publish` | network to handlers |
| network (`p2p/`) | topics joined, subscription | `Launch`, `Gossip`, `subscribe` | event bus |

What makes it hard:

* A node runs one goroutine for BFT messages, one for headers, one for chunks,
  one for each message it keeps rebroadcasting, and one for each message it
  receives. Messages therefore arrive in any order, repeatedly, or never.
* The leader's messages hold a slice of the leader's live bitmap, and are
  marshalled again on every rebroadcast.
* The leader executes a block when it creates it, a validator executes and
  rolls back in `CheckBlock`, both adopt the state at `Commit`.
* `CheckBlock` waits without limit for headers that come by another way.
* Header and chunk of one transfer take different routes and meet in either
  order.
* Nothing is persisted and there is no view change: a node that stops is gone.
* Every node computes the ids of shards, leaders, keys and topics for itself, in
  several places; votes and destinations travel as bits that only mean something
  under those numbers.
* The trie caches hashes, loads nodes when a walk meets them, and may find them
  missing halfway; its database shares nodes between tries, counts references by
  hand, and writes in batches while others read.

`PROJECT.json` lists these places as hazards, line by line, with the properties
that watch them.

## 2. Modules

| module | models |
| --- | --- |
| `Blockchain` | the chain of every node of one shard and the operations on it |
| `BFT` | the consensus protocol on top of it (EXTENDS `Blockchain`) |
| `ShardLog` | the abstract replicated log `BFT` implements |
| `BFTInv` | the inductive invariants of `BFT` |
| `BFTInv_proofs` | proofs: types, the chain |
| `BFTCert_proofs`, `BFTState_proofs` | proofs: certificates; states, chunks and the log |
| `MCBFT` | instances of `BFT` for TLC |
| `CrossShard` | several shards and the relay exchanging transfers |
| `Transfer` | the abstract transfers `CrossShard` implements |
| `CrossShardInv`, `CrossShard_proofs` | the inductive invariants of `CrossShard`, and the proofs |
| `MCCrossShard` | instances of `CrossShard` for TLC |
| `StateDB` | the account state: cached objects, journal, trie and saved roots |
| `AccountLedger` | the table of balances `StateDB` implements |
| `StateDBInv`, `StateDB_proofs` | the inductive invariant of `StateDB`, and the proofs |
| `MCStateDB` | instances of `StateDB` for TLC |
| `EventBus` | listeners, publishing goroutines and channels of one node |
| `EventBusInv`, `EventBus_proofs` | the inductive invariant of `EventBus`, and the proofs |
| `MCEventBus` | instances of `EventBus` for TLC |
| `TrieEncoding` | the codings of keys: bytes, bits, compact |
| `Trie` | a trie over a database that may lose nodes (EXTENDS `TrieEncoding`) |
| `TrieProof` | proofs of keys, pruned proofs, range proofs (EXTENDS `Trie`) |
| `TrieIterator` | iterators over one trie and two (EXTENDS `TrieProof`) |
| `StackTrie` | the stack trie and the roots of lists (EXTENDS `Trie`) |
| `MCTrie` | an instance of these five for TLC |
| `TrieDatabase` | the node database: counts, flush list, batches, disk |
| `TrieDatabaseInv`, `TrieDatabase_proofs` | the inductive invariant of `TrieDatabase`, and the proofs |
| `MCTrieDatabase` | an instance of it for TLC |
| `Bitmap` | bitmaps, byte by byte |
| `Config` | what a node derives from topology and id |
| `Committee` | votes, certificates and the way of a header under those numbers |
| `CommitteeInv`, `Committee_proofs` | the inductive invariant of `Committee`, and the proofs |
| `MCCommittee` | an instance of `Committee` for TLC |

### Blockchain and BFT

One variable per field of `Blockchain` and `BFTProtocol` that a handler reads
later. The validator's own copies of bitmaps and aggregate signatures are not
variables: they are written and never read across handlers. A handler is one
action because a node has a single goroutine for BFT messages. The exception is
`OnPrepareMsg`: `CheckBlock` may poll for a header for any time, so the action
ends at the call and `FinishCheck` is the rest; headers are handled in between.
`Commit` is part of the actions that call it, and so is `Prepare` of the next
height in `OnCommitVoteMsg`.

* A block hash is the number of the block in the order of creation; a header
  carries a time stamp, so no hash repeats. The state root is named by the
  block that produced it. A block executed on another state than its proposer's
  gives `DivergedRoot`.
* A signature over one text is a function that counts how often each node's
  signature is in it. An aggregate verifies against a bitmap exactly if every
  node in the bitmap counts once and no other does. A single signature is
  verified against the first key of the bitmap, and the leader's key is the
  last one of its shard; this is why a PREPARE whose bitmap has grown fails.
* `net` is the set of all messages ever on the wire: a handler may take any of
  them, which covers reordering, duplication and loss. `gossip` is the set of
  `TryGossip` goroutines; an iteration that would send other bytes than before
  is a step.
* Two steps end a process: the nil dereference on a PRECOMMIT or COMMIT of
  genesis, and the unsynchronised access to the header map, which the Go
  runtime may or may not notice.

### CrossShard

Consensus appears as `BFT` shows it to be: a leader's chain that every node
checks and commits in order, with thresholds. A block holds its transactions,
the destinations that were debited (`OutboundDstBitmap`) and the chunks it
credits. Every node of every shard has its own header and chunk maps. The
number of relay nodes is a parameter apart from the number of nodes of a shard.
Which of several transactions of a poor sender is skipped depends on the order
in which a Go map is walked, hence the choice in `Debits`.

### StateDB

The modules above know an account state by its root. `StateDB` is what stands
behind it: `sdb` has a field per field of the Go struct that decides what is
written (`stateObjects`, `stateObjectsPending`, `stateObjectsDirty`, the
journal's `entries` and `dirties`, `refund`, the trie), `saved` holds the roots
in the trie database and `marks` the snapshots of the caller. Each method is an
operator on such a record, so that a call is the composition the code makes of
them; reading a balance is an action too, because it fills the cache. A trie is
the map of its accounts and a root is the trie: the trie is modelled as what it
stores. `journal.revert` has no caller in this version; it is modelled as the
caller it was written for would use it. `Calls` says which of the calls the
chain does not make itself are made in a run.

### EventBus

A message that comes from the network is published by a goroutine of its own
(`publisher`), which loads a copy of the topic's listeners and notifies them one
by one, and forwarded by a second one (`forwarder`) under a read lock. Between
these steps listeners come and go. `sent` and `read` together are a channel:
what has been put into it and how much of it was taken out. `due` and `past`
remember which subscriptions existed, and which had ended, when a goroutine
started.

### Trie, TrieProof, TrieIterator, StackTrie

`root` is the tree as the code has it: short, full and value nodes, nodes known
by hash only, a cached hash and a dirty flag at each expanded node. `insert`,
`delete`, `hash` and the walks are recursive operators that follow the code's
cases, resolve a node where the code does, and give back the node unchanged and
an error where the code does. `store` is the node database; `Lose` takes a node
out of it, which is what the error paths are for. The hash of a node is the
stored node itself: equal hashes are equal nodes. `content` is the map the
client has written, and `RefRoot` builds the trie of a map directly, from its
definition, without insertion or deletion: the reference for all roots.

Proofs, iterators and the stack trie change nothing, so they are operators and
their properties are invariants: in every state of the trie, for every key,
range, start or committed version, the operator's answer is compared with
`content`. The in-place packing of a key is modelled on its buffer, since it
overwrites what it still reads.

### TrieDatabase

A record `db` has the dirty nodes with their counts, maps of external children,
the two links of the flush list, and the size counters. Which nodes there are,
what they hold and refer to is given by the constants `Kids`, `Ext` and `Size`:
the database sees only that. `CommitTrie` hands over any part of a trie that the
database lacks, as a trie does whose other nodes are not loaded. `Cap` and
`Commit` work on the disk without the lock; they are one step per node or batch,
and in between a batch may fail, the process may die, and readers look.

What is recursive in the code is a function over a finite set here. `dereference`
calls itself for the children of a node and deletes the node when it comes back:
`walkOn` is one turn of that with the calls on a stack, and `walkLength` turns are
enough, since a node that is expanded leaves the flush list for good. `postorder`
is the order in which `commit` and the trie's committer go through a trie, and the
loops of `Cap` and of the batch replay are folds. Three facts about tries are named
assumptions. A hash covers all that is below its node, so no node is below itself
(`RankAssumption`). Only the leaves of the account trie refer to other tries, as a
storage trie is committed without a leaf callback (`LeafAssumption`). A
preimage's key carries a prefix and is no node's hash (`KeyAssumption`).

### Bitmap, Config, Committee

`BFT` and `CrossShard` speak of sets. `Committee` has the numbers in their
place: every node has the record `NewConfig` computes for it, keys are node ids
minus an offset, votes are bits in bytes (a byte is the set of its bits), an aggregate verifies against the keys
that its bitmap selects at an offset, destinations are bits too, and gossip goes
to a topic by its name. Of the three rounds of votes the one is there whose
signatures end up in the header. Nodes launch at any time, and gossip reaches
only who has launched. `DestinationsReached` is about the header only; chunks are
in `CrossShard`.

## 3. Runs

The runs of `BFT`, `CrossShard` and `EventBus` say CHECK_DEADLOCK FALSE, because
a chain bounded by `MaxHeight` and a bounded set of messages end. All others
check for deadlock.

| run | instance | states | checks |
| --- | --- | --- | --- |
| `bft_quorum` | 4 nodes, threshold 3, heights 0..1 | 74 000 | agreement, durability at a quorum, honesty of certificates and headers, finality, implementation of `ShardLog` |
| `bft_inbound` | 3 nodes, heights 0..2, 2 inbound chunks, limit 1 | 98 000 | state follows chain, a chunk enters one block |
| `bft_lossy` | 4 nodes, one stopped, height 0 | 3 500 | a prepared block gets committed over a lossy network |
| `cross` | 2 shards of 2 nodes, 1 relay, heights 0..2 (shard 1: 0..1) | 111 000 | conservation with no balance below zero, no credit without debit, one credit each, implementation of `Transfer`; a committed transfer arrives, no `CheckBlock` waits for ever |
| `state_ledger` | 1 account, balances 0..2, journal of 3, 2 roots, all calls | 235 000 | no nil dereference, cache agrees with trie, a copy commits what its original would, implementation of `AccountLedger` |
| `bus_served` | 1 message, 2 listeners and 2 default listeners (a full channel, an empty one, two callbacks), 2 ids | 1 350 000 | every listener is notified once or reported, publishing ends although nobody reads |
| `trie` | 4 keys of 1 or 2 bytes, one a prefix of another, at most 3 at a time, 2 commits or lost nodes | 17 000 | root and contents determine each other, reads by key and path and of old roots, codings of paths up to 20 bits, proofs accepted and only for what is there, range proofs accepted only for what is there and no true one with two edges refused with an error, iterators over one version and two, with keys that are new or have another value, stack trie and lists around length 128 |
| `triedb` | 5 nodes, 3 roots that share some (one twice in a parent, one through a leaf), 2 references, 1 crash or failed write | 748 000 | what is held stays readable and nothing else is kept, the disk is complete at every moment, counts, flush list and sizes are exact, `Commit` is durable and `Cap` within its limit, readers never miss |
| `committee` | networks of 1 and 2 RShards, 2 to 9 PShards, 2, 4 and 10 nodes a shard, every set of destinations, 2 nodes launch late | 145 000 | configurations fit together, votes make a certificate that all nodes accept, headers reach their destinations and nobody else |

Bounds. Four nodes is the smallest shard with a quorum that leaves a node out,
and two heights the smallest chain in which that node meets messages of a
height it has missed. `MaxAltered` limits how many different altered PREPAREs
are on the wire at once (a state constraint, in runs of safety only): no
validator accepts any of them. Symmetry permutes validators and is used in
safety runs only. `bft_inbound` has three heights and a limit of one chunk per
block, so that a chunk stays in the pool over a block. In `cross` an
account has one unit: it pays, cannot pay again, and can after it has received;
`Short` lets one shard stop a height earlier to keep the run small. More chunks
than a block takes meet a block in `bft_inbound`, and in the proofs about
`CrossShard`, which hold for every `TxLimit`. In
`state_ledger` an account has three balances, so that an addition, an overflow
and an underflow differ, and three entries allow a change, its repetition after
a self-destruction and a revert of part of it. The account is the one that
`journal` treats specially when it is touched (`ripemd`); accounts meet only in
the order of the journal. `Copy` is called on settled states there: `Settled`
says that no self-destruction and no refund is waiting for `Finalise`. In `bus_served` an older message
fills the channel of one listener from the start (`Busy`), so that the one
published message is dropped or not depending on when it is read. Two ids for
two listeners make them collide in some behaviours and not in others.

The keys of `trie` part in the first bit, in the seventh, and at the end of the
shorter one, so that short nodes are split, merged and turned into values of
full nodes; two commits allow a trie of nodes from two versions, or a lost node
under a loaded one. Values are one in the steps and two in the properties, which
look one write ahead: `OverwriteExact` for the root, `TwoTriesExact` for the
difference of two versions in which a key has two values. In `triedb` a batch is
full with two or three nodes, so that a `Commit` of the largest trie takes
several; the limit 300 makes `Cap` stop in the middle, 0 makes it flush all; a
`PreimageLimit` of 0 stands for 4 MB. Ten nodes are the fewest with which the bitmap of signers has voters in two bytes, nine
PShards the fewest with which that of destinations has two; `MaxRouted` lets the
larger shards vote only, and the smaller ones, of two nodes, send headers too.

Fairness. `LossyFairness` assumes of the network only that a message which is
rebroadcast for ever, with the bytes it has now, arrives in the end; TryGossip
never stops, which justifies it. Headers and chunks are sent once, so
`ReliableSpec` assumes that none is lost, without which nothing could be shown (a
lost chunk is a lost transfer): every node goes on handling messages while there
is one it has not handled. Below the bounded height there are finitely many, so
each is handled in the end; this is also why `DebitArrives` and `BlocksCommit`
can speak of all transfers and all nodes at once. `FairSpec` of `EventBus`
assumes only that a goroutine in `Publish` or `Forward` goes on; nothing in them
blocks.
`Spec` of `Committee` assumes that nodes go on handling the headers they have
received; it does not assume that a node launches, nor that one votes.

Runs that are expected to fail, each against a sentence of the repository:

* `bft_stall`: with two validators a lost PREPARE is not repaired by
  rebroadcasting (`consensus/protocol.go:187`): after the first vote the
  PREPARE on the wire names the voter as signer and fails verification
  everywhere. Three nodes need all votes, so the shard stops for ever.
* `bft_crash`: the guard for a node without genesis
  (`consensus/validator.go:82`) lets PRECOMMIT and COMMIT of genesis through to
  a nil dereference.
* `trie_range`: the comment of `VerifyRangeProof` (`trie/proof.go:522`) and
  `TestRangeProof` (`trie/proof_test.go:277`) say that the true leaves between two
  edges are accepted. `unset` runs over 16 children (`trie/proof.go:441`) where a
  full node of this trie has three, so verification panics as soon as the left
  edge passes a full node below the fork. Three keys show it. In `trie`,
  `RangesExact` says what remains: what is accepted is exact (`RangeSound`), and a
  true claim with two edges is accepted or panics, never refused
  (`TwoEdgesRestored`).

Seen while modelling, without a run of their own:

* `TryGossip` sends its message again after it is outdated
  (`consensus/protocol.go:63` says until): the loop gossips at its head whatever
  the phase. `BFT` has these messages.
* Listener ids are drawn from 0..31 and not checked. When two listeners of a
  topic share one, `Unsubscribe` of the later removes the earlier. `TopicServed`
  and `DefaultServed` therefore speak of listeners with an id of their own
  (`OwnId`).
* An account that is created again after its deletion was written is not written
  by `Commit`, as `resetObjectChange` marks no address dirty. Its balance is 0
  either way, and `AccountLedger` tells no more apart.
* `Finalise` of a copy keeps the refund of its original (`state/statedb.go:536`),
  because it clears refunds only together with a non-empty journal.
* A copy taken after a self-destruction commits the account that the original
  deletes, although `state/statedb.go:431` says the journal's effects are applied
  to the copy. The chain neither copies a state nor destructs accounts.
* `README.md:12` says that all nodes of a shard send its chunks after a commit.
  Only the leader has any: `OutboundChunkDB` is filled by `CreateNewBlock` alone.
* `README.md:14` says that the relay looks for the previous header before it
  stores one. `UpdateShardStateWithHeaderRShard` looks for the header itself only.
* `CheckHeader` counts signers and does not verify the signature, as `headerFlag`
  is false. `CertificateVerifies` shows that the verification would succeed.
* A header is sent once by each node. A node that launches later misses it, and
  if no node of the RShard is up when the shard commits, nobody gets it.
* `NewConfig` assumes that shard ids are consecutive and in the order of the
  topology (`WellFormed`); otherwise `ShardId` and `Nodes` disagree. A shard of one
  node never proceeds, since the leader counts when a vote arrives.
* `GossipAll` starts goroutines that share the loop variable; its only caller
  returns before it unless the shard id is 0, which no node has.
* `topics.Prepend` compares `int(t) > len(Topics)`, one too far.
* `VerifyRangeProof` ignores the errors of `TryUpdate`. What it accepts is still
  right (`RangeSound`).
* The order of iteration is that of the paths, in which a key comes after those
  it is a prefix of (the terminator is greater than a bit).
* A trie's root must be given to `Reference` before anything else happens in the
  database: a root that was collected or flushed is skipped silently. The program
  never calls `Reference`, `Dereference`, `Cap` or `Commit` of the node database
  itself; its leaf callback does nothing.
* `cleaner.Put` takes the size of a child table off `dirtiesSize`, where it was
  added to `childrenSize`. Only their sum is ever used, and `SizesExact` is about it.
* `SecureTrie.Copy` starts with an empty cache of key preimages.
* `trie/sync.go:368` still walks the 17 children of a hexary node, over an array
  of three.

## 4. Proofs

Each theorem holds for every value of the constants that satisfies the named
assumptions of its module. None of the properties is inductive as it stands, so
each module of proofs rests on an invariant of its own, stated in a module
`...Inv` that the instances for TLC extend. TLC has checked each of these
invariants on the instances of section 3 before it was proved.

### BFT

For any finite set of nodes, any leader in it, any `MaxHeight`, set of chunks and
limit (`NodeAssumption`, `MaxHeightAssumption`, `TxLimitAssumption`).

* `BFTInv_proofs`: `TypeCorrect`, one step per action. `ChainInvariant` shows that `ChainInv` is inductive, and
  from it follow `Agreement` (`ChainsAgree`), `Durability` (`QuorumDurable`)
  and `Finality` (`BlocksFinal`). A COMMIT that is delivered late could break
  agreement in a state in which it carries an old block with the node's height,
  and a vote of a phase that is counted late could break durability. `ChainInv`
  therefore also says what every message and goroutine is about (a block the
  leader has proposed, the block of its height), that a commit vote names a node
  that has committed, that the leader's commit bitmap holds only such nodes, that
  a block's hash determines its height, and how a node's current block, its last
  committed hash and its chain fit together.
* `BFTCert_proofs`: from `CertInv`, on top of `ChainInv`, follow
  `HonestCertificates` (`CertificatesHonest`), `CertifiedHeaders`
  (`HeadersCertified`) and `CommitQuorum` (`CommitNeedsQuorum`). The bitmap in a
  message is marshalled by a goroutine after the handler has gone on, so the
  invariant is about the leader's aggregate and bitmap in every phase: they agree
  at each moment a goroutine may look, and a vote that arrives when the bitmap is
  full changes neither.
* `BFTState_proofs`: from `StateInv` follow `StateFollows` (`StateFollowsChain`)
  and `BlocksAccepted` (`HonestBlockAccepted`): the leader's blocks were executed
  one on another, and a validator that checks one stands at its parent's state.
  From `InboundInv` follows `InboundCreditedOnce` (`InboundOnce`): a chunk is new
  as long as its header is, then once in the pool, then in one block.
* There too `Refinement` (`ImplementsLog`). The initial states map to
  initial states; a step of the leader that creates a block maps to an append, a
  commit to a copy, every other step to a stutter.

### CrossShard

For any number of shards, nodes and accounts, any height and limit
(`SizesAssumption`).

* `TransferInvariant`: types and `TransferInv`, which says of a header or a chunk,
  on the wire or in a map, which block it comes from and that the block sent it
  there. `Backed` (`NoUnbackedCredit`) and `CreditedOnce` (`CreditOnce`) follow:
  a credit needs chunk and header, the header comes only where the block debited,
  and the second of the two to arrive puts the chunk into the pool, once.
* `SumInvariant` and `Conserved` (`Conservation`): a sum of balances is the
  number of units that the accounts hold (`Units`), so that the library's theorems
  about cardinalities apply; a block moves as many units from its shard to the
  set in flight, and from there to its shard, as it debits and credits.
* `TransferRefinement` (`ImplementsTransfer`): genesis, a block and any other step
  map to opening a shard, a transfer and a stutter.

### EventBus

For any number of topics, listeners, default listeners, messages and ids and any
buffer (`BusAssumption`).

* `BusInvariant`: `BusInv` says that a list has each of its listeners once, with
  the id it was given; that a listener with an id of its own is listed from when
  it subscribes to when it leaves; and that a goroutine has notified exactly the
  listeners before its place, each once. For Publish this is about the copy that
  Load made, for Forward about the list itself, which the read lock keeps still.
* `EveryListenerServed` (`ListenersServed`) follows. `OwnId` is a premise of the
  property itself: with colliding ids Unsubscribe may take out another listener.

### StateDB

For any set of accounts, any width of a balance and any bounds
(`BoundsAssumption`, `NilAssumption`: the value for "no object" is none of the
objects and balances).

* `AccountInvariant`: `AccountInv` says `Good` of the state and of every state
  that `revert` could still bring back, and that each snapshot of the caller shows
  the balances and the refund its revert brings back, the older ones no later than
  the newer. `Good` adds two facts to `StateCoherent`: the newest entry of the
  journal is about an object that is still there (`LastApplies`), without which
  undoing it would change nothing, and an account that has destructed itself is
  still counted in `dirties` (`SuicidesCounted`), without which Finalise would not
  delete it.
* A call appends at most a few entries, and one lemma per kind of entry shows that
  undoing it brings back what was there before; the states further back are then
  those of the old journal. `revert` is a walk over the journal of any length. In
  place of an induction on that length the lemmas take the first step at which
  what they claim would fail (`FirstOne`, `LastOne`), and the step before it
  contradicts that; so `RECURSIVE` and a schema of induction are not needed.
* From it follow `StateStaysCoherent` (`StateCoherent`), `CopiesCommitAlike`
  (`CopyFaithful`) and `LedgerImplemented` (`ImplementsLedger`). Each step of
  `StateDB` is one of seven kinds: it writes one balance, changes the refund, seals
  a transaction, saves, opens, marks or goes back, and each maps to the step of
  `AccountLedger` of that name (a read that fills the cache writes the balance that
  is there).

### Committee

For any number of networks, each with any topology whose ids are given out as
`config.json` does it, fewer than 1001 RShards (`WellFormed`; with more, an RShard
would have the id of a PShard), two nodes or more in a shard, and any blocks from
PShards to PShards (`ConfigAssumption`).

* `AgreeAlways` (`CommitteesAgree`): what a node computes by division and what it
  computes by counting are compared for every topology. The lists of PShards are
  joined one after another by a fold (`FlattenSeq`), and a block's destinations set
  bit after bit (`OutboundFacts`). As in StateDB, in place of an induction the
  lemmas take the first place where the result would be wrong (`FirstOne`).
* `CommitteeInvariant`: `CommitteeInv` adds to the properties that the certificate
  is made of the leader's bitmap and aggregate and exists exactly when there are
  enough signers (`CertOfVotes`), after which the leader changes neither; and that
  the bits of `OutboundDstBitmap` are the shards with transfers (`DstMeant`).
* From it follow `CertificatesConvince` (`VotesCertified`), where the members'
  keys at the offset of the shard turn the bits of the header back into the nodes
  that signed, and `HeadersStayOnPath` (`OnlyDestinations`).

### TrieDatabase

For any finite set of nodes, any tries over it that share whatever they like, any
sizes, allowances, size of a batch, and number of references, crashes and failed
writes (`HashAssumption`, `NodeAssumption`, `BoundAssumption`, and the three of
section 2).

* `DatabaseInvariant`: `DatabaseInv` has the disk closed under references
  (`Complete`), and of the memory that what a cached node refers to is cached or on
  disk (`Closed`), that a node's external references have been counted (`Tied`),
  that a count is the number of references from cached nodes and from the meta
  root unless the node is on disk (`Counted`), and that a node not on disk is
  referred to at all (`Needed`). The exception for nodes on disk is the code's: a
  node that was flushed and inserted again starts with the count of those who
  come later. The meta root's map is what the caller holds (`HeldAt`). The flush
  list is described by a numbering `pos` of the nodes that grows along it and puts
  children first (`Ordered`, `Children1st`); `CapAt` and `CommitAt` say of a running
  job what is on disk, what is in its batch and what is still ahead.
* Each loop (`FoldTurns`, `PutTurns`, `WalkTurns`, `ClearTurns`) is a sequence of
  turns, and a fact about the loop holds because there is no first turn that breaks
  it. In the walk of `dereference` some nodes have left the flush list and wait for
  their deletion while calls for their children are pending. `Counted` is true
  there of the nodes in the list if a pending call counts as a reference; the walk
  ends as the number of calls that may still come shrinks.
* That nothing is kept which nobody needs (`NoGarbage`) is not a matter of counts
  alone, as counts do not see cycles: from a node that no held trie contains, a walk
  to its referrers never ends, against `RankAssumption`. In the proof the node of
  the highest rank among them has none.
* From it follow `HeldAlwaysExact` (`HeldExactly`), `DiskAlwaysComplete`
  (`DiskComplete`), `BooksAlwaysAgree` (`Bookkeeping`), `ReadersNeverMiss`
  (`ReadNeverMisses`) and `JobsAlwaysDone` (`JobsDone`).
* A numbering cannot be enumerated, so `MCTrieDatabase` computes it from the list
  (`Place`); with it the invariant was checked as `DatabaseInvHere` on the
  instance of `triedb`.

### What stays with TLC

* Liveness (`PreparedCommits`, `PublishReturns`, `DebitArrives`, `BlocksCommit`,
  `DestinationsReached`): fairness and ENABLED are outside the prover's reach.
* The trie, its proofs and iterators, and the stack trie: their walks are RECURSIVE
  operators, which the prover does not support, and what these compute for every
  input would need induction over trees.

## 5. What is left out, and the plan

Not modelled, and why: the curve arithmetic and RLP (libraries; RLP appears where
the order of list indices depends on it), discovery and the DHT (I/O of libp2p),
the JSON files (written and never read back, or read once at the start), the 5000
lines of public keys (data), the boot node and the generation of keys (I/O before
the system starts), the synchronisation of tries with its bloom filter and notary
(called by nobody, and unable to schedule the children of a full node), the clean
cache of the node database (off in this program; it holds what the disk holds),
logs of the account state (read by nobody).

Every safety property of the runs outside the trie, its proofs, its iterators and
the stack trie is proved. Those four compute with whole trees, and compare the
result with a map: what would be left to prove about them is induction over the
tree, which the prover's libraries offer only in a form that it cannot use.
