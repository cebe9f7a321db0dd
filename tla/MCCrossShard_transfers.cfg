\* Two shards of a leader and a validator: an account pays once and, if it
\* receives, again.
SPECIFICATION ReliableSpec
CONSTANTS
    PShardNum = 2
    NodeNumPerShard = 2
    RNodeNum = 1
    MaxHeight = 2
    Short = {1}
    CrossShardHeights = 3
    TxLimit = 1
    Account = {a}
    GenesisBalance = 1
INVARIANTS
    NoUnbackedCredit
    CreditOnce
    Conservation
PROPERTIES
    ImplementsTransfer
    DebitArrives
    BlocksCommit
CHECK_DEADLOCK FALSE
