\* Four nodes: a validator misses the PREPARE of genesis.
SPECIFICATION Spec
CONSTANTS
    Node = {v1, v2, v3, leader}
    Leader = leader
    MaxHeight = 0
    InboundIds = {}
    TxLimit = 1
    Live = {v1, v2}
    MaxAltered = 3
INVARIANTS
    NoCrash
CHECK_DEADLOCK FALSE
