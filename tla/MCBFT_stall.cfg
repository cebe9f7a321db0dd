\* Three nodes over a lossy network.
SPECIFICATION LossySpec
CONSTANTS
    Node = {v1, v2, leader}
    Leader = leader
    MaxHeight = 0
    InboundIds = {}
    TxLimit = 1
    Live = {v1, v2}
    MaxAltered = 3
PROPERTIES
    ChainGrows
CHECK_DEADLOCK FALSE
