\* Four nodes over a lossy network, one of them not running.
SPECIFICATION LossySpec
CONSTANTS
    Node = {v1, v2, v3, leader}
    Leader = leader
    MaxHeight = 0
    InboundIds = {}
    TxLimit = 1
    Live = {v1, v2}
    MaxAltered = 3
PROPERTIES
    PreparedCommits
CHECK_DEADLOCK FALSE
