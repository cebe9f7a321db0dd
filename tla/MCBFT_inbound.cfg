\* Three nodes, three heights, two inbound chunks.
SPECIFICATION Spec
CONSTANTS
    Node = {v1, v2, leader}
    Leader = leader
    MaxHeight = 2
    InboundIds = {c1, c2}
    TxLimit = 1
    Live = {v1, v2}
    MaxAltered = 1
SYMMETRY Symmetry
CONSTRAINT FewAltered
INVARIANTS
    StateFollowsChain
    InboundOnce
CHECK_DEADLOCK FALSE
