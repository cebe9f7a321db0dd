\* Four nodes, threshold three: the leader leaves one validator behind.
SPECIFICATION Spec
CONSTANTS
    Node = {v1, v2, v3, leader}
    Leader = leader
    MaxHeight = 1
    InboundIds = {}
    TxLimit = 1
    Live = {v1, v2}
    MaxAltered = 1
SYMMETRY Symmetry
CONSTRAINT FewAltered
INVARIANTS
    TypeOK
    ChainsAgree
    QuorumDurable
    CertificatesHonest
    HeadersCertified
    CommitNeedsQuorum
    HonestBlockAccepted
PROPERTIES
    ImplementsLog
    BlocksFinal
CHECK_DEADLOCK FALSE
