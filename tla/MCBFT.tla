------------------------------- MODULE MCBFT -------------------------------
(***************************************************************************)
(* Instances of BFT for TLC.                                               *)
(***************************************************************************)
EXTENDS BFTInv, TLC

CONSTANTS
    Live,      \* validators that keep running and receiving
    MaxAltered \* bound: altered PREPAREs on the wire

Symmetry == Permutations(Validator)

\* State constraint: PREPAREs that were marshalled again after the bitmap
\* they share had grown.  No validator ever accepts one.
FewAltered ==
    Cardinality({m \in net : m.type = "PREPARE" /\ m.bitmap # {Leader}})
        <= MaxAltered

LossySpec == Spec /\ LossyFairness(Live)

\* Once a quorum of running validators has prepared a block, losses cannot
\* stop it: rebroadcasts carry all of them to the commit of that height.
PreparedCommits ==
    \A h \in Heights :
        (\A n \in Live : Prepared(n, h) /\ n \notin crashed)
            ~> (\A n \in Live : Committed(n, h))

\* Every running validator commits every height in the end: a message that
\* was lost is sent again, as long as the phase has not changed
\* (TryGossip, protocol.go:187).
ChainGrows == <>(\A n \in Live, h \in Heights : Committed(n, h))

\* No validator's process dies: the handlers are guarded against a node that
\* has no block yet (validator.go:22, 82, 149).
NoCrash == crashed = {}
=============================================================================
