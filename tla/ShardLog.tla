------------------------------ MODULE ShardLog ------------------------------
(***************************************************************************)
(* What the consensus of a shard promises, without messages, phases or     *)
(* signatures: every node keeps a log of block hashes; the leader extends  *)
(* its log when a quorum has all of it, and another node copies the next   *)
(* entry of the leader's.  No entry is ever changed or skipped.            *)
(***************************************************************************)
EXTENDS Naturals, FiniteSets

CONSTANTS
    Node, Leader, \* the nodes and the one that extends the log
    MaxHeight,    \* the last position in a log
    Hash,         \* the entries, numbers other than 0
    Threshold     \* size of a quorum

VARIABLE log      \* [Node -> [0 .. MaxHeight -> Nat]], 0 being no entry

Positions == 0 .. MaxHeight

\* Position h is the next one node n has to fill.
NextFree(n, h) ==
    /\ log[n][h] = 0
    /\ \A k \in Positions : k < h => log[n][k] # 0

Init == log = [n \in Node |-> [h \in Positions |-> 0]]

\* The leader appends a hash that is not in its log, the previous one being
\* in the logs of a quorum.
Append(h, x) ==
    /\ NextFree(Leader, h)
    /\ \A k \in Positions : log[Leader][k] # x
    /\ h > 0 => Cardinality({n \in Node : log[n][h - 1] # 0}) >= Threshold
    /\ log' = [log EXCEPT ![Leader][h] = x]

\* A node copies the next entry.
Copy(n, h) ==
    /\ NextFree(n, h)
    /\ log[Leader][h] # 0
    /\ log' = [log EXCEPT ![n][h] = log[Leader][h]]

Next ==
    \E h \in Positions :
        \/ \E x \in Hash : Append(h, x)
        \/ \E n \in Node \ {Leader} : Copy(n, h)

Spec == Init /\ [][Next]_log
=============================================================================
