------------------------------ MODULE Transfer ------------------------------
(***************************************************************************)
(* What cross-shard transfers promise: a unit that leaves a shard is in    *)
(* flight until its destination takes it in, once.  No unit appears or     *)
(* disappears on the way.                                                  *)
(***************************************************************************)
EXTENDS Integers, FiniteSets

CONSTANTS
    Shard,     \* the shards that hold units
    Supply,    \* what each of them starts with
    TransferId \* names of transfers: records with a field to

VARIABLES
    total,     \* [Shard -> Int]: the units in a shard, Closed before genesis
    inflight   \* SUBSET TransferId: debited and not yet credited

Closed == -1

Init ==
    /\ total = [s \in Shard |-> Closed]
    /\ inflight = {}

Open(s) ==
    /\ total[s] = Closed
    /\ total' = [total EXCEPT ![s] = Supply]
    /\ UNCHANGED inflight

\* A block of shard s takes in transfers and sends out new ones; it cannot
\* send more than the shard has.
Block(s) ==
    LET in == inflight \ inflight'
        out == inflight' \ inflight
    IN  /\ total[s] # Closed
        /\ inflight' \subseteq TransferId
        /\ \A t \in in : t.to = s
        /\ \A t \in out : t.to # s
        /\ Cardinality(out) <= total[s] + Cardinality(in)
        /\ total' = [total EXCEPT ![s] = @ + Cardinality(in) - Cardinality(out)]

Next == \E s \in Shard : Open(s) \/ Block(s)

Spec == Init /\ [][Next]_<<total, inflight>>
=============================================================================
