--------------------------- MODULE AccountLedger ---------------------------
(***************************************************************************)
(* What the account state promises its caller: a table of balances that    *)
(* can be marked and taken back to a mark, and whose saved versions can be *)
(* opened again at any time.                                               *)
(***************************************************************************)
EXTENDS Naturals, Sequences

CONSTANTS
    Address,   \* the accounts
    Balance    \* the amounts an account may have, 0 among them

VARIABLES
    bal,       \* [Address -> Balance]
    refund,    \* Nat
    marks,     \* Seq([bal, refund]): what the caller may go back to
    saved      \* SUBSET [Address -> Balance]: what has been committed

Zero == [a \in Address |-> 0]

Init == bal = Zero /\ refund = 0 /\ marks = <<>> /\ saved = {Zero}

Write(a) ==
    /\ \E v \in Balance : bal' = [bal EXCEPT ![a] = v]
    /\ UNCHANGED <<refund, marks, saved>>

Charge ==
    /\ refund' \in Nat
    /\ UNCHANGED <<bal, marks, saved>>

Mark ==
    /\ marks' = Append(marks, [bal |-> bal, refund |-> refund])
    /\ UNCHANGED <<bal, refund, saved>>

GoBack(i) ==
    /\ bal' = marks[i].bal /\ refund' = marks[i].refund
    /\ marks' = SubSeq(marks, 1, i)
    /\ UNCHANGED saved

\* The end of a transaction: no way back behind it.
Seal ==
    /\ marks' = <<>> /\ refund' = 0
    /\ UNCHANGED <<bal, saved>>

Save ==
    /\ saved' = saved \cup {bal}
    /\ marks' = <<>> /\ refund' = 0
    /\ UNCHANGED bal

Open ==
    /\ bal' \in saved
    /\ marks' = <<>> /\ refund' = 0
    /\ UNCHANGED saved

Next ==
    \/ \E a \in Address : Write(a)
    \/ \E i \in DOMAIN marks : GoBack(i)
    \/ Charge \/ Mark \/ Seal \/ Save \/ Open

Spec == Init /\ [][Next]_<<bal, refund, marks, saved>>
=============================================================================
