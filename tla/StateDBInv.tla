----------------------------- MODULE StateDBInv -----------------------------
(***************************************************************************)
(* The inductive invariant of StateDB: what holds of the account state     *)
(* holds of every state that revert could bring back, and a snapshot shows *)
(* the state that its revert brings back.                                  *)
(***************************************************************************)
EXTENDS StateDB

Entry ==
         [kind : {"create", "touch"}, addr : Address]
    \cup [kind : {"reset"}, addr : Address, prevObject : Object]
    \cup [kind : {"suicide"}, addr : Address, prev : BOOLEAN, prevBalance : Balance]
    \cup [kind : {"balance"}, addr : Address, prevBalance : Balance]
    \cup [kind : {"refund"}, prevRefund : Nat]

State ==
    [trie : [Address -> Account], stateObjects : [Address -> Object \cup {Nil}],
     pending : SUBSET Address, dirty : SUBSET Address,
     entries : Seq(Entry), dirties : [Address -> Nat], refund : Nat]

Mark == [length : Nat, refund : Nat, bal : [Address -> Balance]]

\* The newest entry is about an object that is still there, so that undoing it
\* has something to change.
LastApplies(s) ==
    LET e == s.entries[Len(s.entries)]
    IN  (s.entries # <<>> /\ e.kind # "refund") =>
            /\ s.stateObjects[e.addr] # Nil
            /\ e.kind = "suicide" => ~s.stateObjects[e.addr].deleted

\* An account that has destructed itself waits for Finalise in the journal.
SuicidesCounted(s) ==
    \A a \in Address :
        LET o == s.stateObjects[a]
        IN  (o # Nil /\ o.suicided /\ ~o.deleted) => s.dirties[a] > 0

Good(s) ==
    /\ s \in State
    /\ Cached(s)
    /\ Coherent(s)
    /\ SuicidesCounted(s)
    /\ s.entries = <<>> => s.refund = 0
    /\ LastApplies(s)

JournalInv(s) ==
    /\ Good(s)
    /\ \A n \in 0 .. Len(s.entries) : Good(revert(s, n))

\* The snapshot m can still be applied to s, and shows what that brings back.
Shows(s, m) ==
    /\ m.length <= Len(s.entries)
    /\ View(revert(s, m.length)) = m.bal
    /\ revert(s, m.length).refund = m.refund

\* A revert can only be followed by one that goes further back.
MarksFit(s, ms) ==
    /\ ms \in Seq(Mark)
    /\ \A i \in 1 .. Len(ms) :
          /\ Shows(s, ms[i])
          /\ \A j \in 1 .. i : ms[j].length <= ms[i].length

AccountInv ==
    /\ JournalInv(sdb)
    /\ saved \subseteq [Address -> Account]
    /\ MarksFit(sdb, marks)
=============================================================================
