------------------------------ MODULE StateDB ------------------------------
(***************************************************************************)
(* The account state of a node: state/statedb.go, state_object.go,         *)
(* journal.go and database.go.                                             *)
(*                                                                         *)
(* Objects are cached copies of accounts.  Every change of an object is    *)
(* journalled; Finalise moves the addresses of the journal to pending and  *)
(* dirty, IntermediateRoot writes pending objects to the trie, Commit      *)
(* saves the trie under its root.  A root stands for the accounts below    *)
(* it, as its hash does.  The trie database is in memory and is never      *)
(* pruned, so reads do not fail and dbErr stays nil.  Logs, which nobody   *)
(* reads, are left out.                                                    *)
(***************************************************************************)
EXTENDS Integers, Sequences, FiniteSets

CONSTANTS
    Address,    \* the accounts
    Ripemd,     \* the address that touch treats specially
    Width,      \* balances are 0 .. Width - 1 (uint64 in the code)
    Amounts,    \* bound: the amounts the caller passes
    Gas,        \* bound: the refunds the caller passes
    Calls,      \* which of OptionalCalls the caller makes
    Nil,        \* no object, no account
    MaxEntries, \* bound: entries in the journal, and counted for an address
    MaxRefund,  \* bound: the refund counter
    MaxMarks,   \* bound: snapshots the caller holds
    MaxSaved    \* bound: roots in the trie database

OptionalCalls == {"Suicide", "CreateAccount", "Copy", "Revert", "Refund"}

ASSUME BoundsAssumption ==
    /\ Width \in Nat \ {0} /\ Amounts \subseteq 0 .. Width - 1
    /\ Gas \subseteq Nat /\ Calls \subseteq OptionalCalls
    /\ MaxEntries \in Nat /\ MaxRefund \in Nat
    /\ MaxMarks \in Nat /\ MaxSaved \in Nat

\* Nil is none of the things it stands in for.
ASSUME NilAssumption ==
    /\ Nil \notin 0 .. Width - 1
    /\ Nil \notin [balance : 0 .. Width - 1, suicided : BOOLEAN, deleted : BOOLEAN]

VARIABLES
    sdb,    \* the StateDB the caller works with
    saved,  \* roots in the trie database
    marks   \* the caller's snapshots: journal length and what was visible

vars == <<sdb, saved, marks>>

Balance == 0 .. Width - 1
Object == [balance : Balance, suicided : BOOLEAN, deleted : BOOLEAN]
Account == Balance \cup {Nil}
NoAccounts == [a \in Address |-> Nil]

newObject(b) == [balance |-> b, suicided |-> FALSE, deleted |-> FALSE]
empty(o) == o.balance = 0

Clean == [a \in Address |-> 0]

\* New: nothing cached, the trie at root t.
New(t) ==
    [trie |-> t, stateObjects |-> [a \in Address |-> Nil],
     pending |-> {}, dirty |-> {},
     entries |-> <<>>, dirties |-> Clean, refund |-> 0]

----------------------------------------------------------------------------
(* The journal.                                                            *)

\* The addresses an entry counts for.
Dirtied(e) == IF e.kind \in {"reset", "refund"} THEN {} ELSE {e.addr}

Journal(s, e) ==
    [s EXCEPT !.entries = Append(@, e),
              !.dirties = [a \in Address |->
                  s.dirties[a] + (IF a \in Dirtied(e) THEN 1 ELSE 0)]]

clearJournalAndRefund(s) ==
    IF s.entries = <<>> THEN s
    ELSE [s EXCEPT !.entries = <<>>, !.dirties = Clean, !.refund = 0]

----------------------------------------------------------------------------
(* Objects.                                                                *)

\* getDeletedstateObject: an account that is not cached is read from the trie.
Load(s, a) ==
    IF s.stateObjects[a] = Nil /\ s.trie[a] # Nil
    THEN [s EXCEPT !.stateObjects[a] = newObject(s.trie[a])]
    ELSE s

\* After Load: getstateObject finds an object.
IsLive(s, a) == s.stateObjects[a] # Nil /\ ~s.stateObjects[a].deleted

\* As createObject, with a deleted object taken for none.
createObjectForgetful(s, a) ==
    LET t == Load(s, a)
        prev == t.stateObjects[a]
        e == IF ~IsLive(t, a) THEN [kind |-> "create", addr |-> a]
             ELSE [kind |-> "reset", addr |-> a, prevObject |-> prev]
    IN  [Journal(t, e) EXCEPT !.stateObjects[a] = newObject(0)]

createObject(s, a) ==
    LET t == Load(s, a)
        prev == t.stateObjects[a]
        e == IF prev = Nil THEN [kind |-> "create", addr |-> a]
             ELSE [kind |-> "reset", addr |-> a, prevObject |-> prev]
    IN  [Journal(t, e) EXCEPT !.stateObjects[a] = newObject(0)]

GetOrNewstateObject(s, a) ==
    LET t == Load(s, a) IN IF IsLive(t, a) THEN t ELSE createObject(t, a)

SetObjectBalance(s, a, v) ==
    LET e == [kind |-> "balance", addr |-> a,
              prevBalance |-> s.stateObjects[a].balance]
    IN  [Journal(s, e) EXCEPT !.stateObjects[a].balance = v]

touch(s, a) ==
    LET t == Journal(s, [kind |-> "touch", addr |-> a])
    IN  IF a = Ripemd THEN [t EXCEPT !.dirties[a] = @ + 1] ELSE t

Add(s, a, v) ==
    LET t == GetOrNewstateObject(s, a)
        b == t.stateObjects[a].balance
    IN  CASE v > 0 -> SetObjectBalance(t, a, (b + v) % Width)
          [] v = 0 /\ empty(t.stateObjects[a]) -> touch(t, a)
          [] OTHER -> t

Sub(s, a, v) ==
    LET t == GetOrNewstateObject(s, a)
        b == t.stateObjects[a].balance
    IN  IF v = 0 THEN t ELSE SetObjectBalance(t, a, (b - v) % Width)

----------------------------------------------------------------------------
(* Taking changes back: journal.revert and the revert of each entry.       *)

\* As UndoChange, without the balance of an account that destructed itself.
UndoChangeFlagOnly(s, e) ==
    CASE e.kind = "create" ->
            [s EXCEPT !.stateObjects[e.addr] = Nil, !.dirty = @ \ {e.addr}]
      [] e.kind = "reset" -> [s EXCEPT !.stateObjects[e.addr] = e.prevObject]
      [] e.kind = "suicide" -> [s EXCEPT !.stateObjects[e.addr].suicided = e.prev]
      [] e.kind = "balance" ->
            [s EXCEPT !.stateObjects[e.addr].balance = e.prevBalance]
      [] e.kind = "touch" -> s
      [] e.kind = "refund" -> [s EXCEPT !.refund = e.prevRefund]

UndoChange(s, e) ==
    CASE e.kind = "create" ->
            [s EXCEPT !.stateObjects[e.addr] = Nil, !.dirty = @ \ {e.addr}]
      [] e.kind = "reset" -> [s EXCEPT !.stateObjects[e.addr] = e.prevObject]
      [] e.kind = "suicide" ->
            LET t == Load(s, e.addr)
            IN  IF ~IsLive(t, e.addr) THEN t
                ELSE [t EXCEPT !.stateObjects[e.addr].suicided = e.prev,
                               !.stateObjects[e.addr].balance = e.prevBalance]
      [] e.kind = "balance" ->
            [Load(s, e.addr) EXCEPT !.stateObjects[e.addr].balance = e.prevBalance]
      [] e.kind = "touch" -> s
      [] e.kind = "refund" -> [s EXCEPT !.refund = e.prevRefund]

\* As UndoEntry, counting down for a reset too.
UndoEntryAll(e, s) ==
    LET t == UndoChange(s, e)
    IN  [t EXCEPT !.dirties = [a \in Address |->
            t.dirties[a] - (IF e.kind # "refund" /\ e.addr = a THEN 1 ELSE 0)]]

UndoEntry(e, s) ==
    LET t == UndoChange(s, e)
    IN  [t EXCEPT !.dirties = [a \in Address |->
            t.dirties[a] - (IF a \in Dirtied(e) THEN 1 ELSE 0)]]

\* The states that revert goes through: the newest entry is undone first.
Undone(s) ==
    LET undone[i \in 0 .. Len(s.entries)] ==
            IF i = 0 THEN s
            ELSE UndoEntry(s.entries[Len(s.entries) - i + 1], undone[i - 1])
    IN  undone

\* revert: down to the first n entries.
revert(s, n) == [Undone(s)[Len(s.entries) - n] EXCEPT !.entries = SubSeq(@, 1, n)]

----------------------------------------------------------------------------
(* From the journal to the trie.                                           *)

\* Addresses of the journal that have an object; a touched Ripemd may have
\* none after a revert.
Touched(s) == {a \in Address : s.dirties[a] > 0 /\ s.stateObjects[a] # Nil}

Finalised(s, deleteEmptyObjects) ==
    LET Dies(a) == LET o == s.stateObjects[a]
                   IN  o.suicided \/ (deleteEmptyObjects /\ empty(o))
    IN  clearJournalAndRefund(
            [s EXCEPT !.stateObjects = [a \in Address |->
                         IF a \in Touched(s) /\ Dies(a)
                         THEN [s.stateObjects[a] EXCEPT !.deleted = TRUE]
                         ELSE s.stateObjects[a]],
                      !.pending = @ \cup Touched(s),
                      !.dirty = @ \cup Touched(s)])

\* As Flushed, without deletestateObject.
FlushedUpdatesOnly(s, deleteEmptyObjects) ==
    LET f == Finalised(s, deleteEmptyObjects)
        Written(a) == LET o == f.stateObjects[a]
                      IN  IF o.deleted THEN f.trie[a] ELSE o.balance
    IN  [f EXCEPT !.trie = [a \in Address |->
                     IF a \in f.pending THEN Written(a) ELSE f.trie[a]],
                  !.pending = {}]

\* updatestateObject or deletestateObject for every pending object.
Flushed(s, deleteEmptyObjects) ==
    LET f == Finalised(s, deleteEmptyObjects)
        Written(a) == LET o == f.stateObjects[a]
                      IN  IF o.deleted THEN Nil ELSE o.balance
    IN  [f EXCEPT !.trie = [a \in Address |->
                     IF a \in f.pending THEN Written(a) ELSE f.trie[a]],
                  !.pending = {}]

Committed(s, deleteEmptyObjects) ==
    [Flushed(s, deleteEmptyObjects) EXCEPT !.dirty = {}]

\* As Copied, with the objects of the journal dirty but not pending.
CopiedDirtyOnly(s) ==
    LET kept == Touched(s) \cup s.pending \cup s.dirty
    IN  [s EXCEPT !.stateObjects = [a \in Address |->
                     IF a \in kept THEN s.stateObjects[a] ELSE Nil],
                  !.dirty = @ \cup Touched(s),
                  !.entries = <<>>, !.dirties = Clean]

\* Copy: the objects of the journal become pending, the journal is dropped.
Copied(s) ==
    LET kept == Touched(s) \cup s.pending \cup s.dirty
    IN  [s EXCEPT !.stateObjects = [a \in Address |->
                     IF a \in kept THEN s.stateObjects[a] ELSE Nil],
                  !.pending = @ \cup Touched(s),
                  !.dirty = @ \cup Touched(s),
                  !.entries = <<>>, !.dirties = Clean]

----------------------------------------------------------------------------
(* The calls.                                                              *)

Visible(s, a) ==
    LET o == s.stateObjects[a]
    IN  CASE o = Nil -> IF s.trie[a] = Nil THEN 0 ELSE s.trie[a]
          [] o # Nil -> IF o.deleted \/ (o.suicided /\ s.dirties[a] > 0)
                        THEN 0 ELSE o.balance

\* The balances that are to be committed: an account that has destructed
\* itself in this transaction is gone, although it can still be read.
View(s) == [a \in Address |-> Visible(s, a)]

Init ==
    /\ sdb = New(NoAccounts)
    /\ saved = {NoAccounts}
    /\ marks = <<>>

\* A call that changes cache and journal only.
Update(s) ==
    /\ Len(s.entries) <= MaxEntries /\ \A a \in Address : s.dirties[a] <= MaxEntries
    /\ sdb' = s
    /\ UNCHANGED <<saved, marks>>

AddBalance(a, v) == Update(Add(sdb, a, v))
SubBalance(a, v) == Update(Sub(sdb, a, v))
SetBalance(a, v) == Update(SetObjectBalance(GetOrNewstateObject(sdb, a), a, v))

\* GetBalance, Exist, Empty and HasSuicided read; what they read gets cached.
GetBalance(a) == Update(Load(sdb, a))

Suicide(a) ==
    LET s == Load(sdb, a)
        o == s.stateObjects[a]
        e == [kind |-> "suicide", addr |-> a,
              prev |-> o.suicided, prevBalance |-> o.balance]
    IN  /\ "Suicide" \in Calls
        /\ IsLive(s, a)
        /\ Update([Journal(s, e) EXCEPT !.stateObjects[a].suicided = TRUE,
                                        !.stateObjects[a].balance = 0])

CreateAccount(a) ==
    LET s == Load(sdb, a)
    IN  /\ "CreateAccount" \in Calls
        /\ Update(IF IsLive(s, a)
                  THEN [createObject(s, a) EXCEPT
                          !.stateObjects[a].balance = s.stateObjects[a].balance]
                  ELSE createObject(s, a))

AddRefund(g) ==
    /\ "Refund" \in Calls
    /\ sdb.refund + g <= MaxRefund
    /\ Update([Journal(sdb, [kind |-> "refund", prevRefund |-> sdb.refund])
                 EXCEPT !.refund = @ + g])

\* A refund below zero panics, which ends the process.
SubRefund(g) ==
    /\ "Refund" \in Calls
    /\ g <= sdb.refund
    /\ Update([Journal(sdb, [kind |-> "refund", prevRefund |-> sdb.refund])
                 EXCEPT !.refund = @ - g])

\* The caller notes the length of the journal; mark also records what was
\* visible then.
Snapshot ==
    /\ "Revert" \in Calls
    /\ Len(marks) < MaxMarks
    /\ marks' = Append(marks, [length |-> Len(sdb.entries), refund |-> sdb.refund,
                               bal |-> View(sdb)])
    /\ UNCHANGED <<sdb, saved>>

Revert(i) ==
    /\ sdb' = revert(sdb, marks[i].length)
    /\ marks' = SubSeq(marks, 1, i)
    /\ UNCHANGED saved

Finalise(deleteEmptyObjects) ==
    /\ sdb' = Finalised(sdb, deleteEmptyObjects)
    /\ marks' = <<>>
    /\ UNCHANGED saved

IntermediateRoot(deleteEmptyObjects) ==
    /\ sdb' = Flushed(sdb, deleteEmptyObjects)
    /\ marks' = <<>>
    /\ UNCHANGED saved

Commit(deleteEmptyObjects) ==
    LET s == Committed(sdb, deleteEmptyObjects)
    IN  /\ Cardinality(saved \cup {s.trie}) <= MaxSaved
        /\ sdb' = s
        /\ saved' = saved \cup {s.trie}
        /\ marks' = <<>>

\* New on the same database: Blockchain.RollBack.
Open(t) ==
    /\ sdb' = New(t)
    /\ marks' = <<>>
    /\ UNCHANGED saved

Reset(t) ==
    /\ sdb' = clearJournalAndRefund(
                 [New(t) EXCEPT !.entries = sdb.entries,
                                !.dirties = sdb.dirties, !.refund = sdb.refund])
    /\ marks' = <<>>
    /\ UNCHANGED saved

\* Nothing waits for Finalise that a copy would not know of: the refund, and
\* accounts that have destructed themselves.
Settled(s) ==
    /\ s.refund = 0
    /\ \A a \in Address :
          s.stateObjects[a] # Nil /\ s.stateObjects[a].suicided
              => s.stateObjects[a].deleted

\* The caller, which makes copies of settled states only, goes on with one.
\* Snapshots cannot be applied to it.
Copy ==
    /\ "Copy" \in Calls
    /\ Settled(sdb)
    /\ sdb' = Copied(sdb)
    /\ marks' = <<>>
    /\ UNCHANGED saved

Next ==
    \/ \E a \in Address, v \in Amounts :
          AddBalance(a, v) \/ SubBalance(a, v) \/ SetBalance(a, v)
    \/ \E a \in Address : GetBalance(a) \/ Suicide(a) \/ CreateAccount(a)
    \/ \E g \in Gas : AddRefund(g) \/ SubRefund(g)
    \/ Snapshot
    \/ \E i \in DOMAIN marks : Revert(i)
    \/ \E d \in BOOLEAN : Finalise(d) \/ IntermediateRoot(d) \/ Commit(d)
    \/ \E t \in saved : Open(t) \/ Reset(t)
    \/ Copy

Spec == Init /\ [][Next]_vars

----------------------------------------------------------------------------
(* Properties.                                                             *)

\* Balances stay in their width, and the journal counts no address below
\* zero: journal.revert counts down exactly what append has counted up.
TypeOK ==
    /\ sdb.trie \in [Address -> Account]
    /\ sdb.stateObjects \in [Address -> Object \cup {Nil}]
    /\ sdb.pending \subseteq Address /\ sdb.dirty \subseteq Address
    /\ sdb.dirties \in [Address -> Nat]
    /\ sdb.refund \in Nat
    /\ saved \subseteq [Address -> Account]
    /\ \A i \in DOMAIN marks : marks[i].length \in 0 .. Len(sdb.entries)

\* IntermediateRoot and Copy dereference the object of every pending and
\* dirty address (statedb.go:510, 445, 451): there is one, also after a
\* revert has deleted objects.
Cached(s) == \A a \in s.pending \cup s.dirty : s.stateObjects[a] # Nil
PendingCached == Cached(sdb)

\* An object that neither the journal nor pending will write shows the
\* balance the trie has: no cached balance is lost by Commit or Copy, none
\* is stale (statedb.go:327-357, 505-519).
Coherent(s) ==
    \A a \in Address :
        (s.stateObjects[a] # Nil /\ s.dirties[a] = 0 /\ a \notin s.pending)
            => LET o == s.stateObjects[a]
               IN  (IF o.deleted THEN 0 ELSE o.balance)
                       = (IF s.trie[a] = Nil THEN 0 ELSE s.trie[a])
CacheCoherent == Coherent(sdb)

\* A copy of a settled state commits the accounts that its original would
\* commit: it goes without the journal, so what the journal would have caused
\* must have been applied to it (statedb.go:425-454).
CopyFaithful ==
    Settled(sdb) => Committed(Copied(sdb), FALSE).trie = Committed(sdb, FALSE).trie

\* Cache, journal and pending addresses fit together, and with the trie.
StateCoherent == TypeOK /\ PendingCached /\ CacheCoherent

Ledger == INSTANCE AccountLedger WITH
    bal <- View(sdb),
    refund <- sdb.refund,
    marks <- [i \in DOMAIN marks |-> [bal |-> marks[i].bal, refund |-> marks[i].refund]],
    saved <- {View(New(t)) : t \in saved}

\* Behind cache, journal and trie the state is a table of balances: a call
\* changes one account, a revert restores exactly what the snapshot showed,
\* Commit saves exactly what is visible and an old root brings it back.
ImplementsLedger == Ledger!Spec
=============================================================================
