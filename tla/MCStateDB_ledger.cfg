SPECIFICATION Spec
CONSTANTS
    a1 = a1
    Nil = Nil
    Address = {a1}
    Ripemd = a1
    Width = 3
    Amounts = {0, 1}
    Gas = {1}
    Calls = {"Suicide", "CreateAccount", "Copy", "Revert", "Refund"}
    MaxEntries = 3
    MaxRefund = 1
    MaxMarks = 1
    MaxSaved = 2
INVARIANTS
    StateCoherent
    CopyFaithful
PROPERTIES
    ImplementsLedger
