CONSTANTS
    Session = {s1}
    None = None
    Drops <- Mixed
    Edits <- AllEdits
    Ledger = {0}
    MaxTime = 4
    MaxFacts = 2
    MaxEdits = 2
SPECIFICATION ReadSpec
INVARIANTS
    DerivedSound
    ServedOnce
    DeletedLeavesReads
CHECK_DEADLOCK FALSE
