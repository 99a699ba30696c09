SPECIFICATION Spec
CONSTANTS
    Times = {1, 2}
    Cutoffs = {2, 3}
    WalCapacity = 2
    DbCapacity = 11
    MaxRevision = 7
    Starts = {"empty"}
    MaxAppends = 2
    MaxFaults = 2
INVARIANT RecoveredVerifiesClean
