SPECIFICATION Spec
CONSTANTS
    Times = {1}
    Cutoffs = {2}
    WalCapacity = 1
    DbCapacity = 8
    MaxRevision = 6
    Starts = {"legacy"}
    MaxAppends = 1
    MaxFaults = 2
INVARIANTS ReopenAccepts
