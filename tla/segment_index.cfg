SPECIFICATION IndexSpec
CONSTANTS
    SeqMax = 9
    TimeMax = 3
    Inputs <- SingleInputs
    LegacyInputs <- SingleInputs
    LegacyMax = 3
    WalCapacity = 2
    DbCapacity = 64
    Cutoffs = {2}
    Ranges <- FullRange
INVARIANTS
    IndexFindsSegments
    OrderMatchesReopen
