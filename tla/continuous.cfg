SPECIFICATION PolicySpec
CONSTANTS
    SeqMax = 4
    TimeMax = 4
    Inputs <- PolicyInputs
    LegacyInputs <- OldInputs
    LegacyMax = 2
    WalCapacity = 4
    DbCapacity = 14
    Cutoffs = {2, 4}
    Ranges <- NoRanges
PROPERTY ExportedBeforeDeleted
