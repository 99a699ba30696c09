SPECIFICATION FairSpec
CONSTANTS
    Times = {1, 2}
    Cutoffs = {2}
    WalCapacity = 2
    DbCapacity = 11
    MaxRevision = 7
    Starts = {"absent", "legacy"}
    MaxAppends = 2
    MaxFaults = 2
INVARIANTS CommittedHeld HandleMatchesReopen VerifyPredictsOpen VerifyMatchesStatus CrashesAreCoherent
PROPERTIES RetentionFinishes ImplementsLog RecoveryKeepsPrediction
