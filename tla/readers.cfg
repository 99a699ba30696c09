SPECIFICATION Spec
CONSTANTS
    SeqMax = 4
    TimeMax = 4
    Inputs <- OrderedInputs
    LegacyInputs <- UnorderedInputs
    LegacyMax = 2
    WalCapacity = 6
    DbCapacity = 40
    Cutoffs = {2, 4}
    Ranges <- RangesTested
INVARIANTS
    TypeOK
    OrderMatchesReopen
    SeekExact
    RangeComplete
    AggregateExact
PROPERTIES ImplementsCursor CheckpointKeepsPlace
