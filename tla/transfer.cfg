CONSTANTS
    zero = zero a = a
    Byte = {zero, a}
    Zero = zero
    OffsetMax = 3
    LengthMax = 4
    ChunkMax = 2
SPECIFICATION Spec
INVARIANTS WithinOffsets ReadsWhatIsThere WritesItsPrefix TruncatesToSize
PROPERTY CallsReturn
