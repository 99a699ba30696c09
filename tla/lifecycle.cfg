CONSTANTS
    h1 = h1 h2 = h2 h3 = h3
    Handle = {h1, h2, h3}
    HeaderSize = 2
    Absent = Absent
    NoOne = NoOne
SPECIFICATION Spec
INVARIANT OpenIsWhole
PROPERTY ExistingKept
