CONSTANTS
    h1 = h1 h2 = h2 d1 = d1 d2 = d2 w1 = w1 i1 = i1 i2 = i2 i3 = i3
    Handle <- MCHandle
    Database = {d1, d2}
    Log = {w1}
    Identity <- MCIdentity
    MaxChanges = 1
    Absent = Absent NoId = NoId Free = Free Leaked = Leaked
SPECIFICATION Spec
SYMMETRY Symmetry
INVARIANTS PairExclusive CacheCurrent IdentityMatches
PROPERTY OrphanLogKept
