CONSTANTS
    Instances = {i1, i2}
    Rows = {r1, s1}
    Summaries = {s1}
    None = None
    MaxTransactions = 3
SYMMETRY Symmetry
SPECIFICATION Spec
INVARIANTS
    CacheInvariant
PROPERTIES
    RequestsSeeCommittedRows
    ImplementsCommittedRows
