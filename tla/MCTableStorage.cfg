CONSTANTS
    RecordIDs = {r1, r2}
    NumIndexes = 2
    Keys = {x, y}
    NULL = NULL
    None = None
    MaxErrors = 2
SPECIFICATION StorageSpec
INVARIANTS IndexesMatchHeap
PROPERTIES ImplementsAtomicRows StatementEnds
