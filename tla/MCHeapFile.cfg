CONSTANTS
    MaxPages = 3
    PageSize = 8
    HeaderSize = 2
    SlotSize = 2
    Records <- MCRecords
    None = None
SPECIFICATION HeapSpec
INVARIANTS ChainSound NoOrphanPages ScanComplete
PROPERTIES CallReturns ImplementsHeapTable
