CONSTANTS
    PoolSize = 2
    MaxPages = 3
    MaxPins = 2
    Zero = Zero
    Data = {Zero, a}
SPECIFICATION Spec
INVARIANTS FramesPartitioned EvictableIffUnpinned CleanMatchesDisk
           FreePagesUnused FrameAvailable
PROPERTY ImplementsPageStore
