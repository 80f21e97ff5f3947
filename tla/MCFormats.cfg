CONSTANTS
    PageSize = 14
    HeaderSize = 2
    SlotSize = 2
    Records <- MCRecords
    None = None
    ByteBits = 2
    MaxKeyLength = 5
    Schemas <- MCSchemas
    RowsFor <- MCRows
    RecordsFor <- MCForeign
    MaxProjection = 2
    Keys = {a, b}
    RecordIDs = {r1, r2}
    Capacity = 3
    AnyRid = AnyRid
    CatalogSize = 52
    Catalogs <- MCSoundCatalogs
    ForeignPages <- MCForeignPages
    Letters <- MCLetters
    Texts <- MCTexts
    Shapes <- MCShapes
    LongBits = 5
    LengthBits = 4
SPECIFICATION FormatsSpec
INVARIANTS NeverCorrupted NoFragmentation
           RowsSurvive ReadsInBounds KeysTellValuesApart CatalogSurvives
           TokensAsWritten StatementAsWritten
PROPERTIES ImplementsRecordPage RefusalsJustified PageIsSet
CHECK_DEADLOCK FALSE
