CONSTANTS
    ByteBits = 2
    RecordIDs = {1, 2}
    Schema <- MCSchema
    MaxKeyLength = 2
    Statements <- MCStatements
    None = None
SPECIFICATION QuerySpec
PROPERTIES AnswersExact ChangesExact QueryEnds
