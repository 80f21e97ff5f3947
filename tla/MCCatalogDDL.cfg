CONSTANTS
  Names = {t1, t2}
  MaxPages = 5
  MaxEntries = 3
  MaxRestarts = 2
  Faults = {"data", "delete"}
SPECIFICATION DDLSpec
INVARIANTS PublishedObjectsSound FailedCreationLeavesNothing
CHECK_DEADLOCK FALSE
