CONSTANTS
  Names = {t1, t2}
  MaxPages = 5
  MaxEntries = 3
  MaxRestarts = 1
  Faults = {"catalog"}
SPECIFICATION DDLSpec
INVARIANTS FailedCreationLeavesNothing

