CONSTANTS
  Names = {t1, t2}
  MaxPages = 6
  MaxEntries = 3
  MaxRestarts = 0
  Faults = {"data", "catalog", "flushAll"}
SPECIFICATION DDLSpec
INVARIANTS LiveObjectsSound NoOrphans
CHECK_DEADLOCK FALSE
