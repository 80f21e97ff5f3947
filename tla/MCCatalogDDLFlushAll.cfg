CONSTANTS
  Names = {t1, t2}
  MaxPages = 5
  MaxEntries = 3
  MaxRestarts = 1
  Faults = {"flushAll"}
SPECIFICATION DDLSpec
INVARIANTS PublishedObjectsSound

