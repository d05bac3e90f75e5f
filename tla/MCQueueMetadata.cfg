SPECIFICATION FairSpec
CONSTANTS
  Paths = {a, b}
  MaxEntries = 3
  MaxChanges = 1
INVARIANTS ValueIsOfThisRow
PROPERTIES RowsLearnTheirMetadata StopReturns
CHECK_DEADLOCK FALSE
