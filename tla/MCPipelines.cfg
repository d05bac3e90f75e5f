SPECIFICATION PipelinesSpec
CONSTANTS
  File <- MCFile
  Inflight = 2
  MaxBlocks = 4
  ChunkSizes = {1, 3, 4}
  Inflights = {1, 2}
INVARIANTS
  WrittenInOrder BuffersAreBounded FinishedEntryIsValid
  AcceptedIsSource IntactNeverRejected DecodersAreBounded
PROPERTIES AlwaysReturns AlwaysDecides
