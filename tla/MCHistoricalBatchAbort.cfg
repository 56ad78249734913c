\* One batch, one death, a clock that stands still.
CONSTANTS
  b1 = b1
  b2 = b2
  rev1 = rev1
  rev2 = rev2
  NoRow = NoRow
  Absent = Absent
  Torn = Torn
  Batch <- MCOneBatch
  Plan <- MCPair
  Revision <- MCOneRevision
  Times <- MCTimes
  MaxMoves = 0
  MaxCrashes = 1
SPECIFICATION FairSpec
PROPERTY AbortCloses
CHECK_DEADLOCK FALSE
