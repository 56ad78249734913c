\* One batch of two executed jobs, two deaths, a clock that may be set back.
CONSTANTS
  b1 = b1
  b2 = b2
  rev1 = rev1
  rev2 = rev2
  NoRow = NoRow
  Absent = Absent
  Torn = Torn
  Batch <- MCOneBatch
  Plan <- MCPair
  Revision <- MCOneRevision
  Times <- MCTimes
  MaxMoves = 1
  MaxCrashes = 2
SPECIFICATION FairSpec
PROPERTY RecoveryCloses
CHECK_DEADLOCK FALSE
