\* A batch and its retry, or two studies; one death; the clock may be set back.
CONSTANTS
  b1 = b1
  b2 = b2
  rev1 = rev1
  rev2 = rev2
  NoRow = NoRow
  Absent = Absent
  Torn = Torn
  Batch <- MCBatch
  Plan <- MCPlan
  Revision <- MCRevision
  Times <- MCTimes
  MaxMoves = 1
  MaxCrashes = 1
SYMMETRY Symmetry
SPECIFICATION Spec
INVARIANTS TypeOK BlockedOnlyByDamage RecordsAgree
PROPERTY PhaseSpec
CHECK_DEADLOCK FALSE
