\* Two changes of the inputs or deaths, or one with a damaged or lost record; of
\* H1's bundles one of them.
CONSTANTS
  rsi = rsi
  channel = channel
  p1 = p1
  p2 = p2
  p3 = p3
  h1 = h1
  h2 = h2
  r1 = r1
  r2 = r2
  c1 = c1
  c2 = c2
  b1 = b1
  b2 = b2
  a1 = a1
  a2 = a2
  Bundle <- MCBundle
  AttemptId <- MCAttempt
  Wrapper <- MCProcess
  Grant <- MCGrant
  Founder = rsi
  Operator <- MCProcess
  Analyst <- MCProcess
  Clerk <- MCProcess
  Unlocked = Unlocked
  Tester <- MCTester
  Pine <- MCProcess
  Revision <- MCRevision
  Rows <- MCRows
  Broken = Broken
  Missing = Missing
  Input = {0, 1}
  Content = {c1, c2}
  Reads <- MCReads
  Declared <- MCDeclared
  Output = {"artifact"}
  MaxMoves = 2
  MaxDeaths = 2
  MaxDamage = 1
  MaxEvents = 2
  MaxBundleEvents = 1
SYMMETRY MCSymmetry
SPECIFICATION Spec
INVARIANTS
  TypeOK
  ReadOnce
  ReviewedAsPrepared
  OneHead
  SpentIsExplained
  PhaseEvidence
  InputsAccounted
CHECK_DEADLOCK FALSE
