\* Three hours; two imports, two synchronisations or one stream at a time.
CONSTANTS
  p1 = p1
  p2 = p2
  s1 = s1
  i1 = i1
  i2 = i2
  BTC = BTC
  ETH = ETH
  Sync <- MCSync
  Session <- MCSession
  Import <- MCImport
  Scenario <- MCScenario
  Ranges <- MCRanges
  WindowBars = 1
  MaxAttempts = 2
  Message <- MCMessage
  Product = BTC
  Archive <- MCArchive
  HourRows = 2
  FinalAge = 1
  MaxHour = 3
SPECIFICATION FairSpec
INVARIANTS
  TypeOK
  BarsFinal
  BarsCounted
  CompleteCovers
  GapsBounded
  SessionWhole
  ArchiveWhole
PROPERTY ExecutionsEnd
CHECK_DEADLOCK FALSE
