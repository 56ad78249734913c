SPECIFICATION Spec
CONSTANTS
  p1 = p1
  p2 = p2
  NoRow = NoRow
  Process <- MCProcess
  ClientId <- MCClientId
  Terms <- MCTerms
  OpeningRev <- MCOpeningRev
  GuardedRev = {}
  Rules <- MCRules
SYMMETRY Symmetry
INVARIANTS
  TypeOK
  LedgerIsAccount
  RepeatIsAccepted
PROPERTIES
  ResolvedBuyStays
  BarrierSpec
