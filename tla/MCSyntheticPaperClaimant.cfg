SPECIFICATION Spec
CONSTANTS
  c1 = c1
  c2 = c2
  p1 = p1
  p2 = p2
  opening = opening
  report = report
  NoRow = NoRow
  ClientId <- MCClientId
  Process <- MCProcess
  OpeningRev <- MCOpeningRev
  GuardedRev <- MCGuardedRev
  Terms <- MCTerms
  Rules <- MCRules
INVARIANTS OneClaimant
