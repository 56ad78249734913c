SPECIFICATION Spec
CONSTANTS
  p1 = p1
  p2 = p2
  opening = opening
  reopened = reopened
  m1 = m1
  m2 = m2
  k1 = k1
  k2 = k2
  NoRow = NoRow
  LastHour = 1
  MaxRevision = 3
  Process = {p1}
  ClientId <- MCClientId
  FirstAccount <- MCFirstAccount
  OpeningRev = {opening, reopened}
  GuardedRev <- MCGuardedRev
  Terms <- MCTerms
  Rules <- MCRules
  Mark = {m1, m2}
  Token = {k1}
INVARIANTS
  JournalIsReport
  ProposalBindsIntent
PROPERTIES
  ResolvedIsSettled
  ProposalStoredOnce
