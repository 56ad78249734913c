-------------------------- MODULE MCLeanPaperJoin --------------------------
(***************************************************************************)
(* LeanPaperJoin with two processes: the orders and reports are the code's *)
(* own fixture.                                                            *)
(***************************************************************************)
EXTENDS LeanPaperJoinProps, TLC

CONSTANTS p1, p2

MCProcess == {p1, p2}
MCClientId == {"buy", "sell"}
MCTerms == {TermsOf(c) : c \in MCClientId}
MCOpeningRev == {RevisionOf(c) : c \in MCClientId}
MCRules == {RULES}

Symmetry == Permutations(MCProcess)

=============================================================================
