-------------------------- MODULE MCSyntheticPaper --------------------------
(***************************************************************************)
(* A small instance of SyntheticPaper: two client identities, two          *)
(* processes, an opening revision and a report revision, terms that meet   *)
(* the product rules and terms that miss a minimum under one version.      *)
(***************************************************************************)
EXTENDS SyntheticPaperProps, TLC

CONSTANTS c1, c2, p1, p2, opening, report

MCClientId == {c1, c2}
MCProcess == {p1, p2}
MCOpeningRev == {opening}
MCGuardedRev == {report}

Order(quantity, price) ==
  [instrument_id |-> "BTC", side |-> "buy", quantity |-> quantity,
   limit_price |-> price]

MCTerms == {Order(4, 2), Order(2, 2)}

RulesVersion(revision, minimum) ==
  [instrument_id |-> "BTC", revision |-> revision, base_increment |-> 2,
   quote_increment |-> 1, base_min_size |-> 2, quote_min_size |-> minimum]

MCRules == {RulesVersion("v1", 4), RulesVersion("v2", 6)}

Symmetry == Permutations(MCClientId) \union Permutations(MCProcess)

=============================================================================
