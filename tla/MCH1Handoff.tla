---------------------------- MODULE MCH1Handoff ----------------------------
(***************************************************************************)
(* A small instance of H1Handoff: two hours, so one handoff, or three; a   *)
(* flat account of 8 buys 2 units, executed one by one, and what it holds  *)
(* is then sold or, when nothing was bought, bought again.                 *)
(***************************************************************************)
EXTENDS H1HandoffProps, TLC

CONSTANTS p1, p2, opening, reopened, m1, m2, k1, k2, LastHour

MCProcess == {p1, p2}
MCClientId == [hour : 0 .. LastHour, side : {"buy", "sell"}]

\* The sides of three consecutive orders: what the first one bought the second
\* sells, and the third buys again or sells what a partial exit left.
MCChainClientId ==
  {c \in MCClientId : c.hour < 2 => c.side = IF c.hour = 0 THEN "buy" ELSE "sell"}

MCFirstAccount == [cash |-> 8, units |-> 0]
MCGuardedRev == Report
MCOpeningRev == {opening}
MCTerms == [instrument_id : {"BTC"}, side : {"buy", "sell"},
            quantity : 1 .. 2, limit_price : {1}]
MCRules == {[instrument_id |-> "BTC", revision |-> "h1-rules-1",
             base_increment |-> 1, quote_increment |-> 1,
             base_min_size |-> 1, quote_min_size |-> 1]}

Symmetry == Permutations(MCProcess)

=============================================================================
