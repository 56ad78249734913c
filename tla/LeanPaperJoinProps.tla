------------------------ MODULE LeanPaperJoinProps ------------------------
(***************************************************************************)
(* The properties of LeanPaperJoin that its run checks.                    *)
(***************************************************************************)
EXTENDS LeanPaperJoin

\* The append-only journal leads to the account of the report accepted last,
\* through the correction and over both orders, however far the broker is
\* ahead and whichever stale reports were read.
LedgerIsAccount ==
  Ledger(journal) =
    IF joined["sell"] # NoRow THEN Account("sell", joined["sell"])
    ELSE IF joined["buy"] # NoRow THEN Account("buy", joined["buy"])
    ELSE [cash |-> 0, units |-> 0]

\* "Repeated reconciliation leaves three total events": an accepted report is
\* accepted again and adds nothing, also when its client was rearmed before,
\* was resolved since, or another order followed.
RepeatIsAccepted ==
  \A c \in ClientId : joined[c] # NoRow =>
    Accepts(c, joined[c]) /\ Events(c, joined[c]) \subseteq journal

\* A resolved buy is closed for good: reconcile(), which reads its file in
\* every call, never changes its order, its events or its intent again.
ResolvedBuyStays ==
  [][resolutions["buy"] # NoRow =>
       /\ resolutions'["buy"] = resolutions["buy"]
       /\ joined'["buy"] = joined["buy"]
       /\ intents'["buy"] = intents["buy"]
       /\ {e \in journal' : e.client = "buy"} = {e \in journal : e.client = "buy"}]_vars

\* The submission barrier: an order is sent when the broker's file appears.
Barrier == INSTANCE SubmissionBarrier WITH
  open <- Unresolved,
  sent <- {c \in ClientId : report[c] # 0},
  closed <- {c \in ClientId : resolutions[c] # NoRow}

BarrierSpec == Barrier!Spec

=============================================================================
