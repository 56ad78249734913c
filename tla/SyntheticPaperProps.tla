------------------------ MODULE SyntheticPaperProps ------------------------
(***************************************************************************)
(* The properties of SyntheticPaper that its runs check and its theorems   *)
(* state.                                                                  *)
(***************************************************************************)
EXTENDS SyntheticPaper

\* An order in the source has a claimed intent with the same terms behind it:
\* reconcile() can answer "present_hold" for it and neither raises nor rearms,
\* whichever claims, exits and rearms preceded the submission.
OrderBehindClaim == \A c \in ClientId : orders[c] # NoRow => PresentHold(c)

\* A client ID keeps the terms, revision and rules it was admitted with, and
\* an order once written is never rewritten or lost: a late submit() by a
\* process whose claim was rearmed and claimed again writes no second order.
ClientBoundOnce ==
  [][\A c \in ClientId :
       /\ intents[c] # NoRow =>
            SameIntent(c, intents'[c].terms, intents'[c].source_revision,
                       intents'[c].rules)
       /\ orders[c] # NoRow => orders'[c] = orders[c]]_vars

\* The submission barrier, with the open clients read from the tables.
Barrier == INSTANCE SubmissionBarrier WITH
  open <- Unresolved,
  sent <- {c \in ClientId : orders[c] # NoRow},
  closed <- {c \in ClientId : resolutions[c] # NoRow}

BarrierSpec == Barrier!Spec

\* claim_once() is documented to "Return True to one caller" and its claim is
\* not reusable after "timeout or process restart": no two live processes
\* should hold the claim of one client.
OneClaimant ==
  \A p, q \in Process : p # q => claims[p] \intersect claims[q] = {}

=============================================================================
