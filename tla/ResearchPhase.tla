--------------------------- MODULE ResearchPhase ---------------------------
(***************************************************************************)
(* What the trial registry and the historical batch promise together: one  *)
(* batch is open at a time over all studies, a study's phase is given to   *)
(* one frozen plan, and it is run again under that plan only while its     *)
(* latest batch failed or was aborted.  A completed study stays completed. *)
(***************************************************************************)
CONSTANTS Study, Batch, Plan, None

VARIABLE phase  \* the latest batch of a study, its plan and its outcome

Init == phase = [s \in Study |-> None]

Open(s) == phase[s] # None /\ phase[s].outcome = "open"

\* A batch that no study has used takes a study's phase.
Reserve(b, plan) ==
  /\ \A s \in Study : ~Open(s)
  /\ \A s \in Study : phase[s] # None => phase[s].batch # b
  /\ phase[plan.study] # None =>
       /\ phase[plan.study].plan = plan
       /\ phase[plan.study].outcome \in {"failed", "aborted"}
  /\ phase' = [phase EXCEPT ![plan.study] =
                 [batch |-> b, plan |-> plan, outcome |-> "open"]]

Settle(s, outcome) ==
  /\ Open(s)
  /\ phase' = [phase EXCEPT ![s].outcome = outcome]

Next ==
  \/ \E b \in Batch, plan \in Plan : Reserve(b, plan)
  \/ \E s \in Study, outcome \in {"completed", "failed", "aborted"} :
       Settle(s, outcome)

Spec == Init /\ [][Next]_phase

=============================================================================
