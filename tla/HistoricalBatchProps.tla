----------------------- MODULE HistoricalBatchProps -----------------------
(***************************************************************************)
(* The properties of HistoricalBatch that its runs check.                  *)
(***************************************************************************)
EXTENDS HistoricalBatch

\* A directory of the batch holds a torn file that nobody is filling, or a
\* result the registry refuses because it precedes the start of its attempt.
Damaged(b) ==
  \/ /\ pc[b] \notin {"body", "pending"}
     /\ \E d \in DirIndex : Torn \in {body[<<b, d>>], pending[<<b, d>>]}
  \/ /\ batches[b] # NoRow
     /\ \E i \in Unrecorded(b) :
          /\ Ready(<<b, i>>)
          /\ ResultOf(<<b, i>>) # Torn
          /\ attempts[<<b, i>>] # NoRow
          /\ ResultOf(<<b, i>>).finished < attempts[<<b, i>>]

\* The registry and the output directory never contradict one another: run()
\* and recover() raise over a torn file or a clock set back, and for no other
\* reason.  In particular start() never refuses an attempt of an admitted
\* batch as "unfinished" because of an earlier batch, whatever crashes and
\* aborts ended that one.
BlockedOnlyByDamage == \A b \in Batch : Blocked(b) => Damaged(b)

\* The three records of a job agree: an artifact the run published is recorded
\* with its own status ("Completed artifacts are recovered as completed even
\* during abort"), and a started attempt has the outcome of its job.
RecordsAgree ==
  \A a \in Attempt : jobOutcomes[a] # NoRow =>
    /\ Published(a) => jobOutcomes[a] = artifact[a].status
    /\ attempts[a] # NoRow =>
         outcomes[a] # NoRow /\ outcomes[a].outcome = jobOutcomes[a]

ASSUME PhaseAssumption ==
  NoRow \notin [batch : Batch, plan : Plan, outcome : {"open"} \union Outcome]

\* The latest batch of a study as the tables tell it.
Latest(study) ==
  IF OfStudy(study) = {} THEN NoRow
  ELSE LET b == CHOOSE c \in Batch : IsPrior(c, study) IN
       [batch |-> b, plan |-> batches[b].plan,
        outcome |-> IF batchOutcomes[b] = NoRow THEN "open" ELSE batchOutcomes[b]]

Phase == INSTANCE ResearchPhase WITH
  Study <- {plan.study : plan \in Plan},
  None <- NoRow,
  phase <- [s \in {plan.study : plan \in Plan} |-> Latest(s)]

PhaseSpec == Phase!Spec

Terminal(b) == batchOutcomes[b] # NoRow

\* Undamaged, an admitted batch is closed: by the process that runs it, or
\* after any number of deaths by recover() with --abort.
RecoveryCloses ==
  \A b \in Batch : batches[b] # NoRow ~> Terminal(b) \/ Damaged(b)

\* The evidence note says of an unfinished execution: "use the same command
\* with `--abort` to retain partial files, append aborted dispositions and
\* close the batch".
AbortCloses == \A b \in Batch : batches[b] # NoRow ~> Terminal(b)

=============================================================================
