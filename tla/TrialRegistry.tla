--------------------------- MODULE TrialRegistry ---------------------------
(***************************************************************************)
(* src/tidelab/trial_registry.py: the append-only SQLite record of         *)
(* research batches and trial attempts.  Every operation is one BEGIN      *)
(* IMMEDIATE transaction and triggers abort any UPDATE or DELETE, so an    *)
(* operation inserts rows in one step or leaves the database as it was.    *)
(*                                                                         *)
(* A study is a family, generation and phase; phase "development" is the   *)
(* only one admitted.  A batch's inventory is fixed by its plan and the    *)
(* code revision, which every attempt identity includes.                   *)
(*                                                                         *)
(* A definition commented "Deviation" is a faulty variant of the one below *)
(* it.  No specification uses it; it shows that a property notices.        *)
(***************************************************************************)
EXTENDS Integers, FiniteSets, Sequences

CONSTANTS
  Batch,        \* batch identifiers
  Plan,         \* records [study, strategies, executable]; strategies[i] is
                \* the configuration key of job i, executable the set of jobs
                \* admitted for execution
  Revision,     \* code revisions
  NoRow         \* absence of a table row

\* The numbers of the jobs a plan lists.
Jobs(plan) == DOMAIN plan.strategies

ASSUME PlanAssumption ==
  \A plan \in Plan :
    /\ Jobs(plan) \subseteq Nat \ {0}
    /\ plan.executable \subseteq Jobs(plan)
    /\ \A i, j \in plan.executable :
         plan.strategies[i] = plan.strategies[j] => i = j

JobIndex == UNION {Jobs(plan) : plan \in Plan}
Attempt == Batch \X JobIndex

\* "duplicate" stands for the three statuses a job is never executed with:
\* duplicate, unsupported and invalid.
Status == {"completed", "failed", "aborted", "duplicate"}
Outcome == {"completed", "failed", "aborted"}

VARIABLES
  requests,     \* batch_requests: the disposition, by batch
  batches,      \* research_batches, by batch
  admitted,     \* the admitted batches in the order of their rows
  attempts,     \* trial_attempts: started_utc, by attempt
  outcomes,     \* trial_outcomes, by attempt
  jobOutcomes,  \* batch_job_outcomes: the job's status, by batch and index
  batchOutcomes \* batch_outcomes, by batch

registryVars == <<requests, batches, admitted, attempts, outcomes,
                  jobOutcomes, batchOutcomes>>

BatchRow == [plan : Plan, revision : Revision, retry_of : Batch \union {NoRow}]
OutcomeRow == [outcome : Outcome, finished : Int]

ASSUME NoRowAssumption ==
  NoRow \notin Batch \union BatchRow \union OutcomeRow \union Status \union Int
           \union {"admitted"}

Rejection == {"phase_already_reserved", "retry_identity_changed",
              "invalid_retry_parent", "unfinished_batch"}

RegistryTypeOK ==
  /\ requests \in [Batch -> {"admitted", NoRow} \union Rejection]
  /\ batches \in [Batch -> BatchRow \union {NoRow}]
  /\ admitted \in Seq(Batch)
  /\ attempts \in [Attempt -> Int \union {NoRow}]
  /\ outcomes \in [Attempt -> OutcomeRow \union {NoRow}]
  /\ jobOutcomes \in [Attempt -> Status \union {NoRow}]
  /\ batchOutcomes \in [Batch -> Outcome \union {NoRow}]

RegistryInit ==
  /\ requests = [b \in Batch |-> NoRow]
  /\ batches = [b \in Batch |-> NoRow]
  /\ admitted = <<>>
  /\ attempts = [a \in Attempt |-> NoRow]
  /\ outcomes = [a \in Attempt |-> NoRow]
  /\ jobOutcomes = [a \in Attempt |-> NoRow]
  /\ batchOutcomes = [b \in Batch |-> NoRow]

-----------------------------------------------------------------------------
(* reserve_batch *)

\* The admitted batches of a study.
OfStudy(study) == {b \in Batch : batches[b] # NoRow /\ batches[b].plan.study = study}

\* "ORDER BY rowid DESC LIMIT 1": the latest batch of a study.
IsPrior(b, study) ==
  /\ b \in OfStudy(study)
  /\ \E n \in DOMAIN admitted :
       /\ admitted[n] = b
       /\ \A m \in DOMAIN admitted : m > n => admitted[m] \notin OfStudy(study)

\* The batches without an outcome, of whatever study.
Unfinished == {b \in Batch : batches[b] # NoRow /\ batchOutcomes[b] = NoRow}

\* Deviation: any finished parent may be retried, a completed one too.
ReasonsRetryAnyTerminal(plan, rev, retry) ==
  LET prior == {b \in Batch : IsPrior(b, plan.study)} IN
  {r \in Rejection :
     \/ r = "phase_already_reserved" /\ \E b \in prior :
          \/ retry # b
          \/ batchOutcomes[b] = NoRow
          \/ batches[b].plan # plan
     \/ r = "retry_identity_changed" /\ \E b \in prior :
          plan.executable # {} /\ batches[b].revision # rev
     \/ r = "invalid_retry_parent" /\ prior = {} /\ retry # NoRow
     \/ r = "unfinished_batch" /\ Unfinished # {}}

\* The grounds on which a request is rejected.
Reasons(plan, rev, retry) ==
  LET prior == {b \in Batch : IsPrior(b, plan.study)} IN
  {r \in Rejection :
     \/ r = "phase_already_reserved" /\ \E b \in prior :
          \/ retry # b
          \/ batchOutcomes[b] \notin {"aborted", "failed"}
          \/ batches[b].plan # plan
     \/ r = "retry_identity_changed" /\ \E b \in prior :
          plan.executable # {} /\ batches[b].revision # rev
     \/ r = "invalid_retry_parent" /\ prior = {} /\ retry # NoRow
     \/ r = "unfinished_batch" /\ Unfinished # {}}

\* The reason that is stored: a later check overwrites an earlier one's.
Reason(plan, rev, retry) ==
  LET all == Reasons(plan, rev, retry) IN
  IF "unfinished_batch" \in all THEN "unfinished_batch"
  ELSE IF "phase_already_reserved" \in all THEN "phase_already_reserved"
  ELSE CHOOSE r \in all : TRUE

\* reserve_batch() returns a reason; the rejected request is kept.
RejectBatch(b, plan, rev, retry) ==
  /\ requests[b] = NoRow
  /\ Reasons(plan, rev, retry) # {}
  /\ requests' = [requests EXCEPT ![b] = Reason(plan, rev, retry)]
  /\ UNCHANGED <<batches, admitted, attempts, outcomes, jobOutcomes, batchOutcomes>>

\* reserve_batch() returns None: the whole inventory is admitted.
AdmitBatch(b, plan, rev, retry) ==
  /\ requests[b] = NoRow
  /\ Reasons(plan, rev, retry) = {}
  /\ requests' = [requests EXCEPT ![b] = "admitted"]
  /\ batches' = [batches EXCEPT ![b] = [plan |-> plan, revision |-> rev, retry_of |-> retry]]
  /\ admitted' = Append(admitted, b)
  /\ UNCHANGED <<attempts, outcomes, jobOutcomes, batchOutcomes>>

-----------------------------------------------------------------------------
(* start, finish *)

\* Two attempts are of one strategy: the same study and configuration key.
SameStrategy(a, c) ==
  LET p == batches[a[1]].plan
      q == batches[c[1]].plan IN
  p.study = q.study /\ p.strategies[a[2]] = q.strategies[c[2]]

\* start() refuses an attempt while one of its strategy is unfinished.
MayStart(b, i) ==
  \A a \in Attempt :
    attempts[a] # NoRow /\ outcomes[a] = NoRow => ~SameStrategy(a, <<b, i>>)

Start(b, i, now) ==
  /\ attempts[<<b, i>>] = NoRow
  /\ MayStart(b, i)
  /\ attempts' = [attempts EXCEPT ![<<b, i>>] = now]
  /\ UNCHANGED <<requests, batches, admitted, outcomes, jobOutcomes, batchOutcomes>>

\* Deviation: an outcome that is recorded already is refused, the same or not.
MayFinishOnce(a, outcome, finished) ==
  /\ outcome \in Outcome
  /\ attempts[a] # NoRow
  /\ finished >= attempts[a]
  /\ outcomes[a] = NoRow

\* finish() accepts the outcome: a first one no earlier than the start, or the
\* one that is recorded.
MayFinish(a, outcome, finished) ==
  /\ outcome \in Outcome
  /\ attempts[a] # NoRow
  /\ finished >= attempts[a]
  /\ outcomes[a] \in {NoRow, [outcome |-> outcome, finished |-> finished]}

Finish(a, outcome, finished) ==
  /\ MayFinish(a, outcome, finished)
  /\ outcomes' = [outcomes EXCEPT ![a] = [outcome |-> outcome, finished |-> finished]]
  /\ UNCHANGED <<requests, batches, admitted, attempts, jobOutcomes, batchOutcomes>>

-----------------------------------------------------------------------------
(* finish_job, finish_batch *)

FinishJob(b, i, status) ==
  /\ batches[b] # NoRow
  /\ i \in Jobs(batches[b].plan)
  /\ jobOutcomes[<<b, i>>] \in {NoRow, status}
  /\ jobOutcomes' = [jobOutcomes EXCEPT ![<<b, i>>] = status]
  /\ UNCHANGED <<requests, batches, admitted, attempts, outcomes, batchOutcomes>>

Recorded(b) == {i \in Jobs(batches[b].plan) : jobOutcomes[<<b, i>>] # NoRow}

FinishBatch(b, outcome) ==
  /\ outcome \in Outcome
  /\ batches[b] # NoRow
  /\ Recorded(b) = Jobs(batches[b].plan)
  /\ batchOutcomes[b] \in {NoRow, outcome}
  /\ batchOutcomes' = [batchOutcomes EXCEPT ![b] = outcome]
  /\ UNCHANGED <<requests, batches, admitted, attempts, outcomes, jobOutcomes>>

=============================================================================
