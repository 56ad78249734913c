----------------------- MODULE HistoricalBatchProofs -----------------------
(***************************************************************************)
(* Proofs about HistoricalBatch for every set of batches, plans, revisions *)
(* and clock readings and any number of deaths: its type invariant, the    *)
(* agreement of the three records of a job, that a process is only ever    *)
(* stopped by a damaged file or clock, and that it implements              *)
(* ResearchPhase.                                                          *)
(***************************************************************************)
EXTENDS HistoricalBatchProps, WellFoundedInduction, TLAPS

-----------------------------------------------------------------------------
(* The inductive invariant *)

\* A request is made with an admission file, and rows only follow an admission.
Reserved ==
  \A b \in Batch :
    /\ pc[b] = "reserve" => admission[b] # NoRow
    /\ pc[b] \notin {"idle", "reserve"} => batches[b] # NoRow
    /\ requests[b] = NoRow => batches[b] = NoRow
    /\ \A i \in JobIndex : jobOutcomes[<<b, i>>] # NoRow => batches[b] # NoRow

\* No job is recorded before all attempts of its batch are started.
Starting ==
  \A b \in Batch : pc[b] = "start" =>
    \A i \in JobIndex : jobOutcomes[<<b, i>>] = NoRow

\* The directory of an aborted job holds an abort's result and nothing else,
\* it is sealed with one, and never beside an artifact of the run.
AbortedApart ==
  \A a \in Attempt :
    /\ body[a] \in {Absent, Torn} \union AbortResult
    /\ manifest[a] => body[a] # Absent /\ ~Published(a)

\* A recorded job has an artifact.
RecordedReady == \A a \in Attempt : jobOutcomes[a] # NoRow => Ready(a)

\* The outcome of a started attempt is the given status.
Settled(a, status) ==
  attempts[a] # NoRow => outcomes[a] # NoRow /\ outcomes[a].outcome = status

\* Between the two transactions of complete_job() the artifact is there, it
\* can be read, and the attempt has its outcome.
Recording ==
  \A b \in Batch : pc[b] = "record" =>
    /\ Unrecorded(b) # {}
    /\ Dir(b) \in Attempt =>
         /\ Ready(Dir(b))
         /\ ResultOf(Dir(b)) \in Result \union AbortResult
         /\ Settled(Dir(b), ResultOf(Dir(b)).status)

IInv ==
  /\ TypeOK
  /\ Reserved
  /\ Starting
  /\ AbortedApart
  /\ RecordedReady
  /\ Recording
  /\ RecordsAgree

-----------------------------------------------------------------------------
(* Attempts *)

\* The jobs of an admitted batch have attempts, and no job is number 0.
LEMMA JobsAreAttempts ==
  ASSUME TypeOK, NEW b \in Batch, batches[b] # NoRow
  PROVE  /\ \A i \in Jobs(batches[b].plan) : <<b, i>> \in Attempt
         /\ <<b, 0>> \notin Attempt
<1>1. batches[b].plan \in Plan
  BY DEF TypeOK, RegistryTypeOK, BatchRow
<1>2. 0 \notin JobIndex
  BY PlanAssumption DEF JobIndex
<1> QED
  BY <1>1, <1>2 DEF Attempt, JobIndex

\* Directories of attempts are directories.
LEMMA AttemptsAreDirectories == Attempt \subseteq Batch \X DirIndex
BY DEF Attempt, DirIndex

\* A result that is there and can be read is a result.
LEMMA ResultType ==
  ASSUME IInv, NEW a \in Attempt, Ready(a), ResultOf(a) # Torn
  PROVE  ResultOf(a) \in Result \union AbortResult
BY DEF IInv, TypeOK, AbortedApart, Ready, Published, ResultOf

\* Every step keeps the tables and files well formed.
LEMMA TypeStep == IInv /\ [Next]_vars => TypeOK'
<1> SUFFICES ASSUME IInv, [Next]_vars PROVE TypeOK'
  OBVIOUS
<1> USE TimesAssumption, BoundAssumption, AttemptsAreDirectories
<1> USE DEF IInv, TypeOK, RegistryTypeOK, registryVars, files, process, bounds
<1>1. ASSUME NEW b \in Batch, NEW plan \in Plan, NEW rev \in Revision,
             NEW retry \in Batch \union {NoRow}, Launch(b, plan, rev, retry)
      PROVE  TypeOK'
  BY <1>1 DEF Launch, Goto, BatchRow
<1>2. ASSUME NEW b \in Batch, Reject(b) PROVE TypeOK'
  BY <1>2 DEF Reject, RejectBatch, Reason, Reasons, Release, Rejection
<1>3. ASSUME NEW b \in Batch, Admit(b) PROVE TypeOK'
  <2>1. admission[b] \in BatchRow
    BY <1>3 DEF Admit, Reserved
  <2>2. batches' \in [Batch -> BatchRow \union {NoRow}]
    BY <1>3, <2>1 DEF Admit, AdmitBatch, BatchRow
  <2> QED
    BY <1>3, <2>2 DEF Admit, AdmitBatch, Goto
<1>4. ASSUME NEW b \in Batch, StartAttempt(b) PROVE TypeOK'
  BY <1>4 DEF StartAttempt, Start
<1>5. ASSUME NEW b \in Batch, AllStarted(b) PROVE TypeOK'
  BY <1>5 DEF AllStarted, Goto
<1>6. ASSUME NEW b \in Batch, Publish(b) PROVE TypeOK'
  <2>1. PICK s \in {"completed", "failed", "duplicate"} :
          artifact' = [artifact EXCEPT ![Dir(b)] = [status |-> s, finished |-> clock]]
    BY <1>6 DEF Publish
  <2>2. artifact' \in [Attempt -> {Absent} \union Result]
    BY <2>1 DEF Result
  <2> QED
    BY <1>6, <2>2 DEF Publish
<1>7. ASSUME NEW b \in Batch, FinishAttempt(b) PROVE TypeOK'
  <2>1. CASE attempts[Dir(b)] = NoRow
    BY <1>7, <2>1 DEF FinishAttempt, Goto
  <2>2. CASE Finish(Dir(b), ResultOf(Dir(b)).status, ResultOf(Dir(b)).finished)
    <3>1. Dir(b) \in Attempt => ResultOf(Dir(b)).finished \in Int
      BY <1>7, ResultType DEF FinishAttempt, Acceptable, Result, AbortResult
    <3> QED
      BY <1>7, <2>2, <3>1 DEF FinishAttempt, Finish, MayFinish, OutcomeRow, Goto
  <2> QED
    BY <1>7, <2>1, <2>2 DEF FinishAttempt
<1>8. ASSUME NEW b \in Batch, RecordJob(b) PROVE TypeOK'
  <2>1. Dir(b) = <<b, Current(b)>>
    BY <1>8 DEF RecordJob, Recording, Dir
  <2>2. <<b, Current(b)>> \in Attempt
    BY <1>8, JobsAreAttempts DEF RecordJob, FinishJob
  <2>3. ResultOf(Dir(b)).status \in Status
    BY <1>8, <2>1, <2>2 DEF RecordJob, Recording, Result, AbortResult, Status
  <2> QED
    BY <1>8, <2>3 DEF RecordJob, FinishJob, Goto
<1>9. ASSUME NEW b \in Batch, CreateBody(b) \/ FillBody(b) PROVE TypeOK'
  <2>1. BatchStatus(b) \in Outcome
    BY DEF BatchStatus, Outcome
  <2>2. /\ [status |-> BatchStatus(b)] \in Summary
        /\ [status |-> "aborted", finished |-> clock] \in AbortResult
    BY <2>1 DEF Summary, AbortResult
  <2>3. CASE CreateBody(b)
    BY <2>3 DEF CreateBody, Goto
  <2>4. CASE FillBody(b)
    BY <2>2, <2>4 DEF FillBody, Goto
  <2> QED
    BY <1>9, <2>3, <2>4
<1>10. ASSUME NEW b \in Batch, CreatePending(b) \/ FillPending(b) PROVE TypeOK'
  BY <1>10 DEF CreatePending, FillPending, Goto
<1>11. ASSUME NEW b \in Batch, Link(b) PROVE TypeOK'
  BY <1>11 DEF Link
<1>12. ASSUME NEW b \in Batch, Close(b) PROVE TypeOK'
  BY <1>12 DEF Close, FinishBatch, Release
<1>13. ASSUME NEW b \in Batch, NEW abort \in BOOLEAN, Recover(b, abort) PROVE TypeOK'
  BY <1>13 DEF Recover
<1>14. ASSUME NEW b \in Batch, Raise(b) \/ Crash(b) PROVE TypeOK'
  <2>1. CASE Raise(b)
    BY <2>1 DEF Raise, Release
  <2>2. CASE Crash(b)
    <3>1. crashes' \in 0 .. MaxCrashes
      BY <2>2 DEF Crash
    <3> QED
      BY <2>2, <3>1 DEF Crash, Release
  <2> QED
    BY <1>14, <2>1, <2>2
<1>15. CASE MoveClock
  BY <1>15 DEF MoveClock
<1>16. CASE UNCHANGED vars
  BY <1>16 DEF vars
<1> QED
  BY <1>1, <1>2, <1>3, <1>4, <1>5, <1>6, <1>7, <1>8, <1>9, <1>10, <1>11, <1>12,
     <1>13, <1>14, <1>15, <1>16 DEF Next, Proceed

-----------------------------------------------------------------------------
(* What a step may do to a batch *)

\* Only admission writes a batch's row, only RecordJob a job's, only Publish an
\* artifact; nothing that is there is replaced.
LEMMA RowsStay ==
  ASSUME IInv, [Next]_vars
  PROVE  /\ \A b \in Batch : batches[b] # NoRow => batches'[b] = batches[b]
         /\ \A b \in Batch : requests[b] # NoRow => requests'[b] = requests[b]
         /\ \A a \in Attempt : jobOutcomes[a] # NoRow => jobOutcomes'[a] = jobOutcomes[a]
         /\ \A a \in Attempt : attempts[a] # NoRow => attempts'[a] = attempts[a]
         /\ \A a \in Attempt : outcomes[a] # NoRow => outcomes'[a] = outcomes[a]
         /\ \A a \in Attempt : jobOutcomes[a] # NoRow => attempts'[a] = attempts[a]
         /\ \A a \in Attempt : Ready(a) => artifact'[a] = artifact[a]
         /\ \A a \in Attempt : manifest[a] => manifest'[a]
<1> USE AttemptsAreDirectories
<1> USE DEF IInv, TypeOK, RegistryTypeOK, registryVars, files, process, bounds
<1>1. ASSUME NEW b \in Batch, NEW plan \in Plan, NEW rev \in Revision,
             NEW retry \in Batch \union {NoRow}, Launch(b, plan, rev, retry)
      PROVE  UNCHANGED <<registryVars, artifact, manifest>>
  BY <1>1 DEF Launch
<1>2. ASSUME NEW b \in Batch, Reject(b) \/ Admit(b)
      PROVE  /\ requests[b] = NoRow
             /\ \A c \in Batch : c # b => batches'[c] = batches[c] /\ requests'[c] = requests[c]
             /\ UNCHANGED <<attempts, outcomes, jobOutcomes, artifact, manifest>>
  BY <1>2 DEF Reject, Admit, RejectBatch, AdmitBatch
<1>3. ASSUME NEW b \in Batch, StartAttempt(b)
      PROVE  /\ \A a \in Attempt :
                  attempts[a] # NoRow \/ jobOutcomes[a] # NoRow => attempts'[a] = attempts[a]
             /\ UNCHANGED <<requests, batches, outcomes, jobOutcomes, artifact, manifest>>
  <2>1. PICK i : /\ attempts[<<b, i>>] = NoRow
                 /\ attempts' = [attempts EXCEPT ![<<b, i>>] = clock]
    BY <1>3 DEF StartAttempt, Start
  <2>2. ASSUME NEW a \in Attempt, jobOutcomes[a] # NoRow PROVE a # <<b, i>>
    BY <1>3, <2>2 DEF StartAttempt, Starting, Attempt
  <2> QED
    BY <1>3, <2>1, <2>2 DEF StartAttempt, Start
<1>4. ASSUME NEW b \in Batch, Publish(b)
      PROVE  /\ \A a \in Attempt : Ready(a) => artifact'[a] = artifact[a]
             /\ UNCHANGED <<registryVars, manifest>>
  <2>1. ~Ready(Dir(b))
    BY <1>4 DEF Publish
  <2>2. PICK r : artifact' = [artifact EXCEPT ![Dir(b)] = r]
    BY <1>4 DEF Publish
  <2>3. ASSUME NEW a \in Attempt, Ready(a) PROVE a # Dir(b)
    BY <2>1, <2>3
  <2> QED
    BY <1>4, <2>2, <2>3 DEF Publish
<1>5. ASSUME NEW b \in Batch, FinishAttempt(b)
      PROVE  /\ \A a \in Attempt : outcomes[a] # NoRow => outcomes'[a] = outcomes[a]
             /\ UNCHANGED <<requests, batches, attempts, jobOutcomes, artifact, manifest>>
  BY <1>5 DEF FinishAttempt, Finish, MayFinish
<1>6. ASSUME NEW b \in Batch, RecordJob(b)
      PROVE  /\ \A a \in Attempt : jobOutcomes[a] # NoRow => jobOutcomes'[a] = jobOutcomes[a]
             /\ UNCHANGED <<requests, batches, attempts, outcomes, artifact, manifest>>
  BY <1>6 DEF RecordJob, FinishJob
<1>7. ASSUME NEW b \in Batch, Link(b)
      PROVE  /\ \A a \in Attempt : manifest[a] => manifest'[a]
             /\ UNCHANGED <<registryVars, artifact>>
  BY <1>7 DEF Link
<1>8. ASSUME NEW b \in Batch, Close(b)
      PROVE  UNCHANGED <<requests, batches, attempts, outcomes, jobOutcomes, artifact, manifest>>
  BY <1>8 DEF Close, FinishBatch
<1>9. ASSUME NEW b \in Batch,
             \/ AllStarted(b) \/ CreateBody(b) \/ FillBody(b) \/ CreatePending(b)
             \/ FillPending(b) \/ Raise(b) \/ Crash(b)
             \/ \E abort \in BOOLEAN : Recover(b, abort)
      PROVE  UNCHANGED <<registryVars, artifact, manifest>>
  BY <1>9 DEF AllStarted, CreateBody, FillBody, CreatePending, FillPending, Raise,
     Crash, Recover
<1>10. CASE MoveClock
  BY <1>10 DEF MoveClock
<1>11. CASE UNCHANGED vars
  BY <1>11 DEF vars
<1>12. CASE \E b \in Batch : Reject(b) \/ Admit(b)
  BY <1>2, <1>12 DEF Reserved
<1> QED
  BY <1>1, <1>12, <1>3, <1>4, <1>5, <1>6, <1>7, <1>8, <1>9, <1>10, <1>11 DEF Next, Proceed

\* A batch that is not at the step's process keeps its place, and a directory
\* is where it was as long as no job of its batch is recorded.
LEMMA DirStays ==
  ASSUME IInv, [Next]_vars, NEW b \in Batch, batches[b] # NoRow,
         \A i \in JobIndex : jobOutcomes'[<<b, i>>] = jobOutcomes[<<b, i>>]
  PROVE  Unrecorded(b)' = Unrecorded(b) /\ Dir(b)' = Dir(b)
<1>1. batches'[b] = batches[b]
  BY RowsStay
<1>2. Jobs(batches[b].plan) \subseteq JobIndex
  BY JobsAreAttempts DEF IInv, Attempt
<1>3. Recorded(b)' = Recorded(b)
  BY <1>1, <1>2 DEF Recorded
<1>4. Unrecorded(b)' = Unrecorded(b)
  BY <1>1, <1>3 DEF Unrecorded
<1> QED
  BY <1>4 DEF Dir, Current

\* Rows follow an admission.
LEMMA ReservedStep == IInv /\ [Next]_vars => Reserved'
<1> SUFFICES ASSUME IInv, [Next]_vars PROVE Reserved'
  OBVIOUS
<1> USE DEF IInv, TypeOK, RegistryTypeOK, Reserved, registryVars, files, process, bounds
<1>1. ASSUME NEW b \in Batch, NEW plan \in Plan, NEW rev \in Revision,
             NEW retry \in Batch \union {NoRow}, Launch(b, plan, rev, retry)
      PROVE  Reserved'
  <2>1. [plan |-> plan, revision |-> rev, retry_of |-> retry] # NoRow
    BY NoRowAssumption DEF BatchRow
  <2> QED
    BY <1>1, <2>1 DEF Launch, Goto
<1>2. ASSUME NEW b \in Batch, Reject(b) PROVE Reserved'
  BY <1>2 DEF Reject, RejectBatch, Release
<1>3. ASSUME NEW b \in Batch, Admit(b) PROVE Reserved'
  <2>1. [plan |-> admission[b].plan, revision |-> admission[b].revision,
         retry_of |-> admission[b].retry_of] # NoRow
    BY <1>3, NoRowAssumption DEF Admit, BatchRow
  <2>2. requests'[b] = "admitted" /\ batches'[b] # NoRow
    BY <1>3, <2>1 DEF Admit, AdmitBatch
  <2>3. "admitted" # NoRow
    BY NoRowAssumption
  <2> QED
    BY <1>3, <2>2, <2>3 DEF Admit, AdmitBatch, Goto
<1>4. ASSUME NEW b \in Batch, RecordJob(b) PROVE Reserved'
  BY <1>4 DEF RecordJob, FinishJob, Goto, Attempt
<1>5. ASSUME NEW b \in Batch,
             StartAttempt(b) \/ AllStarted(b) \/ Publish(b) \/ FinishAttempt(b)
      PROVE  Reserved'
  BY <1>5 DEF StartAttempt, Start, AllStarted, Publish, FinishAttempt, Finish, Goto
<1>6. ASSUME NEW b \in Batch,
             \/ CreateBody(b) \/ FillBody(b) \/ CreatePending(b) \/ FillPending(b)
             \/ Link(b) \/ Close(b) \/ Raise(b) \/ Crash(b)
             \/ \E abort \in BOOLEAN : Recover(b, abort)
      PROVE  Reserved'
  <2>1. CASE CreateBody(b) \/ FillBody(b) \/ CreatePending(b) \/ FillPending(b)
    BY <2>1 DEF CreateBody, FillBody, CreatePending, FillPending, Writing, Goto
  <2>2. CASE Link(b) \/ Close(b)
    BY <2>2 DEF Link, Close, FinishBatch, Release
  <2>3. CASE Raise(b) \/ Crash(b)
    BY <2>3 DEF Raise, Crash, Release
  <2>4. CASE \E abort \in BOOLEAN : Recover(b, abort)
    BY <2>4 DEF Recover
  <2> QED
    BY <1>6, <2>1, <2>2, <2>3, <2>4
<1>7. CASE MoveClock
  BY <1>7 DEF MoveClock
<1>8. CASE UNCHANGED vars
  BY <1>8 DEF vars
<1> QED
  BY <1>1, <1>2, <1>3, <1>4, <1>5, <1>6, <1>7, <1>8 DEF Next, Proceed

\* The attempts are started before a job is recorded.
LEMMA StartingStep == IInv /\ [Next]_vars => Starting'
<1> SUFFICES ASSUME IInv, [Next]_vars PROVE Starting'
  OBVIOUS
<1> USE DEF IInv, TypeOK, RegistryTypeOK, Starting, registryVars, files, process, bounds
<1>1. ASSUME NEW b \in Batch, NEW plan \in Plan, NEW rev \in Revision,
             NEW retry \in Batch \union {NoRow}, Launch(b, plan, rev, retry)
      PROVE  Starting'
  BY <1>1 DEF Launch, Goto
<1>2. ASSUME NEW b \in Batch, Reject(b) \/ Admit(b) PROVE Starting'
  BY <1>2 DEF Reject, RejectBatch, Admit, AdmitBatch, Release, Goto, Reserved
<1>3. ASSUME NEW b \in Batch, RecordJob(b) PROVE Starting'
  BY <1>3 DEF RecordJob, FinishJob, Goto, Attempt
<1>4. ASSUME NEW b \in Batch,
             StartAttempt(b) \/ AllStarted(b) \/ Publish(b) \/ FinishAttempt(b)
      PROVE  Starting'
  BY <1>4 DEF StartAttempt, Start, AllStarted, Publish, FinishAttempt, Finish, Goto
<1>5. ASSUME NEW b \in Batch,
             \/ CreateBody(b) \/ FillBody(b) \/ CreatePending(b) \/ FillPending(b)
             \/ Link(b) \/ Close(b) \/ Raise(b) \/ Crash(b)
             \/ \E abort \in BOOLEAN : Recover(b, abort)
      PROVE  Starting'
  BY <1>5 DEF CreateBody, FillBody, CreatePending, FillPending, Link, Close,
     FinishBatch, Raise, Crash, Recover, Release, Goto
<1>6. CASE MoveClock
  BY <1>6 DEF MoveClock
<1>7. CASE UNCHANGED vars
  BY <1>7 DEF vars
<1> QED
  BY <1>1, <1>2, <1>3, <1>4, <1>5, <1>6, <1>7 DEF Next, Proceed

\* An abort seals its own result, and only where the run published nothing.
LEMMA AbortedApartStep == IInv /\ [Next]_vars => AbortedApart'
<1> SUFFICES ASSUME IInv, [Next]_vars PROVE AbortedApart'
  OBVIOUS
<1> USE AttemptsAreDirectories
<1> USE DEF IInv, TypeOK, RegistryTypeOK, AbortedApart, Published,
        registryVars, files, process, bounds
<1>1. ASSUME NEW b \in Batch, NEW plan \in Plan, NEW rev \in Revision,
             NEW retry \in Batch \union {NoRow}, Launch(b, plan, rev, retry)
      PROVE  AbortedApart'
  BY <1>1 DEF Launch
<1>2. ASSUME NEW b \in Batch,
             Reject(b) \/ Admit(b) \/ StartAttempt(b) \/ AllStarted(b)
      PROVE  AbortedApart'
  BY <1>2 DEF Reject, Admit, StartAttempt, AllStarted
<1>3. ASSUME NEW b \in Batch, Publish(b) PROVE AbortedApart'
  BY <1>3 DEF Publish, Ready
<1>4. ASSUME NEW b \in Batch, FinishAttempt(b) \/ RecordJob(b) PROVE AbortedApart'
  BY <1>4 DEF FinishAttempt, RecordJob
<1>5. ASSUME NEW b \in Batch, CreateBody(b) PROVE AbortedApart'
  <2>1. Torn # Absent
    BY FileAssumption
  <2> QED
    BY <1>5, <2>1 DEF CreateBody
<1>6. ASSUME NEW b \in Batch, FillBody(b) PROVE AbortedApart'
  <2> DEFINE result == [status |-> "aborted", finished |-> clock]
  <2>1. result \in AbortResult /\ result # Absent
    BY FileAssumption, TimesAssumption DEF AbortResult, Status
  <2>2. CASE Unrecorded(b) = {}
    <3>1. Dir(b) \notin Attempt
      <4>1. 0 \notin JobIndex
        BY PlanAssumption DEF JobIndex
      <4> QED
        BY <2>2, <4>1 DEF Dir, Attempt
    <3> QED
      BY <1>6, <3>1 DEF FillBody
  <2>3. CASE Unrecorded(b) # {}
    <3>1. body' = [body EXCEPT ![Dir(b)] = result]
      BY <1>6, <2>3 DEF FillBody
    <3> HIDE DEF result
    <3> QED
      BY <1>6, <2>1, <3>1 DEF FillBody
  <2> QED
    BY <2>2, <2>3
<1>7. ASSUME NEW b \in Batch, Link(b) PROVE AbortedApart'
  <2>1. Unrecorded(b) = {} => Dir(b) \notin Attempt
    <3>1. 0 \notin JobIndex
      BY PlanAssumption DEF JobIndex
    <3> QED
      BY <3>1 DEF Dir, Attempt
  <2>2. Unrecorded(b) # {} => body[Dir(b)] # Absent /\ ~Ready(Dir(b))
    BY <1>7 DEF Link, Writing, BodyAccepted
  <2> QED
    BY <1>7, <2>1, <2>2 DEF Link, Ready
<1>8. ASSUME NEW b \in Batch,
             \/ CreatePending(b) \/ FillPending(b) \/ Close(b) \/ Raise(b) \/ Crash(b)
             \/ \E abort \in BOOLEAN : Recover(b, abort)
      PROVE  AbortedApart'
  BY <1>8 DEF CreatePending, FillPending, Close, Raise, Crash, Recover
<1>9. CASE MoveClock
  BY <1>9 DEF MoveClock
<1>10. CASE UNCHANGED vars
  BY <1>10 DEF vars
<1> QED
  BY <1>1, <1>2, <1>3, <1>4, <1>5, <1>6, <1>7, <1>8, <1>9, <1>10 DEF Next, Proceed

\* Which job a step records, and with what: the one that RecordJob has come to.
LEMMA NewRecord ==
  ASSUME IInv, [Next]_vars, NEW a \in Attempt,
         jobOutcomes[a] = NoRow, jobOutcomes'[a] # NoRow
  PROVE  /\ pc[a[1]] = "record"
         /\ a = Dir(a[1])
         /\ jobOutcomes'[a] = ResultOf(a).status
         /\ UNCHANGED <<attempts, outcomes, artifact, body, manifest>>
<1> USE DEF IInv, TypeOK, RegistryTypeOK, registryVars, files, process, bounds
<1>1. jobOutcomes' # jobOutcomes
  OBVIOUS
<1>2. ASSUME NEW b \in Batch, RecordJob(b)
      PROVE  /\ pc[a[1]] = "record"
             /\ a = Dir(a[1])
             /\ jobOutcomes'[a] = ResultOf(a).status
             /\ UNCHANGED <<attempts, outcomes, artifact, body, manifest>>
  <2>1. Dir(b) = <<b, Current(b)>>
    BY <1>2 DEF RecordJob, Recording, Dir
  <2>2. a = <<b, Current(b)>>
    BY <1>2 DEF RecordJob, FinishJob
  <2> QED
    BY <1>2, <2>1, <2>2 DEF RecordJob, FinishJob
<1>3. \E b \in Batch : RecordJob(b)
  BY <1>1 DEF Next, Proceed, vars, Launch, Reject, RejectBatch, Admit, AdmitBatch,
     StartAttempt, Start, AllStarted, Publish, FinishAttempt, Finish, CreateBody,
     FillBody, CreatePending, FillPending, Link, Close, FinishBatch, Recover, Raise,
     Crash, MoveClock
<1> QED
  BY <1>2, <1>3

\* A job is recorded with its artifact, and the artifact stays.
LEMMA RecordedReadyStep == IInv /\ [Next]_vars => RecordedReady'
<1> SUFFICES ASSUME IInv, [Next]_vars, NEW a \in Attempt, jobOutcomes'[a] # NoRow
             PROVE  Ready(a)'
  BY DEF RecordedReady
<1>1. Ready(a)
  <2>1. CASE jobOutcomes[a] # NoRow
    BY <2>1 DEF IInv, RecordedReady
  <2>2. CASE jobOutcomes[a] = NoRow
    BY <2>2, NewRecord DEF IInv, Recording, Attempt
  <2> QED
    BY <2>1, <2>2
<1> QED
  BY <1>1, RowsStay DEF Ready, Published

\* While a batch is between the two transactions nothing touches its jobs: the
\* steps of other batches work elsewhere, its own would end the phase.
LEMMA WhileRecording ==
  ASSUME IInv, [Next]_vars, NEW b \in Batch, pc[b] = "record", pc'[b] = "record",
         NEW i \in JobIndex
  PROVE  /\ jobOutcomes'[<<b, i>>] = jobOutcomes[<<b, i>>]
         /\ attempts'[<<b, i>>] = attempts[<<b, i>>]
         /\ artifact'[<<b, i>>] = artifact[<<b, i>>]
         /\ body'[<<b, i>>] = body[<<b, i>>]
         /\ manifest'[<<b, i>>] = manifest[<<b, i>>]
<1> DEFINE Same == /\ jobOutcomes'[<<b, i>>] = jobOutcomes[<<b, i>>]
                   /\ attempts'[<<b, i>>] = attempts[<<b, i>>]
                   /\ artifact'[<<b, i>>] = artifact[<<b, i>>]
                   /\ body'[<<b, i>>] = body[<<b, i>>]
                   /\ manifest'[<<b, i>>] = manifest[<<b, i>>]
<1> <<b, i>> \in Attempt /\ <<b, i>> \in Batch \X DirIndex
  BY DEF Attempt, DirIndex
<1> USE DEF IInv, TypeOK, RegistryTypeOK, registryVars, files, process, bounds
<1>1. ASSUME NEW c \in Batch, NEW plan \in Plan, NEW rev \in Revision,
             NEW retry \in Batch \union {NoRow}, Launch(c, plan, rev, retry)
      PROVE  Same
  BY <1>1 DEF Launch
<1>2. ASSUME NEW c \in Batch,
             \/ Reject(c) \/ Admit(c) \/ AllStarted(c) \/ FinishAttempt(c)
             \/ CreatePending(c) \/ FillPending(c) \/ Close(c) \/ Raise(c) \/ Crash(c)
             \/ \E abort \in BOOLEAN : Recover(c, abort)
      PROVE  Same
  BY <1>2 DEF Reject, RejectBatch, Admit, AdmitBatch, AllStarted, FinishAttempt,
     Finish, CreatePending, FillPending, Close, FinishBatch, Raise, Crash, Recover
<1>3. ASSUME NEW c \in Batch,
             \/ StartAttempt(c) \/ Publish(c) \/ RecordJob(c)
             \/ CreateBody(c) \/ FillBody(c) \/ Link(c)
      PROVE  Same
  <2>1. c # b
    BY <1>3 DEF StartAttempt, Publish, RecordJob, CreateBody, FillBody, Link, Writing, Goto
  <2>2. <<b, i>> # Dir(c)
    BY <2>1 DEF Dir
  <2> QED
    BY <1>3, <2>1, <2>2 DEF StartAttempt, Start, Publish, RecordJob, FinishJob,
       CreateBody, FillBody, Link
<1>4. CASE MoveClock
  BY <1>4 DEF MoveClock
<1>5. CASE UNCHANGED vars
  BY <1>5 DEF vars
<1> QED
  BY <1>1, <1>2, <1>3, <1>4, <1>5 DEF Next, Proceed

\* Only FinishAttempt begins that phase.
LEMMA BeginRecording ==
  ASSUME IInv, [Next]_vars, NEW b \in Batch, pc[b] # "record", pc'[b] = "record"
  PROVE  FinishAttempt(b)
<1> USE DEF IInv, TypeOK, files, process, bounds
<1>1. ASSUME NEW c \in Batch, NEW plan \in Plan, NEW rev \in Revision,
             NEW retry \in Batch \union {NoRow}, Launch(c, plan, rev, retry)
      PROVE  FALSE
  BY <1>1 DEF Launch, Goto
<1>2. ASSUME NEW c \in Batch, Proceed(c) PROVE FinishAttempt(b)
  BY <1>2 DEF Proceed, Reject, Admit, StartAttempt, AllStarted, Publish, FinishAttempt,
     RecordJob, CreateBody, FillBody, CreatePending, FillPending, Link, Close, Raise,
     Goto, Release
<1>3. ASSUME NEW c \in Batch, Crash(c) \/ \E abort \in BOOLEAN : Recover(c, abort)
      PROVE  FALSE
  BY <1>3 DEF Crash, Recover, Release
<1>4. ~MoveClock /\ ~UNCHANGED vars
  BY DEF MoveClock, vars
<1> QED
  BY <1>1, <1>2, <1>3, <1>4 DEF Next

\* The first transaction settles the attempt, and what it settled lasts until
\* the second.
LEMMA RecordingStep == IInv /\ [Next]_vars => Recording'
<1> SUFFICES ASSUME IInv, [Next]_vars, NEW b \in Batch, pc'[b] = "record"
             PROVE  /\ Unrecorded(b)' # {}
                    /\ Dir(b)' \in Attempt =>
                         /\ Ready(Dir(b))'
                         /\ ResultOf(Dir(b))' \in Result \union AbortResult
                         /\ Settled(Dir(b), ResultOf(Dir(b)).status)'
  BY DEF Recording
<1> PICK d : d = Dir(b)
  OBVIOUS
<1>1. CASE pc[b] = "record"
  <2>1. batches[b] # NoRow
    BY <1>1 DEF IInv, Reserved
  <2>2. Unrecorded(b)' = Unrecorded(b) /\ Dir(b)' = d
    BY <1>1, <2>1, WhileRecording, DirStays
  <2>3. Unrecorded(b) # {}
    BY <1>1 DEF IInv, Recording
  <2>4. ASSUME d \in Attempt
        PROVE  /\ Ready(d)'
               /\ ResultOf(d)' \in Result \union AbortResult
               /\ Settled(d, ResultOf(d).status)'
    <3>1. PICK i \in JobIndex : d = <<b, i>>
      BY <2>4 DEF Dir, Attempt
    <3>2. /\ attempts'[d] = attempts[d]
          /\ artifact'[d] = artifact[d]
          /\ body'[d] = body[d]
          /\ manifest'[d] = manifest[d]
      BY <1>1, <3>1, WhileRecording
    <3>3. /\ Ready(d)
          /\ ResultOf(d) \in Result \union AbortResult
          /\ Settled(d, ResultOf(d).status)
      BY <1>1, <2>4 DEF IInv, Recording
    <3>4. Ready(d)' /\ ResultOf(d)' = ResultOf(d)
      BY <3>2, <3>3 DEF Ready, Published, ResultOf
    <3>5. outcomes[d] # NoRow => outcomes'[d] = outcomes[d]
      BY <2>4, RowsStay
    <3> QED
      BY <3>2, <3>3, <3>4, <3>5 DEF Settled
  <2> QED
    BY <2>2, <2>3, <2>4 DEF Ready, Published, ResultOf, Settled
<1>2. CASE FinishAttempt(b)
  <2>1. batches[b] # NoRow
    BY <1>2 DEF IInv, Reserved, FinishAttempt
  <2>2. UNCHANGED <<batches, jobOutcomes, attempts, artifact, body, manifest>>
    BY <1>2 DEF FinishAttempt, Finish, files, registryVars
  <2>3. Unrecorded(b)' = Unrecorded(b) /\ Dir(b)' = d
    BY <2>1, <2>2, DirStays
  <2>4. Unrecorded(b) # {} /\ Ready(d) /\ ResultOf(d) # Torn
    BY <1>2 DEF FinishAttempt, Acceptable
  <2>5. d \in Attempt => ResultOf(d) \in Result \union AbortResult
    BY <2>4, ResultType
  <2>6. d \in Attempt => Settled(d, ResultOf(d).status)'
    <3>1. ResultOf(d)' = ResultOf(d) /\ attempts'[d] = attempts[d]
      BY <2>2 DEF ResultOf
    <3>2. CASE attempts[d] = NoRow
      BY <3>1, <3>2 DEF Settled
    <3>3. CASE attempts[d] # NoRow /\ d \in Attempt
      <4> DEFINE row == [outcome |-> ResultOf(d).status, finished |-> ResultOf(d).finished]
      <4>1. outcomes' = [outcomes EXCEPT ![d] = row] /\ ResultOf(d).status \in Outcome
        BY <1>2, <3>3 DEF FinishAttempt, Finish, MayFinish
      <4>2. ResultOf(d).finished \in Int
        BY <2>5, <3>3, TimesAssumption DEF Result, AbortResult
      <4>3. row \in OutcomeRow
        BY <4>1, <4>2 DEF OutcomeRow
      <4>4. row # NoRow
        BY <4>3, NoRowAssumption
      <4>5. outcomes'[d] = row
        BY <3>3, <4>1 DEF IInv, TypeOK, RegistryTypeOK
      <4> QED
        BY <3>1, <4>4, <4>5 DEF Settled
    <3> QED
      BY <3>2, <3>3
  <2> QED
    BY <2>2, <2>3, <2>4, <2>5, <2>6 DEF Ready, Published, ResultOf, Settled
<1> QED
  BY <1>1, <1>2, BeginRecording

\* What is recorded agrees with the artifact and with the attempt.
LEMMA RecordsAgreeStep == IInv /\ [Next]_vars => RecordsAgree'
<1> SUFFICES ASSUME IInv, [Next]_vars, NEW a \in Attempt, jobOutcomes'[a] # NoRow
             PROVE  /\ Published(a)' => jobOutcomes'[a] = artifact'[a].status
                    /\ Settled(a, jobOutcomes[a])'
  BY DEF RecordsAgree, Settled
<1>1. CASE jobOutcomes[a] = NoRow
  <2>1. /\ pc[a[1]] = "record"
        /\ a = Dir(a[1])
        /\ jobOutcomes'[a] = ResultOf(a).status
        /\ UNCHANGED <<attempts, outcomes, artifact, body, manifest>>
    BY <1>1, NewRecord
  <2>2. Ready(a) /\ Settled(a, ResultOf(a).status)
    BY <2>1 DEF IInv, Recording, Attempt
  <2>3. Published(a) => ~manifest[a]
    BY DEF IInv, AbortedApart
  <2> QED
    BY <2>1, <2>2, <2>3 DEF Published, ResultOf, Settled
<1>2. CASE jobOutcomes[a] # NoRow
  <2>1. /\ jobOutcomes'[a] = jobOutcomes[a]
        /\ artifact'[a] = artifact[a]
        /\ attempts'[a] = attempts[a]
        /\ outcomes[a] # NoRow => outcomes'[a] = outcomes[a]
    BY <1>2, RowsStay DEF IInv, RecordedReady
  <2> QED
    BY <1>2, <2>1 DEF IInv, RecordsAgree, Published, Settled
<1> QED
  BY <1>1, <1>2

-----------------------------------------------------------------------------
(* Types and records *)

\* The inductive invariant holds at first.
LEMMA InitInv == Init => IInv
<1> SUFFICES ASSUME Init PROVE IInv
  OBVIOUS
<1>1. TypeOK
  BY TimesAssumption, BoundAssumption
  DEF Init, RegistryInit, TypeOK, RegistryTypeOK
<1>2. Reserved /\ Starting /\ Recording
  BY DEF Init, RegistryInit, Reserved, Starting, Recording, Attempt
<1>3. AbortedApart /\ RecordedReady /\ RecordsAgree
  BY AttemptsAreDirectories
  DEF Init, RegistryInit, AbortedApart, RecordedReady, RecordsAgree
<1> QED
  BY <1>1, <1>2, <1>3 DEF IInv

\* The inductive invariant holds through every step.
LEMMA NextInv == IInv /\ [Next]_vars => IInv'
BY TypeStep, ReservedStep, StartingStep, AbortedApartStep, RecordedReadyStep,
   RecordingStep, RecordsAgreeStep DEF IInv

\* It holds in every state of a behaviour.
LEMMA Invariance == Spec => []IInv
BY InitInv, NextInv, PTL DEF Spec

\* The type invariant, for every instance.
THEOREM TypeCorrect == Spec => []TypeOK
<1>1. IInv => TypeOK
  BY DEF IInv
<1> QED
  BY <1>1, Invariance, PTL

\* The three records of a job agree, for any number of batches, plans of any
\* length, any readings of the clock and any number of deaths of run() and
\* recover(): complete_job() may be repeated by whoever comes after.
THEOREM RecordsAgreeHolds == Spec => []RecordsAgree
<1>1. IInv => RecordsAgree
  BY DEF IInv
<1> QED
  BY <1>1, Invariance, PTL

-----------------------------------------------------------------------------
(* Why a process is only ever stopped by damage *)

\* One batch is open at a time, it is the one a process works on, and a closed
\* batch has all its jobs recorded.
OneOpen ==
  /\ \A b, c \in Unfinished : b = c
  /\ \A b \in Batch :
       /\ pc[b] \notin {"idle", "reserve"} => batchOutcomes[b] = NoRow
       /\ batchOutcomes[b] # NoRow => batches[b] # NoRow /\ Unrecorded(b) = {}

\* Attempts are of executable jobs.  run() starts all of them before it works,
\* so what it publishes of an executable job has an attempt.
StartedFirst ==
  /\ \A a \in Attempt :
       /\ attempts[a] # NoRow => batches[a[1]] # NoRow /\ Executable(a)
       /\ Published(a) =>
            /\ batches[a[1]] # NoRow
            /\ Executable(a) => attempts[a] # NoRow /\ artifact[a].status # "duplicate"
  /\ \A b \in Batch :
       pc[b] \in {"work", "body", "pending", "record"} /\ ~recovering[b]
         => NotStarted(b) = {}

\* An attempt has the outcome of an artifact that is there and can be read.
OutcomeIsResult ==
  \A a \in Attempt : outcomes[a] # NoRow =>
    /\ Ready(a)
    /\ ResultOf(a) \in Result \union AbortResult
    /\ outcomes[a] = [outcome |-> ResultOf(a).status, finished |-> ResultOf(a).finished]

\* The result of an abort is filled before the directory is sealed.
FilledFirst ==
  \A b \in Batch : pc[b] = "body" /\ Unrecorded(b) # {} => ~Ready(Dir(b))

\* A summary that is there tells of all jobs what the registry tells of them.
SummaryAgrees ==
  \A b \in Batch : body[<<b, 0>>] \notin {Absent, Torn} =>
    /\ batches[b] # NoRow
    /\ Unrecorded(b) = {}
    /\ body[<<b, 0>>] = [status |-> BatchStatus(b)]

BInv ==
  /\ IInv
  /\ OneOpen
  /\ StartedFirst
  /\ OutcomeIsResult
  /\ FilledFirst
  /\ SummaryAgrees

\* A set of job numbers has a least element.
LEMMA LeastJob ==
  ASSUME NEW S, S \subseteq Nat, S # {}
  PROVE  Min(S) \in S
<1>1. PICK x \in S : \A y \in S : <<y, x>> \notin OpToRel(<, Nat)
  BY NatLessThanWellFounded, WFMin, Zenon
<1>2. ASSUME NEW y \in S PROVE x =< y
  <2>1. ~(y < x)
    BY <1>1 DEF OpToRel
  <2> QED
    BY <2>1
<1>3. \E z \in S : \A y \in S : z =< y
  BY <1>2
<1> QED
  BY <1>3 DEF Min

\* The directory a process has come to is that of a job that is not recorded,
\* or when there is none the output itself, which is no job's.
LEMMA WhereDirIs ==
  ASSUME IInv, NEW b \in Batch, batches[b] # NoRow
  PROVE  /\ batches[b].plan \in Plan
         /\ Jobs(batches[b].plan) \subseteq JobIndex
         /\ Unrecorded(b) # {} => /\ Current(b) \in Unrecorded(b)
                                 /\ Dir(b) = <<b, Current(b)>>
                                 /\ Dir(b) \in Attempt
                                 /\ Current(b) # 0
         /\ Unrecorded(b) = {} => Dir(b) = <<b, 0>>
         /\ Dir(b) \in Batch \X DirIndex
<1>1. batches[b].plan \in Plan
  BY DEF IInv, TypeOK, RegistryTypeOK, BatchRow
<1>2. Jobs(batches[b].plan) \subseteq JobIndex /\ Jobs(batches[b].plan) \subseteq Nat \ {0}
  BY <1>1, PlanAssumption DEF JobIndex
<1>3. Unrecorded(b) # {} => Current(b) \in Unrecorded(b)
  BY <1>2, LeastJob DEF Unrecorded, Current
<1>4. Unrecorded(b) \subseteq Jobs(batches[b].plan)
  BY DEF Unrecorded
<1> HIDE DEF Unrecorded, Current, Jobs, JobIndex
<1> QED
  BY <1>1, <1>2, <1>3, <1>4 DEF Dir, Attempt, DirIndex

\* No part of a batch changes.
Quiet(b) ==
  /\ pc'[b] = pc[b]
  /\ recovering'[b] = recovering[b]
  /\ batches'[b] = batches[b]
  /\ batchOutcomes'[b] = batchOutcomes[b]
  /\ body'[<<b, 0>>] = body[<<b, 0>>]
  /\ \A i \in JobIndex :
       /\ attempts'[<<b, i>>] = attempts[<<b, i>>]
       /\ outcomes'[<<b, i>>] = outcomes[<<b, i>>]
       /\ jobOutcomes'[<<b, i>>] = jobOutcomes[<<b, i>>]
       /\ artifact'[<<b, i>>] = artifact[<<b, i>>]
       /\ body'[<<b, i>>] = body[<<b, i>>]
       /\ manifest'[<<b, i>>] = manifest[<<b, i>>]

\* A step is of one batch and leaves the others alone.
LEMMA OneBatchSteps ==
  ASSUME IInv, [Next]_vars, NEW b \in Batch
  PROVE  \/ Quiet(b)
         \/ \E plan \in Plan, rev \in Revision, retry \in Batch \union {NoRow} :
              Launch(b, plan, rev, retry)
         \/ Proceed(b)
         \/ \E abort \in BOOLEAN : Recover(b, abort)
         \/ Crash(b)
<1> USE DEF IInv, TypeOK, RegistryTypeOK, Quiet, registryVars, files, process, bounds
<1> /\ 0 \in DirIndex
    /\ <<b, 0>> \in Batch \X DirIndex
    /\ \A i \in JobIndex : <<b, i>> \in Attempt /\ <<b, i>> \in Batch \X DirIndex
  BY DEF DirIndex, Attempt
<1>1. ASSUME NEW c \in Batch, c # b, NEW plan \in Plan, NEW rev \in Revision,
             NEW retry \in Batch \union {NoRow}, Launch(c, plan, rev, retry)
      PROVE  Quiet(b)
  BY <1>1 DEF Launch, Goto
<1>2. ASSUME NEW c \in Batch, c # b, Proceed(c) PROVE Quiet(b)
  <2>1. \A i : Dir(c) # <<b, i>>
    BY <1>2 DEF Dir
  <2> HIDE DEF Quiet
  <2>2. CASE Reject(c) \/ Admit(c)
    BY <1>2, <2>2 DEF Reject, RejectBatch, Admit, AdmitBatch, Goto, Release, Quiet
  <2>3. CASE StartAttempt(c) \/ AllStarted(c)
    BY <1>2, <2>3 DEF StartAttempt, Start, AllStarted, Goto, Quiet
  <2>4. CASE Publish(c)
    BY <1>2, <2>1, <2>4 DEF Publish, Quiet
  <2>5. CASE FinishAttempt(c)
    BY <1>2, <2>1, <2>5 DEF FinishAttempt, Finish, Goto, Quiet
  <2>6. CASE RecordJob(c)
    BY <1>2, <2>6 DEF RecordJob, FinishJob, Goto, Quiet
  <2>7. CASE CreateBody(c) \/ FillBody(c)
    BY <1>2, <2>1, <2>7 DEF CreateBody, FillBody, Goto, Quiet
  <2>8. CASE CreatePending(c) \/ FillPending(c)
    BY <1>2, <2>1, <2>8 DEF CreatePending, FillPending, Goto, Quiet
  <2>9. CASE Link(c)
    BY <1>2, <2>1, <2>9 DEF Link, Quiet
  <2>10. CASE Close(c) \/ Raise(c)
    BY <1>2, <2>10 DEF Close, FinishBatch, Raise, Release, Quiet
  <2> QED
    BY <1>2, <2>2, <2>3, <2>4, <2>5, <2>6, <2>7, <2>8, <2>9, <2>10 DEF Proceed
<1>3. ASSUME NEW c \in Batch, c # b, Crash(c) \/ \E abort \in BOOLEAN : Recover(c, abort)
      PROVE  Quiet(b)
  BY <1>3 DEF Crash, Recover, Release
<1>4. CASE MoveClock
  BY <1>4 DEF MoveClock
<1>5. CASE UNCHANGED vars
  BY <1>5 DEF vars
<1> HIDE DEF Quiet
<1> QED
  BY <1>1, <1>2, <1>3, <1>4, <1>5 DEF Next

\* What is derived from a batch's rows stays when they do.
LEMMA QuietKeeps ==
  ASSUME IInv, NEW b \in Batch, batches[b] # NoRow, Quiet(b)
  PROVE  /\ Unrecorded(b)' = Unrecorded(b)
         /\ Dir(b)' = Dir(b)
         /\ NotStarted(b)' = NotStarted(b)
<1>1. batches'[b] = batches[b] /\ Jobs(batches[b].plan) \subseteq JobIndex
  BY WhereDirIs DEF Quiet
<1>2. batches[b].plan.executable \subseteq Jobs(batches[b].plan)
  BY WhereDirIs, PlanAssumption
<1>3. Recorded(b)' = Recorded(b)
  BY <1>1 DEF Recorded, Quiet
<1>4. Unrecorded(b)' = Unrecorded(b)
  BY <1>1, <1>3 DEF Unrecorded
<1>5. NotStarted(b)' = NotStarted(b)
  BY <1>1, <1>2 DEF NotStarted, Quiet
<1> QED
  BY <1>4, <1>5 DEF Dir, Current

\* Once admitted, a batch keeps its row, and once all its jobs are recorded no
\* job becomes unrecorded.
LEMMA AllRecordedStays ==
  ASSUME IInv, [Next]_vars, NEW b \in Batch, batches[b] # NoRow, Unrecorded(b) = {}
  PROVE  /\ batches'[b] = batches[b]
         /\ Unrecorded(b)' = {}
         /\ BatchStatus(b)' = BatchStatus(b)
<1>1. batches'[b] = batches[b] /\ Jobs(batches[b].plan) \subseteq JobIndex
  BY WhereDirIs, RowsStay
<1>2. \A i \in Jobs(batches[b].plan) : jobOutcomes[<<b, i>>] # NoRow
  BY DEF Unrecorded, Recorded
<1>3. \A i \in Jobs(batches[b].plan) : jobOutcomes'[<<b, i>>] = jobOutcomes[<<b, i>>]
  BY <1>1, <1>2, RowsStay DEF Attempt
<1>4. Recorded(b)' = Jobs(batches[b].plan)
  BY <1>1, <1>2, <1>3 DEF Recorded
<1>5. Unrecorded(b)' = {}
  BY <1>1, <1>4 DEF Unrecorded
<1>6. {jobOutcomes[<<b, i>>] : i \in Jobs(batches[b].plan)}'
        = {jobOutcomes[<<b, i>>] : i \in Jobs(batches[b].plan)}
  BY <1>1, <1>3
<1> QED
  BY <1>1, <1>5, <1>6 DEF BatchStatus

\* A batch is admitted when none is open, and closed when all is recorded.
LEMMA OneOpenStep == BInv /\ [Next]_vars => OneOpen'
<1> SUFFICES ASSUME BInv, [Next]_vars PROVE OneOpen'
  OBVIOUS
<1> USE DEF BInv, IInv, TypeOK, RegistryTypeOK, files, process, bounds, registryVars
<1>1. ASSUME NEW b \in Batch, Admit(b) PROVE \A c \in Unfinished' : c = b
  <2>1. Unfinished = {}
    <3>1. "unfinished_batch" \notin Reasons(admission[b].plan, admission[b].revision,
                                            admission[b].retry_of)
      BY <1>1 DEF Admit, AdmitBatch
    <3> QED
      BY <3>1 DEF Reasons, Rejection
  <2>2. \A c \in Batch : c # b => batches'[c] = batches[c] /\ batchOutcomes'[c] = batchOutcomes[c]
    BY <1>1 DEF Admit, AdmitBatch
  <2> QED
    BY <2>1, <2>2 DEF Unfinished
<1>2. ASSUME NEW b \in Batch, Close(b)
      PROVE  /\ batches' = batches
             /\ \A c \in Batch : batchOutcomes[c] # NoRow => batchOutcomes'[c] # NoRow
             /\ pc'[b] = "idle"
             /\ batches[b] # NoRow
             /\ Unrecorded(b) = {}
             /\ \A c \in Batch : c # b => batchOutcomes'[c] = batchOutcomes[c]
  <2>1. BatchStatus(b) # NoRow
    BY NoRowAssumption DEF BatchStatus, Status
  <2> QED
    BY <1>2, <2>1 DEF Close, FinishBatch, Release
<1>3. ASSUME \A b \in Batch : ~Admit(b) /\ ~Close(b)
      PROVE  batches' = batches /\ batchOutcomes' = batchOutcomes
  BY <1>3 DEF Next, Proceed, vars, Launch, Reject, RejectBatch, StartAttempt, Start,
     AllStarted, Publish, FinishAttempt, Finish, RecordJob, FinishJob, CreateBody,
     FillBody, CreatePending, FillPending, Link, Recover, Raise, Crash, MoveClock
<1>4. \A b, c \in Unfinished' : b = c
  <2>1. CASE \E b \in Batch : Admit(b)
    BY <1>1, <2>1
  <2>2. CASE \A b \in Batch : ~Admit(b)
    <3>1. Unfinished' \subseteq Unfinished
      BY <1>2, <1>3, <2>2 DEF Unfinished
    <3> QED
      BY <3>1 DEF OneOpen
  <2> QED
    BY <2>1, <2>2
<1>5. ASSUME NEW b \in Batch, pc'[b] \notin {"idle", "reserve"}
      PROVE  batchOutcomes'[b] = NoRow
  <2>1. CASE Quiet(b)
    BY <1>5, <2>1 DEF Quiet, OneOpen
  <2>2. CASE \E plan \in Plan, rev \in Revision, retry \in Batch \union {NoRow} :
               Launch(b, plan, rev, retry)
    BY <1>5, <2>2 DEF Launch, Goto
  <2>3. CASE \E abort \in BOOLEAN : Recover(b, abort)
    BY <2>3 DEF Recover
  <2>4. CASE Crash(b)
    BY <1>5, <2>4 DEF Crash, Release
  <2>5. CASE Admit(b)
    BY <2>5 DEF Admit, AdmitBatch, Reserved, OneOpen
  <2>6. CASE Proceed(b) /\ ~Admit(b)
    <3>1. pc[b] \notin {"idle", "reserve"} /\ ~Close(b)
      BY <1>5, <2>6 DEF Proceed, Reject, StartAttempt, AllStarted, Publish,
         FinishAttempt, RecordJob, CreateBody, FillBody, CreatePending, FillPending,
         Link, Writing, Close, Raise, Release, Goto
    <3>2. batchOutcomes'[b] = batchOutcomes[b]
      BY <2>6, <3>1 DEF Proceed, Reject, RejectBatch, StartAttempt, Start, AllStarted,
         Publish, FinishAttempt, Finish, RecordJob, FinishJob, CreateBody, FillBody,
         CreatePending, FillPending, Link, Raise
    <3> QED
      BY <3>1, <3>2 DEF OneOpen
  <2> QED
    BY <2>1, <2>2, <2>3, <2>4, <2>5, <2>6, OneBatchSteps
<1>6. ASSUME NEW b \in Batch, batchOutcomes'[b] # NoRow
      PROVE  batches'[b] # NoRow /\ Unrecorded(b)' = {}
  <2>1. batches[b] # NoRow /\ Unrecorded(b) = {}
    <3>1. CASE batchOutcomes[b] # NoRow
      BY <3>1 DEF OneOpen
    <3>2. CASE batchOutcomes[b] = NoRow
      <4>1. \A c \in Batch : Admit(c) => batchOutcomes' = batchOutcomes
        BY DEF Admit, AdmitBatch
      <4> QED
        BY <1>2, <1>3, <1>6, <3>2, <4>1
    <3> QED
      BY <3>1, <3>2
  <2> QED
    BY <2>1, AllRecordedStays
<1> QED
  BY <1>4, <1>5, <1>6 DEF OneOpen

\* Every attempt of a batch is started before its process works.
LEMMA StartedFirstStep == BInv /\ [Next]_vars => StartedFirst'
<1> SUFFICES ASSUME BInv, [Next]_vars, NEW b \in Batch
             PROVE  /\ \A i \in JobIndex :
                         /\ attempts'[<<b, i>>] # NoRow =>
                              batches'[b] # NoRow /\ Executable(<<b, i>>)'
                         /\ Published(<<b, i>>)' =>
                              /\ batches'[b] # NoRow
                              /\ Executable(<<b, i>>)' =>
                                   /\ attempts'[<<b, i>>] # NoRow
                                   /\ artifact'[<<b, i>>].status # "duplicate"
                    /\ pc'[b] \in {"work", "body", "pending", "record"} /\ ~recovering'[b]
                         => NotStarted(b)' = {}
  BY DEF StartedFirst, Attempt
<1> DEFINE working == {"work", "body", "pending", "record"}
<1> USE DEF BInv, IInv, TypeOK, RegistryTypeOK, files, process, bounds, registryVars
<1>1. ASSUME NEW i \in JobIndex, attempts'[<<b, i>>] # NoRow
      PROVE  batches'[b] # NoRow /\ Executable(<<b, i>>)'
  <2>1. batches[b] # NoRow /\ Executable(<<b, i>>)
    <3>1. CASE attempts[<<b, i>>] # NoRow
      BY <3>1 DEF StartedFirst, Attempt
    <3>2. CASE attempts[<<b, i>>] = NoRow
      <4>1. ~Quiet(b)
        BY <1>1, <3>2 DEF Quiet
      <4>2. StartAttempt(b)
        BY <1>1, <3>2, <4>1, OneBatchSteps DEF Proceed, Launch, Reject, RejectBatch,
           Admit, AdmitBatch, AllStarted, Publish, FinishAttempt, Finish, RecordJob,
           FinishJob, CreateBody, FillBody, CreatePending, FillPending, Link, Close,
           FinishBatch, Recover, Raise, Crash
      <4>3. batches[b] # NoRow
        BY <4>2 DEF StartAttempt, Reserved
      <4>4. i = Min(NotStarted(b))
        BY <1>1, <3>2, <4>2 DEF StartAttempt, Start
      <4>5. NotStarted(b) # {} /\ NotStarted(b) \subseteq Nat
        BY <4>2, <4>3, WhereDirIs, PlanAssumption DEF StartAttempt, NotStarted
      <4>6. i \in NotStarted(b)
        BY <4>4, <4>5, LeastJob
      <4> QED
        BY <4>3, <4>6 DEF NotStarted, Executable
    <3> QED
      BY <3>1, <3>2
  <2> QED
    BY <2>1, RowsStay DEF Executable
<1>2. ASSUME NEW i \in JobIndex, Published(<<b, i>>)'
      PROVE  /\ batches'[b] # NoRow
             /\ Executable(<<b, i>>)' =>
                  attempts'[<<b, i>>] # NoRow /\ artifact'[<<b, i>>].status # "duplicate"
  <2> <<b, i>> \in Attempt
    BY DEF Attempt
  <2>1. CASE Published(<<b, i>>)
    <3>1. artifact'[<<b, i>>] = artifact[<<b, i>>]
      BY <2>1, RowsStay DEF Ready
    <3>2. batches[b] # NoRow /\ batches'[b] = batches[b]
      BY <2>1, RowsStay DEF StartedFirst
    <3> QED
      BY <2>1, <3>1, <3>2, RowsStay DEF StartedFirst, Executable
  <2>2. CASE ~Published(<<b, i>>)
    <3>1. ~Quiet(b)
      BY <1>2, <2>2 DEF Quiet, Published
    <3>2. Publish(b)
      BY <1>2, <2>2, <3>1, OneBatchSteps DEF Published, Proceed, Launch, Reject, Admit,
         StartAttempt, AllStarted, FinishAttempt, RecordJob, CreateBody, FillBody,
         CreatePending, FillPending, Link, Close, Recover, Raise, Crash
    <3>3. batches[b] # NoRow /\ NotStarted(b) = {} /\ batches' = batches /\ attempts' = attempts
      BY <3>2 DEF Publish, Reserved, StartedFirst
    <3>4. Dir(b) = <<b, i>>
      BY <1>2, <2>2, <3>2 DEF Publish, Published
    <3>5. PICK s \in IF Executable(<<b, i>>) THEN {"completed", "failed"} ELSE {"duplicate"} :
            artifact' = [artifact EXCEPT ![<<b, i>>] = [status |-> s, finished |-> clock]]
      BY <3>2, <3>4 DEF Publish
    <3>6. artifact'[<<b, i>>].status = s
      BY <3>5
    <3>7. Executable(<<b, i>>) => attempts[<<b, i>>] # NoRow
      BY <3>3 DEF NotStarted, Executable
    <3> QED
      BY <3>3, <3>5, <3>6, <3>7 DEF Executable
  <2> QED
    BY <2>1, <2>2
<1>3. ASSUME pc'[b] \in working, ~recovering'[b] PROVE NotStarted(b)' = {}
  <2>1. CASE AllStarted(b)
    BY <2>1 DEF AllStarted, NotStarted
  <2>2. CASE ~AllStarted(b)
    <3>1. pc[b] \in working /\ ~recovering[b]
      <4>1. CASE Quiet(b)
        BY <1>3, <4>1 DEF Quiet
      <4>2. CASE ~Quiet(b)
        BY <1>3, <2>2, <4>2, OneBatchSteps DEF Proceed, Launch, Reject, Admit,
           StartAttempt, Publish, FinishAttempt, RecordJob, CreateBody, FillBody,
           CreatePending, FillPending, Link, Writing, Close, Recover, Raise, Crash,
           Goto, Release
      <4> QED
        BY <4>1, <4>2
    <3>2. NotStarted(b) = {} /\ batches[b] # NoRow
      BY <3>1 DEF StartedFirst, Reserved
    <3>3. /\ batches'[b] = batches[b]
          /\ \A i \in batches[b].plan.executable : <<b, i>> \in Attempt
      BY <3>2, RowsStay, WhereDirIs, PlanAssumption DEF Attempt
    <3>4. \A i \in batches[b].plan.executable : attempts'[<<b, i>>] # NoRow
      BY <3>2, <3>3, RowsStay DEF NotStarted
    <3> QED
      BY <3>3, <3>4 DEF NotStarted
  <2> QED
    BY <2>1, <2>2
<1> HIDE DEF working
<1> QED
  BY <1>1, <1>2, <1>3 DEF working

\* A sealed directory of a job is not written any more.
LEMMA SealedStays ==
  ASSUME BInv, [Next]_vars, NEW b \in Batch, NEW i \in JobIndex, manifest[<<b, i>>]
  PROVE  body'[<<b, i>>] = body[<<b, i>>]
<1> <<b, i>> \in Attempt /\ <<b, i>> \in Batch \X DirIndex
  BY DEF Attempt, DirIndex
<1> USE DEF BInv, IInv, TypeOK, RegistryTypeOK, files, process, bounds, registryVars
<1>1. CASE Quiet(b)
  BY <1>1 DEF Quiet
<1>2. CASE CreateBody(b)
  <2>1. body[<<b, i>>] # Absent
    BY DEF AbortedApart
  <2> QED
    BY <1>2, <2>1 DEF CreateBody
<1>3. CASE FillBody(b)
  <2>1. batches[b] # NoRow
    BY <1>3 DEF FillBody, Reserved
  <2>2. Dir(b) # <<b, i>>
    <3>1. CASE Unrecorded(b) = {}
      BY <2>1, <3>1, WhereDirIs, PlanAssumption DEF JobIndex
    <3>2. CASE Unrecorded(b) # {}
      BY <1>3, <3>2 DEF FillBody, FilledFirst, Ready
    <3> QED
      BY <3>1, <3>2
  <2> QED
    BY <1>3, <2>2 DEF FillBody
<1>4. CASE ~Quiet(b) /\ ~CreateBody(b) /\ ~FillBody(b)
  BY <1>4, OneBatchSteps DEF Proceed, Launch, Reject, Admit, StartAttempt, AllStarted,
     Publish, FinishAttempt, RecordJob, CreatePending, FillPending, Link, Close,
     Recover, Raise, Crash
<1> QED
  BY <1>1, <1>2, <1>3, <1>4

\* The first transaction of complete_job() copies the result, and the result
\* stays.
LEMMA OutcomeIsResultStep == BInv /\ [Next]_vars => OutcomeIsResult'
<1> SUFFICES ASSUME BInv, [Next]_vars, NEW a \in Attempt, outcomes'[a] # NoRow
             PROVE  /\ Ready(a)'
                    /\ ResultOf(a)' \in Result \union AbortResult
                    /\ outcomes'[a] = [outcome |-> ResultOf(a)'.status,
                                       finished |-> ResultOf(a)'.finished]
  BY DEF OutcomeIsResult
<1> USE DEF BInv, IInv
<1> PICK b \in Batch, i \in JobIndex : a = <<b, i>>
  BY DEF Attempt
<1>1. ASSUME Ready(a) PROVE Ready(a)' /\ ResultOf(a)' = ResultOf(a)
  <2>1. artifact'[a] = artifact[a] /\ (manifest[a] => manifest'[a])
    BY <1>1, RowsStay
  <2>2. ~manifest[a] => Published(a)'
    BY <1>1, <2>1 DEF Ready, Published
  <2>3. ~manifest[a] => ~manifest'[a]
    BY <2>2, AbortedApartStep DEF AbortedApart
  <2>4. manifest[a] => body'[a] = body[a]
    BY SealedStays
  <2> QED
    BY <1>1, <2>1, <2>2, <2>3, <2>4 DEF Ready, Published, ResultOf
<1>2. CASE outcomes[a] # NoRow
  BY <1>1, <1>2, RowsStay DEF OutcomeIsResult
<1>3. CASE outcomes[a] = NoRow
  <2>1. ~Quiet(b)
    BY <1>3 DEF Quiet
  <2>2. FinishAttempt(b)
    BY <1>3, <2>1, OneBatchSteps DEF Proceed, Launch, Reject, RejectBatch, Admit,
       AdmitBatch, StartAttempt, Start, AllStarted, Publish, RecordJob, FinishJob,
       CreateBody, FillBody, CreatePending, FillPending, Link, Close, FinishBatch,
       Recover, Raise, Crash, files, registryVars
  <2>3. a = Dir(b) /\ Finish(a, ResultOf(a).status, ResultOf(a).finished)
    BY <1>3, <2>2 DEF FinishAttempt, Finish, registryVars, TypeOK, RegistryTypeOK
  <2>4. outcomes'[a] = [outcome |-> ResultOf(a).status, finished |-> ResultOf(a).finished]
    BY <2>3 DEF Finish, TypeOK, RegistryTypeOK
  <2>5. Ready(a) /\ ResultOf(a) # Torn
    BY <2>2, <2>3 DEF FinishAttempt, Acceptable
  <2>6. ResultOf(a) \in Result \union AbortResult
    BY <2>5, ResultType
  <2> QED
    BY <1>1, <2>4, <2>5, <2>6
<1> QED
  BY <1>2, <1>3

\* An abort begins a result only where there is no artifact.
LEMMA FilledFirstStep == BInv /\ [Next]_vars => FilledFirst'
<1> SUFFICES ASSUME BInv, [Next]_vars, NEW b \in Batch, pc'[b] = "body",
                    Unrecorded(b)' # {}
             PROVE  ~Ready(Dir(b))'
  BY DEF FilledFirst
<1> USE DEF BInv, IInv, TypeOK, RegistryTypeOK, files, process, bounds
<1>1. CASE Quiet(b)
  <2>1. pc[b] = "body" /\ batches[b] # NoRow
    BY <1>1 DEF Quiet, Reserved
  <2>2. Unrecorded(b)' = Unrecorded(b) /\ Dir(b)' = Dir(b)
    BY <1>1, <2>1, QuietKeeps
  <2>3. ~Ready(Dir(b))
    BY <2>1, <2>2 DEF FilledFirst
  <2>4. PICK i \in JobIndex : Dir(b) = <<b, i>>
    BY <2>1, <2>2, WhereDirIs DEF Attempt
  <2>5. ~Ready(<<b, i>>)'
    BY <1>1, <2>3, <2>4 DEF Ready, Published, Quiet
  <2> QED
    BY <2>2, <2>4, <2>5 DEF Ready, Published
<1>2. CASE ~Quiet(b)
  <2>1. CreateBody(b)
    BY <1>2, OneBatchSteps DEF Proceed, Launch, Reject, Admit, StartAttempt, AllStarted,
       Publish, FinishAttempt, RecordJob, FillBody, CreatePending, FillPending, Link,
       Writing, Close, Recover, Raise, Crash, Goto, Release
  <2>2. UNCHANGED <<batches, jobOutcomes, artifact, manifest>>
    BY <2>1 DEF CreateBody, registryVars
  <2>3. Unrecorded(b)' = Unrecorded(b) /\ Dir(b)' = Dir(b)
    BY <2>2 DEF Unrecorded, Recorded, Dir, Current
  <2>4. ~Ready(Dir(b))
    BY <2>1, <2>3 DEF CreateBody, Writing
  <2> QED
    BY <2>2, <2>3, <2>4 DEF Ready, Published
<1> QED
  BY <1>1, <1>2

\* The summary is computed when all jobs are recorded.
LEMMA SummaryAgreesStep == BInv /\ [Next]_vars => SummaryAgrees'
<1> SUFFICES ASSUME BInv, [Next]_vars, NEW b \in Batch, body'[<<b, 0>>] \notin {Absent, Torn}
             PROVE  /\ batches'[b] # NoRow
                    /\ Unrecorded(b)' = {}
                    /\ body'[<<b, 0>>] = [status |-> BatchStatus(b)']
  BY DEF SummaryAgrees
<1> USE DEF BInv, IInv, TypeOK, RegistryTypeOK, files, process, bounds
<1> <<b, 0>> \in Batch \X DirIndex
  BY DEF DirIndex
<1>1. CASE body'[<<b, 0>>] = body[<<b, 0>>]
  BY <1>1, AllRecordedStays DEF SummaryAgrees
<1>2. CASE body'[<<b, 0>>] # body[<<b, 0>>]
  <2>1. ~Quiet(b) /\ ~CreateBody(b)
    BY <1>2 DEF Quiet, CreateBody
  <2>2. FillBody(b)
    BY <1>2, <2>1, OneBatchSteps DEF Proceed, Launch, Reject, Admit, StartAttempt,
       AllStarted, Publish, FinishAttempt, RecordJob, CreatePending, FillPending, Link,
       Close, Recover, Raise, Crash
  <2>3. batches[b] # NoRow
    BY <2>2 DEF FillBody, Reserved
  <2>4. Dir(b) = <<b, 0>>
    BY <1>2, <2>2 DEF FillBody
  <2>5. Unrecorded(b) = {}
    BY <2>3, <2>4, WhereDirIs
  <2>6. body'[<<b, 0>>] = [status |-> BatchStatus(b)]
    BY <2>2, <2>4, <2>5 DEF FillBody
  <2> QED
    BY <2>3, <2>5, <2>6, AllRecordedStays
<1> QED
  BY <1>1, <1>2

\* The invariant holds at first, and through every step.
LEMMA BlockInvariance == Spec => []BInv
<1>1. Init => BInv
  <2> SUFFICES ASSUME Init PROVE BInv
    OBVIOUS
  <2>1. IInv
    BY InitInv
  <2>2. OneOpen /\ FilledFirst
    BY DEF Init, RegistryInit, OneOpen, Unfinished, FilledFirst
  <2>3. StartedFirst /\ OutcomeIsResult
    BY DEF Init, RegistryInit, StartedFirst, OutcomeIsResult, Published
  <2>4. SummaryAgrees
    BY DEF Init, SummaryAgrees, DirIndex
  <2> QED
    BY <2>1, <2>2, <2>3, <2>4 DEF BInv
<1>2. BInv /\ [Next]_vars => BInv'
  BY NextInv, OneOpenStep, StartedFirstStep, OutcomeIsResultStep, FilledFirstStep,
     SummaryAgreesStep DEF BInv
<1> QED
  BY <1>1, <1>2, PTL DEF Spec

\* start() refuses no attempt of an admitted batch: attempts of other batches
\* of the strategy are finished, and no other job of its own is of it.
LEMMA StartIsAllowed ==
  ASSUME BInv, NEW b \in Batch, pc[b] = "start", NotStarted(b) # {}
  PROVE  MayStart(b, Min(NotStarted(b)))
<1> USE DEF BInv, IInv
<1> DEFINE i == Min(NotStarted(b))
<1>1. batches[b] # NoRow /\ batchOutcomes[b] = NoRow
  BY DEF Reserved, OneOpen
<1>2. i \in NotStarted(b)
  <2>1. NotStarted(b) \subseteq Nat
    BY <1>1, WhereDirIs, PlanAssumption DEF NotStarted
  <2> QED
    BY <2>1, LeastJob
<1> HIDE DEF i
<1>3. ASSUME NEW a \in Attempt, attempts[a] # NoRow, outcomes[a] = NoRow
      PROVE  ~SameStrategy(a, <<b, i>>)
  <2>1. PICK c \in Batch, j \in JobIndex : a = <<c, j>>
    BY DEF Attempt
  <2>2. batches[c] # NoRow /\ j \in batches[c].plan.executable
    BY <1>3, <2>1 DEF StartedFirst, Executable
  <2>3. CASE c = b
    <3>1. i # j
      BY <1>2, <1>3, <2>1, <2>3 DEF NotStarted
    <3>2. batches[b].plan.strategies[j] # batches[b].plan.strategies[i]
      BY <1>1, <1>2, <2>2, <2>3, <3>1, WhereDirIs, PlanAssumption DEF NotStarted
    <3> QED
      BY <2>1, <2>3, <3>2 DEF SameStrategy
  <2>4. CASE c # b
    <3>1. batchOutcomes[c] # NoRow
      BY <1>1, <2>2, <2>4 DEF OneOpen, Unfinished
    <3>2. Unrecorded(c) = {}
      BY <3>1 DEF OneOpen
    <3>3. j \in Jobs(batches[c].plan)
      BY <2>2, WhereDirIs, PlanAssumption
    <3>4. jobOutcomes[a] # NoRow
      BY <2>1, <3>2, <3>3 DEF Unrecorded, Recorded
    <3> QED
      BY <1>3, <3>4 DEF RecordsAgree
  <2> QED
    BY <2>3, <2>4
<1> QED
  BY <1>3 DEF MayStart, i

\* An artifact that can be read, and is no earlier than the attempt's start, is
\* one complete_job() accepts.
LEMMA ResultIsAcceptable ==
  ASSUME BInv, NEW b \in Batch, NEW i \in Unrecorded(b), batches[b] # NoRow,
         Ready(<<b, i>>), ResultOf(<<b, i>>) # Torn,
         attempts[<<b, i>>] # NoRow => ResultOf(<<b, i>>).finished >= attempts[<<b, i>>]
  PROVE  /\ Acceptable(<<b, i>>)
         /\ attempts[<<b, i>>] # NoRow =>
              MayFinish(<<b, i>>, ResultOf(<<b, i>>).status, ResultOf(<<b, i>>).finished)
<1> USE DEF BInv, IInv
<1> PICK a : a = <<b, i>>
  OBVIOUS
<1>1. a \in Attempt
  BY WhereDirIs DEF Unrecorded, Attempt
<1>2. ResultOf(a) \in Result \union AbortResult
  BY <1>1, ResultType
<1>3. ResultOf(a).status # "aborted" => ~manifest[a] /\ Published(a) /\ ResultOf(a) = artifact[a]
  <2>1. manifest[a] => ResultOf(a) \in AbortResult
    BY <1>1, <1>2 DEF AbortedApart, ResultOf
  <2>2. ResultOf(a) \in AbortResult => ResultOf(a).status = "aborted"
    BY DEF AbortResult
  <2> QED
    BY <2>1, <2>2 DEF Ready, ResultOf
<1>4. Acceptable(a)
  BY <1>1, <1>3 DEF Acceptable, StartedFirst
<1>5. ASSUME attempts[a] # NoRow
      PROVE  MayFinish(a, ResultOf(a).status, ResultOf(a).finished)
  <2>1. Executable(a)
    BY <1>1, <1>5 DEF StartedFirst
  <2>2. ResultOf(a).status # "duplicate"
    BY <1>1, <1>3, <2>1 DEF StartedFirst
  <2>3. ResultOf(a).status \in Outcome
    BY <1>2, <2>2 DEF Result, AbortResult, Outcome
  <2>4. outcomes[a] \in {NoRow, [outcome |-> ResultOf(a).status,
                                 finished |-> ResultOf(a).finished]}
    BY <1>1 DEF OutcomeIsResult
  <2> QED
    BY <1>5, <2>3, <2>4 DEF MayFinish
<1> QED
  BY <1>4, <1>5

\* run() and recover() raise over a torn file or a clock set back, and for no
\* other reason: for any number of batches, plans and deaths no process is ever
\* refused by the registry for what another process did, or left behind.
THEOREM BlockedOnlyByDamageHolds == Spec => []BlockedOnlyByDamage
<1>1. BInv => BlockedOnlyByDamage
  <2> SUFFICES ASSUME BInv, NEW b \in Batch, Blocked(b) PROVE Damaged(b)
    BY DEF BlockedOnlyByDamage
  <2> USE DEF BInv, IInv
  <2>1. pc[b] = "work" => batches[b] # NoRow
    BY DEF Reserved
  <2>2. CASE pc[b] = "start" /\ NotStarted(b) # {} /\ ~MayStart(b, Min(NotStarted(b)))
    BY <2>2, StartIsAllowed
  <2>3. CASE /\ pc[b] = "work" /\ Unrecorded(b) # {} /\ Ready(Dir(b))
             /\ ~(/\ Acceptable(Dir(b))
                  /\ attempts[Dir(b)] # NoRow =>
                       MayFinish(Dir(b), ResultOf(Dir(b)).status, ResultOf(Dir(b)).finished))
    <3>1. PICK i \in Unrecorded(b) : Dir(b) = <<b, i>> /\ <<b, i>> \in Attempt
      BY <2>1, <2>3, WhereDirIs
    <3>2. CASE ResultOf(<<b, i>>) = Torn
      <4>1. body[<<b, i>>] = Torn
        <5>1. ASSUME artifact[<<b, i>>] = Torn PROVE FALSE
          <6>1. Torn \in Result
            BY <3>1, <5>1, FileAssumption DEF TypeOK
          <6> QED
            BY <6>1, FileAssumption DEF Result, Status
        <5> QED
          BY <3>2, <5>1 DEF ResultOf
      <4>2. i \in DirIndex
        BY <3>1 DEF Attempt, DirIndex
      <4> QED
        BY <2>3, <4>1, <4>2 DEF Damaged
    <3>3. CASE ResultOf(<<b, i>>) # Torn
      <4>1. /\ attempts[<<b, i>>] # NoRow
            /\ ~(ResultOf(<<b, i>>).finished >= attempts[<<b, i>>])
        BY <2>1, <2>3, <3>1, <3>3, ResultIsAcceptable
      <4>2. ResultOf(<<b, i>>).finished < attempts[<<b, i>>]
        <5>1. ResultOf(<<b, i>>) \in Result \union AbortResult
          BY <2>3, <3>1, <3>3, ResultType
        <5>2. ResultOf(<<b, i>>).finished \in Int /\ attempts[<<b, i>>] \in Int
          BY <3>1, <4>1, <5>1, TimesAssumption DEF Result, AbortResult, TypeOK, RegistryTypeOK
        <5> QED
          BY <4>1, <5>2
      <4> QED
        BY <2>1, <2>3, <3>1, <3>3, <4>1, <4>2 DEF Damaged
    <3> QED
      BY <3>2, <3>3
  <2>4. CASE /\ Writing(b)
             /\ \/ body[Dir(b)] # Absent /\ ~BodyAccepted(b)
                \/ ~manifest[Dir(b)] /\ pending[Dir(b)] = Torn
    <3>1. pc[b] = "work" /\ batches[b] # NoRow
      BY <2>1, <2>4 DEF Writing
    <3>2. PICK d \in DirIndex : Dir(b) = <<b, d>>
      BY <3>1, WhereDirIs DEF Dir
    <3>3. Torn \in {body[<<b, d>>], pending[<<b, d>>]}
      <4>1. CASE pending[Dir(b)] = Torn
        BY <3>2, <4>1
      <4>2. CASE body[Dir(b)] # Absent /\ ~BodyAccepted(b)
        <5>1. Unrecorded(b) = {} /\ Dir(b) = <<b, 0>>
          BY <3>1, <4>2, WhereDirIs DEF BodyAccepted
        <5>2. body[<<b, 0>>] # [status |-> BatchStatus(b)]
          BY <4>2, <5>1 DEF BodyAccepted
        <5> QED
          BY <3>2, <4>2, <5>1, <5>2 DEF SummaryAgrees
      <4> QED
        BY <2>4, <4>1, <4>2
    <3> QED
      BY <3>1, <3>2, <3>3 DEF Damaged
  <2> QED
    BY <2>2, <2>3, <2>4 DEF Blocked
<1> QED
  BY <1>1, BlockInvariance, PTL

-----------------------------------------------------------------------------
(* HistoricalBatch implements ResearchPhase *)

Studies == {plan.study : plan \in Plan}

\* The rows of a study have a latest one: the sequence of admissions and the
\* table grow together.
PriorExists ==
  \A s \in Studies : OfStudy(s) # {} => \E c \in Batch : IsPrior(c, s)

AdmittedHaveRows == \A n \in DOMAIN admitted : batches[admitted[n]] # NoRow

ClosedHaveRows == \A b \in Batch : batchOutcomes[b] # NoRow => batches[b] # NoRow

PhaseInv == IInv /\ PriorExists /\ AdmittedHaveRows /\ ClosedHaveRows

\* What the tables tell of a study whose latest batch is b.
Row(b) == [batch |-> b, plan |-> batches[b].plan,
           outcome |-> IF batchOutcomes[b] = NoRow THEN "open" ELSE batchOutcomes[b]]

\* A study has one latest batch.
LatestIsRow ==
  \A s \in Studies, b \in Batch : IsPrior(b, s) => Latest(s) = Row(b)

LEMMA OneLatest == TypeOK => LatestIsRow
<1> SUFFICES ASSUME NEW s \in Studies, NEW b \in Batch, TypeOK, IsPrior(b, s)
             PROVE  Latest(s) = Row(b)
  BY DEF LatestIsRow
<1>1. ASSUME NEW c \in Batch, IsPrior(c, s) PROVE c = b
  <2>1. PICK n \in DOMAIN admitted :
          /\ admitted[n] = b
          /\ \A m \in DOMAIN admitted : m > n => admitted[m] \notin OfStudy(s)
    BY DEF IsPrior
  <2>2. PICK m \in DOMAIN admitted :
          /\ admitted[m] = c
          /\ \A k \in DOMAIN admitted : k > m => admitted[k] \notin OfStudy(s)
    BY <1>1 DEF IsPrior
  <2>3. b \in OfStudy(s) /\ c \in OfStudy(s)
    BY <1>1 DEF IsPrior
  <2>4. m \in Int /\ n \in Int
    BY DEF TypeOK, RegistryTypeOK
  <2>5. ~(m > n) /\ ~(n > m)
    BY <2>1, <2>2, <2>3
  <2> QED
    BY <2>1, <2>2, <2>4, <2>5
<1>2. (CHOOSE c \in Batch : IsPrior(c, s)) = b
  BY <1>1
<1>3. OfStudy(s) # {}
  BY DEF IsPrior
<1> QED
  BY <1>2, <1>3 DEF Latest, Row

LEMMA OneLatestNext == TypeOK' => LatestIsRow'
BY OneLatest, PTL

\* The rows of a batch that no step writes stay what they are.
LEMMA PhaseStepShape ==
  ASSUME IInv, [Next]_vars
  PROVE  \/ UNCHANGED <<batches, admitted, batchOutcomes>>
         \/ \E b \in Batch : Admit(b)
         \/ \E b \in Batch : Close(b)
<1>1. ASSUME NEW b \in Batch,
             \/ \E plan \in Plan, rev \in Revision, retry \in Batch \union {NoRow} :
                  Launch(b, plan, rev, retry)
             \/ \E abort \in BOOLEAN : Recover(b, abort)
             \/ Crash(b)
      PROVE  UNCHANGED <<batches, admitted, batchOutcomes>>
  BY <1>1 DEF Launch, Recover, Crash, registryVars
<1>2. ASSUME NEW b \in Batch, Proceed(b), ~Admit(b), ~Close(b)
      PROVE  UNCHANGED <<batches, admitted, batchOutcomes>>
  BY <1>2 DEF Proceed, registryVars, files, Reject, RejectBatch, StartAttempt, Start, AllStarted,
     Publish, FinishAttempt, Finish, RecordJob, FinishJob, CreateBody, FillBody, CreatePending,
     FillPending, Link, Raise
<1>3. CASE MoveClock \/ UNCHANGED vars
  BY <1>3 DEF MoveClock, vars, registryVars
<1> QED
  BY <1>1, <1>2, <1>3 DEF Next

\* What admission does to the latest batches: its own study's changes.
LEMMA AdmitShape ==
  ASSUME PhaseInv, NEW b \in Batch, Admit(b), NEW plan, plan = admission[b].plan
  PROVE  /\ plan \in Plan
         /\ batches[b] = NoRow /\ batchOutcomes[b] = NoRow
         /\ batches'[b] # NoRow /\ batches'[b].plan = plan
         /\ \A c \in Batch \ {b} : batches'[c] = batches[c]
         /\ UNCHANGED batchOutcomes
         /\ OfStudy(plan.study)' = OfStudy(plan.study) \union {b}
         /\ \A s \in Studies \ {plan.study} : OfStudy(s)' = OfStudy(s)
         /\ admitted' = Append(admitted, b)
<1> DEFINE row == [plan |-> plan, revision |-> admission[b].revision,
                   retry_of |-> admission[b].retry_of]
<1> USE DEF PhaseInv, IInv, TypeOK, RegistryTypeOK
<1>1. admission[b] \in BatchRow
  BY DEF Admit, Reserved
<1>2. plan \in Plan /\ row \in BatchRow
  BY <1>1 DEF BatchRow
<1>3. row # NoRow
  BY <1>2, NoRowAssumption
<1>4. /\ batches' = [batches EXCEPT ![b] = row]
      /\ requests[b] = NoRow
      /\ admitted' = Append(admitted, b)
      /\ UNCHANGED batchOutcomes
  BY DEF Admit, AdmitBatch
<1>5. batches[b] = NoRow /\ batchOutcomes[b] = NoRow
  <2>1. batches[b] = NoRow
    BY <1>4 DEF Reserved
  <2> QED
    BY <2>1 DEF ClosedHaveRows
<1>6. batches'[b] = row /\ row.plan = plan
  BY <1>4
<1>7. \A c \in Batch \ {b} : batches'[c] = batches[c]
  BY <1>4
<1> HIDE DEF row, PhaseInv, IInv, TypeOK, RegistryTypeOK
<1>8. OfStudy(plan.study)' = OfStudy(plan.study) \union {b}
  BY <1>3, <1>6, <1>7 DEF OfStudy
<1>9. \A s \in Studies \ {plan.study} : OfStudy(s)' = OfStudy(s)
  BY <1>3, <1>5, <1>6, <1>7 DEF OfStudy
<1> QED
  BY <1>2, <1>3, <1>4, <1>5, <1>6, <1>7, <1>8, <1>9

\* Who is the latest batch after an admission.
LEMMA AdmitPriors ==
  ASSUME PhaseInv, NEW b \in Batch, Admit(b), NEW plan, plan = admission[b].plan
  PROVE  /\ IsPrior(b, plan.study)'
         /\ \A s \in Studies \ {plan.study}, c \in Batch :
              IsPrior(c, s) => c # b /\ IsPrior(c, s)'
<1> DEFINE n == Len(admitted) + 1
<1> USE DEF PhaseInv, IInv, TypeOK, RegistryTypeOK
<1>1. /\ plan \in Plan
      /\ batches[b] = NoRow
      /\ OfStudy(plan.study)' = OfStudy(plan.study) \union {b}
      /\ \A s \in Studies \ {plan.study} : OfStudy(s)' = OfStudy(s)
      /\ admitted' = Append(admitted, b)
  BY AdmitShape
<1>2. /\ DOMAIN admitted = 1 .. Len(admitted)
      /\ DOMAIN admitted' = 1 .. n
      /\ admitted'[n] = b
      /\ \A m \in 1 .. Len(admitted) : admitted'[m] = admitted[m]
      /\ Len(admitted) \in Nat
  <2>1. admitted \in Seq(Batch)
    OBVIOUS
  <2> HIDE DEF PhaseInv, IInv, TypeOK, RegistryTypeOK
  <2> QED
    BY <1>1, <2>1
<1> HIDE DEF PhaseInv, IInv, TypeOK, RegistryTypeOK
<1>3. IsPrior(b, plan.study)'
  BY <1>1, <1>2 DEF IsPrior
<1>4. ASSUME NEW s \in Studies \ {plan.study}, NEW c \in Batch, IsPrior(c, s)
      PROVE  c # b /\ IsPrior(c, s)'
  <2>1. PICK m \in 1 .. Len(admitted) :
          /\ admitted[m] = c
          /\ \A k \in 1 .. Len(admitted) : k > m => admitted[k] \notin OfStudy(s)
    BY <1>2, <1>4 DEF IsPrior
  <2>2. c # b /\ c \in OfStudy(s) /\ b \notin OfStudy(s)
    BY <1>1, <1>4 DEF IsPrior, OfStudy
  <2>3. \A k \in 1 .. n : k > m => admitted'[k] \notin OfStudy(s)'
    <3>1. OfStudy(s)' = OfStudy(s)
      BY <1>1
    <3>2. ASSUME NEW k \in 1 .. n, k > m, k # n PROVE admitted'[k] \notin OfStudy(s)'
      <4>1. k \in 1 .. Len(admitted)
        BY <1>2, <3>2
      <4> QED
        BY <1>2, <2>1, <3>1, <3>2, <4>1
    <3> QED
      BY <1>2, <2>2, <3>1, <3>2
  <2>4. m \in 1 .. n /\ admitted'[m] = c /\ c \in OfStudy(s)'
    BY <1>1, <1>2, <2>1, <2>2
  <2> HIDE DEF n
  <2> QED
    BY <1>2, <2>2, <2>3, <2>4 DEF IsPrior
<1> QED
  BY <1>3, <1>4

-----------------------------------------------------------------------------
(* The invariant *)

LEMMA PhaseInvInit == Init => PhaseInv
<1> SUFFICES ASSUME Init PROVE PhaseInv
  OBVIOUS
<1>1. IInv
  BY InitInv
<1>2. \A s \in Studies : OfStudy(s) = {}
  BY DEF Init, RegistryInit, OfStudy
<1>3. AdmittedHaveRows /\ ClosedHaveRows
  BY DEF Init, RegistryInit, AdmittedHaveRows, ClosedHaveRows
<1> QED
  BY <1>1, <1>2, <1>3 DEF PhaseInv, PriorExists

LEMMA AdmitPhaseInv ==
  ASSUME PhaseInv, IInv', NEW b \in Batch, Admit(b)
  PROVE  PhaseInv'
<1> DEFINE plan == admission[b].plan
<1>1. /\ plan \in Plan
      /\ batches'[b] # NoRow
      /\ \A c \in Batch \ {b} : batches'[c] = batches[c]
      /\ batches[b] = NoRow
      /\ UNCHANGED batchOutcomes
      /\ \A s \in Studies \ {plan.study} : OfStudy(s)' = OfStudy(s)
      /\ admitted' = Append(admitted, b)
  BY AdmitShape
<1>2. PriorExists'
  <2> SUFFICES ASSUME NEW s \in Studies, OfStudy(s)' # {}
               PROVE  \E c \in Batch : IsPrior(c, s)'
    BY DEF PriorExists, Studies
  <2>1. CASE s = plan.study
    BY <2>1, AdmitPriors
  <2>2. CASE s # plan.study
    <3>1. PICK c \in Batch : IsPrior(c, s)
      BY <1>1, <2>2 DEF PhaseInv, PriorExists
    <3> QED
      BY <2>2, <3>1, AdmitPriors
  <2> QED
    BY <2>1, <2>2
<1>3. AdmittedHaveRows'
  <2>1. admitted \in Seq(Batch)
    BY DEF PhaseInv, IInv, TypeOK, RegistryTypeOK
  <2>2. ASSUME NEW n \in DOMAIN admitted' PROVE batches'[admitted'[n]] # NoRow
    <3>1. CASE n = Len(admitted) + 1
      BY <1>1, <2>1, <3>1
    <3>2. CASE n # Len(admitted) + 1
      <4>1. n \in DOMAIN admitted /\ admitted'[n] = admitted[n] /\ admitted[n] \in Batch
        BY <1>1, <2>1, <3>2
      <4> QED
        BY <1>1, <4>1 DEF PhaseInv, AdmittedHaveRows
    <3> QED
      BY <3>1, <3>2
  <2> QED
    BY <2>2 DEF AdmittedHaveRows
<1>4. ClosedHaveRows'
  BY <1>1 DEF PhaseInv, ClosedHaveRows
<1> QED
  BY <1>2, <1>3, <1>4 DEF PhaseInv

LEMMA ClosePhaseInv ==
  ASSUME PhaseInv, IInv', NEW b \in Batch, Close(b)
  PROVE  PhaseInv'
<1>1. /\ UNCHANGED <<batches, admitted>>
      /\ batches[b] # NoRow
      /\ batchOutcomes' = [batchOutcomes EXCEPT ![b] = BatchStatus(b)]
  BY DEF Close, FinishBatch
<1>2. PriorExists' /\ AdmittedHaveRows'
  BY <1>1 DEF PhaseInv, PriorExists, AdmittedHaveRows, IsPrior, OfStudy, Studies
<1>3. ClosedHaveRows'
  <2>1. batchOutcomes \in [Batch -> Outcome \union {NoRow}]
    BY DEF PhaseInv, IInv, TypeOK, RegistryTypeOK
  <2> QED
    BY <1>1, <2>1 DEF PhaseInv, ClosedHaveRows
<1> QED
  BY <1>2, <1>3 DEF PhaseInv

LEMMA PhaseInvNext == PhaseInv /\ [Next]_vars => PhaseInv'
<1> SUFFICES ASSUME PhaseInv, [Next]_vars PROVE PhaseInv'
  OBVIOUS
<1>1. IInv'
  BY NextInv DEF PhaseInv
<1>2. CASE UNCHANGED <<batches, admitted, batchOutcomes>>
  BY <1>1, <1>2 DEF PhaseInv, PriorExists, AdmittedHaveRows, ClosedHaveRows,
     IsPrior, OfStudy, Studies
<1>3. ASSUME NEW b \in Batch, Admit(b) PROVE PhaseInv'
  BY <1>1, <1>3, AdmitPhaseInv
<1>4. ASSUME NEW b \in Batch, Close(b) PROVE PhaseInv'
  BY <1>1, <1>4, ClosePhaseInv
<1>5. IInv
  BY DEF PhaseInv
<1> QED
  BY <1>2, <1>3, <1>4, <1>5, PhaseStepShape

-----------------------------------------------------------------------------
(* The refinement *)

\* A study either has no batch or its latest one, and its row, is known.
LEMMA LatestCases ==
  ASSUME PhaseInv, NEW s \in Studies
  PROVE  \/ OfStudy(s) = {} /\ Latest(s) = NoRow
         \/ \E c \in Batch : IsPrior(c, s) /\ Latest(s) = Row(c) /\ Row(c) # NoRow
<1>1. CASE OfStudy(s) = {}
  BY <1>1 DEF Latest
<1>2. CASE OfStudy(s) # {}
  <2>1. PICK c \in Batch : IsPrior(c, s)
    BY <1>2 DEF PhaseInv, PriorExists
  <2>2. Latest(s) = Row(c)
    BY <2>1, OneLatest DEF PhaseInv, IInv, LatestIsRow
  <2>3. /\ batches[c] \in BatchRow
        /\ batchOutcomes[c] \in Outcome \union {NoRow}
    BY <2>1 DEF PhaseInv, IInv, TypeOK, RegistryTypeOK, IsPrior, OfStudy
  <2>4. Row(c) \in [batch : Batch, plan : Plan, outcome : {"open"} \union Outcome]
    BY <2>3 DEF Row, BatchRow
  <2>5. Row(c) # NoRow
    BY <2>4, PhaseAssumption
  <2> QED
    BY <2>1, <2>2, <2>5
<1> QED
  BY <1>1, <1>2

\* A study whose latest batch keeps its row and its outcome stays as it is.
LEMMA SameLatest ==
  ASSUME PhaseInv, PhaseInv', NEW s \in Studies, OfStudy(s)' = OfStudy(s),
         \A c \in Batch : IsPrior(c, s) => IsPrior(c, s)' /\ Row(c)' = Row(c)
  PROVE  Latest(s)' = Latest(s)
<1>1. CASE OfStudy(s) = {}
  BY <1>1 DEF Latest
<1>2. CASE OfStudy(s) # {}
  <2>1. PICK c \in Batch : IsPrior(c, s)
    BY <1>2 DEF PhaseInv, PriorExists
  <2>2. LatestIsRow /\ LatestIsRow'
    BY OneLatest, OneLatestNext DEF PhaseInv, IInv
  <2>3. Latest(s) = Row(c)
    BY <2>1, <2>2 DEF LatestIsRow
  <2>4. Latest(s)' = Row(c)'
    BY <2>1, <2>2 DEF LatestIsRow, Studies
  <2> QED
    BY <2>1, <2>3, <2>4
<1> QED
  BY <1>1, <1>2

\* Admission reserves its study's phase.
LEMMA AdmitReserves ==
  ASSUME PhaseInv, PhaseInv', NEW b \in Batch, Admit(b),
         NEW plan, plan = admission[b].plan
  PROVE  plan \in Plan /\ Phase!Reserve(b, plan)
<1> DEFINE study == plan.study
           open == [batch |-> b, plan |-> plan, outcome |-> "open"]
<1>1. /\ plan \in Plan
      /\ batches[b] = NoRow /\ batchOutcomes[b] = NoRow
      /\ batches'[b].plan = plan
      /\ \A c \in Batch \ {b} : batches'[c] = batches[c]
      /\ UNCHANGED batchOutcomes
      /\ \A s \in Studies \ {study} : OfStudy(s)' = OfStudy(s)
  BY AdmitShape
<1>2. /\ IsPrior(b, study)'
      /\ \A s \in Studies \ {study}, c \in Batch :
           IsPrior(c, s) => c # b /\ IsPrior(c, s)'
  BY AdmitPriors
<1>3. study \in Studies
  BY <1>1 DEF Studies
<1>4. Reasons(plan, admission[b].revision, admission[b].retry_of) = {}
  BY DEF Admit, AdmitBatch
<1>5. Unfinished = {}
  BY <1>4 DEF Reasons, Rejection
<1>6. \A c \in Batch : IsPrior(c, study) =>
        batchOutcomes[c] \in {"aborted", "failed"} /\ batches[c].plan = plan
  BY <1>4 DEF Reasons, Rejection
<1>7. ASSUME NEW s \in Studies
      PROVE  /\ ~(Latest(s) # NoRow /\ Latest(s).outcome = "open")
             /\ Latest(s) # NoRow => Latest(s).batch # b
             /\ s = study /\ Latest(s) # NoRow =>
                  Latest(s).plan = plan /\ Latest(s).outcome \in {"failed", "aborted"}
  <2>1. CASE Latest(s) = NoRow
    BY <2>1
  <2>2. CASE Latest(s) # NoRow
    <3>1. PICK c \in Batch : IsPrior(c, s) /\ Latest(s) = Row(c)
      BY <2>2, LatestCases
    <3>2. batches[c] # NoRow
      BY <3>1 DEF IsPrior, OfStudy
    <3>3. batchOutcomes[c] \in Outcome
      BY <1>5, <3>2 DEF Unfinished, PhaseInv, IInv, TypeOK, RegistryTypeOK
    <3>4. /\ Row(c).outcome = batchOutcomes[c]
          /\ Row(c).batch = c /\ Row(c).plan = batches[c].plan
      BY <3>3, NoRowAssumption DEF Row, Outcome, Status
    <3>5. c # b
      BY <1>1, <3>2
    <3> QED
      BY <1>6, <3>1, <3>3, <3>4, <3>5 DEF Outcome
  <2> QED
    BY <2>1, <2>2
<1>8. Latest(study)' = open
  <2>1. LatestIsRow'
    BY OneLatestNext DEF PhaseInv, IInv
  <2>2. Latest(study)' = Row(b)'
    BY <1>2, <1>3, <2>1 DEF LatestIsRow, Studies
  <2> QED
    BY <1>1, <2>2 DEF Row
<1>9. ASSUME NEW s \in Studies \ {study} PROVE Latest(s)' = Latest(s)
  <2>1. \A c \in Batch : IsPrior(c, s) => IsPrior(c, s)' /\ Row(c)' = Row(c)
    BY <1>1, <1>2 DEF Row
  <2> QED
    BY <1>1, <2>1, SameLatest
<1>10. [s \in Studies |-> Latest(s)]' =
         [[s \in Studies |-> Latest(s)] EXCEPT ![study] = open]
  <2>1. \A s \in Studies : Latest(s)' = IF s = study THEN open ELSE Latest(s)
    BY <1>8, <1>9
  <2> HIDE DEF open, study
  <2> QED
    BY <1>3, <2>1 DEF Studies
<1> QED
  BY <1>1, <1>3, <1>7, <1>10 DEF Phase!Reserve, Phase!Open, Studies

\* Closing settles the phase of the batch's study, or repeats what is known.
LEMMA CloseSettles ==
  ASSUME PhaseInv, PhaseInv', NEW b \in Batch, Close(b)
  PROVE  \/ \E s \in Studies, outcome \in Outcome : Phase!Settle(s, outcome)
         \/ UNCHANGED [s \in Studies |-> Latest(s)]
<1> DEFINE study == batches[b].plan.study
<1>1. PICK outcome \in Outcome :
      /\ UNCHANGED <<batches, admitted>>
      /\ batches[b] # NoRow
      /\ batchOutcomes[b] \in {NoRow, outcome}
      /\ batchOutcomes' = [batchOutcomes EXCEPT ![b] = outcome]
  BY DEF Close, FinishBatch
<1>2. batchOutcomes \in [Batch -> Outcome \union {NoRow}]
  BY DEF PhaseInv, IInv, TypeOK, RegistryTypeOK
<1> HIDE DEF study
<1>3. ASSUME NEW s \in Studies PROVE
        /\ OfStudy(s)' = OfStudy(s)
        /\ \A c \in Batch : IsPrior(c, s)' <=> IsPrior(c, s)
  BY <1>1 DEF OfStudy, IsPrior
<1>4. ASSUME NEW s \in Studies, ~IsPrior(b, s) PROVE Latest(s)' = Latest(s)
  <2>1. \A c \in Batch : IsPrior(c, s) => Row(c)' = Row(c)
    BY <1>1, <1>2, <1>4 DEF Row
  <2> QED
    BY <1>3, <2>1, SameLatest
<1>5. CASE batchOutcomes[b] # NoRow
  <2>1. UNCHANGED batchOutcomes
    BY <1>1, <1>2, <1>5
  <2>2. ASSUME NEW s \in Studies PROVE Latest(s)' = Latest(s)
    BY <1>1, <1>3, <2>1, SameLatest DEF Row
  <2> QED
    BY <2>2 DEF Studies
<1>6. CASE batchOutcomes[b] = NoRow /\ ~IsPrior(b, study)
  <2>1. ASSUME NEW s \in Studies PROVE ~IsPrior(b, s)
    BY <1>6 DEF IsPrior, OfStudy, study
  <2>2. ASSUME NEW s \in Studies PROVE Latest(s)' = Latest(s)
    BY <1>4, <2>1
  <2> QED
    BY <2>2 DEF Studies
<1>7. CASE batchOutcomes[b] = NoRow /\ IsPrior(b, study)
  <2>1. PICK t \in Studies : t = study /\ IsPrior(b, t)
    BY <1>1, <1>7 DEF study, Studies, PhaseInv, IInv, TypeOK, RegistryTypeOK, BatchRow
  <2>2. Latest(t) = Row(b) /\ Latest(t)' = Row(b)'
    <3>1. LatestIsRow /\ LatestIsRow'
      BY OneLatest, OneLatestNext DEF PhaseInv, IInv
    <3>2. IsPrior(b, t)'
      BY <1>3, <2>1
    <3> QED
      BY <2>1, <3>1, <3>2 DEF LatestIsRow, Studies
  <2>3. Row(b).outcome = "open" /\ Row(b)' = [Row(b) EXCEPT !.outcome = outcome]
    BY <1>1, <1>2, <1>7, NoRowAssumption DEF Row, Outcome, Status
  <2>4. Row(b) # NoRow
    BY <2>1, <2>2, LatestCases DEF IsPrior
  <2>5. \A s \in Studies : s # t => Latest(s)' = Latest(s)
    BY <1>4, <2>1 DEF IsPrior, OfStudy, study
  <2>6. Phase!Open(t)
    BY <2>1, <2>2, <2>3, <2>4 DEF Phase!Open, Studies
  <2>7. [s \in Studies |-> Latest(s)]' =
          [[s \in Studies |-> Latest(s)] EXCEPT ![t].outcome = outcome]
    <3>1. \A s \in Studies : Latest(s)' =
            IF s = t THEN [Latest(s) EXCEPT !.outcome = outcome] ELSE Latest(s)
      BY <2>2, <2>3, <2>5
    <3> QED
      BY <2>1, <3>1 DEF Studies
  <2>8. Phase!Settle(t, outcome)
    BY <2>6, <2>7 DEF Phase!Settle, Studies
  <2> QED
    BY <1>1, <2>1, <2>8
<1> QED
  BY <1>5, <1>6, <1>7

\* Every step is a step of the phases or leaves them as they are.
LEMMA PhaseStep ==
  PhaseInv /\ PhaseInv' /\ [Next]_vars =>
    [Phase!Next]_[s \in {plan.study : plan \in Plan} |-> Latest(s)]
<1> SUFFICES ASSUME PhaseInv, PhaseInv', [Next]_vars
             PROVE  [Phase!Next]_[s \in {plan.study : plan \in Plan} |-> Latest(s)]
  OBVIOUS
<1>1. CASE UNCHANGED <<batches, admitted, batchOutcomes>>
  BY <1>1 DEF Latest, OfStudy, IsPrior
<1>2. ASSUME NEW b \in Batch, Admit(b)
      PROVE  [Phase!Next]_[s \in {plan.study : plan \in Plan} |-> Latest(s)]
  BY <1>2, AdmitReserves DEF Phase!Next
<1>3. ASSUME NEW b \in Batch, Close(b)
      PROVE  [Phase!Next]_[s \in {plan.study : plan \in Plan} |-> Latest(s)]
  BY <1>3, CloseSettles DEF Phase!Next, Outcome, Studies
<1>4. IInv
  BY DEF PhaseInv
<1> QED
  BY <1>1, <1>2, <1>3, <1>4, PhaseStepShape

\* The batches, for any number of them, plans and studies and any number of
\* deaths, never run a study's phase twice under different plans, after it
\* completed, or beside another: reserve_batch() lets one batch be open, and
\* recover() and run() close it once.
THEOREM ImplementsPhase == Spec => PhaseSpec
<1>1. Init => Phase!Init
  <2>1. Init => \A s \in Studies : Latest(s) = NoRow
    BY DEF Init, RegistryInit, OfStudy, Latest
  <2> QED
    BY <2>1 DEF Phase!Init, Studies
<1>2. Spec => []PhaseInv
  BY PhaseInvInit, PhaseInvNext, PTL DEF Spec
<1> QED
  BY <1>1, <1>2, PhaseStep, PTL DEF Spec, PhaseSpec, Phase!Spec

=============================================================================
