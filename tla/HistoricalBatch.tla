-------------------------- MODULE HistoricalBatch --------------------------
(***************************************************************************)
(* src/tidelab/historical_batch.py: a batch is run in a new output         *)
(* directory by a process that holds the directory's lock, records its     *)
(* progress in the trial registry and publishes one artifact directory per *)
(* job.  The process may die at any point; recover() then completes what   *)
(* was published and, with --abort, aborts the rest.                       *)
(*                                                                         *)
(* A file is created, and then filled: between the two a process may die   *)
(* and leave a torn file.  A directory's manifest is linked in one step    *)
(* from a filled pending manifest.                                         *)
(***************************************************************************)
EXTENDS TrialRegistry, FiniteSetsExt

CONSTANTS
  Times,        \* readings of the wall clock
  Absent,       \* the content of a file that is not there
  Torn,         \* the content of a file a process died while filling
  MaxMoves,     \* bound: how often the clock reads something else
  MaxCrashes    \* bound: how many processes die

ASSUME TimesAssumption == Times \subseteq Int
ASSUME FileAssumption ==
  /\ Absent # Torn
  /\ {Absent, Torn} \intersect {"whole"} = {}
  /\ \A c \in {Absent, Torn} :
       /\ c \notin [status : Status]
       /\ c \notin [status : Status, finished : Times]
ASSUME BoundAssumption == MaxMoves \in Nat /\ MaxCrashes \in Nat

\* Directory 0 is the output itself, directory i is abort-i.
DirIndex == {0} \union JobIndex

VARIABLES
  admission,    \* admission.json, by batch
  pc,           \* what the process that holds the lock of the output does
  recovering,   \* whether that process is recover() and not run(), by batch
  artifact,     \* job-i: absent until its result is published
  body,         \* summary.json, by batch and 0, or result.json of abort-i
  pending,      \* manifest.json.pending, by directory
  manifest,     \* whether manifest.json is there, by directory
  clock,        \* the reading of the wall clock
  moves,        \* how often the clock changed
  crashes       \* how many processes died

files == <<admission, artifact, body, pending, manifest>>
process == <<pc, recovering>>
bounds == <<clock, moves, crashes>>
vars == <<registryVars, files, process, bounds>>

\* result.json of a job and of an aborted job, and summary.json.
Result == [status : {"completed", "failed", "duplicate"}, finished : Times]
AbortResult == [status : {"aborted"}, finished : Times]
Summary == [status : Outcome]

TypeOK ==
  /\ RegistryTypeOK
  /\ admission \in [Batch -> BatchRow \union {NoRow}]
  /\ pc \in [Batch -> {"idle", "reserve", "start", "work", "body", "pending", "record"}]
  /\ recovering \in [Batch -> BOOLEAN]
  /\ artifact \in [Attempt -> {Absent} \union Result]
  /\ body \in [Batch \X DirIndex ->
               {Absent, Torn} \union AbortResult \union Summary]
  /\ pending \in [Batch \X DirIndex -> {Absent, Torn, "whole"}]
  /\ manifest \in [Batch \X DirIndex -> BOOLEAN]
  /\ clock \in Times
  /\ moves \in 0 .. MaxMoves
  /\ crashes \in 0 .. MaxCrashes

Init ==
  /\ RegistryInit
  /\ admission = [b \in Batch |-> NoRow]
  /\ pc = [b \in Batch |-> "idle"]
  /\ recovering = [b \in Batch |-> FALSE]
  /\ artifact = [a \in Attempt |-> Absent]
  /\ body = [d \in Batch \X DirIndex |-> Absent]
  /\ pending = [d \in Batch \X DirIndex |-> Absent]
  /\ manifest = [d \in Batch \X DirIndex |-> FALSE]
  /\ clock \in Times
  /\ moves = 0
  /\ crashes = 0

Goto(b, label) == pc' = [pc EXCEPT ![b] = label] /\ UNCHANGED recovering

\* The process that held the lock is gone: it returned, raised or died.
Release(b) ==
  /\ pc' = [pc EXCEPT ![b] = "idle"]
  /\ recovering' = [recovering EXCEPT ![b] = FALSE]

-----------------------------------------------------------------------------
(* Where a batch stands *)

Unrecorded(b) == Jobs(batches[b].plan) \ Recorded(b)

\* The job that run() or recover() has come to.
Current(b) == Min(Unrecorded(b))

\* The directory a process that has come this far writes to.
Dir(b) == <<b, IF Unrecorded(b) = {} THEN 0 ELSE Current(b)>>

Executable(a) == a[2] \in batches[a[1]].plan.executable

Published(a) == artifact[a] # Absent

\* Deviation: an abort does not look for the artifact the run published.
ReadyOnceAborted(a) == manifest[a]

\* The job's artifact is complete: its own, or the one an abort made for it.
Ready(a) == manifest[a] \/ Published(a)

\* result.json of the artifact complete_job() reads; an abort's comes first.
ResultOf(a) == IF manifest[a] THEN body[a] ELSE artifact[a]

\* It can be read, and tells of an execution only if the attempt was started.
Acceptable(a) ==
  /\ ResultOf(a) # Torn
  /\ Executable(a) /\ attempts[a] = NoRow => ResultOf(a).status = "aborted"

\* Deviation: a batch is closed with the status of its last job.
BatchStatusOfLast(b) == jobOutcomes[<<b, Max(Jobs(batches[b].plan))>>]

\* The outcome run() and recover() close a batch with.
BatchStatus(b) ==
  LET statuses == {jobOutcomes[<<b, i>>] : i \in Jobs(batches[b].plan)} IN
  IF "aborted" \in statuses THEN "aborted"
  ELSE IF "failed" \in statuses THEN "failed" ELSE "completed"

-----------------------------------------------------------------------------
(* run() *)

\* A new output directory: the inputs are frozen and the inventory written.  A
\* plan that fails a check before that ends there, unknown to the registry.
Launch(b, plan, rev, retry) ==
  /\ admission[b] = NoRow
  /\ admission' = [admission EXCEPT ![b] =
                     [plan |-> plan, revision |-> rev, retry_of |-> retry]]
  /\ Goto(b, "reserve")
  /\ UNCHANGED <<registryVars, artifact, body, pending, manifest, bounds>>

\* The request is rejected: rejection.json is written and the run is over.
Reject(b) ==
  /\ pc[b] = "reserve"
  /\ RejectBatch(b, admission[b].plan, admission[b].revision, admission[b].retry_of)
  /\ Release(b)
  /\ UNCHANGED <<files, bounds>>

Admit(b) ==
  /\ pc[b] = "reserve"
  /\ AdmitBatch(b, admission[b].plan, admission[b].revision, admission[b].retry_of)
  /\ Goto(b, "start")
  /\ UNCHANGED <<files, bounds>>

\* The executable jobs whose attempt is not started, in their order.
NotStarted(b) == {i \in batches[b].plan.executable : attempts[<<b, i>>] = NoRow}

StartAttempt(b) ==
  /\ pc[b] = "start"
  /\ NotStarted(b) # {}
  /\ Start(b, Min(NotStarted(b)), clock)
  /\ UNCHANGED <<files, process, bounds>>

AllStarted(b) ==
  /\ pc[b] = "start"
  /\ NotStarted(b) = {}
  /\ Goto(b, "work")
  /\ UNCHANGED <<registryVars, files, bounds>>

\* The current job is evaluated and its artifact published.  One that is not
\* executable keeps its status, an executable one completes or fails.
Publish(b) ==
  LET a == Dir(b) IN
  /\ pc[b] = "work"
  /\ ~recovering[b]
  /\ Unrecorded(b) # {}
  /\ ~Ready(a)
  /\ \E s \in IF Executable(a) THEN {"completed", "failed"} ELSE {"duplicate"} :
       artifact' = [artifact EXCEPT ![a] = [status |-> s, finished |-> clock]]
  /\ UNCHANGED <<registryVars, admission, body, pending, manifest, process, bounds>>

-----------------------------------------------------------------------------
(* complete_job() *)

\* Deviation: the attempt of an aborted job is not finished.
FinishAttemptUnlessAborted(b) ==
  LET a == Dir(b) IN
  /\ pc[b] = "work"
  /\ Unrecorded(b) # {}
  /\ Ready(a) /\ Acceptable(a)
  /\ IF attempts[a] = NoRow \/ manifest[a] THEN UNCHANGED registryVars
       ELSE Finish(a, ResultOf(a).status, ResultOf(a).finished)
  /\ Goto(b, "record")
  /\ UNCHANGED <<files, bounds>>

\* First transaction: a started attempt of the current job is finished.
FinishAttempt(b) ==
  LET a == Dir(b) IN
  /\ pc[b] = "work"
  /\ Unrecorded(b) # {}
  /\ Ready(a) /\ Acceptable(a)
  /\ IF attempts[a] = NoRow THEN UNCHANGED registryVars
       ELSE Finish(a, ResultOf(a).status, ResultOf(a).finished)
  /\ Goto(b, "record")
  /\ UNCHANGED <<files, bounds>>

\* Second transaction: the job is recorded and the process goes on.
RecordJob(b) ==
  /\ pc[b] = "record"
  /\ FinishJob(b, Current(b), ResultOf(Dir(b)).status)
  /\ Goto(b, "work")
  /\ UNCHANGED <<files, bounds>>

-----------------------------------------------------------------------------
(* The files of an aborted job, and close_batch() *)

\* recover() aborts a job without an artifact; run() and recover() close.
Writing(b) ==
  /\ pc[b] = "work"
  /\ Unrecorded(b) # {} => recovering[b] /\ ~Ready(Dir(b))

\* result.json or summary.json is created, and filled.
CreateBody(b) ==
  /\ Writing(b)
  /\ body[Dir(b)] = Absent
  /\ body' = [body EXCEPT ![Dir(b)] = Torn]
  /\ Goto(b, "body")
  /\ UNCHANGED <<registryVars, admission, artifact, pending, manifest, bounds>>

FillBody(b) ==
  /\ pc[b] = "body"
  /\ body' = [body EXCEPT ![Dir(b)] =
                IF Unrecorded(b) = {} THEN [status |-> BatchStatus(b)]
                ELSE [status |-> "aborted", finished |-> clock]]
  /\ Goto(b, "work")
  /\ UNCHANGED <<registryVars, admission, artifact, pending, manifest, bounds>>

\* A body is kept as it is found; a summary is read and compared.
BodyAccepted(b) ==
  IF Unrecorded(b) = {} THEN body[Dir(b)] = [status |-> BatchStatus(b)]
                        ELSE body[Dir(b)] # Absent

\* finalize(): the pending manifest is created, filled and linked.
CreatePending(b) ==
  /\ Writing(b)
  /\ BodyAccepted(b)
  /\ pending[Dir(b)] = Absent
  /\ pending' = [pending EXCEPT ![Dir(b)] = Torn]
  /\ Goto(b, "pending")
  /\ UNCHANGED <<registryVars, admission, artifact, body, manifest, bounds>>

FillPending(b) ==
  /\ pc[b] = "pending"
  /\ pending' = [pending EXCEPT ![Dir(b)] = "whole"]
  /\ Goto(b, "work")
  /\ UNCHANGED <<registryVars, admission, artifact, body, manifest, bounds>>

Link(b) ==
  /\ Writing(b)
  /\ BodyAccepted(b)
  /\ pending[Dir(b)] = "whole"
  /\ ~manifest[Dir(b)]
  /\ manifest' = [manifest EXCEPT ![Dir(b)] = TRUE]
  /\ UNCHANGED <<registryVars, admission, artifact, body, pending, process, bounds>>

Close(b) ==
  /\ Writing(b)
  /\ Unrecorded(b) = {}
  /\ BodyAccepted(b)
  /\ manifest[Dir(b)]
  /\ FinishBatch(b, BatchStatus(b))
  /\ Release(b)
  /\ UNCHANGED <<files, bounds>>

-----------------------------------------------------------------------------
(* recover(), and the ways a process ends *)

\* recover() of an open batch takes the lock; without abort it goes on only
\* when every job that is not recorded has a published artifact of its own.
Recover(b, abort) ==
  /\ pc[b] = "idle"
  /\ batches[b] # NoRow
  /\ batchOutcomes[b] = NoRow
  /\ abort \/ \A i \in Unrecorded(b) : Published(<<b, i>>)
  /\ pc' = [pc EXCEPT ![b] = "work"]
  /\ recovering' = [recovering EXCEPT ![b] = TRUE]
  /\ UNCHANGED <<registryVars, files, bounds>>

\* What the process has come to cannot be read, or the registry refuses it.
Blocked(b) ==
  LET d == Dir(b) IN
  \/ /\ pc[b] = "start" /\ NotStarted(b) # {}
     /\ ~MayStart(b, Min(NotStarted(b)))
  \/ /\ pc[b] = "work" /\ Unrecorded(b) # {} /\ Ready(d)
     /\ ~(/\ Acceptable(d)
          /\ attempts[d] # NoRow =>
               MayFinish(d, ResultOf(d).status, ResultOf(d).finished))
  \/ /\ Writing(b)
     /\ \/ body[d] # Absent /\ ~BodyAccepted(b)
        \/ ~manifest[d] /\ pending[d] = Torn

Raise(b) ==
  /\ Blocked(b)
  /\ Release(b)
  /\ UNCHANGED <<registryVars, files, bounds>>

Crash(b) ==
  /\ pc[b] # "idle"
  /\ crashes < MaxCrashes
  /\ crashes' = crashes + 1
  /\ Release(b)
  /\ UNCHANGED <<registryVars, files, clock, moves>>

\* Time passes, or the clock is set back.
MoveClock ==
  /\ moves < MaxMoves
  /\ moves' = moves + 1
  /\ clock' \in Times \ {clock}
  /\ UNCHANGED <<registryVars, files, process, crashes>>

Proceed(b) ==
  \/ Reject(b) \/ Admit(b)
  \/ StartAttempt(b) \/ AllStarted(b)
  \/ Publish(b) \/ FinishAttempt(b) \/ RecordJob(b)
  \/ CreateBody(b) \/ FillBody(b)
  \/ CreatePending(b) \/ FillPending(b)
  \/ Link(b) \/ Close(b)
  \/ Raise(b)

Next ==
  \/ \E b \in Batch :
       \/ \E plan \in Plan, rev \in Revision, retry \in Batch \union {NoRow} :
            Launch(b, plan, rev, retry)
       \/ Proceed(b)
       \/ \E abort \in BOOLEAN : Recover(b, abort)
       \/ Crash(b)
  \/ MoveClock

Spec == Init /\ [][Next]_vars

\* A process that lives goes on, and an operator recovers with --abort what a
\* dead one left.
FairSpec ==
  Spec /\ \A b \in Batch : WF_vars(Proceed(b)) /\ WF_vars(Recover(b, TRUE))

=============================================================================
