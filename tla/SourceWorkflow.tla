--------------------------- MODULE SourceWorkflow ---------------------------
(***************************************************************************)
(* src/tidelab/source_workflow.py: one submission of authored sources in   *)
(* a new output directory.  Its inputs are registered in a ledger before   *)
(* any is opened, captured and compiled one by one, the packages run as    *)
(* one synthetic historical batch, compared with LEAN, and everything is   *)
(* consolidated in results.json.  recover() goes on from the files; the    *)
(* directory's lock lets one process in.                                   *)
(*                                                                         *)
(* The three files of an input are one here, and the batch's own recovery  *)
(* (HistoricalBatch) is what it promises.                                  *)
(***************************************************************************)
EXTENDS SyntheticLedger, FiniteSets

CONSTANTS
  Declared,     \* the digests the manifest declares, by input
  Clerk,        \* processes of scripts/source_workflow.py
  Unlocked      \* nobody holds the directory's lock

ASSUME DeclaredAssumption ==
  Declared \in [Input -> Content] /\ Input \subseteq Nat /\ Unlocked \notin Clerk

VARIABLES
  output,       \* the output directory
  lock,         \* who holds its lock
  clerk,        \* what a process is doing
  made,         \* the outcomes in the memory of the process that runs
  done          \* how often an input was compiled and the jobs were executed

workflowVars == <<output, lock, clerk, made, done>>

\* history: whether the captured history is the declared one; captured: the
\* captured bytes by input; artifact, listed: compilation.json with its list of the
\* captured files; manifest: the digests of sources/, and whether its .pending is
\* still there; batch: the historical one.
NewOutput == [history |-> Missing, captured |-> [i \in Input |-> Missing],
              artifact |-> Missing, listed |-> Missing, manifest |-> Missing,
              plan |-> FALSE, batch |-> Missing, parity |-> Missing, timing |-> Missing,
              results |-> Missing]

WorkflowInit ==
  /\ output = Missing
  /\ lock = Unlocked
  /\ clerk = [p \in Clerk |-> "idle"]
  /\ made = [i \in Input |-> Missing]
  /\ done = [compiled |-> [i \in Input |-> 0], executed |-> 0]

Captures == [Input -> Content \union {Missing}]
Batch == {Missing, "open", "completed", "failed", "aborted"}
Manifest == [captured : Captures, artifact : Artifact, pending : BOOLEAN]
Consolidation == [outcomes : [Input -> Outcome], batch : Batch,
                  parity : {"not_run", "matched", "failed"}, timing : {Missing, "written"}]
Directory == [history : BOOLEAN \union {Missing}, captured : Captures,
              artifact : {Missing} \union Artifact, listed : {Missing} \union Captures,
              manifest : {Missing} \union Manifest, plan : BOOLEAN, batch : Batch,
              parity : {Missing, Broken, "started", "matched", "failed"},
              timing : {Missing, Broken, "written"},
              results : {Missing, Broken} \union Consolidation]

ASSUME DirectoryAssumption ==
  /\ Missing \notin Directory \union Manifest \union Consolidation \union BOOLEAN
  /\ Missing \notin {"open", "completed", "failed", "aborted", "started", "matched", "written",
                   "compiled", "unsupported", "needs_source_parser", "conformance_failed",
                   "invalid"}
  /\ Broken \notin Consolidation

Place == {"idle", "lock", "register", "capture", "seal", "unlink", "complete", "assemble",
          "batch", "execute", "parity", "compare", "time", "report", "recover", "close"}

WorkflowTypeOK ==
  /\ output \in {Missing} \union Directory
  /\ lock \in Clerk \union {Unlocked}
  /\ clerk \in [Clerk -> Place]
  /\ made \in [Input -> {Missing, "invalid"} \union {Reads[c] : c \in Content}]
  /\ done \in [compiled : [Input -> Nat], executed : Nat]

Unconcerned == UNCHANGED <<batchFiles, tester>>

Go(p, from, to) == clerk[p] = from /\ clerk' = [clerk EXCEPT ![p] = to]

Unchanged == UNCHANGED <<inputs, file>> /\ Unconcerned
Keep == Unchanged /\ UNCHANGED <<lock, made>>

Free(p) == lock' = IF lock = p THEN Unlocked ELSE lock

\* The process ends; the lock is free where it held it.
Finish(p) == clerk' = [clerk EXCEPT ![p] = "idle"] /\ Free(p)

-----------------------------------------------------------------------------
(* run(): the directory, the lock and the registration *)

Submit(p) ==
  /\ Go(p, "idle", "lock")
  /\ output = Missing
  /\ output' = NewOutput
  /\ Keep /\ UNCHANGED <<ledgerTables, done>>

Lock(p) ==
  /\ Go(p, "lock", "register")
  /\ lock = Unlocked
  /\ lock' = p
  /\ Unchanged /\ UNCHANGED <<ledgerTables, output, made, done>>

Register(p) ==
  /\ Go(p, "register", "capture")
  /\ BeginRun("compilation", "workflow", Declared)
  /\ Keep /\ UNCHANGED <<output, done>>

-----------------------------------------------------------------------------
(* _compile() *)

\* A history that is not the declared one makes every input invalid.
CaptureHistory(p) ==
  /\ clerk[p] = "capture"
  /\ output.history = Missing
  /\ \E same \in BOOLEAN : output' = [output EXCEPT !.history = same]
  /\ Keep /\ UNCHANGED <<ledgerTables, clerk, done>>

StatusOf(i) ==
  IF file[i] = Declared[i] /\ output.history THEN Reads[file[i]] ELSE "invalid"

\* The inputs are taken in their order; the captured bytes are compared with
\* the declared digest.
Capture(p, i) ==
  /\ clerk[p] = "capture"
  /\ output.history # Missing
  /\ made[i] = Missing
  /\ \A j \in Input : j < i => made[j] # Missing
  /\ output' = [output EXCEPT !.captured[i] = file[i]]
  /\ made' = [made EXCEPT ![i] = StatusOf(i)]
  /\ done' = IF file[i] = Declared[i] /\ output.history
               THEN [done EXCEPT !.compiled[i] = @ + 1] ELSE done
  /\ Unchanged /\ UNCHANGED <<lock, ledgerTables, clerk>>

\* Deviation: the compilation is written after the first input.
WriteCompilationEarly(p) ==
  /\ Go(p, "capture", "seal")
  /\ \E i \in Input : made[i] # Missing
  /\ output' = [output EXCEPT !.listed = output.captured, !.artifact =
       [kind |-> "workflow",
        outcomes |-> [i \in Input |-> [digest |-> Declared[i], status |-> made[i]]]]]
  /\ Keep /\ UNCHANGED <<ledgerTables, done>>

WriteCompilation(p) ==
  /\ Go(p, "capture", "seal")
  /\ \A i \in Input : made[i] # Missing
  /\ output' = [output EXCEPT !.listed = output.captured, !.artifact =
       [kind |-> "workflow",
        outcomes |-> [i \in Input |-> [digest |-> Declared[i], status |-> made[i]]]]]
  /\ Keep /\ UNCHANGED <<ledgerTables, done>>

\* finalize(): manifest.json is linked to its .pending, which is removed then.
LinkManifest(p) ==
  /\ Go(p, "seal", "unlink")
  /\ output' = [output EXCEPT !.manifest =
       [captured |-> output.captured, artifact |-> output.artifact, pending |-> TRUE]]
  /\ Keep /\ UNCHANGED <<ledgerTables, done>>

UnlinkPending(p) ==
  /\ Go(p, "unlink", "complete")
  /\ output' = [output EXCEPT !.manifest.pending = FALSE]
  /\ Keep /\ UNCHANGED <<ledgerTables, done>>

Packages == {i \in Input : output.artifact.outcomes[i].status = "compiled"}

CompleteSources(p) ==
  /\ Go(p, "complete", IF Packages = {} THEN "time" ELSE "assemble")
  /\ CompleteRun("compilation", output.artifact)
  /\ Keep /\ UNCHANGED <<output, done>>

-----------------------------------------------------------------------------
(* The historical batch, the comparison with LEAN and the report *)

\* _assemble(): history.sqlite3, snapshot.json and plan.json.
Assemble(p) ==
  /\ Go(p, "assemble", "batch")
  /\ output' = [output EXCEPT !.plan = TRUE]
  /\ Keep /\ UNCHANGED <<ledgerTables, done>>

AdmitJobs(p) ==
  /\ Go(p, "batch", "execute")
  /\ output.batch = Missing
  /\ output' = [output EXCEPT !.batch = "open"]
  /\ Keep /\ UNCHANGED <<ledgerTables, done>>

ExecuteJobs(p) ==
  /\ Go(p, "execute", "parity")
  /\ \E outcome \in {"completed", "failed"} : output' = [output EXCEPT !.batch = outcome]
  /\ done' = [done EXCEPT !.executed = @ + 1]
  /\ Keep /\ UNCHANGED ledgerTables

OpenParity(p) ==
  /\ Go(p, "parity", "compare")
  /\ output' = [output EXCEPT !.parity = "started"]
  /\ Keep /\ UNCHANGED <<ledgerTables, done>>

WriteParity(p) ==
  /\ Go(p, "compare", "time")
  /\ \E outcome \in {"matched", "failed"} : output' = [output EXCEPT !.parity = outcome]
  /\ Keep /\ UNCHANGED <<ledgerTables, done>>

WriteTiming(p) ==
  /\ Go(p, "time", "report")
  /\ output' = [output EXCEPT !.timing = "written"]
  /\ Keep /\ UNCHANGED <<ledgerTables, done>>

\* verify(): sources/ holds what its manifest was made of.
Verified ==
  /\ output.manifest # Missing
  /\ output.manifest.captured = output.captured
  /\ output.manifest.artifact = output.artifact

\* A comparison without its parity.json was not run.
Consolidated == [outcomes |-> output.artifact.outcomes, batch |-> output.batch,
           parity |-> IF output.parity \in {"matched", "failed"} THEN output.parity ELSE "not_run",
           timing |-> output.timing]

\* The report does not expect the manifest's .pending among the files.
Reportable ==
  /\ Verified
  /\ output.listed = output.captured
  /\ ~output.manifest.pending
  /\ Broken \notin {output.parity, output.timing}
  /\ output.results \in {Missing, Consolidated}

Report(p) ==
  /\ clerk[p] = "report"
  /\ Reportable
  /\ output' = [output EXCEPT !.results = Consolidated]
  /\ Finish(p)
  /\ Unchanged /\ UNCHANGED <<ledgerTables, made, done>>

-----------------------------------------------------------------------------
(* recover() *)

AskRecover(p) ==
  /\ clerk[p] = "idle"
  /\ output # Missing
  /\ lock = Unlocked
  /\ lock' = p
  /\ clerk' = [clerk EXCEPT ![p] = "recover"]
  /\ Unchanged /\ UNCHANGED <<ledgerTables, output, made, done>>

\* sources/ is verified, and its compilation completes the ledger's run.
RecoverSources(p) ==
  /\ clerk[p] = "recover"
  /\ Verified
  /\ Go(p, "recover", IF Packages = {} THEN "report" ELSE "close")
  /\ CompleteRun("compilation", output.artifact)
  /\ Keep /\ UNCHANGED <<output, done>>

\* batch.recover() of an admitted batch: its outcome as it is, or, with
\* --abort where jobs are missing, the one its files come to.
Close(p) ==
  /\ Go(p, "close", "report")
  /\ output.batch # Missing
  /\ \E outcome \in {"completed", "failed", "aborted"} :
       /\ output.batch # "open" => outcome = output.batch
       /\ output' = [output EXCEPT !.batch = outcome]
  /\ Keep /\ UNCHANGED <<ledgerTables, done>>

-----------------------------------------------------------------------------
(* How a command ends otherwise *)

RaiseWorkflow(p) ==
  /\ \/ clerk[p] = "lock" /\ lock # Unlocked
     \/ clerk[p] = "recover" /\ ~Verified
     \/ clerk[p] \in {"recover", "complete"} /\ ~Accepts("compilation", output.artifact)
     \/ clerk[p] = "register" /\ runs["compilation"] # Missing
     \/ clerk[p] = "close" /\ output.batch \in {Missing, "open"}
     \/ clerk[p] = "report" /\ ~Reportable
  /\ Finish(p)
  /\ Unchanged /\ UNCHANGED <<ledgerTables, output, made, done>>

Writing == [compare |-> "parity", time |-> "timing", report |-> "results"]

\* A process that dies while it writes leaves a torn file.
DieWorkflow(p) ==
  /\ clerk[p] # "idle"
  /\ OneMoreDeath
  /\ Finish(p)
  /\ \/ UNCHANGED output
     \/ /\ clerk[p] \in DOMAIN Writing
        /\ clerk[p] = "report" => output.results = Missing
        /\ output' = [output EXCEPT ![Writing[clerk[p]]] = Broken]
  /\ UNCHANGED <<file, ledgerTables, made, done>> /\ Unconcerned

\* A captured file, compilation.json or results.json is replaced.
DamageOutput ==
  /\ OneMoreDamage
  /\ output # Missing
  /\ \/ \E i \in Input, c \in Content :
          /\ output.captured[i] # Missing
          /\ output' = [output EXCEPT !.captured[i] = c]
     \/ \E i \in Input :
          /\ output.artifact # Missing
          /\ output' = [output EXCEPT !.artifact.outcomes[i].status = "invalid"]
     \/ /\ output.results \notin {Missing, Broken}
        /\ output' = [output EXCEPT !.results.parity = "matched"]
  /\ UNCHANGED <<file, ledgerTables, lock, clerk, made, done>> /\ Unconcerned

WorkflowStep(p) ==
  \/ Lock(p) \/ Register(p) \/ CaptureHistory(p) \/ (\E i \in Input : Capture(p, i))
  \/ WriteCompilation(p) \/ LinkManifest(p) \/ UnlinkPending(p) \/ CompleteSources(p)
  \/ Assemble(p) \/ AdmitJobs(p) \/ ExecuteJobs(p) \/ OpenParity(p) \/ WriteParity(p)
  \/ WriteTiming(p) \/ Report(p)
  \/ RecoverSources(p) \/ Close(p) \/ RaiseWorkflow(p)

WorkflowNext ==
  \/ \E p \in Clerk :
       Submit(p) \/ AskRecover(p) \/ WorkflowStep(p) \/ DieWorkflow(p)
  \/ DamageOutput
  \/ Edit /\ UNCHANGED <<ledgerTables, workflowVars>> /\ Unconcerned

=============================================================================
