---------------------------- MODULE PrivateStudy ----------------------------
(***************************************************************************)
(* src/tidelab/private_workflow.py with its bindings rsi_private.py,       *)
(* channel_private.py and monday_private.py: an owner's grant pays for one *)
(* snapshot of private prices and one batch over that snapshot.  Every     *)
(* stage is consumed by inserting a row of research_access, whose primary  *)
(* key is the grant and the stage, before what it pays for is done.        *)
(*                                                                         *)
(* The grant that founded the program (RSI) creates the registry; the      *)
(* others append to it.  A batch is run by historical_batch.py, of which   *)
(* only the promise is used here: see ResearchPhase, which HistoricalBatch *)
(* implements.  A digest is the content it was taken of, and an operator   *)
(* gives the date of the day: another date ends a command at its gate.     *)
(***************************************************************************)
EXTENDS ResearchInputs, FiniteSets, Sequences

CONSTANTS
  Grant,        \* owner-approved grants, each of one hypothesis
  Founder,      \* the grant whose binding creates the program's registry
  Operator      \* processes of the command-line scripts

ASSUME FounderAssumption == Founder \in Grant

Stage == {"authorization", "snapshot", "snapshot_complete", "batch", "review"}

VARIABLES
  authority,    \* the grants whose frozen authority files are intact
  anchor,       \* whether RSI-BATCH-V1-STORE.json is there
  registry,     \* trials.sqlite3: missing, empty (no tables) or ready
  access,       \* research_access, by grant and stage
  phase,        \* the research batches, as ResearchPhase describes them
  study,        \* the files of a study's directory, by grant
  attempt,      \* how study/attempt came out of admission, by grant
  work,         \* what a process is doing
  reads,        \* the rows read from the price store, by grant
  replays       \* the rows of a snapshot that were replayed, by grant

program == <<anchor, registry, access>>
records == <<phase, study, attempt>>
history == <<reads, replays>>
privateVars == <<authority, program, records, history, work>>

\* The directory: snapshot.sqlite3, the rows digest of snapshot.json, the
\* descriptor plan.json was made for, package.json with record.json,
\* prepared.json, and whether preparation-failed.json was written.
NewStudy == [snapshot |-> Missing, descriptor |-> Missing, plan |-> Missing,
             package |-> Missing, prepared |-> Missing, failed |-> FALSE]

Batches == INSTANCE ResearchPhase WITH
  Study <- Grant, Batch <- Grant, None <- Missing,
  Plan <- [study : Grant, rows : Rows]

Maybe(set) == set \union {Missing}
Identity == [head : Revision]
Prepared == [head : Revision, file : Rows]
Files == [snapshot : Maybe(Rows), descriptor : Maybe(Rows), plan : Maybe(Rows),
          package : {Missing, "approved", "replaced"}, prepared : Maybe(Prepared),
          failed : BOOLEAN]

\* What the registry's rows are made of.
Sealed == [prepared : Prepared, descriptor : Rows, plan : Rows]
Reviewed == [result : Rows \union {"incomplete"}]
PhaseRow == [batch : Grant, plan : [study : Grant, rows : Rows],
             outcome : {"open", "completed", "failed", "aborted"}]

ASSUME AbsenceAssumption ==
  /\ Missing \notin Identity \union Prepared \union Files \union Sealed \union Reviewed \union PhaseRow
  /\ Missing \notin {"blocked", "rejected", "admitted"}
  /\ "incomplete" \notin Rows

Label == {"idle", "anchor", "tables", "authorize", "snapshot", "copy", "freeze", "seal",
          "load", "admit", "hash", "launch", "replay", "settle", "review"}
Work == [pc : Label, grant : Grant, head : Maybe(Revision), rows : Maybe(Rows),
         file : Maybe(Rows), result : Maybe(Rows \union {"incomplete"})]

PrivateTypeOK ==
  /\ authority \subseteq Grant
  /\ anchor \in BOOLEAN
  /\ registry \in {"missing", "empty", "ready"}
  /\ access \in [Grant -> [Stage -> Maybe(Identity \union Sealed \union Reviewed)]]
  /\ \A g \in Grant : /\ access[g]["snapshot_complete"] \in Maybe(Sealed)
                      /\ access[g]["review"] \in Maybe(Reviewed)
                      /\ \A s \in {"authorization", "snapshot", "batch"} :
                           access[g][s] \in Maybe(Identity)
  /\ phase \in [Grant -> Maybe(PhaseRow)]
  /\ study \in [Grant -> Maybe(Files)]
  /\ attempt \in [Grant -> Maybe({"blocked", "rejected", "admitted"})]
  /\ work \in [Operator -> Work]
  /\ reads \in [Grant -> Seq(Rows \union {Broken})]
  /\ replays \in [Grant -> Seq(Rows)]

Resting == [pc |-> "idle", grant |-> Founder, head |-> Missing,
            rows |-> Missing, file |-> Missing, result |-> Missing]

PrivateInit ==
  /\ authority = Grant
  /\ anchor = FALSE
  /\ registry = "missing"
  /\ access = [g \in Grant |-> [s \in Stage |-> Missing]]
  /\ Batches!Init
  /\ study = [g \in Grant |-> Missing]
  /\ attempt = [g \in Grant |-> Missing]
  /\ work = [p \in Operator |-> Resting]
  /\ reads = [g \in Grant |-> <<>>]
  /\ replays = [g \in Grant |-> <<>>]

Goto(p, label) == work' = [work EXCEPT ![p].pc = label]
Rest(p) == work' = [work EXCEPT ![p] = Resting]

-----------------------------------------------------------------------------
(* The registry, and the gates *)

\* Deviation: a stage that was consumed may be consumed again.
ConsumeAgain(g, stage, identity) ==
  /\ registry = "ready"
  /\ access' = [access EXCEPT ![g][stage] = identity]
  /\ UNCHANGED <<anchor, registry>>

\* reserve_access(): the insertion succeeds once.
Consume(g, stage, identity) ==
  /\ registry = "ready"
  /\ access[g][stage] = Missing
  /\ access' = [access EXCEPT ![g][stage] = identity]
  /\ UNCHANGED <<anchor, registry>>

\* canonical_registry(): the anchored registry with its founding row.
Canonical ==
  anchor /\ registry = "ready" /\ access[Founder]["authorization"] # Missing

\* gate(): the authority is intact, and all but the founder's was granted under
\* the present revision.
Gate(g) ==
  /\ g \in authority
  /\ Canonical
  /\ g # Founder => /\ access[g]["authorization"] # Missing
                    /\ access[g]["authorization"].head = head

\* A command has passed its gate: the head it read is kept.
Begin(p, g, label) ==
  /\ work[p].pc = "idle"
  /\ work' = [work EXCEPT ![p] = [Resting EXCEPT !.pc = label, !.grant = g, !.head = head]]
  /\ UNCHANGED <<inputs, authority, program, records, history>>

-----------------------------------------------------------------------------
(* initialize() and authorize() *)

\* initialize(): neither the anchor nor a registry is there.
Initialize(p) ==
  /\ ~anchor /\ registry = "missing"
  /\ Founder \in authority
  /\ Begin(p, Founder, "anchor")

\* The anchor is created; its creation fails where there is one.
WriteAnchor(p) ==
  /\ work[p].pc = "anchor"
  /\ ~anchor
  /\ anchor' = TRUE
  /\ Goto(p, "tables")
  /\ UNCHANGED <<inputs, authority, registry, access, records, history>>

CreateTables(p) ==
  /\ work[p].pc = "tables"
  /\ registry' = "ready"
  /\ Goto(p, "authorize")
  /\ UNCHANGED <<inputs, authority, anchor, access, records, history>>

\* authorize() of a later grant appends to the established registry.
AskAuthorization(p, g) ==
  /\ g # Founder
  /\ g \in authority
  /\ Canonical
  /\ Begin(p, g, "authorize")

Authorize(p) ==
  /\ work[p].pc = "authorize"
  /\ Consume(work[p].grant, "authorization", [head |-> work[p].head])
  /\ Rest(p)
  /\ UNCHANGED <<inputs, authority, records, history>>

-----------------------------------------------------------------------------
(* prepare() *)

Prepare(p, g) == Gate(g) /\ Begin(p, g, "snapshot")

ConsumeSnapshot(p) ==
  /\ work[p].pc = "snapshot"
  /\ Consume(work[p].grant, "snapshot", [head |-> work[p].head])
  /\ Goto(p, "copy")
  /\ UNCHANGED <<inputs, authority, records, history>>

\* Deviation: a failed copy leaves no mark.
CopyUnmarked(p) ==
  LET g == work[p].grant IN
  /\ work[p].pc = "copy"
  /\ study[g] = Missing
  /\ reads' = [reads EXCEPT ![g] = Append(@, source)]
  /\ IF source = Broken
       THEN study' = [study EXCEPT ![g] = NewStudy] /\ Rest(p)
       ELSE /\ study' = [study EXCEPT ![g] = [NewStudy EXCEPT !.snapshot = source]]
            /\ work' = [work EXCEPT ![p].pc = "freeze", ![p].rows = source]
  /\ UNCHANGED <<inputs, authority, program, phase, attempt, replays>>

\* A new study directory; the window is copied in one source transaction and
\* the archives' bytes are compared with the hashes in the rows.
Copy(p) ==
  LET g == work[p].grant IN
  /\ work[p].pc = "copy"
  /\ study[g] = Missing
  /\ reads' = [reads EXCEPT ![g] = Append(@, source)]
  /\ IF source = Broken
       THEN /\ study' = [study EXCEPT ![g] = [NewStudy EXCEPT !.failed = TRUE]]
            /\ Rest(p)
       ELSE /\ study' = [study EXCEPT ![g] = [NewStudy EXCEPT !.snapshot = source]]
            /\ work' = [work EXCEPT ![p].pc = "freeze", ![p].rows = source]
  /\ UNCHANGED <<inputs, authority, program, phase, attempt, replays>>

\* snapshot.json, package.json, plan.json and, with the digest of the snapshot
\* file as it is by now, prepared.json.
Freeze(p) ==
  LET g == work[p].grant IN
  /\ work[p].pc = "freeze"
  /\ study' = [study EXCEPT ![g].descriptor = work[p].rows, ![g].plan = work[p].rows,
                            ![g].package = "approved",
                            ![g].prepared = [head |-> work[p].head, file |-> study[g].snapshot]]
  /\ Goto(p, "seal")
  /\ UNCHANGED <<inputs, authority, program, phase, attempt, history>>

\* The receipt holds the digests of the files as they are by now.
Receipt(g) == [prepared |-> study[g].prepared, descriptor |-> study[g].descriptor,
               plan |-> study[g].plan]

Seal(p) ==
  LET g == work[p].grant IN
  /\ work[p].pc = "seal"
  /\ Consume(g, "snapshot_complete", Receipt(g))
  /\ Rest(p)
  /\ UNCHANGED <<inputs, authority, records, history>>

-----------------------------------------------------------------------------
(* execute() *)

\* The receipt is there and the three files are those it was made of.
Execute(p, g) ==
  /\ Gate(g)
  /\ access[g]["snapshot_complete"] # Missing
  /\ study[g] # Missing
  /\ Receipt(g) = access[g]["snapshot_complete"]
  /\ Begin(p, g, "load")

\* Deviation: the head the snapshot was prepared under is not compared.
LoadAnyHead(p) ==
  LET g == work[p].grant IN
  /\ work[p].pc = "load"
  /\ work' = [work EXCEPT ![p].pc = "admit", ![p].rows = study[g].descriptor,
                          ![p].file = study[g].prepared.file]
  /\ UNCHANGED <<inputs, authority, program, records, history>>

\* prepared.json and snapshot.json are read again.
Load(p) ==
  LET g == work[p].grant IN
  /\ work[p].pc = "load"
  /\ study[g].prepared.head = work[p].head
  /\ work' = [work EXCEPT ![p].pc = "admit", ![p].rows = study[g].descriptor,
                          ![p].file = study[g].prepared.file]
  /\ UNCHANGED <<inputs, authority, program, records, history>>

\* The grant is consumed before the snapshot's bytes are looked at.
ConsumeBatch(p) ==
  /\ work[p].pc = "admit"
  /\ Consume(work[p].grant, "batch", [head |-> work[p].head])
  /\ Goto(p, "hash")
  /\ UNCHANGED <<inputs, authority, records, history>>

HashSnapshot(p) ==
  /\ work[p].pc = "hash"
  /\ study[work[p].grant].snapshot = work[p].file
  /\ Goto(p, "launch")
  /\ UNCHANGED <<inputs, authority, program, records, history>>

\* ApprovedPolicy.preflight(): descriptor and plan are still the approved ones.
Approved(p) ==
  LET g == work[p].grant IN
  study[g].descriptor = work[p].rows /\ study[g].plan = work[p].rows

\* While a batch is open, of whatever hypothesis, no other is admitted, nor is a
\* second of the same one: an execution names no batch as the one it retries.
Taken(g) == phase[g] # Missing \/ \E other \in Grant : Batches!Open(other)

\* Otherwise every job is blocked, which the review counts as incomplete.
Block(p) ==
  LET g == work[p].grant IN
  /\ work[p].pc = "launch"
  /\ attempt[g] = Missing
  /\ ~Approved(p)
  /\ attempt' = [attempt EXCEPT ![g] = "blocked"]
  /\ work' = [work EXCEPT ![p].pc = "review", ![p].result = "incomplete"]
  /\ UNCHANGED <<inputs, authority, program, phase, study, history>>

\* The registry's tables are created where there are none, and the batch is
\* rejected: "batch_incomplete".
Reject(p) ==
  LET g == work[p].grant IN
  /\ work[p].pc = "launch"
  /\ attempt[g] = Missing
  /\ Approved(p)
  /\ Taken(g)
  /\ registry' = "ready"
  /\ attempt' = [attempt EXCEPT ![g] = "rejected"]
  /\ Rest(p)
  /\ UNCHANGED <<inputs, authority, anchor, access, phase, study, history>>

\* The batch is admitted.  Jobs of a replaced package are invalid.
Admit(p) ==
  LET g == work[p].grant IN
  /\ work[p].pc = "launch"
  /\ attempt[g] = Missing
  /\ Approved(p)
  /\ ~Taken(g)
  /\ Batches!Reserve(g, [study |-> g, rows |-> work[p].rows])
  /\ registry' = "ready"
  /\ attempt' = [attempt EXCEPT ![g] = "admitted"]
  /\ work' = [work EXCEPT ![p].pc = IF study[g].package = "approved" THEN "replay" ELSE "settle",
                          ![p].result = "incomplete"]
  /\ UNCHANGED <<inputs, authority, anchor, access, study, history>>

\* Deviation: the rows of the snapshot are replayed whatever their digest is.
ReplayUndigested(p) ==
  LET g == work[p].grant IN
  /\ work[p].pc = "replay"
  /\ replays' = [replays EXCEPT ![g] = Append(@, study[g].snapshot)]
  /\ work' = [work EXCEPT ![p].pc = "settle", ![p].result = study[g].snapshot]
  /\ UNCHANGED <<inputs, authority, program, records, reads>>

\* ApprovedPolicy.read_partition(): rows of another digest fail every job.
Replay(p) ==
  LET g == work[p].grant IN
  /\ work[p].pc = "replay"
  /\ IF study[g].snapshot = work[p].rows
       THEN /\ replays' = [replays EXCEPT ![g] = Append(@, work[p].rows)]
            /\ work' = [work EXCEPT ![p].pc = "settle", ![p].result = work[p].rows]
       ELSE Goto(p, "settle") /\ UNCHANGED replays
  /\ UNCHANGED <<inputs, authority, program, records, reads>>

\* The batch is closed, "failed" where a job failed.
Settle(p) ==
  LET g == work[p].grant IN
  /\ work[p].pc = "settle"
  /\ Batches!Settle(g, IF work[p].result = "incomplete" /\ study[g].package = "approved"
                       THEN "failed" ELSE "completed")
  /\ Goto(p, "review")
  /\ UNCHANGED <<inputs, authority, program, study, attempt, history>>

\* review.json is written and its digest recorded.
Review(p) ==
  /\ work[p].pc = "review"
  /\ Consume(work[p].grant, "review", [result |-> work[p].result])
  /\ Rest(p)
  /\ UNCHANGED <<inputs, authority, records, history>>

-----------------------------------------------------------------------------
(* How a command ends otherwise *)

StageAt == [authorize |-> "authorization", snapshot |-> "snapshot",
            seal |-> "snapshot_complete", admit |-> "batch", review |-> "review"]

\* The insertion is refused, which fails a preparation.  A connection to a lost
\* registry leaves a file without tables.
Refused(p) ==
  LET g == work[p].grant IN
  /\ work[p].pc \in DOMAIN StageAt
  /\ registry # "ready" \/ access[g][StageAt[work[p].pc]] # Missing
  /\ registry' = IF registry = "missing" THEN "empty" ELSE registry
  /\ study' = IF work[p].pc = "seal" THEN [study EXCEPT ![g].failed = TRUE] ELSE study
  /\ Rest(p)
  /\ UNCHANGED <<inputs, authority, anchor, access, phase, attempt, history>>

\* A file that must be new is there, or one is not what it has to be.
Raise(p) ==
  LET g == work[p].grant IN
  /\ \/ work[p].pc = "anchor" /\ anchor
     \/ work[p].pc = "copy" /\ study[g] # Missing
     \/ work[p].pc = "load" /\ study[g].prepared.head # work[p].head
     \/ work[p].pc = "hash" /\ study[g].snapshot # work[p].file
     \/ work[p].pc = "launch" /\ attempt[g] # Missing
     \/ work[p].pc = "settle" /\ ~Batches!Open(g)
  /\ Rest(p)
  /\ UNCHANGED <<inputs, authority, program, records, history>>

\* A process dies, or the script kills it after the time allowed.
Die(p) ==
  /\ work[p].pc # "idle"
  /\ OneMoreDeath
  /\ Rest(p)
  /\ UNCHANGED <<authority, program, records, history>>

\* historical_batch.py recover --abort closes what a dead process left open.
RecoverBatch(g) ==
  /\ attempt[g] = "admitted"
  /\ \A p \in Operator : work[p].grant = g => work[p].pc \notin {"replay", "settle"}
  /\ \E outcome \in {"completed", "failed", "aborted"} : Batches!Settle(g, outcome)
  /\ UNCHANGED <<inputs, authority, program, study, attempt, history, work>>

-----------------------------------------------------------------------------
(* What happens around the commands *)

\* One file of a study is replaced by another that can be read.
Replace(g) ==
  /\ study[g] # Missing
  /\ \E value \in Rows :
       \/ /\ study[g].snapshot \in Rows \ {value}
          /\ study' = [study EXCEPT ![g].snapshot = value]
       \/ /\ study[g].descriptor \in Rows \ {value}
          /\ study' = [study EXCEPT ![g].descriptor = value]
       \/ /\ study[g].plan \in Rows \ {value}
          /\ study' = [study EXCEPT ![g].plan = value]
       \/ /\ study[g].prepared # Missing /\ study[g].prepared.file # value
          /\ study' = [study EXCEPT ![g].prepared.file = value]
       \/ /\ study[g].package = "approved"
          /\ study' = [study EXCEPT ![g].package = "replaced"]
  /\ UNCHANGED <<program, phase, attempt, authority>>

\* An operator moves a directory away that no process works in.
RemoveStudy(g) ==
  /\ study[g] # Missing
  /\ \A p \in Operator : work[p].pc # "idle" => work[p].grant # g
  /\ study' = [study EXCEPT ![g] = Missing]
  /\ attempt' = [attempt EXCEPT ![g] = Missing]
  /\ UNCHANGED <<program, phase, authority>>

\* The registry, the anchor or the authority of a grant is lost.
Lose ==
  /\ \/ /\ registry = "ready"
        /\ registry' = "missing"
        /\ access' = [g \in Grant |-> [s \in Stage |-> Missing]]
        /\ phase' = [g \in Grant |-> Missing]
        /\ UNCHANGED <<anchor, authority>>
     \/ anchor /\ anchor' = FALSE /\ UNCHANGED <<registry, access, phase, authority>>
     \/ /\ \E g \in authority : authority' = authority \ {g}
        /\ UNCHANGED <<program, phase>>
  /\ UNCHANGED <<study, attempt>>

Damage ==
  /\ OneMoreDamage
  /\ Lose \/ \E g \in Grant : Replace(g) \/ RemoveStudy(g)
  /\ UNCHANGED <<history, work>>

PrivateStep(p) ==
  \/ WriteAnchor(p) \/ CreateTables(p) \/ Authorize(p)
  \/ ConsumeSnapshot(p) \/ Copy(p) \/ Freeze(p) \/ Seal(p)
  \/ Load(p) \/ ConsumeBatch(p) \/ HashSnapshot(p)
  \/ Block(p) \/ Reject(p) \/ Admit(p)
  \/ Replay(p) \/ Settle(p) \/ Review(p)
  \/ Refused(p) \/ Raise(p)

PrivateNext ==
  \/ \E p \in Operator :
       \/ Initialize(p)
       \/ \E g \in Grant : AskAuthorization(p, g) \/ Prepare(p, g) \/ Execute(p, g)
       \/ PrivateStep(p)
       \/ Die(p)
  \/ \E g \in Grant : RecoverBatch(g)
  \/ Damage

=============================================================================
