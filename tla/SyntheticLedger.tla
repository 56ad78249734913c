-------------------------- MODULE SyntheticLedger --------------------------
(***************************************************************************)
(* src/tidelab/synthetic_batch_ledger.py: the append-only account of       *)
(* synthetic runs.  A run registers the digests of its numbered inputs     *)
(* under its output's name, and is completed by an artifact with exactly   *)
(* one outcome for each.  With it, the two scripts that write artifacts,   *)
(* scripts/strategy_batch.py and scripts/pine_subset_batch.py, and the one *)
(* that recovers, scripts/synthetic_batch_ledger.py.                       *)
(*                                                                         *)
(* A digest is the content it was taken of.  Broken is also a torn file.   *)
(***************************************************************************)
EXTENDS ResearchInputs, Sequences

CONSTANTS
  Input,        \* numbers of the inputs
  Content,      \* what an input's file may hold
  Reads,        \* what the compiler makes of a content
  Output,       \* names of the scripts' artifacts
  Tester,       \* processes of the scripts
  Pine          \* the testers that compile Pine, the others load packages

ASSUME InputAssumption ==
  /\ Input # {} /\ Missing \notin Content
  /\ Reads \in [Content -> {"compiled", "unsupported", "needs_source_parser",
                            "conformance_failed"}]
  /\ Pine \subseteq Tester
  /\ "compilation" \notin Output /\ Missing \notin Output

\* A source workflow has a ledger of its own, of one run.
Key == Output \union {"compilation"}

VARIABLES
  file,         \* the authored files, by input
  runs,         \* the kind and the registered digests, by output key
  completions,  \* the artifact of a completed run
  artifacts,    \* the scripts' artifact files
  tester,       \* what a process of the scripts is doing
  ran           \* what was evaluated for an output: contents by input

ledgerTables == <<runs, completions>>
batchFiles == <<artifacts, ran>>
ledgerVars == <<file, ledgerTables, batchFiles, tester>>

Away == [pc |-> "idle", key |-> Missing, raw |-> Missing, digests |-> Missing,
         artifact |-> Missing]

LedgerInit ==
  /\ file \in [Input -> Content]
  /\ runs = [k \in Key |-> Missing]
  /\ completions = [k \in Key |-> Missing]
  /\ artifacts = [k \in Output |-> Missing]
  /\ tester = [p \in Tester |-> Away]
  /\ ran = [k \in Output |-> <<>>]

Kind == {"pine", "package", "workflow"}
Outcome == [digest : Content,
            status : {"tested", "rejected", "compiled", "invalid", "unsupported",
                      "needs_source_parser", "conformance_failed"}]
Artifact == [kind : Kind, outcomes : [Input -> Outcome]]
Run == [kind : Kind, inputs : [Input -> Content]]
Testing == [pc : {"idle", "open", "hash", "begin", "load", "evaluate", "write", "complete"},
            key : Output \union {Missing}, raw : {Missing} \union [Input -> Content],
            digests : {Missing} \union [Input -> Content], artifact : {Missing} \union Artifact]

ASSUME LedgerAssumption ==
  /\ Missing \notin Artifact \union Run \union [Input -> Content] \union {Broken}
  /\ Broken \notin Artifact

LedgerTypeOK ==
  /\ file \in [Input -> Content]
  /\ runs \in [Key -> {Missing} \union Run]
  /\ completions \in [Key -> {Missing} \union Artifact]
  /\ artifacts \in [Output -> {Missing, Broken} \union Artifact]
  /\ tester \in [Tester -> Testing]
  /\ ran \in [Output -> Seq([Input -> Content])]

\* An author changes a file.
Edit ==
  /\ moves < MaxMoves /\ Uneventful
  /\ moves' = moves + 1
  /\ \E i \in Input : file' \in {[file EXCEPT ![i] = c] : c \in Content \ {file[i]}}
  /\ UNCHANGED <<head, source, deaths, damage>>

-----------------------------------------------------------------------------
(* The ledger's two transactions *)

\* Deviation: an output key may be registered again.
BeginRunAgain(key, kind, digests) ==
  /\ runs' = [runs EXCEPT ![key] = [kind |-> kind, inputs |-> digests]]
  /\ UNCHANGED completions

\* begin(): the output key is unique.
BeginRun(key, kind, digests) ==
  /\ runs[key] = Missing
  /\ runs' = [runs EXCEPT ![key] = [kind |-> kind, inputs |-> digests]]
  /\ UNCHANGED completions

\* complete() accepts the recorded artifact again, or one with an outcome for
\* every planned input, of the planned digest.
Accepts(key, artifact) ==
  /\ runs[key] # Missing
  /\ artifact \notin {Missing, Broken}
  /\ completions[key] # Missing => completions[key] = artifact
  /\ artifact.kind = runs[key].kind
  /\ DOMAIN artifact.outcomes = Input
  /\ \A i \in Input : artifact.outcomes[i].digest = runs[key].inputs[i]

CompleteRun(key, artifact) ==
  /\ Accepts(key, artifact)
  /\ completions' = [completions EXCEPT ![key] = artifact]
  /\ UNCHANGED runs

-----------------------------------------------------------------------------
(* The batch scripts *)

GoAway(p) == tester' = [tester EXCEPT ![p] = Away]

\* The output does not exist.
Start(p, key) ==
  /\ tester[p].pc = "idle"
  /\ artifacts[key] = Missing
  /\ tester' = [tester EXCEPT ![p] = [Away EXCEPT !.key = key,
                  !.pc = IF p \in Pine THEN "open" ELSE "hash"]]
  /\ UNCHANGED <<inputs, file, ledgerTables, batchFiles>>

\* _source_input() opens a source twice: for its bytes and for its digest.
OpenSources(p) ==
  /\ tester[p].pc = "open"
  /\ tester' = [tester EXCEPT ![p].pc = "hash", ![p].raw = file]
  /\ UNCHANGED <<inputs, file, ledgerTables, batchFiles>>

HashSources(p) ==
  /\ tester[p].pc = "hash"
  /\ tester' = [tester EXCEPT ![p].pc = "begin", ![p].digests = file]
  /\ UNCHANGED <<inputs, file, ledgerTables, batchFiles>>

KindOf(p) == IF p \in Pine THEN "pine" ELSE "package"

RegisterBatch(p) ==
  /\ tester[p].pc = "begin"
  /\ BeginRun(tester[p].key, KindOf(p), tester[p].digests)
  /\ tester' = [tester EXCEPT ![p].pc = IF p \in Pine THEN "evaluate" ELSE "load"]
  /\ UNCHANGED <<inputs, file, batchFiles>>

\* Packages are read only now.
LoadPackages(p) ==
  /\ tester[p].pc = "load"
  /\ tester' = [tester EXCEPT ![p].pc = "evaluate", ![p].raw = file]
  /\ UNCHANGED <<inputs, file, ledgerTables, batchFiles>>

\* A record is found by the digest, and compile_pine() compares it with the
\* bytes it is given.
OutcomeOf(pine, digest, raw) ==
  [digest |-> digest,
   status |-> IF pine /\ raw # digest THEN "rejected"
              ELSE IF Reads[raw] = "compiled" THEN "tested" ELSE Reads[raw]]

EvaluateBatch(p) ==
  LET t == tester[p] IN
  /\ t.pc = "evaluate"
  /\ ran' = [ran EXCEPT ![t.key] = Append(@, t.raw)]
  /\ tester' = [tester EXCEPT ![p].pc = "write",
       ![p].artifact = [kind |-> KindOf(p),
         outcomes |-> [i \in Input |-> OutcomeOf(p \in Pine, t.digests[i], t.raw[i])]]]
  /\ UNCHANGED <<inputs, file, ledgerTables, artifacts>>

\* The artifact is a new file.
WriteArtifact(p) ==
  /\ tester[p].pc = "write"
  /\ artifacts[tester[p].key] = Missing
  /\ artifacts' = [artifacts EXCEPT ![tester[p].key] = tester[p].artifact]
  /\ tester' = [tester EXCEPT ![p].pc = "complete"]
  /\ UNCHANGED <<inputs, file, ledgerTables, ran>>

CompleteBatch(p) ==
  /\ tester[p].pc = "complete"
  /\ CompleteRun(tester[p].key, tester[p].artifact)
  /\ GoAway(p)
  /\ UNCHANGED <<inputs, file, batchFiles>>

\* recover: the artifact that is there completes its run.
RecoverArtifact(key) ==
  /\ completions[key] = Missing
  /\ CompleteRun(key, artifacts[key])
  /\ UNCHANGED <<inputs, file, batchFiles, tester>>

RaiseBatch(p) ==
  LET key == tester[p].key IN
  /\ \/ tester[p].pc = "begin" /\ runs[key] # Missing
     \/ tester[p].pc = "write" /\ artifacts[key] # Missing
     \/ tester[p].pc = "complete" /\ ~Accepts(key, tester[p].artifact)
  /\ GoAway(p)
  /\ UNCHANGED <<inputs, file, ledgerTables, batchFiles>>

\* A process that dies while it writes leaves a torn artifact.
DieBatch(p) ==
  /\ tester[p].pc # "idle"
  /\ OneMoreDeath
  /\ GoAway(p)
  /\ \/ UNCHANGED artifacts
     \/ /\ tester[p].pc = "write"
        /\ artifacts[tester[p].key] = Missing
        /\ artifacts' = [artifacts EXCEPT ![tester[p].key] = Broken]
  /\ UNCHANGED <<file, ledgerTables, ran>>

\* An artifact is replaced by one of other outcomes, or lost.
DamageArtifact(key) ==
  /\ OneMoreDamage
  /\ artifacts[key] \notin {Missing, Broken}
  /\ \/ artifacts' = [artifacts EXCEPT ![key] = Missing]
     \/ \E i \in Input : \E c \in Content :
          artifacts' = [artifacts EXCEPT ![key].outcomes[i] = [digest |-> c, status |-> "tested"]]
  /\ UNCHANGED <<file, ledgerTables, ran, tester>>

BatchStep(p) ==
  \/ OpenSources(p) \/ HashSources(p) \/ RegisterBatch(p) \/ LoadPackages(p)
  \/ EvaluateBatch(p) \/ WriteArtifact(p) \/ CompleteBatch(p) \/ RaiseBatch(p)

LedgerNext ==
  \/ \E p \in Tester :
       \/ \E key \in Output : Start(p, key)
       \/ BatchStep(p)
       \/ DieBatch(p)
  \/ \E key \in Output : RecoverArtifact(key) \/ DamageArtifact(key)
  \/ Edit /\ UNCHANGED <<ledgerTables, batchFiles, tester>>

=============================================================================
