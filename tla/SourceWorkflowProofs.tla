------------------------ MODULE SourceWorkflowProofs ------------------------
(***************************************************************************)
(* Proofs about the synthetic commands of Research, for any sets of        *)
(* inputs, contents, outputs and processes and any bounds: the inputs of   *)
(* the batch scripts and of the source workflow are accounted for.         *)
(***************************************************************************)
EXTENDS PrivateStudyProofs

-----------------------------------------------------------------------------
(* The batch scripts: the inductive invariant *)

Registered == {"load", "evaluate", "write", "complete"}

\* A process has what its place in the program supposes.
Supplied(p, t) ==
  /\ t.pc # "idle" => t.key \in Output
  /\ t.pc \in {"begin"} \union Registered => t.digests # Missing
  /\ t.pc = "load" => p \notin Pine
  /\ p \in Pine /\ t.pc \in {"hash", "begin"} => t.raw # Missing
  /\ t.pc \in {"evaluate", "write", "complete"} => t.raw # Missing
  /\ t.pc \in {"write", "complete"} => t.artifact # Missing

BatchTypes == LedgerTypeOK /\ \A p \in Tester : Supplied(p, tester[p])

\* The artifact of a registered run that evaluated these contents.
ArtifactOf(run, raw) ==
  [kind |-> run.kind,
   outcomes |-> [i \in Input |-> OutcomeOf(run.kind = "pine", run.inputs[i], raw[i])]]

\* A process that registered its run is the only one of that run.
TesterInv(p) == LET t == tester[p] IN
  /\ t.pc \in Registered =>
       /\ runs[t.key] = [kind |-> KindOf(p), inputs |-> t.digests]
       /\ \A q \in Tester \ {p} : tester[q].pc \in Registered => tester[q].key # t.key
  /\ t.pc \in {"load", "evaluate"} => ran[t.key] = <<>>
  /\ t.pc \in {"write", "complete"} =>
       ran[t.key] = <<t.raw>> /\ t.artifact = ArtifactOf(runs[t.key], t.raw)

\* An output is evaluated once, after its run was registered.
OutputInv(k) ==
  /\ ran[k] # <<>> => runs[k] # Missing /\ \E raw \in [Input -> Content] : ran[k] = <<raw>>
  /\ artifacts[k] # Missing => ran[k] # <<>>
  /\ completions[k] # Missing =>
       ran[k] # <<>> /\ \A i \in Input : completions[k].outcomes[i].digest = runs[k].inputs[i]

\* While no file was damaged, artifact and completion are what was evaluated.
BatchInPlace ==
  /\ \A p \in Tester : tester[p].pc = "complete" => artifacts[tester[p].key] = tester[p].artifact
  /\ \A k \in Output :
       /\ artifacts[k] \notin {Missing, Broken} => artifacts[k] = ArtifactOf(runs[k], ran[k][1])
       /\ completions[k] # Missing => completions[k] = artifacts[k]

\* While no file was edited, all contents are the present ones.
BatchStill ==
  /\ \A p \in Tester : {tester[p].raw, tester[p].digests} \subseteq {Missing, file}
  /\ \A k \in Output : /\ runs[k] # Missing => runs[k].inputs = file
                       /\ ran[k] # <<>> => ran[k] = <<file>>

BatchSafe ==
  /\ BatchTypes
  /\ \A p \in Tester : TesterInv(p)
  /\ \A k \in Output : OutputInv(k)
  /\ damage = 0 => BatchInPlace
  /\ moves = 0 => BatchStill

-----------------------------------------------------------------------------
(* The source workflow: the inductive invariant *)

recorded == completions["compilation"]

\* Nothing was done yet in the new directory.
Fresh ==
  /\ output = NewOutput
  /\ runs["compilation"] = Missing /\ recorded = Missing
  /\ made = [i \in Input |-> Missing]
  /\ done = [compiled |-> [i \in Input |-> 0], executed |-> 0]

Compiling == {"capture", "seal", "unlink", "complete"}
Executing == {"assemble", "batch", "execute", "parity", "compare", "time"}
Inside == Place \ {"idle", "lock"}

ClerkInv(p) == LET place == clerk[p] IN
  /\ place # "idle" => output # Missing
  /\ place \in Inside => lock = p
  /\ place \in {"lock", "register"} => Fresh
  /\ place = "lock" => \A q \in Clerk \ {p} : clerk[q] \in {"idle", "recover"}
  /\ place = "capture" => runs["compilation"] # Missing /\ output.artifact = Missing
  /\ place \in Compiling \union Executing => output.results = Missing
  /\ place \in (Compiling \union Executing) \ {"capture"} => output.artifact # Missing
  /\ place = "unlink" => output.manifest # Missing
  /\ place \in Compiling \union {"assemble", "batch", "execute"} => done.executed = 0
  /\ place \in Compiling \union {"assemble", "batch"} => output.batch = Missing
  /\ place \in {"parity", "compare"} => done.executed = 1

\* An outcome is of the declared digest, and "compiled" only once compiled.
Honest(artifact) == \A i \in Input :
  /\ artifact.outcomes[i].digest = Declared[i]
  /\ artifact.outcomes[i].status = "compiled" => done.compiled[i] = 1

DirectoryInv ==
  /\ output = Missing => \A p \in Clerk : clerk[p] = "idle"
  /\ output = Missing => runs["compilation"] = Missing /\ recorded = Missing
  /\ output = Missing => /\ made = [i \in Input |-> Missing]
                         /\ done = [compiled |-> [i \in Input |-> 0], executed |-> 0]
  /\ done.executed <= 1
  /\ \A i \in Input : /\ made[i] = Missing => done.compiled[i] = 0
                      /\ made[i] = "compiled" => done.compiled[i] = 1
                      /\ done.compiled[i] <= 1
  /\ recorded # Missing => Honest(recorded)
  /\ output # Missing =>
       /\ \A i \in Input : output.captured[i] # Missing => runs["compilation"] # Missing
       /\ output.artifact # Missing => Honest(output.artifact)
       /\ output.parity # Missing => done.executed = 1

\* The batch was closed, or there was nothing to run.
Closed == output.batch # "open" /\ (output.batch = Missing <=> Packages = {})

\* While no file was damaged, the files say what the ledger says.
ClerkInPlace(p) == LET place == clerk[p] IN
  /\ place \in Executing \union {"close", "report"} => recorded # Missing
  /\ place \in (Executing \ {"time"}) \union {"close"} => Packages # {}
  /\ place \in {"parity", "compare", "time", "report"} => Closed

DirectoryInPlace ==
  /\ recorded # Missing => output # Missing /\ output.artifact = recorded
  /\ output # Missing =>
       /\ output.batch # Missing => output.artifact # Missing /\ Packages # {}
       /\ output.results \notin {Missing, Broken} =>
            recorded # Missing /\ output.results = Consolidated /\ Closed

SourceSafe ==
  /\ WorkflowTypeOK
  /\ DirectoryInv
  /\ \A p \in Clerk : ClerkInv(p)
  /\ damage = 0 => DirectoryInPlace /\ \A p \in Clerk : ClerkInPlace(p)

-----------------------------------------------------------------------------
(* The batch scripts: types and frames *)

\* The events of the inputs are counted, and no count goes back.
LEMMA CountsGrow ==
  ASSUME InputsTypeOK, Next
  PROVE  (damage' = 0 => damage = 0) /\ (moves' = 0 => moves = 0)
<1>1. /\ damage' = damage \/ damage' = damage + 1
      /\ moves' = moves \/ moves' = moves + 1
  BY EveryEvent DEF Events, Move, OneMoreDeath, OneMoreDamage, inputs
<1> QED
  BY <1>1 DEF InputsTypeOK

\* begin() adds the run of a key that had none.
LEMMA RunBegins ==
  ASSUME LedgerTypeOK, NEW key \in Key, NEW kind \in Kind, NEW digests \in [Input -> Content],
         BeginRun(key, kind, digests)
  PROVE  /\ runs[key] = Missing
         /\ runs' \in [Key -> {Missing} \union Run] /\ completions' = completions
         /\ runs'[key] = [kind |-> kind, inputs |-> digests] /\ runs'[key] # Missing
         /\ \A k \in Key \ {key} : runs'[k] = runs[k]
<1>1. [kind |-> kind, inputs |-> digests] \in Run
  BY DEF Run
<1> QED
  BY <1>1, LedgerAssumption DEF BeginRun, LedgerTypeOK

\* complete() records an artifact of the run's digests.
LEMMA RunCompletes ==
  ASSUME LedgerTypeOK, NEW key \in Key, NEW artifact \in {Missing, Broken} \union Artifact,
         CompleteRun(key, artifact)
  PROVE  /\ runs' = runs /\ completions' \in [Key -> {Missing} \union Artifact]
         /\ completions'[key] = artifact /\ artifact \in Artifact /\ runs[key] # Missing
         /\ completions[key] # Missing => completions[key] = artifact
         /\ \A i \in Input : artifact.outcomes[i].digest = runs[key].inputs[i]
         /\ \A k \in Key \ {key} : completions'[k] = completions[k]
BY DEF CompleteRun, Accepts, LedgerTypeOK

\* The outputs of the scripts are not the source workflow's.
LEMMA OutputKeys == Output \subseteq Key /\ "compilation" \in Key \ Output
BY InputAssumption DEF Key

\* A process that went away supposes nothing.
LEMMA AwayRests == Away \in Testing /\ Away.pc = "idle" /\ Away.raw = Missing /\ Away.digests = Missing
BY DEF Away, Testing

\* One process goes on, and has what it needs.
LEMMA TesterMoves ==
  ASSUME BatchTypes, NEW p \in Tester, NEW t \in Testing, Supplied(p, t),
         tester' = [tester EXCEPT ![p] = t]
  PROVE  /\ tester' \in [Tester -> Testing] /\ tester'[p] = t
         /\ \A q \in Tester \ {p} : tester'[q] = tester[q]
         /\ \A q \in Tester : Supplied(q, tester'[q])
<1>1. tester \in [Tester -> Testing]
  BY DEF BatchTypes, LedgerTypeOK
<1>2. /\ tester' \in [Tester -> Testing] /\ tester'[p] = t
      /\ \A q \in Tester \ {p} : tester'[q] = tester[q]
  BY <1>1
<1>3. \A q \in Tester \ {p} : Supplied(q, tester[q])
  BY DEF BatchTypes
<1> QED
  BY <1>2, <1>3

\* The others keep what they rely on where their runs are left alone.
LEMMA TestersKept ==
  ASSUME NEW p \in Tester, \A q \in Tester : TesterInv(q),
         \A q \in Tester \ {p} : tester'[q] = tester[q],
         \A q \in Tester \ {p} : tester[q].pc \in Registered =>
           /\ runs'[tester[q].key] = runs[tester[q].key]
           /\ ran'[tester[q].key] = ran[tester[q].key]
           /\ tester'[p].pc \in Registered => tester'[p].key # tester[q].key
  PROVE  \A q \in Tester \ {p} : TesterInv(q)'
<1> SUFFICES ASSUME NEW q \in Tester \ {p}
             PROVE  TesterInv(q)'
  OBVIOUS
<1>1. TesterInv(q) /\ tester'[q] = tester[q]
  OBVIOUS
<1>2. CASE tester[q].pc \notin Registered
  BY <1>1, <1>2 DEF TesterInv, Registered
<1>3. CASE tester[q].pc \in Registered
  <2>1. /\ runs'[tester[q].key] = runs[tester[q].key]
        /\ ran'[tester[q].key] = ran[tester[q].key]
        /\ tester'[p].pc \in Registered => tester'[p].key # tester[q].key
    BY <1>3
  <2>2. \A r \in Tester \ {q} : tester'[r].pc \in Registered => tester'[r].key # tester[q].key
    BY <1>1, <1>3, <2>1 DEF TesterInv
  <2> QED
    BY <1>1, <2>1, <2>2 DEF TesterInv, KindOf, ArtifactOf
<1> QED
  BY <1>2, <1>3

\* A process that goes on alone, to where it may be already or before its run
\* is registered, and takes what the files hold now.
LEMMA ScriptMoves ==
  ASSUME BatchSafe, NEW p \in Tester, NEW t \in Testing, Supplied(p, t),
         tester' = [tester EXCEPT ![p] = t],
         UNCHANGED <<file, runs, completions, artifacts, ran>>,
         t.pc \notin {"write", "complete"},
         t.pc \in {"load", "evaluate"} =>
           /\ tester[p].pc \in {"load", "evaluate"}
           /\ t.key = tester[p].key /\ t.digests = tester[p].digests,
         {t.raw, t.digests} \subseteq {Missing, file, tester[p].raw, tester[p].digests},
         damage' = 0 => damage = 0, moves' = 0 => moves = 0
  PROVE  BatchSafe'
<1>1. /\ tester' \in [Tester -> Testing] /\ tester'[p] = t
      /\ \A q \in Tester \ {p} : tester'[q] = tester[q]
      /\ \A q \in Tester : Supplied(q, tester'[q])
  BY TesterMoves DEF BatchSafe
<1>2. BatchTypes'
  BY <1>1 DEF BatchSafe, BatchTypes, LedgerTypeOK
<1>3. TesterInv(p)'
  <2>1. CASE t.pc \notin Registered
    BY <1>1, <2>1 DEF TesterInv, Registered
  <2>2. CASE t.pc \in {"load", "evaluate"}
    <3>1. TesterInv(p) /\ tester[p].pc \in {"load", "evaluate"}
      BY <2>2 DEF BatchSafe
    <3>2. \A q \in Tester \ {p} : tester[q].pc \in Registered => tester[q].key # tester[p].key
      BY <3>1 DEF TesterInv, Registered
    <3> QED
      BY <1>1, <2>2, <3>1, <3>2 DEF TesterInv, KindOf, Registered
  <2> QED
    BY <2>1, <2>2 DEF Registered
<1>4. \A q \in Tester \ {p} : TesterInv(q)'
  <2>1. t.pc \in Registered => \A q \in Tester \ {p} :
          tester[q].pc \in Registered => t.key # tester[q].key
    BY DEF BatchSafe, TesterInv, Registered
  <2> QED
    BY <1>1, <2>1, TestersKept DEF BatchSafe
<1>5. \A k \in Output : OutputInv(k)'
  BY DEF BatchSafe, OutputInv
<1>6. damage' = 0 => BatchInPlace'
  BY <1>1 DEF BatchSafe, BatchInPlace, ArtifactOf
<1>7. moves' = 0 => BatchStill'
  <2> SUFFICES ASSUME BatchStill
               PROVE  BatchStill'
    BY DEF BatchSafe
  <2>1. {t.raw, t.digests} \subseteq {Missing, file}
    BY DEF BatchStill
  <2>2. \A q \in Tester : {tester'[q].raw, tester'[q].digests} \subseteq {Missing, file'}
    BY <1>1, <2>1 DEF BatchStill
  <2> QED
    BY <2>2 DEF BatchStill
<1> QED
  BY <1>2, <1>3, <1>4, <1>5, <1>6, <1>7 DEF BatchSafe

-----------------------------------------------------------------------------
(* The batch scripts: their steps *)

\* A command begins, opens, hashes or loads its inputs, ends, or dies.
LEMMA ScriptGoesOn ==
  ASSUME BatchSafe, NEW p \in Tester, damage' = 0 => damage = 0, moves' = 0 => moves = 0,
         \/ \E key \in Output : Start(p, key)
         \/ OpenSources(p) \/ HashSources(p) \/ LoadPackages(p) \/ RaiseBatch(p)
         \/ DieBatch(p) /\ UNCHANGED artifacts
  PROVE  BatchSafe'
<1>0. tester[p] \in Testing /\ file \in [Input -> Content] /\ Supplied(p, tester[p])
  BY DEF BatchSafe, BatchTypes, LedgerTypeOK
<1>1. ASSUME NEW key \in Output, Start(p, key)
      PROVE  BatchSafe'
  <2>1. PICK t : t = [Away EXCEPT !.key = key, !.pc = IF p \in Pine THEN "open" ELSE "hash"]
    OBVIOUS
  <2>2. /\ t \in Testing /\ t.pc \in {"open", "hash"} /\ t.key = key
        /\ t.raw = Missing /\ t.digests = Missing /\ (p \in Pine => t.pc = "open")
    BY <2>1 DEF Away, Testing
  <2>3. Supplied(p, t)
    BY <2>2 DEF Supplied, Registered
  <2>4. tester' = [tester EXCEPT ![p] = t]
    BY <1>1, <2>1 DEF Start
  <2> QED
    BY <1>1, <2>2, <2>3, <2>4, ScriptMoves DEF Start, ledgerTables, batchFiles
<1>2. CASE OpenSources(p)
  <2>1. PICK t : t = [tester[p] EXCEPT !.pc = "hash", !.raw = file]
    OBVIOUS
  <2>2. /\ t \in Testing /\ t.pc = "hash" /\ t.key = tester[p].key
        /\ t.raw = file /\ t.digests = tester[p].digests
    BY <1>0, <2>1 DEF Testing
  <2>3. Supplied(p, t)
    BY <1>0, <1>2, <2>2, LedgerAssumption DEF Supplied, Registered, OpenSources
  <2>4. tester' = [tester EXCEPT ![p] = t]
    BY <1>0, <1>2, <2>1 DEF OpenSources, Testing
  <2> QED
    BY <1>2, <2>2, <2>3, <2>4, ScriptMoves DEF OpenSources, ledgerTables, batchFiles
<1>3. CASE HashSources(p)
  <2>1. PICK t : t = [tester[p] EXCEPT !.pc = "begin", !.digests = file]
    OBVIOUS
  <2>2. /\ t \in Testing /\ t.pc = "begin" /\ t.key = tester[p].key
        /\ t.raw = tester[p].raw /\ t.digests = file
    BY <1>0, <2>1 DEF Testing
  <2>3. Supplied(p, t)
    BY <1>0, <1>3, <2>2, LedgerAssumption DEF Supplied, Registered, HashSources
  <2>4. tester' = [tester EXCEPT ![p] = t]
    BY <1>0, <1>3, <2>1 DEF HashSources, Testing
  <2> QED
    BY <1>3, <2>2, <2>3, <2>4, ScriptMoves DEF HashSources, ledgerTables, batchFiles
<1>4. CASE LoadPackages(p)
  <2>1. PICK t : t = [tester[p] EXCEPT !.pc = "evaluate", !.raw = file]
    OBVIOUS
  <2>2. /\ t \in Testing /\ t.pc = "evaluate" /\ t.key = tester[p].key
        /\ t.raw = file /\ t.digests = tester[p].digests
    BY <1>0, <2>1 DEF Testing
  <2>3. Supplied(p, t)
    BY <1>0, <1>4, <2>2, LedgerAssumption DEF Supplied, Registered, LoadPackages
  <2>4. tester' = [tester EXCEPT ![p] = t]
    BY <1>0, <1>4, <2>1 DEF LoadPackages, Testing
  <2> QED
    BY <1>4, <2>2, <2>3, <2>4, ScriptMoves DEF LoadPackages, ledgerTables, batchFiles
<1>5. CASE \/ RaiseBatch(p)
           \/ DieBatch(p) /\ UNCHANGED artifacts
  <2>1. Supplied(p, Away)
    BY AwayRests DEF Supplied, Registered
  <2>2. /\ tester' = [tester EXCEPT ![p] = Away]
        /\ UNCHANGED <<file, runs, completions, artifacts, ran>>
    BY <1>5 DEF RaiseBatch, DieBatch, GoAway, ledgerTables, batchFiles
  <2> QED
    BY <2>1, <2>2, AwayRests, ScriptMoves
<1> QED
  BY <1>1, <1>2, <1>3, <1>4, <1>5

\* A run is registered once, and nothing was evaluated for it.
LEMMA BatchRegisters ==
  ASSUME BatchSafe, NEW p \in Tester, RegisterBatch(p)
  PROVE  BatchSafe'
<1>0. /\ tester[p] \in Testing /\ Supplied(p, tester[p]) /\ LedgerTypeOK
      /\ tester[p].pc = "begin"
  BY DEF BatchSafe, BatchTypes, LedgerTypeOK, RegisterBatch
<1>1. PICK key \in Output : key = tester[p].key
  BY <1>0 DEF Supplied
<1>2. PICK digests \in [Input -> Content] : digests = tester[p].digests
  BY <1>0 DEF Supplied, Testing
<1>3. KindOf(p) \in Kind
  BY DEF KindOf, Kind
<1>4. BeginRun(key, KindOf(p), digests)
  BY <1>1, <1>2 DEF RegisterBatch
<1>5. /\ runs[key] = Missing /\ runs' \in [Key -> {Missing} \union Run]
      /\ completions' = completions
      /\ runs'[key] = [kind |-> KindOf(p), inputs |-> digests] /\ runs'[key] # Missing
      /\ \A k \in Key \ {key} : runs'[k] = runs[k]
  BY <1>0, <1>3, <1>4, RunBegins, OutputKeys
<1>6. PICK t : t = [tester[p] EXCEPT !.pc = IF p \in Pine THEN "evaluate" ELSE "load"]
  OBVIOUS
<1>7. /\ t \in Testing /\ t.key = key /\ t.digests = digests /\ t.raw = tester[p].raw
      /\ t.pc \in {"load", "evaluate"} /\ (t.pc = "load" <=> p \notin Pine)
  BY <1>0, <1>1, <1>2, <1>6 DEF Testing
<1>8. Supplied(p, t)
  BY <1>0, <1>2, <1>7 DEF Supplied, Registered
<1>9. tester' = [tester EXCEPT ![p] = t]
  BY <1>0, <1>6 DEF RegisterBatch, Testing
<1>10. /\ tester' \in [Tester -> Testing] /\ tester'[p] = t
       /\ \A q \in Tester \ {p} : tester'[q] = tester[q]
       /\ \A q \in Tester : Supplied(q, tester'[q])
  BY <1>7, <1>8, <1>9, TesterMoves DEF BatchSafe
<1>11. UNCHANGED <<file, artifacts, ran, damage, moves>>
  BY DEF RegisterBatch, inputs, batchFiles
<1>12. BatchTypes'
  BY <1>0, <1>5, <1>10, <1>11 DEF BatchTypes, LedgerTypeOK
<1>13. ran[key] = <<>> /\ artifacts[key] = Missing /\ completions[key] = Missing
  BY <1>5 DEF BatchSafe, OutputInv
<1>14. \A q \in Tester : tester[q].pc \in Registered => tester[q].key # key
  <2> SUFFICES ASSUME NEW q \in Tester, tester[q].pc \in Registered, tester[q].key = key
               PROVE  FALSE
    OBVIOUS
  <2>1. tester[q] \in Testing /\ Supplied(q, tester[q]) /\ TesterInv(q)
    BY <1>0 DEF BatchSafe, BatchTypes, LedgerTypeOK
  <2>2. tester[q].digests \in [Input -> Content]
    BY <2>1 DEF Supplied, Testing
  <2>3. runs[key] = [kind |-> KindOf(q), inputs |-> tester[q].digests]
    BY <2>1 DEF TesterInv
  <2>4. runs[key] \in Run
    BY <2>2, <2>3 DEF Run, Kind, KindOf
  <2> QED
    BY <1>5, <2>4, LedgerAssumption
<1>15. TesterInv(p)'
  BY <1>5, <1>7, <1>10, <1>11, <1>13, <1>14 DEF TesterInv, KindOf
<1>16. \A q \in Tester \ {p} : TesterInv(q)'
  <2>1. \A q \in Tester \ {p} : tester[q].pc \in Registered =>
          /\ runs'[tester[q].key] = runs[tester[q].key]
          /\ ran'[tester[q].key] = ran[tester[q].key]
          /\ tester'[p].key # tester[q].key
    BY <1>5, <1>7, <1>10, <1>11, <1>14, OutputKeys DEF BatchSafe, BatchTypes, Supplied, Registered
  <2> QED
    BY <1>10, <2>1, TestersKept DEF BatchSafe
<1>17. \A k \in Output : OutputInv(k)'
  BY <1>5, <1>11, <1>13, OutputKeys DEF BatchSafe, OutputInv
<1>18. damage' = 0 => BatchInPlace'
  BY <1>5, <1>7, <1>10, <1>11, <1>13, OutputKeys DEF BatchSafe, BatchInPlace, ArtifactOf
<1>19. moves' = 0 => BatchStill'
  BY <1>2, <1>5, <1>7, <1>10, <1>11, <1>13, OutputKeys, LedgerAssumption DEF BatchSafe, BatchStill
<1> QED
  BY <1>12, <1>15, <1>16, <1>17, <1>18, <1>19 DEF BatchSafe

\* An outcome of every input makes an artifact.
LEMMA ArtifactMade ==
  ASSUME NEW kind \in Kind, NEW pine, NEW digests \in [Input -> Content],
         NEW raw \in [Input -> Content]
  PROVE  [kind |-> kind, outcomes |-> [i \in Input |-> OutcomeOf(pine, digests[i], raw[i])]]
           \in Artifact
<1>1. \A c \in Content : Reads[c] \in {"compiled", "unsupported", "needs_source_parser", "conformance_failed"}
  BY InputAssumption
<1>2. \A i \in Input : OutcomeOf(pine, digests[i], raw[i]) \in Outcome
  <2> SUFFICES ASSUME NEW i \in Input
               PROVE  OutcomeOf(pine, digests[i], raw[i]) \in Outcome
    OBVIOUS
  <2>1. digests[i] \in Content /\ raw[i] \in Content
    OBVIOUS
  <2> QED
    BY <1>1, <2>1 DEF OutcomeOf, Outcome
<1> QED
  BY <1>2 DEF Artifact

\* The inputs are evaluated, once for the registered run.
LEMMA BatchEvaluates ==
  ASSUME BatchSafe, NEW p \in Tester, EvaluateBatch(p)
  PROVE  BatchSafe'
<1>0. /\ tester[p] \in Testing /\ Supplied(p, tester[p]) /\ LedgerTypeOK /\ TesterInv(p)
      /\ tester[p].pc = "evaluate"
  BY DEF BatchSafe, BatchTypes, LedgerTypeOK, EvaluateBatch
<1>1. PICK key \in Output : key = tester[p].key
  BY <1>0 DEF Supplied
<1>2. PICK digests \in [Input -> Content] : digests = tester[p].digests
  BY <1>0 DEF Supplied, Testing, Registered
<1>3. PICK raw \in [Input -> Content] : raw = tester[p].raw
  BY <1>0 DEF Supplied, Testing
<1>4. PICK artifact : artifact = [kind |-> KindOf(p),
         outcomes |-> [i \in Input |-> OutcomeOf(p \in Pine, digests[i], raw[i])]]
  OBVIOUS
<1>5. artifact \in Artifact
  <2>1. KindOf(p) \in Kind
    BY DEF KindOf, Kind
  <2> QED
    BY <1>4, <2>1, ArtifactMade
<1>6. PICK t : t = [tester[p] EXCEPT !.pc = "write", !.artifact = artifact]
  OBVIOUS
<1>7. /\ t \in Testing /\ t.pc = "write" /\ t.key = key /\ t.digests = digests /\ t.raw = raw
      /\ t.artifact = artifact
  BY <1>0, <1>1, <1>2, <1>3, <1>5, <1>6 DEF Testing
<1>8. Supplied(p, t)
  BY <1>0, <1>2, <1>3, <1>5, <1>7, LedgerAssumption DEF Supplied, Registered
<1>9. tester' = [tester EXCEPT ![p] = t]
  BY <1>0, <1>2, <1>3, <1>4, <1>6 DEF EvaluateBatch, Testing
<1>10. /\ tester' \in [Tester -> Testing] /\ tester'[p] = t
       /\ \A q \in Tester \ {p} : tester'[q] = tester[q]
       /\ \A q \in Tester : Supplied(q, tester'[q])
  BY <1>7, <1>8, <1>9, TesterMoves DEF BatchSafe
<1>11. UNCHANGED <<file, runs, completions, artifacts, damage, moves>>
  BY DEF EvaluateBatch, inputs, ledgerTables
<1>12. ran[key] = <<>> /\ runs[key] = [kind |-> KindOf(p), inputs |-> digests]
  BY <1>0, <1>1, <1>2 DEF TesterInv, Registered
<1>13. /\ ran' \in [Output -> Seq([Input -> Content])] /\ ran'[key] = <<raw>>
       /\ \A k \in Output \ {key} : ran'[k] = ran[k]
  <2>1. ran' = [ran EXCEPT ![key] = Append(ran[key], raw)]
    BY <1>1, <1>3 DEF EvaluateBatch
  <2>2. Append(ran[key], raw) = <<raw>> /\ <<raw>> \in Seq([Input -> Content])
    BY <1>12
  <2> QED
    BY <1>0, <2>1, <2>2 DEF LedgerTypeOK
<1>14. BatchTypes'
  BY <1>0, <1>10, <1>11, <1>13 DEF BatchTypes, LedgerTypeOK
<1>15. artifact = ArtifactOf(runs[key], raw) /\ runs[key] # Missing
  <2>1. /\ runs[key].kind = KindOf(p) /\ runs[key].inputs = digests
        /\ (runs[key].kind = "pine") = (p \in Pine)
    BY <1>12 DEF KindOf
  <2>2. [kind |-> KindOf(p), inputs |-> digests] \in Run
    BY DEF KindOf, Kind, Run
  <2> QED
    BY <1>4, <1>12, <2>1, <2>2, LedgerAssumption DEF ArtifactOf
<1>16. \A q \in Tester \ {p} : tester[q].pc \in Registered => tester[q].key # key
  BY <1>0, <1>1 DEF TesterInv, Registered
<1>17. TesterInv(p)'
  BY <1>7, <1>10, <1>11, <1>12, <1>13, <1>15, <1>16 DEF TesterInv, KindOf, ArtifactOf
<1>18. \A q \in Tester \ {p} : TesterInv(q)'
  <2>1. \A q \in Tester \ {p} : tester[q].pc \in Registered =>
          /\ runs'[tester[q].key] = runs[tester[q].key]
          /\ ran'[tester[q].key] = ran[tester[q].key]
          /\ tester'[p].key # tester[q].key
    BY <1>7, <1>10, <1>11, <1>13, <1>16 DEF BatchSafe, BatchTypes, Supplied, Registered
  <2> QED
    BY <1>10, <2>1, TestersKept DEF BatchSafe
<1>19. artifacts[key] = Missing /\ completions[key] = Missing
  BY <1>12 DEF BatchSafe, OutputInv
<1>20. \A k \in Output : OutputInv(k)'
  BY <1>11, <1>13, <1>15, <1>19 DEF BatchSafe, OutputInv
<1>21. damage' = 0 => BatchInPlace'
  <2> SUFFICES ASSUME BatchInPlace
               PROVE  BatchInPlace'
    BY <1>11 DEF BatchSafe
  <2>1. \A q \in Tester : tester'[q].pc = "complete" => q # p /\ tester'[q] = tester[q]
    BY <1>7, <1>10
  <2>2. \A q \in Tester : tester'[q].pc = "complete" => artifacts'[tester'[q].key] = tester'[q].artifact
    BY <1>11, <2>1 DEF BatchInPlace
  <2>3. ASSUME NEW k \in Output
        PROVE  /\ artifacts'[k] \notin {Missing, Broken} => artifacts'[k] = ArtifactOf(runs[k], ran'[k][1])
               /\ completions'[k] # Missing => completions'[k] = artifacts'[k]
    BY <1>11, <1>13, <1>19 DEF BatchInPlace
  <2> QED
    BY <1>11, <2>2, <2>3 DEF BatchInPlace, ArtifactOf
<1>22. moves' = 0 => BatchStill'
  BY <1>2, <1>3, <1>7, <1>10, <1>11, <1>13, LedgerAssumption DEF BatchSafe, BatchStill
<1> QED
  BY <1>14, <1>17, <1>18, <1>20, <1>21, <1>22 DEF BatchSafe

\* An artifact that is written, torn, lost or replaced for an output that was
\* evaluated.
LEMMA ArtifactChanges ==
  ASSUME BatchSafe, NEW key \in Output, NEW artifact \in {Missing, Broken} \union Artifact,
         artifacts' = [artifacts EXCEPT ![key] = artifact],
         UNCHANGED <<file, runs, completions, ran>>,
         ran[key] # <<>>,
         BatchTypes => tester' \in [Tester -> Testing] /\ \A q \in Tester : Supplied(q, tester'[q]),
         \A q \in Tester : TesterInv(q)',
         moves' = 0 => moves = 0,
         \A q \in Tester : {tester'[q].raw, tester'[q].digests}
                             \subseteq {Missing, tester[q].raw, tester[q].digests},
         damage' = 0 =>
           /\ damage = 0 /\ artifacts[key] = Missing
           /\ artifact \notin {Missing, Broken} => artifact = ArtifactOf(runs[key], ran[key][1])
           /\ \A q \in Tester : tester'[q].pc = "complete" =>
                \/ tester'[q] = tester[q]
                \/ tester'[q].key = key /\ tester'[q].artifact = artifact
  PROVE  BatchSafe'
<1>0. BatchTypes /\ LedgerTypeOK
  BY DEF BatchSafe, BatchTypes
<1>1. /\ artifacts' \in [Output -> {Missing, Broken} \union Artifact]
      /\ artifacts'[key] = artifact /\ \A k \in Output \ {key} : artifacts'[k] = artifacts[k]
  BY <1>0 DEF LedgerTypeOK
<1>2. BatchTypes'
  BY <1>0, <1>1 DEF BatchTypes, LedgerTypeOK
<1>3. \A k \in Output : OutputInv(k)'
  BY <1>1 DEF BatchSafe, OutputInv
<1>4. ASSUME damage' = 0
      PROVE  BatchInPlace'
  <2>0. BatchInPlace
    BY <1>4 DEF BatchSafe
  <2>1. completions[key] = Missing
    BY <1>4, <2>0 DEF BatchInPlace
  <2>2. ASSUME NEW q \in Tester, tester'[q].pc = "complete"
        PROVE  artifacts'[tester'[q].key] = tester'[q].artifact
    <3>1. CASE tester'[q].key = key /\ tester'[q].artifact = artifact
      BY <1>1, <3>1
    <3>2. CASE tester'[q] = tester[q]
      <4>1. artifacts[tester[q].key] = tester[q].artifact /\ tester[q].artifact # Missing
            /\ tester[q].key \in Output
        BY <2>0, <2>2, <3>2, <1>0 DEF BatchInPlace, BatchTypes, Supplied
      <4>2. tester[q].key # key
        BY <1>4, <4>1
      <4> QED
        BY <1>1, <3>2, <4>1, <4>2
    <3> QED
      BY <1>4, <2>2, <3>1, <3>2
  <2>3. ASSUME NEW k \in Output
        PROVE  /\ artifacts'[k] \notin {Missing, Broken} => artifacts'[k] = ArtifactOf(runs[k], ran[k][1])
               /\ completions[k] # Missing => completions[k] = artifacts'[k]
    BY <1>1, <1>4, <2>0, <2>1 DEF BatchInPlace
  <2> QED
    BY <2>2, <2>3 DEF BatchInPlace, ArtifactOf
<1>5. moves' = 0 => BatchStill'
  <2> SUFFICES ASSUME BatchStill
               PROVE  BatchStill'
    BY DEF BatchSafe
  <2>1. \A q \in Tester : {tester'[q].raw, tester'[q].digests} \subseteq {Missing, file}
    BY DEF BatchStill
  <2> QED
    BY <2>1 DEF BatchStill
<1> QED
  BY <1>2, <1>3, <1>4, <1>5 DEF BatchSafe

\* The artifact of the one evaluation is written, or torn by a death.
LEMMA BatchWrites ==
  ASSUME BatchSafe, NEW p \in Tester, damage' = 0 => damage = 0,
         \/ WriteArtifact(p)
         \/ DieBatch(p) /\ artifacts' # artifacts
  PROVE  BatchSafe'
<1>0. /\ tester[p] \in Testing /\ Supplied(p, tester[p]) /\ BatchTypes /\ TesterInv(p)
      /\ tester[p].pc = "write" /\ artifacts[tester[p].key] = Missing
  BY DEF BatchSafe, BatchTypes, LedgerTypeOK, WriteArtifact, DieBatch
<1>1. PICK key \in Output : key = tester[p].key
  BY <1>0 DEF Supplied
<1>2. /\ ran[key] = <<tester[p].raw>> /\ tester[p].artifact = ArtifactOf(runs[key], tester[p].raw)
      /\ tester[p].artifact \in Artifact
      /\ runs[key] = [kind |-> KindOf(p), inputs |-> tester[p].digests]
      /\ \A q \in Tester \ {p} : tester[q].pc \in Registered => tester[q].key # key
  BY <1>0, <1>1 DEF TesterInv, Supplied, Testing, Registered
<1>3. ran[key] # <<>> /\ ran[key][1] = tester[p].raw
  BY <1>2
<1>4. UNCHANGED <<file, runs, completions, ran, moves>>
  BY DEF WriteArtifact, DieBatch, OneMoreDeath, ledgerTables, inputs
<1>5. CASE WriteArtifact(p)
  <2>1. PICK t : t = [tester[p] EXCEPT !.pc = "complete"]
    OBVIOUS
  <2>2. /\ t \in Testing /\ t.pc = "complete" /\ t.key = key /\ t.raw = tester[p].raw
        /\ t.digests = tester[p].digests /\ t.artifact = tester[p].artifact
    BY <1>0, <1>1, <2>1 DEF Testing
  <2>3. Supplied(p, t)
    BY <1>0, <1>1, <2>2 DEF Supplied, Registered
  <2>4. tester' = [tester EXCEPT ![p] = t]
    BY <1>0, <1>5, <2>1 DEF WriteArtifact, Testing
  <2>5. /\ tester' \in [Tester -> Testing] /\ tester'[p] = t
        /\ \A q \in Tester \ {p} : tester'[q] = tester[q]
        /\ \A q \in Tester : Supplied(q, tester'[q])
    BY <1>0, <2>2, <2>3, <2>4, TesterMoves
  <2>6. TesterInv(p)'
    BY <1>2, <1>4, <2>2, <2>5 DEF TesterInv, ArtifactOf, KindOf, Registered
  <2>7. \A q \in Tester \ {p} : TesterInv(q)'
    BY <1>2, <1>4, <2>2, <2>5, TestersKept DEF BatchSafe
  <2>8. artifacts' = [artifacts EXCEPT ![key] = tester[p].artifact]
    BY <1>1, <1>5 DEF WriteArtifact
  <2>9. \A q \in Tester : TesterInv(q)'
    BY <2>6, <2>7
  <2>10. \A q \in Tester : {tester'[q].raw, tester'[q].digests}
                             \subseteq {Missing, tester[q].raw, tester[q].digests}
    BY <2>2, <2>5
  <2>11. \A q \in Tester : \/ tester'[q] = tester[q]
                           \/ tester'[q].key = key /\ tester'[q].artifact = tester[p].artifact
    BY <2>2, <2>5
  <2> QED
    BY <1>0, <1>1, <1>2, <1>3, <1>4, <2>5, <2>8, <2>9, <2>10, <2>11, ArtifactChanges
<1>6. CASE DieBatch(p) /\ artifacts' # artifacts
  <2>1. tester' = [tester EXCEPT ![p] = Away]
    BY <1>6 DEF DieBatch, GoAway
  <2>2. Supplied(p, Away)
    BY AwayRests DEF Supplied, Registered
  <2>3. /\ tester' \in [Tester -> Testing] /\ tester'[p] = Away
        /\ \A q \in Tester \ {p} : tester'[q] = tester[q]
        /\ \A q \in Tester : Supplied(q, tester'[q])
    BY <1>0, <2>1, <2>2, AwayRests, TesterMoves
  <2>4. TesterInv(p)'
    BY <2>3, AwayRests DEF TesterInv, Registered
  <2>5. \A q \in Tester \ {p} : TesterInv(q)'
    BY <1>4, <2>3, AwayRests, TestersKept DEF BatchSafe, Registered
  <2>6. artifacts' = [artifacts EXCEPT ![key] = Broken]
    BY <1>1, <1>6 DEF DieBatch
  <2>7. \A q \in Tester : TesterInv(q)'
    BY <2>4, <2>5
  <2>8. \A q \in Tester : {tester'[q].raw, tester'[q].digests}
                            \subseteq {Missing, tester[q].raw, tester[q].digests}
    BY <2>3, AwayRests
  <2>9. \A q \in Tester : tester'[q].pc = "complete" => tester'[q] = tester[q]
    BY <2>3, AwayRests
  <2> QED
    BY <1>0, <1>1, <1>3, <1>4, <2>3, <2>6, <2>7, <2>8, <2>9, ArtifactChanges
<1> QED
  BY <1>5, <1>6

\* An artifact is lost or replaced.
LEMMA ArtifactDamaged ==
  ASSUME BatchSafe, InputsTypeOK, NEW key \in Output, DamageArtifact(key)
  PROVE  BatchSafe'
<1>0. BatchTypes /\ LedgerTypeOK /\ artifacts[key] \in Artifact
  BY DEF BatchSafe, BatchTypes, LedgerTypeOK, DamageArtifact
<1>1. UNCHANGED <<file, runs, completions, ran, tester, moves>> /\ damage' # 0
  BY DEF DamageArtifact, OneMoreDamage, ledgerTables, InputsTypeOK
<1>2. PICK artifact \in {Missing, Broken} \union Artifact :
        artifacts' = [artifacts EXCEPT ![key] = artifact]
  <2>1. CASE artifacts' = [artifacts EXCEPT ![key] = Missing]
    BY <2>1
  <2>2. ASSUME NEW i \in Input, NEW c \in Content,
               artifacts' = [artifacts EXCEPT ![key].outcomes[i] = [digest |-> c, status |-> "tested"]]
        PROVE  \E artifact \in {Missing, Broken} \union Artifact :
                 artifacts' = [artifacts EXCEPT ![key] = artifact]
    <3>1. PICK outcome \in Outcome : outcome = [digest |-> c, status |-> "tested"]
      BY DEF Outcome
    <3>2. PICK altered \in [Input -> Outcome] :
            altered = [artifacts[key].outcomes EXCEPT ![i] = outcome]
      BY <1>0 DEF Artifact
    <3>3. PICK artifact : artifact = [artifacts[key] EXCEPT !.outcomes = altered]
      OBVIOUS
    <3>4. artifact \in Artifact
      BY <1>0, <3>2, <3>3 DEF Artifact
    <3>5. artifacts' = [artifacts EXCEPT ![key] = artifact]
      BY <2>2, <3>1, <3>2, <3>3
    <3> QED
      BY <3>4, <3>5
  <2> QED
    BY <2>1, <2>2 DEF DamageArtifact
<1>3. ran[key] # <<>>
  BY <1>0, LedgerAssumption DEF BatchSafe, OutputInv
<1>4. \A q \in Tester : TesterInv(q)'
  BY <1>1 DEF BatchSafe, TesterInv, ArtifactOf
<1>5. tester' \in [Tester -> Testing] /\ \A q \in Tester : Supplied(q, tester'[q])
  BY <1>0, <1>1 DEF BatchTypes, LedgerTypeOK
<1> QED
  BY <1>1, <1>2, <1>3, <1>4, <1>5, ArtifactChanges

\* A run is completed by the process that wrote its artifact, or by a recovery.
LEMMA BatchCompletes ==
  ASSUME BatchSafe,
         \/ \E p \in Tester : CompleteBatch(p)
         \/ \E key \in Output : RecoverArtifact(key)
  PROVE  BatchSafe'
<1>0. BatchTypes /\ LedgerTypeOK
  BY DEF BatchSafe, BatchTypes
<1>1. ASSUME NEW key \in Output, NEW artifact \in {Missing, Broken} \union Artifact,
             CompleteRun(key, artifact), ran[key] # <<>>,
             UNCHANGED <<file, artifacts, ran, moves, damage>>,
             damage = 0 => artifacts[key] = artifact,
             tester' \in [Tester -> Testing],
             \A q \in Tester : tester'[q] \in {tester[q], Away}
      PROVE  BatchSafe'
  <2>1. /\ runs' = runs /\ completions' \in [Key -> {Missing} \union Artifact]
        /\ completions'[key] = artifact /\ artifact \in Artifact
        /\ \A i \in Input : artifact.outcomes[i].digest = runs[key].inputs[i]
        /\ \A k \in Key \ {key} : completions'[k] = completions[k]
    BY <1>0, <1>1, RunCompletes, OutputKeys
  <2>2. \A q \in Tester : Supplied(q, tester'[q])
    BY <1>0, <1>1, AwayRests DEF BatchTypes, Supplied, Registered
  <2>3. BatchTypes'
    BY <1>0, <1>1, <2>1, <2>2 DEF BatchTypes, LedgerTypeOK
  <2>4. ASSUME NEW q \in Tester
        PROVE  TesterInv(q)'
    <3>1. CASE tester'[q] = Away
      BY <3>1, AwayRests DEF TesterInv, Registered
    <3>2. CASE tester'[q] = tester[q]
      <4>1. \A r \in Tester : tester'[r].pc \in Registered => tester'[r] = tester[r]
        BY <1>1, AwayRests DEF Registered
      <4> QED
        BY <1>1, <2>1, <3>2, <4>1 DEF BatchSafe, TesterInv, ArtifactOf, KindOf
    <3> QED
      BY <1>1, <3>1, <3>2
  <2>5. \A k \in Output : OutputInv(k)'
    BY <1>1, <2>1, OutputKeys DEF BatchSafe, OutputInv
  <2>6. damage' = 0 => BatchInPlace'
    BY <1>1, <2>1, OutputKeys, AwayRests DEF BatchSafe, BatchInPlace, ArtifactOf
  <2>7. moves' = 0 => BatchStill'
    BY <1>1, <2>1, AwayRests DEF BatchSafe, BatchStill
  <2> QED
    BY <2>3, <2>4, <2>5, <2>6, <2>7 DEF BatchSafe
<1>2. ASSUME NEW p \in Tester, CompleteBatch(p)
      PROVE  BatchSafe'
  <2>0. tester[p] \in Testing /\ tester[p].pc = "complete" /\ Supplied(p, tester[p]) /\ TesterInv(p)
    BY <1>0, <1>2 DEF CompleteBatch, BatchTypes, LedgerTypeOK, BatchSafe
  <2>1. /\ tester[p].key \in Output /\ tester[p].artifact \in Artifact
        /\ ran[tester[p].key] # <<>>
    BY <2>0 DEF Supplied, Testing, TesterInv
  <2>2. tester' = [tester EXCEPT ![p] = Away]
    BY <1>2 DEF CompleteBatch, GoAway
  <2>3. tester' \in [Tester -> Testing] /\ \A q \in Tester : tester'[q] \in {tester[q], Away}
    BY <1>0, <2>2, AwayRests DEF LedgerTypeOK
  <2>4. damage = 0 => artifacts[tester[p].key] = tester[p].artifact
    BY <2>0 DEF BatchSafe, BatchInPlace
  <2>5. UNCHANGED <<file, artifacts, ran, moves, damage>>
    BY <1>2 DEF CompleteBatch, batchFiles, inputs
  <2>6. CompleteRun(tester[p].key, tester[p].artifact)
    BY <1>2 DEF CompleteBatch
  <2> QED
    BY <1>1, <2>1, <2>3, <2>4, <2>5, <2>6
<1>3. ASSUME NEW key \in Output, RecoverArtifact(key)
      PROVE  BatchSafe'
  <2>1. CompleteRun(key, artifacts[key]) /\ artifacts[key] \in {Missing, Broken} \union Artifact
    BY <1>0, <1>3 DEF RecoverArtifact, LedgerTypeOK
  <2>2. ran[key] # <<>>
    BY <2>1 DEF CompleteRun, Accepts, BatchSafe, OutputInv
  <2>3. UNCHANGED <<file, artifacts, ran, moves, damage, tester>>
    BY <1>3 DEF RecoverArtifact, batchFiles, inputs
  <2>4. tester' \in [Tester -> Testing] /\ \A q \in Tester : tester'[q] \in {tester[q], Away}
    BY <1>0, <2>3 DEF LedgerTypeOK
  <2> QED
    BY <1>1, <2>1, <2>2, <2>3, <2>4
<1> QED
  BY <1>2, <1>3

-----------------------------------------------------------------------------
(* The batch scripts: the invariant is inductive and says what is claimed *)

\* An author's change of a file is one move.
LEMMA FileEdited ==
  ASSUME BatchSafe, InputsTypeOK, Edit, UNCHANGED <<artifacts, ran, tester>>,
         LedgerTypeOK',
         \A k \in Output : runs'[k] = runs[k] /\ completions'[k] = completions[k]
  PROVE  BatchSafe'
<1>1. moves' # 0 /\ damage' = damage
  BY DEF Edit, InputsTypeOK
<1>2. BatchTypes'
  BY DEF BatchSafe, BatchTypes
<1>3. \A p \in Tester : TesterInv(p)'
  BY DEF BatchSafe, TesterInv, ArtifactOf, KindOf, BatchTypes, Supplied, Registered
<1>4. \A k \in Output : OutputInv(k)'
  BY DEF BatchSafe, OutputInv
<1>5. damage' = 0 => BatchInPlace'
  BY <1>1 DEF BatchSafe, BatchInPlace, ArtifactOf
<1> QED
  BY <1>1, <1>2, <1>3, <1>4, <1>5 DEF BatchSafe

\* A file that an author changed has a content.
LEMMA EditTyped ==
  ASSUME file \in [Input -> Content], Edit
  PROVE  file' \in [Input -> Content]
BY DEF Edit

\* Other workloads leave the scripts and the runs of their outputs alone.
LEMMA BatchStutters ==
  ASSUME BatchSafe, UNCHANGED <<file, artifacts, ran, tester>>, LedgerTypeOK',
         \A k \in Output : runs'[k] = runs[k] /\ completions'[k] = completions[k],
         damage' = 0 => damage = 0, moves' = 0 => moves = 0
  PROVE  BatchSafe'
<1>1. BatchTypes'
  BY DEF BatchSafe, BatchTypes
<1>2. \A p \in Tester : TesterInv(p)'
  BY DEF BatchSafe, TesterInv, ArtifactOf, KindOf, BatchTypes, Supplied, Registered
<1>3. \A k \in Output : OutputInv(k)'
  BY DEF BatchSafe, OutputInv
<1>4. damage' = 0 => BatchInPlace'
  BY DEF BatchSafe, BatchInPlace, ArtifactOf
<1>5. moves' = 0 => BatchStill'
  BY DEF BatchSafe, BatchStill
<1> QED
  BY <1>1, <1>2, <1>3, <1>4, <1>5 DEF BatchSafe

\* Every step of the scripts keeps their invariant.
LEMMA BatchKept ==
  ASSUME BatchSafe, InputsTypeOK, LedgerNext, damage' = 0 => damage = 0, moves' = 0 => moves = 0
  PROVE  BatchSafe'
<1>1. ASSUME NEW p \in Tester, \E key \in Output : Start(p, key)
      PROVE  BatchSafe'
  BY <1>1, ScriptGoesOn
<1>2. ASSUME NEW p \in Tester, BatchStep(p)
      PROVE  BatchSafe'
  <2>1. CASE OpenSources(p) \/ HashSources(p) \/ LoadPackages(p) \/ RaiseBatch(p)
    BY <2>1, ScriptGoesOn
  <2>2. CASE RegisterBatch(p)
    BY <2>2, BatchRegisters
  <2>3. CASE EvaluateBatch(p)
    BY <2>3, BatchEvaluates
  <2>4. CASE WriteArtifact(p)
    BY <2>4, BatchWrites
  <2>5. CASE CompleteBatch(p)
    BY <2>5, BatchCompletes
  <2> QED
    BY <1>2, <2>1, <2>2, <2>3, <2>4, <2>5 DEF BatchStep
<1>3. ASSUME NEW p \in Tester, DieBatch(p)
      PROVE  BatchSafe'
  <2>1. CASE artifacts' = artifacts
    BY <1>3, <2>1, ScriptGoesOn
  <2>2. CASE artifacts' # artifacts
    BY <1>3, <2>2, BatchWrites
  <2> QED
    BY <2>1, <2>2
<1>4. ASSUME NEW key \in Output, RecoverArtifact(key)
      PROVE  BatchSafe'
  BY <1>4, BatchCompletes
<1>5. ASSUME NEW key \in Output, DamageArtifact(key)
      PROVE  BatchSafe'
  BY <1>5, ArtifactDamaged
<1>6. CASE Edit /\ UNCHANGED <<ledgerTables, batchFiles, tester>>
  <2>1. UNCHANGED <<runs, completions, artifacts, ran, tester>>
    BY <1>6 DEF ledgerTables, batchFiles
  <2>2. LedgerTypeOK'
    BY <1>6, <2>1, EditTyped DEF BatchSafe, BatchTypes, LedgerTypeOK
  <2> QED
    BY <1>6, <2>1, <2>2, FileEdited
<1> QED
  BY <1>1, <1>2, <1>3, <1>4, <1>5, <1>6 DEF LedgerNext

\* Initially no script has begun.
LEMMA BatchInitially ==
  ASSUME LedgerInit
  PROVE  BatchSafe
<1>1. LedgerTypeOK
  BY AwayRests DEF LedgerInit, LedgerTypeOK
<1>2. \A p \in Tester : Supplied(p, tester[p]) /\ TesterInv(p)
  BY AwayRests DEF LedgerInit, Supplied, TesterInv, Registered
<1>3. \A k \in Output : OutputInv(k)
  BY OutputKeys DEF LedgerInit, OutputInv
<1>4. BatchInPlace /\ BatchStill
  BY OutputKeys, AwayRests DEF LedgerInit, BatchInPlace, BatchStill
<1> QED
  BY <1>1, <1>2, <1>3, <1>4 DEF BatchSafe, BatchTypes

\* The scripts' inputs are accounted for.
LEMMA BatchesFollow == BatchSafe => BatchesAccounted
<1> SUFFICES ASSUME BatchSafe, NEW k \in Output
             PROVE  /\ Len(ran[k]) <= 1
                    /\ completions[k] # Missing => \A i \in Input :
                         LET outcome == completions[k].outcomes[i] IN
                         /\ ran[k] # <<>>
                         /\ outcome.digest = runs[k].inputs[i]
                         /\ damage = 0 => completions[k] = artifacts[k]
                         /\ damage = 0 /\ outcome.status = "tested" =>
                              /\ Reads[ran[k][1][i]] = "compiled"
                              /\ moves = 0 \/ runs[k].kind = "pine" => ran[k][1][i] = outcome.digest
  BY DEF BatchesAccounted
<1>0. /\ OutputInv(k) /\ completions[k] \in {Missing} \union Artifact
      /\ runs[k] \in {Missing} \union Run
  BY OutputKeys DEF BatchSafe, BatchTypes, LedgerTypeOK
<1>1. Len(ran[k]) <= 1
  <2>1. CASE ran[k] = <<>>
    BY <2>1
  <2>2. CASE \E raw \in [Input -> Content] : ran[k] = <<raw>>
    BY <2>2, Single
  <2> QED
    BY <1>0, <2>1, <2>2 DEF OutputInv
<1>2. ASSUME completions[k] # Missing, NEW i \in Input
      PROVE  /\ ran[k] # <<>>
             /\ completions[k].outcomes[i].digest = runs[k].inputs[i]
             /\ damage = 0 => completions[k] = artifacts[k]
  BY <1>0, <1>2 DEF OutputInv, BatchSafe, BatchInPlace
<1>3. ASSUME completions[k] # Missing, NEW i \in Input, damage = 0,
             completions[k].outcomes[i].status = "tested"
      PROVE  /\ Reads[ran[k][1][i]] = "compiled"
             /\ moves = 0 \/ runs[k].kind = "pine" =>
                  ran[k][1][i] = completions[k].outcomes[i].digest
  <2>1. ran[k] # <<>> /\ runs[k] # Missing /\ completions[k] = artifacts[k]
    BY <1>0, <1>2, <1>3 DEF OutputInv
  <2>2. PICK raw \in [Input -> Content] : ran[k] = <<raw>> /\ ran[k][1] = raw
    BY <1>0, <2>1, Single DEF OutputInv
  <2>3. artifacts[k] \notin {Missing, Broken}
    BY <1>0, <1>3, <2>1, LedgerAssumption
  <2>4. completions[k] = ArtifactOf(runs[k], raw)
    BY <1>3, <2>1, <2>2, <2>3 DEF BatchSafe, BatchInPlace
  <2>5. PICK digest : digest = runs[k].inputs[i]
    OBVIOUS
  <2>6. completions[k].outcomes[i] = OutcomeOf(runs[k].kind = "pine", digest, raw[i])
    BY <2>4, <2>5 DEF ArtifactOf
  <2>7. raw[i] \in Content /\ Reads[raw[i]] # "tested"
    BY <2>2, InputAssumption
  <2>8. /\ Reads[raw[i]] = "compiled" /\ completions[k].outcomes[i].digest = digest
        /\ runs[k].kind = "pine" => raw[i] = digest
    BY <1>3, <2>6, <2>7 DEF OutcomeOf
  <2>9. moves = 0 => raw = file /\ digest = file[i]
    <3> SUFFICES ASSUME BatchStill
                 PROVE  raw = file /\ digest = file[i]
      BY DEF BatchSafe
    <3>1. ran[k] = <<file>> /\ runs[k].inputs = file
      BY <2>1 DEF BatchStill
    <3> QED
      BY <2>2, <2>5, <3>1, Single
  <2> QED
    BY <2>2, <2>8, <2>9
<1> QED
  BY <1>1, <1>2, <1>3

-----------------------------------------------------------------------------
(* The source workflow: frames *)

\* A process of the workflow goes from one place to another.
LEMMA ClerkGoes ==
  ASSUME WorkflowTypeOK, NEW p \in Clerk, NEW from, NEW to \in Place, Go(p, from, to)
  PROVE  /\ clerk[p] = from /\ clerk' \in [Clerk -> Place] /\ clerk'[p] = to
         /\ \A q \in Clerk \ {p} : clerk'[q] = clerk[q]
BY DEF WorkflowTypeOK, Go

\* A command that ends gives up its own lock only.
LEMMA ClerkFinishes ==
  ASSUME WorkflowTypeOK, NEW p \in Clerk, Finish(p)
  PROVE  /\ clerk' \in [Clerk -> Place] /\ clerk'[p] = "idle"
         /\ lock' \in Clerk \union {Unlocked}
         /\ \A q \in Clerk \ {p} : clerk'[q] = clerk[q] /\ (lock = q => lock' = q)
BY DEF WorkflowTypeOK, Finish, Free, Place

\* The holder of the lock who has begun to work, or finds sources, is alone.
LEMMA Alone ==
  ASSUME SourceSafe, NEW p \in Clerk, clerk[p] \in Inside,
         clerk[p] # "recover" \/ output.manifest # Missing
  PROVE  /\ \A q \in Clerk \ {p} : clerk[q] = "idle"
         /\ lock = p /\ output \in Directory
<1>1. lock = p /\ output \in Directory
  BY DEF SourceSafe, ClerkInv, Inside, Place, WorkflowTypeOK
<1>2. ASSUME NEW q \in Clerk \ {p}, clerk[q] # "idle"
      PROVE  FALSE
  <2>1. clerk[q] \in Place
    BY DEF SourceSafe, WorkflowTypeOK
  <2>2. CASE clerk[q] \in Inside
    BY <1>1, <2>2 DEF SourceSafe, ClerkInv
  <2>3. CASE clerk[q] = "lock"
    <3>1. clerk[p] = "recover" /\ Fresh
      BY <2>3 DEF SourceSafe, ClerkInv, Inside
    <3> QED
      BY <3>1 DEF Fresh, NewOutput
  <2> QED
    BY <1>2, <2>1, <2>2, <2>3 DEF Inside
<1> QED
  BY <1>1, <1>2

\* A step of a process that is alone is about its own place.
LEMMA OnlyClerk ==
  ASSUME NEW p \in Clerk, \A q \in Clerk \ {p} : clerk'[q] = "idle",
         WorkflowTypeOK', DirectoryInv', ClerkInv(p)',
         damage' = 0 => DirectoryInPlace' /\ ClerkInPlace(p)'
  PROVE  SourceSafe'
<1>1. \A q \in Clerk \ {p} : ClerkInv(q)'
  BY DEF ClerkInv, Inside, Compiling, Executing
<1>2. \A q \in Clerk \ {p} : ClerkInPlace(q)'
  BY DEF ClerkInPlace, Executing
<1> QED
  BY <1>1, <1>2 DEF SourceSafe

\* A process that is idle supposes nothing.
LEMMA IdleClerk ==
  ASSUME NEW p \in Clerk, clerk[p] = "idle"
  PROVE  ClerkInv(p) /\ ClerkInPlace(p)
BY DEF ClerkInv, ClerkInPlace, Inside, Compiling, Executing

\* Files of the directory that are written after the compilation, or before it
\* without its being touched.
LEMMA FilesChange ==
  ASSUME SourceSafe, output \in Directory, output' \in Directory,
         output'.artifact = output.artifact, UNCHANGED <<runs, completions, made>>,
         done'.compiled = done.compiled, done'.executed \in {0, 1},
         \A i \in Input : output'.captured[i] # Missing =>
           output.captured[i] # Missing \/ runs["compilation"] # Missing,
         output'.parity # Missing => done'.executed = 1,
         damage = 0 /\ output'.batch # Missing =>
           output.batch # Missing \/ (output.artifact # Missing /\ Packages # {}),
         damage = 0 /\ output'.results \notin {Missing, Broken} =>
           recorded # Missing /\ output'.results = Consolidated' /\ Closed',
         damage' = damage
  PROVE  /\ DirectoryInv' /\ (damage' = 0 => DirectoryInPlace')
         /\ Packages' = Packages /\ recorded' = recorded
<1>1. output # Missing /\ output' # Missing
  BY DirectoryAssumption
<1>2. Packages' = Packages /\ recorded' = recorded
  BY DEF Packages, recorded
<1>3. DirectoryInv
  BY DEF SourceSafe
<1>4. DirectoryInv'
  <2>1. \A i \in Input : /\ made'[i] = Missing => done'.compiled[i] = 0
                         /\ made'[i] = "compiled" => done'.compiled[i] = 1
                         /\ done'.compiled[i] <= 1
    BY <1>3 DEF DirectoryInv
  <2>2. recorded' # Missing => Honest(recorded)'
    BY <1>2, <1>3 DEF DirectoryInv, Honest
  <2>3. output'.artifact # Missing => Honest(output.artifact)'
    BY <1>1, <1>3 DEF DirectoryInv, Honest
  <2>4. \A i \in Input : output'.captured[i] # Missing => runs'["compilation"] # Missing
    BY <1>1, <1>3 DEF DirectoryInv
  <2>5. done'.executed <= 1
    OBVIOUS
  <2>6. output' # Missing
    BY <1>1
  <2> QED
    BY <2>1, <2>2, <2>3, <2>4, <2>5, <2>6 DEF DirectoryInv
<1>5. ASSUME damage = 0
      PROVE  DirectoryInPlace'
  <2>1. DirectoryInPlace
    BY <1>5 DEF SourceSafe
  <2> QED
    BY <1>1, <1>2, <1>5, <2>1 DEF DirectoryInPlace
<1> QED
  BY <1>2, <1>4, <1>5

\* A step that leaves the directory alone.
LEMMA DirectoryStays ==
  ASSUME SourceSafe, output # Missing, UNCHANGED <<output, runs, completions, made, done>>,
         damage' = 0 => damage = 0
  PROVE  /\ DirectoryInv' /\ (damage' = 0 => DirectoryInPlace')
         /\ Packages' = Packages /\ recorded' = recorded
<1>1. Packages' = Packages /\ recorded' = recorded
  BY DEF Packages, recorded
<1>2. DirectoryInv'
  BY <1>1 DEF SourceSafe, DirectoryInv, Honest
<1>3. ASSUME damage' = 0
      PROVE  DirectoryInPlace'
  BY <1>1, <1>3 DEF SourceSafe, DirectoryInPlace, Consolidated, Closed
<1> QED
  BY <1>1, <1>2, <1>3

\* What is new is empty.
LEMMA NewDirectory ==
  /\ NewOutput \in Directory
  /\ NewOutput.captured = [i \in Input |-> Missing]
  /\ NewOutput.artifact = Missing /\ NewOutput.batch = Missing /\ NewOutput.parity = Missing
  /\ NewOutput.results = Missing
BY DEF NewOutput, Directory, Captures, Batch

-----------------------------------------------------------------------------
(* The source workflow: its steps *)

\* A submission makes the directory, which was not there.
LEMMA Submits ==
  ASSUME SourceSafe, NEW p \in Clerk, Submit(p)
  PROVE  SourceSafe'
<1>1. WorkflowTypeOK /\ DirectoryInv /\ output = Missing
  BY DEF SourceSafe, Submit
<1>2. /\ clerk' \in [Clerk -> Place] /\ clerk'[p] = "lock"
      /\ \A q \in Clerk \ {p} : clerk'[q] = "idle"
  BY <1>1, ClerkGoes DEF Submit, Place, DirectoryInv
<1>3. UNCHANGED <<runs, completions, done, lock, made, damage>> /\ output' = NewOutput
  BY DEF Submit, Keep, Unchanged, ledgerTables, inputs
<1>4. WorkflowTypeOK'
  BY <1>1, <1>2, <1>3, NewDirectory DEF WorkflowTypeOK
<1>5. output' # Missing /\ recorded' = Missing /\ Fresh'
  BY <1>1, <1>3, NewDirectory, DirectoryAssumption DEF DirectoryInv, Fresh, recorded
<1>6. DirectoryInv'
  BY <1>1, <1>3, <1>5, NewDirectory, DirectoryAssumption DEF DirectoryInv
<1>7. DirectoryInPlace'
  BY <1>3, <1>5, NewDirectory DEF DirectoryInPlace
<1>8. ClerkInv(p)' /\ ClerkInPlace(p)'
  BY <1>2, <1>5 DEF ClerkInv, ClerkInPlace, Inside, Compiling, Executing
<1> QED
  BY <1>2, <1>4, <1>6, <1>7, <1>8, OnlyClerk

\* The lock is taken by the submission.
LEMMA Locks ==
  ASSUME SourceSafe, NEW p \in Clerk, Lock(p)
  PROVE  SourceSafe'
<1>1. WorkflowTypeOK /\ DirectoryInv /\ ClerkInv(p) /\ clerk[p] = "lock" /\ lock = Unlocked
  BY DEF SourceSafe, Lock, Go
<1>2. \A q \in Clerk \ {p} : clerk[q] = "idle"
  <2> SUFFICES ASSUME NEW q \in Clerk \ {p}, clerk[q] = "recover"
               PROVE  FALSE
    BY <1>1 DEF ClerkInv
  <2>1. lock = q
    BY DEF SourceSafe, ClerkInv, Inside, Place
  <2> QED
    BY <1>1, <2>1, DeclaredAssumption
<1>3. /\ clerk' \in [Clerk -> Place] /\ clerk'[p] = "register"
      /\ \A q \in Clerk \ {p} : clerk'[q] = "idle"
  BY <1>1, <1>2, ClerkGoes DEF Lock, Place
<1>4. UNCHANGED <<runs, completions, done, made, damage, output>> /\ lock' = p
  BY DEF Lock, Unchanged, ledgerTables, inputs
<1>5. WorkflowTypeOK'
  BY <1>1, <1>3, <1>4 DEF WorkflowTypeOK
<1>6. output # Missing /\ Fresh
  BY <1>1 DEF ClerkInv
<1>7. DirectoryInv' /\ (damage' = 0 => DirectoryInPlace')
  BY <1>4, <1>6, DirectoryStays
<1>8. Fresh'
  BY <1>4, <1>6 DEF Fresh, recorded
<1>9. ClerkInv(p)' /\ ClerkInPlace(p)'
  BY <1>3, <1>4, <1>6, <1>8 DEF ClerkInv, ClerkInPlace, Compiling, Executing
<1> QED
  BY <1>3, <1>5, <1>7, <1>9, OnlyClerk

\* The inputs are registered in a fresh directory.
LEMMA Registers ==
  ASSUME SourceSafe, LedgerTypeOK, NEW p \in Clerk, Register(p)
  PROVE  SourceSafe' /\ LedgerTypeOK'
<1>1. WorkflowTypeOK /\ DirectoryInv /\ clerk[p] = "register" /\ ClerkInv(p)
  BY DEF SourceSafe, Register, Go
<1>2. Fresh /\ lock = p /\ output # Missing /\ \A q \in Clerk \ {p} : clerk[q] = "idle"
  BY <1>1, Alone DEF Inside, Place, ClerkInv
<1>3. /\ clerk' \in [Clerk -> Place] /\ clerk'[p] = "capture"
      /\ \A q \in Clerk \ {p} : clerk'[q] = "idle"
  BY <1>1, <1>2, ClerkGoes DEF Register, Place
<1>4. UNCHANGED <<file, artifacts, tester, ran, done, lock, made, damage, output>>
  BY DEF Register, Keep, Unchanged, Unconcerned, batchFiles, inputs
<1>5. /\ runs' \in [Key -> {Missing} \union Run] /\ completions' = completions
      /\ runs'["compilation"] # Missing
  BY OutputKeys, DeclaredAssumption, RunBegins DEF Register, Kind
<1>6. LedgerTypeOK'
  BY <1>4, <1>5 DEF LedgerTypeOK
<1>7. WorkflowTypeOK'
  BY <1>1, <1>3, <1>4 DEF WorkflowTypeOK
<1>8. recorded' = Missing /\ recorded = Missing
  BY <1>2, <1>5 DEF recorded, Fresh
<1>9. DirectoryInv'
  BY <1>1, <1>2, <1>4, <1>5, <1>8, NewDirectory DEF DirectoryInv, Fresh
<1>10. DirectoryInPlace'
  BY <1>2, <1>4, <1>8, NewDirectory DEF DirectoryInPlace, Fresh
<1>11. ClerkInv(p)' /\ ClerkInPlace(p)'
  BY <1>2, <1>3, <1>4, <1>5, NewDirectory DEF ClerkInv, ClerkInPlace, Compiling, Executing, Fresh
<1> QED
  BY <1>3, <1>6, <1>7, <1>9, <1>10, <1>11, OnlyClerk

\* What holds of a process while it compiles, or later.
LEMMA Working ==
  ASSUME SourceSafe, NEW p \in Clerk, clerk[p] \in Compiling \union Executing
  PROVE  /\ WorkflowTypeOK /\ DirectoryInv /\ ClerkInv(p) /\ output \in Directory
         /\ lock = p /\ \A q \in Clerk \ {p} : clerk[q] = "idle"
         /\ output # Missing /\ output.results = Missing
         /\ damage = 0 => DirectoryInPlace /\ ClerkInPlace(p)
<1>1. clerk[p] \in Inside /\ clerk[p] \notin {"recover", "idle"}
  BY DEF Inside, Place, Compiling, Executing
<1>2. ClerkInv(p) /\ WorkflowTypeOK /\ DirectoryInv
  BY DEF SourceSafe
<1>3. damage = 0 => DirectoryInPlace /\ ClerkInPlace(p)
  BY DEF SourceSafe
<1>4. output # Missing /\ output.results = Missing
  BY <1>1, <1>2 DEF ClerkInv
<1> QED
  BY <1>1, <1>2, <1>3, <1>4, Alone

\* The history is captured, or found not to be the declared one.
LEMMA HistoryCaptured ==
  ASSUME SourceSafe, NEW p \in Clerk, CaptureHistory(p)
  PROVE  SourceSafe'
<1>1. clerk[p] = "capture"
  BY DEF CaptureHistory
<1>2. /\ WorkflowTypeOK /\ DirectoryInv /\ ClerkInv(p) /\ output \in Directory
      /\ lock = p /\ \A q \in Clerk \ {p} : clerk[q] = "idle"
      /\ output # Missing /\ output.results = Missing
      /\ damage = 0 => DirectoryInPlace /\ ClerkInPlace(p)
  BY <1>1, Working DEF Compiling
<1>3. PICK same \in BOOLEAN : output' = [output EXCEPT !.history = same]
  BY DEF CaptureHistory
<1>4. PICK new : new = [output EXCEPT !.history = same]
  OBVIOUS
<1>5. /\ new \in Directory /\ new.captured = output.captured /\ new.artifact = output.artifact
      /\ new.batch = output.batch /\ new.parity = output.parity /\ new.results = output.results
      /\ new.timing = output.timing
  BY <1>2, <1>4 DEF Directory
<1>6. UNCHANGED <<runs, completions, clerk, done, lock, made, damage>> /\ output' = new
  BY <1>3, <1>4 DEF CaptureHistory, Keep, Unchanged, ledgerTables, inputs
<1>7. done.executed = 0
  BY <1>1, <1>2 DEF ClerkInv, Compiling
<1>8. DirectoryInv' /\ (damage' = 0 => DirectoryInPlace')
  <2>1. new.parity # Missing => done'.executed = 1
    BY <1>2, <1>5, <1>6 DEF DirectoryInv
  <2>2. done'.compiled = done.compiled /\ done'.executed \in {0, 1}
    BY <1>6, <1>7
  <2>3. new.results = Missing
    BY <1>2, <1>5
  <2>4. UNCHANGED <<runs, completions, made, damage>> /\ output' = new
    BY <1>6
  <2>5. new.captured = output.captured /\ new.batch = output.batch /\ output \in Directory
    BY <1>2, <1>5
  <2> QED
    BY <1>5, <2>1, <2>2, <2>3, <2>4, <2>5, FilesChange
<1>9. WorkflowTypeOK'
  BY <1>2, <1>5, <1>6 DEF WorkflowTypeOK
<1>10. ClerkInv(p)' /\ ClerkInPlace(p)'
  BY <1>1, <1>2, <1>5, <1>6, DirectoryAssumption DEF ClerkInv, ClerkInPlace, Compiling, Executing
<1> QED
  BY <1>2, <1>6, <1>8, <1>9, <1>10, OnlyClerk

\* An input is captured, and compiled where it is the declared one.
LEMMA Captured ==
  ASSUME SourceSafe, LedgerTypeOK, NEW p \in Clerk, NEW i \in Input, Capture(p, i)
  PROVE  SourceSafe'
<1>1. clerk[p] = "capture" /\ made[i] = Missing
  BY DEF Capture
<1>2. /\ WorkflowTypeOK /\ DirectoryInv /\ ClerkInv(p) /\ output \in Directory
      /\ lock = p /\ \A q \in Clerk \ {p} : clerk[q] = "idle"
      /\ output # Missing /\ output.results = Missing
      /\ damage = 0 => DirectoryInPlace /\ ClerkInPlace(p)
  BY <1>1, Working DEF Compiling
<1>3. PICK captured : captured = [output.captured EXCEPT ![i] = file[i]]
  OBVIOUS
<1>4. captured \in Captures
  BY <1>2, <1>3 DEF Directory, Captures, LedgerTypeOK
<1>5. PICK new : new = [output EXCEPT !.captured = captured]
  OBVIOUS
<1>6. /\ new \in Directory /\ new.artifact = output.artifact
      /\ new.batch = output.batch /\ new.parity = output.parity /\ new.results = output.results
      /\ new # Missing
  BY <1>2, <1>4, <1>5, DirectoryAssumption DEF Directory
<1>7. output' = new
  BY <1>2, <1>3, <1>5 DEF Capture, Directory
<1>8. UNCHANGED <<runs, completions, clerk, lock, damage>>
  BY DEF Capture, Unchanged, ledgerTables, inputs
<1>9. /\ runs["compilation"] # Missing /\ output.artifact = Missing /\ done.executed = 0
      /\ output.batch = Missing
  BY <1>1, <1>2 DEF ClerkInv, Compiling
<1>10. PICK status : status = StatusOf(i)
  OBVIOUS
<1>11. made' = [made EXCEPT ![i] = status] /\ status # Missing
       /\ status \in {Missing, "invalid"} \union {Reads[c] : c \in Content}
  BY <1>10, InputAssumption, DirectoryAssumption DEF Capture, StatusOf, LedgerTypeOK
<1>12. /\ done' \in [compiled : [Input -> Nat], executed : Nat] /\ done'.executed = 0
       /\ \A j \in Input \ {i} : done'.compiled[j] = done.compiled[j]
       /\ done'.compiled[i] <= 1
       /\ status = "compiled" => done'.compiled[i] = 1
  <2>1. done \in [compiled : [Input -> Nat], executed : Nat] /\ done.compiled[i] = 0
    BY <1>1, <1>2 DEF WorkflowTypeOK, DirectoryInv
  <2>2. CASE file[i] = Declared[i] /\ output.history
    <3>1. PICK counts \in [Input -> Nat] : counts = [done.compiled EXCEPT ![i] = 1]
      BY <2>1
    <3>2. PICK did : did = [done EXCEPT !.compiled = counts]
      OBVIOUS
    <3>3. did \in [compiled : [Input -> Nat], executed : Nat] /\ did.compiled = counts
          /\ did.executed = done.executed
      BY <2>1, <3>2
    <3>4. done' = did
      BY <2>1, <2>2, <3>1, <3>2 DEF Capture
    <3> QED
      BY <1>9, <3>1, <3>3, <3>4
  <2>3. CASE ~(file[i] = Declared[i] /\ output.history)
    <3>1. done' = done
      BY <2>3 DEF Capture
    <3>2. status = "invalid"
      BY <1>10, <2>3 DEF StatusOf
    <3> QED
      BY <1>9, <2>1, <3>1, <3>2
  <2> QED
    BY <2>2, <2>3
<1>13. /\ made'[i] = status /\ \A j \in Input \ {i} : made'[j] = made[j]
       /\ made' \in [Input -> {Missing, "invalid"} \union {Reads[c] : c \in Content}]
  BY <1>2, <1>11 DEF WorkflowTypeOK
<1>14. WorkflowTypeOK'
  BY <1>2, <1>6, <1>7, <1>8, <1>12, <1>13 DEF WorkflowTypeOK
<1>15. \A artifact : Honest(artifact) => Honest(artifact)'
  BY <1>1, <1>2, <1>12 DEF Honest, DirectoryInv
<1>16. recorded' = recorded /\ (recorded # Missing => Honest(recorded)')
  BY <1>2, <1>8, <1>15 DEF recorded, DirectoryInv
<1>17. DirectoryInv'
  <2>1. \A j \in Input : /\ made'[j] = Missing => done'.compiled[j] = 0
                         /\ made'[j] = "compiled" => done'.compiled[j] = 1
                         /\ done'.compiled[j] <= 1
    BY <1>2, <1>11, <1>12, <1>13 DEF DirectoryInv
  <2>2. recorded' # Missing => Honest(recorded)'
    BY <1>16 DEF Honest
  <2> QED
    BY <1>2, <1>6, <1>7, <1>8, <1>9, <1>12, <2>1, <2>2 DEF DirectoryInv
<1>18. damage' = 0 => DirectoryInPlace'
  BY <1>2, <1>6, <1>7, <1>8, <1>9, <1>16 DEF DirectoryInPlace
<1>19. ClerkInv(p)' /\ ClerkInPlace(p)'
  BY <1>1, <1>2, <1>6, <1>7, <1>8, <1>9, <1>12 DEF ClerkInv, ClerkInPlace, Compiling, Executing
<1> QED
  BY <1>2, <1>8, <1>14, <1>17, <1>18, <1>19, OnlyClerk

\* compilation.json says what was compiled.
LEMMA CompilationWritten ==
  ASSUME SourceSafe, LedgerTypeOK, NEW p \in Clerk, WriteCompilation(p)
  PROVE  SourceSafe'
<1>1. clerk[p] = "capture"
  BY DEF WriteCompilation, Go
<1>2. /\ WorkflowTypeOK /\ DirectoryInv /\ ClerkInv(p) /\ output \in Directory
      /\ lock = p /\ \A q \in Clerk \ {p} : clerk[q] = "idle"
      /\ output # Missing /\ output.results = Missing
      /\ damage = 0 => DirectoryInPlace /\ ClerkInPlace(p)
  BY <1>1, Working DEF Compiling
<1>3. /\ clerk' \in [Clerk -> Place] /\ clerk'[p] = "seal"
      /\ \A q \in Clerk \ {p} : clerk'[q] = "idle"
  BY <1>2, ClerkGoes DEF WriteCompilation, Place
<1>4. PICK artifact : artifact = [kind |-> "workflow",
        outcomes |-> [i \in Input |-> [digest |-> Declared[i], status |-> made[i]]]]
  OBVIOUS
<1>5. artifact \in Artifact /\ artifact # Missing /\ Honest(artifact)
  <2>1. \A i \in Input : made[i] # Missing
    BY DEF WriteCompilation
  <2>2. ASSUME NEW i \in Input
        PROVE  [digest |-> Declared[i], status |-> made[i]] \in Outcome
    <3>1. made[i] \in {"invalid"} \union {Reads[c] : c \in Content}
      BY <1>2, <2>1 DEF WorkflowTypeOK
    <3>2. made[i] \in {"invalid", "compiled", "unsupported", "needs_source_parser", "conformance_failed"}
      BY <3>1, InputAssumption
    <3> QED
      BY <3>2, DeclaredAssumption DEF Outcome
  <2>3. artifact \in Artifact
    BY <1>4, <2>2 DEF Artifact, Kind
  <2>4. \A i \in Input : /\ artifact.outcomes[i].digest = Declared[i]
                         /\ artifact.outcomes[i].status = made[i]
    BY <1>4
  <2> QED
    BY <1>2, <2>3, <2>4, LedgerAssumption DEF Honest, DirectoryInv
<1>6. PICK new : new = [output EXCEPT !.listed = output.captured, !.artifact = artifact]
  OBVIOUS
<1>7. /\ new \in Directory /\ new.captured = output.captured /\ new.artifact = artifact
      /\ new.batch = output.batch /\ new.parity = output.parity /\ new.results = output.results
      /\ new # Missing
  <2>1. output.captured \in Captures
    BY <1>2 DEF Directory
  <2>2. /\ new \in Directory /\ new.captured = output.captured /\ new.artifact = artifact
        /\ new.batch = output.batch /\ new.parity = output.parity /\ new.results = output.results
    BY <1>2, <1>5, <1>6, <2>1 DEF Directory
  <2> QED
    BY <2>2, DirectoryAssumption
<1>8. output' = new
  BY <1>4, <1>6 DEF WriteCompilation
<1>9. UNCHANGED <<runs, completions, lock, made, done, damage>>
  BY DEF WriteCompilation, Keep, Unchanged, ledgerTables, inputs
<1>10. /\ done.executed = 0 /\ output.batch = Missing /\ output.artifact = Missing
  BY <1>1, <1>2 DEF ClerkInv, Compiling
<1>11. recorded' = recorded /\ (Honest(artifact))' /\ (recorded # Missing => Honest(recorded)')
  BY <1>2, <1>5, <1>9 DEF recorded, Honest, DirectoryInv
<1>12. DirectoryInv'
  <2>1. recorded' # Missing => Honest(recorded)'
    BY <1>11 DEF Honest
  <2>2. Honest(output.artifact)'
    BY <1>7, <1>8, <1>11 DEF Honest
  <2> QED
    BY <1>2, <1>7, <1>8, <1>9, <1>10, <2>1, <2>2 DEF DirectoryInv
<1>13. damage' = 0 => DirectoryInPlace'
  <2> SUFFICES ASSUME damage = 0
               PROVE  DirectoryInPlace'
    BY <1>9
  <2>1. recorded = Missing
    BY <1>2, <1>10 DEF DirectoryInPlace
  <2> QED
    BY <1>2, <1>7, <1>8, <1>10, <1>11, <2>1 DEF DirectoryInPlace
<1>14. WorkflowTypeOK'
  BY <1>2, <1>3, <1>7, <1>8, <1>9 DEF WorkflowTypeOK
<1>15. ClerkInv(p)' /\ ClerkInPlace(p)'
  BY <1>2, <1>3, <1>5, <1>7, <1>8, <1>9, <1>10 DEF ClerkInv, ClerkInPlace, Compiling, Executing
<1> QED
  BY <1>3, <1>12, <1>13, <1>14, <1>15, OnlyClerk

\* The manifest is linked and its .pending removed, and the history and the plan
\* of the batch are assembled: none of it is what the ledger knows.
LEMMA FilesPrepared ==
  ASSUME SourceSafe, NEW p \in Clerk, LinkManifest(p) \/ UnlinkPending(p) \/ Assemble(p)
  PROVE  SourceSafe'
<1>1. clerk[p] \in {"seal", "unlink", "assemble"}
  BY DEF LinkManifest, UnlinkPending, Assemble, Go
<1>2. /\ WorkflowTypeOK /\ DirectoryInv /\ ClerkInv(p) /\ output \in Directory
      /\ lock = p /\ \A q \in Clerk \ {p} : clerk[q] = "idle"
      /\ output # Missing /\ output.results = Missing
      /\ damage = 0 => DirectoryInPlace /\ ClerkInPlace(p)
  BY <1>1, Working DEF Compiling, Executing
<1>3. output.artifact # Missing /\ done.executed = 0 /\ output.batch = Missing
  BY <1>1, <1>2 DEF ClerkInv, Compiling, Executing
<1>4. PICK to \in {"unlink", "complete", "batch"} :
        /\ clerk[p] = "seal" <=> to = "unlink"
        /\ clerk[p] = "assemble" <=> to = "batch"
        /\ Go(p, clerk[p], to)
  BY DEF LinkManifest, UnlinkPending, Assemble, Go
<1>5. /\ clerk' \in [Clerk -> Place] /\ clerk'[p] = to
      /\ \A q \in Clerk \ {p} : clerk'[q] = "idle"
  BY <1>2, <1>4, ClerkGoes DEF Place
<1>6. UNCHANGED <<runs, completions, lock, made, done, damage>>
  BY DEF LinkManifest, UnlinkPending, Assemble, Keep, Unchanged, ledgerTables, inputs
<1>7. /\ output' \in Directory /\ output'.captured = output.captured
      /\ output'.artifact = output.artifact /\ output'.batch = output.batch
      /\ output'.parity = output.parity /\ output'.results = output.results
      /\ to = "unlink" => output'.manifest # Missing
  <2>1. CASE LinkManifest(p)
    <3>1. PICK manifest \in Manifest :
            manifest = [captured |-> output.captured, artifact |-> output.artifact, pending |-> TRUE]
      BY <1>2, <1>3 DEF Manifest, Directory
    <3>2. output' = [output EXCEPT !.manifest = manifest]
      BY <2>1, <3>1 DEF LinkManifest
    <3>3. manifest # Missing
      BY <3>1, DirectoryAssumption
    <3> QED
      BY <1>2, <3>1, <3>2, <3>3 DEF Directory
  <2>2. CASE UnlinkPending(p)
    <3>1. clerk[p] = "unlink"
      BY <2>2 DEF UnlinkPending, Go
    <3>2. output.manifest \in Manifest
      BY <1>2, <3>1 DEF ClerkInv, Directory
    <3>3. PICK manifest : manifest = [output.manifest EXCEPT !.pending = FALSE]
      OBVIOUS
    <3>4. manifest \in Manifest
      BY <3>2, <3>3 DEF Manifest
    <3>5. output' = [output EXCEPT !.manifest = manifest]
      BY <1>2, <2>2, <3>3 DEF UnlinkPending, Directory
    <3> QED
      BY <1>2, <1>4, <3>1, <3>4, <3>5 DEF Directory
  <2>3. CASE Assemble(p)
    <3>1. clerk[p] = "assemble"
      BY <2>3 DEF Assemble, Go
    <3> QED
      BY <1>2, <1>4, <2>3, <3>1 DEF Assemble, Directory
  <2> QED
    BY <2>1, <2>2, <2>3
<1>8. DirectoryInv' /\ (damage' = 0 => DirectoryInPlace') /\ Packages' = Packages /\ recorded' = recorded
  <2>1. output'.parity # Missing => done'.executed = 1
    BY <1>2, <1>6, <1>7 DEF DirectoryInv
  <2>2. done'.compiled = done.compiled /\ done'.executed \in {0, 1}
    BY <1>3, <1>6
  <2>3. output'.results = Missing
    BY <1>2, <1>7
  <2> QED
    BY <1>2, <1>6, <1>7, <2>1, <2>2, <2>3, FilesChange
<1>9. output' # Missing /\ WorkflowTypeOK'
  BY <1>2, <1>5, <1>6, <1>7, DirectoryAssumption DEF WorkflowTypeOK
<1>10. ClerkInv(p)'
  BY <1>2, <1>3, <1>5, <1>6, <1>7, <1>9 DEF ClerkInv, Compiling, Executing
<1>11. damage' = 0 => ClerkInPlace(p)'
  <2> SUFFICES ASSUME damage = 0
               PROVE  ClerkInPlace(p)'
    BY <1>6
  <2>1. to = "batch" => recorded # Missing /\ Packages # {}
    BY <1>2, <1>4 DEF ClerkInPlace, Executing
  <2> QED
    BY <1>5, <1>8, <2>1 DEF ClerkInPlace, Executing
<1> QED
  BY <1>5, <1>8, <1>9, <1>10, <1>11, OnlyClerk

\* The ledger's run is completed with what the directory says, by the process
\* that compiled or by a recovery that verified the sources.
LEMMA SourcesCompleted ==
  ASSUME SourceSafe, LedgerTypeOK, NEW p \in Clerk, CompleteSources(p) \/ RecoverSources(p)
  PROVE  SourceSafe' /\ LedgerTypeOK'
<1>1. clerk[p] \in {"complete", "recover"} /\ clerk[p] \in Inside
  BY DEF CompleteSources, RecoverSources, Go, Inside, Place
<1>2. clerk[p] # "recover" \/ output.manifest # Missing
  BY DEF CompleteSources, RecoverSources, Go, Verified
<1>3. /\ \A q \in Clerk \ {p} : clerk[q] = "idle"
      /\ lock = p /\ output \in Directory /\ output # Missing
  BY <1>1, <1>2, Alone, DirectoryAssumption
<1>4. WorkflowTypeOK /\ DirectoryInv /\ ClerkInv(p) /\ (damage = 0 => DirectoryInPlace)
  BY DEF SourceSafe
<1>5. PICK to \in {"time", "assemble", "report", "close"} :
        /\ Go(p, clerk[p], to)
        /\ to \in {"time", "report"} <=> Packages = {}
        /\ to \in {"time", "assemble"} <=> clerk[p] = "complete"
  BY DEF CompleteSources, RecoverSources, Go
<1>6. /\ clerk' \in [Clerk -> Place] /\ clerk'[p] = to
      /\ \A q \in Clerk \ {p} : clerk'[q] = "idle"
  BY <1>3, <1>4, <1>5, ClerkGoes DEF Place
<1>7. UNCHANGED <<file, artifacts, tester, ran, lock, made, done, damage, output>>
  BY DEF CompleteSources, RecoverSources, Keep, Unchanged, Unconcerned, batchFiles, inputs
<1>8. CompleteRun("compilation", output.artifact)
  BY DEF CompleteSources, RecoverSources
<1>9. output.artifact \in {Missing, Broken} \union Artifact
  BY <1>3 DEF Directory
<1>10. /\ runs' = runs /\ completions' \in [Key -> {Missing} \union Artifact]
       /\ completions'["compilation"] = output.artifact /\ output.artifact \in Artifact
       /\ runs["compilation"] # Missing
  BY <1>8, <1>9, RunCompletes, OutputKeys
<1>11. LedgerTypeOK'
  BY <1>7, <1>10 DEF LedgerTypeOK
<1>12. WorkflowTypeOK'
  BY <1>4, <1>6, <1>7 DEF WorkflowTypeOK
<1>13. /\ recorded' = output.artifact /\ recorded' # Missing /\ Packages' = Packages
       /\ Honest(output.artifact)' /\ Honest(recorded)'
  BY <1>3, <1>4, <1>7, <1>10, LedgerAssumption DEF recorded, Packages, DirectoryInv, Honest
<1>14. DirectoryInv'
  BY <1>3, <1>4, <1>7, <1>10, <1>13 DEF DirectoryInv
<1>15. damage = 0 => DirectoryInPlace'
  <2> SUFFICES ASSUME damage = 0
               PROVE  DirectoryInPlace'
    OBVIOUS
  <2>1. Consolidated' = Consolidated /\ (Closed <=> Closed')
    BY <1>7, <1>13 DEF Consolidated, Closed
  <2> QED
    BY <1>3, <1>4, <1>7, <1>13, <2>1 DEF DirectoryInPlace
<1>16. ClerkInv(p)'
  <2>1. CASE to \in {"time", "assemble"}
    <3>1. /\ output.results = Missing /\ output.artifact # Missing /\ done.executed = 0
          /\ output.batch = Missing
      BY <1>4, <1>5, <2>1 DEF ClerkInv, Compiling
    <3> QED
      BY <1>3, <1>6, <1>7, <2>1, <3>1 DEF ClerkInv, Compiling, Executing
  <2>2. CASE to \in {"report", "close"}
    BY <1>3, <1>6, <1>7, <2>2 DEF ClerkInv, Compiling, Executing
  <2> QED
    BY <2>1, <2>2
<1>17. damage = 0 => ClerkInPlace(p)'
  <2> SUFFICES ASSUME damage = 0
               PROVE  ClerkInPlace(p)'
    OBVIOUS
  <2>1. CASE to \in {"assemble", "close"}
    BY <1>5, <1>6, <1>13, <2>1 DEF ClerkInPlace, Executing
  <2>2. CASE to \in {"time", "report"}
    <3>1. output.batch = Missing /\ Packages = {}
      BY <1>3, <1>4, <1>5, <2>2 DEF DirectoryInPlace
    <3>2. Closed'
      BY <1>7, <1>13, <3>1, DirectoryAssumption DEF Closed
    <3> QED
      BY <1>6, <1>13, <2>2, <3>2 DEF ClerkInPlace, Executing
  <2> QED
    BY <2>1, <2>2
<1> QED
  BY <1>6, <1>7, <1>11, <1>12, <1>14, <1>15, <1>16, <1>17, OnlyClerk

\* The historical batch is admitted, executed and compared with LEAN, and the
\* timing is written, before there is a report.
LEMMA JobsRun ==
  ASSUME SourceSafe, NEW p \in Clerk,
         AdmitJobs(p) \/ ExecuteJobs(p) \/ OpenParity(p) \/ WriteParity(p) \/ WriteTiming(p)
  PROVE  SourceSafe'
<1>1. clerk[p] \in {"batch", "execute", "parity", "compare", "time"}
  BY DEF AdmitJobs, ExecuteJobs, OpenParity, WriteParity, WriteTiming, Go
<1>2. /\ WorkflowTypeOK /\ DirectoryInv /\ ClerkInv(p) /\ output \in Directory
      /\ lock = p /\ \A q \in Clerk \ {p} : clerk[q] = "idle"
      /\ output # Missing /\ output.results = Missing
      /\ damage = 0 => DirectoryInPlace /\ ClerkInPlace(p)
  BY <1>1, Working DEF Executing
<1>3. output.artifact # Missing /\ (damage = 0 => recorded # Missing)
  BY <1>1, <1>2 DEF ClerkInv, ClerkInPlace, Compiling, Executing
<1>4. UNCHANGED <<runs, completions, lock, made, damage>>
  BY DEF AdmitJobs, ExecuteJobs, OpenParity, WriteParity, WriteTiming, Keep, Unchanged,
     ledgerTables, inputs
<1>5. PICK to \in {"execute", "parity", "compare", "time", "report"} :
        /\ Go(p, clerk[p], to)
        /\ AdmitJobs(p) <=> to = "execute"
        /\ ExecuteJobs(p) <=> to = "parity"
        /\ OpenParity(p) <=> to = "compare"
        /\ WriteParity(p) <=> to = "time"
        /\ WriteTiming(p) <=> to = "report"
  BY DEF AdmitJobs, ExecuteJobs, OpenParity, WriteParity, WriteTiming, Go
<1>6. /\ clerk' \in [Clerk -> Place] /\ clerk'[p] = to
      /\ \A q \in Clerk \ {p} : clerk'[q] = "idle"
  BY <1>2, <1>5, ClerkGoes DEF Place
<1>7. /\ output' \in Directory /\ output'.captured = output.captured
      /\ output'.artifact = output.artifact /\ output'.results = output.results
  BY <1>2, <1>1 DEF AdmitJobs, ExecuteJobs, OpenParity, WriteParity, WriteTiming, Directory, Batch
<1>8. /\ to = "execute" => output'.batch = "open"
      /\ to = "parity" => output'.batch \in {"completed", "failed"}
      /\ to \in {"compare", "time", "report"} => output'.batch = output.batch
  BY <1>2, <1>5 DEF AdmitJobs, ExecuteJobs, OpenParity, WriteParity, WriteTiming, Directory
<1>9. /\ done' \in [compiled : [Input -> Nat], executed : Nat] /\ done'.compiled = done.compiled
      /\ to # "parity" => done'.executed = done.executed
      /\ to = "parity" => done'.executed = 1 /\ done.executed = 0
      /\ to \in {"compare", "time"} => done.executed = 1
      /\ to = "execute" => done.executed = 0
  <2>1. done \in [compiled : [Input -> Nat], executed : Nat]
    BY <1>2 DEF WorkflowTypeOK
  <2>2. CASE ExecuteJobs(p)
    <3>1. clerk[p] = "execute" /\ done.executed = 0
      BY <1>2, <2>2 DEF ExecuteJobs, Go, ClerkInv, Executing
    <3>2. done' = [done EXCEPT !.executed = 1]
      BY <2>2, <3>1 DEF ExecuteJobs
    <3> QED
      BY <1>5, <2>1, <2>2, <3>1, <3>2
  <2>3. CASE ~ExecuteJobs(p)
    <3>1. done' = done
      BY <2>3 DEF AdmitJobs, OpenParity, WriteParity, WriteTiming
    <3>2. /\ to \in {"compare", "time"} => clerk[p] \in {"parity", "compare"}
          /\ to = "execute" => clerk[p] = "batch"
      BY <1>5 DEF AdmitJobs, OpenParity, WriteParity, Go
    <3> QED
      BY <1>2, <1>5, <2>1, <2>3, <3>1, <3>2 DEF ClerkInv, Executing
  <2> QED
    BY <2>2, <2>3
<1>10. output'.parity # Missing => done'.executed = 1
  <2>1. CASE to \in {"compare", "time"}
    BY <1>9, <2>1
  <2>2. CASE to \in {"execute", "parity", "report"}
    <3>1. output'.parity = output.parity
      BY <1>2, <1>5, <2>2 DEF AdmitJobs, ExecuteJobs, WriteTiming, Directory
    <3> QED
      BY <1>2, <1>9, <2>2, <3>1 DEF DirectoryInv
  <2> QED
    BY <2>1, <2>2
<1>11. damage = 0 /\ to # "report" => Packages # {}
  <2>1. to \in {"execute", "parity", "compare", "time"} =>
          clerk[p] \in {"batch", "execute", "parity", "compare"}
    BY <1>5 DEF AdmitJobs, ExecuteJobs, OpenParity, WriteParity, Go
  <2> QED
    BY <1>2, <2>1 DEF ClerkInPlace, Executing
<1>12. DirectoryInv' /\ (damage' = 0 => DirectoryInPlace') /\ Packages' = Packages /\ recorded' = recorded
  <2>1. done'.executed \in {0, 1}
    <3>1. done.executed \in {0, 1}
      BY <1>2 DEF WorkflowTypeOK, DirectoryInv
    <3> QED
      BY <1>9, <3>1
  <2>2. output'.results = Missing
    BY <1>2, <1>7
  <2>3. damage = 0 /\ output'.batch # Missing =>
          output.batch # Missing \/ (output.artifact # Missing /\ Packages # {})
    BY <1>3, <1>8, <1>11
  <2> QED
    BY <1>2, <1>4, <1>7, <1>9, <1>10, <2>1, <2>2, <2>3, FilesChange
<1>13. output' # Missing /\ WorkflowTypeOK'
  BY <1>2, <1>4, <1>6, <1>7, <1>9, DirectoryAssumption DEF WorkflowTypeOK
<1>14. ClerkInv(p)'
  BY <1>2, <1>3, <1>4, <1>6, <1>7, <1>9, <1>13 DEF ClerkInv, Compiling, Executing
<1>15. damage' = 0 => ClerkInPlace(p)'
  <2> SUFFICES ASSUME damage = 0
               PROVE  ClerkInPlace(p)'
    BY <1>4
  <2>1. CASE to = "execute"
    BY <1>3, <1>6, <1>11, <1>12, <2>1 DEF ClerkInPlace, Executing
  <2>2. CASE to # "execute"
    <3>1. Closed'
      <4>1. CASE to = "parity"
        BY <1>8, <1>11, <1>12, <4>1, DirectoryAssumption DEF Closed
      <4>2. CASE to \in {"compare", "time", "report"}
        <5>1. clerk[p] \in {"parity", "compare", "time"}
          BY <1>5, <4>2 DEF OpenParity, WriteParity, WriteTiming, Go
        <5>2. Closed
          BY <1>2, <5>1 DEF ClerkInPlace
        <5> QED
          BY <1>8, <1>12, <4>2, <5>2 DEF Closed
      <4> QED
        BY <2>2, <4>1, <4>2
    <3> QED
      BY <1>3, <1>6, <1>11, <1>12, <2>2, <3>1 DEF ClerkInPlace, Executing
  <2> QED
    BY <2>1, <2>2
<1> QED
  BY <1>6, <1>12, <1>13, <1>14, <1>15, OnlyClerk

\* The report is written, where everything is verified, and the command ends.
LEMMA Reports ==
  ASSUME SourceSafe, NEW p \in Clerk, Report(p)
  PROVE  SourceSafe'
<1>1. clerk[p] = "report" /\ clerk[p] \in Inside /\ Reportable
  BY DEF Report, Inside, Place
<1>2. /\ \A q \in Clerk \ {p} : clerk[q] = "idle"
      /\ lock = p /\ output \in Directory
  BY <1>1, Alone
<1>3. /\ WorkflowTypeOK /\ DirectoryInv /\ output # Missing
      /\ damage = 0 => DirectoryInPlace /\ ClerkInPlace(p)
  BY <1>2, DirectoryAssumption DEF SourceSafe
<1>4. /\ clerk' \in [Clerk -> Place] /\ clerk'[p] = "idle"
      /\ \A q \in Clerk \ {p} : clerk'[q] = "idle"
      /\ lock' \in Clerk \union {Unlocked}
  BY <1>2, <1>3, ClerkFinishes DEF Report
<1>5. UNCHANGED <<runs, completions, made, done, damage>>
  BY DEF Report, Unchanged, ledgerTables, inputs
<1>6. output.manifest \in Manifest /\ output.artifact \in Artifact
  BY <1>1, <1>2 DEF Reportable, Verified, Directory, Manifest
<1>7. Consolidated \in Consolidation
  <2>1. output.artifact.outcomes \in [Input -> Outcome] /\ output.batch \in Batch
    BY <1>2, <1>6 DEF Artifact, Directory
  <2>2. output.timing \in {Missing, "written"}
    BY <1>1, <1>2 DEF Reportable, Directory
  <2> QED
    BY <2>1, <2>2 DEF Consolidated, Consolidation
<1>8. PICK report \in Consolidation : report = Consolidated
  BY <1>7
<1>9. output' = [output EXCEPT !.results = report]
  BY <1>8 DEF Report
<1>10. /\ output' \in Directory /\ output'.captured = output.captured
       /\ output'.artifact = output.artifact /\ output'.batch = output.batch
       /\ output'.parity = output.parity /\ output'.timing = output.timing
       /\ output'.results = report
  BY <1>2, <1>9 DEF Directory
<1>11. Consolidated' = report /\ (Closed => Closed')
  BY <1>8, <1>10 DEF Consolidated, Closed, Packages
<1>12. damage = 0 => recorded # Missing /\ Closed
  BY <1>1, <1>3 DEF ClerkInPlace
<1>13. DirectoryInv' /\ (damage' = 0 => DirectoryInPlace')
  <2>1. output'.parity # Missing => done'.executed = 1
    BY <1>3, <1>5, <1>10 DEF DirectoryInv
  <2>2. done'.compiled = done.compiled /\ done'.executed \in {0, 1}
    BY <1>3, <1>5 DEF WorkflowTypeOK, DirectoryInv
  <2> QED
    BY <1>2, <1>5, <1>10, <1>11, <1>12, <2>1, <2>2, FilesChange
<1>14. WorkflowTypeOK'
  BY <1>3, <1>4, <1>5, <1>10 DEF WorkflowTypeOK
<1>15. ClerkInv(p)' /\ ClerkInPlace(p)'
  BY <1>4 DEF ClerkInv, ClerkInPlace, Inside, Compiling, Executing
<1> QED
  BY <1>4, <1>13, <1>14, <1>15, OnlyClerk

\* A recovery closes the batch; one that was closed stays what it was.
LEMMA Closes ==
  ASSUME SourceSafe, NEW p \in Clerk, Close(p)
  PROVE  SourceSafe'
<1>1. clerk[p] = "close" /\ clerk[p] \in Inside /\ clerk[p] # "recover" /\ output.batch # Missing
  BY DEF Close, Go, Inside, Place
<1>2. /\ \A q \in Clerk \ {p} : clerk[q] = "idle"
      /\ lock = p /\ output \in Directory
  BY <1>1, Alone
<1>3. /\ WorkflowTypeOK /\ DirectoryInv /\ output # Missing
      /\ damage = 0 => DirectoryInPlace /\ ClerkInPlace(p)
  BY <1>2, DirectoryAssumption DEF SourceSafe
<1>4. /\ clerk' \in [Clerk -> Place] /\ clerk'[p] = "report"
      /\ \A q \in Clerk \ {p} : clerk'[q] = "idle"
  BY <1>2, <1>3, ClerkGoes DEF Close, Place
<1>5. UNCHANGED <<runs, completions, lock, made, done, damage>>
  BY DEF Close, Keep, Unchanged, ledgerTables, inputs
<1>6. PICK outcome \in {"completed", "failed", "aborted"} :
        /\ output.batch # "open" => outcome = output.batch
        /\ output' = [output EXCEPT !.batch = outcome]
  BY DEF Close
<1>7. /\ output' \in Directory /\ output'.captured = output.captured
      /\ output'.artifact = output.artifact /\ output'.batch = outcome
      /\ output'.parity = output.parity /\ output'.timing = output.timing
      /\ output'.results = output.results /\ output'.batch # Missing
  BY <1>2, <1>6, DirectoryAssumption DEF Directory, Batch
<1>8. damage = 0 => recorded # Missing /\ Packages # {}
  BY <1>1, <1>3 DEF ClerkInPlace
<1>9. Packages' = Packages
  BY <1>7 DEF Packages
<1>10. damage = 0 => Closed'
  BY <1>6, <1>7, <1>8, <1>9 DEF Closed
<1>11. DirectoryInv' /\ (damage' = 0 => DirectoryInPlace')
       /\ Packages' = Packages /\ recorded' = recorded
  <2>1. output'.parity # Missing => done'.executed = 1
    BY <1>3, <1>5, <1>7 DEF DirectoryInv
  <2>2. done'.compiled = done.compiled /\ done'.executed \in {0, 1}
    BY <1>3, <1>5 DEF WorkflowTypeOK, DirectoryInv
  <2>3. damage = 0 /\ output'.results \notin {Missing, Broken} =>
          recorded # Missing /\ output'.results = Consolidated' /\ Closed'
    <3> SUFFICES ASSUME damage = 0, output.results \notin {Missing, Broken}
                 PROVE  output'.results = Consolidated'
      BY <1>7, <1>8, <1>10
    <3>1. output.results = Consolidated /\ output.batch # "open"
      BY <1>3 DEF DirectoryInPlace, Closed
    <3>2. Consolidated' = Consolidated
      BY <1>6, <1>7, <3>1 DEF Consolidated
    <3> QED
      BY <1>7, <3>1, <3>2
  <2> QED
    BY <1>1, <1>2, <1>5, <1>7, <2>1, <2>2, <2>3, FilesChange
<1>12. output' # Missing /\ WorkflowTypeOK'
  BY <1>3, <1>4, <1>5, <1>7, DirectoryAssumption DEF WorkflowTypeOK
<1>13. ClerkInv(p)'
  BY <1>2, <1>4, <1>5, <1>12 DEF ClerkInv, Compiling, Executing
<1>14. damage' = 0 => ClerkInPlace(p)'
  BY <1>4, <1>5, <1>8, <1>10, <1>11 DEF ClerkInPlace, Executing
<1> QED
  BY <1>4, <1>11, <1>12, <1>13, <1>14, OnlyClerk

\* Where the directory stays as it is, so does what the others rely on while a
\* command ends or a recovery begins.
LEMMA ClerksKept ==
  ASSUME SourceSafe, UNCHANGED <<output, runs, completions, made, done>>,
         NEW p \in Clerk, clerk'[p] \in {"idle", "recover"},
         \A q \in Clerk \ {p} : clerk'[q] = clerk[q] /\ (lock = q => lock' = q)
  PROVE  \A q \in Clerk \ {p} : ClerkInv(q)' /\ (ClerkInPlace(q) => ClerkInPlace(q)')
<1> SUFFICES ASSUME NEW q \in Clerk \ {p}
             PROVE  ClerkInv(q)' /\ (ClerkInPlace(q) => ClerkInPlace(q)')
  OBVIOUS
<1>1. clerk'[q] = clerk[q] /\ ClerkInv(q) /\ (lock = q => lock' = q)
  BY DEF SourceSafe
<1>2. ClerkInPlace(q) => ClerkInPlace(q)'
  BY <1>1 DEF ClerkInPlace, Closed, Packages, recorded
<1>3. Fresh => Fresh'
  BY DEF Fresh, recorded
<1>4. clerk[q] = "lock" => \A r \in Clerk \ {q} : clerk'[r] \in {"idle", "recover"}
  BY <1>1 DEF ClerkInv
<1> QED
  BY <1>1, <1>2, <1>3, <1>4 DEF ClerkInv

\* A command raises or dies, or a recovery begins, without writing anything.
LEMMA CommandsTurn ==
  ASSUME SourceSafe, NEW p \in Clerk, damage' = damage,
         \/ RaiseWorkflow(p)
         \/ AskRecover(p)
         \/ DieWorkflow(p) /\ UNCHANGED output
  PROVE  SourceSafe'
<1>1. UNCHANGED <<runs, completions, made, done, output>>
  BY DEF RaiseWorkflow, AskRecover, DieWorkflow, ledgerTables
<1>2. WorkflowTypeOK /\ DirectoryInv /\ \A q \in Clerk : ClerkInv(q)
  BY DEF SourceSafe
<1>3. output # Missing
  BY <1>2 DEF RaiseWorkflow, AskRecover, DieWorkflow, ClerkInv
<1>4. /\ clerk' \in [Clerk -> Place] /\ lock' \in Clerk \union {Unlocked}
      /\ \A q \in Clerk \ {p} : clerk'[q] = clerk[q] /\ (lock = q => lock' = q)
      /\ clerk'[p] = "idle" \/ (clerk'[p] = "recover" /\ lock' = p)
  <2>1. CASE AskRecover(p)
    BY <1>2, <2>1, DeclaredAssumption DEF AskRecover, WorkflowTypeOK, Place
  <2>2. CASE Finish(p)
    BY <1>2, <2>2, ClerkFinishes
  <2> QED
    BY <2>1, <2>2 DEF RaiseWorkflow, DieWorkflow
<1>5. WorkflowTypeOK'
  BY <1>1, <1>2, <1>4 DEF WorkflowTypeOK
<1>6. DirectoryInv' /\ (damage' = 0 => DirectoryInPlace')
  BY <1>1, <1>3, DirectoryStays
<1>7. ClerkInv(p)' /\ ClerkInPlace(p)'
  BY <1>1, <1>3, <1>4 DEF ClerkInv, ClerkInPlace, Inside, Compiling, Executing
<1>8. \A q \in Clerk \ {p} : ClerkInv(q)' /\ (ClerkInPlace(q) => ClerkInPlace(q)')
  BY <1>1, <1>4, ClerksKept
<1>9. \A q \in Clerk : ClerkInv(q)'
  BY <1>7, <1>8
<1>10. damage' = 0 => \A q \in Clerk : ClerkInPlace(q)'
  BY <1>7, <1>8 DEF SourceSafe
<1> QED
  BY <1>5, <1>6, <1>9, <1>10 DEF SourceSafe

\* A death tears the file that is being written.
LEMMA DiesWriting ==
  ASSUME SourceSafe, NEW p \in Clerk, DieWorkflow(p), output' # output
  PROVE  SourceSafe'
<1>1. /\ clerk[p] \in {"compare", "time", "report"}
      /\ output' = [output EXCEPT ![Writing[clerk[p]]] = Broken]
      /\ clerk[p] = "report" => output.results = Missing
  BY DEF DieWorkflow, Writing
<1>2. clerk[p] \in Inside /\ clerk[p] # "recover"
  BY <1>1 DEF Inside, Place
<1>3. /\ \A q \in Clerk \ {p} : clerk[q] = "idle"
      /\ lock = p /\ output \in Directory
  BY <1>2, Alone
<1>4. /\ WorkflowTypeOK /\ DirectoryInv /\ output # Missing /\ ClerkInv(p)
      /\ damage = 0 => DirectoryInPlace /\ ClerkInPlace(p)
  BY <1>3, DirectoryAssumption DEF SourceSafe
<1>5. /\ clerk' \in [Clerk -> Place] /\ clerk'[p] = "idle"
      /\ \A q \in Clerk \ {p} : clerk'[q] = "idle"
      /\ lock' \in Clerk \union {Unlocked}
  BY <1>3, <1>4, ClerkFinishes DEF DieWorkflow
<1>6. UNCHANGED <<runs, completions, made, done, damage>>
  BY DEF DieWorkflow, OneMoreDeath, ledgerTables
<1>7. /\ output' \in Directory /\ output'.captured = output.captured
      /\ output'.artifact = output.artifact /\ output'.batch = output.batch
      /\ output'.results \in {Missing, Broken}
      /\ output'.parity # Missing => output.parity # Missing \/ clerk[p] = "compare"
  <2>1. CASE clerk[p] = "compare"
    <3>1. output' = [output EXCEPT !.parity = Broken]
      <4>1. Writing[clerk[p]] = "parity"
        BY <2>1 DEF Writing
      <4> QED
        BY <1>1, <4>1
    <3>2. output.results = Missing
      BY <1>4, <2>1 DEF ClerkInv, Executing
    <3> QED
      BY <1>3, <2>1, <3>1, <3>2 DEF Directory
  <2>2. CASE clerk[p] = "time"
    <3>1. output' = [output EXCEPT !.timing = Broken]
      <4>1. Writing[clerk[p]] = "timing"
        BY <2>2 DEF Writing
      <4> QED
        BY <1>1, <4>1
    <3>2. output.results = Missing
      BY <1>4, <2>2 DEF ClerkInv, Executing
    <3> QED
      BY <1>3, <3>1, <3>2 DEF Directory
  <2>3. CASE clerk[p] = "report"
    <3>1. output' = [output EXCEPT !.results = Broken]
      <4>1. Writing[clerk[p]] = "results"
        BY <2>3 DEF Writing
      <4> QED
        BY <1>1, <4>1
    <3> QED
      BY <1>3, <3>1 DEF Directory
  <2> QED
    BY <1>1, <2>1, <2>2, <2>3
<1>8. DirectoryInv' /\ (damage' = 0 => DirectoryInPlace')
  <2>1. output'.parity # Missing => done'.executed = 1
    BY <1>4, <1>6, <1>7 DEF DirectoryInv, ClerkInv
  <2>2. done'.compiled = done.compiled /\ done'.executed \in {0, 1}
    BY <1>4, <1>6 DEF WorkflowTypeOK, DirectoryInv
  <2> QED
    BY <1>3, <1>6, <1>7, <2>1, <2>2, FilesChange
<1>9. WorkflowTypeOK'
  BY <1>4, <1>5, <1>6, <1>7 DEF WorkflowTypeOK
<1>10. ClerkInv(p)' /\ ClerkInPlace(p)'
  BY <1>5 DEF ClerkInv, ClerkInPlace, Inside, Compiling, Executing
<1> QED
  BY <1>5, <1>8, <1>9, <1>10, OnlyClerk

\* A file of the directory is replaced: what no damage touches is still so.
LEMMA DirectoryDamaged ==
  ASSUME SourceSafe, InputsTypeOK, DamageOutput
  PROVE  SourceSafe'
<1>1. /\ UNCHANGED <<runs, completions, made, done, lock, clerk>> /\ damage' # 0
      /\ output # Missing
  BY DEF DamageOutput, OneMoreDamage, ledgerTables, InputsTypeOK
<1>2. WorkflowTypeOK /\ DirectoryInv /\ output \in Directory /\ \A q \in Clerk : ClerkInv(q)
  BY <1>1 DEF SourceSafe, WorkflowTypeOK
<1> DEFINE Harmless ==
             /\ output' \in Directory
             /\ \A i \in Input : output'.captured[i] # Missing => output.captured[i] # Missing
             /\ output'.artifact # Missing => Honest(output'.artifact)
             /\ output.artifact # Missing => output'.artifact # Missing
             /\ output.artifact = Missing => output'.artifact = Missing
             /\ output'.batch = output.batch /\ output'.parity = output.parity
             /\ output'.manifest = output.manifest
             /\ output.results = Missing => output'.results = Missing
             /\ ~Fresh
<1>3. ASSUME NEW i \in Input, NEW c \in Content, output.captured[i] # Missing,
             output' = [output EXCEPT !.captured[i] = c]
      PROVE  Harmless
  <2>1. PICK captured \in Captures : captured = [output.captured EXCEPT ![i] = c]
    BY <1>2 DEF Directory, Captures
  <2>2. output' = [output EXCEPT !.captured = captured]
    BY <1>2, <1>3, <2>1 DEF Directory
  <2>3. \A j \in Input : captured[j] # Missing => output.captured[j] # Missing
    BY <1>2, <1>3, <2>1 DEF Directory, Captures
  <2>4. /\ output' \in Directory /\ output'.captured = captured
        /\ output'.artifact = output.artifact
        /\ output'.batch = output.batch /\ output'.parity = output.parity
        /\ output'.manifest = output.manifest /\ output'.results = output.results
    BY <1>2, <2>1, <2>2 DEF Directory
  <2>5. ~Fresh
    BY <1>3, NewDirectory DEF Fresh
  <2> QED
    BY <1>1, <1>2, <2>3, <2>4, <2>5 DEF DirectoryInv
<1>4. ASSUME NEW i \in Input, output.artifact # Missing,
             output' = [output EXCEPT !.artifact.outcomes[i].status = "invalid"]
      PROVE  Harmless
  <2>1. output.artifact \in Artifact
    BY <1>2, <1>4 DEF Directory
  <2>2. PICK outcome : outcome = [output.artifact.outcomes[i] EXCEPT !.status = "invalid"]
    OBVIOUS
  <2>3. /\ outcome \in Outcome /\ outcome.status = "invalid"
        /\ outcome.digest = output.artifact.outcomes[i].digest
    BY <2>1, <2>2 DEF Artifact, Outcome
  <2>4. PICK altered \in [Input -> Outcome] :
          altered = [output.artifact.outcomes EXCEPT ![i] = outcome]
    BY <2>1, <2>3 DEF Artifact
  <2>5. PICK artifact : artifact = [output.artifact EXCEPT !.outcomes = altered]
    OBVIOUS
  <2>6. artifact \in Artifact /\ artifact.outcomes = altered
    BY <2>1, <2>4, <2>5 DEF Artifact
  <2>7. output' = [output EXCEPT !.artifact = artifact]
    BY <1>2, <1>4, <2>1, <2>2, <2>4, <2>5 DEF Directory, Artifact
  <2>8. /\ output' \in Directory /\ output'.captured = output.captured
        /\ output'.artifact = artifact
        /\ output'.batch = output.batch /\ output'.parity = output.parity
        /\ output'.manifest = output.manifest /\ output'.results = output.results
    BY <1>2, <2>6, <2>7 DEF Directory
  <2>9. Honest(artifact)
    <3>1. Honest(output.artifact)
      BY <1>1, <1>2, <1>4 DEF DirectoryInv
    <3>2. /\ altered[i] = outcome /\ \A j \in Input \ {i} : altered[j] = output.artifact.outcomes[j]
      BY <2>1, <2>4 DEF Artifact
    <3> QED
      BY <2>3, <2>6, <3>1, <3>2 DEF Honest
  <2>10. ~Fresh
    BY <1>4, NewDirectory DEF Fresh
  <2>11. artifact # Missing
    BY <2>6, LedgerAssumption
  <2> QED
    BY <1>4, <2>8, <2>9, <2>10, <2>11
<1>5. ASSUME output.results \notin {Missing, Broken},
             output' = [output EXCEPT !.results.parity = "matched"]
      PROVE  Harmless
  <2>1. output.results \in Consolidation
    BY <1>2, <1>5 DEF Directory
  <2>2. PICK report : report = [output.results EXCEPT !.parity = "matched"]
    OBVIOUS
  <2>3. report \in Consolidation
    BY <2>1, <2>2 DEF Consolidation
  <2>4. output' = [output EXCEPT !.results = report]
    BY <1>2, <1>5, <2>2 DEF Directory
  <2>5. /\ output' \in Directory /\ output'.captured = output.captured
        /\ output'.artifact = output.artifact
        /\ output'.batch = output.batch /\ output'.parity = output.parity
        /\ output'.manifest = output.manifest
    BY <1>2, <2>3, <2>4 DEF Directory
  <2>6. ~Fresh
    BY <1>5, NewDirectory DEF Fresh
  <2> QED
    BY <1>1, <1>2, <1>5, <2>5, <2>6 DEF DirectoryInv
<1>6. Harmless
  BY <1>3, <1>4, <1>5 DEF DamageOutput
<1> HIDE DEF Harmless
<1>7. WorkflowTypeOK' /\ output' # Missing
  BY <1>1, <1>2, <1>6, DirectoryAssumption DEF WorkflowTypeOK, Harmless
<1>8. DirectoryInv'
  <2>1. recorded' = recorded /\ \A artifact : Honest(artifact) => Honest(artifact)'
    BY <1>1 DEF recorded, Honest
  <2>2. recorded' # Missing => Honest(recorded)'
    BY <1>1, <1>2 DEF recorded, Honest, DirectoryInv
  <2>3. output'.artifact # Missing => Honest(output.artifact)'
    BY <1>1, <1>6 DEF Harmless, Honest
  <2> QED
    BY <1>1, <1>2, <1>6, <1>7, <2>1, <2>2, <2>3 DEF DirectoryInv, Harmless
<1>9. \A p \in Clerk : ClerkInv(p)'
  BY <1>1, <1>2, <1>6, <1>7 DEF ClerkInv, Harmless
<1> QED
  BY <1>1, <1>7, <1>8, <1>9 DEF SourceSafe

-----------------------------------------------------------------------------
(* The source workflow: the invariant is inductive and says what is claimed *)

\* Other workloads leave the workflow and its run alone.
LEMMA SourceStutters ==
  ASSUME SourceSafe, UNCHANGED <<output, lock, clerk, made, done>>,
         runs'["compilation"] = runs["compilation"],
         completions'["compilation"] = completions["compilation"],
         damage' = 0 => damage = 0
  PROVE  SourceSafe'
<1>1. Packages' = Packages /\ recorded' = recorded
  BY DEF Packages, recorded
<1>2. WorkflowTypeOK'
  BY DEF SourceSafe, WorkflowTypeOK
<1>3. DirectoryInv'
  BY <1>1 DEF SourceSafe, DirectoryInv, Honest
<1>4. \A p \in Clerk : ClerkInv(p)'
  BY <1>1 DEF SourceSafe, ClerkInv, Fresh
<1>5. DirectoryInPlace => DirectoryInPlace'
  BY <1>1 DEF DirectoryInPlace, Consolidated, Closed
<1>6. \A p \in Clerk : ClerkInPlace(p) => ClerkInPlace(p)'
  BY <1>1 DEF ClerkInPlace, Closed
<1> QED
  BY <1>2, <1>3, <1>4, <1>5, <1>6 DEF SourceSafe

\* Every step of the workflow keeps its invariant, and the ledger's types.
LEMMA SourceKept ==
  ASSUME SourceSafe, LedgerTypeOK, InputsTypeOK, WorkflowNext
  PROVE  SourceSafe' /\ LedgerTypeOK'
<1>1. ASSUME NEW p \in Clerk, Register(p) \/ CompleteSources(p) \/ RecoverSources(p)
      PROVE  SourceSafe' /\ LedgerTypeOK'
  BY <1>1, Registers, SourcesCompleted
<1>2. CASE Edit /\ UNCHANGED <<ledgerTables, workflowVars>> /\ Unconcerned
  <2>1. UNCHANGED <<runs, completions, artifacts, ran, tester, output, lock, clerk, made, done, damage>>
    BY <1>2 DEF ledgerTables, workflowVars, Unconcerned, batchFiles, Edit
  <2>2. LedgerTypeOK'
    BY <1>2, <2>1, EditTyped DEF LedgerTypeOK
  <2> QED
    BY <2>1, <2>2, SourceStutters
<1>3. ASSUME NEW p \in Clerk,
             \/ Submit(p) \/ AskRecover(p) \/ DieWorkflow(p)
             \/ Lock(p) \/ CaptureHistory(p) \/ (\E i \in Input : Capture(p, i))
             \/ WriteCompilation(p) \/ LinkManifest(p) \/ UnlinkPending(p)
             \/ Assemble(p) \/ AdmitJobs(p) \/ ExecuteJobs(p) \/ OpenParity(p) \/ WriteParity(p)
             \/ WriteTiming(p) \/ Report(p) \/ Close(p) \/ RaiseWorkflow(p)
      PROVE  SourceSafe' /\ UNCHANGED <<file, runs, completions, artifacts, ran, tester>>
  <2>1. CASE Submit(p) \/ Lock(p) \/ CaptureHistory(p) \/ WriteCompilation(p)
    <3>1. UNCHANGED <<file, runs, completions, artifacts, ran, tester>>
      BY <2>1 DEF Submit, Lock, CaptureHistory, WriteCompilation, Keep, Unchanged, Unconcerned,
         ledgerTables, batchFiles
    <3> QED
      BY <2>1, <3>1, Submits, Locks, HistoryCaptured, CompilationWritten
  <2>2. ASSUME NEW i \in Input, Capture(p, i)
        PROVE  SourceSafe' /\ UNCHANGED <<file, runs, completions, artifacts, ran, tester>>
    BY <2>2, Captured DEF Capture, Unchanged, Unconcerned, ledgerTables, batchFiles
  <2>3. CASE LinkManifest(p) \/ UnlinkPending(p) \/ Assemble(p)
    BY <2>3, FilesPrepared DEF LinkManifest, UnlinkPending, Assemble, Keep, Unchanged, Unconcerned,
       ledgerTables, batchFiles
  <2>4. CASE AdmitJobs(p) \/ ExecuteJobs(p) \/ OpenParity(p) \/ WriteParity(p) \/ WriteTiming(p)
    <3>1. UNCHANGED <<file, runs, completions, artifacts, ran, tester>>
      BY <2>4 DEF AdmitJobs, ExecuteJobs, OpenParity, WriteParity, WriteTiming, Keep, Unchanged,
         Unconcerned, ledgerTables, batchFiles
    <3> QED
      BY <2>4, <3>1, JobsRun
  <2>5. CASE Report(p) \/ Close(p)
    BY <2>5, Reports, Closes DEF Report, Close, Keep, Unchanged, Unconcerned, ledgerTables,
       batchFiles
  <2>6. CASE RaiseWorkflow(p) \/ AskRecover(p)
    <3>1. UNCHANGED <<file, runs, completions, artifacts, ran, tester, damage>>
      BY <2>6 DEF RaiseWorkflow, AskRecover, Unchanged, Unconcerned, ledgerTables, batchFiles, inputs
    <3> QED
      BY <2>6, <3>1, CommandsTurn
  <2>7. CASE DieWorkflow(p)
    <3>1. UNCHANGED <<file, runs, completions, artifacts, ran, tester, damage>>
      BY <2>7 DEF DieWorkflow, OneMoreDeath, Unconcerned, ledgerTables, batchFiles
    <3> QED
      BY <2>7, <3>1, CommandsTurn, DiesWriting
  <2> QED
    BY <1>3, <2>1, <2>2, <2>3, <2>4, <2>5, <2>6, <2>7
<1>4. CASE DamageOutput
  <2>1. UNCHANGED <<file, runs, completions, artifacts, ran, tester>>
    BY <1>4 DEF DamageOutput, Unconcerned, ledgerTables, batchFiles
  <2> QED
    BY <1>4, <2>1, DirectoryDamaged DEF LedgerTypeOK
<1>5. UNCHANGED <<file, runs, completions, artifacts, ran, tester>> => LedgerTypeOK'
  BY DEF LedgerTypeOK
<1> QED
  BY <1>1, <1>2, <1>3, <1>4, <1>5 DEF WorkflowNext, WorkflowStep

\* The workflow changes neither the scripts' artifacts nor the runs of their
\* outputs.
LEMMA WorkflowApart ==
  ASSUME SourceSafe, LedgerTypeOK, WorkflowNext
  PROVE  /\ UNCHANGED <<artifacts, ran, tester>>
         /\ \A k \in Output : runs'[k] = runs[k] /\ completions'[k] = completions[k]
         /\ file' = file \/ Edit
<1>1. UNCHANGED <<artifacts, ran, tester>> /\ (file' = file \/ Edit)
  <2>1. ASSUME NEW p \in Clerk, Submit(p) \/ AskRecover(p) \/ DieWorkflow(p)
        PROVE  UNCHANGED <<artifacts, ran, tester, file>>
    BY <2>1 DEF Submit, AskRecover, DieWorkflow, Keep, Unchanged, Unconcerned, batchFiles
  <2>2. ASSUME NEW p \in Clerk, WorkflowStep(p)
        PROVE  UNCHANGED <<artifacts, ran, tester, file>>
    BY <2>2 DEF WorkflowStep, Lock, Register, CaptureHistory, Capture, WriteCompilation,
       LinkManifest, UnlinkPending, CompleteSources, Assemble, AdmitJobs, ExecuteJobs, OpenParity,
       WriteParity, WriteTiming, Report, RecoverSources, Close, RaiseWorkflow, Keep, Unchanged,
       Unconcerned, batchFiles
  <2>3. CASE DamageOutput
    BY <2>3 DEF DamageOutput, Unconcerned, batchFiles
  <2>4. CASE Edit /\ UNCHANGED <<ledgerTables, workflowVars>> /\ Unconcerned
    BY <2>4 DEF Unconcerned, batchFiles
  <2> QED
    BY <2>1, <2>2, <2>3, <2>4 DEF WorkflowNext
<1>2. \/ UNCHANGED <<runs, completions>>
      \/ BeginRun("compilation", "workflow", Declared)
      \/ CompleteRun("compilation", output.artifact) /\ output.artifact \in {Missing, Broken} \union Artifact
  <2>1. ASSUME NEW p \in Clerk, CompleteSources(p) \/ RecoverSources(p)
        PROVE  /\ CompleteRun("compilation", output.artifact)
               /\ output.artifact \in {Missing, Broken} \union Artifact
    <3>1. clerk[p] # "idle"
      BY <2>1 DEF CompleteSources, RecoverSources, Go
    <3>2. output \in Directory
      BY <3>1 DEF SourceSafe, ClerkInv, WorkflowTypeOK
    <3> QED
      BY <2>1, <3>2 DEF CompleteSources, RecoverSources, Directory
  <2>2. ASSUME NEW p \in Clerk, Register(p)
        PROVE  BeginRun("compilation", "workflow", Declared)
    BY <2>2 DEF Register
  <2>3. ASSUME NEW p \in Clerk, Submit(p) \/ AskRecover(p) \/ DieWorkflow(p)
        PROVE  UNCHANGED <<runs, completions>>
    BY <2>3 DEF Submit, AskRecover, DieWorkflow, ledgerTables
  <2>4. ASSUME NEW p \in Clerk,
               \/ Lock(p) \/ CaptureHistory(p) \/ (\E i \in Input : Capture(p, i))
               \/ WriteCompilation(p) \/ LinkManifest(p) \/ UnlinkPending(p)
               \/ Assemble(p) \/ AdmitJobs(p) \/ ExecuteJobs(p) \/ OpenParity(p) \/ WriteParity(p)
               \/ WriteTiming(p) \/ Report(p) \/ Close(p) \/ RaiseWorkflow(p)
        PROVE  UNCHANGED <<runs, completions>>
    BY <2>4 DEF Lock, CaptureHistory, Capture, WriteCompilation, LinkManifest, UnlinkPending,
       Assemble, AdmitJobs, ExecuteJobs, OpenParity, WriteParity, WriteTiming, Report, Close,
       RaiseWorkflow, ledgerTables
  <2>5. CASE DamageOutput
    BY <2>5 DEF DamageOutput, ledgerTables
  <2>6. CASE Edit /\ UNCHANGED <<ledgerTables, workflowVars>> /\ Unconcerned
    BY <2>6 DEF ledgerTables
  <2> QED
    BY <2>1, <2>2, <2>3, <2>4, <2>5, <2>6 DEF WorkflowNext, WorkflowStep
<1>3. CASE UNCHANGED <<runs, completions>>
  BY <1>1, <1>3
<1>4. CASE BeginRun("compilation", "workflow", Declared)
  <2>1. /\ "workflow" \in Kind /\ "compilation" \in Key
        /\ \A k \in Output : k \in Key \ {"compilation"}
    BY OutputKeys DEF Kind
  <2>2. completions' = completions /\ \A k \in Key \ {"compilation"} : runs'[k] = runs[k]
    BY <1>4, <2>1, DeclaredAssumption, RunBegins
  <2> QED
    BY <1>1, <2>1, <2>2
<1>5. CASE CompleteRun("compilation", output.artifact) /\ output.artifact \in {Missing, Broken} \union Artifact
  BY <1>1, <1>5, OutputKeys, RunCompletes
<1> QED
  BY <1>2, <1>3, <1>4, <1>5

\* The scripts do not change the workflow's run.
LEMMA ScriptsApart ==
  ASSUME BatchSafe, LedgerNext
  PROVE  /\ runs'["compilation"] = runs["compilation"]
         /\ completions'["compilation"] = completions["compilation"]
<1>0. BatchTypes /\ LedgerTypeOK
  BY DEF BatchSafe, BatchTypes
<1>1. ASSUME NEW p \in Tester, RegisterBatch(p)
      PROVE  /\ runs'["compilation"] = runs["compilation"] /\ completions' = completions
  <2>1. /\ tester[p].key \in Output /\ tester[p].digests \in [Input -> Content]
        /\ KindOf(p) \in Kind
    BY <1>0, <1>1 DEF RegisterBatch, BatchTypes, LedgerTypeOK, Supplied, Testing, KindOf, Kind
  <2>2. BeginRun(tester[p].key, KindOf(p), tester[p].digests)
    BY <1>1 DEF RegisterBatch
  <2>3. tester[p].key \in Key /\ "compilation" \in Key \ {tester[p].key}
    BY <2>1, OutputKeys
  <2> QED
    BY <1>0, <2>1, <2>2, <2>3, RunBegins
<1>2. ASSUME NEW p \in Tester, CompleteBatch(p)
      PROVE  /\ runs' = runs /\ completions'["compilation"] = completions["compilation"]
  <2>1. tester[p].key \in Output /\ tester[p].artifact \in {Missing, Broken} \union Artifact
    BY <1>0, <1>2 DEF CompleteBatch, BatchTypes, LedgerTypeOK, Supplied, Testing
  <2> QED
    BY <1>0, <1>2, <2>1, OutputKeys, RunCompletes DEF CompleteBatch
<1>3. ASSUME NEW key \in Output, RecoverArtifact(key)
      PROVE  /\ runs' = runs /\ completions'["compilation"] = completions["compilation"]
  <2>1. artifacts[key] \in {Missing, Broken} \union Artifact
    BY <1>0 DEF LedgerTypeOK
  <2> QED
    BY <1>0, <1>3, <2>1, OutputKeys, RunCompletes DEF RecoverArtifact
<1>4. ASSUME NEW p \in Tester,
             \/ \E key \in Output : Start(p, key)
             \/ OpenSources(p) \/ HashSources(p) \/ LoadPackages(p) \/ EvaluateBatch(p)
             \/ WriteArtifact(p) \/ RaiseBatch(p) \/ DieBatch(p)
      PROVE  UNCHANGED <<runs, completions>>
  BY <1>4 DEF Start, OpenSources, HashSources, LoadPackages, EvaluateBatch, WriteArtifact,
     RaiseBatch, DieBatch, ledgerTables
<1>5. CASE \E key \in Output : DamageArtifact(key)
  BY <1>5 DEF DamageArtifact, ledgerTables
<1>6. CASE Edit /\ UNCHANGED <<ledgerTables, batchFiles, tester>>
  BY <1>6 DEF ledgerTables
<1> QED
  BY <1>1, <1>2, <1>3, <1>4, <1>5, <1>6 DEF LedgerNext, BatchStep

-----------------------------------------------------------------------------
(* The synthetic workloads together *)

SyntheticInv ==
  /\ InputsTypeOK /\ workload \in Workload
  /\ BatchSafe
  /\ SourceSafe

\* Initially nothing was submitted.
LEMMA SourceInitially ==
  ASSUME LedgerInit, WorkflowInit
  PROVE  SourceSafe
<1>1. runs["compilation"] = Missing /\ recorded = Missing
  BY OutputKeys DEF LedgerInit, recorded
<1>2. WorkflowTypeOK
  BY DEF WorkflowInit, WorkflowTypeOK, Place
<1>3. DirectoryInv
  BY <1>1, DirectoryAssumption DEF WorkflowInit, DirectoryInv
<1>4. \A p \in Clerk : ClerkInv(p) /\ ClerkInPlace(p)
  BY IdleClerk DEF WorkflowInit
<1>5. DirectoryInPlace
  BY <1>1 DEF WorkflowInit, DirectoryInPlace
<1> QED
  BY <1>2, <1>3, <1>4, <1>5 DEF SourceSafe

\* The invariant of the synthetic workloads is inductive.
LEMMA SyntheticKept ==
  ASSUME SyntheticInv, [Next]_researchVars
  PROVE  SyntheticInv'
<1>0. LedgerTypeOK
  BY DEF SyntheticInv, BatchSafe, BatchTypes
<1>1. ASSUME UNCHANGED <<ledgerVars, workflowVars>>, InputsTypeOK', workload' = workload,
             damage' = 0 => damage = 0, moves' = 0 => moves = 0
      PROVE  SyntheticInv'
  <2>1. UNCHANGED <<file, runs, completions, artifacts, ran, tester, output, lock, clerk, made, done>>
    BY <1>1 DEF ledgerVars, workflowVars, ledgerTables, batchFiles
  <2>2. LedgerTypeOK'
    BY <1>0, <2>1 DEF LedgerTypeOK
  <2>3. BatchSafe'
    BY <1>1, <2>1, <2>2, BatchStutters DEF SyntheticInv
  <2>4. SourceSafe'
    BY <1>1, <2>1, SourceStutters DEF SyntheticInv
  <2> QED
    BY <1>1, <2>3, <2>4 DEF SyntheticInv
<1>2. CASE UNCHANGED researchVars
  <2>1. UNCHANGED <<inputs, ledgerVars, workflowVars, workload>>
    BY <1>2 DEF researchVars
  <2>2. InputsTypeOK' /\ damage' = damage /\ moves' = moves
    BY <2>1 DEF inputs, InputsTypeOK, SyntheticInv
  <2> QED
    BY <1>1, <2>1, <2>2
<1>3. CASE Next
  <2>1. InputsTypeOK' /\ workload' = workload
    BY <1>3, EveryEvent, EventsType DEF SyntheticInv, Next
  <2>2. (damage' = 0 => damage = 0) /\ (moves' = 0 => moves = 0)
    BY <1>3, CountsGrow DEF SyntheticInv
  <2>3. CASE Drift \/ Private \/ Trial \/ Bundles
    <3>1. UNCHANGED <<ledgerVars, workflowVars>>
      BY <1>3, <2>3 DEF Next, Drift, Private, Trial, Bundles, Scripts, Workflow, PricedWorkload
    <3> QED
      BY <1>1, <2>1, <2>2, <3>1
  <2>4. CASE Scripts
    <3>1. LedgerNext /\ UNCHANGED workflowVars
      BY <2>4 DEF Scripts
    <3>2. BatchSafe'
      BY <2>2, <3>1, BatchKept DEF SyntheticInv
    <3>3. SourceSafe'
      BY <2>2, <3>1, ScriptsApart, SourceStutters DEF SyntheticInv, workflowVars
    <3> QED
      BY <2>1, <3>2, <3>3 DEF SyntheticInv
  <2>5. CASE Workflow
    <3>1. WorkflowNext
      BY <2>5 DEF Workflow
    <3>2. SourceSafe' /\ LedgerTypeOK'
      BY <1>0, <3>1, SourceKept DEF SyntheticInv
    <3>3. /\ UNCHANGED <<artifacts, ran, tester>>
          /\ \A k \in Output : runs'[k] = runs[k] /\ completions'[k] = completions[k]
          /\ file' = file \/ Edit
      BY <1>0, <3>1, WorkflowApart DEF SyntheticInv
    <3>4. BatchSafe'
      BY <2>2, <3>2, <3>3, BatchStutters, FileEdited DEF SyntheticInv
    <3> QED
      BY <2>1, <3>2, <3>4 DEF SyntheticInv
  <2> QED
    BY <1>3, <2>3, <2>4, <2>5 DEF Next
<1> QED
  BY <1>2, <1>3

\* The workflow's inputs are accounted for.
LEMMA SourcesFollow == SourceSafe => SourcesAccounted
<1> SUFFICES ASSUME SourceSafe, output # Missing
             PROVE  /\ done.executed <= 1
                    /\ \A i \in Input :
                         /\ output.captured[i] # Missing => runs["compilation"] # Missing
                         /\ done.compiled[i] <= 1
                    /\ recorded # Missing => \A i \in Input :
                         /\ recorded.outcomes[i].digest = Declared[i]
                         /\ recorded.outcomes[i].status = "compiled" => done.compiled[i] = 1
                    /\ damage = 0 /\ output.results \notin {Missing, Broken} =>
                         /\ recorded # Missing
                         /\ output.results = Consolidated
                         /\ output.results.outcomes = recorded.outcomes
                         /\ output.batch # "open" /\ (output.batch = Missing <=> Packages = {})
                         /\ output.results.parity # "not_run" => done.executed = 1
  BY DEF SourcesAccounted, recorded
<1>1. DirectoryInv /\ output \in Directory
  BY DEF SourceSafe, WorkflowTypeOK
<1>2. ASSUME damage = 0, output.results \notin {Missing, Broken}
      PROVE  /\ recorded # Missing
             /\ output.results = Consolidated
             /\ output.results.outcomes = recorded.outcomes
             /\ output.batch # "open" /\ (output.batch = Missing <=> Packages = {})
             /\ output.results.parity # "not_run" => done.executed = 1
  <2>1. /\ recorded # Missing /\ output.artifact = recorded
        /\ output.results = Consolidated /\ Closed
    BY <1>2 DEF SourceSafe, DirectoryInPlace
  <2>2. Consolidated.outcomes = recorded.outcomes
    BY <2>1 DEF Consolidated
  <2>3. Consolidated.parity # "not_run" => output.parity \in {"matched", "failed"}
    BY DEF Consolidated
  <2>4. output.parity # Missing => done.executed = 1
    BY <1>1 DEF DirectoryInv
  <2> QED
    BY <2>1, <2>2, <2>3, <2>4, DirectoryAssumption DEF Closed
<1>3. recorded # Missing => Honest(recorded)
  BY <1>1 DEF DirectoryInv
<1> QED
  BY <1>1, <1>2, <1>3 DEF DirectoryInv, Honest

-----------------------------------------------------------------------------
(* The theorems *)

\* The inductive invariant of the scripts and of the workflow.
THEOREM SyntheticInvariant == Spec => []SyntheticInv
<1>1. Init => SyntheticInv
  BY InputsInitially, BatchInitially, SourceInitially DEF Init, SyntheticInv
<1> QED
  BY <1>1, SyntheticKept, PTL DEF Spec

\* Inputs of the synthetic commands are accounted for: evaluated, compiled and
\* executed at most once, registered before, and reported as the ledger has them.
THEOREM InputsAccountedHolds == Spec => []InputsAccounted
<1>1. SyntheticInv => InputsAccounted
  BY BatchesFollow, SourcesFollow DEF SyntheticInv, InputsAccounted
<1> QED
  BY <1>1, SyntheticInvariant, PTL

\* The records and files of all research commands keep their types.
THEOREM ResearchTypeCorrect == Spec => []TypeOK
<1>1. Init => TrialInv /\ BundleInv
  BY InputsInitially, TrialInitially, BundleInitially DEF Init, TrialInv, BundleInv
<1>2. TrialInv /\ BundleInv /\ [Next]_researchVars => (TrialInv /\ BundleInv)'
  BY TrialKept, BundleKept
<1>3. TrialInv => TrialTypeOK
  BY TrialInitially DEF TrialInv, TrialSafe, TrialTypes
<1>4. BundleInv => BundleTypeOK
  BY BundleInitially DEF BundleInv, BundleSafe, BundleTypes
<1>5. PrivateInv => PrivateTypeOK
  BY PrivateInitially DEF PrivateInv, PrivateSafe, PrivateTypes
<1>6. SyntheticInv => InputsTypeOK /\ LedgerTypeOK /\ WorkflowTypeOK /\ workload \in Workload
  BY DEF SyntheticInv, BatchSafe, BatchTypes, SourceSafe
<1>7. TrialInv /\ BundleInv /\ PrivateInv /\ SyntheticInv => TypeOK
  BY <1>3, <1>4, <1>5, <1>6 DEF TypeOK
<1> QED
  BY <1>1, <1>2, <1>7, PrivateInvariant, SyntheticInvariant, PTL DEF Spec

=============================================================================
