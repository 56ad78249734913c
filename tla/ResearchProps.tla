--------------------------- MODULE ResearchProps ---------------------------
(***************************************************************************)
(* What the research commands must not do, whatever the order of their     *)
(* processes' steps, with deaths, moving inputs and damaged files.         *)
(***************************************************************************)
EXTENDS Research

\* A grant pays for one look at the price store and for one replay of what was
\* seen (reserve_access() before the snapshot and before the batch), whatever
\* processes run, die or are repeated, and though one record, file or directory
\* is lost or replaced.
ReadOnce ==
  damage <= 1 => \A g \in Grant : Len(reads[g]) <= 1 /\ Len(replays[g]) <= 1

\* A result that was recorded as reviewed came from the rows that were read for
\* that grant: no change of the price store, and no one file replaced between
\* two commands or under a running one, passes other rows for them.
ReviewedAsPrepared ==
  damage <= 1 => \A g \in Grant :
    access[g]["review"] # Missing /\ access[g]["review"].result \in Rows
      => reads[g] = <<access[g]["review"].result>>

\* Main may move between any two steps, yet authorization, snapshot and batch of
\* a grant were all consumed under one revision (gate() and execute() compare
\* the heads).  Without the records a later grant could be authorized again.
OneHead ==
  damage = 0 => \A g \in Grant : access[g]["batch"] # Missing =>
    /\ access[g]["snapshot"] = access[g]["batch"]
    /\ g # Founder => access[g]["authorization"] = access[g]["batch"]

Engaged(g, labels) ==
  \E p \in Operator : work[p].grant = g /\ work[p].pc \in labels

\* Nothing but a death or damage spends a grant in vain without a trace: a batch
\* stage without its review is being worked on or was rejected while another
\* batch was open; a snapshot stage without its receipt is being worked on or
\* the failure is in the study's directory.
SpentIsExplained ==
  deaths = 0 /\ damage = 0 => \A g \in Grant :
    /\ access[g]["batch"] # Missing /\ access[g]["review"] = Missing =>
         \/ attempt[g] = "rejected"
         \/ Engaged(g, {"hash", "launch", "replay", "settle", "review"})
    /\ access[g]["snapshot"] # Missing /\ access[g]["snapshot_complete"] = Missing =>
         \/ Engaged(g, {"copy", "freeze", "seal"})
         \/ study[g].failed

\* A phase's result is written once, though a record is lost.  The rows of a
\* later phase are read only after the phase before it survived, and, with all
\* records in place, under the revision and with the completed attempt it
\* survived with; and a decision rests on its attempt, its revision and rows.
SurvivalCounts ==
  damage <= 1 => \A ph \in Phase :
    /\ Len(tested[ph]) <= 1
    /\ ph # "development" => \A h \in opened[ph] :
         /\ tested[Prior[ph]] # <<>>
         /\ tested[Prior[ph]][1].decision = "survived"
         /\ damage = 0 => /\ tested[Prior[ph]][1].head = h
                          /\ outcomes[Prior[ph]].artifact = tested[Prior[ph]][1]
    /\ damage = 0 /\ decisions[ph] # Missing =>
         /\ tested[ph] = <<decisions[ph].artifact>>
         /\ decisions[ph].outcome = tested[ph][1].decision
         /\ attempts[ph] = [head |-> decisions[ph].head, rows |-> tested[ph][1].rows]

\* A bundle passes its review only with a result that was replayed in the
\* attempt the review names, from the rows its preparation read, under the
\* revision of its identity while that was main's; and no second attempt opened
\* the identity's validation.  That the attempt's row is the one its process
\* inserted needs the registry in place.
BundleCounts ==
  \A b \in Bundle, a \in AttemptId : ReviewPasses(b, a) =>
    /\ bundle[b].result.input.rows = fetched[b]
    /\ damage = 0 =>
         /\ produced[a] = <<[head |-> bundle[b].identity.head, result |-> bundle[b].result]>>
         /\ launches[a].phase = "validation" =>
              \A other \in AttemptId \ {a} : launches[other] # launches[a]

\* What the private trials rest their phases on: a survival of the low-volatility
\* trial, a reviewed bundle of H1.
PhaseEvidence == SurvivalCounts /\ BundleCounts

\* A batch script's output is evaluated once, its inputs were registered first,
\* and the ledger's outcomes are those of the artifact, which "tested" what its
\* digest says.  Packages are read again after they were hashed, so the last is
\* claimed for them only while no file changes.
BatchesAccounted ==
  \A k \in Output :
    /\ Len(ran[k]) <= 1
    /\ completions[k] # Missing => \A i \in Input :
         LET outcome == completions[k].outcomes[i] IN
         /\ ran[k] # <<>>
         /\ outcome.digest = runs[k].inputs[i]
         /\ damage = 0 => completions[k] = artifacts[k]
         /\ damage = 0 /\ outcome.status = "tested" =>
              /\ Reads[ran[k][1][i]] = "compiled"
              /\ moves = 0 \/ runs[k].kind = "pine" => ran[k][1][i] = outcome.digest

\* No source is opened before every input is registered; across a run and all
\* recoveries each input is compiled, and the jobs are executed, at most once;
\* the ledger has one outcome for each input, "compiled" only for the declared
\* bytes; and results.json says what the ledger and the closed batch say, and
\* still does when a recovery writes or reads it again.
SourcesAccounted ==
  LET recorded == completions["compilation"] IN
  output # Missing =>
    /\ done.executed <= 1
    /\ \A i \in Input :
         /\ output.captured[i] # Missing => runs["compilation"] # Missing
         /\ done.compiled[i] <= 1
    /\ recorded # Missing => \A i \in Input :
         /\ recorded.outcomes[i].digest = Declared[i]
         /\ recorded.outcomes[i].status = "compiled" => done.compiled[i] = 1
    /\ damage = 0 /\ output.results \notin {Missing, Broken} =>
         /\ recorded # Missing
         /\ output.results = Consolidated
         /\ output.results.outcomes = recorded.outcomes
         /\ output.batch # "open" /\ (output.batch = Missing <=> Packages = {})
         /\ output.results.parity # "not_run" => done.executed = 1

\* Inputs of the synthetic commands are accounted for, in the scripts' batches
\* and in a source workflow.
InputsAccounted == BatchesAccounted /\ SourcesAccounted

=============================================================================
