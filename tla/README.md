# TideLab: TLA+ models, checks and proofs

TideLab is a personal platform for systematic trading research and synthetic
paper trading.  A recorder keeps public market data; research runs frozen plans
over it, private ones against a grant that is used once, and records every
attempt; paper trading admits one intent at a time into a durable SQLite authority
and joins it to the order reports of a source.  What can go wrong is the same in
all three: processes that share a database and a directory, die between two
writes, and find on restart what another one left.  This directory models that.

Run `tlc -config X.cfg M` for a run of the table below and `tlapm M.tla` for a
proof module.  `PROJECT.json` maps every definition to the lines it models and
lists the hazards each property is for.

## Inventory

| Component (`src/tidelab` unless said) | State | Operations | Hard behaviour |
| --- | --- | --- | --- |
| Paper intent authority (`paper_intent.py`) | intents, resolutions, one hold row (SQLite) | `prepare`, `claim_once`, `initialize`, `state` | many processes on one file; a claim that must be usable once |
| Local synthetic order source (`synthetic_paper.py`) | orders in the same database | `submit`, `reconcile` | lost acknowledgements, exits, rearming of claims |
| H1 paper bridge (`h1_paper_bridge.py`, `scripts/h1_lean_report_bridge.py`) | proposals | `prepare` in two transactions, `claim_once` | crash between the transactions, competing proposals |
| H1 local report join (`h1_local_report_join.py`) | accepted reports, journal of executions, handoff evidence | `reconcile`, `handoff`, `observe_handoff`, `claim_after_handoff` | stale report copies, corrections, authority hold |
| H1 mock broker (`scripts/lean_fallback/TideLabH1LocalReportProbe.cs`) | the report file | routing, revisions | published again and corrected reports |
| Fixed LEAN paper join (`lean_paper_join.py`, `scripts/tl002_lean_join.py`) | joined orders, reported executions | `reconcile`, rearm, `prepare_sell` | file absence read before the transaction |
| Trial registry (`trial_registry.py`) | seven append-only tables | `reserve_batch`, `start`, `finish`, `finish_job`, `finish_batch`, `reserve_access` | concurrent launches, retries, replayed outcomes |
| Historical batch (`historical_batch.py`, `scripts/historical_batch.py`) | output directory: admission, job artifacts, manifests, summary; an OS lock | `run`, `recover` | death between any two writes, torn files, clock set back |
| Private one-shot workflow (`private_workflow.py`; `rsi_`, `channel_`, `monday_private.py`, `private_history.py`) | a row of `research_access` per grant and stage; the study's files | initialize, authorize, prepare, execute, review | grants spent before the work; main, rows and files that change between commands |
| Low-volatility trial (`scripts/low_vol_private_trial.py`) | attempts, outcomes, result and decision files of three phases | run a phase | a phase opened on the survival of the one before it |
| H1 private trials (`h1_private_trial.py`, `h1_trial_review.py`, `scripts/record_local_trial.py`, `h1_v1_private_trial/Program.cs`) | bundle directories, attempts, logs | prepare, record, replay, review | two wrappers over one bundle, a wrapper that dies before its child |
| Synthetic batch ledger (`synthetic_batch_ledger.py`, `scripts/strategy_batch.py`, `scripts/pine_subset_batch.py`) | runs, outcomes, artifact files | begin, complete, recover | files edited between hash and use, death between artifact and outcomes |
| Source workflow (`source_workflow.py`, over Pine modules and `strategy_intake.py`) | one output directory, its lock, a ledger of its own | run, recover | death between any two of its files |
| Market store and synchronisation (`storage.py`, `service.py`, `coinbase.py`) | product, bars, ingestion runs | windows, retry, insert or ignore, report | bars that close under way, counts after commits |
| Stream capture (`stream.py`) | sessions, raw messages, observations | receive, save, parse, close | gaps, duplicates, death between two inserts |
| OKX archive import (`okx_archive.py`) | archived bars | read, look up, insert | revised payloads, lookups outside of the transaction |
| Replay and strategies (`strategy_batch.py`, `channel_breakout.py`, `low_vol_five_spot.py`) | none | pure functions | next-open fills, rolling extremes |
| Engine parity and export, LEAN probes, experiment identity, coverage audit | files | pure input and output | none that interleave |

How they interact.  `PaperIntentStore` is a base every source shares: the
synthetic source, the H1 bridge and join and the fixed LEAN join open the same
database and each writes tables of its own in the same transactions.  The H1
broker is another program and speaks only through its report file.  `run` and
`recover` of a batch meet in the output directory under a lock and meet other
batches in the trial registry.  The private workflow calls the batch with a
policy of its own, and so does the source workflow; the trial scripts use the
registry directly.  All private commands read integrated main and the price
store, which others change.

What makes each part correct:

- authority: one unresolved intent; an identity keeps its terms; a claim is used
  once; a hold ends everything;
- sources: one order per identity, an order never without its claimed intent;
  the submission barrier is implemented;
- H1: the account is handed on exactly, a resolved order is settled, a successor
  is claimed on fresh evidence only;
- registry and batch: one open batch, a completed study never runs again, the
  three records of a job agree, a death never locks the registry;
- market data: a stored bar is final and stored once, a complete run covers its
  range, gaps are bounded by what is missing, an archive is stored whole;
- private research: a grant reads and replays once, under one revision, and what
  is reviewed is what was read; a phase rests on the evidence of the one before;
- synthetic research: every registered input has one outcome, from one evaluation
  of the registered content, in the ledger, the artifact and the results.

## Modules

| Module | Models |
| --- | --- |
| `PaperIntents` | tables and transactions of the authority; each `BEGIN IMMEDIATE` transaction is one step |
| `SubmissionBarrier` | abstract: clients admitted one at a time, each sent once, handed over after it was sent |
| `SyntheticPaper` (extends `PaperIntents`) | the synthetic source; any processes claim, submit, reconcile and exit |
| `SyntheticPaperProps`, `SyntheticPaperProofs`, `MCSyntheticPaper` | its properties, their proofs, the instance |
| `H1Handoff` (extends `PaperIntents`) | bridge, report join and broker file; each process keeps the report copy it read |
| `H1HandoffProps`, `H1HandoffProofs`, `MCH1Handoff` | its properties, their proofs, the instance |
| `LeanPaperJoin` (extends `PaperIntents`) | the fixed LEAN join, its two orders and the broker's report files |
| `LeanPaperJoinProps`, `LeanPaperJoinProofs`, `MCLeanPaperJoin` | its properties, their proofs, the instance |
| `TrialRegistry` | registry tables and transactions, as the batch uses them |
| `ResearchPhase` | abstract: who may take a study's phase, and when again |
| `HistoricalBatch` (extends `TrialRegistry`) | `run` and `recover`, one step per transaction and per file write |
| `HistoricalBatchProps`, `HistoricalBatchProofs`, `MCHistoricalBatch` | its properties, their proofs and that of `ResearchPhase`, the instance |
| `MarketStore` | tables of `storage.py`; each method is one transaction |
| `BarSync`, `StreamCapture`, `ArchiveImport` (extend `MarketStore`) | the three writers, step by step |
| `MarketData`, `MarketDataProps`, `MCMarketData` | the writers together; their properties and instance |
| `MarketDataProofs` | the proofs that stored bars are final, stream sessions whole and gap counts bounded, that the runs' counts add up, that a complete run covers its range and that archives are stored whole |
| `ResearchInputs` | what research reads and does not own: main, the price store; deaths and damage |
| `PrivateStudy` (extends `ResearchInputs`, INSTANCE `ResearchPhase`) | grants, studies, and their batches as `ResearchPhase` promises them |
| `LowVolTrial`, `H1PrivateTrial` (extend `ResearchInputs`) | the private trials |
| `SyntheticLedger` (extends `ResearchInputs`) | the ledger and the batch scripts |
| `SourceWorkflow` (extends `SyntheticLedger`) | the workflow over a ledger of its own |
| `Research`, `ResearchProps`, `MCResearch` | the five workloads together; their properties and instance |
| `ResearchProofs` | the proof that a private trial's phase rests on evidence |
| `PrivateStudyProofs` (extends `ResearchProofs`) | the proofs that a grant is consumed under one revision, pays for one look and one replay, and is not spent without a trace |
| `SourceWorkflowProofs` (extends `PrivateStudyProofs`) | the proofs that the inputs of the synthetic commands are accounted for and that all of `Research` keeps its types |

How state corresponds to code.  A table is a function from its key to a row or
`NoRow`; rows keep the columns some guard or property reads.  A file is its
content, `Absent`, or `Torn` when it was created and not filled.  A digest is the
value it is the digest of, so equal digests are equal values.  A transaction that
raises or returns without writing is no step; where raising releases a lock or
ends a process it is the action `Raise` or `Exit`.  A definition commented
*Deviation* is a faulty variant that no specification uses; each property is
known to fail under one of them.

**Paper authority and synthetic source.**  `Prepare`, `ClaimOnce`, `Initialize`,
`Submit` and `Rearm` are the writing transactions.  A process remembers which
claims it obtained (`claims`) and may exit at any point.  Prices, sizes and
product rules are integers scaled to the finest increment.

**H1.**  `prepare` and `handoff` have two transactions each in the code and two
actions here; a process may exit, and others may act, in between.  Reading the
report file is a step of its own, so any later step may use an outdated copy.
The broker may fill, cancel, misreport, correct (also after closing) and publish
again.

**Fixed LEAN join.**  The orders, prices and account are constants of the code, so
they are definitions here, not parameters.  A call of `tl002_lean_join.py` is a
process: it looks for the report and reads it (`Read`), then opens a transaction
(`Join` or `Rearm`); `prepare_sell` and `reconcile_sell` do this for the buy first
and go on with what follows.  `_validate` accepts one content per revision, so a
report is its revision.  The broker is one writer at a time: it claims through the
join (`Place`), creates the file or its `.next` (`BeginWrite`), and fills and moves
it (`EndWrite`); it may be several revisions ahead of the join or die anywhere.
`LeanOrderId` is left out, as the first report fixes it for every later one.

**Batch.**  `Launch` freezes the inputs in a new directory.  `Admit` or `Reject`
is `reserve_batch`; `StartAttempt` is one `start`.  `Publish` is the evaluation of
a job up to the link of its manifest: what is left of it by a death before the
link is never read again, so it needs no states of its own.  `FinishAttempt` and
`RecordJob` are the two transactions of `complete_job`.  The files of an abort and
of the closing are written in steps: `CreateBody`/`FillBody` (result.json or
summary.json), `CreatePending`/`FillPending`, `Link`.  `Close` is the
batch outcome.  `Recover` takes the lock of a batch that nobody runs, and goes on
with the same steps.  The statuses "duplicate", "unsupported" and "invalid" are
one, as no guard distinguishes them.

**Market data.**  Time is counted in hours; the clock moves between any two
steps.  `GetWindow` is the venue's answer: the bars that have begun, the last one
still open.  `received` is the time `service.py` takes before it asks, and `Closed`
compares against it.  `StoreWindow` is the transaction and `Count` the
statements after it, with an interrupt or a death in between.  `Receive`, `Save`
and `Parse` are the three effects of a stream message.  A message of the feed
may be delivered at any time, again, or never; two contents never share a
sequence number.  An archive is a sequence of minute rows; `Read` folds
`_read_events` over them, and `Lookup` and `Insert` are the part of
`import_okx_archive` before and inside the transaction.  One price stands for a
row's open, high, low and close.

**Private studies.**  A process keeps the revision and digests it read
(`work`).  `Consume` is `reserve_access`, an insertion under a primary key.
`Copy` reads the price store, `Replay` the snapshot.  The batch is
`Batches == INSTANCE ResearchPhase`, the abstract specification that
`HistoricalBatch` is proved to implement, so a batch here is one reservation and
one settlement and `RecoverBatch` its recovery by an operator.  `Replace`,
`RemoveStudy` and `Lose` are damage: one file replaced by another readable one,
a directory moved away, the registry, its anchor or an authority file lost.

**Low-volatility trial.**  `OpenPhase` is the gate (`PriorPassed`), `ReadPhase` the
reading of the rows, `Launch` the attempt, `Evaluate` the result file,
`FinishTrial` the outcome and `Decide` the decision file.

**H1 bundles.**  A wrapper is `record_local_trial.py`: `Record` checks the identity,
`StartAttempt` registers, `OpenLog` creates the log, `ReplayBundle` and
`PrintResult` are the child's, `FinishAttempt`, `FailRun` and `InterruptRun` the
outcome.  A wrapper that dies may leave its child running (`parent`).
`ReviewPasses` is the acceptance test of `review_bundle`.  Preparation is one
step, since nothing uses a bundle before `identity.json`, its last file.

**Ledger and source workflow.**  `BeginRun` and `CompleteRun` are the two
transactions, `Accepts` what the second requires.  The steps of a script are
`Start`, hash, `RegisterBatch`, `LoadPackages`, `EvaluateBatch`,
`WriteArtifact`, `CompleteBatch`; only Pine scripts evaluate the bytes they
hashed.  A workflow's step is a step of `_compile`, `_assemble`, the batch, the
parity and `_report`, each after the file of the one before; `AskRecover`,
`RecoverSources` and `Close` are `recover`.  What a content compiles to is the
constant `Reads`.

## Runs

| Run | Instance | Shows |
| --- | --- | --- |
| `synthetic_barrier` | 2 clients, 2 processes, 2 terms, 2 rule versions, 2 revisions | one open intent, order behind its claim, terms and order written once, `SubmissionBarrier` implemented |
| `synthetic_claimant` (violated) | the same | a reconciliation rearms a live holder's claim; two processes then hold it |
| `h1_race` | 2 processes, 2 hours, 2 report revisions, 2 snapshot tokens | hold is final, successor claimed on fresh evidence, one working order, `SubmissionBarrier` implemented |
| `h1_chain` | 1 process that exits and comes back, 3 hours (a buy, a sell, either), 3 revisions | the account over two handoffs, through partial, complete and canceled executions |
| `h1_journal` | 1 process that exits and comes back, 2 hours, 3 revisions, 2 opening revisions, 2 marks | the journal equals the accepted report; resolved is settled; a proposal and its intent agree, the first proposal stays |
| `h1_snapshot` (violated) | 1 process, 2 hours, 2 tokens | a changed snapshot that disagrees with the report raises without a hold |
| `lean_join` | 2 processes, the code's own two orders with 4 and 2 revisions | the journal leads to the accepted account, an accepted report is accepted again, a resolved buy is final, `SubmissionBarrier` implemented |
| `batch_safety` | 2 batches, 3 plans of 2 studies, 2 revisions, 1 death, clock of 2 readings that moves once | records agree, only damage blocks, `ResearchPhase` implemented |
| `batch_recovery` | 1 batch of 2 executed jobs, 2 deaths, the same clock | an undamaged batch is closed, also after a death during its recovery |
| `batch_abort` (violated) | 1 batch, 1 death, a clock that stands still | a torn file keeps the batch open for good |
| `market_data` | 3 hours, windows of one; 2 synchronisations, or one with a quiet hour, or a stream of 4 messages, or 2 imports out of 6 archives | bars are final, counted and covered; gaps bounded; sessions and archives whole; every execution ends |
| `research_workflows` | 2 grants, 2 processes of each command, 2 revisions, 2 versions of the rows, 3 phases; 2 bundles and attempts; 3 testers, 2 inputs of 2 contents; 2 events | grants read once, on one revision, reviewed as prepared, spent with a trace; phases on evidence; inputs accounted for |

Why the bounds are enough.  Rows are never deleted and an identity is used once,
so two identities show every relation between an open and a next one; two
processes show every race, since an interaction is between the one that read and
the one that wrote.

The first H1 order is two units, executed one at a time, and every change at the
broker is a revision.  What a run reaches of it depends on its `MaxRevision`.  With
three, as in `h1_chain` and `h1_journal`, an order is executed completely, canceled
with or without a part executed, or corrected after a part; the sell of a single unit,
which follows a canceled part, is also corrected after it closed.  In `h1_chain` the
account a successor opens on is therefore that of a buy that executed a part or all,
and of a sell that executed nothing, a part or all; its second order is always a
sell (`MCChainClientId`), as the one that follows an empty cancellation of the
first is seen in `h1_journal`.  With two, as in `h1_race` and `h1_snapshot`, the
two-unit order can be partly executed or canceled empty, so that a handoff there follows
an empty cancellation: these runs are about races and evidence and not about
amounts.  What a claim meets in `h1_race` that is not the accepted evidence is an older
copy or another snapshot; for a parent report restated or corrected after its handoff
`SuccessorClaimedOnFreshEvidence` rests on its theorem.

Two batches give a retry, a competitor and a batch of another study; the plans
have a job that is not executed, a different plan of the same study, and two
executed jobs so that a death falls between two jobs, two starts and two records.
Two deaths reach a death of the recovery from a death.  The symmetric sets
(processes, clients, batches, revisions) are compared only for equality.
Symmetry is used in safety runs only.

Bounds that are not in the code: `MaxRevision` (revisions a broker publishes),
`MaxCrashes`, `MaxMoves` (changes of the clock, or of main and the price store),
`MaxHour`, `MaxDeaths`, `MaxDamage`, `MaxEvents` and `MaxBundleEvents` (moves,
deaths and damages together).

In `market_data` the executions of a scenario are those that write the same
rows; the three writers write disjoint parts of `market_events`, so none can
disturb another's property.  Windows of one bar make the two-hour range cross a
window boundary, three hours let a bar close before, during and after its
request.  The messages are numbered 0, 2 and 4: in some orders of arrival the
count exceeds what is missing in the end.  The six archives are: one hour, two hours,
with repeated rows, revised, with a gap, with two rows of one minute.

In `research_workflows` a behaviour is about one of five workloads, as none of
them writes what another reads.  Two events are two moves or deaths, or one
together with the loss or replacement of one record; a property that tolerates damage
tolerates one, so more than one is not tried (two replaced files can of course
agree on a falsehood).  For H1's bundles one event is explored beside all
interleavings of two wrappers; two hold as well, and take several minutes.

`CHECK_DEADLOCK FALSE` in the batch runs: every batch identity is launched and
closed at the end, and the system rests.  In `market_data` and
`research_workflows` every execution and grant is used up.

### What the violated runs show

- **Claims can be held twice** (`synthetic_claimant`).  `reconcile` rearms a
  claimed intent without an order.  If the claiming process is alive, the next
  claimant and it both hold the claim, against "No timeout or process restart makes
  that claim reusable".  No second order results: that is `ClientBoundOnce`, proved.
- **A changed snapshot may raise without a hold** (`h1_snapshot`).  The stability
  check runs first and raises when the snapshot's account differs from the report's,
  so the hold the note promises is not written.
- **An abort may never close a batch** (`batch_abort`).  `write` creates the final
  name and fills it in place.  After a death in between, recovery finds a file
  that exists and cannot be read, with `--abort` too, and the registry refuses
  every other batch as "unfinished_batch".

## Liveness and fairness

`RecoveryCloses` and `AbortCloses` are checked under `FairSpec`: weak fairness
of `Proceed(b)` (a process that lives executes its next statement; the code has no
loop that waits) and of `Recover(b, TRUE)` (a dead batch is recovered with
`--abort` by its operator in the end, which is what the registry relies on, since
it refuses all other batches until then).  Deaths are bounded, as nothing closes
under endless deaths.  Nothing is assumed of `Launch`, of the clock or of plain
recovery.  `RecoveryCloses` excepts damage: a torn file nobody is filling, or a
result older than its attempt's start after the clock was set back.  The
exceptions are real: `batch_abort` shows the first.

`ExecutionsEnd` of the recorder is checked under weak fairness of the steps of an
execution that was started and of the clock that ends a capture.  Retries are
counted, so no assumption about the venue or the feed is needed; interrupts and
deaths are not assumed.

The paper authority has no liveness property: a held authority, or a process that
missed a revision, waits for a person by design.  Nor have the research commands:
each is a single pass that an operator starts, and none retries or waits, except
for the lock of a source workflow, which is not blocking.

### What the market and research models show beside the properties

All of these are behaviours of the model that the properties allow, because the code
does; they limit what the properties could claim.

- A process that dies leaves its run or session `running`; nothing closes it.  An
  interrupt between a commit and its count makes a run's count too small, hence the
  condition in `BarsCounted`.
- Two overlapping product refreshes may store the older description last.
- A blocked preflight of a private batch makes `execute` write a review, of no
  results.  A batch of another hypothesis that is open costs a grant its only batch.
  Main may move between a command's gate and the revision the batch itself records.
- The low-volatility trial reads a phase's rows before it registers the attempt, so
  two processes, or a process that failed on its input and its repetition, read
  them more than once.  A death leaves the attempt open, or completed without a
  decision, and the next phase stays closed.
- `record_local_trial.py` takes its `--phase` from the command line, so one
  identity can be run as "development" often, and the registry's single validation
  does not see it; the review does, as the row's phase must be the result's.  A
  completed attempt of an identical identity can stand for a result in another
  bundle of the same content.
- `strategy_batch.py` reads a package again after hashing it, so an edit in between
  is tested under the earlier digest (`BatchesAccounted` excludes edits there).  A
  death between the registration and the artifact keeps the output's key for good.
- A source workflow that dies before `sources/manifest.json`, or between that and the
  admission of its batch, cannot be recovered; one that dies between `os.link` and
  the removal of `manifest.json.pending` fails its report on the unexpected
  file; a `recover` that takes the lock between `mkdir` and the run's own lock ends
  the run.  Torn parity, timing or results files stop every later recovery.

## Proofs

`SyntheticPaperProofs` proves, for any sets of clients, processes, terms,
revisions and rules:

| Theorem | States |
| --- | --- |
| `TypeCorrect` | `Spec => []TypeOK` |
| `OneOpenIntentHolds` | at most one unresolved intent |
| `OrderBehindClaimHolds` | an order has its claimed intent with the same terms |
| `ClientBoundOnceHolds` | terms and orders are written once |
| `ImplementsBarrier` | `Spec => Barrier!Spec`, by a refinement mapping |

The argument.  `IInv` is type correctness, one open intent, *no resolution* and
order behind claim.  `OneOpenIntent` is not inductive alone: the step that
prepares a client looks for unresolved rows, so the invariant has to know that
nothing resolves a row of this source.  `OrderBehindClaim` is needed so that a
rearm never touches an intent whose order exists.  `StepShape` states once what a
step may do to an intent and an order; invariance, the action property and the
refinement follow from it.  Assumption used: `NoRowAssumption` (the absent row is not
a row).

`H1HandoffProofs` proves, for any sets of clients, processes, reports, revisions
and executions, chains of any length and any number of exits:

| Theorem | States |
| --- | --- |
| `TypeCorrect` | `Spec => []TypeOK` |
| `OneWorkingOrderHolds` | the broker works at most one order |
| `AccountChainHolds` | a successor opens on the account its parent's journal leads to |
| `ProposalBindsIntentHolds` | a stored proposal has its intent, of the same terms |
| `JournalIsReportHolds` | the journal holds exactly the accepted report's executions |
| `ProposalStoredOnceHolds` | a proposal is written once |
| `ResolvedIsSettledHolds` | what a resolution rests on never changes again |
| `HoldIsFinalHolds` | nothing is prepared, claimed or resolved under a hold, nor the hold lifted |
| `SuccessorClaimedOnFreshEvidenceHolds` | only a process whose copy is the resolved parent's report claims a successor |
| `Refinement` | `Spec => Barrier!Spec`, by a refinement mapping |

The argument.  No part is inductive alone, since a property of the store depends
on what the broker and every process may still do.  `IInv` has five parts:
`TypeOK`; `ProposalInv` (a stored or admitted proposal has its intent, of its terms,
whichever of the two transactions came last); `BrokerInv` (whoever holds a claim,
and every order at the broker, has a claimed intent with a proposal, and fills
whole units within its quantity); `JoinInv` (every report that was read, accepted
or handed over was published, and the broker has not reopened its order since;
the accepted one's account follows from its journal); and `ChainInv` (a resolution
has a terminal report and its evidence, the store has one open intent as soon as it
has any, and a successor's parent report and account are those of its proposal).
Beyond that nothing is known of a process's copy of a report: every use of an
outdated one is guarded by what the transaction reads, and the proof rests on
these guards.  The sums of quantities are over at most two fills, for which the
library's fold can be computed (`SumOfTwo`).  Assumptions: `NoRowAssumption`,
`AbsenceAssumption` (absence is no report, proposal or snapshot),
`RevisionAssumption` (an opening revision is no report), `AccountAssumption`,
`ClientAssumption` and `BoundAssumption`.

`LeanPaperJoinProofs` proves of the fixed LEAN join, whose orders and reports are
constants of the code, for any processes and any number of deaths:

| Theorem | States |
| --- | --- |
| `TypeCorrect` | `Spec => []TypeOK` |
| `LedgerIsAccountHolds` | the append-only journal leads to the accepted report's account |
| `RepeatIsAcceptedHolds` | an accepted report is accepted again, with no new event |
| `ResolvedBuyStaysHolds` | a resolved buy's order, events and intent are final |
| `Refinement` | `Spec => Barrier!Spec`, by a refinement mapping |

Its `IInv` is `TypeOK`, `StoreInv` (the rows of the two orders are the fixture's, a
sell exists exactly when the buy is resolved, and then its last revision was
joined), `BrokerInv` (only an order with an intent has a report, or a broker that
works on it, or a process that read one) and `JoinInv` (a joined order stays
claimed, its events are in the journal, and the journal leads to the account of
the order joined last).  `JoinInv` also keeps the buy's own account, which a sell's
events hide from `LedgerIsAccount`: without it a correction of the buy could not be
followed.  Assumptions: `ClientAssumption`, `FixtureAssumption` (the tables can hold
the fixture) and `NoRowAssumption`.

`HistoricalBatchProofs` proves, for any sets of batches, plans, revisions and clock
readings, plans of any length and any number of deaths:

| Theorem | States |
| --- | --- |
| `TypeCorrect` | `Spec => []TypeOK` |
| `RecordsAgreeHolds` | artifact, attempt outcome and job record agree |
| `BlockedOnlyByDamageHolds` | `run` and `recover` raise over a torn file or a clock set back, and nothing else |
| `ImplementsPhase` | `Spec => PhaseSpec`, by a refinement mapping |

The argument for the records.  `RecordsAgree` is about rows that two
transactions of `complete_job` write, so the inductive invariant `IInv` has to
say what holds between them: `Recording` (the artifact is there and readable, and
a started attempt has its status), for which `AbortedApart` keeps an abort's
directory and the run's artifact exclusive, `RecordedReady` gives every recorded
job an artifact, `Reserved` keeps processes behind their admission, and `Starting`
has all attempts started before a job is recorded.  The lemma `RowsStay` says
once which rows a step leaves alone, `DirStays` that a batch's current directory
changes only when a job is recorded.

The argument for what blocks.  `BlockedOnlyByDamage` excludes every other reason
to raise, so `BInv` has to hold what each of them would contradict: one batch is
open and a closed one has no job left (`OneOpen`), attempts are of executable jobs
and all are started before `run` works (`StartedFirst`), an outcome is what the
artifact or the abort's result says (`OutcomeIsResult`), an abort's result is not
filled before its turn (`FilledFirst`) and a summary agrees with the records
(`SummaryAgrees`).  The job that a recovery goes on with is
the least one without a record; that there is a least one is `WFMin`.

The argument for the phases.  The mapping takes the latest admitted batch of a
study, which the code finds by `ORDER BY rowid DESC LIMIT 1`.  `PhaseInv` adds to
`IInv` that a study with batches has a latest one (`PriorExists`) and that only
admitted batches are closed (`ClosedHaveRows`).  Then only two actions touch the mapped phase:
`Admit` reserves it, because an empty set of reasons excludes every open batch
and every prior one that may not be retried, and `Close` settles it.

Assumptions: `NoRowAssumption` and `PhaseAssumption` (the absent row is not
a row), `PlanAssumption` (jobs are numbered from 1, the executable ones have
different keys, which is what `prepare_jobs` leaves), `FileAssumption` (absent and
torn are not contents), `TimesAssumption`, `BoundAssumption`.

`MarketDataProofs` proves, for any executions, ranges, windows, messages, archives
and clock:

| Theorem | States |
| --- | --- |
| `BarsFinalHolds` | every stored bar is the final one |
| `SessionWholeHolds` | a session counts its messages; a complete one has all observations |
| `GapsBoundedHolds` | a gap count is at least what is missing and at most what fits |

`BarsFinal` needs to know of each execution that its receipt time is not later than
now while a request is under way, and that an answer's open bars had not passed at
that time (`Requested`); a bar that was closed at the request is then final in
any later answer.  `SessionWhole` needs, for a running session, that every message
but the one in hand has its observations (`Running`), and that an observation
passed over as known is the same one, since its identity holds the session and
the message's number.  `GapsBounded` needs that the last number kept is the highest
of those seen and the one in hand, and that the count covers what is missing
(`Covers`): a number between the first and the highest can only reduce what is
missing, and a higher one adds exactly the numbers it passes over.  Only
`SyncAssumption` and `MessageAssumption` are used.

Of the REST synchronisation and the archive import it proves, in the composition
with the other writers:

| Theorem | States |
| --- | --- |
| `TypeCorrect` | `Spec => []TypeOK` |
| `ArchiveWholeHolds` | an archive of which an import finished or a bar is stored is stored whole, as its rows are |
| `BarsCountedHolds` | the runs' counts add up to the rows, but for runs that were interrupted |
| `CompleteCoversHolds` | a complete run misses only quiet hours and those not passed when it began |

`SyncInv` says of each execution where it is (`Placed`), that the answer in hand has
one candle for each hour that passed and was not quiet (`Answered`), and that every
hour behind its cursor is stored, quiet, or had not passed at the start
(`CoverInv`); and of all together that what they counted, or are about to count,
is at most the rows, and equal to them when no count was lost (`CreditInv`).
`CreditInv` is about a sum over executions that changes with every page any of
them stores.  The prover has no induction over sums, but a sum over a finite set
is determined by a function on its subsets, and that it has a property is shown
by a subset of least cardinality without it (`AllNumbers`, from `WFMin`): `SumIsAdds`,
`SumChange`, `SumLess` and `SumMore` say what a change of one summand does to the
sum.  Assumptions: `StoreAssumption` (finitely many executions), `ClockAssumption`
(the clock's bound is a number) and `SyncAssumption`.

`ArchiveWhole` has two halves.  What is read of an archive is a fold over its rows;
`ReadSteps` makes a sequence of steps of the library's fold, one for each row, in
the way of the sums, and `ReadingAll` takes an invariant along it (`Reading`): the
rows so far have consecutive minutes, each once but for repetitions of the
previous row, and are cut into stretches of an hour's minutes from the first row
on.  The count of a complete archive leaves no other first row than the period's
first minute, so that each stretch is an hour, and what is stored of it is what
the hour comes to from its rows as a set (`HourIsRows`, `CompleteRead`).  The store
then needs `ArchivedInv`: a stored bar's archive is held whole, and an import that
is about to insert has found an equal bar for every hour before its first.  The
lookups before the transaction are justified by nothing more than that stored bars
never change (`HeldStays`).  Assumption: `ArchiveAssumption` (rows have a minute and
a price, an archive's last hour is not before its first, an hour has at least one
row).

`ResearchProofs` proves `PhaseEvidenceHolds`, for any processes, revisions, rows and
numbers of moves and deaths.  Its two halves have an invariant each.

- The low-volatility trial (`TrialInv`).  That a phase's result is written once rests
  on two records, of which one may be lost: the result file, which must be new, and
  the attempt, without which nobody comes to evaluate (`TestedOnce`).  A process
  that may read a later phase knows what the phase before was tested with
  (`Founded`), and the records it was found in may disappear afterwards.  What the
  records say of each other holds only while all are in place (`InPlace`,
  `AnalystInPlace`), and a first loss finds it true: the invariant is in three
  levels, by the damage so far.
- The bundles (`BundleInv`).  A manifest says what was read for its bundle, and
  nobody works in a directory that was moved (`Stands`), under any damage.  With
  all records in place a process works on the identity it recorded, in an attempt
  of its own, which has been replayed exactly when its label says so
  (`WrapperInPlace`); a completed attempt has the replay of its identity
  (`AttemptInPlace`), whatever wrappers died and left a program running.

It uses `TrialAssumption` and `BundleAssumption` (absence is none of the records),
`RowsAssumption` and `InputBoundAssumption`.  `SurvivalCounts` is claimed for at most
one lost or replaced record: with two, the result file and the registry of a phase
can both be lost, and the phase be tested again.

`PrivateStudyProofs` proves `OneHeadHolds`: as long as no record is lost, a grant's
authorization, snapshot and batch were consumed under one revision, for any grants,
processes, rows, moves of main and deaths.  The invariant (`Safe`) ties what each
process keeps (`WorkInv`) to what its grant's rows say (`GrantInv`): the revision
of a process between its gate and its next consumption is that of the
authorization, that of one which holds the snapshot stage is the snapshot's, and
the receipt names it.  It uses `AbsenceAssumption` (absence is not a record), so that
a consumed row is never taken for a missing one, and `FounderAssumption`.

The same module proves `ReadOnceHolds`, `ReviewedAsPreparedHolds` and
`SpentIsExplainedHolds` from an invariant with a level for each of the claims'
premises (`PrivateSafe`):

- under any damage, the records have their types and a process has what its label
  needs, in a directory that is there (`PrivateTypes`);
- while at most one record was lost or replaced (`PrivateOnce`), a grant that was
  read has its directory or its row, one that was replayed its attempt or its row,
  and whoever is past the row finds the directory (`WorkOnce`); descriptor and plan
  agree only if they name what was read;
- with all records in place (`PrivateWhole`), each of the two spent stages is held
  by one process, the directory and the attempt follow their rows, and what the
  process expects is there, so that no command ends in `Raise`;
- and without a death either, a spent stage is held or left its mark (`Explained`).

The first loss is the step where the levels meet: only because directory *and* row
were there (`PrivateWhole`) does one of them remain (`PrivateOnce`).  It uses
`AbsenceAssumption`, also that an incomplete result is none of the rows,
`RowsAssumption`, `FounderAssumption` and `InputBoundAssumption`.

`SourceWorkflowProofs` proves `InputsAccountedHolds` for any inputs, contents, outputs,
processes and any number of edits, deaths and damaged files, and `ResearchTypeCorrect`,
the type invariant of the five research workloads together.  `SyntheticInv` has a
part for the scripts' batches and one for a source workflow.

- The batches (`BatchSafe`).  A process past its registration is the only one of its
  run and holds the digests that the run was registered with (`TesterInv`): the key of
  a run is unique, and the one that inserted it goes on with it alone.  An output
  is evaluated once, after its run was registered (`OutputInv`).  With no file damaged,
  artifact and completion are what was evaluated (`BatchInPlace`); with no file
  edited, all contents are the present ones (`BatchStill`), which is what packages
  need, since they are read again after they were hashed.
- The workflow (`SourceSafe`).  The directory's lock makes one process the only one
  inside (`ClerkInv`), and its place bounds what may be there already: each input is
  compiled and the jobs are executed once because only `run` does so, in a directory
  that must be new, and a recovery begins past both.  Every outcome is of the declared bytes, and "compiled" only once
  compiled (`DirectoryInv`), also when a file is lost.  With no file damaged the
  results are what a recovery would consolidate again (`DirectoryInPlace`), and
  whoever has yet to write them finds the ledger complete and the batch closed
  (`ClerkInPlace`).

It uses `InputAssumption`, `LedgerAssumption` and `DirectoryAssumption` (absence and
damage are no records; the workflow's key is not a script's), and `DeclaredAssumption`.

Only model-checked: the liveness properties `RecoveryCloses` and `ExecutionsEnd`
(liveness under fairness is out of the prover's reach).  Every invariant, every
action property and every refinement that a run checks is also a theorem, but for
those that a run shows to be violated.

## Not modelled, and why

- experiment identity, engine parity, exports, batch reviews, the accounting that
  the H1 review repeats and the archive coverage audit: digests, file conversion and
  arithmetic without state;
- the Pine front end and the intake of packages: pure functions of one file, a
  constant (`Reads`) of the ledger's model;
- replay and strategies: pure functions of rows and rules; what a replay comes to
  is a choice of its status, verdict or result in the modules that call it;
- the LEAN probes other than their claims and report writes: single-shot programs
  around an external engine;
- in `start`, phases other than development are modelled with the scripts that use
  them, in the form their single attempt identifiers give them;
- stream messages without a sequence number other than the acknowledgement of a
  subscription, and the columns and decimals of a single archive row;
- damage beyond one lost or replaced record, and more than two events;
- a venue that cuts off candles: a request asks for a window and its end, one bar more
  than its limit (`coinbase.py:121`); `Candles` takes it that the bars of the window
  are served, and `CompleteCovers` rests on that;
- a second Ctrl-C that interrupts a capture between a message's commit and its count
  (`stream.py:145`, `:156`): `Cancel` is the cancellation that the first one causes,
  which arrives where the capture awaits;
- an archive replaced between its digest and its reading (`okx_archive.py:59`, `:68`):
  `ReadArchive` is one step, which takes it that nobody rewrites a downloaded archive
  while it is imported;
- a result or decision of the low-volatility trial that a death leaves torn
  (`low_vol_private_trial.py:141-146`).  A torn result stands beside an attempt that
  is open for good, which already refuses every later launch; a torn decision
  closes its own phase and, as it cannot be read, the next one.  The model leaves no
  file, so it allows the same and in the second case a further read;
- preflight and `prepare_jobs` beyond the partition of jobs into executable and
  not, and the integrity of files nobody rewrites (`verify` on finished artifacts).

## Plan

1. Authority, synthetic source, barrier: done, proved.
2. H1 handoff: done, its invariants, action properties and the barrier proved.
3. Registry and batch: done, its invariants and `PhaseSpec` proved.
4. `LeanPaperJoin`: done, its invariants, `ResolvedBuyStays` and the barrier proved.
5. Market data: done, all invariants proved.
6. Research: modelled and checked, all invariants proved.
7. Pure algorithms as recursive functions against reference definitions: rolling
   extreme, replay loop.
