---------------------------- MODULE LowVolTrial ----------------------------
(***************************************************************************)
(* scripts/low_vol_private_trial.py over trial_registry.py: three phases   *)
(* of one private trial, each read, registered, evaluated and decided by   *)
(* one process of the script.  A phase after the first is opened only on   *)
(* the recorded survival of the one before it, under the same revision.    *)
(*                                                                         *)
(* The script names one attempt for each phase, so the registry's rules    *)
(* about repeated identities come to one row per phase.  The time a        *)
(* process started is part of the row: no two launches are identical.      *)
(* A digest is the content it was taken of.                                *)
(***************************************************************************)
EXTENDS ResearchInputs, Sequences

CONSTANT Analyst  \* processes of the script

Prior == [validation |-> "development", untouched |-> "validation"]
Verdict == {"survived", "rejected"}

Result == [head : Revision, rows : Rows, decision : Verdict]
Decision == [head : Revision, outcome : Verdict, artifact : Result]
AttemptRow == [head : Revision, rows : Rows]
OutcomeRow == [status : {"completed", "failed"}, artifact : Result \union {Missing}]
TrialWork == [pc : {"idle", "read", "launch", "evaluate", "finish", "decide"}, phase : Phase,
              head : Revision \union {Missing}, rows : Rows \union {Missing},
              result : Result \union {Missing}]

ASSUME TrialAssumption ==
  Missing \notin Result \union Decision \union AttemptRow \union OutcomeRow

VARIABLES
  attempts,     \* trial_attempts, by phase: what the identity is made of
  outcomes,     \* trial_outcomes, by phase
  results,      \* <phase>-result.json
  decisions,    \* <phase>-decision.json
  trial,        \* what a process is doing
  opened,       \* the revisions under which a phase's rows were read
  tested        \* the results ever written for a phase

files == <<results, decisions>>
ledger == <<attempts, outcomes>>
trialVars == <<ledger, files, trial, opened, tested>>

Off == [pc |-> "idle", phase |-> "development", head |-> Missing,
        rows |-> Missing, result |-> Missing]

TrialInit ==
  /\ attempts = [ph \in Phase |-> Missing]
  /\ outcomes = [ph \in Phase |-> Missing]
  /\ results = [ph \in Phase |-> Missing]
  /\ decisions = [ph \in Phase |-> Missing]
  /\ trial = [p \in Analyst |-> Off]
  /\ opened = [ph \in Phase |-> {}]
  /\ tested = [ph \in Phase |-> <<>>]

TrialTypeOK ==
  /\ attempts \in [Phase -> AttemptRow \union {Missing}]
  /\ outcomes \in [Phase -> OutcomeRow \union {Missing}]
  /\ results \in [Phase -> Result \union {Missing}]
  /\ decisions \in [Phase -> Decision \union {Missing}]
  /\ trial \in [Analyst -> TrialWork]
  /\ opened \in [Phase -> SUBSET Revision]
  /\ tested \in [Phase -> Seq(Result)]

EndTrial(p) == trial' = [trial EXCEPT ![p] = Off]

\* Deviation: a survival under any revision will do.
PriorPassedAnyHead(ph) ==
  ph # "development" =>
    LET d == decisions[Prior[ph]] IN
    /\ d # Missing
    /\ results[Prior[ph]] # Missing
    /\ d.outcome = "survived"
    /\ d.artifact = results[Prior[ph]]
    /\ results[Prior[ph]].decision = d.outcome
    /\ outcomes[Prior[ph]] # Missing /\ outcomes[Prior[ph]].status = "completed"

\* _prior_passed(): decision, result file and registry agree on the survival.
PriorPassed(ph) ==
  ph # "development" =>
    LET d == decisions[Prior[ph]] IN
    /\ d # Missing
    /\ results[Prior[ph]] # Missing
    /\ d.outcome = "survived"
    /\ d.head = head
    /\ d.artifact = results[Prior[ph]]
    /\ results[Prior[ph]].decision = d.outcome
    /\ outcomes[Prior[ph]] # Missing /\ outcomes[Prior[ph]].status = "completed"

\* run() up to the last check before the phase's rows are read.
OpenPhase(p, ph) ==
  /\ trial[p].pc = "idle"
  /\ PriorPassed(ph)
  /\ decisions[ph] = Missing
  /\ trial' = [trial EXCEPT ![p] = [Off EXCEPT !.pc = "read", !.phase = ph, !.head = head]]
  /\ UNCHANGED <<inputs, ledger, files, opened, tested>>

\* read_phase(), before anything is registered.
ReadPhase(p) ==
  /\ trial[p].pc = "read"
  /\ opened' = [opened EXCEPT ![trial[p].phase] = @ \union {trial[p].head}]
  /\ IF source = Broken
       THEN EndTrial(p)
       ELSE trial' = [trial EXCEPT ![p].pc = "launch", ![p].rows = source]
  /\ UNCHANGED <<inputs, ledger, files, tested>>

\* No attempt of the phase, and none of the trial that is unfinished.
MayLaunch(ph) ==
  /\ attempts[ph] = Missing
  /\ \A q \in Phase : attempts[q] # Missing => outcomes[q] # Missing

Launch(p) ==
  LET ph == trial[p].phase IN
  /\ trial[p].pc = "launch"
  /\ IF MayLaunch(ph)
       THEN /\ attempts' = [attempts EXCEPT ![ph] = [head |-> trial[p].head, rows |-> trial[p].rows]]
            /\ trial' = [trial EXCEPT ![p].pc = "evaluate"]
       ELSE EndTrial(p) /\ UNCHANGED attempts
  /\ UNCHANGED <<inputs, outcomes, files, opened, tested>>

\* The scenarios are replayed and measured, and the result is a new file.
Evaluate(p) ==
  LET ph == trial[p].phase IN
  /\ trial[p].pc = "evaluate"
  /\ results[ph] = Missing
  /\ \E verdict \in Verdict :
       LET result == [head |-> trial[p].head, rows |-> trial[p].rows, decision |-> verdict] IN
       /\ results' = [results EXCEPT ![ph] = result]
       /\ tested' = [tested EXCEPT ![ph] = Append(@, result)]
       /\ trial' = [trial EXCEPT ![p].pc = "finish", ![p].result = result]
  /\ UNCHANGED <<inputs, ledger, decisions, opened>>

FinishTrial(p) ==
  LET ph == trial[p].phase IN
  /\ trial[p].pc = "finish"
  /\ attempts[ph] # Missing
  /\ outcomes[ph] = Missing
  /\ outcomes' = [outcomes EXCEPT ![ph] =
       [status |-> "completed", artifact |-> trial[p].result]]
  /\ trial' = [trial EXCEPT ![p].pc = "decide"]
  /\ UNCHANGED <<inputs, attempts, files, opened, tested>>

Decide(p) ==
  LET ph == trial[p].phase IN
  /\ trial[p].pc = "decide"
  /\ decisions[ph] = Missing
  /\ decisions' = [decisions EXCEPT ![ph] =
       [head |-> trial[p].head, outcome |-> trial[p].result.decision,
        artifact |-> trial[p].result]]
  /\ EndTrial(p)
  /\ UNCHANGED <<inputs, ledger, results, opened, tested>>

\* An error of a launched process: an attempt that is open has failed.
FailTrial(p) ==
  LET ph == trial[p].phase IN
  /\ trial[p].pc \in {"evaluate", "finish", "decide"}
  /\ outcomes' = IF attempts[ph] # Missing /\ outcomes[ph] = Missing
                   THEN [outcomes EXCEPT ![ph] = [status |-> "failed", artifact |-> Missing]] ELSE outcomes
  /\ EndTrial(p)
  /\ UNCHANGED <<inputs, attempts, files, opened, tested>>

DieTrial(p) ==
  /\ trial[p].pc # "idle"
  /\ OneMoreDeath
  /\ EndTrial(p)
  /\ UNCHANGED <<ledger, files, opened, tested>>

\* A result or a decision is replaced or lost, or the registry is lost.
DamageTrial ==
  /\ OneMoreDamage
  /\ \/ \E ph \in Phase :
          \/ /\ results[ph] # Missing
             /\ \E verdict \in Verdict :
                  results' = [results EXCEPT ![ph].decision = verdict]
             /\ UNCHANGED <<decisions, ledger>>
          \/ /\ results[ph] # Missing
             /\ results' = [results EXCEPT ![ph] = Missing]
             /\ UNCHANGED <<decisions, ledger>>
          \/ /\ decisions[ph] # Missing
             /\ \E verdict \in Verdict, h \in Revision :
                  decisions' = [decisions EXCEPT ![ph].outcome = verdict, ![ph].head = h]
             /\ UNCHANGED <<results, ledger>>
          \/ /\ decisions[ph] # Missing
             /\ decisions' = [decisions EXCEPT ![ph] = Missing]
             /\ UNCHANGED <<results, ledger>>
     \/ /\ attempts' = [ph \in Phase |-> Missing]
        /\ outcomes' = [ph \in Phase |-> Missing]
        /\ UNCHANGED files
  /\ UNCHANGED <<trial, opened, tested>>

TrialStep(p) ==
  \/ ReadPhase(p) \/ Launch(p) \/ Evaluate(p) \/ FinishTrial(p) \/ Decide(p)
  \/ FailTrial(p)

TrialNext ==
  \/ \E p \in Analyst :
       \/ \E ph \in Phase : OpenPhase(p, ph)
       \/ TrialStep(p)
       \/ DieTrial(p)
  \/ DamageTrial

=============================================================================
