------------------------------ MODULE Research ------------------------------
(***************************************************************************)
(* The research commands together.  Each of the five workloads has files   *)
(* and records of its own; the private ones share what they read (main and *)
(* the price store) and the synthetic ones the authored files, and none    *)
(* writes what another reads.  A behaviour is therefore about one workload *)
(* at a time, in all interleavings of its own processes.                   *)
(***************************************************************************)
EXTENDS PrivateStudy, LowVolTrial, H1PrivateTrial, SourceWorkflow

CONSTANT MaxBundleEvents  \* bound: as MaxEvents, where H1's bundles are the workload

ASSUME BundleBoundAssumption == MaxBundleEvents \in Nat

VARIABLE workload

researchVars ==
  <<inputs, privateVars, trialVars, bundleVars, ledgerVars, workflowVars, workload>>

Workload == {"private", "trial", "bundle", "batches", "sources"}
PricedWorkload == {"private", "trial", "bundle"}

TypeOK ==
  /\ InputsTypeOK
  /\ PrivateTypeOK
  /\ TrialTypeOK
  /\ BundleTypeOK
  /\ LedgerTypeOK
  /\ WorkflowTypeOK
  /\ workload \in Workload

Init ==
  /\ InputsInit
  /\ PrivateInit
  /\ TrialInit
  /\ BundleInit
  /\ LedgerInit
  /\ WorkflowInit
  /\ workload \in Workload
  /\ workload \in PricedWorkload => file = Declared

\* Main and the price store change under the private workloads.
Drift ==
  /\ workload \in PricedWorkload
  /\ Move
  /\ UNCHANGED <<privateVars, trialVars, bundleVars>>

Private ==
  /\ workload = "private"
  /\ PrivateNext
  /\ UNCHANGED <<trialVars, bundleVars>>

Trial ==
  /\ workload = "trial"
  /\ TrialNext
  /\ UNCHANGED <<privateVars, bundleVars>>

Bundles ==
  /\ workload = "bundle"
  /\ BundleNext
  /\ UNCHANGED <<privateVars, trialVars>>

Scripts ==
  /\ workload = "batches"
  /\ LedgerNext
  /\ UNCHANGED workflowVars

Workflow ==
  /\ workload = "sources"
  /\ WorkflowNext

Next ==
  /\ \/ Drift /\ UNCHANGED <<ledgerVars, workflowVars>>
     \/ Private /\ UNCHANGED <<ledgerVars, workflowVars>>
     \/ Trial /\ UNCHANGED <<ledgerVars, workflowVars>>
     \/ Bundles /\ UNCHANGED <<ledgerVars, workflowVars>>
     \/ Scripts /\ UNCHANGED <<privateVars, trialVars, bundleVars>>
     \/ Workflow /\ UNCHANGED <<privateVars, trialVars, bundleVars>>
  /\ UNCHANGED workload
  /\ workload = "bundle" => moves' + deaths' + damage' <= MaxBundleEvents

Spec == Init /\ [][Next]_researchVars

=============================================================================
