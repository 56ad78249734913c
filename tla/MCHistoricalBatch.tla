------------------------- MODULE MCHistoricalBatch -------------------------
(***************************************************************************)
(* A small instance of HistoricalBatch: two batches (a batch and a retry,  *)
(* or two studies) of plans with one or two jobs, the second a duplicate   *)
(* of the first where it is not executable.                                *)
(***************************************************************************)
EXTENDS HistoricalBatchProps, TLC

CONSTANTS b1, b2, rev1, rev2

MCBatch == {b1, b2}
MCOneBatch == {b1}
MCRevision == {rev1, rev2}
MCOneRevision == {rev1}

\* A study whose second job repeats the first.
Duplicate == [study |-> "s1", strategies |-> <<"k1", "k1">>, executable |-> {1}]
\* The same study, planned with one job.
Single == [study |-> "s1", strategies |-> <<"k1">>, executable |-> {1}]
\* Another study, with two jobs that are executed.
Pair == [study |-> "s2", strategies |-> <<"k1", "k2">>, executable |-> {1, 2}]

MCPlan == {Duplicate, Single, Pair}
MCPair == {Pair}

MCTimes == {0, 1}

Symmetry == Permutations(MCBatch) \union Permutations(MCRevision)

=============================================================================
