-------------------------- MODULE H1HandoffProps --------------------------
(***************************************************************************)
(* The properties of H1Handoff that its runs check and its theorems state. *)
(***************************************************************************)
EXTENDS H1Handoff

\* A stored proposal and the intent of its client, written by two transactions
\* of which a crash may lose the second, never tell of different orders.
ProposalBindsIntent ==
  \A c \in ClientId : proposals[c] # NoRow =>
    /\ intents[c] # NoRow
    /\ intents[c].terms = proposals[c].terms
    /\ intents[c].source_revision = proposals[c].source_revision

\* The first proposal stored for a client stays: another one for the same
\* client, whose intent replays, is refused and replaces nothing.
ProposalStoredOnce ==
  [][\A c \in ClientId :
       proposals[c] # NoRow => proposals'[c] = proposals[c]]_vars

\* The account chain: a successor's proposal opens on exactly the account its
\* parent's opening account became through the executions in the parent's
\* journal, however the report was revised, misreported or corrected since.
AccountChain ==
  \A c, d \in ClientId :
    /\ intents[d] # NoRow
    /\ h1orders[c] # NoRow
    /\ resolutions[c] # NoRow
    /\ intents[d].source_revision = h1orders[c]
    => /\ proposals[d] # NoRow
       /\ proposals[d].account = AccountAfter(proposals[c], executions[c])

\* The journal of a client holds the executions of the accepted report and no
\* other, although rows are only ever inserted.
JournalIsReport ==
  \A c \in ClientId :
    executions[c] = IF h1orders[c] = NoRow THEN {} ELSE h1orders[c].fills

\* The broker never works two orders at once: a client is routed only after
\* every order routed before it is filled or canceled at the broker itself.
OneWorkingOrder ==
  LET Working == {c \in ClientId :
        file[c] # NoRow /\ file[c].status \in {"Submitted", "PartiallyFilled"}} IN
  \A c, d \in Working : c = d

\* A durable hold is final: no intent is prepared, claimed or resolved after
\* it, by any process, from any copy of the original evidence.
HoldIsFinal ==
  [][held => /\ held'
             /\ resolutions' = resolutions
             /\ \A c \in ClientId : StateOf(c)' = StateOf(c)]_vars

\* A resolved client is settled: its report, journal and evidence never
\* change again, even when the broker publishes a correction.
ResolvedIsSettled ==
  [][\A c \in ClientId : resolutions[c] # NoRow =>
       /\ resolutions'[c] = resolutions[c]
       /\ h1orders'[c] = h1orders[c]
       /\ executions'[c] = executions[c]
       /\ evidence'[c] = evidence[c]]_vars

\* A client created by a handoff carries the guard, and only a process that
\* saw the unchanged parent report and snapshot obtains its claim.
SuccessorClaimedOnFreshEvidence ==
  [][\A p \in Process, d \in ClientId :
       /\ d \in claims'[p] \ claims[p]
       /\ intents[d].source_revision \notin OpeningRev
       => \E c \in ClientId :
            /\ resolutions[c] # NoRow
            /\ evidence[c] # NoRow
            /\ copy[p] = h1orders[c]
            /\ copy[p] = evidence[c].report
            /\ copy[p].status \in {"Filled", "Canceled"}
            /\ intents[d].source_revision = copy[p]]_vars

\* The submission barrier: an order is sent when the broker's file appears.
Barrier == INSTANCE SubmissionBarrier WITH
  open <- Unresolved,
  sent <- {c \in ClientId : file[c] # NoRow},
  closed <- {c \in ClientId : resolutions[c] # NoRow}

BarrierSpec == Barrier!Spec

\* The post-handoff note says a "changed parent report or stable but changed
\* snapshot latches a durable authority hold": whatever snapshot of the
\* accepted report a successor's observation finds stable and different from
\* the accepted one, it should conclude with a hold.
ChangedSnapshotHolds ==
  \A c, d \in ClientId, s \in Served :
    /\ ~held
    /\ intents[d] # NoRow
    /\ c \in Parents(d)
    /\ s.report = h1orders[c]
    /\ s # evidence[c]
    => Observed(d, s.report, s, s) = "late_h1_snapshot_change"

=============================================================================
