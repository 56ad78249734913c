----------------------------- MODULE H1Handoff -----------------------------
(***************************************************************************)
(* The H1 paper workflow: h1_paper_bridge.py admits a policy proposal into *)
(* the paper authority, h1_local_report_join.py joins it to the revisioned *)
(* report file of a local LEAN broker, retires it on a terminal report and *)
(* admits its successor, and re-checks the parent report before the        *)
(* successor is claimed.  scripts/h1_lean_report_bridge.py runs each       *)
(* operation in a process of its own, so any operations interleave and a   *)
(* process may exit between the steps of one.                              *)
(*                                                                         *)
(* Prices are 1 and a client is an hour and a side.  A digest of a report, *)
(* a proposal or a snapshot is the value itself.                           *)
(***************************************************************************)
EXTENDS PaperIntents, FiniteSetsExt

CONSTANTS
  Process,
  MaxRevision,    \* bound: the broker publishes revisions 1 .. MaxRevision
  FirstAccount,   \* the account of the first snapshot, at any OpeningRev
  Mark,           \* what else a proposal says: only its digest depends on it
  Token           \* consistency tokens of broker snapshots

ASSUME BoundAssumption == MaxRevision \in Nat \ {0}
ASSUME ClientAssumption == ClientId \subseteq [hour : Nat, side : {"buy", "sell"}]

VARIABLES
  proposals,      \* h1_paper_proposals, by client
  h1orders,       \* h1_local_orders: the last report accepted, by client
  executions,     \* h1_local_executions, by client
  evidence,       \* h1_handoff_snapshots, by client
  file,           \* the broker's report file, by client
  claims,         \* clients a live process may route to the broker
  admitting,      \* prepare() between its two transactions, by process
  copy,           \* the report text a process has read
  handing         \* the report whose handoff() has reconciled, by process

h1Tables == <<proposals, h1orders, executions, evidence>>
local == <<claims, admitting, copy, handing>>
vars == <<storeVars, h1Tables, file, local>>

Account == [cash : Nat, units : Nat]
Fill == [id : {"e1", "e2"}, quantity : Nat \ {0}, amount : Nat]
Report == [client : ClientId, revision : 1 .. MaxRevision,
           status : {"Submitted", "PartiallyFilled", "Filled", "Canceled"},
           fills : SUBSET Fill, account : Account]
Proposal == [client : ClientId, source_revision : Revision, terms : Terms,
             account : Account, mark : Mark]
Snapshot == [report : Report, account : Account, token : Token]

\* A source revision either names an account snapshot or a report.
ASSUME RevisionAssumption == \A rev \in OpeningRev : rev \notin Report

ASSUME AccountAssumption == FirstAccount \in Account
ASSUME AbsenceAssumption == NoRow \notin Report \union Proposal \union Snapshot

TypeOK ==
  /\ StoreTypeOK
  /\ proposals \in [ClientId -> Proposal \union {NoRow}]
  /\ h1orders \in [ClientId -> Report \union {NoRow}]
  /\ executions \in [ClientId -> SUBSET Fill]
  /\ evidence \in [ClientId -> Snapshot \union {NoRow}]
  /\ file \in [ClientId -> Report \union {NoRow}]
  /\ claims \in [Process -> SUBSET ClientId]
  /\ admitting \in [Process -> Proposal \union {NoRow}]
  /\ copy \in [Process -> Report \union {NoRow}]
  /\ handing \in [Process -> Report \union {NoRow}]

Init ==
  /\ StoreInit
  /\ proposals = [c \in ClientId |-> NoRow]
  /\ h1orders = [c \in ClientId |-> NoRow]
  /\ executions = [c \in ClientId |-> {}]
  /\ evidence = [c \in ClientId |-> NoRow]
  /\ file = [c \in ClientId |-> NoRow]
  /\ claims = [p \in Process |-> {}]
  /\ admitting = [p \in Process |-> NoRow]
  /\ copy = [p \in Process |-> NoRow]
  /\ handing = [p \in Process |-> NoRow]

-----------------------------------------------------------------------------
(* Proposals and reports *)

\* Deviation: a partly executed order counts as closed.
TerminalOncePartial == {"PartiallyFilled", "Filled", "Canceled"}

Terminal == {"Filled", "Canceled"}

Filled(fills) == MapThenSumSet(LAMBDA e : e.quantity, fills)
Amount(fills) == MapThenSumSet(LAMBDA e : e.amount, fills)

\* The account a proposal's opening account becomes with these executions.
AccountAfter(pr, fills) ==
  IF pr.client.side = "buy"
    THEN [cash |-> pr.account.cash - Amount(fills),
          units |-> pr.account.units + Filled(fills)]
    ELSE [cash |-> pr.account.cash + Amount(fills),
          units |-> pr.account.units - Filled(fills)]

\* The sizing and inventory rules of H1SyntheticPaperBridge.validate: a
\* quarter of the equity from a flat account, or an exit of all units.
ValidProposal(pr, rules) ==
  /\ pr.terms.side = pr.client.side
  /\ IF pr.client.side = "buy"
       THEN /\ pr.account.units = 0
            /\ pr.terms.quantity = pr.account.cash \div 4
       ELSE /\ pr.account.units > 0
            /\ pr.terms.quantity = pr.account.units
  /\ Valid(rules, pr.terms)

\* The policy's proposals for one hour, account and revision.  Its signal and
\* its risk gate choose among these; here any of them may be made.
ProposalsAt(hour, account, rev) ==
  {pr \in [client : {c \in ClientId : c.hour = hour},
           source_revision : {rev} \intersect Revision,
           terms : Terms, account : {account}, mark : Mark] :
     \E rules \in Rules : ValidProposal(pr, rules)}

\* The report's cash and holding follow from its executions.
AccountMatches(pr, r) ==
  /\ AccountAfter(pr, r.fills).cash >= 0
  /\ r.account = AccountAfter(pr, r.fills)

\* The checks of reconcile() that need no database: fills, status, account.
ReportConsistent(pr, r) ==
  LET filled == Filled(r.fills) IN
  /\ \A e, f \in r.fills : e.id = f.id => e = f
  /\ filled <= pr.terms.quantity
  /\ CASE r.status = "Submitted" -> filled = 0
       [] r.status = "PartiallyFilled" -> 0 < filled /\ filled < pr.terms.quantity
       [] r.status = "Filled" -> filled = pr.terms.quantity
       [] r.status = "Canceled" -> filled # pr.terms.quantity
  /\ AccountMatches(pr, r)

\* Deviation: a closed report may still be followed by a revision.
NextRevisionWhenClosed(c, r) ==
  LET old == h1orders[c] IN
  /\ old = NoRow => r.revision = 1
  /\ old # NoRow =>
       /\ r.revision \in {old.revision, old.revision + 1}
       /\ r.revision = old.revision => r = old

\* Revisions are accepted one by one, the first being 1; a resolved or closed
\* report is not followed by another one.
NextRevision(c, r) ==
  LET old == h1orders[c] IN
  /\ old = NoRow => r.revision = 1 /\ resolutions[c] = NoRow
  /\ old # NoRow =>
       /\ r.revision \in {old.revision, old.revision + 1}
       /\ r.revision = old.revision => r = old
       /\ resolutions[c] # NoRow => r.revision = old.revision
       /\ old.status \in Terminal => r.revision = old.revision

\* Deviation: executions already in the journal are not compared.
JournalIgnored(c, r) == TRUE

\* No execution in the journal was removed or corrected.
JournalKept(c, r) == executions[c] \subseteq r.fills

\* What reconcile() requires of the database before it adopts a report.
Adoptable(pr, r) ==
  LET c == pr.client IN
  /\ intents[c] # NoRow
  /\ intents[c].state = "submission_unknown"
  /\ proposals[c] = pr
  /\ intents[c].terms = pr.terms
  /\ intents[c].source_revision = pr.source_revision
  /\ NextRevision(c, r)
  /\ JournalKept(c, r)

\* Deviation: the executions are inserted beside the order row and not when it
\* is updated.
AdoptOnFirstReport(c, r) ==
  /\ h1orders' = [h1orders EXCEPT ![c] = r]
  /\ executions' = [executions EXCEPT ![c] = IF h1orders[c] = NoRow THEN r.fills ELSE @]

\* The writes of reconcile().
Adopt(c, r) ==
  /\ h1orders' = [h1orders EXCEPT ![c] = r]
  /\ executions' = [executions EXCEPT ![c] = @ \union r.fills]

-----------------------------------------------------------------------------
(* H1SyntheticPaperBridge *)

Open == Initialize /\ UNCHANGED <<h1Tables, file, local>>

\* prepare(), first transaction: PaperIntentStore.prepare inserts or replays.
AdmitIntent(p, pr, rules) ==
  /\ admitting[p] = NoRow
  /\ ValidProposal(pr, rules)
  /\ \/ Prepare(pr.client, pr.terms, pr.source_revision, rules)
     \/ /\ PrepareReplays(pr.client, pr.terms, pr.source_revision, rules)
        /\ UNCHANGED storeVars
  /\ admitting' = [admitting EXCEPT ![p] = pr]
  /\ UNCHANGED <<h1Tables, file, claims, copy, handing>>

\* Deviation: INSERT OR REPLACE, the latest proposal of a client wins.
AdmitProposalReplacing(p) ==
  LET pr == admitting[p] IN
  /\ pr # NoRow
  /\ proposals' = [proposals EXCEPT ![pr.client] = pr]
  /\ admitting' = [admitting EXCEPT ![p] = NoRow]
  /\ UNCHANGED <<storeVars, h1orders, executions, evidence, file,
                 claims, copy, handing>>

\* prepare(), second transaction: INSERT OR IGNORE the proposal.  When another
\* one is stored for the client the comparison raises and nothing is written.
AdmitProposal(p) ==
  LET pr == admitting[p] IN
  /\ pr # NoRow
  /\ proposals' = [proposals EXCEPT ![pr.client] = IF @ = NoRow THEN pr ELSE @]
  /\ admitting' = [admitting EXCEPT ![p] = NoRow]
  /\ UNCHANGED <<storeVars, h1orders, executions, evidence, file,
                 claims, copy, handing>>

\* claim_once(): the proposal row it reads first is inserted once and never
\* changed, so the two connections it uses are one step.
Claim(p, c, rules) ==
  /\ proposals[c] # NoRow
  /\ ClaimOnce(c, proposals[c].source_revision, rules)
  /\ claims' = [claims EXCEPT ![p] = @ \union {c}]
  /\ UNCHANGED <<h1Tables, file, admitting, copy, handing>>

-----------------------------------------------------------------------------
(* The LEAN broker and its report file: TideLabH1LocalReportProbe.cs *)

\* Deviation: the first report is numbered 0.
RouteFromZero(p, c) ==
  /\ c \in claims[p]
  /\ claims' = [claims EXCEPT ![p] = @ \ {c}]
  /\ IF file[c] = NoRow
       THEN file' = [file EXCEPT ![c] =
              [client |-> c, revision |-> 0, status |-> "Submitted",
               fills |-> {}, account |-> proposals[c].account]]
       ELSE UNCHANGED file
  /\ UNCHANGED <<storeVars, h1Tables, admitting, copy, handing>>

\* A process with a claim routes the order; the broker creates the report
\* file and refuses to when there is one.
Route(p, c) ==
  /\ c \in claims[p]
  /\ claims' = [claims EXCEPT ![p] = @ \ {c}]
  /\ IF file[c] = NoRow
       THEN file' = [file EXCEPT ![c] =
              [client |-> c, revision |-> 1, status |-> "Submitted",
               fills |-> {}, account |-> proposals[c].account]]
       ELSE UNCHANGED file
  /\ UNCHANGED <<storeVars, h1Tables, admitting, copy, handing>>

\* Replaces the report of c by the next revision, with the account the fills
\* give or, when the source misreports it, another one.
Publish(c, status, fills) ==
  LET account == AccountAfter(proposals[c], fills) IN
  /\ file[c].revision < MaxRevision
  /\ \E a \in {account, [account EXCEPT !.cash = @ + 1]} :
       file' = [file EXCEPT ![c] =
                 [client |-> c, revision |-> @.revision + 1, status |-> status,
                  fills |-> fills, account |-> a]]
  /\ UNCHANGED <<storeVars, h1Tables, local>>

\* One more unit of the order is executed.
BrokerFill(c) ==
  /\ file[c] # NoRow
  /\ file[c].status \notin Terminal
  /\ \E id \in {"e1", "e2"} \ {e.id : e \in file[c].fills} :
       LET fills == file[c].fills \union {[id |-> id, quantity |-> 1, amount |-> 1]} IN
       /\ Filled(fills) <= proposals[c].terms.quantity
       /\ Publish(c, IF Filled(fills) = proposals[c].terms.quantity
                       THEN "Filled" ELSE "PartiallyFilled", fills)

BrokerCancel(c) ==
  /\ file[c] # NoRow
  /\ file[c].status \notin Terminal
  /\ Publish(c, "Canceled", file[c].fills)

\* An execution already reported is corrected, in a new revision: by the mock
\* broker of a partial report, by a broker also after the order closed.
BrokerCorrect(c) ==
  /\ file[c] # NoRow
  /\ \E e \in file[c].fills :
       /\ e.amount = 1
       /\ Publish(c, file[c].status,
                  (file[c].fills \ {e}) \union {[e EXCEPT !.amount = 2]})

\* The broker publishes its report again, under the next revision (external).
BrokerRestate(c) ==
  /\ file[c] # NoRow
  /\ Publish(c, file[c].status, file[c].fills)

-----------------------------------------------------------------------------
(* H1LocalReportJoin *)

\* complete_report(): the process reads the whole report file of c.
ReadReport(p, c) ==
  /\ file[c] # NoRow
  /\ copy[p] # file[c]
  /\ copy' = [copy EXCEPT ![p] = file[c]]
  /\ handing' = [handing EXCEPT ![p] = NoRow]
  /\ UNCHANGED <<storeVars, h1Tables, file, claims, admitting>>

\* reconcile() with the report the process has read.
Reconcile(p) ==
  LET r == copy[p]
      pr == proposals[r.client] IN
  /\ copy[p] # NoRow
  /\ pr # NoRow
  /\ ReportConsistent(pr, r)
  /\ Adoptable(pr, r)
  /\ Adopt(r.client, r)
  /\ UNCHANGED <<storeVars, proposals, evidence, file, local>>

\* handoff(), first part: reconcile() in a transaction of its own, then the
\* terminal check, which raises after the reconciliation was committed.
BeginHandoff(p) ==
  LET r == copy[p]
      pr == proposals[r.client] IN
  /\ copy[p] # NoRow
  /\ pr # NoRow
  /\ ReportConsistent(pr, r)
  /\ Adoptable(pr, r)
  /\ Adopt(r.client, r)
  /\ handing' = [handing EXCEPT ![p] = IF r.status \in Terminal THEN r ELSE NoRow]
  /\ UNCHANGED <<storeVars, proposals, evidence, file, claims, admitting, copy>>

\* _stable_snapshot_pair: two equal reads that agree with the report.
StableSnapshot(before, after, r) ==
  /\ before = after
  /\ before.report = r
  /\ before.account = r.account

\* The successor handoff() demands: the next hour, on the report's account.
Successor(pr, r, next, rules) ==
  /\ next.client.hour = pr.client.hour + 1
  /\ next.source_revision = r
  /\ next.account = r.account
  /\ ValidProposal(next, rules)

\* handoff(), second part, in one transaction: resolution, evidence, guarded
\* successor intent and its proposal.  A replay writes nothing.
FinishHandoff(p, next, rules, before, after) ==
  LET r == handing[p]
      c == r.client
      d == next.client IN
  /\ handing[p] # NoRow
  /\ Successor(proposals[c], r, next, rules)
  /\ StableSnapshot(before, after, r)
  /\ ~held
  /\ h1orders[c] = r
  /\ intents[c] # NoRow
  /\ intents[c].state = "submission_unknown"
  /\ resolutions[c] = NoRow
  /\ intents[d] = NoRow
  /\ Unresolved \subseteq {c}
  /\ resolutions' = [resolutions EXCEPT ![c] =
                       [source_revision |-> intents[c].source_revision,
                        final_report_revision |-> r.revision]]
  /\ evidence' = [evidence EXCEPT ![c] = before]
  /\ intents' = [intents EXCEPT ![d] =
                   NewIntent(next.terms, next.source_revision, rules, TRUE)]
  /\ proposals' = [proposals EXCEPT ![d] = next]
  /\ handing' = [handing EXCEPT ![p] = NoRow]
  /\ UNCHANGED <<held, h1orders, executions, file, claims, admitting, copy>>

\* The resolved parent that observe_handoff() finds for a guarded successor.
Parents(d) ==
  {c \in ClientId :
     /\ h1orders[c] # NoRow /\ resolutions[c] # NoRow /\ evidence[c] # NoRow
     /\ h1orders[c] = intents[d].source_revision
     /\ resolutions[c].final_report_revision = h1orders[c].revision}

\* Deviation: the durable hold is not consulted.
GuardedDespiteHold(d) ==
  /\ intents[d] # NoRow
  /\ proposals[d] # NoRow
  /\ intents[d].claim_guard
  /\ proposals[d].source_revision = intents[d].source_revision
  /\ Parents(d) # {}

\* No hold, and d is a successor created by a handoff of a resolved parent.
GuardedSuccessor(d) ==
  /\ ~held
  /\ intents[d] # NoRow
  /\ proposals[d] # NoRow
  /\ intents[d].claim_guard
  /\ proposals[d].source_revision = intents[d].source_revision
  /\ Parents(d) # {}

\* What observe_handoff() concludes from fresh reads of the parent's report
\* and of two snapshots: "raises" writes nothing.
Observed(d, r, before, after) ==
  IF ~GuardedSuccessor(d) THEN "raises"
    ELSE LET c == CHOOSE c \in Parents(d) : TRUE IN
         IF r # h1orders[c] THEN "late_h1_report_change"
         ELSE IF ~StableSnapshot(before, after, r) THEN "raises"
         ELSE IF before # evidence[c] THEN "late_h1_snapshot_change"
         ELSE "fresh"

\* observe_handoff() with a claim, as claim_after_handoff() calls it: the
\* evidence is checked and the successor claimed in one transaction.
ClaimAfterHandoff(p, d, rules, before, after) ==
  /\ copy[p] # NoRow
  /\ Observed(d, copy[p], before, after) = "fresh"
  /\ intents[d].rules = rules
  /\ intents[d].state = "prepared"
  /\ Valid(rules, intents[d].terms)
  /\ intents' = [intents EXCEPT ![d].state = "submission_unknown"]
  /\ claims' = [claims EXCEPT ![p] = @ \union {d}]
  /\ UNCHANGED <<resolutions, held, h1Tables, file, admitting, copy, handing>>

\* observe_handoff(), with or without a claim, sees changed evidence: the
\* authority's one hold row is committed before the call raises.
LatchHold(p, d, before, after) ==
  /\ copy[p] # NoRow
  /\ Observed(d, copy[p], before, after) \in
       {"late_h1_report_change", "late_h1_snapshot_change"}
  /\ held' = TRUE
  /\ UNCHANGED <<intents, resolutions, h1Tables, file, local>>

-----------------------------------------------------------------------------
\* A process exits, between any two of its steps, and forgets what it held.
Exit(p) ==
  /\ claims' = [claims EXCEPT ![p] = {}]
  /\ admitting' = [admitting EXCEPT ![p] = NoRow]
  /\ copy' = [copy EXCEPT ![p] = NoRow]
  /\ handing' = [handing EXCEPT ![p] = NoRow]
  /\ UNCHANGED <<storeVars, h1Tables, file>>

\* The proposals callers present: the first hour's, and those the policy
\* makes from a report somebody has read.
Presented ==
  (UNION {ProposalsAt(0, FirstAccount, rev) : rev \in OpeningRev}) \union
  (UNION {ProposalsAt(copy[p].client.hour + 1, copy[p].account, copy[p]) :
            p \in {q \in Process : copy[q] # NoRow}})

\* The snapshots a broker may serve: of a report somebody has read, with its
\* account or another one, under any token.
Served ==
  UNION {{[report |-> copy[p], account |-> a, token |-> k] :
            a \in {copy[p].account, [copy[p].account EXCEPT !.cash = @ + 1]},
            k \in Token} : p \in {q \in Process : copy[q] # NoRow}}

Next ==
  \/ Open
  \/ \E p \in Process, rules \in Rules :
       \/ \E pr \in Presented : AdmitIntent(p, pr, rules)
       \/ \E c \in ClientId : Claim(p, c, rules)
       \/ \E pr \in Presented, before, after \in Served :
            FinishHandoff(p, pr, rules, before, after)
       \/ \E d \in ClientId, before, after \in Served :
            ClaimAfterHandoff(p, d, rules, before, after)
  \/ \E p \in Process :
       \/ AdmitProposal(p)
       \/ Reconcile(p)
       \/ BeginHandoff(p)
       \/ Exit(p)
       \/ \E c \in ClientId : Route(p, c) \/ ReadReport(p, c)
       \/ \E d \in ClientId, before, after \in Served :
            LatchHold(p, d, before, after)
  \/ \E c \in ClientId : 
       \/ BrokerFill(c)
       \/ BrokerCancel(c)
       \/ BrokerCorrect(c)
       \/ BrokerRestate(c)

Spec == Init /\ [][Next]_vars

=============================================================================
