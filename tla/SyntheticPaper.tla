-------------------------- MODULE SyntheticPaper --------------------------
(***************************************************************************)
(* src/tidelab/synthetic_paper.py: a test-only order source whose orders   *)
(* are a table of the paper authority's own database.  Any number of       *)
(* processes share the database; each calls the store and the source in    *)
(* any order, may exit at any point, and is started again.                 *)
(*                                                                         *)
(* What a process holds between two transactions is the outcome of         *)
(* claim_once: True authorises it to submit.  claims[p] is that memory,    *)
(* and it is all a process exit loses.                                     *)
(***************************************************************************)
EXTENDS PaperIntents

CONSTANT Process

VARIABLES
  orders,       \* synthetic_paper_orders, by client_id
  claims        \* clients whose claim_once returned True to a live process

vars == <<storeVars, orders, claims>>

OrderRow == [terms : Terms, source_revision : Revision]

ASSUME NoOrderAssumption == NoRow \notin OrderRow

TypeOK ==
  /\ StoreTypeOK
  /\ orders \in [ClientId -> OrderRow \union {NoRow}]
  /\ claims \in [Process -> SUBSET ClientId]

Init ==
  /\ StoreInit
  /\ orders = [c \in ClientId |-> NoRow]
  /\ claims = [p \in Process |-> {}]

\* _check_order: the order repeats the intent's terms and source revision.
CheckOrder(c) ==
  /\ orders[c].terms = intents[c].terms
  /\ orders[c].source_revision = intents[c].source_revision

\* A process opens the database; exit is Exit below.
Open ==
  Initialize /\ UNCHANGED <<orders, claims>>

PrepareIntent(c, t, rev, rules) ==
  Prepare(c, t, rev, rules) /\ UNCHANGED <<orders, claims>>

Claim(p, c, rev, rules) ==
  /\ ClaimOnce(c, rev, rules)
  /\ claims' = [claims EXCEPT ![p] = @ \union {c}]
  /\ UNCHANGED orders

\* What submit() requires of the database; it cannot see who holds the claim.
MaySubmit(c, rev) ==
  /\ intents[c] # NoRow
  /\ intents[c].state = "submission_unknown"
  /\ intents[c].source_revision = rev

\* Deviation: the order row is the whole intent row.
SubmitWholeRow(p, c, rev) ==
  /\ MaySubmit(c, rev)
  /\ orders[c] = NoRow
  /\ orders' = [orders EXCEPT ![c] = intents[c]]
  /\ claims' = [claims EXCEPT ![p] = @ \ {c}]
  /\ UNCHANGED storeVars

\* submit() writes the order; it spends the caller's claim if it has one.
Submit(p, c, rev) ==
  /\ MaySubmit(c, rev)
  /\ orders[c] = NoRow
  /\ orders' = [orders EXCEPT ![c] =
                  [terms |-> intents[c].terms,
                   source_revision |-> intents[c].source_revision]]
  /\ claims' = [claims EXCEPT ![p] = @ \ {c}]
  /\ UNCHANGED storeVars

\* submit() writes nothing: the order is there and matches (False), or the
\* call raises.  Either way the caller is done with its claim.
SubmitWritesNothing(p, c, rev) ==
  /\ c \in claims[p]
  /\ \/ ~MaySubmit(c, rev)
     \/ orders[c] # NoRow
  /\ claims' = [claims EXCEPT ![p] = @ \ {c}]
  /\ UNCHANGED <<storeVars, orders>>

\* Deviation: rearms a claimed intent without looking for its order.
RearmUnchecked(c) ==
  /\ intents[c] # NoRow
  /\ intents[c].state = "submission_unknown"
  /\ intents' = [intents EXCEPT ![c].state = "prepared"]
  /\ UNCHANGED <<resolutions, held, orders, claims>>

\* Deviation: absence of the order retires the intent instead of rearming it.
RearmByDeleting(c) ==
  /\ intents[c] # NoRow
  /\ orders[c] = NoRow
  /\ intents[c].state = "submission_unknown"
  /\ intents' = [intents EXCEPT ![c] = NoRow]
  /\ UNCHANGED <<resolutions, held, orders, claims>>

\* reconcile() finds no order behind a claim: the same client ID is rearmed.
\* Its other outcomes ("present_hold", "prepared", an error) write nothing.
Rearm(c) ==
  /\ intents[c] # NoRow
  /\ orders[c] = NoRow
  /\ intents[c].state = "submission_unknown"
  /\ intents' = [intents EXCEPT ![c].state = "prepared"]
  /\ UNCHANGED <<resolutions, held, orders, claims>>

\* A process exits, at any point between two transactions.
Exit(p) ==
  /\ claims[p] # {}
  /\ claims' = [claims EXCEPT ![p] = {}]
  /\ UNCHANGED <<storeVars, orders>>

\* reconcile() answers "present_hold".
PresentHold(c) ==
  /\ intents[c] # NoRow
  /\ orders[c] # NoRow
  /\ CheckOrder(c)
  /\ intents[c].state = "submission_unknown"

Next ==
  \/ Open
  \/ \E c \in ClientId, t \in Terms, rev \in Revision, rules \in Rules :
       PrepareIntent(c, t, rev, rules)
  \/ \E p \in Process, c \in ClientId, rev \in Revision, rules \in Rules :
       Claim(p, c, rev, rules)
  \/ \E p \in Process, c \in ClientId, rev \in Revision : Submit(p, c, rev)
  \/ \E p \in Process, c \in ClientId, rev \in Revision :
       SubmitWritesNothing(p, c, rev)
  \/ \E c \in ClientId : Rearm(c)
  \/ \E p \in Process : Exit(p)

Spec == Init /\ [][Next]_vars

=============================================================================
