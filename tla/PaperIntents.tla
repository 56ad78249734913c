--------------------------- MODULE PaperIntents ---------------------------
(***************************************************************************)
(* The durable paper authority of src/tidelab/paper_intent.py: one SQLite  *)
(* database whose every operation is one BEGIN IMMEDIATE transaction, so   *)
(* an operation is one atomic step however many processes share the file.  *)
(*                                                                         *)
(* This module holds the tables and the transactions of PaperIntentStore.  *)
(* The modules that extend it (SyntheticPaper, H1Handoff, LeanPaperJoin)   *)
(* add the tables and the processes of one source and state the            *)
(* specifications.  A transaction that raises or returns False rolls back  *)
(* or commits nothing, so only the transactions that write are actions;    *)
(* the predicates that decide between the outcomes have names of their     *)
(* own.                                                                    *)
(*                                                                         *)
(* A definition commented "Deviation" is a faulty variant of the one below *)
(* it.  No specification uses it; it shows that a property notices.        *)
(***************************************************************************)
EXTENDS Integers, FiniteSets

CONSTANTS
  ClientId,     \* stable client identities
  Terms,        \* records: instrument_id, side, quantity, limit_price
  OpeningRev,   \* source revisions of account snapshots
  GuardedRev,   \* source revisions that read 'h1-report-v1:...'
  Rules,        \* versioned product rules (records)
  NoRow         \* absence of a table row

\* The source revisions an intent may be bound to.
Revision == OpeningRev \union GuardedRev

VARIABLES
  intents,      \* paper_intents, by client_id
  resolutions,  \* paper_intent_resolutions, by client_id
  held          \* whether paper_authority_holds has its one row

storeVars == <<intents, resolutions, held>>

IntentRow == [terms : Terms, source_revision : Revision, rules : Rules,
              claim_guard : BOOLEAN,
              state : {"prepared", "submission_unknown"}]

ResolutionRow == [source_revision : Revision, final_report_revision : Nat \ {0}]

ASSUME NoRowAssumption == NoRow \notin IntentRow \union ResolutionRow

StoreTypeOK ==
  /\ intents \in [ClientId -> IntentRow \union {NoRow}]
  /\ resolutions \in [ClientId -> ResolutionRow \union {NoRow}]
  /\ held \in BOOLEAN

StoreInit ==
  /\ intents = [c \in ClientId |-> NoRow]
  /\ resolutions = [c \in ClientId |-> NoRow]
  /\ held = FALSE

\* PaperProductRules.validate, on integers scaled to the finest increment.
Valid(rules, t) ==
  /\ t.instrument_id = rules.instrument_id
  /\ t.quantity % rules.base_increment = 0
  /\ t.limit_price % rules.quote_increment = 0
  /\ t.quantity >= rules.base_min_size
  /\ t.quantity * t.limit_price >= rules.quote_min_size

\* Deviation: counts only claimed intents as unresolved.
UnresolvedOnceClaimed ==
  {c \in ClientId : /\ intents[c] # NoRow /\ resolutions[c] = NoRow
                    /\ intents[c].state = "submission_unknown"}

\* Rows of paper_intents with no row in paper_intent_resolutions.
Unresolved == {c \in ClientId : intents[c] # NoRow /\ resolutions[c] = NoRow}

\* What PaperIntentStore.state reports for a client.
StateOf(c) ==
  IF intents[c] = NoRow THEN NoRow
  ELSE IF resolutions[c] # NoRow THEN "resolved" ELSE intents[c].state

\* Deviation: the source-specific guard is not written.
UnguardedIntent(t, rev, rules, guard) ==
  [terms |-> t, source_revision |-> rev, rules |-> rules,
   claim_guard |-> FALSE, state |-> "prepared"]

NewIntent(t, rev, rules, guard) ==
  [terms |-> t, source_revision |-> rev, rules |-> rules,
   claim_guard |-> guard, state |-> "prepared"]

SameIntent(c, t, rev, rules) ==
  /\ intents[c] # NoRow
  /\ intents[c].terms = t
  /\ intents[c].source_revision = rev
  /\ intents[c].rules = rules

\* Deviation: a replay is recognised by its client and terms alone.
ReplaysOnTerms(c, t, rev, rules) ==
  Valid(rules, t) /\ ~held /\ intents[c] # NoRow /\ intents[c].terms = t

\* prepare() returns False: an identical replay, nothing is written.
PrepareReplays(c, t, rev, rules) ==
  Valid(rules, t) /\ ~held /\ SameIntent(c, t, rev, rules)

\* Deviation: the other clients' missing resolutions are not looked up.
PrepareBesideOpen(c, t, rev, rules) ==
  /\ Valid(rules, t)
  /\ ~held
  /\ intents[c] = NoRow
  /\ intents' = [intents EXCEPT ![c] = NewIntent(t, rev, rules, FALSE)]
  /\ UNCHANGED <<resolutions, held>>

\* Deviation: INSERT OR REPLACE, an existing client receives new terms.
PrepareReplacing(c, t, rev, rules) ==
  /\ Valid(rules, t)
  /\ ~held
  /\ Unresolved \subseteq {c}
  /\ intents' = [intents EXCEPT ![c] = NewIntent(t, rev, rules, FALSE)]
  /\ UNCHANGED <<resolutions, held>>

\* prepare() returns True: no hold, a new client, and nothing unresolved.
Prepare(c, t, rev, rules) ==
  /\ Valid(rules, t)
  /\ ~held
  /\ intents[c] = NoRow
  /\ Unresolved = {}
  /\ intents' = [intents EXCEPT ![c] = NewIntent(t, rev, rules, FALSE)]
  /\ UNCHANGED <<resolutions, held>>

\* claim_once() returns True to the caller of this step.  The rows it refuses
\* (a hold, another revision, rules or state, a source-specific guard) raise
\* or return False and leave the database as it was.
ClaimOnce(c, rev, rules) ==
  /\ ~held
  /\ intents[c] # NoRow
  /\ intents[c].source_revision = rev
  /\ intents[c].rules = rules
  /\ intents[c].state = "prepared"
  /\ ~intents[c].claim_guard
  /\ Valid(rules, intents[c].terms)
  /\ intents' = [intents EXCEPT ![c].state = "submission_unknown"]
  /\ UNCHANGED <<resolutions, held>>

\* initialize() on an existing database: every row bound to a report revision
\* receives the source-specific claim guard it may lack.
Initialize ==
  /\ intents' = [c \in ClientId |->
                   IF intents[c] # NoRow /\ intents[c].source_revision \in GuardedRev
                     THEN [intents[c] EXCEPT !.claim_guard = TRUE]
                     ELSE intents[c]]
  /\ UNCHANGED <<resolutions, held>>

-----------------------------------------------------------------------------
\* At most one intent of the authority lacks a resolution: prepare() holds a
\* different client ID "while any intent lacks reconciliation", whichever
\* processes and sources interleave on the database.
OneOpenIntent ==
  \A c, d \in ClientId :
    /\ intents[c] # NoRow /\ resolutions[c] = NoRow
    /\ intents[d] # NoRow /\ resolutions[d] = NoRow
    => c = d

=============================================================================
