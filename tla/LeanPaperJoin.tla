--------------------------- MODULE LeanPaperJoin ---------------------------
(***************************************************************************)
(* src/tidelab/lean_paper_join.py: one fixed buy, and the sell of what it  *)
(* left, joined to the report files of a local LEAN broker.  Every call of *)
(* scripts/tl002_lean_join.py is a process of its own, which looks for a   *)
(* report file, reads it and then opens its transaction, so the file and   *)
(* the tables may change in between.  The broker is one writer at a time;  *)
(* it claims an intent through the join before it writes the first report. *)
(*                                                                         *)
(* A report is its revision: _validate() accepts one content for each.     *)
(* Quantities are tenths, prices hundredths and cash millionths, relative  *)
(* to the opening account.                                                 *)
(*                                                                         *)
(* A definition commented "Deviation" is a faulty variant of the one below *)
(* it.  No specification uses it; it shows that a property notices.        *)
(***************************************************************************)
EXTENDS PaperIntents, FiniteSetsExt

CONSTANT Process

ASSUME ClientAssumption == ClientId = {"buy", "sell"}

VARIABLES
  joined,       \* lean_paper_order: the revision accepted last, by client
  journal,      \* lean_paper_execution_events
  report,       \* the broker's report files: 0 is no file, by client
  torn,         \* whether a report, or its .next, is not completely written
  broker,       \* the report the broker is about to write, or writing
  op,           \* the operation a process executes
  at,           \* how far it has come: the file it looks for, or a transaction
  copy          \* the revision it has read, 0 if there was no file

joinVars == <<joined, journal>>
brokerVars == <<report, torn, broker>>
local == <<op, at, copy>>
vars == <<storeVars, joinVars, brokerVars, local>>

-----------------------------------------------------------------------------
(* The fixture *)

RULES == [instrument_id |-> "TL001ASYN", revision |-> "synthetic-rules-v1",
          base_increment |-> 1, quote_increment |-> 1,
          base_min_size |-> 1, quote_min_size |-> 1000]

TermsOf(c) ==
  [instrument_id |-> "TL001ASYN", side |-> c,
   quantity |-> IF c = "buy" THEN 10 ELSE 4,
   limit_price |-> IF c = "buy" THEN 9000 ELSE 8979]

RevisionOf(c) == IF c = "buy" THEN "lean-report-1" ELSE "first-report-4"

\* The last revision of a client's report: canceled, or filled.
Last(c) == IF c = "buy" THEN 4 ELSE 2

\* The account a report of this revision states.
Account(c, r) ==
  CASE c = "buy" /\ r = 1  -> [cash |-> 0, units |-> 0]
    [] c = "buy" /\ r = 2  -> [cash |-> -35999964, units |-> 4]
    [] c = "sell" /\ r = 2 -> [cash |-> -123884, units |-> 0]
    [] OTHER               -> [cash |-> -36003968, units |-> 4]

Event(c, r, kind, units, cash) ==
  [client |-> c, revision |-> r, kind |-> kind, units |-> units, cash |-> cash]

\* The executions that accepting a revision records.
Events(c, r) ==
  CASE c = "buy" /\ r = 2  -> {Event(c, r, "fill", 4, -35999964)}
    [] c = "buy" /\ r = 3  -> {Event(c, r, "reverse", -4, 35999964),
                               Event(c, r, "replacement", 4, -36003968)}
    [] c = "sell" /\ r = 2 -> {Event(c, r, "fill", -4, 35880084)}
    [] OTHER               -> {}

\* The account that the events lead to.
Ledger(events) == [cash  |-> MapThenSumSet(LAMBDA e : e.cash, events),
                   units |-> MapThenSumSet(LAMBDA e : e.units, events)]

\* The tables can hold the fixture, and no report has the absent revision.
ASSUME FixtureAssumption ==
  /\ RULES \in Rules
  /\ \A c \in ClientId : TermsOf(c) \in Terms /\ RevisionOf(c) \in OpeningRev
  /\ NoRow \notin Nat

-----------------------------------------------------------------------------

TypeOK ==
  /\ StoreTypeOK
  /\ joined \in [ClientId -> 1 .. 4 \union {NoRow}]
  /\ journal \subseteq UNION {Events(c, r) : c \in ClientId, r \in 1 .. 4}
  /\ report \in [ClientId -> 0 .. 4]
  /\ torn \in [ClientId -> BOOLEAN]
  /\ broker \in {NoRow} \union
       [client : ClientId, revision : 1 .. 4, begun : BOOLEAN]
  /\ op \in [Process -> {"none", "reconcile", "prepare_sell", "reconcile_sell"}]
  /\ at \in [Process -> {"idle", "buy", "buy_tx", "prepare_sell", "sell", "sell_tx"}]
  /\ copy \in [Process -> 0 .. 4]

Init ==
  /\ StoreInit
  /\ joined = [c \in ClientId |-> NoRow]
  /\ journal = {}
  /\ report = [c \in ClientId |-> 0]
  /\ torn = [c \in ClientId |-> FALSE]
  /\ broker = NoRow
  /\ op = [p \in Process |-> "none"]
  /\ at = [p \in Process |-> "idle"]
  /\ copy = [p \in Process |-> 0]

\* prepare() of the fixed buy.
PrepareBuy ==
  /\ Prepare("buy", TermsOf("buy"), RevisionOf("buy"), RULES)
  /\ UNCHANGED <<joinVars, brokerVars, local>>

-----------------------------------------------------------------------------
(* The broker (external but for its claims): one writer at a time *)

\* claim() or claim_sell(), before the first report is written.
Place(c) ==
  /\ broker = NoRow
  /\ c = "sell" => report["sell"] = 0 /\ report["buy"] = Last("buy")
  /\ ClaimOnce(c, RevisionOf(c), RULES)
  /\ broker' = [client |-> c, revision |-> 1, begun |-> FALSE]
  /\ UNCHANGED <<joinVars, report, torn, local>>

\* It executes, corrects or cancels the order it works.
Revise(c) ==
  /\ broker = NoRow
  /\ report[c] # 0
  /\ report[c] < Last(c)
  /\ broker' = [client |-> c, revision |-> report[c] + 1, begun |-> FALSE]
  /\ UNCHANGED <<storeVars, joinVars, report, torn, local>>

\* A first report, or the .next of a later one, is created: neither is there.
BeginWrite ==
  /\ broker # NoRow
  /\ ~broker.begun
  /\ ~torn[broker.client]
  /\ report[broker.client] < broker.revision
  /\ torn' = [torn EXCEPT ![broker.client] = TRUE]
  /\ broker' = [broker EXCEPT !.begun = TRUE]
  /\ UNCHANGED <<storeVars, joinVars, report, local>>

EndWrite ==
  /\ broker # NoRow
  /\ broker.begun
  /\ report' = [report EXCEPT ![broker.client] = broker.revision]
  /\ torn' = [torn EXCEPT ![broker.client] = FALSE]
  /\ broker' = NoRow
  /\ UNCHANGED <<storeVars, joinVars, local>>

\* The broker's process exits, or finds a file where it wants to create one.
BrokerExit ==
  /\ broker # NoRow
  /\ broker' = NoRow
  /\ UNCHANGED <<storeVars, joinVars, report, torn, local>>

-----------------------------------------------------------------------------
(* reconcile() and reconcile_sell() *)

\* The call goes on; what it has read is behind it.
Continue(p, label) ==
  /\ at' = [at EXCEPT ![p] = label]
  /\ copy' = [copy EXCEPT ![p] = 0]
  /\ UNCHANGED op

Return(p) ==
  /\ at' = [at EXCEPT ![p] = "idle"]
  /\ op' = [op EXCEPT ![p] = "none"]
  /\ copy' = [copy EXCEPT ![p] = 0]

Call(p, o) ==
  /\ at[p] = "idle"
  /\ at' = [at EXCEPT ![p] = "buy"]
  /\ op' = [op EXCEPT ![p] = o]
  /\ UNCHANGED <<storeVars, joinVars, brokerVars, copy>>

\* No .next is there; the report is read, if it exists.
Read(p, c) ==
  /\ at[p] = c
  /\ ~torn[c]
  /\ copy' = [copy EXCEPT ![p] = report[c]]
  /\ at' = [at EXCEPT ![p] = IF c = "buy" THEN "buy_tx" ELSE "sell_tx"]
  /\ UNCHANGED <<storeVars, joinVars, brokerVars, op>>

\* prepare_sell() and reconcile_sell() go on after their reconcile().
AfterJoin(p, c) ==
  IF c = "buy" /\ op[p] = "prepare_sell" THEN Continue(p, "prepare_sell")
  ELSE IF c = "buy" /\ op[p] = "reconcile_sell" THEN Continue(p, "sell")
  ELSE Return(p)

InTransaction(p, c) == at[p] = IF c = "buy" THEN "buy_tx" ELSE "sell_tx"

Claimed(c) == intents[c] # NoRow /\ intents[c].state = "submission_unknown"

\* Deviation: an absent report rearms the intent of an order that is joined.
RearmJoined(p, c) ==
  /\ InTransaction(p, c)
  /\ copy[p] = 0
  /\ intents[c] # NoRow
  /\ intents' = [intents EXCEPT ![c].state = "prepared"]
  /\ AfterJoin(p, c)
  /\ UNCHANGED <<resolutions, held, joinVars, brokerVars>>

\* There was no report: a claimed intent is rearmed, unless its order is known.
Rearm(p, c) ==
  /\ InTransaction(p, c)
  /\ copy[p] = 0
  /\ intents[c] # NoRow
  /\ joined[c] = NoRow
  /\ intents' = [intents EXCEPT ![c].state = "prepared"]
  /\ AfterJoin(p, c)
  /\ UNCHANGED <<resolutions, held, joinVars, brokerVars>>

\* A buy is compared with its own events, a sell with all there are.
EventsThatCount(c, events) ==
  IF c = "buy" THEN {e \in events : e.client = "buy"} ELSE events

\* Deviation: the account of the report is taken as it comes.
AccountTaken(c, r) == TRUE

\* The journal with this revision's events leads to the report's account.
AccountFollows(c, r) ==
  Ledger(EventsThatCount(c, journal \union Events(c, r))) = Account(c, r)

\* The transaction accepts a report of this revision.
Accepts(c, r) ==
  /\ Claimed(c)
  /\ intents[c].terms = TermsOf(c)
  /\ intents[c].source_revision = RevisionOf(c)
  /\ c = "sell" => /\ resolutions["buy"] # NoRow
                   /\ resolutions["buy"].final_report_revision = Last("buy")
                   /\ joined["buy"] = Last("buy")
  /\ joined[c] # NoRow => r \in {joined[c], joined[c] + 1}
  /\ AccountFollows(c, r)

Join(p, c) ==
  /\ InTransaction(p, c)
  /\ copy[p] # 0
  /\ Accepts(c, copy[p])
  /\ joined' = [joined EXCEPT ![c] = copy[p]]
  /\ journal' = journal \union Events(c, copy[p])
  /\ AfterJoin(p, c)
  /\ UNCHANGED <<storeVars, brokerVars>>

-----------------------------------------------------------------------------
(* prepare_sell() after its reconcile() *)

\* Deviation: the buy may still be open when it is resolved.
ClosedOnceFilled == joined["buy"] # NoRow /\ joined["buy"] >= 2

\* The buy is canceled and its last report accepted.
Closed == joined["buy"] = Last("buy")

BuyResolution ==
  [source_revision |-> RevisionOf("buy"), final_report_revision |-> Last("buy")]

\* Deviation: the buy's order and the account are not looked at.
PrepareSellUnchecked(p) ==
  /\ at[p] = "prepare_sell"
  /\ intents["sell"] = NoRow
  /\ resolutions' = [resolutions EXCEPT !["buy"] =
       [source_revision |-> RevisionOf("buy"), final_report_revision |-> joined["buy"]]]
  /\ intents' = [intents EXCEPT !["sell"] =
                   NewIntent(TermsOf("sell"), RevisionOf("sell"), RULES, FALSE)]
  /\ Return(p)
  /\ UNCHANGED <<held, joinVars, brokerVars>>

\* The buy is resolved and the sell prepared, in one transaction.
PrepareSell(p) ==
  /\ at[p] = "prepare_sell"
  /\ Closed
  /\ intents["sell"] = NoRow
  /\ Ledger(journal) = Account("buy", Last("buy"))
  /\ resolutions["buy"] \in {NoRow, BuyResolution}
  /\ Unresolved \subseteq {"buy"}
  /\ Valid(RULES, TermsOf("sell"))
  /\ resolutions' = [resolutions EXCEPT !["buy"] = BuyResolution]
  /\ intents' = [intents EXCEPT !["sell"] =
                   NewIntent(TermsOf("sell"), RevisionOf("sell"), RULES, FALSE)]
  /\ Return(p)
  /\ UNCHANGED <<held, joinVars, brokerVars>>

\* A process returns False, raises or exits.
Exit(p) ==
  /\ at[p] # "idle"
  /\ Return(p)
  /\ UNCHANGED <<storeVars, joinVars, brokerVars>>

Next ==
  \/ PrepareBuy
  \/ \E c \in ClientId : Place(c) \/ Revise(c)
  \/ BeginWrite \/ EndWrite \/ BrokerExit
  \/ \E p \in Process :
       \/ \E o \in {"reconcile", "prepare_sell", "reconcile_sell"} : Call(p, o)
       \/ \E c \in ClientId : Read(p, c) \/ Rearm(p, c) \/ Join(p, c)
       \/ PrepareSell(p)
       \/ Exit(p)

Spec == Init /\ [][Next]_vars

=============================================================================
