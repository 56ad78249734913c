------------------------ MODULE LeanPaperJoinProofs ------------------------
(***************************************************************************)
(* Proofs about src/tidelab/lean_paper_join.py, for any number of          *)
(* processes and any tables that can hold the code's fixture.              *)
(*                                                                         *)
(* The inductive invariant IInv has four parts: TypeOK; StoreInv, the      *)
(* intents are the fixture's and the buy is resolved exactly when the sell *)
(* is prepared, after the buy's last report was joined; BrokerInv, what a  *)
(* process has read exists, and an order with a report has an intent; and  *)
(* JoinInv, a joined order stays claimed with its events in the journal.   *)
(* Rearming is what makes it delicate: an absent report takes a claim      *)
(* back, in a transaction that follows the read, so BrokerInv ties every   *)
(* copy to a report and JoinInv every joined order to its claim.           *)
(***************************************************************************)
EXTENDS LeanPaperJoinProps, TLAPS

-----------------------------------------------------------------------------
(* The inductive invariant *)

BuyEvents == {e \in journal : e.client = "buy"}

\* Intents are the fixture's, and the sell's appears when the buy is resolved.
StoreInv ==
  /\ \A c \in ClientId : intents[c] # NoRow =>
       intents[c].terms = TermsOf(c) /\ intents[c].source_revision = RevisionOf(c)
  /\ resolutions["sell"] = NoRow
  /\ resolutions["buy"] # NoRow <=> intents["sell"] # NoRow
  /\ resolutions["buy"] # NoRow =>
       resolutions["buy"] = BuyResolution /\ joined["buy"] = Last("buy")

\* Only an order with an intent has a report or a broker that works on it.
BrokerInv ==
  /\ broker # NoRow => intents[broker.client] # NoRow
  /\ \A c \in ClientId : report[c] # 0 => intents[c] # NoRow
  /\ \A p \in Process : copy[p] # 0 =>
       \E c \in ClientId : InTransaction(p, c) /\ report[c] # 0

\* An order that is joined stays claimed and its events are in the journal,
\* in which the buy alone, and both orders together, lead to their accounts.
JoinInv ==
  /\ \A c \in ClientId : joined[c] # NoRow =>
       Claimed(c) /\ report[c] # 0 /\ Events(c, joined[c]) \subseteq journal
  /\ joined["sell"] # NoRow => resolutions["buy"] # NoRow
  /\ joined["sell"] = NoRow => BuyEvents = journal
  /\ joined["buy"] # NoRow => Ledger(BuyEvents) = Account("buy", joined["buy"])
  /\ LedgerIsAccount

IInv == TypeOK /\ StoreInv /\ BrokerInv /\ JoinInv

-----------------------------------------------------------------------------
(* Facts about the fixture *)

\* The fixture's rows are rows, and a buy has four revisions, a sell two.
LEMMA FixtureFacts ==
  /\ ClientId = {"buy", "sell"}
  /\ \A c \in ClientId : NewIntent(TermsOf(c), RevisionOf(c), RULES, FALSE) \in IntentRow
  /\ BuyResolution \in ResolutionRow
  /\ NoRow \notin IntentRow /\ NoRow \notin ResolutionRow /\ NoRow \notin Nat
  /\ Last("buy") = 4 /\ Last("sell") = 2
<1>1. \A c \in ClientId : NewIntent(TermsOf(c), RevisionOf(c), RULES, FALSE) \in IntentRow
  BY FixtureAssumption DEF NewIntent, IntentRow, Revision
<1>2. BuyResolution \in ResolutionRow
  BY ClientAssumption, FixtureAssumption DEF BuyResolution, ResolutionRow, Revision, Last
<1> QED
  BY <1>1, <1>2, ClientAssumption, NoRowAssumption, FixtureAssumption DEF Last

\* The first events are recorded by the buy's revisions 2 and 3, one more by
\* the sell's second; an order's events carry its name.
LEMMA EventFacts ==
  /\ \A c \in ClientId, r \in 1 .. 4 : \A e \in Events(c, r) : e.client = c
  /\ Events("buy", 4) = {}
<1> QED
  BY ClientAssumption DEF Events, Event

SumOf(k, events) == MapThenSumSet(LAMBDA e : e[k], events)

\* The library's fold over no events is 0: the function it is defined by exists.
LEMMA EmptySum ==
  ASSUME NEW k
  PROVE  SumOf(k, {}) = 0
<1> DEFINE zero == [s \in SUBSET {} |-> 0]
           Folds(g) == g = [s \in SUBSET {} |->
             IF s = {} THEN 0
             ELSE (CHOOSE e \in s : TRUE)[k] + g[s \ {CHOOSE e \in s : TRUE}]]
<1>1. Folds(zero)
  OBVIOUS
<1>2. Folds(CHOOSE g : Folds(g))
  BY <1>1, Zenon
<1>3. (CHOOSE g : Folds(g))[{}] = 0
  BY <1>2
<1>4. SumOf(k, {}) = (CHOOSE g : Folds(g))[{}]
  BY DEF SumOf, MapThenSumSet, MapThenFoldSet
<1> QED
  BY <1>3, <1>4

\* No events, no account.
LEMMA EmptyLedger == Ledger({}) = [cash |-> 0, units |-> 0]
<1>1. Ledger({}) = [cash |-> SumOf("cash", {}), units |-> SumOf("units", {})]
  BY DEF Ledger, SumOf
<1> QED
  BY <1>1, EmptySum

-----------------------------------------------------------------------------
(* Every step keeps the invariant *)

\* Every step keeps the types.
LEMMA TypeStep ==
  ASSUME IInv, [Next]_vars
  PROVE  TypeOK'
<1>0. /\ intents \in [ClientId -> IntentRow \union {NoRow}]
      /\ resolutions \in [ClientId -> ResolutionRow \union {NoRow}]
      /\ held \in BOOLEAN
      /\ joined \in [ClientId -> 1 .. 4 \union {NoRow}]
      /\ journal \subseteq UNION {Events(c, r) : c \in ClientId, r \in 1 .. 4}
      /\ report \in [ClientId -> 0 .. 4]
      /\ torn \in [ClientId -> BOOLEAN]
      /\ broker \in {NoRow} \union [client : ClientId, revision : 1 .. 4, begun : BOOLEAN]
      /\ op \in [Process -> {"none", "reconcile", "prepare_sell", "reconcile_sell"}]
      /\ at \in [Process -> {"idle", "buy", "buy_tx", "prepare_sell", "sell", "sell_tx"}]
      /\ copy \in [Process -> 0 .. 4]
      /\ "buy" \in ClientId /\ "sell" \in ClientId
  BY ClientAssumption DEF IInv, TypeOK, StoreTypeOK
<1>1. CASE PrepareBuy
  <2>1. UNCHANGED <<resolutions, held, joinVars, brokerVars, local>>
    BY <1>1 DEF PrepareBuy, Prepare
  <2>2. PICK row \in IntentRow : intents' = [intents EXCEPT !["buy"] = row]
    BY <1>0, <1>1, FixtureFacts DEF PrepareBuy, Prepare
  <2>3. intents' \in [ClientId -> IntentRow \union {NoRow}]
    BY <1>0, <2>2
  <2> QED
    BY <1>0, <2>1, <2>3 DEF joinVars, brokerVars, local, TypeOK, StoreTypeOK
<1>2. ASSUME NEW c \in ClientId, NEW state \in {"prepared", "submission_unknown"},
             intents[c] # NoRow, intents' = [intents EXCEPT ![c].state = state]
      PROVE  intents' \in [ClientId -> IntentRow \union {NoRow}]
  <2>1. [intents[c] EXCEPT !.state = state] \in IntentRow
    BY <1>0, <1>2 DEF IntentRow
  <2> QED
    BY <1>0, <1>2, <2>1
<1>3. ASSUME NEW c \in ClientId, Place(c)
      PROVE  TypeOK'
  <2>1. intents' \in [ClientId -> IntentRow \union {NoRow}]
    BY <1>2, <1>3 DEF Place, ClaimOnce
  <2>2. broker' \in {NoRow} \union [client : ClientId, revision : 1 .. 4, begun : BOOLEAN]
    BY <1>3 DEF Place
  <2> QED
    BY <1>0, <1>3, <2>1, <2>2 DEF Place, ClaimOnce, joinVars, local, TypeOK, StoreTypeOK
<1>4. ASSUME NEW c \in ClientId, Revise(c)
      PROVE  TypeOK'
  <2>1. report[c] + 1 \in 1 .. 4
    BY <1>0, <1>4, ClientAssumption DEF Revise, Last
  <2>2. broker' \in {NoRow} \union [client : ClientId, revision : 1 .. 4, begun : BOOLEAN]
    BY <1>4, <2>1 DEF Revise
  <2> QED
    BY <1>0, <1>4, <2>2 DEF Revise, storeVars, joinVars, local, TypeOK, StoreTypeOK
<1>5. CASE BeginWrite \/ EndWrite \/ BrokerExit
  <2>1. /\ broker \in [client : ClientId, revision : 1 .. 4, begun : BOOLEAN]
        /\ UNCHANGED <<intents, resolutions, held, joined, journal, op, at, copy>>
    BY <1>0, <1>5 DEF BeginWrite, EndWrite, BrokerExit, storeVars, joinVars, local
  <2>2. /\ report' \in [ClientId -> 0 .. 4]
        /\ torn' \in [ClientId -> BOOLEAN]
    <3>1. CASE BeginWrite
      BY <1>0, <2>1, <3>1 DEF BeginWrite
    <3>2. CASE EndWrite
      BY <1>0, <2>1, <3>2 DEF EndWrite
    <3>3. CASE BrokerExit
      BY <1>0, <3>3 DEF BrokerExit
    <3> QED
      BY <1>5, <3>1, <3>2, <3>3
  <2>3. broker' \in {NoRow} \union [client : ClientId, revision : 1 .. 4, begun : BOOLEAN]
    BY <1>5, <2>1 DEF BeginWrite, EndWrite, BrokerExit
  <2> QED
    BY <1>0, <2>1, <2>2, <2>3 DEF TypeOK, StoreTypeOK
<1>6. ASSUME NEW p \in Process,
             at' \in [Process -> {"idle", "buy", "buy_tx", "prepare_sell", "sell", "sell_tx"}],
             op' \in [Process -> {"none", "reconcile", "prepare_sell", "reconcile_sell"}],
             copy' \in [Process -> 0 .. 4],
             UNCHANGED <<held, brokerVars>>,
             intents' \in [ClientId -> IntentRow \union {NoRow}],
             resolutions' \in [ClientId -> ResolutionRow \union {NoRow}],
             joined' \in [ClientId -> 1 .. 4 \union {NoRow}],
             journal' \subseteq UNION {Events(c, r) : c \in ClientId, r \in 1 .. 4}
      PROVE  TypeOK'
  BY <1>0, <1>6 DEF brokerVars, TypeOK, StoreTypeOK
<1>7. ASSUME NEW p \in Process, NEW c \in ClientId, AfterJoin(p, c) \/ Return(p)
      PROVE  /\ at' \in [Process -> {"idle", "buy", "buy_tx", "prepare_sell", "sell", "sell_tx"}]
             /\ op' \in [Process -> {"none", "reconcile", "prepare_sell", "reconcile_sell"}]
             /\ copy' \in [Process -> 0 .. 4]
  BY <1>0, <1>7 DEF AfterJoin, Continue, Return
<1>8. ASSUME NEW p \in Process, NEW c \in ClientId, Rearm(p, c)
      PROVE  TypeOK'
  <2>1. intents' \in [ClientId -> IntentRow \union {NoRow}]
    BY <1>2, <1>8 DEF Rearm
  <2> QED
    BY <1>0, <1>6, <1>7, <1>8, <2>1 DEF Rearm, joinVars
<1>9. ASSUME NEW p \in Process, NEW c \in ClientId, Join(p, c)
      PROVE  TypeOK'
  <2>1. copy[p] \in 1 .. 4
    BY <1>0, <1>9 DEF Join
  <2>2. /\ joined' \in [ClientId -> 1 .. 4 \union {NoRow}]
        /\ journal' \subseteq UNION {Events(d, r) : d \in ClientId, r \in 1 .. 4}
    BY <1>0, <1>9, <2>1 DEF Join
  <2> QED
    BY <1>0, <1>6, <1>7, <1>9, <2>2 DEF Join, storeVars
<1>10. ASSUME NEW p \in Process, PrepareSell(p)
       PROVE  TypeOK'
  <2>1. Return(p) /\ UNCHANGED <<held, joinVars, brokerVars>>
    BY <1>10 DEF PrepareSell
  <2>2. PICK row \in IntentRow, res \in ResolutionRow :
          /\ intents' = [intents EXCEPT !["sell"] = row]
          /\ resolutions' = [resolutions EXCEPT !["buy"] = res]
    BY <1>0, <1>10, FixtureFacts DEF PrepareSell
  <2>3. /\ intents' \in [ClientId -> IntentRow \union {NoRow}]
        /\ resolutions' \in [ClientId -> ResolutionRow \union {NoRow}]
    BY <1>0, <2>2
  <2> QED
    BY <1>0, <1>6, <1>7, <2>1, <2>3 DEF joinVars
<1>11. ASSUME NEW p \in Process, Exit(p)
       PROVE  TypeOK'
  BY <1>0, <1>6, <1>7, <1>11 DEF Exit, storeVars, joinVars
<1>12. ASSUME NEW p \in Process, NEW o \in {"reconcile", "prepare_sell", "reconcile_sell"},
              Call(p, o)
       PROVE  TypeOK'
  BY <1>0, <1>6, <1>12 DEF Call, storeVars, joinVars
<1>13. ASSUME NEW p \in Process, NEW c \in ClientId, Read(p, c)
       PROVE  TypeOK'
  BY <1>0, <1>6, <1>13 DEF Read, storeVars, joinVars
<1>14. CASE UNCHANGED vars
  BY <1>0, <1>14 DEF vars, storeVars, joinVars, brokerVars, local, TypeOK, StoreTypeOK
<1> QED
  BY <1>1, <1>3, <1>4, <1>5, <1>8, <1>9, <1>10, <1>11, <1>12, <1>13, <1>14 DEF Next

-----------------------------------------------------------------------------
(* The steps, as the tables see them *)

Quiet == UNCHANGED <<intents, resolutions, joined, journal>>

\* An order that is not joined is claimed or rearmed.
Restates(c) ==
  /\ intents[c] # NoRow
  /\ joined[c] = NoRow
  /\ \E state \in {"prepared", "submission_unknown"} :
       intents' = [intents EXCEPT ![c].state = state]
  /\ UNCHANGED <<resolutions, joined, journal>>

AdmitsBuy ==
  /\ intents["buy"] = NoRow
  /\ Unresolved = {}
  /\ intents' = [intents EXCEPT !["buy"] =
                   NewIntent(TermsOf("buy"), RevisionOf("buy"), RULES, FALSE)]
  /\ UNCHANGED <<resolutions, joined, journal>>

ResolvesBuy ==
  /\ Closed
  /\ intents["sell"] = NoRow
  /\ resolutions' = [resolutions EXCEPT !["buy"] = BuyResolution]
  /\ intents' = [intents EXCEPT !["sell"] =
                   NewIntent(TermsOf("sell"), RevisionOf("sell"), RULES, FALSE)]
  /\ UNCHANGED <<joined, journal>>

Joins(c, r) ==
  /\ report[c] # 0
  /\ Accepts(c, r)
  /\ joined' = [joined EXCEPT ![c] = r]
  /\ journal' = journal \union Events(c, r)
  /\ UNCHANGED <<intents, resolutions>>

\* What a process has read, the broker has published for the order it joins.
LEMMA CopyIsPublished ==
  ASSUME IInv, NEW p \in Process, NEW c \in ClientId, InTransaction(p, c), copy[p] # 0
  PROVE  copy[p] \in 1 .. 4 /\ report[c] # 0
<1>1. PICK d \in ClientId : InTransaction(p, d) /\ report[d] # 0
  BY DEF IInv, BrokerInv
<1>2. c = d
  BY <1>1, ClientAssumption DEF InTransaction
<1> QED
  BY <1>1, <1>2 DEF IInv, TypeOK

\* Every step is one of these kinds, and no report is withdrawn.
LEMMA StepKinds ==
  ASSUME IInv, [Next]_vars
  PROVE  /\ \/ Quiet \/ AdmitsBuy \/ ResolvesBuy
            \/ \E c \in ClientId : Restates(c)
            \/ \E c \in ClientId, r \in 1 .. 4 : Joins(c, r)
         /\ \A c \in ClientId : report[c] # 0 => report'[c] # 0
<1>0. report \in [ClientId -> 0 .. 4] /\ TypeOK
  BY DEF IInv, TypeOK
<1>1. CASE PrepareBuy
  BY <1>1 DEF PrepareBuy, Prepare, joinVars, brokerVars, AdmitsBuy
<1>2. ASSUME NEW c \in ClientId, Place(c)
      PROVE  Restates(c) /\ report' = report
  <2>1. intents[c] # NoRow /\ joined[c] = NoRow
    BY <1>2 DEF Place, ClaimOnce, IInv, JoinInv, Claimed
  <2> QED
    BY <1>2, <2>1 DEF Place, ClaimOnce, Restates, joinVars
<1>3. ASSUME NEW c, Revise(c) \/ BeginWrite \/ BrokerExit
      PROVE  Quiet /\ report' = report
  BY <1>3 DEF Revise, BeginWrite, BrokerExit, Quiet, storeVars, joinVars
<1>4. CASE EndWrite
  <2>1. broker.revision # 0
    BY <1>0, <1>4 DEF TypeOK, EndWrite
  <2> QED
    BY <1>0, <1>4, <2>1 DEF EndWrite, Quiet, storeVars, joinVars
<1>5. ASSUME NEW p \in Process, NEW o, NEW c, Call(p, o) \/ Read(p, c) \/ Exit(p)
      PROVE  Quiet /\ report' = report
  BY <1>5 DEF Call, Read, Exit, Quiet, storeVars, joinVars, brokerVars
<1>6. ASSUME NEW p \in Process, NEW c \in ClientId, Rearm(p, c)
      PROVE  Restates(c) /\ report' = report
  BY <1>6 DEF Rearm, Restates, joinVars, brokerVars
<1>7. ASSUME NEW p \in Process, NEW c \in ClientId, Join(p, c)
      PROVE  copy[p] \in 1 .. 4 /\ Joins(c, copy[p]) /\ report' = report
  BY <1>7, CopyIsPublished DEF Join, Joins, storeVars, brokerVars
<1>8. ASSUME NEW p \in Process, PrepareSell(p)
      PROVE  ResolvesBuy /\ report' = report
  BY <1>8 DEF PrepareSell, ResolvesBuy, joinVars, brokerVars
<1>9. CASE UNCHANGED vars
  BY <1>9 DEF vars, Quiet, storeVars, joinVars, brokerVars
<1> QED
  BY <1>1, <1>2, <1>3, <1>4, <1>5, <1>6, <1>7, <1>8, <1>9 DEF Next

\* An intent stays what it was prepared as, and a joined order's is untouched.
LEMMA IntentsStay ==
  ASSUME IInv, [Next]_vars
  PROVE  /\ \A c \in ClientId : intents[c] # NoRow =>
              /\ intents'[c] # NoRow
              /\ intents'[c].terms = intents[c].terms
              /\ intents'[c].source_revision = intents[c].source_revision
         /\ \A c \in ClientId : joined[c] # NoRow => intents'[c] = intents[c]
<1>0. /\ intents \in [ClientId -> IntentRow \union {NoRow}]
      /\ \A c \in ClientId : joined[c] # NoRow => intents[c] # NoRow
  BY DEF IInv, TypeOK, StoreTypeOK, JoinInv, Claimed
<1>1. ASSUME NEW c \in ClientId, NEW state \in {"prepared", "submission_unknown"},
             intents[c] # NoRow
      PROVE  LET row == [intents[c] EXCEPT !.state = state] IN
             row # NoRow /\ row.terms = intents[c].terms
             /\ row.source_revision = intents[c].source_revision
  <2>1. intents[c] \in IntentRow
    BY <1>0, <1>1
  <2> QED
    BY <2>1, FixtureFacts DEF IntentRow
<1>2. CASE \E c \in ClientId : Restates(c)
  <2>1. PICK c \in ClientId, state \in {"prepared", "submission_unknown"} :
          /\ intents[c] # NoRow /\ joined[c] = NoRow
          /\ intents' = [intents EXCEPT ![c].state = state]
    BY <1>2 DEF Restates
  <2>2. \A d \in ClientId : intents'[d] = IF d = c THEN [intents[c] EXCEPT !.state = state]
                                                   ELSE intents[d]
    BY <1>0, <2>1
  <2> QED
    BY <1>1, <2>1, <2>2
<1>3. CASE AdmitsBuy \/ ResolvesBuy
  BY <1>0, <1>3 DEF AdmitsBuy, ResolvesBuy
<1>4. CASE Quiet \/ \E c \in ClientId, r \in 1 .. 4 : Joins(c, r)
  BY <1>4 DEF Quiet, Joins
<1> QED
  BY <1>2, <1>3, <1>4, StepKinds

\* Every step keeps the intents the fixture's, the sell's after the buy's.
LEMMA StoreStep ==
  ASSUME IInv, [Next]_vars
  PROVE  StoreInv'
<1>0. /\ StoreInv /\ ClientId = {"buy", "sell"}
      /\ intents \in [ClientId -> IntentRow \union {NoRow}]
      /\ resolutions \in [ClientId -> ResolutionRow \union {NoRow}]
      /\ joined \in [ClientId -> 1 .. 4 \union {NoRow}]
      /\ \A c \in ClientId : joined[c] # NoRow => intents[c] # NoRow
  BY ClientAssumption DEF IInv, TypeOK, StoreTypeOK, JoinInv, Claimed
<1>1. \A c \in ClientId : intents[c] # NoRow =>
         /\ intents'[c] # NoRow
         /\ intents'[c].terms = TermsOf(c) /\ intents'[c].source_revision = RevisionOf(c)
  BY <1>0, IntentsStay DEF StoreInv
<1>2. ASSUME NEW c \in ClientId,
             intents' = [intents EXCEPT ![c] =
                           NewIntent(TermsOf(c), RevisionOf(c), RULES, FALSE)]
      PROVE  /\ intents'[c] # NoRow
             /\ \A d \in ClientId : d # c => intents'[d] = intents[d]
             /\ \A d \in ClientId : intents'[d] # NoRow =>
                  intents'[d].terms = TermsOf(d) /\ intents'[d].source_revision = RevisionOf(d)
  <2>1. intents'[c] = NewIntent(TermsOf(c), RevisionOf(c), RULES, FALSE)
    BY <1>0, <1>2
  <2>2. /\ intents'[c] # NoRow /\ intents'[c].terms = TermsOf(c)
        /\ intents'[c].source_revision = RevisionOf(c)
    <3>1. intents'[c] # NoRow
      BY <2>1, FixtureFacts
    <3> QED
      BY <2>1, <3>1 DEF NewIntent
  <2>3. \A d \in ClientId : d # c => intents'[d] = intents[d]
    BY <1>0, <1>2
  <2> QED
    BY <1>1, <2>2, <2>3
<1>3. CASE Quiet
  BY <1>0, <1>3 DEF Quiet, StoreInv
<1>4. CASE AdmitsBuy
  <2>1. intents'["sell"] = intents["sell"] /\ UNCHANGED <<resolutions, joined>>
    BY <1>0, <1>2, <1>4 DEF AdmitsBuy
  <2> QED
    BY <1>0, <1>2, <1>4, <2>1 DEF AdmitsBuy, StoreInv
<1>5. CASE ResolvesBuy
  <2>1. /\ resolutions'["buy"] = BuyResolution /\ resolutions'["sell"] = NoRow
        /\ joined'["buy"] = Last("buy")
    BY <1>0, <1>5 DEF ResolvesBuy, Closed, StoreInv
  <2> QED
    BY <1>0, <1>2, <1>5, <2>1, FixtureFacts DEF ResolvesBuy, StoreInv
<1>6. CASE \E c \in ClientId : Restates(c)
  <2>1. PICK c \in ClientId, state \in {"prepared", "submission_unknown"} :
          /\ intents[c] # NoRow
          /\ intents' = [intents EXCEPT ![c].state = state]
          /\ UNCHANGED <<resolutions, joined>>
    BY <1>6 DEF Restates
  <2>2. \A d \in ClientId : d # c => intents'[d] = intents[d]
    BY <1>0, <2>1
  <2>3. \A d \in ClientId : intents'[d] # NoRow <=> intents[d] # NoRow
    BY <1>1, <2>1, <2>2
  <2> QED
    BY <1>0, <1>1, <2>1, <2>3 DEF StoreInv
<1>7. CASE \E c \in ClientId, r \in 1 .. 4 : Joins(c, r)
  <2>1. PICK c \in ClientId, r \in 1 .. 4 : Joins(c, r)
    BY <1>7
  <2>2. resolutions["buy"] # NoRow => joined'["buy"] = Last("buy")
    <3> SUFFICES ASSUME resolutions["buy"] # NoRow PROVE joined'["buy"] = Last("buy")
      OBVIOUS
    <3>1. joined["buy"] = 4
      BY <1>0, FixtureFacts DEF StoreInv
    <3>2. CASE c = "buy"
      <4>1. r \in {4, 5}
        BY <2>1, <3>1, <3>2, FixtureFacts DEF Joins, Accepts
      <4>2. joined'["buy"] = r
        BY <1>0, <2>1, <3>2 DEF Joins
      <4> QED
        BY <2>1, <4>1, <4>2, FixtureFacts
    <3>3. CASE c # "buy"
      BY <1>0, <2>1, <3>1, <3>3, FixtureFacts DEF Joins
    <3> QED
      BY <3>2, <3>3
  <2> QED
    BY <1>0, <2>1, <2>2 DEF Joins, StoreInv
<1> QED
  BY <1>3, <1>4, <1>5, <1>6, <1>7, StepKinds

\* Every step keeps reports and copies behind the intents.
LEMMA BrokerStep ==
  ASSUME IInv, [Next]_vars
  PROVE  BrokerInv'
<1>0. /\ BrokerInv /\ ClientId = {"buy", "sell"}
      /\ broker \in {NoRow} \union [client : ClientId, revision : 1 .. 4, begun : BOOLEAN]
      /\ report \in [ClientId -> 0 .. 4]
      /\ DOMAIN at = Process /\ DOMAIN copy = Process
      /\ \A c \in ClientId : intents[c] # NoRow => intents'[c] # NoRow
      /\ \A c \in ClientId : report[c] # 0 => report'[c] # 0
  BY IntentsStay, StepKinds, ClientAssumption DEF IInv, TypeOK
<1> DEFINE Works == broker' # NoRow => intents'[broker'.client] # NoRow
           Reported == \A c \in ClientId : report'[c] # 0 => intents'[c] # NoRow
           Copied == \A p \in Process : copy'[p] # 0 =>
                       \E c \in ClientId : /\ at'[p] = IF c = "buy" THEN "buy_tx" ELSE "sell_tx"
                                           /\ report'[c] # 0
<1>1. Works /\ Reported /\ Copied => BrokerInv'
  BY DEF BrokerInv, InTransaction
<1>2. broker' = broker => Works
  BY <1>0 DEF BrokerInv
<1>3. report' = report => Reported
  BY <1>0 DEF BrokerInv
<1>4. UNCHANGED local => Copied
  BY <1>0 DEF local, BrokerInv, InTransaction
<1>5. ASSUME NEW p \in Process,
             \/ \E label : at' = [at EXCEPT ![p] = label] /\ copy' = [copy EXCEPT ![p] = 0]
             \/ copy[p] = 0 /\ copy' = copy /\ \E label : at' = [at EXCEPT ![p] = label]
      PROVE  Copied
  <2>1. copy'[p] = 0
    BY <1>0, <1>5
  <2>2. \A q \in Process : q # p => at'[q] = at[q] /\ copy'[q] = copy[q]
    BY <1>0, <1>5
  <2> QED
    BY <1>0, <2>1, <2>2 DEF BrokerInv, InTransaction
<1> HIDE DEF Works, Reported, Copied
<1>6. ASSUME NEW c \in ClientId, Place(c) \/ Revise(c)
      PROVE  BrokerInv'
  <2>1. intents[c] # NoRow /\ broker'.client = c /\ report' = report /\ UNCHANGED local
    BY <1>0, <1>6 DEF Place, ClaimOnce, Revise, BrokerInv
  <2>2. Works
    BY <1>0, <2>1 DEF Works
  <2> QED
    BY <1>1, <1>3, <1>4, <2>1, <2>2
<1>7. CASE BeginWrite
  <2>1. broker # NoRow /\ broker'.client = broker.client /\ report' = report /\ UNCHANGED local
    BY <1>0, <1>7 DEF BeginWrite
  <2>2. broker.client \in ClientId
    BY <1>0, <2>1
  <2>3. Works
    BY <1>0, <2>1, <2>2 DEF Works, BrokerInv
  <2> QED
    BY <1>1, <1>3, <1>4, <2>1, <2>3
<1>8. CASE EndWrite
  <2>1. /\ broker # NoRow /\ broker' = NoRow /\ UNCHANGED local
        /\ report' = [report EXCEPT ![broker.client] = broker.revision]
    BY <1>8 DEF EndWrite
  <2>2. broker.client \in ClientId /\ intents[broker.client] # NoRow
    BY <1>0, <2>1 DEF BrokerInv
  <2>3. Reported
    BY <1>0, <2>1, <2>2 DEF Reported, BrokerInv
  <2>4. Works
    BY <2>1 DEF Works
  <2> QED
    BY <1>1, <1>4, <2>1, <2>3, <2>4
<1>9. CASE BrokerExit
  <2>1. broker' = NoRow /\ report' = report /\ UNCHANGED local
    BY <1>9 DEF BrokerExit
  <2> QED
    BY <1>1, <1>3, <1>4, <2>1 DEF Works
<1>10. ASSUME NEW p \in Process, NEW c \in ClientId, Read(p, c)
       PROVE  BrokerInv'
  <2>1. /\ copy' = [copy EXCEPT ![p] = report[c]] /\ UNCHANGED brokerVars
        /\ at' = [at EXCEPT ![p] = IF c = "buy" THEN "buy_tx" ELSE "sell_tx"]
    BY <1>10 DEF Read
  <2>2. report' = report /\ broker' = broker
    BY <2>1 DEF brokerVars
  <2>3. Copied
    <3>1. copy'[p] = report'[c] /\ at'[p] = IF c = "buy" THEN "buy_tx" ELSE "sell_tx"
      BY <1>0, <2>1, <2>2
    <3>2. \A q \in Process : q # p => at'[q] = at[q] /\ copy'[q] = copy[q]
      BY <1>0, <2>1
    <3> QED
      BY <1>0, <2>2, <3>1, <3>2 DEF Copied, BrokerInv, InTransaction
  <2> QED
    BY <1>1, <1>2, <1>3, <2>2, <2>3
<1>11. ASSUME NEW p \in Process, NEW o, Call(p, o)
       PROVE  BrokerInv'
  <2>1. copy[p] = 0
    BY <1>0, <1>11 DEF Call, BrokerInv, InTransaction
  <2> QED
    BY <1>1, <1>2, <1>3, <1>5, <1>11, <2>1 DEF Call, brokerVars
<1>12. ASSUME NEW p \in Process, NEW c,
              Rearm(p, c) \/ Join(p, c) \/ PrepareSell(p) \/ Exit(p)
       PROVE  BrokerInv'
  <2>1. (AfterJoin(p, c) \/ Return(p)) /\ UNCHANGED brokerVars
    BY <1>12 DEF Rearm, Join, PrepareSell, Exit
  <2>2. \E label : at' = [at EXCEPT ![p] = label] /\ copy' = [copy EXCEPT ![p] = 0]
    BY <2>1 DEF AfterJoin, Continue, Return
  <2> QED
    BY <1>1, <1>2, <1>3, <1>5, <2>1, <2>2 DEF brokerVars
<1>13. CASE PrepareBuy \/ UNCHANGED vars
  <2>1. UNCHANGED <<brokerVars, local>>
    BY <1>13 DEF PrepareBuy, vars
  <2> QED
    BY <1>1, <1>2, <1>3, <1>4, <2>1 DEF brokerVars
<1> QED
  BY <1>6, <1>7, <1>8, <1>9, <1>10, <1>11, <1>12, <1>13 DEF Next

\* Every step keeps the joined orders claimed and the journal at the account
\* of the report accepted last.
LEMMA JoinStep ==
  ASSUME IInv, [Next]_vars
  PROVE  JoinInv'
<1>0. /\ StoreInv /\ JoinInv /\ "buy" \in ClientId /\ "sell" \in ClientId
      /\ joined \in [ClientId -> 1 .. 4 \union {NoRow}]
      /\ DOMAIN resolutions = ClientId
      /\ \A c \in ClientId : joined[c] # NoRow => intents'[c] = intents[c]
      /\ \A c \in ClientId : report[c] # 0 => report'[c] # 0
  BY IntentsStay, StepKinds, ClientAssumption DEF IInv, TypeOK, StoreTypeOK
<1>1. resolutions["buy"] # NoRow => resolutions'["buy"] # NoRow
  BY <1>0, StepKinds, FixtureFacts DEF Quiet, AdmitsBuy, ResolvesBuy, Restates, Joins
<1>2. CASE UNCHANGED <<joined, journal>>
  BY <1>0, <1>1, <1>2 DEF JoinInv, Claimed, BuyEvents, LedgerIsAccount
<1>3. CASE \E c \in ClientId, r \in 1 .. 4 : Joins(c, r)
  <2>1. PICK c \in ClientId, r \in 1 .. 4 : Joins(c, r)
    BY <1>3
  <2>2. /\ Accepts(c, r) /\ report[c] # 0 /\ r # NoRow
        /\ joined'[c] = r /\ \A d \in ClientId : d # c => joined'[d] = joined[d]
        /\ journal' = journal \union Events(c, r)
        /\ UNCHANGED <<intents, resolutions>>
    BY <1>0, <2>1, FixtureFacts DEF Joins
  <2>3. \A e \in Events(c, r) : e.client = c
    BY EventFacts
  <2>4. \A d \in ClientId : joined'[d] # NoRow =>
          /\ intents'[d] # NoRow /\ intents'[d].state = "submission_unknown"
          /\ report'[d] # 0 /\ Events(d, joined'[d]) \subseteq journal'
    BY <1>0, <2>2 DEF JoinInv, Claimed, Accepts
  <2>5. CASE c = "buy" /\ joined["sell"] = NoRow
    <3>1. BuyEvents' = journal' /\ joined'["sell"] = NoRow
      BY <1>0, <2>2, <2>3, <2>5 DEF JoinInv, BuyEvents
    <3>2. EventsThatCount("buy", journal \union Events("buy", r)) = journal'
      BY <2>2, <2>5, <3>1 DEF EventsThatCount, BuyEvents
    <3>3. Ledger(journal') = Account("buy", r)
      BY <2>2, <2>5, <3>2 DEF Accepts, AccountFollows
    <3> QED
      BY <1>0, <2>2, <2>4, <2>5, <3>1, <3>3 DEF JoinInv, Claimed, LedgerIsAccount
  <2>6. CASE c = "buy" /\ joined["sell"] # NoRow
    <3>1. joined["buy"] = 4 /\ r \in {4, 5}
      BY <1>0, <2>2, <2>6, FixtureFacts DEF JoinInv, StoreInv, Accepts
    <3>2. r = 4 /\ journal' = journal
      BY <2>2, <2>6, <3>1, EventFacts
    <3> QED
      BY <1>0, <2>2, <2>4, <2>6, <3>1, <3>2 DEF JoinInv, Claimed, BuyEvents, LedgerIsAccount
  <2>7. CASE c = "sell"
    <3>1. Ledger(journal') = Account("sell", r)
      BY <2>2, <2>7 DEF Accepts, AccountFollows, EventsThatCount
    <3>2. BuyEvents' = BuyEvents
      BY <2>2, <2>3, <2>7 DEF BuyEvents
    <3>3. resolutions'["buy"] # NoRow
      BY <2>2, <2>7 DEF Accepts
    <3> QED
      BY <1>0, <2>2, <2>4, <2>7, <3>1, <3>2, <3>3 DEF JoinInv, Claimed, LedgerIsAccount
  <2> QED
    BY <2>5, <2>6, <2>7, ClientAssumption
<1> QED
  BY <1>2, <1>3, StepKinds DEF Quiet, AdmitsBuy, ResolvesBuy, Restates

-----------------------------------------------------------------------------
(* The theorems *)

\* The inductive invariant holds of every behaviour.
THEOREM Inductive == Spec => []IInv
<1>1. Init => IInv
  <2> SUFFICES ASSUME Init PROVE IInv
    OBVIOUS
  <2>1. TypeOK
    <3>1. journal \subseteq UNION {Events(c, r) : c \in ClientId, r \in 1 .. 4}
      BY DEF Init
    <3>2. StoreTypeOK
      BY DEF Init, StoreInit, StoreTypeOK
    <3> QED
      BY <3>1, <3>2 DEF Init, TypeOK
  <2>2. StoreInv /\ BrokerInv
    BY ClientAssumption DEF Init, StoreInit, StoreInv, BrokerInv
  <2>3. joined["buy"] = NoRow /\ joined["sell"] = NoRow /\ journal = {} /\ BuyEvents = {}
    BY ClientAssumption DEF Init, BuyEvents
  <2>4. JoinInv
    BY <2>3, EmptyLedger, ClientAssumption DEF JoinInv, LedgerIsAccount
  <2> QED
    BY <2>1, <2>2, <2>4 DEF IInv
<1>2. IInv /\ [Next]_vars => IInv'
  <2> SUFFICES ASSUME IInv, [Next]_vars PROVE IInv'
    OBVIOUS
  <2> QED
    BY TypeStep, StoreStep, BrokerStep, JoinStep DEF IInv
<1> QED
  BY <1>1, <1>2, PTL DEF Spec

\* The tables, the report files and the processes keep their types.
THEOREM TypeCorrect == Spec => []TypeOK
<1>1. IInv => TypeOK
  BY DEF IInv
<1> QED
  BY <1>1, Inductive, PTL

\* The journal of execution events leads to the account last accepted.
THEOREM LedgerIsAccountHolds == Spec => []LedgerIsAccount
<1>1. IInv => LedgerIsAccount
  BY DEF IInv, JoinInv
<1> QED
  BY <1>1, Inductive, PTL

\* A report that reconcile() accepted is accepted again, and adds no event.
THEOREM RepeatIsAcceptedHolds == Spec => []RepeatIsAccepted
<1>1. IInv => RepeatIsAccepted
  <2> SUFFICES ASSUME IInv, NEW c \in ClientId, joined[c] # NoRow
               PROVE  Accepts(c, joined[c]) /\ Events(c, joined[c]) \subseteq journal
    BY DEF RepeatIsAccepted
  <2>1. Claimed(c) /\ Events(c, joined[c]) \subseteq journal
    BY DEF IInv, JoinInv
  <2>2. journal \union Events(c, joined[c]) = journal
    BY <2>1
  <2>3. intents[c].terms = TermsOf(c) /\ intents[c].source_revision = RevisionOf(c)
    BY <2>1 DEF IInv, StoreInv, Claimed
  <2>4. c = "sell" => /\ resolutions["buy"] # NoRow
                      /\ resolutions["buy"].final_report_revision = Last("buy")
                      /\ joined["buy"] = Last("buy")
    BY DEF IInv, JoinInv, StoreInv, BuyResolution
  <2>5. AccountFollows(c, joined[c])
    <3>1. CASE c = "buy"
      BY <2>2, <3>1 DEF IInv, JoinInv, AccountFollows, EventsThatCount, BuyEvents
    <3>2. CASE c = "sell"
      BY <2>2, <3>2 DEF IInv, JoinInv, AccountFollows, EventsThatCount, LedgerIsAccount
    <3> QED
      BY <3>1, <3>2, ClientAssumption
  <2> QED
    BY <2>1, <2>3, <2>4, <2>5 DEF Accepts
<1> QED
  BY <1>1, Inductive, PTL

\* Once the buy is resolved its order, its events and its intent stay.
THEOREM ResolvedBuyStaysHolds == Spec => ResolvedBuyStays
<1>1. ASSUME IInv, [Next]_vars, resolutions["buy"] # NoRow
      PROVE  /\ resolutions'["buy"] = resolutions["buy"]
             /\ joined'["buy"] = joined["buy"]
             /\ intents'["buy"] = intents["buy"]
             /\ {e \in journal' : e.client = "buy"} = {e \in journal : e.client = "buy"}
  <2>0. /\ joined["buy"] = 4 /\ intents["sell"] # NoRow /\ "buy" \in ClientId /\ "sell" \in ClientId
        /\ joined \in [ClientId -> 1 .. 4 \union {NoRow}]
    BY <1>1, FixtureFacts DEF IInv, StoreInv, TypeOK
  <2>1. intents'["buy"] = intents["buy"]
    BY <1>1, <2>0, IntentsStay, FixtureFacts
  <2>2. CASE UNCHANGED <<resolutions, joined, journal>>
    BY <2>1, <2>2
  <2>3. CASE \E c \in ClientId, r \in 1 .. 4 : Joins(c, r)
    <3>1. PICK c \in ClientId, r \in 1 .. 4 : Joins(c, r)
      BY <2>3
    <3>2. UNCHANGED resolutions /\ joined' = [joined EXCEPT ![c] = r]
          /\ journal' = journal \union Events(c, r)
          /\ \A e \in Events(c, r) : e.client = c
      BY <3>1, EventFacts DEF Joins
    <3>3. CASE c = "buy"
      <4>1. r = 4
        BY <2>0, <3>1, <3>3, FixtureFacts DEF Joins, Accepts
      <4>2. journal' = journal /\ joined'["buy"] = 4
        BY <2>0, <3>2, <3>3, <4>1, EventFacts
      <4> QED
        BY <2>0, <2>1, <3>2, <4>2
    <3>4. CASE c # "buy"
      BY <2>0, <2>1, <3>2, <3>4
    <3> QED
      BY <3>3, <3>4
  <2> QED
    BY <1>1, <2>0, <2>2, <2>3, StepKinds DEF Quiet, AdmitsBuy, ResolvesBuy, Restates
<1>2. IInv /\ [Next]_vars =>
        [resolutions["buy"] # NoRow =>
           /\ resolutions'["buy"] = resolutions["buy"]
           /\ joined'["buy"] = joined["buy"]
           /\ intents'["buy"] = intents["buy"]
           /\ {e \in journal' : e.client = "buy"} = {e \in journal : e.client = "buy"}]_vars
  BY <1>1
<1> QED
  BY <1>2, Inductive, PTL DEF Spec, ResolvedBuyStays

\* The two fixed orders implement the submission barrier.
THEOREM Refinement == Spec => BarrierSpec
<1> DEFINE sent == {c \in ClientId : report[c] # 0}
           closed == {c \in ClientId : resolutions[c] # NoRow}
<1>1. Init => Barrier!Init
  BY DEF Init, StoreInit, Barrier!Init, Unresolved
<1>2. ASSUME IInv, [Next]_vars
      PROVE  [Barrier!Next]_(Barrier!vars)
  <2>0. /\ ClientId = {"buy", "sell"} /\ StoreInv /\ BrokerInv /\ JoinInv
        /\ report \in [ClientId -> 0 .. 4]
        /\ broker \in {NoRow} \union [client : ClientId, revision : 1 .. 4, begun : BOOLEAN]
        /\ intents \in [ClientId -> IntentRow \union {NoRow}]
        /\ resolutions \in [ClientId -> ResolutionRow \union {NoRow}]
        /\ \A c \in ClientId : resolutions[c] # NoRow => intents[c] # NoRow /\ report[c] # 0
    BY <1>2, ClientAssumption, FixtureFacts
       DEF IInv, TypeOK, StoreTypeOK, StoreInv, JoinInv, Claimed
  <2>1. CASE EndWrite
    <3>1. PICK c \in ClientId, r \in 1 .. 4 :
            /\ c = broker.client /\ intents[c] # NoRow
            /\ report' = [report EXCEPT ![c] = r]
            /\ UNCHANGED <<intents, resolutions>>
      BY <2>0, <2>1 DEF EndWrite, BrokerInv, storeVars
    <3>2. Unresolved' = Unresolved /\ closed' = closed /\ sent' = sent \union {c}
      BY <2>0, <3>1 DEF Unresolved
    <3>3. CASE report[c] = 0
      <4>1. c \in Unresolved /\ c \notin sent
        BY <2>0, <3>1, <3>3 DEF Unresolved
      <4>2. Barrier!Send(c)
        BY <3>2, <4>1 DEF Barrier!Send
      <4> QED
        BY <4>2 DEF Barrier!Next
    <3>4. CASE report[c] # 0
      BY <3>2, <3>4 DEF Barrier!vars
    <3> QED
      BY <3>3, <3>4
  <2>2. ~EndWrite => report' = report
    BY <1>2 DEF Next, PrepareBuy, Place, Revise, BeginWrite, BrokerExit, Call, Read, Rearm,
         Join, PrepareSell, Exit, vars, brokerVars
  <2>3. CASE sent' = sent /\ AdmitsBuy
    <3>1. intents'["buy"] # NoRow /\ intents'["sell"] = intents["sell"]
          /\ resolutions' = resolutions
      <4>1. PICK row \in IntentRow : intents' = [intents EXCEPT !["buy"] = row]
        BY <2>0, <2>3, FixtureFacts DEF AdmitsBuy
      <4>2. resolutions' = resolutions
        BY <2>3 DEF AdmitsBuy
      <4> QED
        BY <2>0, <4>1, <4>2, FixtureFacts
    <3>2. /\ Unresolved = {} /\ Unresolved' = {"buy"}
          /\ "buy" \notin closed /\ closed' = closed
      BY <2>0, <2>3, <3>1 DEF AdmitsBuy, Unresolved, StoreInv
    <3>3. Barrier!Admit("buy")
      BY <2>3, <3>2 DEF Barrier!Admit
    <3> QED
      BY <2>0, <3>3 DEF Barrier!Next
  <2>4. CASE sent' = sent /\ ResolvesBuy
    <3>1. /\ intents'["sell"] # NoRow /\ intents'["buy"] = intents["buy"]
          /\ resolutions'["buy"] # NoRow /\ resolutions'["sell"] = NoRow
      <4>1. PICK row \in IntentRow, res \in ResolutionRow :
              /\ intents' = [intents EXCEPT !["sell"] = row]
              /\ resolutions' = [resolutions EXCEPT !["buy"] = res]
        BY <2>0, <2>4, FixtureFacts DEF ResolvesBuy
      <4> QED
        BY <2>0, <4>1, FixtureFacts DEF StoreInv
    <3>2. /\ intents["buy"] # NoRow /\ report["buy"] # 0
          /\ intents["sell"] = NoRow /\ resolutions["buy"] = NoRow
          /\ resolutions["sell"] = NoRow
      BY <2>0, <2>4, FixtureFacts DEF ResolvesBuy, Closed, JoinInv, Claimed, StoreInv
    <3>3. /\ Unresolved = {"buy"} /\ Unresolved' = {"sell"} /\ "buy" \in sent
          /\ closed = {} /\ closed' = {"buy"}
      BY <2>0, <3>1, <3>2 DEF Unresolved
    <3>4. Barrier!HandOver("buy", "sell")
      BY <2>4, <3>3 DEF Barrier!HandOver
    <3> QED
      BY <2>0, <3>4 DEF Barrier!Next
  <2>5. CASE sent' = sent /\ (Quiet \/ (\E c \in ClientId : Restates(c))
                              \/ \E c \in ClientId, r \in 1 .. 4 : Joins(c, r))
    <3>1. resolutions' = resolutions
      BY <2>5 DEF Quiet, Restates, Joins
    <3>2. \A c \in ClientId : intents'[c] # NoRow <=> intents[c] # NoRow
      <4>1. CASE \E c \in ClientId : Restates(c)
        <5>1. PICK c \in ClientId, state \in {"prepared", "submission_unknown"} :
                intents[c] # NoRow /\ intents' = [intents EXCEPT ![c].state = state]
          BY <4>1 DEF Restates
        <5>2. intents'[c] # NoRow
          BY <1>2, <5>1, IntentsStay
        <5> QED
          BY <2>0, <5>1, <5>2
      <4>2. CASE intents' = intents
        BY <4>2
      <4> QED
        BY <2>5, <4>1, <4>2 DEF Quiet, Joins
    <3>3. Unresolved' = Unresolved /\ closed' = closed
      BY <3>1, <3>2 DEF Unresolved
    <3> QED
      BY <2>5, <3>3 DEF Barrier!vars
  <2> QED
    BY <1>2, <2>1, <2>2, <2>3, <2>4, <2>5, StepKinds
<1> QED
  BY <1>1, <1>2, Inductive, PTL DEF Spec, BarrierSpec, Barrier!Spec

=============================================================================
