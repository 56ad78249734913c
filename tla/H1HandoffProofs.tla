-------------------------- MODULE H1HandoffProofs --------------------------
(***************************************************************************)
(* Proofs about the H1 workflow of h1_paper_bridge.py and                  *)
(* h1_local_report_join.py, for any clients, processes, rules, terms and   *)
(* number of report revisions.                                             *)
(*                                                                         *)
(* The inductive invariant IInv has five parts.  ProposalInv binds what    *)
(* prepare() stores, or is about to store, to its client's intent.         *)
(* BrokerInv says that only claimed clients are routed, and that an order  *)
(* is executed in distinct units no more than its quantity.  JoinInv says  *)
(* of every report a process, the join or a handoff holds that the broker  *)
(* published it and did not reopen the order since.  ChainInv says that a  *)
(* resolved client is closed with the evidence of its last report, that    *)
(* one intent is open as soon as there is any, and that every intent not   *)
(* opened on an account snapshot is guarded and succeeds a resolved one.   *)
(*                                                                         *)
(* The last two need each other: the guarded claim of a successor is worth *)
(* something only if no other path creates an intent on a report revision, *)
(* and prepare() could, had it ever found the authority without an open    *)
(* intent and a report to read.                                            *)
(***************************************************************************)
EXTENDS H1HandoffProps, TLAPS

-----------------------------------------------------------------------------
(* The inductive invariant *)

\* An intent is bound to the terms and the revision of a proposal.
Binds(c, pr) ==
  /\ pr.client = c
  /\ intents[c] # NoRow
  /\ intents[c].terms = pr.terms
  /\ intents[c].source_revision = pr.source_revision

\* What a quarter of the account buys, or all of what it holds.
Sized(pr) ==
  IF pr.client.side = "buy" THEN pr.terms.quantity = pr.account.cash \div 4
  ELSE pr.terms.quantity = pr.account.units

ProposalInv ==
  /\ \A c \in ClientId : proposals[c] # NoRow => Binds(c, proposals[c]) /\ Sized(proposals[c])
  /\ \A p \in Process : admitting[p] # NoRow =>
       /\ admitting[p].client \in ClientId
       /\ Binds(admitting[p].client, admitting[p])
       /\ Sized(admitting[p])

Claimed(c) ==
  /\ intents[c] # NoRow
  /\ intents[c].state = "submission_unknown"
  /\ proposals[c] # NoRow

\* The fills of the broker: units, executed one by one, corrected or not.
Units(fills) ==
  /\ \A e \in fills : e.id \in {"e1", "e2"} /\ e.quantity = 1 /\ e.amount \in {1, 2}
  /\ \A e, f \in fills : e.id = f.id => e = f

BrokerInv ==
  /\ \A p \in Process, c \in ClientId : c \in claims[p] => Claimed(c)
  /\ \A c \in ClientId : file[c] # NoRow =>
       /\ Claimed(c)
       /\ file[c].client = c
       /\ Units(file[c].fills)
       /\ Filled(file[c].fills) <= proposals[c].terms.quantity

\* A report was published, and the broker has not reopened its order since.
Seen(r) ==
  /\ file[r.client] # NoRow
  /\ r.status \in Terminal => file[r.client].status \in Terminal

JoinInv ==
  /\ \A p \in Process : copy[p] # NoRow => Seen(copy[p])
  /\ \A p \in Process : handing[p] # NoRow =>
       Seen(handing[p]) /\ handing[p].status \in Terminal
  /\ \A c \in ClientId : h1orders[c] # NoRow =>
       /\ h1orders[c].client = c
       /\ Seen(h1orders[c])
       /\ h1orders[c].account = AccountAfter(proposals[c], h1orders[c].fills)
  /\ JournalIsReport

\* A resolved client is closed, with the evidence of its last report.
Settled(c) ==
  /\ intents[c] # NoRow
  /\ h1orders[c] # NoRow
  /\ h1orders[c].status \in Terminal
  /\ evidence[c] # NoRow
  /\ evidence[c].report = h1orders[c]

\* The parent of an intent that was not opened on an account snapshot.
Succeeds(d) ==
  LET r == intents[d].source_revision IN
  /\ r \in Report
  /\ resolutions[r.client] # NoRow
  /\ h1orders[r.client] = r
  /\ intents[d].claim_guard
  /\ proposals[d] # NoRow
  /\ proposals[d].account = r.account

ChainInv ==
  /\ \A c \in ClientId : resolutions[c] # NoRow => Settled(c)
  /\ OneOpenIntent
  /\ (\E c \in ClientId : intents[c] # NoRow) => Unresolved # {}
  /\ \A d \in ClientId :
       intents[d] # NoRow /\ intents[d].source_revision \notin OpeningRev => Succeeds(d)

IInv == TypeOK /\ ProposalInv /\ BrokerInv /\ JoinInv /\ ChainInv

-----------------------------------------------------------------------------
(* The sums of at most two fills *)

SumOf(k, fills) == MapThenSumSet(LAMBDA e : e[k], fills)

\* The library's fold over a set of at most two elements is their sum: the
\* recursive function it is defined by exists, and any such function agrees.
LEMMA SumOfTwo ==
  ASSUME NEW k, NEW a, NEW b, a # b, a[k] \in Nat, b[k] \in Nat,
         NEW fills \in SUBSET {a, b}
  PROVE  SumOf(k, fills) = (IF a \in fills THEN a[k] ELSE 0)
                         + (IF b \in fills THEN b[k] ELSE 0)
<1> DEFINE One(s, x) == IF x \in s THEN x[k] ELSE 0
           first(s) == CHOOSE x \in s : TRUE
           sum == [s \in SUBSET fills |-> One(s, a) + One(s, b)]
           Folds(g) == g = [s \in SUBSET fills |->
                IF s = {} THEN 0 ELSE first(s)[k] + g[s \ {first(s)}]]
<1>1. Folds(sum)
  <2> SUFFICES ASSUME NEW s \in SUBSET fills
               PROVE  sum[s] = IF s = {} THEN 0 ELSE first(s)[k] + sum[s \ {first(s)}]
    BY Zenon
  <2>1. CASE s = {}
    BY <2>1
  <2>2. CASE s # {}
    <3>1. first(s) \in s
      BY <2>2
    <3> HIDE DEF first
    <3>2. s \ {first(s)} \in SUBSET fills
      OBVIOUS
    <3>3. CASE first(s) = a
      <4>1. One(s, a) = a[k] /\ One(s \ {a}, a) = 0 /\ One(s \ {a}, b) = One(s, b)
        BY <3>1, <3>3
      <4>2. One(s, b) \in Nat
        OBVIOUS
      <4> HIDE DEF One
      <4> QED
        BY <2>2, <3>2, <3>3, <4>1, <4>2
    <3>4. CASE first(s) = b
      <4>1. One(s, b) = b[k] /\ One(s \ {b}, b) = 0 /\ One(s \ {b}, a) = One(s, a)
        BY <3>1, <3>4
      <4>2. One(s, a) \in Nat
        OBVIOUS
      <4> HIDE DEF One
      <4> QED
        BY <2>2, <3>2, <3>4, <4>1, <4>2
    <3> QED
      BY <3>1, <3>3, <3>4
  <2> QED
    BY <2>1, <2>2
<1>2. Folds(CHOOSE g : Folds(g))
  BY <1>1, Zenon
<1>3. SumOf(k, fills) = (CHOOSE g : Folds(g))[fills]
  BY DEF SumOf, MapThenSumSet, MapThenFoldSet
<1>4. PICK g : Folds(g) /\ SumOf(k, fills) = g[fills]
  BY <1>2, <1>3, Zenon
<1>5. \A s \in SUBSET fills :
        g[s] = IF s = {} THEN 0 ELSE first(s)[k] + g[s \ {first(s)}]
  BY <1>4
<1> HIDE DEF Folds
<1>6. g[{}] = 0
  BY <1>5
<1>7. \A s \in SUBSET fills : s # {} => first(s) \in s
  OBVIOUS
<1> HIDE DEF first
<1>8. a \in fills => g[{a}] = a[k]
  <2> SUFFICES ASSUME a \in fills PROVE g[{a}] = a[k]
    OBVIOUS
  <2>1. {a} \in SUBSET fills /\ {a} # {} /\ first({a}) = a /\ {a} \ {a} = {}
    BY <1>7
  <2>2. g[{a}] = a[k] + g[{}]
    BY <1>5, <2>1
  <2> QED
    BY <2>2, <1>6
<1>9. b \in fills => g[{b}] = b[k]
  <2> SUFFICES ASSUME b \in fills PROVE g[{b}] = b[k]
    OBVIOUS
  <2>1. {b} \in SUBSET fills /\ {b} # {} /\ first({b}) = b /\ {b} \ {b} = {}
    BY <1>7
  <2>2. g[{b}] = b[k] + g[{}]
    BY <1>5, <2>1
  <2> QED
    BY <2>2, <1>6
<1> QED
  <2>1. CASE fills = {}
    BY <2>1, <1>4, <1>6
  <2>2. CASE fills = {a}
    BY <2>2, <1>4, <1>8
  <2>3. CASE fills = {b}
    BY <2>3, <1>4, <1>9
  <2>4. CASE fills = {a, b}
    <3>1. a \in fills /\ b \in fills /\ fills # {} /\ first(fills) \in {a, b}
      BY <2>4, <1>7
    <3>2. g[fills] = first(fills)[k] + g[fills \ {first(fills)}]
      BY <1>5, <3>1
    <3>3. fills \ {a} = {b} /\ fills \ {b} = {a}
      BY <2>4
    <3>4. g[fills] = a[k] + b[k]
      <4>1. CASE first(fills) = a
        BY <4>1, <3>1, <3>2, <3>3, <1>9
      <4>2. CASE first(fills) = b
        <5>1. g[fills] = b[k] + a[k]
          BY <4>2, <3>1, <3>2, <3>3, <1>8
        <5> HIDE DEF first
        <5> QED
          BY <5>1, SMT
      <4> QED
        BY <4>1, <4>2, <3>1
    <3> QED
      BY <3>1, <3>4, <1>4
  <2> QED
    BY <2>1, <2>2, <2>3, <2>4

\* Of units with distinct names, one counts for each name that occurs, and a
\* unit costs at most 2.
LEMMA UnitSums ==
  ASSUME NEW fills, Units(fills)
  PROVE  /\ Filled(fills) = (IF \E e \in fills : e.id = "e1" THEN 1 ELSE 0)
                            + (IF \E e \in fills : e.id = "e2" THEN 1 ELSE 0)
         /\ Amount(fills) \in Nat
         /\ Amount(fills) <= 2 * Filled(fills)
<1> DEFINE Unit(e, id) == /\ e.id = id /\ e.quantity = 1 /\ e.amount \in {1, 2}
                          /\ \A f \in fills : f.id = id => f = e
<1>1. \A id \in {"e1", "e2"} : \E e : Unit(e, id)
  <2> SUFFICES ASSUME NEW id \in {"e1", "e2"} PROVE \E e : Unit(e, id)
    OBVIOUS
  <2>1. CASE \E e \in fills : e.id = id
    BY <2>1 DEF Units
  <2>2. CASE ~ \E e \in fills : e.id = id
    <3>1. Unit([id |-> id, quantity |-> 1, amount |-> 1], id)
      BY <2>2
    <3> QED
      BY <3>1
  <2> QED
    BY <2>1, <2>2
<1>2. PICK a : Unit(a, "e1")
  BY <1>1
<1>3. PICK b : Unit(b, "e2")
  BY <1>1
<1>4. a # b /\ fills \in SUBSET {a, b}
  BY <1>2, <1>3 DEF Units
<1>5. /\ a["quantity"] = 1 /\ b["quantity"] = 1
      /\ a["amount"] \in {1, 2} /\ b["amount"] \in {1, 2}
  BY <1>2, <1>3
<1>6. /\ a \in fills <=> \E e \in fills : e.id = "e1"
      /\ b \in fills <=> \E e \in fills : e.id = "e2"
  BY <1>2, <1>3
<1> HIDE DEF Unit
<1>7. Filled(fills) = SumOf("quantity", fills) /\ Amount(fills) = SumOf("amount", fills)
  BY DEF Filled, Amount, SumOf
<1>8. /\ a["quantity"] \in Nat /\ b["quantity"] \in Nat
      /\ a["amount"] \in Nat /\ b["amount"] \in Nat
  BY <1>5
<1>9. \A k \in {"quantity", "amount"} :
        SumOf(k, fills) = (IF a \in fills THEN a[k] ELSE 0) + (IF b \in fills THEN b[k] ELSE 0)
  <2> SUFFICES ASSUME NEW k \in {"quantity", "amount"}
               PROVE  SumOf(k, fills) = (IF a \in fills THEN a[k] ELSE 0)
                                        + (IF b \in fills THEN b[k] ELSE 0)
    OBVIOUS
  <2>1. a[k] \in Nat /\ b[k] \in Nat
    BY <1>8
  <2> QED
    BY <1>4, <2>1, SumOfTwo, Zenon
<1> QED
  BY <1>5, <1>6, <1>7, <1>9

-----------------------------------------------------------------------------
(* What callers present *)

\* A presented proposal is one prepare() would take, sized by its account.
LEMMA PresentedType ==
  ASSUME TypeOK
  PROVE  \A pr \in Presented :
           pr \in Proposal /\ Sized(pr) /\ \E rules \in Rules : ValidProposal(pr, rules)
<1> SUFFICES ASSUME NEW pr \in Presented
             PROVE  pr \in Proposal /\ Sized(pr) /\ \E rules \in Rules : ValidProposal(pr, rules)
  OBVIOUS
<1>1. PICK hour, account, rev :
        /\ pr \in ProposalsAt(hour, account, rev)
        /\ account \in Account
  <2>1. CASE \E rev \in OpeningRev : pr \in ProposalsAt(0, FirstAccount, rev)
    BY <2>1, AccountAssumption
  <2>2. CASE \E p \in Process : copy[p] # NoRow /\
               pr \in ProposalsAt(copy[p].client.hour + 1, copy[p].account, copy[p])
    <3>1. PICK p \in Process : copy[p] # NoRow /\
               pr \in ProposalsAt(copy[p].client.hour + 1, copy[p].account, copy[p])
      BY <2>2
    <3>2. copy[p] \in Report
      BY <3>1 DEF TypeOK
    <3> QED
      BY <3>1, <3>2 DEF Report
  <2> QED
    BY <2>1, <2>2 DEF Presented
<1>2. pr \in Proposal /\ \E rules \in Rules : ValidProposal(pr, rules)
  BY <1>1 DEF ProposalsAt, Proposal
<1> QED
  BY <1>2 DEF ValidProposal, Sized

\* A snapshot tells of a report and an account.
LEMMA ServedType ==
  ASSUME TypeOK
  PROVE  Served \subseteq Snapshot
<1> SUFFICES ASSUME NEW s \in Served PROVE s \in Snapshot
  OBVIOUS
<1>1. PICK p \in Process : /\ copy[p] # NoRow
        /\ s \in {[report |-> copy[p], account |-> a, token |-> k] :
            a \in {copy[p].account, [copy[p].account EXCEPT !.cash = @ + 1]}, k \in Token}
  BY DEF Served
<1>2. copy[p] \in Report /\ copy[p].account \in Account
  BY <1>1 DEF TypeOK, Report
<1>3. [copy[p].account EXCEPT !.cash = @ + 1] \in Account
  BY <1>2 DEF Account
<1> QED
  BY <1>1, <1>2, <1>3 DEF Snapshot

-----------------------------------------------------------------------------
(* What no step takes back *)

\* An intent keeps its terms, revision and rules, its guard and its claim.
IntentGrows(c) ==
  intents[c] # NoRow =>
    /\ intents'[c] # NoRow
    /\ intents'[c].terms = intents[c].terms
    /\ intents'[c].source_revision = intents[c].source_revision
    /\ intents[c].claim_guard => intents'[c].claim_guard
    /\ intents[c].state = "submission_unknown" => intents'[c].state = "submission_unknown"

FileGrows(c) ==
  file[c] # NoRow =>
    /\ file'[c] # NoRow
    /\ file[c].status \in Terminal => file'[c].status \in Terminal

Stays(c) ==
  /\ proposals[c] # NoRow => proposals'[c] = proposals[c]
  /\ resolutions[c] # NoRow =>
       /\ resolutions'[c] = resolutions[c]
       /\ h1orders'[c] = h1orders[c]
       /\ executions'[c] = executions[c]
       /\ evidence'[c] = evidence[c]

\* A row stays a row when one of its fields changes.
LEMMA RowStays ==
  ASSUME NEW row \in IntentRow
  PROVE  /\ row # NoRow
         /\ LET guarded == [row EXCEPT !.claim_guard = TRUE]
            IN  /\ guarded \in IntentRow
                /\ guarded.terms = row.terms
                /\ guarded.source_revision = row.source_revision
                /\ guarded.state = row.state
                /\ guarded.claim_guard
         /\ LET claimed == [row EXCEPT !.state = "submission_unknown"]
            IN  /\ claimed \in IntentRow
                /\ claimed.terms = row.terms
                /\ claimed.source_revision = row.source_revision
                /\ claimed.state = "submission_unknown"
                /\ claimed.claim_guard = row.claim_guard
BY NoRowAssumption DEF IntentRow

\* The two writes that change an intent leave it an intent.
LEMMA RowsTyped ==
  ASSUME NEW row \in IntentRow \union {NoRow}, row # NoRow
  PROVE  /\ [row EXCEPT !.claim_guard = TRUE] \in IntentRow
         /\ [row EXCEPT !.state = "submission_unknown"] \in IntentRow
<1>1. row \in IntentRow
  OBVIOUS
<1> QED
  BY <1>1 DEF IntentRow

\* A proposal of the policy gives an intent.
LEMMA NewRow ==
  ASSUME NEW pr \in Proposal, NEW rules \in Rules, NEW guard \in BOOLEAN
  PROVE  NewIntent(pr.terms, pr.source_revision, rules, guard) \in IntentRow
BY DEF Proposal, NewIntent, IntentRow

\* No step forgets an intent, changes what it is bound to, or takes back its
\* guard or its claim.
LEMMA IntentsGrow ==
  ASSUME TypeOK, [Next]_vars
  PROVE  \A c \in ClientId : IntentGrows(c)
<1> SUFFICES ASSUME NEW c \in ClientId, intents[c] # NoRow
             PROVE  IntentGrows(c)
  BY DEF IntentGrows
<1>0. intents[c] \in IntentRow /\ DOMAIN intents = ClientId
  BY DEF TypeOK, StoreTypeOK
<1>1. CASE Open
  <2>1. intents'[c] = intents[c] \/ intents'[c] = [intents[c] EXCEPT !.claim_guard = TRUE]
    BY <1>1 DEF Open, Initialize
  <2>2. CASE intents'[c] = intents[c]
    BY <2>2 DEF IntentGrows
  <2>3. CASE intents'[c] = [intents[c] EXCEPT !.claim_guard = TRUE]
    <3>1. intents[c] \in IntentRow /\ intents'[c] \in IntentRow /\ intents'[c] # NoRow
      BY <1>0, <2>3, RowStays, NoRowAssumption
    <3> QED
      BY <2>3, <3>1, RowStays DEF IntentGrows
  <2> QED
    BY <2>1, <2>2, <2>3
<1>2. ASSUME NEW p \in Process, NEW rules \in Rules, NEW pr \in Presented,
             AdmitIntent(p, pr, rules)
      PROVE  intents'[c] = intents[c]
  BY <1>0, <1>2 DEF AdmitIntent, Prepare, storeVars
<1>3. ASSUME NEW d, intents' = [intents EXCEPT ![d].state = "submission_unknown"]
      PROVE  IntentGrows(c)
  <2>1. intents'[c] = intents[c] \/ intents'[c] = [intents[c] EXCEPT !.state = "submission_unknown"]
    BY <1>0, <1>3
  <2>2. CASE intents'[c] = intents[c]
    BY <2>2 DEF IntentGrows
  <2>3. CASE intents'[c] = [intents[c] EXCEPT !.state = "submission_unknown"]
    <3>1. intents[c] \in IntentRow /\ intents'[c] \in IntentRow /\ intents'[c] # NoRow
      BY <1>0, <2>3, RowStays, NoRowAssumption
    <3> QED
      BY <2>3, <3>1, RowStays DEF IntentGrows
  <2> QED
    BY <2>1, <2>2, <2>3
<1>4. ASSUME NEW p \in Process, NEW rules \in Rules, NEW d \in ClientId, Claim(p, d, rules)
      PROVE  IntentGrows(c)
  BY <1>3, <1>4 DEF Claim, ClaimOnce
<1>5. ASSUME NEW p \in Process, NEW rules \in Rules, NEW d \in ClientId,
             NEW before, NEW after, ClaimAfterHandoff(p, d, rules, before, after)
      PROVE  IntentGrows(c)
  BY <1>3, <1>5 DEF ClaimAfterHandoff
<1>6. ASSUME NEW p \in Process, NEW rules \in Rules, NEW pr, NEW before, NEW after,
             FinishHandoff(p, pr, rules, before, after)
      PROVE  intents'[c] = intents[c]
  BY <1>0, <1>6 DEF FinishHandoff
<1>7. ASSUME NEW p \in Process, NEW d \in ClientId, NEW before, NEW after,
             \/ AdmitProposal(p) \/ Reconcile(p) \/ BeginHandoff(p) \/ Exit(p)
             \/ Route(p, d) \/ ReadReport(p, d) \/ LatchHold(p, d, before, after)
      PROVE  intents' = intents
  BY <1>7 DEF AdmitProposal, Reconcile, BeginHandoff, Exit, Route, ReadReport, LatchHold, storeVars
<1>8. ASSUME NEW d \in ClientId,
             BrokerFill(d) \/ BrokerCancel(d) \/ BrokerCorrect(d) \/ BrokerRestate(d)
      PROVE  intents' = intents
  BY <1>8 DEF BrokerFill, BrokerCancel, BrokerCorrect, BrokerRestate, Publish, storeVars
<1>9. CASE UNCHANGED vars
  BY <1>9 DEF vars, storeVars, IntentGrows
<1>10. intents'[c] = intents[c] => IntentGrows(c)
  BY DEF IntentGrows
<1> QED
  BY <1>1, <1>2, <1>4, <1>5, <1>6, <1>7, <1>8, <1>9, <1>10 DEF Next

-----------------------------------------------------------------------------
(* The broker *)

BrokerActs(c) == BrokerFill(c) \/ BrokerCancel(c) \/ BrokerCorrect(c) \/ BrokerRestate(c)

\* The report of c that replaces the one the broker has.
Replaces(c, r) ==
  /\ r \in Report
  /\ r.client = c
  /\ Units(r.fills)
  /\ Filled(r.fills) <= proposals[c].terms.quantity
  /\ file[c].status \in Terminal => r.status \in Terminal
  /\ file' = [file EXCEPT ![c] = r]

\* Units within the order's quantity leave the account above zero: a buy of a
\* quarter of the cash costs at most half of it, a sell is of units held.
LEMMA AccountAfterType ==
  ASSUME NEW pr \in Proposal, Sized(pr), NEW fills, Units(fills),
         Filled(fills) <= pr.terms.quantity
  PROVE  AccountAfter(pr, fills) \in Account
<1>1. /\ pr.account.cash \in Nat /\ pr.account.units \in Nat
      /\ pr.client.side \in {"buy", "sell"}
  BY ClientAssumption DEF Proposal, Account
<1>2. Filled(fills) \in Nat /\ Amount(fills) \in Nat /\ Amount(fills) <= 2 * Filled(fills)
  BY UnitSums
<1>3. CASE pr.client.side = "buy"
  <2>1. Amount(fills) <= pr.account.cash
    BY <1>1, <1>2, <1>3 DEF Sized
  <2> QED
    BY <1>1, <1>2, <1>3, <2>1 DEF AccountAfter, Account
<1>4. CASE pr.client.side # "buy"
  BY <1>1, <1>2, <1>4 DEF AccountAfter, Account, Sized
<1> QED
  BY <1>3, <1>4

\* A publication of units within the order replaces the report by another one.
LEMMA PublishReplaces ==
  ASSUME TypeOK, ProposalInv, BrokerInv, NEW c \in ClientId, file[c] # NoRow,
         NEW status \in {"Submitted", "PartiallyFilled", "Filled", "Canceled"},
         file[c].status \in Terminal => status \in Terminal,
         NEW fills \in SUBSET Fill, Units(fills),
         Filled(fills) <= proposals[c].terms.quantity,
         Publish(c, status, fills)
  PROVE  \E r : Replaces(c, r)
<1>1. /\ file[c] \in Report /\ file[c].client = c
      /\ proposals[c] \in Proposal /\ Sized(proposals[c])
  BY DEF TypeOK, ProposalInv, BrokerInv, Claimed
<1>2. AccountAfter(proposals[c], fills) \in Account
  BY <1>1, AccountAfterType
<1>3. [AccountAfter(proposals[c], fills) EXCEPT !.cash = @ + 1] \in Account
  BY <1>2 DEF Account
<1> DEFINE r(a) == [client |-> c, revision |-> file[c].revision + 1, status |-> status,
                    fills |-> fills, account |-> a]
<1>4. PICK a \in Account : file' = [file EXCEPT ![c] = r(a)]
  BY <1>2, <1>3 DEF Publish
<1>5. file[c].revision + 1 \in 1 .. MaxRevision
  BY <1>1, BoundAssumption DEF Publish, Report
<1>6. /\ r(a) \in Report /\ r(a).client = c /\ r(a).fills = fills /\ r(a).status = status
  BY <1>1, <1>5 DEF Report
<1> HIDE DEF r
<1> QED
  BY <1>4, <1>6 DEF Replaces

\* Whatever the broker does to an order, its next report has as many units
\* as the order allows, and a closed order stays closed.
LEMMA BrokerReplaces ==
  ASSUME TypeOK, ProposalInv, BrokerInv, NEW c \in ClientId, BrokerActs(c)
  PROVE  /\ file[c] # NoRow
         /\ \E r : Replaces(c, r)
         /\ UNCHANGED <<storeVars, h1Tables, local>>
<1>1. file[c] # NoRow /\ UNCHANGED <<storeVars, h1Tables, local>>
  BY DEF BrokerActs, BrokerFill, BrokerCancel, BrokerCorrect, BrokerRestate, Publish
<1>2. /\ file[c].fills \in SUBSET Fill /\ Units(file[c].fills)
      /\ Filled(file[c].fills) <= proposals[c].terms.quantity
      /\ file[c].status \in {"Submitted", "PartiallyFilled", "Filled", "Canceled"}
  BY <1>1 DEF TypeOK, Report, BrokerInv
<1>3. CASE BrokerFill(c)
  <2>1. PICK id \in {"e1", "e2"} \ {e.id : e \in file[c].fills} :
          LET fills == file[c].fills \union {[id |-> id, quantity |-> 1, amount |-> 1]} IN
          /\ Filled(fills) <= proposals[c].terms.quantity
          /\ Publish(c, IF Filled(fills) = proposals[c].terms.quantity
                          THEN "Filled" ELSE "PartiallyFilled", fills)
    BY <1>3 DEF BrokerFill
  <2> DEFINE fills == file[c].fills \union {[id |-> id, quantity |-> 1, amount |-> 1]}
  <2>2. fills \in SUBSET Fill /\ Units(fills)
    BY <1>2 DEF Fill, Units
  <2>3. file[c].status \notin Terminal
    BY <1>3 DEF BrokerFill
  <2> HIDE DEF fills
  <2>4. PICK status \in {"Filled", "PartiallyFilled"} : Publish(c, status, fills)
    BY <2>1 DEF fills
  <2>5. Filled(fills) <= proposals[c].terms.quantity
    BY <2>1 DEF fills
  <2>6. \E r : Replaces(c, r)
    BY <1>1, <2>2, <2>3, <2>4, <2>5, PublishReplaces
  <2> QED
    BY <1>1, <2>6
<1>4. CASE BrokerCancel(c)
  <2>1. Publish(c, "Canceled", file[c].fills)
    BY <1>4 DEF BrokerCancel
  <2>2. \E r : Replaces(c, r)
    BY <1>1, <1>2, <2>1, PublishReplaces DEF Terminal
  <2> QED
    BY <1>1, <2>2
<1>5. CASE BrokerCorrect(c)
  <2>1. PICK e \in file[c].fills :
          Publish(c, file[c].status, (file[c].fills \ {e}) \union {[e EXCEPT !.amount = 2]})
    BY <1>5 DEF BrokerCorrect
  <2> DEFINE corrected == [e EXCEPT !.amount = 2]
             fills == (file[c].fills \ {e}) \union {corrected}
  <2>2. /\ corrected \in Fill /\ corrected.id = e.id
        /\ corrected.quantity = e.quantity /\ corrected.amount = 2
    BY <1>2 DEF Fill
  <2> HIDE DEF corrected
  <2>3. fills \in SUBSET Fill /\ Units(fills)
    BY <1>2, <2>2 DEF Units
  <2>4. \A id : (\E f \in fills : f.id = id) <=> (\E f \in file[c].fills : f.id = id)
    BY <2>2
  <2>5. Filled(fills) = Filled(file[c].fills)
    <3> HIDE DEF fills
    <3> QED
      BY <1>2, <2>3, <2>4, UnitSums
  <2>6. Publish(c, file[c].status, fills)
    BY <2>1 DEF corrected
  <2> HIDE DEF fills
  <2>7. \E r : Replaces(c, r)
    BY <1>1, <1>2, <2>3, <2>5, <2>6, PublishReplaces
  <2> QED
    BY <1>1, <2>7
<1>6. CASE BrokerRestate(c)
  <2>1. Publish(c, file[c].status, file[c].fills)
    BY <1>6 DEF BrokerRestate
  <2>2. \E r : Replaces(c, r)
    BY <1>1, <1>2, <2>1, PublishReplaces
  <2> QED
    BY <1>1, <2>2
<1> QED
  BY <1>3, <1>4, <1>5, <1>6 DEF BrokerActs

-----------------------------------------------------------------------------
(* What a step of the workflow keeps *)

\* A report the join adopts is consistent with its client's proposal, its
\* fills become the journal, and a resolved client's report is the one it has.
LEMMA Adopted ==
  ASSUME IInv, NEW r \in Report, proposals[r.client] # NoRow,
         ReportConsistent(proposals[r.client], r),
         Adoptable(proposals[r.client], r), Adopt(r.client, r)
  PROVE  /\ r.client \in ClientId
         /\ h1orders' = [h1orders EXCEPT ![r.client] = r]
         /\ executions' = [executions EXCEPT ![r.client] = r.fills]
         /\ r.account = AccountAfter(proposals[r.client], r.fills)
         /\ resolutions[r.client] # NoRow =>
              h1orders[r.client] = r /\ executions[r.client] = r.fills
<1>1. r.client \in ClientId /\ proposals[r.client].client = r.client
  BY DEF Report, IInv, ProposalInv, Binds
<1>2. NextRevision(r.client, r) /\ executions[r.client] \subseteq r.fills
  BY <1>1 DEF Adoptable, JournalKept
<1>3. executions[r.client] \union r.fills = r.fills
  BY <1>2
<1>4. resolutions[r.client] # NoRow =>
        h1orders[r.client] = r /\ executions[r.client] = r.fills
  <2> SUFFICES ASSUME resolutions[r.client] # NoRow
               PROVE  h1orders[r.client] = r /\ executions[r.client] = r.fills
    OBVIOUS
  <2>1. h1orders[r.client] # NoRow
    BY <1>1 DEF IInv, ChainInv, Settled
  <2>2. h1orders[r.client] = r
    BY <1>2, <2>1 DEF NextRevision
  <2> QED
    BY <1>1, <2>1, <2>2 DEF IInv, JoinInv, JournalIsReport
<1>5. r.account = AccountAfter(proposals[r.client], r.fills)
  BY DEF ReportConsistent, AccountMatches
<1> QED
  BY <1>1, <1>3, <1>4, <1>5 DEF Adopt

\* The broker neither withdraws a report nor reopens a closed order.
LEMMA FilesGrow ==
  ASSUME IInv, [Next]_vars
  PROVE  \A c \in ClientId : FileGrows(c)
<1> SUFFICES ASSUME NEW c \in ClientId PROVE FileGrows(c)
  OBVIOUS
<1>0. file \in [ClientId -> Report \union {NoRow}] /\ TypeOK /\ ProposalInv /\ BrokerInv
  BY DEF IInv, TypeOK
<1>1. file' = file => FileGrows(c)
  BY DEF FileGrows
<1>2. ASSUME NEW p \in Process, NEW d \in ClientId, Route(p, d)
      PROVE  FileGrows(c)
  BY <1>0, <1>2 DEF Route, FileGrows
<1>3. ASSUME NEW d \in ClientId, BrokerActs(d)
      PROVE  FileGrows(c)
  <2>1. PICK r : Replaces(d, r)
    BY <1>0, <1>3, BrokerReplaces
  <2>2. file'[c] = IF c = d THEN r ELSE file[c]
    BY <1>0, <2>1 DEF Replaces
  <2>3. r # NoRow /\ (file[d].status \in Terminal => r.status \in Terminal)
    BY <2>1, AbsenceAssumption DEF Replaces
  <2> QED
    BY <2>2, <2>3 DEF FileGrows
<1>4. CASE Open \/ UNCHANGED vars
  BY <1>1, <1>4 DEF Open, vars
<1>5. ASSUME NEW p \in Process, NEW rules, NEW pr, NEW d, NEW before, NEW after,
             \/ AdmitIntent(p, pr, rules) \/ Claim(p, d, rules)
             \/ FinishHandoff(p, pr, rules, before, after)
             \/ ClaimAfterHandoff(p, d, rules, before, after)
             \/ AdmitProposal(p) \/ Reconcile(p) \/ BeginHandoff(p) \/ Exit(p)
             \/ ReadReport(p, d) \/ LatchHold(p, d, before, after)
      PROVE  file' = file
  BY <1>5 DEF AdmitIntent, Claim, FinishHandoff, ClaimAfterHandoff, AdmitProposal,
       Reconcile, BeginHandoff, Exit, ReadReport, LatchHold, local
<1> QED
  BY <1>1, <1>2, <1>3, <1>4, <1>5 DEF Next, BrokerActs

\* Stored proposals and what belongs to a resolved client do not change.
LEMMA RowsStay ==
  ASSUME IInv, [Next]_vars
  PROVE  \A c \in ClientId : Stays(c)
<1> SUFFICES ASSUME NEW c \in ClientId PROVE Stays(c)
  OBVIOUS
<1>0. /\ TypeOK /\ ProposalInv /\ BrokerInv
      /\ DOMAIN proposals = ClientId /\ DOMAIN resolutions = ClientId
      /\ DOMAIN evidence = ClientId /\ DOMAIN h1orders = ClientId
      /\ DOMAIN executions = ClientId
      /\ copy \in [Process -> Report \union {NoRow}]
  BY DEF IInv, TypeOK, StoreTypeOK
<1>1. UNCHANGED <<resolutions, h1Tables>> => Stays(c)
  BY DEF Stays, h1Tables
<1>2. ASSUME NEW p \in Process, AdmitProposal(p)
      PROVE  Stays(c)
  BY <1>0, <1>2 DEF AdmitProposal, Stays, storeVars
<1>3. ASSUME NEW p \in Process, Reconcile(p) \/ BeginHandoff(p)
      PROVE  Stays(c)
  <2>1. /\ copy[p] # NoRow /\ proposals[copy[p].client] # NoRow
        /\ ReportConsistent(proposals[copy[p].client], copy[p])
        /\ Adoptable(proposals[copy[p].client], copy[p])
        /\ Adopt(copy[p].client, copy[p])
        /\ UNCHANGED <<resolutions, proposals, evidence>>
    BY <1>3 DEF Reconcile, BeginHandoff, storeVars
  <2>2. PICK r \in Report : r = copy[p]
    BY <1>0, <2>1
  <2>3. /\ h1orders' = [h1orders EXCEPT ![r.client] = r]
        /\ executions' = [executions EXCEPT ![r.client] = r.fills]
        /\ resolutions[r.client] # NoRow =>
              h1orders[r.client] = r /\ executions[r.client] = r.fills
    BY <2>1, <2>2, Adopted
  <2> QED
    BY <1>0, <2>1, <2>3 DEF Stays
<1>4. ASSUME NEW p \in Process, NEW rules \in Rules, NEW next \in Presented,
             NEW before, NEW after, FinishHandoff(p, next, rules, before, after)
      PROVE  Stays(c)
  <2>1. next.client \in ClientId
    BY <1>0, PresentedType DEF Proposal
  <2>2. proposals[next.client] = NoRow
    BY <1>4, <2>1 DEF FinishHandoff, IInv, ProposalInv, Binds
  <2> QED
    BY <1>0, <1>4, <2>2 DEF FinishHandoff, Stays
<1>5. ASSUME NEW d \in ClientId, BrokerActs(d)
      PROVE  UNCHANGED <<resolutions, h1Tables>>
  BY <1>0, <1>5, BrokerReplaces DEF storeVars
<1>6. CASE Open \/ UNCHANGED vars
  BY <1>1, <1>6 DEF Open, Initialize, vars, storeVars
<1>7. ASSUME NEW p \in Process, NEW rules, NEW pr, NEW d, NEW before, NEW after,
             \/ AdmitIntent(p, pr, rules) \/ Claim(p, d, rules)
             \/ ClaimAfterHandoff(p, d, rules, before, after)
             \/ Exit(p) \/ Route(p, d) \/ ReadReport(p, d) \/ LatchHold(p, d, before, after)
      PROVE  UNCHANGED <<resolutions, h1Tables>>
  BY <1>7 DEF AdmitIntent, Prepare, Claim, ClaimOnce, ClaimAfterHandoff,
       Exit, Route, ReadReport, LatchHold, storeVars
<1> QED
  BY <1>1, <1>2, <1>3, <1>4, <1>5, <1>6, <1>7 DEF Next, BrokerActs

-----------------------------------------------------------------------------
(* Type correctness *)

\* Every step keeps the types.
LEMMA TypeStep ==
  ASSUME IInv, [Next]_vars
  PROVE  TypeOK'
<1>0. /\ TypeOK /\ ProposalInv /\ BrokerInv
      /\ intents \in [ClientId -> IntentRow \union {NoRow}]
      /\ resolutions \in [ClientId -> ResolutionRow \union {NoRow}]
      /\ proposals \in [ClientId -> Proposal \union {NoRow}]
      /\ h1orders \in [ClientId -> Report \union {NoRow}]
      /\ executions \in [ClientId -> SUBSET Fill]
      /\ evidence \in [ClientId -> Snapshot \union {NoRow}]
      /\ file \in [ClientId -> Report \union {NoRow}]
      /\ claims \in [Process -> SUBSET ClientId]
      /\ admitting \in [Process -> Proposal \union {NoRow}]
      /\ copy \in [Process -> Report \union {NoRow}]
      /\ handing \in [Process -> Report \union {NoRow}]
  BY DEF IInv, TypeOK, StoreTypeOK
<1>1. CASE Open
  <2>1. intents' \in [ClientId -> IntentRow \union {NoRow}]
    <3>1. \A c \in ClientId : intents[c] # NoRow =>
            [intents[c] EXCEPT !.claim_guard = TRUE] \in IntentRow
      BY <1>0, RowsTyped
    <3>2. intents' = [c \in ClientId |->
                   IF intents[c] # NoRow /\ intents[c].source_revision \in GuardedRev
                     THEN [intents[c] EXCEPT !.claim_guard = TRUE]
                     ELSE intents[c]]
      BY <1>1 DEF Open, Initialize
    <3> QED
      BY <1>0, <3>1, <3>2
  <2> QED
    BY <1>0, <1>1, <2>1 DEF Open, Initialize, TypeOK, StoreTypeOK, h1Tables, local
<1>2. ASSUME NEW p \in Process, NEW rules \in Rules, NEW pr \in Presented,
             AdmitIntent(p, pr, rules)
      PROVE  TypeOK'
  <2>1. pr \in Proposal /\ pr.client \in ClientId
    BY <1>0, PresentedType DEF Proposal
  <2>2. NewIntent(pr.terms, pr.source_revision, rules, FALSE) \in IntentRow
    BY <2>1, NewRow
  <2>3. intents' \in [ClientId -> IntentRow \union {NoRow}] /\ UNCHANGED <<resolutions, held>>
    <3>1. CASE Prepare(pr.client, pr.terms, pr.source_revision, rules)
      BY <1>0, <2>1, <2>2, <3>1 DEF Prepare
    <3>2. CASE UNCHANGED storeVars
      BY <1>0, <3>2 DEF storeVars
    <3> QED
      BY <1>2, <3>1, <3>2 DEF AdmitIntent
  <2>4. admitting' \in [Process -> Proposal \union {NoRow}]
    BY <1>0, <1>2, <2>1 DEF AdmitIntent
  <2> QED
    BY <1>0, <1>2, <2>3, <2>4 DEF AdmitIntent, TypeOK, StoreTypeOK, h1Tables
<1>3. ASSUME NEW d \in ClientId, intents[d] # NoRow,
             intents' = [intents EXCEPT ![d].state = "submission_unknown"]
      PROVE  intents' \in [ClientId -> IntentRow \union {NoRow}]
  <2>1. [intents[d] EXCEPT !.state = "submission_unknown"] \in IntentRow
    BY <1>0, <1>3, RowsTyped
  <2> QED
    BY <1>0, <1>3, <2>1
<1>4. ASSUME NEW p \in Process, NEW rules \in Rules, NEW c \in ClientId, Claim(p, c, rules)
      PROVE  TypeOK'
  <2>1. intents' \in [ClientId -> IntentRow \union {NoRow}]
    BY <1>3, <1>4 DEF Claim, ClaimOnce
  <2> QED
    BY <1>0, <1>4, <2>1 DEF Claim, ClaimOnce, TypeOK, StoreTypeOK, h1Tables
<1>5. ASSUME NEW p \in Process, NEW rules \in Rules, NEW d \in ClientId,
             NEW before \in Served, NEW after \in Served,
             ClaimAfterHandoff(p, d, rules, before, after)
      PROVE  TypeOK'
  <2>0. intents[d] # NoRow
    BY <1>5 DEF ClaimAfterHandoff, Observed, GuardedSuccessor
  <2>1. intents' \in [ClientId -> IntentRow \union {NoRow}]
    BY <1>3, <1>5, <2>0 DEF ClaimAfterHandoff
  <2> QED
    BY <1>0, <1>5, <2>1 DEF ClaimAfterHandoff, TypeOK, StoreTypeOK, h1Tables
<1>6. ASSUME NEW p \in Process, NEW rules \in Rules, NEW next \in Presented,
             NEW before \in Served, NEW after \in Served,
             FinishHandoff(p, next, rules, before, after)
      PROVE  TypeOK'
  <2>1. /\ next \in Proposal /\ next.client \in ClientId /\ before \in Snapshot
        /\ handing[p] \in Report /\ handing[p].client \in ClientId
        /\ handing[p].revision \in Nat \ {0}
    BY <1>0, <1>6, PresentedType, ServedType DEF Proposal, FinishHandoff, Report
  <2>2. NewIntent(next.terms, next.source_revision, rules, TRUE) \in IntentRow
    BY <2>1, NewRow
  <2>3. intents' \in [ClientId -> IntentRow \union {NoRow}]
    BY <1>0, <1>6, <2>1, <2>2 DEF FinishHandoff
  <2>4. intents[handing[p].client].source_revision \in Revision
    BY <1>0, <1>6, <2>1 DEF FinishHandoff, IntentRow
  <2>5. [source_revision |-> intents[handing[p].client].source_revision,
         final_report_revision |-> handing[p].revision] \in ResolutionRow
    BY <2>1, <2>4 DEF ResolutionRow
  <2>6. resolutions' \in [ClientId -> ResolutionRow \union {NoRow}]
    BY <1>0, <1>6, <2>5 DEF FinishHandoff
  <2>7. /\ evidence' \in [ClientId -> Snapshot \union {NoRow}]
        /\ proposals' \in [ClientId -> Proposal \union {NoRow}]
        /\ handing' \in [Process -> Report \union {NoRow}]
    BY <1>0, <1>6, <2>1 DEF FinishHandoff
  <2> QED
    BY <1>0, <1>6, <2>3, <2>6, <2>7 DEF FinishHandoff, TypeOK, StoreTypeOK
<1>7. ASSUME NEW p \in Process, AdmitProposal(p)
      PROVE  TypeOK'
  BY <1>0, <1>7 DEF AdmitProposal, TypeOK, StoreTypeOK, storeVars
<1>8. ASSUME NEW p \in Process, Reconcile(p) \/ BeginHandoff(p)
      PROVE  TypeOK'
  <2>1. /\ copy[p] \in Report /\ copy[p].fills \in SUBSET Fill
        /\ Adopt(copy[p].client, copy[p])
    BY <1>0, <1>8 DEF Reconcile, BeginHandoff, Report
  <2>2. /\ h1orders' \in [ClientId -> Report \union {NoRow}]
        /\ executions' \in [ClientId -> SUBSET Fill]
    BY <1>0, <2>1 DEF Adopt
  <2>3. handing' \in [Process -> Report \union {NoRow}]
    BY <1>0, <1>8, <2>1 DEF Reconcile, BeginHandoff, local
  <2> QED
    BY <1>0, <1>8, <2>2, <2>3 DEF Reconcile, BeginHandoff, TypeOK, StoreTypeOK, storeVars, local
<1>9. ASSUME NEW p \in Process, NEW c \in ClientId, Route(p, c)
      PROVE  TypeOK'
  <2>1. proposals[c] \in Proposal /\ proposals[c].account \in Account
    BY <1>0, <1>9 DEF Route, BrokerInv, Claimed, Proposal
  <2>2. [client |-> c, revision |-> 1, status |-> "Submitted",
         fills |-> {}, account |-> proposals[c].account] \in Report
    BY <2>1, BoundAssumption DEF Report
  <2>3. file' \in [ClientId -> Report \union {NoRow}]
    BY <1>0, <1>9, <2>2 DEF Route
  <2>4. claims' \in [Process -> SUBSET ClientId]
    BY <1>0, <1>9 DEF Route
  <2> QED
    BY <1>0, <1>9, <2>3, <2>4 DEF Route, TypeOK, StoreTypeOK, storeVars, h1Tables
<1>10. ASSUME NEW c \in ClientId, BrokerActs(c)
       PROVE  TypeOK'
  <2>1. PICK r : Replaces(c, r)
    BY <1>0, <1>10, BrokerReplaces
  <2>2. file' \in [ClientId -> Report \union {NoRow}]
    BY <1>0, <2>1 DEF Replaces
  <2>3. UNCHANGED <<storeVars, h1Tables, local>>
    BY <1>0, <1>10, BrokerReplaces
  <2> QED
    BY <1>0, <2>2, <2>3 DEF TypeOK, StoreTypeOK, storeVars, h1Tables, local
<1>11. ASSUME NEW p \in Process, NEW c \in ClientId, ReadReport(p, c)
       PROVE  TypeOK'
  BY <1>0, <1>11 DEF ReadReport, TypeOK, StoreTypeOK, storeVars, h1Tables
<1>12. ASSUME NEW p \in Process, Exit(p)
       PROVE  TypeOK'
  BY <1>0, <1>12 DEF Exit, TypeOK, StoreTypeOK, storeVars, h1Tables
<1>13. ASSUME NEW p \in Process, NEW d \in ClientId, NEW before, NEW after,
              LatchHold(p, d, before, after)
       PROVE  TypeOK'
  BY <1>0, <1>13 DEF LatchHold, TypeOK, StoreTypeOK, h1Tables, local
<1>14. CASE UNCHANGED vars
  BY <1>0, <1>14 DEF vars, TypeOK, StoreTypeOK, storeVars, h1Tables, local
<1> QED
  BY <1>1, <1>2, <1>4, <1>5, <1>6, <1>7, <1>8, <1>9, <1>10, <1>11, <1>12, <1>13, <1>14
     DEF Next, BrokerActs

-----------------------------------------------------------------------------
(* Proposals and the broker *)

\* An intent stays bound to the proposal it was created from.
LEMMA BindsStay ==
  ASSUME NEW c \in ClientId, NEW pr, IntentGrows(c), Binds(c, pr)
  PROVE  Binds(c, pr)'
BY DEF IntentGrows, Binds

\* Every step keeps proposals, stored or about to be, bound to their intents.
LEMMA ProposalStep ==
  ASSUME IInv, [Next]_vars
  PROVE  ProposalInv'
<1>0. /\ TypeOK /\ ProposalInv /\ BrokerInv /\ DOMAIN proposals = ClientId
      /\ DOMAIN intents = ClientId /\ DOMAIN admitting = Process
      /\ \A c \in ClientId : IntentGrows(c)
  BY IntentsGrow DEF IInv, TypeOK, StoreTypeOK
<1> DEFINE Stored(c, pr) == Binds(c, pr) /\ Sized(pr)
<1>1. \A c \in ClientId : proposals[c] # NoRow => Stored(c, proposals[c])'
        \/ proposals'[c] # proposals[c]
  BY <1>0, BindsStay DEF ProposalInv, Sized
<1>2. \A p \in Process : admitting[p] # NoRow =>
        /\ admitting[p].client \in ClientId
        /\ Binds(admitting[p].client, admitting[p])' \/ admitting'[p] # admitting[p]
        /\ Sized(admitting[p])
  BY <1>0, BindsStay DEF ProposalInv
<1>3. (UNCHANGED <<proposals, admitting>>) => ProposalInv'
  BY <1>1, <1>2 DEF ProposalInv, Sized
<1>4. ASSUME NEW p \in Process, NEW rules \in Rules, NEW pr \in Presented,
             AdmitIntent(p, pr, rules)
      PROVE  ProposalInv'
  <2>1. pr \in Proposal /\ pr.client \in ClientId /\ Sized(pr)
    BY <1>0, PresentedType DEF Proposal
  <2>2. /\ intents'[pr.client] # NoRow
        /\ intents'[pr.client].terms = pr.terms
        /\ intents'[pr.client].source_revision = pr.source_revision
    <3>1. CASE Prepare(pr.client, pr.terms, pr.source_revision, rules)
      <4>1. intents'[pr.client] = NewIntent(pr.terms, pr.source_revision, rules, FALSE)
        BY <1>0, <2>1, <3>1 DEF Prepare
      <4>2. NewIntent(pr.terms, pr.source_revision, rules, FALSE) \in IntentRow
        BY <2>1, NewRow
      <4>3. intents'[pr.client] # NoRow
        BY <4>1, <4>2, NoRowAssumption
      <4> QED
        BY <4>1, <4>3 DEF NewIntent
    <3>2. CASE /\ PrepareReplays(pr.client, pr.terms, pr.source_revision, rules)
               /\ UNCHANGED storeVars
      BY <3>2 DEF PrepareReplays, SameIntent, storeVars
    <3> QED
      BY <1>4, <3>1, <3>2 DEF AdmitIntent
  <2>3. Binds(pr.client, pr)'
    BY <2>2 DEF Binds
  <2>4. proposals' = proposals /\ admitting' = [admitting EXCEPT ![p] = pr]
    BY <1>4 DEF AdmitIntent, h1Tables
  <2> QED
    BY <1>0, <1>1, <1>2, <2>1, <2>3, <2>4 DEF ProposalInv, Sized
<1>5. ASSUME NEW p \in Process, AdmitProposal(p)
      PROVE  ProposalInv'
  <2>0. PICK pr : pr = admitting[p]
    OBVIOUS
  <2>1. /\ pr # NoRow /\ pr.client \in ClientId /\ Sized(pr)
        /\ \A c \in ClientId : proposals'[c] = IF c = pr.client /\ proposals[c] = NoRow
                                                 THEN pr ELSE proposals[c]
        /\ \A q \in Process : admitting'[q] = IF q = p THEN NoRow ELSE admitting[q]
        /\ intents' = intents
    BY <1>0, <1>2, <1>5, <2>0 DEF AdmitProposal, storeVars
  <2>2. Binds(pr.client, pr) /\ Binds(pr.client, pr)'
    BY <1>0, <2>0, <2>1 DEF ProposalInv, Binds
  <2> QED
    BY <1>1, <1>2, <2>1, <2>2 DEF ProposalInv, Sized
<1>6. ASSUME NEW p \in Process, NEW rules \in Rules, NEW next \in Presented,
             NEW before, NEW after, FinishHandoff(p, next, rules, before, after)
      PROVE  ProposalInv'
  <2>1. next \in Proposal /\ next.client \in ClientId /\ Sized(next)
    BY <1>0, PresentedType DEF Proposal
  <2>2. intents'[next.client] = NewIntent(next.terms, next.source_revision, rules, TRUE)
    BY <1>0, <1>6, <2>1 DEF FinishHandoff
  <2>3. NewIntent(next.terms, next.source_revision, rules, TRUE) # NoRow
    BY <2>1, NewRow, NoRowAssumption
  <2>4. Binds(next.client, next)'
    BY <2>2, <2>3 DEF Binds, NewIntent
  <2>5. /\ \A c \in ClientId : proposals'[c] = IF c = next.client THEN next ELSE proposals[c]
        /\ admitting' = admitting
    BY <1>0, <1>6 DEF FinishHandoff
  <2> QED
    BY <1>1, <1>2, <2>1, <2>4, <2>5 DEF ProposalInv, Sized
<1>7. ASSUME NEW p \in Process, Exit(p)
      PROVE  ProposalInv'
  <2>1. /\ \A q \in Process : admitting'[q] = IF q = p THEN NoRow ELSE admitting[q]
        /\ proposals' = proposals
    BY <1>0, <1>7 DEF Exit, h1Tables
  <2> QED
    BY <1>1, <1>2, <2>1 DEF ProposalInv, Sized
<1>8. ASSUME NEW d \in ClientId, BrokerActs(d)
       PROVE  UNCHANGED <<proposals, admitting>>
  BY <1>0, <1>8, BrokerReplaces DEF local, h1Tables
<1>9. ASSUME NEW p \in Process, NEW rules, NEW d, NEW before, NEW after,
             \/ Claim(p, d, rules) \/ ClaimAfterHandoff(p, d, rules, before, after)
             \/ Reconcile(p) \/ BeginHandoff(p) \/ Route(p, d) \/ ReadReport(p, d)
             \/ LatchHold(p, d, before, after)
      PROVE  UNCHANGED <<proposals, admitting>>
  BY <1>9 DEF Claim, ClaimAfterHandoff, Reconcile, BeginHandoff,
       Route, ReadReport, LatchHold, local, h1Tables
<1>10. CASE Open \/ UNCHANGED vars
  BY <1>3, <1>10 DEF Open, vars, local, h1Tables
<1> QED
  BY <1>3, <1>4, <1>5, <1>6, <1>7, <1>8, <1>9, <1>10 DEF Next, BrokerActs

\* Every step keeps the broker within what was claimed and proposed.
LEMMA BrokerStep ==
  ASSUME IInv, [Next]_vars
  PROVE  BrokerInv'
<1>0. /\ TypeOK /\ ProposalInv /\ BrokerInv
      /\ file \in [ClientId -> Report \union {NoRow}]
      /\ claims \in [Process -> SUBSET ClientId]
      /\ DOMAIN intents = ClientId
      /\ \A c \in ClientId : IntentGrows(c) /\ Stays(c)
  BY IntentsGrow, RowsStay DEF IInv, TypeOK, StoreTypeOK
<1> DEFINE Working(c, r) == /\ r.client = c
                            /\ Units(r.fills)
                            /\ Filled(r.fills) <= proposals[c].terms.quantity
<1>1. \A c \in ClientId : Claimed(c) => Claimed(c)' /\ proposals'[c] = proposals[c]
  BY <1>0 DEF Claimed, IntentGrows, Stays
<1>2. \A c \in ClientId : file[c] # NoRow => Claimed(c)' /\ Working(c, file[c])
  BY <1>0, <1>1 DEF BrokerInv
<1>3. \A c \in ClientId : file[c] # NoRow => proposals'[c] = proposals[c]
  BY <1>0, <1>1 DEF BrokerInv
<1>4. ASSUME \A p \in Process, c \in ClientId : c \in claims'[p] \ claims[p] => Claimed(c)',
             \A c \in ClientId : file'[c] # NoRow => file'[c] = file[c]
      PROVE  BrokerInv'
  <2>1. \A p \in Process, c \in ClientId : c \in claims'[p] => Claimed(c)'
    BY <1>0, <1>1, <1>4 DEF BrokerInv
  <2>2. ASSUME NEW c \in ClientId, file'[c] # NoRow
        PROVE  /\ Claimed(c)' /\ file'[c].client = c /\ Units(file'[c].fills)
               /\ Filled(file'[c].fills) <= proposals'[c].terms.quantity
    BY <1>2, <1>3, <1>4, <2>2
  <2> QED
    BY <2>1, <2>2 DEF BrokerInv
<1>5. ASSUME NEW d \in ClientId, NEW r, Working(d, r), Claimed(d),
             file' = [file EXCEPT ![d] = r],
             \A p \in Process : claims'[p] \subseteq claims[p]
      PROVE  BrokerInv'
  <2>1. \A p \in Process, c \in ClientId : c \in claims'[p] => Claimed(c)'
    BY <1>0, <1>1, <1>5 DEF BrokerInv
  <2>2. ASSUME NEW c \in ClientId, file'[c] # NoRow
        PROVE  /\ Claimed(c)' /\ file'[c].client = c /\ Units(file'[c].fills)
               /\ Filled(file'[c].fills) <= proposals'[c].terms.quantity
    <3>1. CASE c = d
      <4>1. file'[c] = r
        BY <1>0, <1>5, <3>1
      <4> QED
        BY <1>1, <1>5, <3>1, <4>1
    <3>2. CASE c # d
      <4>1. file'[c] = file[c]
        BY <1>0, <1>5, <3>2
      <4> QED
        BY <1>2, <1>3, <2>2, <4>1
    <3> QED
      BY <3>1, <3>2
  <2> QED
    BY <2>1, <2>2 DEF BrokerInv
<1> HIDE DEF Working
<1>6. ASSUME NEW p \in Process, NEW rules \in Rules, NEW c \in ClientId, Claim(p, c, rules)
      PROVE  BrokerInv'
  <2>1. intents'[c].state = "submission_unknown" /\ proposals'[c] # NoRow
    BY <1>0, <1>6, RowStays DEF Claim, ClaimOnce, h1Tables, TypeOK, StoreTypeOK
  <2>2. Claimed(c)'
    BY <1>0, <1>6, <2>1 DEF Claim, ClaimOnce, IntentGrows, Claimed
  <2> QED
    BY <1>0, <1>4, <1>6, <2>2 DEF Claim
<1>7. ASSUME NEW p \in Process, NEW rules \in Rules, NEW d \in ClientId,
             NEW before, NEW after, ClaimAfterHandoff(p, d, rules, before, after)
      PROVE  BrokerInv'
  <2>0. intents[d] # NoRow /\ proposals[d] # NoRow
    BY <1>7 DEF ClaimAfterHandoff, Observed, GuardedSuccessor
  <2>1. intents'[d].state = "submission_unknown" /\ proposals'[d] # NoRow
    BY <1>0, <1>7, <2>0, RowStays DEF ClaimAfterHandoff, h1Tables, TypeOK, StoreTypeOK
  <2>2. Claimed(d)'
    BY <1>0, <2>0, <2>1 DEF IntentGrows, Claimed
  <2> QED
    BY <1>0, <1>4, <1>7, <2>2 DEF ClaimAfterHandoff
<1>8. ASSUME NEW p \in Process, NEW c \in ClientId, Route(p, c)
      PROVE  BrokerInv'
  <2>1. Claimed(c) /\ \A q \in Process : claims'[q] \subseteq claims[q]
    BY <1>0, <1>8 DEF Route, BrokerInv
  <2>2. CASE file[c] = NoRow
    <3> DEFINE r == [client |-> c, revision |-> 1, status |-> "Submitted",
                     fills |-> {}, account |-> proposals[c].account]
    <3>1. Filled({}) = 0
      BY UnitSums DEF Units
    <3>2. proposals[c].terms.quantity \in Nat
      <4>1. /\ Sized(proposals[c]) /\ proposals[c].account.cash \in Nat
            /\ proposals[c].account.units \in Nat
        BY <1>0, <2>1 DEF ProposalInv, Claimed, TypeOK, Proposal, Account
      <4> QED
        BY <4>1 DEF Sized
    <3>3. Working(c, r)
      BY <3>1, <3>2 DEF Working, Units
    <3>4. file' = [file EXCEPT ![c] = r]
      BY <1>8, <2>2 DEF Route
    <3> HIDE DEF r
    <3> QED
      BY <1>5, <2>1, <3>3, <3>4
  <2>3. CASE file[c] # NoRow
    BY <1>4, <1>8, <2>1, <2>3 DEF Route
  <2> QED
    BY <2>2, <2>3
<1>9. ASSUME NEW c \in ClientId, BrokerActs(c)
      PROVE  BrokerInv'
  <2>1. file[c] # NoRow /\ claims' = claims
    BY <1>0, <1>9, BrokerReplaces DEF local
  <2>2. PICK r : Replaces(c, r)
    BY <1>0, <1>9, BrokerReplaces
  <2>3. Claimed(c)
    BY <1>0, <2>1 DEF BrokerInv
  <2> QED
    BY <1>5, <2>1, <2>2, <2>3 DEF Replaces, Working
<1>10. ASSUME NEW p \in Process, NEW rules, NEW pr, NEW d, NEW before, NEW after,
             \/ AdmitIntent(p, pr, rules) \/ FinishHandoff(p, pr, rules, before, after)
             \/ AdmitProposal(p) \/ Reconcile(p) \/ BeginHandoff(p) \/ Exit(p)
             \/ ReadReport(p, d) \/ LatchHold(p, d, before, after)
      PROVE  BrokerInv'
  <2>1. file' = file /\ (claims' = claims \/ claims' = [claims EXCEPT ![p] = {}])
    BY <1>10 DEF AdmitIntent, FinishHandoff, AdmitProposal, Reconcile, BeginHandoff,
         Exit, ReadReport, LatchHold, local
  <2> QED
    BY <1>0, <1>4, <2>1
<1>11. CASE Open \/ UNCHANGED vars
  BY <1>4, <1>11 DEF Open, vars, local
<1> QED
  BY <1>6, <1>7, <1>8, <1>9, <1>10, <1>11 DEF Next, BrokerActs

-----------------------------------------------------------------------------
(* Reports, the journal and the chain of handoffs *)

\* What Seen says of a report after the step.
SeenNext(r) ==
  /\ file'[r.client] # NoRow
  /\ r.status \in Terminal => file'[r.client].status \in Terminal

\* What the broker published stays published, and closed if it was.
LEMMA SeenStays ==
  ASSUME NEW r, FileGrows(r.client), Seen(r)
  PROVE  SeenNext(r)
BY DEF FileGrows, Seen, SeenNext

\* Every step keeps what the join accepted consistent with the proposals and
\* the journal.
LEMMA JoinStep ==
  ASSUME IInv, [Next]_vars
  PROVE  JoinInv'
<1>0. /\ TypeOK /\ ProposalInv /\ BrokerInv /\ JoinInv
      /\ file \in [ClientId -> Report \union {NoRow}]
      /\ copy \in [Process -> Report \union {NoRow}]
      /\ handing \in [Process -> Report \union {NoRow}]
      /\ h1orders \in [ClientId -> Report \union {NoRow}]
      /\ DOMAIN executions = ClientId
      /\ \A c \in ClientId : FileGrows(c) /\ Stays(c)
      /\ \A r \in Report : r # NoRow /\ r.client \in ClientId
  BY FilesGrow, RowsStay, AbsenceAssumption DEF IInv, TypeOK, Report
<1>1. /\ \A p \in Process : copy[p] # NoRow => SeenNext(copy[p])
           \/ copy'[p] # copy[p]
      /\ \A p \in Process : handing[p] # NoRow =>
           (SeenNext(handing[p]) \/ handing'[p] # handing[p]) /\ handing[p].status \in Terminal
  <2>1. \A r \in Report : Seen(r) => SeenNext(r)
    BY <1>0, SeenStays
  <2>2. ASSUME NEW p \in Process, copy[p] # NoRow, copy'[p] = copy[p]
        PROVE  SeenNext(copy[p])
    <3>1. PICK r \in Report : r = copy[p] /\ r = copy'[p]
      BY <1>0, <2>2
    <3>2. SeenNext(r)
      BY <1>0, <2>1, <2>2, <3>1 DEF JoinInv
    <3> QED
      BY <3>1, <3>2
  <2>3. ASSUME NEW p \in Process, handing[p] # NoRow, handing'[p] = handing[p]
        PROVE  SeenNext(handing[p])
    <3>1. PICK r \in Report : r = handing[p] /\ r = handing'[p]
      BY <1>0, <2>3
    <3>2. SeenNext(r)
      BY <1>0, <2>1, <2>3, <3>1 DEF JoinInv
    <3> QED
      BY <3>1, <3>2
  <2> QED
    BY <1>0, <2>2, <2>3 DEF JoinInv
<1> DEFINE Journaled(c) ==
      /\ h1orders'[c] # NoRow =>
           /\ h1orders'[c].client = c
           /\ SeenNext(h1orders'[c])
           /\ h1orders'[c].account = AccountAfter(proposals'[c], h1orders'[c].fills)
      /\ executions'[c] = IF h1orders'[c] = NoRow THEN {} ELSE h1orders'[c].fills
<1>2. \A c \in ClientId : h1orders[c] # NoRow => proposals'[c] = proposals[c]
  BY <1>0 DEF JoinInv, Seen, BrokerInv, Claimed, Stays
<1>3. ASSUME NEW c \in ClientId, h1orders'[c] = h1orders[c], executions'[c] = executions[c]
      PROVE  Journaled(c)
  <2>1. executions[c] = IF h1orders[c] = NoRow THEN {} ELSE h1orders[c].fills
    BY <1>0 DEF JoinInv, JournalIsReport
  <2>2. CASE h1orders[c] = NoRow
    BY <1>3, <2>1, <2>2
  <2>3. CASE h1orders[c] # NoRow
    <3>1. PICK r \in Report : r = h1orders[c] /\ r = h1orders'[c]
      BY <1>0, <1>3, <2>3
    <3>2. /\ r.client = c /\ Seen(r) /\ r.account = AccountAfter(proposals[c], r.fills)
      BY <1>0, <2>3, <3>1 DEF JoinInv
    <3>3. SeenNext(r)
      BY <1>0, <3>2, SeenStays
    <3>4. r.account = AccountAfter(proposals'[c], r.fills)
      BY <1>2, <2>3, <3>2
    <3> QED
      BY <1>0, <1>3, <2>1, <3>1, <3>2, <3>3, <3>4
  <2> QED
    BY <2>2, <2>3
<1>4. ASSUME \A c \in ClientId : Journaled(c),
             \A p \in Process : copy'[p] # NoRow => SeenNext(copy'[p]),
             \A p \in Process : handing'[p] # NoRow =>
               SeenNext(handing'[p]) /\ handing'[p].status \in Terminal
      PROVE  JoinInv'
  BY <1>4 DEF JoinInv, JournalIsReport, Seen, SeenNext
<1> HIDE DEF Journaled
<1>5. ASSUME NEW p \in Process, Reconcile(p) \/ BeginHandoff(p)
      PROVE  JoinInv'
  <2>1. /\ copy[p] # NoRow /\ proposals[copy[p].client] # NoRow
        /\ ReportConsistent(proposals[copy[p].client], copy[p])
        /\ Adoptable(proposals[copy[p].client], copy[p])
        /\ Adopt(copy[p].client, copy[p])
        /\ proposals' = proposals /\ copy' = copy /\ file' = file
    BY <1>5 DEF Reconcile, BeginHandoff, local
  <2>2. PICK r \in Report : r = copy[p]
    BY <1>0, <2>1
  <2>3. /\ h1orders' = [h1orders EXCEPT ![r.client] = r]
        /\ executions' = [executions EXCEPT ![r.client] = r.fills]
        /\ r.account = AccountAfter(proposals[r.client], r.fills)
    BY <2>1, <2>2, Adopted
  <2>4. Seen(r) /\ SeenNext(r)
    BY <1>0, <2>1, <2>2, SeenStays DEF JoinInv
  <2>5. Journaled(r.client)
    <3>1. h1orders'[r.client] = r /\ executions'[r.client] = r.fills
      BY <1>0, <2>3
    <3> QED
      BY <1>0, <2>1, <2>3, <2>4, <3>1 DEF Journaled
  <2>6. \A c \in ClientId : c # r.client => Journaled(c)
    BY <1>0, <1>3, <2>3
  <2>7. \A q \in Process : copy'[q] # NoRow => SeenNext(copy'[q])
    BY <1>1, <2>1
  <2>8. \A q \in Process : handing'[q] # NoRow =>
               SeenNext(handing'[q]) /\ handing'[q].status \in Terminal
    <3>1. \A q \in Process : \/ handing'[q] \in {handing[q], NoRow}
                             \/ handing'[q] = r /\ r.status \in Terminal
      BY <1>0, <1>5, <2>2 DEF Reconcile, BeginHandoff, local
    <3> QED
      BY <1>1, <2>4, <3>1
  <2> QED
    BY <1>4, <2>5, <2>6, <2>7, <2>8
<1>6. ASSUME UNCHANGED <<h1orders, executions>>,
             \A p \in Process : copy'[p] # NoRow =>
               copy'[p] = copy[p] \/ SeenNext(copy'[p]),
             \A p \in Process : handing'[p] \in {handing[p], NoRow}
      PROVE  JoinInv'
  <2>1. \A c \in ClientId : Journaled(c)
    BY <1>3, <1>6
  <2>2. \A p \in Process : copy'[p] # NoRow => SeenNext(copy'[p])
    BY <1>1, <1>6
  <2>3. \A p \in Process : handing'[p] # NoRow =>
               SeenNext(handing'[p]) /\ handing'[p].status \in Terminal
    BY <1>1, <1>6
  <2> QED
    BY <1>4, <2>1, <2>2, <2>3
<1>7. ASSUME NEW p \in Process, NEW c \in ClientId, ReadReport(p, c)
      PROVE  JoinInv'
  <2>1. PICK r \in Report : r = file[c] /\ r.client = c
    BY <1>0, <1>7 DEF ReadReport, BrokerInv
  <2>2. SeenNext(r)
    BY <1>0, <1>7, <2>1, SeenStays DEF Seen, ReadReport
  <2>3. \A q \in Process : copy'[q] = copy[q] \/ copy'[q] = r
    BY <1>0, <1>7, <2>1 DEF ReadReport
  <2>4. \A q \in Process : copy'[q] # NoRow => copy'[q] = copy[q] \/ SeenNext(copy'[q])
    BY <2>2, <2>3
  <2> QED
    BY <1>0, <1>6, <1>7, <2>4 DEF ReadReport, h1Tables
<1>8. ASSUME NEW d \in ClientId, BrokerActs(d)
      PROVE  JoinInv'
  <2>1. UNCHANGED <<h1Tables, local>>
    BY <1>0, <1>8, BrokerReplaces
  <2> QED
    BY <1>6, <2>1 DEF h1Tables, local
<1>9. ASSUME NEW p \in Process, NEW rules, NEW pr, NEW d, NEW before, NEW after,
             \/ AdmitIntent(p, pr, rules) \/ Claim(p, d, rules)
             \/ FinishHandoff(p, pr, rules, before, after)
             \/ ClaimAfterHandoff(p, d, rules, before, after)
             \/ AdmitProposal(p) \/ Exit(p) \/ Route(p, d) \/ LatchHold(p, d, before, after)
      PROVE  JoinInv'
  <2>1. /\ UNCHANGED <<h1orders, executions>>
        /\ copy' = copy \/ copy' = [copy EXCEPT ![p] = NoRow]
        /\ handing' = handing \/ handing' = [handing EXCEPT ![p] = NoRow]
    BY <1>9 DEF AdmitIntent, Claim, FinishHandoff, ClaimAfterHandoff, AdmitProposal,
         Exit, Route, LatchHold, local, h1Tables
  <2> QED
    BY <1>0, <1>6, <2>1
<1>10. CASE Open \/ UNCHANGED vars
  <2>1. UNCHANGED <<h1Tables, local>>
    BY <1>10 DEF Open, vars
  <2> QED
    BY <1>6, <2>1 DEF h1Tables, local
<1> QED
  BY <1>5, <1>7, <1>8, <1>9, <1>10 DEF Next, BrokerActs

-----------------------------------------------------------------------------
(* One open intent, and the handoffs *)

\* The tables of intents and resolutions keep their rows, and their guards.
SameClients ==
  /\ \A c \in ClientId : (intents'[c] # NoRow <=> intents[c] # NoRow)
  /\ resolutions' = resolutions

\* The first intent of an empty authority.
Admits(c) ==
  /\ \A d \in ClientId : intents[d] = NoRow /\ (intents'[d] # NoRow <=> d = c)
  /\ intents'[c].source_revision \in OpeningRev
  /\ resolutions' = resolutions

\* The one open client c is resolved with its closed report, and d replaces it.
HandsOver(c, d) ==
  /\ Unresolved = {c}
  /\ intents[d] = NoRow
  /\ \A e \in ClientId : (intents'[e] # NoRow <=> intents[e] # NoRow \/ e = d)
  /\ \A e \in ClientId : (resolutions'[e] # NoRow <=> resolutions[e] # NoRow \/ e = c)
  /\ h1orders[c] \in Report
  /\ h1orders[c].client = c
  /\ h1orders[c].status \in Terminal
  /\ file[c] # NoRow
  /\ h1orders' = h1orders
  /\ evidence'[c] # NoRow
  /\ evidence'[c].report = h1orders[c]
  /\ intents'[d].source_revision = h1orders[c]
  /\ intents'[d].claim_guard
  /\ proposals'[d] # NoRow
  /\ proposals'[d].account = h1orders[c].account

\* Without an open intent there is no intent at all: a client is resolved only
\* together with the admission of its successor.  Then nobody has read a
\* report, and what is presented opens on an account snapshot.
LEMMA OnlyOpenings ==
  ASSUME IInv, Unresolved = {}
  PROVE  /\ \A c \in ClientId : intents[c] = NoRow
         /\ \A pr \in Presented : pr.source_revision \in OpeningRev
<1>1. \A c \in ClientId : intents[c] = NoRow
  BY DEF IInv, ChainInv
<1>2. \A c \in ClientId : file[c] = NoRow
  BY <1>1 DEF IInv, BrokerInv, Claimed
<1>3. \A p \in Process : copy[p] = NoRow
  <2> SUFFICES ASSUME NEW p \in Process, copy[p] # NoRow PROVE FALSE
    OBVIOUS
  <2>1. copy[p].client \in ClientId /\ Seen(copy[p])
    BY DEF IInv, TypeOK, JoinInv, Report
  <2> QED
    BY <1>2, <2>1 DEF Seen
<1>4. ASSUME NEW pr \in Presented PROVE pr.source_revision \in OpeningRev
  <2>1. PICK rev \in OpeningRev : pr \in ProposalsAt(0, FirstAccount, rev)
    BY <1>3 DEF Presented
  <2> QED
    BY <2>1 DEF ProposalsAt
<1> QED
  BY <1>1, <1>4

\* prepare() creates an intent in an empty authority only.
LEMMA PrepareAdmits ==
  ASSUME IInv, NEW pr \in Presented, NEW rules \in Rules,
         Prepare(pr.client, pr.terms, pr.source_revision, rules)
  PROVE  pr.client \in ClientId /\ Admits(pr.client)
<1>1. pr \in Proposal /\ pr.client \in ClientId /\ DOMAIN intents = ClientId
  BY PresentedType DEF Proposal, IInv, TypeOK, StoreTypeOK
<1>2. (\A c \in ClientId : intents[c] = NoRow) /\ pr.source_revision \in OpeningRev
  BY OnlyOpenings DEF Prepare
<1> DEFINE row == NewIntent(pr.terms, pr.source_revision, rules, FALSE)
<1>3. row # NoRow /\ row.source_revision = pr.source_revision
  <2>1. row \in IntentRow
    BY <1>1, NewRow
  <2> QED
    BY <2>1, NoRowAssumption DEF NewIntent
<1>4. intents' = [intents EXCEPT ![pr.client] = row] /\ resolutions' = resolutions
  BY DEF Prepare
<1> HIDE DEF row
<1> QED
  BY <1>1, <1>2, <1>3, <1>4 DEF Admits

\* The second part of handoff() is a hand-over.
LEMMA FinishHandsOver ==
  ASSUME IInv, NEW p \in Process, NEW rules \in Rules, NEW next \in Presented,
         NEW before \in Served, NEW after \in Served,
         FinishHandoff(p, next, rules, before, after)
  PROVE  /\ handing[p].client \in ClientId
         /\ next.client \in ClientId
         /\ HandsOver(handing[p].client, next.client)
<1>1. /\ next \in Proposal /\ next.client \in ClientId
      /\ handing[p] \in Report /\ handing[p].client \in ClientId
      /\ DOMAIN intents = ClientId /\ DOMAIN resolutions = ClientId
      /\ DOMAIN evidence = ClientId /\ DOMAIN proposals = ClientId
  BY PresentedType DEF Proposal, FinishHandoff, IInv, TypeOK, StoreTypeOK, Report
<1>2. PICK r \in Report : r = handing[p]
  BY <1>1
<1>3. PICK c \in ClientId : c = r.client
  BY <1>1, <1>2
<1>4. PICK d \in ClientId : d = next.client
  BY <1>1
<1>5. Seen(r) /\ r.status \in Terminal
  BY <1>2 DEF IInv, JoinInv, FinishHandoff
<1>6. /\ h1orders[c] = r /\ intents[c] # NoRow /\ resolutions[c] = NoRow
      /\ intents[d] = NoRow /\ Unresolved \subseteq {c}
      /\ next.source_revision = r /\ next.account = r.account
      /\ before.report = r
      /\ h1orders' = h1orders
  BY <1>2, <1>3, <1>4 DEF FinishHandoff, Successor, StableSnapshot
<1>7. Unresolved = {c}
  BY <1>6 DEF Unresolved
<1> DEFINE row == NewIntent(next.terms, next.source_revision, rules, TRUE)
           resolution == [source_revision |-> intents[c].source_revision,
                          final_report_revision |-> r.revision]
<1>8. row # NoRow /\ row.source_revision = r /\ row.claim_guard
  <2>1. row \in IntentRow
    BY <1>1, NewRow
  <2> QED
    BY <1>6, <2>1, NoRowAssumption DEF NewIntent
<1>9. resolution # NoRow
  <2>1. intents[c].source_revision \in Revision /\ r.revision \in Nat \ {0}
    BY <1>6 DEF IInv, TypeOK, StoreTypeOK, IntentRow, Report
  <2>2. resolution \in ResolutionRow
    BY <2>1 DEF ResolutionRow
  <2> QED
    BY <2>2, NoRowAssumption
<1>10. before # NoRow /\ next # NoRow
  <2>1. before \in Snapshot
    BY <1>1, ServedType DEF FinishHandoff, IInv
  <2> QED
    BY <1>1, <2>1, AbsenceAssumption
<1>11. /\ intents' = [intents EXCEPT ![d] = row]
       /\ resolutions' = [resolutions EXCEPT ![c] = resolution]
       /\ evidence' = [evidence EXCEPT ![c] = before]
       /\ proposals' = [proposals EXCEPT ![d] = next]
  BY <1>2, <1>3, <1>4 DEF FinishHandoff
<1> HIDE DEF row, resolution
<1>12. /\ intents'[d] = row /\ evidence'[c] = before /\ proposals'[d] = next
       /\ \A e \in ClientId : intents'[e] = IF e = d THEN row ELSE intents[e]
       /\ \A e \in ClientId : resolutions'[e] = IF e = c THEN resolution ELSE resolutions[e]
  BY <1>1, <1>11
<1>13. HandsOver(c, d)
  BY <1>3, <1>5, <1>6, <1>7, <1>8, <1>9, <1>10, <1>12 DEF HandsOver, Seen
<1> QED
  BY <1>1, <1>2, <1>3, <1>4, <1>13

\* Every step leaves the clients and their resolutions alone, admits the very
\* first client, or hands over from the open client to a new one.
LEMMA ClientSteps ==
  ASSUME IInv, [Next]_vars
  PROVE  \/ SameClients
         \/ \E c \in ClientId : Admits(c)
         \/ \E c, d \in ClientId : HandsOver(c, d)
<1>0. /\ TypeOK /\ ProposalInv /\ BrokerInv
      /\ intents \in [ClientId -> IntentRow \union {NoRow}]
  BY DEF IInv, TypeOK, StoreTypeOK
<1>1. UNCHANGED <<intents, resolutions>> => SameClients
  BY DEF SameClients
<1>2. CASE Open
  <2>1. \A c \in ClientId : intents[c] # NoRow =>
          [intents[c] EXCEPT !.claim_guard = TRUE] # NoRow
    BY <1>0, RowsTyped, NoRowAssumption
  <2> QED
    BY <1>2, <2>1 DEF Open, Initialize, SameClients
<1>3. ASSUME NEW d \in ClientId, intents[d] # NoRow,
             intents' = [intents EXCEPT ![d].state = "submission_unknown"],
             resolutions' = resolutions
      PROVE  SameClients
  <2>1. [intents[d] EXCEPT !.state = "submission_unknown"] # NoRow
    BY <1>0, <1>3, RowsTyped, NoRowAssumption
  <2> QED
    BY <1>0, <1>3, <2>1 DEF SameClients
<1>4. ASSUME NEW p \in Process, NEW rules \in Rules, NEW c \in ClientId, Claim(p, c, rules)
      PROVE  SameClients
  BY <1>3, <1>4 DEF Claim, ClaimOnce
<1>5. ASSUME NEW p \in Process, NEW rules \in Rules, NEW d \in ClientId,
             NEW before \in Served, NEW after \in Served,
             ClaimAfterHandoff(p, d, rules, before, after)
      PROVE  SameClients
  BY <1>3, <1>5 DEF ClaimAfterHandoff, Observed, GuardedSuccessor
<1>6. ASSUME NEW p \in Process, NEW rules \in Rules, NEW pr \in Presented,
             AdmitIntent(p, pr, rules)
      PROVE  SameClients \/ \E c \in ClientId : Admits(c)
  <2>1. CASE Prepare(pr.client, pr.terms, pr.source_revision, rules)
    BY <2>1, PrepareAdmits
  <2>2. CASE UNCHANGED storeVars
    BY <1>1, <2>2 DEF storeVars
  <2> QED
    BY <1>6, <2>1, <2>2 DEF AdmitIntent
<1>7. ASSUME NEW p \in Process, NEW rules \in Rules, NEW next \in Presented,
             NEW before \in Served, NEW after \in Served,
             FinishHandoff(p, next, rules, before, after)
      PROVE  \E c, d \in ClientId : HandsOver(c, d)
  BY <1>7, FinishHandsOver
<1>8. ASSUME NEW p \in Process, NEW d, NEW before, NEW after,
             \/ AdmitProposal(p) \/ Reconcile(p) \/ BeginHandoff(p) \/ Exit(p)
             \/ Route(p, d) \/ ReadReport(p, d) \/ LatchHold(p, d, before, after)
      PROVE  UNCHANGED <<intents, resolutions>>
  BY <1>8 DEF AdmitProposal, Reconcile, BeginHandoff, Exit, Route, ReadReport,
       LatchHold, storeVars
<1>9. ASSUME NEW d \in ClientId, BrokerActs(d)
      PROVE  UNCHANGED <<intents, resolutions>>
  BY <1>0, <1>9, BrokerReplaces DEF storeVars
<1>10. CASE UNCHANGED vars
  BY <1>1, <1>10 DEF vars, storeVars
<1> QED
  BY <1>1, <1>2, <1>4, <1>5, <1>6, <1>7, <1>8, <1>9, <1>10 DEF Next, BrokerActs

\* Every step keeps one open intent, the settled parents and the chain.
LEMMA ChainStep ==
  ASSUME IInv, [Next]_vars
  PROVE  ChainInv'
<1>0. /\ ChainInv /\ \A c \in ClientId : IntentGrows(c) /\ Stays(c)
  BY IntentsGrow, RowsStay DEF IInv
<1>1. \A c \in ClientId : resolutions[c] # NoRow => Settled(c)'
  BY <1>0 DEF ChainInv, Settled, Stays, IntentGrows
<1>2. ASSUME NEW d \in ClientId, intents[d] # NoRow,
             intents'[d].source_revision \notin OpeningRev
      PROVE  Succeeds(d)'
  <2>1. /\ intents'[d].source_revision = intents[d].source_revision
        /\ intents[d].claim_guard => intents'[d].claim_guard
    BY <1>0, <1>2 DEF IntentGrows
  <2>2. Succeeds(d)
    BY <1>0, <1>2, <2>1 DEF ChainInv
  <2>3. intents[d].source_revision.client \in ClientId
    BY <2>2 DEF Succeeds, Report
  <2> QED
    BY <1>0, <2>1, <2>2, <2>3 DEF Succeeds, Stays
<1>3. CASE SameClients
  <2>1. Unresolved' = Unresolved
    BY <1>3 DEF SameClients, Unresolved
  <2>2. (\E c \in ClientId : intents'[c] # NoRow) => Unresolved' # {}
    BY <1>0, <1>3, <2>1 DEF ChainInv, SameClients
  <2>3. OneOpenIntent'
    BY <1>0, <1>3 DEF ChainInv, SameClients, OneOpenIntent
  <2> QED
    BY <1>1, <1>2, <1>3, <2>2, <2>3 DEF ChainInv, SameClients
<1>4. CASE \E c \in ClientId : Admits(c)
  <2>1. PICK c \in ClientId : Admits(c)
    BY <1>4
  <2>2. resolutions[c] = NoRow
    BY <1>0, <2>1 DEF Admits, ChainInv, Settled
  <2>3. Unresolved' = {c}
    BY <2>1, <2>2 DEF Admits, Unresolved
  <2>4. OneOpenIntent'
    BY <2>1 DEF Admits, OneOpenIntent
  <2>5. \A d \in ClientId : intents'[d] # NoRow => intents'[d].source_revision \in OpeningRev
    BY <2>1 DEF Admits
  <2> QED
    BY <1>1, <2>1, <2>3, <2>4, <2>5 DEF ChainInv, Admits
<1>5. CASE \E c, d \in ClientId : HandsOver(c, d)
  <2>1. PICK c \in ClientId, d \in ClientId : HandsOver(c, d)
    BY <1>5
  <2>2. intents[c] # NoRow /\ resolutions[d] = NoRow /\ c # d
    BY <1>0, <2>1 DEF HandsOver, ChainInv, Settled, Unresolved
  <2>3. Settled(c)'
    BY <1>0, <2>1, <2>2, AbsenceAssumption DEF HandsOver, Settled, IntentGrows
  <2>4. \A e \in ClientId : intents'[e] # NoRow /\ resolutions'[e] = NoRow <=> e = d
    BY <2>1, <2>2 DEF HandsOver, Unresolved
  <2>5. OneOpenIntent' /\ Unresolved' = {d}
    BY <2>4 DEF OneOpenIntent, Unresolved
  <2>6. Succeeds(d)'
    BY <2>1 DEF HandsOver, Succeeds
  <2>7. \A e \in ClientId : resolutions'[e] # NoRow => Settled(e)'
    BY <1>1, <2>1, <2>3 DEF HandsOver
  <2>8. \A e \in ClientId :
          intents'[e] # NoRow /\ intents'[e].source_revision \notin OpeningRev => Succeeds(e)'
    BY <1>2, <2>1, <2>6 DEF HandsOver
  <2> QED
    BY <2>5, <2>7, <2>8 DEF ChainInv
<1> QED
  BY <1>3, <1>4, <1>5, ClientSteps

-----------------------------------------------------------------------------
(* The theorems *)

\* The inductive invariant holds of every behaviour.
THEOREM Inductive == Spec => []IInv
<1>1. Init => IInv
  <2> SUFFICES ASSUME Init PROVE IInv
    OBVIOUS
  <2>1. TypeOK
    BY DEF Init, StoreInit, TypeOK, StoreTypeOK
  <2>2. ProposalInv /\ BrokerInv /\ JoinInv
    BY DEF Init, ProposalInv, BrokerInv, JoinInv, JournalIsReport
  <2>3. ChainInv
    BY DEF Init, StoreInit, ChainInv, OneOpenIntent
  <2> QED
    BY <2>1, <2>2, <2>3 DEF IInv
<1>2. IInv /\ [Next]_vars => IInv'
  <2> SUFFICES ASSUME IInv, [Next]_vars PROVE IInv'
    OBVIOUS
  <2> QED
    BY TypeStep, ProposalStep, BrokerStep, JoinStep, ChainStep DEF IInv
<1> QED
  BY <1>1, <1>2, PTL DEF Spec

\* The tables, the report files and what the processes hold keep their types:
\* no fill drives the account of a report below zero.
THEOREM TypeCorrect == Spec => []TypeOK
<1>1. IInv => TypeOK
  BY DEF IInv
<1> QED
  BY <1>1, Inductive, PTL

\* A stored proposal and its client's intent tell of the same order, although
\* prepare() writes them in two transactions.
THEOREM ProposalBindsIntentHolds == Spec => []ProposalBindsIntent
<1>1. IInv => ProposalBindsIntent
  BY DEF IInv, ProposalInv, Binds, ProposalBindsIntent
<1> QED
  BY <1>1, Inductive, PTL

\* The journal of executions of h1_local_report_join.py, into which rows are
\* only inserted, is exactly the accepted report's.
THEOREM JournalIsReportHolds == Spec => []JournalIsReport
<1>1. IInv => JournalIsReport
  BY DEF IInv, JoinInv
<1> QED
  BY <1>1, Inductive, PTL

\* The broker works one order at a time.
THEOREM OneWorkingOrderHolds == Spec => []OneWorkingOrder
<1>1. IInv => OneWorkingOrder
  <2> SUFFICES ASSUME IInv PROVE OneWorkingOrder
    OBVIOUS
  <2>1. ASSUME NEW c \in ClientId, file[c] # NoRow,
               file[c].status \in {"Submitted", "PartiallyFilled"}
        PROVE  intents[c] # NoRow /\ resolutions[c] = NoRow
    <3>1. intents[c] # NoRow /\ file[c].status \notin Terminal
      BY <2>1 DEF IInv, BrokerInv, Claimed, Terminal
    <3>2. resolutions[c] # NoRow => file[c].status \in Terminal
      BY DEF IInv, ChainInv, Settled, JoinInv, Seen
    <3> QED
      BY <3>1, <3>2
  <2> QED
    BY <2>1 DEF IInv, ChainInv, OneOpenIntent, OneWorkingOrder
<1> QED
  BY <1>1, Inductive, PTL

\* A successor opens on the account its parent's journal leads to.
THEOREM AccountChainHolds == Spec => []AccountChain
<1>1. IInv => AccountChain
  <2> SUFFICES ASSUME IInv, NEW c \in ClientId, NEW d \in ClientId,
                      intents[d] # NoRow, h1orders[c] # NoRow,
                      resolutions[c] # NoRow,
                      intents[d].source_revision = h1orders[c]
               PROVE  /\ proposals[d] # NoRow
                      /\ proposals[d].account = AccountAfter(proposals[c], executions[c])
    BY DEF AccountChain
  <2>1. h1orders[c] \in Report
    BY DEF IInv, TypeOK
  <2>2. Succeeds(d)
    BY <2>1, RevisionAssumption DEF IInv, ChainInv
  <2>3. /\ h1orders[c].account = AccountAfter(proposals[c], h1orders[c].fills)
        /\ executions[c] = h1orders[c].fills
    BY DEF IInv, JoinInv, JournalIsReport
  <2> QED
    BY <2>2, <2>3 DEF Succeeds
<1> QED
  BY <1>1, Inductive, PTL

\* No caller replaces a proposal once it is stored.
THEOREM ProposalStoredOnceHolds == Spec => ProposalStoredOnce
<1>1. IInv /\ [Next]_vars =>
        [\A c \in ClientId : proposals[c] # NoRow => proposals'[c] = proposals[c]]_vars
  BY RowsStay DEF Stays
<1> QED
  BY <1>1, Inductive, PTL DEF Spec, ProposalStoredOnce

\* A resolved client's report, journal and evidence are final.
THEOREM ResolvedIsSettledHolds == Spec => ResolvedIsSettled
<1>1. IInv /\ [Next]_vars =>
        [\A c \in ClientId : resolutions[c] # NoRow =>
           /\ resolutions'[c] = resolutions[c]
           /\ h1orders'[c] = h1orders[c]
           /\ executions'[c] = executions[c]
           /\ evidence'[c] = evidence[c]]_vars
  BY RowsStay DEF Stays
<1> QED
  BY <1>1, Inductive, PTL DEF Spec, ResolvedIsSettled

\* After the hold nothing is prepared, claimed or resolved.
THEOREM HoldIsFinalHolds == Spec => HoldIsFinal
<1>1. ASSUME IInv, [Next]_vars, held
      PROVE  /\ held'
             /\ resolutions' = resolutions
             /\ \A c \in ClientId : StateOf(c)' = StateOf(c)
  <2>0. /\ TypeOK /\ ProposalInv /\ BrokerInv
        /\ intents \in [ClientId -> IntentRow \union {NoRow}]
    BY <1>1 DEF IInv, TypeOK, StoreTypeOK
  <2>1. UNCHANGED <<intents, resolutions>> =>
          resolutions' = resolutions /\ \A c \in ClientId : StateOf(c)' = StateOf(c)
    BY DEF StateOf
  <2>2. CASE Open
    <3>1. /\ held' = held /\ resolutions' = resolutions
          /\ \A c \in ClientId :
               intents'[c] = intents[c] \/ (intents[c] # NoRow /\
                 intents'[c] = [intents[c] EXCEPT !.claim_guard = TRUE])
      BY <2>2 DEF Open, Initialize
    <3>2. ASSUME NEW c \in ClientId, intents[c] # NoRow,
                 intents'[c] = [intents[c] EXCEPT !.claim_guard = TRUE]
          PROVE  intents'[c] # NoRow /\ intents'[c].state = intents[c].state
      <4>1. intents[c] \in IntentRow
        BY <2>0, <3>2
      <4> QED
        BY <3>2, <4>1, NoRowAssumption DEF IntentRow
    <3>3. \A c \in ClientId : StateOf(c)' = StateOf(c)
      BY <3>1, <3>2 DEF StateOf
    <3> QED
      BY <1>1, <3>1, <3>3
  <2>3. ASSUME NEW p \in Process, NEW rules, NEW pr, AdmitIntent(p, pr, rules)
        PROVE  UNCHANGED <<intents, resolutions, held>>
    BY <1>1, <2>3 DEF AdmitIntent, Prepare, storeVars
  <2>4. ASSUME NEW p \in Process, NEW rules, NEW pr, NEW d, NEW before, NEW after,
               \/ Claim(p, d, rules) \/ FinishHandoff(p, pr, rules, before, after)
               \/ ClaimAfterHandoff(p, d, rules, before, after)
               \/ LatchHold(p, d, before, after)
        PROVE  FALSE
    BY <1>1, <2>4 DEF Claim, ClaimOnce, FinishHandoff, ClaimAfterHandoff, LatchHold,
         Observed, GuardedSuccessor
  <2>5. ASSUME NEW p \in Process, NEW d,
               \/ AdmitProposal(p) \/ Reconcile(p) \/ BeginHandoff(p) \/ Exit(p)
               \/ Route(p, d) \/ ReadReport(p, d)
        PROVE  UNCHANGED <<intents, resolutions, held>>
    BY <2>5 DEF AdmitProposal, Reconcile, BeginHandoff, Exit, Route, ReadReport, storeVars
  <2>6. ASSUME NEW d \in ClientId, BrokerActs(d)
        PROVE  UNCHANGED <<intents, resolutions, held>>
    BY <2>0, <2>6, BrokerReplaces DEF storeVars
  <2>7. CASE UNCHANGED vars
    BY <1>1, <2>1, <2>7 DEF vars, storeVars
  <2> QED
    BY <1>1, <2>1, <2>2, <2>3, <2>4, <2>5, <2>6, <2>7 DEF Next, BrokerActs
<1>2. IInv /\ [Next]_vars =>
        [held => /\ held'
                 /\ resolutions' = resolutions
                 /\ \A c \in ClientId : StateOf(c)' = StateOf(c)]_vars
  BY <1>1
<1> QED
  BY <1>2, Inductive, PTL DEF Spec, HoldIsFinal

\* A claim on a successor is obtained only from its parent's unchanged report
\* and snapshot: claim_once() refuses the guard, and the other way re-reads.
THEOREM SuccessorClaimedOnFreshEvidenceHolds == Spec => SuccessorClaimedOnFreshEvidence
<1> DEFINE Fresh(p, d) ==
      \E c \in ClientId :
        /\ resolutions[c] # NoRow
        /\ evidence[c] # NoRow
        /\ copy[p] = h1orders[c]
        /\ copy[p] = evidence[c].report
        /\ copy[p].status \in {"Filled", "Canceled"}
        /\ intents[d].source_revision = copy[p]
<1>1. ASSUME IInv, [Next]_vars, NEW p \in Process, NEW d \in ClientId,
             d \in claims'[p] \ claims[p],
             intents[d].source_revision \notin OpeningRev
      PROVE  Fresh(p, d)
  <2>0. TypeOK /\ ProposalInv /\ BrokerInv /\ claims \in [Process -> SUBSET ClientId]
    BY <1>1 DEF IInv, TypeOK
  <2>1. ASSUME NEW q \in Process, NEW rules \in Rules, NEW c \in ClientId, Claim(q, c, rules)
        PROVE  FALSE
    <3>1. c = d
      BY <1>1, <2>0, <2>1 DEF Claim
    <3>2. intents[d] # NoRow /\ ~intents[d].claim_guard
      BY <2>1, <3>1 DEF Claim, ClaimOnce
    <3> QED
      BY <1>1, <3>2 DEF IInv, ChainInv, Succeeds
  <2>2. ASSUME NEW q \in Process, NEW rules \in Rules, NEW e \in ClientId,
               NEW before \in Served, NEW after \in Served,
               ClaimAfterHandoff(q, e, rules, before, after)
        PROVE  Fresh(p, d)
    <3>1. e = d /\ q = p
      BY <1>1, <2>0, <2>2 DEF ClaimAfterHandoff
    <3>2. Observed(d, copy[p], before, after) = "fresh"
      BY <2>2, <3>1 DEF ClaimAfterHandoff
    <3>3. Parents(d) # {}
      BY <3>2 DEF Observed, GuardedSuccessor
    <3>4. PICK c \in Parents(d) : /\ copy[p] = h1orders[c]
                                  /\ StableSnapshot(before, after, copy[p])
                                  /\ before = evidence[c]
      BY <3>2, <3>3 DEF Observed
    <3>5. /\ c \in ClientId /\ resolutions[c] # NoRow /\ evidence[c] # NoRow
          /\ h1orders[c] = intents[d].source_revision
      BY <3>4 DEF Parents
    <3>6. evidence[c].report = copy[p] /\ copy[p].status \in {"Filled", "Canceled"}
      BY <1>1, <3>4, <3>5 DEF IInv, ChainInv, Settled, Terminal
    <3> QED
      BY <3>4, <3>5, <3>6
  <2>3. ASSUME NEW q \in Process, NEW rules, NEW pr, NEW c, NEW before, NEW after,
             \/ AdmitIntent(q, pr, rules) \/ FinishHandoff(q, pr, rules, before, after)
             \/ AdmitProposal(q) \/ Reconcile(q) \/ BeginHandoff(q) \/ Exit(q)
             \/ Route(q, c) \/ ReadReport(q, c) \/ LatchHold(q, c, before, after)
        PROVE  \A o \in Process : claims'[o] \subseteq claims[o]
    BY <2>0, <2>3 DEF AdmitIntent, FinishHandoff, AdmitProposal, Reconcile, BeginHandoff,
         Exit, Route, ReadReport, LatchHold, local
  <2>4. ASSUME NEW c \in ClientId, BrokerActs(c)
        PROVE  claims' = claims
    BY <2>0, <2>4, BrokerReplaces DEF local
  <2>5. CASE Open \/ UNCHANGED vars
    BY <1>1, <2>5 DEF Open, vars, local
  <2> QED
    BY <1>1, <2>1, <2>2, <2>3, <2>4, <2>5 DEF Next, BrokerActs
<1>2. IInv /\ [Next]_vars =>
        [\A p \in Process, d \in ClientId :
           /\ d \in claims'[p] \ claims[p]
           /\ intents[d].source_revision \notin OpeningRev
           => Fresh(p, d)]_vars
  BY <1>1
<1> QED
  BY <1>2, Inductive, PTL DEF Spec, SuccessorClaimedOnFreshEvidence

\* The H1 workflow implements the submission barrier of the paper authority.
THEOREM Refinement == Spec => BarrierSpec
<1> DEFINE sent == {c \in ClientId : file[c] # NoRow}
           closed == {c \in ClientId : resolutions[c] # NoRow}
<1>1. Init => Barrier!Init
  BY DEF Init, StoreInit, Barrier!Init, Unresolved
<1>2. ASSUME IInv, [Next]_vars
      PROVE  [Barrier!Next]_(Barrier!vars)
  <2>0. /\ TypeOK /\ ProposalInv /\ BrokerInv
        /\ file \in [ClientId -> Report \union {NoRow}]
    BY <1>2 DEF IInv, TypeOK
  <2>1. \/ sent' = sent
        \/ /\ \E c \in Unresolved : c \notin sent /\ sent' = sent \union {c}
           /\ UNCHANGED <<intents, resolutions>>
    <3>1. ASSUME NEW p \in Process, NEW c \in ClientId, Route(p, c), file[c] = NoRow
          PROVE  /\ c \in Unresolved /\ sent' = sent \union {c}
                 /\ UNCHANGED <<intents, resolutions>>
      <4>1. intents[c] # NoRow
        BY <2>0, <3>1 DEF Route, BrokerInv, Claimed
      <4>2. resolutions[c] = NoRow
        BY <1>2, <3>1 DEF IInv, ChainInv, Settled, JoinInv, Seen
      <4>3. \A d \in ClientId : file'[d] # NoRow <=> file[d] # NoRow \/ d = c
        <5> DEFINE r == [client |-> c, revision |-> 1, status |-> "Submitted",
                         fills |-> {}, account |-> proposals[c].account]
        <5>1. file' = [file EXCEPT ![c] = r]
          BY <3>1 DEF Route
        <5>2. file'[c] # NoRow
          <6>1. proposals[c].account \in Account
            BY <2>0, <3>1 DEF Route, BrokerInv, Claimed, TypeOK, Proposal
          <6>2. r \in Report
            BY <6>1, BoundAssumption DEF Report
          <6> HIDE DEF r
          <6> QED
            BY <2>0, <5>1, <6>2, AbsenceAssumption
        <5> HIDE DEF r
        <5> QED
          BY <2>0, <5>1, <5>2
      <4> QED
        BY <3>1, <4>1, <4>2, <4>3 DEF Unresolved, Route, storeVars
    <3>2. ASSUME NEW p \in Process, NEW c \in ClientId, Route(p, c), file[c] # NoRow
          PROVE  sent' = sent
      BY <3>2 DEF Route
    <3>3. ASSUME NEW c \in ClientId, BrokerActs(c)
          PROVE  sent' = sent
      <4>1. PICK r : Replaces(c, r)
        BY <2>0, <3>3, BrokerReplaces
      <4>2. file[c] # NoRow /\ r # NoRow
        BY <2>0, <3>3, <4>1, BrokerReplaces, AbsenceAssumption DEF Replaces
      <4> QED
        BY <2>0, <4>1, <4>2 DEF Replaces
    <3>4. ASSUME NEW p \in Process, NEW rules, NEW pr, NEW d, NEW before, NEW after,
             \/ AdmitIntent(p, pr, rules) \/ Claim(p, d, rules)
             \/ FinishHandoff(p, pr, rules, before, after)
             \/ ClaimAfterHandoff(p, d, rules, before, after)
             \/ AdmitProposal(p) \/ Reconcile(p) \/ BeginHandoff(p) \/ Exit(p)
             \/ ReadReport(p, d) \/ LatchHold(p, d, before, after)
          PROVE  sent' = sent
      BY <3>4 DEF AdmitIntent, Claim, FinishHandoff, ClaimAfterHandoff, AdmitProposal,
           Reconcile, BeginHandoff, Exit, ReadReport, LatchHold, local
    <3>5. CASE Open \/ UNCHANGED vars
      BY <3>5 DEF Open, vars
    <3> QED
      BY <1>2, <3>1, <3>2, <3>3, <3>4, <3>5 DEF Next, BrokerActs
  <2>2. CASE /\ \E c \in Unresolved : c \notin sent /\ sent' = sent \union {c}
             /\ UNCHANGED <<intents, resolutions>>
    <3>1. PICK c \in ClientId : c \in Unresolved /\ c \notin sent /\ sent' = sent \union {c}
      BY <2>2 DEF Unresolved
    <3>2. Unresolved' = Unresolved /\ closed' = closed
      BY <2>2 DEF Unresolved
    <3>3. Barrier!Send(c)
      BY <3>1, <3>2 DEF Barrier!Send
    <3> QED
      BY <3>3 DEF Barrier!Next
  <2>3. CASE sent' = sent /\ SameClients
    <3>1. Unresolved' = Unresolved /\ closed' = closed
      BY <2>3 DEF SameClients, Unresolved
    <3> QED
      BY <2>3, <3>1 DEF Barrier!vars
  <2>4. CASE sent' = sent /\ \E c \in ClientId : Admits(c)
    <3>1. PICK c \in ClientId : Admits(c)
      BY <2>4
    <3>2. resolutions[c] = NoRow
      BY <1>2, <3>1 DEF Admits, IInv, ChainInv, Settled
    <3>3. /\ Unresolved = {} /\ Unresolved' = {c}
          /\ c \notin closed /\ closed' = closed
      BY <3>1, <3>2 DEF Admits, Unresolved
    <3>4. Barrier!Admit(c)
      BY <2>4, <3>3 DEF Barrier!Admit
    <3> QED
      BY <3>4 DEF Barrier!Next
  <2>5. CASE sent' = sent /\ \E c, d \in ClientId : HandsOver(c, d)
    <3>1. PICK c \in ClientId, d \in ClientId : HandsOver(c, d)
      BY <2>5
    <3>2. intents[c] # NoRow /\ resolutions[c] = NoRow /\ resolutions[d] = NoRow /\ c # d
      BY <1>2, <3>1 DEF HandsOver, IInv, ChainInv, Settled, Unresolved
    <3>3. /\ Unresolved = {c} /\ Unresolved' = {d} /\ c \in sent
          /\ d \notin closed \union {c} /\ closed' = closed \union {c}
      BY <3>1, <3>2 DEF HandsOver, Unresolved
    <3>4. Barrier!HandOver(c, d)
      BY <2>5, <3>3 DEF Barrier!HandOver
    <3> QED
      BY <3>4 DEF Barrier!Next
  <2> QED
    BY <1>2, <2>1, <2>2, <2>3, <2>4, <2>5, ClientSteps
<1> QED
  BY <1>1, <1>2, Inductive, PTL DEF Spec, BarrierSpec, Barrier!Spec

=============================================================================
