------------------------ MODULE SyntheticPaperProofs ------------------------
(***************************************************************************)
(* Proofs about SyntheticPaper for every set of clients, processes, terms, *)
(* revisions and rules: its invariants, its action property, and that it   *)
(* implements SubmissionBarrier.                                           *)
(***************************************************************************)
EXTENDS SyntheticPaperProps, TLAPS

\* No source resolves an intent of this database: reconcile() only holds or
\* rearms, so the first client admitted stays the only one.
NoneResolved == \A c \in ClientId : resolutions[c] = NoRow

\* The inductive invariant.  OneOpenIntent alone is inductive only because
\* rows are never deleted; OrderBehindClaim needs the row behind the order.
IInv ==
  /\ TypeOK
  /\ OneOpenIntent
  /\ NoneResolved
  /\ OrderBehindClaim

\* The type invariant holds throughout: every transaction writes well-formed
\* rows and a process only remembers clients.
THEOREM TypeCorrect == Spec => []TypeOK
<1>1. Init => TypeOK
  BY DEF Init, StoreInit, TypeOK, StoreTypeOK
<1>2. TypeOK /\ [Next]_vars => TypeOK'
  <2> SUFFICES ASSUME TypeOK, [Next]_vars PROVE TypeOK'
    OBVIOUS
  <2> USE DEF TypeOK, StoreTypeOK
  <2>1. CASE Open
    BY <2>1 DEF Open, Initialize, IntentRow
  <2>2. CASE \E c \in ClientId, t \in Terms, rev \in Revision, rules \in Rules :
               PrepareIntent(c, t, rev, rules)
    BY <2>2 DEF PrepareIntent, Prepare, NewIntent, IntentRow
  <2>3. CASE \E p \in Process, c \in ClientId, rev \in Revision, rules \in Rules :
               Claim(p, c, rev, rules)
    BY <2>3 DEF Claim, ClaimOnce, IntentRow
  <2>4. CASE \E p \in Process, c \in ClientId, rev \in Revision : Submit(p, c, rev)
    BY <2>4 DEF Submit, MaySubmit, IntentRow, OrderRow, storeVars
  <2>5. CASE \E p \in Process, c \in ClientId, rev \in Revision :
               SubmitWritesNothing(p, c, rev)
    BY <2>5 DEF SubmitWritesNothing, storeVars
  <2>6. CASE \E c \in ClientId : Rearm(c)
    BY <2>6 DEF Rearm, IntentRow
  <2>7. CASE \E p \in Process : Exit(p)
    BY <2>7 DEF Exit, storeVars
  <2>8. CASE UNCHANGED vars
    BY <2>8 DEF vars, storeVars
  <2> QED
    BY <2>1, <2>2, <2>3, <2>4, <2>5, <2>6, <2>7, <2>8 DEF Next
<1> QED
  BY <1>1, <1>2, PTL DEF Spec

\* The rows of one step: what a transaction may do to an intent and an order,
\* given the inductive invariant.  Every property below follows from it.
LEMMA StepShape ==
  ASSUME IInv, [Next]_vars
  PROVE  /\ resolutions' = resolutions
         /\ \A c \in ClientId :
              /\ intents[c] # NoRow =>
                   /\ intents'[c] # NoRow
                   /\ intents'[c].terms = intents[c].terms
                   /\ intents'[c].source_revision = intents[c].source_revision
                   /\ intents'[c].rules = intents[c].rules
                   /\ orders[c] # NoRow => intents'[c].state = intents[c].state
              /\ intents[c] = NoRow /\ intents'[c] # NoRow =>
                   /\ Unresolved = {}
                   /\ \A d \in ClientId \ {c} : intents'[d] = intents[d]
                   /\ orders' = orders
              /\ orders[c] # NoRow => orders'[c] = orders[c]
              /\ orders[c] = NoRow /\ orders'[c] # NoRow =>
                   /\ intents' = intents
                   /\ intents[c] # NoRow
                   /\ intents[c].state = "submission_unknown"
                   /\ orders'[c].terms = intents[c].terms
                   /\ orders'[c].source_revision = intents[c].source_revision
                   /\ \A d \in ClientId \ {c} : orders'[d] = orders[d]
<1> USE NoRowAssumption, NoOrderAssumption
    DEF IInv, TypeOK, StoreTypeOK, OrderBehindClaim, PresentHold
<1>a. \A r \in IntentRow :
        /\ [r EXCEPT !.state = "submission_unknown"] \in IntentRow
        /\ [r EXCEPT !.state = "prepared"] \in IntentRow
  BY DEF IntentRow
<1>1. CASE Open
  <2>1. ASSUME NEW c \in ClientId, intents[c] # NoRow
        PROVE  /\ intents'[c] \in IntentRow
               /\ intents'[c].terms = intents[c].terms
               /\ intents'[c].source_revision = intents[c].source_revision
               /\ intents'[c].rules = intents[c].rules
               /\ intents'[c].state = intents[c].state
    BY <1>1, <2>1 DEF Open, Initialize, IntentRow
  <2>2. \A c \in ClientId : intents[c] = NoRow => intents'[c] = NoRow
    BY <1>1 DEF Open, Initialize
  <2>3. UNCHANGED <<resolutions, orders>>
    BY <1>1 DEF Open, Initialize
  <2> QED
    BY <2>1, <2>2, <2>3
<1>2. CASE \E c \in ClientId, t \in Terms, rev \in Revision, rules \in Rules :
             PrepareIntent(c, t, rev, rules)
  <2>1. PICK c \in ClientId, t \in Terms, rev \in Revision, rules \in Rules :
          PrepareIntent(c, t, rev, rules)
    BY <1>2
  <2>2. intents[c] = NoRow /\ Unresolved = {}
    BY <2>1 DEF PrepareIntent, Prepare
  <2>3. \A d \in ClientId \ {c} : intents'[d] = intents[d]
    BY <2>1 DEF PrepareIntent, Prepare
  <2>4. UNCHANGED <<resolutions, orders>>
    BY <2>1 DEF PrepareIntent, Prepare
  <2> QED
    BY <2>2, <2>3, <2>4
<1>3. CASE \E p \in Process, c \in ClientId, rev \in Revision, rules \in Rules :
             Claim(p, c, rev, rules)
  <2>1. PICK p \in Process, c \in ClientId, rev \in Revision, rules \in Rules :
          Claim(p, c, rev, rules)
    BY <1>3
  <2>2. orders[c] = NoRow
    BY <2>1 DEF Claim, ClaimOnce
  <2>3. intents[c] \in IntentRow /\ intents'[c] =
          [intents[c] EXCEPT !.state = "submission_unknown"]
    BY <2>1 DEF Claim, ClaimOnce
  <2>4. \A d \in ClientId \ {c} : intents'[d] = intents[d]
    BY <2>1 DEF Claim, ClaimOnce
  <2>5. UNCHANGED <<resolutions, orders>>
    BY <2>1 DEF Claim, ClaimOnce
  <2> QED
    BY <1>a, <2>2, <2>3, <2>4, <2>5 DEF IntentRow
<1>4. CASE \E p \in Process, c \in ClientId, rev \in Revision : Submit(p, c, rev)
  <2>1. PICK p \in Process, c \in ClientId, rev \in Revision : Submit(p, c, rev)
    BY <1>4
  <2>2. UNCHANGED <<intents, resolutions>>
    BY <2>1 DEF Submit, storeVars
  <2>3. /\ orders[c] = NoRow
        /\ intents[c] # NoRow
        /\ intents[c].state = "submission_unknown"
    BY <2>1 DEF Submit, MaySubmit
  <2>4. /\ orders'[c].terms = intents[c].terms
        /\ orders'[c].source_revision = intents[c].source_revision
        /\ \A d \in ClientId \ {c} : orders'[d] = orders[d]
    BY <2>1 DEF Submit
  <2> QED
    BY <2>2, <2>3, <2>4
<1>5. CASE \E p \in Process, c \in ClientId, rev \in Revision :
             SubmitWritesNothing(p, c, rev)
  BY <1>5 DEF SubmitWritesNothing, storeVars
<1>6. CASE \E c \in ClientId : Rearm(c)
  <2>1. PICK c \in ClientId : Rearm(c)
    BY <1>6
  <2>2. orders[c] = NoRow /\ intents[c] \in IntentRow /\ intents'[c] =
          [intents[c] EXCEPT !.state = "prepared"]
    BY <2>1 DEF Rearm
  <2>3. \A d \in ClientId \ {c} : intents'[d] = intents[d]
    BY <2>1 DEF Rearm
  <2>4. UNCHANGED <<resolutions, orders>>
    BY <2>1 DEF Rearm
  <2> QED
    BY <1>a, <2>2, <2>3, <2>4 DEF IntentRow
<1>7. CASE \E p \in Process : Exit(p)
  BY <1>7 DEF Exit, storeVars
<1>8. CASE UNCHANGED vars
  BY <1>8 DEF vars, storeVars
<1> QED
  BY <1>1, <1>2, <1>3, <1>4, <1>5, <1>6, <1>7, <1>8 DEF Next

\* IInv is preserved by every step.
LEMMA Inductive == IInv /\ TypeOK' /\ [Next]_vars => IInv'
<1> SUFFICES ASSUME IInv, TypeOK', [Next]_vars PROVE IInv'
  OBVIOUS
<1>1. OneOpenIntent'
  <2> SUFFICES ASSUME NEW c \in ClientId, NEW d \in ClientId,
                      intents'[c] # NoRow, intents'[d] # NoRow
               PROVE  c = d
    BY DEF OneOpenIntent
  <2>1. CASE intents[c] # NoRow /\ intents[d] # NoRow
    BY <2>1, StepShape DEF IInv, OneOpenIntent, NoneResolved
  <2>2. CASE intents[c] = NoRow
    BY <2>2, StepShape DEF IInv, NoneResolved, Unresolved
  <2>3. CASE intents[d] = NoRow
    BY <2>3, StepShape DEF IInv, NoneResolved, Unresolved
  <2> QED
    BY <2>1, <2>2, <2>3
<1>2. NoneResolved'
  BY StepShape DEF IInv, NoneResolved
<1>3. OrderBehindClaim'
  <2> SUFFICES ASSUME NEW c \in ClientId, orders'[c] # NoRow
               PROVE  PresentHold(c)'
    BY DEF OrderBehindClaim
  <2>1. CASE orders[c] # NoRow
    BY <2>1, StepShape DEF IInv, OrderBehindClaim, PresentHold, CheckOrder
  <2>2. CASE orders[c] = NoRow
    BY <2>2, StepShape DEF PresentHold, CheckOrder
  <2> QED
    BY <2>1, <2>2
<1> QED
  BY <1>1, <1>2, <1>3 DEF IInv

\* IInv holds throughout.
LEMMA Invariance == Spec => []IInv
<1>1. Init => IInv
  BY DEF Init, StoreInit, IInv, TypeOK, StoreTypeOK, OneOpenIntent,
         NoneResolved, OrderBehindClaim
<1> QED
  BY <1>1, Inductive, TypeCorrect, PTL DEF Spec

\* However claims, rearms, submissions and exits interleave, at most one
\* intent of the database is unresolved.
THEOREM OneOpenIntentHolds == Spec => []OneOpenIntent
  BY Invariance, PTL DEF IInv

\* Every order of the source has a matching claimed intent behind it, so
\* reconcile() holds it and neither raises nor rearms its client.
THEOREM OrderBehindClaimHolds == Spec => []OrderBehindClaim
  BY Invariance, PTL DEF IInv

\* Terms, revision and rules of a client and its order are written once.
THEOREM ClientBoundOnceHolds == Spec => ClientBoundOnce
<1> DEFINE Step ==
      \A c \in ClientId :
        /\ intents[c] # NoRow =>
             SameIntent(c, intents'[c].terms, intents'[c].source_revision,
                        intents'[c].rules)
        /\ orders[c] # NoRow => orders'[c] = orders[c]
<1>1. IInv /\ [Next]_vars => Step
  BY StepShape DEF SameIntent
<1> QED
  BY <1>1, Invariance, PTL DEF ClientBoundOnce, Spec

\* SyntheticPaper implements the submission barrier: one client is admitted,
\* its order is sent at most once, and no other client follows it.
THEOREM ImplementsBarrier == Spec => BarrierSpec
<1>1. Init => Barrier!Init
  BY DEF Init, StoreInit, Barrier!Init, Unresolved
<1>2. IInv /\ IInv' /\ [Next]_vars => [Barrier!Next]_Barrier!vars
  <2> SUFFICES ASSUME IInv, IInv', [Next]_vars
               PROVE  Barrier!Next \/ UNCHANGED Barrier!vars
    OBVIOUS
  <2> DEFINE sent == {c \in ClientId : orders[c] # NoRow}
  <2>0. UNCHANGED {c \in ClientId : resolutions[c] # NoRow}
    BY StepShape
  <2>1. CASE \E c \in ClientId : intents[c] = NoRow /\ intents'[c] # NoRow
    <3>1. PICK c \in ClientId : intents[c] = NoRow /\ intents'[c] # NoRow
      BY <2>1
    <3>2. Unresolved = {} /\ Unresolved' = {c}
      BY <3>1, StepShape DEF Unresolved, IInv, NoneResolved
    <3>3. UNCHANGED sent
      BY <3>1, StepShape
    <3>4. c \notin {d \in ClientId : resolutions[d] # NoRow}
      BY DEF IInv, NoneResolved
    <3>5. Barrier!Admit(c)
      BY <2>0, <3>2, <3>3, <3>4 DEF Barrier!Admit
    <3> QED
      BY <3>5 DEF Barrier!Next
  <2>2. CASE \E c \in ClientId : orders[c] = NoRow /\ orders'[c] # NoRow
    <3>1. PICK c \in ClientId : orders[c] = NoRow /\ orders'[c] # NoRow
      BY <2>2
    <3>2. UNCHANGED Unresolved
      BY <3>1, StepShape DEF Unresolved
    <3>3. c \in Unresolved
      BY <3>1, StepShape DEF Unresolved, IInv, NoneResolved
    <3>4. c \notin sent /\ sent' = sent \union {c}
      BY <3>1, StepShape
    <3>5. Barrier!Send(c)
      BY <2>0, <3>2, <3>3, <3>4 DEF Barrier!Send
    <3> QED
      BY <3>5 DEF Barrier!Next
  <2>3. CASE /\ ~\E c \in ClientId : intents[c] = NoRow /\ intents'[c] # NoRow
             /\ ~\E c \in ClientId : orders[c] = NoRow /\ orders'[c] # NoRow
    <3>1. UNCHANGED sent
      BY <2>3, StepShape
    <3>2. UNCHANGED Unresolved
      BY <2>3, StepShape DEF Unresolved
    <3> QED
      BY <2>0, <3>1, <3>2 DEF Barrier!vars
  <2> QED
    BY <2>1, <2>2, <2>3
<1> QED
  BY <1>1, <1>2, Invariance, PTL DEF Spec, BarrierSpec, Barrier!Spec

=============================================================================
