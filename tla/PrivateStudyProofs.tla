------------------------- MODULE PrivateStudyProofs -------------------------
(***************************************************************************)
(* The proofs about the private studies, for any sets of grants,           *)
(* processes, revisions and rows and any interleaving of the commands: a   *)
(* grant is consumed under one revision of main; it pays for one look at   *)
(* the price store and one replay, of which the reviewed result came; and  *)
(* nothing but a death or damage spends it without a trace.                *)
(***************************************************************************)
EXTENDS ResearchProofs

\* The parts of the state that the argument is about have the shape that their
\* updates assume.
Shape ==
  /\ DOMAIN access = Grant /\ DOMAIN work = Operator
  /\ \A g \in Grant : DOMAIN access[g] = Stage
  /\ study \in [Grant -> Maybe(Files)]
  /\ \A p \in Operator :
       /\ DOMAIN work[p] = DOMAIN Resting
       /\ work[p].grant \in Grant
       /\ work[p].pc # "idle" => work[p].head \in Revision

\* What the records of a grant say: its receipt names the revision its snapshot
\* was consumed under, and a consumed batch agrees with what came before.
GrantInv(g) ==
  /\ access[g]["authorization"] # Missing =>
       access[g]["authorization"] = [head |-> access[g]["authorization"].head]
  /\ access[g]["snapshot_complete"] # Missing =>
       /\ access[g]["snapshot"] # Missing
       /\ access[g]["snapshot"] = [head |-> access[g]["snapshot_complete"].prepared.head]
  /\ access[g]["batch"] # Missing =>
       /\ access[g]["snapshot"] = access[g]["batch"]
       /\ g # Founder => access[g]["authorization"] = access[g]["batch"]

\* What a process that goes on relies on: the revision it keeps is that of its
\* grant's authorization, then of its snapshot, and it is what it wrote.
WorkInv(p) ==
  LET g == work[p].grant
      mine == [head |-> work[p].head] IN
  /\ work[p].pc \in {"snapshot", "load", "admit"} /\ g # Founder =>
       access[g]["authorization"] = mine
  /\ work[p].pc \in {"copy", "freeze", "seal", "admit"} => access[g]["snapshot"] = mine
  /\ work[p].pc \in {"freeze", "seal", "load"} => study[g] # Missing
  /\ work[p].pc = "freeze" => study[g].snapshot \in Rows /\ work[p].rows \in Rows
  /\ work[p].pc = "seal" => study[g].prepared.head = work[p].head
  /\ work[p].pc = "load" =>
       /\ access[g]["snapshot"] # Missing
       /\ access[g]["snapshot"] = [head |-> study[g].prepared.head]

Safe ==
  /\ Shape
  /\ \A g \in Grant : GrantInv(g)
  /\ \A p \in Operator : WorkInv(p)

\* The inductive invariant.  The other workloads leave the grants alone, and a
\* lost record may be consumed again: nothing is claimed after damage.
HeadInv ==
  IF workload = "private"
    THEN /\ damage \in Int /\ damage >= 0
         /\ head \in Revision /\ source \in Rows \union {Broken}
         /\ damage = 0 => Safe
    ELSE \A g \in Grant : access[g]["batch"] = Missing

\* The labels at which a process relies on nothing.
Quiet == {"idle", "anchor", "tables", "authorize", "hash", "launch", "replay", "settle", "review"}

\* Nothing is consumed at first.
LEMMA Initially == Init => HeadInv
BY FounderAssumption
   DEF Init, InputsInit, PrivateInit, HeadInv, Safe, Shape, GrantInv, WorkInv, Resting, Stage, Maybe

-----------------------------------------------------------------------------
(* What one process does to the state it shares *)

\* A row that is consumed is new, and no other row changes.
LEMMA Consumed ==
  ASSUME Shape, NEW g \in Grant, NEW stage \in Stage, NEW identity, Consume(g, stage, identity)
  PROVE  /\ DOMAIN access' = Grant
         /\ \A q \in Grant : DOMAIN access'[q] = Stage
         /\ access[g][stage] = Missing
         /\ access'[g][stage] = identity
         /\ \A q \in Grant, t \in Stage :
              q # g \/ t # stage => access'[q][t] = access[q][t]
BY DEF Shape, Consume

\* A process moves and the rest of the state is as it was.
LEMMA Moves ==
  ASSUME Safe, NEW p \in Operator,
         UNCHANGED <<access, study>>,
         DOMAIN work' = Operator, \A q \in Operator \ {p} : work'[q] = work[q],
         DOMAIN work'[p] = DOMAIN Resting, work'[p].grant \in Grant,
         work'[p].pc # "idle" => work'[p].head \in Revision,
         WorkInv(p)'
  PROVE  Safe'
<1>1. Shape'
  BY DEF Safe, Shape
<1>2. \A g \in Grant : GrantInv(g)'
  BY DEF Safe, GrantInv
<1>3. \A q \in Operator \ {p} : WorkInv(q)'
  BY DEF Safe, WorkInv
<1> QED
  BY <1>1, <1>2, <1>3 DEF Safe

\* A process that rests, or goes where nothing is relied on.
LEMMA GoesFree ==
  ASSUME Safe, NEW p \in Operator, NEW label \in Quiet,
         UNCHANGED <<access, study>>,
         \/ work' = [work EXCEPT ![p] = Resting]
         \/ work[p].pc # "idle" /\ Goto(p, label)
         \/ \E result : /\ work[p].pc # "idle"
                        /\ work' = [work EXCEPT ![p].pc = label, ![p].result = result]
  PROVE  Safe'
<1>1. /\ DOMAIN work' = Operator /\ \A q \in Operator \ {p} : work'[q] = work[q]
      /\ DOMAIN work'[p] = DOMAIN Resting /\ work'[p].grant \in Grant
      /\ work'[p].pc # "idle" => work'[p].head \in Revision
      /\ work'[p].pc \in Quiet
  BY FounderAssumption DEF Safe, Shape, Resting, Goto, Quiet
<1>2. WorkInv(p)'
  BY <1>1 DEF WorkInv, Quiet
<1> QED
  BY <1>1, <1>2, Moves

\* A command keeps the revision of its gate, to which the grant's rows agree.
LEMMA Begins ==
  ASSUME Safe, head \in Revision, NEW p \in Operator, NEW g \in Grant,
         NEW label \in Quiet \union {"snapshot", "load"}, Begin(p, g, label),
         label \in {"snapshot", "load"} => Gate(g),
         label = "load" => /\ access[g]["snapshot_complete"] # Missing
                           /\ study[g] # Missing
                           /\ Receipt(g) = access[g]["snapshot_complete"]
  PROVE  Safe'
<1>1. /\ UNCHANGED <<access, study>>
      /\ DOMAIN work' = Operator /\ \A q \in Operator \ {p} : work'[q] = work[q]
      /\ DOMAIN work'[p] = DOMAIN Resting /\ work'[p].grant = g
      /\ work'[p].head = head
      /\ work'[p].pc = label
  BY DEF Safe, Shape, Begin, Resting, program, records
<1>2. label \in {"snapshot", "load"} /\ g # Founder =>
        access[g]["authorization"] = [head |-> head]
  BY DEF Gate, Safe, GrantInv
<1>3. label = "load" =>
        /\ access[g]["snapshot"] # Missing
        /\ access[g]["snapshot"] = [head |-> study[g].prepared.head]
  <2>1. label = "load" => access[g]["snapshot_complete"].prepared = study[g].prepared
    BY DEF Receipt
  <2>2. GrantInv(g)
    BY DEF Safe
  <2> QED
    BY <2>1, <2>2 DEF GrantInv
<1>4. WorkInv(p)'
  BY <1>1, <1>2, <1>3 DEF WorkInv, Quiet
<1> QED
  BY <1>1, <1>4, Moves

-----------------------------------------------------------------------------
(* The steps that consume a stage *)

\* A stage that is new leaves what the others rely on.
LEMMA OthersKeep ==
  ASSUME Safe, NEW p \in Operator, NEW stage \in Stage, NEW identity,
         Consume(work[p].grant, stage, identity), UNCHANGED study,
         \A q \in Operator \ {p} : work'[q] = work[q]
  PROVE  /\ \A q \in Operator \ {p} : WorkInv(q)'
         /\ \A g \in Grant \ {work[p].grant} : GrantInv(g)'
<1>1. work[p].grant \in Grant
  BY DEF Safe, Shape
<1>2. \A q \in Grant, t \in Stage :
        access[q][t] # Missing => access'[q][t] = access[q][t]
  BY <1>1, Consumed DEF Safe
<1>3. ASSUME NEW q \in Operator \ {p}
      PROVE  WorkInv(q)'
  <2>1. /\ work[q].grant \in Grant
        /\ work[q].pc # "idle" => [head |-> work[q].head] # Missing
    BY AbsenceAssumption DEF Safe, Shape, Identity
  <2>2. WorkInv(q) /\ work'[q] = work[q]
    BY <1>3 DEF Safe
  <2> QED
    BY <1>2, <2>1, <2>2 DEF WorkInv, Stage
<1>4. ASSUME NEW g \in Grant \ {work[p].grant}
      PROVE  GrantInv(g)'
  <2>1. \A t \in Stage : access'[g][t] = access[g][t]
    BY <1>1, <1>4, Consumed DEF Safe
  <2> QED
    BY <1>4, <2>1 DEF Safe, GrantInv, Stage
<1> QED
  BY <1>3, <1>4

\* The row a process inserts names the revision it keeps, as its earlier rows do.
LEMMA Consumes ==
  ASSUME Safe, NEW p \in Operator,
         Authorize(p) \/ ConsumeSnapshot(p) \/ Seal(p) \/ ConsumeBatch(p) \/ Review(p)
  PROVE  Safe'
<1>0. PICK g, mine : g \in Grant /\ g = work[p].grant /\ mine = [head |-> work[p].head]
  BY DEF Safe, Shape
<1>1. PICK stage, identity, label :
        /\ Consume(g, stage, identity)
        /\ stage \in Stage /\ label \in {"idle", "copy", "hash"}
        /\ UNCHANGED study
        /\ IF label = "idle" THEN Rest(p) ELSE Goto(p, label)
        /\ \/ Authorize(p) /\ stage = "authorization" /\ identity = mine /\ label = "idle"
           \/ ConsumeSnapshot(p) /\ stage = "snapshot" /\ identity = mine /\ label = "copy"
           \/ Seal(p) /\ stage = "snapshot_complete" /\ identity = Receipt(g) /\ label = "idle"
           \/ ConsumeBatch(p) /\ stage = "batch" /\ identity = mine /\ label = "hash"
           \/ Review(p) /\ stage = "review" /\ label = "idle"
  <2>1. CASE Authorize(p)
    <3>1. Consume(g, "authorization", mine) /\ UNCHANGED study /\ Rest(p)
      BY <1>0, <2>1 DEF Authorize, records
    <3>2. "authorization" \in Stage
      BY DEF Stage
    <3> WITNESS "authorization", mine, "idle"
    <3> QED
      BY <2>1, <3>1, <3>2
  <2>2. CASE ConsumeSnapshot(p)
    <3>1. Consume(g, "snapshot", mine) /\ UNCHANGED study /\ Goto(p, "copy")
      BY <1>0, <2>2 DEF ConsumeSnapshot, records
    <3>2. "snapshot" \in Stage
      BY DEF Stage
    <3> WITNESS "snapshot", mine, "copy"
    <3> QED
      BY <2>2, <3>1, <3>2
  <2>3. CASE Seal(p)
    <3>1. Consume(g, "snapshot_complete", Receipt(g)) /\ UNCHANGED study /\ Rest(p)
      BY <1>0, <2>3 DEF Seal, records
    <3>2. "snapshot_complete" \in Stage
      BY DEF Stage
    <3> WITNESS "snapshot_complete", Receipt(g), "idle"
    <3> QED
      BY <2>3, <3>1, <3>2
  <2>4. CASE ConsumeBatch(p)
    <3>1. Consume(g, "batch", mine) /\ UNCHANGED study /\ Goto(p, "hash")
      BY <1>0, <2>4 DEF ConsumeBatch, records
    <3>2. "batch" \in Stage
      BY DEF Stage
    <3> WITNESS "batch", mine, "hash"
    <3> QED
      BY <2>4, <3>1, <3>2
  <2>5. CASE Review(p)
    <3>1. Consume(g, "review", [result |-> work[p].result]) /\ UNCHANGED study /\ Rest(p)
      BY <1>0, <2>5 DEF Review, records
    <3>2. "review" \in Stage
      BY DEF Stage
    <3> WITNESS "review", [result |-> work[p].result], "idle"
    <3> QED
      BY <2>5, <3>1, <3>2
  <2> QED
    BY <2>1, <2>2, <2>3, <2>4, <2>5
<1>2. /\ g \in Grant /\ work[p].pc # "idle" /\ work[p].head \in Revision /\ mine # Missing
      /\ GrantInv(g) /\ WorkInv(p)
  BY <1>0, <1>1, AbsenceAssumption
     DEF Safe, Shape, Identity, Authorize, ConsumeSnapshot, Seal, ConsumeBatch, Review
<1>3. /\ DOMAIN access' = Grant /\ \A q \in Grant : DOMAIN access'[q] = Stage
      /\ access[g][stage] = Missing /\ access'[g][stage] = identity
      /\ \A t \in Stage \ {stage} : access'[g][t] = access[g][t]
  BY <1>1, <1>2, Consumed DEF Safe
<1>4. /\ DOMAIN work' = Operator /\ \A q \in Operator \ {p} : work'[q] = work[q]
      /\ DOMAIN work'[p] = DOMAIN Resting
      /\ work'[p].pc = label /\ work'[p].grant \in Grant
      /\ label # "idle" => work'[p].grant = g /\ work'[p].head = work[p].head
  BY <1>0, <1>1, FounderAssumption DEF Safe, Shape, Rest, Goto, Resting
<1>5. Shape'
  BY <1>1, <1>2, <1>3, <1>4 DEF Safe, Shape
<1>6. GrantInv(g)'
  <2>1. CASE stage = "authorization"
    BY <1>0, <1>1, <1>2, <1>3, <2>1 DEF GrantInv, Stage
  <2>2. CASE stage = "snapshot"
    BY <1>0, <1>1, <1>2, <1>3, <2>2 DEF GrantInv, Stage
  <2>3. CASE stage = "snapshot_complete"
    BY <1>0, <1>1, <1>2, <1>3, <2>3 DEF GrantInv, WorkInv, Seal, Receipt, Stage
  <2>4. CASE stage = "batch"
    BY <1>0, <1>1, <1>2, <1>3, <2>4 DEF GrantInv, WorkInv, ConsumeBatch, Stage
  <2>5. CASE stage = "review"
    BY <1>0, <1>1, <1>2, <1>3, <2>5 DEF GrantInv, Stage
  <2> QED
    BY <1>1, <2>1, <2>2, <2>3, <2>4, <2>5 DEF Stage
<1>7. WorkInv(p)'
  BY <1>0, <1>1, <1>3, <1>4 DEF WorkInv, Stage
<1> QED
  BY <1>0, <1>1, <1>4, <1>5, <1>6, <1>7, OthersKeep DEF Safe

-----------------------------------------------------------------------------
(* The steps that write the study's files *)

\* The first files of a study have their types.
LEMMA NewFiles ==
  /\ [NewStudy EXCEPT !.failed = TRUE] \in Files
  /\ \A rows \in Rows : /\ [NewStudy EXCEPT !.snapshot = rows] \in Files
                        /\ [NewStudy EXCEPT !.snapshot = rows].snapshot = rows
BY DEF Files, NewStudy, Maybe

\* The mark of a failure leaves the other files.
LEMMA FailedFiles ==
  ASSUME NEW f \in Files, NEW new, new = [f EXCEPT !.failed = TRUE]
  PROVE  new \in Files /\ new.prepared = f.prepared /\ new.snapshot = f.snapshot
<1>1. new \in Files
  BY DEF Files
<1>2. new.prepared = f.prepared /\ new.snapshot = f.snapshot
  BY DEF Files
<1> QED
  BY <1>1, <1>2

\* The files of g are new, or they keep the snapshot and what was prepared, or
\* prepare it again under the revision the snapshot was consumed under: nobody
\* is misled.
LEMMA StudyWritten ==
  ASSUME Safe, NEW p \in Operator, NEW g \in Grant, NEW new \in Files,
         access' = access, study' = [study EXCEPT ![g] = new],
         \/ study[g] = Missing
         \/ /\ new.snapshot = study[g].snapshot
            /\ \/ new.prepared = study[g].prepared
               \/ access[g]["snapshot"] = [head |-> new.prepared.head],
         DOMAIN work' = Operator, \A q \in Operator \ {p} : work'[q] = work[q],
         DOMAIN work'[p] = DOMAIN Resting, work'[p].grant \in Grant,
         work'[p].pc # "idle" => work'[p].head \in Revision,
         WorkInv(p)'
  PROVE  Safe'
<1>1. new # Missing
  BY AbsenceAssumption
<1>2. /\ study' \in [Grant -> Maybe(Files)]
      /\ study'[g] = new
      /\ \A h \in Grant \ {g} : study'[h] = study[h]
  BY DEF Safe, Shape, Maybe
<1>3. Shape'
  BY <1>2 DEF Safe, Shape
<1>4. \A h \in Grant : GrantInv(h)'
  BY DEF Safe, GrantInv
<1>5. ASSUME NEW q \in Operator \ {p}
      PROVE  WorkInv(q)'
  <2>1. /\ WorkInv(q) /\ work'[q] = work[q] /\ work[q].grant \in Grant
    BY DEF Safe, Shape
  <2>2. CASE work[q].grant # g
    BY <1>2, <2>1, <2>2 DEF WorkInv
  <2>3. CASE work[q].grant = g /\ study[g] = Missing
    BY <2>1, <2>3 DEF WorkInv
  <2>4. CASE work[q].grant = g /\ study[g] # Missing
    <3>1. access'[g]["snapshot"] = access[g]["snapshot"]
      OBVIOUS
    <3> QED
      BY <1>1, <1>2, <2>1, <2>4, <3>1 DEF WorkInv
  <2> QED
    BY <2>2, <2>3, <2>4
<1> QED
  BY <1>3, <1>4, <1>5 DEF Safe

\* A new directory misleads nobody.
LEMMA Copies ==
  ASSUME Safe, source \in Rows \union {Broken}, NEW p \in Operator, Copy(p)
  PROVE  Safe'
<1>0. PICK g : g \in Grant /\ g = work[p].grant
  BY DEF Safe, Shape
<1>1. /\ work[p].pc = "copy" /\ work[p].head \in Revision
      /\ access[g]["snapshot"] = [head |-> work[p].head]
      /\ access' = access /\ study[g] = Missing
  BY <1>0 DEF Copy, program, Safe, Shape, WorkInv
<1>2. CASE source = Broken
  <2>1. /\ study' = [study EXCEPT ![g] = [NewStudy EXCEPT !.failed = TRUE]]
        /\ work' = [work EXCEPT ![p] = Resting]
    BY <1>0, <1>2 DEF Copy, Rest
  <2>2. WorkInv(p)'
    BY <2>1 DEF WorkInv, Resting, Safe, Shape
  <2> QED
    BY <1>0, <1>1, <2>1, <2>2, NewFiles, FounderAssumption, StudyWritten
       DEF Safe, Shape, Resting
<1>3. CASE source # Broken
  <2>1. /\ study' = [study EXCEPT ![g] = [NewStudy EXCEPT !.snapshot = source]]
        /\ work' = [work EXCEPT ![p].pc = "freeze", ![p].rows = source]
    BY <1>0, <1>3 DEF Copy
  <2>2. /\ study'[g] \in Files /\ study'[g].snapshot = source /\ source \in Rows
        /\ study'[g] # Missing
    BY <1>0, <1>3, <2>1, NewFiles, AbsenceAssumption DEF Safe, Shape
  <2>3. /\ DOMAIN work' = Operator /\ \A q \in Operator \ {p} : work'[q] = work[q]
        /\ DOMAIN work'[p] = DOMAIN Resting
        /\ work'[p].pc = "freeze" /\ work'[p].grant = g
        /\ work'[p].head = work[p].head /\ work'[p].rows = source
    BY <1>0, <2>1 DEF Safe, Shape, Resting
  <2>4. WorkInv(p)'
    BY <1>1, <2>2, <2>3 DEF WorkInv
  <2> QED
    BY <1>0, <1>1, <1>3, <2>1, <2>2, <2>3, <2>4, NewFiles, StudyWritten
<1> QED
  BY <1>2, <1>3

\* prepared.json names the revision that the snapshot was consumed under.
LEMMA Freezes ==
  ASSUME Safe, NEW p \in Operator, Freeze(p)
  PROVE  Safe'
<1>0. PICK g : g \in Grant /\ g = work[p].grant
  BY DEF Safe, Shape
<1>1. /\ work[p].pc = "freeze" /\ work[p].head \in Revision /\ work[p].rows \in Rows
      /\ access[g]["snapshot"] = [head |-> work[p].head]
      /\ study[g] \in Files /\ study[g].snapshot \in Rows
  BY <1>0 DEF Freeze, Safe, Shape, WorkInv, Maybe
<1>2. PICK f, revision, rows, new :
        /\ f = study[g] /\ revision = work[p].head /\ rows = work[p].rows
        /\ new = [f EXCEPT !.descriptor = rows, !.plan = rows, !.package = "approved",
                           !.prepared = [head |-> revision, file |-> f.snapshot]]
  OBVIOUS
<1>3. access' = access /\ study' = [study EXCEPT ![g] = new]
  BY <1>0, <1>2 DEF Freeze, program, Safe, Shape
<1>4. new \in Files /\ new.prepared.head = work[p].head /\ new.snapshot = study[g].snapshot
  <2>1. f \in Files /\ f.snapshot \in Rows /\ revision \in Revision /\ rows \in Rows
    BY <1>1, <1>2
  <2>2. [head |-> revision, file |-> f.snapshot] \in Maybe(Prepared) /\ rows \in Maybe(Rows)
    BY <2>1 DEF Maybe, Prepared
  <2>3. new \in Files
    BY <1>2, <2>1, <2>2 DEF Files
  <2>4. new.prepared = [head |-> revision, file |-> f.snapshot] /\ new.snapshot = f.snapshot
    BY <1>2, <2>1 DEF Files
  <2> QED
    BY <1>2, <2>3, <2>4
<1>5. /\ DOMAIN work' = Operator /\ \A q \in Operator \ {p} : work'[q] = work[q]
      /\ DOMAIN work'[p] = DOMAIN Resting /\ work'[p].grant = g
      /\ work'[p].pc = "seal" /\ work'[p].head = work[p].head
  BY <1>0 DEF Freeze, Goto, Resting, Safe, Shape
<1>6. study'[g] = new /\ new # Missing
  BY <1>0, <1>3, <1>4, AbsenceAssumption DEF Safe, Shape
<1>7. WorkInv(p)'
  BY <1>1, <1>3, <1>4, <1>5, <1>6 DEF WorkInv
<1> QED
  BY <1>0, <1>1, <1>3, <1>4, <1>5, <1>7, StudyWritten

\* A receipt that cannot be recorded leaves the mark of a failure.
LEMMA Refusals ==
  ASSUME Safe, NEW p \in Operator, Refused(p)
  PROVE  Safe'
<1>0. PICK g : g \in Grant /\ g = work[p].grant
  BY DEF Safe, Shape
<1>1. CASE work[p].pc # "seal"
  BY <1>1, GoesFree DEF Refused, Rest, Quiet
<1>2. CASE work[p].pc = "seal"
  <2>1. study[g] \in Files
    BY <1>0, <1>2 DEF Safe, Shape, WorkInv, Maybe
  <2>2. PICK new : new = [study[g] EXCEPT !.failed = TRUE]
    OBVIOUS
  <2>3. /\ access' = access /\ study' = [study EXCEPT ![g] = new]
        /\ work' = [work EXCEPT ![p] = Resting]
    BY <1>0, <1>2, <2>2 DEF Refused, Rest, Safe, Shape
  <2>4. new \in Files /\ new.prepared = study[g].prepared /\ new.snapshot = study[g].snapshot
    BY <2>1, <2>2, FailedFiles
  <2>5. /\ DOMAIN work' = Operator /\ \A q \in Operator \ {p} : work'[q] = work[q]
        /\ work'[p] = Resting /\ Resting.grant \in Grant /\ Resting.pc = "idle"
    BY <2>3, FounderAssumption DEF Safe, Shape, Resting
  <2>6. WorkInv(p)'
    BY <2>5 DEF WorkInv
  <2> QED
    BY <1>0, <2>3, <2>4, <2>5, <2>6, StudyWritten
<1> QED
  BY <1>1, <1>2

-----------------------------------------------------------------------------
(* All steps *)

\* The head that was prepared under is compared with the one the command keeps.
LEMMA Loads ==
  ASSUME Safe, NEW p \in Operator, Load(p)
  PROVE  Safe'
<1>0. PICK g : g \in Grant /\ g = work[p].grant
  BY DEF Safe, Shape
<1>1. /\ UNCHANGED <<access, study>>
      /\ DOMAIN work' = Operator /\ \A q \in Operator \ {p} : work'[q] = work[q]
      /\ DOMAIN work'[p] = DOMAIN Resting /\ work'[p].grant = g
      /\ work'[p].pc = "admit" /\ work'[p].head = work[p].head
      /\ work[p].pc = "load" /\ study[g].prepared.head = work[p].head
      /\ work[p].head \in Revision
  BY <1>0 DEF Load, program, records, Resting, Safe, Shape
<1>2. WorkInv(p)'
  BY <1>0, <1>1 DEF Safe, WorkInv
<1> QED
  BY <1>0, <1>1, <1>2, Moves

\* Every command begins as its gate admits it.
LEMMA Commands ==
  ASSUME Safe, head \in Revision, NEW p \in Operator,
         \/ Initialize(p)
         \/ \E g \in Grant : AskAuthorization(p, g) \/ Prepare(p, g) \/ Execute(p, g)
  PROVE  Safe'
<1>1. CASE Initialize(p)
  BY <1>1, FounderAssumption, Begins DEF Initialize, Quiet
<1>2. ASSUME NEW g \in Grant, AskAuthorization(p, g)
      PROVE  Safe'
  BY <1>2, Begins DEF AskAuthorization, Quiet
<1>3. ASSUME NEW g \in Grant, Prepare(p, g)
      PROVE  Safe'
  BY <1>3, Begins DEF Prepare
<1>4. ASSUME NEW g \in Grant, Execute(p, g)
      PROVE  Safe'
  BY <1>4, Begins DEF Execute
<1> QED
  BY <1>1, <1>2, <1>3, <1>4

\* Every step of a process keeps the agreement of the revisions.
LEMMA Steps ==
  ASSUME Safe, source \in Rows \union {Broken}, NEW p \in Operator, PrivateStep(p) \/ Die(p)
  PROVE  Safe'
<1>1. CASE WriteAnchor(p) \/ HashSnapshot(p) \/ Raise(p) \/ Die(p)
  BY <1>1, GoesFree DEF WriteAnchor, HashSnapshot, Raise, Die, Goto, Rest, Quiet, program, records
<1>2. CASE CreateTables(p) \/ Settle(p) \/ Reject(p)
  BY <1>2, GoesFree DEF CreateTables, Settle, Reject, Goto, Rest, Quiet, program, records
<1>3. CASE Block(p)
  BY <1>3, GoesFree DEF Block, Quiet, program
<1>4. CASE Admit(p)
  BY <1>4, GoesFree DEF Admit, Quiet
<1>5. CASE Replay(p)
  BY <1>5, GoesFree DEF Replay, Goto, Quiet, program, records
<1>6. CASE Authorize(p) \/ ConsumeSnapshot(p) \/ Seal(p) \/ ConsumeBatch(p) \/ Review(p)
  BY <1>6, Consumes
<1>7. CASE Copy(p) \/ Freeze(p) \/ Load(p) \/ Refused(p)
  BY <1>7, Copies, Freezes, Loads, Refusals
<1> QED
  BY <1>1, <1>2, <1>3, <1>4, <1>5, <1>6, <1>7 DEF PrivateStep

\* The invariant is inductive: only the private workload touches the grants.
LEMMA Preserved ==
  ASSUME HeadInv, Next
  PROVE  HeadInv'
<1>1. workload' = workload
  BY DEF Next
<1>2. CASE workload # "private"
  <2>1. access' = access
    BY <1>2 DEF Next, Drift, Private, Trial, Bundles, Scripts, Workflow, PricedWorkload, privateVars,
         program
  <2> QED
    BY <1>1, <1>2, <2>1 DEF HeadInv
<1>3. CASE workload = "private"
  <2>1. Drift \/ PrivateNext
    BY <1>3 DEF Next, Private, Trial, Bundles, Scripts, Workflow
  <2>2. CASE Drift
    <3>1. Safe => Safe'
      BY <2>2 DEF Drift, privateVars, program, records, Safe, Shape, GrantInv, WorkInv
    <3> QED
      BY <1>1, <1>3, <2>2, <3>1 DEF Drift, Move, HeadInv
  <2>3. CASE Damage
    BY <1>1, <1>3, <2>3 DEF Damage, OneMoreDamage, HeadInv
  <2>4. ASSUME NEW g \in Grant, RecoverBatch(g)
        PROVE  HeadInv'
    <3>1. Safe => Safe'
      BY <2>4 DEF RecoverBatch, program, Safe, Shape, GrantInv, WorkInv
    <3> QED
      BY <1>1, <1>3, <2>4, <3>1 DEF RecoverBatch, inputs, HeadInv
  <2>5. ASSUME NEW p \in Operator,
               \/ Initialize(p)
               \/ \E g \in Grant : AskAuthorization(p, g) \/ Prepare(p, g) \/ Execute(p, g)
        PROVE  HeadInv'
    <3>1. UNCHANGED inputs
      BY <2>5 DEF Initialize, AskAuthorization, Prepare, Execute, Begin
    <3> QED
      BY <1>1, <1>3, <2>5, <3>1, Commands DEF HeadInv, inputs
  <2>6. ASSUME NEW p \in Operator, PrivateStep(p) \/ Die(p)
        PROVE  HeadInv'
    <3>1. UNCHANGED <<head, source, damage>>
      BY <2>6 DEF PrivateStep, Die, OneMoreDeath, WriteAnchor, CreateTables, Authorize,
           ConsumeSnapshot, Copy, Freeze, Seal, Load, ConsumeBatch, HashSnapshot, Block, Reject,
           Admit, Replay, Settle, Review, Refused, Raise, inputs
    <3> QED
      BY <1>1, <1>3, <2>6, <3>1, Steps DEF HeadInv
  <2> QED
    BY <2>1, <2>2, <2>3, <2>4, <2>5, <2>6 DEF PrivateNext
<1> QED
  BY <1>2, <1>3

\* A grant's authorization, snapshot and batch were consumed under one revision
\* of main, as long as no record was lost: gate() and execute() compare what
\* they kept, however main moves and whoever else works on the grant.
THEOREM OneHeadHolds == Spec => []OneHead
<1>1. Init => HeadInv
  BY Initially
<1>2. HeadInv /\ [Next]_researchVars => HeadInv'
  <2>1. HeadInv /\ UNCHANGED researchVars => HeadInv'
    BY DEF HeadInv, researchVars, inputs, privateVars, program, records, Safe, Shape, GrantInv,
           WorkInv
  <2> QED
    BY <2>1, Preserved
<1>3. HeadInv => OneHead
  BY DEF HeadInv, OneHead, Safe, GrantInv
<1> QED
  BY <1>1, <1>2, <1>3, PTL DEF Spec

-----------------------------------------------------------------------------
(* What is read, replayed and reviewed: the invariant *)

\* A process that goes on has what its label needs, and works in a directory
\* that is there.
Ready(p) ==
  LET w == work[p]
      f == study[work[p].grant] IN
  /\ w.pc # "idle" => w.head \in Revision
  /\ w.pc \in {"freeze", "seal", "load", "admit", "hash", "launch", "replay", "settle", "review"} =>
       f # Missing
  /\ w.pc = "freeze" => w.rows \in Rows /\ f.snapshot \in Rows
  /\ w.pc \in {"seal", "load"} =>
       f.prepared \in Prepared /\ f.descriptor \in Rows /\ f.plan \in Rows
  /\ w.pc \in {"admit", "hash", "launch", "replay"} => w.rows \in Rows
  /\ w.pc \in {"admit", "hash"} => w.file \in Rows
  /\ w.pc = "replay" => w.result = "incomplete"
  /\ w.pc \in {"settle", "review"} => w.result \in Rows \union {"incomplete"}

PrivateTypes == PrivateTypeOK /\ \A p \in Operator : Ready(p)

\* Who looks at the price store leaves a directory, and who replays an attempt:
\* while one record may be lost or replaced, that directory or attempt is there
\* or its stage is consumed.
GrantOnce(g) ==
  /\ reads[g] = <<>> \/ \E x \in Rows \union {Broken} : reads[g] = <<x>>
  /\ reads[g] # <<>> => study[g] # Missing \/ access[g]["snapshot"] # Missing
  /\ replays[g] = <<>> \/ \E x \in Rows : replays[g] = <<x>>
  /\ replays[g] # <<>> => attempt[g] # Missing \/ access[g]["batch"] # Missing
  /\ study[g] # Missing /\ study[g].descriptor # Missing /\ study[g].descriptor = study[g].plan =>
       reads[g] = <<study[g].descriptor>>
  /\ access[g]["review"] # Missing /\ access[g]["review"].result \in Rows =>
       reads[g] = <<access[g]["review"].result>>

\* Whoever is on the way to the price store or to a replay finds that what would
\* stop him is not there, or comes first.
WorkOnce(p) ==
  LET w == work[p]
      g == work[p].grant IN
  /\ w.pc = "copy" => reads[g] = <<>> \/ study[g] # Missing
  /\ w.pc = "freeze" => reads[g] = <<w.rows>>
  /\ w.pc \in {"hash", "launch"} => replays[g] = <<>> \/ attempt[g] # Missing
  /\ w.pc = "replay" =>
       /\ reads[g] = <<w.rows>> /\ replays[g] = <<>> /\ attempt[g] # Missing
       /\ \A q \in Operator \ {p} : work[q].grant = g => work[q].pc # "replay"
  /\ w.pc \in {"settle", "review"} /\ w.result \in Rows => reads[g] = <<w.result>>

\* With all records in place, each of the two spent stages is held by one process.
Preparing == {"copy", "freeze", "seal"}
Batching == {"hash", "launch", "replay", "settle", "review"}

GrantWhole(g) ==
  /\ \A s \in Stage : access[g][s] # Missing => registry = "ready"
  /\ reads[g] # <<>> => study[g] # Missing
  /\ study[g] # Missing =>
       /\ access[g]["snapshot"] # Missing
       /\ study[g].descriptor = study[g].plan
       /\ study[g].prepared # Missing => study[g].prepared.file = study[g].snapshot
  /\ replays[g] # <<>> => attempt[g] # Missing
  /\ attempt[g] # Missing => access[g]["batch"] # Missing

WorkWhole(p) ==
  LET w == work[p]
      g == work[p].grant IN
  /\ w.pc \in Preparing =>
       /\ access[g]["snapshot"] # Missing
       /\ \A q \in Operator \ {p} : work[q].grant = g => work[q].pc \notin Preparing
  /\ w.pc \in Batching =>
       /\ access[g]["batch"] # Missing
       /\ \A q \in Operator \ {p} : work[q].grant = g => work[q].pc \notin Batching
  /\ w.pc = "copy" => study[g] = Missing
  /\ w.pc \in {"admit", "hash"} => w.file = study[g].snapshot
  /\ w.pc \in {"hash", "launch"} => attempt[g] = Missing
  /\ w.pc \in {"replay", "settle"} => Batches!Open(g)

\* What is spent in vain without a death.
Explained(g) ==
  /\ access[g]["batch"] # Missing /\ access[g]["review"] = Missing =>
       attempt[g] = "rejected" \/ Engaged(g, Batching)
  /\ access[g]["snapshot"] # Missing /\ access[g]["snapshot_complete"] = Missing =>
       Engaged(g, Preparing) \/ (study[g] # Missing /\ study[g].failed)

PrivateOnce ==
  /\ \A g \in Grant : GrantOnce(g)
  /\ \A p \in Operator : WorkOnce(p)

PrivateWhole ==
  /\ \A g \in Grant : GrantWhole(g)
  /\ \A p \in Operator : WorkWhole(p)

PrivateSafe ==
  /\ PrivateTypes
  /\ damage <= 1 => PrivateOnce
  /\ damage = 0 => PrivateWhole
  /\ damage = 0 /\ deaths = 0 => \A g \in Grant : Explained(g)

PrivateInv ==
  /\ InputsTypeOK
  /\ IF workload = "private" THEN PrivateSafe ELSE PrivateInit

-----------------------------------------------------------------------------
(* What a step does to a process, and what that is to the invariant *)

\* A process that has nothing to do has its type.
LEMMA RestingWork == Resting \in Work
BY FounderAssumption DEF Resting, Work, Label, Maybe

\* A process goes on to another label.
LEMMA OperatorMoves ==
  ASSUME work \in [Operator -> Work], NEW p \in Operator, NEW label \in Label, Goto(p, label)
  PROVE  /\ work' \in [Operator -> Work]
         /\ \A q \in Operator \ {p} : work'[q] = work[q]
         /\ work'[p].pc = label /\ work'[p].grant = work[p].grant
         /\ work'[p].head = work[p].head /\ work'[p].rows = work[p].rows
         /\ work'[p].file = work[p].file /\ work'[p].result = work[p].result
<1>1. PICK new : new = [work[p] EXCEPT !.pc = label]
  OBVIOUS
<1>2. /\ new \in Work /\ new.pc = label /\ new.grant = work[p].grant
      /\ new.head = work[p].head /\ new.rows = work[p].rows
      /\ new.file = work[p].file /\ new.result = work[p].result
  BY <1>1 DEF Work
<1>3. work' = [work EXCEPT ![p] = new]
  BY <1>1 DEF Goto
<1> QED
  BY <1>2, <1>3

\* A process has ended its command.
LEMMA OperatorRests ==
  ASSUME work \in [Operator -> Work], NEW p \in Operator, Rest(p)
  PROVE  /\ work' \in [Operator -> Work]
         /\ \A q \in Operator \ {p} : work'[q] = work[q]
         /\ work'[p] = Resting /\ work'[p].pc = "idle"
BY RestingWork DEF Rest, Resting

\* Where the records stay as they are, a step is about what its process relies
\* on: it enters a spent stage from that stage only, and without a death or
\* damage it leaves it only when the stage is done.
Within(p, labels) == work[p].pc \in labels /\ work'[p].grant = work[p].grant

\* So the invariant is kept by a step that moves one process.
LEMMA OnlyMoves ==
  ASSUME PrivateSafe, NEW p \in Operator,
         UNCHANGED <<access, phase, study, attempt, reads, replays>>,
         authority' \subseteq Grant, anchor' \in BOOLEAN,
         registry' \in {"missing", "empty", "ready"},
         registry = "ready" => registry' = "ready",
         damage' = damage,
         work' \in [Operator -> Work],
         \A q \in Operator \ {p} : work'[q] = work[q],
         Ready(p)', work'[p].pc # "replay",
         damage <= 1 => WorkOnce(p)',
         damage = 0 => WorkWhole(p)',
         work'[p].pc \in Preparing => Within(p, Preparing),
         work'[p].pc \in Batching => Within(p, Batching),
         damage = 0 /\ deaths' = 0 =>
           /\ deaths = 0
           /\ work[p].pc \in Preparing =>
                work'[p].pc \in Preparing /\ work'[p].grant = work[p].grant
           /\ work[p].pc \in Batching /\ access[work[p].grant]["review"] = Missing =>
                work'[p].pc \in Batching /\ work'[p].grant = work[p].grant
  PROVE  PrivateSafe'
<1>1. PrivateTypes'
  <2>1. PrivateTypeOK'
    BY DEF PrivateSafe, PrivateTypes, PrivateTypeOK
  <2>2. \A q \in Operator \ {p} : Ready(q)'
    BY DEF PrivateSafe, PrivateTypes, Ready
  <2> QED
    BY <2>1, <2>2 DEF PrivateTypes
<1>2. ASSUME damage' <= 1
      PROVE  PrivateOnce'
  <2>1. PrivateOnce
    BY <1>2 DEF PrivateSafe
  <2>2. \A g \in Grant : GrantOnce(g)'
    BY <2>1 DEF PrivateOnce, GrantOnce
  <2>3. ASSUME NEW q \in Operator \ {p}
        PROVE  WorkOnce(q)'
    <3>1. WorkOnce(q) /\ work'[q] = work[q]
      BY <2>1 DEF PrivateOnce
    <3>2. \A o \in Operator \ {q} : work'[o].pc = "replay" => work'[o] = work[o]
      OBVIOUS
    <3> QED
      BY <3>1, <3>2 DEF WorkOnce
  <2> QED
    BY <1>2, <2>2, <2>3 DEF PrivateOnce
<1>3. ASSUME damage' = 0
      PROVE  PrivateWhole'
  <2>1. PrivateWhole
    BY <1>3 DEF PrivateSafe
  <2>2. \A g \in Grant : GrantWhole(g)'
    BY <2>1 DEF PrivateWhole, GrantWhole
  <2>3. ASSUME NEW q \in Operator \ {p}
        PROVE  WorkWhole(q)'
    <3>1. WorkWhole(q) /\ work'[q] = work[q]
      BY <2>1 DEF PrivateWhole
    <3>2. \A o \in Operator \ {q} :
            /\ work'[o].pc \in Preparing =>
                 work[o].pc \in Preparing /\ work'[o].grant = work[o].grant
            /\ work'[o].pc \in Batching =>
                 work[o].pc \in Batching /\ work'[o].grant = work[o].grant
      BY DEF Within
    <3> QED
      BY <3>1, <3>2 DEF WorkWhole, Batches!Open
  <2> QED
    BY <1>3, <2>2, <2>3 DEF PrivateWhole
<1>4. ASSUME damage' = 0, deaths' = 0, NEW g \in Grant
      PROVE  Explained(g)'
  <2>1. Explained(g)
    BY <1>4 DEF PrivateSafe
  <2>2. /\ Engaged(g, Preparing) => Engaged(g, Preparing)'
        /\ Engaged(g, Batching) /\ access[g]["review"] = Missing => Engaged(g, Batching)'
    BY <1>4 DEF Engaged
  <2> QED
    BY <2>1, <2>2 DEF Explained
<1> QED
  BY <1>1, <1>2, <1>3, <1>4 DEF PrivateSafe

-----------------------------------------------------------------------------
(* The steps that leave the records as they are *)

\* A command passes its gate.
LEMMA CommandBegins ==
  ASSUME PrivateSafe, InputsTypeOK, NEW p \in Operator, NEW g \in Grant,
         NEW label \in {"anchor", "authorize", "snapshot", "load"}, Begin(p, g, label),
         label = "load" => /\ study[g] # Missing /\ study[g].prepared \in Prepared
                           /\ study[g].descriptor \in Rows /\ study[g].plan \in Rows
  PROVE  PrivateSafe'
<1>1. PICK new : new = [Resting EXCEPT !.pc = label, !.grant = g, !.head = head]
  OBVIOUS
<1>2. new \in Work /\ new.pc = label /\ new.grant = g /\ new.head = head
  BY <1>1 DEF Resting, Work, Label, Maybe, InputsTypeOK
<1>3. /\ work[p].pc = "idle" /\ work' = [work EXCEPT ![p] = new]
      /\ UNCHANGED <<access, phase, study, attempt, reads, replays, authority, anchor, registry>>
      /\ UNCHANGED <<damage, deaths>>
  BY <1>1 DEF Begin, inputs, program, records, history
<1>4. /\ authority \subseteq Grant /\ anchor \in BOOLEAN
      /\ registry \in {"missing", "empty", "ready"} /\ work \in [Operator -> Work]
  BY DEF PrivateSafe, PrivateTypes, PrivateTypeOK
<1>5. /\ work' \in [Operator -> Work] /\ work'[p] = new
      /\ \A q \in Operator \ {p} : work'[q] = work[q]
  BY <1>2, <1>3, <1>4
<1>6. Ready(p)'
  BY <1>2, <1>3, <1>5 DEF Ready, InputsTypeOK
<1>7. WorkOnce(p)' /\ WorkWhole(p)'
  BY <1>2, <1>5 DEF WorkOnce, WorkWhole, Preparing, Batching
<1> QED
  BY <1>2, <1>3, <1>4, <1>5, <1>6, <1>7, OnlyMoves DEF Preparing, Batching

\* execute() begins with what the receipt was made of.
LEMMA CommandsBegin ==
  ASSUME PrivateSafe, InputsTypeOK, NEW p \in Operator,
         Initialize(p) \/ \E g \in Grant : AskAuthorization(p, g) \/ Prepare(p, g) \/ Execute(p, g)
  PROVE  PrivateSafe'
<1>1. CASE Initialize(p)
  BY <1>1, FounderAssumption, CommandBegins DEF Initialize
<1>2. ASSUME NEW g \in Grant, AskAuthorization(p, g)
      PROVE  PrivateSafe'
  BY <1>2, CommandBegins DEF AskAuthorization
<1>3. ASSUME NEW g \in Grant, Prepare(p, g)
      PROVE  PrivateSafe'
  BY <1>3, CommandBegins DEF Prepare
<1>4. ASSUME NEW g \in Grant, Execute(p, g)
      PROVE  PrivateSafe'
  <2>1. Receipt(g) \in Sealed /\ study[g] # Missing /\ Begin(p, g, "load")
    BY <1>4 DEF Execute, PrivateSafe, PrivateTypes, PrivateTypeOK, Maybe
  <2>2. /\ study[g].prepared \in Prepared
        /\ study[g].descriptor \in Rows /\ study[g].plan \in Rows
    <3>1. PICK r : r = Receipt(g)
      OBVIOUS
    <3>2. r.prepared \in Prepared /\ r.descriptor \in Rows /\ r.plan \in Rows
      BY <2>1, <3>1 DEF Sealed
    <3> QED
      BY <3>1, <3>2 DEF Receipt
  <2> QED
    BY <2>1, <2>2, CommandBegins
<1> QED
  BY <1>1, <1>2, <1>3, <1>4

\* The anchor and the tables, which no grant was spent for.
LEMMA Founds ==
  ASSUME PrivateSafe, NEW p \in Operator, WriteAnchor(p) \/ CreateTables(p)
  PROVE  PrivateSafe'
<1>1. PICK label \in {"tables", "authorize"} :
        /\ Goto(p, label)
        /\ work[p].pc \in {"anchor", "tables"}
        /\ UNCHANGED <<access, phase, study, attempt, reads, replays, authority, damage, deaths>>
        /\ anchor' \in BOOLEAN /\ registry' \in {"missing", "empty", "ready"}
        /\ registry = "ready" => registry' = "ready"
  BY DEF WriteAnchor, CreateTables, PrivateSafe, PrivateTypes, PrivateTypeOK, inputs, records, history
<1>2. /\ authority \subseteq Grant /\ work \in [Operator -> Work] /\ label \in Label
      /\ Ready(p)
  BY DEF PrivateSafe, PrivateTypes, PrivateTypeOK, Label
<1>3. Ready(p)' /\ WorkOnce(p)' /\ WorkWhole(p)'
  BY <1>1, <1>2, OperatorMoves DEF Ready, WorkOnce, WorkWhole, Preparing, Batching
<1> QED
  BY <1>1, <1>2, <1>3, OperatorMoves, OnlyMoves DEF Preparing, Batching

\* prepared.json and snapshot.json are read again: with all records in place
\* what they say of the snapshot is so.
LEMMA LoadsStudy ==
  ASSUME PrivateSafe, NEW p \in Operator, Load(p)
  PROVE  PrivateSafe'
<1>1. PICK g : g = work[p].grant /\ g \in Grant /\ study[g] # Missing /\ Ready(p)
               /\ study[g].prepared \in Prepared /\ study[g].descriptor \in Rows
               /\ work[p] \in Work /\ work[p].pc = "load"
  BY DEF PrivateSafe, PrivateTypes, PrivateTypeOK, Ready, Load, Work
<1>2. PICK new : new = [work[p] EXCEPT !.pc = "admit", !.rows = study[g].descriptor,
                                       !.file = study[g].prepared.file]
  OBVIOUS
<1>3. study[g].prepared.file \in Rows
  BY <1>1 DEF Prepared
<1>4. /\ new \in Work /\ new.pc = "admit" /\ new.grant = g /\ new.head = work[p].head
      /\ new.rows = study[g].descriptor /\ new.file = study[g].prepared.file
  BY <1>1, <1>2, <1>3 DEF Work, Label, Maybe
<1>5. /\ work' = [work EXCEPT ![p] = new]
      /\ UNCHANGED <<access, phase, study, attempt, reads, replays, authority, anchor, registry>>
      /\ UNCHANGED <<damage, deaths>>
  BY <1>1, <1>2 DEF Load, inputs, program, records, history
<1>6. /\ authority \subseteq Grant /\ anchor \in BOOLEAN
      /\ registry \in {"missing", "empty", "ready"} /\ work \in [Operator -> Work]
  BY DEF PrivateSafe, PrivateTypes, PrivateTypeOK
<1>7. /\ work' \in [Operator -> Work] /\ work'[p] = new
      /\ \A q \in Operator \ {p} : work'[q] = work[q]
  BY <1>4, <1>5, <1>6
<1>8. Ready(p)' /\ WorkOnce(p)'
  BY <1>1, <1>3, <1>4, <1>5, <1>7 DEF Ready, WorkOnce
<1>9. ASSUME damage = 0
      PROVE  WorkWhole(p)'
  <2>1. GrantWhole(g) /\ Missing \notin Prepared
    BY <1>1, <1>9, AbsenceAssumption DEF PrivateSafe, PrivateWhole
  <2>2. study[g].prepared.file = study[g].snapshot
    BY <1>1, <2>1 DEF GrantWhole
  <2> QED
    BY <1>4, <1>5, <1>7, <2>2 DEF WorkWhole, Preparing, Batching
<1> QED
  BY <1>1, <1>4, <1>5, <1>6, <1>7, <1>8, <1>9, OnlyMoves DEF Preparing, Batching

\* The snapshot's digest is taken, and nothing else.
LEMMA HashesSnapshot ==
  ASSUME PrivateSafe, NEW p \in Operator, HashSnapshot(p)
  PROVE  PrivateSafe'
<1>1. /\ Goto(p, "launch") /\ "launch" \in Label /\ work[p].pc = "hash"
      /\ UNCHANGED <<access, phase, study, attempt, reads, replays, authority, anchor, registry>>
      /\ UNCHANGED <<damage, deaths>>
  BY DEF HashSnapshot, Label, inputs, program, records, history
<1>2. /\ authority \subseteq Grant /\ anchor \in BOOLEAN
      /\ registry \in {"missing", "empty", "ready"} /\ work \in [Operator -> Work] /\ Ready(p)
  BY DEF PrivateSafe, PrivateTypes, PrivateTypeOK
<1>3. Ready(p)'
  BY <1>1, <1>2, OperatorMoves DEF Ready
<1>4. ASSUME damage <= 1
      PROVE  WorkOnce(p)'
  <2>1. WorkOnce(p)
    BY <1>4 DEF PrivateSafe, PrivateOnce
  <2> QED
    BY <1>1, <1>2, <2>1, OperatorMoves DEF WorkOnce
<1>5. ASSUME damage = 0
      PROVE  WorkWhole(p)'
  <2>1. WorkWhole(p)
    BY <1>5 DEF PrivateSafe, PrivateWhole
  <2> QED
    BY <1>1, <1>2, <2>1, OperatorMoves DEF WorkWhole, Preparing, Batching
<1>6. /\ work' \in [Operator -> Work] /\ \A q \in Operator \ {p} : work'[q] = work[q]
      /\ work'[p].pc = "launch" /\ work'[p].grant = work[p].grant
  BY <1>1, <1>2, OperatorMoves
<1>7. /\ Within(p, Batching) /\ work'[p].pc \in Batching
      /\ work'[p].pc \notin Preparing /\ work[p].pc \notin Preparing
  BY <1>1, <1>6 DEF Within, Preparing, Batching
<1> QED
  BY <1>1, <1>2, <1>3, <1>4, <1>5, <1>6, <1>7, OnlyMoves

-----------------------------------------------------------------------------
(* The steps that end a command otherwise *)

\* A command that ends may be one that held a stage only after a death or damage.
LEMMA CommandEnds ==
  ASSUME PrivateSafe, NEW p \in Operator, Rest(p),
         UNCHANGED <<access, phase, study, attempt, reads, replays, authority, anchor, damage>>,
         registry' \in {"missing", "empty", "ready"},
         registry = "ready" => registry' = "ready",
         damage = 0 /\ deaths' = 0 =>
           /\ deaths = 0
           /\ work[p].pc \notin Preparing
           /\ work[p].pc \in Batching => access[work[p].grant]["review"] # Missing
  PROVE  PrivateSafe'
<1>1. /\ authority \subseteq Grant /\ anchor \in BOOLEAN /\ work \in [Operator -> Work]
  BY DEF PrivateSafe, PrivateTypes, PrivateTypeOK
<1>2. /\ work' \in [Operator -> Work] /\ work'[p].pc = "idle"
      /\ \A q \in Operator \ {p} : work'[q] = work[q]
  BY <1>1, OperatorRests
<1>3. Ready(p)' /\ WorkOnce(p)' /\ WorkWhole(p)' /\ work'[p].pc \notin Preparing \union Batching
  BY <1>2 DEF Ready, WorkOnce, WorkWhole, Preparing, Batching
<1> QED
  BY <1>1, <1>2, <1>3, OnlyMoves

\* With all records in place, what a process that holds a spent stage expects
\* is there: only the revision read again can end its command.
LEMMA Raises ==
  ASSUME PrivateSafe, NEW p \in Operator, Raise(p)
  PROVE  PrivateSafe'
<1>1. /\ Rest(p)
      /\ UNCHANGED <<access, phase, study, attempt, reads, replays, authority, anchor, registry>>
      /\ UNCHANGED <<damage, deaths>>
  BY DEF Raise, inputs, program, records, history
<1>2. registry \in {"missing", "empty", "ready"}
  BY DEF PrivateSafe, PrivateTypes, PrivateTypeOK
<1>3. ASSUME damage = 0
      PROVE  work[p].pc \in {"anchor", "load"}
  <2>1. WorkWhole(p)
    BY <1>3 DEF PrivateSafe, PrivateWhole
  <2> QED
    BY <2>1 DEF Raise, WorkWhole
<1>4. damage = 0 => work[p].pc \notin Preparing \union Batching
  BY <1>3 DEF Preparing, Batching
<1> QED
  BY <1>1, <1>2, <1>4, CommandEnds

\* A process dies, and a stage it held is spent.
LEMMA Dies ==
  ASSUME PrivateSafe, InputsTypeOK, NEW p \in Operator, Die(p)
  PROVE  PrivateSafe'
<1>1. /\ Rest(p)
      /\ UNCHANGED <<access, phase, study, attempt, reads, replays, authority, anchor, registry>>
      /\ UNCHANGED damage /\ deaths' = deaths + 1 /\ deaths \in Nat
  BY InputBoundAssumption DEF Die, OneMoreDeath, InputsTypeOK, program, records, history
<1>2. registry \in {"missing", "empty", "ready"} /\ deaths' # 0
  BY <1>1 DEF PrivateSafe, PrivateTypes, PrivateTypeOK
<1> QED
  BY <1>1, <1>2, CommandEnds

\* A review that is refused was recorded before.
LEMMA RefusesOther ==
  ASSUME PrivateSafe, NEW p \in Operator, Refused(p), work[p].pc # "seal"
  PROVE  PrivateSafe'
<1>1. /\ Rest(p)
      /\ UNCHANGED <<access, phase, study, attempt, reads, replays, authority, anchor>>
      /\ UNCHANGED <<damage, deaths>>
  BY DEF Refused, inputs, history
<1>2. /\ registry' \in {"missing", "empty", "ready"}
      /\ registry = "ready" => registry' = "ready"
  BY DEF Refused, PrivateSafe, PrivateTypes, PrivateTypeOK
<1>3. work[p].pc \in {"authorize", "snapshot", "admit", "review"}
  BY DEF Refused, StageAt
<1>4. ASSUME damage = 0, work[p].pc = "review"
      PROVE  access[work[p].grant]["review"] # Missing
  <2>1. WorkWhole(p) /\ GrantWhole(work[p].grant)
    BY <1>4 DEF PrivateSafe, PrivateWhole, PrivateTypes, PrivateTypeOK, Work
  <2>2. access[work[p].grant]["batch"] # Missing
    BY <1>4, <2>1 DEF WorkWhole, Batching
  <2>3. registry = "ready"
    BY <2>1, <2>2 DEF GrantWhole, Stage
  <2> QED
    BY <1>4, <2>3 DEF Refused, StageAt
<1>5. work[p].pc \notin Preparing /\ (work[p].pc \in Batching => work[p].pc = "review")
  BY <1>3 DEF Preparing, Batching
<1> QED
  BY <1>1, <1>2, <1>4, <1>5, CommandEnds

-----------------------------------------------------------------------------
(* The steps that consume a stage *)

\* The row is new and of its stage's kind, and no other row changes.
LEMMA RowInserted ==
  ASSUME PrivateTypes, NEW g \in Grant, NEW stage \in Stage, NEW identity,
         Consume(g, stage, identity),
         \/ stage = "snapshot_complete" /\ identity \in Sealed
         \/ stage = "review" /\ identity \in Reviewed
         \/ stage \in {"authorization", "snapshot", "batch"} /\ identity \in Identity,
         UNCHANGED <<phase, study, attempt, reads, replays, authority>>,
         work' \in [Operator -> Work]
  PROVE  /\ PrivateTypeOK'
         /\ registry = "ready" /\ registry' = "ready"
         /\ access[g][stage] = Missing
         /\ access'[g][stage] = identity /\ identity # Missing
         /\ \A h \in Grant, s \in Stage : h # g \/ s # stage => access'[h][s] = access[h][s]
<1>1. /\ access \in [Grant -> [Stage -> Maybe(Identity \union Sealed \union Reviewed)]]
      /\ \A h \in Grant : /\ access[h]["snapshot_complete"] \in Maybe(Sealed)
                          /\ access[h]["review"] \in Maybe(Reviewed)
                          /\ \A s \in {"authorization", "snapshot", "batch"} :
                               access[h][s] \in Maybe(Identity)
  BY DEF PrivateTypes, PrivateTypeOK
<1>2. /\ registry = "ready" /\ registry' = "ready" /\ anchor' = anchor
      /\ access[g][stage] = Missing
      /\ access' = [access EXCEPT ![g][stage] = identity]
  BY DEF Consume
<1>3. /\ identity \in Maybe(Identity \union Sealed \union Reviewed) /\ identity # Missing
  BY AbsenceAssumption DEF Maybe
<1>4. PICK row : row = [access[g] EXCEPT ![stage] = identity]
  OBVIOUS
<1>5. /\ row \in [Stage -> Maybe(Identity \union Sealed \union Reviewed)]
      /\ row[stage] = identity
      /\ \A s \in Stage \ {stage} : row[s] = access[g][s]
  BY <1>1, <1>3, <1>4
<1>6. access' = [access EXCEPT ![g] = row]
  BY <1>1, <1>2, <1>4
<1>7. /\ access' \in [Grant -> [Stage -> Maybe(Identity \union Sealed \union Reviewed)]]
      /\ access'[g] = row
      /\ \A h \in Grant \ {g} : access'[h] = access[h]
  BY <1>1, <1>5, <1>6
<1>8. /\ access'[g][stage] = identity
      /\ \A h \in Grant, s \in Stage : h # g \/ s # stage => access'[h][s] = access[h][s]
  BY <1>5, <1>7
<1>9. \A h \in Grant : /\ access'[h]["snapshot_complete"] \in Maybe(Sealed)
                       /\ access'[h]["review"] \in Maybe(Reviewed)
                       /\ \A s \in {"authorization", "snapshot", "batch"} :
                            access'[h][s] \in Maybe(Identity)
  <2>1. ASSUME NEW h \in Grant
        PROVE  access'[h]["snapshot_complete"] \in Maybe(Sealed)
    BY <1>1, <1>8 DEF Stage, Maybe
  <2>2. ASSUME NEW h \in Grant
        PROVE  access'[h]["review"] \in Maybe(Reviewed)
    BY <1>1, <1>8 DEF Stage, Maybe
  <2>3. ASSUME NEW h \in Grant, NEW s \in {"authorization", "snapshot", "batch"}
        PROVE  access'[h][s] \in Maybe(Identity)
    BY <1>1, <1>8 DEF Stage, Maybe
  <2> QED
    BY <2>1, <2>2, <2>3
<1>10. PrivateTypeOK'
  BY <1>2, <1>7, <1>9 DEF PrivateTypes, PrivateTypeOK
<1> QED
  BY <1>2, <1>3, <1>8, <1>10

\* A stage's row changes what its process may go on to.
LEMMA ConsumesRow ==
  ASSUME PrivateSafe, NEW p \in Operator, NEW g \in Grant, g = work[p].grant,
         NEW stage \in Stage, NEW identity, NEW label \in {"idle", "copy", "hash"},
         Consume(g, stage, identity),
         \/ stage = "snapshot_complete" /\ identity \in Sealed
         \/ stage = "review" /\ identity \in Reviewed
         \/ stage \in {"authorization", "snapshot", "batch"} /\ identity \in Identity,
         UNCHANGED <<phase, study, attempt, reads, replays, authority, damage, deaths>>,
         IF label = "idle" THEN Rest(p) ELSE Goto(p, label),
         \/ /\ stage = "authorization" /\ label = "idle" /\ work[p].pc = "authorize"
         \/ /\ stage = "snapshot" /\ label = "copy" /\ work[p].pc = "snapshot"
         \/ /\ stage = "snapshot_complete" /\ label = "idle" /\ work[p].pc = "seal"
         \/ /\ stage = "batch" /\ label = "hash" /\ work[p].pc = "admit"
         \/ /\ stage = "review" /\ label = "idle" /\ work[p].pc = "review"
            /\ identity = [result |-> work[p].result]
  PROVE  PrivateSafe'
<1>1. work \in [Operator -> Work] /\ Ready(p) /\ PrivateTypes
  BY DEF PrivateSafe, PrivateTypes, PrivateTypeOK
<1>2. /\ work' \in [Operator -> Work] /\ work'[p].pc = label
      /\ \A q \in Operator \ {p} : work'[q] = work[q]
      /\ label # "idle" => /\ work'[p].grant = g /\ work'[p].head = work[p].head
                           /\ work'[p].rows = work[p].rows /\ work'[p].file = work[p].file
  BY <1>1, OperatorMoves, OperatorRests DEF Label
<1>3. /\ PrivateTypeOK'
      /\ registry = "ready" /\ registry' = "ready"
      /\ access[g][stage] = Missing
      /\ access'[g][stage] = identity /\ identity # Missing
      /\ \A h \in Grant, s \in Stage : h # g \/ s # stage => access'[h][s] = access[h][s]
  BY <1>1, <1>2, RowInserted
<1>4. \A h \in Grant, s \in Stage : access[h][s] # Missing => access'[h][s] # Missing
  BY <1>3
<1>5. PrivateTypes'
  <2>1. Ready(p)'
    BY <1>1, <1>2 DEF Ready
  <2>2. ASSUME NEW q \in Operator \ {p}
        PROVE  Ready(q)'
    <3>1. Ready(q) /\ work'[q] = work[q]
      BY <1>1, <1>2 DEF PrivateTypes
    <3> QED
      BY <3>1 DEF Ready
  <2> QED
    BY <1>3, <2>1, <2>2 DEF PrivateTypes
<1>6. ASSUME damage' <= 1
      PROVE  PrivateOnce'
  <2>1. PrivateOnce
    BY <1>6 DEF PrivateSafe
  <2>2. ASSUME NEW h \in Grant
        PROVE  GrantOnce(h)'
    <3>1. GrantOnce(h) /\ WorkOnce(p)
      BY <2>1 DEF PrivateOnce
    <3>2. /\ access[h]["snapshot"] # Missing => access'[h]["snapshot"] # Missing
          /\ access[h]["batch"] # Missing => access'[h]["batch"] # Missing
      BY <1>4 DEF Stage
    <3>3. CASE h = g /\ stage = "review"
      BY <1>3, <3>1, <3>2, <3>3 DEF GrantOnce, WorkOnce
    <3>4. CASE h # g \/ stage # "review"
      <4>1. access'[h]["review"] = access[h]["review"]
        BY <1>3, <3>4 DEF Stage
      <4> QED
        BY <3>1, <3>2, <4>1 DEF GrantOnce
    <3> QED
      BY <3>3, <3>4
  <2>3. WorkOnce(p)'
    <3>1. GrantOnce(g)
      BY <2>1 DEF PrivateOnce
    <3>2. CASE label = "idle"
      BY <1>2, <3>2 DEF WorkOnce
    <3>3. CASE label = "copy"
      BY <1>2, <1>3, <3>1, <3>3 DEF WorkOnce, GrantOnce
    <3>4. CASE label = "hash"
      BY <1>2, <1>3, <3>1, <3>4 DEF WorkOnce, GrantOnce
    <3> QED
      BY <3>2, <3>3, <3>4
  <2>4. ASSUME NEW q \in Operator \ {p}
        PROVE  WorkOnce(q)'
    <3>1. WorkOnce(q) /\ work'[q] = work[q] /\ work'[p].pc # "replay"
      BY <1>2, <2>1 DEF PrivateOnce
    <3> QED
      BY <1>2, <3>1 DEF WorkOnce
  <2> QED
    BY <2>2, <2>3, <2>4 DEF PrivateOnce
<1>7. ASSUME damage' = 0
      PROVE  PrivateWhole'
  <2>1. PrivateWhole
    BY <1>7 DEF PrivateSafe
  <2>2. ASSUME NEW h \in Grant
        PROVE  GrantWhole(h)'
    <3>1. GrantWhole(h)
      BY <2>1 DEF PrivateWhole
    <3>2. /\ access[h]["snapshot"] # Missing => access'[h]["snapshot"] # Missing
          /\ access[h]["batch"] # Missing => access'[h]["batch"] # Missing
      BY <1>4 DEF Stage
    <3> QED
      BY <1>3, <3>1, <3>2 DEF GrantWhole
  <2>3. WorkWhole(p)'
    <3>1. GrantWhole(g) /\ \A q \in Operator : WorkWhole(q)
      BY <2>1 DEF PrivateWhole
    <3>2. CASE label = "idle"
      BY <1>2, <3>2 DEF WorkWhole, Preparing, Batching
    <3>3. CASE label = "copy"
      <4>1. stage = "snapshot" /\ access[g]["snapshot"] = Missing /\ access'[g]["snapshot"] # Missing
        BY <1>3, <3>3
      <4>2. \A q \in Operator : work[q].grant = g => work[q].pc \notin Preparing
        BY <3>1, <4>1 DEF WorkWhole
      <4>3. study[g] = Missing
        BY <3>1, <4>1 DEF GrantWhole
      <4> QED
        BY <1>2, <3>3, <4>1, <4>2, <4>3 DEF WorkWhole, Preparing, Batching
    <3>4. CASE label = "hash"
      <4>1. stage = "batch" /\ access[g]["batch"] = Missing /\ access'[g]["batch"] # Missing
            /\ work[p].pc = "admit"
        BY <1>3, <3>4
      <4>2. \A q \in Operator : work[q].grant = g => work[q].pc \notin Batching
        BY <3>1, <4>1 DEF WorkWhole
      <4>3. attempt[g] = Missing /\ work[p].file = study[g].snapshot
        BY <3>1, <4>1 DEF GrantWhole, WorkWhole
      <4> QED
        BY <1>2, <3>4, <4>1, <4>2, <4>3 DEF WorkWhole, Preparing, Batching
    <3> QED
      BY <3>2, <3>3, <3>4
  <2>4. ASSUME NEW q \in Operator \ {p}
        PROVE  WorkWhole(q)'
    <3>1. WorkWhole(q) /\ WorkWhole(p) /\ work'[q] = work[q] /\ work[q].grant \in Grant
      BY <1>1, <1>2, <2>1 DEF PrivateWhole, Work
    <3>2. /\ access[work[q].grant]["snapshot"] # Missing => access'[work[q].grant]["snapshot"] # Missing
          /\ access[work[q].grant]["batch"] # Missing => access'[work[q].grant]["batch"] # Missing
      BY <1>4, <3>1 DEF Stage
    <3>3. work[q].pc \in Preparing /\ work[q].grant = g => label # "copy"
      BY <1>3, <3>1 DEF WorkWhole
    <3>4. work[q].pc \in Batching /\ work[q].grant = g => label # "hash"
      BY <1>3, <3>1 DEF WorkWhole
    <3>5. /\ \A o \in Operator \ {q} : o # p => work'[o] = work[o]
          /\ work'[p].pc \in Preparing => label = "copy" /\ work'[p].grant = g
          /\ work'[p].pc \in Batching => label = "hash" /\ work'[p].grant = g
      BY <1>2 DEF Preparing, Batching
    <3>6. /\ work[q].pc \in Preparing => \A o \in Operator \ {q} :
               work'[o].grant = work[q].grant => work'[o].pc \notin Preparing
          /\ work[q].pc \in Batching => \A o \in Operator \ {q} :
               work'[o].grant = work[q].grant => work'[o].pc \notin Batching
      BY <3>1, <3>3, <3>4, <3>5 DEF WorkWhole
    <3> QED
      BY <3>1, <3>2, <3>6 DEF WorkWhole, Batches!Open
  <2> QED
    BY <2>2, <2>3, <2>4 DEF PrivateWhole
<1>8. ASSUME damage' = 0, deaths' = 0, NEW h \in Grant
      PROVE  Explained(h)'
  <2>1. Explained(h)
    BY <1>8 DEF PrivateSafe
  <2>2. CASE h # g \/ stage = "authorization"
    <3>1. \A s \in Stage \ {"authorization"} : access'[h][s] = access[h][s]
      BY <1>3, <2>2
    <3>2. work[p].grant = h => work[p].pc = "authorize"
      BY <2>2
    <3>3. /\ Engaged(h, Preparing) => Engaged(h, Preparing)'
          /\ Engaged(h, Batching) => Engaged(h, Batching)'
      BY <1>2, <3>2 DEF Engaged, Preparing, Batching
    <3> QED
      BY <2>1, <3>1, <3>3 DEF Explained, Stage
  <2>3. CASE h = g /\ stage = "snapshot"
    <3>1. Engaged(h, Preparing)' /\ (Engaged(h, Batching) => Engaged(h, Batching)')
      BY <1>2, <2>3 DEF Engaged, Preparing, Batching
    <3>2. \A s \in {"batch", "review"} : access'[h][s] = access[h][s]
      BY <1>3, <2>3 DEF Stage
    <3> QED
      BY <2>1, <3>1, <3>2 DEF Explained
  <2>4. CASE h = g /\ stage = "snapshot_complete"
    <3>1. Engaged(h, Batching) => Engaged(h, Batching)'
      BY <1>2, <2>4 DEF Engaged, Preparing, Batching
    <3>2. /\ \A s \in {"batch", "review"} : access'[h][s] = access[h][s]
          /\ access'[h]["snapshot_complete"] # Missing
      BY <1>3, <2>4 DEF Stage
    <3> QED
      BY <2>1, <3>1, <3>2 DEF Explained
  <2>5. CASE h = g /\ stage = "batch"
    <3>1. Engaged(h, Batching)' /\ (Engaged(h, Preparing) => Engaged(h, Preparing)')
      BY <1>2, <2>5 DEF Engaged, Preparing, Batching
    <3>2. \A s \in {"snapshot", "snapshot_complete"} : access'[h][s] = access[h][s]
      BY <1>3, <2>5 DEF Stage
    <3> QED
      BY <2>1, <3>1, <3>2 DEF Explained
  <2>6. CASE h = g /\ stage = "review"
    <3>1. Engaged(h, Preparing) => Engaged(h, Preparing)'
      BY <1>2, <2>6 DEF Engaged, Preparing, Batching
    <3>2. /\ \A s \in {"snapshot", "snapshot_complete"} : access'[h][s] = access[h][s]
          /\ access'[h]["review"] # Missing
      BY <1>3, <2>6 DEF Stage
    <3> QED
      BY <2>1, <3>1, <3>2 DEF Explained
  <2> QED
    BY <2>2, <2>3, <2>4, <2>5, <2>6
<1> QED
  BY <1>5, <1>6, <1>7, <1>8 DEF PrivateSafe

\* Each of the five rows is inserted by the process that is at its stage.
LEMMA StageConsumed ==
  ASSUME PrivateSafe, NEW p \in Operator,
         Authorize(p) \/ ConsumeSnapshot(p) \/ Seal(p) \/ ConsumeBatch(p) \/ Review(p)
  PROVE  PrivateSafe'
<1>1. PICK g \in Grant : g = work[p].grant
  BY DEF PrivateSafe, PrivateTypes, PrivateTypeOK, Work
<1>2. Ready(p)
  BY DEF PrivateSafe, PrivateTypes
<1>3. CASE Authorize(p) \/ ConsumeSnapshot(p) \/ ConsumeBatch(p)
  <2>1. [head |-> work[p].head] \in Identity
    BY <1>2, <1>3 DEF Ready, Identity, Authorize, ConsumeSnapshot, ConsumeBatch
  <2>2. CASE Authorize(p)
    BY <1>1, <2>1, <2>2, ConsumesRow DEF Authorize, Stage, inputs, records, history
  <2>3. CASE ConsumeSnapshot(p)
    BY <1>1, <2>1, <2>3, ConsumesRow DEF ConsumeSnapshot, Stage, inputs, records, history
  <2>4. CASE ConsumeBatch(p)
    BY <1>1, <2>1, <2>4, ConsumesRow DEF ConsumeBatch, Stage, inputs, records, history
  <2> QED
    BY <1>3, <2>2, <2>3, <2>4
<1>4. CASE Seal(p)
  <2>1. Receipt(g) \in Sealed
    BY <1>1, <1>2, <1>4 DEF Ready, Receipt, Sealed, Seal
  <2> QED
    BY <1>1, <1>4, <2>1, ConsumesRow DEF Seal, Stage, inputs, records, history
<1>5. CASE Review(p)
  <2>1. [result |-> work[p].result] \in Reviewed
    BY <1>2, <1>5 DEF Ready, Reviewed, Review
  <2> QED
    BY <1>1, <1>5, <2>1, ConsumesRow DEF Review, Stage, inputs, records, history
<1> QED
  BY <1>3, <1>4, <1>5

-----------------------------------------------------------------------------
(* The steps that write the study's files *)

\* Nobody holds a file of a directory that is not there yet, and what is copied
\* is the only look at the price store.
LEMMA CopiesRows ==
  ASSUME PrivateSafe, InputsTypeOK, NEW p \in Operator, Copy(p)
  PROVE  PrivateSafe'
<1>1. PICK g \in Grant : g = work[p].grant
  BY DEF PrivateSafe, PrivateTypes, PrivateTypeOK, Work
<1>2. /\ work \in [Operator -> Work] /\ Ready(p) /\ PrivateTypes /\ PrivateTypeOK
      /\ study \in [Grant -> Maybe(Files)]
      /\ reads \in [Grant -> Seq(Rows \union {Broken})]
      /\ source \in Rows \union {Broken}
  BY DEF PrivateSafe, PrivateTypes, PrivateTypeOK, InputsTypeOK
<1>3. /\ work[p].pc = "copy" /\ study[g] = Missing
      /\ reads' = [reads EXCEPT ![g] = Append(reads[g], source)]
      /\ UNCHANGED <<access, registry, anchor, phase, attempt, replays, authority, damage, deaths>>
  BY <1>1 DEF Copy, program, inputs
<1>4. PICK new \in Files :
        /\ study' = [study EXCEPT ![g] = new]
        /\ new.descriptor = Missing /\ new.plan = Missing /\ new.prepared = Missing
        /\ \/ source = Broken /\ new.failed = TRUE /\ Rest(p)
           \/ /\ source \in Rows /\ new.snapshot = source
              /\ work' = [work EXCEPT ![p].pc = "freeze", ![p].rows = source]
  <2>1. CASE source = Broken
    <3>1. PICK new : new = [NewStudy EXCEPT !.failed = TRUE]
      OBVIOUS
    <3>2. /\ new \in Files /\ new.descriptor = Missing /\ new.plan = Missing
          /\ new.prepared = Missing /\ new.failed = TRUE
      BY <3>1 DEF Files, NewStudy, Maybe
    <3> QED
      BY <1>1, <2>1, <3>1, <3>2 DEF Copy
  <2>2. CASE source # Broken
    <3>1. PICK new : new = [NewStudy EXCEPT !.snapshot = source]
      OBVIOUS
    <3>2. /\ new \in Files /\ new.descriptor = Missing /\ new.plan = Missing
          /\ new.prepared = Missing /\ new.snapshot = source
      BY <1>2, <2>2, <3>1 DEF Files, NewStudy, Maybe
    <3> QED
      BY <1>1, <1>2, <2>2, <3>1, <3>2 DEF Copy
  <2> QED
    BY <2>1, <2>2
<1>5. /\ study' \in [Grant -> Maybe(Files)] /\ study'[g] = new /\ new # Missing
      /\ \A h \in Grant \ {g} : study'[h] = study[h]
  BY <1>2, <1>4, AbsenceAssumption DEF Maybe
<1>6. /\ reads' \in [Grant -> Seq(Rows \union {Broken})]
      /\ reads'[g] = Append(reads[g], source)
      /\ \A h \in Grant \ {g} : reads'[h] = reads[h]
  BY <1>2, <1>3, Appended
<1>7. /\ work' \in [Operator -> Work]
      /\ \A q \in Operator \ {p} : work'[q] = work[q]
      /\ \/ source = Broken /\ work'[p].pc = "idle" /\ new.failed = TRUE
         \/ /\ source \in Rows /\ new.snapshot = source
            /\ work'[p].pc = "freeze" /\ work'[p].grant = g
            /\ work'[p].rows = source /\ work'[p].head = work[p].head
  <2>1. CASE source = Broken /\ new.failed = TRUE /\ Rest(p)
    BY <1>2, <2>1, OperatorRests
  <2>2. CASE /\ source \in Rows /\ new.snapshot = source
             /\ work' = [work EXCEPT ![p].pc = "freeze", ![p].rows = source]
    <3>1. PICK t : t = [work[p] EXCEPT !.pc = "freeze", !.rows = source]
      OBVIOUS
    <3>2. /\ t \in Work /\ t.pc = "freeze" /\ t.grant = g /\ t.rows = source
          /\ t.head = work[p].head
      BY <1>1, <1>2, <2>2, <3>1 DEF Work, Label, Maybe
    <3>3. work' = [work EXCEPT ![p] = t]
      BY <2>2, <3>1
    <3> QED
      BY <1>2, <1>4, <2>2, <3>2, <3>3, RowsAssumption
  <2> QED
    BY <1>4, <2>1, <2>2
<1>8. PrivateTypes'
  <2>1. PrivateTypeOK'
    BY <1>2, <1>3, <1>5, <1>6, <1>7 DEF PrivateTypeOK
  <2>2. Ready(p)'
    BY <1>2, <1>3, <1>5, <1>7 DEF Ready
  <2>3. ASSUME NEW q \in Operator \ {p}
        PROVE  Ready(q)'
    <3>1. Ready(q) /\ work'[q] = work[q] /\ work[q].grant \in Grant
      BY <1>2, <1>7 DEF PrivateTypes, Work
    <3>2. work[q].grant = g => work[q].pc \in {"idle", "anchor", "tables", "authorize", "snapshot", "copy"}
      BY <1>2, <1>3, <3>1 DEF Ready, Work, Label
    <3> QED
      BY <1>5, <3>1, <3>2 DEF Ready
  <2> QED
    BY <2>1, <2>2, <2>3 DEF PrivateTypes
<1>9. \A q \in Operator : work[q].grant = g =>
        work[q].pc \in {"idle", "anchor", "tables", "authorize", "snapshot", "copy"}
  <2>1. \A q \in Operator : Ready(q) /\ work[q].pc \in Label
    BY <1>2 DEF PrivateTypes, Work
  <2> QED
    BY <1>3, <2>1 DEF Ready, Label
<1>10. ASSUME damage' <= 1
       PROVE  PrivateOnce'
  <2>1. PrivateOnce
    BY <1>3, <1>10 DEF PrivateSafe
  <2>2. reads[g] = <<>> /\ reads'[g] = <<source>>
    <3>1. WorkOnce(p)
      BY <2>1 DEF PrivateOnce
    <3>2. reads[g] = <<>>
      BY <1>1, <1>3, <3>1 DEF WorkOnce
    <3> QED
      BY <1>6, <3>2
  <2>3. ASSUME NEW h \in Grant
        PROVE  GrantOnce(h)'
    <3>1. GrantOnce(h)
      BY <2>1 DEF PrivateOnce
    <3>2. CASE h = g
      BY <1>2, <1>3, <1>4, <1>5, <2>2, <3>1, <3>2, Single DEF GrantOnce
    <3>3. CASE h # g
      BY <1>3, <1>5, <1>6, <3>1, <3>3 DEF GrantOnce
    <3> QED
      BY <3>2, <3>3
  <2>4. WorkOnce(p)'
    BY <1>7, <2>2 DEF WorkOnce
  <2>5. ASSUME NEW q \in Operator \ {p}
        PROVE  WorkOnce(q)'
    <3>1. WorkOnce(q) /\ work'[q] = work[q] /\ work'[p].pc # "replay" /\ work[q].grant \in Grant
      BY <1>2, <1>7, <2>1 DEF PrivateOnce, Work
    <3>2. CASE work[q].grant = g
      BY <1>3, <1>5, <1>7, <1>9, <3>1, <3>2 DEF WorkOnce
    <3>3. CASE work[q].grant # g
      <4>1. /\ reads'[work[q].grant] = reads[work[q].grant]
            /\ study'[work[q].grant] = study[work[q].grant]
        BY <1>5, <1>6, <3>1, <3>3
      <4>2. \A o \in Operator : work'[o].pc = "replay" => work'[o] = work[o]
        BY <1>7, <3>1
      <4> QED
        BY <1>3, <3>1, <4>1, <4>2 DEF WorkOnce
    <3> QED
      BY <3>2, <3>3
  <2> QED
    BY <2>3, <2>4, <2>5 DEF PrivateOnce
<1>11. ASSUME damage' = 0
       PROVE  PrivateWhole'
  <2>1. PrivateWhole
    BY <1>3, <1>11 DEF PrivateSafe
  <2>2. WorkWhole(p) /\ \A q \in Operator : WorkWhole(q)
    BY <2>1 DEF PrivateWhole
  <2>3. ASSUME NEW h \in Grant
        PROVE  GrantWhole(h)'
    <3>1. GrantWhole(h)
      BY <2>1 DEF PrivateWhole
    <3>2. CASE h = g
      <4>1. access[g]["snapshot"] # Missing
        BY <1>1, <1>3, <2>2 DEF WorkWhole, Preparing
      <4> QED
        BY <1>3, <1>4, <1>5, <3>1, <3>2, <4>1 DEF GrantWhole
    <3>3. CASE h # g
      BY <1>3, <1>5, <1>6, <3>1, <3>3 DEF GrantWhole
    <3> QED
      BY <3>2, <3>3
  <2>4. WorkWhole(p)'
    BY <1>1, <1>3, <1>7, <2>2 DEF WorkWhole, Preparing, Batching
  <2>5. ASSUME NEW q \in Operator \ {p}
        PROVE  WorkWhole(q)'
    <3>1. WorkWhole(q) /\ work'[q] = work[q] /\ work[q].grant \in Grant
      BY <1>2, <1>7, <2>2 DEF Work
    <3>2. /\ \A o \in Operator \ {q} : o # p => work'[o] = work[o]
          /\ work'[p].pc \in Preparing => work[p].pc \in Preparing /\ work'[p].grant = work[p].grant
          /\ work'[p].pc \notin Batching
      BY <1>1, <1>3, <1>7 DEF Preparing, Batching
    <3>3. /\ work[q].pc \in Preparing => \A o \in Operator \ {q} :
               work'[o].grant = work[q].grant => work'[o].pc \notin Preparing
          /\ work[q].pc \in Batching => \A o \in Operator \ {q} :
               work'[o].grant = work[q].grant => work'[o].pc \notin Batching
      BY <3>1, <3>2 DEF WorkWhole
    <3>4. work[q].pc = "copy" => work[q].grant # g
      BY <1>1, <1>3, <2>2, <3>1 DEF WorkWhole, Preparing
    <3>5. work[q].pc \in {"copy", "admit", "hash"} => study'[work[q].grant] = study[work[q].grant]
      BY <1>5, <1>9, <3>1, <3>4
    <3> QED
      BY <1>3, <3>1, <3>3, <3>5 DEF WorkWhole, Batches!Open
  <2> QED
    BY <2>3, <2>4, <2>5 DEF PrivateWhole
<1>12. ASSUME damage' = 0, deaths' = 0, NEW h \in Grant
       PROVE  Explained(h)'
  <2>1. Explained(h)
    BY <1>3, <1>12 DEF PrivateSafe
  <2>2. Engaged(h, Batching) => Engaged(h, Batching)'
    BY <1>3, <1>7 DEF Engaged, Batching
  <2>3. CASE h = g
    <3>1. Engaged(h, Preparing)' \/ study'[h].failed
      BY <1>5, <1>7, <2>3 DEF Engaged, Preparing
    <3> QED
      BY <1>3, <1>5, <2>1, <2>2, <2>3, <3>1 DEF Explained
  <2>4. CASE h # g
    <3>1. Engaged(h, Preparing) => Engaged(h, Preparing)'
      BY <1>1, <1>7, <2>4 DEF Engaged
    <3> QED
      BY <1>3, <1>5, <2>1, <2>2, <2>4, <3>1 DEF Explained
  <2> QED
    BY <2>3, <2>4
<1> QED
  BY <1>8, <1>10, <1>11, <1>12 DEF PrivateSafe

\* The files of a study are written again: the snapshot stays, and what was
\* prepared of it is complete and agrees with it.
LEMMA WritesFiles ==
  ASSUME PrivateSafe, NEW p \in Operator, NEW g \in Grant, g = work[p].grant,
         study[g] # Missing, NEW new \in Files,
         study' = [study EXCEPT ![g] = new],
         UNCHANGED <<access, phase, attempt, reads, replays, authority, anchor, damage, deaths>>,
         registry' \in {"missing", "empty", "ready"},
         registry = "ready" => registry' = "ready",
         new.snapshot = study[g].snapshot,
         \/ /\ work[p].pc = "freeze" /\ Goto(p, "seal")
            /\ new.descriptor = work[p].rows /\ new.plan = work[p].rows
            /\ new.prepared \in Prepared /\ new.prepared.file = study[g].snapshot
         \/ /\ work[p].pc = "seal" /\ Rest(p) /\ new.failed
            /\ new.descriptor = study[g].descriptor /\ new.plan = study[g].plan
            /\ new.prepared = study[g].prepared
  PROVE  PrivateSafe'
<1>1. /\ work \in [Operator -> Work] /\ Ready(p) /\ PrivateTypes /\ PrivateTypeOK
      /\ study \in [Grant -> Maybe(Files)]
  BY DEF PrivateSafe, PrivateTypes, PrivateTypeOK
<1>2. /\ study' \in [Grant -> Maybe(Files)] /\ study'[g] = new /\ new # Missing
      /\ \A h \in Grant \ {g} : study'[h] = study[h]
  BY <1>1, AbsenceAssumption DEF Maybe
<1>3. /\ work' \in [Operator -> Work]
      /\ \A q \in Operator \ {p} : work'[q] = work[q]
      /\ \/ /\ work[p].pc = "freeze" /\ work'[p].pc = "seal" /\ work'[p].grant = g
            /\ work'[p].head = work[p].head
         \/ work[p].pc = "seal" /\ work'[p].pc = "idle" /\ new.failed
  BY <1>1, OperatorMoves, OperatorRests DEF Label
<1>4. /\ \A h \in Grant : study[h] # Missing => study'[h] # Missing
      /\ study'[g].descriptor = study[g].descriptor \/ study'[g].descriptor \in Rows
      /\ study'[g].plan = study[g].plan \/ study'[g].plan \in Rows
      /\ study'[g].prepared = study[g].prepared \/ study'[g].prepared \in Prepared
  BY <1>1, <1>2 DEF Ready
<1>5. PrivateTypes'
  <2>1. PrivateTypeOK'
    BY <1>1, <1>2, <1>3 DEF PrivateTypeOK
  <2>2. Ready(p)'
    BY <1>1, <1>2, <1>3 DEF Ready
  <2>3. ASSUME NEW q \in Operator \ {p}
        PROVE  Ready(q)'
    <3>1. Ready(q) /\ work'[q] = work[q] /\ work[q].grant \in Grant
      BY <1>1, <1>3 DEF PrivateTypes, Work
    <3>2. CASE work[q].grant = g
      BY <1>2, <1>4, <3>1, <3>2 DEF Ready
    <3>3. CASE work[q].grant # g
      BY <1>2, <3>1, <3>3 DEF Ready
    <3> QED
      BY <3>2, <3>3
  <2> QED
    BY <2>1, <2>2, <2>3 DEF PrivateTypes
<1>6. ASSUME damage' <= 1
      PROVE  PrivateOnce'
  <2>1. PrivateOnce
    BY <1>6 DEF PrivateSafe
  <2>2. ASSUME NEW h \in Grant
        PROVE  GrantOnce(h)'
    <3>1. GrantOnce(h) /\ WorkOnce(p)
      BY <2>1 DEF PrivateOnce
    <3>2. CASE h = g /\ work[p].pc = "freeze"
      BY <1>2, <1>4, <3>1, <3>2 DEF GrantOnce, WorkOnce
    <3>3. CASE h = g /\ work[p].pc = "seal"
      BY <1>2, <1>4, <3>1, <3>3 DEF GrantOnce
    <3>4. CASE h # g
      BY <1>2, <3>1, <3>4 DEF GrantOnce
    <3> QED
      BY <3>2, <3>3, <3>4
  <2>3. WorkOnce(p)'
    BY <1>3 DEF WorkOnce
  <2>4. ASSUME NEW q \in Operator \ {p}
        PROVE  WorkOnce(q)'
    <3>1. WorkOnce(q) /\ work'[q] = work[q] /\ work[q].grant \in Grant
      BY <1>1, <1>3, <2>1 DEF PrivateOnce, Work
    <3>2. \A o \in Operator : work'[o].pc = "replay" => work'[o] = work[o]
      BY <1>3
    <3> QED
      BY <1>4, <3>1, <3>2 DEF WorkOnce
  <2> QED
    BY <2>2, <2>3, <2>4 DEF PrivateOnce
<1>7. ASSUME damage' = 0
      PROVE  PrivateWhole'
  <2>1. PrivateWhole
    BY <1>7 DEF PrivateSafe
  <2>2. WorkWhole(p) /\ \A q \in Operator : WorkWhole(q)
    BY <2>1 DEF PrivateWhole
  <2>3. ASSUME NEW h \in Grant
        PROVE  GrantWhole(h)'
    <3>1. GrantWhole(h)
      BY <2>1 DEF PrivateWhole
    <3>2. CASE h = g
      BY <1>2, <3>1, <3>2 DEF GrantWhole
    <3>3. CASE h # g
      BY <1>2, <3>1, <3>3 DEF GrantWhole
    <3> QED
      BY <3>2, <3>3
  <2>4. WorkWhole(p)'
    BY <1>3, <2>2 DEF WorkWhole, Preparing, Batching
  <2>5. ASSUME NEW q \in Operator \ {p}
        PROVE  WorkWhole(q)'
    <3>1. WorkWhole(q) /\ work'[q] = work[q] /\ work[q].grant \in Grant
      BY <1>1, <1>3, <2>2 DEF Work
    <3>2. /\ \A o \in Operator \ {q} : o # p => work'[o] = work[o]
          /\ work'[p].pc \in Preparing => work[p].pc \in Preparing /\ work'[p].grant = work[p].grant
          /\ work'[p].pc \notin Batching
      BY <1>3 DEF Preparing, Batching
    <3>3. /\ work[q].pc \in Preparing => \A o \in Operator \ {q} :
               work'[o].grant = work[q].grant => work'[o].pc \notin Preparing
          /\ work[q].pc \in Batching => \A o \in Operator \ {q} :
               work'[o].grant = work[q].grant => work'[o].pc \notin Batching
      BY <3>1, <3>2 DEF WorkWhole
    <3>4. work[q].pc = "copy" => study'[work[q].grant] = study[work[q].grant]
      BY <1>2, <3>1 DEF WorkWhole
    <3>5. study'[work[q].grant].snapshot = study[work[q].grant].snapshot
      BY <1>2, <3>1
    <3> QED
      BY <3>1, <3>3, <3>4, <3>5 DEF WorkWhole, Batches!Open
  <2> QED
    BY <2>3, <2>4, <2>5 DEF PrivateWhole
<1>8. ASSUME damage' = 0, deaths' = 0, NEW h \in Grant
      PROVE  Explained(h)'
  <2>1. Explained(h)
    BY <1>8 DEF PrivateSafe
  <2>2. Engaged(h, Batching) => Engaged(h, Batching)'
    BY <1>3 DEF Engaged, Batching
  <2>3. CASE h = g
    <3>1. Engaged(h, Preparing)' \/ study'[h].failed
      BY <1>2, <1>3, <2>3 DEF Engaged, Preparing
    <3> QED
      BY <1>2, <2>1, <2>2, <2>3, <3>1 DEF Explained
  <2>4. CASE h # g
    <3>1. Engaged(h, Preparing) => Engaged(h, Preparing)'
      BY <1>3, <2>4 DEF Engaged
    <3> QED
      BY <1>2, <2>1, <2>2, <2>4, <3>1 DEF Explained
  <2> QED
    BY <2>3, <2>4
<1> QED
  BY <1>5, <1>6, <1>7, <1>8 DEF PrivateSafe

\* The package is frozen, or its receipt cannot be recorded.
LEMMA FilesWritten ==
  ASSUME PrivateSafe, NEW p \in Operator, Freeze(p) \/ (Refused(p) /\ work[p].pc = "seal")
  PROVE  PrivateSafe'
<1>1. PICK g \in Grant : g = work[p].grant
  BY DEF PrivateSafe, PrivateTypes, PrivateTypeOK, Work
<1>2. /\ Ready(p) /\ work[p].pc \in {"freeze", "seal"} /\ study \in [Grant -> Maybe(Files)]
      /\ registry \in {"missing", "empty", "ready"}
  BY DEF PrivateSafe, PrivateTypes, PrivateTypeOK, Freeze
<1>3. study[g] \in Files /\ study[g] # Missing
  BY <1>1, <1>2 DEF Ready, Maybe
<1>4. CASE Freeze(p)
  <2>1. PICK f, revision, rows, new :
          /\ f = study[g] /\ revision = work[p].head /\ rows = work[p].rows
          /\ new = [f EXCEPT !.descriptor = rows, !.plan = rows, !.package = "approved",
                             !.prepared = [head |-> revision, file |-> f.snapshot]]
    OBVIOUS
  <2>2. f \in Files /\ f.snapshot \in Rows /\ revision \in Revision /\ rows \in Rows
    BY <1>1, <1>2, <1>3, <1>4, <2>1 DEF Ready, Freeze
  <2>3. [head |-> revision, file |-> f.snapshot] \in Prepared
    BY <2>2 DEF Prepared
  <2>4. /\ new \in Files /\ new.snapshot = f.snapshot
        /\ new.descriptor = rows /\ new.plan = rows
        /\ new.prepared = [head |-> revision, file |-> f.snapshot]
    BY <2>1, <2>2, <2>3 DEF Files, Maybe
  <2>5. /\ study' = [study EXCEPT ![g] = new]
        /\ UNCHANGED <<access, phase, attempt, reads, replays, authority, anchor, registry>>
        /\ UNCHANGED <<damage, deaths>> /\ work[p].pc = "freeze" /\ Goto(p, "seal")
    BY <1>1, <1>2, <1>4, <2>1 DEF Freeze, program, inputs, history
  <2>6. new.prepared \in Prepared /\ new.prepared.file = f.snapshot
    BY <2>3, <2>4
  <2> QED
    BY <1>1, <1>2, <1>3, <2>1, <2>4, <2>5, <2>6, WritesFiles
<1>5. CASE Refused(p) /\ work[p].pc = "seal"
  <2>1. PICK f, new : f = study[g] /\ new = [f EXCEPT !.failed = TRUE]
    OBVIOUS
  <2>2. /\ new \in Files /\ new.snapshot = f.snapshot /\ new.failed
        /\ new.descriptor = f.descriptor /\ new.plan = f.plan /\ new.prepared = f.prepared
    BY <1>3, <2>1 DEF Files
  <2>3. /\ study' = [study EXCEPT ![g] = new]
        /\ UNCHANGED <<access, phase, attempt, reads, replays, authority, anchor>>
        /\ registry' \in {"missing", "empty", "ready"}
        /\ registry = "ready" => registry' = "ready"
        /\ UNCHANGED <<damage, deaths>> /\ Rest(p)
    BY <1>1, <1>2, <1>5, <2>1 DEF Refused, inputs, history
  <2> QED
    BY <1>1, <1>3, <1>5, <2>1, <2>2, <2>3, WritesFiles
<1> QED
  BY <1>4, <1>5

-----------------------------------------------------------------------------
(* The batch *)

\* An attempt is made once: whatever became of it, open batches stay open, and
\* only an admitted one goes on to the replay.
LEMMA AttemptMade ==
  ASSUME PrivateSafe, NEW p \in Operator, NEW g \in Grant, g = work[p].grant,
         NEW value \in {"blocked", "rejected", "admitted"}, NEW t \in Work,
         work[p].pc = "launch", attempt[g] = Missing,
         attempt' = [attempt EXCEPT ![g] = value],
         work' = [work EXCEPT ![p] = t],
         UNCHANGED <<access, study, reads, replays, authority, anchor, damage, deaths>>,
         registry' \in {"missing", "empty", "ready"},
         registry = "ready" => registry' = "ready",
         phase' \in [Grant -> Maybe(PhaseRow)],
         \A h \in Grant : phase[h] # Missing /\ phase[h].outcome = "open" => phase'[h] = phase[h],
         t.result \in {Missing, "incomplete"},
         \/ t.pc = "idle" /\ value = "rejected"
         \/ /\ t.pc \in {"review", "settle", "replay"} /\ t.grant = g
            /\ t.head = work[p].head /\ t.rows = work[p].rows /\ t.result = "incomplete",
         t.pc \in {"replay", "settle"} => phase'[g] # Missing /\ phase'[g].outcome = "open",
         t.pc = "replay" =>
           study[g].descriptor = work[p].rows /\ study[g].plan = work[p].rows
  PROVE  PrivateSafe'
<1>1. /\ work \in [Operator -> Work] /\ Ready(p) /\ PrivateTypes /\ PrivateTypeOK
      /\ attempt \in [Grant -> Maybe({"blocked", "rejected", "admitted"})]
      /\ study[g] # Missing /\ work[p].rows \in Rows /\ work[p].head \in Revision
  BY DEF PrivateSafe, PrivateTypes, PrivateTypeOK, Ready
<1>2. /\ attempt' \in [Grant -> Maybe({"blocked", "rejected", "admitted"})]
      /\ attempt'[g] = value /\ value # Missing
      /\ \A h \in Grant \ {g} : attempt'[h] = attempt[h]
  BY <1>1, AbsenceAssumption DEF Maybe
<1>3. /\ work' \in [Operator -> Work] /\ work'[p] = t
      /\ \A q \in Operator \ {p} : work'[q] = work[q]
  BY <1>1
<1>4. PrivateTypes'
  <2>1. PrivateTypeOK'
    BY <1>1, <1>2, <1>3 DEF PrivateTypeOK
  <2>2. Ready(p)'
    BY <1>1, <1>3 DEF Ready
  <2>3. ASSUME NEW q \in Operator \ {p}
        PROVE  Ready(q)'
    <3>1. Ready(q) /\ work'[q] = work[q]
      BY <1>1, <1>3 DEF PrivateTypes
    <3> QED
      BY <3>1 DEF Ready
  <2> QED
    BY <2>1, <2>2, <2>3 DEF PrivateTypes
<1>5. ASSUME damage' <= 1
      PROVE  PrivateOnce'
  <2>1. PrivateOnce
    BY <1>5 DEF PrivateSafe
  <2>2. ASSUME NEW h \in Grant
        PROVE  GrantOnce(h)'
    <3>1. GrantOnce(h)
      BY <2>1 DEF PrivateOnce
    <3>2. attempt[h] # Missing => attempt'[h] # Missing
      BY <1>2
    <3> QED
      BY <3>1, <3>2 DEF GrantOnce
  <2>3. WorkOnce(p)'
    <3>1. CASE t.pc = "replay"
      <4>1. GrantOnce(g) /\ \A q \in Operator : WorkOnce(q)
        BY <2>1 DEF PrivateOnce
      <4>2. reads[g] = <<work[p].rows>>
        BY <1>1, <3>1, <4>1, RowsAssumption DEF GrantOnce
      <4>3. replays[g] = <<>>
        BY <4>1 DEF WorkOnce
      <4>4. \A q \in Operator \ {p} : work[q].grant = g => work[q].pc # "replay"
        BY <4>1 DEF WorkOnce
      <4> QED
        BY <1>2, <1>3, <3>1, <4>2, <4>3, <4>4 DEF WorkOnce
    <3>2. CASE t.pc # "replay"
      BY <1>3, <3>2, RowsAssumption, AbsenceAssumption DEF WorkOnce
    <3> QED
      BY <3>1, <3>2
  <2>4. ASSUME NEW q \in Operator \ {p}
        PROVE  WorkOnce(q)'
    <3>1. WorkOnce(q) /\ work'[q] = work[q] /\ work[q].grant \in Grant
      BY <1>1, <1>3, <2>1 DEF PrivateOnce, Work
    <3>2. attempt[work[q].grant] # Missing => attempt'[work[q].grant] = attempt[work[q].grant]
      BY <1>2, <3>1
    <3>3. work[q].pc = "replay" => work[q].grant # g
      BY <3>1 DEF WorkOnce
    <3>4. \A o \in Operator : work'[o].pc = "replay" => work'[o] = work[o] \/ work'[o].grant = g
      BY <1>3
    <3> QED
      BY <1>2, <3>1, <3>2, <3>3, <3>4 DEF WorkOnce
  <2> QED
    BY <2>2, <2>3, <2>4 DEF PrivateOnce
<1>6. ASSUME damage' = 0
      PROVE  PrivateWhole'
  <2>1. PrivateWhole
    BY <1>6 DEF PrivateSafe
  <2>2. WorkWhole(p) /\ \A q \in Operator : WorkWhole(q)
    BY <2>1 DEF PrivateWhole
  <2>3. access[g]["batch"] # Missing
    BY <2>2 DEF WorkWhole, Batching
  <2>4. ASSUME NEW h \in Grant
        PROVE  GrantWhole(h)'
    <3>1. GrantWhole(h)
      BY <2>1 DEF PrivateWhole
    <3>2. attempt'[h] # Missing => attempt[h] # Missing \/ h = g
      BY <1>2
    <3> QED
      BY <1>2, <2>3, <3>1, <3>2 DEF GrantWhole
  <2>5. WorkWhole(p)'
    BY <1>3, <2>2, <2>3 DEF WorkWhole, Preparing, Batching, Batches!Open
  <2>6. ASSUME NEW q \in Operator \ {p}
        PROVE  WorkWhole(q)'
    <3>1. WorkWhole(q) /\ work'[q] = work[q] /\ work[q].grant \in Grant
      BY <1>1, <1>3, <2>2 DEF Work
    <3>2. work[q].pc \in Batching => work[q].grant # g
      BY <2>2 DEF WorkWhole, Batching
    <3>3. /\ \A o \in Operator \ {q} : o # p => work'[o] = work[o]
          /\ work'[p].pc \notin Preparing
          /\ work'[p].pc \in Batching => work'[p].grant = g
      BY <1>3 DEF Preparing, Batching
    <3>4. /\ work[q].pc \in Preparing => \A o \in Operator \ {q} :
               work'[o].grant = work[q].grant => work'[o].pc \notin Preparing
          /\ work[q].pc \in Batching => \A o \in Operator \ {q} :
               work'[o].grant = work[q].grant => work'[o].pc \notin Batching
      BY <3>1, <3>2, <3>3 DEF WorkWhole
    <3>5. /\ work[q].pc \in {"hash", "launch"} => attempt'[work[q].grant] = attempt[work[q].grant]
          /\ work[q].pc \in {"replay", "settle"} =>
               phase'[work[q].grant] # Missing /\ phase'[work[q].grant].outcome = "open"
      BY <1>2, <3>1, <3>2 DEF WorkWhole, Batching, Batches!Open
    <3> QED
      BY <3>1, <3>4, <3>5 DEF WorkWhole, Batches!Open
  <2> QED
    BY <2>4, <2>5, <2>6 DEF PrivateWhole
<1>7. ASSUME damage' = 0, deaths' = 0, NEW h \in Grant
      PROVE  Explained(h)'
  <2>1. Explained(h)
    BY <1>7 DEF PrivateSafe
  <2>2. Engaged(h, Preparing) => Engaged(h, Preparing)'
    BY <1>3 DEF Engaged, Preparing
  <2>3. CASE h = g
    <3>1. Engaged(h, Batching)' \/ attempt'[h] = "rejected"
      BY <1>2, <1>3, <2>3 DEF Engaged, Batching
    <3> QED
      BY <2>1, <2>2, <3>1 DEF Explained
  <2>4. CASE h # g
    <3>1. Engaged(h, Batching) => Engaged(h, Batching)'
      BY <1>3, <2>4 DEF Engaged
    <3> QED
      BY <1>2, <2>1, <2>2, <2>4, <3>1 DEF Explained
  <2> QED
    BY <2>3, <2>4
<1> QED
  BY <1>4, <1>5, <1>6, <1>7 DEF PrivateSafe

\* The batch is blocked, rejected or admitted.
LEMMA BatchLaunched ==
  ASSUME PrivateSafe, NEW p \in Operator, Block(p) \/ Reject(p) \/ Admit(p)
  PROVE  PrivateSafe'
<1>1. PICK g \in Grant : g = work[p].grant
  BY DEF PrivateSafe, PrivateTypes, PrivateTypeOK, Work
<1>2. /\ work \in [Operator -> Work] /\ work[p] \in Work /\ Ready(p)
      /\ registry \in {"missing", "empty", "ready"}
      /\ phase \in [Grant -> Maybe(PhaseRow)]
  BY DEF PrivateSafe, PrivateTypes, PrivateTypeOK
<1>3. /\ work[p].pc = "launch" /\ attempt[g] = Missing /\ work[p].rows \in Rows
      /\ UNCHANGED <<access, study, reads, replays, authority, anchor, damage, deaths>>
  BY <1>1, <1>2 DEF Block, Reject, Admit, Ready, program, inputs, history
<1>4. CASE Block(p)
  <2>1. PICK t : t = [work[p] EXCEPT !.pc = "review", !.result = "incomplete"]
    OBVIOUS
  <2>2. /\ t \in Work /\ t.pc = "review" /\ t.grant = g /\ t.head = work[p].head
        /\ t.rows = work[p].rows /\ t.result = "incomplete"
    BY <1>1, <1>2, <2>1 DEF Work, Label, Maybe
  <2>3. /\ attempt' = [attempt EXCEPT ![g] = "blocked"] /\ work' = [work EXCEPT ![p] = t]
        /\ UNCHANGED <<registry, phase>>
    BY <1>1, <1>4, <2>1 DEF Block, program
  <2> QED
    BY <1>1, <1>2, <1>3, <2>2, <2>3, AttemptMade
<1>5. CASE Reject(p)
  <2>1. /\ attempt' = [attempt EXCEPT ![g] = "rejected"] /\ work' = [work EXCEPT ![p] = Resting]
        /\ registry' = "ready" /\ UNCHANGED phase
    BY <1>1, <1>5 DEF Reject, Rest
  <2>2. Resting \in Work /\ Resting.pc = "idle" /\ Resting.result = Missing
    BY RestingWork DEF Resting
  <2> QED
    BY <1>1, <1>2, <1>3, <2>1, <2>2, AttemptMade
<1>6. CASE Admit(p)
  <2>1. PICK label \in {"replay", "settle"} :
          work' = [work EXCEPT ![p].pc = label, ![p].result = "incomplete"]
    BY <1>1, <1>6 DEF Admit
  <2>2. PICK t : t = [work[p] EXCEPT !.pc = label, !.result = "incomplete"]
    OBVIOUS
  <2>3. work' = [work EXCEPT ![p] = t]
    BY <1>2, <2>1, <2>2
  <2>4. /\ t \in Work /\ t.pc = label /\ t.grant = g /\ t.head = work[p].head
        /\ t.rows = work[p].rows /\ t.result = "incomplete"
    BY <1>1, <1>2, <2>2 DEF Work, Label, Maybe
  <2>5. PICK row : row = [batch |-> g, plan |-> [study |-> g, rows |-> work[p].rows],
                          outcome |-> "open"]
    OBVIOUS
  <2>6. row \in PhaseRow /\ row.outcome = "open" /\ row # Missing
    BY <1>3, <2>5, AbsenceAssumption DEF PhaseRow
  <2>7. /\ phase' = [phase EXCEPT ![g] = row]
        /\ \A h \in Grant : ~(phase[h] # Missing /\ phase[h].outcome = "open")
        /\ attempt' = [attempt EXCEPT ![g] = "admitted"] /\ registry' = "ready"
        /\ study[g].descriptor = work[p].rows /\ study[g].plan = work[p].rows
    BY <1>1, <1>6, <2>5 DEF Admit, Approved, Batches!Reserve, Batches!Open
  <2>8. phase' \in [Grant -> Maybe(PhaseRow)] /\ phase'[g] = row
    BY <1>2, <2>6, <2>7 DEF Maybe
  <2> QED
    BY <1>1, <1>2, <1>3, <2>3, <2>4, <2>6, <2>7, <2>8, AttemptMade
<1> QED
  BY <1>4, <1>5, <1>6

\* Rows are replayed once for a grant, and only those that were prepared.
LEMMA ReplaysRows ==
  ASSUME PrivateSafe, NEW p \in Operator, Replay(p)
  PROVE  PrivateSafe'
<1>1. PICK g \in Grant : g = work[p].grant
  BY DEF PrivateSafe, PrivateTypes, PrivateTypeOK, Work
<1>2. /\ work \in [Operator -> Work] /\ work[p] \in Work /\ Ready(p)
      /\ PrivateTypes /\ PrivateTypeOK /\ replays \in [Grant -> Seq(Rows)]
  BY DEF PrivateSafe, PrivateTypes, PrivateTypeOK
<1>3. /\ work[p].pc = "replay" /\ work[p].rows \in Rows /\ work[p].head \in Revision
      /\ work[p].result = "incomplete" /\ study[g] # Missing
      /\ UNCHANGED <<access, registry, anchor, phase, study, attempt, reads, authority>>
      /\ UNCHANGED <<damage, deaths>>
  BY <1>1, <1>2 DEF Replay, Ready, program, records, inputs
<1>4. PICK t \in Work :
        /\ work' = [work EXCEPT ![p] = t]
        /\ t.pc = "settle" /\ t.grant = g /\ t.head = work[p].head
        /\ \/ /\ t.result = work[p].rows
              /\ replays' = [replays EXCEPT ![g] = Append(replays[g], work[p].rows)]
           \/ t.result = work[p].result /\ replays' = replays
  <2>1. CASE study[g].snapshot = work[p].rows
    <3>1. PICK t : t = [work[p] EXCEPT !.pc = "settle", !.result = work[p].rows]
      OBVIOUS
    <3>2. /\ t \in Work /\ t.pc = "settle" /\ t.grant = g /\ t.head = work[p].head
          /\ t.result = work[p].rows
      BY <1>1, <1>2, <1>3, <3>1 DEF Work, Label, Maybe
    <3>3. /\ work' = [work EXCEPT ![p].pc = "settle", ![p].result = work[p].rows]
          /\ replays' = [replays EXCEPT ![g] = Append(replays[g], work[p].rows)]
      BY <1>1, <2>1 DEF Replay
    <3> QED
      BY <3>1, <3>2, <3>3
  <2>2. CASE study[g].snapshot # work[p].rows
    <3>1. PICK t : t = [work[p] EXCEPT !.pc = "settle"]
      OBVIOUS
    <3>2. /\ t \in Work /\ t.pc = "settle" /\ t.grant = g /\ t.head = work[p].head
          /\ t.result = work[p].result
      BY <1>1, <1>2, <1>3, <3>1 DEF Work, Label
    <3>3. work' = [work EXCEPT ![p].pc = "settle"] /\ replays' = replays
      BY <1>1, <2>2 DEF Replay, Goto
    <3> QED
      BY <3>1, <3>2, <3>3
  <2> QED
    BY <2>1, <2>2
<1>5. /\ work' \in [Operator -> Work] /\ work'[p] = t
      /\ \A q \in Operator \ {p} : work'[q] = work[q]
  BY <1>2, <1>4
<1>6. /\ replays' \in [Grant -> Seq(Rows)]
      /\ \A h \in Grant \ {g} : replays'[h] = replays[h]
      /\ replays'[g] = replays[g] \/ replays'[g] = Append(replays[g], work[p].rows)
  <2>1. CASE replays' = replays
    BY <1>2, <2>1
  <2>2. CASE replays' = [replays EXCEPT ![g] = Append(replays[g], work[p].rows)]
    BY <1>2, <1>3, <2>2, Appended
  <2> QED
    BY <1>4, <2>1, <2>2
<1>7. PrivateTypes'
  <2>1. PrivateTypeOK'
    BY <1>2, <1>3, <1>5, <1>6 DEF PrivateTypeOK
  <2>2. Ready(p)'
    BY <1>3, <1>4, <1>5 DEF Ready
  <2>3. ASSUME NEW q \in Operator \ {p}
        PROVE  Ready(q)'
    <3>1. Ready(q) /\ work'[q] = work[q]
      BY <1>2, <1>5 DEF PrivateTypes
    <3> QED
      BY <1>3, <3>1 DEF Ready
  <2> QED
    BY <2>1, <2>2, <2>3 DEF PrivateTypes
<1>8. ASSUME damage' <= 1
      PROVE  PrivateOnce'
  <2>1. PrivateOnce
    BY <1>3, <1>8 DEF PrivateSafe
  <2>2. /\ reads[g] = <<work[p].rows>> /\ replays[g] = <<>> /\ attempt[g] # Missing
        /\ \A q \in Operator \ {p} : work[q].grant = g => work[q].pc # "replay"
        /\ Len(reads[g]) = 1
    <3>1. WorkOnce(p)
      BY <2>1 DEF PrivateOnce
    <3> QED
      BY <1>1, <1>3, <3>1, Single DEF WorkOnce
  <2>3. replays'[g] = <<>> \/ replays'[g] = <<work[p].rows>>
    BY <1>6, <2>2
  <2>4. ASSUME NEW h \in Grant
        PROVE  GrantOnce(h)'
    <3>1. GrantOnce(h)
      BY <2>1 DEF PrivateOnce
    <3>2. CASE h = g
      BY <1>3, <2>2, <2>3, <3>1, <3>2 DEF GrantOnce
    <3>3. CASE h # g
      BY <1>3, <1>6, <3>1, <3>3 DEF GrantOnce
    <3> QED
      BY <3>2, <3>3
  <2>5. WorkOnce(p)'
    <3>1. t.result \in Rows => t.result = work[p].rows
      BY <1>3, <1>4, AbsenceAssumption
    <3> QED
      BY <1>3, <1>4, <1>5, <2>2, <3>1 DEF WorkOnce
  <2>6. ASSUME NEW q \in Operator \ {p}
        PROVE  WorkOnce(q)'
    <3>1. WorkOnce(q) /\ work'[q] = work[q] /\ work[q].grant \in Grant
      BY <1>2, <1>5, <2>1 DEF PrivateOnce, Work
    <3>2. \A o \in Operator : work'[o].pc = "replay" => work'[o] = work[o]
      BY <1>4, <1>5
    <3>3. CASE work[q].grant = g
      BY <1>3, <2>2, <3>1, <3>2, <3>3 DEF WorkOnce
    <3>4. CASE work[q].grant # g
      BY <1>3, <1>6, <3>1, <3>2, <3>4 DEF WorkOnce
    <3> QED
      BY <3>3, <3>4
  <2> QED
    BY <2>4, <2>5, <2>6 DEF PrivateOnce
<1>9. ASSUME damage' = 0
      PROVE  PrivateWhole'
  <2>1. PrivateWhole /\ PrivateOnce
    BY <1>3, <1>9 DEF PrivateSafe
  <2>2. WorkWhole(p) /\ WorkOnce(p) /\ \A q \in Operator : WorkWhole(q)
    BY <2>1 DEF PrivateWhole, PrivateOnce
  <2>3. ASSUME NEW h \in Grant
        PROVE  GrantWhole(h)'
    <3>1. GrantWhole(h)
      BY <2>1 DEF PrivateWhole
    <3>2. replays'[h] # replays[h] => attempt[h] # Missing
      BY <1>1, <1>3, <1>6, <2>2 DEF WorkOnce
    <3> QED
      BY <1>3, <3>1, <3>2 DEF GrantWhole
  <2>4. WorkWhole(p)'
    BY <1>1, <1>3, <1>4, <1>5, <2>2 DEF WorkWhole, Preparing, Batching, Batches!Open
  <2>5. ASSUME NEW q \in Operator \ {p}
        PROVE  WorkWhole(q)'
    <3>1. WorkWhole(q) /\ work'[q] = work[q]
      BY <1>5, <2>2
    <3>2. /\ \A o \in Operator \ {q} : o # p => work'[o] = work[o]
          /\ work'[p].pc \notin Preparing /\ work[p].pc \in Batching
          /\ work'[p].grant = work[p].grant
      BY <1>1, <1>3, <1>4, <1>5 DEF Preparing, Batching
    <3>3. /\ work[q].pc \in Preparing => \A o \in Operator \ {q} :
               work'[o].grant = work[q].grant => work'[o].pc \notin Preparing
          /\ work[q].pc \in Batching => \A o \in Operator \ {q} :
               work'[o].grant = work[q].grant => work'[o].pc \notin Batching
      BY <3>1, <3>2 DEF WorkWhole
    <3> QED
      BY <1>3, <3>1, <3>3 DEF WorkWhole, Batches!Open
  <2> QED
    BY <2>3, <2>4, <2>5 DEF PrivateWhole
<1>10. ASSUME damage' = 0, deaths' = 0, NEW h \in Grant
       PROVE  Explained(h)'
  <2>1. Explained(h)
    BY <1>3, <1>10 DEF PrivateSafe
  <2>2. /\ Engaged(h, Preparing) => Engaged(h, Preparing)'
        /\ Engaged(h, Batching) => Engaged(h, Batching)'
    BY <1>1, <1>3, <1>4, <1>5 DEF Engaged, Preparing, Batching
  <2> QED
    BY <1>3, <2>1, <2>2 DEF Explained
<1> QED
  BY <1>7, <1>8, <1>9, <1>10 DEF PrivateSafe

\* Closing a batch changes the one batch.
LEMMA OutcomeSet ==
  ASSUME phase \in [Grant -> Maybe(PhaseRow)], NEW g \in Grant,
         NEW outcome \in {"completed", "failed", "aborted"}, Batches!Settle(g, outcome)
  PROVE  /\ phase' \in [Grant -> Maybe(PhaseRow)]
         /\ \A h \in Grant \ {g} : phase'[h] = phase[h]
<1>1. phase[g] \in PhaseRow /\ phase' = [phase EXCEPT ![g].outcome = outcome]
  BY DEF Batches!Settle, Batches!Open, Maybe
<1>2. PICK row : row = [phase[g] EXCEPT !.outcome = outcome]
  OBVIOUS
<1>3. row \in PhaseRow
  BY <1>1, <1>2 DEF PhaseRow
<1>4. phase' = [phase EXCEPT ![g] = row]
  BY <1>1, <1>2
<1> QED
  BY <1>3, <1>4 DEF Maybe

\* The batch is closed by the process that holds it.
LEMMA Settles ==
  ASSUME PrivateSafe, NEW p \in Operator, Settle(p)
  PROVE  PrivateSafe'
<1>1. PICK g \in Grant : g = work[p].grant
  BY DEF PrivateSafe, PrivateTypes, PrivateTypeOK, Work
<1>2. /\ work \in [Operator -> Work] /\ work[p] \in Work /\ Ready(p)
      /\ PrivateTypes /\ PrivateTypeOK /\ phase \in [Grant -> Maybe(PhaseRow)]
  BY DEF PrivateSafe, PrivateTypes, PrivateTypeOK
<1>3. /\ work[p].pc = "settle" /\ work[p].head \in Revision /\ study[g] # Missing
      /\ work[p].result \in Rows \union {"incomplete"} /\ Goto(p, "review")
      /\ UNCHANGED <<access, registry, anchor, study, attempt, reads, replays, authority>>
      /\ UNCHANGED <<damage, deaths>>
  BY <1>1, <1>2 DEF Settle, Ready, program, history, inputs
<1>4. /\ phase' \in [Grant -> Maybe(PhaseRow)]
      /\ \A h \in Grant \ {g} : phase'[h] = phase[h]
  BY <1>1, <1>2, OutcomeSet DEF Settle
<1>5. /\ work' \in [Operator -> Work]
      /\ \A q \in Operator \ {p} : work'[q] = work[q]
      /\ work'[p].pc = "review" /\ work'[p].grant = g
      /\ work'[p].head = work[p].head /\ work'[p].result = work[p].result
  BY <1>1, <1>2, <1>3, OperatorMoves DEF Label
<1>6. PrivateTypes'
  <2>1. PrivateTypeOK'
    BY <1>2, <1>3, <1>4, <1>5 DEF PrivateTypeOK
  <2>2. Ready(p)'
    BY <1>3, <1>5 DEF Ready
  <2>3. ASSUME NEW q \in Operator \ {p}
        PROVE  Ready(q)'
    <3>1. Ready(q) /\ work'[q] = work[q]
      BY <1>2, <1>5 DEF PrivateTypes
    <3> QED
      BY <1>3, <3>1 DEF Ready
  <2> QED
    BY <2>1, <2>2, <2>3 DEF PrivateTypes
<1>7. ASSUME damage' <= 1
      PROVE  PrivateOnce'
  <2>1. PrivateOnce
    BY <1>3, <1>7 DEF PrivateSafe
  <2>2. \A h \in Grant : GrantOnce(h)'
    BY <1>3, <2>1 DEF PrivateOnce, GrantOnce
  <2>3. WorkOnce(p)'
    <3>1. WorkOnce(p)
      BY <2>1 DEF PrivateOnce
    <3> QED
      BY <1>1, <1>3, <1>5, <3>1 DEF WorkOnce
  <2>4. ASSUME NEW q \in Operator \ {p}
        PROVE  WorkOnce(q)'
    <3>1. WorkOnce(q) /\ work'[q] = work[q]
      BY <1>5, <2>1 DEF PrivateOnce
    <3>2. \A o \in Operator : work'[o].pc = "replay" => work'[o] = work[o]
      BY <1>5
    <3> QED
      BY <1>3, <3>1, <3>2 DEF WorkOnce
  <2> QED
    BY <2>2, <2>3, <2>4 DEF PrivateOnce
<1>8. ASSUME damage' = 0
      PROVE  PrivateWhole'
  <2>1. PrivateWhole
    BY <1>3, <1>8 DEF PrivateSafe
  <2>2. WorkWhole(p) /\ \A q \in Operator : WorkWhole(q)
    BY <2>1 DEF PrivateWhole
  <2>3. \A h \in Grant : GrantWhole(h)'
    BY <1>3, <2>1 DEF PrivateWhole, GrantWhole
  <2>4. WorkWhole(p)'
    BY <1>1, <1>3, <1>5, <2>2 DEF WorkWhole, Preparing, Batching
  <2>5. ASSUME NEW q \in Operator \ {p}
        PROVE  WorkWhole(q)'
    <3>1. WorkWhole(q) /\ work'[q] = work[q] /\ work[q].grant \in Grant
      BY <1>2, <1>5, <2>2 DEF Work
    <3>2. /\ \A o \in Operator \ {q} : o # p => work'[o] = work[o]
          /\ work'[p].pc \notin Preparing /\ work[p].pc \in Batching
          /\ work'[p].grant = work[p].grant
      BY <1>1, <1>3, <1>5 DEF Preparing, Batching
    <3>3. /\ work[q].pc \in Preparing => \A o \in Operator \ {q} :
               work'[o].grant = work[q].grant => work'[o].pc \notin Preparing
          /\ work[q].pc \in Batching => \A o \in Operator \ {q} :
               work'[o].grant = work[q].grant => work'[o].pc \notin Batching
      BY <3>1, <3>2 DEF WorkWhole
    <3>4. work[q].pc \in {"replay", "settle"} => phase'[work[q].grant] = phase[work[q].grant]
      BY <1>1, <1>4, <3>1, <3>2 DEF WorkWhole, Batching
    <3> QED
      BY <1>3, <3>1, <3>3, <3>4 DEF WorkWhole, Batches!Open
  <2> QED
    BY <2>3, <2>4, <2>5 DEF PrivateWhole
<1>9. ASSUME damage' = 0, deaths' = 0, NEW h \in Grant
      PROVE  Explained(h)'
  <2>1. Explained(h)
    BY <1>3, <1>9 DEF PrivateSafe
  <2>2. /\ Engaged(h, Preparing) => Engaged(h, Preparing)'
        /\ Engaged(h, Batching) => Engaged(h, Batching)'
    BY <1>1, <1>3, <1>5 DEF Engaged, Preparing, Batching
  <2> QED
    BY <1>3, <2>1, <2>2 DEF Explained
<1> QED
  BY <1>6, <1>7, <1>8, <1>9 DEF PrivateSafe

\* A recovery closes a batch that no process works on.
LEMMA BatchRecovered ==
  ASSUME PrivateSafe, NEW g \in Grant, RecoverBatch(g)
  PROVE  PrivateSafe'
<1>1. /\ PrivateTypes /\ PrivateTypeOK /\ phase \in [Grant -> Maybe(PhaseRow)]
      /\ \A p \in Operator : work[p].grant \in Grant
  BY DEF PrivateSafe, PrivateTypes, PrivateTypeOK, Work
<1>2. /\ UNCHANGED <<access, registry, anchor, study, attempt, reads, replays, authority, work>>
      /\ UNCHANGED <<damage, deaths>>
      /\ \A p \in Operator : work[p].grant = g => work[p].pc \notin {"replay", "settle"}
  BY DEF RecoverBatch, program, history, inputs
<1>3. /\ phase' \in [Grant -> Maybe(PhaseRow)]
      /\ \A h \in Grant \ {g} : phase'[h] = phase[h]
  BY <1>1, OutcomeSet DEF RecoverBatch
<1>4. PrivateTypes'
  BY <1>1, <1>2, <1>3 DEF PrivateTypes, PrivateTypeOK, Ready
<1>5. PrivateOnce => PrivateOnce'
  BY <1>2 DEF PrivateOnce, GrantOnce, WorkOnce
<1>6. ASSUME PrivateWhole
      PROVE  PrivateWhole'
  <2>1. \A h \in Grant : GrantWhole(h)'
    BY <1>2, <1>6 DEF PrivateWhole, GrantWhole
  <2>2. ASSUME NEW p \in Operator
        PROVE  WorkWhole(p)'
    <3>1. WorkWhole(p)
      BY <1>6 DEF PrivateWhole
    <3>2. work[p].pc \in {"replay", "settle"} => phase'[work[p].grant] = phase[work[p].grant]
      BY <1>1, <1>2, <1>3
    <3> QED
      BY <1>2, <3>1, <3>2 DEF WorkWhole, Batches!Open
  <2> QED
    BY <2>1, <2>2 DEF PrivateWhole
<1>7. ASSUME NEW h \in Grant, Explained(h)
      PROVE  Explained(h)'
  BY <1>2, <1>7 DEF Explained, Engaged
<1> QED
  BY <1>2, <1>4, <1>5, <1>6, <1>7 DEF PrivateSafe

-----------------------------------------------------------------------------
(* Damage *)

\* One file of a study is another one that can be read: the descriptor and the
\* plan, which agree with all records in place, no longer do.
LEMMA FileReplaced ==
  ASSUME study \in [Grant -> Maybe(Files)], NEW g \in Grant, Replace(g)
  PROVE  \E f, new \in Files :
           /\ f = study[g] /\ f # Missing /\ study' = [study EXCEPT ![g] = new]
           /\ f.snapshot \in Rows => new.snapshot \in Rows
           /\ f.descriptor \in Rows => new.descriptor \in Rows
           /\ f.plan \in Rows => new.plan \in Rows
           /\ f.prepared \in Prepared => new.prepared \in Prepared
           /\ f.descriptor = f.plan =>
                (new.descriptor = f.descriptor /\ new.plan = f.plan) \/ new.descriptor # new.plan
<1>1. PICK f \in Files : f = study[g] /\ f # Missing
  BY AbsenceAssumption DEF Replace, Maybe
<1>2. PICK value \in Rows :
        \/ f.snapshot \in Rows \ {value} /\ study' = [study EXCEPT ![g].snapshot = value]
        \/ f.descriptor \in Rows \ {value} /\ study' = [study EXCEPT ![g].descriptor = value]
        \/ f.plan \in Rows \ {value} /\ study' = [study EXCEPT ![g].plan = value]
        \/ /\ f.prepared # Missing /\ f.prepared.file # value
           /\ study' = [study EXCEPT ![g].prepared.file = value]
        \/ f.package = "approved" /\ study' = [study EXCEPT ![g].package = "replaced"]
  BY <1>1 DEF Replace
<1>3. CASE f.snapshot \in Rows \ {value} /\ study' = [study EXCEPT ![g].snapshot = value]
  <2>1. PICK new : new = [f EXCEPT !.snapshot = value]
    OBVIOUS
  <2>2. /\ new \in Files /\ new.snapshot = value /\ new.descriptor = f.descriptor
        /\ new.plan = f.plan /\ new.prepared = f.prepared
    BY <2>1 DEF Files, Maybe
  <2>3. study' = [study EXCEPT ![g] = new]
    BY <1>1, <1>3, <2>1
  <2> QED
    BY <1>1, <2>2, <2>3
<1>4. CASE f.descriptor \in Rows \ {value} /\ study' = [study EXCEPT ![g].descriptor = value]
  <2>1. PICK new : new = [f EXCEPT !.descriptor = value]
    OBVIOUS
  <2>2. /\ new \in Files /\ new.snapshot = f.snapshot /\ new.descriptor = value
        /\ new.plan = f.plan /\ new.prepared = f.prepared
    BY <2>1 DEF Files, Maybe
  <2>3. study' = [study EXCEPT ![g] = new]
    BY <1>1, <1>4, <2>1
  <2> QED
    BY <1>1, <1>4, <2>2, <2>3
<1>5. CASE f.plan \in Rows \ {value} /\ study' = [study EXCEPT ![g].plan = value]
  <2>1. PICK new : new = [f EXCEPT !.plan = value]
    OBVIOUS
  <2>2. /\ new \in Files /\ new.snapshot = f.snapshot /\ new.descriptor = f.descriptor
        /\ new.plan = value /\ new.prepared = f.prepared
    BY <2>1 DEF Files, Maybe
  <2>3. study' = [study EXCEPT ![g] = new]
    BY <1>1, <1>5, <2>1
  <2> QED
    BY <1>1, <1>5, <2>2, <2>3
<1>6. CASE f.prepared # Missing /\ study' = [study EXCEPT ![g].prepared.file = value]
  <2>1. PICK prepared : prepared = [f.prepared EXCEPT !.file = value]
    OBVIOUS
  <2>2. prepared \in Prepared
    BY <1>6, <2>1 DEF Files, Maybe, Prepared
  <2>3. PICK new : new = [f EXCEPT !.prepared = prepared]
    OBVIOUS
  <2>4. /\ new \in Files /\ new.snapshot = f.snapshot /\ new.descriptor = f.descriptor
        /\ new.plan = f.plan /\ new.prepared = prepared
    BY <2>2, <2>3 DEF Files, Maybe
  <2>5. study' = [study EXCEPT ![g] = new]
    BY <1>1, <1>6, <2>1, <2>3
  <2> QED
    BY <1>1, <2>2, <2>4, <2>5
<1>7. CASE study' = [study EXCEPT ![g].package = "replaced"]
  <2>1. PICK new : new = [f EXCEPT !.package = "replaced"]
    OBVIOUS
  <2>2. /\ new \in Files /\ new.snapshot = f.snapshot /\ new.descriptor = f.descriptor
        /\ new.plan = f.plan /\ new.prepared = f.prepared
    BY <2>1 DEF Files
  <2>3. study' = [study EXCEPT ![g] = new]
    BY <1>1, <1>7, <2>1
  <2> QED
    BY <1>1, <2>2, <2>3
<1> QED
  BY <1>2, <1>3, <1>4, <1>5, <1>6, <1>7

\* After the first loss or replacement, whoever has read or replayed still finds
\* his directory, his attempt or his row; after the second nothing is claimed.
LEMMA Damaged ==
  ASSUME PrivateSafe, InputsTypeOK, Damage
  PROVE  PrivateSafe'
<1>1. /\ PrivateTypes /\ PrivateTypeOK /\ study \in [Grant -> Maybe(Files)]
      /\ attempt \in [Grant -> Maybe({"blocked", "rejected", "admitted"})]
      /\ authority \subseteq Grant
      /\ \A p \in Operator : work[p].grant \in Grant
  BY DEF PrivateSafe, PrivateTypes, PrivateTypeOK, Work
<1>2. /\ damage' = damage + 1 /\ damage \in Nat
      /\ UNCHANGED <<reads, replays, work>>
  BY InputBoundAssumption DEF Damage, OneMoreDamage, InputsTypeOK, history
<1>3. damage' # 0 /\ (damage' <= 1 => damage = 0)
  BY <1>2
<1>4. CASE Lose
  <2>1. UNCHANGED <<study, attempt>>
    BY <1>4 DEF Lose
  <2>2. /\ access' = access \/ access' = [g \in Grant |-> [s \in Stage |-> Missing]]
        /\ phase' = phase \/ phase' = [g \in Grant |-> Missing]
        /\ registry' \in {"missing", "empty", "ready"} /\ anchor' \in BOOLEAN
        /\ authority' \subseteq Grant
    BY <1>1, <1>4 DEF Lose, PrivateTypeOK, program
  <2>3. PrivateTypeOK'
    <3>1. /\ access' \in [Grant -> [Stage -> Maybe(Identity \union Sealed \union Reviewed)]]
          /\ \A g \in Grant : /\ access'[g]["snapshot_complete"] \in Maybe(Sealed)
                              /\ access'[g]["review"] \in Maybe(Reviewed)
                              /\ \A s \in {"authorization", "snapshot", "batch"} :
                                   access'[g][s] \in Maybe(Identity)
      BY <1>1, <2>2 DEF PrivateTypeOK, Stage, Maybe
    <3>2. phase' \in [Grant -> Maybe(PhaseRow)]
      BY <1>1, <2>2 DEF PrivateTypeOK, Maybe
    <3> QED
      BY <1>1, <1>2, <2>1, <2>2, <3>1, <3>2 DEF PrivateTypeOK
  <2>4. PrivateTypes'
    BY <1>1, <1>2, <2>1, <2>3 DEF PrivateTypes, Ready
  <2>5. ASSUME damage' <= 1
        PROVE  PrivateOnce'
    <3>1. PrivateOnce /\ PrivateWhole
      BY <1>3, <2>5 DEF PrivateSafe
    <3>2. ASSUME NEW g \in Grant
          PROVE  GrantOnce(g)'
      <4>1. GrantOnce(g) /\ GrantWhole(g)
        BY <3>1 DEF PrivateOnce, PrivateWhole
      <4>2. access'[g]["review"] = access[g]["review"] \/ access'[g]["review"] = Missing
        BY <2>2 DEF Stage
      <4> QED
        BY <1>2, <2>1, <4>1, <4>2 DEF GrantOnce, GrantWhole
    <3>3. \A p \in Operator : WorkOnce(p)'
      BY <1>2, <2>1, <3>1 DEF PrivateOnce, WorkOnce
    <3> QED
      BY <3>2, <3>3 DEF PrivateOnce
  <2> QED
    BY <1>3, <2>4, <2>5 DEF PrivateSafe
<1>5. ASSUME NEW g \in Grant, Replace(g)
      PROVE  PrivateSafe'
  <2>1. UNCHANGED <<access, registry, anchor, phase, attempt, authority>>
    BY <1>5 DEF Replace, program
  <2>2. PICK f \in Files, new \in Files :
          /\ f = study[g] /\ f # Missing /\ study' = [study EXCEPT ![g] = new]
          /\ f.snapshot \in Rows => new.snapshot \in Rows
          /\ f.descriptor \in Rows => new.descriptor \in Rows
          /\ f.plan \in Rows => new.plan \in Rows
          /\ f.prepared \in Prepared => new.prepared \in Prepared
          /\ f.descriptor = f.plan =>
               (new.descriptor = f.descriptor /\ new.plan = f.plan) \/ new.descriptor # new.plan
    BY <1>1, <1>5, FileReplaced
  <2>3. /\ study' \in [Grant -> Maybe(Files)] /\ study'[g] = new /\ new # Missing
        /\ \A h \in Grant \ {g} : study'[h] = study[h]
    BY <1>1, <2>2, AbsenceAssumption DEF Maybe
  <2>4. PrivateTypes'
    <3>1. PrivateTypeOK'
      BY <1>1, <1>2, <2>1, <2>3 DEF PrivateTypeOK
    <3>2. ASSUME NEW p \in Operator
          PROVE  Ready(p)'
      <4>1. Ready(p)
        BY <1>1 DEF PrivateTypes
      <4>2. CASE work[p].grant = g
        BY <1>2, <2>2, <2>3, <4>1, <4>2 DEF Ready
      <4>3. CASE work[p].grant # g
        BY <1>1, <1>2, <2>3, <4>1, <4>3 DEF Ready
      <4> QED
        BY <4>2, <4>3
    <3> QED
      BY <3>1, <3>2 DEF PrivateTypes
  <2>5. ASSUME damage' <= 1
        PROVE  PrivateOnce'
    <3>1. PrivateOnce /\ PrivateWhole
      BY <1>3, <2>5 DEF PrivateSafe
    <3>2. ASSUME NEW h \in Grant
          PROVE  GrantOnce(h)'
      <4>1. GrantOnce(h) /\ GrantWhole(h)
        BY <3>1 DEF PrivateOnce, PrivateWhole
      <4>2. CASE h = g
        BY <1>2, <2>1, <2>2, <2>3, <4>1, <4>2 DEF GrantOnce, GrantWhole
      <4>3. CASE h # g
        BY <1>2, <2>1, <2>3, <4>1, <4>3 DEF GrantOnce
      <4> QED
        BY <4>2, <4>3
    <3>3. ASSUME NEW p \in Operator
          PROVE  WorkOnce(p)'
      <4>1. WorkOnce(p)
        BY <3>1 DEF PrivateOnce
      <4>2. study[work[p].grant] # Missing => study'[work[p].grant] # Missing
        BY <1>1, <2>3
      <4> QED
        BY <1>2, <2>1, <4>1, <4>2 DEF WorkOnce
    <3> QED
      BY <3>2, <3>3 DEF PrivateOnce
  <2> QED
    BY <1>3, <2>4, <2>5 DEF PrivateSafe
<1>6. ASSUME NEW g \in Grant, RemoveStudy(g)
      PROVE  PrivateSafe'
  <2>1. /\ UNCHANGED <<access, registry, anchor, phase, authority>>
        /\ study[g] # Missing
        /\ \A p \in Operator : work[p].grant = g => work[p].pc = "idle"
    BY <1>6 DEF RemoveStudy, program
  <2>2. /\ study' \in [Grant -> Maybe(Files)] /\ study'[g] = Missing
        /\ \A h \in Grant \ {g} : study'[h] = study[h]
        /\ attempt' \in [Grant -> Maybe({"blocked", "rejected", "admitted"})]
        /\ attempt'[g] = Missing
        /\ \A h \in Grant \ {g} : attempt'[h] = attempt[h]
    BY <1>1, <1>6 DEF RemoveStudy, Maybe
  <2>3. PrivateTypes'
    <3>1. PrivateTypeOK'
      BY <1>1, <1>2, <2>1, <2>2 DEF PrivateTypeOK
    <3>2. ASSUME NEW p \in Operator
          PROVE  Ready(p)'
      <4>1. Ready(p)
        BY <1>1 DEF PrivateTypes
      <4>2. CASE work[p].grant = g
        BY <1>2, <2>1, <4>2 DEF Ready
      <4>3. CASE work[p].grant # g
        BY <1>1, <1>2, <2>2, <4>1, <4>3 DEF Ready
      <4> QED
        BY <4>2, <4>3
    <3> QED
      BY <3>1, <3>2 DEF PrivateTypes
  <2>4. ASSUME damage' <= 1
        PROVE  PrivateOnce'
    <3>1. PrivateOnce /\ PrivateWhole
      BY <1>3, <2>4 DEF PrivateSafe
    <3>2. ASSUME NEW h \in Grant
          PROVE  GrantOnce(h)'
      <4>1. GrantOnce(h) /\ GrantWhole(h)
        BY <3>1 DEF PrivateOnce, PrivateWhole
      <4>2. CASE h = g
        BY <1>2, <2>1, <2>2, <4>1, <4>2 DEF GrantOnce, GrantWhole
      <4>3. CASE h # g
        BY <1>2, <2>1, <2>2, <4>1, <4>3 DEF GrantOnce
      <4> QED
        BY <4>2, <4>3
    <3>3. ASSUME NEW p \in Operator
          PROVE  WorkOnce(p)'
      <4>1. WorkOnce(p)
        BY <3>1 DEF PrivateOnce
      <4>2. CASE work[p].grant = g
        BY <1>2, <2>1, <4>2 DEF WorkOnce
      <4>3. CASE work[p].grant # g
        BY <1>1, <1>2, <2>1, <2>2, <4>1, <4>3 DEF WorkOnce
      <4> QED
        BY <4>2, <4>3
    <3> QED
      BY <3>2, <3>3 DEF PrivateOnce
  <2> QED
    BY <1>3, <2>3, <2>4 DEF PrivateSafe
<1> QED
  BY <1>4, <1>5, <1>6 DEF Damage

-----------------------------------------------------------------------------
(* All steps, and what follows *)

\* Grants that were never used are safe.
LEMMA PrivateInitially ==
  ASSUME PrivateInit
  PROVE  PrivateSafe
<1>1. PrivateTypes
  <2>1. /\ access \in [Grant -> [Stage -> Maybe(Identity \union Sealed \union Reviewed)]]
        /\ \A g \in Grant, s \in Stage : access[g][s] = Missing
    BY DEF PrivateInit, Maybe
  <2>2. \A g \in Grant : /\ access[g]["snapshot_complete"] \in Maybe(Sealed)
                         /\ access[g]["review"] \in Maybe(Reviewed)
                         /\ \A s \in {"authorization", "snapshot", "batch"} :
                              access[g][s] \in Maybe(Identity)
    BY <2>1 DEF Stage, Maybe
  <2>3. /\ phase \in [Grant -> Maybe(PhaseRow)] /\ study \in [Grant -> Maybe(Files)]
        /\ attempt \in [Grant -> Maybe({"blocked", "rejected", "admitted"})]
        /\ work \in [Operator -> Work]
    BY RestingWork DEF PrivateInit, Batches!Init, Maybe
  <2>4. reads \in [Grant -> Seq(Rows \union {Broken})] /\ replays \in [Grant -> Seq(Rows)]
    BY DEF PrivateInit
  <2>5. PrivateTypeOK
    BY <2>1, <2>2, <2>3, <2>4 DEF PrivateInit, PrivateTypeOK
  <2>6. \A p \in Operator : Ready(p)
    BY DEF PrivateInit, Ready, Resting
  <2> QED
    BY <2>5, <2>6 DEF PrivateTypes
<1>2. PrivateOnce /\ PrivateWhole
  BY DEF PrivateInit, PrivateOnce, PrivateWhole, GrantOnce, WorkOnce, GrantWhole, WorkWhole,
         Resting, Preparing, Batching, Stage
<1>3. \A g \in Grant : Explained(g)
  BY DEF PrivateInit, Explained, Stage
<1> QED
  BY <1>1, <1>2, <1>3 DEF PrivateSafe

\* A step of another workload, or of the inputs, leaves the grants alone.
LEMMA PrivateStutters ==
  ASSUME UNCHANGED privateVars
  PROVE  /\ PrivateInit => PrivateInit'
         /\ PrivateSafe /\ UNCHANGED <<damage, deaths>> => PrivateSafe'
<1>1. UNCHANGED <<authority, anchor, registry, access, phase, study, attempt, work, reads, replays>>
  BY DEF privateVars, program, records, history
<1>2. PrivateInit => PrivateInit'
  BY <1>1 DEF PrivateInit, Batches!Init
<1>3. PrivateTypes => PrivateTypes'
  BY <1>1 DEF PrivateTypes, PrivateTypeOK, Ready
<1>4. PrivateOnce => PrivateOnce'
  BY <1>1 DEF PrivateOnce, GrantOnce, WorkOnce
<1>5. PrivateWhole => PrivateWhole'
  BY <1>1 DEF PrivateWhole, GrantWhole, WorkWhole, Batches!Open
<1>6. \A g \in Grant : Explained(g) => Explained(g)'
  BY <1>1 DEF Explained, Engaged
<1> QED
  BY <1>2, <1>3, <1>4, <1>5, <1>6 DEF PrivateSafe

\* The invariant is inductive.
LEMMA PrivateKept ==
  ASSUME PrivateInv, [Next]_researchVars
  PROVE  PrivateInv'
<1>1. CASE UNCHANGED researchVars
  <2>1. UNCHANGED <<inputs, privateVars, workload>>
    BY <1>1 DEF researchVars
  <2> QED
    BY <2>1, PrivateStutters DEF PrivateInv, inputs, InputsTypeOK
<1>2. CASE Next
  <2>1. InputsTypeOK' /\ workload' = workload
    BY <1>2, EveryEvent, EventsType DEF PrivateInv, Next
  <2>2. CASE workload # "private"
    <3>1. UNCHANGED privateVars
      BY <1>2, <2>2 DEF Next, Drift, Private, Trial, Bundles, Scripts, Workflow
    <3> QED
      BY <2>1, <2>2, <3>1, PrivateStutters DEF PrivateInv
  <2>3. CASE workload = "private"
    <3>1. PrivateSafe /\ InputsTypeOK
      BY <2>3 DEF PrivateInv
    <3>2. Drift \/ PrivateNext
      BY <1>2, <2>3 DEF Next, Trial, Bundles, Scripts, Workflow, Private
    <3>3. CASE Drift
      <4>1. UNCHANGED privateVars /\ UNCHANGED <<damage, deaths>>
        BY <3>3 DEF Drift, Move
      <4> QED
        BY <2>1, <2>3, <3>1, <4>1, PrivateStutters DEF PrivateInv
    <3>4. CASE PrivateNext
      <4>1. ASSUME NEW p \in Operator,
                   \/ Initialize(p)
                   \/ \E g \in Grant : AskAuthorization(p, g) \/ Prepare(p, g) \/ Execute(p, g)
            PROVE  PrivateSafe'
        BY <3>1, <4>1, CommandsBegin
      <4>2. ASSUME NEW p \in Operator, PrivateStep(p)
            PROVE  PrivateSafe'
        <5>1. CASE WriteAnchor(p) \/ CreateTables(p)
          BY <3>1, <5>1, Founds
        <5>2. CASE Authorize(p) \/ ConsumeSnapshot(p) \/ Seal(p) \/ ConsumeBatch(p) \/ Review(p)
          BY <3>1, <5>2, StageConsumed
        <5>3. CASE Copy(p)
          BY <3>1, <5>3, CopiesRows
        <5>4. CASE Freeze(p)
          BY <3>1, <5>4, FilesWritten
        <5>5. CASE Load(p) \/ HashSnapshot(p)
          BY <3>1, <5>5, LoadsStudy, HashesSnapshot
        <5>6. CASE Block(p) \/ Reject(p) \/ Admit(p)
          BY <3>1, <5>6, BatchLaunched
        <5>7. CASE Replay(p) \/ Settle(p)
          BY <3>1, <5>7, ReplaysRows, Settles
        <5>8. CASE Refused(p)
          BY <3>1, <5>8, FilesWritten, RefusesOther
        <5>9. CASE Raise(p)
          BY <3>1, <5>9, Raises
        <5> QED
          BY <4>2, <5>1, <5>2, <5>3, <5>4, <5>5, <5>6, <5>7, <5>8, <5>9 DEF PrivateStep
      <4>3. ASSUME NEW p \in Operator, Die(p)
            PROVE  PrivateSafe'
        BY <3>1, <4>3, Dies
      <4>4. ASSUME NEW g \in Grant, RecoverBatch(g)
            PROVE  PrivateSafe'
        BY <3>1, <4>4, BatchRecovered
      <4>5. ASSUME Damage
            PROVE  PrivateSafe'
        BY <3>1, <4>5, Damaged
      <4>6. PrivateSafe'
        BY <3>4, <4>1, <4>2, <4>3, <4>4, <4>5 DEF PrivateNext
      <4> QED
        BY <2>1, <2>3, <4>6 DEF PrivateInv
    <3> QED
      BY <3>2, <3>3, <3>4
  <2> QED
    BY <2>2, <2>3
<1> QED
  BY <1>1, <1>2

\* The inductive invariant of the grants.
THEOREM PrivateInvariant == Spec => []PrivateInv
<1>1. Init => PrivateInv
  BY InputsInitially, PrivateInitially DEF Init, PrivateInv
<1> QED
  BY <1>1, PrivateKept, PTL DEF Spec

\* What holds of grants that were never used.
LEMMA NothingSpent ==
  ASSUME PrivateInit, NEW g \in Grant
  PROVE  /\ reads[g] = <<>> /\ replays[g] = <<>>
         /\ \A s \in Stage : access[g][s] = Missing
BY DEF PrivateInit

\* A grant pays for one look at the price store and one replay of what was
\* seen, whatever processes run, die or are repeated and though one record,
\* file or directory is lost or replaced: reserve_access() before the snapshot
\* and before the batch, and new directories where a row is lost.
THEOREM ReadOnceHolds == Spec => []ReadOnce
<1>1. PrivateInv => ReadOnce
  <2>1. SUFFICES ASSUME PrivateInv, damage <= 1, NEW g \in Grant
                 PROVE  Len(reads[g]) <= 1 /\ Len(replays[g]) <= 1
    BY DEF ReadOnce
  <2>2. /\ reads[g] = <<>> \/ \E x : reads[g] = <<x>>
        /\ replays[g] = <<>> \/ \E x : replays[g] = <<x>>
    BY <2>1, NothingSpent DEF PrivateInv, PrivateSafe, PrivateOnce, GrantOnce
  <2>3. ASSUME NEW s, s = <<>> \/ \E x : s = <<x>>
        PROVE  Len(s) <= 1
    <3>1. CASE s = <<>>
      BY <3>1
    <3>2. ASSUME NEW x, s = <<x>>
          PROVE  Len(s) <= 1
      <4>1. Len(s) = 1
        BY <3>2, Single
      <4> QED
        BY <4>1
    <3> QED
      BY <2>3, <3>1, <3>2
  <2> QED
    BY <2>2, <2>3
<1> QED
  BY <1>1, PrivateInvariant, PTL

\* A result recorded as reviewed came from the rows read for that grant: the
\* digests of receipt, descriptor and plan let no other rows pass, even if one
\* file of the study is replaced under a running command.
THEOREM ReviewedAsPreparedHolds == Spec => []ReviewedAsPrepared
<1>1. PrivateInv => ReviewedAsPrepared
  <2>1. SUFFICES ASSUME PrivateInv, damage <= 1, NEW g \in Grant,
                        access[g]["review"] # Missing, access[g]["review"].result \in Rows
                 PROVE  reads[g] = <<access[g]["review"].result>>
    BY DEF ReviewedAsPrepared
  <2> QED
    BY <2>1, NothingSpent DEF PrivateInv, PrivateSafe, PrivateOnce, GrantOnce, Stage
<1> QED
  BY <1>1, PrivateInvariant, PTL

\* Without deaths and damage a spent stage is being worked on, was rejected
\* while another batch was open, or left the mark of its failure: no command
\* ends between the row and the trace.
THEOREM SpentIsExplainedHolds == Spec => []SpentIsExplained
<1>1. PrivateInv => SpentIsExplained
  <2>1. SUFFICES ASSUME PrivateInv, deaths = 0, damage = 0, NEW g \in Grant
                 PROVE  /\ access[g]["batch"] # Missing /\ access[g]["review"] = Missing =>
                             \/ attempt[g] = "rejected"
                             \/ Engaged(g, {"hash", "launch", "replay", "settle", "review"})
                        /\ access[g]["snapshot"] # Missing /\ access[g]["snapshot_complete"] = Missing =>
                             \/ Engaged(g, {"copy", "freeze", "seal"})
                             \/ study[g].failed
    BY DEF SpentIsExplained
  <2> QED
    BY <2>1, NothingSpent DEF PrivateInv, PrivateSafe, Explained, Preparing, Batching, Stage
<1> QED
  BY <1>1, PrivateInvariant, PTL

=============================================================================
