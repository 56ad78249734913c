--------------------------- MODULE ResearchProofs ---------------------------
(***************************************************************************)
(* The proof that the private trials rest their phases on what was tested  *)
(* or replayed, for any processes, revisions, rows and bundles and any     *)
(* number of events.                                                       *)
(***************************************************************************)
EXTENDS ResearchProps, TLAPS

-----------------------------------------------------------------------------
(* The low-volatility trial: the invariant *)

Held(ph) == \E p \in Analyst : trial[p].pc = "evaluate" /\ trial[p].phase = ph

\* A process that works has what its label needs.
Equipped(t) ==
  /\ t.pc # "idle" => t.head \in Revision
  /\ t.pc \in {"launch", "evaluate", "finish", "decide"} => t.rows \in Rows
  /\ t.pc \in {"finish", "decide"} => t.result \in Result

AnalystTypes == \A p \in Analyst : Equipped(trial[p])

\* A phase that was tested is not tested again: its result is there, or its
\* attempt is and nobody is about to evaluate it.
TestedOnce(ph) ==
  /\ tested[ph] = <<>> \/ \E x \in Result : tested[ph] = <<x>>
  /\ tested[ph] # <<>> =>
       results[ph] # Missing \/ (attempts[ph] # Missing /\ ~Held(ph))
  /\ decisions[ph] # Missing => tested[ph] = <<decisions[ph].artifact>>

\* The phase before ph survived, with all records in place under revision h.
Founded(ph, h) == ph # "development" =>
  \E x \in Result :
    /\ tested[Prior[ph]] = <<x>>
    /\ x.decision = "survived"
    /\ damage = 0 => /\ x.head = h
                     /\ outcomes[Prior[ph]] # Missing
                     /\ outcomes[Prior[ph]].artifact = x

AnalystInv(p) ==
  /\ trial[p].pc = "read" => Founded(trial[p].phase, trial[p].head)
  /\ trial[p].pc \in {"finish", "decide"} => tested[trial[p].phase] = <<trial[p].result>>

OpenedInv == \A ph \in Phase : \A h \in opened[ph] : Founded(ph, h)

\* With all records in place, result and attempt of a tested phase are there, and
\* they agree with what was decided.
InPlace(ph) ==
  /\ tested[ph] # <<>> => results[ph] # Missing /\ attempts[ph] # Missing /\ ~Held(ph)
  /\ outcomes[ph] # Missing /\ outcomes[ph].status = "completed" =>
       tested[ph] = <<outcomes[ph].artifact>>
  /\ decisions[ph] # Missing =>
       /\ decisions[ph].head = decisions[ph].artifact.head
       /\ decisions[ph].outcome = decisions[ph].artifact.decision
       /\ attempts[ph] = [head |-> decisions[ph].head, rows |-> decisions[ph].artifact.rows]

AnalystInPlace(p) ==
  /\ trial[p].pc \in {"evaluate", "finish", "decide"} =>
       attempts[trial[p].phase] = [head |-> trial[p].head, rows |-> trial[p].rows]
  /\ trial[p].pc \in {"finish", "decide"} =>
       trial[p].result.head = trial[p].head /\ trial[p].result.rows = trial[p].rows
  /\ \A q \in Analyst :
       /\ trial[p].pc = "evaluate" /\ trial[q].pc = "evaluate"
       /\ trial[p].phase = trial[q].phase
       => p = q

TrialTypes == TrialTypeOK /\ AnalystTypes

TrialRecords ==
  /\ \A ph \in Phase : TestedOnce(ph)
  /\ \A p \in Analyst : AnalystInv(p)
  /\ OpenedInv

TrialInPlace ==
  /\ \A ph \in Phase : InPlace(ph)
  /\ \A p \in Analyst : AnalystInPlace(p)

TrialSafe ==
  /\ TrialTypes
  /\ damage <= 1 => TrialRecords
  /\ damage = 0 => TrialInPlace

\* What the trial's invariant is where another workload runs: nothing happened.
TrialInv ==
  /\ InputsTypeOK
  /\ IF workload = "trial" THEN TrialSafe ELSE TrialInit

-----------------------------------------------------------------------------
(* The low-volatility trial: its steps *)

\* Sequences of one element.
LEMMA Single ==
  \A x : <<x>> # <<>> /\ Len(<<x>>) = 1 /\ <<x>>[1] = x
OBVIOUS

\* The phase before another is a different one.
LEMMA PriorPhase ==
  \A ph \in Phase \ {"development"} : Prior[ph] \in Phase /\ Prior[ph] # ph
BY DEF Phase, Prior

\* One process goes on, and has what it needs.
LEMMA AnalystMoves ==
  ASSUME TrialTypes, NEW p \in Analyst, NEW t \in TrialWork, Equipped(t),
         trial' = [trial EXCEPT ![p] = t]
  PROVE  trial' \in [Analyst -> TrialWork] /\ AnalystTypes'
BY DEF TrialTypes, TrialTypeOK, AnalystTypes

\* A process that ends has no needs.
LEMMA AnalystRests ==
  ASSUME TrialTypes, NEW p \in Analyst, EndTrial(p)
  PROVE  trial' \in [Analyst -> TrialWork] /\ AnalystTypes'
<1>1. Off \in TrialWork /\ Equipped(Off)
  BY DEF Off, TrialWork, Equipped, Phase
<1> QED
  BY <1>1, AnalystMoves DEF EndTrial

\* What an evaluation of phase ph with the given result does.
Evaluates(p, ph, result) ==
  /\ trial[p].pc = "evaluate"
  /\ ph = trial[p].phase
  /\ results[ph] = Missing
  /\ result.head = trial[p].head /\ result.rows = trial[p].rows
  /\ results' = [results EXCEPT ![ph] = result]
  /\ tested' = [tested EXCEPT ![ph] = Append(@, result)]
  /\ trial' = [trial EXCEPT ![p].pc = "finish", ![p].result = result]
  /\ UNCHANGED <<inputs, ledger, decisions, opened>>

\* An evaluation is of one phase, with a result of its process's rows.
LEMMA EvaluatesOne ==
  ASSUME TrialTypes, NEW p \in Analyst, Evaluate(p)
  PROVE  \E ph \in Phase, result \in Result : Evaluates(p, ph, result)
<1>1. PICK ph \in Phase : ph = trial[p].phase
  BY DEF TrialTypes, TrialTypeOK, TrialWork
<1>2. PICK verdict \in Verdict :
        LET result == [head |-> trial[p].head, rows |-> trial[p].rows, decision |-> verdict] IN
        /\ results' = [results EXCEPT ![ph] = result]
        /\ tested' = [tested EXCEPT ![ph] = Append(@, result)]
        /\ trial' = [trial EXCEPT ![p].pc = "finish", ![p].result = result]
  BY <1>1 DEF Evaluate
<1>3. PICK result :
        result = [head |-> trial[p].head, rows |-> trial[p].rows, decision |-> verdict]
  OBVIOUS
<1>4. trial[p].pc = "evaluate" /\ result \in Result
  BY <1>3 DEF Evaluate, TrialTypes, AnalystTypes, Equipped, Result
<1>5. result.head = trial[p].head /\ result.rows = trial[p].rows
  BY <1>3
<1> QED
  BY <1>1, <1>2, <1>3, <1>4, <1>5 DEF Evaluate, Evaluates

\* The records keep their types, and a process has what its label needs.
LEMMA TrialTypesStep ==
  ASSUME InputsTypeOK, TrialTypes, TrialNext
  PROVE  TrialTypes'
<1>1. ASSUME NEW p \in Analyst, NEW ph \in Phase, OpenPhase(p, ph)
      PROVE  TrialTypes'
  <2>1. PICK t : t = [Off EXCEPT !.pc = "read", !.phase = ph, !.head = head]
    OBVIOUS
  <2>2. t \in TrialWork /\ Equipped(t)
    BY <2>1 DEF Off, TrialWork, Equipped, InputsTypeOK
  <2>3. trial' \in [Analyst -> TrialWork] /\ AnalystTypes'
    BY <1>1, <2>1, <2>2, AnalystMoves DEF OpenPhase
  <2> QED
    BY <1>1, <2>3 DEF OpenPhase, TrialTypes, TrialTypeOK, ledger, files
<1>2. ASSUME NEW p \in Analyst, ReadPhase(p)
      PROVE  TrialTypes'
  <2>1. trial' \in [Analyst -> TrialWork] /\ AnalystTypes'
    <3>1. CASE source = Broken
      BY <1>2, <3>1, AnalystRests DEF ReadPhase
    <3>2. CASE source # Broken
      <4>1. PICK t : t = [trial[p] EXCEPT !.pc = "launch", !.rows = source]
        OBVIOUS
      <4>2. t \in TrialWork /\ Equipped(t)
        BY <1>2, <3>2, <4>1
           DEF ReadPhase, TrialTypes, TrialTypeOK, AnalystTypes, TrialWork, Equipped, InputsTypeOK
      <4>3. trial' = [trial EXCEPT ![p] = t]
        BY <1>2, <3>2, <4>1 DEF ReadPhase, TrialTypes, TrialTypeOK
      <4> QED
        BY <4>2, <4>3, AnalystMoves
    <3> QED
      BY <3>1, <3>2
  <2>2. opened' \in [Phase -> SUBSET Revision]
    BY <1>2 DEF ReadPhase, TrialTypes, TrialTypeOK, AnalystTypes, Equipped
  <2> QED
    BY <1>2, <2>1, <2>2 DEF ReadPhase, TrialTypes, TrialTypeOK, ledger, files
<1>3. ASSUME NEW p \in Analyst, Launch(p)
      PROVE  TrialTypes'
  <2>1. CASE ~MayLaunch(trial[p].phase)
    BY <1>3, <2>1, AnalystRests DEF Launch, TrialTypes, TrialTypeOK, files
  <2>2. CASE MayLaunch(trial[p].phase)
    <3>1. PICK t : t = [trial[p] EXCEPT !.pc = "evaluate"]
      OBVIOUS
    <3>2. t \in TrialWork /\ Equipped(t)
      BY <1>3, <3>1 DEF Launch, TrialTypes, TrialTypeOK, AnalystTypes, TrialWork, Equipped
    <3>3. trial' = [trial EXCEPT ![p] = t]
      BY <1>3, <2>2, <3>1 DEF Launch, TrialTypes, TrialTypeOK
    <3>4. [head |-> trial[p].head, rows |-> trial[p].rows] \in AttemptRow
      BY <1>3 DEF Launch, TrialTypes, AnalystTypes, Equipped, AttemptRow
    <3> QED
      BY <1>3, <2>2, <3>2, <3>3, <3>4, AnalystMoves DEF Launch, TrialTypes, TrialTypeOK, files
  <2> QED
    BY <2>1, <2>2
<1>4. ASSUME NEW p \in Analyst, Evaluate(p)
      PROVE  TrialTypes'
  <2>1. PICK ph \in Phase, result \in Result : Evaluates(p, ph, result)
    BY <1>4, EvaluatesOne
  <2>2. PICK t : t = [trial[p] EXCEPT !.pc = "finish", !.result = result]
    OBVIOUS
  <2>0. trial[p] \in TrialWork /\ Equipped(trial[p]) /\ trial[p].pc = "evaluate"
    BY <2>1 DEF Evaluates, TrialTypes, TrialTypeOK, AnalystTypes
  <2>3. t \in TrialWork /\ Equipped(t)
    BY <2>0, <2>2 DEF TrialWork, Equipped
  <2>4. trial' = [trial EXCEPT ![p] = t]
    BY <2>1, <2>2 DEF Evaluates, TrialTypes, TrialTypeOK
  <2>5. tested' \in [Phase -> Seq(Result)]
    BY <2>1 DEF Evaluates, TrialTypes, TrialTypeOK
  <2>6. trial' \in [Analyst -> TrialWork] /\ AnalystTypes'
    BY <2>3, <2>4, AnalystMoves
  <2> QED
    BY <2>1, <2>5, <2>6 DEF Evaluates, TrialTypes, TrialTypeOK, ledger
<1>5. ASSUME NEW p \in Analyst, FinishTrial(p)
      PROVE  TrialTypes'
  <2>1. PICK t : t = [trial[p] EXCEPT !.pc = "decide"]
    OBVIOUS
  <2>2. t \in TrialWork /\ Equipped(t)
    BY <1>5, <2>1 DEF FinishTrial, TrialTypes, TrialTypeOK, AnalystTypes, TrialWork, Equipped
  <2>3. trial' = [trial EXCEPT ![p] = t]
    BY <1>5, <2>1 DEF FinishTrial, TrialTypes, TrialTypeOK
  <2>4. [status |-> "completed", artifact |-> trial[p].result] \in OutcomeRow
    BY <1>5 DEF FinishTrial, TrialTypes, AnalystTypes, Equipped, OutcomeRow
  <2> QED
    BY <1>5, <2>2, <2>3, <2>4, AnalystMoves DEF FinishTrial, TrialTypes, TrialTypeOK, files
<1>6. ASSUME NEW p \in Analyst, Decide(p)
      PROVE  TrialTypes'
  <2>1. [head |-> trial[p].head, outcome |-> trial[p].result.decision,
         artifact |-> trial[p].result] \in Decision
    BY <1>6 DEF Decide, TrialTypes, AnalystTypes, Equipped, Decision, Result
  <2> QED
    BY <1>6, <2>1, AnalystRests DEF Decide, TrialTypes, TrialTypeOK, ledger
<1>7. ASSUME NEW p \in Analyst, FailTrial(p)
      PROVE  TrialTypes'
  <2>1. [status |-> "failed", artifact |-> Missing] \in OutcomeRow
    BY DEF OutcomeRow
  <2> QED
    BY <1>7, <2>1, AnalystRests DEF FailTrial, TrialTypes, TrialTypeOK, files
<1>8. ASSUME NEW p \in Analyst, DieTrial(p)
      PROVE  TrialTypes'
  BY <1>8, AnalystRests DEF DieTrial, TrialTypes, TrialTypeOK, ledger, files
<1>9. CASE DamageTrial
  <2>1. UNCHANGED <<trial, opened, tested>>
    BY <1>9 DEF DamageTrial
  <2>2. ASSUME NEW ph \in Phase, results[ph] # Missing, NEW verdict \in Verdict,
               results' = [results EXCEPT ![ph].decision = verdict]
        PROVE  results' \in [Phase -> Result \union {Missing}]
    <3>1. PICK new : new = [results[ph] EXCEPT !.decision = verdict]
      OBVIOUS
    <3>2. new \in Result
      BY <2>2, <3>1 DEF TrialTypes, TrialTypeOK, Result
    <3>3. results' = [results EXCEPT ![ph] = new]
      BY <2>2, <3>1 DEF TrialTypes, TrialTypeOK
    <3> QED
      BY <3>2, <3>3 DEF TrialTypes, TrialTypeOK
  <2>3. ASSUME NEW ph \in Phase, decisions[ph] # Missing, NEW verdict \in Verdict,
               NEW h \in Revision,
               decisions' = [decisions EXCEPT ![ph].outcome = verdict, ![ph].head = h]
        PROVE  decisions' \in [Phase -> Decision \union {Missing}]
    <3>1. PICK new : new = [decisions[ph] EXCEPT !.outcome = verdict, !.head = h]
      OBVIOUS
    <3>2. new \in Decision
      BY <2>3, <3>1 DEF TrialTypes, TrialTypeOK, Decision
    <3>3. decisions' = [decisions EXCEPT ![ph] = new]
      BY <2>3, <3>1 DEF TrialTypes, TrialTypeOK
    <3> QED
      BY <3>2, <3>3 DEF TrialTypes, TrialTypeOK
  <2> QED
    BY <1>9, <2>1, <2>2, <2>3 DEF DamageTrial, TrialTypes, TrialTypeOK, AnalystTypes, ledger, files
<1> QED
  BY <1>1, <1>2, <1>3, <1>4, <1>5, <1>6, <1>7, <1>8, <1>9 DEF TrialNext, TrialStep

\* Damage is not undone.
LEMMA DamageGrows ==
  ASSUME InputsTypeOK, TrialNext
  PROVE  damage \in Nat /\ damage' \in Nat /\ damage <= damage' /\ (damage' = damage \/ DamageTrial)
<1>1. damage \in Nat
  BY DEF InputsTypeOK
<1>2. CASE DamageTrial
  <2>1. OneMoreDamage
    BY <1>2 DEF DamageTrial
  <2>2. damage' = damage + 1
    BY <2>1 DEF OneMoreDamage
  <2> QED
    BY <1>1, <1>2, <2>2
<1>3. CASE \E p \in Analyst : DieTrial(p)
  BY <1>1, <1>3 DEF DieTrial, OneMoreDeath
<1>4. CASE \E p \in Analyst : (\E ph \in Phase : OpenPhase(p, ph)) \/ TrialStep(p)
  <2>1. UNCHANGED inputs
    BY <1>4 DEF TrialStep, OpenPhase, ReadPhase, Launch, Evaluate, FinishTrial, Decide, FailTrial
  <2> QED
    BY <1>1, <2>1 DEF inputs
<1> QED
  BY <1>2, <1>3, <1>4 DEF TrialNext

\* What was tested stays the test, and what an attempt came to its outcome.
LEMMA TestStays ==
  ASSUME InputsTypeOK, TrialTypes, \A ph \in Phase : TestedOnce(ph), TrialNext
  PROVE  /\ \A ph \in Phase : tested[ph] # <<>> => tested'[ph] = tested[ph]
         /\ damage' = damage => \A ph \in Phase : outcomes[ph] # Missing => outcomes'[ph] = outcomes[ph]
<1>1. ASSUME NEW p \in Analyst, Evaluate(p)
      PROVE  tested' = tested \/ \E ph \in Phase : tested[ph] = <<>> /\ tested' = [tested EXCEPT ![ph] = tested'[ph]]
  <2>1. PICK ph \in Phase, result \in Result : Evaluates(p, ph, result)
    BY <1>1, EvaluatesOne
  <2>2. Held(ph) /\ results[ph] = Missing
    BY <2>1 DEF Evaluates, Held
  <2>3. tested[ph] = <<>>
    BY <2>2 DEF TestedOnce
  <2> QED
    BY <2>1, <2>3 DEF Evaluates, TrialTypes, TrialTypeOK
<1>2. tested' = tested \/ \E p \in Analyst : Evaluate(p)
  BY DEF TrialNext, TrialStep, OpenPhase, ReadPhase, Launch, FinishTrial, Decide, FailTrial,
     DieTrial, DamageTrial
<1>3. \A ph \in Phase : tested[ph] # <<>> => tested'[ph] = tested[ph]
  BY <1>1, <1>2 DEF TrialTypes, TrialTypeOK
<1>4. CASE DamageTrial
  BY <1>3, <1>4 DEF DamageTrial, OneMoreDamage, InputsTypeOK
<1> QED
  BY <1>3, <1>4 DEF TrialNext, TrialStep, OpenPhase, ReadPhase, Launch, Evaluate, FinishTrial,
     Decide, FailTrial, DieTrial, ledger, TrialTypes, TrialTypeOK

\* What a process found of the phase before stays true of what was tested,
\* and, with all records in place, of the records.
LEMMA FoundedStays ==
  ASSUME InputsTypeOK, TrialTypes, \A ph \in Phase : TestedOnce(ph), TrialNext,
         NEW ph \in Phase, NEW h, Founded(ph, h)
  PROVE  Founded(ph, h)'
<1>1. CASE ph = "development"
  BY <1>1 DEF Founded
<1>2. CASE ph # "development"
  <2>1. PICK q \in Phase : q = Prior[ph]
    BY <1>2, PriorPhase
  <2>2. PICK x \in Result :
          /\ tested[q] = <<x>>
          /\ x.decision = "survived"
          /\ damage = 0 => x.head = h /\ outcomes[q] # Missing /\ outcomes[q].artifact = x
    BY <1>2, <2>1 DEF Founded
  <2>3. tested'[q] = <<x>>
    BY <2>2, TestStays
  <2>4. damage' = 0 => damage = 0
    BY DamageGrows
  <2>5. damage' = 0 => outcomes'[q] = outcomes[q]
    BY <2>2, <2>4, TestStays
  <2> QED
    BY <1>2, <2>1, <2>2, <2>3, <2>4, <2>5 DEF Founded
<1> QED
  BY <1>1, <1>2

\* A process that does not move keeps what it knows.
LEMMA AnalystStays ==
  ASSUME InputsTypeOK, TrialTypes, TrialRecords, TrialNext,
         NEW q \in Analyst, trial'[q] = trial[q]
  PROVE  AnalystInv(q)'
<1>1. PICK ph \in Phase, t \in TrialWork : t = trial[q] /\ ph = t.phase
  BY DEF TrialTypes, TrialTypeOK, TrialWork
<1>2. t.pc = "read" => Founded(ph, t.head)'
  BY <1>1, FoundedStays DEF TrialRecords, AnalystInv
<1>3. t.pc \in {"finish", "decide"} => tested'[ph] = <<t.result>>
  <2>1. t.pc \in {"finish", "decide"} => tested[ph] = <<t.result>> /\ tested[ph] # <<>>
    BY <1>1, Single DEF TrialRecords, AnalystInv
  <2> QED
    BY <2>1, TestStays DEF TrialRecords
<1> QED
  BY <1>1, <1>2, <1>3 DEF AnalystInv, Founded

\* What a step does to a process and to all others.
LEMMA AnalystStep ==
  ASSUME TrialTypes, NEW p \in Analyst,
         \/ \E ph \in Phase : OpenPhase(p, ph)
         \/ TrialStep(p) \/ DieTrial(p)
  PROVE  /\ \A q \in Analyst \ {p} : trial'[q] = trial[q]
         /\ trial'[p].pc \in {"read", "launch", "evaluate", "finish", "decide"} =>
              \/ \E ph \in Phase : OpenPhase(p, ph)
              \/ ReadPhase(p) \/ Launch(p) \/ Evaluate(p) \/ FinishTrial(p)
<1>1. CASE EndTrial(p)
  BY <1>1 DEF EndTrial, Off, TrialTypes, TrialTypeOK
<1>2. CASE ~EndTrial(p)
  BY <1>2 DEF TrialTypes, TrialTypeOK, TrialStep, OpenPhase, ReadPhase, Launch, Evaluate,
     FinishTrial, Decide, FailTrial, DieTrial
<1> QED
  BY <1>1, <1>2

\* A process that ends without a decision leaves at most a failure behind.
Leaves(p) ==
  /\ EndTrial(p)
  /\ UNCHANGED <<attempts, results, decisions, tested, opened>>
  /\ \A r \in Phase : outcomes'[r] = outcomes[r] \/ outcomes'[r].status = "failed"

Launches(p, ph) ==
  /\ trial[p].pc = "launch"
  /\ ph = trial[p].phase
  /\ attempts[ph] = Missing
  /\ attempts' = [attempts EXCEPT ![ph] = [head |-> trial[p].head, rows |-> trial[p].rows]]
  /\ trial' = [trial EXCEPT ![p].pc = "evaluate"]
  /\ UNCHANGED <<outcomes, results, decisions, tested, opened>>

\* A step of a process is one of few kinds.
LEMMA StepKinds ==
  ASSUME TrialTypes, NEW p \in Analyst,
         \/ \E ph \in Phase : OpenPhase(p, ph)
         \/ TrialStep(p) \/ DieTrial(p)
  PROVE  \/ Leaves(p)
         \/ \E ph \in Phase : OpenPhase(p, ph) \/ Launches(p, ph)
         \/ ReadPhase(p) \/ Evaluate(p) \/ FinishTrial(p) \/ Decide(p)
<1>1. CASE DieTrial(p)
  BY <1>1 DEF DieTrial, Leaves, ledger, files
<1>2. CASE FailTrial(p)
  <2>1. \/ outcomes' = outcomes
        \/ outcomes' = [outcomes EXCEPT ![trial[p].phase] = [status |-> "failed", artifact |-> Missing]]
    BY <1>2 DEF FailTrial
  <2>2. \A r \in Phase : outcomes'[r] = outcomes[r] \/ outcomes'[r].status = "failed"
    BY <2>1 DEF TrialTypes, TrialTypeOK
  <2> QED
    BY <1>2, <2>2 DEF FailTrial, Leaves, files
<1>3. CASE Launch(p)
  <2>1. trial[p].phase \in Phase
    BY DEF TrialTypes, TrialTypeOK, TrialWork
  <2>2. CASE MayLaunch(trial[p].phase)
    <3>1. Launches(p, trial[p].phase)
      BY <1>3, <2>2 DEF Launch, MayLaunch, Launches, files
    <3> QED
      BY <2>1, <3>1
  <2>3. CASE ~MayLaunch(trial[p].phase)
    BY <1>3, <2>3 DEF Launch, Leaves, files
  <2> QED
    BY <2>2, <2>3
<1> QED
  BY <1>1, <1>2, <1>3 DEF TrialStep

\* A step tests no phase twice and opens none without a survival, also a step
\* that loses the first record.
LEMMA TrialRecordsStep ==
  ASSUME InputsTypeOK, TrialTypes, damage' <= 1, TrialRecords, damage = 0 => TrialInPlace, TrialNext
  PROVE  TrialRecords'
<1>0. TrialTypes' /\ damage \in Nat /\ damage' \in Nat
  BY TrialTypesStep, DamageGrows
<1>1. CASE DamageTrial
  <2>1. damage = 0 /\ UNCHANGED <<trial, opened, tested>>
    <3>1. OneMoreDamage /\ UNCHANGED <<trial, opened, tested>>
      BY <1>1 DEF DamageTrial
    <3> QED
      BY <1>0, <3>1 DEF OneMoreDamage
  <2>2. \A p \in Analyst : AnalystInv(p)'
    BY <2>1, AnalystStays
  <2>3. OpenedInv'
    BY <2>1, FoundedStays DEF TrialRecords, OpenedInv
  <2>4. ASSUME NEW ph \in Phase
        PROVE  TestedOnce(ph)'
    <3>1. TestedOnce(ph) /\ InPlace(ph) /\ (Held(ph)' <=> Held(ph))
      BY <2>1 DEF TrialRecords, TrialInPlace, Held
    <3>2. \/ results' = results
          \/ attempts' = attempts
      BY <1>1 DEF DamageTrial, ledger, files
    <3>3. results' = results \/ attempts' = attempts
      BY <3>2
    <3>4. tested'[ph] # <<>> => results'[ph] # Missing \/ (attempts'[ph] # Missing /\ ~Held(ph)')
      BY <2>1, <3>1, <3>3 DEF InPlace
    <3>5. decisions'[ph] # Missing =>
            decisions[ph] # Missing /\ decisions'[ph].artifact = decisions[ph].artifact
      <4>1. ASSUME NEW r \in Phase, decisions[r] # Missing, NEW verdict, NEW h,
                   decisions' = [decisions EXCEPT ![r].outcome = verdict, ![r].head = h]
            PROVE  \/ decisions'[ph] = decisions[ph]
                   \/ /\ decisions[ph] # Missing
                      /\ decisions'[ph].artifact = decisions[ph].artifact
        <5>1. CASE r = ph
          BY <4>1, <5>1 DEF TrialTypes, TrialTypeOK, Decision
        <5>2. CASE r # ph
          BY <4>1, <5>2 DEF TrialTypes, TrialTypeOK
        <5> QED
          BY <5>1, <5>2
      <4>2. \/ decisions' = decisions
            \/ \E r \in Phase : decisions' = [decisions EXCEPT ![r] = Missing]
            \/ \E r \in Phase, verdict \in Verdict, h \in Revision :
                 /\ decisions[r] # Missing
                 /\ decisions' = [decisions EXCEPT ![r].outcome = verdict, ![r].head = h]
        BY <1>1 DEF DamageTrial, files
      <4> QED
        BY <4>1, <4>2 DEF TrialTypes, TrialTypeOK
    <3> QED
      BY <2>1, <3>1, <3>4, <3>5 DEF TestedOnce
  <2> QED
    BY <2>2, <2>3, <2>4 DEF TrialRecords
<1>2. ASSUME NEW p \in Analyst,
             \/ \E ph \in Phase : OpenPhase(p, ph)
             \/ TrialStep(p) \/ DieTrial(p)
      PROVE  TrialRecords'
  <2>0. PICK ph \in Phase : ph = trial[p].phase
    BY DEF TrialTypes, TrialTypeOK, TrialWork
  <2>1. \A q \in Analyst \ {p} : AnalystInv(q)'
    BY <1>2, AnalystStep, AnalystStays
  <2>2. ASSUME UNCHANGED <<tested, results, decisions>>, attempts' = attempts,
               trial'[p].pc # "evaluate"
        PROVE  \A r \in Phase : TestedOnce(r)'
    <3>1. \A r \in Phase : Held(r)' => Held(r)
      BY <1>2, <2>2, AnalystStep DEF Held
    <3> QED
      BY <2>2, <3>1 DEF TrialRecords, TestedOnce
  <2>3. opened' = opened => OpenedInv'
    BY FoundedStays DEF TrialRecords, OpenedInv
  <2>4. CASE Leaves(p)
    <3>1. trial'[p].pc = "idle"
      BY <2>4 DEF Leaves, EndTrial, Off, TrialTypes, TrialTypeOK
    <3>2. AnalystInv(p)'
      BY <3>1 DEF AnalystInv
    <3> QED
      BY <2>1, <2>2, <2>3, <2>4, <3>1, <3>2 DEF Leaves, TrialRecords
  <2>5. ASSUME NEW r \in Phase, OpenPhase(p, r)
        PROVE  TrialRecords'
    <3>1. UNCHANGED <<tested, results, decisions, attempts, opened>>
      BY <2>5 DEF OpenPhase, ledger, files
    <3>2. trial'[p].pc = "read" /\ trial'[p].phase = r /\ trial'[p].head = head
      BY <2>5 DEF OpenPhase, Off, TrialTypes, TrialTypeOK
    <3>3. Founded(r, head)'
      <4> SUFFICES ASSUME r # "development"
                   PROVE  Founded(r, head)
        BY <2>5, FoundedStays DEF Founded, TrialRecords, OpenPhase, inputs
      <4>1. PICK q \in Phase : q = Prior[r]
        BY PriorPhase
      <4>2. /\ decisions[q] # Missing
            /\ decisions[q].outcome = "survived" /\ decisions[q].head = head
            /\ decisions[q].artifact = results[q]
            /\ results[q].decision = "survived"
            /\ outcomes[q] # Missing /\ outcomes[q].status = "completed"
        BY <2>5, <4>1 DEF OpenPhase, PriorPassed
      <4>3. tested[q] = <<decisions[q].artifact>> /\ decisions[q].artifact \in Result
        BY <4>2 DEF TrialRecords, TestedOnce, TrialTypes, TrialTypeOK, Decision
      <4>4. damage = 0 => /\ decisions[q].artifact.head = head
                          /\ tested[q] = <<outcomes[q].artifact>>
        BY <4>2 DEF TrialInPlace, InPlace
      <4>5. damage = 0 => outcomes[q].artifact = decisions[q].artifact
        BY <4>3, <4>4
      <4> QED
        BY <4>1, <4>2, <4>3, <4>4, <4>5 DEF Founded
    <3>4. AnalystInv(p)'
      BY <2>5, <3>2, <3>3 DEF AnalystInv, OpenPhase, inputs
    <3> QED
      BY <2>1, <2>2, <2>3, <3>1, <3>2, <3>4 DEF TrialRecords
  <2>6. CASE ReadPhase(p)
    <3>1. UNCHANGED <<tested, results, decisions, attempts>>
      BY <2>6 DEF ReadPhase, ledger, files
    <3>2. trial'[p].pc \in {"idle", "launch"}
      <4>1. trial' = [trial EXCEPT ![p] = Off] \/ trial' = [trial EXCEPT ![p].pc = "launch", ![p].rows = source]
        BY <2>6 DEF ReadPhase, EndTrial
      <4> QED
        BY <4>1 DEF Off, TrialTypes, TrialTypeOK, TrialWork
    <3>3. Founded(ph, trial[p].head)
      BY <2>0, <2>6 DEF ReadPhase, TrialRecords, AnalystInv
    <3>4. opened' = [opened EXCEPT ![ph] = @ \union {trial[p].head}]
      BY <2>0, <2>6 DEF ReadPhase
    <3>5. OpenedInv'
      <4> SUFFICES ASSUME NEW r \in Phase, NEW h \in opened'[r]
                   PROVE  Founded(r, h)'
        BY DEF OpenedInv
      <4>1. h \in opened[r] \/ (r = ph /\ h = trial[p].head)
        BY <3>4 DEF TrialTypes, TrialTypeOK
      <4>2. Founded(r, h)
        BY <3>3, <4>1 DEF TrialRecords, OpenedInv
      <4> QED
        BY <4>2, FoundedStays DEF TrialRecords
    <3>6. AnalystInv(p)'
      BY <3>2 DEF AnalystInv
    <3> QED
      BY <2>1, <2>2, <3>1, <3>2, <3>5, <3>6 DEF TrialRecords
  <2>7. CASE \E r \in Phase : Launches(p, r)
    <3>1. /\ attempts[ph] = Missing
          /\ attempts' = [attempts EXCEPT ![ph] = [head |-> trial[p].head, rows |-> trial[p].rows]]
          /\ trial' = [trial EXCEPT ![p].pc = "evaluate"]
          /\ UNCHANGED <<tested, results, decisions, opened>>
      BY <2>0, <2>7 DEF Launches
    <3>2. ASSUME NEW r \in Phase
          PROVE  TestedOnce(r)'
      <4>1. TestedOnce(r)
        BY DEF TrialRecords
      <4>2. CASE r = ph
        BY <3>1, <4>1, <4>2 DEF TestedOnce
      <4>3. CASE r # ph
        <5>1. Held(r)' => Held(r)
          BY <2>0, <3>1, <4>3 DEF Held, TrialTypes, TrialTypeOK
        <5>2. attempts'[r] = attempts[r]
          BY <3>1, <4>3 DEF TrialTypes, TrialTypeOK
        <5> QED
          BY <3>1, <4>1, <5>1, <5>2 DEF TestedOnce
      <4> QED
        BY <4>2, <4>3
    <3>3. AnalystInv(p)'
      BY <3>1 DEF AnalystInv, TrialTypes, TrialTypeOK
    <3> QED
      BY <2>1, <2>3, <3>1, <3>2, <3>3 DEF TrialRecords
  <2>8. CASE Evaluate(p)
    <3>1. PICK q \in Phase, result \in Result : Evaluates(p, q, result)
      BY <2>8, EvaluatesOne
    <3>2. Held(q) /\ results[q] = Missing /\ tested[q] = <<>>
      BY <3>1 DEF Evaluates, Held, TrialRecords, TestedOnce
    <3>3. tested' = [tested EXCEPT ![q] = <<result>>]
      BY <3>1, <3>2 DEF Evaluates
    <3>4. /\ results' = [results EXCEPT ![q] = result]
          /\ trial'[p].pc = "finish" /\ trial'[p].phase = q /\ trial'[p].result = result
          /\ UNCHANGED <<decisions, opened, attempts>>
      BY <3>1 DEF Evaluates, ledger, TrialTypes, TrialTypeOK
    <3>5. ASSUME NEW r \in Phase
          PROVE  TestedOnce(r)'
      <4>1. TestedOnce(r) /\ (Held(r)' => Held(r))
        BY <1>2, <3>4, AnalystStep DEF TrialRecords, Held
      <4>2. CASE r = q
        <5>1. tested'[r] = <<result>> /\ results'[r] # Missing
          BY <3>3, <3>4, <4>2, TrialAssumption DEF TrialTypes, TrialTypeOK
        <5>2. decisions[r] = Missing
          BY <3>2, <4>1, <4>2, Single DEF TestedOnce
        <5> QED
          BY <3>4, <5>1, <5>2 DEF TestedOnce
      <4>3. CASE r # q
        BY <3>3, <3>4, <4>1, <4>3 DEF TestedOnce, TrialTypes, TrialTypeOK
      <4> QED
        BY <4>2, <4>3
    <3>6. AnalystInv(p)'
      BY <3>3, <3>4 DEF AnalystInv, TrialTypes, TrialTypeOK
    <3> QED
      BY <2>1, <2>3, <3>4, <3>5, <3>6 DEF TrialRecords
  <2>9. CASE FinishTrial(p)
    <3>1. /\ UNCHANGED <<tested, results, decisions, attempts, opened>>
          /\ trial[p].pc = "finish"
          /\ trial'[p].pc = "decide" /\ trial'[p].phase = ph /\ trial'[p].result = trial[p].result
      BY <2>0, <2>9 DEF FinishTrial, files, TrialTypes, TrialTypeOK
    <3>2. AnalystInv(p)'
      BY <2>0, <3>1 DEF TrialRecords, AnalystInv
    <3> QED
      BY <2>1, <2>2, <2>3, <3>1, <3>2 DEF TrialRecords
  <2>10. CASE Decide(p)
    <3>1. /\ UNCHANGED <<tested, results, attempts, opened>>
          /\ decisions' = [decisions EXCEPT ![ph] =
               [head |-> trial[p].head, outcome |-> trial[p].result.decision,
                artifact |-> trial[p].result]]
          /\ trial'[p].pc = "idle"
          /\ tested[ph] = <<trial[p].result>>
      BY <2>0, <2>10 DEF Decide, ledger, EndTrial, Off, TrialTypes, TrialTypeOK, TrialRecords,
         AnalystInv
    <3>2. ASSUME NEW r \in Phase
          PROVE  TestedOnce(r)'
      <4>1. TestedOnce(r) /\ (Held(r)' => Held(r))
        BY <1>2, <3>1, AnalystStep DEF TrialRecords, Held
      <4>2. decisions'[r] # Missing => tested[r] = <<decisions'[r].artifact>>
        BY <3>1, <4>1 DEF TestedOnce, TrialTypes, TrialTypeOK
      <4> QED
        BY <3>1, <4>1, <4>2 DEF TestedOnce
    <3>3. AnalystInv(p)'
      BY <3>1 DEF AnalystInv
    <3> QED
      BY <2>1, <2>3, <3>1, <3>2, <3>3 DEF TrialRecords
  <2> QED
    BY <1>2, <2>4, <2>5, <2>6, <2>7, <2>8, <2>9, <2>10, StepKinds
<1> QED
  BY <1>1, <1>2 DEF TrialNext

\* The identity of a launched process is a row.
LEMMA RowIsThere ==
  ASSUME TrialTypes, NEW p \in Analyst,
         trial[p].pc \in {"launch", "evaluate", "finish", "decide"}
  PROVE  [head |-> trial[p].head, rows |-> trial[p].rows] # Missing
BY TrialAssumption DEF TrialTypes, AnalystTypes, Equipped, AttemptRow

\* With all records in place, they agree after a step as well.
LEMMA TrialInPlaceStep ==
  ASSUME InputsTypeOK, TrialTypes, damage' = 0, TrialRecords, TrialInPlace, TrialNext
  PROVE  TrialInPlace'
<1>0. ~DamageTrial
  BY DamageGrows DEF DamageTrial, OneMoreDamage
<1>1. PICK p \in Analyst : (\E r \in Phase : OpenPhase(p, r)) \/ TrialStep(p) \/ DieTrial(p)
  BY <1>0 DEF TrialNext
<1>2. PICK ph \in Phase, t \in TrialWork : t = trial[p] /\ ph = t.phase
  BY DEF TrialTypes, TrialTypeOK, TrialWork
<1>3. \A q \in Analyst \ {p} : trial'[q] = trial[q]
  BY <1>1, AnalystStep
<1>4. ASSUME trial'[p].pc # "evaluate"
      PROVE  \A r \in Phase : Held(r)' => Held(r)
  BY <1>3, <1>4 DEF Held
<1>5. ASSUME UNCHANGED attempts, trial'[p].pc \in {"idle", "read", "launch"}
      PROVE  \A q \in Analyst : AnalystInPlace(q)'
  BY <1>3, <1>5 DEF TrialInPlace, AnalystInPlace
<1>6. CASE Leaves(p)
  <2>1. trial'[p].pc = "idle" /\ UNCHANGED <<attempts, results, decisions, tested>>
    BY <1>6 DEF Leaves, EndTrial, Off, TrialTypes, TrialTypeOK
  <2>2. \A r \in Phase : InPlace(r)'
    BY <1>4, <1>6, <2>1 DEF Leaves, TrialInPlace, InPlace
  <2> QED
    BY <1>5, <2>1, <2>2 DEF TrialInPlace
<1>7. CASE ReadPhase(p) \/ \E r \in Phase : OpenPhase(p, r)
  <2>1. UNCHANGED <<attempts, outcomes, results, decisions, tested>>
    BY <1>7 DEF ReadPhase, OpenPhase, ledger, files
  <2>2. trial'[p].pc \in {"idle", "launch", "read"}
    <3>1. ASSUME NEW r \in Phase, OpenPhase(p, r)
          PROVE  trial'[p].pc = "read"
      BY <3>1 DEF OpenPhase, Off, TrialTypes, TrialTypeOK
    <3>2. CASE ReadPhase(p) /\ source = Broken
      BY <3>2 DEF ReadPhase, EndTrial, Off, TrialTypes, TrialTypeOK
    <3>3. CASE ReadPhase(p) /\ source # Broken
      BY <3>3 DEF ReadPhase, TrialTypes, TrialTypeOK, TrialWork
    <3> QED
      BY <1>7, <3>1, <3>2, <3>3
  <2>3. \A r \in Phase : InPlace(r)'
    BY <1>4, <2>1, <2>2 DEF TrialInPlace, InPlace
  <2> QED
    BY <1>5, <2>1, <2>2, <2>3 DEF TrialInPlace
<1>8. CASE \E r \in Phase : Launches(p, r)
  <2>1. /\ attempts[ph] = Missing
        /\ attempts' = [attempts EXCEPT ![ph] = [head |-> trial[p].head, rows |-> trial[p].rows]]
        /\ trial' = [trial EXCEPT ![p].pc = "evaluate"]
        /\ UNCHANGED <<outcomes, results, decisions, tested>>
    BY <1>2, <1>8 DEF Launches
  <2>2. trial'[p].pc = "evaluate" /\ trial'[p].phase = ph
        /\ trial'[p].head = trial[p].head /\ trial'[p].rows = trial[p].rows
    BY <1>2, <2>1 DEF TrialTypes, TrialTypeOK, TrialWork
  <2>3. \A r \in Phase \ {ph} : attempts'[r] = attempts[r] /\ (Held(r)' => Held(r))
    BY <1>3, <2>1, <2>2 DEF Held, TrialTypes, TrialTypeOK
  <2>4. attempts'[ph] = [head |-> trial[p].head, rows |-> trial[p].rows]
    BY <2>1 DEF TrialTypes, TrialTypeOK
  <2>5. ASSUME NEW r \in Phase
        PROVE  InPlace(r)'
    <3>1. InPlace(r) /\ TestedOnce(r)
      BY DEF TrialInPlace, TrialRecords
    <3>2. CASE r # ph
      BY <2>1, <2>3, <3>1, <3>2 DEF InPlace
    <3>3. CASE r = ph
      <4>1. tested[r] = <<>>
        BY <2>1, <3>1, <3>3 DEF InPlace
      <4>2. decisions[r] = Missing
        BY <3>1, <4>1, Single DEF TestedOnce
      <4> QED
        BY <2>1, <3>1, <4>1, <4>2 DEF InPlace
    <3> QED
      BY <3>2, <3>3
  <2>6. ASSUME NEW q \in Analyst
        PROVE  AnalystInPlace(q)'
    <3>1. \A z \in Analyst : AnalystInPlace(z) /\ trial[z].phase \in Phase
      BY DEF TrialInPlace, TrialTypes, TrialTypeOK, TrialWork
    <3>2. \A z \in Analyst \ {p} :
            trial[z].pc \in {"evaluate", "finish", "decide"} => trial[z].phase # ph
      BY <2>1, <3>1, RowIsThere DEF AnalystInPlace
    <3> QED
      BY <1>3, <2>2, <2>3, <2>4, <3>1, <3>2 DEF AnalystInPlace
  <2> QED
    BY <2>5, <2>6 DEF TrialInPlace
<1>9. CASE Evaluate(p)
  <2>1. PICK q \in Phase, result \in Result : Evaluates(p, q, result)
    BY <1>9, EvaluatesOne
  <2>2. q = ph /\ trial[p].pc = "evaluate"
    BY <1>2, <2>1 DEF Evaluates
  <2>3. Held(ph) /\ tested[ph] = <<>>
    BY <1>2, <2>2 DEF Held, TrialInPlace, InPlace
  <2>4. /\ trial'[p].pc = "finish" /\ trial'[p].phase = ph /\ trial'[p].result = result
        /\ trial'[p].head = trial[p].head /\ trial'[p].rows = trial[p].rows
        /\ result.head = trial[p].head /\ result.rows = trial[p].rows
        /\ UNCHANGED <<attempts, outcomes, decisions>>
        /\ tested' = [tested EXCEPT ![ph] = <<result>>]
        /\ results' = [results EXCEPT ![ph] = result]
    BY <1>2, <2>1, <2>2, <2>3 DEF Evaluates, ledger, TrialTypes, TrialTypeOK, TrialWork
  <2>5. attempts[ph] = [head |-> trial[p].head, rows |-> trial[p].rows]
    BY <1>2, <2>2 DEF TrialInPlace, AnalystInPlace
  <2>6. ASSUME NEW r \in Phase
        PROVE  InPlace(r)'
    <3>1. InPlace(r) /\ TestedOnce(r) /\ (Held(r)' => Held(r))
      BY <1>4, <2>4 DEF TrialInPlace, TrialRecords
    <3>2. CASE r # ph
      BY <2>4, <3>1, <3>2 DEF InPlace, TrialTypes, TrialTypeOK
    <3>3. CASE r = ph
      <4>1. ~Held(ph)'
        BY <1>2, <1>3, <2>2, <2>4 DEF Held, TrialInPlace, AnalystInPlace
      <4>2. tested'[ph] = <<result>> /\ results'[ph] # Missing /\ attempts'[ph] # Missing
        BY <2>2, <2>4, <2>5, TrialAssumption, RowIsThere DEF TrialTypes, TrialTypeOK
      <4>3. decisions[ph] = Missing
        BY <2>3, <3>1, <3>3, Single DEF TestedOnce
      <4>4. ~(outcomes[ph] # Missing /\ outcomes[ph].status = "completed")
        BY <2>3, <3>1, <3>3, Single DEF InPlace
      <4> QED
        BY <2>4, <3>3, <4>1, <4>2, <4>3, <4>4 DEF InPlace
    <3> QED
      BY <3>2, <3>3
  <2>7. \A z \in Analyst : AnalystInPlace(z)'
    BY <1>3, <2>4, <2>5 DEF TrialInPlace, AnalystInPlace
  <2> QED
    BY <2>6, <2>7 DEF TrialInPlace
<1>10. CASE FinishTrial(p)
  <2>1. /\ trial[p].pc = "finish" /\ trial'[p].pc = "decide" /\ trial'[p].phase = ph
        /\ trial'[p].head = trial[p].head /\ trial'[p].rows = trial[p].rows
        /\ trial'[p].result = trial[p].result
        /\ UNCHANGED <<attempts, results, decisions, tested>>
        /\ outcomes' = [outcomes EXCEPT ![ph] = [status |-> "completed", artifact |-> trial[p].result]]
    BY <1>2, <1>10 DEF FinishTrial, files, TrialTypes, TrialTypeOK, TrialWork
  <2>2. tested[ph] = <<trial[p].result>>
    BY <1>2, <2>1 DEF TrialRecords, AnalystInv
  <2>3. ASSUME NEW r \in Phase
        PROVE  InPlace(r)'
    <3>1. InPlace(r) /\ (Held(r)' => Held(r))
      BY <1>4, <2>1 DEF TrialInPlace
    <3>2. outcomes'[r] = outcomes[r] \/ (r = ph /\ outcomes'[r].artifact = trial[p].result)
      BY <2>1 DEF TrialTypes, TrialTypeOK
    <3> QED
      BY <2>1, <2>2, <3>1, <3>2 DEF InPlace
  <2>4. \A z \in Analyst : AnalystInPlace(z)'
    BY <1>2, <1>3, <2>1 DEF TrialInPlace, AnalystInPlace
  <2> QED
    BY <2>3, <2>4 DEF TrialInPlace
<1>11. CASE Decide(p)
  <2>1. /\ trial[p].pc = "decide" /\ trial'[p].pc = "idle"
        /\ UNCHANGED <<attempts, outcomes, results, tested>>
        /\ decisions' = [decisions EXCEPT ![ph] =
             [head |-> trial[p].head, outcome |-> trial[p].result.decision,
              artifact |-> trial[p].result]]
    BY <1>2, <1>11 DEF Decide, EndTrial, Off, ledger, TrialTypes, TrialTypeOK
  <2>2. /\ attempts[ph] = [head |-> trial[p].head, rows |-> trial[p].rows]
        /\ trial[p].result.head = trial[p].head /\ trial[p].result.rows = trial[p].rows
    BY <1>2, <2>1 DEF TrialInPlace, AnalystInPlace
  <2>3. ASSUME NEW r \in Phase
        PROVE  InPlace(r)'
    <3>1. InPlace(r) /\ (Held(r)' => Held(r))
      BY <1>4, <2>1 DEF TrialInPlace
    <3>2. CASE r # ph
      BY <2>1, <3>1, <3>2 DEF InPlace, TrialTypes, TrialTypeOK
    <3>3. CASE r = ph
      <4>1. decisions'[r] = [head |-> trial[p].head, outcome |-> trial[p].result.decision,
                             artifact |-> trial[p].result]
        BY <2>1, <3>3 DEF TrialTypes, TrialTypeOK
      <4> QED
        BY <2>1, <2>2, <3>1, <3>3, <4>1 DEF InPlace
    <3> QED
      BY <3>2, <3>3
  <2> QED
    BY <1>5, <2>1, <2>3 DEF TrialInPlace
<1> QED
  BY <1>1, <1>6, <1>7, <1>8, <1>9, <1>10, <1>11, StepKinds

-----------------------------------------------------------------------------
(* The low-volatility trial: the theorem *)

\* What happens around the commands happens once at a time.
Events ==
  \/ UNCHANGED inputs
  \/ Move
  \/ OneMoreDeath
  \/ OneMoreDamage
  \/ moves < MaxMoves /\ moves' = moves + 1 /\ UNCHANGED <<head, source, deaths, damage>>

\* The inputs keep their types.
LEMMA EventsType ==
  ASSUME InputsTypeOK, Events
  PROVE  InputsTypeOK'
BY InputBoundAssumption
   DEF InputsTypeOK, Events, Move, OneMoreDeath, OneMoreDamage, inputs

\* Every step of the composition is at most one event of the inputs.
LEMMA EveryEvent ==
  ASSUME Next
  PROVE  Events
<1>1. CASE Drift
  BY <1>1 DEF Drift, Events
<1>2. CASE Private
  <2>1. CASE Damage
    BY <2>1 DEF Damage, Events
  <2>2. ASSUME NEW p \in Operator, Die(p)
        PROVE  Events
    BY <2>2 DEF Die, Events
  <2>3. ASSUME NEW p \in Operator,
               Initialize(p) \/ \E g \in Grant : AskAuthorization(p, g) \/ Prepare(p, g) \/ Execute(p, g)
        PROVE  Events
    BY <2>3 DEF Initialize, AskAuthorization, Prepare, Execute, Begin, Events
  <2>4. ASSUME NEW p \in Operator, PrivateStep(p)
        PROVE  Events
    BY <2>4 DEF PrivateStep, WriteAnchor, CreateTables, Authorize, ConsumeSnapshot, Copy, Freeze,
       Seal, Load, ConsumeBatch, HashSnapshot, Block, Reject, Admit, Replay, Settle, Review,
       Refused, Raise, Events
  <2>5. ASSUME NEW g \in Grant, RecoverBatch(g)
        PROVE  Events
    BY <2>5 DEF RecoverBatch, Events
  <2> QED
    BY <1>2, <2>1, <2>2, <2>3, <2>4, <2>5 DEF Private, PrivateNext
<1>3. CASE Trial
  <2>1. CASE DamageTrial
    BY <2>1 DEF DamageTrial, Events
  <2>2. ASSUME NEW p \in Analyst, DieTrial(p)
        PROVE  Events
    BY <2>2 DEF DieTrial, Events
  <2>3. ASSUME NEW p \in Analyst, TrialStep(p) \/ \E ph \in Phase : OpenPhase(p, ph)
        PROVE  Events
    BY <2>3 DEF TrialStep, OpenPhase, ReadPhase, Launch, Evaluate, FinishTrial, Decide, FailTrial,
       Events
  <2> QED
    BY <1>3, <2>1, <2>2, <2>3 DEF Trial, TrialNext
<1>4. CASE Bundles
  <2>1. CASE DamageBundle
    BY <2>1 DEF DamageBundle, Events
  <2>2. ASSUME NEW p \in Wrapper, InterruptRun(p) \/ DieWrapper(p)
        PROVE  Events
    BY <2>2 DEF InterruptRun, DieWrapper, Events
  <2>3. ASSUME NEW b \in Bundle, DiePreparing(b)
        PROVE  Events
    BY <2>3 DEF DiePreparing, Events
  <2>4. ASSUME NEW b \in Bundle, NEW ph \in BundlePhase, PrepareBundle(b, ph)
        PROVE  Events
    BY <2>4 DEF PrepareBundle, Events
  <2>5. ASSUME NEW p \in Wrapper, NEW b \in Bundle, NEW a \in AttemptId, NEW ph \in Phase,
               Record(p, b, a, ph)
        PROVE  Events
    BY <2>5 DEF Record, Events
  <2>6. ASSUME NEW p \in Wrapper, BundleStep(p)
        PROVE  Events
    BY <2>6 DEF BundleStep, StartAttempt, OpenLog, ReplayBundle, PrintResult, FinishAttempt,
       FailRun, Events
  <2> QED
    BY <1>4, <2>1, <2>2, <2>3, <2>4, <2>5, <2>6 DEF Bundles, BundleNext
<1>5. CASE Scripts
  <2>1. CASE Edit
    BY <2>1 DEF Edit, Events
  <2>2. ASSUME NEW p \in Tester, DieBatch(p)
        PROVE  Events
    BY <2>2 DEF DieBatch, Events
  <2>3. ASSUME NEW k \in Output, DamageArtifact(k)
        PROVE  Events
    BY <2>3 DEF DamageArtifact, Events
  <2>4. ASSUME NEW k \in Output, RecoverArtifact(k) \/ \E p \in Tester : Start(p, k)
        PROVE  Events
    BY <2>4 DEF RecoverArtifact, Start, Events
  <2>5. ASSUME NEW p \in Tester, BatchStep(p)
        PROVE  Events
    BY <2>5 DEF BatchStep, OpenSources, HashSources, RegisterBatch, LoadPackages, EvaluateBatch,
       WriteArtifact, CompleteBatch, RaiseBatch, Events
  <2> QED
    BY <1>5, <2>1, <2>2, <2>3, <2>4, <2>5 DEF Scripts, LedgerNext
<1>6. CASE Workflow
  <2>1. CASE Edit
    BY <2>1 DEF Edit, Events
  <2>2. ASSUME NEW p \in Clerk, DieWorkflow(p)
        PROVE  Events
    BY <2>2 DEF DieWorkflow, Events
  <2>3. CASE DamageOutput
    BY <2>3 DEF DamageOutput, Events
  <2>4. ASSUME NEW p \in Clerk, Submit(p) \/ AskRecover(p)
        PROVE  Events
    BY <2>4 DEF Submit, AskRecover, Keep, Unchanged, Events
  <2>5. ASSUME NEW p \in Clerk, WorkflowStep(p)
        PROVE  Events
    BY <2>5 DEF WorkflowStep, Lock, Register, CaptureHistory, Capture, WriteCompilation,
       LinkManifest, UnlinkPending, CompleteSources, Assemble, AdmitJobs, ExecuteJobs, OpenParity,
       WriteParity, WriteTiming, Report, RecoverSources, Close, RaiseWorkflow, Keep, Unchanged,
       Events
  <2> QED
    BY <1>6, <2>1, <2>2, <2>3, <2>4, <2>5 DEF Workflow, WorkflowNext
<1> QED
  BY <1>1, <1>2, <1>3, <1>4, <1>5, <1>6 DEF Next

\* Initially nothing has happened.
LEMMA InputsInitially == Init => InputsTypeOK
BY InputBoundAssumption DEF Init, InputsInit, InputsTypeOK

\* A trial that was not begun is safe.
LEMMA TrialInitially ==
  ASSUME TrialInit
  PROVE  TrialSafe
<1>1. Off \in TrialWork
  BY DEF Off, TrialWork, Phase
<1>2. TrialTypes
  BY <1>1 DEF TrialInit, TrialTypes, TrialTypeOK, AnalystTypes, Equipped, Off
<1>3. \A p \in Analyst : AnalystInv(p) /\ AnalystInPlace(p)
  BY DEF TrialInit, AnalystInv, AnalystInPlace, Off
<1>4. \A ph \in Phase : TestedOnce(ph) /\ InPlace(ph)
  BY DEF TrialInit, TestedOnce, InPlace
<1>5. OpenedInv
  BY DEF TrialInit, OpenedInv
<1> QED
  BY <1>2, <1>3, <1>4, <1>5 DEF TrialSafe, TrialRecords, TrialInPlace

\* Main and the price store move, or nothing does.
LEMMA TrialStutters ==
  ASSUME TrialSafe, UNCHANGED <<trialVars, damage>>
  PROVE  TrialSafe'
<1>1. UNCHANGED <<attempts, outcomes, results, decisions, trial, opened, tested, damage>>
  BY DEF trialVars, ledger, files
<1>2. TrialTypes'
  BY <1>1 DEF TrialSafe, TrialTypes, TrialTypeOK, AnalystTypes
<1>3. TrialRecords => TrialRecords'
  BY <1>1 DEF TrialRecords, TestedOnce, Held, AnalystInv, OpenedInv, Founded
<1>4. TrialInPlace => TrialInPlace'
  BY <1>1 DEF TrialInPlace, InPlace, AnalystInPlace, Held
<1> QED
  BY <1>1, <1>2, <1>3, <1>4 DEF TrialSafe

\* The trial's invariant is inductive.
LEMMA TrialKept ==
  ASSUME TrialInv, [Next]_researchVars
  PROVE  TrialInv'
<1>1. CASE UNCHANGED researchVars
  <2>1. UNCHANGED <<inputs, trialVars, workload, damage>>
    BY <1>1 DEF researchVars, inputs
  <2>2. InputsTypeOK'
    BY <2>1, EventsType DEF Events, TrialInv
  <2>3. TrialInit => TrialInit'
    BY <2>1 DEF TrialInit, trialVars, ledger, files
  <2> QED
    BY <2>1, <2>2, <2>3, TrialStutters DEF TrialInv
<1>2. CASE Next
  <2>1. workload' = workload /\ InputsTypeOK'
    BY <1>2, EveryEvent, EventsType DEF Next, TrialInv
  <2>2. CASE workload # "trial"
    <3>1. UNCHANGED trialVars
      BY <1>2, <2>2 DEF Next, Drift, Private, Trial, Bundles, Scripts, Workflow
    <3>2. TrialInit'
      BY <2>2, <3>1 DEF TrialInv, TrialInit, trialVars, ledger, files
    <3> QED
      BY <2>1, <2>2, <3>2 DEF TrialInv
  <2>3. CASE workload = "trial"
    <3>1. Drift \/ TrialNext
      BY <1>2, <2>3 DEF Next, Private, Trial, Bundles, Scripts, Workflow
    <3>2. CASE Drift
      BY <2>1, <2>3, <3>2, TrialStutters DEF Drift, Move, TrialInv
    <3>3. CASE TrialNext
      <4>1. damage \in Nat /\ damage' \in Nat /\ damage <= damage'
        BY <3>3, DamageGrows DEF TrialInv
      <4>2. TrialTypes'
        BY <2>3, <3>3, TrialTypesStep DEF TrialInv, TrialSafe
      <4>3. damage' <= 1 => TrialRecords'
        BY <2>3, <3>3, <4>1, TrialRecordsStep DEF TrialInv, TrialSafe
      <4>4. damage' = 0 => TrialInPlace'
        BY <2>3, <3>3, <4>1, TrialInPlaceStep DEF TrialInv, TrialSafe
      <4> QED
        BY <2>1, <2>3, <4>2, <4>3, <4>4 DEF TrialInv, TrialSafe
    <3> QED
      BY <3>1, <3>2, <3>3
  <2> QED
    BY <2>2, <2>3
<1> QED
  BY <1>1, <1>2

\* The invariant implies what the run checks of the trial.
LEMMA SurvivalFollows == TrialInv => SurvivalCounts
<1> SUFFICES ASSUME TrialSafe, damage \in Nat, damage <= 1, NEW ph \in Phase
             PROVE  /\ Len(tested[ph]) <= 1
                    /\ ph # "development" => \A h \in opened[ph] :
                         /\ tested[Prior[ph]] # <<>>
                         /\ tested[Prior[ph]][1].decision = "survived"
                         /\ damage = 0 => /\ tested[Prior[ph]][1].head = h
                                          /\ outcomes[Prior[ph]].artifact = tested[Prior[ph]][1]
                    /\ damage = 0 /\ decisions[ph] # Missing =>
                         /\ tested[ph] = <<decisions[ph].artifact>>
                         /\ decisions[ph].outcome = tested[ph][1].decision
                         /\ attempts[ph] = [head |-> decisions[ph].head, rows |-> tested[ph][1].rows]
  BY TrialInitially DEF TrialInv, SurvivalCounts, InputsTypeOK
<1>1. TestedOnce(ph) /\ OpenedInv
  BY DEF TrialSafe, TrialRecords
<1>2. Len(tested[ph]) <= 1
  <2>1. CASE tested[ph] = <<>>
    BY <2>1
  <2>2. CASE tested[ph] # <<>>
    <3>1. PICK x \in Result : tested[ph] = <<x>>
      BY <1>1, <2>2 DEF TestedOnce
    <3> QED
      BY <3>1, Single
  <2> QED
    BY <2>1, <2>2
<1>3. ASSUME ph # "development", NEW h \in opened[ph]
      PROVE  /\ tested[Prior[ph]] # <<>>
             /\ tested[Prior[ph]][1].decision = "survived"
             /\ damage = 0 => /\ tested[Prior[ph]][1].head = h
                              /\ outcomes[Prior[ph]].artifact = tested[Prior[ph]][1]
  <2>1. PICK x \in Result :
          /\ tested[Prior[ph]] = <<x>>
          /\ x.decision = "survived"
          /\ damage = 0 => x.head = h /\ outcomes[Prior[ph]].artifact = x
    BY <1>1, <1>3 DEF OpenedInv, Founded
  <2>2. tested[Prior[ph]] # <<>> /\ tested[Prior[ph]][1] = x
    BY <2>1, Single
  <2> QED
    BY <2>1, <2>2
<1>4. ASSUME damage = 0, decisions[ph] # Missing
      PROVE  /\ tested[ph] = <<decisions[ph].artifact>>
             /\ decisions[ph].outcome = tested[ph][1].decision
             /\ attempts[ph] = [head |-> decisions[ph].head, rows |-> tested[ph][1].rows]
  BY <1>1, <1>4, Single DEF TestedOnce, TrialSafe, TrialInPlace, InPlace
<1> QED
  BY <1>2, <1>3, <1>4

-----------------------------------------------------------------------------
(* The bundles: the invariant *)

\* A command that runs has what it works on, and a replayed program a result.
Engages(w) ==
  /\ w.pc # "idle" => /\ w.bundle \in Bundle /\ w.attempt \in AttemptId
                      /\ w.identity \in IdentityFile /\ w.phase \in Phase
  /\ w.pc = "print" => w.result \in ResultFile

\* A manifest says what was read for its bundle, and nobody works in a bundle
\* that is not there.
Stands(b) ==
  /\ bundle[b] # Missing /\ bundle[b].manifest # Missing =>
       bundle[b].manifest.input.rows = fetched[b]
  /\ bundle[b] = Missing => \A p \in Wrapper : wrapper[p].pc # "idle" => wrapper[p].bundle # b

BundleTypes == BundleTypeOK /\ \A p \in Wrapper : Engages(wrapper[p])

Running == {"log", "replay", "print", "end"}

\* What the replay of an identity's input is, and the revision it runs under.
ReplayOf(identity) ==
  [head |-> identity.head, result |-> [input |-> identity.data.input, identity |-> identity]]

\* With all records in place, a process works on the identity it recorded, in an
\* attempt of its own that has the replay its label says.
WrapperInPlace(p) ==
  LET w == wrapper[p] IN
  /\ w.pc # "idle" => bundle[w.bundle].identity = w.identity
  /\ w.pc \in Running =>
       /\ launches[w.attempt] = [identity |-> w.identity, phase |-> w.phase]
       /\ \A q \in Wrapper \ {p} : wrapper[q].pc \in Running => wrapper[q].attempt # w.attempt
  /\ w.pc \in {"log", "replay"} => produced[w.attempt] = <<>>
  /\ w.pc \in {"print", "end"} => produced[w.attempt] = <<ReplayOf(w.identity)>>

AttemptInPlace(a) ==
  /\ launches[a] = Missing => produced[a] = <<>> /\ endings[a] = Missing
  /\ endings[a] = "completed" => produced[a] = <<ReplayOf(launches[a].identity)>>
  /\ launches[a] # Missing /\ launches[a].phase = "validation" =>
       \A other \in AttemptId \ {a} : launches[other] # launches[a]

BundleInPlace ==
  /\ \A p \in Wrapper : WrapperInPlace(p)
  /\ \A a \in AttemptId : AttemptInPlace(a)

BundleSafe ==
  /\ BundleTypes
  /\ \A b \in Bundle : Stands(b)
  /\ damage = 0 => BundleInPlace

BundleInv ==
  /\ InputsTypeOK
  /\ IF workload = "bundle" THEN BundleSafe ELSE BundleInit

-----------------------------------------------------------------------------
(* The bundles: their steps *)

\* Before any bundle is prepared all is in place.
LEMMA BundleInitially ==
  ASSUME BundleInit
  PROVE  BundleSafe
<1>1. NoCommand \in WrapperWork /\ NoCommand.pc = "idle"
  BY DEF NoCommand, WrapperWork, OrMissing
<1>2. BundleTypes
  BY <1>1 DEF BundleInit, BundleTypes, BundleTypeOK, OrMissing, Engages
<1>3. \A b \in Bundle : Stands(b)
  BY <1>1 DEF BundleInit, Stands
<1>4. BundleInPlace
  BY <1>1, BundleAssumption DEF BundleInit, BundleInPlace, WrapperInPlace, AttemptInPlace, Running
<1> QED
  BY <1>2, <1>3, <1>4 DEF BundleSafe

\* One process goes on, and has what it needs.
LEMMA WrapperMoves ==
  ASSUME BundleTypes, NEW p \in Wrapper, NEW w \in WrapperWork, Engages(w),
         wrapper' = [wrapper EXCEPT ![p] = w]
  PROVE  /\ wrapper' \in [Wrapper -> WrapperWork]
         /\ \A q \in Wrapper : Engages(wrapper'[q])
BY DEF BundleTypes, BundleTypeOK

\* A command that ends leaves the others alone.
LEMMA WrapperQuits ==
  ASSUME BundleTypes, NEW p \in Wrapper, Quit(p)
  PROVE  /\ wrapper' \in [Wrapper -> WrapperWork]
         /\ \A q \in Wrapper : Engages(wrapper'[q])
         /\ wrapper'[p].pc = "idle"
         /\ \A q \in Wrapper \ {p} : wrapper'[q] = wrapper[q]
<1>1. NoCommand \in WrapperWork /\ Engages(NoCommand) /\ NoCommand.pc = "idle"
  BY DEF NoCommand, WrapperWork, OrMissing, Engages
<1> QED
  BY <1>1, WrapperMoves DEF Quit, BundleTypes, BundleTypeOK

\* A label that needs no more than the process has.
LEMMA WrapperAdvances ==
  ASSUME BundleTypes, NEW p \in Wrapper, wrapper[p].pc # "idle",
         NEW label \in {"log", "replay", "end"}, Advance(p, label)
  PROVE  /\ wrapper' \in [Wrapper -> WrapperWork]
         /\ \A q \in Wrapper : Engages(wrapper'[q])
         /\ wrapper'[p].pc = label
         /\ wrapper'[p].bundle = wrapper[p].bundle
         /\ wrapper'[p].attempt = wrapper[p].attempt
         /\ wrapper'[p].identity = wrapper[p].identity
         /\ wrapper'[p].phase = wrapper[p].phase
         /\ \A q \in Wrapper \ {p} : wrapper'[q] = wrapper[q]
<1>1. PICK w : w = [wrapper[p] EXCEPT !.pc = label]
  OBVIOUS
<1>2. w \in WrapperWork /\ Engages(w)
  BY <1>1 DEF BundleTypes, BundleTypeOK, WrapperWork, Engages
<1>3. wrapper' = [wrapper EXCEPT ![p] = w]
  BY <1>1 DEF Advance, BundleTypes, BundleTypeOK
<1>4. /\ w.pc = label /\ w.bundle = wrapper[p].bundle /\ w.attempt = wrapper[p].attempt
      /\ w.identity = wrapper[p].identity /\ w.phase = wrapper[p].phase
  BY <1>1 DEF BundleTypes, BundleTypeOK, WrapperWork
<1>5. wrapper'[p] = w /\ \A q \in Wrapper \ {p} : wrapper'[q] = wrapper[q]
  BY <1>3 DEF BundleTypes, BundleTypeOK
<1> QED
  BY <1>2, <1>3, <1>4, <1>5, WrapperMoves

\* A process is in a bundle that is there.
LEMMA BundleIsThere ==
  ASSUME BundleTypes, \A b \in Bundle : Stands(b), NEW p \in Wrapper, wrapper[p].pc # "idle"
  PROVE  /\ wrapper[p].bundle \in Bundle /\ wrapper[p].attempt \in AttemptId
         /\ wrapper[p].identity \in IdentityFile /\ wrapper[p].phase \in Phase
         /\ bundle[wrapper[p].bundle] \in BundleFiles
BY DEF BundleTypes, BundleTypeOK, Engages, Stands, OrMissing

\* Content that is put into a bundle's files.
LEMMA BundleChanges ==
  ASSUME BundleTypes, NEW b \in Bundle, NEW files2 \in OrMissing(BundleFiles),
         bundle' = [bundle EXCEPT ![b] = files2]
  PROVE  bundle' \in [Bundle -> OrMissing(BundleFiles)]
BY DEF BundleTypes, BundleTypeOK

\* An entry that is added to one of several sequences.
LEMMA Appended ==
  ASSUME NEW K, NEW E, NEW f \in [K -> Seq(E)], NEW k \in K, NEW e \in E
  PROVE  [f EXCEPT ![k] = Append(@, e)] \in [K -> Seq(E)]
<1>1. Append(f[k], e) \in Seq(E)
  OBVIOUS
<1> QED
  BY <1>1

\* The records keep their types, and a process has what its label needs.
LEMMA BundleTypesStep ==
  ASSUME InputsTypeOK, BundleTypes, \A b \in Bundle : Stands(b), BundleNext
  PROVE  BundleTypes'
<1> USE DEF OrMissing
<1>1. ASSUME NEW p \in Wrapper, NEW b \in Bundle, NEW a \in AttemptId, NEW ph \in Phase,
             Record(p, b, a, ph)
      PROVE  BundleTypes'
  <2>1. PICK w : w = [NoCommand EXCEPT !.pc = "start", !.bundle = b, !.phase = ph,
                                       !.attempt = a, !.identity = bundle[b].identity]
    OBVIOUS
  <2>2. bundle[b].identity \in IdentityFile
    BY <1>1 DEF Record, BundleTypes, BundleTypeOK, BundleFiles
  <2>3. w \in WrapperWork /\ Engages(w)
    BY <2>1, <2>2 DEF NoCommand, WrapperWork, Engages
  <2>4. wrapper' = [wrapper EXCEPT ![p] = w]
    BY <1>1, <2>1 DEF Record
  <2> QED
    BY <1>1, <2>3, <2>4, WrapperMoves DEF Record, BundleTypes, BundleTypeOK, h1Registry, h1History
<1>2. ASSUME NEW p \in Wrapper, StartAttempt(p)
      PROVE  BundleTypes'
  <2>1. CASE MayStart(wrapper[p])
    <3>1. [identity |-> wrapper[p].identity, phase |-> wrapper[p].phase] \in LaunchRow
      BY <1>2, BundleIsThere DEF StartAttempt, LaunchRow
    <3>2. launches' \in [AttemptId -> OrMissing(LaunchRow)]
      BY <1>2, <2>1, <3>1 DEF StartAttempt, BundleTypes, BundleTypeOK
    <3> QED
      BY <1>2, <2>1, <3>2, WrapperAdvances DEF StartAttempt, BundleTypes, BundleTypeOK, h1History
  <2>2. CASE ~MayStart(wrapper[p])
    BY <1>2, <2>2, WrapperQuits DEF StartAttempt, BundleTypes, BundleTypeOK, h1History
  <2> QED
    BY <2>1, <2>2
<1>3. ASSUME NEW p \in Wrapper, OpenLog(p)
      PROVE  BundleTypes'
  <2>1. PICK b \in Bundle : b = wrapper[p].bundle /\ bundle[b] \in BundleFiles
    BY <1>3, BundleIsThere DEF OpenLog
  <2>2. PICK new : new = [bundle[b] EXCEPT !.log = [printed |-> Missing]]
    OBVIOUS
  <2>3. new \in BundleFiles
    BY <2>1, <2>2 DEF BundleFiles
  <2>4. bundle' = [bundle EXCEPT ![b] = new]
    BY <1>3, <2>1, <2>2 DEF OpenLog, BundleTypes, BundleTypeOK
  <2>5. bundle' \in [Bundle -> OrMissing(BundleFiles)]
    BY <2>3, <2>4, BundleChanges
  <2>6. /\ wrapper' \in [Wrapper -> WrapperWork]
        /\ \A q \in Wrapper : Engages(wrapper'[q])
    BY <1>3, WrapperAdvances DEF OpenLog
  <2> QED
    BY <1>3, <2>5, <2>6 DEF OpenLog, BundleTypes, BundleTypeOK, h1Registry, h1History
<1>4. ASSUME NEW p \in Wrapper, ReplayBundle(p)
      PROVE  BundleTypes'
  <2>1. PICK b \in Bundle : b = wrapper[p].bundle /\ bundle[b] \in BundleFiles
    BY <1>4, BundleIsThere DEF ReplayBundle
  <2>2. PICK result : result = [input |-> bundle[b].input, identity |-> bundle[b].identity]
    OBVIOUS
  <2>3. result \in ResultFile
    BY <1>4, <2>1, <2>2 DEF ReplayBundle, Replayable, Chained, BundleFiles, ResultFile
  <2>4. PICK new : new = [bundle[b] EXCEPT !.result = result]
    OBVIOUS
  <2>5. new \in BundleFiles
    BY <2>1, <2>3, <2>4 DEF BundleFiles
  <2>6. bundle' = [bundle EXCEPT ![b] = new]
    BY <1>4, <2>1, <2>2, <2>4 DEF ReplayBundle, BundleTypes, BundleTypeOK
  <2>7. PICK w : w = [wrapper[p] EXCEPT !.pc = "print", !.result = result]
    OBVIOUS
  <2>8. wrapper[p] \in WrapperWork /\ Engages(wrapper[p]) /\ wrapper[p].pc = "replay"
    BY <1>4 DEF ReplayBundle, BundleTypes, BundleTypeOK
  <2>9. w \in WrapperWork /\ Engages(w)
    BY <2>3, <2>7, <2>8 DEF WrapperWork, Engages
  <2>10. wrapper' = [wrapper EXCEPT ![p] = w]
    BY <1>4, <2>1, <2>2, <2>7 DEF ReplayBundle, BundleTypes, BundleTypeOK
  <2>11. [head |-> head, result |-> result] \in [head : Revision, result : ResultFile]
    BY <2>3 DEF InputsTypeOK
  <2>12. produced' \in [AttemptId -> Seq([head : Revision, result : ResultFile])]
    <3>1. PICK a \in AttemptId : a = wrapper[p].attempt
      BY <1>4, BundleIsThere DEF ReplayBundle
    <3>2. PICK Entries : Entries = [head : Revision, result : ResultFile]
      OBVIOUS
    <3>3. PICK entry \in Entries : entry = [head |-> head, result |-> result]
      BY <2>11, <3>2
    <3>4. produced' = [produced EXCEPT ![a] = Append(@, entry)]
      BY <1>4, <2>1, <2>2, <3>1, <3>3 DEF ReplayBundle
    <3>5. produced \in [AttemptId -> Seq(Entries)]
      BY <3>2 DEF BundleTypes, BundleTypeOK
    <3>6. produced' \in [AttemptId -> Seq(Entries)]
      BY <3>4, <3>5, Appended
    <3> QED
      BY <3>2, <3>6
  <2>13. bundle' \in [Bundle -> OrMissing(BundleFiles)]
    BY <2>5, <2>6, BundleChanges
  <2>14. /\ wrapper' \in [Wrapper -> WrapperWork]
         /\ \A q \in Wrapper : Engages(wrapper'[q])
    BY <2>9, <2>10, WrapperMoves
  <2> QED
    BY <1>4, <2>12, <2>13, <2>14 DEF ReplayBundle, BundleTypes, BundleTypeOK, h1Registry
<1>5. ASSUME NEW p \in Wrapper, PrintResult(p)
      PROVE  BundleTypes'
  <2>1. PICK b \in Bundle : b = wrapper[p].bundle /\ bundle[b] \in BundleFiles
    BY <1>5, BundleIsThere DEF PrintResult
  <2>2. PICK new : new = [bundle[b] EXCEPT !.log = [printed |-> wrapper[p].result]]
    OBVIOUS
  <2>3. wrapper[p].result \in ResultFile
    BY <1>5 DEF PrintResult, BundleTypes, Engages
  <2>4. new \in BundleFiles
    BY <2>1, <2>2, <2>3 DEF BundleFiles
  <2>5. bundle' = [bundle EXCEPT ![b] = new]
    BY <1>5, <2>1, <2>2 DEF PrintResult, BundleTypes, BundleTypeOK
  <2>6. bundle' \in [Bundle -> OrMissing(BundleFiles)]
    BY <2>4, <2>5, BundleChanges
  <2>7. /\ wrapper' \in [Wrapper -> WrapperWork]
        /\ \A q \in Wrapper : Engages(wrapper'[q])
    BY <1>5, WrapperAdvances, WrapperQuits DEF PrintResult
  <2> QED
    BY <1>5, <2>6, <2>7 DEF PrintResult, BundleTypes, BundleTypeOK, h1Registry, h1History
<1>6. ASSUME NEW a, NEW outcome \in {"completed", "failed", "aborted"}, Ended(a, outcome)
      PROVE  endings' \in [AttemptId -> {Missing, "completed", "failed", "aborted"}]
  BY <1>6 DEF Ended, BundleTypes, BundleTypeOK
<1>7. ASSUME NEW p \in Wrapper, FinishAttempt(p)
      PROVE  BundleTypes'
  BY <1>6, <1>7, WrapperQuits DEF FinishAttempt, BundleTypes, BundleTypeOK, h1History
<1>8. ASSUME NEW p \in Wrapper, FailRun(p)
      PROVE  BundleTypes'
  <2>1. \/ endings' = endings
        \/ \E outcome \in {"failed", "aborted"} : Ended(wrapper[p].attempt, outcome)
    BY <1>8 DEF FailRun
  <2>2. endings' \in [AttemptId -> {Missing, "completed", "failed", "aborted"}]
    BY <1>6, <2>1 DEF BundleTypes, BundleTypeOK
  <2> QED
    BY <1>8, <2>2, WrapperQuits DEF FailRun, BundleTypes, BundleTypeOK, h1History
<1>9. ASSUME NEW p \in Wrapper, InterruptRun(p)
      PROVE  BundleTypes'
  BY <1>6, <1>9, WrapperQuits DEF InterruptRun, BundleTypes, BundleTypeOK, h1History
<1>10. ASSUME NEW p \in Wrapper, DieWrapper(p)
      PROVE  BundleTypes'
  <2>1. ASSUME wrapper' = [wrapper EXCEPT ![p].parent = FALSE]
        PROVE  /\ wrapper' \in [Wrapper -> WrapperWork]
               /\ \A q \in Wrapper : Engages(wrapper'[q])
    <3>1. PICK w : w = [wrapper[p] EXCEPT !.parent = FALSE]
      OBVIOUS
    <3>2. w \in WrapperWork /\ Engages(w)
      BY <3>1 DEF BundleTypes, BundleTypeOK, WrapperWork, Engages
    <3>3. wrapper' = [wrapper EXCEPT ![p] = w]
      BY <2>1, <3>1 DEF BundleTypes, BundleTypeOK
    <3> QED
      BY <3>2, <3>3, WrapperMoves
  <2>2. /\ wrapper' \in [Wrapper -> WrapperWork]
        /\ \A q \in Wrapper : Engages(wrapper'[q])
    BY <1>10, <2>1, WrapperQuits DEF DieWrapper
  <2> QED
    BY <1>10, <2>2 DEF DieWrapper, BundleTypes, BundleTypeOK, h1Registry, h1History
<1>11. ASSUME NEW b \in Bundle, NEW ph \in BundlePhase, PrepareBundle(b, ph)
       PROVE  BundleTypes'
  <2>1. PICK input : input = [phase |-> ph, rows |-> source]
    OBVIOUS
  <2>2. PICK manifest : manifest = [phase |-> ph, input |-> input]
    OBVIOUS
  <2>3. PICK identity : identity = [head |-> head, data |-> manifest]
    OBVIOUS
  <2>4. PICK new : new = [NewBundle EXCEPT !.input = input, !.manifest = manifest, !.identity = identity]
    OBVIOUS
  <2>5. source \in Rows
    BY <1>11 DEF PrepareBundle, InputsTypeOK
  <2>6. input \in InputFile
    BY <2>1, <2>5 DEF InputFile
  <2>7. manifest \in ManifestFile
    BY <2>2, <2>6 DEF ManifestFile
  <2>8. identity \in IdentityFile
    BY <2>3, <2>7 DEF IdentityFile, InputsTypeOK
  <2>9. new \in BundleFiles
    BY <2>4, <2>6, <2>7, <2>8 DEF NewBundle, BundleFiles
  <2>10. bundle' = [bundle EXCEPT ![b] = new]
    BY <1>11, <2>1, <2>2, <2>3, <2>4 DEF PrepareBundle
  <2>11. bundle' \in [Bundle -> OrMissing(BundleFiles)]
    BY <2>9, <2>10, BundleChanges
  <2>12. fetched' \in [Bundle -> OrMissing(Rows)]
    BY <1>11, <2>5 DEF PrepareBundle, BundleTypes, BundleTypeOK
  <2> QED
    BY <1>11, <2>11, <2>12 DEF PrepareBundle, BundleTypes, BundleTypeOK, h1Registry
<1>12. ASSUME NEW b \in Bundle, DiePreparing(b)
       PROVE  BundleTypes'
  <2>1. NewBundle \in BundleFiles
    BY DEF NewBundle, BundleFiles
  <2>2. bundle' \in [Bundle -> OrMissing(BundleFiles)]
    BY <1>12, <2>1, BundleChanges DEF DiePreparing
  <2> QED
    BY <1>12, <2>2 DEF DiePreparing, BundleTypes, BundleTypeOK, h1Registry, h1History
<1>13. CASE DamageBundle
  <2>1. ASSUME NEW b \in Bundle, bundle[b] # Missing, NEW content \in InputFile,
               bundle' = [bundle EXCEPT ![b].input = content]
        PROVE  bundle' \in [Bundle -> OrMissing(BundleFiles)]
    <3>1. PICK new : new = [bundle[b] EXCEPT !.input = content]
      OBVIOUS
    <3>2. new \in BundleFiles
      BY <2>1, <3>1 DEF BundleTypes, BundleTypeOK, BundleFiles
    <3>3. bundle' = [bundle EXCEPT ![b] = new]
      BY <2>1, <3>1 DEF BundleTypes, BundleTypeOK
    <3> QED
      BY <3>2, <3>3, BundleChanges
  <2>2. ASSUME NEW b \in Bundle, bundle[b] # Missing, bundle[b].result # Missing, NEW rows \in Rows,
               bundle' = [bundle EXCEPT ![b].result.input.rows = rows]
        PROVE  bundle' \in [Bundle -> OrMissing(BundleFiles)]
    <3>1. bundle[b] \in BundleFiles /\ bundle[b].result \in ResultFile
      BY <2>2 DEF BundleTypes, BundleTypeOK, BundleFiles
    <3>2. PICK content : content = [bundle[b].result.input EXCEPT !.rows = rows]
      OBVIOUS
    <3>3. content \in InputFile
      BY <3>1, <3>2 DEF ResultFile, InputFile
    <3>4. PICK result : result = [bundle[b].result EXCEPT !.input = content]
      OBVIOUS
    <3>5. result \in ResultFile
      BY <3>1, <3>3, <3>4 DEF ResultFile
    <3>6. PICK new : new = [bundle[b] EXCEPT !.result = result]
      OBVIOUS
    <3>7. new \in BundleFiles
      BY <3>1, <3>5, <3>6 DEF BundleFiles
    <3>8. bundle' = [bundle EXCEPT ![b] = new]
      BY <2>2, <3>2, <3>4, <3>6 DEF BundleTypes, BundleTypeOK
    <3> QED
      BY <3>7, <3>8, BundleChanges
  <2>3. ASSUME NEW b \in Bundle, bundle' = [bundle EXCEPT ![b] = Missing]
        PROVE  bundle' \in [Bundle -> OrMissing(BundleFiles)]
    BY <2>3 DEF BundleTypes, BundleTypeOK
  <2>4. bundle' \in [Bundle -> OrMissing(BundleFiles)]
    BY <1>13, <2>1, <2>2, <2>3 DEF DamageBundle, BundleTypes, BundleTypeOK
  <2>5. /\ launches' \in [AttemptId -> OrMissing(LaunchRow)]
        /\ endings' \in [AttemptId -> {Missing, "completed", "failed", "aborted"}]
    BY <1>13 DEF DamageBundle, BundleTypes, BundleTypeOK, h1Registry
  <2> QED
    BY <1>13, <2>4, <2>5 DEF DamageBundle, BundleTypes, BundleTypeOK, h1History
<1> QED
  BY <1>1, <1>2, <1>3, <1>4, <1>5, <1>7, <1>8, <1>9, <1>10, <1>11, <1>12, <1>13
     DEF BundleNext, BundleStep

\* What a process that goes on or ends leaves alone.
LEMMA ProcessStep ==
  ASSUME BundleTypes, \A b \in Bundle : Stands(b), NEW p \in Wrapper,
         BundleStep(p) \/ InterruptRun(p) \/ DieWrapper(p)
  PROVE  /\ \A b \in Bundle :
              /\ bundle[b] = Missing => bundle'[b] = Missing
              /\ bundle[b] # Missing =>
                   /\ bundle'[b] # Missing
                   /\ bundle'[b].manifest = bundle[b].manifest
                   /\ bundle'[b].identity = bundle[b].identity
         /\ fetched' = fetched
         /\ \A q \in Wrapper \ {p} : wrapper'[q] = wrapper[q]
         /\ wrapper[p].pc # "idle"
         /\ \/ wrapper'[p].pc = "idle"
            \/ /\ wrapper'[p].bundle = wrapper[p].bundle
               /\ wrapper'[p].attempt = wrapper[p].attempt
               /\ wrapper'[p].identity = wrapper[p].identity
               /\ wrapper'[p].phase = wrapper[p].phase
<1>0. wrapper[p].pc # "idle"
  BY DEF BundleStep, StartAttempt, OpenLog, ReplayBundle, PrintResult, FinishAttempt, FailRun,
     InterruptRun, DieWrapper
<1>1. PICK b \in Bundle : b = wrapper[p].bundle /\ bundle[b] \in BundleFiles
  BY <1>0, BundleIsThere
<1>2. ASSUME NEW new \in BundleFiles, bundle' = [bundle EXCEPT ![b] = new],
             new.manifest = bundle[b].manifest, new.identity = bundle[b].identity
      PROVE  \A c \in Bundle :
               /\ bundle[c] = Missing => bundle'[c] = Missing
               /\ bundle[c] # Missing =>
                    /\ bundle'[c] # Missing
                    /\ bundle'[c].manifest = bundle[c].manifest
                    /\ bundle'[c].identity = bundle[c].identity
  BY <1>1, <1>2, BundleAssumption DEF BundleTypes, BundleTypeOK
<1>3. CASE StartAttempt(p)
  <2>1. bundle' = bundle /\ fetched' = fetched
    BY <1>3 DEF StartAttempt, h1History
  <2>2. Quit(p) \/ Advance(p, "log")
    BY <1>3 DEF StartAttempt
  <2> QED
    BY <1>0, <2>1, <2>2, WrapperQuits, WrapperAdvances DEF BundleTypes, BundleTypeOK, WrapperWork
<1>4. CASE OpenLog(p)
  <2>1. PICK new : new = [bundle[b] EXCEPT !.log = [printed |-> Missing]]
    OBVIOUS
  <2>2. bundle' = [bundle EXCEPT ![b] = new]
    BY <1>1, <1>4, <2>1 DEF OpenLog, BundleTypes, BundleTypeOK
  <2>3. new \in BundleFiles /\ new.manifest = bundle[b].manifest /\ new.identity = bundle[b].identity
    BY <1>1, <2>1 DEF BundleFiles, OrMissing
  <2> QED
    BY <1>0, <1>2, <1>4, <2>2, <2>3, WrapperAdvances
       DEF OpenLog, h1History, BundleTypes, BundleTypeOK, WrapperWork
<1>5. CASE ReplayBundle(p)
  <2>1. PICK result : result = [input |-> bundle[b].input, identity |-> bundle[b].identity]
    OBVIOUS
  <2>2. PICK new : new = [bundle[b] EXCEPT !.result = result]
    OBVIOUS
  <2>3. bundle' = [bundle EXCEPT ![b] = new]
    BY <1>1, <1>5, <2>1, <2>2 DEF ReplayBundle, BundleTypes, BundleTypeOK
  <2>4. result \in ResultFile
    BY <1>1, <1>5, <2>1 DEF ReplayBundle, Replayable, Chained, BundleFiles, OrMissing, ResultFile
  <2>5. new \in BundleFiles /\ new.manifest = bundle[b].manifest /\ new.identity = bundle[b].identity
    BY <1>1, <2>2, <2>4 DEF BundleFiles, OrMissing
  <2>6. wrapper' = [wrapper EXCEPT ![p].pc = "print", ![p].result = result]
    BY <1>1, <1>5, <2>1 DEF ReplayBundle
  <2>7. /\ \A q \in Wrapper \ {p} : wrapper'[q] = wrapper[q]
        /\ wrapper'[p].bundle = wrapper[p].bundle
        /\ wrapper'[p].attempt = wrapper[p].attempt
        /\ wrapper'[p].identity = wrapper[p].identity
        /\ wrapper'[p].phase = wrapper[p].phase
    BY <2>6 DEF BundleTypes, BundleTypeOK, WrapperWork
  <2> QED
    BY <1>0, <1>2, <1>5, <2>3, <2>5, <2>7 DEF ReplayBundle
<1>6. CASE PrintResult(p)
  <2>1. PICK new : new = [bundle[b] EXCEPT !.log = [printed |-> wrapper[p].result]]
    OBVIOUS
  <2>2. bundle' = [bundle EXCEPT ![b] = new]
    BY <1>1, <1>6, <2>1 DEF PrintResult, BundleTypes, BundleTypeOK
  <2>3. wrapper[p].result \in ResultFile
    BY <1>6 DEF PrintResult, BundleTypes, Engages
  <2>4. new \in BundleFiles /\ new.manifest = bundle[b].manifest /\ new.identity = bundle[b].identity
    BY <1>1, <2>1, <2>3 DEF BundleFiles, OrMissing
  <2>5. Quit(p) \/ Advance(p, "end")
    BY <1>6 DEF PrintResult
  <2> QED
    BY <1>0, <1>2, <1>6, <2>2, <2>4, <2>5, WrapperQuits, WrapperAdvances
       DEF PrintResult, h1History, BundleTypes, BundleTypeOK, WrapperWork
<1>7. CASE FinishAttempt(p) \/ FailRun(p) \/ InterruptRun(p)
  <2>1. Quit(p) /\ bundle' = bundle /\ fetched' = fetched
    BY <1>7 DEF FinishAttempt, FailRun, InterruptRun, h1History
  <2> QED
    BY <1>0, <2>1, WrapperQuits
<1>8. CASE DieWrapper(p)
  <2>1. bundle' = bundle /\ fetched' = fetched
    BY <1>8 DEF DieWrapper, h1History
  <2>2. Quit(p) \/ wrapper' = [wrapper EXCEPT ![p].parent = FALSE]
    BY <1>8 DEF DieWrapper
  <2> QED
    BY <1>0, <2>1, <2>2, WrapperQuits DEF BundleTypes, BundleTypeOK, WrapperWork
<1> QED
  BY <1>3, <1>4, <1>5, <1>6, <1>7, <1>8 DEF BundleStep

\* What a command records as it starts.
LEMMA RecordStep ==
  ASSUME BundleTypes, NEW p \in Wrapper, NEW b \in Bundle, NEW a \in AttemptId, NEW ph \in Phase,
         Record(p, b, a, ph)
  PROVE  /\ wrapper'[p].pc = "start" /\ wrapper'[p].bundle = b /\ wrapper'[p].attempt = a
         /\ wrapper'[p].identity = bundle[b].identity /\ wrapper'[p].phase = ph
         /\ \A q \in Wrapper \ {p} : wrapper'[q] = wrapper[q]
         /\ bundle[b] # Missing
         /\ UNCHANGED <<inputs, bundle, launches, endings, fetched, produced>>
BY DEF Record, NoCommand, BundleTypes, BundleTypeOK, h1Registry, h1History

\* Manifests stay what was read, and nobody's directory disappears.
LEMMA StandsStep ==
  ASSUME InputsTypeOK, BundleTypes, \A b \in Bundle : Stands(b), BundleNext
  PROVE  \A b \in Bundle : Stands(b)'
<1>1. ASSUME NEW p \in Wrapper, BundleStep(p) \/ InterruptRun(p) \/ DieWrapper(p), NEW b \in Bundle
      PROVE  Stands(b)'
  <2>1. Stands(b)
    OBVIOUS
  <2> QED
    BY <1>1, <2>1, ProcessStep DEF Stands
<1>2. ASSUME NEW p \in Wrapper, NEW b \in Bundle, NEW a \in AttemptId, NEW ph \in Phase,
             Record(p, b, a, ph), NEW c \in Bundle
      PROVE  Stands(c)'
  <2>1. Stands(c)
    OBVIOUS
  <2> QED
    BY <1>2, <2>1, RecordStep DEF Stands
<1>3. ASSUME NEW b \in Bundle, NEW ph \in BundlePhase, PrepareBundle(b, ph), NEW c \in Bundle
      PROVE  Stands(c)'
  <2>1. PICK input : input = [phase |-> ph, rows |-> source]
    OBVIOUS
  <2>2. PICK manifest : manifest = [phase |-> ph, input |-> input]
    OBVIOUS
  <2>3. PICK new : new = [NewBundle EXCEPT !.input = input, !.manifest = manifest,
                                           !.identity = [head |-> head, data |-> manifest]]
    OBVIOUS
  <2>4. /\ bundle' = [bundle EXCEPT ![b] = new]
        /\ fetched' = [fetched EXCEPT ![b] = source]
        /\ wrapper' = wrapper
    BY <1>3, <2>1, <2>2, <2>3 DEF PrepareBundle
  <2>5. new.manifest = manifest /\ manifest.input.rows = source
    BY <2>1, <2>2, <2>3 DEF NewBundle
  <2>6. Stands(c) /\ Stands(b) /\ bundle[b] = Missing
    BY <1>3 DEF PrepareBundle
  <2> QED
    BY <2>4, <2>5, <2>6 DEF Stands, BundleTypes, BundleTypeOK
<1>4. ASSUME NEW b \in Bundle, DiePreparing(b), NEW c \in Bundle
      PROVE  Stands(c)'
  <2>1. /\ bundle' = [bundle EXCEPT ![b] = NewBundle]
        /\ UNCHANGED <<fetched, wrapper>>
        /\ bundle[b] = Missing /\ Stands(b) /\ Stands(c)
    BY <1>4 DEF DiePreparing, h1History
  <2>2. NewBundle.manifest = Missing
    BY DEF NewBundle
  <2> QED
    BY <2>1, <2>2 DEF Stands, BundleTypes, BundleTypeOK
<1>5. ASSUME DamageBundle, NEW c \in Bundle
      PROVE  Stands(c)'
  <2>1. UNCHANGED <<fetched, wrapper>>
    BY <1>5 DEF DamageBundle, h1History
  <2>2. ASSUME bundle'[c] # Missing
        PROVE  bundle[c] # Missing /\ bundle'[c].manifest = bundle[c].manifest
    <3>1. ASSUME NEW b \in Bundle, bundle[b] # Missing, NEW content \in InputFile,
                 bundle' = [bundle EXCEPT ![b].input = content]
          PROVE  bundle[c] # Missing /\ bundle'[c].manifest = bundle[c].manifest
      BY <2>2, <3>1 DEF BundleTypes, BundleTypeOK, OrMissing, BundleFiles
    <3>2. ASSUME NEW b \in Bundle, bundle[b] # Missing, NEW rows \in Rows,
                 bundle' = [bundle EXCEPT ![b].result.input.rows = rows]
          PROVE  bundle[c] # Missing /\ bundle'[c].manifest = bundle[c].manifest
      BY <2>2, <3>2 DEF BundleTypes, BundleTypeOK, OrMissing, BundleFiles
    <3>3. ASSUME NEW b \in Bundle, bundle' = [bundle EXCEPT ![b] = Missing]
          PROVE  bundle[c] # Missing /\ bundle'[c].manifest = bundle[c].manifest
      BY <2>2, <3>3 DEF BundleTypes, BundleTypeOK
    <3>4. CASE bundle' = bundle
      BY <2>2, <3>4
    <3> QED
      BY <1>5, <3>1, <3>2, <3>3, <3>4 DEF DamageBundle
  <2>3. ASSUME bundle'[c] = Missing, bundle[c] # Missing
        PROVE  \A p \in Wrapper : wrapper[p].bundle # c
    <3>1. ASSUME NEW b \in Bundle, bundle[b] # Missing, NEW new \in BundleFiles,
                 bundle' = [bundle EXCEPT ![b] = new]
          PROVE  FALSE
      BY <2>3, <3>1, BundleAssumption DEF BundleTypes, BundleTypeOK
    <3>2. ASSUME NEW b \in Bundle, bundle[b] # Missing, NEW content \in InputFile,
                 bundle' = [bundle EXCEPT ![b].input = content]
          PROVE  FALSE
      <4>1. PICK new : new = [bundle[b] EXCEPT !.input = content]
        OBVIOUS
      <4>2. new \in BundleFiles
        BY <3>2, <4>1 DEF BundleTypes, BundleTypeOK, BundleFiles, OrMissing
      <4>3. bundle' = [bundle EXCEPT ![b] = new]
        BY <3>2, <4>1 DEF BundleTypes, BundleTypeOK
      <4> QED
        BY <3>1, <3>2, <4>2, <4>3
    <3>3. ASSUME NEW b \in Bundle, bundle[b] # Missing, bundle[b].result # Missing, NEW rows \in Rows,
                 bundle' = [bundle EXCEPT ![b].result.input.rows = rows]
          PROVE  FALSE
      <4>1. bundle[b] \in BundleFiles /\ bundle[b].result \in ResultFile
        BY <3>3 DEF BundleTypes, BundleTypeOK, BundleFiles, OrMissing
      <4>2. PICK result : result = [bundle[b].result EXCEPT !.input.rows = rows]
        OBVIOUS
      <4>3. result \in ResultFile
        BY <4>1, <4>2 DEF ResultFile, InputFile
      <4>4. PICK new : new = [bundle[b] EXCEPT !.result = result]
        OBVIOUS
      <4>5. new \in BundleFiles
        BY <4>1, <4>3, <4>4 DEF BundleFiles, OrMissing
      <4>6. bundle' = [bundle EXCEPT ![b] = new]
        BY <3>3, <4>2, <4>4 DEF BundleTypes, BundleTypeOK
      <4> QED
        BY <3>1, <3>3, <4>5, <4>6
    <3>4. ASSUME NEW b \in Bundle, bundle' = [bundle EXCEPT ![b] = Missing],
                 \A p \in Wrapper : wrapper[p].bundle # b
          PROVE  \A p \in Wrapper : wrapper[p].bundle # c
      BY <2>3, <3>4 DEF BundleTypes, BundleTypeOK
    <3> QED
      BY <1>5, <2>3, <3>2, <3>3, <3>4 DEF DamageBundle
  <2>4. Stands(c)
    OBVIOUS
  <2> QED
    BY <2>1, <2>2, <2>3, <2>4 DEF Stands
<1> QED
  BY <1>1, <1>2, <1>3, <1>4, <1>5 DEF BundleNext

\* A process whose attempt keeps its row and its replay.
LEMMA WrapperInPlaceKept ==
  ASSUME NEW q \in Wrapper, WrapperInPlace(q),
         wrapper'[q].pc # "idle" =>
           /\ wrapper'[q].attempt = wrapper[q].attempt
           /\ wrapper'[q].identity = wrapper[q].identity
           /\ wrapper'[q].phase = wrapper[q].phase
           /\ bundle'[wrapper'[q].bundle].identity = wrapper'[q].identity,
         wrapper'[q].pc \in Running => wrapper[q].pc \in Running,
         wrapper'[q].pc \in {"log", "replay"} => wrapper[q].pc \in {"log", "replay"},
         wrapper'[q].pc \in {"print", "end"} => wrapper[q].pc \in {"print", "end"},
         wrapper'[q].pc \in Running =>
           /\ launches'[wrapper[q].attempt] = launches[wrapper[q].attempt]
           /\ produced'[wrapper[q].attempt] = produced[wrapper[q].attempt]
           /\ \A r \in Wrapper \ {q} :
                wrapper'[r].pc \in Running => wrapper'[r].attempt # wrapper[q].attempt
  PROVE  WrapperInPlace(q)'
<1> DEFINE v == wrapper'[q]
<1>1. v.pc \in Running =>
        /\ v.pc # "idle"
        /\ launches'[v.attempt] = [identity |-> v.identity, phase |-> v.phase]
        /\ \A r \in Wrapper \ {q} : wrapper'[r].pc \in Running => wrapper'[r].attempt # v.attempt
  BY DEF WrapperInPlace, Running
<1>2. v.pc \in {"log", "replay"} => produced'[v.attempt] = <<>>
  BY <1>1 DEF WrapperInPlace, Running
<1>3. v.pc \in {"print", "end"} => produced'[v.attempt] = <<ReplayOf(v.identity)>>
  <2>1. v.pc \in {"print", "end"} =>
          /\ produced[wrapper[q].attempt] = <<ReplayOf(wrapper[q].identity)>>
          /\ v.attempt = wrapper[q].attempt /\ v.identity = wrapper[q].identity
          /\ produced'[wrapper[q].attempt] = produced[wrapper[q].attempt]
    BY DEF WrapperInPlace, Running
  <2> QED
    BY <2>1
<1> QED
  BY <1>1, <1>2, <1>3 DEF WrapperInPlace, Running, ReplayOf

\* With all records in place, they agree after a step as well.
LEMMA BundleInPlaceStep ==
  ASSUME InputsTypeOK, BundleTypes, \A b \in Bundle : Stands(b), damage' = 0, BundleInPlace,
         BundleNext
  PROVE  BundleInPlace'
<1>0. ~DamageBundle
  BY DEF DamageBundle, OneMoreDamage, InputsTypeOK
\* A command starts, or one is prepared or dies of it.
<1>1. ASSUME NEW p \in Wrapper, NEW b \in Bundle, NEW a \in AttemptId, NEW ph \in Phase,
             Record(p, b, a, ph)
      PROVE  BundleInPlace'
  <2>1. ASSUME NEW q \in Wrapper \ {p}
        PROVE  WrapperInPlace(q)'
    <3>1. WrapperInPlace(q)
      BY DEF BundleInPlace
    <3>2. wrapper'[q] = wrapper[q] /\ wrapper'[p].pc \notin Running
      BY <1>1, RecordStep DEF Running
    <3>3. \A r \in Wrapper \ {q} : wrapper'[r].pc \in Running => wrapper'[r] = wrapper[r]
      BY <1>1, <3>2, RecordStep
    <3> QED
      BY <1>1, <3>1, <3>2, <3>3, RecordStep, WrapperInPlaceKept DEF WrapperInPlace, Running
  <2>2. WrapperInPlace(p)'
    BY <1>1, RecordStep DEF WrapperInPlace, Running
  <2>3. \A x \in AttemptId : AttemptInPlace(x)'
    BY <1>1, RecordStep DEF BundleInPlace, AttemptInPlace
  <2> QED
    BY <2>1, <2>2, <2>3 DEF BundleInPlace
<1>2. ASSUME NEW b \in Bundle, bundle[b] = Missing, NEW new, bundle' = [bundle EXCEPT ![b] = new],
             UNCHANGED <<launches, endings, wrapper, produced>>
      PROVE  BundleInPlace'
  <2>1. ASSUME NEW q \in Wrapper
        PROVE  WrapperInPlace(q)'
    <3>1. WrapperInPlace(q) /\ Stands(b)
      BY DEF BundleInPlace
    <3>2. wrapper[q].pc # "idle" => bundle'[wrapper[q].bundle] = bundle[wrapper[q].bundle]
      BY <1>2, <3>1, BundleIsThere DEF Stands, BundleTypes, BundleTypeOK
    <3> QED
      BY <1>2, <3>1, <3>2 DEF WrapperInPlace
  <2>2. \A x \in AttemptId : AttemptInPlace(x)'
    BY <1>2 DEF BundleInPlace, AttemptInPlace
  <2> QED
    BY <2>1, <2>2 DEF BundleInPlace
<1>3. ASSUME NEW b \in Bundle, DiePreparing(b) \/ \E ph \in BundlePhase : PrepareBundle(b, ph)
      PROVE  BundleInPlace'
  <2>1. /\ bundle[b] = Missing
        /\ \E new : bundle' = [bundle EXCEPT ![b] = new]
        /\ UNCHANGED <<launches, endings, wrapper, produced>>
    BY <1>3 DEF DiePreparing, PrepareBundle, h1Registry, h1History
  <2> QED
    BY <1>2, <2>1
\* A process goes on or ends.
<1>4. ASSUME NEW p \in Wrapper, BundleStep(p) \/ InterruptRun(p) \/ DieWrapper(p)
      PROVE  BundleInPlace'
  <2>1. PICK w \in WrapperWork : w = wrapper[p]
    BY DEF BundleTypes, BundleTypeOK
  <2>2. /\ w.pc # "idle"
        /\ w.bundle \in Bundle /\ w.attempt \in AttemptId
        /\ w.identity \in IdentityFile /\ w.phase \in Phase
        /\ bundle[w.bundle] # Missing /\ bundle[w.bundle].identity = w.identity
        /\ WrapperInPlace(p)
    BY <1>4, <2>1, ProcessStep, BundleIsThere, BundleAssumption DEF BundleInPlace, WrapperInPlace
  <2>3. \A q \in Wrapper \ {p} : wrapper'[q] = wrapper[q]
    BY <1>4, ProcessStep
  <2>4. \A q \in Wrapper : wrapper'[q].pc # "idle" =>
          /\ wrapper'[q].bundle = wrapper[q].bundle
          /\ wrapper'[q].attempt = wrapper[q].attempt
          /\ wrapper'[q].identity = wrapper[q].identity
          /\ wrapper'[q].phase = wrapper[q].phase
          /\ wrapper[q].pc # "idle"
          /\ bundle'[wrapper'[q].bundle].identity = wrapper'[q].identity
    <3>1. ASSUME NEW q \in Wrapper, wrapper'[q].pc # "idle"
          PROVE  /\ wrapper'[q].bundle = wrapper[q].bundle
                 /\ wrapper'[q].attempt = wrapper[q].attempt
                 /\ wrapper'[q].identity = wrapper[q].identity
                 /\ wrapper'[q].phase = wrapper[q].phase
                 /\ wrapper[q].pc # "idle"
      BY <1>4, <3>1, ProcessStep
    <3>2. ASSUME NEW q \in Wrapper, wrapper[q].pc # "idle"
          PROVE  bundle'[wrapper[q].bundle].identity = wrapper[q].identity
      <4>1. /\ wrapper[q].bundle \in Bundle /\ bundle[wrapper[q].bundle] # Missing
            /\ bundle[wrapper[q].bundle].identity = wrapper[q].identity
        BY <3>2, BundleIsThere, BundleAssumption DEF BundleInPlace, WrapperInPlace
      <4> QED
        BY <1>4, <4>1, ProcessStep
    <3> QED
      BY <3>1, <3>2
  \* Only an end is recorded, or nothing.
  <2>5. ASSUME UNCHANGED <<launches, produced>>,
               \/ wrapper'[p].pc = "idle"
               \/ wrapper'[p].pc = wrapper[p].pc
               \/ wrapper[p].pc = "log" /\ wrapper'[p].pc = "replay"
               \/ wrapper[p].pc = "print" /\ wrapper'[p].pc = "end",
               \A a \in AttemptId :
                 \/ endings'[a] = endings[a]
                 \/ /\ launches[a] # Missing
                    /\ endings'[a] = "completed" => a = w.attempt /\ w.pc = "end"
        PROVE  BundleInPlace'
    <3>1. ASSUME NEW q \in Wrapper
          PROVE  WrapperInPlace(q)'
      <4>1. /\ wrapper'[q].pc \in Running => wrapper[q].pc \in Running
            /\ wrapper'[q].pc \in {"log", "replay"} => wrapper[q].pc \in {"log", "replay"}
            /\ wrapper'[q].pc \in {"print", "end"} => wrapper[q].pc \in {"print", "end"}
        BY <2>3, <2>5 DEF Running
      <4>2. \A r \in Wrapper : wrapper'[r].pc \in Running =>
              wrapper[r].pc \in Running /\ wrapper'[r].attempt = wrapper[r].attempt
        BY <2>3, <2>4, <2>5 DEF Running
      <4>3. WrapperInPlace(q)
        BY DEF BundleInPlace
      <4>4. wrapper'[q].pc \in Running => \A r \in Wrapper \ {q} :
              wrapper'[r].pc \in Running => wrapper'[r].attempt # wrapper[q].attempt
        BY <4>1, <4>2, <4>3 DEF WrapperInPlace
      <4> QED
        BY <2>4, <2>5, <4>1, <4>3, <4>4, WrapperInPlaceKept
    <3>2. ASSUME NEW a \in AttemptId
          PROVE  AttemptInPlace(a)'
      <4>1. AttemptInPlace(a)
        BY DEF BundleInPlace
      <4>2. w.pc = "end" => /\ launches[w.attempt] = [identity |-> w.identity, phase |-> w.phase]
                            /\ produced[w.attempt] = <<ReplayOf(w.identity)>>
        BY <2>1, <2>2 DEF WrapperInPlace, Running
      <4> QED
        BY <2>5, <4>1, <4>2 DEF AttemptInPlace
    <3> QED
      BY <3>1, <3>2 DEF BundleInPlace
  <2>6. CASE StartAttempt(p)
    <3>1. CASE ~MayStart(wrapper[p])
      <4>1. UNCHANGED <<launches, produced, endings>> /\ wrapper'[p].pc = "idle"
        BY <2>6, <3>1, WrapperQuits DEF StartAttempt, h1History
      <4> QED
        BY <2>5, <4>1
    <3>2. CASE MayStart(wrapper[p])
      <4>1. /\ wrapper'[p].pc = "log"
            /\ launches' = [launches EXCEPT ![w.attempt] = [identity |-> w.identity, phase |-> w.phase]]
            /\ UNCHANGED <<endings, produced>>
        BY <2>1, <2>2, <2>6, <3>2, WrapperAdvances DEF StartAttempt, h1History
      <4>2. /\ launches[w.attempt] = Missing
            /\ produced[w.attempt] = <<>> /\ endings[w.attempt] = Missing
            /\ [identity |-> w.identity, phase |-> w.phase] # Missing
        BY <2>1, <2>2, <3>2, BundleAssumption DEF MayStart, BundleInPlace, AttemptInPlace, LaunchRow
      <4>3. \A q \in Wrapper : wrapper[q].pc \in Running => wrapper[q].attempt # w.attempt
        <5>1. ASSUME NEW q \in Wrapper, wrapper[q].pc \in Running
              PROVE  launches[wrapper[q].attempt] # Missing
          <6>1. /\ launches[wrapper[q].attempt] =
                     [identity |-> wrapper[q].identity, phase |-> wrapper[q].phase]
                /\ wrapper[q].identity \in IdentityFile /\ wrapper[q].phase \in Phase
            BY <5>1, BundleIsThere DEF BundleInPlace, WrapperInPlace, Running
          <6> QED
            BY <6>1, BundleAssumption DEF LaunchRow
        <5> QED
          BY <4>2, <5>1
      <4>4. ASSUME NEW q \in Wrapper \ {p}
            PROVE  WrapperInPlace(q)'
        <5>1. wrapper'[q] = wrapper[q] /\ WrapperInPlace(q)
          BY <2>3 DEF BundleInPlace
        <5>2. wrapper[q].pc \in Running =>
                /\ wrapper[q].attempt # w.attempt
                /\ launches'[wrapper[q].attempt] = launches[wrapper[q].attempt]
          BY <4>1, <4>3, BundleIsThere DEF Running, BundleTypes, BundleTypeOK
        <5>3. \A r \in Wrapper \ {q} : wrapper'[r].pc \in Running /\ wrapper[q].pc \in Running =>
                wrapper'[r].attempt # wrapper[q].attempt
          <6>1. wrapper'[p].attempt = w.attempt
            BY <2>1, <2>4, <4>1
          <6> QED
            BY <2>3, <5>1, <5>2, <6>1 DEF WrapperInPlace
        <5> QED
          BY <2>4, <4>1, <5>1, <5>2, <5>3 DEF WrapperInPlace, Running
      <4>5. WrapperInPlace(p)'
        <5>1. /\ wrapper'[p].pc # "idle"
              /\ wrapper'[p].attempt = w.attempt /\ wrapper'[p].identity = w.identity
              /\ wrapper'[p].phase = w.phase
              /\ bundle'[wrapper'[p].bundle].identity = wrapper'[p].identity
          BY <2>1, <2>4, <4>1
        <5>2. launches'[w.attempt] = [identity |-> w.identity, phase |-> w.phase]
          BY <2>2, <4>1 DEF BundleTypes, BundleTypeOK
        <5> QED
          BY <2>3, <4>1, <4>2, <4>3, <5>1, <5>2 DEF WrapperInPlace
      <4>6. ASSUME NEW a \in AttemptId
            PROVE  AttemptInPlace(a)'
        <5>1. AttemptInPlace(a) /\ AttemptInPlace(w.attempt)
          BY <2>2 DEF BundleInPlace
        <5>2. w.phase = "validation" =>
                \A x \in AttemptId : launches[x] # [identity |-> w.identity, phase |-> w.phase]
          BY <2>1, <3>2, <4>2 DEF MayStart
        <5>3. endings[w.attempt] # "completed"
          BY <4>2, BundleAssumption
        <5>4. CASE a = w.attempt
          <6>1. launches'[a] = [identity |-> w.identity, phase |-> w.phase]
            BY <4>1, <5>4 DEF BundleTypes, BundleTypeOK
          <6>2. \A x \in AttemptId \ {a} : launches'[x] = launches[x]
            BY <4>1, <5>4 DEF BundleTypes, BundleTypeOK
          <6> QED
            BY <4>1, <4>2, <5>2, <5>3, <5>4, <6>1, <6>2 DEF AttemptInPlace
        <5>5. CASE a # w.attempt
          <6>1. launches'[a] = launches[a]
            BY <4>1, <5>5 DEF BundleTypes, BundleTypeOK
          <6>2. \A x \in AttemptId : launches'[x] = launches[x]
                  \/ launches'[x] = [identity |-> w.identity, phase |-> w.phase]
            BY <4>1 DEF BundleTypes, BundleTypeOK
          <6>3. launches[a] # Missing /\ launches[a].phase = "validation" =>
                  launches[a] # [identity |-> w.identity, phase |-> w.phase]
            BY <5>2
          <6> QED
            BY <4>1, <5>1, <6>1, <6>2, <6>3 DEF AttemptInPlace
        <5> QED
          BY <5>4, <5>5
      <4> QED
        BY <4>4, <4>5, <4>6 DEF BundleInPlace
    <3> QED
      BY <3>1, <3>2
  <2>7. CASE OpenLog(p)
    <3>1. UNCHANGED <<launches, produced, endings>> /\ wrapper[p].pc = "log" /\ wrapper'[p].pc = "replay"
      BY <2>7, WrapperAdvances DEF OpenLog, h1Registry, h1History
    <3> QED
      BY <2>5, <3>1
  <2>8. CASE ReplayBundle(p)
    <3>1. PICK b \in Bundle : b = w.bundle /\ bundle[b] \in BundleFiles
      BY <2>1, <2>8, BundleIsThere DEF ReplayBundle
    <3>2. PICK result : result = [input |-> bundle[b].input, identity |-> bundle[b].identity]
      OBVIOUS
    <3>3. PICK entry : entry = [head |-> head, result |-> result]
      OBVIOUS
    <3>4. /\ w.pc = "replay" /\ Replayable(b)
          /\ wrapper' = [wrapper EXCEPT ![p].pc = "print", ![p].result = result]
          /\ produced' = [produced EXCEPT ![w.attempt] = Append(@, entry)]
          /\ UNCHANGED <<launches, endings>>
      BY <2>1, <2>8, <3>1, <3>2, <3>3 DEF ReplayBundle, h1Registry
    <3>5. entry = ReplayOf(w.identity)
      BY <2>2, <3>1, <3>2, <3>3, <3>4 DEF Replayable, Chained, ReplayOf
    <3>6. produced[w.attempt] = <<>>
      BY <2>1, <2>2, <3>4 DEF WrapperInPlace
    <3>7. /\ produced'[w.attempt] = <<ReplayOf(w.identity)>>
          /\ \A a \in AttemptId \ {w.attempt} : produced'[a] = produced[a]
      BY <2>2, <3>4, <3>5, <3>6 DEF BundleTypes, BundleTypeOK
    <3>8. wrapper'[p].pc = "print"
      BY <3>4 DEF BundleTypes, BundleTypeOK, WrapperWork
    <3>9. wrapper[p].pc \in Running
      BY <2>1, <3>4 DEF Running
    <3>10. ASSUME NEW q \in Wrapper \ {p}
           PROVE  WrapperInPlace(q)'
      <4>1. wrapper'[q] = wrapper[q] /\ WrapperInPlace(q) /\ WrapperInPlace(p)
        BY <2>3 DEF BundleInPlace
      <4>2. wrapper[q].pc \in Running =>
              /\ wrapper[q].attempt \in AttemptId
              /\ wrapper[q].attempt # w.attempt
        BY <2>1, <3>9, <4>1, BundleIsThere DEF WrapperInPlace, Running
      <4>3. wrapper[q].pc \in Running => produced'[wrapper[q].attempt] = produced[wrapper[q].attempt]
        BY <3>7, <4>2
      <4>4. \A r \in Wrapper \ {q} : wrapper'[r].pc \in Running /\ wrapper[q].pc \in Running =>
              wrapper'[r].attempt # wrapper[q].attempt
        <5>1. wrapper'[p].attempt = w.attempt
          BY <2>1, <2>4, <3>8
        <5> QED
          BY <2>3, <4>1, <4>2, <5>1 DEF WrapperInPlace
      <4> QED
        BY <2>4, <3>4, <4>1, <4>3, <4>4, WrapperInPlaceKept
    <3>11. WrapperInPlace(p)'
      <4>1. /\ wrapper'[p].attempt = w.attempt /\ wrapper'[p].identity = w.identity
            /\ wrapper'[p].phase = w.phase
            /\ bundle'[wrapper'[p].bundle].identity = wrapper'[p].identity
        BY <2>1, <2>4, <3>8
      <4>2. /\ launches'[w.attempt] = [identity |-> w.identity, phase |-> w.phase]
            /\ \A q \in Wrapper \ {p} : wrapper'[q].pc \in Running => wrapper'[q].attempt # w.attempt
        BY <2>1, <2>2, <2>3, <3>4, <3>9 DEF WrapperInPlace
      <4> QED
        BY <3>7, <3>8, <4>1, <4>2 DEF WrapperInPlace
    <3>12. ASSUME NEW a \in AttemptId
           PROVE  AttemptInPlace(a)'
      <4>1. AttemptInPlace(a)
        BY DEF BundleInPlace
      <4>2. launches[w.attempt] # Missing /\ launches[w.attempt].identity = w.identity
        <5>1. launches[w.attempt] = [identity |-> w.identity, phase |-> w.phase]
          BY <2>1, <2>2, <3>9 DEF WrapperInPlace
        <5> QED
          BY <2>2, <5>1, BundleAssumption DEF LaunchRow
      <4>3. CASE a = w.attempt
        BY <3>4, <3>7, <4>1, <4>2, <4>3 DEF AttemptInPlace
      <4>4. CASE a # w.attempt
        BY <3>4, <3>7, <4>1, <4>4 DEF AttemptInPlace
      <4> QED
        BY <4>3, <4>4
    <3> QED
      BY <3>10, <3>11, <3>12 DEF BundleInPlace
  <2>9. CASE PrintResult(p)
    <3>1. /\ UNCHANGED <<launches, produced, endings>> /\ wrapper[p].pc = "print"
          /\ wrapper'[p].pc \in {"idle", "end"}
      BY <2>9, WrapperQuits, WrapperAdvances DEF PrintResult, h1Registry, h1History
    <3> QED
      BY <2>5, <3>1
  \* What an end puts down, of an attempt that is open.
  <2>10. ASSUME NEW outcome \in {"completed", "failed", "aborted"}, Ended(w.attempt, outcome),
                outcome = "completed" => w.pc = "end",
                UNCHANGED <<launches, produced>>, Quit(p)
         PROVE  BundleInPlace'
    <3>1. wrapper'[p].pc = "idle"
      BY <2>10, WrapperQuits
    <3>2. \A a \in AttemptId :
            \/ endings'[a] = endings[a]
            \/ /\ launches[a] # Missing
               /\ endings'[a] = "completed" => a = w.attempt /\ w.pc = "end"
      BY <2>2, <2>10 DEF Ended, BundleTypes, BundleTypeOK
    <3> QED
      BY <2>5, <2>10, <3>1, <3>2
  <2>11. CASE FinishAttempt(p)
    BY <2>1, <2>10, <2>11 DEF FinishAttempt, h1History
  <2>12. CASE FailRun(p)
    <3>1. CASE UNCHANGED endings
      <4>1. UNCHANGED <<launches, produced>> /\ wrapper'[p].pc = "idle"
        BY <2>12, WrapperQuits DEF FailRun, h1History
      <4> QED
        BY <2>5, <3>1, <4>1
    <3>2. CASE ~UNCHANGED endings
      BY <2>1, <2>10, <2>12, <3>2 DEF FailRun, h1History
    <3> QED
      BY <3>1, <3>2
  <2>13. CASE InterruptRun(p)
    BY <2>1, <2>10, <2>13 DEF InterruptRun, h1History
  <2>14. CASE DieWrapper(p)
    <3>1. UNCHANGED <<launches, produced, endings>>
      BY <2>14 DEF DieWrapper, h1Registry, h1History
    <3>2. wrapper'[p].pc = "idle" \/ wrapper'[p].pc = wrapper[p].pc
      <4>1. CASE Quit(p)
        BY <4>1, WrapperQuits
      <4>2. CASE wrapper' = [wrapper EXCEPT ![p].parent = FALSE]
        BY <4>2 DEF BundleTypes, BundleTypeOK, WrapperWork
      <4> QED
        BY <2>14, <4>1, <4>2 DEF DieWrapper
    <3> QED
      BY <2>5, <3>1, <3>2
  <2> QED
    BY <1>4, <2>6, <2>7, <2>8, <2>9, <2>11, <2>12, <2>13, <2>14 DEF BundleStep
<1> QED
  BY <1>0, <1>1, <1>3, <1>4 DEF BundleNext

\* Main and the price store move, or nothing happens.
LEMMA BundleStutters ==
  ASSUME BundleSafe, UNCHANGED <<bundleVars, damage>>
  PROVE  BundleSafe'
<1>1. UNCHANGED <<bundle, launches, endings, wrapper, fetched, produced, damage>>
  BY DEF bundleVars, h1Registry, h1History
<1>2. BundleTypes'
  BY <1>1 DEF BundleSafe, BundleTypes, BundleTypeOK, Engages
<1>3. (\A b \in Bundle : Stands(b))'
  BY <1>1 DEF BundleSafe, Stands
<1>4. BundleInPlace => BundleInPlace'
  BY <1>1 DEF BundleInPlace, WrapperInPlace, AttemptInPlace
<1> QED
  BY <1>1, <1>2, <1>3, <1>4 DEF BundleSafe

\* The bundles' invariant is inductive.
LEMMA BundleKept ==
  ASSUME BundleInv, [Next]_researchVars
  PROVE  BundleInv'
<1>1. CASE UNCHANGED researchVars
  <2>1. UNCHANGED <<inputs, bundleVars, workload, damage>>
    BY <1>1 DEF researchVars, inputs
  <2>2. InputsTypeOK'
    BY <2>1, EventsType DEF Events, BundleInv
  <2>3. BundleInit => BundleInit'
    BY <2>1 DEF BundleInit, bundleVars, h1Registry, h1History
  <2> QED
    BY <2>1, <2>2, <2>3, BundleStutters DEF BundleInv
<1>2. CASE Next
  <2>1. workload' = workload /\ InputsTypeOK'
    BY <1>2, EveryEvent, EventsType DEF Next, BundleInv
  <2>2. CASE workload # "bundle"
    <3>1. UNCHANGED bundleVars
      BY <1>2, <2>2 DEF Next, Drift, Private, Trial, Bundles, Scripts, Workflow
    <3>2. BundleInit'
      BY <2>2, <3>1 DEF BundleInv, BundleInit, bundleVars, h1Registry, h1History
    <3> QED
      BY <2>1, <2>2, <3>2 DEF BundleInv
  <2>3. CASE workload = "bundle"
    <3>1. Drift \/ BundleNext
      BY <1>2, <2>3 DEF Next, Private, Trial, Bundles, Scripts, Workflow
    <3>2. CASE Drift
      BY <2>1, <2>3, <3>2, BundleStutters DEF Drift, Move, BundleInv
    <3>3. CASE BundleNext
      <4>1. damage' = 0 => damage = 0
        <5>1. damage' = damage \/ damage' = damage + 1
          BY <1>2, EveryEvent DEF Events, Move, OneMoreDeath, OneMoreDamage, inputs
        <5> QED
          BY <5>1 DEF BundleInv, InputsTypeOK
      <4>2. BundleTypes' /\ \A b \in Bundle : Stands(b)'
        BY <2>3, <3>3, BundleTypesStep, StandsStep DEF BundleInv, BundleSafe
      <4>3. damage' = 0 => BundleInPlace'
        BY <2>3, <3>3, <4>1, BundleInPlaceStep DEF BundleInv, BundleSafe
      <4> QED
        BY <2>1, <2>3, <4>2, <4>3 DEF BundleInv, BundleSafe
    <3> QED
      BY <3>1, <3>2, <3>3
  <2> QED
    BY <2>2, <2>3
<1> QED
  BY <1>1, <1>2

\* A bundle that passes its review holds what was read and replayed.
LEMMA BundleFollows == BundleInv => BundleCounts
<1> SUFFICES ASSUME BundleSafe, NEW b \in Bundle, NEW a \in AttemptId, ReviewPasses(b, a)
             PROVE  /\ bundle[b].result.input.rows = fetched[b]
                    /\ damage = 0 =>
                         /\ produced[a] = <<[head |-> bundle[b].identity.head, result |-> bundle[b].result]>>
                         /\ launches[a].phase = "validation" =>
                              \A other \in AttemptId \ {a} : launches[other] # launches[a]
  BY BundleInitially DEF BundleInv, BundleCounts
<1>1. PICK f \in BundleFiles : f = bundle[b]
  BY DEF ReviewPasses, BundleSafe, BundleTypes, BundleTypeOK, OrMissing
<1>2. /\ f.identity \in IdentityFile /\ f.manifest # Missing /\ f.result \in ResultFile
      /\ f.identity.data = f.manifest /\ f.manifest.input = f.input
      /\ f.result.input = f.input /\ f.result.identity = f.identity
  BY <1>1 DEF ReviewPasses, Chained, BundleFiles, OrMissing
<1>3. f.manifest.input.rows = fetched[b]
  BY <1>1, <1>2 DEF ReviewPasses, BundleSafe, Stands
<1>4. ASSUME damage = 0
      PROVE  /\ produced[a] = <<[head |-> f.identity.head, result |-> f.result]>>
             /\ launches[a].phase = "validation" =>
                  \A other \in AttemptId \ {a} : launches[other] # launches[a]
  <2>1. AttemptInPlace(a)
    BY <1>4 DEF BundleSafe, BundleInPlace
  <2>2. /\ endings[a] = "completed"
        /\ launches[a] = [identity |-> f.identity, phase |-> f.input.phase]
    BY <1>1 DEF ReviewPasses
  <2>3. launches[a] # Missing /\ launches[a].identity = f.identity
    BY <2>1, <2>2, BundleAssumption DEF AttemptInPlace, BundleSafe, BundleTypes, BundleTypeOK
  <2>4. f.result = [input |-> f.identity.data.input, identity |-> f.identity]
    BY <1>2 DEF ResultFile
  <2> QED
    BY <2>1, <2>2, <2>3, <2>4 DEF AttemptInPlace, ReplayOf
<1> QED
  BY <1>1, <1>2, <1>3, <1>4

-----------------------------------------------------------------------------
(* The theorems *)

\* The rows of a later phase are read only on the recorded survival of the phase
\* before it, and a bundle passes its review only with what was read and replayed
\* for it: whatever processes run or die, main and the price store change, and,
\* as far as the property says, files are lost or replaced.
THEOREM PhaseEvidenceHolds == Spec => []PhaseEvidence
<1>1. Init => TrialInv /\ BundleInv
  BY InputsInitially, TrialInitially, BundleInitially DEF Init, TrialInv, BundleInv
<1>2. TrialInv /\ BundleInv /\ [Next]_researchVars => (TrialInv /\ BundleInv)'
  BY TrialKept, BundleKept
<1>3. TrialInv /\ BundleInv => PhaseEvidence
  BY SurvivalFollows, BundleFollows DEF PhaseEvidence
<1> QED
  BY <1>1, <1>2, <1>3, PTL DEF Spec

=============================================================================
