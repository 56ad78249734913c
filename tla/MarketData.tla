---------------------------- MODULE MarketData ----------------------------
(***************************************************************************)
(* The public-data recorder (src/tidelab/cli.py): synchronisations, stream *)
(* captures and archive imports that share the store and the clock.        *)
(***************************************************************************)
EXTENDS BarSync, StreamCapture, ArchiveImport

CONSTANTS
  Scenario,     \* records [launched, quiet]: the executions that are started
                \* together, and the hours in which nothing traded
  MaxHour       \* bound of the clock

ASSUME ClockAssumption == MaxHour \in Nat

vars == <<now, storeVars, syncVars, stream, import>>

TypeOK ==
  /\ now \in 0 .. MaxHour
  /\ instrument \in {None} \union 0 .. MaxHour
  /\ bars \subseteq [at : 0 .. MaxHour, key : {"ONE_HOUR"}, value : {"open", "final"},
                     received : 0 .. MaxHour]
  /\ \A b \in archived : b.digest \in DOMAIN Archive /\ b \in BarsOf[b.digest]
  /\ observations \subseteq UNION {Observed(s, m) : s \in Session, m \in Message}
  /\ messages \in Seq(Session \X Message)
  /\ \A p \in Sync :
       /\ runs[p].status \in {"none", "running", "complete", "failed", "interrupted"}
       /\ sync[p].pc \in {"off", "idle", "product", "start"} => runs[p].status = "none"
       /\ sync[p].pc \in {"window", "request", "store", "count"} => runs[p].status = "running"
       /\ sync[p].attempt \in 0 .. MaxAttempts
  /\ \A s \in Session :
       sessions[s].status \in {"none", "running", "complete", "failed", "interrupted"}
  /\ \A i \in Import : import[i].pc \in
       {"off", "idle", "lookup", "insert", "imported", "refused", "dead"}

Init ==
  \E scenario \in Scenario :
    /\ now = 0
    /\ StoreInit
    /\ quiet = scenario.quiet
    /\ SyncInit(scenario.launched)
    /\ StreamInit(scenario.launched)
    /\ ImportInit(scenario.launched)

Tick ==
  /\ now < MaxHour
  /\ now' = now + 1
  /\ UNCHANGED <<storeVars, syncVars, stream, import>>

Next ==
  \/ Tick
  \/ \E p \in Sync : SyncNext(p) /\ UNCHANGED <<stream, import>>
  \/ \E s \in Session : StreamNext(s) /\ UNCHANGED <<syncVars, import>>
  \/ \E i \in Import : ImportNext(i) /\ UNCHANGED <<syncVars, stream>>

Spec == Init /\ [][Next]_vars

\* A process that was started runs on, and the time of a capture passes.
FairSpec ==
  /\ Spec
  /\ \A p \in Sync : WF_vars(SyncStep(p) /\ UNCHANGED <<stream, import>>)
  /\ \A s \in Session :
       /\ WF_vars(StreamStep(s) /\ UNCHANGED <<syncVars, import>>)
       /\ WF_vars(Expire(s) /\ UNCHANGED <<syncVars, import>>)
  /\ \A i \in Import : WF_vars(ImportStep(i) /\ UNCHANGED <<syncVars, stream>>)

=============================================================================
