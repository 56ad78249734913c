--------------------------- MODULE H1PrivateTrial ---------------------------
(***************************************************************************)
(* src/tidelab/h1_private_trial.py, h1_trial_review.py and                 *)
(* scripts/record_local_trial.py: a bundle of private H1 input is prepared *)
(* under integrated main, a wrapper registers an attempt, runs the replay  *)
(* program over the bundle with its output in a log, and records how it    *)
(* ended; a review accepts the result later.                               *)
(*                                                                         *)
(* A digest is the content it was taken of: an identity holds its          *)
(* manifest, and that its input.  A file that is torn counts as Missing.   *)
(***************************************************************************)
EXTENDS ResearchInputs, Sequences

CONSTANTS
  Bundle,       \* bundle directories under data/
  AttemptId,    \* attempt identifiers
  Wrapper       \* processes of the preparing and recording scripts

BundlePhase == {"development", "validation"}

VARIABLES
  bundle,       \* the files of a bundle
  launches,     \* trial_attempts, by attempt: identity and phase
  endings,      \* trial_outcomes, by attempt
  wrapper,      \* what a process is doing
  fetched,      \* the rows read for a bundle's latest preparation
  produced      \* the results replayed in an attempt, with main's revision

h1Registry == <<launches, endings>>
h1History == <<fetched, produced>>
bundleVars == <<bundle, h1Registry, wrapper, h1History>>

NewBundle == [input |-> Missing, manifest |-> Missing, identity |-> Missing,
              result |-> Missing, log |-> Missing]

NoCommand == [pc |-> "idle", bundle |-> Missing, phase |-> Missing,
              attempt |-> Missing, identity |-> Missing, result |-> Missing, parent |-> TRUE]

\* What the content of a bundle's files is.
InputFile == [phase : BundlePhase, rows : Rows]
ManifestFile == [phase : BundlePhase, input : InputFile]
IdentityFile == [head : Revision, data : ManifestFile]
ResultFile == [input : InputFile, identity : IdentityFile]
OrMissing(set) == set \union {Missing}
BundleFiles == [input : OrMissing(InputFile), manifest : OrMissing(ManifestFile),
                identity : OrMissing(IdentityFile), result : OrMissing(ResultFile),
                log : OrMissing([printed : OrMissing(ResultFile)])]
LaunchRow == [identity : IdentityFile, phase : Phase]
WrapperWork == [pc : {"idle", "start", "log", "replay", "print", "end"},
                bundle : OrMissing(Bundle), phase : OrMissing(Phase),
                attempt : OrMissing(AttemptId), identity : OrMissing(IdentityFile),
                result : OrMissing(ResultFile), parent : BOOLEAN]

ASSUME BundleAssumption ==
  Missing \notin BundleFiles \union IdentityFile \union LaunchRow \union {"completed"}

BundleTypeOK ==
  /\ bundle \in [Bundle -> OrMissing(BundleFiles)]
  /\ launches \in [AttemptId -> OrMissing(LaunchRow)]
  /\ endings \in [AttemptId -> {Missing, "completed", "failed", "aborted"}]
  /\ wrapper \in [Wrapper -> WrapperWork]
  /\ fetched \in [Bundle -> OrMissing(Rows)]
  /\ produced \in [AttemptId -> Seq([head : Revision, result : ResultFile])]

BundleInit ==
  /\ bundle = [b \in Bundle |-> Missing]
  /\ launches = [a \in AttemptId |-> Missing]
  /\ endings = [a \in AttemptId |-> Missing]
  /\ wrapper = [p \in Wrapper |-> NoCommand]
  /\ fetched = [b \in Bundle |-> Missing]
  /\ produced = [a \in AttemptId |-> <<>>]

Advance(p, label) == wrapper' = [wrapper EXCEPT ![p].pc = label]
Quit(p) == wrapper' = [wrapper EXCEPT ![p] = NoCommand]

-----------------------------------------------------------------------------
(* prepare_partition() *)

\* read_source() checks every row and archive before the directory, which must
\* be new, is made, and nothing uses a bundle before the last file, its
\* identity, is there: one step.
PrepareBundle(b, ph) ==
  LET input == [phase |-> ph, rows |-> source]
      manifest == [phase |-> ph, input |-> input]
  IN
  /\ bundle[b] = Missing
  /\ source # Broken
  /\ bundle' = [bundle EXCEPT ![b] =
       [NewBundle EXCEPT !.input = input, !.manifest = manifest,
                         !.identity = [head |-> head, data |-> manifest]]]
  /\ fetched' = [fetched EXCEPT ![b] = source]
  /\ UNCHANGED <<inputs, h1Registry, wrapper, produced>>

\* A preparation that dies leaves a directory that is refused from then on.
DiePreparing(b) ==
  /\ bundle[b] = Missing
  /\ OneMoreDeath
  /\ bundle' = [bundle EXCEPT ![b] = NewBundle]
  /\ UNCHANGED <<h1Registry, wrapper, h1History>>

-----------------------------------------------------------------------------
(* record_local_trial.py and the program it runs *)

\* There is no log and no such attempt; the phase is the caller's.
Record(p, b, a, ph) ==
  /\ wrapper[p].pc = "idle"
  /\ bundle[b] # Missing
  /\ bundle[b].log = Missing
  /\ bundle[b].identity # Missing
  /\ launches[a] = Missing
  /\ wrapper' = [wrapper EXCEPT ![p] = [NoCommand EXCEPT !.pc = "start", !.bundle = b, !.phase = ph,
                                         !.attempt = a, !.identity = bundle[b].identity]]
  /\ UNCHANGED <<inputs, bundle, h1Registry, h1History>>

\* start(): no attempt is unfinished; a validation identity, and the untouched
\* phase of the strategy, are opened once.
MayStart(w) ==
  /\ launches[w.attempt] = Missing
  /\ \A a \in AttemptId : launches[a] # Missing =>
       /\ endings[a] # Missing
       /\ w.phase = "validation" => launches[a] # [identity |-> w.identity, phase |-> w.phase]
       /\ w.phase = "untouched" => launches[a].phase # "untouched"

StartAttempt(p) ==
  LET w == wrapper[p] IN
  /\ w.pc = "start"
  /\ IF MayStart(w)
       THEN /\ launches' = [launches EXCEPT ![w.attempt] =
                              [identity |-> w.identity, phase |-> w.phase]]
            /\ Advance(p, "log")
       ELSE Quit(p) /\ UNCHANGED launches
  /\ UNCHANGED <<inputs, bundle, endings, h1History>>

OpenLog(p) ==
  LET b == wrapper[p].bundle IN
  /\ wrapper[p].pc = "log"
  /\ bundle[b].log = Missing
  /\ bundle' = [bundle EXCEPT ![b].log = [printed |-> Missing]]
  /\ Advance(p, "replay")
  /\ UNCHANGED <<inputs, h1Registry, h1History>>

\* What the program requires: the revision and the chain of digests.
Chained(files) ==
  /\ files.identity # Missing /\ files.manifest # Missing /\ files.input # Missing
  /\ files.identity.data = files.manifest
  /\ files.manifest.input = files.input
  /\ files.manifest.phase = files.input.phase

Replayable(b) ==
  /\ bundle[b].result = Missing
  /\ Chained(bundle[b])
  /\ bundle[b].identity.head = head

\* The result is a new file.
ReplayBundle(p) ==
  LET w == wrapper[p]
      result == [input |-> bundle[w.bundle].input, identity |-> bundle[w.bundle].identity]
  IN
  /\ w.pc = "replay"
  /\ Replayable(w.bundle)
  /\ bundle' = [bundle EXCEPT ![w.bundle].result = result]
  /\ wrapper' = [wrapper EXCEPT ![p].pc = "print", ![p].result = result]
  /\ produced' = [produced EXCEPT ![w.attempt] = Append(@, [head |-> head, result |-> result])]
  /\ UNCHANGED <<inputs, h1Registry, fetched>>

\* The digest of the result is the program's last line.
PrintResult(p) ==
  LET b == wrapper[p].bundle IN
  /\ wrapper[p].pc = "print"
  /\ bundle' = [bundle EXCEPT ![b].log = [printed |-> wrapper[p].result]]
  /\ IF wrapper[p].parent THEN Advance(p, "end") ELSE Quit(p)
  /\ UNCHANGED <<inputs, h1Registry, h1History>>

\* finish(), of an attempt that is open.
Ended(a, outcome) ==
  endings' = IF launches[a] # Missing /\ endings[a] = Missing
               THEN [endings EXCEPT ![a] = outcome] ELSE endings

FinishAttempt(p) ==
  /\ wrapper[p].pc = "end"
  /\ Ended(wrapper[p].attempt, "completed")
  /\ Quit(p)
  /\ UNCHANGED <<inputs, bundle, launches, h1History>>

-----------------------------------------------------------------------------
(* How a command ends otherwise *)

\* The program exits with an error, or the log cannot be created.
FailRun(p) ==
  LET w == wrapper[p] IN
  /\ \/ w.pc = "log" /\ bundle[w.bundle].log # Missing
     \/ w.pc = "replay" /\ ~Replayable(w.bundle)
  /\ IF w.parent THEN Ended(w.attempt, IF w.pc = "log" THEN "aborted" ELSE "failed")
                 ELSE UNCHANGED endings
  /\ Quit(p)
  /\ UNCHANGED <<inputs, bundle, launches, h1History>>

\* An interrupt: the wrapper kills the program and records the abort.
InterruptRun(p) ==
  /\ wrapper[p].pc \in {"log", "replay", "print", "end"}
  /\ wrapper[p].parent
  /\ OneMoreDeath
  /\ Ended(wrapper[p].attempt, "aborted")
  /\ Quit(p)
  /\ UNCHANGED <<bundle, launches, h1History>>

\* A wrapper that dies may leave the program running.
DieWrapper(p) ==
  /\ wrapper[p].pc # "idle"
  /\ OneMoreDeath
  /\ \/ Quit(p)
     \/ /\ wrapper[p].parent /\ wrapper[p].pc \in {"replay", "print"}
        /\ wrapper' = [wrapper EXCEPT ![p].parent = FALSE]
  /\ UNCHANGED <<bundle, h1Registry, h1History>>

\* A file is replaced, a directory nobody works in moved, or the registry lost.
DamageBundle ==
  /\ OneMoreDamage
  /\ \/ /\ \E b \in Bundle :
             /\ bundle[b] # Missing
             /\ \/ \E content \in InputFile :
                     /\ bundle[b].input # Missing
                     /\ bundle' = [bundle EXCEPT ![b].input = content]
                \/ \E rows \in Rows :
                     /\ bundle[b].result # Missing
                     /\ bundle' = [bundle EXCEPT ![b].result.input.rows = rows]
                \/ /\ \A p \in Wrapper : wrapper[p].bundle # b
                   /\ bundle' = [bundle EXCEPT ![b] = Missing]
        /\ UNCHANGED h1Registry
     \/ /\ launches' = [a \in AttemptId |-> Missing]
        /\ endings' = [a \in AttemptId |-> Missing]
        /\ UNCHANGED bundle
  /\ UNCHANGED <<wrapper, h1History>>

-----------------------------------------------------------------------------

\* review_bundle(): files, result, log and the attempt's row agree.
ReviewPasses(b, a) ==
  /\ bundle[b] # Missing
  /\ Chained(bundle[b])
  /\ bundle[b].result # Missing
  /\ bundle[b].result.input = bundle[b].input
  /\ bundle[b].result.identity = bundle[b].identity
  /\ bundle[b].log # Missing /\ bundle[b].log.printed = bundle[b].result
  /\ launches[a] = [identity |-> bundle[b].identity, phase |-> bundle[b].input.phase]
  /\ endings[a] = "completed"

BundleStep(p) ==
  \/ StartAttempt(p) \/ OpenLog(p) \/ ReplayBundle(p)
  \/ PrintResult(p) \/ FinishAttempt(p) \/ FailRun(p)

BundleNext ==
  \/ \E p \in Wrapper :
       \/ \E b \in Bundle, a \in AttemptId, ph \in Phase : Record(p, b, a, ph)
       \/ BundleStep(p)
       \/ InterruptRun(p)
       \/ DieWrapper(p)
  \/ \E b \in Bundle : DiePreparing(b) \/ \E ph \in BundlePhase : PrepareBundle(b, ph)
  \/ DamageBundle

=============================================================================
