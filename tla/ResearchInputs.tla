--------------------------- MODULE ResearchInputs ---------------------------
(***************************************************************************)
(* What the private research commands read and do not own: integrated      *)
(* main, whose revision every command establishes first (integrated_head() *)
(* of rsi_private.py and of scripts/low_vol_private_trial.py), and the     *)
(* rows of the price store (data/okx).  Both may change between any two    *)
(* steps of a command.  Files may be damaged and processes may die.  What  *)
(* torn files and rows that fail their checks hold is Broken.              *)
(***************************************************************************)
EXTENDS Integers

CONSTANTS
  Revision,     \* revisions of integrated main
  Rows,         \* what the rows of a window of the store may be
  Broken,       \* rows that fail the continuity or the provenance checks
  Missing,      \* absence of a row, a file or a value
  MaxMoves,     \* bound: how often main or the price store changes
  MaxDeaths,    \* bound: how many processes die
  MaxDamage,    \* bound: how often a file is replaced or lost
  MaxEvents     \* bound: how many of the three there are together

ASSUME RowsAssumption == Broken \notin Rows /\ Missing \notin Rows \union Revision
ASSUME InputBoundAssumption == {MaxMoves, MaxDeaths, MaxDamage, MaxEvents} \subseteq Nat

\* The phases of trial_registry.py.
Phase == {"development", "validation", "untouched"}

VARIABLES
  head,         \* the revision of integrated main
  source,       \* the rows of the window in the price store
  moves, deaths, damage

inputs == <<head, source, moves, deaths, damage>>

InputsTypeOK ==
  /\ head \in Revision
  /\ source \in Rows \union {Broken}
  /\ moves \in 0 .. MaxMoves
  /\ deaths \in 0 .. MaxDeaths
  /\ damage \in 0 .. MaxDamage

InputsInit ==
  /\ head \in Revision
  /\ source \in Rows
  /\ moves = 0 /\ deaths = 0 /\ damage = 0

Uneventful == moves + deaths + damage < MaxEvents

\* Main moves on, or an import changes the rows.
Move ==
  /\ moves < MaxMoves /\ Uneventful
  /\ moves' = moves + 1
  /\ \/ head' \in Revision \ {head} /\ UNCHANGED source
     \/ source' \in (Rows \union {Broken}) \ {source} /\ UNCHANGED head
  /\ UNCHANGED <<deaths, damage>>

OneMoreDeath ==
  /\ deaths < MaxDeaths /\ Uneventful
  /\ deaths' = deaths + 1
  /\ UNCHANGED <<head, source, moves, damage>>

OneMoreDamage ==
  /\ damage < MaxDamage /\ Uneventful
  /\ damage' = damage + 1
  /\ UNCHANGED <<head, source, moves, deaths>>

=============================================================================
