---------------------------- MODULE MCResearch ----------------------------
(***************************************************************************)
(* Research with two grants (the founder's and a later one), two bundles   *)
(* and two attempts of H1, two processes of every command, two revisions,  *)
(* two versions of the rows and two inputs of two contents, of which one   *)
(* compiles.  Attempts could be permuted too, which costs more than it     *)
(* saves.                                                                  *)
(***************************************************************************)
EXTENDS ResearchProps, TLC

CONSTANTS rsi, channel, p1, p2, p3, h1, h2, r1, r2, c1, c2, b1, b2, a1, a2

MCGrant == {rsi, channel}
MCProcess == {p1, p2}
MCTester == {p1, p2, p3}
MCBundle == {b1, b2}
MCAttempt == {a1, a2}
MCRevision == {h1, h2}
MCRows == {r1, r2}

MCReads == [c \in {c1, c2} |-> IF c = c1 THEN "compiled" ELSE "unsupported"]
MCDeclared == [i \in {0, 1} |-> IF i = 0 THEN c1 ELSE c2]

MCSymmetry == Permutations(MCProcess) \union Permutations(MCRevision) \union Permutations(MCRows)
              \union Permutations(MCBundle)

=============================================================================
