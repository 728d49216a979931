---------------------------- MODULE MCMuzooTest ----------------------------
(* Small instances of MuzooTest for TLC.                                   *)
EXTENDS MuzooTest, TLC

\* Every patch applies to every commit.
AppliesAlways == [p \in Patches |-> Commits]

\* The user's commits change what the patches touch.
AppliesAtFirst == [p \in Patches |-> {0}]

\* The mutations are interchangeable in both definitions.
Symmetry == Permutations(Patches)

=============================================================================
