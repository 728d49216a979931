---------------------------- MODULE MCMuzooStore ----------------------------
(* Small instances of MuzooStore for TLC.                                  *)
EXTENDS MuzooStore, TLC

CONSTANTS e1, e2   \* two of Edits

\* The first two edits are close to each other, the third is on its own.
NearFirstTwo ==
  [e \in Edits |-> IF e = e1 THEN {e2} \cap Edits ELSE IF e = e2 THEN {e1} ELSE {}]

\* The commands are interchangeable, and so are the first two edits.
Symmetry == Permutations(Commands) \cup Permutations({e1, e2} \cap Edits)
=============================================================================
