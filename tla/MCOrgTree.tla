----------------------------- MODULE MCOrgTree -----------------------------
(***************************************************************************)
(* OrgTree for TLC: a few positions and members, two requests that move or *)
(* delete at the same time and one that publishes.                         *)
(***************************************************************************)
EXTENDS OrgTree, TLC

Symmetry == Permutations(Positions) \cup Permutations(Editors)

=============================================================================
