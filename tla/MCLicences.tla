----------------------------- MODULE MCLicences -----------------------------
(***************************************************************************)
(* Licences for TLC: two licences, two numbers, two editors writing at the *)
(* same time and one request of the settings screen.                       *)
(***************************************************************************)
EXTENDS Licences, TLC

MCLicenceIds == 1 .. 2

Symmetry == Permutations(Writers) \cup Permutations(Numbers)

=============================================================================
