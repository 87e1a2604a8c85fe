---------------------------- MODULE MCRedirects ----------------------------
(***************************************************************************)
(* Redirects for TLC: a few posts and paths, and requests on both tables   *)
(* that start over.                                                        *)
(***************************************************************************)
EXTENDS Redirects, TLC

Symmetry == Permutations(Posts) \cup Permutations(RuleIds) \cup Permutations(Paths)
              \cup Permutations(Editors)

=============================================================================
