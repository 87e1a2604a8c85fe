---------------------------- MODULE MCNewsletter ----------------------------
(* One address; three requests to subscribe it, which are interchangeable. *)
EXTENDS Newsletter, TLC
CONSTANTS a1, r1, r2, r3
Symm == Permutations({r1, r2, r3})
=============================================================================
