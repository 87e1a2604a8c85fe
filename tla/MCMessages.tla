----------------------------- MODULE MCMessages -----------------------------
(* One message and three requests, which are interchangeable.               *)
EXTENDS Messages, TLC
CONSTANTS m1, r1, r2, r3
Symm == Permutations({r1, r2, r3})
=============================================================================
