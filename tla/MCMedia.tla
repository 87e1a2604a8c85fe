------------------------------ MODULE MCMedia ------------------------------
(* Two ids, an image and a PDF, one row that shows assets, two requests.   *)
EXTENDS Media, TLC
CONSTANTS a1, a2, photo, report, o1, r1, r2
Symm == Permutations({a1, a2}) \cup Permutations({r1, r2})
=============================================================================
