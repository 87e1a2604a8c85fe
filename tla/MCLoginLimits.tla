---------------------------- MODULE MCLoginLimits ----------------------------
(* Three sign-ins at once; three wrong passwords lock for 1, 2, 4, 4, ... *)
(* units, with decay after five.                                          *)
EXTENDS LoginLimits
CONSTANTS r1, r2, r3
=============================================================================
