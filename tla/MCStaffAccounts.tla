-------------------------- MODULE MCStaffAccounts --------------------------
(***************************************************************************)
(* StaffAccounts for TLC: two active admins and an account to invite, a    *)
(* few bodies for PATCH, one of them combining two fields.                 *)
(***************************************************************************)
EXTENDS StaffAccounts, TLC

CONSTANTS a1, a2, u3

MCUsers == {a1, a2, u3}
MCAdmins == {a1, a2}

MCPatches ==
    { [NoPatch EXCEPT !.role = "editor"],
      [NoPatch EXCEPT !.role = "admin"],
      [NoPatch EXCEPT !.status = "disabled"],
      [NoPatch EXCEPT !.status = "active"],
      [NoPatch EXCEPT !.newEmail = TRUE],
      [NoPatch EXCEPT !.role = "editor", !.status = "disabled"] }

\* Requests are interchangeable, and so are the two admins.
Symmetry == Permutations(Reqs) \cup Permutations(MCAdmins)

=============================================================================
