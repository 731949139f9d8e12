---------------------------- MODULE MCAdminUsers ----------------------------
(* Finite instances of AdminUsers for TLC.                                 *)
EXTENDS AdminUsers, TLC

CONSTANTS a1, a2, a3, r1, r2, r3

AllOperations == {"approve", "reject", "setRole", "signIn"}
AllRoles == {"system_admin", "viewer"}

\* Requests are interchangeable; accounts outside Bootstrap and Seeded too.
RequestSymmetry == Permutations(Requests)
Symmetry == RequestSymmetry \cup Permutations({a2, a3})
SeededSymmetry == RequestSymmetry \cup Permutations(Admins)
=============================================================================
