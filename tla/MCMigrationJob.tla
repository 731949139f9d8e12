--------------------------- MODULE MCMigrationJob ---------------------------
(* Finite instances of MigrationJob for TLC.                               *)
EXTENDS MigrationJob, TLC

CONSTANTS j1, j2, u1, u2, w1, owner

\* One workspace with an owner and a disabled maintainer.
OneWorkspace == {w1 :> (u1 :> owner @@ u2 :> Maintainer)}

U2Disabled == {<<w1, u2>>}

\* Roles that lack what runMigration and what AddRoles creates.
OwnerOnly == {{owner}}
\* The disabled member has a permittable, with a role it should not have.
U2Only == {{u2}}
=============================================================================
