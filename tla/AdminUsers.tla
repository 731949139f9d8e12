----------------------------- MODULE AdminUsers -----------------------------
(***************************************************************************)
(* Life cycle of the administrators of the admin console                   *)
(* (server/internal/admin, server/pkg/adminuser): sign-in, approval,       *)
(* rejection and role assignment, served by concurrent HTTP requests.      *)
(*                                                                         *)
(* Every use case is a read-modify-write of a WHOLE record: it loads the   *)
(* target, mutates its copy and saves the copy over whatever is stored by  *)
(* then.  The steps between the reads and the write are separate actions   *)
(* here, so the requests interleave as the handlers do.                    *)
(*                                                                         *)
(* The guard of SaveGuardingLastSystemAdmin excludes other holders here.   *)
(* That is what the PostgreSQL and memory repositories do; the lock of     *)
(* MongoDB does it only where its collection has the unique index (module  *)
(* MongoLock).  That its release may fail is modelled.                     *)
(***************************************************************************)
EXTENDS Naturals, FiniteSets

CONSTANTS
    Admins,             \* accounts, identified by their unique e-mail
    Requests,           \* requests the server handles at the same time
    Bootstrap,          \* e-mails named by the bootstrap environment variable
    Seeded,             \* system_admins stored before the server starts
    CerbosConfigured,   \* FALSE: the checker has no client and allows all
    Operations,         \* the routes in use
    AssignableRoles,    \* roles the role-assignment requests ask for
    None,               \* absent record, approver or lock holder
    Left                \* a lock nobody holds and nobody will release

ASSUME AdminsAssumption ==
    /\ Bootstrap \subseteq Admins
    /\ Seeded \subseteq Admins
    /\ CerbosConfigured \in BOOLEAN
    /\ Operations \subseteq {"approve", "reject", "setRole", "signIn"}
    /\ AssignableRoles \subseteq {"system_admin", "viewer"}
    /\ None \notin Admins
    /\ None \notin Requests
    /\ Left \notin Requests \cup {None}

ASSUME AdminsFinite == IsFiniteSet(Admins)

VARIABLES
    admin,    \* the admin-user collection: account -> record, or None
    req,      \* the local state of each request handler
    guard,    \* holder of the "adminuser:system_admin_guard" lock, or None,
              \*   or Left
    trusted,  \* history: accounts the permission check has ever let through
    overtaken \* history: requests whose target has been changed by another
              \*   since they loaded their copy

vars == <<admin, req, guard, trusted, overtaken>>

-----------------------------------------------------------------------------
(* Records.  A role "" is a record that was never given one.               *)

Roles    == {"", "viewer", "system_admin"}
Statuses == {"pending", "approved", "rejected"}

AdminUser == [status: Statuses, role: Roles, approvedBy: Admins \cup {None}]

ASSUME NoneIsNoRecord == None \notin AdminUser

Idle == [pc |-> "idle", kind |-> "none", op |-> None, target |-> None,
         role |-> "", doc |-> None]

Kinds == {"approve", "reject", "setRole", "signIn"}

\* A handler is idle, has passed the middleware, or works on its own copy
\* (doc) of the target's record.
Request ==
    {Idle}
      \cup [pc: {"authorized"}, kind: Kinds \ {"signIn"}, op: Admins,
            target: Admins, role: Roles, doc: {None}]
      \cup [pc: {"counting", "locking", "checking", "guardedSave",
                 "inserting", "saving"},
            kind: Kinds, op: Admins \cup {None}, target: Admins,
            role: Roles, doc: AdminUser]

Exists(a) == admin[a] # None

IsApproved(a) == Exists(a) /\ admin[a].status = "approved"

\* The accounts the console cannot do without.
SystemAdmins == {a \in Admins : IsApproved(a) /\ admin[a].role = "system_admin"}

Approved == {a \in Admins : IsApproved(a)}

\* Checker.Allowed for approve, reject and assign_role, the policy matrix
\* included: system_admin only, and everyone when no Cerbos client is set.
Allowed(role) == CerbosConfigured => role = "system_admin"

\* Mutant: an approval that leaves a fresh account without a role.
ApproveWithoutRole(u, by) ==
    [u EXCEPT !.status = "approved", !.approvedBy = by]

\* AdminUser.Approve followed by the default role of ApproveAdminUserUseCase.
Approve(u, by) ==
    [u EXCEPT !.status = "approved",
              !.approvedBy = by,
              !.role = IF @ = "" THEN "viewer" ELSE @]

\* AdminUser.Reject: the approval history is kept.
Reject(u) == [u EXCEPT !.status = "rejected"]

\* What a sign-in makes of a stored bootstrap account.  An approved account
\* keeps its approver: AdminUser.Approve is idempotent.
Reconcile(u) ==
    [status |-> "approved", role |-> "system_admin",
     approvedBy |-> IF u.status = "approved" THEN u.approvedBy ELSE None]

\* The record of a first sign-in.
NewAdminUser(a) ==
    IF a \in Bootstrap
      THEN [status |-> "approved", role |-> "system_admin", approvedBy |-> None]
      ELSE [status |-> "pending", role |-> "", approvedBy |-> None]

Init ==
    /\ admin = [a \in Admins |->
                  IF a \in Seeded
                    THEN [status |-> "approved", role |-> "system_admin",
                          approvedBy |-> None]
                    ELSE None]
    /\ req = [r \in Requests |-> Idle]
    /\ guard = None
    /\ trusted = {}
    /\ overtaken = {}

-----------------------------------------------------------------------------
(* Requests                                                                *)

Finish(r) == req' = [req EXCEPT ![r] = Idle]

\* Mutant: the route is registered without RequirePermission.
AuthorizeApprovedOnly(r, op, kind, target, role) ==
    /\ req[r].pc = "idle"
    /\ IsApproved(op)
    /\ kind \in {"approve", "reject"} => op # target
    /\ req' = [req EXCEPT ![r] = [Idle EXCEPT !.pc = "authorized",
                                              !.kind = kind,
                                              !.op = op,
                                              !.target = target,
                                              !.role = role]]
    /\ UNCHANGED <<admin, guard>>

\* RequireApproved loads the operator's record once and RequirePermission
\* judges that same copy; approve and reject then refuse the operator itself.
Authorize(r, op, kind, target, role) ==
    /\ req[r].pc = "idle"
    /\ IsApproved(op)
    /\ Allowed(admin[op].role)
    /\ kind \in {"approve", "reject"} => op # target
    /\ req' = [req EXCEPT ![r] = [Idle EXCEPT !.pc = "authorized",
                                              !.kind = kind,
                                              !.op = op,
                                              !.target = target,
                                              !.role = role]]
    /\ UNCHANGED <<admin, guard>>

\* FindByID finds no such account.
TargetNotFound(r) ==
    /\ req[r].pc = "authorized"
    /\ ~Exists(req[r].target)
    /\ Finish(r)
    /\ UNCHANGED <<admin, guard>>

\* ApproveAdminUserUseCase.Execute up to its Save.
LoadForApprove(r) ==
    LET t == req[r].target IN
    /\ req[r].pc = "authorized" /\ req[r].kind = "approve"
    /\ Exists(t)
    /\ IF IsApproved(t)
         THEN Finish(r)
         ELSE req' = [req EXCEPT ![r].pc = "saving",
                                 ![r].doc = Approve(admin[t], req[r].op)]
    /\ UNCHANGED <<admin, guard>>

\* RejectAdminUserUseCase.Execute up to the count of approved admins.
LoadForReject(r) ==
    LET t == req[r].target IN
    /\ req[r].pc = "authorized" /\ req[r].kind = "reject"
    /\ Exists(t)
    /\ req' = [req EXCEPT ![r].pc = IF IsApproved(t) THEN "counting"
                                                     ELSE "saving",
                          ![r].doc = Reject(admin[t])]
    /\ UNCHANGED <<admin, guard>>

\* The List(status = approved) whose TotalCount guards a revocation.
CountApproved(r) ==
    /\ req[r].pc = "counting"
    /\ IF Cardinality(Approved) <= 1
         THEN Finish(r)
         ELSE req' = [req EXCEPT ![r].pc = "saving"]
    /\ UNCHANGED <<admin, guard>>

\* SetRoleUseCase.Execute up to the repository call: whether the change is a
\* demotion that must be guarded is decided on the copy just loaded.
LoadForSetRole(r) ==
    LET t == req[r].target
        demoting == /\ IsApproved(t)
                    /\ admin[t].role = "system_admin"
                    /\ req[r].role # "system_admin"
    IN
    /\ req[r].pc = "authorized" /\ req[r].kind = "setRole"
    /\ Exists(t)
    /\ req' = [req EXCEPT ![r].pc = IF demoting THEN "locking" ELSE "saving",
                          ![r].doc = [admin[t] EXCEPT !.role = req[r].role]]
    /\ UNCHANGED <<admin, guard>>

\* Save: the whole copy replaces the stored record.
Save(r) ==
    /\ req[r].pc = "saving"
    /\ admin' = [admin EXCEPT ![req[r].target] = req[r].doc]
    /\ Finish(r)
    /\ UNCHANGED guard

\* Mutant: the existence check runs without the lock.
SkipGuard(r) ==
    /\ req[r].pc = "locking"
    /\ req' = [req EXCEPT ![r].pc = "checking"]
    /\ UNCHANGED <<admin, guard>>

\* Mutant: the call waits until the lock is free, however long that takes.
LockGuardPatiently(r) ==
    /\ req[r].pc = "locking"
    /\ guard = None
    /\ guard' = r
    /\ req' = [req EXCEPT ![r].pc = "checking"]
    /\ UNCHANGED admin

\* SaveGuardingLastSystemAdmin takes the lock, or gives up once the retries
\* find it held every time.
LockGuard(r) ==
    /\ req[r].pc = "locking"
    /\ \/ /\ guard = None
          /\ guard' = r
          /\ req' = [req EXCEPT ![r].pc = "checking"]
       \/ /\ guard # None
          /\ Finish(r)
          /\ UNCHANGED guard
    /\ UNCHANGED admin

\* The deferred unlock of a request that ends, whose error nobody looks at:
\* the lock may be left behind.
Unlock(r) == guard' \in IF guard = r THEN {None, Left} ELSE {guard}

\* ExistsApprovedSystemAdminExcept; without one the save is refused.
CheckOtherSystemAdmin(r) ==
    /\ req[r].pc = "checking"
    /\ IF SystemAdmins \ {req[r].target} # {}
         THEN /\ req' = [req EXCEPT ![r].pc = "guardedSave"]
              /\ UNCHANGED guard
         ELSE /\ Finish(r)
              /\ Unlock(r)
    /\ UNCHANGED admin

GuardedSave(r) ==
    /\ req[r].pc = "guardedSave"
    /\ admin' = [admin EXCEPT ![req[r].target] = req[r].doc]
    /\ Unlock(r)
    /\ Finish(r)

\* Mutant: every sign-in is reconciled as a bootstrap sign-in.
SignInReconcilesAll(r, a, profileChanged) ==
    LET doc == IF Exists(a) THEN Reconcile(admin[a]) ELSE NewAdminUser(a) IN
    /\ req[r].pc = "idle"
    /\ profileChanged \/ doc # admin[a]
    /\ req' = [req EXCEPT ![r] = [Idle EXCEPT !.pc = IF Exists(a) THEN "saving"
                                                               ELSE "inserting",
                                              !.kind = "signIn",
                                              !.target = a,
                                              !.doc = doc]]
    /\ UNCHANGED <<admin, guard>>

\* GoogleSignInUseCase.Execute up to its Save.  profileChanged: the Google
\* claims carry another name or picture than the stored profile, whose text
\* is not represented.
SignIn(r, a, profileChanged) ==
    LET doc == IF a \in Bootstrap THEN Reconcile(admin[a]) ELSE admin[a] IN
    /\ req[r].pc = "idle"
    /\ \/ /\ ~Exists(a)
          /\ req' = [req EXCEPT ![r] = [Idle EXCEPT !.pc = "inserting",
                                                    !.kind = "signIn",
                                                    !.target = a,
                                                    !.doc = NewAdminUser(a)]]
       \/ /\ Exists(a)
          /\ profileChanged \/ doc # admin[a]
          /\ req' = [req EXCEPT ![r] = [Idle EXCEPT !.pc = "saving",
                                                    !.kind = "signIn",
                                                    !.target = a,
                                                    !.doc = doc]]
    /\ UNCHANGED <<admin, guard>>

\* The insert of a first sign-in: when a concurrent first sign-in won, the
\* unique e-mail index refuses it and the existing account is returned.
InsertAdmin(r) ==
    LET a == req[r].target IN
    /\ req[r].pc = "inserting"
    /\ admin' = IF Exists(a) THEN admin
                             ELSE [admin EXCEPT ![a] = req[r].doc]
    /\ Finish(r)
    /\ UNCHANGED guard

\* A repository call fails or the client's context is cancelled.  A failing
\* Lock may have created the lock document that nobody then knows.
RepoError(r) ==
    /\ req[r].pc # "idle"
    /\ Finish(r)
    /\ \/ Unlock(r)
       \/ req[r].pc = "locking" /\ guard = None /\ guard' = Left
    /\ UNCHANGED admin

\* A lock left behind expires, perhaps.
ExpireGuard ==
    /\ guard = Left
    /\ guard' = None
    /\ UNCHANGED <<admin, req>>

-----------------------------------------------------------------------------
Serve(r) ==
    \/ TargetNotFound(r)
    \/ LoadForApprove(r)
    \/ LoadForReject(r)
    \/ CountApproved(r)
    \/ LoadForSetRole(r)
    \/ Save(r)
    \/ LockGuard(r)
    \/ CheckOtherSystemAdmin(r)
    \/ GuardedSave(r)
    \/ InsertAdmin(r)

Arrive(r) ==
    \/ \E op, target \in Admins :
         \E kind \in Operations \cap {"approve", "reject"} :
           Authorize(r, op, kind, target, "")
    \/ \E op, target \in Admins, role \in AssignableRoles :
         "setRole" \in Operations /\ Authorize(r, op, "setRole", target, role)
    \/ \E a \in Admins, profileChanged \in BOOLEAN :
         "signIn" \in Operations /\ SignIn(r, a, profileChanged)

\* The history variables.
RecordHistory ==
    /\ trusted' = trusted
         \cup {a \in Admins : IsApproved(a) /\ Allowed(admin[a].role)}
    /\ overtaken' = {r \in Requests :
         /\ req'[r].doc # None
         /\ \/ r \in overtaken
            \/ /\ req[r].doc # None
               /\ admin'[req[r].target] # admin[req[r].target]}

Next == /\ \/ \E r \in Requests : Arrive(r) \/ Serve(r) \/ RepoError(r)
           \/ ExpireGuard
        /\ RecordHistory

Spec == Init /\ [][Next]_vars

\* A request that was accepted keeps running: Go schedules its goroutine.
\* Nothing is assumed of a lock that was left behind.
FairSpec == Spec /\ \A r \in Requests : WF_vars(Serve(r) /\ RecordHistory)

-----------------------------------------------------------------------------
TypeOK ==
    /\ admin \in [Admins -> AdminUser \cup {None}]
    /\ req \in [Requests -> Request]
    /\ guard \in Requests \cup {None, Left}
    /\ trusted \subseteq Admins
    /\ overtaken \subseteq Requests

\* An account that can use the console has a role the permission check knows:
\* no interleaving of sign-in, approval and role assignment saves a copy that
\* is approved and still role-less (such an admin would get 403 everywhere).
ApprovedHasRole ==
    \A a \in Approved : admin[a].role # ""

\* The recorded approver is another account, and one that did pass the
\* permission check: stale copies never put a made-up approver in the audit.
ApproverWasTrusted ==
    \A a \in Admins :
      Exists(a) /\ admin[a].approvedBy # None
        => admin[a].approvedBy # a /\ admin[a].approvedBy \in trusted

\* What holds of every stored record and of every copy in flight: the
\* inductive invariant behind ApprovedHasRole and ApproverWasTrusted.
SoundRecord(u, a, who) ==
    /\ u.status = "approved" => u.role # ""
    /\ u.approvedBy # None => u.approvedBy # a /\ u.approvedBy \in who

SoundCopies ==
    /\ \A a \in Admins : Exists(a) => SoundRecord(admin[a], a, trusted)
    /\ \A r \in Requests :
         /\ req[r].doc # None => SoundRecord(req[r].doc, req[r].target, trusted)
         /\ req[r].kind = "setRole" => req[r].role # ""
         /\ req[r].kind = "approve"
              => req[r].op # req[r].target /\ req[r].op \in trusted

\* The rule of docs/usecase/admin-role.md: once there is a system_admin, no
\* request may leave the console without any.
SystemAdminRemains == Seeded # {} => SystemAdmins # {}

\* The write request r is about to make keeps a system_admin.
LeavesSystemAdmin(r) ==
    LET t == req[r].target IN
    \/ t \notin SystemAdmins
    \/ req[r].doc.status = "approved" /\ req[r].doc.role = "system_admin"
    \/ SystemAdmins \ {t} # {}

\* The inductive invariant behind SystemAdminRemains when requests are served
\* one at a time: the operator is still a system_admin when its write lands.
SerialInv ==
    /\ SystemAdmins # {}
    /\ \A r \in Requests :
         /\ req[r].pc \in {"authorized", "counting"} =>
              /\ req[r].op \in SystemAdmins
              /\ req[r].kind \in {"approve", "reject"} \/ req[r].pc = "counting"
                   => req[r].op # req[r].target
              /\ req[r].kind # "signIn"
         /\ req[r].pc \in {"saving", "guardedSave"} => LeavesSystemAdmin(r)

\* The inductive invariant behind SystemAdminRemains when concurrent requests
\* only demote: the guard serialises the writes that remove a system_admin.
DemotionInv ==
    /\ SystemAdmins # {}
    /\ \A r \in Requests :
         /\ req[r].pc \in {"checking", "guardedSave"} <=> guard = r
         /\ req[r].pc \notin {"counting", "inserting"}
         /\ req[r].pc # "idle" => req[r].kind = "setRole" /\ req[r].role = "viewer"
         /\ req[r].pc \notin {"idle", "authorized"} => req[r].doc.role = "viewer"
         /\ req[r].pc = "saving" => req[r].target \notin SystemAdmins
         /\ req[r].pc = "guardedSave" => SystemAdmins \ {req[r].target} # {}

\* Revocation sticks: a rejected account is approved again only by an approval,
\* by the sign-in of a bootstrap account, or by a save that carries a copy from
\* before the rejection.  A role change or profile refresh that loaded the
\* rejected record never revives it, whatever runs at the same time.
RevocationSticks ==
    [][\A a \in Admins :
         (Exists(a) /\ admin[a].status = "rejected" /\ IsApproved(a)')
           => \E r \in Requests :
                /\ req[r].pc \in {"saving", "guardedSave"}
                /\ req[r].target = a
                /\ \/ req[r].kind = "approve"
                   \/ req[r].kind = "signIn" /\ a \in Bootstrap
                   \/ r \in overtaken]_vars

\* Every request comes to its end, also when the guard's lock was left behind
\* and is never free again: demotions then fail, they do not hang.
RequestsEnd == \A r \in Requests : req[r].pc # "idle" ~> req[r].pc = "idle"
=============================================================================
