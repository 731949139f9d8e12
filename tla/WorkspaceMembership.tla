------------------------ MODULE WorkspaceMembership ------------------------
(***************************************************************************)
(* Members of workspaces and the workspace roles of permittables: the      *)
(* workspace interactor of server/internal/usecase/interactor/workspace.go *)
(* over a database with transactions.                                      *)
(*                                                                         *)
(* A request carries an operator built from the memberships as they were   *)
(* when it was authenticated; its use case then runs in one transaction:   *)
(* the workspace is loaded, checked and changed in memory, the permittables*)
(* of the users concerned are read and saved, the workspace is saved.      *)
(***************************************************************************)
EXTENDS Naturals, Sequences

CONSTANTS
    Users,
    Workspaces,
    Integrations,      \* external programs that can be members
    Personal,          \* the personal ones among Workspaces
    Seeded,            \* [Workspaces -> workspace record or None] at the start
    Trusted,           \* users whose permittable has maintainer or owner as a
                       \* global role
    Requests,          \* requests in flight at a time
    Calls,             \* bound: the use cases that are called, with arguments
    CerbosConfigured,  \* TRUE: permissions are asked of Cerbos
    Transactions,      \* "snapshot" (MongoDB) or "readCommitted" (PostgreSQL)
    None

Roles == {"owner", "maintainer", "writer", "reader"}

Operations == {"create", "update", "addMember", "removeMembers",
               "updateMember", "updateViaService", "transfer", "remove",
               "deactivate", "restore", "addIntegration",
               "updateIntegration", "removeIntegrations"}

Workspace == [members : [Users -> Roles \cup {None}],
              integrations : [Integrations -> Roles \cup {None}],
              deleted : BOOLEAN]

\* Permittable.workspaceRoles of a user.
WorkspaceRoles == [Workspaces -> Roles \cup {None}]

ASSUME MembershipAssumption ==
    /\ Personal \subseteq Workspaces
    /\ Trusted \subseteq Users
    /\ None \notin Roles /\ None \notin Workspace /\ None \notin WorkspaceRoles
    /\ None \notin Calls
    /\ Seeded \in [Workspaces -> Workspace \cup {None}]
    /\ CerbosConfigured \in BOOLEAN
    /\ Transactions \in {"snapshot", "readCommitted"}

ASSUME CallsAssumption ==
    \A c \in Calls : /\ c.op \in Operations
                     /\ c.caller \in Users
                     /\ c.ws \in Workspaces
                     /\ c.targets \in Seq(Users)
                     /\ c.integrations \subseteq Integrations
                     /\ c.role \in Roles
                     /\ c.op \in {"updateMember", "updateViaService", "transfer"}
                        => c.targets # <<>>

VARIABLES
    ws,    \* workspace documents
    perm,  \* permittable documents: the workspace roles of each user, who has
           \* one from the start, as Signup, SignupOIDC and SyncSSOUser save it
    req    \* what each request knows and has done

vars == <<ws, perm, req>>

NoRows == [u \in Users |-> None]

\* call, role: the use case and the operator's role in its workspace.
\* after, touched: the changed copy of the workspace (None: to be removed) and
\* the users whose permittables follow.  rows: permittables saved by the
\* transaction.  stale: another transaction has written the same documents.
Idle == [pc |-> "idle", call |-> None, role |-> None, after |-> None,
         touched |-> {}, rows |-> NoRows, stale |-> FALSE]

SeededRole(u, w) == IF Seeded[w] = None THEN None ELSE Seeded[w].members[u]

Init ==
    /\ ws = Seeded
    /\ perm = [u \in Users |-> [w \in Workspaces |-> SeededRole(u, w)]]
    /\ req = [r \in Requests |-> Idle]

-----------------------------------------------------------------------------
\* Roles, as ordered by RoleType.Includes.
Rank == [owner |-> 4, maintainer |-> 3, writer |-> 2, reader |-> 1]

Includes(r, s) == r # None /\ Rank[r] >= Rank[s]

UserRole(w, u) == IF ws[w] = None THEN None ELSE ws[w].members[u]

IsOnlyOwner(m, u) == \A v \in Users : m[v] = "owner" <=> v = u

\* Operator: IsWritableWorkspace and the like, from the operator's role.
IsWritable(role) == role \in {"writer", "maintainer", "owner"}
IsMaintaining(role) == role \in {"maintainer", "owner"}
IsOwning(role) == role = "owner"

\* Cerbos grants edit and add_, edit_ and delete_member to the maintainers and
\* owners that the caller's permittable names, for the workspace or globally.
CerbosAllows(c) ==
    c.caller \in Trusted \/ perm[c.caller][c.ws] \in {"maintainer", "owner"}

CheckOwnerLike(r) ==
    IF CerbosConfigured THEN CerbosAllows(req[r].call) ELSE IsOwning(req[r].role)

-----------------------------------------------------------------------------
\* A request is authenticated: generateUserOperator reads the memberships.
Arrive(r, c) ==
    /\ req[r].pc = "idle"
    /\ req' = [req EXCEPT ![r] = [Idle EXCEPT !.pc = "arrived", !.call = c,
                                  !.role = UserRole(c.ws, c.caller)]]
    /\ UNCHANGED <<ws, perm>>

\* The transaction has read what it needs; the use case goes on with a copy.
Proceed(r, after, touched) ==
    /\ req' = [req EXCEPT ![r].pc = "loaded", ![r].after = after,
                          ![r].touched = touched]
    /\ UNCHANGED <<ws, perm>>

\* Every use case on a shared workspace begins like this; IsPersonal refuses.
Loads(r, op) ==
    /\ req[r].pc = "arrived"
    /\ req[r].call.op = op
    /\ ws[req[r].call.ws] # None
    /\ req[r].call.ws \notin Personal

\* Mutant: the members are built anew, without the integrations.
WithUsersOnly(r, m) == [ws[req[r].call.ws] EXCEPT
                          !.members = m,
                          !.integrations = [i \in Integrations |-> None]]

\* The loaded workspace with other members.
WithMembers(r, m) == [ws[req[r].call.ws] EXCEPT !.members = m]

InTransaction(r) == req[r].pc \in {"loaded", "saving"}

\* Create: the targets are the first user, or nobody with skipOwnerMembership.
\* The id is new.
Create(r) ==
    LET c == req[r].call
        first == {c.targets[i] : i \in DOMAIN c.targets}
    IN
    /\ req[r].pc = "arrived"
    /\ c.op = "create"
    /\ ws[c.ws] = None
    /\ \A s \in Requests : InTransaction(s) => req[s].call.ws # c.ws
    /\ Proceed(r,
               [members |-> [u \in Users |-> IF u \in first THEN "owner" ELSE None],
                integrations |-> [i \in Integrations |-> None],
                deleted |-> FALSE],
               first)

\* Update: name, alias and metadata, which the copy does not show.
Update(r) ==
    LET c == req[r].call IN
    /\ Loads(r, "update")
    /\ IF CerbosConfigured THEN CerbosAllows(c)
                           ELSE IsOwning(UserRole(c.ws, c.caller))
    /\ Proceed(r, ws[c.ws], {})

\* AddUserMember: Join for every target.
AddUserMember(r) ==
    LET c == req[r].call
        joined == {c.targets[i] : i \in DOMAIN c.targets}
    IN
    /\ Loads(r, "addMember")
    /\ c.role # "owner"
    /\ IsWritable(req[r].role) \/ CheckOwnerLike(r)
    /\ \A u \in joined : UserRole(c.ws, u) = None
    /\ Proceed(r,
               WithMembers(r, [u \in Users |-> IF u \in joined
                                                 THEN c.role
                                                 ELSE UserRole(c.ws, u)]),
               joined)

\* Mutant: nobody is kept from leaving.
LeavesFreely(r) == FALSE

\* The caller would leave as the last owner: the targets leave in their order,
\* and only the caller's own turn is checked.
LeavesAsOnlyOwner(r) ==
    LET c == req[r].call IN
    \E i \in DOMAIN c.targets :
        /\ c.targets[i] = c.caller
        /\ UserRole(c.ws, c.caller) = "owner"
        /\ \A v \in Users \ {c.caller} : UserRole(c.ws, v) = "owner" =>
             \E j \in DOMAIN c.targets : j < i /\ c.targets[j] = v

\* RemoveUserMember and RemoveMultipleUserMembers.
RemoveUserMembers(r) ==
    LET c == req[r].call
        left == {c.targets[i] : i \in DOMAIN c.targets}
    IN
    /\ Loads(r, "removeMembers")
    /\ c.targets # <<>>
    /\ IsWritable(req[r].role) \/ CheckOwnerLike(r)
    /\ ~LeavesAsOnlyOwner(r)
    /\ \A i, j \in DOMAIN c.targets : c.targets[i] = c.targets[j] => i = j
    /\ \A u \in left : UserRole(c.ws, u) # None
    /\ Proceed(r,
               WithMembers(r, [u \in Users |-> IF u \in left
                                                 THEN None
                                                 ELSE UserRole(c.ws, u)]),
               left)

\* The change that Members.UpdateUserRole and updatePermittable make.
ChangeRole(r, u, role) ==
    /\ UserRole(req[r].call.ws, u) # None
    /\ Proceed(r,
               WithMembers(r, [ws[req[r].call.ws].members EXCEPT ![u] = role]),
               {u})

\* Mutant: the role owner is not refused.
UpdateToOwner(r) ==
    LET c == req[r].call
        u == c.targets[1]
        current == UserRole(c.ws, u)
    IN
    /\ Loads(r, "updateMember")
    /\ (current # "owner" /\ IsWritable(req[r].role)) \/ CheckOwnerLike(r)
    /\ u = c.caller => Includes(current, c.role) /\ current # "owner"
    /\ ChangeRole(r, u, c.role)

\* Mutant: no guard on the caller's own role.
UpdateOwnRoleFreely(r) ==
    LET c == req[r].call
        u == c.targets[1]
        current == UserRole(c.ws, u)
    IN
    /\ Loads(r, "updateMember")
    /\ c.role # "owner"
    /\ (current # "owner" /\ IsWritable(req[r].role)) \/ CheckOwnerLike(r)
    /\ ChangeRole(r, u, c.role)

UpdateUserMember(r) ==
    LET c == req[r].call
        u == c.targets[1]
        current == UserRole(c.ws, u)
    IN
    /\ Loads(r, "updateMember")
    /\ c.role # "owner"
    /\ (current # "owner" /\ IsWritable(req[r].role)) \/ CheckOwnerLike(r)
    /\ u = c.caller => Includes(current, c.role) /\ current # "owner"
    /\ ChangeRole(r, u, c.role)

\* Mutant: the only owner is not spared.
ViaServiceOnAnyone(r) ==
    LET c == req[r].call
        u == c.targets[1]
    IN
    /\ Loads(r, "updateViaService")
    /\ c.role # "owner"
    /\ IsMaintaining(req[r].role) \/ CheckOwnerLike(r)
    /\ ChangeRole(r, u, c.role)

UpdateUserMemberViaService(r) ==
    LET c == req[r].call
        u == c.targets[1]
    IN
    /\ Loads(r, "updateViaService")
    /\ c.role # "owner"
    /\ ~IsOnlyOwner(ws[c.ws].members, u)
    /\ IsMaintaining(req[r].role) \/ CheckOwnerLike(r)
    /\ ChangeRole(r, u, c.role)

\* TransferOwnership: the target becomes owner, then the caller maintainer.
TransferOwnership(r) ==
    LET c == req[r].call
        u == c.targets[1]
        m == ws[c.ws].members
    IN
    /\ Loads(r, "transfer")
    /\ IsOwning(req[r].role)
    /\ m[u] \notin {None, "reader"}
    /\ m[c.caller] # None
    /\ Proceed(r,
               WithMembers(r, [m EXCEPT ![u] = "owner", ![c.caller] = "maintainer"]),
               {u, c.caller})

Remove(r) ==
    LET c == req[r].call IN
    /\ Loads(r, "remove")
    /\ IsOwning(req[r].role)
    /\ Proceed(r, None, {u \in Users : UserRole(c.ws, u) # None})

Deactivate(r) ==
    /\ Loads(r, "deactivate")
    /\ CheckOwnerLike(r)
    /\ Proceed(r, [ws[req[r].call.ws] EXCEPT !.deleted = TRUE], {})

Restore(r) ==
    /\ Loads(r, "restore")
    /\ CheckOwnerLike(r)
    /\ Proceed(r, [ws[req[r].call.ws] EXCEPT !.deleted = FALSE], {})

\* The use cases on integrations: the operator must own the workspace, which may
\* be a personal one.  No permittable follows.
LoadsOwned(r, op) ==
    /\ req[r].pc = "arrived"
    /\ req[r].call.op = op
    /\ ws[req[r].call.ws] # None
    /\ IsOwning(req[r].role)

WithIntegrations(r, f) == [ws[req[r].call.ws] EXCEPT !.integrations = f]

\* AddIntegrationMember: unlike a user's, the role may be owner.
AddIntegrationMember(r) ==
    LET c == req[r].call
        held == ws[c.ws].integrations
    IN
    /\ LoadsOwned(r, "addIntegration")
    /\ \E i \in Integrations :
         /\ c.integrations = {i}
         /\ held[i] = None
         /\ Proceed(r, WithIntegrations(r, [held EXCEPT ![i] = c.role]), {})

UpdateIntegration(r) ==
    LET c == req[r].call
        held == ws[c.ws].integrations
    IN
    /\ LoadsOwned(r, "updateIntegration")
    /\ \E i \in Integrations :
         /\ c.integrations = {i}
         /\ held[i] # None
         /\ Proceed(r, WithIntegrations(r, [held EXCEPT ![i] = c.role]), {})

\* RemoveIntegration and RemoveIntegrations: all of them, or an error.
RemoveIntegrations(r) ==
    LET c == req[r].call
        held == ws[c.ws].integrations
    IN
    /\ LoadsOwned(r, "removeIntegrations")
    /\ c.integrations # {}
    /\ \A i \in c.integrations : held[i] # None
    /\ Proceed(r,
               WithIntegrations(r, [i \in Integrations |->
                                      IF i \in c.integrations THEN None
                                                              ELSE held[i]]),
               {})

-----------------------------------------------------------------------------
RoleAfter(r, u) ==
    IF req[r].after = None THEN None ELSE req[r].after.members[u]

\* updatePermittable, bulkUpdatePermittable and bulkRemovePermittable: each
\* permittable is read, changed for this workspace and saved as a whole.  A
\* removal saves only the permittables that name the workspace.
Row(r, u) ==
    LET w == req[r].call.ws IN
    IF u \in req[r].touched /\ (RoleAfter(r, u) # None \/ perm[u][w] # None)
      THEN [perm[u] EXCEPT ![w] = RoleAfter(r, u)]
      ELSE None

SavePermittables(r) ==
    /\ req[r].pc = "loaded"
    /\ req' = [req EXCEPT ![r].pc = "saving",
                          ![r].rows = [u \in Users |-> Row(r, u)]]
    /\ UNCHANGED <<ws, perm>>

\* Transaction s is going to write a document that r writes.
Conflicts(r, s) ==
    /\ InTransaction(s)
    /\ \/ req[s].call.ws = req[r].call.ws
       \/ \E u \in req[s].touched : req[r].rows[u] # None

\* Mutant: a lost write conflict does not stop the commit.
CommitStale(r) ==
    /\ req[r].pc = "saving"
    /\ ws' = [ws EXCEPT ![req[r].call.ws] = req[r].after]
    /\ perm' = [u \in Users |-> IF req[r].rows[u] = None THEN perm[u]
                                                         ELSE req[r].rows[u]]
    /\ req' = [req EXCEPT ![r] = Idle]

\* The workspace is saved and the transaction commits.  A snapshot transaction
\* that lost a write conflict cannot; a read-committed one overwrites.
Commit(r) ==
    /\ req[r].pc = "saving"
    /\ Transactions = "snapshot" => ~req[r].stale
    /\ ws' = [ws EXCEPT ![req[r].call.ws] = req[r].after]
    /\ perm' = [u \in Users |-> IF req[r].rows[u] = None THEN perm[u]
                                                         ELSE req[r].rows[u]]
    /\ req' = [s \in Requests |->
                 IF s = r THEN Idle
                 ELSE [req[s] EXCEPT !.stale = @ \/ Conflicts(r, s)]]

\* Any check or database call fails: nothing of the transaction remains.
Abort(r) ==
    /\ req[r].pc # "idle"
    /\ req' = [req EXCEPT ![r] = Idle]
    /\ UNCHANGED <<ws, perm>>

UseCase(r) ==
    \/ Create(r) \/ Update(r) \/ AddUserMember(r) \/ RemoveUserMembers(r)
    \/ UpdateUserMember(r) \/ UpdateUserMemberViaService(r)
    \/ TransferOwnership(r) \/ Remove(r) \/ Deactivate(r) \/ Restore(r)
    \/ AddIntegrationMember(r) \/ UpdateIntegration(r) \/ RemoveIntegrations(r)

Next ==
    \E r \in Requests :
        \/ \E c \in Calls : Arrive(r, c)
        \/ UseCase(r)
        \/ SavePermittables(r)
        \/ Commit(r)
        \/ Abort(r)

Spec == Init /\ [][Next]_vars

-----------------------------------------------------------------------------
Request == [pc : {"idle", "arrived", "loaded", "saving"},
            call : Calls \cup {None},
            role : Roles \cup {None},
            after : Workspace \cup {None},
            touched : SUBSET Users,
            rows : [Users -> WorkspaceRoles \cup {None}],
            stale : BOOLEAN]

\* Types; a request past "idle" has a call.
TypeOK ==
    /\ ws \in [Workspaces -> Workspace \cup {None}]
    /\ perm \in [Users -> WorkspaceRoles]
    /\ req \in [Requests -> Request]
    /\ \A r \in Requests : req[r].pc # "idle" => req[r].call # None

\* The two records of a membership agree: what Cerbos is told of a user
\* (permittable) is what the workspace's member list says, for every user and
\* workspace, members who left and workspaces that were removed included.
RolesAgree ==
    \A u \in Users, w \in Workspaces : perm[u][w] = UserRole(w, u)

\* Why it stays so under snapshot transactions: as long as nobody has written
\* what r writes, r's copy differs from the database for the touched users
\* only, and the rows it saved are still the right ones.
Tracked(r) ==
    LET w == req[r].call.ws IN
    InTransaction(r) /\ ~req[r].stale =>
        /\ \A u \in Users \ req[r].touched : RoleAfter(r, u) = UserRole(w, u)
        /\ req[r].pc = "saving" => \A u \in Users : req[r].rows[u] = Row(r, u)

AgreeInv == TypeOK /\ RolesAgree /\ \A r \in Requests : Tracked(r)

HasOwner(w) == \E u \in Users : UserRole(w, u) = "owner"

\* A workspace that has an owner keeps one until it is removed.
OwnerKept ==
    [][\A w \in Workspaces :
         HasOwner(w) => HasOwner(w)' \/ ws'[w] = None]_vars

\* A step changes the members or the integrations of a workspace, never both:
\* although each use case saves the whole workspace, none undoes what another
\* has done to the other part meanwhile.
OtherPartKept ==
    [][\A w \in Workspaces :
         ws[w] # None /\ ws'[w] # None =>
           \/ ws'[w].members = ws[w].members
           \/ ws'[w].integrations = ws[w].integrations]_vars

\* Under snapshot transactions the requests that overlap do what they would do
\* if they were served one at a time: a commit is the use case on the workspace
\* as it is stored then, and the permittables change with it.
Serial == INSTANCE Memberships

ServedOneByOne == Serial!Spec

Committing(r) == req[r].pc = "saving" /\ req'[r].pc = "idle"

\* A user becomes an owner of an existing workspace only as the target of
\* TransferOwnership.
OnlyTransferGrantsOwner ==
    [][\A w \in Workspaces, u \in Users :
         /\ ws[w] # None /\ ws'[w] # None
         /\ ws[w].members[u] # "owner" /\ ws'[w].members[u] = "owner"
         => \E r \in Requests :
              /\ Committing(r)
              /\ req[r].call.op = "transfer" /\ req[r].call.ws = w
              /\ req[r].call.targets[1] = u]_vars

\* No request of a member raises the member's own role, but for the service
\* route (UpdateUserMemberViaService) and a transfer of ownership.
NoSelfPromotion ==
    [][\A w \in Workspaces, u \in Users, r \in Requests :
         /\ Committing(r)
         /\ req[r].call.caller = u /\ req[r].call.ws = w
         /\ req[r].call.op \notin {"updateViaService", "transfer"}
         /\ UserRole(w, u) # None /\ UserRole(w, u)' # None
         => Includes(UserRole(w, u), UserRole(w, u)')]_vars

\* An owner who leaves by RemoveUserMember (one target) leaves another owner
\* behind, whoever else is changing the members at the time.
LastOwnerStays ==
    [][\A w \in Workspaces, u \in Users, r \in Requests :
         /\ Committing(r)
         /\ req[r].call.op = "removeMembers" /\ req[r].call.ws = w
         /\ req[r].call.caller = u /\ req[r].call.targets = <<u>>
         /\ UserRole(w, u) = "owner" /\ UserRole(w, u)' = None
         => HasOwner(w)']_vars
=============================================================================
