--------------------- MODULE WorkspaceMembership_proofs ---------------------
(***************************************************************************)
(* Proofs about WorkspaceMembership: types; and, when transactions are     *)
(* snapshots, the agreement of the members of a workspace with their       *)
(* permittables, what may happen to owners, and that overlapping calls do  *)
(* what Memberships does one call at a time; for any users, workspaces,    *)
(* requests and calls.                                                     *)
(***************************************************************************)
EXTENDS WorkspaceMembership, TLAPS

\* A request that has arrived has one of the calls.
LEMMA CallOf ==
    ASSUME TypeOK, NEW r \in Requests, req[r].pc # "idle"
    PROVE  /\ req[r] \in Request
           /\ req[r].call \in Calls
           /\ req[r].call.ws \in Workspaces
           /\ req[r].call.caller \in Users
           /\ req[r].call.role \in Roles
           /\ req[r].call.targets \in Seq(Users)
           /\ \A i \in DOMAIN req[r].call.targets : req[r].call.targets[i] \in Users
<1>1. req[r] \in Request /\ req[r].call \in Calls
  BY DEF TypeOK, Request
<1>2. req[r].call.targets \in Seq(Users)
  BY <1>1, CallsAssumption
<1>3. \A i \in DOMAIN req[r].call.targets : req[r].call.targets[i] \in Users
  BY <1>2
<1> QED BY <1>1, <1>2, <1>3, CallsAssumption

LEMMA UserRoleType ==
    ASSUME TypeOK, NEW w \in Workspaces, NEW u \in Users
    PROVE  UserRole(w, u) \in Roles \cup {None}
BY DEF TypeOK, UserRole, Workspace

\* Changing the members of a workspace yields a workspace.
LEMMA WithMembersType ==
    ASSUME TypeOK, NEW r \in Requests, req[r].pc # "idle",
           ws[req[r].call.ws] # None,
           NEW m \in [Users -> Roles \cup {None}]
    PROVE  /\ WithMembers(r, m) \in Workspace
           /\ WithMembers(r, m).members = m
<1> DEFINE x == ws[req[r].call.ws]
<1>1. x \in Workspace
  BY CallOf DEF TypeOK
<1> HIDE DEF x
<1>2. [x EXCEPT !.members = m] \in Workspace
      /\ [x EXCEPT !.members = m].members = m
  BY <1>1 DEF Workspace
<1> QED BY <1>2 DEF x, WithMembers

\* What every use case hands over: a workspace or None, in which only touched
\* users have another role than in the database.
Handover(r, after, touched) ==
    /\ req[r].pc = "arrived"
    /\ after \in Workspace \cup {None}
    /\ touched \subseteq Users
    /\ \A u \in Users \ touched :
         (IF after = None THEN None ELSE after.members[u])
           = UserRole(req[r].call.ws, u)
    /\ Proceed(r, after, touched)

\* A use case that only changes members hands over.
LEMMA MembersHandedOver ==
    ASSUME TypeOK, NEW r \in Requests, req[r].pc = "arrived",
           ws[req[r].call.ws] # None,
           NEW m \in [Users -> Roles \cup {None}],
           NEW touched \in SUBSET Users,
           \A u \in Users \ touched : m[u] = UserRole(req[r].call.ws, u),
           Proceed(r, WithMembers(r, m), touched)
    PROVE  \E after, t : Handover(r, after, t)
<1>1. /\ WithMembers(r, m) \in Workspace
      /\ WithMembers(r, m).members = m
  BY WithMembersType
<1>2. WithMembers(r, m) # None
  BY <1>1, MembershipAssumption
<1>3. Handover(r, WithMembers(r, m), touched)
  BY <1>1, <1>2 DEF Handover
<1> QED BY <1>3

LEMMA MembersOf ==
    ASSUME TypeOK, NEW w \in Workspaces, ws[w] # None
    PROVE  /\ ws[w] \in Workspace
           /\ ws[w].members \in [Users -> Roles \cup {None}]
           /\ \A u \in Users : ws[w].members[u] = UserRole(w, u)
BY DEF TypeOK, Workspace, UserRole

ChangesIntegrations(r) ==
    AddIntegrationMember(r) \/ UpdateIntegration(r) \/ RemoveIntegrations(r)

LEMMA IntegrationsChanged ==
    ASSUME TypeOK, NEW r \in Requests, ChangesIntegrations(r)
    PROVE  /\ ws[req[r].call.ws] # None
           /\ req[r].call.op
                \in {"addIntegration", "updateIntegration", "removeIntegrations"}
           /\ \E f \in [Integrations -> Roles \cup {None}] :
                Proceed(r, WithIntegrations(r, f), {})
<1> DEFINE c == req[r].call
           held == ws[c.ws].integrations
<1>1. /\ req[r].pc = "arrived" /\ ws[c.ws] # None
      /\ c.op \in {"addIntegration", "updateIntegration", "removeIntegrations"}
  BY DEF ChangesIntegrations, AddIntegrationMember, UpdateIntegration,
         RemoveIntegrations, LoadsOwned
<1>2. c.role \in Roles /\ ws[c.ws] \in Workspace
  BY <1>1, CallOf, MembersOf
<1>3. held \in [Integrations -> Roles \cup {None}]
  BY <1>2 DEF Workspace
<1>4. CASE AddIntegrationMember(r) \/ UpdateIntegration(r)
  <2>1. PICK i \in Integrations :
          Proceed(r, WithIntegrations(r, [held EXCEPT ![i] = c.role]), {})
    BY <1>4 DEF AddIntegrationMember, UpdateIntegration
  <2> HIDE DEF held
  <2>2. [held EXCEPT ![i] = c.role] \in [Integrations -> Roles \cup {None}]
    BY <1>2, <1>3
  <2> QED BY <1>1, <2>1, <2>2
<1>5. CASE RemoveIntegrations(r)
  <2> DEFINE f == [i \in Integrations |-> IF i \in c.integrations THEN None
                                                                 ELSE held[i]]
  <2>1. Proceed(r, WithIntegrations(r, f), {})
    BY <1>5 DEF RemoveIntegrations
  <2> HIDE DEF held
  <2>2. f \in [Integrations -> Roles \cup {None}]
    BY <1>3
  <2> HIDE DEF f
  <2> QED BY <1>1, <2>1, <2>2
<1> QED BY <1>4, <1>5 DEF ChangesIntegrations

\* A use case that only changes integrations hands over.
LEMMA IntegrationsHandedOver ==
    ASSUME TypeOK, NEW r \in Requests, req[r].pc = "arrived",
           ws[req[r].call.ws] # None,
           NEW f \in [Integrations -> Roles \cup {None}],
           Proceed(r, WithIntegrations(r, f), {})
    PROVE  \E after, t : Handover(r, after, t)
<1> DEFINE x == ws[req[r].call.ws]
           y == [x EXCEPT !.integrations = f]
<1>1. x \in Workspace /\ \A u \in Users : x.members[u] = UserRole(req[r].call.ws, u)
  BY CallOf, MembersOf
<1>2. Proceed(r, y, {})
  BY DEF WithIntegrations
<1> HIDE DEF x
<1>3. y \in Workspace /\ y.members = x.members
  BY <1>1 DEF Workspace
<1>4. y # None
  BY <1>3, MembershipAssumption
<1> HIDE DEF y
<1>5. Handover(r, y, {})
  BY <1>1, <1>2, <1>3, <1>4 DEF Handover
<1> QED BY <1>5

LEMMA RoleChanged ==
    ASSUME TypeOK, NEW r \in Requests, req[r].pc = "arrived",
           ws[req[r].call.ws] # None,
           NEW u \in Users, NEW role \in Roles, ChangeRole(r, u, role)
    PROVE  \E after, t : Handover(r, after, t)
<1> DEFINE m == ws[req[r].call.ws].members
           n == [m EXCEPT ![u] = role]
<1>1. m \in [Users -> Roles \cup {None}]
      /\ \A v \in Users : m[v] = UserRole(req[r].call.ws, v)
  BY CallOf, MembersOf
<1>2. Proceed(r, WithMembers(r, n), {u})
  BY DEF ChangeRole
<1> HIDE DEF m
<1>3. n \in [Users -> Roles \cup {None}]
      /\ \A v \in Users \ {u} : n[v] = m[v]
  BY <1>1
<1>4. \A v \in Users \ {u} : n[v] = UserRole(req[r].call.ws, v)
  BY <1>1, <1>3
<1> HIDE DEF n
<1> QED BY <1>2, <1>3, <1>4, MembersHandedOver

-----------------------------------------------------------------------------
LEMMA UseCaseHandsOver ==
    ASSUME TypeOK, NEW r \in Requests, UseCase(r)
    PROVE  \E after, t : Handover(r, after, t)
<1> DEFINE c == req[r].call
           w == req[r].call.ws
           targets == {c.targets[i] : i \in DOMAIN c.targets}
<1>0. req[r].pc = "arrived"
  BY DEF UseCase, Create, Update, AddUserMember, RemoveUserMembers,
         UpdateUserMember, UpdateUserMemberViaService, TransferOwnership,
         Remove, Deactivate, Restore, Loads, AddIntegrationMember,
         UpdateIntegration, RemoveIntegrations, LoadsOwned
<1>1. /\ c \in Calls /\ w \in Workspaces /\ c.caller \in Users
      /\ c.role \in Roles
      /\ \A i \in DOMAIN c.targets : c.targets[i] \in Users
  BY <1>0, CallOf
<1>2. targets \subseteq Users
  BY <1>1
<1>3. ASSUME ws[w] # None
      PROVE  /\ ws[w] \in Workspace
             /\ ws[w].members \in [Users -> Roles \cup {None}]
             /\ \A u \in Users : ws[w].members[u] = UserRole(w, u)
  BY <1>1, <1>3, MembersOf
<1>4. \A u \in Users : UserRole(w, u) \in Roles \cup {None}
  BY <1>1, UserRoleType
<1>5. ASSUME c.op \in {"updateMember", "updateViaService", "transfer"}
      PROVE  c.targets[1] \in Users
  <2>1. c.targets # <<>> /\ c.targets \in Seq(Users)
    BY <1>1, <1>5, CallsAssumption
  <2> QED BY <2>1
<1>6. CASE Create(r)
  <2> DEFINE x == [members |-> [u \in Users |-> IF u \in targets
                                                  THEN "owner" ELSE None],
                   integrations |-> [i \in Integrations |-> None],
                   deleted |-> FALSE]
  <2>1. Proceed(r, x, targets) /\ ws[w] = None
    BY <1>6 DEF Create
  <2>2. x \in Workspace /\ \A u \in Users \ targets : x.members[u] = None
    BY DEF Workspace, Roles
  <2>3. x # None
    BY <2>2, MembershipAssumption
  <2>4. \A u \in Users : UserRole(w, u) = None
    BY <2>1 DEF UserRole
  <2> HIDE DEF x
  <2>5. Handover(r, x, targets)
    BY <1>0, <1>2, <2>1, <2>2, <2>3, <2>4 DEF Handover
  <2> QED BY <2>5
<1>7. CASE Update(r)
  <2>1. ws[w] # None /\ Proceed(r, ws[w], {})
    BY <1>7 DEF Update, Loads
  <2>2. Handover(r, ws[w], {})
    BY <1>0, <1>3, <2>1 DEF Handover
  <2> QED BY <2>2
<1>8. CASE AddUserMember(r)
  <2> DEFINE m == [u \in Users |-> IF u \in targets THEN c.role
                                                    ELSE UserRole(w, u)]
  <2>1. ws[w] # None /\ Proceed(r, WithMembers(r, m), targets)
    BY <1>8 DEF AddUserMember, Loads
  <2>2. m \in [Users -> Roles \cup {None}]
        /\ \A u \in Users \ targets : m[u] = UserRole(w, u)
    BY <1>1, <1>4
  <2> HIDE DEF m
  <2> QED BY <1>0, <1>2, <2>1, <2>2, MembersHandedOver
<1>9. CASE RemoveUserMembers(r)
  <2> DEFINE m == [u \in Users |-> IF u \in targets THEN None
                                                    ELSE UserRole(w, u)]
  <2>1. ws[w] # None /\ Proceed(r, WithMembers(r, m), targets)
    BY <1>9 DEF RemoveUserMembers, Loads
  <2>2. m \in [Users -> Roles \cup {None}]
        /\ \A u \in Users \ targets : m[u] = UserRole(w, u)
    BY <1>1, <1>4
  <2> HIDE DEF m
  <2> QED BY <1>0, <1>2, <2>1, <2>2, MembersHandedOver
<1>10. CASE UpdateUserMember(r)
  <2>1. c.op = "updateMember" /\ ws[w] # None
        /\ ChangeRole(r, c.targets[1], c.role)
    BY <1>10 DEF UpdateUserMember, Loads
  <2> QED BY <1>0, <1>1, <1>5, <2>1, RoleChanged
<1>11. CASE UpdateUserMemberViaService(r)
  <2>1. c.op = "updateViaService" /\ ws[w] # None
        /\ ChangeRole(r, c.targets[1], c.role)
    BY <1>11 DEF UpdateUserMemberViaService, Loads
  <2> QED BY <1>0, <1>1, <1>5, <2>1, RoleChanged
<1>12. CASE TransferOwnership(r)
  <2> DEFINE old == ws[w].members
             u == c.targets[1]
             m == [old EXCEPT ![u] = "owner", ![c.caller] = "maintainer"]
  <2>1. c.op = "transfer" /\ ws[w] # None
        /\ Proceed(r, WithMembers(r, m), {u, c.caller})
    BY <1>12 DEF TransferOwnership, Loads
  <2>2. u \in Users /\ c.caller \in Users
    BY <1>1, <1>5, <2>1
  <2>3. old \in [Users -> Roles \cup {None}]
        /\ \A v \in Users : old[v] = UserRole(w, v)
    BY <1>3, <2>1
  <2> HIDE DEF old, u
  <2>4. m \in [Users -> Roles \cup {None}]
        /\ \A v \in Users \ {u, c.caller} : m[v] = old[v]
    BY <2>2, <2>3 DEF Roles
  <2>5. \A v \in Users \ {u, c.caller} : m[v] = UserRole(w, v)
    BY <2>3, <2>4
  <2> HIDE DEF m
  <2> QED BY <1>0, <2>1, <2>2, <2>4, <2>5, MembersHandedOver
<1>13. CASE Remove(r)
  <2> DEFINE t == {u \in Users : UserRole(w, u) # None}
  <2>1. Proceed(r, None, t)
    BY <1>13 DEF Remove
  <2>2. Handover(r, None, t)
    BY <1>0, <2>1 DEF Handover
  <2> QED BY <2>2
<1>14. CASE Deactivate(r) \/ Restore(r)
  <2>1. PICK d \in BOOLEAN :
          ws[w] # None /\ Proceed(r, [ws[w] EXCEPT !.deleted = d], {})
    BY <1>14 DEF Deactivate, Restore, Loads
  <2> DEFINE old == ws[w]
             x == [old EXCEPT !.deleted = d]
  <2>2. old \in Workspace
    BY <1>3, <2>1
  <2>3. \A u \in Users : old.members[u] = UserRole(w, u)
    BY <1>3, <2>1
  <2>4. Proceed(r, x, {})
    BY <2>1
  <2> HIDE DEF old
  <2>5. x \in Workspace /\ x.members = old.members
    BY <2>2 DEF Workspace
  <2>6. x # None
    BY <2>5, MembershipAssumption
  <2> HIDE DEF x
  <2>7. Handover(r, x, {})
    BY <1>0, <2>3, <2>4, <2>5, <2>6 DEF Handover
  <2> QED BY <2>7
<1>15. CASE ChangesIntegrations(r)
  BY <1>0, <1>15, IntegrationsChanged, IntegrationsHandedOver
<1> QED BY <1>6, <1>7, <1>8, <1>9, <1>10, <1>11, <1>12, <1>13, <1>14, <1>15
        DEF UseCase, ChangesIntegrations

-----------------------------------------------------------------------------
LEMMA IdleType == Idle \in Request /\ Idle.pc = "idle" /\ NoRows \in [Users -> {None}]
BY DEF Idle, Request, NoRows

\* The row of a user is None or a permittable with one role changed.
LEMMA RowType ==
    ASSUME TypeOK, NEW r \in Requests, req[r].pc # "idle", NEW u \in Users
    PROVE  Row(r, u) \in WorkspaceRoles \cup {None}
<1>1. req[r] \in Request /\ req[r].call.ws \in Workspaces
  BY CallOf
<1>2. RoleAfter(r, u) \in Roles \cup {None}
  BY <1>1 DEF RoleAfter, Request, Workspace
<1>3. perm[u] \in [Workspaces -> Roles \cup {None}]
  BY DEF TypeOK, WorkspaceRoles
<1>4. [perm[u] EXCEPT ![req[r].call.ws] = RoleAfter(r, u)] \in WorkspaceRoles
  BY <1>1, <1>2, <1>3 DEF WorkspaceRoles
<1> QED BY <1>4 DEF Row

LEMMA TypeInit == Init => TypeOK
<1> SUFFICES ASSUME Init PROVE TypeOK
  OBVIOUS
<1>1. ws \in [Workspaces -> Workspace \cup {None}]
  BY MembershipAssumption DEF Init
<1>2. \A u \in Users, w \in Workspaces : SeededRole(u, w) \in Roles \cup {None}
  BY MembershipAssumption DEF SeededRole, Workspace
<1>3. perm \in [Users -> WorkspaceRoles]
  BY <1>2 DEF Init, WorkspaceRoles
<1> QED BY <1>1, <1>3, IdleType DEF Init, TypeOK

LEMMA TypeStep == TypeOK /\ [Next]_vars => TypeOK'
<1> SUFFICES ASSUME TypeOK, [Next]_vars PROVE TypeOK'
  OBVIOUS
<1>1. ASSUME NEW r \in Requests, NEW c \in Calls, Arrive(r, c)
      PROVE  TypeOK'
  <2>1. UserRole(c.ws, c.caller) \in Roles \cup {None}
    BY CallsAssumption, UserRoleType
  <2> DEFINE new == [Idle EXCEPT !.pc = "arrived", !.call = c,
                                 !.role = UserRole(c.ws, c.caller)]
  <2>2. new \in Request /\ new.call # None
    BY <2>1, IdleType, MembershipAssumption DEF Request, Idle
  <2>3. req' = [req EXCEPT ![r] = new] /\ UNCHANGED <<ws, perm>>
    BY <1>1 DEF Arrive
  <2> HIDE DEF new
  <2> QED BY <2>2, <2>3 DEF TypeOK
<1>2. ASSUME NEW r \in Requests, UseCase(r) PROVE TypeOK'
  <2>1. PICK after, t : Handover(r, after, t)
    BY <1>2, UseCaseHandsOver
  <2>2. req[r] \in Request /\ req[r].call # None
    BY <2>1 DEF Handover, TypeOK
  <2> DEFINE old == req[r]
             new == [old EXCEPT !.pc = "loaded", !.after = after, !.touched = t]
  <2> HIDE DEF old
  <2>3. new \in Request /\ new.call = old.call
    BY <2>1, <2>2 DEF Handover, Request, old
  <2>4. req' = [req EXCEPT ![r] = new] /\ UNCHANGED <<ws, perm>>
    BY <2>1 DEF Handover, Proceed, old
  <2> HIDE DEF new
  <2>5. new.call # None
    BY <2>2, <2>3 DEF old
  <2> QED BY <2>3, <2>4, <2>5 DEF TypeOK
<1>3. ASSUME NEW r \in Requests, SavePermittables(r) PROVE TypeOK'
  <2>1. req[r].pc = "loaded"
    BY <1>3 DEF SavePermittables
  <2>2. req[r] \in Request /\ req[r].call # None
    BY <2>1 DEF TypeOK
  <2> DEFINE rows == [u \in Users |-> Row(r, u)]
  <2>3. rows \in [Users -> WorkspaceRoles \cup {None}]
    BY <2>1, RowType
  <2>4. req' = [req EXCEPT ![r].pc = "saving", ![r].rows = rows]
        /\ UNCHANGED <<ws, perm>>
    BY <1>3 DEF SavePermittables
  <2> HIDE DEF rows
  <2> DEFINE old == req[r]
             new == [old EXCEPT !.pc = "saving", !.rows = rows]
  <2> HIDE DEF old
  <2>5. new \in Request /\ new.call = old.call
    BY <2>2, <2>3 DEF Request, old
  <2>6. req' = [req EXCEPT ![r] = new]
    BY <2>4 DEF old
  <2> HIDE DEF new
  <2>7. new.call # None
    BY <2>2, <2>5 DEF old
  <2> QED BY <2>4, <2>5, <2>6, <2>7 DEF TypeOK
<1>4. ASSUME NEW r \in Requests, Commit(r) PROVE TypeOK'
  <2>1. req[r].pc = "saving"
    BY <1>4 DEF Commit
  <2>2. req[r] \in Request /\ req[r].call.ws \in Workspaces
    BY <2>1, CallOf
  <2>3. ws' \in [Workspaces -> Workspace \cup {None}]
    BY <1>4, <2>2 DEF Commit, TypeOK, Request
  <2>4. perm' \in [Users -> WorkspaceRoles]
    <3>1. \A u \in Users : req[r].rows[u] \in WorkspaceRoles \cup {None}
                           /\ perm[u] \in WorkspaceRoles
      BY <2>2 DEF Request, TypeOK
    <3> QED BY <1>4, <3>1 DEF Commit
  <2>5. ASSUME NEW s \in Requests
        PROVE  req'[s] \in Request /\ (req'[s].pc # "idle" => req'[s].call # None)
    <3>1. CASE s = r
      BY <1>4, <3>1, IdleType DEF Commit
    <3>2. CASE s # r
      <4> DEFINE old == req[s]
                 flag == old.stale \/ Conflicts(r, s)
      <4>1. req'[s] = [old EXCEPT !.stale = flag]
        BY <1>4, <3>2 DEF Commit
      <4>2. old \in Request /\ (old.pc # "idle" => old.call # None)
        BY DEF TypeOK
      <4>3. flag \in BOOLEAN
        BY <4>2 DEF Conflicts, InTransaction, Request
      <4> HIDE DEF old, flag
      <4> QED BY <4>1, <4>2, <4>3 DEF Request
    <3> QED BY <3>1, <3>2
  <2>6. req' = [s \in Requests |-> req'[s]]
    BY <1>4 DEF Commit
  <2> QED BY <2>3, <2>4, <2>5, <2>6 DEF TypeOK
<1>5. ASSUME NEW r \in Requests, Abort(r) PROVE TypeOK'
  BY <1>5, IdleType DEF Abort, TypeOK
<1>6. CASE UNCHANGED vars
  BY <1>6 DEF vars, TypeOK
<1> QED BY <1>1, <1>2, <1>3, <1>4, <1>5, <1>6 DEF Next

\* The documents and the requests of the workspace interactor keep their types.
THEOREM TypeCorrect == Spec => []TypeOK
BY TypeInit, TypeStep, PTL DEF Spec

-----------------------------------------------------------------------------
\* A request whose own record and whose documents stay as they are remains
\* tracked.
LEMMA TrackedStays ==
    ASSUME NEW s \in Requests, Tracked(s), UNCHANGED <<ws, perm>>,
           req'[s] = req[s]
    PROVE  Tracked(s)'
BY DEF Tracked, InTransaction, RoleAfter, UserRole, Row

LEMMA AgreeStays ==
    ASSUME RolesAgree, UNCHANGED <<ws, perm>>
    PROVE  RolesAgree'
BY DEF RolesAgree, UserRole

LEMMA AgreeInit == Init => AgreeInv
<1> SUFFICES ASSUME Init PROVE AgreeInv
  OBVIOUS
<1>1. TypeOK
  BY TypeInit
<1>2. RolesAgree
  BY DEF Init, RolesAgree, UserRole, SeededRole
<1>3. \A r \in Requests : Tracked(r)
  BY DEF Init, Tracked, InTransaction, Idle
<1> QED BY <1>1, <1>2, <1>3 DEF AgreeInv

\* The heart of it: what a commit without a lost conflict writes.  A user's row
\* was saved with the role of the new members; who has no saved row is either
\* untouched or has no role before and after.
LEMMA CommitWrites ==
    ASSUME AgreeInv, NEW r \in Requests, Commit(r), ~req[r].stale,
           NEW u \in Users, NEW w \in Workspaces
    PROVE  perm'[u][w] = UserRole(w, u)'
<1>0. TypeOK /\ RolesAgree /\ Tracked(r)
  BY DEF AgreeInv
<1>1. req[r].pc = "saving"
  BY DEF Commit
<1>2. req[r] \in Request /\ req[r].call.ws \in Workspaces
  BY <1>0, <1>1, CallOf
<1>v. PICK v \in Workspaces : v = req[r].call.ws
  BY <1>2
<1>3. /\ u \notin req[r].touched => RoleAfter(r, u) = UserRole(v, u)
      /\ req[r].rows[u] = Row(r, u)
  BY <1>0, <1>1, <1>v DEF Tracked, InTransaction
<1>4. perm[u][w] = UserRole(w, u) /\ perm[u][v] = UserRole(v, u)
  BY <1>0 DEF RolesAgree
<1>5. perm[u] \in [Workspaces -> Roles \cup {None}]
  BY <1>0 DEF TypeOK, WorkspaceRoles
<1>6. perm'[u] = IF Row(r, u) = None THEN perm[u] ELSE Row(r, u)
  BY <1>3 DEF Commit
<1>7. ws'[v] = req[r].after /\ (w # v => ws'[w] = ws[w])
  BY <1>0, <1>v DEF Commit, TypeOK
<1>8. w = v => UserRole(w, u)' = RoleAfter(r, u)
  BY <1>7 DEF RoleAfter, UserRole
<1>9. w # v => UserRole(w, u)' = UserRole(w, u)
  BY <1>7 DEF UserRole
<1> DEFINE old == perm[u]
           role == RoleAfter(r, u)
           new == [old EXCEPT ![v] = role]
<1>10. Row(r, u) = IF u \in req[r].touched /\ (role # None \/ old[v] # None)
                     THEN new ELSE None
  BY <1>v DEF Row
<1>11. old \in [Workspaces -> Roles \cup {None}]
  BY <1>5
<1>12. role \in Roles \cup {None}
  BY <1>2 DEF RoleAfter, Request, Workspace
<1> HIDE DEF old, role
<1>13. new \in WorkspaceRoles /\ new[v] = role /\ (w # v => new[w] = old[w])
  BY <1>11, <1>12 DEF WorkspaceRoles
<1>14. new # None
  BY <1>13, MembershipAssumption
<1> HIDE DEF new
<1>15. CASE u \in req[r].touched /\ (role # None \/ old[v] # None)
  <2>1. perm'[u] = new
    BY <1>6, <1>10, <1>14, <1>15
  <2>2. CASE w = v
    BY <2>1, <2>2, <1>8, <1>13 DEF role
  <2>3. CASE w # v
    BY <2>1, <2>3, <1>4, <1>9, <1>13 DEF old
  <2> QED BY <2>2, <2>3
<1>16. CASE ~(u \in req[r].touched /\ (role # None \/ old[v] # None))
  <2>1. perm'[u] = perm[u] /\ role = perm[u][v]
    BY <1>3, <1>4, <1>6, <1>10, <1>16 DEF old, role
  <2>2. CASE w = v
    BY <2>1, <2>2, <1>8 DEF role
  <2>3. CASE w # v
    BY <2>1, <2>3, <1>4, <1>9
  <2> QED BY <2>2, <2>3
<1> QED BY <1>15, <1>16

\* A transaction whose documents a commit has not written stays tracked.
LEMMA CommitLeavesTracked ==
    ASSUME AgreeInv, NEW r \in Requests, Commit(r),
           NEW s \in Requests, s # r
    PROVE  Tracked(s)'
<1>0. TypeOK /\ Tracked(s)
  BY DEF AgreeInv
<1>1. req[r].pc = "saving"
  BY DEF Commit
<1>2. req'[s] = [req[s] EXCEPT !.stale = @ \/ Conflicts(r, s)]
  BY DEF Commit
<1>3. req[s] \in Request
  BY <1>0 DEF TypeOK
<1>4. /\ req'[s].pc = req[s].pc /\ req'[s].call = req[s].call
      /\ req'[s].after = req[s].after /\ req'[s].touched = req[s].touched
      /\ req'[s].rows = req[s].rows
      /\ req'[s].stale = (req[s].stale \/ Conflicts(r, s))
  BY <1>2, <1>3 DEF Request
<1> SUFFICES ASSUME InTransaction(s)', ~req'[s].stale
             PROVE  /\ \A u \in Users \ req[s].touched :
                         RoleAfter(s, u)' = (UserRole(req[s].call.ws, u))'
                    /\ req[s].pc = "saving" =>
                         \A u \in Users : req[s].rows[u] = Row(s, u)'
  BY <1>4 DEF Tracked
<1>5. InTransaction(s) /\ ~req[s].stale /\ ~Conflicts(r, s)
  BY <1>4 DEF InTransaction
<1>6. PICK w \in Workspaces : w = req[s].call.ws /\ w = req'[s].call.ws
  BY <1>0, <1>4, <1>5, CallOf DEF InTransaction
<1>7. w # req[r].call.ws /\ \A u \in req[s].touched : req[r].rows[u] = None
  BY <1>5, <1>6 DEF Conflicts
<1>8. ws'[w] = ws[w]
  BY <1>0, <1>7 DEF Commit, TypeOK
<1>9. \A u \in req[s].touched : perm'[u] = perm[u]
  BY <1>3, <1>7 DEF Commit, Request
<1>10. ASSUME NEW u \in Users
       PROVE  RoleAfter(s, u)' = RoleAfter(s, u)
  BY <1>4 DEF RoleAfter
<1>11. \A u \in Users : (UserRole(req[s].call.ws, u))' = UserRole(w, u)
  BY <1>6, <1>8 DEF UserRole
<1>12. ASSUME NEW u \in Users PROVE Row(s, u)' = Row(s, u)
  <2>1. CASE u \in req[s].touched
    BY <2>1, <1>4, <1>6, <1>9, <1>10 DEF Row
  <2>2. CASE u \notin req[s].touched
    BY <2>2, <1>4 DEF Row
  <2> QED BY <2>1, <2>2
<1>13. /\ \A u \in Users \ req[s].touched : RoleAfter(s, u) = UserRole(w, u)
       /\ req[s].pc = "saving" => \A u \in Users : req[s].rows[u] = Row(s, u)
  BY <1>0, <1>5, <1>6 DEF Tracked
<1> QED BY <1>10, <1>11, <1>12, <1>13

LEMMA AgreeStep ==
    ASSUME Transactions = "snapshot"
    PROVE  AgreeInv /\ [Next]_vars => AgreeInv'
<1> SUFFICES ASSUME AgreeInv, [Next]_vars PROVE AgreeInv'
  OBVIOUS
<1>0. TypeOK /\ RolesAgree /\ (\A s \in Requests : Tracked(s)) /\ TypeOK'
  BY TypeStep DEF AgreeInv
\* Steps of r that leave the database alone: only r has to be tracked again.
<1>a. ASSUME NEW r \in Requests, UNCHANGED <<ws, perm>>, Tracked(r)',
             \A s \in Requests : s # r => req'[s] = req[s]
      PROVE  AgreeInv'
  BY <1>0, <1>a, TrackedStays, AgreeStays DEF AgreeInv
<1>1. ASSUME NEW r \in Requests, NEW c \in Calls, Arrive(r, c)
      PROVE  AgreeInv'
  <2>1. req'[r].pc = "arrived"
    BY <1>0, <1>1 DEF Arrive, TypeOK, Idle
  <2> QED BY <1>0, <1>1, <1>a, <2>1
          DEF Arrive, TypeOK, Tracked, InTransaction
<1>2. ASSUME NEW r \in Requests, UseCase(r) PROVE AgreeInv'
  <2>1. PICK after, t : Handover(r, after, t)
    BY <1>0, <1>2, UseCaseHandsOver
  <2>2. req[r] \in Request /\ UNCHANGED <<ws, perm>>
        /\ req' = [req EXCEPT ![r].pc = "loaded", ![r].after = after,
                              ![r].touched = t]
    BY <1>0, <2>1 DEF Handover, Proceed, TypeOK
  <2>3. /\ req'[r].pc = "loaded" /\ req'[r].after = after
        /\ req'[r].touched = t /\ req'[r].call = req[r].call
    BY <1>0, <2>2 DEF TypeOK, Request
  <2>4. \A u \in Users \ t :
          (IF after = None THEN None ELSE after.members[u])
            = UserRole(req[r].call.ws, u)
    BY <2>1 DEF Handover
  <2>5. \A u \in Users :
          RoleAfter(r, u)' = IF after = None THEN None ELSE after.members[u]
    BY <2>3 DEF RoleAfter
  <2>6. \A u \in Users :
          (UserRole(req[r].call.ws, u))' = UserRole(req[r].call.ws, u)
    BY <2>2, <2>3 DEF UserRole
  <2>7. Tracked(r)'
    BY <2>3, <2>4, <2>5, <2>6 DEF Tracked
  <2>8. \A s \in Requests : s # r => req'[s] = req[s]
    BY <1>0, <2>2 DEF TypeOK
  <2> QED BY <1>a, <2>2, <2>7, <2>8
<1>3. ASSUME NEW r \in Requests, SavePermittables(r) PROVE AgreeInv'
  <2>1. req[r].pc = "loaded" /\ UNCHANGED <<ws, perm>> /\ req[r] \in Request
    BY <1>0, <1>3 DEF SavePermittables, TypeOK
  <2> DEFINE rows == [u \in Users |-> Row(r, u)]
  <2>2. req' = [req EXCEPT ![r].pc = "saving", ![r].rows = rows]
        /\ \A u \in Users : rows[u] = Row(r, u)
    BY <1>3 DEF SavePermittables
  <2> HIDE DEF rows
  <2>3. /\ req'[r].pc = "saving" /\ req'[r].rows = rows
        /\ req'[r].after = req[r].after /\ req'[r].touched = req[r].touched
        /\ req'[r].call = req[r].call /\ req'[r].stale = req[r].stale
    BY <1>0, <2>1, <2>2 DEF TypeOK, Request
  <2>4. \A u \in Users : RoleAfter(r, u)' = RoleAfter(r, u)
    BY <2>3 DEF RoleAfter
  <2>5. \A u \in Users : Row(r, u)' = Row(r, u)
    BY <2>1, <2>3, <2>4 DEF Row
  <2>6. \A u \in Users :
          (UserRole(req[r].call.ws, u))' = UserRole(req[r].call.ws, u)
    BY <2>1, <2>3 DEF UserRole
  <2>7. Tracked(r)'
    BY <1>0, <2>1, <2>2, <2>3, <2>4, <2>5, <2>6 DEF Tracked, InTransaction
  <2>8. \A s \in Requests : s # r => req'[s] = req[s]
    BY <1>0, <2>2 DEF TypeOK
  <2> QED BY <1>a, <2>1, <2>7, <2>8
<1>4. ASSUME NEW r \in Requests, Commit(r) PROVE AgreeInv'
  <2>1. ~req[r].stale
    BY <1>4 DEF Commit
  <2>2. RolesAgree'
    BY <1>4, <2>1, CommitWrites DEF RolesAgree
  <2>3. \A s \in Requests : s # r => Tracked(s)'
    BY <1>4, CommitLeavesTracked
  <2>4. Tracked(r)'
    BY <1>4 DEF Commit, Tracked, InTransaction, Idle
  <2> QED BY <1>0, <2>2, <2>3, <2>4 DEF AgreeInv
<1>5. ASSUME NEW r \in Requests, Abort(r) PROVE AgreeInv'
  <2>1. req'[r].pc = "idle"
    BY <1>0, <1>5 DEF Abort, TypeOK, Idle
  <2> QED BY <1>0, <1>5, <1>a, <2>1 DEF Abort, TypeOK, Tracked, InTransaction
<1>6. CASE UNCHANGED vars
  BY <1>0, <1>6, TrackedStays, AgreeStays DEF vars, AgreeInv
<1> QED BY <1>1, <1>2, <1>3, <1>4, <1>5, <1>6 DEF Next

\* Under snapshot transactions the permittable of every user names exactly the
\* roles that the workspaces' member lists give the user, whatever requests
\* run at the same time: Cerbos decides on the real memberships.
THEOREM PermittablesAgree ==
    ASSUME Transactions = "snapshot"
    PROVE  Spec => []RolesAgree
<1>1. AgreeInv => RolesAgree
  BY DEF AgreeInv
<1> QED BY <1>1, AgreeInit, AgreeStep, PTL DEF Spec

-----------------------------------------------------------------------------
(* What a transaction may make of a workspace.                             *)

\* Of the members: an owner only by a transfer, no higher role for the caller,
\* and an owner left behind by an owner who leaves.
MayBecome(c, old, new) ==
    /\ \A u \in Users :
         old[u] # "owner" /\ new[u] = "owner" =>
           c.op = "transfer" /\ c.targets[1] = u
    /\ /\ c.op \notin {"updateViaService", "transfer"}
       /\ old[c.caller] # None /\ new[c.caller] # None
       => Includes(old[c.caller], new[c.caller])
    /\ /\ c.op = "removeMembers" /\ c.targets = <<c.caller>>
       /\ old[c.caller] = "owner"
       => \E v \in Users : new[v] = "owner"

\* Of the whole workspace.
Permitted(c, before, after) ==
    /\ after = None => c.op = "remove"
    /\ before # None /\ after # None =>
         /\ MayBecome(c, before.members, after.members)
         /\ \/ after.members = before.members
            \/ after.integrations = before.integrations

\* As long as nobody else has written the workspace, the copy is what the use
\* case makes of what is stored, were it served now, and a permitted change.
Fits(c, before, after) ==
    Serial!Serves(c, before, after) /\ Permitted(c, before, after)

PermittedInv ==
    \A r \in Requests :
        InTransaction(r) /\ ~req[r].stale =>
            Fits(req[r].call, ws[req[r].call.ws], req[r].after)

LEMMA IncludesItself ==
    \A role \in Roles : Includes(role, role)
BY MembershipAssumption DEF Includes, Rank, Roles

\* The members stay: permitted, unless an owner who is alone leaves.
LEMMA StayPermitted ==
    ASSUME NEW c \in Calls, NEW old \in [Users -> Roles \cup {None}],
           c.op # "removeMembers"
    PROVE  MayBecome(c, old, old)
<1>1. c.caller \in Users
  BY CallsAssumption
<1>2. old[c.caller] \in Roles \cup {None}
  BY <1>1
<1> QED BY <1>1, <1>2, IncludesItself DEF MayBecome

\* A use case that changes the members leaves the integrations.
LEMMA MembersPermitted ==
    ASSUME TypeOK, NEW r \in Requests, req[r].pc = "arrived",
           ws[req[r].call.ws] # None,
           NEW m \in [Users -> Roles \cup {None}],
           MayBecome(req[r].call, ws[req[r].call.ws].members, m)
    PROVE  Permitted(req[r].call, ws[req[r].call.ws], WithMembers(r, m))
<1> DEFINE x == ws[req[r].call.ws]
           y == [x EXCEPT !.members = m]
<1>1. x \in Workspace
  BY CallOf DEF TypeOK
<1>2. WithMembers(r, m) = y
  BY DEF WithMembers
<1> HIDE DEF x
<1>3. y \in Workspace /\ y.members = m /\ y.integrations = x.integrations
  BY <1>1 DEF Workspace
<1>4. y # None
  BY <1>3, MembershipAssumption
<1> HIDE DEF y
<1>5. Permitted(req[r].call, x, y)
  BY <1>3, <1>4 DEF Permitted, x
<1> QED BY <1>2, <1>5 DEF x

\* A copy with the same members is permitted, whatever else it changes.
LEMMA SamePermitted ==
    ASSUME TypeOK, NEW r \in Requests, req[r].pc = "arrived",
           ws[req[r].call.ws] # None, req[r].call.op # "removeMembers",
           NEW y \in Workspace, y.members = ws[req[r].call.ws].members
    PROVE  Permitted(req[r].call, ws[req[r].call.ws], y)
<1>1. req[r].call \in Calls /\ req[r].call.ws \in Workspaces
  BY CallOf
<1>2. y.members \in [Users -> Roles \cup {None}]
  BY DEF Workspace
<1>3. MayBecome(req[r].call, y.members, y.members)
  BY <1>1, <1>2, StayPermitted
<1>4. y # None
  BY MembershipAssumption
<1> QED BY <1>3, <1>4 DEF Permitted

\* Who leaves alone does not leave as the only owner.
LEMMA LeaversPermitted ==
    ASSUME TypeOK, NEW r \in Requests, RemoveUserMembers(r)
    PROVE  \E after, t : /\ Proceed(r, after, t)
                         /\ Permitted(req[r].call, ws[req[r].call.ws], after)
<1> DEFINE c == req[r].call
           w == c.ws
           left == {c.targets[i] : i \in DOMAIN c.targets}
           old == ws[w].members
           m == [u \in Users |-> IF u \in left THEN None ELSE UserRole(w, u)]
<1>1. /\ req[r].pc = "arrived" /\ c.op = "removeMembers" /\ ws[w] # None
      /\ ~LeavesAsOnlyOwner(r)
      /\ Proceed(r, WithMembers(r, m), left)
  BY DEF RemoveUserMembers, Loads
<1>2. c \in Calls /\ w \in Workspaces /\ c.caller \in Users
  BY <1>1, CallOf
<1>3. /\ old \in [Users -> Roles \cup {None}]
      /\ \A u \in Users : old[u] = UserRole(w, u)
  BY <1>1, <1>2, MembersOf
<1>4. /\ m \in [Users -> Roles \cup {None}]
      /\ \A u \in Users : m[u] = IF u \in left THEN None ELSE old[u]
  BY <1>3
<1>5. ASSUME c.targets = <<c.caller>>, old[c.caller] = "owner"
      PROVE  \E v \in Users : m[v] = "owner"
  <2>1. DOMAIN c.targets = {1} /\ c.targets[1] = c.caller
    BY <1>5
  <2>2. PICK v \in Users \ {c.caller} : UserRole(w, v) = "owner"
    BY <1>1, <1>2, <1>3, <1>5, <2>1 DEF LeavesAsOnlyOwner
  <2>3. v \notin left
    BY <2>1, <2>2
  <2> QED BY <1>3, <1>4, <2>2, <2>3
<1>6. None \notin Roles /\ "owner" \in Roles
  BY MembershipAssumption DEF Roles
<1> HIDE DEF m, old
<1>7. \A u \in Users : m[u] \in {None, old[u]} /\ old[u] \in Roles \cup {None}
  BY <1>3, <1>4
<1>8. MayBecome(c, old, m)
  BY <1>1, <1>2, <1>5, <1>6, <1>7, IncludesItself DEF MayBecome
<1>9. Permitted(c, ws[w], WithMembers(r, m))
  BY <1>1, <1>4, <1>8, MembersPermitted DEF old
<1> QED BY <1>1, <1>9


LEMMA JoinersPermitted ==
    ASSUME TypeOK, NEW r \in Requests, AddUserMember(r)
    PROVE  \E after, t : /\ Proceed(r, after, t)
                         /\ Permitted(req[r].call, ws[req[r].call.ws], after)
<1> DEFINE c == req[r].call
           w == c.ws
           joined == {c.targets[i] : i \in DOMAIN c.targets}
           old == ws[w].members
           m == [u \in Users |-> IF u \in joined THEN c.role ELSE UserRole(w, u)]
<1>1. /\ req[r].pc = "arrived" /\ c.op = "addMember" /\ ws[w] # None
      /\ c.role # "owner"
      /\ \A u \in joined : UserRole(w, u) = None
      /\ Proceed(r, WithMembers(r, m), joined)
  BY DEF AddUserMember, Loads
<1>2. c \in Calls /\ w \in Workspaces /\ c.caller \in Users /\ c.role \in Roles
  BY <1>1, CallOf
<1>3. /\ old \in [Users -> Roles \cup {None}]
      /\ \A u \in Users : old[u] = UserRole(w, u)
  BY <1>1, <1>2, MembersOf
<1>4. /\ m \in [Users -> Roles \cup {None}]
      /\ \A u \in Users : m[u] = IF u \in joined THEN c.role ELSE old[u]
      /\ \A u \in joined : u \in Users => old[u] = None
  BY <1>1, <1>2, <1>3
<1> HIDE DEF m, old, joined
<1>5. \A u \in Users : old[u] \in Roles \cup {None}
  BY <1>3
<1>6. MayBecome(c, old, m)
  BY <1>1, <1>2, <1>4, <1>5, IncludesItself DEF MayBecome
<1>7. Permitted(c, ws[w], WithMembers(r, m))
  BY <1>1, <1>4, <1>6, MembersPermitted DEF old
<1> QED BY <1>1, <1>7

\* Members.UpdateUserRole with a role that is not owner: the caller does not
\* rise by it, or comes by the service route.
LEMMA RoleChangePermitted ==
    ASSUME TypeOK, NEW r \in Requests, req[r].pc = "arrived",
           ws[req[r].call.ws] # None,
           req[r].call.op \in {"updateMember", "updateViaService"},
           req[r].call.role # "owner",
           NEW u \in Users, ChangeRole(r, u, req[r].call.role),
           \/ req[r].call.op = "updateViaService"
           \/ u = req[r].call.caller =>
                Includes(UserRole(req[r].call.ws, u), req[r].call.role)
    PROVE  \E after, t : /\ Proceed(r, after, t)
                         /\ Permitted(req[r].call, ws[req[r].call.ws], after)
<1> DEFINE c == req[r].call
           w == c.ws
           old == ws[w].members
           m == [old EXCEPT ![u] = c.role]
<1>1. c \in Calls /\ w \in Workspaces /\ c.caller \in Users /\ c.role \in Roles
  BY CallOf
<1>2. /\ old \in [Users -> Roles \cup {None}]
      /\ \A v \in Users : old[v] = UserRole(w, v)
  BY <1>1, MembersOf
<1>3. Proceed(r, WithMembers(r, m), {u})
  BY DEF ChangeRole
<1>4. c.op = "updateViaService" \/ (u = c.caller => Includes(old[u], c.role))
  BY <1>2
<1> HIDE DEF old
<1>5. /\ m \in [Users -> Roles \cup {None}]
      /\ \A v \in Users : m[v] = IF v = u THEN c.role ELSE old[v]
      /\ \A v \in Users : old[v] \in Roles \cup {None}
  BY <1>1, <1>2
<1> HIDE DEF m
<1>6. MayBecome(c, old, m)
  BY <1>1, <1>4, <1>5, IncludesItself DEF MayBecome
<1>7. Permitted(c, ws[w], WithMembers(r, m))
  BY <1>5, <1>6, MembersPermitted DEF old
<1> QED BY <1>3, <1>7

LEMMA TransferPermitted ==
    ASSUME TypeOK, NEW r \in Requests, TransferOwnership(r)
    PROVE  \E after, t : /\ Proceed(r, after, t)
                         /\ Permitted(req[r].call, ws[req[r].call.ws], after)
<1> DEFINE c == req[r].call
           w == c.ws
           u == c.targets[1]
           old == ws[w].members
           m == [old EXCEPT ![u] = "owner", ![c.caller] = "maintainer"]
<1>1. /\ req[r].pc = "arrived" /\ c.op = "transfer" /\ ws[w] # None
      /\ Proceed(r, WithMembers(r, m), {u, c.caller})
  BY DEF TransferOwnership, Loads
<1>2. c \in Calls /\ w \in Workspaces /\ c.caller \in Users
  BY <1>1, CallOf
<1>3. old \in [Users -> Roles \cup {None}]
  BY <1>1, <1>2, MembersOf
<1> HIDE DEF old, u
<1>4. /\ m \in [Users -> Roles \cup {None}]
      /\ \A v \in Users : m[v] = "owner" => v = u \/ old[v] = "owner"
  BY <1>2, <1>3 DEF Roles
<1> HIDE DEF m
<1>5. MayBecome(c, old, m)
  BY <1>1, <1>4 DEF MayBecome, u
<1>6. Permitted(c, ws[w], WithMembers(r, m))
  BY <1>1, <1>4, <1>5, MembersPermitted DEF old
<1> QED BY <1>1, <1>6

LEMMA UseCasePermitted ==
    ASSUME TypeOK, NEW r \in Requests, UseCase(r)
    PROVE  \E after, t : /\ Proceed(r, after, t)
                         /\ Permitted(req[r].call, ws[req[r].call.ws], after)
<1> DEFINE c == req[r].call
           w == c.ws
<1>0. req[r].pc = "arrived"
  BY UseCaseHandsOver DEF Handover
<1>1. c \in Calls /\ w \in Workspaces /\ c.targets \in Seq(Users)
  BY <1>0, CallOf
<1>2. ASSUME c.op \in {"updateMember", "updateViaService"}
      PROVE  c.targets[1] \in Users
  <2>1. c.targets # <<>>
    BY <1>1, <1>2, CallsAssumption
  <2> QED BY <1>1, <2>1
<1>3. ASSUME ws[w] # None PROVE ws[w] \in Workspace
  BY <1>1, <1>3, MembersOf
<1>4. CASE Create(r)
  <2>1. ws[w] = None /\ \E after, t : after # None /\ Proceed(r, after, t)
    <3> DEFINE first == {c.targets[i] : i \in DOMAIN c.targets}
               x == [members |-> [u \in Users |-> IF u \in first
                                                    THEN "owner" ELSE None],
                     integrations |-> [i \in Integrations |-> None],
                     deleted |-> FALSE]
    <3>1. ws[w] = None /\ Proceed(r, x, first)
      BY <1>4 DEF Create
    <3>2. x \in Workspace
      BY DEF Workspace, Roles
    <3>3. x # None
      BY <3>2, MembershipAssumption
    <3> HIDE DEF x, first
    <3> QED BY <3>1, <3>3
  <2> QED BY <2>1 DEF Permitted
<1>5. CASE AddUserMember(r)
  BY <1>5, JoinersPermitted
<1>6. CASE RemoveUserMembers(r)
  BY <1>6, LeaversPermitted
<1>7. CASE UpdateUserMember(r)
  <2>1. /\ c.op = "updateMember" /\ ws[w] # None /\ c.role # "owner"
        /\ ChangeRole(r, c.targets[1], c.role)
        /\ c.targets[1] = c.caller => Includes(UserRole(w, c.targets[1]), c.role)
    BY <1>7 DEF UpdateUserMember, Loads
  <2> QED BY <1>0, <1>2, <2>1, RoleChangePermitted
<1>8. CASE UpdateUserMemberViaService(r)
  <2>1. /\ c.op = "updateViaService" /\ ws[w] # None /\ c.role # "owner"
        /\ ChangeRole(r, c.targets[1], c.role)
    BY <1>8 DEF UpdateUserMemberViaService, Loads
  <2> QED BY <1>0, <1>2, <2>1, RoleChangePermitted
<1>9. CASE TransferOwnership(r)
  BY <1>9, TransferPermitted
<1>10. CASE Remove(r)
  <2>1. c.op = "remove" /\ \E t : Proceed(r, None, t)
    BY <1>10 DEF Remove, Loads
  <2> QED BY <2>1 DEF Permitted
<1>11. CASE Update(r)
  <2>1. c.op = "update" /\ ws[w] # None /\ Proceed(r, ws[w], {})
    BY <1>11 DEF Update, Loads
  <2> QED BY <1>0, <1>3, <2>1, SamePermitted
<1>12. CASE Deactivate(r) \/ Restore(r)
  <2>1. PICK d \in BOOLEAN :
          /\ c.op \in {"deactivate", "restore"} /\ ws[w] # None
          /\ Proceed(r, [ws[w] EXCEPT !.deleted = d], {})
    BY <1>12 DEF Deactivate, Restore, Loads
  <2> DEFINE x == ws[w]
             y == [x EXCEPT !.deleted = d]
  <2>2. x \in Workspace /\ Proceed(r, y, {})
    BY <1>3, <2>1
  <2> HIDE DEF x
  <2>3. y \in Workspace /\ y.members = x.members
    BY <2>2 DEF Workspace
  <2> HIDE DEF y
  <2> QED BY <1>0, <2>1, <2>2, <2>3, SamePermitted DEF x
<1>13. CASE ChangesIntegrations(r)
  <2>1. /\ ws[w] # None
        /\ c.op \in {"addIntegration", "updateIntegration", "removeIntegrations"}
    BY <1>13, IntegrationsChanged
  <2>2. PICK f \in [Integrations -> Roles \cup {None}] :
          Proceed(r, WithIntegrations(r, f), {})
    BY <1>13, IntegrationsChanged
  <2> DEFINE x == ws[w]
             y == [x EXCEPT !.integrations = f]
  <2>3. x \in Workspace /\ Proceed(r, y, {})
    BY <1>3, <2>1, <2>2 DEF WithIntegrations
  <2> HIDE DEF x
  <2>4. y \in Workspace /\ y.members = x.members
    BY <2>3 DEF Workspace
  <2> HIDE DEF y
  <2> QED BY <1>0, <2>1, <2>3, <2>4, SamePermitted DEF x
<1> QED BY <1>4, <1>5, <1>6, <1>7, <1>8, <1>9, <1>10, <1>11, <1>12, <1>13
        DEF UseCase, ChangesIntegrations

-----------------------------------------------------------------------------
(* What a use case does is what Memberships serves, on what it has loaded. *)

ChangesMembers(c, m, n) ==
    \/ Serial!Adds(c, m, n)
    \/ Serial!Takes(c, m, n)
    \/ Serial!Regrades(c, m, n)
    \/ Serial!RegradesByService(c, m, n)
    \/ Serial!HandsOver(c, m, n)

\* A shared workspace with changed members.
LEMMA MembersServed ==
    ASSUME TypeOK, NEW r \in Requests, NEW op, Loads(r, op),
           NEW n \in [Users -> Roles \cup {None}],
           ChangesMembers(req[r].call, ws[req[r].call.ws].members, n)
    PROVE  Serial!Serves(req[r].call, ws[req[r].call.ws], WithMembers(r, n))
<1> DEFINE c == req[r].call
           x == ws[c.ws]
           y == WithMembers(r, n)
<1>1. c.ws \notin Personal /\ x # None
  BY DEF Loads
<1>2. y \in Workspace /\ y.members = n
  BY WithMembersType DEF Loads
<1>3. y # None
  BY <1>2, MembershipAssumption
<1>4. y = [x EXCEPT !.members = y.members]
  BY <1>2 DEF WithMembers
<1>5. ChangesMembers(c, x.members, y.members)
  BY <1>2
<1> HIDE DEF c, x, y
<1>6. Serial!Serves(c, x, y)
  BY <1>1, <1>3, <1>4, <1>5 DEF Serial!Serves, ChangesMembers
<1> QED BY <1>6 DEF c, x, y

\* A workspace with changed integrations.
LEMMA IntegrationsServed ==
    ASSUME TypeOK, NEW r \in Requests, NEW op, LoadsOwned(r, op),
           NEW g \in [Integrations -> Roles \cup {None}],
           \/ Serial!Connects(req[r].call, ws[req[r].call.ws].integrations, g)
           \/ Serial!Disconnects(req[r].call, ws[req[r].call.ws].integrations, g)
    PROVE  Serial!Serves(req[r].call, ws[req[r].call.ws], WithIntegrations(r, g))
<1> DEFINE c == req[r].call
           x == ws[c.ws]
           y == WithIntegrations(r, g)
<1>1. x # None /\ x \in Workspace
  BY CallOf, MembersOf DEF LoadsOwned
<1>2. y = [x EXCEPT !.integrations = g]
  BY DEF WithIntegrations
<1>3. \/ Serial!Connects(c, x.integrations, g)
      \/ Serial!Disconnects(c, x.integrations, g)
  OBVIOUS
<1> HIDE DEF x, y
<1>4. y \in Workspace /\ y.integrations = g
  BY <1>1, <1>2 DEF Workspace
<1>5. y # None
  BY <1>4, MembershipAssumption
<1>6. Serial!Serves(c, x, y)
  BY <1>1, <1>2, <1>3, <1>4, <1>5 DEF Serial!Serves
<1> QED BY <1>6 DEF x, y

LEMMA UseCaseServed ==
    ASSUME TypeOK, NEW r \in Requests, UseCase(r)
    PROVE  \E after, t : /\ Proceed(r, after, t)
                         /\ Serial!Serves(req[r].call, ws[req[r].call.ws], after)
<1> DEFINE c == req[r].call
           w == c.ws
           x == ws[w]
           old == x.members
           held == x.integrations
           targets == {c.targets[i] : i \in DOMAIN c.targets}
           Goal == \E after, t : Proceed(r, after, t) /\ Serial!Serves(c, x, after)
<1>0. req[r].pc = "arrived"
  BY UseCaseHandsOver DEF Handover
<1>1. /\ c \in Calls /\ w \in Workspaces /\ c.caller \in Users /\ c.role \in Roles
      /\ c.targets \in Seq(Users)
      /\ c.op \in {"updateMember", "updateViaService", "transfer"} => c.targets[1] \in Users
  <2>1. c.op \in {"updateMember", "updateViaService", "transfer"} => c.targets # <<>>
    BY <1>0, CallOf, CallsAssumption
  <2> QED BY <1>0, <2>1, CallOf
<1>2. ASSUME x # None
      PROVE  /\ old \in [Users -> Roles \cup {None}]
             /\ held \in [Integrations -> Roles \cup {None}]
             /\ \A u \in Users : UserRole(w, u) = old[u]
  BY <1>1, <1>2, MembersOf DEF Workspace
<1>3. targets = Serial!Targets(c) /\ "owner" \in Roles /\ "maintainer" \in Roles
  BY DEF Serial!Targets, Roles
<1>4. CASE Create(r)
  <2> DEFINE y == [members |-> [u \in Users |-> IF u \in targets THEN "owner" ELSE None],
                   integrations |-> [i \in Integrations |-> None],
                   deleted |-> FALSE]
  <2>1. x = None /\ c.op = "create" /\ Proceed(r, y, targets)
    BY <1>4 DEF Create
  <2>2. Serial!Opens(c, y)
    BY <1>3, <2>1 DEF Serial!Opens
  <2> HIDE DEF y
  <2> QED BY <2>1, <2>2 DEF Serial!Serves
<1>5. CASE Update(r)
  <2>1. c.op = "update" /\ x # None /\ w \notin Personal /\ Proceed(r, x, {})
    BY <1>5 DEF Update, Loads
  <2> QED BY <2>1 DEF Serial!Serves
<1>6. CASE Remove(r)
  <2>1. c.op = "remove" /\ x # None /\ w \notin Personal /\ \E t : Proceed(r, None, t)
    BY <1>6 DEF Remove, Loads
  <2> QED BY <2>1 DEF Serial!Serves
<1>7. CASE Deactivate(r)
  <2>1. c.op = "deactivate" /\ x # None /\ w \notin Personal
        /\ Proceed(r, [x EXCEPT !.deleted = TRUE], {})
    BY <1>7 DEF Deactivate, Loads
  <2> QED BY <2>1 DEF Serial!Serves
<1>8. CASE Restore(r)
  <2>1. c.op = "restore" /\ x # None /\ w \notin Personal
        /\ Proceed(r, [x EXCEPT !.deleted = FALSE], {})
    BY <1>8 DEF Restore, Loads
  <2> QED BY <2>1 DEF Serial!Serves
<1>9. CASE AddUserMember(r)
  <2> DEFINE n == [u \in Users |-> IF u \in targets THEN c.role ELSE UserRole(w, u)]
  <2>1. /\ Loads(r, "addMember") /\ c.role # "owner"
        /\ \A u \in targets : UserRole(w, u) = None
        /\ Proceed(r, WithMembers(r, n), targets)
    BY <1>9 DEF AddUserMember
  <2>2. x # None /\ c.op = "addMember" /\ targets \subseteq Users
    BY <1>0, <2>1, CallOf DEF Loads
  <2>3. n \in [Users -> Roles \cup {None}]
        /\ n = [u \in Users |-> IF u \in targets THEN c.role ELSE old[u]]
    BY <1>1, <1>2, <2>2
  <2> HIDE DEF n, old, targets
  <2>4. Serial!Adds(c, old, n)
    BY <1>2, <1>3, <2>1, <2>2, <2>3 DEF Serial!Adds
  <2> QED BY <2>1, <2>3, <2>4, MembersServed DEF ChangesMembers, old
<1>10. CASE RemoveUserMembers(r)
  <2> DEFINE n == [u \in Users |-> IF u \in targets THEN None ELSE UserRole(w, u)]
  <2>1. /\ Loads(r, "removeMembers") /\ c.targets # <<>>
        /\ ~LeavesAsOnlyOwner(r)
        /\ \A u \in targets : UserRole(w, u) # None
        /\ Proceed(r, WithMembers(r, n), targets)
    BY <1>10 DEF RemoveUserMembers
  <2>2. x # None /\ c.op = "removeMembers" /\ targets \subseteq Users
    BY <1>0, <2>1, CallOf DEF Loads
  <2>3. n \in [Users -> Roles \cup {None}]
        /\ n = [u \in Users |-> IF u \in targets THEN None ELSE old[u]]
    BY <1>1, <1>2, <2>2
  <2>4. \A i \in DOMAIN c.targets :
          c.targets[i] = c.caller /\ old[c.caller] = "owner" =>
            \E v \in Users \ {c.caller} :
              old[v] = "owner" /\ \A j \in DOMAIN c.targets : j < i => c.targets[j] # v
    BY <1>1, <1>2, <2>1, <2>2 DEF LeavesAsOnlyOwner
  <2> HIDE DEF n, old, targets
  <2>5. Serial!Takes(c, old, n)
    BY <1>2, <1>3, <2>1, <2>2, <2>3, <2>4 DEF Serial!Takes
  <2> QED BY <2>1, <2>3, <2>5, MembersServed DEF ChangesMembers, old
<1>11. ASSUME NEW op, Loads(r, op), NEW u \in Users, ChangeRole(r, u, c.role),
              \/ Serial!Regrades(c, old, [old EXCEPT ![u] = c.role])
              \/ Serial!RegradesByService(c, old, [old EXCEPT ![u] = c.role])
       PROVE  Goal
  <2> DEFINE n == [old EXCEPT ![u] = c.role]
  <2>1. Proceed(r, WithMembers(r, n), {u})
    BY <1>11 DEF ChangeRole
  <2>2. n \in [Users -> Roles \cup {None}]
    BY <1>1, <1>2, <1>11 DEF Loads
  <2>3. ChangesMembers(c, old, n)
    BY <1>11 DEF ChangesMembers
  <2> HIDE DEF n
  <2> QED BY <1>11, <2>1, <2>2, <2>3, MembersServed
<1>12. CASE UpdateUserMember(r)
  <2> DEFINE u == c.targets[1]
  <2>1. /\ Loads(r, "updateMember") /\ c.role # "owner"
        /\ u = c.caller => Includes(UserRole(w, u), c.role) /\ UserRole(w, u) # "owner"
        /\ ChangeRole(r, u, c.role)
    BY <1>12 DEF UpdateUserMember
  <2>2. c.op = "updateMember" /\ x # None /\ UserRole(w, u) # None /\ u \in Users
    BY <1>1, <2>1 DEF Loads, ChangeRole
  <2>3. u = c.caller => Serial!Rank[old[u]] >= Serial!Rank[c.role] /\ old[u] # "owner"
    <3>1. UserRole(w, u) = old[u]
      BY <1>2, <2>2
    <3>2. Rank = Serial!Rank
      BY DEF Rank, Serial!Rank
    <3>3. u = c.caller => Includes(UserRole(w, u), c.role) /\ UserRole(w, u) # "owner"
      BY <2>1
    <3> HIDE DEF u, old
    <3> QED BY <3>1, <3>2, <3>3 DEF Includes
  <2>4. u = c.targets[1] /\ old[u] # None
    BY <1>2, <2>2
  <2> HIDE DEF u, old
  <2>5. Serial!Regrades(c, old, [old EXCEPT ![u] = c.role])
    BY <2>1, <2>2, <2>3, <2>4 DEF Serial!Regrades
  <2> QED BY <1>11, <2>1, <2>2, <2>5
<1>13. CASE UpdateUserMemberViaService(r)
  <2> DEFINE u == c.targets[1]
  <2>1. /\ Loads(r, "updateViaService") /\ c.role # "owner"
        /\ ~IsOnlyOwner(old, u)
        /\ ChangeRole(r, u, c.role)
    BY <1>13 DEF UpdateUserMemberViaService
  <2>2. c.op = "updateViaService" /\ x # None /\ UserRole(w, u) # None /\ u \in Users
    BY <1>1, <2>1 DEF Loads, ChangeRole
  <2>3. old[u] = "owner" => \E v \in Users \ {u} : old[v] = "owner"
    BY <2>1, <2>2 DEF IsOnlyOwner
  <2>4. Serial!RegradesByService(c, old, [old EXCEPT ![u] = c.role])
    BY <1>2, <2>1, <2>2, <2>3 DEF Serial!RegradesByService
  <2> QED BY <1>11, <2>1, <2>2, <2>4
<1>14. CASE TransferOwnership(r)
  <2> DEFINE u == c.targets[1]
             n == [old EXCEPT ![u] = "owner", ![c.caller] = "maintainer"]
  <2>1. /\ Loads(r, "transfer")
        /\ old[u] \notin {None, "reader"} /\ old[c.caller] # None
        /\ Proceed(r, WithMembers(r, n), {u, c.caller})
    BY <1>14 DEF TransferOwnership
  <2>2. c.op = "transfer" /\ x # None /\ u \in Users
    BY <1>1, <2>1 DEF Loads
  <2>3. n \in [Users -> Roles \cup {None}]
    BY <1>1, <1>2, <1>3, <2>2
  <2>4. Serial!HandsOver(c, old, n)
    BY <2>1, <2>2 DEF Serial!HandsOver
  <2> HIDE DEF n
  <2> QED BY <2>1, <2>3, <2>4, MembersServed DEF ChangesMembers
<1>15. CASE AddIntegrationMember(r) \/ UpdateIntegration(r)
  <2>1. PICK i \in Integrations, op \in {"addIntegration", "updateIntegration"} :
          /\ LoadsOwned(r, op) /\ c.integrations = {i}
          /\ held[i] = None <=> op = "addIntegration"
          /\ Proceed(r, WithIntegrations(r, [held EXCEPT ![i] = c.role]), {})
    <3>1. CASE AddIntegrationMember(r)
      BY <3>1 DEF AddIntegrationMember
    <3>2. CASE UpdateIntegration(r)
      BY <3>2 DEF UpdateIntegration
    <3> QED BY <1>15, <3>1, <3>2
  <2> DEFINE g == [held EXCEPT ![i] = c.role]
  <2>2. x # None /\ c.op = op
    BY <2>1 DEF LoadsOwned
  <2>3. g \in [Integrations -> Roles \cup {None}]
    BY <1>1, <1>2, <2>2
  <2>4. Serial!Connects(c, held, g)
    BY <2>1, <2>2 DEF Serial!Connects
  <2> HIDE DEF g
  <2> QED BY <2>1, <2>3, <2>4, IntegrationsServed DEF g
<1>16. CASE RemoveIntegrations(r)
  <2> DEFINE g == [i \in Integrations |-> IF i \in c.integrations THEN None ELSE held[i]]
  <2>1. /\ LoadsOwned(r, "removeIntegrations") /\ c.integrations # {}
        /\ \A i \in c.integrations : held[i] # None
        /\ Proceed(r, WithIntegrations(r, g), {})
    BY <1>16 DEF RemoveIntegrations
  <2>2. x # None /\ c.op = "removeIntegrations"
    BY <2>1 DEF LoadsOwned
  <2>3. g \in [Integrations -> Roles \cup {None}]
    BY <1>2, <2>2
  <2>4. Serial!Disconnects(c, held, g)
    BY <2>1, <2>2 DEF Serial!Disconnects
  <2> HIDE DEF g
  <2> QED BY <2>1, <2>3, <2>4, IntegrationsServed
<1> QED BY <1>4, <1>5, <1>6, <1>7, <1>8, <1>9, <1>10, <1>12, <1>13, <1>14, <1>15, <1>16
        DEF UseCase

LEMMA UseCaseFits ==
    ASSUME TypeOK, NEW r \in Requests, UseCase(r)
    PROVE  \E after, t : Proceed(r, after, t) /\ Fits(req[r].call, ws[req[r].call.ws], after)
<1>1. \A after, t : Proceed(r, after, t) => after = req'[r].after
  BY DEF Proceed, TypeOK, Request
<1> QED BY <1>1, UseCasePermitted, UseCaseServed DEF Fits

-----------------------------------------------------------------------------
\* The changes of a step of r outside of its commit: the workspaces stay.
LEMMA OthersPermitted ==
    ASSUME PermittedInv, NEW r \in Requests, UNCHANGED ws,
           \A s \in Requests : s # r => req'[s] = req[s],
           InTransaction(r)' /\ ~req'[r].stale =>
             (Fits(req[r].call, ws[req[r].call.ws], req[r].after))'
    PROVE  PermittedInv'
<1> SUFFICES ASSUME NEW s \in Requests, InTransaction(s)', ~req'[s].stale
             PROVE  (Fits(req[s].call, ws[req[s].call.ws], req[s].after))'
  BY DEF PermittedInv
<1>1. CASE s = r
  BY <1>1
<1>2. CASE s # r
  <2>1. req'[s] = req[s] /\ InTransaction(s) /\ ~req[s].stale
    BY <1>2 DEF InTransaction
  <2> QED BY <2>1 DEF PermittedInv
<1> QED BY <1>1, <1>2

\* A commit marks as stale whoever is about to write the same workspace.
LEMMA CommitKeepsPermitted ==
    ASSUME TypeOK, PermittedInv, NEW r \in Requests, Commit(r)
    PROVE  PermittedInv'
<1> SUFFICES ASSUME NEW s \in Requests, InTransaction(s)', ~req'[s].stale
             PROVE  (Fits(req[s].call, ws[req[s].call.ws], req[s].after))'
  BY DEF PermittedInv
<1>1. CASE s = r
  BY <1>1 DEF Commit, InTransaction, Idle
<1>2. CASE s # r
  <2>1. req'[s] = [req[s] EXCEPT !.stale = @ \/ Conflicts(r, s)]
    BY <1>2 DEF Commit
  <2>2. req[s] \in Request
    BY DEF TypeOK
  <2>3. /\ req'[s].pc = req[s].pc /\ req'[s].call = req[s].call
        /\ req'[s].after = req[s].after
        /\ req'[s].stale = (req[s].stale \/ Conflicts(r, s))
    BY <2>1, <2>2 DEF Request
  <2>4. InTransaction(s) /\ ~req[s].stale /\ ~Conflicts(r, s)
    BY <2>3 DEF InTransaction
  <2>5. PICK w \in Workspaces : w = req[s].call.ws
    BY <2>4, CallOf DEF InTransaction
  <2>6. ws'[w] = ws[w]
    BY <2>4, <2>5 DEF Conflicts, Commit, TypeOK
  <2>7. Fits(req[s].call, ws[w], req[s].after)
    BY <2>4, <2>5 DEF PermittedInv
  <2> QED BY <2>3, <2>5, <2>6, <2>7
<1> QED BY <1>1, <1>2

LEMMA PermittedStep == TypeOK /\ PermittedInv /\ [Next]_vars => PermittedInv'
<1> SUFFICES ASSUME TypeOK, PermittedInv, [Next]_vars PROVE PermittedInv'
  OBVIOUS
<1>1. ASSUME NEW r \in Requests, NEW c \in Calls, Arrive(r, c)
      PROVE  PermittedInv'
  <2>1. req'[r].pc = "arrived"
    BY <1>1 DEF Arrive, TypeOK, Idle
  <2> QED BY <1>1, <2>1, OthersPermitted DEF Arrive, TypeOK, InTransaction
<1>2. ASSUME NEW r \in Requests, UseCase(r) PROVE PermittedInv'
  <2>1. PICK after, t : /\ Proceed(r, after, t)
                        /\ Fits(req[r].call, ws[req[r].call.ws], after)
    BY <1>2, UseCaseFits
  <2>2. /\ req'[r].call = req[r].call /\ req'[r].after = after
        /\ UNCHANGED ws
        /\ \A s \in Requests : s # r => req'[s] = req[s]
    BY <2>1 DEF Proceed, TypeOK, Request
  <2>3. (Fits(req[r].call, ws[req[r].call.ws], req[r].after))'
    BY <2>1, <2>2
  <2> QED BY <2>2, <2>3, OthersPermitted
<1>3. ASSUME NEW r \in Requests, SavePermittables(r) PROVE PermittedInv'
  <2> DEFINE rows == [u \in Users |-> Row(r, u)]
  <2>1. /\ req[r].pc = "loaded" /\ UNCHANGED ws
        /\ req' = [req EXCEPT ![r].pc = "saving", ![r].rows = rows]
    BY <1>3 DEF SavePermittables
  <2> HIDE DEF rows
  <2>2. /\ req'[r].call = req[r].call /\ req'[r].after = req[r].after
        /\ req'[r].stale = req[r].stale
        /\ \A s \in Requests : s # r => req'[s] = req[s]
    BY <2>1 DEF TypeOK, Request
  <2>3. ASSUME ~req'[r].stale
        PROVE  (Fits(req[r].call, ws[req[r].call.ws], req[r].after))'
    <3>1. Fits(req[r].call, ws[req[r].call.ws], req[r].after)
      BY <2>1, <2>2, <2>3 DEF PermittedInv, InTransaction
    <3> QED BY <2>1, <2>2, <3>1
  <2> QED BY <2>1, <2>2, <2>3, OthersPermitted
<1>4. ASSUME NEW r \in Requests, Commit(r) PROVE PermittedInv'
  BY <1>4, CommitKeepsPermitted
<1>5. ASSUME NEW r \in Requests, Abort(r) PROVE PermittedInv'
  <2>1. req'[r].pc = "idle"
    BY <1>5 DEF Abort, TypeOK, Idle
  <2> QED BY <1>5, <2>1, OthersPermitted DEF Abort, TypeOK, InTransaction
<1>6. CASE UNCHANGED vars
  BY <1>6 DEF vars, PermittedInv, Permitted, InTransaction
<1> QED BY <1>1, <1>2, <1>3, <1>4, <1>5, <1>6 DEF Next

LEMMA PermittedInit == Init => PermittedInv
BY DEF Init, PermittedInv, InTransaction, Idle

\* What a step does to the workspaces: nothing, or a permitted change of the
\* one that a transaction commits.
CommitsPermitted(r) ==
    LET w == req[r].call.ws IN
    /\ Committing(r)
    /\ w \in Workspaces
    /\ Fits(req[r].call, ws[w], ws'[w])
    /\ \A x \in Workspaces \ {w} : ws'[x] = ws[x]
    /\ \A s \in Requests \ {r} : ~Committing(s)

LEMMA StepPermitted ==
    ASSUME Transactions = "snapshot", TypeOK, PermittedInv, [Next]_vars
    PROVE  UNCHANGED ws \/ \E r \in Requests : CommitsPermitted(r)
<1>1. ASSUME NEW r \in Requests, Commit(r) PROVE CommitsPermitted(r)
  <2>1. req[r].pc = "saving" /\ ~req[r].stale
    BY <1>1 DEF Commit
  <2>2. PICK w \in Workspaces : w = req[r].call.ws
    BY <2>1, CallOf
  <2>3. Fits(req[r].call, ws[w], req[r].after)
    BY <2>1, <2>2 DEF PermittedInv, InTransaction
  <2>4. ws'[w] = req[r].after /\ \A x \in Workspaces \ {w} : ws'[x] = ws[x]
    BY <1>1, <2>2 DEF Commit, TypeOK
  <2>5. Committing(r)
    BY <1>1, <2>1 DEF Commit, Committing, Idle
  <2>6. ASSUME NEW s \in Requests \ {r} PROVE ~Committing(s)
    <3>1. req'[s] = [req[s] EXCEPT !.stale = @ \/ Conflicts(r, s)]
      BY <1>1 DEF Commit
    <3>2. req'[s].pc = req[s].pc
      BY <3>1 DEF TypeOK, Request
    <3> QED BY <3>2 DEF Committing
  <2> QED BY <2>2, <2>3, <2>4, <2>5, <2>6 DEF CommitsPermitted
<1>2. ASSUME NEW r \in Requests, UseCase(r) PROVE UNCHANGED ws
  BY <1>2, UseCaseHandsOver DEF Handover, Proceed
<1> QED BY <1>1, <1>2 DEF Next, vars, Arrive, SavePermittables, Abort

-----------------------------------------------------------------------------
\* Under snapshot transactions a user becomes an owner of an existing workspace
\* only as the target of TransferOwnership, whatever runs at the same time.
THEOREM OwnersOnlyByTransfer ==
    ASSUME Transactions = "snapshot"
    PROVE  Spec => OnlyTransferGrantsOwner
<1> DEFINE A == \A w \in Workspaces, u \in Users :
                  /\ ws[w] # None /\ ws'[w] # None
                  /\ ws[w].members[u] # "owner" /\ ws'[w].members[u] = "owner"
                  => \E r \in Requests :
                       /\ Committing(r)
                       /\ req[r].call.op = "transfer" /\ req[r].call.ws = w
                       /\ req[r].call.targets[1] = u
<1>1. TypeOK /\ PermittedInv /\ [Next]_vars => [A]_vars
  <2> SUFFICES ASSUME TypeOK, PermittedInv, [Next]_vars,
                      NEW w \in Workspaces, NEW u \in Users,
                      ws[w] # None, ws'[w] # None,
                      ws[w].members[u] # "owner", ws'[w].members[u] = "owner"
               PROVE  \E r \in Requests :
                        /\ Committing(r)
                        /\ req[r].call.op = "transfer" /\ req[r].call.ws = w
                        /\ req[r].call.targets[1] = u
    OBVIOUS
  <2>1. PICK r \in Requests : CommitsPermitted(r)
    BY StepPermitted
  <2>2. req[r].call.ws = w /\ Committing(r)
    BY <2>1 DEF CommitsPermitted
  <2>3. MayBecome(req[r].call, ws[w].members, ws'[w].members)
    BY <2>1, <2>2 DEF CommitsPermitted, Fits, Permitted
  <2> QED BY <2>2, <2>3 DEF MayBecome
<1> QED BY <1>1, TypeInit, TypeStep, PermittedInit, PermittedStep, PTL
        DEF Spec, OnlyTransferGrantsOwner

\* Under snapshot transactions no request raises the role of the member who
\* makes it, the service route and transfers apart.
THEOREM NobodyRises ==
    ASSUME Transactions = "snapshot"
    PROVE  Spec => NoSelfPromotion
<1> DEFINE A == \A w \in Workspaces, u \in Users, r \in Requests :
                  /\ Committing(r)
                  /\ req[r].call.caller = u /\ req[r].call.ws = w
                  /\ req[r].call.op \notin {"updateViaService", "transfer"}
                  /\ UserRole(w, u) # None /\ UserRole(w, u)' # None
                  => Includes(UserRole(w, u), UserRole(w, u)')
<1>1. TypeOK /\ PermittedInv /\ [Next]_vars => [A]_vars
  <2> SUFFICES ASSUME TypeOK, PermittedInv, [Next]_vars,
                      NEW w \in Workspaces, NEW u \in Users, NEW r \in Requests,
                      Committing(r),
                      req[r].call.caller = u, req[r].call.ws = w,
                      req[r].call.op \notin {"updateViaService", "transfer"},
                      UserRole(w, u) # None, UserRole(w, u)' # None
               PROVE  Includes(UserRole(w, u), UserRole(w, u)')
    OBVIOUS
  <2>1. /\ ws[w] # None /\ ws'[w] # None
        /\ UserRole(w, u) = ws[w].members[u]
        /\ UserRole(w, u)' = ws'[w].members[u]
    BY DEF UserRole
  <2>2. CASE UNCHANGED ws
    BY <2>1, <2>2, UserRoleType, IncludesItself
  <2>3. CASE \E s \in Requests : CommitsPermitted(s)
    <3>1. CommitsPermitted(r)
      BY <2>3 DEF CommitsPermitted
    <3>2. MayBecome(req[r].call, ws[w].members, ws'[w].members)
      BY <2>1, <3>1 DEF CommitsPermitted, Fits, Permitted
    <3> QED BY <2>1, <3>2 DEF MayBecome
  <2> QED BY <2>2, <2>3, StepPermitted
<1> QED BY <1>1, TypeInit, TypeStep, PermittedInit, PermittedStep, PTL
        DEF Spec, NoSelfPromotion

\* Under snapshot transactions an owner who leaves leaves another owner behind,
\* although two owners may leave at the same time.
THEOREM LeaverLeavesAnOwner ==
    ASSUME Transactions = "snapshot"
    PROVE  Spec => LastOwnerStays
<1> DEFINE A == \A w \in Workspaces, u \in Users, r \in Requests :
                  /\ Committing(r)
                  /\ req[r].call.op = "removeMembers" /\ req[r].call.ws = w
                  /\ req[r].call.caller = u /\ req[r].call.targets = <<u>>
                  /\ UserRole(w, u) = "owner" /\ UserRole(w, u)' = None
                  => HasOwner(w)'
<1>1. TypeOK /\ PermittedInv /\ [Next]_vars => [A]_vars
  <2> SUFFICES ASSUME TypeOK, PermittedInv, [Next]_vars,
                      NEW w \in Workspaces, NEW u \in Users, NEW r \in Requests,
                      Committing(r),
                      req[r].call.op = "removeMembers", req[r].call.ws = w,
                      req[r].call.caller = u, req[r].call.targets = <<u>>,
                      UserRole(w, u) = "owner", UserRole(w, u)' = None
               PROVE  HasOwner(w)'
    OBVIOUS
  <2>1. "owner" # None
    BY MembershipAssumption DEF Roles
  <2>2. ws[w] # None /\ ws[w].members[u] = "owner"
    BY <2>1 DEF UserRole
  <2>3. CASE UNCHANGED ws
    BY <2>1, <2>3 DEF UserRole
  <2>4. CASE \E s \in Requests : CommitsPermitted(s)
    <3>1. CommitsPermitted(r)
      BY <2>4 DEF CommitsPermitted
    <3>2. ws'[w] # None /\ MayBecome(req[r].call, ws[w].members, ws'[w].members)
      BY <2>2, <3>1 DEF CommitsPermitted, Fits, Permitted
    <3>3. \E v \in Users : ws'[w].members[v] = "owner"
      BY <2>2, <3>2 DEF MayBecome
    <3> QED BY <3>2, <3>3 DEF HasOwner, UserRole
  <2> QED BY <2>3, <2>4, StepPermitted
<1> QED BY <1>1, TypeInit, TypeStep, PermittedInit, PermittedStep, PTL
        DEF Spec, LastOwnerStays

\* Under snapshot transactions no use case undoes, by saving the whole
\* workspace, what another has done to its members or to its integrations.
THEOREM NothingUndone ==
    ASSUME Transactions = "snapshot"
    PROVE  Spec => OtherPartKept
<1> DEFINE A == \A w \in Workspaces :
                  ws[w] # None /\ ws'[w] # None =>
                    \/ ws'[w].members = ws[w].members
                    \/ ws'[w].integrations = ws[w].integrations
<1>1. TypeOK /\ PermittedInv /\ [Next]_vars => [A]_vars
  <2> SUFFICES ASSUME TypeOK, PermittedInv, [Next]_vars PROVE A
    OBVIOUS
  <2>1. CASE UNCHANGED ws
    BY <2>1
  <2>2. ASSUME NEW r \in Requests, CommitsPermitted(r) PROVE A
    BY <2>2 DEF CommitsPermitted, Fits, Permitted
  <2> QED BY <2>1, <2>2, StepPermitted
<1> QED BY <1>1, TypeInit, TypeStep, PermittedInit, PermittedStep, PTL
        DEF Spec, OtherPartKept

-----------------------------------------------------------------------------
(* Overlapping transactions do what Memberships does one call at a time: a *)
(* commit is its step, every other step and a commit that changes nothing  *)
(* are stutters.                                                           *)

\* Permittables that agree with the members are all that Memberships has.
LEMMA AgreeGranted ==
    ASSUME TypeOK, RolesAgree
    PROVE  perm = Serial!Granted(ws)
<1>1. /\ perm \in [Users -> [Workspaces -> Roles \cup {None}]]
      /\ \A u \in Users, w \in Workspaces : perm[u][w] = UserRole(w, u)
  BY DEF TypeOK, WorkspaceRoles, RolesAgree
<1>2. \A u \in Users, w \in Workspaces : UserRole(w, u) = Serial!RoleIn(ws[w], u)
  BY DEF UserRole, Serial!RoleIn
<1>3. ASSUME NEW u \in Users
      PROVE  perm[u] = [w \in Workspaces |-> Serial!RoleIn(ws[w], u)]
  BY <1>1, <1>2
<1>4. perm = [u \in Users |-> perm[u]]
  BY <1>1
<1> QED BY <1>3, <1>4 DEF Serial!Granted

LEMMA SerialInit == Init => Serial!Init
<1> SUFFICES ASSUME Init PROVE Serial!Init
  OBVIOUS
<1>1. TypeOK /\ RolesAgree
  BY AgreeInit DEF AgreeInv
<1> QED BY <1>1, AgreeGranted DEF Init, Serial!Init

LEMMA SerialStep ==
    ASSUME Transactions = "snapshot",
           AgreeInv, AgreeInv', PermittedInv, [Next]_vars
    PROVE  [Serial!Next]_<<ws, perm>>
<1>1. TypeOK /\ RolesAgree /\ perm = Serial!Granted(ws)
  BY AgreeGranted DEF AgreeInv
<1>2. perm' = Serial!Granted(ws')
  <2>1. /\ perm' \in [Users -> [Workspaces -> Roles \cup {None}]]
        /\ \A u \in Users, w \in Workspaces : perm'[u][w] = Serial!RoleIn(ws'[w], u)
    BY DEF AgreeInv, TypeOK, WorkspaceRoles, RolesAgree, UserRole, Serial!RoleIn
  <2>2. ASSUME NEW u \in Users
        PROVE  perm'[u] = [w \in Workspaces |-> Serial!RoleIn(ws'[w], u)]
    BY <2>1
  <2>3. perm' = [u \in Users |-> perm'[u]]
    BY <2>1
  <2> QED BY <2>2, <2>3 DEF Serial!Granted
<1>3. CASE UNCHANGED ws
  BY <1>1, <1>2, <1>3
<1>4. ASSUME ws' # ws, NEW r \in Requests, CommitsPermitted(r)
      PROVE  Serial!Next
  <2>1. PICK c : c = req[r].call
    OBVIOUS
  <2>2. /\ req[r].pc # "idle" /\ c.ws \in Workspaces
        /\ Serial!Serves(c, ws[c.ws], ws'[c.ws])
        /\ \A x \in Workspaces \ {c.ws} : ws'[x] = ws[x]
    BY <1>4, <2>1 DEF CommitsPermitted, Committing, Fits
  <2>3. c \in Calls
    BY <1>1, <2>1, <2>2, CallOf
  <2>4. /\ ws \in [Workspaces -> Workspace \cup {None}]
        /\ ws' \in [Workspaces -> Workspace \cup {None}]
    BY DEF AgreeInv, TypeOK
  <2>5. ws' = [ws EXCEPT ![c.ws] = ws'[c.ws]]
    BY <2>2, <2>4
  <2> QED BY <1>2, <1>4, <2>2, <2>3, <2>5 DEF Serial!Next
<1> QED BY <1>1, <1>3, <1>4, StepPermitted

\* Under snapshot transactions the workspace interactor serves its calls one at
\* a time: whatever runs at the same time, what a transaction commits is the use
\* case applied to the workspace as it is stored then, with the permittables of
\* the members following in the same moment.
THEOREM MembershipsAreSerial ==
    ASSUME Transactions = "snapshot"
    PROVE  Spec => ServedOneByOne
<1>1. AgreeInv /\ AgreeInv' /\ PermittedInv /\ [Next]_vars
        => [Serial!Next]_<<ws, perm>>
  BY SerialStep
<1>2. AgreeInv => TypeOK
  BY DEF AgreeInv
<1> QED BY <1>1, <1>2, SerialInit, AgreeInit, AgreeStep, PermittedInit,
           PermittedStep, PTL DEF Spec, ServedOneByOne, Serial!Spec

-----------------------------------------------------------------------------
(* Owners stay, in both kinds of transactions, as long as nobody uses the  *)
(* operations that take another one's ownership: what every transaction    *)
(* saves has an owner, so it does not matter whose copy is the last.       *)

\* UpdateUserMember, and RemoveMultipleUserMembers on others, may take the last
\* owner's role.
Guarded(c) ==
    /\ c.op # "updateMember"
    /\ c.op = "create" => c.targets # <<>>
    /\ c.op = "removeMembers" => c.targets = <<c.caller>>
    /\ c.op = "transfer" => c.targets[1] # c.caller

Owned(x) == x # None => \E u \in Users : x.members[u] = "owner"

OwnedInv ==
    /\ \A w \in Workspaces : Owned(ws[w])
    /\ \A r \in Requests : InTransaction(r) => Owned(req[r].after)

\* Members among whom is an owner make an owned workspace.
LEMMA MembersOwned ==
    ASSUME TypeOK, NEW r \in Requests, req[r].pc = "arrived",
           ws[req[r].call.ws] # None,
           NEW m \in [Users -> Roles \cup {None}],
           NEW u \in Users, m[u] = "owner"
    PROVE  Owned(WithMembers(r, m))
BY WithMembersType DEF Owned

LEMMA UseCaseOwned ==
    ASSUME TypeOK, OwnedInv, NEW r \in Requests, UseCase(r), Guarded(req[r].call)
    PROVE  \E after, t : Proceed(r, after, t) /\ Owned(after)
<1> DEFINE c == req[r].call
           w == c.ws
           old == ws[w].members
           targets == {c.targets[i] : i \in DOMAIN c.targets}
<1>0. req[r].pc = "arrived"
  BY UseCaseHandsOver DEF Handover
<1>1. /\ c \in Calls /\ w \in Workspaces /\ c.targets \in Seq(Users)
      /\ c.caller \in Users /\ c.role \in Roles
  BY <1>0, CallOf
<1>2. ASSUME c.targets # <<>> PROVE c.targets[1] \in Users /\ c.targets[1] \in targets
  BY <1>1, <1>2
<1>3. c.op \in {"updateViaService", "transfer"} => c.targets # <<>>
  BY <1>1, CallsAssumption
<1>4. ASSUME ws[w] # None
      PROVE  /\ ws[w] \in Workspace
             /\ old \in [Users -> Roles \cup {None}]
             /\ \A u \in Users : old[u] = UserRole(w, u)
             /\ \E u \in Users : old[u] = "owner"
  BY <1>1, <1>4, MembersOf DEF OwnedInv, Owned
<1>5. None \notin Roles /\ {"owner", "maintainer"} \subseteq Roles
  BY MembershipAssumption DEF Roles
\* Copies whose members stay.
<1>6. ASSUME ws[w] # None, NEW y, y.members = old PROVE Owned(y)
  BY <1>4, <1>6 DEF Owned
<1>7. CASE Create(r)
  <2> DEFINE x == [members |-> [u \in Users |-> IF u \in targets
                                                  THEN "owner" ELSE None],
                   integrations |-> [i \in Integrations |-> None],
                   deleted |-> FALSE]
  <2>1. c.op = "create" /\ Proceed(r, x, targets)
    BY <1>7 DEF Create
  <2>2. c.targets[1] \in Users /\ c.targets[1] \in targets
    BY <1>2, <2>1 DEF Guarded
  <2>3. x.members[c.targets[1]] = "owner"
    BY <2>2
  <2>4. Owned(x)
    BY <2>2, <2>3 DEF Owned
  <2> QED BY <2>1, <2>4
<1>8. CASE AddUserMember(r)
  <2> DEFINE m == [u \in Users |-> IF u \in targets THEN c.role
                                                    ELSE UserRole(w, u)]
  <2>1. /\ ws[w] # None /\ Proceed(r, WithMembers(r, m), targets)
        /\ \A u \in targets : UserRole(w, u) = None
    BY <1>8 DEF AddUserMember, Loads
  <2>2. PICK v \in Users : old[v] = "owner"
    BY <1>4, <2>1
  <2>3. v \notin targets /\ UserRole(w, v) = "owner"
    BY <1>4, <1>5, <2>1, <2>2
  <2>4. m \in [Users -> Roles \cup {None}] /\ m[v] = "owner"
    BY <1>1, <1>4, <2>1, <2>3
  <2> HIDE DEF m
  <2>5. Owned(WithMembers(r, m))
    BY <1>0, <2>1, <2>4, MembersOwned
  <2> QED BY <2>1, <2>5
<1>9. CASE RemoveUserMembers(r)
  <2> DEFINE m == [u \in Users |-> IF u \in targets THEN None
                                                    ELSE UserRole(w, u)]
  <2>1. /\ c.op = "removeMembers" /\ ws[w] # None
        /\ ~LeavesAsOnlyOwner(r)
        /\ Proceed(r, WithMembers(r, m), targets)
    BY <1>9 DEF RemoveUserMembers, Loads
  <2>2. c.targets = <<c.caller>> /\ DOMAIN c.targets = {1}
        /\ targets = {c.caller} /\ c.targets[1] = c.caller
    BY <2>1 DEF Guarded
  <2>3. PICK v \in Users \ {c.caller} : UserRole(w, v) = "owner"
    <3>1. CASE UserRole(w, c.caller) = "owner"
      BY <1>1, <2>1, <2>2, <3>1 DEF LeavesAsOnlyOwner
    <3>2. CASE UserRole(w, c.caller) # "owner"
      BY <1>1, <1>4, <2>1, <3>2
    <3> QED BY <3>1, <3>2
  <2>4. m \in [Users -> Roles \cup {None}] /\ m[v] = "owner"
    BY <1>4, <2>1, <2>2, <2>3
  <2> HIDE DEF m
  <2>5. Owned(WithMembers(r, m))
    BY <1>0, <2>1, <2>4, MembersOwned
  <2> QED BY <2>1, <2>5
<1>10. CASE UpdateUserMember(r)
  BY <1>10 DEF UpdateUserMember, Loads, Guarded
<1>11. CASE UpdateUserMemberViaService(r)
  <2> DEFINE u == c.targets[1]
             m == [old EXCEPT ![u] = c.role]
  <2>1. /\ c.op = "updateViaService" /\ ws[w] # None
        /\ ~IsOnlyOwner(old, u)
        /\ Proceed(r, WithMembers(r, m), {u})
    BY <1>11 DEF UpdateUserMemberViaService, Loads, ChangeRole
  <2>2. u \in Users /\ old \in [Users -> Roles \cup {None}]
    BY <1>2, <1>3, <1>4, <2>1
  <2> HIDE DEF u
  <2>3. PICK v \in Users : v # u /\ old[v] = "owner"
    BY <1>4, <2>1, <2>2 DEF IsOnlyOwner
  <2> HIDE DEF old
  <2>4. m \in [Users -> Roles \cup {None}] /\ m[v] = "owner"
    BY <1>1, <2>2, <2>3
  <2> HIDE DEF m
  <2>5. Owned(WithMembers(r, m))
    BY <1>0, <2>1, <2>4, MembersOwned
  <2> QED BY <2>1, <2>5
<1>12. CASE TransferOwnership(r)
  <2> DEFINE u == c.targets[1]
             m == [old EXCEPT ![u] = "owner", ![c.caller] = "maintainer"]
  <2>1. /\ c.op = "transfer" /\ ws[w] # None
        /\ Proceed(r, WithMembers(r, m), {u, c.caller})
    BY <1>12 DEF TransferOwnership, Loads
  <2>2. u \in Users /\ u # c.caller /\ old \in [Users -> Roles \cup {None}]
    BY <1>2, <1>3, <1>4, <2>1 DEF Guarded
  <2> HIDE DEF u, old
  <2>3. m \in [Users -> Roles \cup {None}] /\ m[u] = "owner"
    BY <1>1, <1>5, <2>2
  <2> HIDE DEF m
  <2>4. Owned(WithMembers(r, m))
    BY <1>0, <2>1, <2>2, <2>3, MembersOwned
  <2> QED BY <2>1, <2>4
<1>13. CASE Remove(r)
  BY <1>13 DEF Remove, Owned
<1>14. CASE Update(r)
  <2>1. ws[w] # None /\ Proceed(r, ws[w], {})
    BY <1>14 DEF Update, Loads
  <2> QED BY <1>6, <2>1
<1>15. CASE Deactivate(r) \/ Restore(r)
  <2>1. PICK d \in BOOLEAN :
          ws[w] # None /\ Proceed(r, [ws[w] EXCEPT !.deleted = d], {})
    BY <1>15 DEF Deactivate, Restore, Loads
  <2> DEFINE x == ws[w]
             y == [x EXCEPT !.deleted = d]
  <2>2. x \in Workspace /\ Proceed(r, y, {})
    BY <1>4, <2>1
  <2> HIDE DEF x
  <2>3. y.members = x.members
    BY <2>2 DEF Workspace
  <2> HIDE DEF y
  <2> QED BY <1>6, <2>1, <2>2, <2>3 DEF x
<1>16. CASE ChangesIntegrations(r)
  <2>1. ws[w] # None
    BY <1>16, IntegrationsChanged
  <2>2. PICK f \in [Integrations -> Roles \cup {None}] :
          Proceed(r, WithIntegrations(r, f), {})
    BY <1>16, IntegrationsChanged
  <2> DEFINE x == ws[w]
             y == [x EXCEPT !.integrations = f]
  <2>3. x \in Workspace /\ Proceed(r, y, {})
    BY <1>4, <2>1, <2>2 DEF WithIntegrations
  <2> HIDE DEF x
  <2>4. y.members = x.members
    BY <2>3 DEF Workspace
  <2> HIDE DEF y
  <2> QED BY <1>6, <2>1, <2>3, <2>4 DEF x
<1> QED BY <1>7, <1>8, <1>9, <1>10, <1>11, <1>12, <1>13, <1>14, <1>15, <1>16
        DEF UseCase, ChangesIntegrations

LEMMA OwnedStep ==
    ASSUME \A c \in Calls : Guarded(c)
    PROVE  TypeOK /\ OwnedInv /\ [Next]_vars => OwnedInv'
<1> SUFFICES ASSUME TypeOK, OwnedInv, [Next]_vars PROVE OwnedInv'
  OBVIOUS
\* Steps of r that leave the workspaces alone.
<1>a. ASSUME NEW r \in Requests, UNCHANGED ws,
             \A s \in Requests : s # r => req'[s] = req[s],
             InTransaction(r)' => Owned(req'[r].after)
      PROVE  OwnedInv'
  BY <1>a DEF OwnedInv, Owned, InTransaction
<1>1. ASSUME NEW r \in Requests, NEW c \in Calls, Arrive(r, c)
      PROVE  OwnedInv'
  <2>1. req'[r].pc = "arrived"
    BY <1>1 DEF Arrive, TypeOK, Idle
  <2> QED BY <1>1, <1>a, <2>1 DEF Arrive, TypeOK, InTransaction
<1>2. ASSUME NEW r \in Requests, UseCase(r) PROVE OwnedInv'
  <2>1. req[r].call \in Calls
    BY <1>2, UseCaseHandsOver, CallOf DEF Handover
  <2>2. PICK after, t : Proceed(r, after, t) /\ Owned(after)
    BY <1>2, <2>1, UseCaseOwned
  <2>3. req'[r].after = after /\ UNCHANGED ws
        /\ \A s \in Requests : s # r => req'[s] = req[s]
    BY <2>2 DEF Proceed, TypeOK, Request
  <2> QED BY <1>a, <2>2, <2>3
<1>3. ASSUME NEW r \in Requests, SavePermittables(r) PROVE OwnedInv'
  <2> DEFINE rows == [u \in Users |-> Row(r, u)]
  <2>1. /\ req[r].pc = "loaded" /\ UNCHANGED ws
        /\ req' = [req EXCEPT ![r].pc = "saving", ![r].rows = rows]
    BY <1>3 DEF SavePermittables
  <2> HIDE DEF rows
  <2>2. /\ req'[r].after = req[r].after
        /\ \A s \in Requests : s # r => req'[s] = req[s]
    BY <2>1 DEF TypeOK, Request
  <2>3. Owned(req[r].after)
    BY <2>1 DEF OwnedInv, InTransaction
  <2> QED BY <1>a, <2>1, <2>2, <2>3
<1>4. ASSUME NEW r \in Requests, Commit(r) PROVE OwnedInv'
  <2>1. Owned(req[r].after)
    BY <1>4 DEF Commit, OwnedInv, InTransaction
  <2>2. \A w \in Workspaces : ws'[w] = ws[w] \/ ws'[w] = req[r].after
    BY <1>4 DEF Commit, TypeOK
  <2>3. ASSUME NEW s \in Requests, InTransaction(s)'
        PROVE  InTransaction(s) /\ req'[s].after = req[s].after
    <3>1. s # r
      BY <1>4, <2>3 DEF Commit, InTransaction, Idle
    <3>2. req'[s] = [req[s] EXCEPT !.stale = @ \/ Conflicts(r, s)]
      BY <1>4, <3>1 DEF Commit
    <3>3. req'[s].pc = req[s].pc /\ req'[s].after = req[s].after
      BY <3>2 DEF TypeOK, Request
    <3> QED BY <2>3, <3>3 DEF InTransaction
  <2> QED BY <2>1, <2>2, <2>3 DEF OwnedInv, Owned
<1>5. ASSUME NEW r \in Requests, Abort(r) PROVE OwnedInv'
  <2>1. req'[r].pc = "idle"
    BY <1>5 DEF Abort, TypeOK, Idle
  <2> QED BY <1>5, <1>a, <2>1 DEF Abort, TypeOK, InTransaction
<1>6. CASE UNCHANGED vars
  BY <1>6 DEF vars, OwnedInv, Owned, InTransaction
<1> QED BY <1>1, <1>2, <1>3, <1>4, <1>5, <1>6 DEF Next

\* In either kind of transactions, also where the last writer wins, workspaces
\* that start with an owner keep one until they are removed, if nobody calls
\* the operations that change or remove other owners.
THEOREM GuardedKeepOwner ==
    ASSUME \A c \in Calls : Guarded(c),
           \A w \in Workspaces : Owned(Seeded[w])
    PROVE  Spec => OwnerKept
<1> DEFINE A == \A w \in Workspaces :
                  HasOwner(w) => HasOwner(w)' \/ ws'[w] = None
<1>1. Init => OwnedInv
  BY DEF Init, OwnedInv, InTransaction, Idle
<1>2. TypeOK /\ OwnedInv' => [A]_vars
  BY DEF OwnedInv, Owned, HasOwner, UserRole
<1> QED BY <1>1, <1>2, OwnedStep, TypeInit, TypeStep, PTL DEF Spec, OwnerKept
=============================================================================
