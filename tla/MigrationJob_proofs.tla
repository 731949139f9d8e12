------------------------ MODULE MigrationJob_proofs ------------------------
(***************************************************************************)
(* Proofs about MigrationJob, for any number of jobs that overlap, stop    *)
(* anywhere and are repeated, next to any number of role changes by the    *)
(* server: JobInv is inductive, so versions are recorded in order and a    *)
(* recorded migration has been carried out.                                *)
(***************************************************************************)
EXTENDS MigrationJob, TLAPS

\* A permittable is not None, and neither is any id.
LEMMA NotNone ==
    /\ \A p \in Perm : p # None
    /\ \A r \in RoleIDs : r # None /\ r[1] \in Names
    /\ \A n \in Names : n # None
BY JobAssumption DEF RoleIDs

LEMMA JobInvInit == Init => JobInv
<1> SUFFICES ASSUME Init PROVE JobInv
  OBVIOUS
<1> USE JobAssumption DEF Init
<1>1. roles \subseteq RoleIDs
  BY DEF RoleIDs
<1>2. perms \in [PermIDs -> Perm \cup {None}]
  <2>1. PICK old \in Recorded :
          perms = [p \in PermIDs |->
                     IF p[2] = Old /\ p[1] \in old
                       THEN [global |-> {}, scoped |-> Workspaces \X roles]
                       ELSE None]
    OBVIOUS
  <2>2. Workspaces \X roles \in SUBSET (Workspaces \X RoleIDs)
    BY <1>1
  <2>3. [global |-> {}, scoped |-> Workspaces \X roles] \in Perm
    BY <2>2 DEF Perm
  <2> QED BY <2>1, <2>3
<1>3. TypeOK
  BY <1>1, <1>2 DEF TypeOK, LastVersion
<1>4. LocalsOK
  BY DEF LocalsOK, EmptyTodo
<1>5. RecordedIsDone
  BY DEF RecordedIsDone
<1>6. \A j \in Jobs : RunnerInv(j) /\ LocalInv(j) /\ PlanInv(j)
  BY DEF RunnerInv, LocalInv, PlanInv, Migrating
<1> QED BY <1>3, <1>4, <1>5, <1>6 DEF JobInv

-----------------------------------------------------------------------------
\* Every step keeps roles, permittables and memberships.
Kept ==
    /\ roles \subseteq roles'
    /\ \A u \in Users : PermsOf(u) \subseteq PermsOf(u)'
    /\ \A u \in Users, w \in Workspaces : MemberOf(u, w)' <=> MemberOf(u, w)

\* What was done stays done.
LEMMA DoneStays ==
    ASSUME RecordedIsDone, Kept, version' = version
    PROVE  RecordedIsDone'
<1>1. \A n \in Names : Named(n) \subseteq Named(n)'
  BY DEF Kept, Named
<1> QED BY <1>1 DEF RecordedIsDone, Kept

\* A job is not touched by the steps of others.
LEMMA OthersInv ==
    ASSUME JobInv, Kept, NEW k \in Jobs,
           UNCHANGED <<pc[k], maintainer[k], draft[k], current[k], byName[k], seen[k], todo[k]>>,
           pc[k] \in Migrating => runner' = runner /\ version' = version
    PROVE  RunnerInv(k)' /\ LocalInv(k)' /\ PlanInv(k)'
<1>1. RunnerInv(k)'
  BY DEF JobInv, RunnerInv
<1>2. LocalInv(k)'
  <2>1. \A n \in Names : Named(n) \subseteq Named(n)'
    BY DEF Kept, Named
  <2> QED BY <2>1 DEF JobInv, LocalInv
<1>3. PlanInv(k)'
  BY DEF JobInv, PlanInv, Kept
<1> QED BY <1>1, <1>2, <1>3

\* Steps that leave the collections alone keep them.
LEMMA KeptAlone ==
    ASSUME UNCHANGED <<roles, perms, members>>
    PROVE  Kept
BY DEF Kept, PermsOf, MemberOf

\* Saving a permittable keeps all there are.
LEMMA KeptSave ==
    ASSUME TypeOK, UNCHANGED <<roles, members>>, NEW p \in PermIDs, NEW d \in Perm,
           perms' = [perms EXCEPT ![p] = d]
    PROVE  Kept /\ perms' \in [PermIDs -> Perm \cup {None}] /\ p \in PermsOf(p[1])'
<1>1. perms' \in [PermIDs -> Perm \cup {None}]
  BY DEF TypeOK
<1>2. \A q \in PermIDs : perms[q] # None => perms'[q] # None
  BY NotNone DEF TypeOK
<1>3. perms'[p] # None
  BY NotNone DEF TypeOK
<1>4. Kept
  BY <1>2 DEF Kept, PermsOf, MemberOf
<1> QED BY <1>1, <1>3, <1>4 DEF PermsOf

\* Adding a role keeps all there are.
LEMMA KeptRole ==
    ASSUME TypeOK, UNCHANGED <<perms, members>>, NEW r \in RoleIDs,
           roles' = roles \cup {r}
    PROVE  Kept /\ roles' \subseteq RoleIDs
BY DEF TypeOK, Kept, PermsOf, MemberOf

-----------------------------------------------------------------------------
\* The steps of runMigration.

LEMMA StartInv == ASSUME JobInv, NEW j \in Jobs, Start(j) PROVE JobInv'
<1>1. UNCHANGED <<roles, perms, members, version, runner, locals>>
  BY DEF Start, store
<1>2. Kept
  BY <1>1, KeptAlone
<1>3. TypeOK' /\ LocalsOK' /\ RecordedIsDone'
  BY <1>1, <1>2, DoneStays DEF JobInv, TypeOK, LocalsOK, locals, Start, Goto
<1>4. \A k \in Jobs : k # j => RunnerInv(k)' /\ LocalInv(k)' /\ PlanInv(k)'
  BY <1>1, <1>2, OthersInv DEF JobInv, TypeOK, locals, Start, Goto
<1>5. RunnerInv(j)' /\ LocalInv(j)' /\ PlanInv(j)'
  BY <1>1 DEF JobInv, TypeOK, RunnerInv, LocalInv, PlanInv, Migrating, locals, Start, Goto
<1> QED BY <1>3, <1>4, <1>5 DEF JobInv

\* A job that knows its role id is ready to go through the members.
LEMMA WithRoleInv ==
    ASSUME JobInv, NEW j \in Jobs, NEW r \in RoleIDs, WithRole(j, r), Kept,
           pc[j] \in {"findRole", "createRole"}, roles' \subseteq RoleIDs,
           UNCHANGED <<perms, members, version, runner, draft, current, byName, seen, todo>>
    PROVE  JobInv'
<1>1. TypeOK' /\ LocalsOK' /\ RecordedIsDone'
  BY DoneStays DEF JobInv, TypeOK, LocalsOK, WithRole, Goto, Migrating
<1>2. \A k \in Jobs : k # j => RunnerInv(k)' /\ LocalInv(k)' /\ PlanInv(k)'
  BY OthersInv DEF JobInv, TypeOK, LocalsOK, WithRole, Goto
<1>3. pc'[j] = "ensure" /\ maintainer'[j] = r
  BY DEF JobInv, TypeOK, LocalsOK, WithRole, Goto
<1>4. RunnerInv(j)' /\ LocalInv(j)' /\ PlanInv(j)'
  BY <1>3 DEF JobInv, RunnerInv, LocalInv, PlanInv, Migrating
<1> QED BY <1>1, <1>2, <1>4 DEF JobInv

LEMMA FindRoleInv == ASSUME JobInv, NEW j \in Jobs, FindRole(j) PROVE JobInv'
<1>1. UNCHANGED <<roles, perms, members, version, runner, draft, current, byName, seen, todo>>
  BY DEF FindRole, store
<1>2. Kept
  BY <1>1, KeptAlone
<1>3. ASSUME NEW r \in Named(Maintainer), WithRole(j, r) PROVE JobInv'
  <2>1. r \in RoleIDs /\ pc[j] = "findRole" /\ roles' \subseteq RoleIDs
    BY <1>1 DEF JobInv, TypeOK, Named, FindRole
  <2> QED BY <1>1, <1>2, <1>3, <2>1, WithRoleInv
<1>4. CASE Goto(j, "createRole") /\ UNCHANGED <<maintainer, queue>>
  <2>1. TypeOK' /\ LocalsOK' /\ RecordedIsDone'
    BY <1>1, <1>2, <1>4, DoneStays DEF JobInv, TypeOK, LocalsOK, Goto
  <2>2. \A k \in Jobs : k # j => RunnerInv(k)' /\ LocalInv(k)' /\ PlanInv(k)'
    BY <1>1, <1>2, <1>4, OthersInv DEF JobInv, TypeOK, Goto
  <2>3. RunnerInv(j)' /\ LocalInv(j)' /\ PlanInv(j)'
    BY <1>1, <1>4 DEF JobInv, TypeOK, RunnerInv, LocalInv, PlanInv, Migrating, Goto, FindRole
  <2> QED BY <2>1, <2>2, <2>3 DEF JobInv
<1> QED BY <1>3, <1>4 DEF FindRole

LEMMA CreateRoleInv == ASSUME JobInv, NEW j \in Jobs, CreateRole(j) PROVE JobInv'
<1>1. <<Maintainer, j>> \in RoleIDs
  BY JobAssumption DEF RoleIDs
<1>2. Kept /\ roles' \subseteq RoleIDs
  BY <1>1, KeptRole DEF JobInv, CreateRole
<1>3. /\ WithRole(j, <<Maintainer, j>>) /\ pc[j] = "createRole"
      /\ UNCHANGED <<perms, members, version, runner, draft, current, byName, seen, todo>>
  BY DEF CreateRole
<1> QED BY <1>1, <1>2, <1>3, WithRoleInv

\* The copy that is going to be saved is a permittable.
LEMMA EnsureLoadInv == ASSUME JobInv, NEW j \in Jobs, EnsureLoad(j) PROVE JobInv'
<1>1. /\ UNCHANGED <<roles, perms, members, version, runner, maintainer, current, byName, seen, todo>>
      /\ pc[j] = "ensure" /\ maintainer[j] \in RoleIDs
  BY DEF EnsureLoad, store, JobInv, LocalInv
<1>2. Kept
  BY <1>1, KeptAlone
<1>3. PICK u \in queue[j] :
        /\ queue' = [queue EXCEPT ![j] = @ \ {u}]
        /\ \/ \E p \in PermsOf(u) :
                IF maintainer[j] \in perms[p].global
                  THEN UNCHANGED <<pc, draft>>
                  ELSE /\ draft' = [draft EXCEPT ![j] =
                             <<p, [perms[p] EXCEPT !.global = @ \cup {maintainer[j]}]>>]
                       /\ Goto(j, "ensureSave")
           \/ /\ PermsOf(u) = {}
              /\ draft' = [draft EXCEPT ![j] =
                    <<<<u, j>>, [global |-> {maintainer[j]}, scoped |-> {}]>>]
              /\ Goto(j, "ensureSave")
  BY DEF EnsureLoad
<1>4. u \in Users
  BY DEF JobInv, LocalsOK
<1>5. \/ UNCHANGED <<pc, draft>>
      \/ /\ Goto(j, "ensureSave")
         /\ \E d \in PermIDs \X Perm : draft' = [draft EXCEPT ![j] = d]
  <2>1. CASE PermsOf(u) = {}
    <3>1. <<u, j>> \in PermIDs /\ [global |-> {maintainer[j]}, scoped |-> {}] \in Perm
      BY <1>1, <1>4 DEF PermIDs, Perm
    <3>2. Goto(j, "ensureSave") /\ draft' = [draft EXCEPT ![j] =
                    <<<<u, j>>, [global |-> {maintainer[j]}, scoped |-> {}]>>]
      BY <1>3, <2>1
    <3> QED BY <3>1, <3>2
  <2>2. ASSUME NEW p \in PermsOf(u), maintainer[j] \notin perms[p].global,
               draft' = [draft EXCEPT ![j] =
                             <<p, [perms[p] EXCEPT !.global = @ \cup {maintainer[j]}]>>],
               Goto(j, "ensureSave")
        PROVE  \E d \in PermIDs \X Perm : draft' = [draft EXCEPT ![j] = d]
    <3>1. p \in PermIDs /\ perms[p] \in Perm
      BY DEF PermsOf, JobInv, TypeOK
    <3>2. \A d \in Perm : [d EXCEPT !.global = @ \cup {maintainer[j]}] \in Perm
      BY <1>1 DEF Perm
    <3>3. <<p, [perms[p] EXCEPT !.global = @ \cup {maintainer[j]}]>> \in PermIDs \X Perm
      BY <3>1, <3>2
    <3> QED BY <2>2, <3>3
  <2> QED BY <1>3, <2>1, <2>2
<1>6. TypeOK' /\ RecordedIsDone'
  BY <1>1, <1>2, <1>5, DoneStays DEF JobInv, TypeOK, Goto
<1>7. LocalsOK'
  BY <1>1, <1>3, <1>5 DEF JobInv, LocalsOK
<1>8. \A k \in Jobs : k # j => RunnerInv(k)' /\ LocalInv(k)' /\ PlanInv(k)'
  <2> SUFFICES ASSUME NEW k \in Jobs, k # j
               PROVE  RunnerInv(k)' /\ LocalInv(k)' /\ PlanInv(k)'
    OBVIOUS
  <2>1. UNCHANGED <<pc[k], draft[k]>>
    BY <1>5 DEF JobInv, TypeOK, LocalsOK, Goto
  <2> QED BY <1>1, <1>2, <2>1, OthersInv
<1>9. \/ pc'[j] = "ensure"
      \/ pc'[j] = "ensureSave" /\ draft'[j] \in PermIDs \X Perm
  BY <1>1, <1>5 DEF JobInv, TypeOK, LocalsOK, Goto
<1>10. RunnerInv(j)' /\ LocalInv(j)' /\ PlanInv(j)'
  BY <1>1, <1>9 DEF JobInv, RunnerInv, LocalInv, PlanInv, Migrating
<1> QED BY <1>6, <1>7, <1>8, <1>10 DEF JobInv

LEMMA EnsureSaveInv == ASSUME JobInv, NEW j \in Jobs, EnsureSave(j) PROVE JobInv'
<1>1. /\ UNCHANGED <<roles, members, version, runner, maintainer, queue, current, byName, seen, todo>>
      /\ pc[j] = "ensureSave" /\ draft[j] \in PermIDs \X Perm
  BY DEF EnsureSave, JobInv, LocalInv
<1>2. PICK p \in PermIDs, d \in Perm : draft[j] = <<p, d>>
  BY <1>1
<1>3. Kept /\ perms' \in [PermIDs -> Perm \cup {None}]
  <2>1. CASE perms' = perms
    BY <1>1, <2>1, KeptAlone DEF JobInv, TypeOK
  <2>2. CASE perms' = [perms EXCEPT ![p] = d]
    BY <1>1, <2>2, KeptSave DEF JobInv
  <2> QED BY <1>2, <2>1, <2>2 DEF EnsureSave
<1>4. TypeOK' /\ RecordedIsDone'
  BY <1>1, <1>3, DoneStays DEF JobInv, TypeOK, EnsureSave, Goto
<1>5. LocalsOK'
  BY <1>1 DEF JobInv, LocalsOK, EnsureSave
<1>6. \A k \in Jobs : k # j => RunnerInv(k)' /\ LocalInv(k)' /\ PlanInv(k)'
  BY <1>1, <1>3, OthersInv DEF JobInv, TypeOK, LocalsOK, EnsureSave, Goto
<1>7. pc'[j] = "ensure"
  BY DEF JobInv, TypeOK, EnsureSave, Goto
<1>8. maintainer[j] \in RoleIDs
  BY <1>1 DEF JobInv, LocalInv
<1>9. RunnerInv(j)' /\ LocalInv(j)' /\ PlanInv(j)'
  BY <1>1, <1>7, <1>8 DEF JobInv, RunnerInv, LocalInv, PlanInv, Migrating
<1> QED BY <1>4, <1>5, <1>6, <1>9 DEF JobInv

-----------------------------------------------------------------------------
\* The steps of migration.Do.

\* A job that holds the lock is the only one that migrates.
LEMMA OnlyRunner ==
    ASSUME JobInv, NEW j \in Jobs, NEW k \in Jobs, k # j, pc[j] \in Migrating
    PROVE  pc[k] \notin Migrating
BY DEF JobInv, RunnerInv

LEMMA BeginInv == ASSUME JobInv, NEW j \in Jobs, Begin(j) PROVE JobInv'
<1>1. /\ UNCHANGED <<roles, perms, members, version, maintainer, queue, draft, current, byName, seen, todo>>
      /\ pc[j] = "ensure" /\ runner = None /\ runner' = j /\ Goto(j, "load")
  BY DEF Begin, store, locals, L!Acquire
<1>2. Kept
  BY <1>1, KeptAlone
<1>3. TypeOK' /\ LocalsOK' /\ RecordedIsDone'
  BY <1>1, <1>2, DoneStays DEF JobInv, TypeOK, LocalsOK, Goto, Migrating
<1>4. \A k \in Jobs : k # j => RunnerInv(k)' /\ LocalInv(k)' /\ PlanInv(k)'
  <2> SUFFICES ASSUME NEW k \in Jobs, k # j
               PROVE  RunnerInv(k)' /\ LocalInv(k)' /\ PlanInv(k)'
    OBVIOUS
  <2>1. pc[k] \notin Migrating
    BY <1>1, JobAssumption DEF JobInv, RunnerInv
  <2>2. pc'[k] = pc[k]
    BY <1>1 DEF JobInv, TypeOK, Goto
  <2> QED BY <1>1, <1>2, <2>1, <2>2, OthersInv
<1>5. pc'[j] = "load"
  BY <1>1 DEF JobInv, TypeOK, Goto
<1>6. RunnerInv(j)' /\ LocalInv(j)' /\ PlanInv(j)'
  BY <1>1, <1>5 DEF JobInv, RunnerInv, LocalInv, PlanInv, Migrating
<1> QED BY <1>3, <1>4, <1>6 DEF JobInv

LEMMA LoadInv == ASSUME JobInv, NEW j \in Jobs, Load(j) PROVE JobInv'
<1>1. /\ UNCHANGED <<roles, perms, members, version, runner, maintainer, queue, draft, byName, seen, todo>>
      /\ pc[j] = "load" /\ runner = j
  BY DEF Load, store, JobInv, RunnerInv, Migrating
<1>2. Kept
  BY <1>1, KeptAlone
<1>3. TypeOK' /\ LocalsOK' /\ RecordedIsDone'
  BY <1>1, <1>2, DoneStays DEF JobInv, TypeOK, LocalsOK, Load, Goto, Migrating
<1>4. \A k \in Jobs : k # j => RunnerInv(k)' /\ LocalInv(k)' /\ PlanInv(k)'
  BY <1>1, <1>2, OthersInv DEF JobInv, TypeOK, Load, Goto
<1>5. pc'[j] = "run" /\ current'[j] = version'
  BY <1>1 DEF JobInv, TypeOK, Load, Goto
<1>6. RunnerInv(j)' /\ LocalInv(j)' /\ PlanInv(j)'
  BY <1>1, <1>5 DEF JobInv, RunnerInv, LocalInv, PlanInv, Migrating
<1> QED BY <1>3, <1>4, <1>6 DEF JobInv

\* Of each name one of the ids the collection has.
LEMMA ReadRolesInv == ASSUME JobInv, NEW j \in Jobs, ReadRoles(j) PROVE JobInv'
<1>1. /\ UNCHANGED <<roles, perms, members, version, runner, maintainer, queue, draft, current, seen, todo>>
      /\ pc[j] = "run" /\ current[j] < LastVersion /\ Goto(j, "migrate")
  BY DEF ReadRoles, store
<1>2. Kept
  BY <1>1, KeptAlone
<1>3. PICK m \in [Names -> roles \cup {None}] :
        /\ \A n \in Names : IF Named(n) = {} THEN m[n] = None ELSE m[n] \in Named(n)
        /\ byName' = [byName EXCEPT ![j] = m]
  BY DEF ReadRoles
<1>4. m \in [Names -> RoleIDs \cup {None}] /\ \A n \in Names : m[n] # None => m[n] \in Named(n)
  BY <1>3 DEF JobInv, TypeOK
<1>5. TypeOK' /\ LocalsOK' /\ RecordedIsDone'
  BY <1>1, <1>2, <1>3, <1>4, DoneStays DEF JobInv, TypeOK, LocalsOK, Goto, Migrating
<1>6. \A k \in Jobs : k # j => RunnerInv(k)' /\ LocalInv(k)' /\ PlanInv(k)'
  BY <1>1, <1>2, <1>3, OthersInv DEF JobInv, TypeOK, LocalsOK, Goto
<1>7. /\ pc'[j] = "migrate" /\ byName'[j] = m /\ current[j] = version /\ runner = j
      /\ seen[j] = None /\ current[j] \in 0..LastVersion
  BY <1>1, <1>3 DEF JobInv, TypeOK, LocalsOK, RunnerInv, LocalInv, Goto, Migrating
<1>8. RunnerInv(j)'
  BY <1>1, <1>7 DEF RunnerInv
<1>9. LocalInv(j)'
  BY <1>1, <1>4, <1>7 DEF LocalInv, Named
<1>10. PlanInv(j)'
  <2>1. current[j] >= 1 => \A n \in Names : m[n] # None
    <3> SUFFICES ASSUME current[j] >= 1, NEW n \in Names PROVE m[n] # None
      OBVIOUS
    <3>1. Named(n) # {}
      BY <1>7 DEF JobInv, RecordedIsDone
    <3>2. m[n] \in Named(n)
      BY <1>3, <3>1
    <3> QED BY <3>2, NotNone DEF Named, JobInv, TypeOK
  <2> QED BY <1>1, <1>7, <2>1 DEF PlanInv
<1> QED BY <1>5, <1>6, <1>8, <1>9, <1>10 DEF JobInv

LEMMA AddRoleInv == ASSUME JobInv, NEW j \in Jobs, AddRole(j) PROVE JobInv'
<1> DEFINE missing == {n \in Names : byName[j][n] = None}
           n == CHOOSE x \in missing : TRUE
<1>1. /\ UNCHANGED <<perms, members, version, runner, pc, maintainer, queue, draft, current, seen, todo>>
      /\ pc[j] = "migrate" /\ current[j] = 0 /\ n \in Names
      /\ roles' = roles \cup {<<n, j>>} /\ byName' = [byName EXCEPT ![j][n] = <<n, j>>]
  BY DEF AddRole
<1> HIDE DEF n
<1> DEFINE r == <<n, j>>
<1>2. /\ r \in RoleIDs /\ r[1] = n
      /\ roles' = roles \cup {r} /\ byName' = [byName EXCEPT ![j][n] = r]
  BY <1>1 DEF RoleIDs
<1> HIDE DEF r
<1>3. Kept /\ roles' \subseteq RoleIDs
  BY <1>1, <1>2, KeptRole DEF JobInv
<1>4. byName[j] \in [Names -> RoleIDs \cup {None}] /\ \A x \in Names : byName[j][x] # None => byName[j][x] \in Named(x)
  BY <1>1 DEF JobInv, LocalInv
<1>5. byName'[j] = [byName[j] EXCEPT ![n] = r]
  BY <1>1, <1>2 DEF JobInv, LocalsOK
<1>6. byName'[j] \in [Names -> RoleIDs \cup {None}]
  <2>1. r \in RoleIDs \cup {None}
    BY <1>2
  <2>2. [byName[j] EXCEPT ![n] = r] \in [Names -> RoleIDs \cup {None}]
    BY <1>4, <2>1
  <2> QED BY <1>5, <2>2
<1>7. TypeOK' /\ RecordedIsDone'
  BY <1>1, <1>3, DoneStays DEF JobInv, TypeOK
<1>8. LocalsOK'
  <2>1. byName' \in [Jobs -> [Names -> RoleIDs \cup {None}] \cup {None}]
    BY <1>1, <1>5, <1>6 DEF JobInv, LocalsOK
  <2> QED BY <1>1, <2>1 DEF JobInv, LocalsOK
<1>9. \A k \in Jobs : k # j => RunnerInv(k)' /\ LocalInv(k)' /\ PlanInv(k)'
  <2> SUFFICES ASSUME NEW k \in Jobs, k # j
               PROVE  RunnerInv(k)' /\ LocalInv(k)' /\ PlanInv(k)'
    OBVIOUS
  <2>1. byName'[k] = byName[k]
    BY <1>1 DEF JobInv, LocalsOK
  <2> QED BY <1>1, <1>3, <2>1, OthersInv
<1>10. \A x \in Names : byName'[j][x] # None => byName'[j][x] \in Named(x)'
  <2> SUFFICES ASSUME NEW x \in Names, byName'[j][x] # None PROVE byName'[j][x] \in Named(x)'
    OBVIOUS
  <2>1. CASE x = n
    BY <1>1, <1>2, <1>4, <1>5, <2>1 DEF Named
  <2>2. CASE x # n
    BY <1>1, <1>4, <1>5, <2>2 DEF Named
  <2> QED BY <2>1, <2>2
<1>11. RunnerInv(j)' /\ PlanInv(j)'
  BY <1>1 DEF JobInv, RunnerInv, PlanInv
<1>12. LocalInv(j)'
  BY <1>1, <1>6, <1>10 DEF JobInv, LocalInv
<1> QED BY <1>7, <1>8, <1>9, <1>11, <1>12 DEF JobInv

LEMMA ReadFirstInv == ASSUME JobInv, NEW j \in Jobs, ReadFirst(j) PROVE JobInv'
<1>1. /\ UNCHANGED <<roles, perms, members, version, runner, pc, maintainer, queue, draft, current, byName, todo>>
      /\ pc[j] = "migrate"
  BY DEF ReadFirst, store
<1>2. Kept
  BY <1>1, KeptAlone
<1>3. TypeOK' /\ RecordedIsDone'
  BY <1>1, <1>2, DoneStays DEF JobInv, TypeOK
<1>4. seen' \in [Jobs -> Snapshots \cup MemberLists \cup {None}]
  <2>1. PICK d \in Snapshots \cup MemberLists : seen' = [seen EXCEPT ![j] = d]
    <3>1. perms \in Snapshots /\ members \in MemberLists
      BY DEF JobInv, TypeOK, Snapshots, MemberLists
    <3> QED BY <3>1 DEF ReadFirst
  <2>2. seen \in [Jobs -> Snapshots \cup MemberLists \cup {None}]
    BY DEF JobInv, LocalsOK
  <2> QED BY <2>1, <2>2
<1>5. LocalsOK'
  BY <1>1, <1>4 DEF JobInv, LocalsOK
<1>6. \A k \in Jobs : k # j => RunnerInv(k)' /\ LocalInv(k)' /\ PlanInv(k)'
  BY <1>1, <1>2, OthersInv DEF JobInv, LocalsOK, ReadFirst
<1>7. \/ current[j] = 1 /\ seen'[j] \in Snapshots
      \/ current[j] = 3 /\ seen'[j] \in MemberLists
  BY DEF JobInv, TypeOK, LocalsOK, ReadFirst, Snapshots, MemberLists
<1>8. RunnerInv(j)' /\ LocalInv(j)' /\ PlanInv(j)'
  BY <1>1, <1>7 DEF JobInv, RunnerInv, LocalInv, PlanInv, Named, MemberOf, PermsOf
<1> QED BY <1>3, <1>5, <1>6, <1>8 DEF JobInv

-----------------------------------------------------------------------------
\* What the migrations plan.

\* The ids of the roles a member has, by workspace.
LEMMA GrantedIDs ==
    ASSUME NEW ms, NEW m \in [Names -> RoleIDs \cup {None}], NEW u
    PROVE  Granted(ms, m, u) \in SUBSET (Workspaces \X RoleIDs)
BY DEF Granted

\* A plan of one migration: an invariant step once its documents are known to
\* be permittables and to cover the members.
LEMMA PlanStep ==
    ASSUME JobInv, NEW j \in Jobs, NEW plan, pc[j] = "migrate", Goto(j, "write"),
           todo' = [todo EXCEPT ![j] = plan], current[j] \in 1..(LastVersion - 1),
           UNCHANGED <<roles, perms, members, version, runner, maintainer, queue, draft,
                       current, byName, seen>>,
           DOMAIN plan \subseteq PermIDs, \A p \in DOMAIN plan : plan[p] \in Perm,
           current[j] = 1 => \A u \in Users : (\E w \in Workspaces : MemberOf(u, w)) =>
                               \E p \in DOMAIN plan : p[1] = u
    PROVE  JobInv'
<1>1. Kept
  BY KeptAlone
<1>2. /\ todo'[j] = plan /\ \A k \in Jobs : k # j => todo'[k] = todo[k]
      /\ todo' = [k \in Jobs |-> todo'[k]]
  BY DEF JobInv, LocalsOK
<1>3. TypeOK' /\ RecordedIsDone'
  BY <1>1, DoneStays DEF JobInv, TypeOK, Goto, Migrating
<1>4. LocalsOK'
  <2>1. \A k \in Jobs : DOMAIN todo'[k] \subseteq PermIDs /\ \A p \in DOMAIN todo'[k] : todo'[k][p] \in Perm
    BY <1>2 DEF JobInv, LocalsOK
  <2> QED BY <1>2, <2>1 DEF JobInv, LocalsOK
<1>5. \A k \in Jobs : k # j => RunnerInv(k)' /\ LocalInv(k)' /\ PlanInv(k)'
  BY <1>1, <1>2, OthersInv DEF JobInv, TypeOK, Goto
<1>6. pc'[j] = "write"
  BY DEF JobInv, TypeOK, Goto
<1>7. RunnerInv(j)'
  BY <1>6 DEF JobInv, RunnerInv, Migrating
<1>8. LocalInv(j)'
  BY <1>6 DEF JobInv, LocalInv, Named
<1>9. PlanInv(j)'
  BY <1>2, <1>6 DEF JobInv, PlanInv, MemberOf, PermsOf, LastVersion
<1> QED BY <1>3, <1>4, <1>5, <1>7, <1>8, <1>9 DEF JobInv

LEMMA PlanMoveInv == ASSUME JobInv, NEW j \in Jobs, PlanMove(j) PROVE JobInv'
<1>1. /\ UNCHANGED <<roles, perms, members, version, runner, maintainer, queue, draft, current, byName, seen>>
      /\ pc[j] = "migrate" /\ current[j] = 1 /\ seen[j] # None /\ Goto(j, "write")
  BY DEF PlanMove, store
<1>2. PICK pick \in [Users -> PermIDs \cup {None}] :
        /\ \A u \in Users :
             LET mine == {p \in PermIDs : p[1] = u /\ seen[j][p] # None}
             IN  IF mine = {} THEN pick[u] = None ELSE pick[u] \in mine
        /\ todo' = [todo EXCEPT ![j] =
                       [p \in UNION {DOMAIN Moved(j, pick, u) : u \in Users}
                           |-> Moved(j, pick, p[1])[p]]]
  BY DEF PlanMove
<1> DEFINE m == byName[j]
           plan == [p \in UNION {DOMAIN Moved(j, pick, u) : u \in Users}
                       |-> Moved(j, pick, p[1])[p]]
<1>3. /\ m \in [Names -> RoleIDs \cup {None}]
      /\ \A n \in Names : m[n] # None
      /\ seen[j] \in [PermIDs -> Perm \cup {None}]
  BY <1>1 DEF JobInv, LocalInv, PlanInv, Snapshots
<1>4. ASSUME NEW u \in Users
      PROVE  /\ DOMAIN Moved(j, pick, u) \subseteq {p \in PermIDs : p[1] = u}
             /\ \A p \in DOMAIN Moved(j, pick, u) : Moved(j, pick, u)[p] \in Perm
             /\ Granted(members, m, u) # {} => DOMAIN Moved(j, pick, u) # {}
  <2> DEFINE g == Granted(members, m, u)
             id == IF pick[u] = None THEN <<u, j>> ELSE pick[u]
             old == IF pick[u] = None THEN [global |-> {}, scoped |-> {}] ELSE seen[j][pick[u]]
             new == [global |-> IF g = {} THEN old.global ELSE old.global \cup {m[Self]},
                     scoped |-> old.scoped \cup g]
  <2>1. g \in SUBSET (Workspaces \X RoleIDs)
    BY <1>3, GrantedIDs
  <2>2. pick[u] # None => pick[u] \in PermIDs /\ pick[u][1] = u /\ seen[j][pick[u]] \in Perm
    BY <1>2, <1>3
  <2>3. id \in PermIDs /\ id[1] = u
    BY <2>2 DEF PermIDs
  <2>4. old \in Perm
    <3>1. [global |-> {}, scoped |-> {}] \in Perm
      BY DEF Perm
    <3> QED BY <2>2, <3>1
  <2>5. old.global \subseteq RoleIDs /\ old.scoped \subseteq Workspaces \X RoleIDs
    BY <2>4 DEF Perm
  <2>6. m[Self] \in RoleIDs
    BY <1>3, JobAssumption
  <2>7. Moved(j, pick, u) = IF g = {} /\ pick[u] = None THEN EmptyTodo ELSE [p \in {id} |-> new]
    BY DEF Moved
  <2> HIDE DEF g, id, old
  <2>8. new \in Perm
    BY <2>1, <2>5, <2>6 DEF Perm
  <2> HIDE DEF new
  <2>9. CASE g = {} /\ pick[u] = None
    BY <2>7, <2>9 DEF EmptyTodo, g
  <2>10. CASE ~(g = {} /\ pick[u] = None)
    <3>1. Moved(j, pick, u) = [p \in {id} |-> new]
      BY <2>7, <2>10
    <3> QED BY <2>3, <2>8, <3>1
  <2> QED BY <2>9, <2>10
<1>5. DOMAIN plan \subseteq PermIDs /\ \A p \in DOMAIN plan : plan[p] \in Perm
  <2> SUFFICES ASSUME NEW u \in Users, NEW p \in DOMAIN Moved(j, pick, u)
               PROVE  p \in PermIDs /\ plan[p] \in Perm
    OBVIOUS
  <2>1. p \in PermIDs /\ p[1] = u /\ Moved(j, pick, u)[p] \in Perm
    BY <1>4
  <2> QED BY <2>1
<1>6. ASSUME NEW u \in Users, NEW w \in Workspaces, MemberOf(u, w)
      PROVE  \E p \in DOMAIN plan : p[1] = u
  <2>1. members[w][u] \in Names /\ m[members[w][u]] # None
    BY <1>3, <1>6 DEF JobInv, TypeOK, MemberOf
  <2>2. Granted(members, m, u) # {}
    BY <2>1 DEF Granted
  <2>3. PICK p \in DOMAIN Moved(j, pick, u) : p[1] = u
    BY <1>4, <2>2
  <2> QED BY <2>3
<1>7. todo' = [todo EXCEPT ![j] = plan] /\ current[j] \in 1..(LastVersion - 1)
  BY <1>1, <1>2 DEF LastVersion
<1> HIDE DEF plan
<1> QED BY <1>1, <1>5, <1>6, <1>7, PlanStep

LEMMA PlanFixInv == ASSUME JobInv, NEW j \in Jobs, PlanFix(j) PROVE JobInv'
<1>1. /\ UNCHANGED <<roles, perms, members, version, runner, maintainer, queue, draft, current, byName, seen>>
      /\ pc[j] = "migrate" /\ Goto(j, "write")
      /\ byName[j] \in [Names -> RoleIDs \cup {None}]
  BY DEF PlanFix, store, JobInv, LocalInv
<1>2. CASE /\ current[j] = 2
           /\ todo' = [todo EXCEPT ![j] =
                 [p \in {q \in PermIDs : perms[q] # None /\ FixedGlobal(j, q) # perms[q]}
                     |-> FixedGlobal(j, p)]]
  <2> DEFINE plan == [p \in {q \in PermIDs : perms[q] # None /\ FixedGlobal(j, q) # perms[q]}
                         |-> FixedGlobal(j, p)]
  <2>1. ASSUME NEW p \in PermIDs, perms[p] # None PROVE FixedGlobal(j, p) \in Perm
    <3> DEFINE m == byName[j]
               remove == {m[n] : n \in Names \ {Self}}
               self == IF m[Self] = None THEN {} ELSE {m[Self]}
    <3>1. perms[p] \in Perm
      BY <2>1 DEF JobInv, TypeOK
    <3>2. self \subseteq RoleIDs
      BY <1>1, JobAssumption
    <3>3. FixedGlobal(j, p) = [perms[p] EXCEPT !.global = (@ \ remove) \cup self]
      BY DEF FixedGlobal
    <3> HIDE DEF remove, self
    <3>4. \A d \in Perm : [d EXCEPT !.global = (@ \ remove) \cup self] \in Perm
      BY <3>2 DEF Perm
    <3> QED BY <3>1, <3>3, <3>4
  <2>2. /\ DOMAIN plan \subseteq PermIDs /\ \A p \in DOMAIN plan : plan[p] \in Perm
        /\ todo' = [todo EXCEPT ![j] = plan]
    BY <1>2, <2>1
  <2>3. current[j] \in 1..(LastVersion - 1) /\ current[j] # 1
    BY <1>2 DEF LastVersion
  <2> HIDE DEF plan
  <2> QED BY <1>1, <2>2, <2>3, PlanStep
<1>3. CASE /\ current[j] = 3 /\ seen[j] # None
           /\ todo' = [todo EXCEPT ![j] =
                 [p \in {q \in PermIDs : perms[q] # None /\ FixedScoped(j, q) # perms[q]}
                     |-> FixedScoped(j, p)]]
  <2> DEFINE plan == [p \in {q \in PermIDs : perms[q] # None /\ FixedScoped(j, q) # perms[q]}
                         |-> FixedScoped(j, p)]
  <2>1. ASSUME NEW p \in PermIDs, perms[p] # None PROVE FixedScoped(j, p) \in Perm
    <3> DEFINE s == {g \in Granted(seen[j], byName[j], p[1]) : <<g[1], p[1]>> \notin Disabled}
    <3>1. perms[p] \in Perm
      BY <2>1 DEF JobInv, TypeOK
    <3>2. s \in SUBSET (Workspaces \X RoleIDs)
      BY <1>1, GrantedIDs
    <3>3. FixedScoped(j, p) = [perms[p] EXCEPT !.scoped = s]
      BY DEF FixedScoped
    <3> HIDE DEF s
    <3>4. \A d \in Perm : [d EXCEPT !.scoped = s] \in Perm
      BY <3>2 DEF Perm
    <3> QED BY <3>1, <3>3, <3>4
  <2>2. /\ DOMAIN plan \subseteq PermIDs /\ \A p \in DOMAIN plan : plan[p] \in Perm
        /\ todo' = [todo EXCEPT ![j] = plan]
    BY <1>3, <2>1
  <2>3. current[j] \in 1..(LastVersion - 1) /\ current[j] # 1
    BY <1>3 DEF LastVersion
  <2> HIDE DEF plan
  <2> QED BY <1>1, <2>2, <2>3, PlanStep
<1> QED BY <1>2, <1>3 DEF PlanFix

-----------------------------------------------------------------------------
\* Saving, recording and ending.

LEMMA WriteInv == ASSUME JobInv, NEW j \in Jobs, Write(j) PROVE JobInv'
<1>1. /\ UNCHANGED <<roles, members, version, runner, pc, maintainer, queue, draft, current, byName, seen>>
      /\ pc[j] = "write"
  BY DEF Write
<1>2. PICK p \in DOMAIN todo[j] :
        /\ perms' = [perms EXCEPT ![p] = todo[j][p]]
        /\ todo' = [todo EXCEPT ![j] = [q \in DOMAIN @ \ {p} |-> @[q]]]
  BY DEF Write
<1>3. p \in PermIDs /\ todo[j][p] \in Perm
  BY DEF JobInv, LocalsOK
<1>4. Kept /\ perms' \in [PermIDs -> Perm \cup {None}] /\ p \in PermsOf(p[1])'
  BY <1>1, <1>2, <1>3, KeptSave DEF JobInv
<1>5. /\ todo'[j] = [q \in DOMAIN todo[j] \ {p} |-> todo[j][q]]
      /\ \A k \in Jobs : k # j => todo'[k] = todo[k]
      /\ todo' = [k \in Jobs |-> todo'[k]]
  BY <1>2 DEF JobInv, LocalsOK
<1>6. TypeOK' /\ RecordedIsDone'
  BY <1>1, <1>4, DoneStays DEF JobInv, TypeOK
<1>7. LocalsOK'
  <2>1. \A k \in Jobs : DOMAIN todo'[k] \subseteq PermIDs /\ \A q \in DOMAIN todo'[k] : todo'[k][q] \in Perm
    BY <1>5 DEF JobInv, LocalsOK
  <2> QED BY <1>1, <1>5, <2>1 DEF JobInv, LocalsOK
<1>8. \A k \in Jobs : k # j => RunnerInv(k)' /\ LocalInv(k)' /\ PlanInv(k)'
  BY <1>1, <1>4, <1>5, OthersInv DEF JobInv
<1>9. RunnerInv(j)'
  BY <1>1 DEF JobInv, RunnerInv
<1>10. LocalInv(j)'
  BY <1>1 DEF JobInv, LocalInv, Named
<1>11. PlanInv(j)'
  <2>1. ASSUME current[j] = 1, NEW u \in Users, \E w \in Workspaces : MemberOf(u, w)
        PROVE  PermsOf(u)' # {} \/ \E q \in DOMAIN todo'[j] : q[1] = u
    <3>1. CASE PermsOf(u) # {}
      BY <1>4, <3>1 DEF Kept
    <3>2. CASE PermsOf(u) = {}
      <4>1. PICK q \in DOMAIN todo[j] : q[1] = u
        BY <1>1, <2>1, <3>2 DEF JobInv, PlanInv
      <4>2. CASE q = p
        BY <1>4, <4>1, <4>2
      <4>3. CASE q # p
        BY <1>5, <4>1, <4>3
      <4> QED BY <4>2, <4>3
    <3> QED BY <3>1, <3>2
  <2> QED BY <1>1, <2>1 DEF JobInv, PlanInv, MemberOf
<1> QED BY <1>6, <1>7, <1>8, <1>9, <1>10, <1>11 DEF JobInv

\* Only what has been carried out is recorded.
LEMMA RecordInv == ASSUME JobInv, NEW j \in Jobs, Record(j) PROVE JobInv' /\ version' = version + 1
<1>1. /\ UNCHANGED <<roles, perms, members, runner, maintainer, queue, draft>>
      /\ version' = current[j] + 1 /\ current' = [current EXCEPT ![j] = @ + 1]
      /\ byName' = [byName EXCEPT ![j] = None] /\ seen' = [seen EXCEPT ![j] = None]
      /\ todo' = [todo EXCEPT ![j] = EmptyTodo] /\ Goto(j, "run")
  BY DEF Record
<1>2. pc[j] \in {"migrate", "write"} /\ Ended(j)
  BY DEF Record, Ended
<1>3. runner = j /\ current[j] = version /\ version \in 0..(LastVersion - 1)
  BY <1>2 DEF JobInv, TypeOK, RunnerInv, PlanInv, Ended, Migrating, LastVersion
<1>4. Kept
  BY <1>1, KeptAlone
<1>5. TypeOK'
  BY <1>1, <1>3 DEF JobInv, TypeOK, Goto, Migrating, LastVersion
<1>6. LocalsOK'
  <2>1. \A k \in Jobs : DOMAIN todo'[k] \subseteq PermIDs /\ \A p \in DOMAIN todo'[k] : todo'[k][p] \in Perm
    <3> SUFFICES ASSUME NEW k \in Jobs
                 PROVE  DOMAIN todo'[k] \subseteq PermIDs /\ \A p \in DOMAIN todo'[k] : todo'[k][p] \in Perm
      OBVIOUS
    <3>1. CASE k = j
      BY <1>1, <3>1 DEF JobInv, LocalsOK, EmptyTodo
    <3>2. CASE k # j
      <4>1. todo'[k] = todo[k]
        BY <1>1, <3>2 DEF JobInv, LocalsOK
      <4> QED BY <4>1 DEF JobInv, LocalsOK
    <3> QED BY <3>1, <3>2
  <2>2. todo' = [k \in Jobs |-> todo'[k]]
    BY <1>1 DEF JobInv, LocalsOK
  <2> QED BY <1>1, <2>1, <2>2 DEF JobInv, LocalsOK
<1>7. RecordedIsDone'
  <2>1. \A n \in Names : Named(n) # {}
    <3>1. CASE version >= 1
      BY <3>1 DEF JobInv, RecordedIsDone
    <3>2. CASE version = 0
      BY <1>2, <1>3, <3>2 DEF JobInv, LocalInv, PlanInv, Ended
    <3> QED BY <1>3, <3>1, <3>2
  <2>2. version >= 1 => \A w \in Workspaces, u \in Users : MemberOf(u, w) => PermsOf(u) # {}
    <3>1. CASE version >= 2
      BY <3>1 DEF JobInv, RecordedIsDone
    <3>2. CASE version = 1
      <4>1. pc[j] = "write" /\ DOMAIN todo[j] = {} /\ current[j] = 1
        BY <1>2, <1>3, <3>2 DEF Ended
      <4>2. \A u \in Users : (\E w \in Workspaces : MemberOf(u, w)) =>
               PermsOf(u) # {} \/ \E p \in DOMAIN todo[j] : p[1] = u
        BY <4>1 DEF JobInv, PlanInv
      <4> QED BY <4>1, <4>2
    <3> QED BY <1>3, <3>1, <3>2
  <2>3. \A n \in Names : Named(n)' = Named(n)
    BY <1>1 DEF Named
  <2>4. \A u \in Users : PermsOf(u)' = PermsOf(u) /\ \A w \in Workspaces : MemberOf(u, w)' <=> MemberOf(u, w)
    BY <1>1 DEF PermsOf, MemberOf
  <2> QED BY <1>1, <1>3, <2>1, <2>2, <2>3, <2>4 DEF RecordedIsDone
<1>8. \A k \in Jobs : k # j => RunnerInv(k)' /\ LocalInv(k)' /\ PlanInv(k)'
  <2> SUFFICES ASSUME NEW k \in Jobs, k # j
               PROVE  RunnerInv(k)' /\ LocalInv(k)' /\ PlanInv(k)'
    OBVIOUS
  <2>1. pc[k] \notin Migrating
    BY <1>2, OnlyRunner DEF Migrating
  <2>2. UNCHANGED <<pc[k], maintainer[k], draft[k], current[k], byName[k], seen[k], todo[k]>>
    BY <1>1 DEF JobInv, TypeOK, LocalsOK, Goto
  <2> QED BY <1>4, <2>1, <2>2, OthersInv
<1>9. pc'[j] = "run" /\ current'[j] = version' /\ seen'[j] = None
  BY <1>1 DEF JobInv, TypeOK, LocalsOK, Goto
<1>10. RunnerInv(j)' /\ LocalInv(j)' /\ PlanInv(j)'
  BY <1>1, <1>3, <1>9 DEF RunnerInv, LocalInv, PlanInv, Migrating
<1> QED BY <1>1, <1>3, <1>5, <1>6, <1>7, <1>8, <1>10 DEF JobInv

\* A job that is over knows nothing; the lock it may leave is not another's.
LEMMA ForgetInv ==
    ASSUME JobInv, NEW j \in Jobs, Forget(j), UNCHANGED store,
           \/ runner' = runner
           \/ runner = j /\ runner' = None
           \/ runner = None /\ runner' = j
    PROVE  JobInv'
<1>1. UNCHANGED <<roles, perms, members, version>>
  BY DEF store
<1>2. Kept
  BY <1>1, KeptAlone
<1>3. TypeOK' /\ RecordedIsDone'
  BY <1>1, <1>2, DoneStays DEF JobInv, TypeOK, Forget, Goto, LastVersion
<1>4. LocalsOK'
  <2>1. \A k \in Jobs : DOMAIN todo'[k] \subseteq PermIDs /\ \A p \in DOMAIN todo'[k] : todo'[k][p] \in Perm
    <3> SUFFICES ASSUME NEW k \in Jobs
                 PROVE  DOMAIN todo'[k] \subseteq PermIDs /\ \A p \in DOMAIN todo'[k] : todo'[k][p] \in Perm
      OBVIOUS
    <3>1. CASE k = j
      BY <3>1 DEF JobInv, LocalsOK, EmptyTodo, Forget
    <3>2. CASE k # j
      <4>1. todo'[k] = todo[k]
        BY <3>2 DEF JobInv, LocalsOK, Forget
      <4> QED BY <4>1 DEF JobInv, LocalsOK
    <3> QED BY <3>1, <3>2
  <2>2. todo' = [k \in Jobs |-> todo'[k]]
    BY DEF JobInv, LocalsOK, Forget
  <2> QED BY <2>1, <2>2 DEF JobInv, LocalsOK, Forget
<1>5. \A k \in Jobs : k # j => RunnerInv(k)' /\ LocalInv(k)' /\ PlanInv(k)'
  <2> SUFFICES ASSUME NEW k \in Jobs, k # j
               PROVE  RunnerInv(k)' /\ LocalInv(k)' /\ PlanInv(k)'
    OBVIOUS
  <2>1. UNCHANGED <<pc[k], maintainer[k], draft[k], current[k], byName[k], seen[k], todo[k]>>
    BY DEF JobInv, TypeOK, LocalsOK, Forget, Goto
  <2>2. pc[k] \in Migrating => runner' = runner
    BY JobAssumption DEF JobInv, RunnerInv
  <2> QED BY <1>1, <1>2, <2>1, <2>2, OthersInv
<1>6. pc'[j] = "over" /\ seen'[j] = None
  BY DEF JobInv, TypeOK, LocalsOK, Forget, Goto
<1>7. RunnerInv(j)' /\ LocalInv(j)' /\ PlanInv(j)'
  BY <1>6 DEF RunnerInv, LocalInv, PlanInv, Migrating
<1> QED BY <1>3, <1>4, <1>5, <1>7 DEF JobInv

\* The server saves a permittable and changes a member's role, never whether
\* somebody is a member.
LEMMA ServeInv ==
    ASSUME JobInv, NEW w \in Workspaces, NEW u \in Users, NEW n \in Names \ {Self}, Serve(w, u, n)
    PROVE  JobInv'
<1>1. /\ UNCHANGED <<roles, version, runner, pc, maintainer, queue, draft, current, byName, seen, todo>>
      /\ MemberOf(u, w) /\ members' = [members EXCEPT ![w][u] = n]
  BY DEF Serve, locals
<1>2. PICK p \in PermsOf(u), r \in Named(n) :
         perms' = [perms EXCEPT ![p].scoped = {g \in @ : g[1] # w} \cup {<<w, r>>}]
  BY DEF Serve
<1> DEFINE d == [perms[p] EXCEPT !.scoped = {g \in @ : g[1] # w} \cup {<<w, r>>}]
<1>3. p \in PermIDs /\ perms[p] \in Perm /\ r \in RoleIDs
  BY DEF PermsOf, Named, JobInv, TypeOK
<1>4. d \in Perm
  <2>1. \A e \in Perm : [e EXCEPT !.scoped = {g \in @ : g[1] # w} \cup {<<w, r>>}] \in Perm
    BY <1>3 DEF Perm
  <2> QED BY <1>3, <2>1
<1>5. perms' = [perms EXCEPT ![p] = d]
  BY <1>2, <1>3 DEF JobInv, TypeOK
<1> HIDE DEF d
<1>6. perms' \in [PermIDs -> Perm \cup {None}]
  BY <1>4, <1>5 DEF JobInv, TypeOK
<1>7. \A q \in PermIDs : perms[q] # None => perms'[q] # None
  BY <1>4, <1>5, NotNone DEF JobInv, TypeOK
<1>8. /\ members' \in [Workspaces -> [Users -> (Names \ {Self}) \cup {None}]]
      /\ \A x \in Users, y \in Workspaces : MemberOf(x, y)' <=> MemberOf(x, y)
  BY <1>1, NotNone DEF JobInv, TypeOK, MemberOf
<1>9. Kept
  BY <1>1, <1>7, <1>8 DEF Kept, PermsOf
<1>10. TypeOK' /\ LocalsOK' /\ RecordedIsDone'
  BY <1>1, <1>6, <1>8, <1>9, DoneStays DEF JobInv, TypeOK, LocalsOK
<1>11. \A k \in Jobs : RunnerInv(k)' /\ LocalInv(k)' /\ PlanInv(k)'
  BY <1>1, <1>9, OthersInv
<1> QED BY <1>10, <1>11 DEF JobInv

\* The removal of a lock that was left behind: nobody who migrates had it.
LEMMA ExpireInv == ASSUME JobInv, Expire PROVE JobInv'
<1>1. UNCHANGED <<roles, perms, members, version, pc, maintainer, queue, draft, current, byName, seen, todo>>
  BY DEF Expire, store, locals
<1>2. PICK j \in Jobs : ~Running(j) /\ runner = j /\ runner' = None
  BY DEF Expire, L!Release
<1>3. Kept
  BY <1>1, KeptAlone
<1>4. TypeOK' /\ LocalsOK' /\ RecordedIsDone'
  BY <1>1, <1>2, <1>3, DoneStays DEF JobInv, TypeOK, LocalsOK
<1>5. \A k \in Jobs : pc[k] \in Migrating => runner' = runner
  BY <1>2 DEF JobInv, RunnerInv, Running, Migrating
<1>6. \A k \in Jobs : RunnerInv(k)' /\ LocalInv(k)' /\ PlanInv(k)'
  BY <1>1, <1>3, <1>5, OthersInv
<1> QED BY <1>4, <1>6 DEF JobInv

LEMMA StutterInv == ASSUME JobInv, UNCHANGED vars PROVE JobInv'
<1>1. UNCHANGED <<roles, perms, members, version, runner, pc, maintainer, queue, draft, current, byName, seen, todo>>
  BY DEF vars, store, locals
<1>2. Kept
  BY <1>1, KeptAlone
<1>3. TypeOK' /\ LocalsOK' /\ RecordedIsDone'
  BY <1>1, <1>2, DoneStays DEF JobInv, TypeOK, LocalsOK
<1>4. \A k \in Jobs : RunnerInv(k)' /\ LocalInv(k)' /\ PlanInv(k)'
  BY <1>1, <1>2, OthersInv
<1> QED BY <1>3, <1>4 DEF JobInv

-----------------------------------------------------------------------------
LEMMA JobInvStep == JobInv /\ [Next]_vars => JobInv'
<1> SUFFICES ASSUME JobInv, [Next]_vars PROVE JobInv'
  OBVIOUS
<1>1. ASSUME NEW j \in Jobs, Start(j) \/ Step(j) \/ Stop(j) PROVE JobInv'
  <2>1. CASE Start(j)
    BY <2>1, StartInv
  <2>2. CASE FindRole(j) \/ CreateRole(j) \/ EnsureLoad(j) \/ EnsureSave(j)
    BY <2>2, FindRoleInv, CreateRoleInv, EnsureLoadInv, EnsureSaveInv
  <2>3. CASE Begin(j) \/ Load(j) \/ ReadRoles(j) \/ AddRole(j) \/ ReadFirst(j)
    BY <2>3, BeginInv, LoadInv, ReadRolesInv, AddRoleInv, ReadFirstInv
  <2>4. CASE PlanMove(j) \/ PlanFix(j) \/ Write(j) \/ Record(j)
    BY <2>4, PlanMoveInv, PlanFixInv, WriteInv, RecordInv
  <2>5. CASE Refused(j)
    BY <2>5, ForgetInv DEF Refused
  <2>6. CASE End(j)
    BY <2>6, ForgetInv DEF End, GiveBack, L!Release
  <2>7. CASE Stop(j)
    <3>1. /\ Forget(j) /\ UNCHANGED store
          /\ \/ runner' = runner
             \/ runner = j /\ runner' = None
             \/ runner = None /\ runner' = j
      BY <2>7 DEF Stop, GiveBack, L!Release, L!Acquire
    <3> QED BY <3>1, ForgetInv
  <2> QED BY <1>1, <2>1, <2>2, <2>3, <2>4, <2>5, <2>6, <2>7 DEF Step
<1>2. ASSUME NEW w \in Workspaces, NEW u \in Users, NEW n \in Names \ {Self}, Serve(w, u, n)
      PROVE  JobInv'
  BY <1>2, ServeInv
<1>3. CASE UNCHANGED vars
  BY <1>3, StutterInv
<1>4. CASE Expire
  BY <1>4, ExpireInv
<1> QED BY <1>1, <1>2, <1>3, <1>4 DEF Next

\* However many jobs overlap, stop anywhere and are started again, and however
\* the server changes roles meanwhile, JobInv holds.
THEOREM JobInvAlways == Spec => []JobInv
<1>1. Init => JobInv
  BY JobInvInit
<1>2. JobInv /\ [Next]_vars => JobInv'
  BY JobInvStep
<1> QED BY <1>1, <1>2, PTL DEF Spec

\* The variables keep their types.
THEOREM TypeCorrect == Spec => []TypeOK
<1>1. JobInv => TypeOK
  BY DEF JobInv
<1> QED BY <1>1, JobInvAlways, PTL

\* What the configuration records as done has been done: every role exists
\* after AddRoles, every member has a permittable after
\* MoveWorkspaceMembersRoleToPermittable.
THEOREM DoneWhatIsRecorded == Spec => []RecordedIsDone
<1>1. JobInv => RecordedIsDone
  BY DEF JobInv
<1> QED BY <1>1, JobInvAlways, PTL

\* No job skips, repeats or takes back a recorded version.
THEOREM InOrder == Spec => VersionsInOrder
<1> DEFINE Advance == version' # version => version' = version + 1
<1>1. JobInv /\ [Next]_vars => [Advance]_version
  <2> SUFFICES ASSUME JobInv, [Next]_vars, version' # version PROVE version' = version + 1
    OBVIOUS
  <2>1. ASSUME NEW j \in Jobs, ~Record(j) PROVE ~(Start(j) \/ Step(j) \/ Stop(j))
    BY <2>1 DEF Start, Step, Stop, FindRole, CreateRole, EnsureLoad, EnsureSave, Begin, Refused,
            Load, ReadRoles, AddRole, ReadFirst, PlanMove, PlanFix, Write, End, store
  <2>2. PICK j \in Jobs : Record(j)
    BY <2>1 DEF Next, Serve, Expire, vars, store
  <2> QED BY <2>2, RecordInv
<1> QED BY <1>1, JobInvAlways, PTL DEF Spec, VersionsInOrder

-----------------------------------------------------------------------------
(***************************************************************************)
(* Jobs that nothing interferes with.                                      *)
(***************************************************************************)

\* Steps that leave the permittables, the members and the version alone keep
\* what is promised of them,
LEMMA MigratedStays ==
    ASSUME RolesMigrated, UNCHANGED <<perms, members, version>>, interfered => interfered'
    PROVE  RolesMigrated'
<1>1. \A u \in Users : PermsOf(u)' = PermsOf(u) /\ ExpectedNames(u)' = ExpectedNames(u)
  BY DEF PermsOf, ExpectedNames, MemberOf
<1>2. \A p \in PermIDs : ScopedNames(p)' = ScopedNames(p)
  BY DEF ScopedNames, ByName
<1>3. \A u \in Users : PermsOf(u) \subseteq PermIDs
  BY DEF PermsOf
<1>4. ASSUME ~interfered', NEW u \in Users, NEW w \in Workspaces, MemberOf(u, w)',
             NEW p \in PermsOf(u)'
      PROVE  /\ version' >= 2 => \E r \in perms'[p].global : r[1] = Self
             /\ version' >= 4 => ScopedNames(p)' = ExpectedNames(u)'
  <2>1. ~interfered /\ MemberOf(u, w) /\ p \in PermsOf(u) /\ p \in PermIDs
    BY <1>1, <1>3, <1>4 DEF MemberOf
  <2> QED BY <1>1, <1>2, <2>1 DEF RolesMigrated
<1> QED BY <1>4 DEF RolesMigrated

\* and of the roles.
LEMMA StoredStays ==
    ASSUME NoDuplicates, RolesMigrated, interfered => interfered',
           UNCHANGED <<roles, perms, members, version>>
    PROVE  NoDuplicates' /\ RolesMigrated'
<1>1. NoDuplicates'
  BY DEF NoDuplicates, PermsOf
<1> QED BY <1>1, MigratedStays

\* While one job runs, only that job and the collections are to be looked at.
LEMMA QuietStep ==
    ASSUME QuietInv, NEW j \in Jobs, Running(j), UNCHANGED <<members, interfered>>,
           \A k \in Jobs : k # j => UNCHANGED <<pc[k], queue[k]>>,
           ~interfered => /\ NoDuplicates' /\ RolesMigrated'
                          /\ ReadInv(j)' /\ DraftInv(j)' /\ TodoInv(j)'
    PROVE  QuietInv'
<1>1. NoDuplicates' /\ RolesMigrated'
  BY DEF NoDuplicates, RolesMigrated
<1>2. ASSUME ~interfered PROVE OneJob'
  BY <1>2 DEF QuietInv, OneJob, Running
<1>3. ASSUME ~interfered, NEW k \in Jobs, k # j
      PROVE  ReadInv(k)' /\ DraftInv(k)' /\ TodoInv(k)'
  <2>1. pc'[k] \in {"new", "over"} /\ queue'[k] = queue[k]
    BY <1>3 DEF QuietInv, OneJob, Running
  <2>2. \A u \in queue[k] : IsMember(u)
    BY <1>3 DEF QuietInv, ReadInv
  <2>3. ReadInv(k)'
    BY <2>1, <2>2 DEF ReadInv, IsMember, MemberOf
  <2> QED BY <2>1, <2>3 DEF DraftInv, TodoInv
<1> QED BY <1>1, <1>2, <1>3 DEF QuietInv

LEMMA QuietInvInit == Init => QuietInv
<1> SUFFICES ASSUME Init PROVE QuietInv
  OBVIOUS
<1> USE JobAssumption
<1>1. NoDuplicates
  <2>1. \A r \in roles : r[2] = Old /\ r = <<r[1], r[2]>>
    BY DEF Init
  <2>2. \A p \in PermIDs : perms[p] # None => p[2] = Old
    <3>1. PICK old \in Recorded :
            perms = [p \in PermIDs |->
                       IF p[2] = Old /\ p[1] \in old
                         THEN [global |-> {}, scoped |-> Workspaces \X roles]
                         ELSE None]
      BY DEF Init
    <3> QED BY <3>1
  <2>3. \A p \in PermIDs : p = <<p[1], p[2]>>
    BY DEF PermIDs
  <2> QED BY <2>1, <2>2, <2>3 DEF NoDuplicates, PermsOf
<1>2. RolesMigrated
  BY DEF Init, RolesMigrated
<1>3. OneJob /\ \A j \in Jobs : ReadInv(j) /\ DraftInv(j) /\ TodoInv(j)
  BY DEF Init, OneJob, Running, ReadInv, DraftInv, TodoInv
<1> QED BY <1>1, <1>2, <1>3 DEF QuietInv

\* A job that starts while another one runs interferes.
LEMMA StartQuiet == ASSUME JobInv, QuietInv, NEW j \in Jobs, Start(j) PROVE QuietInv'
<1>1. UNCHANGED <<roles, perms, members, version, queue>> /\ pc' = [pc EXCEPT ![j] = "findRole"]
      /\ interfered' = (interfered \/ \E k \in Jobs : Running(k))
  BY DEF Start, Goto, store, locals
<1>2. CASE interfered'
  BY <1>2 DEF QuietInv, NoDuplicates, RolesMigrated
<1>3. CASE ~interfered'
  <2>1. ~interfered /\ \A k \in Jobs : ~Running(k)
    BY <1>1, <1>3
  <2>2. NoDuplicates' /\ RolesMigrated'
    BY <1>1, <2>1, StoredStays DEF QuietInv
  <2>3. \A k \in Jobs : pc'[k] \in {"new", "over", "findRole"} /\ (pc'[k] = "findRole" => k = j)
    BY <1>1, <2>1 DEF JobInv, TypeOK, Running
  <2>4. OneJob'
    BY <2>3 DEF OneJob, Running
  <2>5. \A k \in Jobs : ReadInv(k)'
    BY <1>1, <2>1, <2>3 DEF QuietInv, ReadInv, IsMember, MemberOf
  <2>6. \A k \in Jobs : DraftInv(k)' /\ TodoInv(k)'
    BY <2>3 DEF DraftInv, TodoInv
  <2> QED BY <2>2, <2>4, <2>5, <2>6 DEF QuietInv
<1> QED BY <1>2, <1>3

-----------------------------------------------------------------------------
\* The steps of runMigration.

\* The queue is made of members.
LEMMA WithRoleQuiet ==
    ASSUME JobInv, QuietInv, NEW j \in Jobs, Running(j), NEW r, WithRole(j, r),
           UNCHANGED <<members, interfered>>,
           ~interfered => NoDuplicates' /\ RolesMigrated'
    PROVE  QuietInv'
<1>1. /\ pc'[j] = "ensure" /\ queue'[j] = {u \in Users : IsMember(u)}
      /\ \A k \in Jobs : k # j => UNCHANGED <<pc[k], queue[k]>>
  BY DEF JobInv, TypeOK, LocalsOK, WithRole, Goto, IsMember
<1>2. ReadInv(j)' /\ DraftInv(j)' /\ TodoInv(j)'
  BY <1>1 DEF ReadInv, DraftInv, TodoInv, IsMember, MemberOf
<1> QED BY <1>1, <1>2, QuietStep

LEMMA FindRoleQuiet == ASSUME JobInv, QuietInv, NEW j \in Jobs, FindRole(j) PROVE QuietInv'
<1>1. UNCHANGED <<roles, perms, members, version, interfered>> /\ Running(j)
  BY DEF FindRole, store, Running
<1>2. NoDuplicates' /\ RolesMigrated'
  BY <1>1, StoredStays DEF QuietInv
<1>3. ASSUME NEW r \in Named(Maintainer), WithRole(j, r) PROVE QuietInv'
  BY <1>1, <1>2, <1>3, WithRoleQuiet
<1>4. CASE Named(Maintainer) = {} /\ Goto(j, "createRole") /\ UNCHANGED queue
  <2>1. pc'[j] = "createRole" /\ \A k \in Jobs : k # j => UNCHANGED <<pc[k], queue[k]>>
    BY <1>4 DEF JobInv, TypeOK, Goto
  <2>2. ASSUME ~interfered PROVE ReadInv(j)' /\ DraftInv(j)' /\ TodoInv(j)'
    BY <1>1, <1>4, <2>1, <2>2 DEF QuietInv, ReadInv, DraftInv, TodoInv, IsMember, MemberOf, Named
  <2> QED BY <1>1, <1>2, <2>1, <2>2, QuietStep
<1> QED BY <1>3, <1>4 DEF FindRole

LEMMA CreateRoleQuiet == ASSUME JobInv, QuietInv, NEW j \in Jobs, CreateRole(j) PROVE QuietInv'
<1>1. /\ UNCHANGED <<perms, members, version, interfered>> /\ Running(j)
      /\ roles' = roles \cup {<<Maintainer, j>>} /\ WithRole(j, <<Maintainer, j>>)
      /\ pc[j] = "createRole"
  BY DEF CreateRole, Running
<1>2. ASSUME ~interfered PROVE NoDuplicates' /\ RolesMigrated'
  <2>1. Named(Maintainer) = {}
    BY <1>1, <1>2 DEF QuietInv, ReadInv
  <2>2. NoDuplicates'
    BY <1>1, <1>2, <2>1 DEF QuietInv, NoDuplicates, Named, PermsOf
  <2>3. RolesMigrated'
    BY <1>1, MigratedStays DEF QuietInv
  <2> QED BY <2>2, <2>3
<1> QED BY <1>1, <1>2, WithRoleQuiet

\* The only permittable of a member is going to be saved.
LEMMA EnsureLoadQuiet == ASSUME JobInv, QuietInv, NEW j \in Jobs, EnsureLoad(j) PROVE QuietInv'
<1>1. /\ UNCHANGED <<roles, perms, members, version, interfered>> /\ pc[j] = "ensure" /\ Running(j)
  BY DEF EnsureLoad, store, Running
<1>2. PICK u \in queue[j] :
        /\ queue' = [queue EXCEPT ![j] = @ \ {u}]
        /\ \/ \E p \in PermsOf(u) :
                IF maintainer[j] \in perms[p].global
                  THEN UNCHANGED <<pc, draft>>
                  ELSE /\ draft' = [draft EXCEPT ![j] =
                             <<p, [perms[p] EXCEPT !.global = @ \cup {maintainer[j]}]>>]
                       /\ Goto(j, "ensureSave")
           \/ /\ PermsOf(u) = {}
              /\ draft' = [draft EXCEPT ![j] =
                    <<<<u, j>>, [global |-> {maintainer[j]}, scoped |-> {}]>>]
              /\ Goto(j, "ensureSave")
  BY DEF EnsureLoad
<1>3. u \in Users /\ queue'[j] = queue[j] \ {u}
      /\ \A k \in Jobs : k # j => UNCHANGED <<pc[k], queue[k]>>
  BY <1>2 DEF JobInv, TypeOK, LocalsOK, Goto
<1>4. NoDuplicates' /\ RolesMigrated'
  BY <1>1, StoredStays DEF QuietInv
<1>5. pc'[j] \in {"ensure", "ensureSave"}
  BY <1>1, <1>2 DEF JobInv, TypeOK, Goto
<1>6. ASSUME ~interfered PROVE ReadInv(j)' /\ TodoInv(j)'
  BY <1>1, <1>3, <1>5, <1>6 DEF QuietInv, ReadInv, TodoInv, IsMember, MemberOf
<1>7. ASSUME ~interfered PROVE DraftInv(j)'
  <2> SUFFICES ASSUME pc'[j] = "ensureSave" PROVE DraftInv(j)'
    BY DEF DraftInv
  <2>1. PICK p, d : /\ p \in PermIDs /\ p[1] = u /\ PermsOf(u) \subseteq {p}
                    /\ draft'[j] = <<p, d>>
                    /\ perms[p] # None =>
                         perms[p].global \subseteq d.global /\ d.scoped = perms[p].scoped
    <3>1. CASE PermsOf(u) = {}
      <4> DEFINE p == <<u, j>>
                 d == [global |-> {maintainer[j]}, scoped |-> {}]
      <4>1. draft'[j] = <<p, d>>
        BY <1>2, <3>1 DEF JobInv, LocalsOK
      <4>2. p \in PermIDs /\ p[1] = u
        BY <1>3 DEF PermIDs
      <4>3. perms[p] = None
        BY <3>1, <4>2 DEF PermsOf
      <4> HIDE DEF p, d
      <4> QED BY <3>1, <4>1, <4>2, <4>3
    <3>2. ASSUME NEW p \in PermsOf(u),
                 draft' = [draft EXCEPT ![j] =
                             <<p, [perms[p] EXCEPT !.global = @ \cup {maintainer[j]}]>>]
          PROVE  \E q, d : /\ q \in PermIDs /\ q[1] = u /\ PermsOf(u) \subseteq {q}
                           /\ draft'[j] = <<q, d>>
                           /\ perms[q] # None =>
                                perms[q].global \subseteq d.global /\ d.scoped = perms[q].scoped
      <4> DEFINE d == [perms[p] EXCEPT !.global = @ \cup {maintainer[j]}]
      <4>1. p \in PermIDs /\ p[1] = u /\ perms[p] \in Perm
        BY DEF PermsOf, JobInv, TypeOK
      <4>2. PermsOf(u) \subseteq {p}
        BY <1>3, <1>7 DEF QuietInv, NoDuplicates
      <4>3. draft'[j] = <<p, d>>
        BY <3>2 DEF JobInv, LocalsOK
      <4>4. perms[p].global \subseteq d.global /\ d.scoped = perms[p].scoped
        BY <4>1 DEF Perm
      <4> HIDE DEF d
      <4> QED BY <4>1, <4>2, <4>3, <4>4
    <3>3. pc[j] # pc'[j]
      BY <1>1
    <3> QED BY <1>2, <3>1, <3>2, <3>3
  <2>2. IsMember(u)
    BY <1>7 DEF QuietInv, ReadInv
  <2>3. DraftInv(j)' <=> (pc'[j] = "ensureSave" =>
          /\ IsMember(draft'[j][1][1])
          /\ PermsOf(draft'[j][1][1]) \subseteq {draft'[j][1]}
          /\ perms[draft'[j][1]] # None =>
               /\ perms[draft'[j][1]].global \subseteq draft'[j][2].global
               /\ draft'[j][2].scoped = perms[draft'[j][1]].scoped)
    BY <1>1 DEF DraftInv, IsMember, MemberOf, PermsOf
  <2> QED BY <2>1, <2>2, <2>3
<1> QED BY <1>1, <1>3, <1>4, <1>6, <1>7, QuietStep

\* What a save does to other permittables: nothing.
LEMMA SavedOne ==
    ASSUME TypeOK, NEW p \in PermIDs, NEW d \in Perm, perms' = [perms EXCEPT ![p] = d]
    PROVE  /\ perms'[p] = d /\ \A q \in PermIDs : q # p => perms'[q] = perms[q]
           /\ \A u \in Users : u # p[1] => PermsOf(u)' = PermsOf(u)
           /\ PermsOf(p[1])' = PermsOf(p[1]) \cup {p}
<1>1. perms'[p] = d /\ \A q \in PermIDs : q # p => perms'[q] = perms[q]
  BY DEF TypeOK
<1>2. d # None
  BY NotNone
<1> QED BY <1>1, <1>2 DEF PermsOf

\* A save of the only permittable of a user leaves no duplicates.
LEMMA SavedOnlyOne ==
    ASSUME TypeOK, NoDuplicates, NEW p \in PermIDs, NEW d \in Perm,
           perms' = [perms EXCEPT ![p] = d], roles' = roles, interfered => interfered',
           ~interfered => PermsOf(p[1]) \subseteq {p}
    PROVE  NoDuplicates'
<1>1. \A u \in Users : u # p[1] => PermsOf(u)' = PermsOf(u)
  BY SavedOne
<1>2. PermsOf(p[1])' = PermsOf(p[1]) \cup {p}
  BY SavedOne
<1>3. p[1] \in Users
  BY DEF PermIDs
<1>4. ASSUME ~interfered' PROVE \A u \in Users : \A q, r \in PermsOf(u)' : q = r
  <2> SUFFICES ASSUME NEW u \in Users PROVE \A q, r \in PermsOf(u)' : q = r
    OBVIOUS
  <2>1. CASE u = p[1]
    BY <1>2, <1>4, <2>1
  <2>2. CASE u # p[1]
    BY <1>1, <1>4, <2>2 DEF NoDuplicates
  <2> QED BY <2>1, <2>2
<1> QED BY <1>4 DEF NoDuplicates

\* A save that gives a permittable what is promised keeps the promise.
LEMMA SavedMigrated ==
    ASSUME TypeOK, RolesMigrated, NEW p \in PermIDs, NEW d \in Perm,
           perms' = [perms EXCEPT ![p] = d], UNCHANGED <<members, version>>,
           interfered => interfered',
           ~interfered /\ IsMember(p[1]) =>
             /\ version >= 2 => HasSelf(d)
             /\ version >= 4 => ByName(d.scoped) = ExpectedNames(p[1])
    PROVE  RolesMigrated'
<1>1. \A u \in Users : ExpectedNames(u)' = ExpectedNames(u)
  BY DEF ExpectedNames, MemberOf
<1>2. ASSUME ~interfered', NEW u \in Users, NEW w \in Workspaces, MemberOf(u, w)',
             NEW q \in PermsOf(u)'
      PROVE  /\ version' >= 2 => \E r \in perms'[q].global : r[1] = Self
             /\ version' >= 4 => ScopedNames(q)' = ExpectedNames(u)'
  <2>1. ~interfered /\ MemberOf(u, w) /\ q \in PermIDs /\ q[1] = u
    BY <1>2 DEF MemberOf, PermsOf
  <2>2. CASE q = p
    <3>1. perms'[q] = d
      BY <2>2, SavedOne
    <3>2. ScopedNames(q)' = ByName(d.scoped)
      BY <3>1 DEF ScopedNames, ByName
    <3> QED BY <1>1, <2>1, <2>2, <3>1, <3>2 DEF IsMember, HasSelf
  <2>3. CASE q # p
    <3>1. perms'[q] = perms[q]
      BY <2>1, <2>3, SavedOne
    <3>2. q \in PermsOf(u)
      BY <1>2, <3>1 DEF PermsOf
    <3>3. ScopedNames(q)' = ScopedNames(q)
      BY <3>1 DEF ScopedNames, ByName
    <3> QED BY <1>1, <2>1, <3>1, <3>2, <3>3 DEF RolesMigrated
  <2> QED BY <2>2, <2>3
<1> QED BY <1>2 DEF RolesMigrated

\* What runMigration saves has all that was stored.
LEMMA EnsureSaveQuiet == ASSUME JobInv, QuietInv, NEW j \in Jobs, EnsureSave(j) PROVE QuietInv'
<1>1. /\ UNCHANGED <<roles, members, version, queue, interfered>> /\ Running(j)
      /\ pc[j] = "ensureSave" /\ draft[j] \in PermIDs \X Perm
      /\ perms' \in {perms, [perms EXCEPT ![draft[j][1]] = draft[j][2]]}
  BY DEF EnsureSave, Running, JobInv, LocalInv
<1>2. PICK p \in PermIDs, d \in Perm : draft[j] = <<p, d>>
  BY <1>1
<1>3. pc'[j] = "ensure" /\ \A k \in Jobs : k # j => UNCHANGED <<pc[k], queue[k]>>
  BY <1>1 DEF JobInv, TypeOK, EnsureSave, Goto
<1>4. ASSUME ~interfered
      PROVE  /\ IsMember(p[1]) /\ PermsOf(p[1]) \subseteq {p}
             /\ perms[p] # None => perms[p].global \subseteq d.global /\ d.scoped = perms[p].scoped
  BY <1>1, <1>2, <1>4 DEF QuietInv, DraftInv
<1>5. ASSUME ~interfered PROVE NoDuplicates' /\ RolesMigrated'
  <2>1. CASE perms' = perms
    BY <1>1, <2>1, StoredStays DEF QuietInv
  <2>2. CASE perms' = [perms EXCEPT ![p] = d]
    <3>1. NoDuplicates'
      BY <1>1, <1>4, <2>2, SavedOnlyOne DEF JobInv, QuietInv
    <3>2. PICK w \in Workspaces : MemberOf(p[1], w)
      BY <1>4, <1>5 DEF IsMember
    <3>3. p[1] \in Users
      BY DEF PermIDs
    <3>4. ASSUME version >= 2
          PROVE  /\ perms[p] # None /\ HasSelf(perms[p])
                 /\ version >= 4 => ScopedNames(p) = ExpectedNames(p[1])
      <4>1. PermsOf(p[1]) # {}
        BY <3>2, <3>3, <3>4 DEF JobInv, RecordedIsDone
      <4>2. p \in PermsOf(p[1])
        BY <1>4, <1>5, <4>1
      <4> QED BY <1>5, <3>2, <3>3, <3>4, <4>2 DEF QuietInv, RolesMigrated, HasSelf, PermsOf
    <3>5. version >= 2 => HasSelf(d)
      BY <1>4, <1>5, <3>4 DEF HasSelf
    <3>6. version >= 4 => ByName(d.scoped) = ExpectedNames(p[1])
      <4> SUFFICES ASSUME version >= 4 PROVE ByName(d.scoped) = ExpectedNames(p[1])
        OBVIOUS
      <4>1. version >= 2
        BY DEF JobInv, TypeOK
      <4> QED BY <1>4, <1>5, <3>4, <4>1 DEF ScopedNames
    <3>7. RolesMigrated'
      BY <1>1, <2>2, <3>5, <3>6, SavedMigrated DEF JobInv, QuietInv
    <3> QED BY <3>1, <3>7
  <2> QED BY <1>1, <1>2, <2>1, <2>2
<1>6. ASSUME ~interfered PROVE ReadInv(j)' /\ DraftInv(j)' /\ TodoInv(j)'
  BY <1>1, <1>3, <1>6 DEF QuietInv, ReadInv, DraftInv, TodoInv, IsMember, MemberOf
<1> QED BY <1>1, <1>3, <1>5, <1>6, QuietStep

-----------------------------------------------------------------------------
\* The steps of migration.Do.

\* A step that only moves the job, to a place where nothing is planned.
LEMMA MoveQuiet ==
    ASSUME JobInv, QuietInv, NEW j \in Jobs, Running(j), NEW l, Goto(j, l),
           l \in {"load", "run"}, UNCHANGED <<roles, perms, members, version, queue, interfered>>
    PROVE  QuietInv'
<1>1. pc'[j] = l /\ \A k \in Jobs : k # j => UNCHANGED <<pc[k], queue[k]>>
  BY DEF JobInv, TypeOK, Goto
<1>2. NoDuplicates' /\ RolesMigrated'
  BY StoredStays DEF QuietInv
<1>3. ASSUME ~interfered PROVE ReadInv(j)' /\ DraftInv(j)' /\ TodoInv(j)'
  BY <1>1, <1>3 DEF QuietInv, ReadInv, DraftInv, TodoInv, IsMember, MemberOf
<1> QED BY <1>1, <1>2, <1>3, QuietStep

LEMMA ForgetQuiet ==
    ASSUME JobInv, QuietInv, NEW j \in Jobs, Running(j), Forget(j),
           UNCHANGED <<store, interfered>>
    PROVE  QuietInv'
<1>1. UNCHANGED <<roles, perms, members, version>>
  BY DEF store
<1>2. pc'[j] = "over" /\ queue'[j] = {} /\ \A k \in Jobs : k # j => UNCHANGED <<pc[k], queue[k]>>
  BY DEF JobInv, TypeOK, LocalsOK, Forget, Goto
<1>3. NoDuplicates' /\ RolesMigrated'
  BY <1>1, StoredStays DEF QuietInv
<1>4. ReadInv(j)' /\ DraftInv(j)' /\ TodoInv(j)'
  BY <1>2 DEF ReadInv, DraftInv, TodoInv
<1> QED BY <1>1, <1>2, <1>3, <1>4, QuietStep

\* A name without an id has no role.
LEMMA ReadRolesQuiet == ASSUME JobInv, QuietInv, NEW j \in Jobs, ReadRoles(j) PROVE QuietInv'
<1>1. /\ UNCHANGED <<roles, perms, members, version, queue, seen, interfered>> /\ Running(j)
      /\ pc[j] = "run" /\ Goto(j, "migrate")
  BY DEF ReadRoles, store, Running
<1>2. PICK m \in [Names -> roles \cup {None}] :
        /\ \A n \in Names : IF Named(n) = {} THEN m[n] = None ELSE m[n] \in Named(n)
        /\ byName' = [byName EXCEPT ![j] = m]
  BY DEF ReadRoles
<1>3. /\ pc'[j] = "migrate" /\ byName'[j] = m /\ seen'[j] = None
      /\ \A k \in Jobs : k # j => UNCHANGED <<pc[k], queue[k]>>
  BY <1>1, <1>2 DEF JobInv, TypeOK, LocalsOK, LocalInv, Goto
<1>4. \A n \in Names : m[n] = None => Named(n) = {}
  BY <1>2, NotNone DEF JobInv, TypeOK, Named
<1>5. NoDuplicates' /\ RolesMigrated'
  BY <1>1, StoredStays DEF QuietInv
<1>6. ASSUME ~interfered PROVE ReadInv(j)' /\ DraftInv(j)' /\ TodoInv(j)'
  BY <1>1, <1>3, <1>4, <1>6 DEF QuietInv, ReadInv, DraftInv, TodoInv, IsMember, MemberOf, Named
<1> QED BY <1>1, <1>3, <1>5, <1>6, QuietStep

\* A role is added only when there is none of its name.
LEMMA AddRoleQuiet == ASSUME JobInv, QuietInv, NEW j \in Jobs, AddRole(j) PROVE QuietInv'
<1> DEFINE missing == {n \in Names : byName[j][n] = None}
           n == CHOOSE x \in missing : TRUE
<1>1. /\ UNCHANGED <<perms, members, version, pc, queue, current, seen, interfered>> /\ Running(j)
      /\ pc[j] = "migrate" /\ current[j] = 0 /\ n \in Names /\ byName[j][n] = None
      /\ roles' = roles \cup {<<n, j>>} /\ byName' = [byName EXCEPT ![j][n] = <<n, j>>]
  BY DEF AddRole, Running
<1> HIDE DEF n
<1>2. byName[j] \in [Names -> RoleIDs \cup {None}] /\ byName'[j] = [byName[j] EXCEPT ![n] = <<n, j>>]
  BY <1>1 DEF JobInv, LocalsOK, LocalInv
<1>3. seen[j] = None
  BY <1>1 DEF JobInv, LocalInv
<1>4. ASSUME ~interfered PROVE NoDuplicates' /\ RolesMigrated'
  <2>1. Named(n) = {}
    BY <1>1, <1>4 DEF QuietInv, ReadInv
  <2>2. NoDuplicates'
    BY <1>1, <1>4, <2>1 DEF QuietInv, NoDuplicates, Named, PermsOf
  <2>3. RolesMigrated'
    BY <1>1, MigratedStays DEF QuietInv
  <2> QED BY <2>2, <2>3
<1>5. <<n, j>> # None
  BY <1>1, NotNone DEF RoleIDs
<1>6. ASSUME ~interfered PROVE ReadInv(j)' /\ DraftInv(j)' /\ TodoInv(j)'
  <2>1. \A x \in Names : byName'[j][x] = None => x # n /\ byName[j][x] = None
    BY <1>1, <1>2, <1>5
  <2>2. \A x \in Names : x # n => Named(x)' = Named(x)
    BY <1>1 DEF Named
  <2>3. \A x \in Names : byName[j][x] = None => Named(x) = {}
    BY <1>1, <1>6 DEF QuietInv, ReadInv
  <2>4. \A x \in Names : byName'[j][x] = None => Named(x)' = {}
    BY <2>1, <2>2, <2>3
  <2> QED BY <1>1, <1>3, <1>6, <2>4 DEF QuietInv, ReadInv, DraftInv, TodoInv, IsMember, MemberOf
<1> QED BY <1>1, <1>4, <1>6, QuietStep

\* The first cursor reads what is stored.
LEMMA ReadFirstQuiet == ASSUME JobInv, QuietInv, NEW j \in Jobs, ReadFirst(j) PROVE QuietInv'
<1>1. /\ UNCHANGED <<roles, perms, members, version, pc, queue, current, byName, interfered>>
      /\ Running(j) /\ pc[j] = "migrate"
      /\ \/ current[j] = 1 /\ seen' = [seen EXCEPT ![j] = perms]
         \/ current[j] = 3 /\ seen' = [seen EXCEPT ![j] = members]
  BY DEF ReadFirst, store, Running
<1>2. NoDuplicates' /\ RolesMigrated'
  BY <1>1, StoredStays DEF QuietInv
<1>3. seen'[j] = IF current[j] = 1 THEN perms ELSE members
  BY <1>1 DEF JobInv, LocalsOK
<1>4. ASSUME ~interfered PROVE ReadInv(j)' /\ DraftInv(j)' /\ TodoInv(j)'
  BY <1>1, <1>3, <1>4 DEF QuietInv, ReadInv, DraftInv, TodoInv, IsMember, MemberOf, Named
<1> QED BY <1>1, <1>2, <1>4, QuietStep

-----------------------------------------------------------------------------
\* What the migrations plan.

\* A plan of one migration, once its documents are known to be what TodoInv
\* asks for.
LEMMA PlanQuiet ==
    ASSUME JobInv, QuietInv, NEW j \in Jobs, NEW plan, pc[j] = "migrate", Goto(j, "write"),
           todo' = [todo EXCEPT ![j] = plan],
           UNCHANGED <<roles, perms, members, version, queue, current, byName, interfered>>,
           ~interfered =>
             /\ \A p \in DOMAIN plan :
                  /\ PermsOf(p[1]) \subseteq {p}
                  /\ \A q \in DOMAIN plan : q[1] = p[1] => q = p
                  /\ IsMember(p[1]) => HasSelf(plan[p])
                  /\ current[j] = 3 => ByName(plan[p].scoped) = ExpectedNames(p[1])
             /\ \A p \in PermIDs \ DOMAIN plan : perms[p] # None =>
                  /\ IsMember(p[1]) => HasSelf(perms[p])
                  /\ current[j] = 3 => ScopedNames(p) = ExpectedNames(p[1])
    PROVE  QuietInv'
<1>1. pc'[j] = "write" /\ todo'[j] = plan /\ \A k \in Jobs : k # j => UNCHANGED <<pc[k], queue[k]>>
  BY DEF JobInv, TypeOK, LocalsOK, Goto
<1>2. NoDuplicates' /\ RolesMigrated'
  BY StoredStays DEF QuietInv
<1>3. ASSUME ~interfered PROVE ReadInv(j)' /\ DraftInv(j)'
  BY <1>1, <1>3 DEF QuietInv, ReadInv, DraftInv, IsMember, MemberOf, Named
<1>4. ASSUME ~interfered PROVE TodoInv(j)'
  <2>1. \A u : /\ PermsOf(u)' = PermsOf(u) /\ IsMember(u)' = IsMember(u)
               /\ ExpectedNames(u)' = ExpectedNames(u)
    BY DEF PermsOf, IsMember, MemberOf, ExpectedNames
  <2>2. \A p : ScopedNames(p)' = ScopedNames(p)
    BY DEF ScopedNames, ByName
  <2> QED BY <1>1, <1>4, <2>1, <2>2 DEF TodoInv, HasSelf, ByName
<1>5. Running(j)
  BY DEF Running
<1> QED BY <1>1, <1>2, <1>3, <1>4, <1>5, QuietStep

\* A permittable that is stored is its user's only one.
LEMMA OnlyOne ==
    ASSUME NoDuplicates, ~interfered, NEW p \in PermIDs, perms[p] # None
    PROVE  p[1] \in Users /\ p \in PermsOf(p[1]) /\ PermsOf(p[1]) \subseteq {p}
<1>1. p[1] \in Users /\ p \in PermsOf(p[1])
  BY DEF PermIDs, PermsOf
<1> QED BY <1>1 DEF NoDuplicates

\* A member's roles have ids once every role has one.
LEMMA MembersGranted ==
    ASSUME JobInv, NEW m \in [Names -> RoleIDs \cup {None}], \A n \in Names : m[n] # None,
           NEW u \in Users, IsMember(u)
    PROVE  Granted(members, m, u) # {}
<1>1. PICK w \in Workspaces : MemberOf(u, w)
  BY DEF IsMember
<1>2. members[w][u] \in Names /\ m[members[w][u]] # None
  BY <1>1 DEF JobInv, TypeOK, MemberOf
<1>3. w \in {x \in Workspaces : members[x][u] \in Names /\ m[members[x][u]] # None}
  BY <1>1, <1>2
<1>4. <<w, m[members[w][u]]>> \in
        {<<x, m[members[x][u]]>> : x \in {y \in Workspaces : members[y][u] \in Names /\ m[members[y][u]] # None}}
  BY <1>3
<1> QED BY <1>4 DEF Granted

LEMMA PlanMoveQuiet == ASSUME JobInv, QuietInv, NEW j \in Jobs, PlanMove(j) PROVE QuietInv'
<1>1. /\ UNCHANGED <<roles, perms, members, version, queue, current, byName, interfered>>
      /\ pc[j] = "migrate" /\ current[j] = 1 /\ seen[j] # None /\ Goto(j, "write")
  BY DEF PlanMove, store
<1>2. PICK pick \in [Users -> PermIDs \cup {None}] :
        /\ \A u \in Users :
             LET mine == {p \in PermIDs : p[1] = u /\ seen[j][p] # None}
             IN  IF mine = {} THEN pick[u] = None ELSE pick[u] \in mine
        /\ todo' = [todo EXCEPT ![j] =
                       [p \in UNION {DOMAIN Moved(j, pick, u) : u \in Users}
                           |-> Moved(j, pick, p[1])[p]]]
  BY DEF PlanMove
<1> DEFINE m == byName[j]
           plan == [p \in UNION {DOMAIN Moved(j, pick, u) : u \in Users}
                       |-> Moved(j, pick, p[1])[p]]
           id(u) == IF pick[u] = None THEN <<u, j>> ELSE pick[u]
<1>3. /\ m \in [Names -> RoleIDs \cup {None}]
      /\ \A n \in Names : m[n] # None /\ m[n] \in Named(n)
  BY <1>1 DEF JobInv, LocalInv, PlanInv
<1>4. m[Self] \in Named(Self)
  BY <1>3, JobAssumption
<1>5. ASSUME ~interfered, NEW u \in Users
      PROVE  /\ id(u)[1] = u /\ PermsOf(u) \subseteq {id(u)}
             /\ DOMAIN Moved(j, pick, u) \subseteq {id(u)}
             /\ PermsOf(u) \subseteq DOMAIN Moved(j, pick, u)
             /\ IsMember(u) => \A p \in DOMAIN Moved(j, pick, u) : HasSelf(Moved(j, pick, u)[p])
  <2> DEFINE g == Granted(members, m, u)
             old == IF pick[u] = None THEN [global |-> {}, scoped |-> {}] ELSE seen[j][pick[u]]
             new == [global |-> IF g = {} THEN old.global ELSE old.global \cup {m[Self]},
                     scoped |-> old.scoped \cup g]
  <2>1. seen[j] = perms
    BY <1>1, <1>5 DEF QuietInv, ReadInv
  <2>2. IF PermsOf(u) = {} THEN pick[u] = None ELSE pick[u] \in PermsOf(u)
    BY <1>2, <2>1 DEF PermsOf
  <2>3. \A p \in PermsOf(u) : p # None /\ p[1] = u
    BY JobAssumption DEF PermsOf
  <2>4. id(u)[1] = u /\ PermsOf(u) \subseteq {id(u)}
    BY <1>5, <2>2, <2>3 DEF QuietInv, NoDuplicates
  <2>5. Moved(j, pick, u) = IF g = {} /\ pick[u] = None THEN EmptyTodo ELSE [p \in {id(u)} |-> new]
    BY DEF Moved
  <2>6. IsMember(u) => g # {}
    BY <1>3, MembersGranted
  <2>7. g # {} => HasSelf(new)
    BY <1>4 DEF HasSelf, Named
  <2> HIDE DEF g, new, id
  <2>8. DOMAIN Moved(j, pick, u) \subseteq {id(u)}
    BY <2>5 DEF EmptyTodo
  <2>9. PermsOf(u) # {} => DOMAIN Moved(j, pick, u) = {id(u)}
    BY <2>2, <2>3, <2>5
  <2>10. IsMember(u) => \A p \in DOMAIN Moved(j, pick, u) : HasSelf(Moved(j, pick, u)[p])
    BY <2>5, <2>6, <2>7
  <2> QED BY <2>4, <2>8, <2>9, <2>10
<1> HIDE DEF id
<1>6. ASSUME ~interfered, NEW p \in DOMAIN plan
      PROVE  /\ PermsOf(p[1]) \subseteq {p} /\ \A q \in DOMAIN plan : q[1] = p[1] => q = p
             /\ IsMember(p[1]) => HasSelf(plan[p])
  <2>1. PICK u \in Users : p \in DOMAIN Moved(j, pick, u)
    BY <1>6
  <2>2. p = id(u) /\ p[1] = u
    BY <1>5, <1>6, <2>1
  <2>3. \A q \in DOMAIN plan : \E v \in Users : q = id(v) /\ q[1] = v
    BY <1>5, <1>6
  <2>4. plan[p] = Moved(j, pick, u)[p]
    BY <2>2
  <2> QED BY <1>5, <1>6, <2>1, <2>2, <2>3, <2>4
<1>7. ASSUME ~interfered, NEW p \in PermIDs \ DOMAIN plan PROVE perms[p] = None
  <2> SUFFICES ASSUME perms[p] # None PROVE FALSE
    OBVIOUS
  <2>1. p[1] \in Users /\ p \in PermsOf(p[1])
    BY DEF PermIDs, PermsOf
  <2> QED BY <1>5, <1>7, <2>1
<1>8. todo' = [todo EXCEPT ![j] = plan]
  BY <1>2
<1> HIDE DEF plan
<1>9. ~interfered =>
       /\ \A p \in DOMAIN plan :
            /\ PermsOf(p[1]) \subseteq {p}
            /\ \A q \in DOMAIN plan : q[1] = p[1] => q = p
            /\ IsMember(p[1]) => HasSelf(plan[p])
            /\ current[j] = 3 => ByName(plan[p].scoped) = ExpectedNames(p[1])
       /\ \A p \in PermIDs \ DOMAIN plan : perms[p] # None =>
            /\ IsMember(p[1]) => HasSelf(perms[p])
            /\ current[j] = 3 => ScopedNames(p) = ExpectedNames(p[1])
  BY <1>1, <1>6, <1>7
<1> QED BY <1>1, <1>8, <1>9, PlanQuiet

\* The fixed permittable has self.
LEMMA FixedGlobalSelf ==
    ASSUME JobInv, NEW j \in Jobs, pc[j] = "migrate", current[j] = 2,
           NEW p \in PermIDs, perms[p] # None
    PROVE  HasSelf(FixedGlobal(j, p))
<1> DEFINE m == byName[j]
           remove == {m[n] : n \in Names \ {Self}}
           self == IF m[Self] = None THEN {} ELSE {m[Self]}
<1>1. m[Self] # None /\ m[Self] \in Named(Self)
  BY JobAssumption DEF JobInv, LocalInv, PlanInv
<1>2. perms[p] \in Perm
  BY DEF JobInv, TypeOK
<1>3. FixedGlobal(j, p) = [perms[p] EXCEPT !.global = (@ \ remove) \cup self]
  BY DEF FixedGlobal
<1>4. self = {m[Self]}
  BY <1>1
<1> HIDE DEF remove, self
<1>5. FixedGlobal(j, p).global = (perms[p].global \ remove) \cup self
  BY <1>2, <1>3 DEF Perm
<1> QED BY <1>1, <1>4, <1>5 DEF HasSelf, Named

\* The fixed permittable has the roles of the enabled members, by name.
LEMMA FixedScopedNames ==
    ASSUME JobInv, NEW j \in Jobs, pc[j] = "migrate", current[j] = 3, seen[j] = members,
           NEW p \in PermIDs, perms[p] # None
    PROVE  /\ FixedScoped(j, p).global = perms[p].global
           /\ ByName(FixedScoped(j, p).scoped) = ExpectedNames(p[1])
<1> DEFINE m == byName[j]
           u == p[1]
           s == {g \in Granted(members, m, u) : <<g[1], u>> \notin Disabled}
<1>1. \A n \in Names : m[n] # None /\ m[n] \in RoleIDs /\ m[n][1] = n
  BY DEF JobInv, TypeOK, LocalInv, PlanInv, Named
<1>2. u \in Users /\ perms[p] \in Perm
  BY DEF JobInv, TypeOK, PermIDs
<1>3. FixedScoped(j, p) = [perms[p] EXCEPT !.scoped = s]
  BY DEF FixedScoped
<1>4. FixedScoped(j, p).global = perms[p].global /\ FixedScoped(j, p).scoped = s
  <2> HIDE DEF s
  <2> QED BY <1>2, <1>3 DEF Perm
<1>5. \A w \in Workspaces : MemberOf(u, w) <=> members[w][u] \in Names
  BY <1>2, NotNone DEF JobInv, TypeOK, MemberOf
<1>6. \A y : y \in s <=> \E w \in Workspaces : /\ MemberOf(u, w) /\ <<w, u>> \notin Disabled
                                               /\ y = <<w, m[members[w][u]]>>
  <2>1. {x \in Workspaces : members[x][u] \in Names /\ m[members[x][u]] # None}
          = {x \in Workspaces : MemberOf(u, x)}
    BY <1>1, <1>5
  <2>2. Granted(members, m, u) = {<<w, m[members[w][u]]>> : w \in {x \in Workspaces : MemberOf(u, x)}}
    BY <2>1 DEF Granted
  <2>3. ASSUME NEW y \in s
        PROVE  \E w \in Workspaces : /\ MemberOf(u, w) /\ <<w, u>> \notin Disabled
                                      /\ y = <<w, m[members[w][u]]>>
    <3>1. PICK w \in Workspaces : MemberOf(u, w) /\ y = <<w, m[members[w][u]]>>
      BY <2>2
    <3>2. y[1] = w /\ <<y[1], u>> \notin Disabled
      BY <3>1
    <3> QED BY <3>1, <3>2
  <2>4. ASSUME NEW w \in Workspaces, MemberOf(u, w), <<w, u>> \notin Disabled
        PROVE  <<w, m[members[w][u]]>> \in s
    <3>1. <<w, m[members[w][u]]>> \in Granted(members, m, u)
      BY <2>2, <2>4
    <3> QED BY <2>4, <3>1
  <2> QED BY <2>3, <2>4
<1> HIDE DEF s
<1>7. ByName(s) \subseteq ExpectedNames(u)
  <2> SUFFICES ASSUME NEW g \in s PROVE <<g[1], g[2][1]>> \in ExpectedNames(u)
    BY DEF ByName
  <2>1. PICK w \in Workspaces : /\ MemberOf(u, w) /\ <<w, u>> \notin Disabled
                                /\ g = <<w, m[members[w][u]]>>
    BY <1>6
  <2>2. g[1] = w /\ g[2][1] = members[w][u]
    BY <1>1, <1>5, <2>1
  <2> QED BY <2>1, <2>2 DEF ExpectedNames
<1>8. ExpectedNames(u) \subseteq ByName(s)
  <2> SUFFICES ASSUME NEW w \in Workspaces, MemberOf(u, w), <<w, u>> \notin Disabled
               PROVE  <<w, members[w][u]>> \in ByName(s)
    BY DEF ExpectedNames
  <2>1. <<w, m[members[w][u]]>> \in s /\ m[members[w][u]][1] = members[w][u]
    BY <1>1, <1>5, <1>6
  <2> QED BY <2>1 DEF ByName
<1> QED BY <1>4, <1>7, <1>8

LEMMA PlanFixQuiet == ASSUME JobInv, QuietInv, NEW j \in Jobs, PlanFix(j) PROVE QuietInv'
<1>1. /\ UNCHANGED <<roles, perms, members, version, queue, current, byName, interfered>>
      /\ pc[j] = "migrate" /\ Goto(j, "write")
  BY DEF PlanFix, store
<1>2. CASE /\ current[j] = 2
           /\ todo' = [todo EXCEPT ![j] =
                 [p \in {q \in PermIDs : perms[q] # None /\ FixedGlobal(j, q) # perms[q]}
                     |-> FixedGlobal(j, p)]]
  <2> DEFINE plan == [p \in {q \in PermIDs : perms[q] # None /\ FixedGlobal(j, q) # perms[q]}
                         |-> FixedGlobal(j, p)]
  <2>1. ASSUME ~interfered, NEW p \in DOMAIN plan
        PROVE  /\ PermsOf(p[1]) \subseteq {p} /\ \A q \in DOMAIN plan : q[1] = p[1] => q = p
               /\ HasSelf(plan[p])
    <3>1. \A q \in DOMAIN plan : q \in PermIDs /\ PermsOf(q[1]) \subseteq {q} /\ q \in PermsOf(q[1])
      BY <2>1, OnlyOne DEF QuietInv
    <3>2. HasSelf(plan[p])
      BY <1>1, <1>2, FixedGlobalSelf
    <3> QED BY <3>1, <3>2
  <2>2. ASSUME NEW p \in PermIDs \ DOMAIN plan, perms[p] # None PROVE HasSelf(perms[p])
    BY <1>1, <1>2, <2>2, FixedGlobalSelf
  <2>3. todo' = [todo EXCEPT ![j] = plan]
    BY <1>2
  <2> HIDE DEF plan
  <2>4. ~interfered =>
         /\ \A p \in DOMAIN plan :
              /\ PermsOf(p[1]) \subseteq {p}
              /\ \A q \in DOMAIN plan : q[1] = p[1] => q = p
              /\ IsMember(p[1]) => HasSelf(plan[p])
              /\ current[j] = 3 => ByName(plan[p].scoped) = ExpectedNames(p[1])
         /\ \A p \in PermIDs \ DOMAIN plan : perms[p] # None =>
              /\ IsMember(p[1]) => HasSelf(perms[p])
              /\ current[j] = 3 => ScopedNames(p) = ExpectedNames(p[1])
    BY <1>2, <2>1, <2>2
  <2> QED BY <1>1, <2>3, <2>4, PlanQuiet
<1>3. CASE /\ current[j] = 3 /\ seen[j] # None
           /\ todo' = [todo EXCEPT ![j] =
                 [p \in {q \in PermIDs : perms[q] # None /\ FixedScoped(j, q) # perms[q]}
                     |-> FixedScoped(j, p)]]
  <2> DEFINE plan == [p \in {q \in PermIDs : perms[q] # None /\ FixedScoped(j, q) # perms[q]}
                         |-> FixedScoped(j, p)]
  <2>1. ASSUME ~interfered, NEW p \in PermIDs, perms[p] # None
        PROVE  /\ PermsOf(p[1]) \subseteq {p} /\ p \in PermsOf(p[1])
               /\ IsMember(p[1]) => HasSelf(perms[p])
               /\ FixedScoped(j, p).global = perms[p].global
               /\ ByName(FixedScoped(j, p).scoped) = ExpectedNames(p[1])
    <3>1. PermsOf(p[1]) \subseteq {p} /\ p \in PermsOf(p[1]) /\ p[1] \in Users
      BY <2>1, OnlyOne DEF QuietInv
    <3>2. seen[j] = members
      BY <1>1, <1>3, <2>1 DEF QuietInv, ReadInv
    <3>3. version >= 2
      BY <1>1, <1>3 DEF JobInv, TypeOK, RunnerInv, Migrating
    <3>4. IsMember(p[1]) => HasSelf(perms[p])
      BY <2>1, <3>1, <3>3 DEF QuietInv, RolesMigrated, IsMember, HasSelf
    <3> QED BY <1>1, <1>3, <2>1, <3>1, <3>2, <3>4, FixedScopedNames
  <2>2. ASSUME ~interfered, NEW p \in DOMAIN plan
        PROVE  /\ PermsOf(p[1]) \subseteq {p} /\ \A q \in DOMAIN plan : q[1] = p[1] => q = p
               /\ IsMember(p[1]) => HasSelf(plan[p])
               /\ ByName(plan[p].scoped) = ExpectedNames(p[1])
    <3>1. \A q \in DOMAIN plan : q \in PermIDs /\ perms[q] # None /\ plan[q] = FixedScoped(j, q)
      OBVIOUS
    <3> HIDE DEF plan
    <3>2. \A q \in DOMAIN plan : PermsOf(q[1]) \subseteq {q} /\ q \in PermsOf(q[1])
      BY <2>1, <2>2, <3>1
    <3> QED BY <2>1, <2>2, <3>1, <3>2 DEF HasSelf
  <2>3. ASSUME ~interfered, NEW p \in PermIDs \ DOMAIN plan, perms[p] # None
        PROVE  /\ IsMember(p[1]) => HasSelf(perms[p])
               /\ ScopedNames(p) = ExpectedNames(p[1])
    <3>1. FixedScoped(j, p) = perms[p]
      BY <2>3
    <3> QED BY <2>1, <2>3, <3>1 DEF ScopedNames
  <2>4. todo' = [todo EXCEPT ![j] = plan]
    BY <1>3
  <2> HIDE DEF plan
  <2>5. ~interfered =>
         /\ \A p \in DOMAIN plan :
              /\ PermsOf(p[1]) \subseteq {p}
              /\ \A q \in DOMAIN plan : q[1] = p[1] => q = p
              /\ IsMember(p[1]) => HasSelf(plan[p])
              /\ current[j] = 3 => ByName(plan[p].scoped) = ExpectedNames(p[1])
         /\ \A p \in PermIDs \ DOMAIN plan : perms[p] # None =>
              /\ IsMember(p[1]) => HasSelf(perms[p])
              /\ current[j] = 3 => ScopedNames(p) = ExpectedNames(p[1])
    BY <2>2, <2>3
  <2> QED BY <1>1, <2>4, <2>5, PlanQuiet
<1> QED BY <1>2, <1>3 DEF PlanFix

-----------------------------------------------------------------------------
\* Saving, recording and serving.

LEMMA WriteQuiet == ASSUME JobInv, QuietInv, NEW j \in Jobs, Write(j) PROVE QuietInv'
<1>1. /\ UNCHANGED <<roles, members, version, pc, queue, current, byName, interfered>>
      /\ pc[j] = "write" /\ Running(j)
  BY DEF Write, Running
<1>2. PICK p \in DOMAIN todo[j] :
        /\ perms' = [perms EXCEPT ![p] = todo[j][p]]
        /\ todo' = [todo EXCEPT ![j] = [q \in DOMAIN @ \ {p} |-> @[q]]]
  BY DEF Write
<1>3. p \in PermIDs /\ todo[j][p] \in Perm /\ DOMAIN todo[j] \subseteq PermIDs
  BY DEF JobInv, LocalsOK
<1>4. todo'[j] = [q \in DOMAIN todo[j] \ {p} |-> todo[j][q]]
  BY <1>2 DEF JobInv, LocalsOK
<1>5. /\ perms'[p] = todo[j][p] /\ \A q \in PermIDs : q # p => perms'[q] = perms[q]
      /\ \A u \in Users : u # p[1] => PermsOf(u)' = PermsOf(u)
  BY <1>2, <1>3, SavedOne DEF JobInv
<1>6. version < 4
  BY <1>1 DEF JobInv, TypeOK, RunnerInv, PlanInv, Migrating, LastVersion
<1>7. ASSUME ~interfered
      PROVE  /\ PermsOf(p[1]) \subseteq {p}
             /\ \A q \in DOMAIN todo[j] : q[1] = p[1] => q = p
             /\ IsMember(p[1]) => HasSelf(todo[j][p])
             /\ current[j] = 3 => ByName(todo[j][p].scoped) = ExpectedNames(p[1])
  BY <1>1, <1>7 DEF QuietInv, TodoInv
<1>8. ASSUME ~interfered PROVE NoDuplicates' /\ RolesMigrated'
  <2>1. NoDuplicates'
    BY <1>1, <1>2, <1>3, <1>7, SavedOnlyOne DEF JobInv, QuietInv
  <2>2. ~(version >= 4)
    BY <1>6 DEF JobInv, TypeOK
  <2>3. RolesMigrated'
    BY <1>1, <1>2, <1>3, <1>7, <1>8, <2>2, SavedMigrated DEF JobInv, QuietInv
  <2> QED BY <2>1, <2>3
<1>9. ASSUME ~interfered PROVE ReadInv(j)' /\ DraftInv(j)'
  BY <1>1, <1>9 DEF QuietInv, ReadInv, DraftInv, IsMember, MemberOf, Named
<1>10. \A u : IsMember(u)' = IsMember(u) /\ ExpectedNames(u)' = ExpectedNames(u)
  BY <1>1 DEF IsMember, MemberOf, ExpectedNames
<1>11. ASSUME ~interfered, NEW q \in DOMAIN todo'[j]
       PROVE  /\ PermsOf(q[1])' \subseteq {q}
              /\ \A r \in DOMAIN todo'[j] : r[1] = q[1] => r = q
              /\ IsMember(q[1]) => HasSelf(todo'[j][q])
              /\ current[j] = 3 => ByName(todo'[j][q].scoped) = ExpectedNames(q[1])
  <2>1. q \in DOMAIN todo[j] /\ q # p /\ todo'[j][q] = todo[j][q]
    BY <1>4
  <2>2. q[1] # p[1]
    BY <1>7, <1>11, <2>1
  <2>3. PermsOf(q[1])' = PermsOf(q[1])
    BY <1>3, <1>5, <2>1, <2>2 DEF PermIDs
  <2>4. /\ PermsOf(q[1]) \subseteq {q}
        /\ \A r \in DOMAIN todo[j] : r[1] = q[1] => r = q
        /\ IsMember(q[1]) => HasSelf(todo[j][q])
        /\ current[j] = 3 => ByName(todo[j][q].scoped) = ExpectedNames(q[1])
    BY <1>1, <1>11, <2>1 DEF QuietInv, TodoInv
  <2> QED BY <1>4, <2>1, <2>3, <2>4
<1>12. ASSUME ~interfered, NEW q \in PermIDs \ DOMAIN todo'[j], perms'[q] # None
       PROVE  /\ IsMember(q[1]) => HasSelf(perms'[q])
              /\ current[j] = 3 => ByName(perms'[q].scoped) = ExpectedNames(q[1])
  <2>1. CASE q = p
    BY <1>5, <1>7, <1>12, <2>1
  <2>2. CASE q # p
    <3>1. q \in PermIDs \ DOMAIN todo[j] /\ perms'[q] = perms[q]
      BY <1>4, <1>5, <2>2
    <3> QED BY <1>1, <1>12, <3>1 DEF QuietInv, TodoInv, ScopedNames
  <2> QED BY <2>1, <2>2
<1>13. ASSUME ~interfered PROVE TodoInv(j)'
  BY <1>1, <1>10, <1>11, <1>12, <1>13 DEF TodoInv, ScopedNames, HasSelf, ByName
<1> QED BY <1>1, <1>8, <1>9, <1>13, QuietStep

\* A migration is recorded when what it promises is stored.
LEMMA RecordQuiet == ASSUME JobInv, QuietInv, NEW j \in Jobs, Record(j) PROVE QuietInv'
<1>1. /\ UNCHANGED <<roles, perms, members, queue, interfered>>
      /\ version' = current[j] + 1 /\ Goto(j, "run") /\ pc[j] \in {"migrate", "write"}
      /\ \/ pc[j] = "write" /\ DOMAIN todo[j] = {}
         \/ current[j] = 0
  BY DEF Record, Ended
<1>2. current[j] \in 0..LastVersion /\ Running(j)
  BY <1>1 DEF JobInv, TypeOK, Running
<1>3. pc'[j] = "run" /\ \A k \in Jobs : k # j => UNCHANGED <<pc[k], queue[k]>>
  BY <1>1 DEF JobInv, TypeOK, Goto
<1>4. NoDuplicates'
  BY <1>1 DEF QuietInv, NoDuplicates, PermsOf
<1>5. ASSUME ~interfered PROVE RolesMigrated'
  <2> SUFFICES ASSUME NEW u \in Users, NEW w \in Workspaces, MemberOf(u, w)', NEW p \in PermsOf(u)'
               PROVE  /\ version' >= 2 => \E r \in perms'[p].global : r[1] = Self
                      /\ version' >= 4 => ScopedNames(p)' = ExpectedNames(u)'
    BY DEF RolesMigrated
  <2>1. IsMember(u) /\ p \in PermIDs /\ p[1] = u /\ perms[p] # None
    BY <1>1 DEF IsMember, MemberOf, PermsOf
  <2>2. CASE current[j] = 0
    BY <1>1, <2>2
  <2>3. CASE pc[j] = "write" /\ DOMAIN todo[j] = {}
    <3>1. HasSelf(perms[p]) /\ (current[j] = 3 => ScopedNames(p) = ExpectedNames(u))
      BY <1>5, <2>1, <2>3 DEF QuietInv, TodoInv
    <3>2. version' >= 4 => current[j] = 3
      BY <1>1, <2>3 DEF JobInv, PlanInv, LastVersion
    <3>3. ScopedNames(p)' = ScopedNames(p) /\ ExpectedNames(u)' = ExpectedNames(u)
      BY <1>1 DEF ScopedNames, ByName, ExpectedNames, MemberOf
    <3> QED BY <1>1, <3>1, <3>2, <3>3 DEF HasSelf
  <2> QED BY <1>1, <2>2, <2>3
<1>6. ASSUME ~interfered PROVE ReadInv(j)' /\ DraftInv(j)' /\ TodoInv(j)'
  BY <1>1, <1>3, <1>6 DEF QuietInv, ReadInv, DraftInv, TodoInv, IsMember, MemberOf
<1> QED BY <1>1, <1>2, <1>3, <1>4, <1>5, <1>6, QuietStep

\* The server gives permittable and member the same role.
LEMMA ServeQuiet ==
    ASSUME JobInv, QuietInv, NEW w \in Workspaces, NEW u \in Users, NEW n \in Names \ {Self},
           Serve(w, u, n)
    PROVE  QuietInv'
<1>1. /\ UNCHANGED <<roles, version, pc, queue>>
      /\ MemberOf(u, w) /\ <<w, u>> \notin Disabled /\ members' = [members EXCEPT ![w][u] = n]
      /\ interfered' = (interfered \/ \E k \in Jobs : Running(k))
  BY DEF Serve, locals
<1>2. PICK p \in PermsOf(u), r \in Named(n) :
         perms' = [perms EXCEPT ![p].scoped = {g \in @ : g[1] # w} \cup {<<w, r>>}]
  BY DEF Serve
<1> DEFINE s == {g \in perms[p].scoped : g[1] # w} \cup {<<w, r>>}
           d == [perms[p] EXCEPT !.scoped = s]
<1>3. /\ p \in PermIDs /\ p[1] = u /\ perms[p] \in Perm /\ perms[p] # None
      /\ r \in RoleIDs /\ r[1] = n
  BY DEF PermsOf, Named, JobInv, TypeOK
<1>4. perms' = [perms EXCEPT ![p] = d]
  BY <1>2, <1>3 DEF JobInv, TypeOK
<1>5. d \in Perm /\ d.global = perms[p].global /\ d.scoped = s
  <2>1. s \in SUBSET (Workspaces \X RoleIDs)
    BY <1>3 DEF Perm
  <2> HIDE DEF s
  <2> QED BY <1>3, <2>1 DEF Perm
<1> HIDE DEF d
<1>6. \A x \in Workspaces, v \in Users :
         members'[x][v] = IF x = w /\ v = u THEN n ELSE members[x][v]
  BY <1>1 DEF JobInv, TypeOK
<1>7. \A x \in Workspaces, v \in Users : MemberOf(v, x)' <=> MemberOf(v, x)
  BY <1>1, <1>6, NotNone DEF MemberOf
<1>8. CASE interfered'
  BY <1>8 DEF QuietInv, NoDuplicates, RolesMigrated
<1>9. CASE ~interfered'
  <2>1. ~interfered /\ \A k \in Jobs : ~Running(k)
    BY <1>1, <1>9
  <2>2. PermsOf(u) \subseteq {p}
    BY <1>3, <2>1, OnlyOne DEF QuietInv
  <2>3. NoDuplicates'
    BY <1>1, <1>3, <1>4, <1>5, <2>1, <2>2, SavedOnlyOne DEF JobInv, QuietInv
  <2>4. /\ perms'[p] = d /\ \A q \in PermIDs : q # p => perms'[q] = perms[q]
        /\ \A v \in Users : v # u => PermsOf(v)' = PermsOf(v)
        /\ PermsOf(u)' = PermsOf(u) \cup {p}
    <3>1. TypeOK /\ p \in PermIDs /\ p[1] = u /\ d \in Perm
      BY <1>3, <1>5 DEF JobInv
    <3> QED BY <1>4, <3>1, SavedOne
  <2>5. \A v \in Users : v # u => ExpectedNames(v)' = ExpectedNames(v)
    <3> SUFFICES ASSUME NEW v \in Users, v # u PROVE ExpectedNames(v)' = ExpectedNames(v)
      OBVIOUS
    <3>1. \A x \in Workspaces : members'[x][v] = members[x][v] /\ (MemberOf(v, x)' <=> MemberOf(v, x))
      BY <1>6, <1>7
    <3> QED BY <3>1 DEF ExpectedNames
  <2>6. ScopedNames(p) = ExpectedNames(u) => ScopedNames(p)' = ExpectedNames(u)'
    <3> SUFFICES ASSUME ScopedNames(p) = ExpectedNames(u)
                 PROVE  ScopedNames(p)' = ExpectedNames(u)'
      OBVIOUS
    <3>1. ScopedNames(p)' = {<<g[1], g[2][1]>> : g \in s}
      BY <1>5, <2>4 DEF ScopedNames, ByName
    <3>2. \A y : y \in ScopedNames(p)' <=> y = <<w, n>> \/ (y \in ScopedNames(p) /\ y[1] # w)
      <4>1. \A y : y \in {<<g[1], g[2][1]>> : g \in {x \in perms[p].scoped : x[1] # w}}
                  <=> y \in ScopedNames(p) /\ y[1] # w
        BY DEF ScopedNames, ByName
      <4>2. {<<g[1], g[2][1]>> : g \in s} =
              {<<g[1], g[2][1]>> : g \in {x \in perms[p].scoped : x[1] # w}}
                \cup {<<<<w, r>>[1], <<w, r>>[2][1]>>}
        OBVIOUS
      <4> QED BY <1>3, <3>1, <4>1, <4>2
    <3>3. \A y : y \in ExpectedNames(u)' <=> y = <<w, n>> \/ (y \in ExpectedNames(u) /\ y[1] # w)
      <4>1. \A y : y \in ExpectedNames(u)' <=>
              \E x \in Workspaces : /\ MemberOf(u, x) /\ <<x, u>> \notin Disabled
                                    /\ y = <<x, members'[x][u]>>
        BY <1>7 DEF ExpectedNames
      <4>2. \A y : y \in ExpectedNames(u) <=>
              \E x \in Workspaces : /\ MemberOf(u, x) /\ <<x, u>> \notin Disabled
                                    /\ y = <<x, members[x][u]>>
        BY DEF ExpectedNames
      <4>3. members'[w][u] = n /\ \A x \in Workspaces : x # w => members'[x][u] = members[x][u]
        BY <1>6
      <4>4. <<w, n>> \in ExpectedNames(u)'
        BY <1>1, <4>1, <4>3
      <4>5. ASSUME NEW y \in ExpectedNames(u)', y # <<w, n>>
            PROVE  y \in ExpectedNames(u) /\ y[1] # w
        <5>1. PICK x \in Workspaces : /\ MemberOf(u, x) /\ <<x, u>> \notin Disabled
                                      /\ y = <<x, members'[x][u]>>
          BY <4>1
        <5>2. x # w /\ y = <<x, members[x][u]>>
          BY <4>3, <4>5, <5>1
        <5> QED BY <4>2, <5>1, <5>2
      <4>6. ASSUME NEW y \in ExpectedNames(u), y[1] # w PROVE y \in ExpectedNames(u)'
        <5>1. PICK x \in Workspaces : /\ MemberOf(u, x) /\ <<x, u>> \notin Disabled
                                      /\ y = <<x, members[x][u]>>
          BY <4>2
        <5>2. x # w /\ y = <<x, members'[x][u]>>
          BY <4>3, <4>6, <5>1
        <5> QED BY <4>1, <5>1, <5>2
      <4> QED BY <4>4, <4>5, <4>6
    <3> QED BY <3>2, <3>3
  <2>7. RolesMigrated'
    <3> SUFFICES ASSUME NEW v \in Users, NEW x \in Workspaces, MemberOf(v, x)', NEW q \in PermsOf(v)'
                 PROVE  /\ version' >= 2 => \E y \in perms'[q].global : y[1] = Self
                        /\ version' >= 4 => ScopedNames(q)' = ExpectedNames(v)'
      BY DEF RolesMigrated
    <3>1. MemberOf(v, x) /\ q \in PermsOf(v) /\ q \in PermIDs /\ q[1] = v
      BY <1>7, <2>4 DEF PermsOf
    <3>2. /\ version >= 2 => \E y \in perms[q].global : y[1] = Self
          /\ version >= 4 => ScopedNames(q) = ExpectedNames(v)
      BY <2>1, <3>1 DEF QuietInv, RolesMigrated
    <3>3. CASE v = u
      <4>1. q = p
        BY <2>2, <3>1, <3>3
      <4> QED BY <1>1, <1>5, <2>4, <2>6, <3>2, <3>3, <4>1
    <3>4. CASE v # u
      <4>1. perms'[q] = perms[q]
        BY <1>3, <2>4, <3>1, <3>4
      <4>2. ScopedNames(q)' = ScopedNames(q)
        BY <4>1 DEF ScopedNames, ByName
      <4> QED BY <1>1, <2>5, <3>2, <3>4, <4>1, <4>2
    <3> QED BY <3>3, <3>4
  <2>8. \A k \in Jobs : pc'[k] \in {"new", "over"}
    BY <1>1, <2>1 DEF Running
  <2>9. OneJob' /\ \A k \in Jobs : DraftInv(k)' /\ TodoInv(k)'
    BY <2>8 DEF OneJob, Running, DraftInv, TodoInv
  <2>10. \A k \in Jobs : ReadInv(k)'
    <3> SUFFICES ASSUME NEW k \in Jobs PROVE ReadInv(k)'
      OBVIOUS
    <3>1. \A v \in queue[k] : v \in Users /\ IsMember(v)
      BY <2>1 DEF QuietInv, ReadInv, JobInv, LocalsOK
    <3>2. \A v \in queue'[k] : IsMember(v)'
      BY <1>1, <1>7, <3>1 DEF IsMember
    <3> QED BY <2>8, <3>2 DEF ReadInv
  <2> QED BY <2>3, <2>7, <2>9, <2>10 DEF QuietInv
<1> QED BY <1>8, <1>9

\* Whoever holds the lock, or has left it, is no matter here.
LEMMA StutterQuiet ==
    ASSUME QuietInv, UNCHANGED vars \/ Expire
    PROVE  QuietInv'
<1>1. UNCHANGED <<roles, perms, members, version, pc, queue, draft, current, byName, seen, todo, interfered>>
  BY DEF vars, Expire, store, locals
<1>2. NoDuplicates' /\ RolesMigrated'
  BY <1>1, StoredStays DEF QuietInv
<1>3. \A u : /\ PermsOf(u)' = PermsOf(u) /\ IsMember(u)' = IsMember(u)
             /\ ExpectedNames(u)' = ExpectedNames(u)
  BY <1>1 DEF PermsOf, IsMember, MemberOf, ExpectedNames
<1>4. ASSUME ~interfered, NEW j \in Jobs PROVE ReadInv(j)' /\ DraftInv(j)' /\ TodoInv(j)'
  <2>1. ReadInv(j)'
    BY <1>1, <1>3, <1>4 DEF QuietInv, ReadInv, Named
  <2>2. DraftInv(j)'
    BY <1>1, <1>3, <1>4 DEF QuietInv, DraftInv
  <2>3. TodoInv(j)'
    BY <1>1, <1>3, <1>4 DEF QuietInv, TodoInv, HasSelf, ByName, ScopedNames
  <2> QED BY <2>1, <2>2, <2>3
<1> QED BY <1>1, <1>2, <1>4 DEF QuietInv, OneJob, Running

-----------------------------------------------------------------------------
LEMMA QuietInvStep == JobInv /\ QuietInv /\ [Next]_vars => QuietInv'
<1> SUFFICES ASSUME JobInv, QuietInv, [Next]_vars PROVE QuietInv'
  OBVIOUS
<1>1. ASSUME NEW j \in Jobs, Start(j) \/ Step(j) \/ Stop(j) PROVE QuietInv'
  <2>1. CASE Start(j)
    BY <2>1, StartQuiet
  <2>2. CASE FindRole(j) \/ CreateRole(j) \/ EnsureLoad(j) \/ EnsureSave(j)
    BY <2>2, FindRoleQuiet, CreateRoleQuiet, EnsureLoadQuiet, EnsureSaveQuiet
  <2>3. CASE Begin(j)
    BY <2>3, MoveQuiet DEF Begin, store, locals, Running
  <2>4. CASE Load(j)
    BY <2>4, MoveQuiet DEF Load, store, Running
  <2>5. CASE ReadRoles(j) \/ AddRole(j) \/ ReadFirst(j)
    BY <2>5, ReadRolesQuiet, AddRoleQuiet, ReadFirstQuiet
  <2>6. CASE PlanMove(j) \/ PlanFix(j) \/ Write(j) \/ Record(j)
    BY <2>6, PlanMoveQuiet, PlanFixQuiet, WriteQuiet, RecordQuiet
  <2>7. CASE Refused(j) \/ End(j)
    BY <2>7, ForgetQuiet DEF Refused, End, Running
  <2>8. CASE Stop(j)
    BY <2>8, ForgetQuiet DEF Stop
  <2> QED BY <1>1, <2>1, <2>2, <2>3, <2>4, <2>5, <2>6, <2>7, <2>8 DEF Step
<1>2. ASSUME NEW w \in Workspaces, NEW u \in Users, NEW n \in Names \ {Self}, Serve(w, u, n)
      PROVE  QuietInv'
  BY <1>2, ServeQuiet
<1>3. CASE UNCHANGED vars \/ Expire
  BY <1>3, StutterQuiet
<1> QED BY <1>1, <1>2, <1>3 DEF Next

\* While jobs run one at a time and the server is quiet meanwhile, QuietInv holds.
THEOREM QuietInvAlways == Spec => []QuietInv
<1>1. Init => QuietInv
  BY QuietInvInit
<1>2. JobInv /\ QuietInv /\ [Next]_vars => QuietInv'
  BY QuietInvStep
<1> QED BY <1>1, <1>2, JobInvAlways, PTL DEF Spec

\* Jobs that stopped at any step and were repeated leave one role of each name
\* and one permittable of each user (NoDuplicates).
THEOREM NoDuplicatesLeft == Spec => []NoDuplicates
<1>1. QuietInv => NoDuplicates
  BY DEF QuietInv
<1> QED BY <1>1, QuietInvAlways, PTL

\* When the configuration records the moves, every member's permittable has
\* self, and when it records all, exactly the roles of the enabled members
\* (RolesMigrated), although jobs stopped half-way.
THEOREM RolesAreMigrated == Spec => []RolesMigrated
<1>1. QuietInv => RolesMigrated
  BY DEF QuietInv
<1> QED BY <1>1, QuietInvAlways, PTL
=============================================================================
