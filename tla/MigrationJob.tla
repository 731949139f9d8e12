---------------------------- MODULE MigrationJob ----------------------------
(***************************************************************************)
(* The job that RUN_MIGRATION=true starts (server/internal/app/server.go): *)
(* runMigration gives every member the maintainer role, outside any lock;  *)
(* then migration.Do takes the config lock, loads the recorded version and *)
(* runs the migrations above it, recording each one when it has ended.     *)
(* Nothing of this is in a transaction, jobs may overlap, each may stop at *)
(* any step, and the server goes on changing members meanwhile.  A retry   *)
(* is another job.                                                         *)
(*                                                                         *)
(* Of the migrations these four are modelled, which depend on each other   *)
(* and on runMigration; versions number them:                              *)
(*   1 AddRoles                  2 MoveWorkspaceMembersRoleToPermittable   *)
(*   3 FixPermittableRoleIDs     4 FixPermittableWorkspaceRoles            *)
(*                                                                         *)
(* The lock is used through Mutex, which MongoLock is shown to implement   *)
(* where the collection of the locks has its unique index: that index is a *)
(* condition of what is said here.  A job that ends may leave its lock     *)
(* behind; it is then held by a job that is over.                          *)
(* Ids are pairs: a role has its name and the job that created it, a       *)
(* permittable its user and the job, so that duplicates can be told apart. *)
(***************************************************************************)
EXTENDS Naturals

CONSTANTS
    Jobs,        \* executions of the migration job
    Users,
    Workspaces,
    Names,       \* role names
    Maintainer,  \* of Names
    Self,        \* of Names: the role every user has for itself
    Old,         \* creator of what was there before the jobs
    Disabled,    \* pairs of a workspace and a user: disabled members
    Members,     \* bound: the member lists to start from
    Known,       \* bound: the sets of role names to start from
    Recorded,    \* bound: the sets of users with a permittable to start from
    MaxServed,   \* bound: role changes by the server
    None

RoleIDs == Names \X (Jobs \cup {Old})
PermIDs == Users \X (Jobs \cup {Old})

\* RoleIDs and WorkspaceRoles of a permittable.
Perm == [global : SUBSET RoleIDs, scoped : SUBSET (Workspaces \X RoleIDs)]

ASSUME JobAssumption ==
    /\ Maintainer \in Names /\ Self \in Names /\ Maintainer # Self
    /\ Old \notin Jobs
    /\ Disabled \subseteq Workspaces \X Users
    /\ Members \subseteq [Workspaces -> [Users -> (Names \ {Self}) \cup {None}]]
    /\ Known \subseteq SUBSET Names /\ Recorded \subseteq SUBSET Users
    /\ MaxServed \in Nat
    /\ None \notin Names \cup Jobs \cup Perm \cup RoleIDs \cup PermIDs

VARIABLES
    roles,       \* ids in the role collection
    perms,       \* the permittable collection
    members,     \* the role name of each member of each workspace
    version,     \* config.Migration
    runner,      \* the job that holds the config lock, or has left it behind
    pc,          \* where each job is
    maintainer,  \* runMigration's maintainerRole
    queue,       \* the users runMigration has yet to look at
    draft,       \* the permittable ensureMaintainerRole is about to save
    current,     \* migration.Config.current
    byName,      \* roleNameToID of the running migration
    seen,        \* what its first cursor has read
    todo,        \* the permittables it has yet to save
    interfered,  \* a job ran while another one did or a member was changed
    served       \* role changes so far

store == <<roles, perms, members, version>>
locals == <<maintainer, queue, draft, current, byName, seen, todo>>
vars == <<store, runner, pc, locals, interfered, served>>

PermsOf(u) == {p \in PermIDs : perms[p] # None /\ p[1] = u}
Named(n) == {r \in roles : r[1] = n}
MemberOf(u, w) == members[w][u] # None
Running(j) == pc[j] \notin {"new", "over"}

EmptyTodo == [p \in {} |-> None]

Init ==
    /\ \E known \in Known : roles = {<<n, Old>> : n \in known}
    /\ members \in Members
    /\ \E old \in Recorded :
         perms = [p \in PermIDs |->
                    IF p[2] = Old /\ p[1] \in old
                      THEN [global |-> {}, scoped |-> Workspaces \X roles]
                      ELSE None]
    /\ version = 0
    /\ runner = None
    /\ pc = [j \in Jobs |-> "new"]
    /\ maintainer = [j \in Jobs |-> None]
    /\ queue = [j \in Jobs |-> {}]
    /\ draft = [j \in Jobs |-> None]
    /\ current = [j \in Jobs |-> 0]
    /\ byName = [j \in Jobs |-> None]
    /\ seen = [j \in Jobs |-> None]
    /\ todo = [j \in Jobs |-> EmptyTodo]
    /\ interfered = FALSE
    /\ served = 0

Goto(j, l) == pc' = [pc EXCEPT ![j] = l]

Start(j) ==
    /\ pc[j] = "new"
    /\ Goto(j, "findRole")
    /\ interfered' = (interfered \/ \E k \in Jobs : Running(k))
    /\ UNCHANGED <<store, runner, locals, served>>

-----------------------------------------------------------------------------
\* runMigration, outside the lock.

\* The maintainer role is known: go through the members of all workspaces.
WithRole(j, r) ==
    /\ maintainer' = [maintainer EXCEPT ![j] = r]
    /\ queue' = [queue EXCEPT ![j] = {u \in Users : \E w \in Workspaces : MemberOf(u, w)}]
    /\ Goto(j, "ensure")

\* FindAll; the first of the roles of that name counts.
FindRole(j) ==
    /\ pc[j] = "findRole"
    /\ \/ \E r \in Named(Maintainer) : WithRole(j, r)
       \/ Named(Maintainer) = {} /\ Goto(j, "createRole") /\ UNCHANGED <<maintainer, queue>>
    /\ UNCHANGED <<store, runner, draft, current, byName, seen, todo, interfered, served>>

CreateRole(j) ==
    /\ pc[j] = "createRole"
    /\ roles' = roles \cup {<<Maintainer, j>>}
    /\ WithRole(j, <<Maintainer, j>>)
    /\ UNCHANGED <<perms, members, version, runner, draft, current, byName, seen, todo,
                   interfered, served>>

\* ensureMaintainerRole loads a permittable of the user and adds the role to
\* the copy, or to a new one; with the role there is nothing to save.
EnsureLoad(j) ==
    /\ pc[j] = "ensure"
    /\ \E u \in queue[j] :
         /\ queue' = [queue EXCEPT ![j] = @ \ {u}]
         /\ \/ \E p \in PermsOf(u) :
                 IF maintainer[j] \in perms[p].global
                   THEN UNCHANGED <<pc, draft>>
                   ELSE /\ draft' = [draft EXCEPT ![j] =
                              <<p, [perms[p] EXCEPT !.global = @ \cup {maintainer[j]}]>>]
                        /\ Goto(j, "ensureSave")
            \/ /\ PermsOf(u) = {}
               /\ draft' = [draft EXCEPT ![j] =
                     <<<<u, j>>, [global |-> {maintainer[j]}, scoped |-> {}]>>]
               /\ Goto(j, "ensureSave")
    /\ UNCHANGED <<store, runner, maintainer, current, byName, seen, todo, interfered, served>>

\* The whole document is saved; an error is logged and the user skipped.
EnsureSave(j) ==
    /\ pc[j] = "ensureSave"
    /\ perms' \in {perms, [perms EXCEPT ![draft[j][1]] = draft[j][2]]}
    /\ draft' = [draft EXCEPT ![j] = None]
    /\ Goto(j, "ensure")
    /\ UNCHANGED <<roles, members, version, runner, maintainer, queue, current, byName,
                   seen, todo, interfered, served>>

-----------------------------------------------------------------------------
\* migration.Do, from Begin to End.
L == INSTANCE Mutex WITH Callers <- Jobs, holder <- runner

\* Mutant: ErrFailedToLock is ignored.
BeginAnyway(j) ==
    /\ pc[j] = "ensure" /\ queue[j] = {}
    /\ runner' = j
    /\ Goto(j, "load")
    /\ UNCHANGED <<store, locals, interfered, served>>

Begin(j) ==
    /\ pc[j] = "ensure" /\ queue[j] = {}
    /\ L!Acquire(j)
    /\ Goto(j, "load")
    /\ UNCHANGED <<store, locals, interfered, served>>

\* LockAndLoad reads the configuration once it has the lock.
Load(j) ==
    /\ pc[j] = "load"
    /\ current' = [current EXCEPT ![j] = version]
    /\ Goto(j, "run")
    /\ UNCHANGED <<store, runner, maintainer, queue, draft, byName, seen, todo,
                   interfered, served>>

LastVersion == 4

\* Each of the four starts by reading the roles; of two with one name the
\* last one read counts.
ReadRoles(j) ==
    /\ pc[j] = "run" /\ current[j] < LastVersion
    /\ \E m \in [Names -> roles \cup {None}] :
         /\ \A n \in Names : IF Named(n) = {} THEN m[n] = None ELSE m[n] \in Named(n)
         /\ byName' = [byName EXCEPT ![j] = m]
    /\ Goto(j, "migrate")
    /\ UNCHANGED <<store, runner, maintainer, queue, draft, current, seen, todo,
                   interfered, served>>

\* AddRoles saves the roles that are missing, one by one in a fixed order.
AddRole(j) ==
    LET missing == {n \in Names : byName[j][n] = None}
        n == CHOOSE n \in missing : TRUE
    IN
    /\ pc[j] = "migrate" /\ current[j] = 0
    /\ missing # {}
    /\ roles' = roles \cup {<<n, j>>}
    /\ byName' = [byName EXCEPT ![j][n] = <<n, j>>]
    /\ UNCHANGED <<perms, members, version, runner, pc, maintainer, queue, draft, current,
                   seen, todo, interfered, served>>

\* The first of two cursors: permittables to move roles into, or the members
\* that permittables are compared with.
ReadFirst(j) ==
    /\ pc[j] = "migrate" /\ seen[j] = None
    /\ \/ current[j] = 1 /\ seen' = [seen EXCEPT ![j] = perms]
       \/ current[j] = 3 /\ seen' = [seen EXCEPT ![j] = members]
    /\ UNCHANGED <<store, runner, pc, maintainer, queue, draft, current, byName, todo,
                   interfered, served>>

\* The workspace roles that member lists ms give user u, by the ids in map m.
Granted(ms, m, u) ==
    {<<w, m[ms[w][u]]>> : w \in {x \in Workspaces : ms[x][u] \in Names /\ m[ms[x][u]] # None}}

\* Mutant: a permittable that exists is not found.
MovedAfresh(j, pick, u) ==
    LET m == byName[j]
        g == Granted(members, m, u)
    IN  IF g = {} THEN EmptyTodo
        ELSE [p \in {<<u, j>>} |-> [global |-> {m[Self]}, scoped |-> g]]

\* MoveWorkspaceMembersRoleToPermittable: what user u's permittable becomes,
\* pick being the one of the user's that the map has.
Moved(j, pick, u) ==
    LET m == byName[j]
        g == Granted(members, m, u)
        id == IF pick[u] = None THEN <<u, j>> ELSE pick[u]
        old == IF pick[u] = None THEN [global |-> {}, scoped |-> {}] ELSE seen[j][pick[u]]
    IN  IF g = {} /\ pick[u] = None THEN EmptyTodo
        ELSE [p \in {id} |-> [global |-> IF g = {} THEN old.global
                                                   ELSE old.global \cup {m[Self]},
                              scoped |-> old.scoped \cup g]]

\* FixPermittableRoleIDs: no workspace role among the global ones, but self.
FixedGlobal(j, p) ==
    LET m == byName[j]
        remove == {m[n] : n \in Names \ {Self}}
        self == IF m[Self] = None THEN {} ELSE {m[Self]}
    IN  [perms[p] EXCEPT !.global = (@ \ remove) \cup self]

\* Mutant: disabled members keep their workspace roles.
FixedWithDisabled(j, p) ==
    [perms[p] EXCEPT !.scoped = Granted(seen[j], byName[j], p[1])]

\* FixPermittableWorkspaceRoles: the roles of enabled members, nothing else.
FixedScoped(j, p) ==
    [perms[p] EXCEPT !.scoped =
        {g \in Granted(seen[j], byName[j], p[1]) : <<g[1], p[1]>> \notin Disabled}]

\* The last cursor of a migration: what is to be saved.  Move saves all the
\* permittables it has read and the new ones,
PlanMove(j) ==
    /\ pc[j] = "migrate" /\ current[j] = 1 /\ seen[j] # None
    /\ \E pick \in [Users -> PermIDs \cup {None}] :
         /\ \A u \in Users :
              LET mine == {p \in PermIDs : p[1] = u /\ seen[j][p] # None}
              IN  IF mine = {} THEN pick[u] = None ELSE pick[u] \in mine
         /\ todo' = [todo EXCEPT ![j] =
                        [p \in UNION {DOMAIN Moved(j, pick, u) : u \in Users}
                            |-> Moved(j, pick, p[1])[p]]]
    /\ Goto(j, "write")
    /\ UNCHANGED <<store, runner, maintainer, queue, draft, current, byName, seen,
                   interfered, served>>

\* the Fix migrations those that differ from what they should be.
PlanFix(j) ==
    /\ pc[j] = "migrate"
    /\ \/ /\ current[j] = 2
          /\ todo' = [todo EXCEPT ![j] =
                [p \in {q \in PermIDs : perms[q] # None /\ FixedGlobal(j, q) # perms[q]}
                    |-> FixedGlobal(j, p)]]
       \/ /\ current[j] = 3 /\ seen[j] # None
          /\ todo' = [todo EXCEPT ![j] =
                [p \in {q \in PermIDs : perms[q] # None /\ FixedScoped(j, q) # perms[q]}
                    |-> FixedScoped(j, p)]]
    /\ Goto(j, "write")
    /\ UNCHANGED <<store, runner, maintainer, queue, draft, current, byName, seen,
                   interfered, served>>

\* SaveOne of one planned permittable.
Write(j) ==
    /\ pc[j] = "write"
    /\ \E p \in DOMAIN todo[j] :
         /\ perms' = [perms EXCEPT ![p] = todo[j][p]]
         /\ todo' = [todo EXCEPT ![j] = [q \in DOMAIN @ \ {p} |-> @[q]]]
    /\ UNCHANGED <<roles, members, version, runner, pc, maintainer, queue, draft, current,
                   byName, seen, interfered, served>>

\* Mutant: a migration is recorded when it starts to write.
EndedEarly(j) ==
    \/ pc[j] = "write"
    \/ pc[j] = "migrate" /\ current[j] = 0

\* The migration after current[j] has ended.
Ended(j) ==
    \/ pc[j] = "write" /\ DOMAIN todo[j] = {}
    \/ pc[j] = "migrate" /\ current[j] = 0 /\ \A n \in Names : byName[j][n] # None

\* Save records it and the next one begins.
Record(j) ==
    /\ Ended(j)
    /\ version' = current[j] + 1
    /\ current' = [current EXCEPT ![j] = @ + 1]
    /\ byName' = [byName EXCEPT ![j] = None]
    /\ seen' = [seen EXCEPT ![j] = None]
    /\ todo' = [todo EXCEPT ![j] = EmptyTodo]
    /\ Goto(j, "run")
    /\ UNCHANGED <<roles, perms, members, runner, maintainer, queue, draft, interfered, served>>

\* What the job knew is gone with it.
Forget(j) ==
    /\ maintainer' = [maintainer EXCEPT ![j] = None]
    /\ queue' = [queue EXCEPT ![j] = {}]
    /\ draft' = [draft EXCEPT ![j] = None]
    /\ current' = [current EXCEPT ![j] = 0]
    /\ byName' = [byName EXCEPT ![j] = None]
    /\ seen' = [seen EXCEPT ![j] = None]
    /\ todo' = [todo EXCEPT ![j] = EmptyTodo]
    /\ Goto(j, "over")

\* The deferred Unlock gives the lock back, or fails and leaves it behind.
GiveBack(j) == L!Release(j) \/ UNCHANGED runner

End(j) ==
    /\ pc[j] = "run" /\ current[j] = LastVersion
    /\ GiveBack(j)
    /\ Forget(j)
    /\ UNCHANGED <<store, interfered, served>>

\* Mutant: Lock retries without a limit.
RefusedNever(j) ==
    /\ pc[j] = "ensure" /\ queue[j] = {}
    /\ runner # None
    /\ UNCHANGED vars

\* ErrFailedToLock.
Refused(j) ==
    /\ pc[j] = "ensure" /\ queue[j] = {}
    /\ runner # None
    /\ Forget(j)
    /\ UNCHANGED <<store, runner, interfered, served>>

\* Any call may fail, which ends the process after the deferred Unlock, and the
\* process may die.  A failing Lock may have taken the lock all the same.
Stop(j) ==
    /\ Running(j)
    /\ \/ GiveBack(j)
       \/ pc[j] = "ensure" /\ queue[j] = {} /\ L!Acquire(j)
    /\ Forget(j)
    /\ UNCHANGED <<store, interfered, served>>

\* Somebody, or the TTL, may remove a lock that was left behind.
Expire ==
    /\ \E j \in Jobs : ~Running(j) /\ L!Release(j)
    /\ UNCHANGED <<store, pc, locals, interfered, served>>

-----------------------------------------------------------------------------
\* The server changes a member's role: member list and permittable in one
\* transaction (WorkspaceMembership).
Serve(w, u, n) ==
    /\ served < MaxServed
    /\ MemberOf(u, w) /\ <<w, u>> \notin Disabled /\ n # members[w][u]
    /\ \E p \in PermsOf(u), r \in Named(n) :
         perms' = [perms EXCEPT ![p].scoped = {g \in @ : g[1] # w} \cup {<<w, r>>}]
    /\ members' = [members EXCEPT ![w][u] = n]
    /\ served' = served + 1
    /\ interfered' = (interfered \/ \E j \in Jobs : Running(j))
    /\ UNCHANGED <<roles, version, runner, pc, locals>>

Step(j) ==
    \/ FindRole(j) \/ CreateRole(j) \/ EnsureLoad(j) \/ EnsureSave(j)
    \/ Begin(j) \/ Refused(j) \/ Load(j) \/ ReadRoles(j) \/ AddRole(j) \/ ReadFirst(j)
    \/ PlanMove(j) \/ PlanFix(j) \/ Write(j) \/ Record(j) \/ End(j)

Next ==
    \/ \E j \in Jobs : Start(j) \/ Step(j) \/ Stop(j)
    \/ Expire
    \/ \E w \in Workspaces, u \in Users, n \in Names \ {Self} : Serve(w, u, n)

Spec == Init /\ [][Next]_vars

\* A job that has started goes on; nothing starts one.
FairSpec == Spec /\ \A j \in Jobs : WF_vars(Step(j))

-----------------------------------------------------------------------------
Migrating == {"load", "run", "migrate", "write"}

\* What the collections and the jobs' program counters hold.
TypeOK ==
    /\ roles \subseteq RoleIDs
    /\ perms \in [PermIDs -> Perm \cup {None}]
    /\ members \in [Workspaces -> [Users -> (Names \ {Self}) \cup {None}]]
    /\ version \in 0..LastVersion
    /\ runner \in Jobs \cup {None}
    /\ pc \in [Jobs -> Migrating \cup {"new", "findRole", "createRole", "ensure",
                                       "ensureSave", "over"}]
    /\ current \in [Jobs -> 0..LastVersion]

\* The inductive invariant.  Whoever runs migrations holds the lock and knows
\* the recorded version;
RunnerInv(j) ==
    /\ pc[j] \in Migrating => runner = j
    /\ pc[j] \in Migrating \ {"load"} => current[j] = version

\* what a job has at hand is what it has read or made of it;
Snapshots == [PermIDs -> Perm \cup {None}]
MemberLists == [Workspaces -> [Users -> (Names \ {Self}) \cup {None}]]

LocalsOK ==
    /\ maintainer \in [Jobs -> RoleIDs \cup {None}]
    /\ queue \in [Jobs -> SUBSET Users]
    /\ draft \in [Jobs -> (PermIDs \X Perm) \cup {None}]
    /\ byName \in [Jobs -> [Names -> RoleIDs \cup {None}] \cup {None}]
    /\ seen \in [Jobs -> Snapshots \cup MemberLists \cup {None}]
    /\ todo = [j \in Jobs |-> todo[j]]
    /\ \A j \in Jobs : DOMAIN todo[j] \subseteq PermIDs /\ \A p \in DOMAIN todo[j] : todo[j][p] \in Perm

LocalInv(j) ==
    /\ pc[j] \in {"ensure", "ensureSave"} => maintainer[j] \in RoleIDs
    /\ pc[j] = "ensureSave" => draft[j] \in PermIDs \X Perm
    /\ pc[j] \in {"migrate", "write"} =>
         /\ byName[j] \in [Names -> RoleIDs \cup {None}]
         /\ \A n \in Names : byName[j][n] # None => byName[j][n] \in Named(n)
    /\ pc[j] \notin {"migrate", "write"} => seen[j] = None
    /\ seen[j] # None => \/ current[j] = 1 /\ seen[j] \in Snapshots
                         \/ current[j] = 3 /\ seen[j] \in MemberLists

\* and what a migration promises is planned before it is recorded.
PlanInv(j) ==
    /\ pc[j] \in {"migrate", "write"} /\ current[j] >= 1 =>
         \A n \in Names : byName[j][n] # None
    /\ pc[j] = "write" => current[j] \in 1..(LastVersion - 1)
    /\ pc[j] = "write" /\ current[j] = 1 =>
         \A u \in Users : (\E w \in Workspaces : MemberOf(u, w)) =>
            PermsOf(u) # {} \/ \E p \in DOMAIN todo[j] : p[1] = u

\* A recorded migration has been carried out, whatever stopped or overlapped:
\* every role exists after AddRoles, and every member has a permittable after
\* MoveWorkspaceMembersRoleToPermittable.
RecordedIsDone ==
    /\ version >= 1 => \A n \in Names : Named(n) # {}
    /\ version >= 2 => \A w \in Workspaces, u \in Users : MemberOf(u, w) => PermsOf(u) # {}

JobInv ==
    /\ TypeOK /\ LocalsOK /\ RecordedIsDone
    /\ \A j \in Jobs : RunnerInv(j) /\ LocalInv(j) /\ PlanInv(j)

\* Jobs that stopped anywhere and were repeated leave no duplicates, unless
\* they overlapped.
NoDuplicates ==
    ~interfered =>
      /\ \A r, s \in roles : r[1] = s[1] => r = s
      /\ \A u \in Users : \A p, q \in PermsOf(u) : p = q

\* When all migrations are recorded the permittables have the roles of the
\* enabled members, by name, and self, provided that nothing interfered.
ByName(scoped) == {<<g[1], g[2][1]>> : g \in scoped}
ScopedNames(p) == ByName(perms[p].scoped)

ExpectedNames(u) ==
    {<<w, members[w][u]>> : w \in {x \in Workspaces : MemberOf(u, x) /\ <<x, u>> \notin Disabled}}

RolesMigrated ==
    ~interfered =>
      \A u \in Users, w \in Workspaces : MemberOf(u, w) => \A p \in PermsOf(u) :
        /\ version >= 2 => \E r \in perms[p].global : r[1] = Self
        /\ version >= 4 => ScopedNames(p) = ExpectedNames(u)

\* The inductive invariant of jobs that nothing interferes with.  One job runs,
\* and what it has read is still so;
OneJob == \A j, k \in Jobs : Running(j) /\ Running(k) => j = k

IsMember(u) == \E w \in Workspaces : MemberOf(u, w)
HasSelf(d) == \E r \in d.global : r[1] = Self

ReadInv(j) ==
    /\ pc[j] = "createRole" => Named(Maintainer) = {}
    /\ \A u \in queue[j] : IsMember(u)
    /\ pc[j] \in {"migrate", "write"} => \A n \in Names : byName[j][n] = None => Named(n) = {}
    /\ pc[j] = "migrate" /\ seen[j] # None =>
         seen[j] = IF current[j] = 1 THEN perms ELSE members

\* what runMigration is about to save is a member's only permittable, with all
\* that is stored in it;
DraftInv(j) ==
    pc[j] = "ensureSave" =>
      LET p == draft[j][1]
          d == draft[j][2]
      IN  /\ IsMember(p[1])
          /\ PermsOf(p[1]) \subseteq {p}
          /\ perms[p] # None => perms[p].global \subseteq d.global /\ d.scoped = perms[p].scoped

\* and what a migration plans is one permittable per user, with the roles that
\* will be promised for it, unless what is stored has them already.
TodoInv(j) ==
    pc[j] = "write" =>
      /\ \A p \in DOMAIN todo[j] :
           /\ PermsOf(p[1]) \subseteq {p}
           /\ \A q \in DOMAIN todo[j] : q[1] = p[1] => q = p
           /\ IsMember(p[1]) => HasSelf(todo[j][p])
           /\ current[j] = 3 => ByName(todo[j][p].scoped) = ExpectedNames(p[1])
      /\ \A p \in PermIDs \ DOMAIN todo[j] : perms[p] # None =>
           /\ IsMember(p[1]) => HasSelf(perms[p])
           /\ current[j] = 3 => ScopedNames(p) = ExpectedNames(p[1])

QuietInv ==
    /\ NoDuplicates /\ RolesMigrated
    /\ ~interfered => /\ OneJob
                      /\ \A j \in Jobs : ReadInv(j) /\ DraftInv(j) /\ TodoInv(j)

\* Versions are recorded one after another: none is skipped, repeated or
\* taken back, by whichever job.
VersionsInOrder == [][version' # version => version' = version + 1]_version

\* A job that has started ends, also when another one has left the lock behind
\* for ever: it is refused then, it does not wait.
JobsEnd == \A j \in Jobs : Running(j) ~> pc[j] = "over"
=============================================================================
