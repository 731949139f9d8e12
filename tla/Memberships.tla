---------------------------- MODULE Memberships ----------------------------
(***************************************************************************)
(* What workspaces are to those who use them: use cases are served one at  *)
(* a time, each on the workspace as it is at that moment, and in the same  *)
(* moment the permittables follow the member list.  Who may call what is   *)
(* left to the implementation.                                             *)
(***************************************************************************)
EXTENDS Naturals, Sequences

CONSTANTS Users, Workspaces, Integrations, Personal, Seeded, Calls, None

VARIABLES ws, perm

RoleIn(x, u) == IF x = None THEN None ELSE x.members[u]

\* The permittables that belong to workspaces v.
Granted(v) == [u \in Users |-> [w \in Workspaces |-> RoleIn(v[w], u)]]

Init == ws = Seeded /\ perm = Granted(ws)

Rank == [owner |-> 4, maintainer |-> 3, writer |-> 2, reader |-> 1]

-----------------------------------------------------------------------------
\* Call c makes workspace y of workspace x.
Targets(c) == {c.targets[i] : i \in DOMAIN c.targets}

Opens(c, y) ==
    /\ c.op = "create"
    /\ y = [members |-> [u \in Users |-> IF u \in Targets(c) THEN "owner" ELSE None],
            integrations |-> [i \in Integrations |-> None],
            deleted |-> FALSE]

\* Members: m becomes n.
Adds(c, m, n) ==
    /\ c.op = "addMember" /\ c.role # "owner"
    /\ \A u \in Targets(c) : m[u] = None
    /\ n = [u \in Users |-> IF u \in Targets(c) THEN c.role ELSE m[u]]

\* A caller among those who leave does not go, in their order, as the last owner.
Takes(c, m, n) ==
    /\ c.op = "removeMembers" /\ c.targets # <<>>
    /\ \A u \in Targets(c) : m[u] # None
    /\ \A i \in DOMAIN c.targets :
         c.targets[i] = c.caller /\ m[c.caller] = "owner" =>
           \E v \in Users \ {c.caller} :
             m[v] = "owner" /\ \A j \in DOMAIN c.targets : j < i => c.targets[j] # v
    /\ n = [u \in Users |-> IF u \in Targets(c) THEN None ELSE m[u]]

\* Nobody raises himself, and no owner lowers himself,
Regrades(c, m, n) ==
    LET u == c.targets[1] IN
    /\ c.op = "updateMember" /\ c.role # "owner"
    /\ m[u] # None
    /\ u = c.caller => Rank[m[u]] >= Rank[c.role] /\ m[u] # "owner"
    /\ n = [m EXCEPT ![u] = c.role]

\* but for the service route, which spares the only owner.
RegradesByService(c, m, n) ==
    LET u == c.targets[1] IN
    /\ c.op = "updateViaService" /\ c.role # "owner"
    /\ m[u] # None
    /\ m[u] = "owner" => \E v \in Users \ {u} : m[v] = "owner"
    /\ n = [m EXCEPT ![u] = c.role]

HandsOver(c, m, n) ==
    LET u == c.targets[1] IN
    /\ c.op = "transfer"
    /\ m[u] \notin {None, "reader"} /\ m[c.caller] # None
    /\ n = [m EXCEPT ![u] = "owner", ![c.caller] = "maintainer"]

\* Integrations: f becomes g.
Connects(c, f, g) ==
    \E i \in Integrations :
      /\ c.integrations = {i}
      /\ \/ c.op = "addIntegration" /\ f[i] = None
         \/ c.op = "updateIntegration" /\ f[i] # None
      /\ g = [f EXCEPT ![i] = c.role]

Disconnects(c, f, g) ==
    /\ c.op = "removeIntegrations" /\ c.integrations # {}
    /\ \A i \in c.integrations : f[i] # None
    /\ g = [i \in Integrations |-> IF i \in c.integrations THEN None ELSE f[i]]

Serves(c, x, y) ==
    \/ x = None /\ Opens(c, y)
    \/ /\ x # None /\ c.ws \notin Personal
       /\ \/ c.op = "remove" /\ y = None
          \/ c.op = "update" /\ y = x
          \/ c.op = "deactivate" /\ y = [x EXCEPT !.deleted = TRUE]
          \/ c.op = "restore" /\ y = [x EXCEPT !.deleted = FALSE]
          \/ /\ y # None /\ y = [x EXCEPT !.members = y.members]
             /\ \/ Adds(c, x.members, y.members)
                \/ Takes(c, x.members, y.members)
                \/ Regrades(c, x.members, y.members)
                \/ RegradesByService(c, x.members, y.members)
                \/ HandsOver(c, x.members, y.members)
    \/ /\ x # None
       /\ y # None /\ y = [x EXCEPT !.integrations = y.integrations]
       /\ \/ Connects(c, x.integrations, y.integrations)
          \/ Disconnects(c, x.integrations, y.integrations)

\* A call that changes nothing is not a step.
Next ==
    /\ ws' # ws
    /\ \E c \in Calls : /\ Serves(c, ws[c.ws], ws'[c.ws])
                        /\ ws' = [ws EXCEPT ![c.ws] = ws'[c.ws]]
    /\ perm' = Granted(ws')

Spec == Init /\ [][Next]_<<ws, perm>>
=============================================================================
