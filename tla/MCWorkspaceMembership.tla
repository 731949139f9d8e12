----------------------- MODULE MCWorkspaceMembership -----------------------
(* Finite instances of WorkspaceMembership for TLC.                        *)
EXTENDS WorkspaceMembership, TLC

CONSTANTS u1, u2, u3, r1, r2, i1, team, side, home

Interchangeable == Permutations({r1, r2})

\* Workspaces at the start.
Members(f) == [u \in Users |-> IF u \in DOMAIN f THEN f[u] ELSE None]

Shared(f) == [members |-> Members(f),
              integrations |-> [i \in Integrations |-> None],
              deleted |-> FALSE]

\* u1 owns team, with u2 and u3 below; the workspace side does not exist yet.
SeededTeam ==
    (team :> Shared((u1 :> "owner") @@ (u2 :> "maintainer") @@ (u3 :> "reader")))
    @@ (side :> None)

\* u1 owns team alone, u2 is a maintainer; home is u1's personal workspace.
SeededHome ==
    (team :> Shared((u1 :> "owner") @@ (u2 :> "maintainer")))
    @@ (home :> Shared(u1 :> "owner"))

-----------------------------------------------------------------------------
Call(op, u, w, targets, role) ==
    [op |-> op, caller |-> u, ws |-> w, targets |-> targets, role |-> role,
     integrations |-> {}]

\* Calls without a target.
Plain(ops, callers, ws_) ==
    {Call(op, u, w, <<>>, "reader") : op \in ops, u \in callers, w \in ws_}

\* Calls with one target.
OnOne(ops, callers, ws_, targets, roles) ==
    {Call(op, u, w, <<t>>, role) :
       op \in ops, u \in callers, w \in ws_, t \in targets, role \in roles}

\* Calls about the integration i1.
OnIntegration(ops, callers, ws_, roles) ==
    {[Call(op, u, w, <<>>, role) EXCEPT !.integrations = {i1}] :
       op \in ops, u \in callers, w \in ws_, role \in roles}

ToAnother(cs) == {x \in cs : x.targets[1] # x.caller}

\* What changes the members of team, and what changes the permittables that
\* team and side share.
MemberCalls ==
    OnOne({"create"}, {u1}, {side}, {u2}, {"owner"})
    \cup Plain({"create"}, {u1}, {side})
    \cup OnOne({"addMember"}, {u2}, {team, side}, {u3}, {"reader"})
    \cup OnOne({"updateMember"}, {u1, u2}, {team}, {u2}, {"maintainer", "reader"})
    \cup {Call("updateMember", u1, team, <<u3>>, "owner")}
    \cup OnOne({"updateViaService"}, {u2}, {team}, {u1, u2}, {"reader"})
    \cup OnOne({"removeMembers"}, {u1, u2}, {team}, {u1}, {"reader"})
    \cup {Call("removeMembers", u1, team, <<u2, u3>>, "reader")}
    \cup OnOne({"transfer"}, {u1, u2}, {team}, {u1, u2}, {"owner"})
    \cup Plain({"remove"}, {u2}, {team, side})
    \cup OnIntegration({"addIntegration", "updateIntegration",
                        "removeIntegrations"}, {u1}, {team}, {"writer"})

\* Only calls that guard the last owner (WorkspaceMembership_proofs!Guarded),
\* and lifecycle calls.
GuardedCalls ==
    ToAnother(OnOne({"transfer"}, Users, {team}, Users, {"owner"}))
    \cup OnOne({"updateViaService"}, Users, {team}, Users, {"maintainer"})
    \cup OnOne({"addMember"}, {u2}, {team}, {u3}, {"maintainer"})
    \cup {Call("removeMembers", u1, team, <<u1>>, "reader")}
    \cup Plain({"update", "deactivate", "restore", "remove"}, {u1}, {team, home})
=============================================================================
