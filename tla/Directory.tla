----------------------------- MODULE Directory -----------------------------
(***************************************************************************)
(* What the accounts are to their users: one account per e-mail, which is  *)
(* opened once, changed while it is there, and closed for good.  There is  *)
(* one account per subject of the identity provider, too, unless the       *)
(* subject has been contested: somebody signed up with it and one e-mail   *)
(* while somebody signed up with it and another.                           *)
(***************************************************************************)
CONSTANTS IDs, Documents, None

VARIABLES users, closed, contested

Init == users = [u \in IDs |-> None] /\ closed = {} /\ contested = {}

Contest ==
    /\ \E doc \in Documents : contested' = contested \cup {doc.sub}
    /\ UNCHANGED <<users, closed>>

Open(u) ==
    /\ users[u] = None /\ u \notin closed
    /\ \E doc \in Documents :
         /\ \A v \in IDs : users[v] # None =>
              /\ users[v].email # doc.email
              /\ users[v].sub = doc.sub => doc.sub \in contested \cup {None}
         /\ users' = [users EXCEPT ![u] = doc]
    /\ UNCHANGED <<closed, contested>>

Change(u) ==
    /\ users[u] # None
    /\ \E doc \in Documents :
         /\ \A v \in IDs \ {u} : users[v] # None => users[v].email # doc.email
         /\ doc.sub \in {users[u].sub, None}
         /\ users' = [users EXCEPT ![u] = doc]
    /\ UNCHANGED <<closed, contested>>

Close(u) ==
    /\ users[u] # None
    /\ users' = [users EXCEPT ![u] = None]
    /\ closed' = closed \cup {u}
    /\ UNCHANGED contested

Next == Contest \/ \E u \in IDs : Open(u) \/ Change(u) \/ Close(u)

Spec == Init /\ [][Next]_<<users, closed, contested>>
=============================================================================
