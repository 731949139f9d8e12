------------------------------ MODULE Accounts ------------------------------
(***************************************************************************)
(* User accounts: the four ways to sign up, the updates and the deletion   *)
(* of an account (server/internal/usecase/interactor/user_signup.go and    *)
(* user.go), over a database with transactions.                            *)
(*                                                                         *)
(* An account is a user document, the user's personal workspace (its home) *)
(* and, for most sign-ups, a permittable: three collections that every use *)
(* case has to change together.  E-mails are unique by an index; subjects  *)
(* of the identity provider are not, and are only looked up by sign-ups.   *)
(***************************************************************************)
EXTENDS Naturals, FiniteSets

CONSTANTS
    IDs,           \* bound: user ids that sign-ups may draw
    Subjects,      \* subjects of the identity provider
    Emails,
    Identities,    \* [sub, email] pairs that sign-ups present
    Requests,      \* requests in flight at a time
    Operations,    \* the use cases in use
    Transactions,  \* "snapshot" (MongoDB) or "readCommitted" (PostgreSQL)
    None

\* A user document.  A password account has no subject of a provider.
Documents == [sub : Subjects \cup {None}, email : Emails]

SignUps == {"signup", "signupOIDC", "syncSSOUser", "findOrCreate"}
Updates == {"updateMe", "removeMyAuth", "saveUser"}

ASSUME AccountsAssumption ==
    /\ Identities \subseteq [sub : Subjects, email : Emails]
    /\ Operations \subseteq SignUps \cup Updates
         \cup {"deleteMe", "updateUserBySub", "setPlatformRoles"}
    /\ Transactions \in {"snapshot", "readCommitted"}
    /\ None \notin Subjects \cup IDs \cup Documents \cup SignUps

VARIABLES
    users,   \* user documents
    homes,   \* ids of the users whose personal workspace is stored
    perms,   \* ids of the users with a permittable
    used,    \* ids drawn so far
    closed,  \* history: ids of deleted users
    contested, \* history: subjects for which sign-ups with different e-mails overlapped
    req      \* what each request knows and has done

vars == <<users, homes, perms, used, closed, contested, req>>

\* doc: the user document as it will be stored.  kept: the user that
\* FindBySubOrCreate found instead.  stale: another transaction has written a
\* document or an e-mail that this one writes.
Idle == [pc |-> "idle", op |-> None, id |-> None, doc |-> None,
         kept |-> None, stale |-> FALSE]

Init ==
    /\ users = [u \in IDs |-> None]
    /\ homes = {}
    /\ perms = {}
    /\ used = {}
    /\ closed = {}
    /\ contested = {}
    /\ req = [r \in Requests |-> Idle]

-----------------------------------------------------------------------------
HasEmail(email) == \E u \in IDs : users[u] # None /\ users[u].email = email

HasSub(sub) == \E u \in IDs : users[u] # None /\ users[u].sub = sub

\* FindBySub: a user with the subject, or None.
FindBySub(sub) ==
    IF HasSub(sub)
      THEN CHOOSE u \in IDs : users[u] # None /\ users[u].sub = sub
      ELSE None

InTransaction(r) == req[r].pc \in {"read", "written"}

\* Request s signs up with the subject of doc, but with another e-mail.
Rivals(s, doc) ==
    /\ req[s].op \in SignUps
    /\ doc.sub # None /\ req[s].doc.sub = doc.sub
    /\ req[s].doc.email # doc.email

\* The transaction starts with the first reads of the use case.
Begin(r, op, u, doc) ==
    /\ req[r].pc = "idle"
    /\ op \in Operations
    /\ req' = [req EXCEPT ![r] = [Idle EXCEPT !.pc = "read", !.op = op,
                                              !.id = u, !.doc = doc]]
    /\ contested' = IF op \in SignUps /\ \E s \in Requests : Rivals(s, doc)
                      THEN contested \cup {doc.sub} ELSE contested
    /\ UNCHANGED <<users, homes, perms, closed>>

\* workspace.Init draws a new user id.  (Sign-ups may bring one, which is then
\* taken to be as new.)
NewID(u) == u \notin used /\ used' = used \cup {u}

Signup(r, u, who) ==
    /\ ~HasEmail(who.email)
    /\ NewID(u)
    /\ Begin(r, "signup", u, [who EXCEPT !.sub = None])

SignupOIDC(r, u, who) ==
    /\ ~HasEmail(who.email) /\ ~HasSub(who.sub)
    /\ NewID(u)
    /\ Begin(r, "signupOIDC", u, who)

\* Returns the user of the subject when there is one.
SyncSSOUser(r, u, who) ==
    /\ ~HasSub(who.sub) /\ ~HasEmail(who.email)
    /\ NewID(u)
    /\ Begin(r, "syncSSOUser", u, who)

\* Mutant: the subject is not looked up first.
FindOrCreateBlindly(r, u, who) ==
    /\ req[r].pc = "idle"
    /\ "findOrCreate" \in Operations
    /\ NewID(u)
    /\ req' = [req EXCEPT ![r] = [Idle EXCEPT !.pc = "read", !.id = u,
                                              !.op = "findOrCreate",
                                              !.doc = who,
                                              !.kept = FindBySub(who.sub)]]
    /\ UNCHANGED <<users, homes, perms, closed, contested>>

\* Returns the user of the subject when there is one, and asks the issuer for
\* the e-mail otherwise.
FindOrCreate(r, u, who) ==
    /\ ~HasSub(who.sub)
    /\ NewID(u)
    /\ Begin(r, "findOrCreate", u, who)

UpdateMe(r, u, email) ==
    /\ users[u] # None /\ u \in homes
    /\ Begin(r, "updateMe", u, [users[u] EXCEPT !.email = email])
    /\ UNCHANGED used

RemoveMyAuth(r, u) ==
    /\ users[u] # None
    /\ Begin(r, "removeMyAuth", u, [users[u] EXCEPT !.sub = None])
    /\ UNCHANGED used

\* Deactivate, Restore, VerifyUser, StartPasswordReset and PasswordReset: the
\* whole document is saved.  What they change in it hides nothing from these
\* use cases and is left out.
SaveUser(r, u) ==
    /\ users[u] # None
    /\ Begin(r, "saveUser", u, users[u])
    /\ UNCHANGED used

DeleteMe(r, u) ==
    /\ users[u] # None
    /\ Begin(r, "deleteMe", u, users[u])
    /\ UNCHANGED used

-----------------------------------------------------------------------------
\* Mutant: the migration that makes e-mails unique is forgotten.
EmailAlwaysFree(r) == TRUE

\* The unique index: the e-mail is neither stored for another user nor about to
\* be.  A deletion takes its key out of the same index.
EmailFree(r) ==
    /\ \A u \in IDs \ {req[r].id} :
         users[u] # None => users[u].email # req[r].doc.email
    /\ \A s \in Requests \ {r} :
         req[s].pc = "written" => req[s].doc.email # req[r].doc.email

\* User.Create, User.Save or FindBySubOrCreate.  The second look-up of
\* FindOrCreate sees what the transaction sees.
WriteUser(r) ==
    LET kept == IF req[r].op = "findOrCreate" /\ Transactions = "readCommitted"
                  THEN FindBySub(req[r].doc.sub)
                  ELSE req[r].kept
    IN
    /\ req[r].pc = "read"
    /\ kept = None => EmailFree(r)
    /\ req' = [req EXCEPT ![r].pc = "written", ![r].kept = kept]
    /\ UNCHANGED <<users, homes, perms, used, closed, contested>>

\* E-mails that r takes or gives up.
TouchedEmails(r) ==
    {req[r].doc.email}
    \cup {users[u].email : u \in {v \in {req[r].id} : users[v] # None}}

Conflicts(r, s) ==
    /\ InTransaction(s)
    /\ req[s].id = req[r].id \/ req[s].doc.email \in TouchedEmails(r)

\* The request ends, and transactions that write the same lose.
EndOf(r) ==
    req' = [s \in Requests |->
              IF s = r THEN Idle
              ELSE [req[s] EXCEPT !.stale = @ \/ Conflicts(r, s)]]

Commits(r) ==
    /\ req[r].pc = "written"
    /\ Transactions = "snapshot" => ~req[r].stale
    /\ EndOf(r)
    /\ UNCHANGED <<used, contested>>

\* FindOrCreate saves the home that was made for the new id in any case, and
\* makes no permittable.
CommitSignUp(r) ==
    LET u == req[r].id IN
    /\ req[r].op \in SignUps
    /\ Commits(r)
    /\ users' = IF req[r].kept = None THEN [users EXCEPT ![u] = req[r].doc]
                                      ELSE users
    /\ homes' = homes \cup {u}
    /\ perms' = IF req[r].op = "findOrCreate" THEN perms ELSE perms \cup {u}
    /\ UNCHANGED closed

\* Mutant: a lost write conflict does not stop the commit.
CommitStaleUpdate(r) ==
    /\ req[r].op \in Updates
    /\ req[r].pc = "written"
    /\ EndOf(r)
    /\ users' = [users EXCEPT ![req[r].id] = req[r].doc]
    /\ homes' = IF req[r].op = "updateMe" THEN homes \cup {req[r].id} ELSE homes
    /\ UNCHANGED <<perms, used, closed, contested>>

\* Saves are upserts; UpdateMe saves the home too.
CommitUpdate(r) ==
    /\ req[r].op \in Updates
    /\ Commits(r)
    /\ users' = [users EXCEPT ![req[r].id] = req[r].doc]
    /\ homes' = IF req[r].op = "updateMe" THEN homes \cup {req[r].id} ELSE homes
    /\ UNCHANGED <<perms, closed>>

\* The permittable stays.
CommitDeletion(r) ==
    LET u == req[r].id IN
    /\ req[r].op = "deleteMe"
    /\ Commits(r)
    /\ users' = [users EXCEPT ![u] = None]
    /\ homes' = homes \ {u}
    /\ closed' = closed \cup {u}
    /\ UNCHANGED perms

\* Any check or database call fails: nothing of the transaction remains.
Abort(r) ==
    /\ req[r].pc # "idle"
    /\ req' = [req EXCEPT ![r] = Idle]
    /\ UNCHANGED <<users, homes, perms, used, closed, contested>>

-----------------------------------------------------------------------------
(* Use cases without a transaction.                                        *)

\* Password accounts are found too, by a subject made of their id.
LoadBySub(r, op, u, pc) ==
    /\ req[r].pc = "idle"
    /\ op \in Operations
    /\ users[u] # None
    /\ req' = [req EXCEPT ![r] = [Idle EXCEPT !.pc = pc, !.op = op, !.id = u,
                                              !.doc = users[u]]]
    /\ UNCHANGED <<users, homes, perms, used, closed, contested>>

\* UpdateUserBySub saves the whole document it has loaded.  The home's name,
\* which may follow, is left out.
SaveBySub(r) ==
    /\ req[r].pc = "saving"
    /\ EmailFree(r)
    /\ users' = [users EXCEPT ![req[r].id] = req[r].doc]
    /\ EndOf(r)
    /\ UNCHANGED <<homes, perms, used, closed, contested>>

\* SetPlatformRolesBySub finds or makes the permittable.
SaveRoles(r) ==
    /\ req[r].pc = "granting"
    /\ perms' = perms \cup {req[r].id}
    /\ req' = [req EXCEPT ![r] = Idle]
    /\ UNCHANGED <<users, homes, used, closed, contested>>

-----------------------------------------------------------------------------
Next ==
    \E r \in Requests :
        \/ \E u \in IDs, who \in Identities :
             Signup(r, u, who) \/ SignupOIDC(r, u, who)
             \/ SyncSSOUser(r, u, who) \/ FindOrCreate(r, u, who)
        \/ \E u \in IDs :
             \/ \E email \in Emails : UpdateMe(r, u, email)
             \/ RemoveMyAuth(r, u) \/ SaveUser(r, u) \/ DeleteMe(r, u)
             \/ LoadBySub(r, "updateUserBySub", u, "saving")
             \/ LoadBySub(r, "setPlatformRoles", u, "granting")
        \/ WriteUser(r)
        \/ CommitSignUp(r) \/ CommitUpdate(r) \/ CommitDeletion(r)
        \/ Abort(r)
        \/ SaveBySub(r) \/ SaveRoles(r)

Spec == Init /\ [][Next]_vars

-----------------------------------------------------------------------------
Request ==
    {Idle}
      \cup [pc : {"read", "written", "saving", "granting"}, op : Operations,
            id : IDs, doc : Documents, kept : IDs \cup {None}, stale : BOOLEAN]

TypeOK ==
    /\ users \in [IDs -> Documents \cup {None}]
    /\ homes \subseteq IDs /\ perms \subseteq IDs
    /\ used \subseteq IDs /\ closed \subseteq IDs /\ contested \subseteq Subjects
    /\ req \in [Requests -> Request]

\* No user is left without its home, and no home without the user that owns
\* it: the collections change together in whatever order sign-ups, updates and
\* deletions of the same person overlap.
UserAndHome == \A u \in IDs : users[u] # None <=> u \in homes

\* Why it stays so under snapshot transactions: a sign-up works on an id that
\* nobody else has, and what a transaction that nobody has overtaken is going
\* to update is still there.
Fresh(r) ==
    LET u == req[r].id IN
    InTransaction(r) =>
      /\ req[r].op \in SignUps \cup Updates \cup {"deleteMe"}
      /\ req[r].kept = None
      /\ req[r].op \in SignUps =>
           /\ users[u] = None /\ u \notin closed
           /\ \A s \in Requests \ {r} : req[s].pc # "idle" => req[s].id # u
      /\ req[r].op \notin SignUps /\ ~req[r].stale => users[u] # None

KnownIDs ==
    /\ closed \subseteq used
    /\ \A u \in IDs : users[u] # None => u \in used \ closed
    /\ \A r \in Requests : req[r].pc # "idle" => req[r].id \in used

HomeInv ==
    /\ TypeOK
    /\ KnownIDs
    /\ UserAndHome
    /\ \A r \in Requests : Fresh(r)
    /\ \A r \in Requests : req[r].pc = "saving" => req[r].op = "updateUserBySub"

\* And why the accounts stay unique: rivals for a subject are known, and apart
\* from them what has been looked up still holds.
RivalsKnown ==
    \A r, s \in Requests : req[r].op \in SignUps /\ Rivals(s, req[r].doc) =>
      req[r].doc.sub \in contested

Unclaimed(r) ==
    InTransaction(r) /\ ~req[r].stale =>
      /\ req[r].op \in SignUps /\ HasSub(req[r].doc.sub) =>
           req[r].doc.sub \in contested \cup {None}
      /\ req[r].op \notin SignUps =>
           req[r].doc.sub \in {users[req[r].id].sub, None}
      /\ req[r].pc = "written" =>
           \A u \in IDs \ {req[r].id} :
             users[u] # None => users[u].email # req[r].doc.email

\* Where documents stay as they are once they are stored, conflicts need not be
\* noticed: a sign-up works on an id of its own, with an e-mail that no other
\* writer has, and a save changes nothing.
Inserts(r) == req[r].pc = "written" /\ req[r].kept = None

Settled(r) ==
    LET u == req[r].id  doc == req[r].doc IN
    /\ u \in used
    /\ req[r].op \in SignUps =>
         /\ InTransaction(r)
         /\ users[u] = None
         /\ \A s \in Requests \ {r} : req[s].pc # "idle" => req[s].id # u
         /\ \A v \in IDs : users[v] # None /\ users[v].sub = doc.sub =>
              doc.sub \in contested \cup {None} \/ users[v].email = doc.email
    /\ req[r].op \in {"saveUser", "updateUserBySub"} => users[u] = doc
    /\ Inserts(r) =>
         /\ \A v \in IDs \ {u} : users[v] # None => users[v].email # doc.email
         /\ \A s \in Requests \ {r} : Inserts(s) => req[s].doc.email # doc.email

SettledInv ==
    /\ TypeOK
    /\ RivalsKnown
    /\ closed = {}
    /\ \A u \in IDs : users[u] # None => u \in used
    /\ \A r \in Requests : req[r].pc # "idle" => Settled(r)
    /\ \A r \in Requests : req[r].pc = "saving" => req[r].op = "updateUserBySub"

D == INSTANCE Directory

\* Accounts are unique per e-mail, and a deleted account never comes back.  They
\* are unique per subject too, although no index makes subjects unique, unless
\* sign-ups that presented the subject with different e-mails overlapped.
ImplementsDirectory == D!Spec
=============================================================================
