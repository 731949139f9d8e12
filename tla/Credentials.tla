---------------------------- MODULE Credentials -----------------------------
(***************************************************************************)
(* What a user signs in with: the password, its reset by a mailed token,   *)
(* the verification of the e-mail address by a code, the names of the user *)
(* and of the personal workspace, and the copy of the name that the        *)
(* identity provider has (server/internal/usecase/interactor/user.go and   *)
(* CreateVerification of user_signup.go).                                  *)
(*                                                                         *)
(* One user's document is modelled; each of these use cases loads it and   *)
(* saves the whole of it, most of them in a transaction.  MongoDB's        *)
(* transactions work on a snapshot, and the one that writes a document     *)
(* which another has written since cannot commit; PostgreSQL's are         *)
(* read-committed, and the last copy wins.  UpdateUserBySub has no         *)
(* transaction.                                                            *)
(***************************************************************************)
EXTENDS Naturals

CONSTANTS
    Transactions, \* "snapshot" (MongoDB) or "readCommitted" (PostgreSQL)
    Requests,  \* requests, each made once
    Names,
    Passwords,
    Tokens,    \* bound: what generateToken and generateCode may draw
    Providers, \* bound: the sets of providers that a user's auth records may name
    Lifetime,  \* 24 hours, of tokens and of codes
    MaxTime,   \* bound of the clock
    None

Operations ==
    {"logout", "removeMyAuth", "verifyUser", "createVerification", "startPasswordReset",
     "passwordReset", "updateMe", "updateUserBySub"}

ASSUME CredentialsAssumption ==
    /\ Transactions \in {"snapshot", "readCommitted"}
    /\ Lifetime \in Nat /\ MaxTime \in Nat
    /\ Providers \subseteq SUBSET {"reearth", "auth0"}
    /\ None \notin Names \cup Tokens \cup Operations
    /\ None \notin [token : Tokens, until : Nat]

VARIABLES
    now,
    doc,    \* the user document
    home,   \* the name of the personal workspace
    linked, \* the user has an auth record of the identity provider
    idp,    \* the name that the provider has
    drawn,  \* tokens and codes drawn so far
    mailed, \* reset tokens that have been mailed
    issued, \* history: reset tokens that have been stored,
    latest, \* the last of them,
    spent,  \* and those that have changed the password
    off,    \* history: what UpdateUserBySub or a failure has put out of step
    req     \* what each request knows and has done

history == <<issued, latest, spent>>
world == <<now, linked, drawn, mailed>>
vars == <<world, doc, home, idp, history, off, req>>

\* A reset token or a verification code.
Drawn == [token : Tokens, until : Nat]

\* reearth: there is an auth record for the password.  out: latestLogoutAt;
\* deletedAt, which Deactivate and Restore set, is treated the same way.
Documents ==
    [name : Names, password : Passwords, reset : Drawn \cup {None}, code : Drawn,
     verified : BOOLEAN, reearth : BOOLEAN, out : Nat]

\* doc and home: what will be stored.  name: UpdateMe's, if given.  token: the
\* one that is drawn or presented.  old: the name that UpdateUserBySub has
\* replaced.  stale: what it has read has been written since.
Idle == [pc |-> "idle", op |-> None, doc |-> None, home |-> None, name |-> None,
         token |-> None, old |-> None, stale |-> FALSE]

Over == [Idle EXCEPT !.pc = "over"]

\* A user who is not verified, and who may have asked for a new password.
Init ==
    /\ now = 0
    /\ \E n \in Names, p \in Passwords, c \in Tokens, t \in Tokens \cup {None}, ps \in Providers :
         /\ t # c
         /\ doc = [name |-> n, password |-> p,
                   reset |-> IF t = None THEN None ELSE [token |-> t, until |-> Lifetime],
                   code |-> [token |-> c, until |-> Lifetime],
                   verified |-> FALSE, reearth |-> "reearth" \in ps, out |-> 0]
         /\ home = n /\ idp = n
         /\ linked = ("auth0" \in ps)
         /\ drawn = {c, t} \ {None}
         /\ mailed = {t} \ {None} /\ issued = {t} \ {None} /\ latest = t
    /\ spent = {}
    /\ off = {}
    /\ req = [r \in Requests |-> Idle]

-----------------------------------------------------------------------------
\* The use case reads the document in its transaction and decides what to save.
Begin(r, op, d, t) ==
    /\ req[r].pc = "idle"
    /\ req' = [req EXCEPT ![r] = [Idle EXCEPT !.pc = "read", !.op = op, !.doc = d, !.token = t]]
    /\ UNCHANGED <<now, doc, home, linked, idp, mailed, history, off>>

Draw(t) == t \notin drawn /\ drawn' = drawn \cup {t}

New(t) == [token |-> t, until |-> now + Lifetime]

Logout(r) == Begin(r, "logout", [doc EXCEPT !.out = now], None) /\ UNCHANGED drawn

RemoveMyAuth(r) ==
    Begin(r, "removeMyAuth", [doc EXCEPT !.reearth = FALSE], None) /\ UNCHANGED drawn

\* VerifyUser: a code may be used again until it expires.
VerifyUser(r, t) ==
    /\ doc.code.token = t /\ now <= doc.code.until
    /\ Begin(r, "verifyUser", [doc EXCEPT !.verified = TRUE], t)
    /\ UNCHANGED drawn

\* Mutant: a verified user gets a new code too.
CreateVerificationAgain(r, t) ==
    /\ now > doc.code.until
    /\ Draw(t)
    /\ Begin(r, "createVerification", [doc EXCEPT !.code = New(t), !.verified = FALSE], t)

\* CreateVerification: nothing happens unless the code has expired.
CreateVerification(r, t) ==
    /\ ~doc.verified /\ now > doc.code.until
    /\ Draw(t)
    /\ Begin(r, "createVerification", [doc EXCEPT !.code = New(t), !.verified = FALSE], t)

StartPasswordReset(r, t) ==
    /\ doc.reearth
    /\ Draw(t)
    /\ Begin(r, "startPasswordReset", [doc EXCEPT !.reset = New(t)], t)

\* Mutant: the token is not cleared.
PasswordResetKept(r, t, p) ==
    /\ doc.reset # None /\ doc.reset.token = t /\ now < doc.reset.until
    /\ doc.reearth
    /\ Begin(r, "passwordReset", [doc EXCEPT !.password = p], t)
    /\ UNCHANGED drawn

\* PasswordReset: the token is looked up and validated.
PasswordReset(r, t, p) ==
    /\ doc.reset # None /\ doc.reset.token = t /\ now < doc.reset.until
    /\ doc.reearth
    /\ Begin(r, "passwordReset", [doc EXCEPT !.password = p, !.reset = None], t)
    /\ UNCHANGED drawn

Runs(op) == \E s \in Requests : req[s].op = op

\* Mutant: the personal workspace keeps its name.
FollowsNever(oldName) == FALSE

\* The personal workspace follows the user's name as long as it has the same.
Follows(oldName) == home = oldName

\* UpdateMe, of the name or the password: the provider has to be told.
UpdateMe(r, n, p) ==
    LET d == [doc EXCEPT !.name = IF n = None THEN @ ELSE n,
                         !.password = IF p = None \/ ~doc.reearth THEN @ ELSE p]
    IN
    /\ req[r].pc = "idle"
    /\ n # None \/ p # None
    /\ req' = [req EXCEPT ![r] =
                 [Idle EXCEPT !.pc = IF linked THEN "sync" ELSE "read", !.op = "updateMe",
                              !.doc = d, !.name = n,
                              !.home = IF d.name # doc.name /\ Follows(doc.name) THEN n ELSE home]]
    /\ off' = off \cup IF Runs("updateUserBySub") THEN {"home"} ELSE {}
    /\ UNCHANGED <<world, doc, home, idp, history>>

\* Mutant: an error of the provider is only logged.
SyncAnyhow(r) ==
    /\ req[r].pc = "sync"
    /\ req' = [req EXCEPT ![r].pc = "read"]
    /\ idp' \in {idp, IF req[r].name = None THEN idp ELSE req[r].name}
    /\ UNCHANGED <<world, doc, home, history, off>>

\* The provider is updated before the database.
Sync(r) ==
    /\ req[r].pc = "sync"
    /\ req' = [req EXCEPT ![r].pc = "read"]
    /\ idp' = IF req[r].name = None THEN idp ELSE req[r].name
    /\ UNCHANGED <<world, doc, home, history, off>>

\* Its answer is lost, and the use case fails.
SyncLost(r) ==
    /\ req[r].pc = "sync" /\ req[r].name # None
    /\ req' = [req EXCEPT ![r] = Over]
    /\ idp' = req[r].name
    /\ off' = off \cup {"idp"}
    /\ UNCHANGED <<world, doc, home, history>>

-----------------------------------------------------------------------------
InTransaction(r) == req[r].pc \in {"sync", "read"}

\* The name of a failing UpdateMe has reached the provider.
Synced(r) == req[r].pc = "read" /\ req[r].op = "updateMe" /\ req[r].name # None

\* Any check, call of the provider or call of the database fails: nothing of
\* the transaction remains.
Abort(r) ==
    /\ InTransaction(r)
    /\ req' = [req EXCEPT ![r] = Over]
    /\ off' = off \cup IF Synced(r) /\ linked THEN {"idp"} ELSE {}
    /\ UNCHANGED <<world, doc, home, idp, history>>

\* The document is written: who has read it before is overtaken.
EndOf(r, next) ==
    req' = [s \in Requests |-> IF s = r THEN next ELSE [req[s] EXCEPT !.stale = req[s].pc \notin {"idle", "over"}]]

\* Mutant: what another transaction has written is written over.
CommitsAnyhow(r) == req[r].pc = "read"

\* Whether the transaction can commit.
Commits(r) == req[r].pc = "read" /\ (Transactions = "snapshot" => ~req[r].stale)

Commit(r) ==
    /\ Commits(r)
    /\ doc' = req[r].doc
    /\ home' = IF req[r].op = "updateMe" THEN req[r].home ELSE home
    /\ EndOf(r, IF req[r].op = "startPasswordReset"
                  THEN [Idle EXCEPT !.pc = "mail", !.op = "startPasswordReset", !.token = req[r].token]
                  ELSE Over)
    /\ issued' = issued \cup IF req[r].op = "startPasswordReset" THEN {req[r].token} ELSE {}
    /\ latest' = IF req[r].op = "startPasswordReset" THEN req[r].token ELSE latest
    /\ spent' = spent \cup IF req[r].op = "passwordReset" THEN {req[r].token} ELSE {}
    /\ UNCHANGED <<world, idp, off>>

\* Mutant: the mail is sent inside the transaction.
SendEarly(r) ==
    /\ req[r].pc \in {"read", "mail"} /\ req[r].op = "startPasswordReset"
    /\ mailed' = mailed \cup {req[r].token}
    /\ req' = [req EXCEPT ![r] = IF req[r].pc = "mail" THEN Over ELSE req[r]]
    /\ UNCHANGED <<now, doc, home, linked, idp, drawn, history, off>>

\* StartPasswordReset mails the token after its transaction,
Send(r) ==
    /\ req[r].pc = "mail"
    /\ mailed' = mailed \cup {req[r].token}
    /\ req' = [req EXCEPT ![r] = Over]
    /\ UNCHANGED <<now, doc, home, linked, idp, drawn, history, off>>

\* and may fail then, or stop.
SendFails(r) ==
    /\ req[r].pc = "mail"
    /\ req' = [req EXCEPT ![r] = Over]
    /\ UNCHANGED <<world, doc, home, idp, history, off>>

-----------------------------------------------------------------------------
(* UpdateUserBySub, step by step.                                          *)

LoadBySub(r, n) ==
    /\ req[r].pc = "idle"
    /\ req' = [req EXCEPT ![r] = [Idle EXCEPT !.pc = "save", !.op = "updateUserBySub",
                                              !.doc = [doc EXCEPT !.name = n], !.old = doc.name]]
    /\ off' = off \cup IF Runs("updateUserBySub") \/ Runs("updateMe") THEN {"home"} ELSE {}
    /\ UNCHANGED <<world, doc, home, idp, history>>

\* The whole document is saved, whatever has been written since.
SaveBySub(r) ==
    /\ req[r].pc = "save"
    /\ doc' = req[r].doc
    /\ EndOf(r, [req[r] EXCEPT !.pc = "find"])
    /\ off' = off \cup {"idp"} \cup IF req[r].stale THEN {"doc"} ELSE {}
    /\ UNCHANGED <<world, home, idp, history>>

FindHome(r) ==
    /\ req[r].pc = "find"
    /\ req' = [req EXCEPT ![r] = IF Follows(req[r].old) THEN [req[r] EXCEPT !.pc = "rename"] ELSE Over]
    /\ UNCHANGED <<world, doc, home, idp, history, off>>

\* Whoever is about to write the workspace in a transaction is overtaken.
RenameHome(r) ==
    /\ req[r].pc = "rename"
    /\ home' = req[r].doc.name
    /\ req' = [s \in Requests |->
                 IF s = r THEN Over ELSE [req[s] EXCEPT !.stale = @ \/ req[s].op = "updateMe"]]
    /\ UNCHANGED <<world, doc, idp, history, off>>

\* A failing save of the workspace is only logged.
StopBySub(r) ==
    /\ req[r].pc \in {"save", "find", "rename"}
    /\ req' = [req EXCEPT ![r] = Over]
    /\ off' = off \cup IF req[r].pc = "save" THEN {} ELSE {"home"}
    /\ UNCHANGED <<world, doc, home, idp, history>>

Tick ==
    /\ now < MaxTime
    /\ now' = now + 1
    /\ UNCHANGED <<linked, drawn, mailed, doc, home, idp, history, off, req>>

Next ==
    \/ \E r \in Requests :
         \/ Logout(r) \/ RemoveMyAuth(r)
         \/ \E t \in Tokens : \/ VerifyUser(r, t) \/ CreateVerification(r, t)
                              \/ StartPasswordReset(r, t)
                              \/ \E p \in Passwords : PasswordReset(r, t, p)
         \/ \E n \in Names \cup {None}, p \in Passwords \cup {None} : UpdateMe(r, n, p)
         \/ Sync(r) \/ SyncLost(r) \/ Abort(r) \/ Commit(r) \/ Send(r) \/ SendFails(r)
         \/ \E n \in Names : LoadBySub(r, n)
         \/ SaveBySub(r) \/ FindHome(r) \/ RenameHome(r) \/ StopBySub(r)
    \/ Tick

Spec == Init /\ [][Next]_vars

-----------------------------------------------------------------------------
\* What each use case changes in the document.
Own == [logout |-> {"out"}, removeMyAuth |-> {"reearth"}, verifyUser |-> {"verified"},
        createVerification |-> {"verified", "code"}, startPasswordReset |-> {"reset"},
        passwordReset |-> {"password", "reset"}, updateMe |-> {"name", "password"},
        updateUserBySub |-> {"name"}]

Fields == {"name", "password", "reset", "code", "verified", "reearth", "out"}

Request ==
    [pc : {"idle", "over", "sync", "read", "mail", "save", "find", "rename"},
     op : Operations \cup {None}, doc : Documents \cup {None}, home : Names \cup {None},
     name : Names \cup {None}, token : Tokens \cup {None}, old : Names \cup {None},
     stale : BOOLEAN]

TypeOK ==
    /\ now \in 0..MaxTime
    /\ doc \in Documents
    /\ home \in Names /\ idp \in Names /\ linked \in BOOLEAN
    /\ drawn \subseteq Tokens /\ mailed \subseteq Tokens
    /\ issued \subseteq Tokens /\ latest \in Tokens \cup {None} /\ spent \subseteq Tokens
    /\ off \subseteq {"idp", "home", "doc"}
    /\ req \in [Requests -> Request]

\* The inductive invariant of snapshot transactions.  What is about to be saved
\* differs from what is stored in the use case's own fields only, if nobody has
\* overtaken it;
Deciding(r) == req[r].pc \in {"sync", "read", "save"}

Base(r) ==
    Deciding(r) /\ ~req[r].stale =>
      \A f \in Fields \ Own[req[r].op] : req[r].doc[f] = doc[f]

\* tokens are drawn once, and stored before they are mailed;
TokenInv ==
    /\ spent \subseteq issued /\ issued \subseteq drawn /\ mailed \subseteq issued
    /\ \A r \in Requests :
         req[r].op = "startPasswordReset" =>
           /\ req[r].pc = "read" => /\ req[r].token \in drawn \ issued
                                    /\ req[r].doc.reset # None
                                    /\ req[r].doc.reset.token = req[r].token
           /\ req[r].pc = "mail" => req[r].token \in issued
           /\ \A s \in Requests \ {r} :
                req[s].op = "startPasswordReset" => req[s].token # req[r].token
    /\ doc.reset # None => doc.reset.token \in issued
    /\ \A r \in Requests : req[r].op = "passwordReset" => req[r].token \in issued
    /\ \A r \in Requests :
         Deciding(r) /\ req[r].op # "startPasswordReset" /\ req[r].doc.reset # None =>
           req[r].doc.reset.token \in issued

\* the stored one is the last and not spent;
LatestInv ==
    "doc" \notin off /\ doc.reset # None => doc.reset.token = latest /\ latest \notin spent

\* what a use case has checked still holds;
CheckedInv(r) ==
    req[r].pc = "read" /\ ~req[r].stale =>
      /\ req[r].op = "passwordReset" => /\ doc.reset # None /\ doc.reset.token = req[r].token
                                        /\ req[r].doc.reset = None
      /\ req[r].op = "createVerification" => ~doc.verified
      /\ req[r].op = "verifyUser" => req[r].doc.verified

\* the provider knows the name that is going to be stored, if only one is;
UpdateInv(r) ==
    req[r].op = "updateMe" /\ ~req[r].stale =>
      req[r].doc.name = IF req[r].name = None THEN doc.name ELSE req[r].name

ProviderInv ==
    linked /\ "idp" \notin off =>
      /\ (\A r \in Requests : ~Synced(r)) => idp = doc.name
      /\ \A r \in Requests :
           Synced(r) /\ ~req[r].stale /\ (\A s \in Requests \ {r} : ~Synced(s)) =>
             idp = req[r].name

\* and the workspace's name is the user's, or an UpdateUserBySub that nobody
\* crosses is about to make it so.
HomeInv ==
    "home" \notin off =>
      /\ (\A r \in Requests : req[r].pc \notin {"find", "rename"}) => home = doc.name
      /\ \A r \in Requests :
           /\ req[r].op = "updateMe" /\ ~req[r].stale => req[r].home = req[r].doc.name
           /\ req[r].op = "updateUserBySub" =>
                /\ \A s \in Requests \ {r} : req[s].op \notin {"updateMe", "updateUserBySub"}
                /\ req[r].pc = "save" => req[r].old = doc.name
                /\ req[r].pc = "find" => home = req[r].old
                /\ req[r].pc \in {"find", "rename"} => doc.name = req[r].doc.name

\* Where the requests of each use case may be, and with what in hand.
PlaceInv(r) ==
    /\ req[r].pc \in {"idle", "over"} <=> req[r].op = None
    /\ req[r].pc \in {"save", "find", "rename"} <=> req[r].op = "updateUserBySub"
    /\ req[r].pc = "sync" => req[r].op = "updateMe"
    /\ req[r].pc = "mail" => req[r].op = "startPasswordReset"
    /\ req[r].pc \notin {"idle", "over", "mail"} => req[r].doc \in Documents
    /\ req[r].op = "updateMe" => req[r].home \in Names
    /\ req[r].op \in {"startPasswordReset", "passwordReset"} => req[r].token \in Tokens

\* What holds whatever the transactions are, and all of it.
FormInv == TypeOK /\ TokenInv /\ \A r \in Requests : PlaceInv(r)

CredentialsInv ==
    /\ FormInv /\ LatestInv /\ ProviderInv /\ HomeInv
    /\ \A r \in Requests : Base(r) /\ CheckedInv(r) /\ UpdateInv(r)

\* A use case changes its own fields and leaves the others as they are when it
\* commits, although it saves the whole of a document read earlier: a new
\* password, a verification, a logout or a token is not undone by an update of
\* something else that was under way.
OwnFields ==
    [][\A r \in Requests :
         req[r].pc = "read" /\ req'[r].pc # "read" =>
           \A f \in Fields \ Own[req[r].op] : doc'[f] = doc[f]]_vars

\* A token changes the password at most once, and only the token of the last
\* request does, however resets and requests overlap.  UpdateUserBySub may
\* bring back an older document and its token with it.
ResetOnce ==
    [][\A r \in Requests :
         req[r].op = "passwordReset" /\ req[r].pc = "read" /\ req'[r].pc # "read"
           /\ doc' # doc /\ "doc" \notin off =>
              req[r].token = latest /\ req[r].token \notin spent]_vars

\* Who is verified stays so, whatever codes are asked for in the meantime; an
\* older document of UpdateUserBySub apart.
StaysVerified == [][doc.verified /\ "doc" \notin off' => doc'.verified]_vars

\* A mailed token is one that has been stored.
MailedIsStored == mailed \subseteq issued

\* The provider has the name that the database has while no UpdateMe is under
\* way, unless one has failed after it told the provider, or UpdateUserBySub
\* has not told it.
NamesAgree ==
    linked /\ "idp" \notin off /\ (\A r \in Requests : ~Synced(r)) => idp = doc.name

\* The personal workspace has the user's name, unless an UpdateUserBySub is
\* under way, has failed half-way or has crossed another renaming.
HomeFollows ==
    "home" \notin off /\ (\A r \in Requests : req[r].pc \notin {"find", "rename"}) => home = doc.name
=============================================================================
