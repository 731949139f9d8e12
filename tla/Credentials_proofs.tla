------------------------- MODULE Credentials_proofs -------------------------
(***************************************************************************)
(* Proofs about Credentials, for any number of requests, names, passwords  *)
(* and tokens and any lifetime: CredentialsInv is inductive, and with it   *)
(* use cases change their own fields only, a reset token works once and    *)
(* only while it is the last, and the names agree.                         *)
(***************************************************************************)
EXTENDS Credentials, TLAPS

\* A request is replaced by one of the right type.
LEMMA RequestTyped ==
    ASSUME req \in [Requests -> Request], NEW r \in Requests, NEW q \in Request,
           req' = [req EXCEPT ![r] = q]
    PROVE  req' \in [Requests -> Request]
OBVIOUS

LEMMA BeginTyped ==
    ASSUME TypeOK, NEW r \in Requests, NEW op \in Operations, NEW d \in Documents,
           NEW t \in Tokens \cup {None}, Begin(r, op, d, t), drawn' \subseteq Tokens
    PROVE  TypeOK'
<1> DEFINE q == [Idle EXCEPT !.pc = "read", !.op = op, !.doc = d, !.token = t]
<1>1. q \in Request
  BY DEF Idle, Request, Operations
<1>2. req' = [req EXCEPT ![r] = q]
  BY DEF Begin
<1> HIDE DEF q
<1>3. req' \in [Requests -> Request]
  BY <1>1, <1>2, RequestTyped DEF TypeOK
<1> QED BY <1>3 DEF TypeOK, Begin, history

\* So does overtaking the others.
LEMMA StaleTyped ==
    ASSUME NEW q \in Request, NEW b \in BOOLEAN
    PROVE  [q EXCEPT !.stale = b] \in Request
BY DEF Request

LEMMA EndTyped ==
    ASSUME TypeOK, NEW r \in Requests, NEW q \in Request, EndOf(r, q)
    PROVE  req' \in [Requests -> Request]
<1>1. ASSUME NEW s \in Requests
      PROVE  [req[s] EXCEPT !.stale = req[s].pc \notin {"idle", "over"}] \in Request
  <2>1. req[s] \in Request /\ (req[s].pc \notin {"idle", "over"}) \in BOOLEAN
    BY DEF TypeOK
  <2> QED BY <2>1, StaleTyped
<1> QED BY <1>1 DEF EndOf

LEMMA OverTyped == Idle \in Request /\ Over \in Request
BY DEF Idle, Over, Request

LEMMA PcTyped ==
    ASSUME NEW q \in Request,
           NEW l \in {"idle", "over", "sync", "read", "mail", "save", "find", "rename"}
    PROVE  [q EXCEPT !.pc = l] \in Request
BY DEF Request

LEMMA NewTyped ==
    ASSUME TypeOK, NEW t \in Tokens
    PROVE  New(t) \in Drawn
BY CredentialsAssumption DEF TypeOK, New, Drawn

LEMMA DocumentsTyped ==
    ASSUME TypeOK, NEW t \in Tokens, NEW p \in Passwords
    PROVE  /\ [doc EXCEPT !.out = now] \in Documents
           /\ [doc EXCEPT !.reearth = FALSE] \in Documents
           /\ [doc EXCEPT !.verified = TRUE] \in Documents
           /\ [doc EXCEPT !.code = New(t), !.verified = FALSE] \in Documents
           /\ [doc EXCEPT !.reset = New(t)] \in Documents
           /\ [doc EXCEPT !.password = p, !.reset = None] \in Documents
<1>1. New(t) \in Drawn /\ now \in Nat
  BY NewTyped, CredentialsAssumption DEF TypeOK
<1> QED BY <1>1 DEF TypeOK, Documents

\* A step that overtakes the others leaves what they have in hand.
Same(s) ==
    /\ req'[s].pc = req[s].pc /\ req'[s].op = req[s].op /\ req'[s].doc = req[s].doc
    /\ req'[s].home = req[s].home /\ req'[s].name = req[s].name
    /\ req'[s].token = req[s].token /\ req'[s].old = req[s].old

LEMMA AfterEnd ==
    ASSUME TypeOK, NEW r \in Requests, NEW q, EndOf(r, q)
    PROVE  /\ req'[r] = q
           /\ \A s \in Requests \ {r} :
                Same(s) /\ req'[s].stale = (req[s].pc \notin {"idle", "over"})
BY DEF TypeOK, Request, EndOf, Same

LEMMA AfterRename ==
    ASSUME TypeOK, NEW r \in Requests, RenameHome(r)
    PROVE  /\ req'[r] = Over
           /\ \A s \in Requests \ {r} :
                Same(s) /\ (~req'[s].stale => ~req[s].stale /\ req[s].op # "updateMe")
<1>1. req' = [x \in Requests |->
                IF x = r THEN Over
                ELSE [req[x] EXCEPT !.stale = req[x].stale \/ req[x].op = "updateMe"]]
  BY DEF RenameHome
<1>2. ASSUME NEW s \in Requests, s # r
      PROVE  Same(s) /\ (~req'[s].stale => ~req[s].stale /\ req[s].op # "updateMe")
  <2>1. req'[s] = [req[s] EXCEPT !.stale = req[s].stale \/ req[s].op = "updateMe"]
    BY <1>1, <1>2
  <2>2. req[s] \in Request
    BY DEF TypeOK
  <2> QED BY <2>1, <2>2 DEF Request, Same
<1> QED BY <1>1, <1>2

\* What a commit leaves of the request.
Committed(r) ==
    IF req[r].op = "startPasswordReset"
      THEN [Idle EXCEPT !.pc = "mail", !.op = "startPasswordReset", !.token = req[r].token]
      ELSE Over

LEMMA AfterCommit ==
    ASSUME TypeOK, NEW r \in Requests, Commit(r)
    PROVE  /\ req'[r] = Committed(r)
           /\ \A s \in Requests \ {r} :
                Same(s) /\ req'[s].stale = (req[s].pc \notin {"idle", "over"})
BY AfterEnd DEF Commit, Committed

LEMMA AfterSave ==
    ASSUME TypeOK, NEW r \in Requests, SaveBySub(r)
    PROVE  /\ req'[r] = [req[r] EXCEPT !.pc = "find"]
           /\ req'[r].pc = "find" /\ req'[r].op = req[r].op /\ req'[r].doc = req[r].doc
           /\ req'[r].old = req[r].old
           /\ \A s \in Requests \ {r} :
                Same(s) /\ req'[s].stale = (req[s].pc \notin {"idle", "over"})
<1>1. EndOf(r, [req[r] EXCEPT !.pc = "find"])
  BY DEF SaveBySub
<1>2. /\ req'[r] = [req[r] EXCEPT !.pc = "find"]
      /\ \A s \in Requests \ {r} :
           Same(s) /\ req'[s].stale = (req[s].pc \notin {"idle", "over"})
  BY <1>1, AfterEnd
<1> QED BY <1>2 DEF TypeOK, Request

\* UpdateMe has a document and a name for the workspace.
LEMMA UpdateTyped ==
    ASSUME TypeOK, NEW r \in Requests, NEW n \in Names \cup {None},
           NEW p \in Passwords \cup {None}, UpdateMe(r, n, p)
    PROVE  /\ req'[r].doc \in Documents /\ req'[r].home \in Names
           /\ req'[r].op = "updateMe" /\ req'[r].pc = IF linked THEN "sync" ELSE "read"
           /\ req'[r].name = n /\ ~req'[r].stale
           /\ req'[r].doc.name = IF n = None THEN doc.name ELSE n
           /\ req'[r].home = IF req'[r].doc.name # doc.name /\ Follows(doc.name) THEN n ELSE home
           /\ \A f \in Fields \ {"name", "password"} : req'[r].doc[f] = doc[f]
           /\ \A s \in Requests \ {r} : req'[s] = req[s]
<1> DEFINE d == [doc EXCEPT !.name = IF n = None THEN @ ELSE n,
                            !.password = IF p = None \/ ~doc.reearth THEN @ ELSE p]
<1>1. /\ d \in Documents /\ d.name = IF n = None THEN doc.name ELSE n
      /\ \A f \in Fields \ {"name", "password"} : d[f] = doc[f]
      /\ doc.name \in Names
  BY DEF TypeOK, Documents, Fields
<1>2. req' = [req EXCEPT ![r] =
                [Idle EXCEPT !.pc = IF linked THEN "sync" ELSE "read", !.op = "updateMe",
                             !.doc = d, !.name = n,
                             !.home = IF d.name # doc.name /\ Follows(doc.name) THEN n ELSE home]]
  BY DEF UpdateMe
<1> HIDE DEF d
<1>3. (IF d.name # doc.name /\ Follows(doc.name) THEN n ELSE home) \in Names
  BY <1>1 DEF TypeOK
<1> QED BY <1>1, <1>2, <1>3 DEF TypeOK, Idle

\* The variables keep their types.
LEMMA TypeStep == FormInv /\ [Next]_vars => TypeOK'
<1> SUFFICES ASSUME FormInv, [Next]_vars PROVE TypeOK'
  OBVIOUS
<1> DEFINE Goal == TypeOK'
<1>0. TypeOK /\ \A r \in Requests : PlaceInv(r)
  BY DEF FormInv
<1> USE CredentialsAssumption
<1> USE DEF TypeOK, world, history
<1>1. ASSUME NEW r \in Requests, Logout(r) PROVE Goal
  <2>1. [doc EXCEPT !.out = now] \in Documents
    BY <1>0, CredentialsAssumption DEF Documents
  <2>2. drawn' \subseteq Tokens
    BY <1>0, <1>1 DEF Logout, Begin
  <2> QED BY <1>0, <1>1, <2>1, <2>2, BeginTyped DEF Operations, Logout
<1>2. ASSUME NEW r \in Requests, RemoveMyAuth(r) PROVE Goal
  <2>1. [doc EXCEPT !.reearth = FALSE] \in Documents
    BY <1>0, CredentialsAssumption DEF Documents
  <2>2. drawn' \subseteq Tokens
    BY <1>0, <1>2 DEF RemoveMyAuth, Begin
  <2> QED BY <1>0, <1>2, <2>1, <2>2, BeginTyped DEF Operations, RemoveMyAuth
<1>3. ASSUME NEW r \in Requests, NEW t \in Tokens, VerifyUser(r, t) PROVE Goal
  <2>1. [doc EXCEPT !.verified = TRUE] \in Documents
    BY <1>0, CredentialsAssumption DEF Documents
  <2>2. drawn' \subseteq Tokens
    BY <1>0, <1>3 DEF VerifyUser, Begin
  <2> QED BY <1>0, <1>3, <2>1, <2>2, BeginTyped DEF Operations, VerifyUser
<1>4. ASSUME NEW r \in Requests, NEW t \in Tokens, CreateVerification(r, t) PROVE Goal
  <2>0. New(t) \in Drawn
    BY <1>0, NewTyped
  <2>1. [doc EXCEPT !.code = New(t), !.verified = FALSE] \in Documents
    BY <1>0, <2>0, CredentialsAssumption DEF Documents
  <2>2. drawn' \subseteq Tokens
    BY <1>0, <1>4 DEF CreateVerification, Begin, Draw, New
  <2> QED BY <1>0, <1>4, <2>1, <2>2, BeginTyped DEF Operations, CreateVerification
<1>5. ASSUME NEW r \in Requests, NEW t \in Tokens, StartPasswordReset(r, t) PROVE Goal
  <2>0. New(t) \in Drawn
    BY <1>0, NewTyped
  <2>1. [doc EXCEPT !.reset = New(t)] \in Documents
    BY <1>0, <2>0, CredentialsAssumption DEF Documents
  <2>2. drawn' \subseteq Tokens
    BY <1>0, <1>5 DEF StartPasswordReset, Begin, Draw, New
  <2> QED BY <1>0, <1>5, <2>1, <2>2, BeginTyped DEF Operations, StartPasswordReset
<1>6. ASSUME NEW r \in Requests, NEW t \in Tokens, NEW p \in Passwords, PasswordReset(r, t, p) PROVE Goal
  <2>1. [doc EXCEPT !.password = p, !.reset = None] \in Documents
    BY <1>0, CredentialsAssumption DEF Documents
  <2>2. drawn' \subseteq Tokens
    BY <1>0, <1>6 DEF PasswordReset, Begin
  <2> QED BY <1>0, <1>6, <2>1, <2>2, BeginTyped DEF Operations, PasswordReset
<1>7. ASSUME NEW r \in Requests, NEW n \in Names \cup {None}, NEW p \in Passwords \cup {None}, UpdateMe(r, n, p) PROVE Goal
  <2>1. [doc EXCEPT !.name = IF n = None THEN @ ELSE n,
                    !.password = IF p = None \/ ~doc.reearth THEN @ ELSE p] \in Documents
    BY <1>0 DEF Documents
  <2>2. PICK d \in Documents, l \in {"sync", "read"}, h \in Names :
          req' = [req EXCEPT ![r] = [Idle EXCEPT !.pc = l, !.op = "updateMe", !.doc = d,
                                                 !.name = n, !.home = h]]
    <3>1. PICK h \in Names : h = IF [doc EXCEPT !.name = IF n = None THEN @ ELSE n,
                    !.password = IF p = None \/ ~doc.reearth THEN @ ELSE p].name # doc.name
                      /\ Follows(doc.name) THEN n ELSE home
      BY <1>0, <2>1 DEF Documents
    <3> QED BY <1>7, <2>1, <3>1 DEF UpdateMe
  <2>3. [Idle EXCEPT !.pc = l, !.op = "updateMe", !.doc = d, !.name = n, !.home = h] \in Request
    BY <2>2 DEF Idle, Request, Operations
  <2>4. req' \in [Requests -> Request]
    BY <1>0, <2>2, <2>3
  <2> QED BY <1>0, <1>7, <2>4 DEF UpdateMe, Runs, Follows
<1>8. ASSUME NEW r \in Requests, Sync(r) PROVE Goal
  <2>1. req' = [req EXCEPT ![r] = [req[r] EXCEPT !.pc = "read"]]
    BY <1>0, <1>8 DEF Sync
  <2>2. req' \in [Requests -> Request]
    BY <1>0, <2>1, PcTyped
  <2> QED BY <1>0, <1>8, <2>2 DEF Sync, Request
<1>9. ASSUME NEW r \in Requests, SyncLost(r) PROVE Goal
  <2>1. req' \in [Requests -> Request]
    BY <1>0, <1>9, OverTyped DEF SyncLost
  <2> QED BY <1>0, <1>9, <2>1 DEF SyncLost, Request
<1>10. ASSUME NEW r \in Requests, Abort(r) PROVE Goal
  <2>1. req' \in [Requests -> Request]
    BY <1>0, <1>10, OverTyped DEF Abort, InTransaction, Synced
  <2> QED BY <1>0, <1>10, <2>1 DEF Abort, InTransaction, Synced, Request
<1>11. ASSUME NEW r \in Requests, Commit(r) PROVE Goal
  <2>1. req' \in [Requests -> Request]
    <3>1. [Idle EXCEPT !.pc = "mail", !.op = "startPasswordReset", !.token = req[r].token] \in Request
      BY <1>0 DEF Idle, Request, Operations
    <3>2. PICK q \in Request : EndOf(r, q)
      BY <1>11, <3>1, OverTyped DEF Commit
    <3> QED BY <1>0, <3>2, EndTyped
  <2>2. req[r] \in Request /\ req[r].pc = "read" /\ PlaceInv(r)
    BY <1>0, <1>11 DEF Commit, Commits
  <2>3. doc' \in Documents /\ home' \in Names
    BY <1>0, <1>11, <2>2 DEF Commit, PlaceInv, Request
  <2>4. issued' \subseteq Tokens /\ latest' \in Tokens \cup {None} /\ spent' \subseteq Tokens
    <3>1. req[r].op \in {"startPasswordReset", "passwordReset"} => req[r].token \in Tokens
      BY <1>0, <2>2 DEF PlaceInv, Request
    <3> QED BY <1>0, <1>11, <3>1 DEF Commit
  <2> QED BY <1>0, <1>11, <2>1, <2>3, <2>4 DEF Commit
<1>12. ASSUME NEW r \in Requests, Send(r) PROVE Goal
  <2>1. req' \in [Requests -> Request]
    BY <1>0, <1>12, OverTyped DEF Send
  <2>2. req[r].token \in Tokens
    BY <1>0, <1>12 DEF Send, PlaceInv, Request
  <2> QED BY <1>0, <1>12, <2>1, <2>2 DEF Send
<1>13. ASSUME NEW r \in Requests, SendFails(r) PROVE Goal
  <2>1. req' \in [Requests -> Request]
    BY <1>0, <1>13, OverTyped DEF SendFails
  <2> QED BY <1>0, <1>13, <2>1 DEF SendFails, Request
<1>14. ASSUME NEW r \in Requests, NEW n \in Names, LoadBySub(r, n) PROVE Goal
  <2>1. [doc EXCEPT !.name = n] \in Documents /\ doc.name \in Names
    BY <1>0 DEF Documents
  <2>2. [Idle EXCEPT !.pc = "save", !.op = "updateUserBySub",
                     !.doc = [doc EXCEPT !.name = n], !.old = doc.name] \in Request
    BY <2>1 DEF Idle, Request, Operations
  <2>3. req' \in [Requests -> Request]
    BY <1>0, <1>14, <2>2 DEF LoadBySub
  <2> QED BY <1>0, <1>14, <2>3 DEF LoadBySub, Runs
<1>15. ASSUME NEW r \in Requests, SaveBySub(r) PROVE Goal
  <2>1. [req[r] EXCEPT !.pc = "find"] \in Request
    BY <1>0, PcTyped
  <2>2. req' \in [Requests -> Request]
    BY <1>0, <1>15, <2>1, EndTyped DEF SaveBySub
  <2>3. doc' \in Documents
    BY <1>0, <1>15 DEF SaveBySub, PlaceInv, Request
  <2> QED BY <1>0, <1>15, <2>2, <2>3 DEF SaveBySub
<1>16. ASSUME NEW r \in Requests, FindHome(r) PROVE Goal
  <2>1. [req[r] EXCEPT !.pc = "rename"] \in Request
    BY <1>0, PcTyped
  <2>2. req' \in [Requests -> Request]
    BY <1>0, <1>16, <2>1, OverTyped DEF FindHome
  <2> QED BY <1>0, <1>16, <2>2 DEF FindHome
<1>17. ASSUME NEW r \in Requests, RenameHome(r) PROVE Goal
  <2>1. ASSUME NEW s \in Requests
        PROVE  [req[s] EXCEPT !.stale = @ \/ req[s].op = "updateMe"] \in Request
    <3>1. (req[s].stale \/ req[s].op = "updateMe") \in BOOLEAN
      OBVIOUS
    <3> QED BY <1>0, <3>1, StaleTyped
  <2>2. req' \in [Requests -> Request]
    BY <1>0, <1>17, <2>1, OverTyped DEF RenameHome
  <2>3. home' \in Names
    BY <1>0, <1>17 DEF RenameHome, PlaceInv, Request, Documents
  <2> QED BY <1>0, <1>17, <2>2, <2>3 DEF RenameHome
<1>18. ASSUME NEW r \in Requests, StopBySub(r) PROVE Goal
  <2>1. req' \in [Requests -> Request]
    BY <1>0, <1>18, OverTyped DEF StopBySub
  <2> QED BY <1>0, <1>18, <2>1 DEF StopBySub, Request
<1>19. CASE Tick
  BY <1>0, <1>19 DEF Tick
<1>20. CASE UNCHANGED vars
  BY <1>0, <1>20 DEF vars
<1> QED BY <1>1, <1>2, <1>3, <1>4, <1>5, <1>6, <1>7, <1>8, <1>9, <1>10, <1>11, <1>12, <1>13,
           <1>14, <1>15, <1>16, <1>17, <1>18, <1>19, <1>20 DEF Next

\* PlaceInv: where each use case may be.
LEMMA PlaceStep == FormInv /\ [Next]_vars => \A s \in Requests : PlaceInv(s)'
<1> SUFFICES ASSUME FormInv, [Next]_vars PROVE \A s \in Requests : PlaceInv(s)'
  OBVIOUS
<1> DEFINE Goal == \A s \in Requests : PlaceInv(s)'
<1>0. TypeOK /\ TokenInv /\ \A s \in Requests : PlaceInv(s)
  BY DEF FormInv
<1> USE CredentialsAssumption
<1> USE DEF TypeOK, Idle, Over, PlaceInv, Operations, Request
<1>1. ASSUME NEW r \in Requests, Logout(r) PROVE Goal
  <2>1. [doc EXCEPT !.out = now] \in Documents
    BY <1>0 DEF Documents
  <2> QED BY <1>0, <1>1, <2>1 DEF Logout, Begin
<1>2. ASSUME NEW r \in Requests, RemoveMyAuth(r) PROVE Goal
  <2>1. [doc EXCEPT !.reearth = FALSE] \in Documents
    BY <1>0 DEF Documents
  <2> QED BY <1>0, <1>2, <2>1 DEF RemoveMyAuth, Begin
<1>3. ASSUME NEW r \in Requests, NEW t \in Tokens, VerifyUser(r, t) PROVE Goal
  <2>1. [doc EXCEPT !.verified = TRUE] \in Documents
    BY <1>0 DEF Documents
  <2> QED BY <1>0, <1>3, <2>1 DEF VerifyUser, Begin
<1>4. ASSUME NEW r \in Requests, NEW t \in Tokens, CreateVerification(r, t) PROVE Goal
  <2> DEFINE d == [doc EXCEPT !.code = New(t), !.verified = FALSE]
  <2>1. d \in Documents
    <3>1. New(t) \in Drawn
      BY <1>0, NewTyped
    <3> QED BY <1>0, <3>1 DEF Documents
  <2>2. Begin(r, "createVerification", d, t)
    BY <1>4 DEF CreateVerification
  <2> HIDE DEF d
  <2> QED BY <1>0, <2>1, <2>2 DEF Begin
<1>5. ASSUME NEW r \in Requests, NEW t \in Tokens, StartPasswordReset(r, t) PROVE Goal
  <2> DEFINE d == [doc EXCEPT !.reset = New(t)]
  <2>1. d \in Documents
    <3>1. New(t) \in Drawn
      BY <1>0, NewTyped
    <3> QED BY <1>0, <3>1 DEF Documents
  <2>2. Begin(r, "startPasswordReset", d, t)
    BY <1>5 DEF StartPasswordReset
  <2> HIDE DEF d
  <2> QED BY <1>0, <2>1, <2>2 DEF Begin
<1>6. ASSUME NEW r \in Requests, NEW t \in Tokens, NEW p \in Passwords, PasswordReset(r, t, p) PROVE Goal
  <2> DEFINE d == [doc EXCEPT !.password = p, !.reset = None]
  <2>1. d \in Documents
    BY <1>0 DEF Documents
  <2>2. Begin(r, "passwordReset", d, t)
    BY <1>6 DEF PasswordReset
  <2> HIDE DEF d
  <2> QED BY <1>0, <2>1, <2>2 DEF Begin
<1>7. ASSUME NEW r \in Requests, NEW n \in Names \cup {None}, NEW p \in Passwords \cup {None}, UpdateMe(r, n, p) PROVE Goal
  BY <1>0, <1>7, UpdateTyped
<1>8. ASSUME NEW r \in Requests, Sync(r) PROVE Goal
  BY <1>0, <1>8 DEF Sync
<1>9. ASSUME NEW r \in Requests, SyncLost(r) PROVE Goal
  BY <1>0, <1>9 DEF SyncLost
<1>10. ASSUME NEW r \in Requests, Abort(r) PROVE Goal
  BY <1>0, <1>10 DEF Abort, InTransaction, Synced
<1>11. ASSUME NEW r \in Requests, Commit(r) PROVE Goal
  BY <1>0, <1>11 DEF Commit, Commits, EndOf
<1>12. ASSUME NEW r \in Requests, Send(r) PROVE Goal
  BY <1>0, <1>12 DEF Send
<1>13. ASSUME NEW r \in Requests, SendFails(r) PROVE Goal
  BY <1>0, <1>13 DEF SendFails
<1>14. ASSUME NEW r \in Requests, NEW n \in Names, LoadBySub(r, n) PROVE Goal
  <2>1. [doc EXCEPT !.name = n] \in Documents
    BY <1>0 DEF Documents
  <2> QED BY <1>0, <1>14, <2>1 DEF LoadBySub, Runs
<1>15. ASSUME NEW r \in Requests, SaveBySub(r) PROVE Goal
  BY <1>0, <1>15 DEF SaveBySub, EndOf
<1>16. ASSUME NEW r \in Requests, FindHome(r) PROVE Goal
  BY <1>0, <1>16 DEF FindHome, Follows
<1>17. ASSUME NEW r \in Requests, RenameHome(r) PROVE Goal
  BY <1>0, <1>17 DEF RenameHome
<1>18. ASSUME NEW r \in Requests, StopBySub(r) PROVE Goal
  BY <1>0, <1>18 DEF StopBySub
<1>19. CASE Tick
  BY <1>0, <1>19 DEF Tick
<1>20. CASE UNCHANGED vars
  BY <1>0, <1>20 DEF vars
<1> QED BY <1>1, <1>2, <1>3, <1>4, <1>5, <1>6, <1>7, <1>8, <1>9, <1>10, <1>11, <1>12, <1>13,
           <1>14, <1>15, <1>16, <1>17, <1>18, <1>19, <1>20 DEF Next

\* Base: who is not overtaken has read what is stored.
LEMMA BaseStep ==
    ASSUME Transactions = "snapshot"
    PROVE  CredentialsInv /\ [Next]_vars => \A s \in Requests : Base(s)'
<1> SUFFICES ASSUME CredentialsInv, [Next]_vars PROVE \A s \in Requests : Base(s)'
  OBVIOUS
<1> DEFINE Goal == \A s \in Requests : Base(s)'
<1>0. TypeOK /\ TokenInv /\ LatestInv /\ ProviderInv /\ HomeInv
      /\ \A s \in Requests : PlaceInv(s) /\ Base(s) /\ CheckedInv(s) /\ UpdateInv(s)
  BY DEF CredentialsInv, FormInv
<1> USE CredentialsAssumption
<1> USE DEF TypeOK, Idle, Over, PlaceInv, Base, Deciding, Own, Fields, Documents, Operations
<1>1. ASSUME NEW r \in Requests, Logout(r) PROVE Goal
  BY <1>0, <1>1 DEF Logout, Begin
<1>2. ASSUME NEW r \in Requests, RemoveMyAuth(r) PROVE Goal
  BY <1>0, <1>2 DEF RemoveMyAuth, Begin
<1>3. ASSUME NEW r \in Requests, NEW t \in Tokens, VerifyUser(r, t) PROVE Goal
  BY <1>0, <1>3 DEF VerifyUser, Begin
<1>4. ASSUME NEW r \in Requests, NEW t \in Tokens, CreateVerification(r, t) PROVE Goal
  <2>1. \A f \in Fields \ {"verified", "code"} : [doc EXCEPT !.code = New(t), !.verified = FALSE][f] = doc[f]
    BY <1>0
  <2> HIDE DEF Fields, Documents
  <2> QED BY <1>0, <1>4, <2>1 DEF CreateVerification, Begin
<1>5. ASSUME NEW r \in Requests, NEW t \in Tokens, StartPasswordReset(r, t) PROVE Goal
  BY <1>0, <1>5 DEF StartPasswordReset, Begin, Draw, New
<1>6. ASSUME NEW r \in Requests, NEW t \in Tokens, NEW p \in Passwords, PasswordReset(r, t, p) PROVE Goal
  <2>1. \A f \in Fields \ {"password", "reset"} : [doc EXCEPT !.password = p, !.reset = None][f] = doc[f]
    BY <1>0
  <2> HIDE DEF Fields, Documents
  <2> QED BY <1>0, <1>6, <2>1 DEF PasswordReset, Begin
<1>7. ASSUME NEW r \in Requests, NEW n \in Names \cup {None}, NEW p \in Passwords \cup {None}, UpdateMe(r, n, p) PROVE Goal
  <2>1. doc' = doc
    BY <1>7 DEF UpdateMe
  <2> HIDE DEF Fields, Documents
  <2> QED BY <1>0, <1>7, <2>1, UpdateTyped
<1>8. ASSUME NEW r \in Requests, Sync(r) PROVE Goal
  BY <1>0, <1>8 DEF Sync
<1>9. ASSUME NEW r \in Requests, SyncLost(r) PROVE Goal
  BY <1>0, <1>9 DEF SyncLost
<1>10. ASSUME NEW r \in Requests, Abort(r) PROVE Goal
  BY <1>0, <1>10 DEF Abort, InTransaction, Synced
<1>11. ASSUME NEW r \in Requests, Commit(r) PROVE Goal
  <2>1. Committed(r).pc \in {"mail", "over"} /\ Committed(r).op # "updateMe"
    BY DEF Committed
  <2>2. req'[r] = Committed(r)
    BY <1>0, <1>11, AfterCommit
  <2>3. \A s \in Requests \ {r} :
          Same(s) /\ req'[s].stale = (req[s].pc \notin {"idle", "over"})
    BY <1>0, <1>11, AfterCommit
  <2> HIDE DEF Fields, Documents
  <2>4. ASSUME NEW s \in Requests, s = r PROVE Base(s)'
    BY <1>0, <2>1, <2>2, <2>4
  <2>5. ASSUME NEW s \in Requests, s # r PROVE Base(s)'
    BY <1>0, <2>1, <2>3, <2>5 DEF Same
  <2> QED BY <2>4, <2>5
<1>12. ASSUME NEW r \in Requests, Send(r) PROVE Goal
  BY <1>0, <1>12 DEF Send
<1>13. ASSUME NEW r \in Requests, SendFails(r) PROVE Goal
  BY <1>0, <1>13 DEF SendFails
<1>14. ASSUME NEW r \in Requests, NEW n \in Names, LoadBySub(r, n) PROVE Goal
  BY <1>0, <1>14 DEF LoadBySub, Runs
<1>15. ASSUME NEW r \in Requests, SaveBySub(r) PROVE Goal
  <2>1. req[r].op = "updateUserBySub"
    BY <1>0, <1>15 DEF SaveBySub
  <2>2. req'[r].pc = "find" /\ req'[r].op = req[r].op
    BY <1>0, <1>15, AfterSave
  <2>3. \A s \in Requests \ {r} :
          Same(s) /\ req'[s].stale = (req[s].pc \notin {"idle", "over"})
    BY <1>0, <1>15, AfterSave
  <2> HIDE DEF Fields, Documents
  <2>4. ASSUME NEW s \in Requests, s = r PROVE Base(s)'
    BY <1>0, <2>1, <2>2, <2>4
  <2>5. ASSUME NEW s \in Requests, s # r PROVE Base(s)'
    BY <1>0, <2>1, <2>3, <2>5 DEF Same
  <2> QED BY <2>4, <2>5
<1>16. ASSUME NEW r \in Requests, FindHome(r) PROVE Goal
  BY <1>0, <1>16 DEF FindHome, Follows
<1>17. ASSUME NEW r \in Requests, RenameHome(r) PROVE Goal
  <2>1. doc' = doc
    BY <1>17 DEF RenameHome
  <2>2. req'[r] = Over
    BY <1>0, <1>17, AfterRename
  <2>3. \A s \in Requests \ {r} :
          Same(s) /\ (~req'[s].stale => ~req[s].stale /\ req[s].op # "updateMe")
    BY <1>0, <1>17, AfterRename
  <2> HIDE DEF Fields, Documents
  <2>4. ASSUME NEW s \in Requests, s = r PROVE Base(s)'
    BY <1>0, <2>1, <2>2, <2>4
  <2>5. ASSUME NEW s \in Requests, s # r PROVE Base(s)'
    BY <1>0, <2>1, <2>3, <2>5 DEF Same
  <2> QED BY <2>4, <2>5
<1>18. ASSUME NEW r \in Requests, StopBySub(r) PROVE Goal
  BY <1>0, <1>18 DEF StopBySub
<1>19. CASE Tick
  BY <1>0, <1>19 DEF Tick
<1>20. CASE UNCHANGED vars
  BY <1>0, <1>20 DEF vars
<1> QED BY <1>1, <1>2, <1>3, <1>4, <1>5, <1>6, <1>7, <1>8, <1>9, <1>10, <1>11, <1>12, <1>13,
           <1>14, <1>15, <1>16, <1>17, <1>18, <1>19, <1>20 DEF Next

\* CheckedInv and UpdateInv: what has been checked still holds.
LEMMA CheckedStep ==
    ASSUME Transactions = "snapshot"
    PROVE  CredentialsInv /\ [Next]_vars => \A s \in Requests : CheckedInv(s)' /\ UpdateInv(s)'
<1> SUFFICES ASSUME CredentialsInv, [Next]_vars PROVE \A s \in Requests : CheckedInv(s)' /\ UpdateInv(s)'
  OBVIOUS
<1> DEFINE Goal == \A s \in Requests : CheckedInv(s)' /\ UpdateInv(s)'
<1>0. TypeOK /\ TokenInv /\ LatestInv /\ ProviderInv /\ HomeInv
      /\ \A s \in Requests : PlaceInv(s) /\ Base(s) /\ CheckedInv(s) /\ UpdateInv(s)
  BY DEF CredentialsInv, FormInv
<1> USE CredentialsAssumption
<1> USE DEF TypeOK, Idle, Over, PlaceInv, CheckedInv, UpdateInv, Documents, Operations
<1>1. ASSUME NEW r \in Requests, Logout(r) PROVE Goal
  BY <1>0, <1>1 DEF Logout, Begin
<1>2. ASSUME NEW r \in Requests, RemoveMyAuth(r) PROVE Goal
  BY <1>0, <1>2 DEF RemoveMyAuth, Begin
<1>3. ASSUME NEW r \in Requests, NEW t \in Tokens, VerifyUser(r, t) PROVE Goal
  BY <1>0, <1>3 DEF VerifyUser, Begin
<1>4. ASSUME NEW r \in Requests, NEW t \in Tokens, CreateVerification(r, t) PROVE Goal
  BY <1>0, <1>4 DEF CreateVerification, Begin, Draw, New
<1>5. ASSUME NEW r \in Requests, NEW t \in Tokens, StartPasswordReset(r, t) PROVE Goal
  BY <1>0, <1>5 DEF StartPasswordReset, Begin, Draw, New
<1>6. ASSUME NEW r \in Requests, NEW t \in Tokens, NEW p \in Passwords, PasswordReset(r, t, p) PROVE Goal
  BY <1>0, <1>6 DEF PasswordReset, Begin
<1>7. ASSUME NEW r \in Requests, NEW n \in Names \cup {None}, NEW p \in Passwords \cup {None}, UpdateMe(r, n, p) PROVE Goal
  BY <1>0, <1>7 DEF UpdateMe, Runs, Follows
<1>8. ASSUME NEW r \in Requests, Sync(r) PROVE Goal
  BY <1>0, <1>8 DEF Sync
<1>9. ASSUME NEW r \in Requests, SyncLost(r) PROVE Goal
  BY <1>0, <1>9 DEF SyncLost
<1>10. ASSUME NEW r \in Requests, Abort(r) PROVE Goal
  BY <1>0, <1>10 DEF Abort, InTransaction, Synced
<1>11. ASSUME NEW r \in Requests, Commit(r) PROVE Goal
  <2>1. Committed(r).pc \in {"mail", "over"} /\ Committed(r).op # "updateMe"
    BY DEF Committed
  <2>2. req'[r] = Committed(r)
    BY <1>0, <1>11, AfterCommit
  <2>3. \A s \in Requests \ {r} :
          Same(s) /\ req'[s].stale = (req[s].pc \notin {"idle", "over"})
    BY <1>0, <1>11, AfterCommit
  <2> HIDE DEF Documents
  <2>4. ASSUME NEW s \in Requests, s = r PROVE CheckedInv(s)' /\ UpdateInv(s)'
    BY <1>0, <2>1, <2>2, <2>4
  <2>5. ASSUME NEW s \in Requests, s # r PROVE CheckedInv(s)' /\ UpdateInv(s)'
    <3>1. /\ req'[s].pc = req[s].pc /\ req'[s].op = req[s].op
          /\ req'[s].stale = (req[s].pc \notin {"idle", "over"})
      BY <2>3, <2>5 DEF Same
    <3>2. req[s].pc = "read" => req'[s].stale
      BY <3>1
    <3>3. req[s].op = "updateMe" => req'[s].stale
      BY <1>0, <3>1, CredentialsAssumption
    <3> QED BY <3>1, <3>2, <3>3
  <2> QED BY <2>4, <2>5
<1>12. ASSUME NEW r \in Requests, Send(r) PROVE Goal
  BY <1>0, <1>12 DEF Send
<1>13. ASSUME NEW r \in Requests, SendFails(r) PROVE Goal
  BY <1>0, <1>13 DEF SendFails
<1>14. ASSUME NEW r \in Requests, NEW n \in Names, LoadBySub(r, n) PROVE Goal
  BY <1>0, <1>14 DEF LoadBySub, Runs
<1>15. ASSUME NEW r \in Requests, SaveBySub(r) PROVE Goal
  <2>1. req[r].op = "updateUserBySub"
    BY <1>0, <1>15 DEF SaveBySub
  <2>2. req'[r].pc = "find" /\ req'[r].op = req[r].op
    BY <1>0, <1>15, AfterSave
  <2>3. \A s \in Requests \ {r} :
          Same(s) /\ req'[s].stale = (req[s].pc \notin {"idle", "over"})
    BY <1>0, <1>15, AfterSave
  <2> HIDE DEF Documents
  <2>4. ASSUME NEW s \in Requests, s = r PROVE CheckedInv(s)' /\ UpdateInv(s)'
    BY <1>0, <2>1, <2>2, <2>4
  <2>5. ASSUME NEW s \in Requests, s # r PROVE CheckedInv(s)' /\ UpdateInv(s)'
    <3>1. /\ req'[s].pc = req[s].pc /\ req'[s].op = req[s].op
          /\ req'[s].stale = (req[s].pc \notin {"idle", "over"})
      BY <2>3, <2>5 DEF Same
    <3>2. req[s].pc = "read" => req'[s].stale
      BY <3>1
    <3>3. req[s].op = "updateMe" => req'[s].stale
      BY <1>0, <3>1, CredentialsAssumption
    <3> QED BY <3>1, <3>2, <3>3
  <2> QED BY <2>4, <2>5
<1>16. ASSUME NEW r \in Requests, FindHome(r) PROVE Goal
  BY <1>0, <1>16 DEF FindHome, Follows
<1>17. ASSUME NEW r \in Requests, RenameHome(r) PROVE Goal
  <2>1. doc' = doc
    BY <1>17 DEF RenameHome
  <2>2. req'[r] = Over
    BY <1>0, <1>17, AfterRename
  <2>3. \A s \in Requests \ {r} :
          Same(s) /\ (~req'[s].stale => ~req[s].stale /\ req[s].op # "updateMe")
    BY <1>0, <1>17, AfterRename
  <2> HIDE DEF Documents
  <2>4. ASSUME NEW s \in Requests, s = r PROVE CheckedInv(s)' /\ UpdateInv(s)'
    BY <1>0, <2>1, <2>2, <2>4
  <2>5. ASSUME NEW s \in Requests, s # r PROVE CheckedInv(s)' /\ UpdateInv(s)'
    BY <1>0, <2>1, <2>3, <2>5 DEF Same
  <2> QED BY <2>4, <2>5
<1>18. ASSUME NEW r \in Requests, StopBySub(r) PROVE Goal
  BY <1>0, <1>18 DEF StopBySub
<1>19. CASE Tick
  BY <1>0, <1>19 DEF Tick
<1>20. CASE UNCHANGED vars
  BY <1>0, <1>20 DEF vars
<1> QED BY <1>1, <1>2, <1>3, <1>4, <1>5, <1>6, <1>7, <1>8, <1>9, <1>10, <1>11, <1>12, <1>13,
           <1>14, <1>15, <1>16, <1>17, <1>18, <1>19, <1>20 DEF Next

\* TokenInv: tokens are drawn once, and the stored one is the last.
LEMMA TokenStep == FormInv /\ [Next]_vars => TokenInv'
<1> SUFFICES ASSUME FormInv, [Next]_vars PROVE TokenInv'
  OBVIOUS
<1> DEFINE Goal == TokenInv'
<1>0. TypeOK /\ TokenInv /\ \A s \in Requests : PlaceInv(s)
  BY DEF FormInv
<1> USE CredentialsAssumption
<1> USE DEF TypeOK, Idle, Over, PlaceInv, TokenInv, Deciding, Operations, world, history
<1>1. ASSUME NEW r \in Requests, Logout(r) PROVE Goal
  BY <1>0, <1>1 DEF Logout, Begin
<1>2. ASSUME NEW r \in Requests, RemoveMyAuth(r) PROVE Goal
  BY <1>0, <1>2 DEF RemoveMyAuth, Begin
<1>3. ASSUME NEW r \in Requests, NEW t \in Tokens, VerifyUser(r, t) PROVE Goal
  BY <1>0, <1>3 DEF VerifyUser, Begin
<1>4. ASSUME NEW r \in Requests, NEW t \in Tokens, CreateVerification(r, t) PROVE Goal
  BY <1>0, <1>4 DEF CreateVerification, Begin, Draw, New
<1>5. ASSUME NEW r \in Requests, NEW t \in Tokens, StartPasswordReset(r, t) PROVE Goal
  <2> DEFINE d == [doc EXCEPT !.reset = New(t)]
  <2>1. \A s \in Requests : req[s].op = "startPasswordReset" => req[s].token \in drawn
    BY <1>0 DEF Request
  <2>2. d.reset # None /\ d.reset.token = t
    <3>1. New(t) # None
      BY <1>0, NewTyped DEF Drawn
    <3> QED BY <1>0, <3>1 DEF Documents, New
  <2>3. Begin(r, "startPasswordReset", d, t) /\ t \notin drawn /\ drawn' = drawn \cup {t}
    BY <1>5 DEF StartPasswordReset, Draw
  <2> HIDE DEF d
  <2> QED BY <1>0, <2>1, <2>2, <2>3 DEF Begin
<1>6. ASSUME NEW r \in Requests, NEW t \in Tokens, NEW p \in Passwords, PasswordReset(r, t, p) PROVE Goal
  BY <1>0, <1>6 DEF PasswordReset, Begin
<1>7. ASSUME NEW r \in Requests, NEW n \in Names \cup {None}, NEW p \in Passwords \cup {None}, UpdateMe(r, n, p) PROVE Goal
  BY <1>0, <1>7 DEF UpdateMe, Runs, Follows
<1>8. ASSUME NEW r \in Requests, Sync(r) PROVE Goal
  BY <1>0, <1>8 DEF Sync
<1>9. ASSUME NEW r \in Requests, SyncLost(r) PROVE Goal
  BY <1>0, <1>9 DEF SyncLost
<1>10. ASSUME NEW r \in Requests, Abort(r) PROVE Goal
  BY <1>0, <1>10 DEF Abort, InTransaction, Synced
<1>11. ASSUME NEW r \in Requests, Commit(r) PROVE Goal
  <2>1. req'[r] = Committed(r)
    BY <1>0, <1>11, AfterCommit
  <2>2. \A s \in Requests \ {r} :
          Same(s) /\ req'[s].stale = (req[s].pc \notin {"idle", "over"})
    BY <1>0, <1>11, AfterCommit
  <2>3. req[r].pc = "read" /\ doc' = req[r].doc
    BY <1>11 DEF Commit, Commits
  <2>4. CASE req[r].op = "startPasswordReset"
    <3>1. /\ issued' = issued \cup {req[r].token} /\ latest' = req[r].token /\ spent' = spent
          /\ drawn' = drawn /\ mailed' = mailed
      BY <1>11, <2>4 DEF Commit
    <3>2. req'[r].pc = "mail" /\ req'[r].op = req[r].op /\ req'[r].token = req[r].token
      BY <2>1, <2>4 DEF Committed
    <3> QED BY <1>0, <2>2, <2>3, <2>4, <3>1, <3>2 DEF Same
  <2>5. CASE req[r].op # "startPasswordReset"
    <3>1. /\ issued' = issued /\ latest' = latest /\ drawn' = drawn /\ mailed' = mailed
          /\ spent' = spent \cup IF req[r].op = "passwordReset" THEN {req[r].token} ELSE {}
      BY <1>11, <2>5 DEF Commit
    <3>2. req'[r].op = None /\ req'[r].pc = "over"
      BY <2>1, <2>5 DEF Committed
    <3>3. doc'.reset # None => doc'.reset.token \in issued
      BY <1>0, <2>3, <2>5
    <3>4. \A s \in Requests :
            Deciding(s)' /\ req'[s].op # "startPasswordReset" /\ req'[s].doc.reset # None =>
              req'[s].doc.reset.token \in issued'
      BY <1>0, <2>2, <3>1, <3>2 DEF Same
    <3>5. spent' \subseteq issued'
      BY <1>0, <3>1
    <3>6. \A s \in Requests : req'[s].op = "passwordReset" => req'[s].token \in issued'
      BY <1>0, <2>2, <3>1, <3>2 DEF Same
    <3> HIDE DEF Deciding
    <3> QED BY <1>0, <2>2, <2>3, <3>1, <3>2, <3>3, <3>4, <3>5, <3>6 DEF Same
  <2> QED BY <2>4, <2>5
<1>12. ASSUME NEW r \in Requests, Send(r) PROVE Goal
  BY <1>0, <1>12 DEF Send
<1>13. ASSUME NEW r \in Requests, SendFails(r) PROVE Goal
  BY <1>0, <1>13 DEF SendFails
<1>14. ASSUME NEW r \in Requests, NEW n \in Names, LoadBySub(r, n) PROVE Goal
  BY <1>0, <1>14 DEF LoadBySub, Runs
<1>15. ASSUME NEW r \in Requests, SaveBySub(r) PROVE Goal
  <2>1. req[r].op = "updateUserBySub" /\ req[r].pc = "save"
    BY <1>0, <1>15 DEF SaveBySub
  <2>2. req'[r].pc = "find" /\ req'[r].op = req[r].op
    BY <1>0, <1>15, AfterSave
  <2>3. \A s \in Requests \ {r} :
          Same(s) /\ req'[s].stale = (req[s].pc \notin {"idle", "over"})
    BY <1>0, <1>15, AfterSave
  <2>4. UNCHANGED <<drawn, mailed, issued, latest, spent>>
    BY <1>15 DEF SaveBySub
  <2>6. req'[r].doc = req[r].doc /\ doc' = req[r].doc
    BY <1>0, <1>15, AfterSave DEF SaveBySub
  <2>7. doc'.reset # None => doc'.reset.token \in issued
    BY <1>0, <2>1, <2>6
  <2>8. \A s \in Requests :
          Deciding(s)' /\ req'[s].op # "startPasswordReset" /\ req'[s].doc.reset # None =>
            req'[s].doc.reset.token \in issued
    BY <1>0, <2>2, <2>3 DEF Same
  <2> HIDE DEF Deciding
  <2> QED BY <1>0, <2>1, <2>2, <2>3, <2>4, <2>7, <2>8 DEF Same
<1>16. ASSUME NEW r \in Requests, FindHome(r) PROVE Goal
  BY <1>0, <1>16 DEF FindHome, Follows
<1>17. ASSUME NEW r \in Requests, RenameHome(r) PROVE Goal
  BY <1>0, <1>17 DEF RenameHome
<1>18. ASSUME NEW r \in Requests, StopBySub(r) PROVE Goal
  BY <1>0, <1>18 DEF StopBySub
<1>19. CASE Tick
  BY <1>0, <1>19 DEF Tick
<1>20. CASE UNCHANGED vars
  BY <1>0, <1>20 DEF vars
<1> QED BY <1>1, <1>2, <1>3, <1>4, <1>5, <1>6, <1>7, <1>8, <1>9, <1>10, <1>11, <1>12, <1>13,
           <1>14, <1>15, <1>16, <1>17, <1>18, <1>19, <1>20 DEF Next

\* Only these two steps write the document, and what has become of tokens.
LEMMA Writers ==
    [Next]_vars => \/ doc' = doc /\ UNCHANGED history /\ off \subseteq off'
                   \/ \E r \in Requests : Commit(r)
                   \/ \E r \in Requests : SaveBySub(r)
<1> SUFFICES ASSUME [Next]_vars
             PROVE  \/ doc' = doc /\ UNCHANGED history /\ off \subseteq off'
                    \/ \E r \in Requests : Commit(r)
                    \/ \E r \in Requests : SaveBySub(r)
  OBVIOUS
<1> DEFINE Goal == \/ doc' = doc /\ UNCHANGED history /\ off \subseteq off'
                   \/ \E r \in Requests : Commit(r)
                   \/ \E r \in Requests : SaveBySub(r)
<1>1. ASSUME NEW r \in Requests, NEW op, NEW d, NEW t, Begin(r, op, d, t) PROVE Goal
  BY <1>1 DEF Begin
<1>2. ASSUME NEW r \in Requests, Logout(r) \/ RemoveMyAuth(r) PROVE Goal
  BY <1>1, <1>2 DEF Logout, RemoveMyAuth
<1>3. ASSUME NEW r \in Requests, NEW t \in Tokens,
             VerifyUser(r, t) \/ CreateVerification(r, t) \/ StartPasswordReset(r, t)
      PROVE  Goal
  BY <1>1, <1>3 DEF VerifyUser, CreateVerification, StartPasswordReset
<1>4. ASSUME NEW r \in Requests, NEW t \in Tokens, NEW p \in Passwords, PasswordReset(r, t, p)
      PROVE  Goal
  BY <1>1, <1>4 DEF PasswordReset
<1>5. ASSUME NEW r \in Requests, NEW n \in Names \cup {None}, NEW p \in Passwords \cup {None},
             UpdateMe(r, n, p)
      PROVE  Goal
  BY <1>5 DEF UpdateMe
<1>6. ASSUME NEW r \in Requests,
             Sync(r) \/ SyncLost(r) \/ Abort(r) \/ Send(r) \/ SendFails(r)
      PROVE  Goal
  BY <1>6 DEF Sync, SyncLost, Abort, Send, SendFails
<1>7. ASSUME NEW r \in Requests, NEW n \in Names, LoadBySub(r, n) PROVE Goal
  BY <1>7 DEF LoadBySub
<1>8. ASSUME NEW r \in Requests, FindHome(r) \/ RenameHome(r) \/ StopBySub(r) PROVE Goal
  BY <1>8 DEF FindHome, RenameHome, StopBySub
<1>9. CASE Tick \/ UNCHANGED vars
  BY <1>9 DEF Tick, vars
<1>10. ASSUME NEW r \in Requests, Commit(r) \/ SaveBySub(r) PROVE Goal
  BY <1>10
<1> QED BY <1>2, <1>3, <1>4, <1>5, <1>6, <1>7, <1>8, <1>9, <1>10 DEF Next

\* LatestInv: which token is stored.
LEMMA LatestStep ==
    ASSUME Transactions = "snapshot"
    PROVE  CredentialsInv /\ [Next]_vars => LatestInv'
<1> SUFFICES ASSUME CredentialsInv, [Next]_vars PROVE LatestInv'
  OBVIOUS
<1>0. TypeOK /\ LatestInv /\ \A s \in Requests : PlaceInv(s) /\ Base(s) /\ CheckedInv(s)
      /\ TokenInv
  BY DEF CredentialsInv, FormInv
<1>1. ASSUME NEW r \in Requests, Commit(r) PROVE LatestInv'
  <2>1. req[r].pc = "read" /\ ~req[r].stale /\ doc' = req[r].doc /\ off' = off
    BY <1>1 DEF Commit, Commits
  <2>2. CASE req[r].op = "startPasswordReset"
    <3>1. latest' = req[r].token /\ spent' = spent
      BY <1>1, <2>2 DEF Commit
    <3>2. doc'.reset.token = req[r].token /\ req[r].token \notin issued
      BY <1>0, <2>1, <2>2 DEF TokenInv
    <3>3. spent \subseteq issued
      BY <1>0 DEF TokenInv
    <3> QED BY <3>1, <3>2, <3>3 DEF LatestInv
  <2>3. CASE req[r].op = "passwordReset"
    <3>1. doc'.reset = None
      BY <1>0, <2>1, <2>3 DEF CheckedInv
    <3> QED BY <3>1 DEF LatestInv
  <2>4. CASE req[r].op \notin {"startPasswordReset", "passwordReset"}
    <3>1. latest' = latest /\ spent' = spent
      BY <1>1, <2>4 DEF Commit
    <3>2. "reset" \in Fields \ Own[req[r].op]
      BY <1>0, <2>1, <2>4, CredentialsAssumption
         DEF TypeOK, Request, PlaceInv, Operations, Fields, Own
    <3>3. doc'.reset = doc.reset
      BY <1>0, <2>1, <3>2 DEF Base, Deciding
    <3> QED BY <1>0, <2>1, <3>1, <3>3 DEF LatestInv
  <2> QED BY <2>2, <2>3, <2>4
<1>2. ASSUME NEW r \in Requests, SaveBySub(r) PROVE LatestInv'
  <2>1. UNCHANGED <<latest, spent>> /\ req[r].op = "updateUserBySub" /\ req[r].pc = "save"
    BY <1>0, <1>2 DEF SaveBySub, PlaceInv, history
  <2>2. ASSUME "doc" \notin off' PROVE "doc" \notin off /\ ~req[r].stale /\ doc' = req[r].doc
    BY <1>2, <2>2 DEF SaveBySub
  <2>3. "reset" \in Fields \ Own[req[r].op]
    BY <2>1 DEF Fields, Own
  <2>4. "doc" \notin off' => doc'.reset = doc.reset
    BY <1>0, <2>1, <2>2, <2>3 DEF Base, Deciding
  <2> QED BY <1>0, <2>1, <2>2, <2>4 DEF LatestInv
<1>3. CASE doc' = doc /\ UNCHANGED history /\ off \subseteq off'
  BY <1>0, <1>3 DEF LatestInv, history
<1> QED BY <1>1, <1>2, <1>3, Writers

\* ProviderInv: what the provider knows.
LEMMA ProviderStep ==
    ASSUME Transactions = "snapshot"
    PROVE  CredentialsInv /\ [Next]_vars => ProviderInv'
<1> SUFFICES ASSUME CredentialsInv, [Next]_vars PROVE ProviderInv'
  OBVIOUS
<1> DEFINE Goal == ProviderInv'
<1>0. TypeOK /\ TokenInv /\ LatestInv /\ ProviderInv /\ HomeInv
      /\ \A s \in Requests : PlaceInv(s) /\ Base(s) /\ CheckedInv(s) /\ UpdateInv(s)
  BY DEF CredentialsInv, FormInv
<1> USE CredentialsAssumption
<1> USE DEF TypeOK, Idle, Over, PlaceInv, ProviderInv, Synced, Operations, world
<1>1. ASSUME NEW r \in Requests, Logout(r) PROVE Goal
  BY <1>0, <1>1 DEF Logout, Begin
<1>2. ASSUME NEW r \in Requests, RemoveMyAuth(r) PROVE Goal
  BY <1>0, <1>2 DEF RemoveMyAuth, Begin
<1>3. ASSUME NEW r \in Requests, NEW t \in Tokens, VerifyUser(r, t) PROVE Goal
  BY <1>0, <1>3 DEF VerifyUser, Begin
<1>4. ASSUME NEW r \in Requests, NEW t \in Tokens, CreateVerification(r, t) PROVE Goal
  BY <1>0, <1>4 DEF CreateVerification, Begin, Draw, New
<1>5. ASSUME NEW r \in Requests, NEW t \in Tokens, StartPasswordReset(r, t) PROVE Goal
  BY <1>0, <1>5 DEF StartPasswordReset, Begin, Draw, New
<1>6. ASSUME NEW r \in Requests, NEW t \in Tokens, NEW p \in Passwords, PasswordReset(r, t, p) PROVE Goal
  BY <1>0, <1>6 DEF PasswordReset, Begin
<1>7. ASSUME NEW r \in Requests, NEW n \in Names \cup {None}, NEW p \in Passwords \cup {None}, UpdateMe(r, n, p) PROVE Goal
  BY <1>0, <1>7 DEF UpdateMe, Runs, Follows
<1>8. ASSUME NEW r \in Requests, Sync(r) PROVE Goal
  BY <1>0, <1>8 DEF Sync
<1>9. ASSUME NEW r \in Requests, SyncLost(r) PROVE Goal
  BY <1>0, <1>9 DEF SyncLost
<1>10. ASSUME NEW r \in Requests, Abort(r) PROVE Goal
  BY <1>0, <1>10 DEF Abort, InTransaction, Synced
<1>11. ASSUME NEW r \in Requests, Commit(r) PROVE Goal
  <2>1. req'[r] = Committed(r)
    BY <1>0, <1>11, AfterCommit
  <2>2. \A s \in Requests \ {r} :
          Same(s) /\ req'[s].stale = (req[s].pc \notin {"idle", "over"})
    BY <1>0, <1>11, AfterCommit
  <2>3. req[r].pc = "read" /\ ~req[r].stale /\ doc' = req[r].doc /\ off' = off
    BY <1>11 DEF Commit, Commits
  <2>4. doc'.name = IF req[r].op = "updateMe" /\ req[r].name # None THEN req[r].name ELSE doc.name
    <3>1. CASE req[r].op = "updateMe"
      BY <1>0, <2>3, <3>1 DEF UpdateInv
    <3>2. CASE req[r].op # "updateMe"
      <4>1. "name" \in Fields \ Own[req[r].op]
        BY <1>0, <2>3, <3>2 DEF Request, Fields, Own
      <4> QED BY <1>0, <2>3, <3>2, <4>1 DEF Base, Deciding
    <3> QED BY <3>1, <3>2
  <2>5. req'[r].pc # "read" /\ UNCHANGED <<linked, idp>>
    BY <1>11, <2>1 DEF Commit, Committed
  <2>6. (\A s \in Requests : ~Synced(s)') /\ linked /\ "idp" \notin off => idp = doc'.name
    BY <1>0, <2>2, <2>3, <2>4 DEF Same
  <2>7. \A s \in Requests : Synced(s)' => req'[s].stale
    BY <2>2, <2>5 DEF Same
  <2> QED BY <2>3, <2>5, <2>6, <2>7
<1>12. ASSUME NEW r \in Requests, Send(r) PROVE Goal
  BY <1>0, <1>12 DEF Send
<1>13. ASSUME NEW r \in Requests, SendFails(r) PROVE Goal
  BY <1>0, <1>13 DEF SendFails
<1>14. ASSUME NEW r \in Requests, NEW n \in Names, LoadBySub(r, n) PROVE Goal
  BY <1>0, <1>14 DEF LoadBySub, Runs
<1>15. ASSUME NEW r \in Requests, SaveBySub(r) PROVE Goal
  BY <1>0, <1>15 DEF SaveBySub, EndOf
<1>16. ASSUME NEW r \in Requests, FindHome(r) PROVE Goal
  BY <1>0, <1>16 DEF FindHome, Follows
<1>17. ASSUME NEW r \in Requests, RenameHome(r) PROVE Goal
  <2>1. UNCHANGED <<doc, idp, linked, off>>
    BY <1>17 DEF RenameHome
  <2>2. req'[r] = Over /\ ~Synced(r)
    BY <1>0, <1>17, AfterRename DEF RenameHome
  <2>3. \A s \in Requests \ {r} :
          Same(s) /\ (~req'[s].stale => ~req[s].stale /\ req[s].op # "updateMe")
    BY <1>0, <1>17, AfterRename
  <2>4. \A s \in Requests : Synced(s)' = Synced(s)
    BY <2>2, <2>3 DEF Same
  <2>5. \A s \in Requests : Synced(s)' => req'[s].stale
    BY <2>2, <2>3 DEF Same
  <2> QED BY <1>0, <2>1, <2>4, <2>5
<1>18. ASSUME NEW r \in Requests, StopBySub(r) PROVE Goal
  BY <1>0, <1>18 DEF StopBySub
<1>19. CASE Tick
  BY <1>0, <1>19 DEF Tick
<1>20. CASE UNCHANGED vars
  BY <1>0, <1>20 DEF vars
<1> QED BY <1>1, <1>2, <1>3, <1>4, <1>5, <1>6, <1>7, <1>8, <1>9, <1>10, <1>11, <1>12, <1>13,
           <1>14, <1>15, <1>16, <1>17, <1>18, <1>19, <1>20 DEF Next

\* HomeInv: the name of the personal workspace.
LEMMA HomeStep ==
    ASSUME Transactions = "snapshot"
    PROVE  CredentialsInv /\ [Next]_vars => HomeInv'
<1> SUFFICES ASSUME CredentialsInv, [Next]_vars PROVE HomeInv'
  OBVIOUS
<1> DEFINE Goal == HomeInv'
<1>0. TypeOK /\ TokenInv /\ LatestInv /\ ProviderInv /\ HomeInv
      /\ \A s \in Requests : PlaceInv(s) /\ Base(s) /\ CheckedInv(s) /\ UpdateInv(s)
  BY DEF CredentialsInv, FormInv
<1> USE CredentialsAssumption
<1> USE DEF TypeOK, Idle, Over, PlaceInv, HomeInv, Operations
<1>1. ASSUME NEW r \in Requests, Logout(r) PROVE Goal
  BY <1>0, <1>1 DEF Logout, Begin
<1>2. ASSUME NEW r \in Requests, RemoveMyAuth(r) PROVE Goal
  BY <1>0, <1>2 DEF RemoveMyAuth, Begin
<1>3. ASSUME NEW r \in Requests, NEW t \in Tokens, VerifyUser(r, t) PROVE Goal
  BY <1>0, <1>3 DEF VerifyUser, Begin
<1>4. ASSUME NEW r \in Requests, NEW t \in Tokens, CreateVerification(r, t) PROVE Goal
  BY <1>0, <1>4 DEF CreateVerification, Begin, Draw, New
<1>5. ASSUME NEW r \in Requests, NEW t \in Tokens, StartPasswordReset(r, t) PROVE Goal
  BY <1>0, <1>5 DEF StartPasswordReset, Begin, Draw, New
<1>6. ASSUME NEW r \in Requests, NEW t \in Tokens, NEW p \in Passwords, PasswordReset(r, t, p) PROVE Goal
  BY <1>0, <1>6 DEF PasswordReset, Begin
<1>7. ASSUME NEW r \in Requests, NEW n \in Names \cup {None}, NEW p \in Passwords \cup {None}, UpdateMe(r, n, p) PROVE Goal
  BY <1>0, <1>7 DEF UpdateMe, Runs, Follows
<1>8. ASSUME NEW r \in Requests, Sync(r) PROVE Goal
  BY <1>0, <1>8 DEF Sync
<1>9. ASSUME NEW r \in Requests, SyncLost(r) PROVE Goal
  BY <1>0, <1>9 DEF SyncLost
<1>10. ASSUME NEW r \in Requests, Abort(r) PROVE Goal
  BY <1>0, <1>10 DEF Abort, InTransaction, Synced
<1>11. ASSUME NEW r \in Requests, Commit(r) PROVE Goal
  <2>1. req'[r] = Committed(r)
    BY <1>0, <1>11, AfterCommit
  <2>2. \A s \in Requests \ {r} :
          Same(s) /\ req'[s].stale = (req[s].pc \notin {"idle", "over"})
    BY <1>0, <1>11, AfterCommit
  <2>3. req[r].pc = "read" /\ ~req[r].stale /\ doc' = req[r].doc /\ off' = off
    BY <1>11 DEF Commit, Commits
  <2>4. doc'.name = IF req[r].op = "updateMe" /\ req[r].name # None THEN req[r].name ELSE doc.name
    <3>1. CASE req[r].op = "updateMe"
      BY <1>0, <2>3, <3>1 DEF UpdateInv
    <3>2. CASE req[r].op # "updateMe"
      <4>1. "name" \in Fields \ Own[req[r].op]
        BY <1>0, <2>3, <3>2 DEF Request, Fields, Own
      <4> QED BY <1>0, <2>3, <3>2, <4>1 DEF Base, Deciding
    <3> QED BY <3>1, <3>2
  <2>5. req'[r].pc \notin {"save", "find", "rename"} /\ req'[r].op \notin {"updateMe", "updateUserBySub"}
    BY <2>1 DEF Committed
  <2>6. home' = IF req[r].op = "updateMe" THEN req[r].home ELSE home
    BY <1>11 DEF Commit
  <2>7. \A s \in Requests \ {r} : req[s].op = "updateMe" => req'[s].stale
    BY <1>0, <2>2
  <2>8. CASE req[r].op = "updateMe"
    <3>1. "home" \notin off => home' = doc'.name
      BY <1>0, <2>3, <2>6, <2>8
    <3>2. "home" \notin off => \A s \in Requests : req'[s].op # "updateUserBySub"
      BY <1>0, <2>2, <2>5, <2>8 DEF Same
    <3> QED BY <1>0, <2>2, <2>3, <2>5, <2>7, <3>1, <3>2 DEF Same
  <2>9. CASE req[r].op # "updateMe"
    <3>1. home' = home /\ doc'.name = doc.name
      BY <2>4, <2>6, <2>9
    <3> QED BY <1>0, <2>2, <2>3, <2>5, <2>7, <3>1 DEF Same
  <2> QED BY <2>8, <2>9
<1>12. ASSUME NEW r \in Requests, Send(r) PROVE Goal
  BY <1>0, <1>12 DEF Send
<1>13. ASSUME NEW r \in Requests, SendFails(r) PROVE Goal
  BY <1>0, <1>13 DEF SendFails
<1>14. ASSUME NEW r \in Requests, NEW n \in Names, LoadBySub(r, n) PROVE Goal
  BY <1>0, <1>14 DEF LoadBySub, Runs
<1>15. ASSUME NEW r \in Requests, SaveBySub(r) PROVE Goal
  BY <1>0, <1>15 DEF SaveBySub, EndOf
<1>16. ASSUME NEW r \in Requests, FindHome(r) PROVE Goal
  BY <1>0, <1>16 DEF FindHome, Follows
<1>17. ASSUME NEW r \in Requests, RenameHome(r) PROVE Goal
  BY <1>0, <1>17 DEF RenameHome
<1>18. ASSUME NEW r \in Requests, StopBySub(r) PROVE Goal
  BY <1>0, <1>18 DEF StopBySub
<1>19. CASE Tick
  BY <1>0, <1>19 DEF Tick
<1>20. CASE UNCHANGED vars
  BY <1>0, <1>20 DEF vars
<1> QED BY <1>1, <1>2, <1>3, <1>4, <1>5, <1>6, <1>7, <1>8, <1>9, <1>10, <1>11, <1>12, <1>13,
           <1>14, <1>15, <1>16, <1>17, <1>18, <1>19, <1>20 DEF Next

LEMMA InvInit == Init => CredentialsInv
<1> SUFFICES ASSUME Init PROVE CredentialsInv
  OBVIOUS
<1>1. PICK n \in Names, p \in Passwords, c \in Tokens, t \in Tokens \cup {None}, ps \in Providers :
        /\ t # c
        /\ doc = [name |-> n, password |-> p,
                  reset |-> IF t = None THEN None ELSE [token |-> t, until |-> Lifetime],
                  code |-> [token |-> c, until |-> Lifetime],
                  verified |-> FALSE, reearth |-> "reearth" \in ps, out |-> 0]
        /\ home = n /\ idp = n
        /\ linked = ("auth0" \in ps)
        /\ drawn = {c, t} \ {None}
        /\ mailed = {t} \ {None} /\ issued = {t} \ {None} /\ latest = t
  BY DEF Init
<1>2. now = 0 /\ spent = {} /\ off = {} /\ req = [r \in Requests |-> Idle]
  BY DEF Init
<1>3. doc \in Documents
  <2>1. [token |-> c, until |-> Lifetime] \in Drawn
    BY CredentialsAssumption DEF Drawn
  <2>2. doc.reset \in Drawn \cup {None} /\ doc.code \in Drawn
    BY <1>1, <2>1, CredentialsAssumption DEF Drawn
  <2> QED BY <1>1, <2>2 DEF Documents
<1>4. \A r \in Requests : req[r] = Idle /\ req[r] \in Request
  BY <1>2, OverTyped
<1>5. \A r \in Requests : req[r].pc = "idle" /\ req[r].op = None /\ req[r].stale = FALSE
  <2>1. Idle.pc = "idle" /\ Idle.op = None /\ Idle.stale = FALSE
    BY DEF Idle
  <2> QED BY <1>2, <2>1
<1>6. TypeOK
  BY <1>1, <1>2, <1>3, <1>4, CredentialsAssumption DEF TypeOK
<1>7. TokenInv /\ LatestInv
  <2>2. \A r \in Requests : req[r].op \notin {"startPasswordReset", "passwordReset"}
    BY <1>5, CredentialsAssumption DEF Operations
  <2>3. doc.reset # None => doc.reset.token = t /\ t # None
    BY <1>1
  <2> QED BY <1>1, <1>2, <1>5, <2>2, <2>3 DEF TokenInv, LatestInv, Deciding
<1>8. ProviderInv /\ HomeInv
  BY <1>1, <1>4, CredentialsAssumption DEF ProviderInv, HomeInv, Synced, Idle, Operations
<1>9. \A r \in Requests : PlaceInv(r) /\ Base(r) /\ CheckedInv(r) /\ UpdateInv(r)
  BY <1>5, CredentialsAssumption
  DEF PlaceInv, Base, CheckedInv, UpdateInv, Deciding, Operations
<1> QED BY <1>6, <1>7, <1>8, <1>9 DEF CredentialsInv, FormInv

LEMMA FormStep == FormInv /\ [Next]_vars => FormInv'
BY TypeStep, TokenStep, PlaceStep DEF FormInv

LEMMA InvStep ==
    ASSUME Transactions = "snapshot"
    PROVE  CredentialsInv /\ [Next]_vars => CredentialsInv'
<1> SUFFICES ASSUME CredentialsInv, [Next]_vars PROVE CredentialsInv'
  OBVIOUS
<1>1. FormInv'
  BY FormStep DEF CredentialsInv
<1>2. \A s \in Requests : Base(s)'
  BY BaseStep
<1>3. \A s \in Requests : CheckedInv(s)' /\ UpdateInv(s)'
  BY CheckedStep
<1>4. LatestInv' /\ ProviderInv' /\ HomeInv'
  BY LatestStep, ProviderStep, HomeStep
<1> QED BY <1>1, <1>2, <1>3, <1>4 DEF CredentialsInv

\* Requests and tokens are in order under either kind of transactions.
LEMMA FormInvAlways == Spec => []FormInv
<1>1. Init => FormInv
  BY InvInit DEF CredentialsInv
<1> QED BY <1>1, FormStep, PTL DEF Spec

\* The inductive invariant of snapshot transactions holds in every state.
THEOREM CredentialsInvAlways ==
  ASSUME Transactions = "snapshot"
  PROVE  Spec => []CredentialsInv
<1>1. CredentialsInv /\ [Next]_vars => CredentialsInv'
  BY InvStep
<1> QED BY <1>1, InvInit, PTL DEF Spec

\* The variables keep their types, whatever the transactions are.
THEOREM TypesKept == Spec => []TypeOK
<1>1. FormInv => TypeOK
  BY DEF FormInv
<1> QED BY <1>1, FormInvAlways, PTL

\* A token is mailed only after it has been stored, whatever the transactions
\* are: the mail follows the commit.
THEOREM MailedAfterStored == Spec => []MailedIsStored
<1>1. FormInv => MailedIsStored
  BY DEF FormInv, TokenInv, MailedIsStored
<1> QED BY <1>1, FormInvAlways, PTL

\* Under snapshot transactions the provider's name and the database's agree
\* while no UpdateMe is between the two, unless one has failed there or
\* UpdateUserBySub has renamed.
THEOREM ProviderAgrees ==
  ASSUME Transactions = "snapshot"
  PROVE  Spec => []NamesAgree
<1>1. CredentialsInv => NamesAgree
  BY DEF CredentialsInv, ProviderInv, NamesAgree
<1>2. Spec => []CredentialsInv
  BY CredentialsInvAlways
<1> QED BY <1>1, <1>2, PTL

\* Under snapshot transactions the personal workspace keeps the user's name,
\* UpdateUserBySub apart.
THEOREM HomeKeepsName ==
  ASSUME Transactions = "snapshot"
  PROVE  Spec => []HomeFollows
<1>1. CredentialsInv => HomeFollows
  BY DEF CredentialsInv, HomeInv, HomeFollows
<1>2. Spec => []CredentialsInv
  BY CredentialsInvAlways
<1> QED BY <1>1, <1>2, PTL

-----------------------------------------------------------------------------
\* When a request has read and then is not there any more, and the document has
\* been written, it is the one that has written it.
LEMMA OwnCommit ==
    ASSUME CredentialsInv, [Next]_vars, NEW r \in Requests,
           req[r].pc = "read", req'[r].pc # "read", doc' # doc
    PROVE  Commit(r)
<1>0. TypeOK
  BY DEF CredentialsInv, FormInv
<1>1. CASE \E s \in Requests : Commit(s)
  <2>1. PICK s \in Requests : Commit(s)
    BY <1>1
  <2>2. \A x \in Requests \ {s} : Same(x)
    BY <1>0, <2>1, AfterCommit
  <2> QED BY <2>1, <2>2 DEF Same
<1>2. CASE \E s \in Requests : SaveBySub(s)
  <2>1. PICK s \in Requests : SaveBySub(s)
    BY <1>2
  <2>2. \A x \in Requests \ {s} : Same(x)
    BY <1>0, <2>1, AfterSave
  <2>3. req[s].pc = "save"
    BY <2>1 DEF SaveBySub
  <2> QED BY <2>2, <2>3 DEF Same
<1> QED BY <1>1, <1>2, Writers

\* Under snapshot transactions a use case changes its own fields only, whatever
\* the others write.
THEOREM OwnFieldsOnly ==
  ASSUME Transactions = "snapshot"
  PROVE  Spec => OwnFields
<1> DEFINE A == \A r \in Requests :
                  req[r].pc = "read" /\ req'[r].pc # "read" =>
                    \A f \in Fields \ Own[req[r].op] : doc'[f] = doc[f]
<1>1. CredentialsInv /\ [Next]_vars => A
  <2> SUFFICES ASSUME CredentialsInv, [Next]_vars, NEW r \in Requests,
                      req[r].pc = "read", req'[r].pc # "read",
                      NEW f \in Fields \ Own[req[r].op]
               PROVE  doc'[f] = doc[f]
    OBVIOUS
  <2>1. CASE doc' = doc
    BY <2>1
  <2>2. CASE doc' # doc
    <3>1. Commit(r)
      BY <2>2, OwnCommit
    <3>2. doc' = req[r].doc /\ ~req[r].stale
      BY <3>1 DEF Commit, Commits
    <3> QED BY <3>2 DEF CredentialsInv, Base, Deciding
  <2> QED BY <2>1, <2>2
<1>2. Spec => []CredentialsInv
  BY CredentialsInvAlways
<1> QED BY <1>1, <1>2, PTL DEF Spec, OwnFields

\* Under snapshot transactions a reset token changes the password once, and only
\* while it is the latest.
THEOREM ResetsOnce ==
  ASSUME Transactions = "snapshot"
  PROVE  Spec => ResetOnce
<1> DEFINE A == \A r \in Requests :
                  req[r].op = "passwordReset" /\ req[r].pc = "read" /\ req'[r].pc # "read"
                    /\ doc' # doc /\ "doc" \notin off =>
                       req[r].token = latest /\ req[r].token \notin spent
<1>1. CredentialsInv /\ [Next]_vars => A
  <2> SUFFICES ASSUME CredentialsInv, [Next]_vars, NEW r \in Requests,
                      req[r].op = "passwordReset", req[r].pc = "read", req'[r].pc # "read",
                      doc' # doc, "doc" \notin off
               PROVE  req[r].token = latest /\ req[r].token \notin spent
    OBVIOUS
  <2>1. Commit(r)
    BY OwnCommit
  <2>2. ~req[r].stale
    BY <2>1 DEF Commit, Commits
  <2>3. doc.reset # None /\ doc.reset.token = req[r].token
    BY <2>2 DEF CredentialsInv, CheckedInv
  <2>4. doc.reset # None => doc.reset.token = latest /\ latest \notin spent
    BY DEF CredentialsInv, LatestInv
  <2> QED BY <2>3, <2>4
<1>2. Spec => []CredentialsInv
  BY CredentialsInvAlways
<1> QED BY <1>1, <1>2, PTL DEF Spec, ResetOnce

\* Under snapshot transactions a verified user stays verified, an older document
\* of UpdateUserBySub apart.
THEOREM VerifiedStays ==
  ASSUME Transactions = "snapshot"
  PROVE  Spec => StaysVerified
<1> DEFINE A == doc.verified /\ "doc" \notin off' => doc'.verified
<1>1. CredentialsInv /\ [Next]_vars => A
  <2> SUFFICES ASSUME CredentialsInv, [Next]_vars, doc.verified, "doc" \notin off'
               PROVE  doc'.verified
    OBVIOUS
  <2>0. TypeOK /\ \A r \in Requests : PlaceInv(r) /\ Base(r) /\ CheckedInv(r)
    BY DEF CredentialsInv, FormInv
  <2>1. CASE \E s \in Requests : Commit(s)
    <3>1. PICK s \in Requests : Commit(s)
      BY <2>1
    <3>2. doc' = req[s].doc /\ ~req[s].stale /\ req[s].pc = "read"
      BY <3>1 DEF Commit, Commits
    <3>3. CASE req[s].op \in {"verifyUser", "createVerification"}
      BY <2>0, <3>2, <3>3 DEF CheckedInv
    <3>4. CASE req[s].op \notin {"verifyUser", "createVerification"}
      <4>1. req[s].op \in Operations
        BY <2>0, <3>2 DEF TypeOK, Request, PlaceInv
      <4>2. "verified" \in Fields \ Own[req[s].op]
        BY <3>4, <4>1 DEF Operations, Fields, Own
      <4> QED BY <2>0, <3>2, <4>2 DEF Base, Deciding
    <3> QED BY <3>3, <3>4
  <2>2. CASE \E s \in Requests : SaveBySub(s)
    <3>1. PICK s \in Requests : SaveBySub(s)
      BY <2>2
    <3>2. doc' = req[s].doc /\ ~req[s].stale /\ req[s].pc = "save"
      BY <3>1 DEF SaveBySub
    <3>3. "verified" \in Fields \ Own[req[s].op]
      BY <2>0, <3>2 DEF PlaceInv, Fields, Own
    <3> QED BY <2>0, <3>2, <3>3 DEF Base, Deciding
  <2> QED BY <2>1, <2>2, Writers
<1>2. Spec => []CredentialsInv
  BY CredentialsInvAlways
<1> QED BY <1>1, <1>2, PTL DEF Spec, StaysVerified
=============================================================================
