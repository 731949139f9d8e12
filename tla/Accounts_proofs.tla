--------------------------- MODULE Accounts_proofs ---------------------------
(* Proofs about Accounts: types, the unity of user and home, and that the  *)
(* accounts implement Directory, with and without noticed conflicts.       *)
EXTENDS Accounts, TLAPS

LEMMA IdleFacts ==
  /\ Idle \in Request
  /\ Idle.pc = "idle" /\ Idle.op = None /\ Idle.stale = FALSE
BY DEF Idle, Request

\* A request that is not idle has an id and a document.
LEMMA ActiveRequest ==
  ASSUME TypeOK, NEW r \in Requests, req[r].pc # "idle"
  PROVE  /\ req[r] \in [pc : {"read", "written", "saving", "granting"},
                        op : Operations, id : IDs, doc : Documents,
                        kept : IDs \cup {None}, stale : BOOLEAN]
         /\ req[r].id \in IDs /\ req[r].doc \in Documents
         /\ req[r].op \in Operations /\ req[r].stale \in BOOLEAN
         /\ req[r].kept \in IDs \cup {None}
BY IdleFacts DEF TypeOK, Request

\* A user document has a sub and an e-mail.
LEMMA UserFields ==
  ASSUME TypeOK, NEW u \in IDs, users[u] # None
  PROVE  /\ users[u] \in Documents
         /\ users[u].sub \in Subjects \cup {None} /\ users[u].email \in Emails
BY DEF TypeOK, Documents

-----------------------------------------------------------------------------
\* The steps, with what the use cases have in common named.

StartsSignUp(r, op, u, doc) ==
    /\ op \in SignUps
    /\ NewID(u)
    /\ HasSub(doc.sub) => doc.sub = None
    /\ Begin(r, op, u, doc)

StartsChange(r, op, u, doc) ==
    /\ op \in Updates \cup {"deleteMe"}
    /\ users[u] # None
    /\ doc.sub \in {users[u].sub, None}
    /\ op = "saveUser" => doc = users[u]
    /\ Begin(r, op, u, doc)
    /\ UNCHANGED used

Starts(r) ==
    \E op \in Operations, u \in IDs, doc \in Documents :
        StartsSignUp(r, op, u, doc) \/ StartsChange(r, op, u, doc)

Loads(r) ==
    \E u \in IDs : \/ LoadBySub(r, "updateUserBySub", u, "saving")
                   \/ LoadBySub(r, "setPlatformRoles", u, "granting")

LEMMA Steps ==
  ASSUME TypeOK, Next
  PROVE  \E r \in Requests :
           \/ Starts(r) \/ Loads(r) \/ WriteUser(r)
           \/ CommitSignUp(r) \/ CommitUpdate(r) \/ CommitDeletion(r)
           \/ Abort(r) \/ SaveBySub(r) \/ SaveRoles(r)
<1>1. PICK r \in Requests :
        \/ \E u \in IDs, who \in Identities :
             Signup(r, u, who) \/ SignupOIDC(r, u, who)
             \/ SyncSSOUser(r, u, who) \/ FindOrCreate(r, u, who)
        \/ \E u \in IDs :
             \/ \E email \in Emails : UpdateMe(r, u, email)
             \/ RemoveMyAuth(r, u) \/ SaveUser(r, u) \/ DeleteMe(r, u)
        \/ Loads(r) \/ WriteUser(r)
        \/ CommitSignUp(r) \/ CommitUpdate(r) \/ CommitDeletion(r)
        \/ Abort(r) \/ SaveBySub(r) \/ SaveRoles(r)
  BY DEF Next, Loads
<1>2. ASSUME NEW u \in IDs, NEW who \in Identities,
             Signup(r, u, who) \/ SignupOIDC(r, u, who)
             \/ SyncSSOUser(r, u, who) \/ FindOrCreate(r, u, who)
      PROVE  Starts(r)
  <2>1. /\ who \in Documents /\ [who EXCEPT !.sub = None] \in Documents
        /\ [who EXCEPT !.sub = None].sub = None
    BY AccountsAssumption DEF Documents
  <2>2. CASE Signup(r, u, who)
    <3>1. "signup" \in Operations
      BY <2>2 DEF Signup, Begin
    <3>2. StartsSignUp(r, "signup", u, [who EXCEPT !.sub = None])
      BY <2>1, <2>2 DEF Signup, StartsSignUp, SignUps
    <3> QED
      BY <2>1, <3>1, <3>2 DEF Starts
  <2>3. CASE SignupOIDC(r, u, who)
    <3>1. "signupOIDC" \in Operations
      BY <2>3 DEF SignupOIDC, Begin
    <3>2. StartsSignUp(r, "signupOIDC", u, who)
      BY <2>3 DEF SignupOIDC, StartsSignUp, SignUps
    <3> QED
      BY <2>1, <3>1, <3>2 DEF Starts
  <2>4. CASE SyncSSOUser(r, u, who)
    <3>1. "syncSSOUser" \in Operations
      BY <2>4 DEF SyncSSOUser, Begin
    <3>2. StartsSignUp(r, "syncSSOUser", u, who)
      BY <2>4 DEF SyncSSOUser, StartsSignUp, SignUps
    <3> QED
      BY <2>1, <3>1, <3>2 DEF Starts
  <2>5. CASE FindOrCreate(r, u, who)
    <3>1. "findOrCreate" \in Operations
      BY <2>5 DEF FindOrCreate, Begin
    <3>2. StartsSignUp(r, "findOrCreate", u, who)
      BY <2>5 DEF FindOrCreate, StartsSignUp, SignUps
    <3> QED
      BY <2>1, <3>1, <3>2 DEF Starts
  <2> QED
    BY <1>2, <2>2, <2>3, <2>4, <2>5
<1>3. ASSUME NEW u \in IDs,
             \/ \E email \in Emails : UpdateMe(r, u, email)
             \/ RemoveMyAuth(r, u) \/ SaveUser(r, u) \/ DeleteMe(r, u)
      PROVE  Starts(r)
  <2>0. users[u] # None
    BY <1>3 DEF UpdateMe, RemoveMyAuth, SaveUser, DeleteMe
  <2>1. users[u] \in Documents
    BY <2>0, UserFields
  <2>2. ASSUME NEW email \in Emails, UpdateMe(r, u, email)
        PROVE  Starts(r)
    <3> DEFINE doc == [users[u] EXCEPT !.email = email]
    <3>1. doc \in Documents /\ doc.sub = users[u].sub
      BY <2>1 DEF Documents
    <3>2. "updateMe" \in Operations
      BY <2>2 DEF UpdateMe, Begin
    <3>3. StartsChange(r, "updateMe", u, doc)
      BY <2>0, <2>2, <3>1 DEF UpdateMe, StartsChange, Updates
    <3> QED
      BY <3>1, <3>2, <3>3 DEF Starts
  <2>3. CASE RemoveMyAuth(r, u)
    <3> DEFINE doc == [users[u] EXCEPT !.sub = None]
    <3>1. doc \in Documents /\ doc.sub = None
      BY <2>1 DEF Documents
    <3>2. "removeMyAuth" \in Operations
      BY <2>3 DEF RemoveMyAuth, Begin
    <3>3. StartsChange(r, "removeMyAuth", u, doc)
      BY <2>0, <2>3, <3>1 DEF RemoveMyAuth, StartsChange, Updates
    <3> QED
      BY <3>1, <3>2, <3>3 DEF Starts
  <2>4. CASE SaveUser(r, u)
    <3>1. "saveUser" \in Operations
      BY <2>4 DEF SaveUser, Begin
    <3>2. StartsChange(r, "saveUser", u, users[u])
      BY <2>0, <2>4 DEF SaveUser, StartsChange, Updates
    <3> QED
      BY <2>1, <3>1, <3>2 DEF Starts
  <2>5. CASE DeleteMe(r, u)
    <3>1. "deleteMe" \in Operations
      BY <2>5 DEF DeleteMe, Begin
    <3>2. StartsChange(r, "deleteMe", u, users[u])
      BY <2>0, <2>5 DEF DeleteMe, StartsChange
    <3> QED
      BY <2>1, <3>1, <3>2 DEF Starts
  <2> QED
    BY <1>3, <2>2, <2>3, <2>4, <2>5
<1> QED
  BY <1>1, <1>2, <1>3

\* What the end of r leaves of the other requests.
LEMMA EndLeaves ==
  ASSUME TypeOK, NEW r \in Requests, EndOf(r)
  PROVE  /\ req' \in [Requests -> Request]
         /\ req'[r] = Idle
         /\ \A s \in Requests \ {r} :
              /\ req'[s].pc = req[s].pc /\ req'[s].op = req[s].op
              /\ req'[s].id = req[s].id /\ req'[s].doc = req[s].doc
              /\ req'[s].kept = req[s].kept
              /\ InTransaction(s) /\ ~req'[s].stale => ~req[s].stale /\ ~Conflicts(r, s)
<1>1. req'[r] = Idle
  BY DEF EndOf
<1>2. ASSUME NEW s \in Requests, s # r
      PROVE  req'[s] = [req[s] EXCEPT !.stale = req[s].stale \/ Conflicts(r, s)]
  BY <1>2 DEF EndOf
<1>3. ASSUME NEW s \in Requests, s # r, req[s].pc = "idle"
      PROVE  req'[s] = Idle
  <2>1. req[s] = Idle
    BY <1>3 DEF TypeOK, Request
  <2>2. (req[s].stale \/ Conflicts(r, s)) = FALSE
    BY <1>3, <2>1, IdleFacts DEF Conflicts, InTransaction
  <2>3. req'[s] = [Idle EXCEPT !.stale = FALSE]
    BY <1>2, <1>3, <2>1, <2>2, Zenon
  <2>4. \A i \in [pc : {"idle"}, op : {None}, id : {None}, doc : {None},
                  kept : {None}, stale : {FALSE}] : [i EXCEPT !.stale = FALSE] = i
    OBVIOUS
  <2>5. Idle \in [pc : {"idle"}, op : {None}, id : {None}, doc : {None},
                 kept : {None}, stale : {FALSE}]
    BY DEF Idle
  <2> QED
    BY <2>3, <2>4, <2>5
<1>4. ASSUME NEW s \in Requests, s # r, req[s].pc # "idle"
      PROVE  /\ req'[s] \in Request
             /\ req'[s].pc = req[s].pc /\ req'[s].op = req[s].op
             /\ req'[s].id = req[s].id /\ req'[s].doc = req[s].doc
             /\ req'[s].kept = req[s].kept
             /\ ~req'[s].stale => ~req[s].stale /\ ~Conflicts(r, s)
  <2> DEFINE b == req[s].stale \/ Conflicts(r, s)
  <2>1. b \in BOOLEAN /\ (~b => ~req[s].stale /\ ~Conflicts(r, s))
    OBVIOUS
  <2>2. req'[s] = [req[s] EXCEPT !.stale = b]
    BY <1>2, <1>4
  <2> HIDE DEF b
  <2>3. req[s] \in [pc : {"read", "written", "saving", "granting"},
                    op : Operations, id : IDs, doc : Documents,
                    kept : IDs \cup {None}, stale : BOOLEAN]
    BY <1>4, ActiveRequest
  <2>4. /\ req'[s].pc = req[s].pc /\ req'[s].op = req[s].op
        /\ req'[s].id = req[s].id /\ req'[s].doc = req[s].doc
        /\ req'[s].kept = req[s].kept /\ req'[s].stale = b
    BY <2>2, <2>3
  <2>5. req'[s] \in Request
    BY <2>1, <2>2, <2>3 DEF Request
  <2> QED
    BY <2>1, <2>4, <2>5
<1>5. \A s \in Requests : req'[s] \in Request
  BY <1>1, <1>3, <1>4, IdleFacts
<1>6. req' \in [Requests -> Request]
  BY <1>5 DEF EndOf
<1>7. ASSUME NEW s \in Requests \ {r}, req[s].pc = "idle"
      PROVE  req'[s] = req[s] /\ ~InTransaction(s)
  BY <1>3, <1>7 DEF TypeOK, Request, InTransaction
<1> QED
  BY <1>1, <1>4, <1>6, <1>7

-----------------------------------------------------------------------------
LEMMA TypeInit == Init => TypeOK
BY IdleFacts DEF Init, TypeOK

LEMMA TypeNext ==
  ASSUME TypeOK, [Next]_vars
  PROVE  TypeOK'
<1>1. CASE UNCHANGED vars
  BY <1>1 DEF vars, TypeOK
<1>2. CASE Next
  <2>1. PICK r \in Requests :
           \/ Starts(r) \/ Loads(r) \/ WriteUser(r)
           \/ CommitSignUp(r) \/ CommitUpdate(r) \/ CommitDeletion(r)
           \/ Abort(r) \/ SaveBySub(r) \/ SaveRoles(r)
    BY <1>2, Steps
  <2>2. CASE Starts(r)
    <3>1. PICK op \in Operations, u \in IDs, doc \in Documents :
            StartsSignUp(r, op, u, doc) \/ StartsChange(r, op, u, doc)
      BY <2>2 DEF Starts
    <3>2. Begin(r, op, u, doc) /\ used' \in SUBSET IDs
      BY <3>1 DEF StartsSignUp, StartsChange, NewID, TypeOK
    <3>3. [Idle EXCEPT !.pc = "read", !.op = op, !.id = u, !.doc = doc] \in Request
      BY DEF Idle, Request
    <3>4. contested' \subseteq Subjects
      BY <3>2 DEF Begin, Rivals, TypeOK, Documents
    <3> QED
      BY <3>2, <3>3, <3>4 DEF Begin, TypeOK
  <2>3. CASE Loads(r)
    <3>1. PICK u \in IDs : \/ LoadBySub(r, "updateUserBySub", u, "saving")
                           \/ LoadBySub(r, "setPlatformRoles", u, "granting")
      BY <2>3 DEF Loads
    <3>2. users[u] \in Documents
      BY <3>1, UserFields DEF LoadBySub
    <3>3. ASSUME NEW op \in Operations, NEW pc \in {"saving", "granting"}
          PROVE  [Idle EXCEPT !.pc = pc, !.op = op, !.id = u, !.doc = users[u]]
                   \in Request
      BY <3>2 DEF Idle, Request
    <3> QED
      BY <3>1, <3>3 DEF LoadBySub, TypeOK
  <2>4. CASE WriteUser(r)
    <3> DEFINE kept == IF req[r].op = "findOrCreate"
                            /\ Transactions = "readCommitted"
                         THEN FindBySub(req[r].doc.sub)
                         ELSE req[r].kept
    <3>1. req[r].pc # "idle"
      BY <2>4 DEF WriteUser
    <3>2. ASSUME NEW sub PROVE FindBySub(sub) \in IDs \cup {None}
      BY DEF FindBySub, HasSub
    <3>3. kept \in IDs \cup {None}
      BY <3>1, <3>2, ActiveRequest
    <3>4. [req[r] EXCEPT !.pc = "written", !.kept = kept] \in Request
      <4> HIDE DEF kept
      <4> QED
        BY <3>1, <3>3, ActiveRequest DEF Request
    <3>5. req' = [req EXCEPT ![r] = [req[r] EXCEPT !.pc = "written", !.kept = kept]]
      BY <2>4 DEF WriteUser
    <3> QED
      BY <2>4, <3>4, <3>5 DEF WriteUser, TypeOK
  <2>5. CASE CommitSignUp(r)
    <3>1. EndOf(r) /\ req[r].pc # "idle"
      BY <2>5 DEF CommitSignUp, Commits
    <3>2. req[r].id \in IDs /\ req[r].doc \in Documents
      BY <3>1, ActiveRequest
    <3> QED
      BY <2>5, <3>1, <3>2, EndLeaves DEF CommitSignUp, Commits, TypeOK
  <2>6. CASE CommitUpdate(r)
    <3>1. EndOf(r) /\ req[r].pc # "idle"
      BY <2>6 DEF CommitUpdate, Commits
    <3>2. req[r].id \in IDs /\ req[r].doc \in Documents
      BY <3>1, ActiveRequest
    <3> QED
      BY <2>6, <3>1, <3>2, EndLeaves DEF CommitUpdate, Commits, TypeOK
  <2>7. CASE CommitDeletion(r)
    <3>1. EndOf(r) /\ req[r].pc # "idle"
      BY <2>7 DEF CommitDeletion, Commits
    <3>2. req[r].id \in IDs
      BY <3>1, ActiveRequest
    <3> QED
      BY <2>7, <3>1, <3>2, EndLeaves DEF CommitDeletion, Commits, TypeOK
  <2>8. CASE Abort(r)
    BY <2>8, IdleFacts DEF Abort, TypeOK
  <2>9. CASE SaveBySub(r)
    <3>1. EndOf(r) /\ req[r].pc # "idle"
      BY <2>9 DEF SaveBySub
    <3>2. req[r].id \in IDs /\ req[r].doc \in Documents
      BY <3>1, ActiveRequest
    <3> QED
      BY <2>9, <3>1, <3>2, EndLeaves DEF SaveBySub, TypeOK
  <2>10. CASE SaveRoles(r)
    <3>1. req[r].id \in IDs
      BY <2>10, ActiveRequest DEF SaveRoles
    <3> QED
      BY <2>10, <3>1, IdleFacts DEF SaveRoles, TypeOK
  <2> QED
    BY <2>1, <2>2, <2>3, <2>4, <2>5, <2>6, <2>7, <2>8, <2>9, <2>10
<1> QED
  BY <1>1, <1>2 DEF vars

\* TypeOK holds under both kinds of transactions: whatever sign-ups, updates
\* and deletions overlap, the documents and the requests stay well formed.
THEOREM TypeCorrect == Spec => []TypeOK
BY TypeInit, TypeNext, PTL DEF Spec

-----------------------------------------------------------------------------
(* Rivals for a subject.                                                   *)

\* Only a request that starts can become a rival.
LEMMA RivalsKept ==
  ASSUME RivalsKnown, contested \subseteq contested',
         \A x \in Requests : req'[x].op \in SignUps =>
           req[x].op \in SignUps /\ req'[x].doc = req[x].doc
  PROVE  RivalsKnown'
BY DEF RivalsKnown, Rivals

\* The second look-up decides what is kept, and whether the e-mail is asked for.
LEMMA WriteStarts ==
  ASSUME TypeOK, NEW r \in Requests, WriteUser(r)
  PROVE  /\ req[r].pc = "read" /\ req'[r].pc = "written"
         /\ req'[r].op = req[r].op /\ req'[r].id = req[r].id
         /\ req'[r].doc = req[r].doc
         /\ req'[r].kept = None => EmailFree(r)
         /\ \A s \in Requests \ {r} : req'[s] = req[s]
         /\ UNCHANGED <<users, used, closed>>
<1> DEFINE kept == IF req[r].op = "findOrCreate" /\ Transactions = "readCommitted"
                     THEN FindBySub(req[r].doc.sub)
                     ELSE req[r].kept
<1>1. /\ req[r].pc = "read" /\ (kept = None => EmailFree(r))
      /\ req' = [req EXCEPT ![r].pc = "written", ![r].kept = kept]
      /\ UNCHANGED <<users, used, closed>>
  BY DEF WriteUser
<1> HIDE DEF kept
<1>2. req[r] \in [pc : {"read", "written", "saving", "granting"},
                  op : Operations, id : IDs, doc : Documents,
                  kept : IDs \cup {None}, stale : BOOLEAN]
  BY <1>1, ActiveRequest
<1>3. req'[r] = [req[r] EXCEPT !.pc = "written", !.kept = kept]
  BY <1>1 DEF TypeOK
<1>4. /\ req'[r].pc = "written" /\ req'[r].op = req[r].op /\ req'[r].id = req[r].id
      /\ req'[r].doc = req[r].doc /\ req'[r].kept = kept
  BY <1>2, <1>3
<1>5. \A s \in Requests \ {r} : req'[s] = req[s]
  BY <1>1 DEF TypeOK
<1> QED
  BY <1>1, <1>4, <1>5

LEMMA RivalsInit == Init => RivalsKnown
BY IdleFacts, AccountsAssumption DEF Init, RivalsKnown

\* What a step does to the contested subjects.
LEMMA Contests ==
  ASSUME TypeOK, NEW r \in Requests
  PROVE  /\ Starts(r) => \E doc \in Documents :
              contested' \in {contested, contested \cup {doc.sub}}
         /\ Loads(r) \/ WriteUser(r) \/ CommitSignUp(r) \/ CommitUpdate(r)
              \/ CommitDeletion(r) \/ Abort(r) \/ SaveBySub(r) \/ SaveRoles(r)
              => contested' = contested
<1>1. ASSUME Starts(r)
      PROVE  \E doc \in Documents : contested' \in {contested, contested \cup {doc.sub}}
  BY <1>1 DEF Starts, StartsSignUp, StartsChange, Begin
<1>2. ASSUME Loads(r) \/ WriteUser(r) \/ Abort(r) \/ SaveBySub(r) \/ SaveRoles(r)
      PROVE  contested' = contested
  BY <1>2 DEF Loads, LoadBySub, WriteUser, Abort, SaveBySub, SaveRoles
<1>3. ASSUME CommitSignUp(r) \/ CommitUpdate(r) \/ CommitDeletion(r)
      PROVE  contested' = contested
  BY <1>3 DEF CommitSignUp, CommitUpdate, CommitDeletion, Commits
<1> QED
  BY <1>1, <1>2, <1>3

LEMMA RivalsNext ==
  ASSUME TypeOK, RivalsKnown, [Next]_vars
  PROVE  RivalsKnown' /\ contested \subseteq contested'
<1>1. CASE UNCHANGED vars
  BY <1>1 DEF vars, RivalsKnown, Rivals
<1>2. CASE Next
  <2>1. PICK r \in Requests :
           \/ Starts(r) \/ Loads(r) \/ WriteUser(r)
           \/ CommitSignUp(r) \/ CommitUpdate(r) \/ CommitDeletion(r)
           \/ Abort(r) \/ SaveBySub(r) \/ SaveRoles(r)
    BY <1>2, Steps
  <2>2. contested \subseteq contested'
    BY <2>1, Contests
  <2>3. CASE Starts(r)
    <3>1. PICK op \in Operations, u \in IDs, doc \in Documents : Begin(r, op, u, doc)
      BY <2>3 DEF Starts, StartsSignUp, StartsChange
    <3>2. /\ req'[r].op = op /\ req'[r].doc = doc
          /\ \A s \in Requests \ {r} : req'[s] = req[s]
      BY <3>1 DEF Begin, TypeOK, Idle
    <3>3. ASSUME op \in SignUps, NEW s \in Requests, Rivals(s, doc)
          PROVE  doc.sub \in contested'
      BY <3>1, <3>3 DEF Begin
    <3>4. ASSUME NEW x \in Requests, NEW y \in Requests, req'[x].op \in SignUps,
                 Rivals(y, req[x].doc)'
          PROVE  req'[x].doc.sub \in contested'
      <4>1. CASE x # r /\ y # r
        BY <2>2, <3>2, <3>4, <4>1 DEF RivalsKnown, Rivals
      <4>2. CASE x = r /\ y # r
        BY <3>2, <3>3, <3>4, <4>2 DEF Rivals
      <4>3. CASE x # r /\ y = r
        BY <3>2, <3>3, <3>4, <4>3 DEF Rivals
      <4>4. CASE x = r /\ y = r
        BY <3>4, <4>4 DEF Rivals
      <4> QED
        BY <4>1, <4>2, <4>3, <4>4
    <3> QED
      BY <2>2, <3>4 DEF RivalsKnown
  <2>4. CASE Loads(r)
    <3>1. PICK u \in IDs, op \in {"updateUserBySub", "setPlatformRoles"}, pc \in {"saving", "granting"} :
            LoadBySub(r, op, u, pc)
      BY <2>4 DEF Loads
    <3>2. req'[r].op = op /\ \A s \in Requests \ {r} : req'[s] = req[s]
      BY <3>1 DEF LoadBySub, TypeOK, Idle
    <3>3. op \notin SignUps
      BY DEF SignUps
    <3> QED
      BY <2>2, <3>2, <3>3, RivalsKept
  <2>5. CASE WriteUser(r)
    <3>1. \A x \in Requests : req'[x].op = req[x].op /\ req'[x].doc = req[x].doc
      BY <2>5, WriteStarts
    <3> QED
      BY <2>2, <3>1, RivalsKept
  <2>6. ASSUME EndOf(r) PROVE RivalsKnown'
    <3>1. req'[r].op = None
      BY <2>6, EndLeaves, IdleFacts
    <3>2. \A s \in Requests \ {r} : req'[s].op = req[s].op /\ req'[s].doc = req[s].doc
      BY <2>6, EndLeaves
    <3> QED
      BY <2>2, <3>1, <3>2, RivalsKept, AccountsAssumption
  <2>7. CASE CommitSignUp(r) \/ CommitUpdate(r) \/ CommitDeletion(r) \/ SaveBySub(r)
    BY <2>6, <2>7 DEF CommitSignUp, CommitUpdate, CommitDeletion, SaveBySub, Commits
  <2>8. CASE Abort(r) \/ SaveRoles(r)
    <3>1. req' = [req EXCEPT ![r] = Idle]
      BY <2>8 DEF Abort, SaveRoles
    <3>2. req'[r].op = None /\ \A s \in Requests \ {r} : req'[s] = req[s]
      BY <3>1, IdleFacts DEF TypeOK
    <3> QED
      BY <2>2, <3>2, RivalsKept, AccountsAssumption
  <2> QED
    BY <2>1, <2>2, <2>3, <2>4, <2>5, <2>7, <2>8
<1> QED
  BY <1>1, <1>2 DEF vars

-----------------------------------------------------------------------------
(* User and home.                                                          *)

\* The first step of a transaction, for the request and for the others.
LEMMA BeginFacts ==
  ASSUME TypeOK, NEW r \in Requests, NEW op, NEW u, NEW doc, Begin(r, op, u, doc)
  PROVE  /\ req'[r].pc = "read" /\ req'[r].op = op /\ req'[r].id = u
         /\ req'[r].doc = doc /\ req'[r].kept = None /\ req'[r].stale = FALSE
         /\ \A s \in Requests \ {r} : req'[s] = req[s]
         /\ UNCHANGED <<users, homes, perms, closed>>
BY DEF Begin, TypeOK, Idle

\* Under snapshot transactions the second look-up sees what the first one saw.
LEMMA WriteFacts ==
  ASSUME TypeOK, Transactions = "snapshot", NEW r \in Requests, WriteUser(r)
  PROVE  /\ req[r].pc = "read" /\ req'[r].pc = "written"
         /\ req'[r].op = req[r].op /\ req'[r].id = req[r].id
         /\ req'[r].doc = req[r].doc /\ req'[r].kept = req[r].kept
         /\ req'[r].stale = req[r].stale
         /\ \A s \in Requests \ {r} : req'[s] = req[s]
         /\ UNCHANGED <<users, homes, perms, used, closed>>
<1>1. req' = [req EXCEPT ![r].pc = "written", ![r].kept = req[r].kept]
  BY DEF WriteUser
<1>2. req[r].pc = "read" /\ UNCHANGED <<users, homes, perms, used, closed>>
  BY DEF WriteUser
<1>3. req[r].pc # "idle"
  BY <1>2
<1> QED
  BY <1>1, <1>2, <1>3, ActiveRequest DEF TypeOK

\* A request without a transaction ends, or any request fails.
LEMMA ResetFacts ==
  ASSUME TypeOK, NEW r \in Requests, req' = [req EXCEPT ![r] = Idle]
  PROVE  /\ req'[r] = Idle
         /\ \A s \in Requests \ {r} : req'[s] = req[s]
BY DEF TypeOK

LEMMA HomeInit == Init => HomeInv
<1>1. ASSUME Init PROVE \A r \in Requests : req[r].pc = "idle"
  BY <1>1, IdleFacts DEF Init
<1>2. ASSUME Init PROVE HomeInv
  BY <1>1, <1>2, TypeInit
     DEF Init, HomeInv, KnownIDs, UserAndHome, Fresh, InTransaction
<1> QED
  BY <1>2

LEMMA HomeNext ==
  ASSUME HomeInv, Transactions = "snapshot", "updateUserBySub" \notin Operations,
         [Next]_vars
  PROVE  HomeInv'
<1>0. TypeOK /\ TypeOK'
  BY TypeNext DEF HomeInv
<1>1. CASE UNCHANGED vars
  BY <1>1, <1>0 DEF vars, HomeInv, KnownIDs, UserAndHome, Fresh, InTransaction
<1>2. CASE Next
  <2>1. PICK r \in Requests :
           \/ Starts(r) \/ Loads(r) \/ WriteUser(r)
           \/ CommitSignUp(r) \/ CommitUpdate(r) \/ CommitDeletion(r)
           \/ Abort(r) \/ SaveBySub(r) \/ SaveRoles(r)
    BY <1>0, <1>2, Steps
  <2>2. CASE Starts(r)
    <3>1. PICK op \in Operations, u \in IDs, doc \in Documents :
            StartsSignUp(r, op, u, doc) \/ StartsChange(r, op, u, doc)
      BY <2>2 DEF Starts
    <3>2. Begin(r, op, u, doc)
      BY <3>1 DEF StartsSignUp, StartsChange
    <3>3. /\ req'[r].pc = "read" /\ req'[r].op = op /\ req'[r].id = u
          /\ req'[r].kept = None /\ req'[r].stale = FALSE
          /\ \A s \in Requests \ {r} : req'[s] = req[s]
          /\ UNCHANGED <<users, homes, closed>>
      BY <1>0, <3>2, BeginFacts
    <3>4. CASE StartsSignUp(r, op, u, doc)
      <4>1. op \in SignUps /\ u \notin used /\ used' = used \cup {u}
        BY <3>4 DEF StartsSignUp, NewID
      <4>2. users[u] = None /\ u \notin closed
        BY <4>1 DEF HomeInv, KnownIDs
      <4>3. KnownIDs'
        BY <1>0, <3>3, <4>1 DEF HomeInv, KnownIDs
      <4>4. UserAndHome'
        BY <3>3 DEF HomeInv, UserAndHome
      <4>5. Fresh(r)'
        BY <1>0, <3>3, <4>1, <4>2 DEF HomeInv, KnownIDs, Fresh, InTransaction
      <4>6. ASSUME NEW s \in Requests, s # r PROVE Fresh(s)'
        BY <1>0, <3>3, <4>1, <4>6 DEF HomeInv, KnownIDs, Fresh, InTransaction
      <4> QED
        BY <1>0, <3>3, <4>3, <4>4, <4>5, <4>6 DEF HomeInv
    <3>5. CASE StartsChange(r, op, u, doc)
      <4>1. op \in Updates \cup {"deleteMe"} /\ users[u] # None /\ used' = used
        BY <3>5 DEF StartsChange
      <4>2. KnownIDs'
        BY <1>0, <3>3, <4>1 DEF HomeInv, KnownIDs
      <4>3. UserAndHome'
        BY <3>3 DEF HomeInv, UserAndHome
      <4>4. Fresh(r)'
        BY <1>0, <3>3, <4>1 DEF Fresh, InTransaction, SignUps, Updates
      <4>5. ASSUME NEW s \in Requests, s # r PROVE Fresh(s)'
        BY <1>0, <3>3, <4>1, <4>5 DEF HomeInv, Fresh, InTransaction
      <4> QED
        BY <1>0, <3>3, <4>2, <4>3, <4>4, <4>5 DEF HomeInv
    <3> QED
      BY <3>1, <3>4, <3>5
  <2>3. CASE Loads(r)
    <3>1. PICK u \in IDs : LoadBySub(r, "setPlatformRoles", u, "granting")
      BY <2>3 DEF Loads, LoadBySub
    <3>2. /\ users[u] # None /\ UNCHANGED <<users, homes, perms, used, closed>>
          /\ req'[r].pc = "granting" /\ req'[r].id = u
          /\ \A s \in Requests \ {r} : req'[s] = req[s]
      BY <1>0, <3>1 DEF LoadBySub, TypeOK, Idle
    <3>3. KnownIDs' /\ UserAndHome'
      BY <3>2 DEF HomeInv, KnownIDs, UserAndHome
    <3>4. ASSUME NEW s \in Requests PROVE Fresh(s)'
      BY <3>2 DEF HomeInv, Fresh, InTransaction
    <3> QED
      BY <1>0, <3>2, <3>3, <3>4 DEF HomeInv
  <2>4. CASE WriteUser(r)
    <3>1. KnownIDs' /\ UserAndHome'
      BY <1>0, <2>4, WriteFacts DEF HomeInv, KnownIDs, UserAndHome
    <3>2. ASSUME NEW s \in Requests PROVE Fresh(s)'
      BY <1>0, <2>4, WriteFacts DEF HomeInv, Fresh, InTransaction
    <3> QED
      BY <1>0, <2>4, <3>1, <3>2, WriteFacts DEF HomeInv
  <2>5. CASE CommitSignUp(r)
    <3> DEFINE u == req[r].id
    <3>1. /\ req[r].op \in SignUps /\ req[r].pc = "written" /\ EndOf(r)
          /\ used' = used /\ closed' = closed
      BY <2>5 DEF CommitSignUp, Commits
    <3>2. u \in IDs /\ req[r].doc \in Documents /\ req[r].doc # None
      BY <1>0, <3>1, ActiveRequest, AccountsAssumption
    <3>3. /\ req[r].kept = None /\ u \in used \ closed /\ InTransaction(r)
          /\ \A s \in Requests \ {r} : req[s].pc # "idle" => req[s].id # u
      BY <3>1 DEF HomeInv, KnownIDs, Fresh, InTransaction
    <3>4. users' = [users EXCEPT ![u] = req[r].doc] /\ homes' = homes \cup {u}
      BY <2>5, <3>3 DEF CommitSignUp
    <3>5. KnownIDs'
      BY <1>0, <3>1, <3>2, <3>3, <3>4, EndLeaves, IdleFacts DEF HomeInv, KnownIDs, TypeOK
    <3>6. UserAndHome'
      BY <1>0, <3>2, <3>4 DEF HomeInv, UserAndHome, TypeOK
    <3>7. ASSUME NEW s \in Requests, s # r, InTransaction(s)' PROVE Fresh(s)'
      <4>1. /\ req'[s].op = req[s].op /\ req'[s].id = req[s].id
            /\ req'[s].kept = req[s].kept /\ InTransaction(s)
            /\ ~req'[s].stale => ~req[s].stale
        BY <1>0, <3>1, <3>7, EndLeaves DEF InTransaction
      <4>2. req[s].pc # "idle" /\ req[s].id \in IDs
        BY <1>0, <4>1, ActiveRequest DEF InTransaction
      <4>3. users'[req[s].id] = users[req[s].id]
        BY <1>0, <3>2, <3>3, <3>4, <3>7, <4>2 DEF TypeOK
      <4>4. ASSUME NEW q \in Requests, req'[q].pc # "idle"
            PROVE  req[q].pc # "idle" /\ req'[q].id = req[q].id
        BY <1>0, <3>1, <4>4, EndLeaves, IdleFacts
      <4> QED
        BY <3>1, <4>1, <4>2, <4>3, <4>4 DEF HomeInv, Fresh
    <3>8. ASSUME NEW s \in Requests PROVE Fresh(s)'
      BY <1>0, <3>1, <3>7, EndLeaves, IdleFacts DEF Fresh, InTransaction
    <3>9. \A s \in Requests : (req[s].pc = "saving" => req[s].op = "updateUserBySub")'
      BY <1>0, <3>1, EndLeaves, IdleFacts DEF HomeInv
    <3> QED
      BY <1>0, <3>5, <3>6, <3>8, <3>9 DEF HomeInv
  <2>6. CASE CommitUpdate(r)
    <3> DEFINE u == req[r].id
    <3>1. /\ req[r].op \in Updates /\ req[r].pc = "written" /\ ~req[r].stale
          /\ EndOf(r) /\ used' = used /\ closed' = closed
          /\ users' = [users EXCEPT ![u] = req[r].doc]
          /\ homes' = IF req[r].op = "updateMe" THEN homes \cup {u} ELSE homes
      BY <2>6 DEF CommitUpdate, Commits
    <3>2. u \in IDs /\ req[r].doc \in Documents /\ req[r].doc # None
      BY <1>0, <3>1, ActiveRequest, AccountsAssumption
    <3>3. users[u] # None
      BY <3>1 DEF HomeInv, Fresh, InTransaction, SignUps, Updates
    <3>4. homes' = homes
      BY <3>1, <3>2, <3>3 DEF HomeInv, UserAndHome
    <3>5. KnownIDs'
      BY <1>0, <3>1, <3>2, <3>3, EndLeaves, IdleFacts DEF HomeInv, KnownIDs, TypeOK
    <3>6. UserAndHome'
      BY <1>0, <3>1, <3>2, <3>3, <3>4 DEF HomeInv, UserAndHome, TypeOK
    <3>7. ASSUME NEW s \in Requests, s # r, InTransaction(s)' PROVE Fresh(s)'
      <4>1. /\ req'[s].op = req[s].op /\ req'[s].id = req[s].id
            /\ req'[s].kept = req[s].kept /\ InTransaction(s)
            /\ ~req'[s].stale => ~req[s].stale
        BY <1>0, <3>1, <3>7, EndLeaves DEF InTransaction
      <4>2. /\ req[s].id \in IDs
            /\ users[req[s].id] # None => users'[req[s].id] # None
            /\ req[s].id # u => users'[req[s].id] = users[req[s].id]
        BY <1>0, <3>1, <3>2, <4>1, ActiveRequest DEF InTransaction, TypeOK
      <4>3. req[s].op \in SignUps => req[s].id # u
        BY <3>3, <4>1 DEF HomeInv, Fresh
      <4>4. ASSUME NEW q \in Requests, req'[q].pc # "idle"
            PROVE  req[q].pc # "idle" /\ req'[q].id = req[q].id
        BY <1>0, <3>1, <4>4, EndLeaves, IdleFacts
      <4> QED
        BY <3>1, <4>1, <4>2, <4>3, <4>4 DEF HomeInv, Fresh
    <3>8. ASSUME NEW s \in Requests PROVE Fresh(s)'
      BY <1>0, <3>1, <3>7, EndLeaves, IdleFacts DEF Fresh, InTransaction
    <3>9. \A s \in Requests : (req[s].pc = "saving" => req[s].op = "updateUserBySub")'
      BY <1>0, <3>1, EndLeaves, IdleFacts DEF HomeInv
    <3> QED
      BY <1>0, <3>5, <3>6, <3>8, <3>9 DEF HomeInv
  <2>7. CASE CommitDeletion(r)
    <3> DEFINE u == req[r].id
    <3>1. /\ req[r].pc = "written" /\ EndOf(r) /\ used' = used
          /\ users' = [users EXCEPT ![u] = None] /\ homes' = homes \ {u}
          /\ closed' = closed \cup {u} /\ req[r].op = "deleteMe"
      BY <2>7 DEF CommitDeletion, Commits
    <3>2. u \in IDs /\ u \in used
      BY <1>0, <3>1, ActiveRequest DEF HomeInv, KnownIDs
    <3>3. KnownIDs'
      BY <1>0, <3>1, <3>2, EndLeaves, IdleFacts DEF HomeInv, KnownIDs, TypeOK
    <3>4. UserAndHome'
      BY <1>0, <3>1, <3>2 DEF HomeInv, UserAndHome, TypeOK
    <3>5. ASSUME NEW s \in Requests, s # r, InTransaction(s)' PROVE Fresh(s)'
      <4>1. /\ req'[s].op = req[s].op /\ req'[s].id = req[s].id
            /\ req'[s].kept = req[s].kept /\ InTransaction(s)
            /\ ~req'[s].stale => ~req[s].stale /\ ~Conflicts(r, s)
        BY <1>0, <3>1, <3>5, EndLeaves DEF InTransaction
      <4>2. /\ req[s].id \in IDs
            /\ req[s].id # u => users'[req[s].id] = users[req[s].id]
        BY <1>0, <3>1, <3>2, <4>1, ActiveRequest DEF InTransaction, TypeOK
      <4>3. req[s].op \in SignUps => req[s].id # u
        BY <3>1, <3>5, <4>1 DEF HomeInv, Fresh
      <4>4. ~req'[s].stale => req[s].id # u
        BY <4>1 DEF Conflicts
      <4>5. ASSUME NEW q \in Requests, req'[q].pc # "idle"
            PROVE  req[q].pc # "idle" /\ req'[q].id = req[q].id
        BY <1>0, <3>1, <4>5, EndLeaves, IdleFacts
      <4> QED
        BY <3>1, <4>1, <4>2, <4>3, <4>4, <4>5 DEF HomeInv, Fresh
    <3>6. ASSUME NEW s \in Requests PROVE Fresh(s)'
      BY <1>0, <3>1, <3>5, EndLeaves, IdleFacts DEF Fresh, InTransaction
    <3>7. \A s \in Requests : (req[s].pc = "saving" => req[s].op = "updateUserBySub")'
      BY <1>0, <3>1, EndLeaves, IdleFacts DEF HomeInv
    <3> QED
      BY <1>0, <3>3, <3>4, <3>6, <3>7 DEF HomeInv
  <2>8. CASE SaveBySub(r)
    <3>1. req[r].pc = "saving" /\ req[r].op = "updateUserBySub"
      BY <2>8 DEF SaveBySub, HomeInv
    <3> QED
      BY <1>0, <3>1, ActiveRequest
  <2>9. CASE Abort(r) \/ SaveRoles(r)
    <3>1. /\ req' = [req EXCEPT ![r] = Idle]
          /\ UNCHANGED <<users, homes, used, closed>>
      BY <2>9 DEF Abort, SaveRoles
    <3>2. KnownIDs' /\ UserAndHome'
      BY <1>0, <3>1, ResetFacts, IdleFacts DEF HomeInv, KnownIDs, UserAndHome
    <3>3. ASSUME NEW s \in Requests PROVE Fresh(s)'
      BY <1>0, <3>1, ResetFacts, IdleFacts DEF HomeInv, Fresh, InTransaction
    <3> QED
      BY <1>0, <3>1, <3>2, <3>3, ResetFacts, IdleFacts DEF HomeInv
  <2> QED
    BY <2>1, <2>2, <2>3, <2>4, <2>5, <2>6, <2>7, <2>8, <2>9
<1> QED
  BY <1>1, <1>2 DEF vars

\* UserAndHome holds under snapshot transactions for any number of concurrent
\* sign-ups, updates and deletions of any number of users, as long as
\* UpdateUserBySub, which saves outside a transaction, does not run.
THEOREM UsersAndHomes ==
  ASSUME Transactions = "snapshot", "updateUserBySub" \notin Operations
  PROVE  Spec => []UserAndHome
<1>1. HomeInv /\ [Next]_vars => HomeInv'
  BY HomeNext
<1>2. HomeInv => UserAndHome
  BY DEF HomeInv
<1> QED
  BY <1>1, <1>2, HomeInit, PTL DEF Spec

-----------------------------------------------------------------------------
(* One account per e-mail and subject.                                     *)

UniqueInv == HomeInv /\ RivalsKnown /\ \A r \in Requests : Unclaimed(r)

LEMMA UniqueInit == Init => UniqueInv
<1>1. ASSUME Init PROVE \A r \in Requests : req[r].pc = "idle"
  BY <1>1, IdleFacts DEF Init
<1> QED
  BY <1>1, HomeInit, RivalsInit DEF UniqueInv, Unclaimed, InTransaction

\* What the end of r does to the requests that it does not overtake.
LEMMA NotOvertaken ==
  ASSUME UniqueInv, NEW r \in Requests, req[r].pc # "idle", EndOf(r),
         NEW s \in Requests \ {r}, InTransaction(s)', ~req'[s].stale
  PROVE  /\ InTransaction(s) /\ ~req[s].stale /\ Unclaimed(s) /\ Fresh(s)
         /\ req'[s].pc = req[s].pc /\ req'[s].op = req[s].op
         /\ req'[s].id = req[s].id /\ req'[s].doc = req[s].doc
         /\ req[s].id \in IDs /\ req[s].id # req[r].id
         /\ req[s].doc.email # req[r].doc.email
<1>1. /\ req'[s].pc = req[s].pc /\ req'[s].op = req[s].op
      /\ req'[s].id = req[s].id /\ req'[s].doc = req[s].doc
      /\ InTransaction(s) /\ ~req[s].stale /\ ~Conflicts(r, s)
  BY EndLeaves DEF UniqueInv, HomeInv, InTransaction
<1>2. req[s].id \in IDs
  BY <1>1, ActiveRequest DEF UniqueInv, HomeInv, InTransaction
<1>3. req[s].id # req[r].id /\ req[s].doc.email # req[r].doc.email
  BY <1>1 DEF Conflicts, TouchedEmails
<1> QED
  BY <1>1, <1>2, <1>3 DEF UniqueInv, HomeInv

LEMMA UniqueNext ==
  ASSUME UniqueInv, Transactions = "snapshot", "updateUserBySub" \notin Operations,
         [Next]_vars
  PROVE  UniqueInv'
<1>0. /\ TypeOK /\ HomeInv /\ HomeInv'
      /\ RivalsKnown /\ RivalsKnown' /\ contested \subseteq contested'
  BY HomeNext, RivalsNext DEF UniqueInv, HomeInv
<1>1. CASE UNCHANGED vars
  BY <1>0, <1>1 DEF vars, UniqueInv, Unclaimed, InTransaction, HasSub
<1>2. CASE Next
  <2>1. PICK r \in Requests :
           \/ Starts(r) \/ Loads(r) \/ WriteUser(r)
           \/ CommitSignUp(r) \/ CommitUpdate(r) \/ CommitDeletion(r)
           \/ Abort(r) \/ SaveBySub(r) \/ SaveRoles(r)
    BY <1>0, <1>2, Steps
  <2>2. CASE Starts(r)
    <3>1. PICK op \in Operations, u \in IDs, doc \in Documents :
            StartsSignUp(r, op, u, doc) \/ StartsChange(r, op, u, doc)
      BY <2>2 DEF Starts
    <3>2. Begin(r, op, u, doc)
      BY <3>1 DEF StartsSignUp, StartsChange
    <3>3. /\ req'[r].pc = "read" /\ req'[r].op = op /\ req'[r].id = u
          /\ req'[r].doc = doc
          /\ \A s \in Requests \ {r} : req'[s] = req[s]
          /\ users' = users
      BY <1>0, <3>2, BeginFacts
    <3>4. Unclaimed(r)'
      <4>1. CASE StartsSignUp(r, op, u, doc)
        BY <3>3, <4>1 DEF StartsSignUp, Unclaimed, InTransaction, HasSub
      <4>2. CASE StartsChange(r, op, u, doc)
        <5>1. op \notin SignUps /\ doc.sub \in {users[u].sub, None}
          BY <4>2 DEF StartsChange, SignUps, Updates
        <5> QED
          BY <3>3, <5>1 DEF Unclaimed, InTransaction
      <4> QED
        BY <3>1, <4>1, <4>2
    <3>5. ASSUME NEW s \in Requests, s # r PROVE Unclaimed(s)'
      BY <1>0, <3>3, <3>5 DEF UniqueInv, Unclaimed, InTransaction, HasSub
    <3> QED
      BY <1>0, <3>4, <3>5 DEF UniqueInv
  <2>3. CASE Loads(r)
    <3>1. PICK u \in IDs : LoadBySub(r, "setPlatformRoles", u, "granting")
      BY <2>3 DEF Loads, LoadBySub
    <3>2. /\ users' = users /\ req'[r].pc = "granting"
          /\ \A s \in Requests \ {r} : req'[s] = req[s]
      BY <1>0, <3>1 DEF LoadBySub, TypeOK, Idle
    <3>3. ASSUME NEW s \in Requests PROVE Unclaimed(s)'
      BY <1>0, <3>2 DEF UniqueInv, Unclaimed, InTransaction, HasSub
    <3> QED
      BY <1>0, <3>3 DEF UniqueInv
  <2>4. CASE WriteUser(r)
    <3>1. /\ req[r].pc = "read" /\ req'[r].pc = "written"
          /\ req'[r].op = req[r].op /\ req'[r].id = req[r].id
          /\ req'[r].doc = req[r].doc /\ req'[r].stale = req[r].stale
          /\ \A s \in Requests \ {r} : req'[s] = req[s]
          /\ users' = users
      BY <1>0, <2>4, WriteFacts
    <3>2. \A u \in IDs \ {req[r].id} :
            users[u] # None => users[u].email # req[r].doc.email
      <4>1. req[r].kept = None
        BY <1>0, <3>1 DEF HomeInv, Fresh, InTransaction
      <4> QED
        BY <2>4, <4>1 DEF WriteUser, EmailFree
    <3>3. Unclaimed(r)'
      BY <1>0, <3>1, <3>2 DEF UniqueInv, Unclaimed, InTransaction, HasSub
    <3>4. ASSUME NEW s \in Requests, s # r PROVE Unclaimed(s)'
      BY <1>0, <3>1, <3>4 DEF UniqueInv, Unclaimed, InTransaction, HasSub
    <3> QED
      BY <1>0, <3>3, <3>4 DEF UniqueInv
  <2>5. ASSUME CommitSignUp(r) \/ CommitUpdate(r) \/ CommitDeletion(r)
        PROVE  UniqueInv'
    <3> DEFINE u == req[r].id
    <3>1. EndOf(r) /\ req[r].pc = "written" /\ ~req[r].stale
      BY <2>5 DEF CommitSignUp, CommitUpdate, CommitDeletion, Commits
    <3>2. /\ u \in IDs /\ req[r].doc \in Documents /\ req[r].kept = None
          /\ Unclaimed(r) /\ Fresh(r) /\ InTransaction(r)
      BY <1>0, <3>1, ActiveRequest DEF UniqueInv, HomeInv, Fresh, InTransaction
    <3>3. users' \in {[users EXCEPT ![u] = req[r].doc], [users EXCEPT ![u] = None]}
      BY <2>5, <3>2 DEF CommitSignUp, CommitUpdate, CommitDeletion
    <3>4. \A v \in IDs \ {u} : users'[v] = users[v]
      BY <1>0, <3>3 DEF TypeOK
    <3>5. users'[u] \in {req[r].doc, None}
      BY <1>0, <3>2, <3>3 DEF TypeOK
    <3>6. users'[u] # None /\ req[r].op \notin SignUps =>
            /\ users[u] # None /\ req[r].doc.sub \in {users[u].sub, None}
      BY <3>1, <3>2 DEF Fresh, Unclaimed
    <3>7. ASSUME NEW s \in Requests \ {r}, InTransaction(s)', ~req'[s].stale
          PROVE  Unclaimed(s)'
      <4>1. /\ InTransaction(s) /\ ~req[s].stale /\ Unclaimed(s) /\ Fresh(s)
            /\ req'[s].pc = req[s].pc /\ req'[s].op = req[s].op
            /\ req'[s].id = req[s].id /\ req'[s].doc = req[s].doc
            /\ req[s].id \in IDs /\ req[s].id # u
            /\ req[s].doc.email # req[r].doc.email
        BY <3>1, <3>7, NotOvertaken
      <4>2. ASSUME req[s].op \in SignUps, req[s].doc.sub \notin contested \cup {None}
            PROVE  ~HasSub(req[s].doc.sub)'
        <5>1. ~HasSub(req[s].doc.sub)
          BY <4>1, <4>2 DEF Unclaimed
        <5>2. users'[u] # None => users'[u].sub # req[s].doc.sub
          <6>1. CASE req[r].op \in SignUps
            <7>1. ~Rivals(r, req[s].doc)
              BY <1>0, <4>2 DEF RivalsKnown
            <7> QED
              BY <3>5, <4>1, <4>2, <6>1, <7>1 DEF Rivals
          <6>2. CASE req[r].op \notin SignUps
            BY <3>2, <3>5, <3>6, <4>2, <5>1, <6>2 DEF HasSub
          <6> QED
            BY <6>1, <6>2
        <5> QED
          BY <3>4, <4>1, <5>1, <5>2 DEF HasSub
      <4>3. req[s].op \notin SignUps =>
              req[s].doc.sub \in {users'[req[s].id].sub, None}
        BY <3>4, <4>1 DEF Unclaimed
      <4>4. req[s].pc = "written" =>
              \A v \in IDs \ {req[s].id} :
                users'[v] # None => users'[v].email # req[s].doc.email
        BY <3>4, <3>5, <4>1 DEF Unclaimed
      <4> QED
        BY <1>0, <4>1, <4>2, <4>3, <4>4 DEF Unclaimed
    <3>8. ~InTransaction(r)'
      BY <1>0, <3>1, EndLeaves, IdleFacts DEF InTransaction
    <3>9. ASSUME NEW s \in Requests PROVE Unclaimed(s)'
      BY <3>7, <3>8 DEF Unclaimed
    <3> QED
      BY <1>0, <3>9 DEF UniqueInv
  <2>6. CASE SaveBySub(r)
    <3>1. req[r].pc = "saving" /\ req[r].op = "updateUserBySub"
      BY <1>0, <2>6 DEF SaveBySub, HomeInv
    <3> QED
      BY <1>0, <3>1, ActiveRequest
  <2>7. CASE Abort(r) \/ SaveRoles(r)
    <3>1. req' = [req EXCEPT ![r] = Idle] /\ users' = users
      BY <2>7 DEF Abort, SaveRoles
    <3>2. ASSUME NEW s \in Requests PROVE Unclaimed(s)'
      BY <1>0, <3>1, ResetFacts, IdleFacts DEF UniqueInv, Unclaimed, InTransaction, HasSub
    <3> QED
      BY <1>0, <3>2 DEF UniqueInv
  <2> QED
    BY <2>1, <2>2, <2>3, <2>4, <2>5, <2>6, <2>7
<1> QED
  BY <1>1, <1>2 DEF vars

LEMMA DirectoryInit == Init => D!Init
BY DEF Init, D!Init

\* A request that starts may contest a subject; nothing else is seen of what
\* requests do before they commit.
LEMMA Lookups ==
  ASSUME TypeOK, NEW r \in Requests,
         Starts(r) \/ Loads(r) \/ WriteUser(r) \/ Abort(r) \/ SaveRoles(r)
  PROVE  [D!Next]_<<users, closed, contested>>
<1>1. UNCHANGED <<users, closed>>
  BY DEF Starts, StartsSignUp, StartsChange, Begin, Loads, LoadBySub,
         WriteUser, Abort, SaveRoles
<1>2. CASE Starts(r)
  BY <1>1, <1>2, Contests DEF D!Next, D!Contest
<1>3. CASE Loads(r) \/ WriteUser(r) \/ Abort(r) \/ SaveRoles(r)
  BY <1>1, <1>3, Contests
<1> QED
  BY <1>2, <1>3

\* A commit is the step of the directory; every other step leaves it alone.
LEMMA DirectoryNext ==
  ASSUME UniqueInv, Transactions = "snapshot", "updateUserBySub" \notin Operations,
         [Next]_vars
  PROVE  [D!Next]_<<users, closed, contested>>
<1>0. TypeOK /\ HomeInv
  BY DEF UniqueInv, HomeInv
<1>1. CASE UNCHANGED vars
  BY <1>1 DEF vars
<1>2. CASE Next
  <2>1. PICK r \in Requests :
           \/ Starts(r) \/ Loads(r) \/ WriteUser(r)
           \/ CommitSignUp(r) \/ CommitUpdate(r) \/ CommitDeletion(r)
           \/ Abort(r) \/ SaveBySub(r) \/ SaveRoles(r)
    BY <1>0, <1>2, Steps
  <2> DEFINE u == req[r].id
  <2>2. CASE Starts(r) \/ Loads(r) \/ WriteUser(r) \/ Abort(r) \/ SaveRoles(r)
    BY <1>0, <2>2, Lookups
  <2>3. ASSUME EndOf(r), req[r].pc = "written", ~req[r].stale
        PROVE  /\ u \in IDs /\ req[r].doc \in Documents /\ req[r].kept = None
               /\ InTransaction(r) /\ Fresh(r) /\ Unclaimed(r)
    BY <1>0, <2>3, ActiveRequest DEF UniqueInv, HomeInv, Fresh, InTransaction
  <2>4. CASE CommitSignUp(r)
    <3>1. /\ EndOf(r) /\ req[r].pc = "written" /\ ~req[r].stale
          /\ req[r].op \in SignUps /\ closed' = closed
      BY <2>4 DEF CommitSignUp, Commits
    <3>2. users' = [users EXCEPT ![u] = req[r].doc]
      BY <2>3, <2>4, <3>1 DEF CommitSignUp
    <3>3. users[u] = None /\ u \notin closed
      BY <2>3, <3>1 DEF Fresh
    <3>4. ASSUME NEW v \in IDs, users[v] # None
          PROVE  /\ users[v].email # req[r].doc.email
                 /\ users[v].sub = req[r].doc.sub =>
                      req[r].doc.sub \in contested \cup {None}
      BY <2>3, <3>1, <3>3, <3>4 DEF Unclaimed, HasSub
    <3> QED
      BY <2>3, <2>4, <3>1, <3>2, <3>3, <3>4, Contests, <1>0 DEF D!Next, D!Open
  <2>5. CASE CommitUpdate(r)
    <3>1. /\ EndOf(r) /\ req[r].pc = "written" /\ ~req[r].stale
          /\ req[r].op \in Updates /\ closed' = closed
          /\ users' = [users EXCEPT ![u] = req[r].doc]
      BY <2>5 DEF CommitUpdate, Commits
    <3>2. req[r].op \notin SignUps
      BY <3>1 DEF SignUps, Updates
    <3>3. users[u] # None /\ req[r].doc.sub \in {users[u].sub, None}
      BY <2>3, <3>1, <3>2 DEF Fresh, Unclaimed
    <3>4. \A v \in IDs \ {u} : users[v] # None => users[v].email # req[r].doc.email
      BY <2>3, <3>1 DEF Unclaimed
    <3> QED
      BY <1>0, <2>3, <2>5, <3>1, <3>3, <3>4, Contests DEF D!Next, D!Change
  <2>6. CASE CommitDeletion(r)
    <3>1. /\ EndOf(r) /\ req[r].pc = "written" /\ ~req[r].stale
          /\ req[r].op = "deleteMe" /\ closed' = closed \cup {u}
          /\ users' = [users EXCEPT ![u] = None]
      BY <2>6 DEF CommitDeletion, Commits
    <3>2. users[u] # None
      BY <2>3, <3>1 DEF Fresh, SignUps
    <3> QED
      BY <1>0, <2>3, <2>6, <3>1, <3>2, Contests DEF D!Next, D!Close
  <2>7. CASE SaveBySub(r)
    <3>1. req[r].pc = "saving" /\ req[r].op = "updateUserBySub"
      BY <1>0, <2>7 DEF SaveBySub, HomeInv
    <3> QED
      BY <1>0, <3>1, ActiveRequest
  <2> QED
    BY <2>1, <2>2, <2>4, <2>5, <2>6, <2>7
<1> QED
  BY <1>1, <1>2 DEF vars

\* Under snapshot transactions and without UpdateUserBySub the accounts implement
\* Directory, whatever subjects and e-mails the sign-ups present: never are there
\* two accounts for an e-mail, nor for a subject unless sign-ups that presented
\* it with different e-mails overlapped, and no save brings a deleted account
\* back.
THEOREM AccountsImplementDirectory ==
  ASSUME Transactions = "snapshot", "updateUserBySub" \notin Operations
  PROVE  Spec => ImplementsDirectory
<1>1. UniqueInv /\ [Next]_vars => UniqueInv'
  BY UniqueNext
<1>2. UniqueInv /\ [Next]_vars => [D!Next]_<<users, closed, contested>>
  BY DirectoryNext
<1> QED
  BY <1>1, <1>2, UniqueInit, DirectoryInit, PTL DEF Spec, ImplementsDirectory, D!Spec
-----------------------------------------------------------------------------
(* The same without conflicts being noticed, as under read-committed        *)
(* transactions, where stored documents stay as they are.                   *)

SignUpsAndSaves ==
    SignUps \cup {"saveUser", "updateUserBySub", "setPlatformRoles"}

LEMMA SettledInit == Init => SettledInv
<1>1. ASSUME Init PROVE \A r \in Requests : req[r].pc = "idle"
  BY <1>1, IdleFacts DEF Init
<1> QED
  BY <1>1, TypeInit, RivalsInit DEF Init, SettledInv

\* Requests that stay as they are remain settled while the documents do and no
\* request but r changes, unless r takes their id or writes their e-mail.
LEMMA OthersSettled ==
  ASSUME SettledInv, NEW r \in Requests, UNCHANGED users, used \subseteq used',
         contested \subseteq contested',
         \A s \in Requests \ {r} : req'[s] = req[s],
         NEW s \in Requests \ {r}, req[s].pc # "idle",
         req'[r].pc # "idle" => req'[r].id # req[s].id \/ req[s].op \notin SignUps,
         Inserts(r)' /\ Inserts(s) => req[s].doc.email # req'[r].doc.email
  PROVE  Settled(s)'
<1>1. Settled(s) /\ req'[s] = req[s]
  BY DEF SettledInv
<1>2. Inserts(s)' <=> Inserts(s)
  BY <1>1 DEF Inserts
<1>3. \A x \in Requests \ {s} : x # r => req'[x] = req[x] /\ (Inserts(x)' <=> Inserts(x))
  BY DEF Inserts
<1>4. ASSUME req[s].op \in SignUps, NEW x \in Requests \ {s}, req'[x].pc # "idle"
      PROVE  req'[x].id # req[s].id
  BY <1>1, <1>3, <1>4 DEF Settled
<1>5. ASSUME Inserts(s), NEW x \in Requests \ {s}, Inserts(x)'
      PROVE  req'[x].doc.email # req[s].doc.email
  BY <1>1, <1>3, <1>5 DEF Settled
<1>6. InTransaction(s)' <=> InTransaction(s)
  BY <1>1 DEF InTransaction
<1> QED
  BY <1>1, <1>2, <1>4, <1>5, <1>6 DEF Settled

\* When r ends, the others remain settled: what it may have stored is the
\* document of a new user.
LEMMA EndSettled ==
  ASSUME SettledInv, NEW r \in Requests, req[r].pc # "idle",
         EndOf(r), used' = used, contested' = contested,
         \/ users' = users
         \/ /\ Inserts(r) /\ req[r].op \in SignUps
            /\ users' = [users EXCEPT ![req[r].id] = req[r].doc],
         NEW s \in Requests \ {r}, req'[s].pc # "idle"
  PROVE  Settled(s)'
<1>1. TypeOK
  BY DEF SettledInv
<1>2. /\ req'[s].pc = req[s].pc /\ req'[s].op = req[s].op
      /\ req'[s].id = req[s].id /\ req'[s].doc = req[s].doc
      /\ req'[s].kept = req[s].kept
  BY <1>1, EndLeaves
<1>3. Settled(s) /\ Settled(r) /\ req[r].id \in IDs
  BY <1>1, <1>2, ActiveRequest DEF SettledInv
<1>4. ASSUME NEW x \in Requests, req'[x].pc # "idle"
      PROVE  /\ req[x].pc # "idle" /\ req'[x].id = req[x].id
             /\ req'[x].doc = req[x].doc /\ (Inserts(x)' <=> Inserts(x))
  <2>1. x # r
    BY <1>1, <1>4, EndLeaves, IdleFacts
  <2> QED
    BY <1>1, <1>4, <2>1, EndLeaves DEF Inserts
<1>5. Inserts(s)' <=> Inserts(s)
  BY <1>2 DEF Inserts
<1>6. InTransaction(s)' <=> InTransaction(s)
  BY <1>2 DEF InTransaction
<1>a. ASSUME NEW v \in IDs
      PROVE  \/ users'[v] = users[v]
             \/ /\ v = req[r].id /\ Inserts(r) /\ req[r].op \in SignUps
                /\ users'[v] = req[r].doc
  <2>1. CASE users' = users
    BY <2>1
  <2>2. CASE /\ Inserts(r) /\ req[r].op \in SignUps
             /\ users' = [users EXCEPT ![req[r].id] = req[r].doc]
    BY <1>1, <2>2 DEF TypeOK
  <2> QED
    BY <2>1, <2>2
<1>b. req[r].op \in SignUps => req[s].id # req[r].id
  BY <1>2, <1>3 DEF Settled
<1>c. req[s].id \in IDs
  BY <1>1, <1>2, ActiveRequest
<1>7. ASSUME req[s].op \in SignUps
      PROVE  /\ users'[req[s].id] = None
             /\ \A x \in Requests \ {s} : req'[x].pc # "idle" => req'[x].id # req[s].id
  BY <1>3, <1>4, <1>7, <1>a, <1>b, <1>c DEF Settled
<1>d. ASSUME req[s].op \in SignUps, req[s].doc.sub \notin contested \cup {None},
             NEW v \in IDs, users'[v] # None, users'[v].sub = req[s].doc.sub
      PROVE  users'[v].email = req[s].doc.email
  <2>1. CASE users'[v] = users[v]
    BY <1>3, <1>d, <2>1 DEF Settled
  <2>2. CASE req[r].op \in SignUps /\ users'[v] = req[r].doc
    <3>1. ~Rivals(r, req[s].doc)
      BY <1>d DEF SettledInv, RivalsKnown
    <3> QED
      BY <1>d, <2>2, <3>1 DEF Rivals
  <2> QED
    BY <1>a, <2>1, <2>2
<1>8. ASSUME req[s].op \in {"saveUser", "updateUserBySub"}
      PROVE  users'[req[s].id] = req[s].doc
  BY <1>3, <1>8, <1>a, <1>b, <1>c DEF Settled
<1>9. ASSUME Inserts(s)
      PROVE  /\ \A v \in IDs \ {req[s].id} :
                  users'[v] # None => users'[v].email # req[s].doc.email
             /\ \A x \in Requests \ {s} :
                  Inserts(x)' => req'[x].doc.email # req[s].doc.email
  <2>1. \A v \in IDs \ {req[s].id} : users[v] # None => users[v].email # req[s].doc.email
    BY <1>3, <1>9 DEF Settled
  <2>2. Inserts(r) => req[r].doc.email # req[s].doc.email
    BY <1>3, <1>9 DEF Settled
  <2>3. \A v \in IDs : \/ users'[v] = users[v]
                       \/ Inserts(r) /\ users'[v] = req[r].doc
    BY <1>a
  <2>4. ASSUME NEW x \in Requests \ {s}, Inserts(x)'
        PROVE  req'[x].doc.email # req[s].doc.email
    BY <1>3, <1>4, <1>9, <2>4 DEF Settled, Inserts
  <2> QED
    BY <2>1, <2>2, <2>3, <2>4
<1> QED
  BY <1>2, <1>3, <1>5, <1>6, <1>7, <1>8, <1>9, <1>d DEF Settled

\* A save of a document that nothing changes.
LEMMA SavesNothing ==
  ASSUME SettledInv, Operations \subseteq SignUpsAndSaves, NEW r \in Requests,
         CommitUpdate(r) \/ SaveBySub(r)
  PROVE  /\ EndOf(r) /\ req[r].pc # "idle"
         /\ UNCHANGED <<users, used, closed, contested>>
<1>1. TypeOK
  BY DEF SettledInv
<1>2. /\ EndOf(r) /\ UNCHANGED <<used, closed, contested>>
      /\ users' = [users EXCEPT ![req[r].id] = req[r].doc]
      /\ req[r].op \in Updates \/ req[r].pc = "saving"
      /\ req[r].pc \in {"written", "saving"}
  BY DEF CommitUpdate, SaveBySub, Commits
<1>3. req[r].op \in {"saveUser", "updateUserBySub"}
  BY <1>1, <1>2, ActiveRequest DEF SettledInv, Updates, SignUpsAndSaves, SignUps
<1>4. users[req[r].id] = req[r].doc
  BY <1>2, <1>3 DEF SettledInv, Settled
<1>5. users' = users
  BY <1>1, <1>2, <1>4 DEF TypeOK
<1> QED
  BY <1>2, <1>5

LEMMA SettledNext ==
  ASSUME SettledInv, Operations \subseteq SignUpsAndSaves, [Next]_vars
  PROVE  SettledInv'
<1>0. TypeOK /\ TypeOK' /\ RivalsKnown' /\ contested \subseteq contested'
  BY TypeNext, RivalsNext DEF SettledInv
<1>1. CASE UNCHANGED vars
  BY <1>0, <1>1 DEF vars, SettledInv, Settled, Inserts, InTransaction
<1>2. CASE Next
  <2>1. PICK r \in Requests :
           \/ Starts(r) \/ Loads(r) \/ WriteUser(r)
           \/ CommitSignUp(r) \/ CommitUpdate(r) \/ CommitDeletion(r)
           \/ Abort(r) \/ SaveBySub(r) \/ SaveRoles(r)
    BY <1>0, <1>2, Steps
  \* Steps that leave the users alone, and their own request settled.
  <2>a. ASSUME UNCHANGED <<users, closed>>, used \subseteq used',
               \A s \in Requests : s # r /\ req'[s].pc # "idle" => Settled(s)',
               req'[r].pc # "idle" => Settled(r)',
               \A s \in Requests :
                 req'[s].pc = "saving" => req'[s].op = "updateUserBySub"
        PROVE  SettledInv'
    <3>1. \A s \in Requests : req'[s].pc # "idle" => Settled(s)'
      BY <2>a
    <3> QED
      BY <1>0, <2>a, <3>1 DEF SettledInv
  <2>2. CASE Starts(r)
    <3>1. PICK op \in Operations, u \in IDs, doc \in Documents :
            StartsSignUp(r, op, u, doc) \/ StartsChange(r, op, u, doc)
      BY <2>2 DEF Starts
    <3>2. Begin(r, op, u, doc)
      BY <3>1 DEF StartsSignUp, StartsChange
    <3>3. /\ req'[r].pc = "read" /\ req'[r].op = op /\ req'[r].id = u
          /\ req'[r].doc = doc
          /\ \A s \in Requests \ {r} : req'[s] = req[s]
          /\ UNCHANGED <<users, closed>>
      BY <1>0, <3>2, BeginFacts
    <3>4. used \subseteq used'
      BY <3>1 DEF StartsSignUp, StartsChange, NewID
    <3>5. \A s \in Requests : req[s].pc # "idle" => req[s].id \in used
      BY DEF SettledInv, Settled
    <3>6. CASE StartsSignUp(r, op, u, doc)
      <4>1. /\ op \in SignUps /\ u \notin used /\ u \in used' /\ users[u] = None
            /\ HasSub(doc.sub) => doc.sub = None
        BY <3>6 DEF StartsSignUp, NewID, SettledInv
      <4>2. op \notin {"saveUser", "updateUserBySub"}
        BY <4>1 DEF SignUps
      <4>3. \A s \in Requests \ {r} : req'[s].pc # "idle" => req'[s].id # u
        BY <3>3, <3>5, <4>1
      <4>4. Settled(r)'
        BY <3>3, <4>1, <4>2, <4>3 DEF Settled, InTransaction, Inserts, HasSub
      <4>5. ASSUME NEW s \in Requests, s # r, req'[s].pc # "idle" PROVE Settled(s)'
        BY <1>0, <3>3, <3>4, <4>3, <4>5, OthersSettled DEF Inserts
      <4> QED
        BY <2>a, <3>3, <3>4, <4>4, <4>5 DEF SettledInv
    <3>7. CASE StartsChange(r, op, u, doc)
      <4>1. op = "saveUser" /\ users[u] # None /\ doc = users[u] /\ used' = used
        BY <3>7 DEF StartsChange, Updates, SignUpsAndSaves, SignUps
      <4>2. u \in used
        BY <4>1 DEF SettledInv
      <4>3. Settled(r)'
        BY <3>3, <4>1, <4>2 DEF Settled, SignUps, Inserts
      <4>4. ASSUME NEW s \in Requests, s # r, req'[s].pc # "idle" PROVE Settled(s)'
        <5>1. req[s].pc # "idle" /\ Settled(s)
          BY <3>3, <4>4 DEF SettledInv
        <5>2. u # req[s].id \/ req[s].op \notin SignUps
          BY <4>1, <5>1 DEF Settled
        <5> QED
          BY <1>0, <3>3, <3>4, <4>4, <5>1, <5>2, OthersSettled DEF Inserts
      <4> QED
        BY <2>a, <3>3, <3>4, <4>3, <4>4 DEF SettledInv
    <3> QED
      BY <3>1, <3>6, <3>7
  <2>3. CASE Loads(r)
    <3>1. PICK u \in IDs, op \in Operations, pc \in {"saving", "granting"} :
            /\ LoadBySub(r, op, u, pc)
            /\ <<op, pc>> \in {<<"updateUserBySub", "saving">>,
                              <<"setPlatformRoles", "granting">>}
      <4>1. PICK u \in IDs : \/ LoadBySub(r, "updateUserBySub", u, "saving")
                            \/ LoadBySub(r, "setPlatformRoles", u, "granting")
        BY <2>3 DEF Loads
      <4>2. CASE LoadBySub(r, "updateUserBySub", u, "saving")
        <5>1. "updateUserBySub" \in Operations
          BY <4>2 DEF LoadBySub
        <5> QED
          BY <4>2, <5>1
      <4>3. CASE LoadBySub(r, "setPlatformRoles", u, "granting")
        <5>1. "setPlatformRoles" \in Operations
          BY <4>3 DEF LoadBySub
        <5> QED
          BY <4>3, <5>1
      <4> QED
        BY <4>1, <4>2, <4>3
    <3>2. /\ req'[r].pc = pc /\ req'[r].op = op /\ req'[r].id = u
          /\ req'[r].doc = users[u] /\ users[u] # None
          /\ \A s \in Requests \ {r} : req'[s] = req[s]
          /\ UNCHANGED <<users, closed, used>>
      BY <1>0, <3>1 DEF LoadBySub, TypeOK, Idle
    <3>3. u \in used /\ op \notin SignUps
      BY <3>1, <3>2 DEF SettledInv, SignUps
    <3>4. Settled(r)'
      BY <3>1, <3>2, <3>3 DEF Settled, Inserts
    <3>5. ASSUME NEW s \in Requests, s # r, req'[s].pc # "idle" PROVE Settled(s)'
      <4>1. req[s].pc # "idle" /\ Settled(s)
        BY <3>2, <3>5 DEF SettledInv
      <4>2. u # req[s].id \/ req[s].op \notin SignUps
        BY <3>2, <4>1 DEF Settled
      <4> QED
        BY <1>0, <3>1, <3>2, <3>5, <4>1, <4>2, OthersSettled DEF Inserts
    <3> QED
      BY <2>a, <3>1, <3>2, <3>4, <3>5 DEF SettledInv
  <2>4. CASE WriteUser(r)
    <3>1. /\ req[r].pc = "read" /\ req'[r].pc = "written"
          /\ req'[r].op = req[r].op /\ req'[r].id = req[r].id
          /\ req'[r].doc = req[r].doc
          /\ req'[r].kept = None => EmailFree(r)
          /\ \A s \in Requests \ {r} : req'[s] = req[s]
          /\ UNCHANGED <<users, used, closed>>
      BY <1>0, <2>4, WriteStarts
    <3>2. Settled(r)
      BY <3>1 DEF SettledInv
    <3>3. \A s \in Requests \ {r} : Inserts(s)' <=> Inserts(s)
      BY <3>1 DEF Inserts
    <3>4. ASSUME Inserts(r)'
          PROVE  /\ \A v \in IDs \ {req[r].id} :
                      users[v] # None => users[v].email # req[r].doc.email
                 /\ \A s \in Requests \ {r} :
                      Inserts(s) => req[s].doc.email # req[r].doc.email
      BY <3>1, <3>4 DEF Inserts, EmailFree
    <3>5. Settled(r)'
      BY <1>0, <3>1, <3>2, <3>3, <3>4 DEF Settled, InTransaction
    <3>6. ASSUME NEW s \in Requests, s # r, req'[s].pc # "idle" PROVE Settled(s)'
      <4>1. req[s].pc # "idle" /\ Settled(s)
        BY <3>1, <3>6 DEF SettledInv
      <4>2. req[r].id # req[s].id \/ req[s].op \notin SignUps
        BY <3>1, <3>6, <4>1 DEF Settled
      <4> QED
        BY <1>0, <3>1, <3>4, <3>6, <4>1, <4>2, OthersSettled
    <3> QED
      BY <2>a, <3>1, <3>5, <3>6 DEF SettledInv
  <2>5. ASSUME EndOf(r), req[r].pc # "idle", UNCHANGED <<used, closed, contested>>,
               \/ users' = users
               \/ /\ Inserts(r) /\ req[r].op \in SignUps
                  /\ users' = [users EXCEPT ![req[r].id] = req[r].doc]
        PROVE  SettledInv'
    <3>1. \A s \in Requests : s # r /\ req'[s].pc # "idle" => Settled(s)'
      BY <2>5, EndSettled
    <3>2. req'[r].pc = "idle"
      BY <1>0, <2>5, EndLeaves, IdleFacts
    <3>3. \A s \in Requests \ {r} : req'[s].pc = req[s].pc /\ req'[s].op = req[s].op
      BY <1>0, <2>5, EndLeaves
    <3>4. Settled(r) /\ req[r].id \in IDs /\ req[r].doc \in Documents
      BY <1>0, <2>5, ActiveRequest DEF SettledInv
    <3>5. ASSUME NEW u \in IDs, users'[u] # None
          PROVE  u \in used'
      <4>1. CASE users'[u] = users[u]
        BY <2>5, <3>5, <4>1 DEF SettledInv
      <4>2. CASE users'[u] # users[u]
        <5>1. u = req[r].id /\ users'[u] = req[r].doc /\ req[r].op \in SignUps
          BY <1>0, <2>5, <4>2 DEF TypeOK
        <5> QED
          BY <2>5, <3>4, <5>1 DEF Settled
      <4> QED
        BY <4>1, <4>2
    <3> QED
      BY <1>0, <2>5, <3>1, <3>2, <3>3, <3>5 DEF SettledInv
  <2>6. CASE CommitSignUp(r)
    <3>1. /\ EndOf(r) /\ req[r].pc = "written" /\ UNCHANGED <<used, closed, contested>>
          /\ req[r].op \in SignUps
          /\ users' = IF req[r].kept = None
                        THEN [users EXCEPT ![req[r].id] = req[r].doc] ELSE users
      BY <2>6 DEF CommitSignUp, Commits
    <3> QED
      BY <2>5, <3>1 DEF Inserts
  <2>7. CASE CommitUpdate(r) \/ SaveBySub(r)
    <3>1. /\ EndOf(r) /\ req[r].pc # "idle" /\ UNCHANGED <<used, closed, contested>>
          /\ users' = users
      BY <1>0, <2>7, SavesNothing
    <3> QED
      BY <2>5, <3>1
  <2>8. CASE CommitDeletion(r)
    <3>1. req[r].op = "deleteMe" /\ req[r].pc # "idle"
      BY <2>8 DEF CommitDeletion, Commits
    <3> QED
      BY <1>0, <3>1, ActiveRequest DEF SignUpsAndSaves, SignUps
  <2>9. CASE Abort(r) \/ SaveRoles(r)
    <3>1. req' = [req EXCEPT ![r] = Idle] /\ UNCHANGED <<users, used, closed>>
      BY <2>9 DEF Abort, SaveRoles
    <3>2. req'[r].pc = "idle" /\ \A s \in Requests \ {r} : req'[s] = req[s]
      BY <1>0, <3>1, ResetFacts, IdleFacts
    <3>3. ASSUME NEW s \in Requests, s # r, req'[s].pc # "idle" PROVE Settled(s)'
      BY <1>0, <3>1, <3>2, <3>3, OthersSettled DEF Inserts
    <3> QED
      BY <2>a, <3>1, <3>2, <3>3 DEF SettledInv
  <2> QED
    BY <2>1, <2>2, <2>3, <2>4, <2>6, <2>7, <2>8, <2>9
<1> QED
  BY <1>1, <1>2

\* A sign-up that commits opens an account; nothing else changes one.
LEMMA SettledDirectory ==
  ASSUME SettledInv, Operations \subseteq SignUpsAndSaves, [Next]_vars
  PROVE  [D!Next]_<<users, closed, contested>>
<1>0. TypeOK
  BY DEF SettledInv
<1>1. CASE UNCHANGED vars
  BY <1>1 DEF vars
<1>2. CASE Next
  <2>1. PICK r \in Requests :
           \/ Starts(r) \/ Loads(r) \/ WriteUser(r)
           \/ CommitSignUp(r) \/ CommitUpdate(r) \/ CommitDeletion(r)
           \/ Abort(r) \/ SaveBySub(r) \/ SaveRoles(r)
    BY <1>0, <1>2, Steps
  <2>2. CASE Starts(r) \/ Loads(r) \/ WriteUser(r) \/ Abort(r) \/ SaveRoles(r)
    BY <1>0, <2>2, Lookups
  <2>3. CASE CommitSignUp(r)
    <3> DEFINE u == req[r].id
               doc == req[r].doc
    <3>1. /\ req[r].pc = "written" /\ UNCHANGED <<closed, contested>> /\ req[r].op \in SignUps
          /\ users' = IF req[r].kept = None THEN [users EXCEPT ![u] = doc] ELSE users
      BY <2>3 DEF CommitSignUp, Commits
    <3>2. CASE req[r].kept # None
      BY <3>1, <3>2
    <3>3. CASE req[r].kept = None
      <4>1. u \in IDs /\ doc \in Documents /\ Settled(r) /\ Inserts(r)
        BY <1>0, <3>1, <3>3, ActiveRequest DEF SettledInv, Inserts
      <4>2. users[u] = None /\ u \notin closed
        BY <3>1, <4>1 DEF Settled, SettledInv
      <4>3. ASSUME NEW v \in IDs, users[v] # None
            PROVE  /\ users[v].email # doc.email
                   /\ users[v].sub = doc.sub => doc.sub \in contested \cup {None}
        BY <3>1, <4>1, <4>2, <4>3 DEF Settled
      <4>4. users' = [users EXCEPT ![u] = doc]
        BY <3>1, <3>3
      <4> QED
        BY <3>1, <4>1, <4>2, <4>3, <4>4 DEF D!Next, D!Open
    <3> QED
      BY <3>2, <3>3
  <2>4. CASE CommitUpdate(r) \/ SaveBySub(r)
    BY <2>4, SavesNothing
  <2>5. CASE CommitDeletion(r)
    <3>1. req[r].op = "deleteMe" /\ req[r].pc # "idle"
      BY <2>5 DEF CommitDeletion, Commits
    <3> QED
      BY <1>0, <3>1, ActiveRequest DEF SignUpsAndSaves, SignUps
  <2> QED
    BY <2>1, <2>2, <2>3, <2>4, <2>5
<1> QED
  BY <1>1, <1>2 DEF vars

\* Whatever the transactions are, in particular where the last copy wins, and
\* whatever subjects and e-mails are presented, the index on e-mails and the
\* look-ups of the sign-ups make the accounts implement Directory while people
\* sign up and whole documents are saved, in transactions or outside of them:
\* two accounts of a subject need two overlapping sign-ups with two e-mails.
THEOREM IndexImplementsDirectory ==
  ASSUME Operations \subseteq SignUpsAndSaves
  PROVE  Spec => ImplementsDirectory
<1>1. SettledInv /\ [Next]_vars => SettledInv'
  BY SettledNext
<1>2. SettledInv /\ [Next]_vars => [D!Next]_<<users, closed, contested>>
  BY SettledDirectory
<1> QED
  BY <1>1, <1>2, SettledInit, DirectoryInit, PTL
     DEF Spec, ImplementsDirectory, D!Spec

-----------------------------------------------------------------------------
(* What is left of the unity of user and home when conflicts go unnoticed.  *)

\* Every user has its home; a home may have lost its user.
HomesStay == \A u \in IDs : users[u] # None => u \in homes

\* What a save writes over is still there.
HomesStayInv ==
  /\ TypeOK
  /\ HomesStay
  /\ \A r \in Requests :
       req[r].pc # "idle" /\ req[r].op \notin SignUps => users[req[r].id] # None
  /\ \A r \in Requests : req[r].pc = "saving" => req[r].op \notin SignUps

\* Users and homes only grow, and a request that has nothing to save is no
\* obstacle.
LEMMA HomesGrow ==
  ASSUME HomesStayInv, TypeOK', homes \subseteq homes',
         \A u \in IDs : users'[u] # None => users[u] # None \/ u \in homes',
         \A u \in IDs : users[u] # None => users'[u] # None,
         \A r \in Requests : req'[r].pc # "idle" /\ req'[r].op \notin SignUps =>
           \/ req[r].pc # "idle" /\ req'[r].op = req[r].op /\ req'[r].id = req[r].id
           \/ req'[r].id \in IDs /\ users[req'[r].id] # None,
         \A r \in Requests : req'[r].pc = "saving" =>
           \/ req[r].pc = "saving" /\ req'[r].op = req[r].op
           \/ req'[r].op \notin SignUps
  PROVE  HomesStayInv'
<1>1. HomesStay'
  BY DEF HomesStayInv, HomesStay
<1>2. ASSUME NEW r \in Requests, req'[r].pc # "idle", req'[r].op \notin SignUps
      PROVE  users'[req'[r].id] # None
  <2>1. CASE req[r].pc # "idle" /\ req'[r].op = req[r].op /\ req'[r].id = req[r].id
    BY <1>2, <2>1, ActiveRequest DEF HomesStayInv
  <2>2. CASE req'[r].id \in IDs /\ users[req'[r].id] # None
    BY <2>2
  <2> QED
    BY <1>2, <2>1, <2>2
<1>3. \A r \in Requests : req'[r].pc = "saving" => req'[r].op \notin SignUps
  BY DEF HomesStayInv
<1> QED
  BY <1>1, <1>2, <1>3 DEF HomesStayInv

LEMMA HomesStayNext ==
  ASSUME HomesStayInv, "deleteMe" \notin Operations, [Next]_vars
  PROVE  HomesStayInv'
<1>0. TypeOK /\ TypeOK'
  BY TypeNext DEF HomesStayInv
<1>1. CASE UNCHANGED vars
  BY <1>0, <1>1, HomesGrow DEF vars
<1>2. CASE Next
  <2>1. PICK r \in Requests :
           \/ Starts(r) \/ Loads(r) \/ WriteUser(r)
           \/ CommitSignUp(r) \/ CommitUpdate(r) \/ CommitDeletion(r)
           \/ Abort(r) \/ SaveBySub(r) \/ SaveRoles(r)
    BY <1>0, <1>2, Steps
  <2>2. CASE Starts(r)
    <3>1. PICK op \in Operations, u \in IDs, doc \in Documents :
            StartsSignUp(r, op, u, doc) \/ StartsChange(r, op, u, doc)
      BY <2>2 DEF Starts
    <3>2. Begin(r, op, u, doc)
      BY <3>1 DEF StartsSignUp, StartsChange
    <3>3. /\ req'[r].op = op /\ req'[r].id = u /\ req'[r].pc = "read"
          /\ \A s \in Requests \ {r} : req'[s] = req[s]
          /\ UNCHANGED <<users, homes>>
      BY <1>0, <3>2, BeginFacts
    <3>4. op \notin SignUps => users[u] # None
      BY <3>1 DEF StartsSignUp, StartsChange
    <3> QED
      BY <1>0, <3>3, <3>4, HomesGrow
  <2>3. CASE Loads(r)
    <3>1. PICK u \in IDs : \/ LoadBySub(r, "updateUserBySub", u, "saving")
                           \/ LoadBySub(r, "setPlatformRoles", u, "granting")
      BY <2>3 DEF Loads
    <3>2. PICK op, pc : /\ op \in {"updateUserBySub", "setPlatformRoles"}
                        /\ LoadBySub(r, op, u, pc)
      BY <3>1
    <3>3. /\ users[u] # None /\ UNCHANGED <<users, homes>>
          /\ req' = [req EXCEPT ![r] = [Idle EXCEPT !.pc = pc, !.op = op, !.id = u,
                                                    !.doc = users[u]]]
      BY <3>2 DEF LoadBySub
    <3>4. /\ req'[r].id = u /\ req'[r].op = op
          /\ \A s \in Requests \ {r} : req'[s] = req[s]
      BY <1>0, <3>3 DEF TypeOK, Idle
    <3>5. req'[r].op \notin SignUps
      BY <3>2, <3>4 DEF SignUps
    <3> QED
      BY <1>0, <3>3, <3>4, <3>5, HomesGrow
  <2>4. CASE WriteUser(r)
    <3>1. /\ req[r].pc = "read" /\ req'[r].pc = "written"
          /\ req'[r].op = req[r].op /\ req'[r].id = req[r].id
          /\ \A s \in Requests \ {r} : req'[s] = req[s]
          /\ users' = users
      BY <1>0, <2>4, WriteStarts
    <3>2. homes' = homes
      BY <2>4 DEF WriteUser
    <3> QED
      BY <1>0, <3>1, <3>2, HomesGrow
  <2>5. ASSUME EndOf(r), homes \subseteq homes',
               \A u \in IDs : users'[u] # None => users[u] # None \/ u \in homes',
               \A u \in IDs : users[u] # None => users'[u] # None
        PROVE  HomesStayInv'
    <3>1. req'[r].pc = "idle"
      BY <1>0, <2>5, EndLeaves, IdleFacts
    <3>2. \A s \in Requests \ {r} : /\ req'[s].pc = req[s].pc
                                    /\ req'[s].op = req[s].op
                                    /\ req'[s].id = req[s].id
      BY <1>0, <2>5, EndLeaves
    <3> QED
      BY <1>0, <2>5, <3>1, <3>2, HomesGrow
  <2>6. CASE CommitSignUp(r)
    <3>1. /\ EndOf(r) /\ req[r].pc = "written"
          /\ homes' = homes \cup {req[r].id}
          /\ \/ users' = users
             \/ users' = [users EXCEPT ![req[r].id] = req[r].doc]
      BY <2>6 DEF CommitSignUp, Commits
    <3>2. req[r].doc # None
      BY <1>0, <3>1, ActiveRequest, AccountsAssumption
    <3>3. \A u \in IDs : \/ users'[u] = users[u]
                         \/ u = req[r].id /\ users'[u] # None
      <4>1. CASE users' = users
        BY <4>1
      <4>2. CASE users' = [users EXCEPT ![req[r].id] = req[r].doc]
        BY <1>0, <3>2, <4>2 DEF TypeOK
      <4> QED
        BY <3>1, <4>1, <4>2
    <3> QED
      BY <2>5, <3>1, <3>3
  <2>7. CASE CommitUpdate(r) \/ SaveBySub(r)
    <3>1. /\ EndOf(r) /\ req[r].pc # "idle" /\ homes \subseteq homes'
          /\ users' = [users EXCEPT ![req[r].id] = req[r].doc]
      BY <2>7 DEF CommitUpdate, SaveBySub, Commits
    <3>2. req[r].op \notin SignUps
      BY <2>7 DEF CommitUpdate, SaveBySub, Updates, SignUps, HomesStayInv
    <3>3. req[r].id \in IDs /\ req[r].doc # None /\ users[req[r].id] # None
      BY <1>0, <3>1, <3>2, ActiveRequest, AccountsAssumption DEF HomesStayInv
    <3>4. \A u \in IDs : users'[u] # None <=> users[u] # None
      BY <1>0, <3>1, <3>3 DEF TypeOK
    <3> QED
      BY <2>5, <3>1, <3>4
  <2>8. CASE CommitDeletion(r)
    <3>1. req[r].op = "deleteMe" /\ req[r].pc # "idle"
      BY <2>8 DEF CommitDeletion, Commits
    <3> QED
      BY <1>0, <3>1, ActiveRequest
  <2>9. CASE Abort(r) \/ SaveRoles(r)
    <3>1. req' = [req EXCEPT ![r] = Idle] /\ UNCHANGED <<users, homes>>
      BY <2>9 DEF Abort, SaveRoles
    <3>2. req'[r].pc = "idle" /\ \A s \in Requests \ {r} : req'[s] = req[s]
      BY <1>0, <3>1, ResetFacts, IdleFacts
    <3> QED
      BY <1>0, <3>1, <3>2, HomesGrow
  <2> QED
    BY <2>1, <2>2, <2>3, <2>4, <2>6, <2>7, <2>8, <2>9
<1> QED
  BY <1>1, <1>2

\* As long as nobody deletes an account, no user is left without its home,
\* whatever the transactions are, and with UpdateUserBySub outside of them: what
\* a lost conflict may leave behind is a home without its user (FindOrCreate).
THEOREM NoUserWithoutHome ==
  ASSUME "deleteMe" \notin Operations
  PROVE  Spec => []HomesStay
<1>1. Init => HomesStayInv
  <2>1. ASSUME Init PROVE \A r \in Requests : req[r].pc = "idle"
    BY <2>1, IdleFacts DEF Init
  <2> QED
    BY <2>1, TypeInit DEF Init, HomesStayInv, HomesStay
<1>2. HomesStayInv /\ [Next]_vars => HomesStayInv'
  BY HomesStayNext
<1>3. HomesStayInv => HomesStay
  BY DEF HomesStayInv
<1> QED
  BY <1>1, <1>2, <1>3, PTL DEF Spec
=============================================================================
