-------------------------- MODULE AdminUsers_proofs --------------------------
(* Theorems about AdminUsers, for every set of accounts and requests.      *)
EXTENDS AdminUsers, FiniteSetTheorems, TLAPS

\* A step of some request.
RequestStep == \E r \in Requests : Arrive(r) \/ Serve(r) \/ RepoError(r)

(***************************************************************************)
(* Every action of a request either ends it or moves it on, and writes at  *)
(* most the record of its target; the type invariant follows action by     *)
(* action.                                                                 *)
(***************************************************************************)
LEMMA TypeInit == Init => TypeOK
<1> SUFFICES ASSUME Init PROVE TypeOK
  OBVIOUS
<1>1. admin \in [Admins -> AdminUser \cup {None}]
  BY DEF Init, AdminUser, Roles, Statuses
<1>2. req \in [Requests -> Request]
  BY DEF Init, Request
<1>3. QED
  BY <1>1, <1>2 DEF Init, TypeOK

\* What the prover needs of a request's type, by program counter.
LEMMA ActiveRequest ==
  ASSUME NEW q \in Request, q.pc # "idle"
  PROVE  /\ q \in [pc: {"authorized", "counting", "locking", "checking",
                        "guardedSave", "inserting", "saving"},
                   kind: Kinds, op: Admins \cup {None}, target: Admins,
                   role: Roles, doc: AdminUser \cup {None}]
         /\ q.pc = "authorized" => q.op \in Admins
         /\ q.pc # "authorized" => q.doc \in AdminUser
         /\ q # Idle
<1>1. q # Idle
  <2>1. Idle.pc = "idle"
    BY DEF Idle
  <2>2. QED
    BY <2>1, Zenon
<1>2. CASE q \in [pc: {"authorized"}, kind: Kinds \ {"signIn"}, op: Admins,
                  target: Admins, role: Roles, doc: {None}]
  <2>1. q.pc = "authorized" /\ q.kind \in Kinds /\ q.op \in Admins
          /\ q.target \in Admins /\ q.role \in Roles /\ q.doc = None
    BY <1>2
  <2>2. q = [pc |-> q.pc, kind |-> q.kind, op |-> q.op, target |-> q.target,
             role |-> q.role, doc |-> q.doc]
    BY <1>2
  <2>3. QED
    BY <1>1, <2>1, <2>2
<1>3. CASE q \in [pc: {"counting", "locking", "checking", "guardedSave",
                       "inserting", "saving"},
                  kind: Kinds, op: Admins \cup {None}, target: Admins,
                  role: Roles, doc: AdminUser]
  BY <1>1, <1>3
<1>4. QED
  BY <1>1, <1>2, <1>3 DEF Request

LEMMA RequestShape ==
  ASSUME TypeOK, NEW r \in Requests, req[r].pc # "idle"
  PROVE  /\ req[r].target \in Admins
         /\ req[r].role \in Roles
         /\ req[r].pc = "authorized" => req[r].op \in Admins
         /\ req[r].pc # "authorized" => req[r].doc \in AdminUser
         /\ req[r] # Idle
<1>1. req[r] \in Request
  BY DEF TypeOK
<1>2. QED
  BY <1>1, ActiveRequest

\* A request may always end, and may move to any later program counter with
\* a well-typed copy.
LEMMA FinishType ==
  ASSUME TypeOK, NEW r \in Requests, Finish(r)
  PROVE  req' \in [Requests -> Request]
BY DEF TypeOK, Finish, Request

LEMMA AdvanceType ==
  ASSUME TypeOK, NEW r \in Requests, req[r].pc # "idle",
         NEW pc \in {"counting", "locking", "checking", "guardedSave",
                     "inserting", "saving"},
         NEW doc \in AdminUser
  PROVE  [req EXCEPT ![r].pc = pc, ![r].doc = doc] \in [Requests -> Request]
<1>1. [req[r] EXCEPT !.pc = pc, !.doc = doc] \in Request
  <2>1. req[r] \in Request
    BY DEF TypeOK
  <2>2. QED
    BY <2>1, ActiveRequest DEF Request
<1>2. QED
  BY <1>1 DEF TypeOK

LEMMA StepType ==
  ASSUME TypeOK, NEW r \in Requests, req[r].pc \notin {"idle", "authorized"},
         NEW pc \in {"counting", "locking", "checking", "guardedSave",
                     "inserting", "saving"}
  PROVE  [req EXCEPT ![r].pc = pc] \in [Requests -> Request]
<1>1. [req[r] EXCEPT !.pc = pc] \in Request
  <2>1. req[r] \in Request
    BY DEF TypeOK
  <2>2. QED
    BY <2>1, ActiveRequest DEF Request
<1>2. QED
  BY <1>1 DEF TypeOK

LEMMA TypeNext == TypeOK /\ [Next]_vars => TypeOK'
<1> SUFFICES ASSUME TypeOK, [Next]_vars PROVE TypeOK'
  OBVIOUS
<1>1. CASE UNCHANGED vars
  BY <1>1 DEF vars, TypeOK
<1>2. CASE RequestStep /\ RecordHistory
  <2>1. trusted' \subseteq Admins /\ overtaken' \subseteq Requests
    BY <1>2 DEF RecordHistory, TypeOK
  <2>2. PICK r \in Requests : Arrive(r) \/ Serve(r) \/ RepoError(r)
    BY <1>2 DEF RequestStep
  <2>3. ASSUME NEW op \in Admins, NEW target \in Admins, NEW role \in Roles,
               NEW kind \in {"approve", "reject", "setRole"},
               Authorize(r, op, kind, target, role)
        PROVE  TypeOK'
    <3>1. [Idle EXCEPT !.pc = "authorized", !.kind = kind, !.op = op,
                       !.target = target, !.role = role] \in Request
      BY DEF Idle, Request, Kinds
    <3>2. QED
      BY <2>1, <2>3, <3>1 DEF Authorize, TypeOK
  <2>4. ASSUME NEW a \in Admins, NEW profileChanged \in BOOLEAN,
               SignIn(r, a, profileChanged)
        PROVE  TypeOK'
    <3>1. ASSUME NEW doc \in AdminUser, NEW pc \in {"inserting", "saving"}
          PROVE  [Idle EXCEPT !.pc = pc, !.kind = "signIn", !.target = a,
                              !.doc = doc] \in Request
      BY DEF Idle, Request, Kinds, Roles
    <3>2. NewAdminUser(a) \in AdminUser
      BY DEF NewAdminUser, AdminUser, Roles, Statuses
    <3>3. CASE ~Exists(a)
      BY <2>1, <2>4, <3>1, <3>2, <3>3 DEF SignIn, TypeOK
    <3>4. CASE Exists(a)
      <4>1. admin[a] \in AdminUser
        BY <3>4 DEF Exists, TypeOK
      <4>2. Reconcile(admin[a]) \in AdminUser
        BY <4>1 DEF Reconcile, AdminUser, Roles, Statuses
      <4>3. QED
        BY <2>1, <2>4, <3>1, <3>4, <4>1, <4>2 DEF SignIn, TypeOK
    <3>5. QED
      BY <3>3, <3>4
  <2>5. CASE Arrive(r)
    BY <2>3, <2>4, <2>5, AdminsAssumption DEF Arrive, Roles
  <2>6. CASE TargetNotFound(r)
    BY <2>1, <2>6, FinishType DEF TargetNotFound, TypeOK
  <2>7. CASE LoadForApprove(r)
    <3> DEFINE t == req[r].target
    <3>1. t \in Admins /\ req[r].op \in Admins
      BY <2>7, RequestShape DEF LoadForApprove
    <3>2. admin[t] \in AdminUser
      BY <2>7, <3>1 DEF LoadForApprove, Exists, TypeOK
    <3>3. Approve(admin[t], req[r].op) \in AdminUser
      BY <3>1, <3>2 DEF Approve, AdminUser, Roles, Statuses
    <3>4. CASE IsApproved(t)
      BY <2>1, <2>7, <3>4, FinishType DEF LoadForApprove, TypeOK
    <3>5. CASE ~IsApproved(t)
      <4>1. req' = [req EXCEPT ![r].pc = "saving",
                               ![r].doc = Approve(admin[t], req[r].op)]
        BY <2>7, <3>5 DEF LoadForApprove
      <4>2. req[r].pc # "idle"
        BY <2>7 DEF LoadForApprove
      <4>3. req' \in [Requests -> Request]
        BY <3>3, <4>1, <4>2, AdvanceType
      <4>4. QED
        BY <2>1, <2>7, <4>3 DEF LoadForApprove, TypeOK
    <3>6. QED
      BY <3>4, <3>5
  <2>8. CASE LoadForReject(r)
    <3> DEFINE t == req[r].target
    <3>1. t \in Admins
      BY <2>8, RequestShape DEF LoadForReject
    <3>2. admin[t] \in AdminUser
      BY <2>8, <3>1 DEF LoadForReject, Exists, TypeOK
    <3>3. Reject(admin[t]) \in AdminUser
      BY <3>2 DEF Reject, AdminUser, Statuses
    <3>4. req' \in [Requests -> Request]
      BY <2>8, <3>3, AdvanceType DEF LoadForReject
    <3>5. QED
      BY <2>1, <2>8, <3>4 DEF LoadForReject, TypeOK
  <2>9. CASE CountApproved(r)
    BY <2>1, <2>9, FinishType, StepType DEF CountApproved, TypeOK
  <2>10. CASE LoadForSetRole(r)
    <3> DEFINE t == req[r].target
    <3>1. t \in Admins /\ req[r].role \in Roles
      BY <2>10, RequestShape DEF LoadForSetRole
    <3>2. admin[t] \in AdminUser
      BY <2>10, <3>1 DEF LoadForSetRole, Exists, TypeOK
    <3>3. [admin[t] EXCEPT !.role = req[r].role] \in AdminUser
      BY <3>1, <3>2 DEF AdminUser
    <3>4. req' \in [Requests -> Request]
      BY <2>10, <3>3, AdvanceType DEF LoadForSetRole
    <3>5. QED
      BY <2>1, <2>10, <3>4 DEF LoadForSetRole, TypeOK
  <2>11. CASE Save(r)
    BY <2>1, <2>11, FinishType, RequestShape DEF Save, TypeOK
  <2>12. CASE LockGuard(r)
    <3>1. req' \in [Requests -> Request]
      BY <2>12, FinishType, StepType DEF LockGuard
    <3>2. admin' = admin /\ guard' \in {guard, r}
      BY <2>12 DEF LockGuard
    <3>3. QED
      BY <2>1, <3>1, <3>2 DEF TypeOK
  <2>13. CASE CheckOtherSystemAdmin(r)
    BY <2>1, <2>13, FinishType, StepType DEF CheckOtherSystemAdmin, Unlock, TypeOK
  <2>14. CASE GuardedSave(r)
    BY <2>1, <2>14, FinishType, RequestShape DEF GuardedSave, Unlock, TypeOK
  <2>15. CASE InsertAdmin(r)
    BY <2>1, <2>15, FinishType, RequestShape DEF InsertAdmin, TypeOK
  <2>16. CASE RepoError(r)
    BY <2>1, <2>16, FinishType DEF RepoError, Unlock, TypeOK
  <2>17. QED
    BY <2>2, <2>5, <2>6, <2>7, <2>8, <2>9, <2>10, <2>11, <2>12, <2>13, <2>14,
       <2>15, <2>16 DEF Serve
<1>3. CASE ExpireGuard /\ RecordHistory
  BY <1>3 DEF ExpireGuard, RecordHistory, TypeOK
<1>4. QED
  BY <1>1, <1>2, <1>3 DEF Next, RequestStep

\* Every reachable state is well typed: a handler past its middleware always
\* knows its target, and one about to write holds a complete record.
THEOREM TypeCorrect == Spec => []TypeOK
<1>1. QED
  BY TypeInit, TypeNext, PTL DEF Spec

(***************************************************************************)
(* Sound copies: a record saved from a stale copy is as sound as the one   *)
(* it replaces, because every copy was sound when it was made and the set  *)
(* of trusted accounts only grows.                                         *)
(***************************************************************************)
LEMMA IdleFields == Idle.pc = "idle" /\ Idle.kind = "none" /\ Idle.doc = None
  BY DEF Idle

LEMMA SoundInit == Init => SoundCopies
<1> SUFFICES ASSUME Init PROVE SoundCopies
  OBVIOUS
<1>1. ASSUME NEW a \in Admins, Exists(a) PROVE SoundRecord(admin[a], a, trusted)
  BY <1>1 DEF Init, Exists, SoundRecord
<1>2. ASSUME NEW r \in Requests PROVE req[r] = Idle
  BY DEF Init
<1>3. QED
  BY <1>1, <1>2, IdleFields DEF SoundCopies

\* A sound copy stays sound: accounts are never removed from trusted.
LEMMA SoundMonotone ==
  ASSUME NEW u, NEW a, NEW S, NEW T, S \subseteq T, SoundRecord(u, a, S)
  PROVE  SoundRecord(u, a, T)
BY DEF SoundRecord

LEMMA SoundNext == TypeOK /\ SoundCopies /\ [Next]_vars => SoundCopies'
<1> SUFFICES ASSUME TypeOK, SoundCopies, [Next]_vars PROVE SoundCopies'
  OBVIOUS
<1>1. CASE UNCHANGED vars
  BY <1>1 DEF vars, SoundCopies, Exists
<1>2. CASE RequestStep /\ RecordHistory
  <2>1. trusted \subseteq trusted'
    BY <1>2 DEF RecordHistory
  <2>2. PICK r \in Requests : Arrive(r) \/ Serve(r) \/ RepoError(r)
    BY <1>2 DEF RequestStep
  \* A step is sound when the request it leaves behind is, and the record it
  \* writes, if any.
  <2>3. ASSUME NEW q, req' = [req EXCEPT ![r] = q],
               \/ q = Idle
               \/ /\ q.doc # None => SoundRecord(q.doc, q.target, trusted')
                  /\ q.kind = "setRole" => q.role # ""
                  /\ q.kind = "approve"
                       => q.op # q.target /\ q.op \in trusted',
               \/ admin' = admin
               \/ \E a \in Admins : \E u : /\ admin' = [admin EXCEPT ![a] = u]
                                           /\ SoundRecord(u, a, trusted')
        PROVE  SoundCopies'
    <3>1. ASSUME NEW a \in Admins, Exists(a)'
          PROVE  SoundRecord(admin'[a], a, trusted')
      <4>1. CASE admin'[a] = admin[a]
        BY <2>1, <3>1, <4>1, SoundMonotone DEF SoundCopies, Exists
      <4>2. CASE admin'[a] # admin[a]
        BY <2>3, <4>2 DEF TypeOK
      <4>3. QED
        BY <4>1, <4>2
    <3>2. ASSUME NEW s \in Requests
          PROVE  /\ req'[s].doc # None
                      => SoundRecord(req'[s].doc, req'[s].target, trusted')
                 /\ req'[s].kind = "setRole" => req'[s].role # ""
                 /\ req'[s].kind = "approve"
                      => req'[s].op # req'[s].target /\ req'[s].op \in trusted'
      <4>1. CASE s = r
        <5>1. req'[s] = q
          BY <2>3, <4>1 DEF TypeOK
        <5>2. QED
          BY <2>3, <5>1, IdleFields
      <4>2. CASE s # r
        <5>1. req'[s] = req[s]
          BY <2>3, <4>2 DEF TypeOK
        <5>2. QED
          BY <2>1, <5>1, SoundMonotone DEF SoundCopies
      <4>3. QED
        BY <4>1, <4>2
    <3>3. QED
      BY <3>1, <3>2 DEF SoundCopies
  <2>4. ASSUME Finish(r),
               \/ admin' = admin
               \/ \E a \in Admins : \E u : /\ admin' = [admin EXCEPT ![a] = u]
                                           /\ SoundRecord(u, a, trusted')
        PROVE  SoundCopies'
    BY <2>3, <2>4 DEF Finish
  <2>5. ASSUME NEW pc, NEW doc, SoundRecord(doc, req[r].target, trusted),
               req' = [req EXCEPT ![r].pc = pc, ![r].doc = doc],
               admin' = admin, req[r].pc # "idle"
        PROVE  SoundCopies'
    <3> DEFINE q == [req[r] EXCEPT !.pc = pc, !.doc = doc]
    <3>1. req[r] \in Request
      BY DEF TypeOK
    <3>2. /\ q.doc = doc /\ q.target = req[r].target /\ q.op = req[r].op
          /\ q.kind = req[r].kind /\ q.role = req[r].role
      BY <2>5, <3>1, ActiveRequest
    <3>3. req' = [req EXCEPT ![r] = q]
      BY <2>5
    <3>4. SoundRecord(q.doc, q.target, trusted')
      BY <2>1, <2>5, <3>2, SoundMonotone
    <3>5. /\ q.kind = "setRole" => q.role # ""
          /\ q.kind = "approve" => q.op # q.target /\ q.op \in trusted'
      BY <2>1, <3>2 DEF SoundCopies
    <3>6. QED
      BY <2>3, <2>5, <3>3, <3>4, <3>5
  <2>6. ASSUME req[r].pc \notin {"idle", "authorized"}
        PROVE  /\ req[r].target \in Admins
               /\ SoundRecord(req[r].doc, req[r].target, trusted)
    BY <2>6, RequestShape, NoneIsNoRecord DEF SoundCopies
  <2>7. ASSUME NEW pc, req' = [req EXCEPT ![r].pc = pc],
               req[r].pc \notin {"idle", "authorized"}, admin' = admin
        PROVE  SoundCopies'
    <3> DEFINE q == [req[r] EXCEPT !.pc = pc]
    <3>1. req[r] \in Request
      BY DEF TypeOK
    <3>2. /\ q.doc = req[r].doc /\ q.target = req[r].target
          /\ q.op = req[r].op /\ q.kind = req[r].kind /\ q.role = req[r].role
      BY <2>7, <3>1, ActiveRequest
    <3>3. req' = [req EXCEPT ![r] = q]
      BY <2>7
    <3>4. SoundRecord(q.doc, q.target, trusted')
      BY <2>1, <2>6, <2>7, <3>2, SoundMonotone
    <3>5. /\ q.kind = "setRole" => q.role # ""
          /\ q.kind = "approve" => q.op # q.target /\ q.op \in trusted'
      BY <2>1, <3>2 DEF SoundCopies
    <3>6. QED
      BY <2>3, <2>7, <3>3, <3>4, <3>5
  <2>8. ASSUME req[r].pc \in {"saving", "guardedSave", "inserting"}, Finish(r),
               \/ admin' = admin
               \/ admin' = [admin EXCEPT ![req[r].target] = req[r].doc]
        PROVE  SoundCopies'
    BY <2>1, <2>4, <2>6, <2>8, SoundMonotone
  <2>9. ASSUME NEW op \in Admins, NEW target \in Admins, NEW role \in Roles,
               NEW kind \in {"approve", "reject", "setRole"},
               kind = "setRole" => role # "",
               Authorize(r, op, kind, target, role)
        PROVE  SoundCopies'
    <3> DEFINE q == [Idle EXCEPT !.pc = "authorized", !.kind = kind,
                                 !.op = op, !.target = target, !.role = role]
    <3>1. /\ q.doc = None /\ q.kind = kind /\ q.op = op
          /\ q.target = target /\ q.role = role
      BY DEF Idle
    <3>2. op \in trusted'
      BY <1>2, <2>9 DEF Authorize, RecordHistory
    <3>3. QED
      BY <2>3, <2>9, <3>1, <3>2 DEF Authorize
  <2>10. ASSUME NEW a \in Admins, NEW profileChanged \in BOOLEAN,
                SignIn(r, a, profileChanged)
         PROVE  SoundCopies'
    <3>1. ASSUME NEW pc, NEW doc, SoundRecord(doc, a, trusted),
                 req' = [req EXCEPT ![r] = [Idle EXCEPT !.pc = pc,
                           !.kind = "signIn", !.target = a, !.doc = doc]]
          PROVE  SoundCopies'
      <4> DEFINE q == [Idle EXCEPT !.pc = pc, !.kind = "signIn",
                                   !.target = a, !.doc = doc]
      <4>1. q.doc = doc /\ q.target = a /\ q.kind = "signIn"
        BY DEF Idle
      <4>2. admin' = admin
        BY <2>10 DEF SignIn
      <4>3. QED
        BY <2>1, <2>3, <3>1, <4>1, <4>2, SoundMonotone
    <3>2. CASE ~Exists(a)
      <4>1. SoundRecord(NewAdminUser(a), a, trusted)
        BY DEF NewAdminUser, SoundRecord
      <4>2. QED
        BY <2>10, <3>1, <3>2, <4>1 DEF SignIn
    <3>3. CASE Exists(a)
      <4>1. SoundRecord(admin[a], a, trusted)
        BY <3>3 DEF SoundCopies
      <4>2. SoundRecord(Reconcile(admin[a]), a, trusted)
        BY <4>1 DEF Reconcile, SoundRecord
      <4>3. QED
        BY <2>10, <3>1, <3>3, <4>1, <4>2 DEF SignIn
    <3>4. QED
      BY <3>2, <3>3
  <2>11. CASE Arrive(r)
    BY <2>9, <2>10, <2>11, AdminsAssumption DEF Arrive, Roles
  <2>12. CASE TargetNotFound(r)
    BY <2>4, <2>12 DEF TargetNotFound
  <2>13. CASE LoadForApprove(r)
    <3> DEFINE t == req[r].target
    <3>1. t \in Admins /\ req[r].op \in Admins
      BY <2>13, RequestShape DEF LoadForApprove
    <3>2. admin[t] \in AdminUser /\ SoundRecord(admin[t], t, trusted)
      BY <2>13, <3>1 DEF LoadForApprove, Exists, TypeOK, SoundCopies
    <3>3. req[r].op # t /\ req[r].op \in trusted
      BY <2>13 DEF LoadForApprove, SoundCopies
    <3>4. SoundRecord(Approve(admin[t], req[r].op), t, trusted)
      BY <3>2, <3>3 DEF Approve, SoundRecord, AdminUser, Roles
    <3>5. CASE IsApproved(t)
      BY <2>4, <2>13, <3>5 DEF LoadForApprove
    <3>6. CASE ~IsApproved(t)
      <4>1. req' = [req EXCEPT ![r].pc = "saving",
                               ![r].doc = Approve(admin[t], req[r].op)]
        BY <2>13, <3>6 DEF LoadForApprove
      <4>2. QED
        BY <2>5, <2>13, <3>4, <4>1 DEF LoadForApprove
    <3>7. QED
      BY <3>5, <3>6
  <2>14. CASE LoadForReject(r)
    <3> DEFINE t == req[r].target
    <3>1. admin[t] \in AdminUser /\ SoundRecord(admin[t], t, trusted)
      BY <2>14, RequestShape
      DEF LoadForReject, Exists, TypeOK, SoundCopies
    <3>2. SoundRecord(Reject(admin[t]), t, trusted)
      BY <3>1 DEF Reject, SoundRecord, AdminUser
    <3>3. QED
      BY <2>5, <2>14, <3>2 DEF LoadForReject
  <2>15. CASE CountApproved(r)
    BY <2>4, <2>7, <2>15 DEF CountApproved
  <2>16. CASE LoadForSetRole(r)
    <3> DEFINE t == req[r].target
    <3>1. admin[t] \in AdminUser /\ SoundRecord(admin[t], t, trusted)
      BY <2>16, RequestShape
      DEF LoadForSetRole, Exists, TypeOK, SoundCopies
    <3>2. SoundRecord([admin[t] EXCEPT !.role = req[r].role], t, trusted)
      BY <2>16, <3>1 DEF LoadForSetRole, SoundRecord, AdminUser, SoundCopies
    <3>3. QED
      BY <2>5, <2>16, <3>2 DEF LoadForSetRole
  <2>17. CASE Save(r)
    BY <2>8, <2>17 DEF Save
  <2>18. CASE LockGuard(r)
    BY <2>4, <2>7, <2>18 DEF LockGuard
  <2>19. CASE CheckOtherSystemAdmin(r)
    BY <2>4, <2>7, <2>19 DEF CheckOtherSystemAdmin
  <2>20. CASE GuardedSave(r)
    BY <2>8, <2>20 DEF GuardedSave
  <2>21. CASE InsertAdmin(r)
    BY <2>8, <2>21 DEF InsertAdmin
  <2>22. CASE RepoError(r)
    BY <2>4, <2>22 DEF RepoError
  <2>23. QED
    BY <2>2, <2>11, <2>12, <2>13, <2>14, <2>15, <2>16, <2>17, <2>18, <2>19,
       <2>20, <2>21, <2>22 DEF Serve
<1>3. CASE ExpireGuard /\ RecordHistory
  BY <1>3, SoundMonotone DEF ExpireGuard, RecordHistory, SoundCopies, Exists
<1>4. QED
  BY <1>1, <1>2, <1>3 DEF Next, RequestStep

LEMMA SoundCorrect == Spec => []SoundCopies
BY SoundInit, SoundNext, TypeCorrect, PTL DEF Spec

\* Whatever the interleaving, an account that can use the console has a role
\* the permission check knows.
THEOREM ApprovedHaveRoles == Spec => []ApprovedHasRole
<1>1. SoundCopies => ApprovedHasRole
  BY DEF SoundCopies, SoundRecord, ApprovedHasRole, Approved, IsApproved
<1>2. QED
  BY <1>1, SoundCorrect, PTL

\* Whatever the interleaving, every recorded approver is another account that
\* was let through the permission check.
THEOREM ApproversWereTrusted == Spec => []ApproverWasTrusted
<1>1. SoundCopies => ApproverWasTrusted
  BY DEF SoundCopies, SoundRecord, ApproverWasTrusted
<1>2. QED
  BY <1>1, SoundCorrect, PTL

(***************************************************************************)
(* The rule "never zero system_admins".  It fails when requests race       *)
(* (AdminUsers' violation runs); the two theorems below are the cases in   *)
(* which the code does keep it: requests served one at a time, and         *)
(* concurrent requests that only demote.                                   *)
(***************************************************************************)
LEMMA SystemAdminsInit ==
  ASSUME Init, Seeded # {}
  PROVE  SystemAdmins # {}
<1>1. PICK a \in Admins : a \in Seeded
  BY AdminsAssumption
<1>2. admin[a] = [status |-> "approved", role |-> "system_admin",
                  approvedBy |-> None]
  BY <1>1 DEF Init
<1>3. admin[a] \in AdminUser
  BY <1>2 DEF AdminUser, Roles, Statuses
<1>4. Exists(a) /\ admin[a].status = "approved" /\ admin[a].role = "system_admin"
  BY <1>2, <1>3, NoneIsNoRecord DEF Exists
<1>5. QED
  BY <1>4 DEF SystemAdmins, IsApproved

\* Writing the record of one account changes only that account's standing.
LEMMA WriteSystemAdmins ==
  ASSUME TypeOK, NEW t \in Admins, NEW u \in AdminUser,
         admin' = [admin EXCEPT ![t] = u]
  PROVE  /\ SystemAdmins \ {t} = SystemAdmins' \ {t}
         /\ u.status = "approved" /\ u.role = "system_admin"
              => t \in SystemAdmins'
         /\ u.role = "viewer" => t \notin SystemAdmins'
BY NoneIsNoRecord DEF TypeOK, SystemAdmins, IsApproved, Exists

LEMMA SameSystemAdmins ==
  ASSUME admin' = admin
  PROVE  SystemAdmins' = SystemAdmins
BY DEF SystemAdmins, IsApproved, Exists

\* The fields of a request that moved on.
LEMMA AdvanceFields ==
  ASSUME NEW q \in Request, q.pc # "idle", NEW pc, NEW doc
  PROVE  /\ [q EXCEPT !.pc = pc].pc = pc
         /\ [q EXCEPT !.pc = pc].doc = q.doc
         /\ [q EXCEPT !.pc = pc].op = q.op
         /\ [q EXCEPT !.pc = pc].kind = q.kind
         /\ [q EXCEPT !.pc = pc].role = q.role
         /\ [q EXCEPT !.pc = pc].target = q.target
         /\ [q EXCEPT !.pc = pc, !.doc = doc].pc = pc
         /\ [q EXCEPT !.pc = pc, !.doc = doc].doc = doc
         /\ [q EXCEPT !.pc = pc, !.doc = doc].op = q.op
         /\ [q EXCEPT !.pc = pc, !.doc = doc].kind = q.kind
         /\ [q EXCEPT !.pc = pc, !.doc = doc].role = q.role
         /\ [q EXCEPT !.pc = pc, !.doc = doc].target = q.target
BY ActiveRequest

LEMMA DemotionInit ==
  ASSUME Seeded # {}
  PROVE  Init => DemotionInv
<1> SUFFICES ASSUME Init PROVE DemotionInv
  OBVIOUS
<1>1. ASSUME NEW r \in Requests PROVE req[r] = Idle /\ guard # r
  BY AdminsAssumption DEF Init
<1>2. QED
  BY <1>1, IdleFields, SystemAdminsInit DEF DemotionInv

LEMMA DemotionNext ==
  ASSUME Operations = {"setRole"}, AssignableRoles = {"viewer"}
  PROVE  TypeOK /\ DemotionInv /\ [Next]_vars => DemotionInv'
<1> SUFFICES ASSUME TypeOK, DemotionInv, [Next]_vars PROVE DemotionInv'
  OBVIOUS
<1>1. CASE UNCHANGED vars
  BY <1>1, SameSystemAdmins DEF vars, DemotionInv
<1>2. CASE RequestStep /\ RecordHistory
  <2>1. PICK r \in Requests : Arrive(r) \/ Serve(r) \/ RepoError(r)
    BY <1>2 DEF RequestStep
  <2> DEFINE t == req[r].target
             Fine(s) == /\ req'[s].pc \in {"checking", "guardedSave"}
                             <=> guard' = s
                        /\ req'[s].pc \notin {"counting", "inserting"}
                        /\ req'[s].pc # "idle"
                             => req'[s].kind = "setRole" /\ req'[s].role = "viewer"
                        /\ req'[s].pc \notin {"idle", "authorized"}
                             => req'[s].doc.role = "viewer"
                        /\ req'[s].pc = "saving"
                             => req'[s].target \notin SystemAdmins'
                        /\ req'[s].pc = "guardedSave"
                             => SystemAdmins' \ {req'[s].target} # {}
  \* The other requests are not disturbed by a step that takes no account's
  \* standing away, nor by one that does so under the guard.
  <2>2. ASSUME NEW q, req' = [req EXCEPT ![r] = q],
               \/ guard' = guard
               \/ guard = r /\ guard' \in {None, Left}
               \/ guard = None /\ guard' \in {r, Left},
               \/ SystemAdmins' = SystemAdmins
               \/ guard = r /\ SystemAdmins' \subseteq SystemAdmins,
               NEW s \in Requests, s # r
        PROVE  Fine(s)
    <3>1. req'[s] = req[s]
      BY <2>2 DEF TypeOK
    <3>2. guard' = s <=> guard = s
      BY <2>2, AdminsAssumption
    <3>3. QED
      BY <2>2, <3>1, <3>2 DEF DemotionInv
  <2>3. ASSUME NEW q, req' = [req EXCEPT ![r] = q] PROVE req'[r] = q
    BY <2>3 DEF TypeOK
  <2>4. ASSUME admin' = admin, \A s \in Requests : Fine(s)
        PROVE  DemotionInv'
    BY <2>4, SameSystemAdmins DEF DemotionInv
  <2>5. ASSUME Finish(r), admin' = admin,
               \/ Unlock(r)
               \/ guard = None /\ guard' = Left
        PROVE  DemotionInv'
    <3>0. /\ guard' # r
          /\ \/ guard' = guard
             \/ guard = r /\ guard' \in {None, Left}
             \/ guard = None /\ guard' \in {r, Left}
      BY <2>5, AdminsAssumption DEF Unlock
    <3>1. Fine(r)
      BY <2>3, <2>5, <3>0, IdleFields DEF Finish
    <3>2. ASSUME NEW s \in Requests, s # r PROVE Fine(s)
      BY <2>2, <2>5, <3>0, <3>2, SameSystemAdmins DEF Finish
    <3>3. QED
      BY <2>4, <2>5, <3>1, <3>2
  <2>6. ASSUME NEW pc, NEW doc, req[r].pc # "idle", admin' = admin,
               \/ req' = [req EXCEPT ![r].pc = pc] /\ doc = req[r].doc
               \/ req' = [req EXCEPT ![r].pc = pc, ![r].doc = doc],
               pc \in {"locking", "checking", "guardedSave", "saving"},
               doc.role = "viewer",
               pc = "saving" => t \notin SystemAdmins,
               pc = "guardedSave" => SystemAdmins \ {t} # {},
               guard' = IF pc \in {"checking", "guardedSave"} THEN r ELSE guard,
               pc \in {"checking", "guardedSave"} => guard \in {None, r},
               pc \in {"locking", "saving"} => guard # r
        PROVE  DemotionInv'
    <3>1. req[r] \in Request
      BY DEF TypeOK
    <3>2. PICK q : /\ req' = [req EXCEPT ![r] = q]
                   /\ q.pc = pc /\ q.doc = doc /\ q.kind = req[r].kind
                   /\ q.role = req[r].role /\ q.target = t
      <4>1. CASE req' = [req EXCEPT ![r].pc = pc] /\ doc = req[r].doc
        <5> DEFINE q == [req[r] EXCEPT !.pc = pc]
        <5>1. q.pc = pc /\ q.doc = doc /\ q.kind = req[r].kind
                /\ q.role = req[r].role /\ q.target = t
          BY <2>6, <3>1, <4>1, AdvanceFields
        <5>2. req' = [req EXCEPT ![r] = q]
          BY <4>1
        <5> HIDE DEF q
        <5>3. QED
          BY <5>1, <5>2
      <4>2. CASE req' = [req EXCEPT ![r].pc = pc, ![r].doc = doc]
        <5> DEFINE q == [req[r] EXCEPT !.pc = pc, !.doc = doc]
        <5>1. q.pc = pc /\ q.doc = doc /\ q.kind = req[r].kind
                /\ q.role = req[r].role /\ q.target = t
          BY <2>6, <3>1, AdvanceFields
        <5>2. req' = [req EXCEPT ![r] = q]
          BY <4>2
        <5> HIDE DEF q
        <5>3. QED
          BY <5>1, <5>2
      <4>3. QED
        BY <2>6, <4>1, <4>2
    <3>3. Fine(r)
      <4>1. req'[r] = q /\ SystemAdmins' = SystemAdmins
        BY <2>3, <2>6, <3>2, SameSystemAdmins
      <4>2. req[r].kind = "setRole" /\ req[r].role = "viewer"
        BY <2>6 DEF DemotionInv
      <4>3. guard' = r <=> pc \in {"checking", "guardedSave"}
        BY <2>6
      <4>4. QED
        BY <2>6, <3>2, <4>1, <4>2, <4>3
    <3>4. ASSUME NEW s \in Requests, s # r PROVE Fine(s)
      BY <2>2, <2>6, <3>2, <3>4, SameSystemAdmins
    <3>5. QED
      BY <2>4, <2>6, <3>3, <3>4
  <2>7. req[r].pc \notin {"counting", "inserting"}
    BY DEF DemotionInv
  <2>8. req[r].pc # "idle" => req[r].kind = "setRole" /\ req[r].role = "viewer"
    BY DEF DemotionInv
  <2>9. CASE Arrive(r)
    <3>1. PICK op \in Admins, target \in Admins :
            Authorize(r, op, "setRole", target, "viewer")
      BY <2>9 DEF Arrive
    <3> DEFINE q == [Idle EXCEPT !.pc = "authorized", !.kind = "setRole",
                        !.op = op, !.target = target, !.role = "viewer"]
    <3>2. q.pc = "authorized" /\ q.kind = "setRole" /\ q.role = "viewer"
      BY DEF Idle
    <3>3. req' = [req EXCEPT ![r] = q] /\ guard' = guard /\ admin' = admin
            /\ req[r].pc = "idle"
      BY <3>1 DEF Authorize
    <3>4. Fine(r)
      BY <2>3, <3>2, <3>3 DEF DemotionInv
    <3>5. ASSUME NEW s \in Requests, s # r PROVE Fine(s)
      BY <2>2, <3>3, <3>5, SameSystemAdmins
    <3>6. QED
      BY <2>4, <3>3, <3>4, <3>5
  <2>10. CASE TargetNotFound(r)
    BY <2>5, <2>10 DEF TargetNotFound, DemotionInv, Unlock
  <2>11. CASE LoadForApprove(r) \/ LoadForReject(r) \/ CountApproved(r)
                \/ InsertAdmin(r)
    BY <2>7, <2>8, <2>11
    DEF LoadForApprove, LoadForReject, CountApproved, InsertAdmin
  <2>12. CASE LoadForSetRole(r)
    <3>1. t \in Admins
      BY <2>12, RequestShape DEF LoadForSetRole
    <3>2. admin[t] \in AdminUser
      BY <2>12, <3>1 DEF LoadForSetRole, Exists, TypeOK
    <3> DEFINE doc == [admin[t] EXCEPT !.role = req[r].role]
    <3>3. doc.role = "viewer"
      BY <2>8, <2>12, <3>2 DEF LoadForSetRole, AdminUser
    <3>4. guard # r
      BY <2>12 DEF LoadForSetRole, DemotionInv
    <3>5. CASE t \in SystemAdmins
      <4>1. req' = [req EXCEPT ![r].pc = "locking", ![r].doc = doc]
        BY <2>8, <2>12, <3>5 DEF LoadForSetRole, SystemAdmins
      <4>2. QED
        BY <2>6, <2>12, <3>3, <3>4, <4>1 DEF LoadForSetRole
    <3>6. CASE t \notin SystemAdmins
      <4>1. req' = [req EXCEPT ![r].pc = "saving", ![r].doc = doc]
        BY <2>12, <3>1, <3>6 DEF LoadForSetRole, SystemAdmins
      <4>2. QED
        BY <2>6, <2>12, <3>3, <3>4, <3>6, <4>1 DEF LoadForSetRole
    <3>7. QED
      BY <3>5, <3>6
  <2>13. CASE Save(r)
    <3>1. t \in Admins /\ req[r].doc \in AdminUser /\ req[r].doc.role = "viewer"
            /\ t \notin SystemAdmins /\ guard # r
      BY <2>13, RequestShape DEF Save, DemotionInv
    <3>2. SystemAdmins' = SystemAdmins
      <4>1. SystemAdmins \ {t} = SystemAdmins' \ {t} /\ t \notin SystemAdmins'
        BY <2>13, <3>1, WriteSystemAdmins DEF Save
      <4>2. QED
        BY <3>1, <4>1
    <3>3. Fine(r)
      BY <2>3, <2>13, <3>1, IdleFields DEF Save, Finish
    <3>4. ASSUME NEW s \in Requests, s # r PROVE Fine(s)
      BY <2>2, <2>13, <3>2, <3>4 DEF Save, Finish
    <3>5. QED
      BY <3>2, <3>3, <3>4 DEF DemotionInv
  <2>14. CASE LockGuard(r)
    <3>1. req[r].pc = "locking" /\ req[r].doc.role = "viewer" /\ guard # r
      BY <2>14 DEF LockGuard, DemotionInv
    <3>2. CASE guard = None
      BY <2>6, <2>14, <3>1, <3>2 DEF LockGuard
    <3>3. CASE guard # None
      BY <2>5, <2>14, <3>1, <3>3 DEF LockGuard, Unlock
    <3>4. QED
      BY <3>2, <3>3
  <2>15. CASE CheckOtherSystemAdmin(r)
    <3>1. req[r].pc = "checking" /\ req[r].doc.role = "viewer" /\ guard = r
      BY <2>15 DEF CheckOtherSystemAdmin, DemotionInv
    <3>2. CASE SystemAdmins \ {t} # {}
      BY <2>6, <2>15, <3>1, <3>2 DEF CheckOtherSystemAdmin
    <3>3. CASE SystemAdmins \ {t} = {}
      BY <2>5, <2>15, <3>1, <3>3 DEF CheckOtherSystemAdmin
    <3>4. QED
      BY <3>2, <3>3
  <2>16. CASE GuardedSave(r)
    <3>1. t \in Admins /\ req[r].doc \in AdminUser /\ req[r].doc.role = "viewer"
            /\ SystemAdmins \ {t} # {} /\ guard = r
      BY <2>16, RequestShape DEF GuardedSave, DemotionInv
    <3>2. SystemAdmins' = SystemAdmins \ {t}
      BY <2>16, <3>1, WriteSystemAdmins DEF GuardedSave
    <3>3. Fine(r)
      BY <2>3, <2>16, <3>1, IdleFields, AdminsAssumption
      DEF GuardedSave, Finish, Unlock
    <3>4. ASSUME NEW s \in Requests, s # r PROVE Fine(s)
      BY <2>2, <2>16, <3>1, <3>2, <3>4 DEF GuardedSave, Finish, Unlock
    <3>5. QED
      BY <3>1, <3>2, <3>3, <3>4 DEF DemotionInv
  <2>17. CASE RepoError(r)
    BY <2>5, <2>17 DEF RepoError
  <2>18. QED
    BY <2>1, <2>9, <2>10, <2>11, <2>12, <2>13, <2>14, <2>15, <2>16, <2>17
    DEF Serve
<1>3. CASE ExpireGuard /\ RecordHistory
  BY <1>3, SameSystemAdmins, AdminsAssumption DEF ExpireGuard, DemotionInv
<1>4. QED
  BY <1>1, <1>2, <1>3 DEF Next, RequestStep

\* Any number of concurrent demotions of any of the seeded system_admins leave
\* at least one: the case SaveGuardingLastSystemAdmin was written for.
THEOREM DemotionsKeepOne ==
  ASSUME Operations = {"setRole"}, AssignableRoles = {"viewer"}
  PROVE  Spec => []SystemAdminRemains
<1>1. CASE Seeded = {}
  <2>1. SystemAdminRemains
    BY <1>1 DEF SystemAdminRemains
  <2>2. QED
    BY <2>1, PTL
<1>2. CASE Seeded # {}
  <2>1. Init => DemotionInv
    BY <1>2, DemotionInit
  <2>2. TypeOK /\ DemotionInv /\ [Next]_vars => DemotionInv'
    BY DemotionNext
  <2>3. DemotionInv => SystemAdminRemains
    BY DEF DemotionInv, SystemAdminRemains
  <2>4. QED
    BY <2>1, <2>2, <2>3, TypeCorrect, PTL DEF Spec
<1>3. QED
  BY <1>1, <1>2

LEMMA SerialInit ==
  ASSUME Seeded # {}
  PROVE  Init => SerialInv
<1> SUFFICES ASSUME Init PROVE SerialInv
  OBVIOUS
<1>1. ASSUME NEW r \in Requests PROVE req[r] = Idle
  BY DEF Init
<1>2. QED
  BY <1>1, IdleFields, SystemAdminsInit DEF SerialInv

LEMMA SerialNext ==
  ASSUME CerbosConfigured, \A r, s \in Requests : r = s
  PROVE  TypeOK /\ SerialInv /\ [Next]_vars => SerialInv'
<1> SUFFICES ASSUME TypeOK, SerialInv, [Next]_vars PROVE SerialInv'
  OBVIOUS
<1>1. CASE UNCHANGED vars
  BY <1>1, SameSystemAdmins DEF vars, SerialInv, LeavesSystemAdmin
<1>2. CASE RequestStep /\ RecordHistory
  <2>1. PICK r \in Requests : Arrive(r) \/ Serve(r) \/ RepoError(r)
    BY <1>2 DEF RequestStep
  <2>2. Requests = {r}
    BY <2>1
  <2> DEFINE t == req[r].target
  \* A request that ends leaves the set of system_admins as it was, or not
  \* empty; nothing else is in flight.
  <2>3. ASSUME NEW q, req' = [req EXCEPT ![r] = q], SystemAdmins' # {},
               q.pc \in {"authorized", "counting"} =>
                 /\ q.op \in SystemAdmins'
                 /\ q.kind \in {"approve", "reject"} \/ q.pc = "counting"
                      => q.op # q.target
                 /\ q.kind # "signIn",
               q.pc \in {"saving", "guardedSave"} =>
                 \/ q.target \notin SystemAdmins'
                 \/ q.doc.status = "approved" /\ q.doc.role = "system_admin"
                 \/ SystemAdmins' \ {q.target} # {}
        PROVE  SerialInv'
    <3>1. req'[r] = q
      BY <2>3 DEF TypeOK
    <3>2. QED
      BY <2>2, <2>3, <3>1 DEF SerialInv, LeavesSystemAdmin
  <2>4. ASSUME Finish(r), SystemAdmins' # {} PROVE SerialInv'
    BY <2>3, <2>4, IdleFields DEF Finish
  <2>5. ASSUME Finish(r), admin' = admin PROVE SerialInv'
    BY <2>4, <2>5, SameSystemAdmins DEF SerialInv
  <2>6. ASSUME NEW pc, NEW doc, req[r].pc # "idle", admin' = admin,
               \/ req' = [req EXCEPT ![r].pc = pc] /\ doc = req[r].doc
               \/ req' = [req EXCEPT ![r].pc = pc, ![r].doc = doc],
               pc # "authorized",
               pc = "counting" => /\ req[r].op \in SystemAdmins
                                  /\ req[r].op # t
                                  /\ req[r].kind # "signIn",
               pc \in {"saving", "guardedSave"} =>
                 \/ t \notin SystemAdmins
                 \/ doc.status = "approved" /\ doc.role = "system_admin"
                 \/ SystemAdmins \ {t} # {}
        PROVE  SerialInv'
    <3>1. req[r] \in Request
      BY DEF TypeOK
    <3>2. SystemAdmins' = SystemAdmins /\ SystemAdmins # {}
      BY <2>6, SameSystemAdmins DEF SerialInv
    <3>3. CASE req' = [req EXCEPT ![r].pc = pc] /\ doc = req[r].doc
      <4> DEFINE q == [req[r] EXCEPT !.pc = pc]
      <4>1. q.pc = pc /\ q.doc = doc /\ q.op = req[r].op
              /\ q.kind = req[r].kind /\ q.target = t
        BY <2>6, <3>1, <3>3, AdvanceFields
      <4>2. req' = [req EXCEPT ![r] = q]
        BY <3>3
      <4> HIDE DEF q
      <4>3. QED
        BY <2>3, <2>6, <3>2, <4>1, <4>2
    <3>4. CASE req' = [req EXCEPT ![r].pc = pc, ![r].doc = doc]
      <4> DEFINE q == [req[r] EXCEPT !.pc = pc, !.doc = doc]
      <4>1. q.pc = pc /\ q.doc = doc /\ q.op = req[r].op
              /\ q.kind = req[r].kind /\ q.target = t
        BY <2>6, <3>1, AdvanceFields
      <4>2. req' = [req EXCEPT ![r] = q]
        BY <3>4
      <4> HIDE DEF q
      <4>3. QED
        BY <2>3, <2>6, <3>2, <4>1, <4>2
    <3>5. QED
      BY <2>6, <3>3, <3>4
  \* The same when the copy stays as it is.
  <2>23. ASSUME NEW pc \in {"saving", "guardedSave", "checking"},
                req[r].pc # "idle", admin' = admin,
                req' = [req EXCEPT ![r].pc = pc],
                pc # "checking" => SystemAdmins \ {t} # {}
         PROVE  SerialInv'
    <3>1. PICK doc : doc = req[r].doc
      OBVIOUS
    <3>2. QED
      BY <2>6, <2>23, <3>1
  <2>7. ASSUME req[r].pc \in {"saving", "guardedSave"},
               admin' = [admin EXCEPT ![t] = req[r].doc], Finish(r)
        PROVE  SerialInv'
    <3>1. t \in Admins /\ req[r].doc \in AdminUser /\ LeavesSystemAdmin(r)
      BY <2>7, RequestShape DEF SerialInv
    <3>2. /\ SystemAdmins \ {t} = SystemAdmins' \ {t}
          /\ req[r].doc.status = "approved" /\ req[r].doc.role = "system_admin"
               => t \in SystemAdmins'
      BY <2>7, <3>1, WriteSystemAdmins
    <3>3. SystemAdmins' # {}
      BY <3>1, <3>2 DEF LeavesSystemAdmin, SerialInv
    <3>4. QED
      BY <2>4, <2>7, <3>3
  <2>8. ASSUME NEW op \in Admins, NEW target \in Admins, NEW role,
               NEW kind \in {"approve", "reject", "setRole"},
               Authorize(r, op, kind, target, role)
        PROVE  SerialInv'
    <3> DEFINE q == [Idle EXCEPT !.pc = "authorized", !.kind = kind,
                                 !.op = op, !.target = target, !.role = role]
    <3>1. q.pc = "authorized" /\ q.kind = kind /\ q.op = op /\ q.target = target
      BY DEF Idle
    <3>2. op \in SystemAdmins
      BY <2>8 DEF Authorize, Allowed, SystemAdmins
    <3>3. SystemAdmins' = SystemAdmins
      BY <2>8, SameSystemAdmins DEF Authorize
    <3>4. req' = [req EXCEPT ![r] = q]
      BY <2>8 DEF Authorize
    <3>5. kind \in {"approve", "reject"} => op # target
      BY <2>8 DEF Authorize
    <3> HIDE DEF q
    <3>6. QED
      BY <2>3, <3>1, <3>2, <3>3, <3>4, <3>5
  <2>9. ASSUME NEW a \in Admins, NEW profileChanged \in BOOLEAN,
               SignIn(r, a, profileChanged)
        PROVE  SerialInv'
    <3>1. SystemAdmins' = SystemAdmins /\ SystemAdmins # {}
      BY <2>9, SameSystemAdmins DEF SignIn, SerialInv
    <3>2. ASSUME NEW pc \in {"inserting", "saving"}, NEW doc,
                 pc = "saving" =>
                   \/ a \notin SystemAdmins
                   \/ doc.status = "approved" /\ doc.role = "system_admin",
                 req' = [req EXCEPT ![r] = [Idle EXCEPT !.pc = pc,
                           !.kind = "signIn", !.target = a, !.doc = doc]]
          PROVE  SerialInv'
      <4> DEFINE q == [Idle EXCEPT !.pc = pc, !.kind = "signIn",
                                   !.target = a, !.doc = doc]
      <4>1. q.pc = pc /\ q.doc = doc /\ q.target = a
        BY DEF Idle
      <4>2. req' = [req EXCEPT ![r] = q]
        BY <3>2
      <4> HIDE DEF q
      <4>3. QED
        BY <2>3, <3>1, <3>2, <4>1, <4>2
    <3>3. CASE ~Exists(a)
      BY <2>9, <3>2, <3>3 DEF SignIn
    <3>4. CASE Exists(a)
      <4>1. \/ a \notin SystemAdmins
            \/ admin[a].status = "approved" /\ admin[a].role = "system_admin"
        BY DEF SystemAdmins, IsApproved
      <4>2. Reconcile(admin[a]).status = "approved"
              /\ Reconcile(admin[a]).role = "system_admin"
        BY DEF Reconcile
      <4>3. QED
        BY <2>9, <3>2, <3>4, <4>1, <4>2 DEF SignIn
    <3>5. QED
      BY <3>3, <3>4
  <2>10. CASE Arrive(r)
    BY <2>8, <2>9, <2>10 DEF Arrive
  <2>11. CASE TargetNotFound(r)
    BY <2>5, <2>11 DEF TargetNotFound
  <2>12. CASE LoadForApprove(r)
    <3>1. CASE IsApproved(t)
      BY <2>5, <2>12, <3>1 DEF LoadForApprove
    <3>2. CASE ~IsApproved(t)
      <4>1. t \notin SystemAdmins
        BY <3>2 DEF SystemAdmins
      <4>2. QED
        BY <2>6, <2>12, <3>2, <4>1 DEF LoadForApprove
    <3>3. QED
      BY <3>1, <3>2
  <2>13. CASE LoadForReject(r)
    <3>1. req[r].op \in SystemAdmins /\ req[r].op # t /\ req[r].kind # "signIn"
      BY <2>13 DEF LoadForReject, SerialInv
    <3>2. QED
      BY <2>6, <2>13, <3>1 DEF LoadForReject
  <2>14. CASE CountApproved(r)
    <3>1. req[r].op \in SystemAdmins /\ req[r].op # t
      BY <2>14 DEF CountApproved, SerialInv
    <3>2. SystemAdmins \ {t} # {}
      BY <3>1
    <3>3. QED
      BY <2>5, <2>14, <2>23, <3>2 DEF CountApproved
  <2>15. CASE LoadForSetRole(r)
    <3>1. t \in Admins /\ admin[t] \in AdminUser
      BY <2>15, RequestShape DEF LoadForSetRole, Exists, TypeOK
    <3>6. PICK doc : doc = [admin[t] EXCEPT !.role = req[r].role]
      OBVIOUS
    <3>2. doc.status = admin[t].status /\ doc.role = req[r].role
      BY <3>1, <3>6 DEF AdminUser
    <3>3. CASE t \in SystemAdmins /\ req[r].role # "system_admin"
      <4>1. req' = [req EXCEPT ![r].pc = "locking", ![r].doc = doc]
        BY <2>15, <3>3, <3>6 DEF LoadForSetRole, SystemAdmins
      <4>2. req[r].pc # "idle" /\ admin' = admin
        BY <2>15 DEF LoadForSetRole
      <4>3. "locking" # "authorized" /\ "locking" # "counting"
              /\ "locking" \notin {"saving", "guardedSave"}
        OBVIOUS
      <4>4. QED
        BY <2>6, <4>1, <4>2, <4>3, Zenon
    <3>4. CASE ~(t \in SystemAdmins /\ req[r].role # "system_admin")
      <4>1. req' = [req EXCEPT ![r].pc = "saving", ![r].doc = doc]
        BY <2>15, <3>1, <3>4, <3>6 DEF LoadForSetRole, SystemAdmins
      <4>2. \/ t \notin SystemAdmins
            \/ doc.status = "approved" /\ doc.role = "system_admin"
        BY <3>2, <3>4 DEF SystemAdmins, IsApproved
      <4>3. req[r].pc # "idle" /\ admin' = admin
        BY <2>15 DEF LoadForSetRole
      <4>4. "saving" # "authorized" /\ "saving" # "counting"
        OBVIOUS
      <4>5. QED
        BY <2>6, <4>1, <4>2, <4>3, <4>4, Zenon
    <3>5. QED
      BY <3>3, <3>4
  <2>16. CASE Save(r)
    BY <2>7, <2>16 DEF Save
  <2>17. CASE LockGuard(r)
    BY <2>5, <2>17, <2>23 DEF LockGuard
  <2>18. CASE CheckOtherSystemAdmin(r)
    BY <2>5, <2>18, <2>23 DEF CheckOtherSystemAdmin
  <2>19. CASE GuardedSave(r)
    BY <2>7, <2>19 DEF GuardedSave
  <2>20. CASE InsertAdmin(r)
    <3>1. t \in Admins /\ req[r].doc \in AdminUser
      BY <2>20, RequestShape DEF InsertAdmin
    <3>2. CASE Exists(t)
      BY <2>5, <2>20, <3>2 DEF InsertAdmin
    <3>3. CASE ~Exists(t)
      <4>1. SystemAdmins \ {t} = SystemAdmins' \ {t}
        BY <2>20, <3>1, <3>3, WriteSystemAdmins DEF InsertAdmin
      <4>2. t \notin SystemAdmins
        BY <3>3 DEF SystemAdmins, IsApproved
      <4>3. QED
        BY <2>4, <2>20, <4>1, <4>2 DEF InsertAdmin, SerialInv
    <3>4. QED
      BY <3>2, <3>3
  <2>21. CASE RepoError(r)
    BY <2>5, <2>21 DEF RepoError
  <2>22. QED
    BY <2>1, <2>10, <2>11, <2>12, <2>13, <2>14, <2>15, <2>16, <2>17, <2>18,
       <2>19, <2>20, <2>21 DEF Serve
<1>3. CASE ExpireGuard /\ RecordHistory
  BY <1>3, SameSystemAdmins DEF ExpireGuard, SerialInv, LeavesSystemAdmin
<1>4. QED
  BY <1>1, <1>2, <1>3 DEF Next, RequestStep

\* With the permission check configured and requests served one at a time,
\* approvals, rejections, role changes and sign-ins never remove the last
\* system_admin, although Reject only counts approved admins of any role.
THEOREM SerialRequestsKeepOne ==
  ASSUME CerbosConfigured, \A r, s \in Requests : r = s
  PROVE  Spec => []SystemAdminRemains
<1>1. CASE Seeded = {}
  <2>1. SystemAdminRemains
    BY <1>1 DEF SystemAdminRemains
  <2>2. QED
    BY <2>1, PTL
<1>2. CASE Seeded # {}
  <2>1. Init => SerialInv
    BY <1>2, SerialInit
  <2>2. TypeOK /\ SerialInv /\ [Next]_vars => SerialInv'
    BY SerialNext
  <2>3. SerialInv => SystemAdminRemains
    BY DEF SerialInv, SystemAdminRemains
  <2>4. QED
    BY <2>1, <2>2, <2>3, TypeCorrect, PTL DEF Spec
<1>3. QED
  BY <1>1, <1>2

-----------------------------------------------------------------------------
(* Revocation sticks: no copy in flight is approved while the stored       *)
(* record is rejected, unless the request is one that may approve or its   *)
(* target has been changed since the copy was loaded.                      *)
Rejected(a) == Exists(a) /\ admin[a].status = "rejected"

MayApprove(r) ==
    \/ req[r].kind = "approve"
    \/ req[r].kind = "signIn" /\ req[r].target \in Bootstrap

StickyInv ==
    \A r \in Requests :
        /\ req[r].pc \in {"counting", "locking", "checking", "guardedSave",
                          "saving"}
        /\ Rejected(req[r].target)
        /\ req[r].doc.status = "approved"
        => MayApprove(r) \/ r \in overtaken

LEMMA StickyInit == Init => StickyInv
<1> SUFFICES ASSUME Init PROVE StickyInv
  OBVIOUS
<1>1. \A r \in Requests : req[r].pc = "idle"
  BY IdleFields DEF Init
<1> QED BY <1>1 DEF StickyInv

LEMMA StickyNext == TypeOK /\ StickyInv /\ [Next]_vars => StickyInv'
<1> SUFFICES ASSUME TypeOK, StickyInv, [Next]_vars PROVE StickyInv'
  OBVIOUS
<1>1. CASE UNCHANGED vars
  BY <1>1 DEF vars, StickyInv, Rejected, Exists, MayApprove
<1>2. CASE RequestStep /\ RecordHistory
  <2>1. PICK r \in Requests : Arrive(r) \/ Serve(r) \/ RepoError(r)
    BY <1>2 DEF RequestStep
  <2> DEFINE t == req[r].target
             StillRejected(a) == admin'[a] # None /\ admin'[a].status = "rejected"
             Fine(s) == /\ req'[s].pc \in {"counting", "locking", "checking",
                                           "guardedSave", "saving"}
                        /\ StillRejected(req'[s].target)
                        /\ req'[s].doc.status = "approved"
                        => \/ req'[s].kind = "approve"
                           \/ req'[s].kind = "signIn" /\ req'[s].target \in Bootstrap
                           \/ s \in overtaken'
  \* Whatever r does, the copies of the others are overtaken or as they were.
  <2>2. ASSUME NEW q, req' = [req EXCEPT ![r] = q], NEW s \in Requests, s # r
        PROVE  Fine(s)
    <3>1. req'[s] = req[s]
      BY <2>2 DEF TypeOK
    <3>2. CASE req[s].pc \notin {"counting", "locking", "checking",
                                 "guardedSave", "saving"}
      BY <3>1, <3>2
    <3>3. CASE req[s].pc \in {"counting", "locking", "checking",
                              "guardedSave", "saving"}
      <4>1. req[s].doc # None
        BY <3>3, RequestShape, NoneIsNoRecord
      <4>2. s \in overtaken => s \in overtaken'
        BY <1>2, <3>1, <4>1 DEF RecordHistory
      <4>3. CASE admin'[req[s].target] # admin[req[s].target]
        BY <1>2, <3>1, <4>1, <4>3 DEF RecordHistory
      <4>4. CASE admin'[req[s].target] = admin[req[s].target]
        <5>1. StillRejected(req'[s].target) => Rejected(req[s].target)
          BY <3>1, <4>4 DEF Rejected, Exists
        <5>2. QED
          BY <3>1, <3>3, <4>2, <5>1 DEF StickyInv, MayApprove
      <4>5. QED
        BY <4>3, <4>4
    <3>4. QED
      BY <3>2, <3>3
  <2>20. ASSUME \A s \in Requests : Fine(s) PROVE StickyInv'
    BY <2>20 DEF StickyInv, MayApprove, Rejected, Exists
  \* The next state of the acting request decides.
  <2>3. ASSUME NEW q, req' = [req EXCEPT ![r] = q],
               /\ q.pc \in {"counting", "locking", "checking", "guardedSave",
                            "saving"}
               /\ admin' = admin
               /\ Rejected(q.target) /\ q.doc.status = "approved"
               => \/ q.kind = "approve"
                  \/ q.kind = "signIn" /\ q.target \in Bootstrap
                  \/ r \in overtaken',
               admin' = admin \/ q.pc = "idle"
        PROVE  StickyInv'
    <3>1. req'[r] = q
      BY <2>3 DEF TypeOK
    <3>2. admin' = admin /\ StillRejected(q.target) => Rejected(q.target)
      BY DEF Rejected, Exists
    <3>3. Fine(r)
      BY <2>3, <3>1, <3>2
    <3>4. \A s \in Requests : s # r => Fine(s)
      BY <2>2, <2>3
    <3>5. QED
      BY <2>20, <3>3, <3>4
  <2>4. ASSUME Finish(r) PROVE StickyInv'
    BY <2>3, <2>4, IdleFields DEF Finish
  \* The copy stays as it is.
  <2>5. ASSUME NEW pc \in {"saving", "guardedSave", "checking"},
               req[r].pc \in {"counting", "locking", "checking"},
               admin' = admin, req' = [req EXCEPT ![r].pc = pc]
        PROVE  StickyInv'
    <3> DEFINE q == [req[r] EXCEPT !.pc = pc]
    <3>1. req[r] \in Request /\ req[r].pc # "idle"
      BY <2>5 DEF TypeOK
    <3>2. q.pc = pc /\ q.doc = req[r].doc /\ q.kind = req[r].kind /\ q.target = t
      BY <3>1, AdvanceFields
    <3>3. req' = [req EXCEPT ![r] = q]
      BY <2>5
    <3>4. Rejected(t) /\ req[r].doc.status = "approved"
            => MayApprove(r) \/ r \in overtaken'
      <4>1. req[r].doc # None
        BY <2>5, RequestShape, NoneIsNoRecord
      <4>2. req'[r].doc = req[r].doc
        BY <3>2, <3>3 DEF TypeOK
      <4>3. r \in overtaken => r \in overtaken'
        BY <1>2, <4>1, <4>2 DEF RecordHistory
      <4>4. QED
        BY <2>5, <4>3 DEF StickyInv
    <3> HIDE DEF q
    <3>5. QED
      BY <2>3, <2>5, <3>2, <3>3, <3>4 DEF MayApprove
  \* The copy has just been computed.
  <2>6. ASSUME NEW pc, NEW doc, req[r].pc = "authorized",
               admin' = admin, req' = [req EXCEPT ![r].pc = pc, ![r].doc = doc],
               Rejected(t) /\ doc.status = "approved"
                 => req[r].kind = "approve"
        PROVE  StickyInv'
    <3> DEFINE q == [req[r] EXCEPT !.pc = pc, !.doc = doc]
    <3>1. req[r] \in Request /\ req[r].pc # "idle"
      BY <2>6 DEF TypeOK
    <3>2. q.pc = pc /\ q.doc = doc /\ q.kind = req[r].kind /\ q.target = t
      BY <3>1, AdvanceFields
    <3>3. req' = [req EXCEPT ![r] = q]
      BY <2>6
    <3> HIDE DEF q
    <3>4. QED
      BY <2>3, <2>6, <3>2, <3>3
  <2>7. CASE Arrive(r)
    <3>1. ASSUME NEW op \in Admins, NEW target \in Admins, NEW role,
                 NEW kind \in {"approve", "reject", "setRole"},
                 Authorize(r, op, kind, target, role)
          PROVE  StickyInv'
      <4> DEFINE q == [Idle EXCEPT !.pc = "authorized", !.kind = kind,
                                   !.op = op, !.target = target, !.role = role]
      <4>1. q.pc = "authorized"
        BY DEF Idle
      <4>2. req' = [req EXCEPT ![r] = q] /\ admin' = admin
        BY <3>1 DEF Authorize
      <4> HIDE DEF q
      <4>3. QED
        BY <2>3, <4>1, <4>2
    <3>2. ASSUME NEW a \in Admins, NEW profileChanged \in BOOLEAN,
                 SignIn(r, a, profileChanged)
          PROVE  StickyInv'
      <4>1. PICK pc \in {"inserting", "saving"} : \E doc :
              /\ req' = [req EXCEPT ![r] = [Idle EXCEPT !.pc = pc,
                           !.kind = "signIn", !.target = a, !.doc = doc]]
              /\ pc = "saving" => doc = IF a \in Bootstrap
                                          THEN Reconcile(admin[a]) ELSE admin[a]
        BY <3>2 DEF SignIn
      <4>2. PICK doc :
              /\ req' = [req EXCEPT ![r] = [Idle EXCEPT !.pc = pc,
                           !.kind = "signIn", !.target = a, !.doc = doc]]
              /\ pc = "saving" => doc = IF a \in Bootstrap
                                          THEN Reconcile(admin[a]) ELSE admin[a]
        BY <4>1
      <4> DEFINE q == [Idle EXCEPT !.pc = pc, !.kind = "signIn",
                                   !.target = a, !.doc = doc]
      <4>3. q.pc = pc /\ q.kind = "signIn" /\ q.target = a /\ q.doc = doc
        BY DEF Idle
      <4>4. req' = [req EXCEPT ![r] = q] /\ admin' = admin
        BY <3>2, <4>2 DEF SignIn
      <4> HIDE DEF q
      <4>5. pc = "saving" /\ Rejected(a) /\ doc.status = "approved"
              => a \in Bootstrap
        BY <4>2 DEF Rejected
      <4>6. QED
        BY <2>3, <4>3, <4>4, <4>5
    <3>3. QED
      BY <2>7, <3>1, <3>2 DEF Arrive
  <2>8. CASE LoadForApprove(r)
    <3>1. CASE IsApproved(t)
      BY <2>4, <2>8, <3>1 DEF LoadForApprove
    <3>2. CASE ~IsApproved(t)
      BY <2>6, <2>8, <3>2 DEF LoadForApprove
    <3>3. QED
      BY <3>1, <3>2
  <2>9. CASE LoadForReject(r)
    <3>1. PICK pc \in {"counting", "saving"} :
            req' = [req EXCEPT ![r].pc = pc, ![r].doc = Reject(admin[t])]
      BY <2>9 DEF LoadForReject
    <3>2. admin[t] \in AdminUser
      BY <2>9, RequestShape DEF LoadForReject, Exists, TypeOK
    <3> DEFINE doc == Reject(admin[t])
    <3>3. doc.status = "rejected"
      BY <3>2 DEF Reject, AdminUser
    <3>4. /\ req' = [req EXCEPT ![r].pc = pc, ![r].doc = doc]
          /\ req[r].pc = "authorized" /\ admin' = admin
      BY <2>9, <3>1 DEF LoadForReject
    <3> HIDE DEF doc
    <3>5. QED
      BY <2>6, <3>3, <3>4
  <2>10. CASE CountApproved(r)
    BY <2>4, <2>5, <2>10 DEF CountApproved
  <2>11. CASE LoadForSetRole(r)
    <3>1. PICK doc : doc = [admin[t] EXCEPT !.role = req[r].role]
      OBVIOUS
    <3>2. PICK pc : req' = [req EXCEPT ![r].pc = pc, ![r].doc = doc]
      BY <2>11, <3>1 DEF LoadForSetRole
    <3>3. doc.status = admin[t].status
      <4>1. admin[t] \in AdminUser
        BY <2>11, RequestShape DEF LoadForSetRole, Exists, TypeOK
      <4>2. QED
        BY <3>1, <4>1 DEF AdminUser
    <3>4. QED
      BY <2>6, <2>11, <3>2, <3>3 DEF LoadForSetRole, Rejected
  <2>12. CASE LockGuard(r)
    BY <2>4, <2>5, <2>12 DEF LockGuard
  <2>13. CASE CheckOtherSystemAdmin(r)
    BY <2>4, <2>5, <2>13 DEF CheckOtherSystemAdmin
  <2>14. CASE \/ TargetNotFound(r) \/ Save(r) \/ GuardedSave(r) \/ InsertAdmin(r)
              \/ RepoError(r)
    BY <2>4, <2>14 DEF TargetNotFound, Save, GuardedSave, InsertAdmin, RepoError
  <2>15. QED
    BY <2>1, <2>7, <2>8, <2>9, <2>10, <2>11, <2>12, <2>13, <2>14 DEF Serve
<1>3. CASE ExpireGuard /\ RecordHistory
  <2>1. ASSUME NEW s \in Requests, s \in overtaken,
               req[s].pc \notin {"idle", "authorized"}
        PROVE  s \in overtaken'
    <3>1. req[s].doc # None
      BY <2>1, RequestShape, NoneIsNoRecord
    <3>2. QED
      BY <1>3, <2>1, <3>1 DEF ExpireGuard, RecordHistory
  <2>2. QED
    BY <1>3, <2>1 DEF ExpireGuard, StickyInv, Rejected, Exists, MayApprove
<1>4. QED
  BY <1>1, <1>2, <1>3 DEF Next, RequestStep

\* Only an approval, the sign-in of a bootstrap account, or a save that carries
\* a copy from before the rejection gives a rejected account its access back:
\* role changes and profile refreshes save whole records and never revive one
\* they have seen rejected, however many requests overlap.
THEOREM RevocationsStick == Spec => RevocationSticks
<1> DEFINE A == \A a \in Admins :
                  (Exists(a) /\ admin[a].status = "rejected" /\ IsApproved(a)')
                    => \E r \in Requests :
                         /\ req[r].pc \in {"saving", "guardedSave"}
                         /\ req[r].target = a
                         /\ \/ req[r].kind = "approve"
                            \/ req[r].kind = "signIn" /\ a \in Bootstrap
                            \/ r \in overtaken
<1>1. TypeOK /\ StickyInv /\ [Next]_vars => [A]_vars
  <2> SUFFICES ASSUME TypeOK, StickyInv, [Next]_vars,
                      NEW a \in Admins, Rejected(a), IsApproved(a)'
               PROVE  \E r \in Requests :
                        /\ req[r].pc \in {"saving", "guardedSave"}
                        /\ req[r].target = a
                        /\ \/ req[r].kind = "approve"
                           \/ req[r].kind = "signIn" /\ a \in Bootstrap
                           \/ r \in overtaken
    BY DEF Rejected
  <2>1. ASSUME admin' = admin PROVE FALSE
    BY <2>1 DEF Rejected, IsApproved, Exists
  <2>2. PICK r \in Requests : Arrive(r) \/ Serve(r) \/ RepoError(r)
    BY <2>1 DEF Next, vars, ExpireGuard
  <2>3. ASSUME req[r].pc \in {"saving", "guardedSave"},
               admin' = [admin EXCEPT ![req[r].target] = req[r].doc]
        PROVE  req[r].target = a /\ (MayApprove(r) \/ r \in overtaken)
    <3>1. req[r].target = a
      BY <2>3 DEF Rejected, IsApproved, Exists, TypeOK
    <3>2. req[r].doc.status = "approved"
      BY <2>3, <3>1 DEF IsApproved, TypeOK
    <3>3. QED
      BY <2>3, <3>1, <3>2 DEF StickyInv
  <2>4. CASE Save(r) \/ GuardedSave(r)
    BY <2>3, <2>4 DEF Save, GuardedSave, MayApprove
  <2>5. CASE InsertAdmin(r)
    <3>1. admin' = [admin EXCEPT ![req[r].target] = req[r].doc]
            /\ ~Exists(req[r].target)
      BY <2>1, <2>5 DEF InsertAdmin
    <3>2. admin'[a] = admin[a]
      BY <3>1 DEF Rejected, Exists, TypeOK
    <3>3. QED
      BY <3>2 DEF Rejected, IsApproved, Exists
  <2>6. CASE ~(Save(r) \/ GuardedSave(r) \/ InsertAdmin(r))
    <3>1. admin' = admin
      BY <2>2, <2>6 DEF Arrive, Authorize, SignIn, Serve, TargetNotFound,
         LoadForApprove, LoadForReject, CountApproved, LoadForSetRole,
         LockGuard, CheckOtherSystemAdmin, RepoError
    <3>2. QED
      BY <2>1, <3>1
  <2>7. QED
    BY <2>4, <2>5, <2>6
<1>2. QED
  BY <1>1, StickyInit, StickyNext, TypeCorrect, PTL DEF Spec, RevocationSticks
=============================================================================
