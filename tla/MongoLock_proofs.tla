-------------------------- MODULE MongoLock_proofs --------------------------
(***************************************************************************)
(* Proofs about MongoLock: LockInv is inductive.  From it, whatever the    *)
(* hosts, the callers and their faults: no process frees the lock of       *)
(* another one, index or not; and where the unique index exists, the lock  *)
(* excludes its callers from each other and implements Mutex.              *)
(***************************************************************************)
EXTENDS MongoLock, TLAPS

\* Ids of calls: two callers never draw the same one.
LEMMA IdsDiffer ==
    ASSUME NEW c \in Callers, NEW d \in Callers, LockID(c) = LockID(d)
    PROVE  c = d
BY DEF LockID

LEMMA IdIsNotNone ==
    ASSUME NEW c \in Callers, TypeOK, calls[c] > 0
    PROVE  LockID(c) \in LockIDs /\ LockID(c) # None /\ LockID(c)[1] = c
<1>1. calls[c] \in 1..MaxCalls
  BY LockAssumption DEF TypeOK
<1>2. LockID(c) \in LockIDs
  BY <1>1 DEF LockID, LockIDs
<1> QED BY <1>2, NoneIsNoLockID DEF LockID

\* Where the index exists, only the owner of the document counts on it.
LEMMA OneHolder ==
    ASSUME LockInv, indexed, NEW c \in Callers, NEW d \in Callers,
           Holding(c), Holding(d)
    PROVE  c = d
<1>1. docs = {LockID(c)} /\ docs = {LockID(d)}
  BY DEF LockInv, OwnsDocument
<1>2. LockID(c) = LockID(d)
  BY <1>1
<1> QED BY <1>2, IdsDiffer

\* A caller that counts on the lock has drawn an id, and where the index
\* exists there is a document.
LEMMA HolderHasDocument ==
    ASSUME LockInv, NEW c \in Callers, Holding(c)
    PROVE  calls[c] > 0 /\ (indexed => docs # {})
<1>1. pc[c] # "idle"
  BY DEF Holding
<1> QED BY <1>1 DEF LockInv, OwnsDocument

-----------------------------------------------------------------------------
\* What a step of caller c leaves alone: the other callers' places.
LEMMA OthersStay ==
    ASSUME TypeOK, NEW c \in Callers, NEW l, Goto(c, l),
           NEW d \in Callers, d # c
    PROVE  pc'[d] = pc[d]
BY DEF TypeOK, Goto

LEMMA MoverMoves ==
    ASSUME TypeOK, NEW c \in Callers, NEW l, Goto(c, l)
    PROVE  pc'[c] = l
BY DEF TypeOK, Goto

\* NewLock starts with empty maps, before any document is there.
THEOREM LockInvInit == Init => LockInv
<1> SUFFICES ASSUME Init PROVE LockInv
  OBVIOUS
<1> USE LockAssumption DEF Init
<1>1. TypeOK
  BY DEF TypeOK
<1>2. \A c \in Callers : pc[c] = "idle" /\ ~Holding(c) /\ seen[c] = None
  BY DEF Holding
<1>3. \A h \in Hosts : local[h] = None
  OBVIOUS
<1> QED BY <1>1, <1>2, <1>3 DEF LockInv, OwnsDocument

\* A step that changes neither a document, a map nor an id read, and after
\* which nobody counts on the lock or stands at "held" who did not before.
LEMMA QuietStep ==
    ASSUME LockInv, TypeOK', UNCHANGED <<indexed, docs, local, seen>>,
           \A d \in Callers :
             /\ pc'[d] # "idle" => calls'[d] > 0
             /\ Holding(d)' => Holding(d) /\ calls'[d] = calls[d]
             /\ pc'[d] = "held" => pc[d] = "held"
             /\ pc'[d] = "unlocking" => pc[d] = "unlocking"
    PROVE  LockInv'
<1>1. OwnsDocument'
  BY DEF LockInv, OwnsDocument, LockID
<1> QED BY <1>1 DEF LockInv, LockID, Holding

\* LockInv is preserved by every step, a case for each action.
THEOREM LockInvStep == LockInv /\ [Next]_vars => LockInv'
<1> SUFFICES ASSUME LockInv, [Next]_vars PROVE LockInv'
  OBVIOUS
<1> USE LockAssumption
<1>0. TypeOK
  BY DEF LockInv
<1>1. ASSUME NEW c \in Callers, Lock(c) PROVE LockInv'
  <2>1. calls'[c] > 0 /\ pc'[c] = "locking"
    BY <1>0, <1>1, MoverMoves DEF Lock, TypeOK
  <2>2. TypeOK'
    BY <1>0, <1>1 DEF Lock, TypeOK, Goto
  <2>3. \A d \in Callers : d # c => pc'[d] = pc[d] /\ calls'[d] = calls[d]
    BY <1>0, <1>1, OthersStay DEF Lock, TypeOK
  <2>4. UNCHANGED <<indexed, docs, local, seen>>
    BY <1>1 DEF Lock
  <2>5. \A d \in Callers : pc[d] # "idle" => calls[d] > 0
    BY DEF LockInv
  <2> QED BY <2>1, <2>2, <2>3, <2>4, <2>5, QuietStep DEF Holding
<1>2. ASSUME NEW c \in Callers, XLock(c) PROVE LockInv'
  <2>1. pc[c] = "locking" /\ ~Refused /\ docs' = docs \cup {LockID(c)}
        /\ calls[c] > 0
    BY <1>2 DEF XLock, LockInv
  <2>2. UNCHANGED <<indexed, local, calls, seen>> /\ pc'[c] = "storing"
    BY <1>0, <1>2, MoverMoves DEF XLock
  <2>3. \A d \in Callers : d # c => pc'[d] = pc[d]
    BY <1>0, <1>2, OthersStay DEF XLock
  <2>4. indexed => docs = {} /\ \A d \in Callers : ~Holding(d)
    BY <2>1, HolderHasDocument DEF Refused
  <2>5. TypeOK'
    BY <1>0, <1>2, <2>1, IdIsNotNone DEF XLock, TypeOK, Goto
  <2>6. OwnsDocument'
    BY <2>1, <2>2, <2>3, <2>4 DEF OwnsDocument, Holding, LockID
  <2> QED BY <2>1, <2>2, <2>3, <2>4, <2>5, <2>6 DEF LockInv, Holding, LockID
<1>3. ASSUME NEW c \in Callers, GiveUp(c) PROVE LockInv'
  <2>1. UNCHANGED <<indexed, docs, local, calls, seen>> /\ pc'[c] = "idle"
    BY <1>0, <1>3, MoverMoves DEF GiveUp
  <2>2. \A d \in Callers : d # c => pc'[d] = pc[d]
    BY <1>0, <1>3, OthersStay DEF GiveUp
  <2>3. TypeOK'
    BY <1>0, <1>3 DEF GiveUp, TypeOK, Goto
  <2>4. \A d \in Callers : pc[d] # "idle" => calls[d] > 0
    BY DEF LockInv
  <2> QED BY <2>1, <2>2, <2>3, <2>4, QuietStep DEF Holding
<1>4. ASSUME NEW c \in Callers, XLockError(c) PROVE LockInv'
  <2>1. pc[c] = "locking" /\ calls[c] > 0
    BY <1>4 DEF XLockError, LockInv
  <2>2. UNCHANGED <<indexed, local, calls, seen>> /\ pc'[c] = "idle"
    BY <1>0, <1>4, MoverMoves DEF XLockError
  <2>3. \A d \in Callers : d # c => pc'[d] = pc[d]
    BY <1>0, <1>4, OthersStay DEF XLockError
  <2>4. docs' = docs \/ (~Refused /\ docs' = docs \cup {LockID(c)})
    BY <1>4 DEF XLockError
  <2>5. TypeOK'
    BY <1>0, <1>4, <2>1, <2>4, IdIsNotNone DEF XLockError, TypeOK, Goto
  <2>6. indexed => \A d \in Callers : Holding(d) => docs' = docs
    BY <2>4, HolderHasDocument DEF Refused
  <2>7. OwnsDocument'
    BY <2>2, <2>3, <2>6 DEF OwnsDocument, LockInv, Holding, LockID
  <2> QED BY <2>2, <2>3, <2>5, <2>7 DEF LockInv, Holding, LockID
<1>5. ASSUME NEW c \in Callers, Store(c) PROVE LockInv'
  <2>1. pc[c] = "storing" /\ UNCHANGED <<indexed, docs, calls, seen>>
        /\ pc'[c] = "held"
    BY <1>0, <1>5, MoverMoves DEF Store
  <2>2. \A d \in Callers : d # c => pc'[d] = pc[d]
    BY <1>0, <1>5, OthersStay DEF Store
  <2>3. Holding(c) /\ calls[c] > 0
    BY <2>1, HolderHasDocument DEF Holding
  <2>4. TypeOK'
    BY <1>0, <1>5, <2>3, IdIsNotNone DEF Store, TypeOK, Goto
  <2>5. indexed => \A d \in Callers : d # c => ~Holding(d)
    BY <2>3, OneHolder
  <2>6. local'[HostOf[c]] = LockID(c) /\ LockID(c)[1] = c
        /\ \A h \in Hosts : h # HostOf[c] => local'[h] = local[h]
    BY <1>0, <1>5, <2>3, IdIsNotNone DEF Store, TypeOK
  <2>7. OwnsDocument'
    BY <2>1, <2>2, <2>3 DEF OwnsDocument, LockInv, Holding, LockID
  <2>8. \A h \in Hosts : local'[h] # None => HostOf[local'[h][1]] = h
    <3> TAKE h \in Hosts
    <3>1. CASE h = HostOf[c]
      BY <2>6, <3>1
    <3>2. CASE h # HostOf[c]
      <4>1. local'[h] = local[h]
        BY <2>6, <3>2
      <4> QED BY <4>1 DEF LockInv
    <3> QED BY <3>1, <3>2
  <2>9. ASSUME indexed, NEW d \in Callers
        PROVE  /\ pc'[d] = "held" => local'[HostOf[d]] \in {LockID(d)', None}
               /\ pc'[d] = "unlocking" => seen'[d] = LockID(d)'
    <3>1. CASE d = c
      BY <2>1, <2>6, <3>1 DEF LockID
    <3>2. CASE d # c
      BY <2>2, <2>5, <2>9, <3>2 DEF Holding
    <3> QED BY <3>1, <3>2
  <2>10. \A d \in Callers :
           /\ pc'[d] # "idle" => calls'[d] > 0
           /\ seen'[d] # None => HostOf[seen'[d][1]] = HostOf[d]
           /\ pc'[d] = "unlocking" => seen'[d] # None
    BY <2>1, <2>2, <2>3 DEF LockInv
  <2>11. indexed' = indexed
    BY <2>1
  <2> QED BY <2>4, <2>7, <2>8, <2>9, <2>10, <2>11 DEF LockInv
<1>6. ASSUME NEW c \in Callers, Unlock(c) PROVE LockInv'
  <2>1. pc[c] = "held" /\ UNCHANGED <<indexed, docs, local, calls>>
    BY <1>6 DEF Unlock
  <2>2. CASE local[HostOf[c]] = None
    <3>1. UNCHANGED seen /\ pc'[c] = "idle"
      BY <1>0, <1>6, <2>2, MoverMoves DEF Unlock
    <3>2. \A d \in Callers : d # c => pc'[d] = pc[d]
      BY <1>0, <1>6, <2>2, OthersStay DEF Unlock
    <3>3. TypeOK'
      BY <1>0, <1>6, <2>2 DEF Unlock, TypeOK, Goto
    <3>4. \A d \in Callers : pc[d] # "idle" => calls[d] > 0
      BY DEF LockInv
    <3> QED BY <2>1, <3>1, <3>2, <3>3, <3>4, QuietStep DEF Holding
  <2>3. CASE local[HostOf[c]] # None
    <3>1. local[HostOf[c]] \in LockIDs
          /\ HostOf[local[HostOf[c]][1]] = HostOf[c]
          /\ (indexed => local[HostOf[c]] = LockID(c))
      BY <1>0, <2>1, <2>3 DEF LockInv, TypeOK
    <3>2. seen' = [seen EXCEPT ![c] = local[HostOf[c]]] /\ pc'[c] = "unlocking"
      BY <1>0, <1>6, <2>3, <3>1, MoverMoves DEF Unlock
    <3>3. \A d \in Callers : d # c => pc'[d] = pc[d] /\ seen'[d] = seen[d]
      BY <1>0, <1>6, <2>3, <3>2, OthersStay DEF Unlock, TypeOK
    <3>4. TypeOK'
      BY <1>0, <1>6, <2>3, <3>1, <3>2 DEF Unlock, TypeOK, Goto
    <3>5. seen'[c] = local[HostOf[c]]
      BY <1>0, <3>2 DEF TypeOK
    <3>6. Holding(c) /\ Holding(c)'
      BY <2>1, <3>2 DEF Holding
    <3>7. OwnsDocument'
      BY <2>1, <3>3, <3>6 DEF OwnsDocument, LockInv, Holding, LockID
    <3> QED BY <2>1, <2>3, <3>1, <3>2, <3>3, <3>4, <3>5, <3>6, <3>7
            DEF LockInv, Holding, LockID
  <2> QED BY <2>2, <2>3
<1>7. ASSUME NEW c \in Callers, RemoteUnlock(c) PROVE LockInv'
  <2>1. pc[c] = "unlocking" /\ UNCHANGED <<indexed, local, calls, seen>>
        /\ pc'[c] = "forgetting" /\ docs' \subseteq docs
    BY <1>0, <1>7, MoverMoves DEF RemoteUnlock
  <2>2. \A d \in Callers : d # c => pc'[d] = pc[d]
    BY <1>0, <1>7, OthersStay DEF RemoteUnlock
  <2>3. indexed => \A d \in Callers : d # c => ~Holding(d)
    BY <2>1, OneHolder DEF Holding
  <2>4. TypeOK'
    BY <1>0, <1>7, <2>1 DEF RemoteUnlock, TypeOK, Goto
  <2>5. calls[c] > 0
    BY <2>1 DEF LockInv
  <2>6. OwnsDocument'
    BY <2>1, <2>2, <2>3 DEF OwnsDocument, Holding, LockID
  <2> QED BY <2>1, <2>2, <2>3, <2>4, <2>5, <2>6 DEF LockInv, Holding, LockID
<1>8. ASSUME NEW c \in Callers, Forget(c) PROVE LockInv'
  <2>1. UNCHANGED <<indexed, docs, calls, seen>> /\ pc'[c] = "idle"
    BY <1>0, <1>8, MoverMoves DEF Forget
  <2>2. \A d \in Callers : d # c => pc'[d] = pc[d]
    BY <1>0, <1>8, OthersStay DEF Forget
  <2>3. TypeOK'
    BY <1>0, <1>8 DEF Forget, TypeOK, Goto
  <2>4. \A h \in Hosts : local'[h] \in {local[h], None}
    BY <1>0, <1>8 DEF Forget, TypeOK
  <2>5. OwnsDocument'
    BY <2>1, <2>2 DEF OwnsDocument, LockInv, Holding, LockID
  <2> QED BY <2>1, <2>2, <2>3, <2>4, <2>5 DEF LockInv, Holding, LockID
<1>9. ASSUME NEW h \in Hosts, Crash(h) PROVE LockInv'
  <2>1. UNCHANGED <<indexed, docs, calls, seen>>
    BY <1>9 DEF Crash
  <2>2. \A d \in Callers : pc'[d] \in {"idle", pc[d]}
    BY <1>9 DEF Crash
  <2>3. TypeOK'
    BY <1>0, <1>9 DEF Crash, TypeOK
  <2>4. \A g \in Hosts : local'[g] \in {local[g], None}
    BY <1>0, <1>9 DEF Crash, TypeOK
  <2>5. OwnsDocument'
    BY <2>1, <2>2 DEF OwnsDocument, LockInv, Holding, LockID
  <2> QED BY <2>1, <2>2, <2>3, <2>4, <2>5 DEF LockInv, Holding, LockID
<1>10. CASE Expire
  <2>1. PICK id \in docs :
          /\ \A d \in Callers : Holding(d) => LockID(d) # id
          /\ docs' = docs \ {id}
    BY <1>10 DEF Expire
  <2>2. UNCHANGED <<indexed, local, pc, calls, seen>>
    BY <1>10 DEF Expire
  <2>3. TypeOK'
    BY <1>0, <2>1, <2>2 DEF TypeOK
  <2>4. OwnsDocument'
    BY <2>1, <2>2 DEF OwnsDocument, LockInv, Holding, LockID
  <2> QED BY <2>2, <2>3, <2>4 DEF LockInv, LockID
<1>11. CASE UNCHANGED vars
  BY <1>11 DEF vars, LockInv, TypeOK, OwnsDocument, Holding, LockID
<1> QED BY <1>1, <1>2, <1>3, <1>4, <1>5, <1>6, <1>7, <1>8, <1>9, <1>10, <1>11
        DEF Next, Step

\* Lock and Unlock keep the inductive invariant in every interleaving.
THEOREM LockInvariant == Spec => []LockInv
BY LockInvInit, LockInvStep, PTL DEF Spec

\* The lock documents, the maps of the processes and the callers keep their types.
THEOREM TypeCorrect == Spec => []TypeOK
<1>1. LockInv => TypeOK
  BY DEF LockInv
<1> QED BY <1>1, LockInvariant, PTL

-----------------------------------------------------------------------------
\* Where the index exists, whoever is between the creation of its document and
\* its deletion owns the only document there is, through overlapping callers
\* of one process, crashes, failed calls and expiry.
THEOREM OwnershipKept == Spec => []OwnsDocument
<1>1. LockInv => OwnsDocument
  BY DEF LockInv
<1> QED BY <1>1, LockInvariant, PTL

\* Hence at most one caller is there: where the index exists, Lock and Unlock
\* of mongo/lock.go exclude the callers of all the processes.
THEOREM MutuallyExclusive == Spec => [](indexed => MutualExclusion)
<1>1. LockInv => (indexed => MutualExclusion)
  BY OneHolder DEF MutualExclusion
<1> QED BY <1>1, LockInvariant, PTL

\* Index or not, the only step that deletes a document somebody counts on is an
\* unlock of the same process.
THEOREM StepKeepsOthers ==
    ASSUME LockInv, [Next]_vars, NEW c \in Callers, Holding(c),
           LockID(c) \in docs, LockID(c) \notin docs'
    PROVE  \E d \in Callers : HostOf[d] = HostOf[c] /\ pc[d] = "unlocking"
<1>1. CASE \E d \in Callers : RemoteUnlock(d)
  <2>1. PICK d \in Callers : RemoteUnlock(d)
    BY <1>1
  <2>2. pc[d] = "unlocking" /\ seen[d] = LockID(c) /\ seen[d] # None
    BY <2>1 DEF RemoteUnlock, LockInv
  <2>3. HostOf[d] = HostOf[c]
    BY <2>2 DEF LockInv, LockID
  <2> QED BY <2>2, <2>3
<1>2. CASE Expire
  BY <1>2 DEF Expire
<1>3. CASE UNCHANGED vars
  BY <1>3 DEF vars
<1>4. CASE \E d \in Callers : \/ Lock(d) \/ XLock(d) \/ GiveUp(d)
                              \/ XLockError(d) \/ Store(d) \/ Unlock(d)
                              \/ Forget(d)
  BY <1>4 DEF Lock, XLock, GiveUp, XLockError, Store, Unlock, Forget
<1>5. CASE \E h \in Hosts : Crash(h)
  BY <1>5 DEF Crash
<1> QED BY <1>1, <1>2, <1>3, <1>4, <1>5 DEF Next, Step

\* No process frees the lock of another one: neither the map kept per name, nor
\* a crash, a failed call, the expiry or the missing index makes an unlock
\* delete a document that a caller elsewhere still counts on.
THEOREM OthersAreKept == Spec => OthersKept
<1>1. LockInv /\ [Next]_vars
        => [\A c \in Callers :
              Holding(c) /\ LockID(c) \in docs /\ LockID(c) \notin docs'
                => \E d \in Callers : HostOf[d] = HostOf[c]
                                        /\ pc[d] = "unlocking"]_vars
  BY StepKeepsOthers
<1> QED BY <1>1, LockInvariant, PTL DEF Spec, OthersKept

-----------------------------------------------------------------------------
\* What the refinement mapping picks in a state: the one holder, or None.
THEOREM HolderIsUnique ==
    LockInv /\ indexed => \A c \in Callers : Holding(c) => Holder = c
<1> SUFFICES ASSUME LockInv, indexed, NEW c \in Callers, Holding(c)
             PROVE  Holder = c
  OBVIOUS
<1>1. \A d \in Callers : Holding(d) => d = c
  BY OneHolder
<1> QED BY <1>1 DEF Holder

\* Nobody is the holder when nobody holds, or when there is no index.
THEOREM HolderIsNone ==
    (~indexed \/ \A c \in Callers : ~Holding(c)) => Holder = None
BY DEF Holder

\* A step of one caller leaves the others holding or not as they were.
LEMMA OthersHold ==
    ASSUME TypeOK, NEW c \in Callers, NEW l, Goto(c, l),
           NEW d \in Callers, d # c
    PROVE  Holding(d)' <=> Holding(d)
BY OthersStay DEF Holding

\* Every step takes the mutex, releases it or leaves it as it is.
THEOREM StepRefinesMutex ==
    LockInv /\ LockInv' /\ [Next]_vars => [M!Next]_Holder
<1> SUFFICES ASSUME LockInv, LockInv', [Next]_vars
             PROVE  [M!Next]_Holder
  OBVIOUS
<1>i. indexed' = indexed
  <2>1. ASSUME NEW c \in Callers, Lock(c) \/ Step(c) PROVE indexed' = indexed
    <3>1. CASE Lock(c) \/ XLock(c) \/ GiveUp(c) \/ XLockError(c)
      BY <3>1 DEF Lock, XLock, GiveUp, XLockError
    <3>2. CASE Store(c) \/ Unlock(c) \/ RemoteUnlock(c) \/ Forget(c)
      BY <3>2 DEF Store, Unlock, RemoteUnlock, Forget
    <3> QED BY <2>1, <3>1, <3>2 DEF Step
  <2>2. ASSUME NEW h \in Hosts, Crash(h) PROVE indexed' = indexed
    BY <2>2 DEF Crash
  <2>3. CASE Expire \/ UNCHANGED vars
    BY <2>3 DEF Expire, vars
  <2> QED BY <2>1, <2>2, <2>3 DEF Next
<1>n. CASE ~indexed
  <2>1. Holder = None
    BY <1>n, HolderIsNone
  <2>2. ((~indexed \/ \A c \in Callers : ~Holding(c)) => Holder = None)'
    BY HolderIsNone, PTL
  <2> QED BY <1>i, <1>n, <2>1, <2>2
<1> SUFFICES ASSUME indexed, indexed'
             PROVE  [M!Next]_Holder
  BY <1>i, <1>n
<1>0. TypeOK
  BY DEF LockInv
<1>a. \A c \in Callers : Holding(c) => Holder = c
  BY HolderIsUnique
<1>b. (\A c \in Callers : ~Holding(c)) => Holder = None
  BY HolderIsNone
<1>c. (LockInv /\ indexed => \A c \in Callers : Holding(c) => Holder = c)'
  BY HolderIsUnique, PTL
<1>d. ((~indexed \/ \A c \in Callers : ~Holding(c)) => Holder = None)'
  BY HolderIsNone, PTL
<1>e. \A c \in Callers : Holding(c)' => Holder' = c
  BY <1>c
<1>f. (\A c \in Callers : ~Holding(c)') => Holder' = None
  BY <1>d
\* A step that changes nobody's holding stutters.
<1>s. (\A c \in Callers : Holding(c)' <=> Holding(c)) => Holder' = Holder
  <2> SUFFICES ASSUME \A c \in Callers : Holding(c)' <=> Holding(c)
               PROVE  Holder' = Holder
    OBVIOUS
  <2>1. CASE \E c \in Callers : Holding(c)
    BY <2>1, <1>a, <1>e
  <2>2. CASE \A c \in Callers : ~Holding(c)
    BY <2>2, <1>b, <1>f
  <2> QED BY <2>1, <2>2
\* A step after which the holder holds no more, and nobody else does.
<1>r. ASSUME NEW c \in Callers, Holding(c), \A d \in Callers : ~Holding(d)'
      PROVE  M!Next
  <2>1. Holder = c /\ Holder' = None
    BY <1>r, <1>a, <1>f
  <2> QED BY <2>1 DEF M!Next, M!Release
<1>1. ASSUME NEW c \in Callers, Lock(c) PROVE [M!Next]_Holder
  <2>1. pc[c] = "idle" /\ pc'[c] = "locking"
    BY <1>0, <1>1, MoverMoves DEF Lock
  <2>2. \A d \in Callers : Holding(d)' <=> Holding(d)
    BY <1>0, <1>1, <2>1, OthersHold DEF Lock, Holding
  <2> QED BY <2>2, <1>s
<1>2. ASSUME NEW c \in Callers, XLock(c) PROVE [M!Next]_Holder
  <2>1. docs = {} /\ pc'[c] = "storing"
    BY <1>0, <1>2, MoverMoves DEF XLock, Refused
  <2>2. \A d \in Callers : ~Holding(d)
    BY <2>1, HolderHasDocument
  <2>3. Holder = None /\ Holder' = c
    BY <2>1, <2>2, <1>b, <1>e DEF Holding
  <2> QED BY <2>3 DEF M!Next, M!Acquire
<1>3. ASSUME NEW c \in Callers, GiveUp(c) \/ XLockError(c)
      PROVE  [M!Next]_Holder
  <2>1. pc[c] = "locking" /\ pc'[c] = "idle"
    BY <1>0, <1>3, MoverMoves DEF GiveUp, XLockError
  <2>2. \A d \in Callers : Holding(d)' <=> Holding(d)
    BY <1>0, <1>3, <2>1, OthersHold DEF GiveUp, XLockError, Holding
  <2> QED BY <2>2, <1>s
<1>4. ASSUME NEW c \in Callers, Store(c) PROVE [M!Next]_Holder
  <2>1. pc[c] = "storing" /\ pc'[c] = "held"
    BY <1>0, <1>4, MoverMoves DEF Store
  <2>2. \A d \in Callers : Holding(d)' <=> Holding(d)
    BY <1>0, <1>4, <2>1, OthersHold DEF Store, Holding
  <2> QED BY <2>2, <1>s
<1>5. ASSUME NEW c \in Callers, Unlock(c) PROVE [M!Next]_Holder
  <2>1. pc[c] = "held" /\ Holding(c)
    BY <1>5 DEF Unlock, Holding
  <2>2. \A d \in Callers : d # c => ~Holding(d)
    BY <2>1, OneHolder
  <2>3. CASE local[HostOf[c]] = None
    <3>1. Goto(c, "idle") /\ pc'[c] = "idle"
      BY <1>0, <1>5, <2>3, MoverMoves DEF Unlock
    <3>2. \A d \in Callers : ~Holding(d)'
      BY <1>0, <2>2, <3>1, OthersHold DEF Holding
    <3> QED BY <2>1, <3>2, <1>r
  <2>4. CASE local[HostOf[c]] # None
    <3>1. Goto(c, "unlocking") /\ pc'[c] = "unlocking"
      BY <1>0, <1>5, <2>4, MoverMoves DEF Unlock
    <3>2. \A d \in Callers : Holding(d)' <=> Holding(d)
      BY <1>0, <2>1, <3>1, OthersHold DEF Holding
    <3> QED BY <3>2, <1>s
  <2> QED BY <2>3, <2>4
<1>6. ASSUME NEW c \in Callers, RemoteUnlock(c) PROVE [M!Next]_Holder
  <2>1. Holding(c) /\ Goto(c, "forgetting") /\ pc'[c] = "forgetting"
    BY <1>0, <1>6, MoverMoves DEF RemoteUnlock, Holding
  <2>2. \A d \in Callers : d # c => ~Holding(d)
    BY <2>1, OneHolder
  <2>3. \A d \in Callers : ~Holding(d)'
    BY <1>0, <2>1, <2>2, OthersHold DEF Holding
  <2> QED BY <2>1, <2>3, <1>r
<1>7. ASSUME NEW c \in Callers, Forget(c) PROVE [M!Next]_Holder
  <2>1. pc[c] = "forgetting" /\ pc'[c] = "idle"
    BY <1>0, <1>7, MoverMoves DEF Forget
  <2>2. \A d \in Callers : Holding(d)' <=> Holding(d)
    BY <1>0, <1>7, <2>1, OthersHold DEF Forget, Holding
  <2> QED BY <2>2, <1>s
<1>8. ASSUME NEW h \in Hosts, Crash(h) PROVE [M!Next]_Holder
  <2>1. \A d \in Callers :
          pc'[d] = IF HostOf[d] = h THEN "idle" ELSE pc[d]
    BY <1>8 DEF Crash
  <2>2. CASE \E c \in Callers : Holding(c) /\ HostOf[c] = h
    <3>1. PICK c \in Callers : Holding(c) /\ HostOf[c] = h
      BY <2>2
    <3>2. \A d \in Callers : d # c => ~Holding(d)
      BY <3>1, OneHolder
    <3>3. \A d \in Callers : ~Holding(d)'
      BY <2>1, <3>1, <3>2 DEF Holding
    <3> QED BY <3>1, <3>3, <1>r
  <2>3. CASE \A c \in Callers : Holding(c) => HostOf[c] # h
    <3>1. \A d \in Callers : Holding(d)' <=> Holding(d)
      BY <2>1, <2>3 DEF Holding
    <3> QED BY <3>1, <1>s
  <2> QED BY <2>2, <2>3
<1>9. CASE Expire \/ UNCHANGED vars
  <2>1. \A d \in Callers : Holding(d)' <=> Holding(d)
    BY <1>9 DEF Expire, vars, Holding
  <2> QED BY <2>1, <1>s
<1> QED BY <1>1, <1>2, <1>3, <1>4, <1>5, <1>6, <1>7, <1>8, <1>9 DEF Next, Step

\* Where the index exists the lock of mongo/lock.go is a mutex: every behaviour
\* of MongoLock, seen through Holder, is a behaviour of Mutex.
THEOREM RefinesMutex == Spec => ImplementsMutex
<1>1. Init => M!Init
  <2> SUFFICES ASSUME Init PROVE Holder = None
    BY DEF M!Init
  <2>1. \A c \in Callers : ~Holding(c)
    BY DEF Init, Holding
  <2> QED BY <2>1, HolderIsNone
<1> QED BY <1>1, StepRefinesMutex, LockInvariant, PTL
        DEF Spec, ImplementsMutex, M!Spec
=============================================================================
