----------------------------- MODULE MongoLock -----------------------------
(***************************************************************************)
(* The named lock of server/internal/infrastructure/mongo/lock.go, for one *)
(* name.  A lock document in MongoDB excludes the processes from each      *)
(* other; a map in each process (Lock.locks) remembers, per NAME and not   *)
(* per caller, the id under which the process holds it.                    *)
(*                                                                         *)
(* Lock and Unlock are several steps each: the map is read, the database   *)
(* is called, the map is written, and other callers of the same process    *)
(* run in between.                                                         *)
(*                                                                         *)
(* XLock is an upsert, and only a unique index on `resource` refuses it    *)
(* while another document locks the name.  NewLock creates no index and    *)
(* nothing else in the repository does, so whether the collection has it   *)
(* is up to who set the database up: `indexed` is chosen initially.        *)
(***************************************************************************)
EXTENDS Naturals

CONSTANTS
    Hosts,      \* processes
    Callers,    \* goroutines that use the lock
    HostOf,     \* the process each caller runs in
    MaxCalls,   \* bound: calls of Lock per caller
    Faults,     \* TRUE: processes crash and database calls fail
    None

ASSUME LockAssumption ==
    /\ HostOf \in [Callers -> Hosts]
    /\ MaxCalls \in Nat
    /\ Faults \in BOOLEAN
    /\ None \notin Callers

VARIABLES
    indexed, \* the "locks" collection has the unique index on `resource`
    docs,    \* ids in the documents that lock the name
    local,   \* Lock.locks of each process: the id stored for the name
    pc,      \* where each caller is
    calls,   \* how many ids (uuid.NewString) each caller has drawn
    seen     \* the id Unlock read from the map

vars == <<indexed, docs, local, pc, calls, seen>>

\* uuid.NewString: an id never drawn before, here the caller and a count.
LockIDs == Callers \X (1..MaxCalls)

ASSUME NoneIsNoLockID == None \notin LockIDs

\* The id of the caller's current call.
LockID(c) == <<c, calls[c]>>

Init ==
    /\ indexed \in BOOLEAN
    /\ docs = {}
    /\ local = [h \in Hosts |-> None]
    /\ pc = [c \in Callers |-> "idle"]
    /\ calls = [c \in Callers |-> 0]
    /\ seen = [c \in Callers |-> None]

Goto(c, l) == pc' = [pc EXCEPT ![c] = l]

-----------------------------------------------------------------------------
\* Lock: refused at once (ErrAlreadyLocked) when the map has an id.
Lock(c) ==
    /\ pc[c] = "idle"
    /\ calls[c] < MaxCalls
    /\ local[HostOf[c]] = None
    /\ calls' = [calls EXCEPT ![c] = @ + 1]
    /\ Goto(c, "locking")
    /\ UNCHANGED <<indexed, docs, local, seen>>

\* The unique index refuses a second document; without it nothing does.
Refused == indexed /\ docs # {}

\* Mutant: the lock is taken without regard to the documents there are.
XLockAlways(c) ==
    /\ pc[c] = "locking"
    /\ docs' = docs \cup {LockID(c)}
    /\ Goto(c, "storing")
    /\ UNCHANGED <<indexed, local, calls, seen>>

\* Mutant: the host's id where the lock's id belongs.
XLockAsHost(c) ==
    /\ pc[c] = "locking"
    /\ ~Refused
    /\ docs' = docs \cup {HostOf[c]}
    /\ Goto(c, "storing")
    /\ UNCHANGED <<indexed, local, calls, seen>>

\* XLock inserts a document with the id.
XLock(c) ==
    /\ pc[c] = "locking"
    /\ ~Refused
    /\ docs' = docs \cup {LockID(c)}
    /\ Goto(c, "storing")
    /\ UNCHANGED <<indexed, local, calls, seen>>

\* Mutant: the error of the last retry is ignored.
GiveUpIgnored(c) ==
    /\ pc[c] = "locking"
    /\ Refused
    /\ Goto(c, "storing")
    /\ UNCHANGED <<indexed, docs, local, calls, seen>>

\* Every retry was refused: ErrFailedToLock.
GiveUp(c) ==
    /\ pc[c] = "locking"
    /\ Refused
    /\ Goto(c, "idle")
    /\ UNCHANGED <<indexed, docs, local, calls, seen>>

\* The call fails, before or after the database has executed it: Lock returns
\* an error and stores nothing.
XLockError(c) ==
    /\ Faults
    /\ pc[c] = "locking"
    /\ \/ UNCHANGED docs
       \/ ~Refused /\ docs' = docs \cup {LockID(c)}
    /\ Goto(c, "idle")
    /\ UNCHANGED <<indexed, local, calls, seen>>

\* setLockID; the caller then enters its critical section.
Store(c) ==
    /\ pc[c] = "storing"
    /\ local' = [local EXCEPT ![HostOf[c]] = LockID(c)]
    /\ Goto(c, "held")
    /\ UNCHANGED <<indexed, docs, calls, seen>>

\* Unlock reads the map; without an id it returns ErrNotLocked.
Unlock(c) ==
    LET id == local[HostOf[c]] IN
    /\ pc[c] = "held"
    /\ IF id = None
         THEN Goto(c, "idle") /\ UNCHANGED seen
         ELSE Goto(c, "unlocking") /\ seen' = [seen EXCEPT ![c] = id]
    /\ UNCHANGED <<indexed, docs, local, calls>>

\* Mutant: the remote unlock goes by the name.
RemoteUnlockByName(c) ==
    /\ pc[c] = "unlocking"
    /\ docs' = {}
    /\ Goto(c, "forgetting")
    /\ UNCHANGED <<indexed, local, calls, seen>>

\* The remote unlock deletes the document with that id; when the call fails
\* the document may stay.
RemoteUnlock(c) ==
    /\ pc[c] = "unlocking"
    /\ \/ docs' = docs \ {seen[c]}
       \/ Faults /\ UNCHANGED docs
    /\ Goto(c, "forgetting")
    /\ UNCHANGED <<indexed, local, calls, seen>>

\* The deferred deleteLockID, whatever id the map has by now.
Forget(c) ==
    /\ pc[c] = "forgetting"
    /\ local' = [local EXCEPT ![HostOf[c]] = None]
    /\ Goto(c, "idle")
    /\ UNCHANGED <<indexed, docs, calls, seen>>

-----------------------------------------------------------------------------
\* A caller that still counts on the document it created.
Holding(c) == pc[c] \in {"storing", "held", "unlocking"}

\* A process dies: its memory is lost, the document is not.
Crash(h) ==
    /\ Faults
    /\ \E c \in Callers : HostOf[c] = h /\ pc[c] # "idle"
    /\ local' = [local EXCEPT ![h] = None]
    /\ pc' = [c \in Callers |-> IF HostOf[c] = h THEN "idle" ELSE pc[c]]
    /\ UNCHANGED <<indexed, docs, calls, seen>>

\* The TTL of an hour, which outlives every caller, may remove a document
\* nobody counts on.  The code only asks for the TTL and sets up nothing that
\* removes what has expired, so nothing says that this ever happens.
Expire ==
    /\ \E id \in docs :
         /\ \A c \in Callers : Holding(c) => LockID(c) # id
         /\ docs' = docs \ {id}
    /\ UNCHANGED <<indexed, local, pc, calls, seen>>

Step(c) == \/ XLock(c) \/ GiveUp(c) \/ XLockError(c) \/ Store(c)
           \/ Unlock(c) \/ RemoteUnlock(c) \/ Forget(c)

Next == \/ \E c \in Callers : Lock(c) \/ Step(c)
        \/ \E h \in Hosts : Crash(h)
        \/ Expire

Spec == Init /\ [][Next]_vars

-----------------------------------------------------------------------------
TypeOK ==
    /\ indexed \in BOOLEAN
    /\ docs \subseteq LockIDs
    /\ local \in [Hosts -> LockIDs \cup {None}]
    /\ pc \in [Callers -> {"idle", "locking", "storing", "held", "unlocking",
                           "forgetting"}]
    /\ calls \in [Callers -> 0..MaxCalls]
    /\ seen \in [Callers -> LockIDs \cup {None}]

\* What the comment in Unlock promises of the lock document: at most one
\* caller of any process is in its critical section.  The code does not see
\* to the index this needs.
MutualExclusion ==
    \A c, d \in Callers : Holding(c) /\ Holding(d) => c = d

\* Where the index exists, a caller that counts on its document owns the only
\* one: although a process keeps ONE id per name for all its callers, nobody
\* unlocks the document of another or leaves with an id that is not its own.
OwnsDocument ==
    indexed => \A c \in Callers : Holding(c) => docs = {LockID(c)}

\* Index or not, a document that is counted on is deleted by an unlock of its
\* own process only: whatever fails, a process never frees another one's lock.
OthersKept ==
    [][\A c \in Callers :
         Holding(c) /\ LockID(c) \in docs /\ LockID(c) \notin docs'
           => \E d \in Callers : HostOf[d] = HostOf[c] /\ pc[d] = "unlocking"]_vars

\* The inductive invariant.  The ids a process keeps are its own callers';
\* and where the index exists, a caller that counts on the document owns it,
\* and its process's map has no other id once it has stored its own.
LockInv ==
    /\ TypeOK
    /\ \A h \in Hosts : local[h] # None => HostOf[local[h][1]] = h
    /\ \A c \in Callers :
         /\ pc[c] # "idle" => calls[c] > 0
         /\ seen[c] # None => HostOf[seen[c][1]] = HostOf[c]
         /\ pc[c] = "unlocking" => seen[c] # None
    /\ OwnsDocument
    /\ indexed => \A c \in Callers :
                    /\ pc[c] = "held" => local[HostOf[c]] \in {LockID(c), None}
                    /\ pc[c] = "unlocking" => seen[c] = LockID(c)

\* Where the index exists, MongoLock implements Mutex: taking the lock is the
\* creation of the document.  Where it does not, nothing is claimed.
Holder == IF indexed /\ \E c \in Callers : Holding(c)
            THEN CHOOSE c \in Callers : Holding(c)
            ELSE None

M == INSTANCE Mutex WITH holder <- Holder

ImplementsMutex == M!Spec
=============================================================================
