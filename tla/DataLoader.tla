----------------------------- MODULE DataLoader -----------------------------
(***************************************************************************)
(* The loaders of one GraphQL request: gqldataloader/userloader_gen.go and *)
(* its twin for workspaces.  Resolvers run concurrently and Load one key   *)
(* each; the loader collects keys in a batch until a timer fires or the    *)
(* batch is full, fetches the batch in one go, and hands every resolver    *)
(* the value at its key's POSITION in the answer.                          *)
(*                                                                         *)
(* Every section under UserLoader.mu is one step.  LoadAll makes one thunk *)
(* per key, each of which is a load here.  A batch is named after the load *)
(* that created it; the user or workspace of a key is the key itself.      *)
(***************************************************************************)
EXTENDS Naturals, Sequences, FiniteSets

CONSTANTS
    Keys,      \* ids
    Loads,     \* calls of LoadThunk in the request
    MaxBatch,  \* dataLoaderMaxBatch; 0 means no limit
    Missing,   \* ids that may have no document, or one that does not convert
    Nil,       \* a nil user or workspace
    Unset      \* no cache entry, no batch, no key

ASSUME LoaderAssumption ==
    /\ MaxBatch \in Nat
    /\ Missing \subseteq Keys
    /\ Nil \notin Keys
    /\ Unset \notin Keys \cup Loads \cup {Nil}

VARIABLES
    kind,     \* which of the request's two loaders this is
    missing,  \* the ids that have no value while the request runs
    cache,    \* l.cache
    current,  \* l.batch
    keys,     \* batch.keys
    closing,  \* batch.closing
    timer,    \* the goroutine startTimer of each batch
    limiter,  \* the goroutine of end that a full batch starts
    data,     \* batch.data
    failed,   \* batch.error is not nil
    pc,       \* where each load is
    key,      \* its key
    at,       \* the batch it waits for
    pos,      \* the position of its key there, from 1
    result    \* what it returns

request == <<kind, missing>>
loader == <<cache, current>>
batch == <<keys, closing, timer, limiter, data, failed>>
load == <<pc, key, at, pos, result>>
vars == <<request, loader, batch, load>>

Init ==
    /\ kind \in {"user", "workspace"}
    /\ missing \in SUBSET Missing
    /\ cache = [k \in Keys |-> Unset]
    /\ current = Unset
    /\ keys = [b \in Loads |-> <<>>]
    /\ closing = [b \in Loads |-> FALSE]
    /\ timer = [b \in Loads |-> "none"]
    /\ limiter = [b \in Loads |-> "none"]
    /\ data = [b \in Loads |-> <<>>]
    /\ failed = [b \in Loads |-> FALSE]
    /\ pc = [l \in Loads |-> "idle"]
    /\ key = [l \in Loads |-> Unset]
    /\ at = [l \in Loads |-> Unset]
    /\ pos = [l \in Loads |-> 0]
    /\ result = [l \in Loads |-> Nil]

Holds(b, k) == \E i \in DOMAIN keys[b] : keys[b][i] = k

\* end has been entered, and has closed batch.done.
Taken(b) == {timer[b], limiter[b]} \cap {"ending", "ended"} # {}
Done(b) == "ended" \in {timer[b], limiter[b]}

-----------------------------------------------------------------------------
\* LoadThunk of a cached key.
Hit(l, k) ==
    /\ pc[l] = "idle"
    /\ cache[k] # Unset
    /\ pc' = [pc EXCEPT ![l] = "returned"]
    /\ key' = [key EXCEPT ![l] = k]
    /\ result' = [result EXCEPT ![l] = cache[k]]
    /\ UNCHANGED <<request, loader, batch, at, pos>>

\* The load leaves the mutex with a position in batch b.
Await(l, k, b, i) ==
    /\ pc' = [pc EXCEPT ![l] = "waiting"]
    /\ key' = [key EXCEPT ![l] = k]
    /\ at' = [at EXCEPT ![l] = b]
    /\ pos' = [pos EXCEPT ![l] = i]
    /\ UNCHANGED result

\* keyIndex finds the key in the batch.
Join(l, k) ==
    /\ pc[l] = "idle"
    /\ cache[k] = Unset
    /\ current # Unset
    /\ \E i \in DOMAIN keys[current] :
         keys[current][i] = k /\ Await(l, k, current, i)
    /\ UNCHANGED <<request, loader, batch>>

\* Mutant: a batch is full one key too late.
FullLate(b) == MaxBatch # 0 /\ Len(keys[b]) >= MaxBatch

\* The key being added fills batch b.
Full(b) == MaxBatch # 0 /\ Len(keys[b]) + 1 >= MaxBatch

\* Mutant: a full batch stays l.batch.
AppendStays(l, k) ==
    LET b == IF current = Unset THEN l ELSE current IN
    /\ pc[l] = "idle"
    /\ cache[k] = Unset
    /\ ~Holds(b, k)
    /\ Await(l, k, b, Len(keys[b]) + 1)
    /\ keys' = [keys EXCEPT ![b] = Append(@, k)]
    /\ timer' = IF keys[b] = <<>> THEN [timer EXCEPT ![b] = "sleeping"] ELSE timer
    /\ current' = b
    /\ IF Full(b) /\ ~closing[b]
         THEN /\ closing' = [closing EXCEPT ![b] = TRUE]
              /\ limiter' = [limiter EXCEPT ![b] = "ending"]
         ELSE UNCHANGED <<closing, limiter>>
    /\ UNCHANGED <<request, cache, data, failed>>

\* Mutant: the timer is started by the key that fills the batch.
AppendTimerLate(l, k) ==
    LET b == IF current = Unset THEN l ELSE current IN
    /\ pc[l] = "idle"
    /\ cache[k] = Unset
    /\ ~Holds(b, k)
    /\ Await(l, k, b, Len(keys[b]) + 1)
    /\ keys' = [keys EXCEPT ![b] = Append(@, k)]
    /\ timer' = IF Len(keys[b]) = 1 THEN [timer EXCEPT ![b] = "sleeping"] ELSE timer
    /\ IF Full(b) /\ ~closing[b]
         THEN /\ closing' = [closing EXCEPT ![b] = TRUE]
              /\ limiter' = [limiter EXCEPT ![b] = "ending"]
              /\ current' = Unset
         ELSE current' = b /\ UNCHANGED <<closing, limiter>>
    /\ UNCHANGED <<request, cache, data, failed>>

\* keyIndex appends the key, to a new batch if there is none; the first key
\* starts the timer, the one that fills the batch starts end.
AppendKey(l, k) ==
    LET b == IF current = Unset THEN l ELSE current IN
    /\ pc[l] = "idle"
    /\ cache[k] = Unset
    /\ ~Holds(b, k)
    /\ Await(l, k, b, Len(keys[b]) + 1)
    /\ keys' = [keys EXCEPT ![b] = Append(@, k)]
    /\ timer' = IF keys[b] = <<>> THEN [timer EXCEPT ![b] = "sleeping"] ELSE timer
    /\ IF Full(b) /\ ~closing[b]
         THEN /\ closing' = [closing EXCEPT ![b] = TRUE]
              /\ limiter' = [limiter EXCEPT ![b] = "ending"]
              /\ current' = Unset
         ELSE current' = b /\ UNCHANGED <<closing, limiter>>
    /\ UNCHANGED <<request, cache, data, failed>>

\* Mutant: the timer does not look at batch.closing.
TimerAlways(b) ==
    /\ timer[b] = "sleeping"
    /\ timer' = [timer EXCEPT ![b] = "ending"]
    /\ current' = Unset
    /\ UNCHANGED <<request, cache, keys, closing, limiter, data, failed, load>>

\* startTimer after its sleep: nothing to do for a batch that is closing.
Timer(b) ==
    /\ timer[b] = "sleeping"
    /\ IF closing[b]
         THEN timer' = [timer EXCEPT ![b] = "stopped"] /\ UNCHANGED current
         ELSE timer' = [timer EXCEPT ![b] = "ending"] /\ current' = Unset
    /\ UNCHANGED <<request, cache, keys, closing, limiter, data, failed, load>>

\* Mutant: users that are missing are left out of the answer.
DropMissing(ks) == SelectSeq(ks, LAMBDA k : k \notin missing)

\* FetchByID and filterUsers answer by position, nil for a missing user.
Users(ks) == [i \in DOMAIN ks |-> IF ks[i] \in missing THEN Nil ELSE ks[i]]

\* The positions that have a value, and the n-th of them.
Found(ks) == {i \in DOMAIN ks : ks[i] \notin missing}
Rank(ks, i) == Cardinality({j \in Found(ks) : j <= i})
Nth(ks, n) == CHOOSE i \in Found(ks) : Rank(ks, i) = n

\* FilterByID leaves missing workspaces out, the loader's Fetch those that do
\* not convert: the ones behind them move up.
Workspaces(ks) == [n \in 1..Cardinality(Found(ks)) |-> ks[Nth(ks, n)]]

Answer(ks) == IF kind = "user" THEN Users(ks) ELSE Workspaces(ks)

\* end: fetch, then close(batch.done).  A failing fetch has no data.
End(b) ==
    /\ \/ /\ timer[b] = "ending"
          /\ timer' = [timer EXCEPT ![b] = "ended"]
          /\ UNCHANGED limiter
       \/ /\ limiter[b] = "ending"
          /\ limiter' = [limiter EXCEPT ![b] = "ended"]
          /\ UNCHANGED timer
    /\ \/ /\ data' = [data EXCEPT ![b] = Answer(keys[b])]
          /\ UNCHANGED failed
       \/ /\ failed' = [failed EXCEPT ![b] = TRUE]
          /\ UNCHANGED data
    /\ UNCHANGED <<request, loader, keys, closing, load>>

\* The thunk goes on once done is closed; a position past the end is nil.
Thunk(l) ==
    LET b == at[l] IN
    /\ pc[l] = "waiting"
    /\ Done(b)
    /\ result' = [result EXCEPT ![l] =
                    IF pos[l] \in DOMAIN data[b] THEN data[b][pos[l]] ELSE Nil]
    /\ pc' = [pc EXCEPT ![l] = IF failed[b] THEN "failed" ELSE "storing"]
    /\ UNCHANGED <<request, loader, batch, key, at, pos>>

\* Mutant: a nil value is not cached.
StoreFound(l) ==
    /\ pc[l] = "storing"
    /\ cache' = IF result[l] = Nil THEN cache ELSE [cache EXCEPT ![key[l]] = result[l]]
    /\ pc' = [pc EXCEPT ![l] = "returned"]
    /\ UNCHANGED <<request, current, batch, key, at, pos, result>>

\* Without an error the thunk caches what it got, nil included.
Store(l) ==
    /\ pc[l] = "storing"
    /\ cache' = [cache EXCEPT ![key[l]] = result[l]]
    /\ pc' = [pc EXCEPT ![l] = "returned"]
    /\ UNCHANGED <<request, current, batch, key, at, pos, result>>

LoadThunk(l) == \E k \in Keys : Hit(l, k) \/ Join(l, k) \/ AppendKey(l, k)

Next ==
    \E l \in Loads : LoadThunk(l) \/ Timer(l) \/ End(l) \/ Thunk(l) \/ Store(l)

Spec == Init /\ [][Next]_vars

\* Sleeps end, fetches return and goroutines are scheduled; nothing says that
\* a resolver makes another load.
FairSpec ==
    /\ Spec
    /\ \A l \in Loads : WF_vars(Timer(l) \/ End(l)) /\ WF_vars(Thunk(l) \/ Store(l))

-----------------------------------------------------------------------------
Values == Keys \cup {Nil}

\* The types of everything but the values that are passed on.
ControlOK ==
    /\ kind \in {"user", "workspace"}
    /\ missing \in SUBSET Missing
    /\ current \in Loads \cup {Unset}
    /\ keys \in [Loads -> Seq(Keys)]
    /\ closing \in [Loads -> BOOLEAN]
    /\ timer \in [Loads -> {"none", "sleeping", "stopped", "ending", "ended"}]
    /\ limiter \in [Loads -> {"none", "ending", "ended"}]
    /\ failed \in [Loads -> BOOLEAN]
    /\ pc \in [Loads -> {"idle", "waiting", "storing", "failed", "returned"}]
    /\ key \in [Loads -> Keys \cup {Unset}]
    /\ at \in [Loads -> Loads \cup {Unset}]
    /\ pos \in [Loads -> Nat]

ValuesOK ==
    /\ cache \in [Keys -> Values \cup {Unset}]
    /\ data \in [Loads -> Seq(Values)]
    /\ result \in [Loads -> Values]

\* What every variable holds.
TypeOK == ControlOK /\ ValuesOK

\* The life of a batch: it exists from its first key on, it is l.batch until
\* the timer or the limit takes it, and it is not full before.
BatchInv(b) ==
    /\ keys[b] = <<>> <=> timer[b] = "none"
    /\ pc[b] = "idle" => timer[b] = "none"
    /\ current = b <=> timer[b] = "sleeping" /\ ~closing[b]
    /\ closing[b] <=> limiter[b] # "none"
    /\ closing[b] => timer[b] \in {"sleeping", "stopped"}
    /\ timer[b] = "stopped" => closing[b]
    /\ MaxBatch # 0 => Len(keys[b]) <= IF current = b THEN MaxBatch - 1 ELSE MaxBatch

\* A load waits for a batch that has its key at its position.
LoadInv(l) ==
    /\ pc[l] # "idle" => key[l] \in Keys
    /\ pc[l] = "waiting" =>
         at[l] \in Loads /\ pos[l] \in DOMAIN keys[at[l]] /\ keys[at[l]][pos[l]] = key[l]

\* What a batch has answered, and none before its end.
AnswerInv(b) ==
    /\ ~Done(b) => data[b] = <<>> /\ ~failed[b]
    /\ Done(b) /\ ~failed[b] => data[b] = Answer(keys[b])

\* Positions stay right: what is returned or cached for an id is that id's
\* value, nil only if it has none.  Of workspaces this holds in requests where
\* no id is missing (README, "the workspace loader").
Answers(k) == IF k \in missing THEN {Nil} ELSE {k}

ByPosition == kind = "user" \/ missing = {}

OwnValue ==
    ByPosition =>
      /\ \A l \in Loads : pc[l] \in {"storing", "returned"} => result[l] \in Answers(key[l])
      /\ \A k \in Keys : cache[k] \in Answers(k) \cup {Unset}

\* The timer and the limit never both end a batch: it would be fetched twice
\* and closing batch.done again panics.
EndedOnce ==
    \A b \in Loads : ~(timer[b] \in {"ending", "ended"} /\ limiter[b] # "none")

\* No batch exceeds the limit, which for workspaces is also the number of ids
\* (maxFetchWorkspaceIDs) beyond which Fetch fails the whole batch.
BatchWithinLimit ==
    MaxBatch # 0 => \A b \in Loads : Len(keys[b]) <= MaxBatch

\* The keys of a batch do not change once end may be reading them.
KeysFrozen == [][\A b \in Loads : Taken(b) => UNCHANGED keys[b]]_vars

\* An id that some load of the request got an answer for, a nil one included,
\* is not fetched again.
NoRefetch ==
    [][\A b \in Loads, k \in Keys :
         (\E l \in Loads : pc[l] = "returned" /\ key[l] = k) /\ ~Holds(b, k)
         => ~Holds(b, k)']_vars

\* The inductive invariants: of the batches, and of the values.
BatchesInv ==
    /\ ControlOK
    /\ \A b \in Loads : BatchInv(b) /\ LoadInv(b)

ValuesInv ==
    /\ ValuesOK
    /\ \A b \in Loads : AnswerInv(b)
    /\ OwnValue

\* No resolver waits for ever on a batch.
EveryLoadReturns ==
    \A l \in Loads : pc[l] = "waiting" ~> pc[l] \in {"failed", "returned"}
=============================================================================
