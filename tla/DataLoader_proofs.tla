------------------------- MODULE DataLoader_proofs -------------------------
(***************************************************************************)
(* Proofs about DataLoader, for any number of loads, keys and any limit:   *)
(* BatchesInv is inductive, so a batch is ended once and within the limit  *)
(* and its keys are frozen by then; with it ValuesInv is, so whatever is   *)
(* returned and cached under an id is that id's own value, of users always *)
(* and of workspaces as long as none is missing.                           *)
(***************************************************************************)
EXTENDS DataLoader, SequenceTheorems, FiniteSetTheorems, WellFoundedInduction, TLAPS

\* Numbers, and positions, have a least and a last one.
LEMMA Least == ASSUME NEW T, T \subseteq Nat, T # {} PROVE \E x \in T : \A y \in T : x <= y
<1> DEFINE R == {p \in Nat \X Nat : p[1] < p[2]}
<1>1. IsWellFoundedOn(R, Nat)
  BY NatLessThanWellFounded DEF OpToRel
<1>2. \A x, y \in Nat : y < x => <<y, x>> \in R
  OBVIOUS
<1> HIDE DEF R
<1>3. PICK x \in T : \A y \in T : <<y, x>> \notin R
  BY <1>1, WFMin
<1>4. \A y \in T : ~(y < x)
  BY <1>2, <1>3
<1> QED BY <1>4

LEMMA Greatest ==
    ASSUME NEW n \in Nat, NEW T, T \subseteq 1..n, T # {}
    PROVE  \E x \in T : \A y \in T : y <= x
<1> DEFINE B == {m \in Nat : \A y \in T : y <= m}
<1>1. PICK m \in B : \A k \in B : m <= k
  <2>1. n \in B
    OBVIOUS
  <2> QED BY <2>1, Least
<1>2. m \in T
  <2> SUFFICES ASSUME m \notin T PROVE FALSE
    OBVIOUS
  <2>1. \A y \in T : y <= m - 1
    OBVIOUS
  <2>2. m \in Nat /\ m <= m - 1
    <3>0. PICK y \in T : TRUE
      OBVIOUS
    <3>1. y <= m - 1 /\ 1 <= y
      BY <2>1, <3>0
    <3>2. m - 1 \in B
      BY <2>1, <3>1
    <3> QED BY <1>1, <3>2
  <2> QED BY <2>2
<1> QED BY <1>1, <1>2

-----------------------------------------------------------------------------
\* The answer of the users' fetch has a value, or nil, at every position.
LEMMA UsersByPosition ==
    ASSUME NEW ks \in Seq(Keys)
    PROVE  /\ Users(ks) \in Seq(Values)
           /\ DOMAIN Users(ks) = DOMAIN ks
           /\ \A i \in DOMAIN ks : Users(ks)[i] \in Answers(ks[i])
<1>1. DOMAIN ks = 1..Len(ks) /\ Len(ks) \in Nat /\ \A i \in DOMAIN ks : ks[i] \in Keys
  OBVIOUS
<1>2. Users(ks) \in [1..Len(ks) -> Values]
  BY <1>1 DEF Users, Values
<1>3. Users(ks) \in Seq(Values)
  <2>1. Users(ks) \in UNION {[1..n -> Values] : n \in Nat}
    BY <1>1, <1>2
  <2> QED BY <2>1, SeqDef
<1>4. \A i \in DOMAIN ks : Users(ks)[i] \in Answers(ks[i])
  BY DEF Users, Answers
<1> QED BY <1>3, <1>4 DEF Users

LEMMA FoundFinite ==
    ASSUME NEW ks \in Seq(Keys)
    PROVE  /\ Found(ks) \subseteq 1..Len(ks)
           /\ \A T \in SUBSET Found(ks) : IsFiniteSet(T) /\ Cardinality(T) \in Nat
<1>1. Found(ks) \subseteq 1..Len(ks) /\ Len(ks) \in Nat
  BY DEF Found
<1>2. IsFiniteSet(1..Len(ks))
  BY <1>1, FS_Interval
<1>3. \A T \in SUBSET Found(ks) : IsFiniteSet(T)
  BY <1>1, <1>2, FS_Subset
<1> QED BY <1>1, <1>3, FS_CardinalityType

\* Every rank is some position's: of the positions of rank n or more, the
\* first one has rank n.
LEMMA RankTaken ==
    ASSUME NEW ks \in Seq(Keys), NEW n \in 1..Cardinality(Found(ks))
    PROVE  \E i \in Found(ks) : Rank(ks, i) = n
<1> DEFINE Upto(i) == {j \in Found(ks) : j <= i}
           T == {i \in Found(ks) : Rank(ks, i) >= n}
<1>1. Len(ks) \in Nat /\ Found(ks) \subseteq 1..Len(ks) /\ n \in Nat \ {0}
  BY FoundFinite
<1>2. \A i : IsFiniteSet(Upto(i)) /\ Rank(ks, i) = Cardinality(Upto(i)) /\ Rank(ks, i) \in Nat
  BY FoundFinite DEF Rank
<1> HIDE DEF Upto
<1>3. T # {}
  <2>1. Found(ks) # {}
    <3>1. IsFiniteSet(Found(ks)) /\ Cardinality(Found(ks)) # 0
      BY FoundFinite
    <3> QED BY <3>1, FS_EmptySet
  <2>2. PICK m \in Found(ks) : \A y \in Found(ks) : y <= m
    BY <1>1, <2>1, Greatest
  <2>3. Upto(m) = Found(ks)
    BY <2>2 DEF Upto
  <2>4. Rank(ks, m) >= n
    BY <1>2, <2>3, FoundFinite
  <2> QED BY <2>4
<1>4. PICK i \in T : \A y \in T : i <= y
  <2>1. T \subseteq Nat
    BY <1>1
  <2> HIDE DEF T
  <2> QED BY <1>3, <2>1, Least
<1>5. i \in Found(ks) /\ i \in Nat /\ Rank(ks, i) >= n
  BY <1>1, <1>4
<1>6. Rank(ks, i) = n
  <2> SUFFICES ASSUME Rank(ks, i) > n PROVE FALSE
    BY <1>1, <1>2, <1>5
  <2> DEFINE L == Upto(i) \ {i}
  <2>1. i \in Upto(i)
    BY <1>5 DEF Upto
  <2>2. IsFiniteSet(L) /\ Cardinality(L) = Rank(ks, i) - 1
    BY <1>2, <2>1, FS_RemoveElement
  <2>3. Cardinality(L) >= n
    BY <1>1, <1>2, <2>2
  <2>4. L # {} /\ L \subseteq 1..Len(ks)
    <3>1. Cardinality(L) # 0
      BY <1>1, <1>2, <2>2, <2>3
    <3>2. L # {}
      BY <2>2, <3>1, FS_EmptySet
    <3> QED BY <1>1, <3>2 DEF Upto
  <2>5. PICK m \in L : \A y \in L : y <= m
    <3> HIDE DEF L
    <3> QED BY <1>1, <2>4, Greatest
  <2>6. m \in Found(ks) /\ m \in Nat /\ m < i
    BY <1>1, <1>5, <2>5 DEF Upto
  <2>7. Upto(m) = L
    BY <1>1, <1>5, <2>5, <2>6 DEF Upto
  <2>8. m \in T
    BY <1>2, <2>3, <2>6, <2>7
  <2> QED BY <1>4, <1>5, <2>6, <2>8
<1> QED BY <1>5, <1>6

\* The answer of the workspaces' fetch has no gaps,
LEMMA WorkspacesTyped ==
    ASSUME NEW ks \in Seq(Keys)
    PROVE  Workspaces(ks) \in Seq(Values)
<1> DEFINE c == Cardinality(Found(ks))
<1>1. c \in Nat
  BY FoundFinite
<1>2. \A n \in 1..c : Nth(ks, n) \in Found(ks)
  BY RankTaken DEF Nth
<1>3. \A i \in Found(ks) : ks[i] \in Values
  BY DEF Found, Values
<1>4. \A n \in 1..c : ks[Nth(ks, n)] \in Values
  BY <1>2, <1>3
<1>5. Workspaces(ks) = [n \in 1..c |-> ks[Nth(ks, n)]]
  BY DEF Workspaces
<1> HIDE DEF c
<1>6. Workspaces(ks) \in UNION {[1..n -> Values] : n \in Nat}
  BY <1>1, <1>4, <1>5
<1> QED BY <1>6, SeqDef

\* and is what was asked for if nothing is missing.
LEMMA WorkspacesByPosition ==
    ASSUME NEW ks \in Seq(Keys), missing = {}
    PROVE  Workspaces(ks) = ks
<1>1. Len(ks) \in Nat /\ DOMAIN ks = 1..Len(ks) /\ Found(ks) = 1..Len(ks)
  BY DEF Found
<1>2. Cardinality(1..Len(ks)) = Len(ks)
  BY <1>1, FS_Interval
<1>3. \A i \in 1..Len(ks) : Rank(ks, i) = i
  <2> TAKE i \in 1..Len(ks)
  <2>1. {j \in Found(ks) : j <= i} = 1..i
    BY <1>1
  <2>2. Cardinality(1..i) = i
    BY <1>1, FS_Interval
  <2> QED BY <2>1, <2>2 DEF Rank
<1>4. \A n \in 1..Len(ks) : Nth(ks, n) = n
  BY <1>1, <1>3 DEF Nth
<1>5. Workspaces(ks) = [n \in 1..Len(ks) |-> ks[n]]
  BY <1>1, <1>2, <1>4 DEF Workspaces
<1> QED BY <1>1, <1>5

LEMMA AnswerOK ==
    ASSUME NEW ks \in Seq(Keys)
    PROVE  /\ Answer(ks) \in Seq(Values)
           /\ ByPosition => /\ DOMAIN Answer(ks) = DOMAIN ks
                            /\ \A i \in DOMAIN ks : Answer(ks)[i] \in Answers(ks[i])
<1>1. CASE kind = "user"
  BY <1>1, UsersByPosition DEF Answer
<1>2. CASE kind # "user"
  <2>1. Answer(ks) = Workspaces(ks)
    BY <1>2 DEF Answer
  <2>2. ASSUME ByPosition
        PROVE  /\ DOMAIN Answer(ks) = DOMAIN ks
               /\ \A i \in DOMAIN ks : Answer(ks)[i] \in Answers(ks[i])
    <3>1. missing = {}
      BY <1>2, <2>2 DEF ByPosition
    <3> QED BY <2>1, <3>1, WorkspacesByPosition DEF Answers
  <2> QED BY <2>1, <2>2, WorkspacesTyped
<1> QED BY <1>1, <1>2

LEMMA BatchesInvInit == Init => BatchesInv
<1> SUFFICES ASSUME Init PROVE BatchesInv
  OBVIOUS
<1> USE LoaderAssumption DEF Init
<1>1. ControlOK
  BY DEF ControlOK
<1>2. \A b \in Loads : BatchInv(b) /\ LoadInv(b)
  BY DEF BatchInv, LoadInv
<1> QED BY <1>1, <1>2 DEF BatchesInv

-----------------------------------------------------------------------------
\* Steps that leave the batches alone keep what is said of them.
LEMMA BatchesStay ==
    ASSUME BatchesInv, UNCHANGED <<current, keys, closing, timer, limiter>>,
           \A b \in Loads : pc'[b] = "idle" => pc[b] = "idle"
    PROVE  \A b \in Loads : BatchInv(b)'
BY DEF BatchesInv, BatchInv

LEMMA HitBatches ==
    ASSUME BatchesInv, NEW l \in Loads, NEW k \in Keys, Hit(l, k)
    PROVE  BatchesInv'
<1> USE LoaderAssumption
<1>1. ControlOK'
  BY DEF BatchesInv, ControlOK, Hit, request, loader, batch
<1>2. UNCHANGED <<current, keys, closing, timer, limiter>>
  BY DEF Hit, loader, batch
<1>3. \A b \in Loads : LoadInv(b)'
  BY DEF BatchesInv, ControlOK, LoadInv, Hit, batch
<1>4. \A b \in Loads : pc'[b] = "idle" => pc[b] = "idle"
  BY DEF BatchesInv, ControlOK, Hit
<1> QED BY <1>1, <1>2, <1>3, <1>4, BatchesStay DEF BatchesInv

LEMMA JoinBatches ==
    ASSUME BatchesInv, NEW l \in Loads, NEW k \in Keys, Join(l, k)
    PROVE  BatchesInv'
<1> USE LoaderAssumption
<1>1. PICK i \in DOMAIN keys[current] : keys[current][i] = k /\ Await(l, k, current, i)
  BY DEF Join
<1>2. current \in Loads /\ i \in Nat
  <2>1. current \in Loads
    BY DEF BatchesInv, ControlOK, Join
  <2>2. keys[current] \in Seq(Keys)
    BY <2>1 DEF BatchesInv, ControlOK
  <2> QED BY <2>1, <2>2
<1>3. ControlOK'
  BY <1>1, <1>2 DEF BatchesInv, ControlOK, Join, Await, request, loader, batch
<1>4. UNCHANGED <<current, keys, closing, timer, limiter>>
  BY DEF Join, loader, batch
<1>5. \A b \in Loads : LoadInv(b)'
  BY <1>1, <1>2 DEF BatchesInv, ControlOK, LoadInv, Join, Await, batch
<1>6. \A b \in Loads : pc'[b] = "idle" => pc[b] = "idle"
  BY <1>1 DEF BatchesInv, ControlOK, Await
<1> QED BY <1>3, <1>4, <1>5, <1>6, BatchesStay DEF BatchesInv

\* The batch that takes the key of load l.
Taker(l) == IF current = Unset THEN l ELSE current

\* What appending a key does, whichever batch takes it.
LEMMA AppendFacts ==
    ASSUME BatchesInv, NEW l \in Loads, NEW k \in Keys, AppendKey(l, k),
           NEW b \in Loads, b = Taker(l)
    PROVE  /\ ~closing[b] /\ timer[b] \in {"none", "sleeping"} /\ limiter[b] = "none"
           /\ keys' = [keys EXCEPT ![b] = Append(@, k)]
           /\ Await(l, k, b, Len(keys[b]) + 1)
           /\ timer' = [timer EXCEPT ![b] = "sleeping"]
           /\ \/ /\ Full(b)
                 /\ closing' = [closing EXCEPT ![b] = TRUE]
                 /\ limiter' = [limiter EXCEPT ![b] = "ending"]
                 /\ current' = Unset
              \/ ~Full(b) /\ current' = b /\ UNCHANGED <<closing, limiter>>
           /\ MaxBatch # 0 => Len(keys[b]) <= MaxBatch - 1
           /\ UNCHANGED <<request, cache, data, failed, result>>
<1> USE LoaderAssumption
<1>0. ControlOK /\ pc[l] = "idle"
  BY DEF BatchesInv, AppendKey
<1>1. ~closing[b] /\ timer[b] \in {"none", "sleeping"} /\ limiter[b] = "none"
  BY <1>0 DEF BatchesInv, ControlOK, BatchInv, Taker
<1>2. keys' = [keys EXCEPT ![b] = Append(@, k)] /\ Await(l, k, b, Len(keys[b]) + 1)
  BY DEF AppendKey, Taker
<1>3. timer' = [timer EXCEPT ![b] = "sleeping"]
  <2>1. CASE keys[b] = <<>>
    BY <2>1 DEF AppendKey, Taker
  <2>2. CASE keys[b] # <<>>
    <3>1. timer[b] = "sleeping"
      BY <1>1, <2>2 DEF BatchesInv, BatchInv
    <3>2. timer' = timer
      BY <2>2 DEF AppendKey, Taker
    <3> QED BY <1>0, <3>1, <3>2 DEF ControlOK
  <2> QED BY <2>1, <2>2
<1>4. \/ /\ Full(b)
         /\ closing' = [closing EXCEPT ![b] = TRUE]
         /\ limiter' = [limiter EXCEPT ![b] = "ending"]
         /\ current' = Unset
      \/ ~Full(b) /\ current' = b /\ UNCHANGED <<closing, limiter>>
  BY <1>1 DEF AppendKey, Taker
<1>5. MaxBatch # 0 => Len(keys[b]) <= MaxBatch - 1
  <2>1. CASE current = b
    BY <2>1 DEF BatchesInv, BatchInv
  <2>2. CASE current # b
    <3>1. keys[b] = <<>>
      BY <1>0, <2>2 DEF BatchesInv, BatchInv, Taker
    <3>2. Len(keys[b]) = 0
      BY <3>1
    <3> QED BY <3>2
  <2> QED BY <2>1, <2>2
<1>6. UNCHANGED <<request, cache, data, failed, result>>
  BY <1>2 DEF AppendKey, Await
<1> QED BY <1>1, <1>2, <1>3, <1>4, <1>5, <1>6

LEMMA AppendBatches ==
    ASSUME BatchesInv, NEW l \in Loads, NEW k \in Keys, AppendKey(l, k)
    PROVE  BatchesInv'
<1> USE LoaderAssumption
<1> DEFINE b == Taker(l)
<1>0. ControlOK /\ pc[l] = "idle" /\ b \in Loads
  BY DEF BatchesInv, AppendKey, ControlOK, Taker
<1>1. ~closing[b] /\ timer[b] \in {"none", "sleeping"} /\ limiter[b] = "none"
  BY <1>0, AppendFacts
<1>2. keys' = [keys EXCEPT ![b] = Append(@, k)] /\ Await(l, k, b, Len(keys[b]) + 1)
  BY <1>0, AppendFacts
<1>3. keys[b] \in Seq(Keys) /\ keys'[b] = Append(keys[b], k) /\ keys'[b] # <<>>
      /\ Len(keys'[b]) = Len(keys[b]) + 1
  BY <1>0, <1>2 DEF ControlOK
<1>4. timer' = [timer EXCEPT ![b] = "sleeping"]
  BY <1>0, AppendFacts
<1>5. \/ /\ Full(b)
         /\ closing' = [closing EXCEPT ![b] = TRUE]
         /\ limiter' = [limiter EXCEPT ![b] = "ending"]
         /\ current' = Unset
      \/ ~Full(b) /\ current' = b /\ UNCHANGED <<closing, limiter>>
  BY <1>0, AppendFacts
<1>6. UNCHANGED <<request, failed>>
  BY <1>0, AppendFacts
<1>7. ControlOK'
  <2>1. keys' \in [Loads -> Seq(Keys)]
    BY <1>0, <1>2, <1>3 DEF ControlOK
  <2>2. /\ pc' \in [Loads -> {"idle", "waiting", "storing", "failed", "returned"}]
        /\ key' \in [Loads -> Keys \cup {Unset}]
        /\ at' \in [Loads -> Loads \cup {Unset}]
        /\ pos' \in [Loads -> Nat]
    BY <1>0, <1>2, <1>3 DEF ControlOK, Await
  <2>3. /\ timer' \in [Loads -> {"none", "sleeping", "stopped", "ending", "ended"}]
        /\ limiter' \in [Loads -> {"none", "ending", "ended"}]
        /\ closing' \in [Loads -> BOOLEAN]
        /\ current' \in Loads \cup {Unset}
    BY <1>0, <1>4, <1>5 DEF ControlOK
  <2> QED BY <1>0, <1>6, <2>1, <2>2, <2>3 DEF ControlOK, request
<1>8. MaxBatch # 0 => Len(keys'[b]) <= IF Full(b) THEN MaxBatch ELSE MaxBatch - 1
  <2>1. MaxBatch # 0 => Len(keys[b]) <= MaxBatch - 1
    BY <1>0, AppendFacts
  <2> QED BY <1>3, <2>1 DEF Full
<1>9. \A c \in Loads : BatchInv(c)'
  <2> TAKE c \in Loads
  <2>1. CASE c = b
    <3>1. pc'[c] # "idle"
      <4>1. CASE b = l
        BY <1>0, <1>2, <2>1, <4>1 DEF Await, ControlOK
      <4>2. CASE b # l
        <5>1. b = current
          BY <4>2 DEF Taker
        <5>2. pc[b] # "idle"
          BY <1>0, <5>1 DEF BatchesInv, BatchInv
        <5> QED BY <1>0, <1>2, <2>1, <4>2, <5>2 DEF Await, ControlOK
      <4> QED BY <4>1, <4>2
    <3>2. timer'[c] = "sleeping" /\ keys'[c] # <<>>
      BY <1>0, <1>3, <1>4, <2>1 DEF ControlOK
    <3>3. \/ Full(b) /\ closing'[c] = TRUE /\ limiter'[c] = "ending" /\ current' # c
          \/ ~Full(b) /\ closing'[c] = FALSE /\ limiter'[c] = "none" /\ current' = c
      BY <1>0, <1>1, <1>5, <2>1 DEF ControlOK
    <3>4. MaxBatch # 0 => Len(keys'[c]) <= IF current' = c THEN MaxBatch - 1 ELSE MaxBatch
      BY <1>8, <2>1, <3>3
    <3> QED BY <3>1, <3>2, <3>3, <3>4 DEF BatchInv
  <2>2. CASE c # b
    <3>1. current # c /\ current' # c
      BY <1>0, <1>5, <2>2 DEF Taker
    <3>2. UNCHANGED <<keys[c], timer[c], closing[c], limiter[c]>>
      BY <1>0, <1>2, <1>4, <1>5, <2>2 DEF ControlOK
    <3>3. pc'[c] = "idle" => pc[c] = "idle"
      BY <1>0, <1>2 DEF Await, ControlOK
    <3> QED BY <3>1, <3>2, <3>3 DEF BatchesInv, BatchInv
  <2> QED BY <2>1, <2>2
<1>10. \A c \in Loads : LoadInv(c)'
  <2> TAKE c \in Loads
  <2>1. CASE c = l
    <3>1. pc'[c] = "waiting" /\ key'[c] = k /\ at'[c] = b /\ pos'[c] = Len(keys[b]) + 1
      BY <1>0, <1>2, <2>1 DEF Await, ControlOK
    <3>2. pos'[c] \in DOMAIN keys'[b] /\ keys'[b][pos'[c]] = k
      BY <1>3, <3>1
    <3> QED BY <1>0, <3>1, <3>2 DEF LoadInv
  <2>2. CASE c # l
    <3>1. UNCHANGED <<pc[c], key[c], at[c], pos[c]>>
      BY <1>0, <1>2, <2>2 DEF Await, ControlOK
    <3>2. \A d \in Loads : \A i \in DOMAIN keys[d] :
             i \in DOMAIN keys'[d] /\ keys'[d][i] = keys[d][i]
      BY <1>0, <1>2 DEF ControlOK
    <3> QED BY <3>1, <3>2 DEF BatchesInv, LoadInv
  <2> QED BY <2>1, <2>2
<1> QED BY <1>7, <1>9, <1>10 DEF BatchesInv

LEMMA TimerBatches ==
    ASSUME BatchesInv, NEW l \in Loads, Timer(l)
    PROVE  BatchesInv'
<1> USE LoaderAssumption
<1>1. ControlOK'
  BY DEF BatchesInv, ControlOK, Timer, request, load
<1>2. UNCHANGED <<keys, closing, limiter, pc, key, at, pos>>
  BY DEF Timer, load
<1>3. \A b \in Loads : BatchInv(b)'
  <2>1. timer[l] = "sleeping" /\ (~closing[l] => current = l)
    BY DEF BatchesInv, BatchInv, Timer
  <2>2. \A b \in Loads : b # l => timer'[b] = timer[b] /\ (current' = b <=> current = b)
    BY <2>1 DEF BatchesInv, ControlOK, Timer
  <2>3. \/ closing[l] /\ timer'[l] = "stopped" /\ current' = current
        \/ ~closing[l] /\ timer'[l] = "ending" /\ current' = Unset
    BY DEF BatchesInv, ControlOK, Timer
  <2>4. \A b \in Loads : b # l => BatchInv(b)'
    BY <1>2, <2>2 DEF BatchesInv, BatchInv
  <2>5. MaxBatch # 0 => Len(keys[l]) <= MaxBatch
    <3>1. keys[l] \in Seq(Keys)
      BY DEF BatchesInv, ControlOK
    <3> QED BY <3>1 DEF BatchesInv, BatchInv
  <2>6. current' # l
    BY <2>1, <2>3 DEF BatchesInv, BatchInv
  <2>7. BatchInv(l)'
    BY <1>2, <2>1, <2>3, <2>5, <2>6 DEF BatchesInv, BatchInv
  <2> QED BY <2>4, <2>7
<1>4. \A b \in Loads : LoadInv(b)'
  BY <1>2 DEF BatchesInv, LoadInv
<1> QED BY <1>1, <1>3, <1>4 DEF BatchesInv

\* end moves one of the two goroutines of a batch to its end.
LEMMA EndBatches ==
    ASSUME BatchesInv, NEW l \in Loads, End(l)
    PROVE  BatchesInv'
<1> USE LoaderAssumption
<1>1. ControlOK'
  <2>1. failed' \in [Loads -> BOOLEAN]
    BY DEF BatchesInv, ControlOK, End
  <2> QED BY <2>1 DEF BatchesInv, ControlOK, End, request, loader, load
<1>2. UNCHANGED <<keys, closing, current, pc, key, at, pos>>
  BY DEF End, load, loader
<1>3. \A b \in Loads : BatchInv(b)'
  <2>1. \A b \in Loads : /\ timer'[b] = timer[b] \/ (timer[b] = "ending" /\ timer'[b] = "ended")
                         /\ limiter'[b] = limiter[b] \/ (limiter[b] = "ending" /\ limiter'[b] = "ended")
    BY DEF BatchesInv, ControlOK, End
  <2> QED BY <1>2, <2>1 DEF BatchesInv, BatchInv
<1>4. \A b \in Loads : LoadInv(b)'
  BY <1>2 DEF BatchesInv, LoadInv
<1> QED BY <1>1, <1>3, <1>4 DEF BatchesInv

LEMMA ThunkBatches ==
    ASSUME BatchesInv, NEW l \in Loads, Thunk(l) \/ Store(l)
    PROVE  BatchesInv'
<1> USE LoaderAssumption
<1>1. UNCHANGED <<request, current, batch, key, at, pos>>
  BY DEF Thunk, Store, loader
<1>2. /\ pc[l] \in {"waiting", "storing"}
      /\ \E q \in {"failed", "storing", "returned"} : pc' = [pc EXCEPT ![l] = q]
  BY DEF Thunk, Store
<1>3. ControlOK'
  BY <1>1, <1>2 DEF BatchesInv, ControlOK, request, batch
<1>4. \A b \in Loads : pc'[b] = "idle" => pc[b] = "idle"
  BY <1>2 DEF BatchesInv, ControlOK
<1>5. \A b \in Loads : LoadInv(b)'
  BY <1>1, <1>2 DEF BatchesInv, ControlOK, LoadInv, batch
<1>6. UNCHANGED <<current, keys, closing, timer, limiter>>
  BY <1>1 DEF batch
<1> QED BY <1>3, <1>4, <1>5, <1>6, BatchesStay DEF BatchesInv

\* BatchesInv is preserved by every step, a case for each action.
LEMMA BatchesInvStep == BatchesInv /\ [Next]_vars => BatchesInv'
<1> SUFFICES ASSUME BatchesInv, [Next]_vars PROVE BatchesInv'
  OBVIOUS
<1>1. ASSUME NEW l \in Loads, LoadThunk(l) PROVE BatchesInv'
  BY <1>1, HitBatches, JoinBatches, AppendBatches DEF LoadThunk
<1>2. ASSUME NEW l \in Loads, Timer(l) PROVE BatchesInv'
  BY <1>2, TimerBatches
<1>3. ASSUME NEW l \in Loads, End(l) PROVE BatchesInv'
  BY <1>3, EndBatches
<1>4. ASSUME NEW l \in Loads, Thunk(l) \/ Store(l) PROVE BatchesInv'
  BY <1>4, ThunkBatches
<1>5. CASE UNCHANGED vars
  BY <1>5 DEF vars, request, loader, batch, load, BatchesInv, ControlOK, BatchInv, LoadInv
<1> QED BY <1>1, <1>2, <1>3, <1>4, <1>5 DEF Next

\* Batches live as LoadThunk, startTimer and end intend, however they interleave.
THEOREM BatchesAlways == Spec => []BatchesInv
<1>1. Init => BatchesInv
  BY BatchesInvInit
<1>2. BatchesInv /\ [Next]_vars => BatchesInv'
  BY BatchesInvStep
<1> QED BY <1>1, <1>2, PTL DEF Spec

\* The timer and the limit never both end a batch (EndedOnce).
THEOREM OneEnd == Spec => []EndedOnce
<1>1. BatchesInv => EndedOnce
  BY DEF BatchesInv, BatchInv, EndedOnce
<1> QED BY <1>1, BatchesAlways, PTL

\* No batch exceeds the limit of ids that a fetch accepts.
THEOREM Limit == Spec => []BatchWithinLimit
<1>1. BatchesInv => BatchWithinLimit
  <2> SUFFICES ASSUME BatchesInv, MaxBatch # 0, NEW b \in Loads
               PROVE  Len(keys[b]) <= MaxBatch
    BY DEF BatchWithinLimit
  <2>1. keys[b] \in Seq(Keys)
    BY DEF BatchesInv, ControlOK
  <2> QED BY <2>1, LoaderAssumption DEF BatchesInv, BatchInv
<1> QED BY <1>1, BatchesAlways, PTL

\* A step never appends to a batch that end may be reading.
THEOREM Frozen == Spec => KeysFrozen
<1>1. BatchesInv /\ [Next]_vars => [\A b \in Loads : Taken(b) => UNCHANGED keys[b]]_vars
  <2> SUFFICES ASSUME BatchesInv, Next, NEW b \in Loads, Taken(b)
               PROVE  keys'[b] = keys[b]
    OBVIOUS
  <2>1. ASSUME NEW l \in Loads, NEW k \in Keys, AppendKey(l, k) PROVE keys'[b] = keys[b]
    <3>1. Taker(l) \in Loads
      BY DEF BatchesInv, ControlOK, Taker
    <3>2. /\ timer[Taker(l)] \in {"none", "sleeping"} /\ limiter[Taker(l)] = "none"
          /\ keys' = [keys EXCEPT ![Taker(l)] = Append(@, k)]
      BY <2>1, <3>1, AppendFacts
    <3>3. b # Taker(l)
      BY <3>2 DEF Taken
    <3> QED BY <3>2, <3>3 DEF BatchesInv, ControlOK
  <2>2. ASSUME NEW l \in Loads, NEW k \in Keys, Hit(l, k) \/ Join(l, k) PROVE keys'[b] = keys[b]
    BY <2>2 DEF Hit, Join, batch
  <2>3. ASSUME NEW l \in Loads, Timer(l) \/ End(l) \/ Thunk(l) \/ Store(l)
        PROVE  keys'[b] = keys[b]
    BY <2>3 DEF Timer, End, Thunk, Store, batch
  <2> QED BY <2>1, <2>2, <2>3 DEF Next, LoadThunk
<1> QED BY <1>1, BatchesAlways, PTL DEF Spec, KeysFrozen

-----------------------------------------------------------------------------
LEMMA ValuesInvInit == Init => ValuesInv
<1> SUFFICES ASSUME Init PROVE ValuesInv
  OBVIOUS
<1> USE LoaderAssumption DEF Init
<1>1. ValuesOK
  BY DEF ValuesOK, Values
<1>2. \A b \in Loads : AnswerInv(b)
  BY DEF AnswerInv, Done
<1>3. OwnValue
  BY DEF OwnValue
<1> QED BY <1>1, <1>2, <1>3 DEF ValuesInv

\* What batches are answered with is unchanged while they are.
LEMMA AnswerStays ==
    ASSUME UNCHANGED request, NEW b, keys'[b] = keys[b]
    PROVE  Answer(keys[b])' = Answer(keys[b])
<1>1. kind' = kind /\ missing' = missing
  BY DEF request
<1>2. Users(keys[b])' = Users(keys[b])
  BY <1>1 DEF Users
<1>3. Found(keys[b])' = Found(keys[b])
  BY <1>1 DEF Found
<1>4. \A i : Rank(keys[b], i)' = Rank(keys[b], i)
  BY <1>3 DEF Rank
<1>5. Workspaces(keys[b])' = Workspaces(keys[b])
  <2>1. \A n : Nth(keys[b], n)' = Nth(keys[b], n)
    BY <1>3, <1>4 DEF Nth
  <2> QED BY <1>3, <2>1 DEF Workspaces
<1> QED BY <1>1, <1>2, <1>5 DEF Answer

LEMMA AnswersStay ==
    ASSUME ValuesInv, UNCHANGED <<request, batch>>
    PROVE  \A b \in Loads : AnswerInv(b)'
<1> SUFFICES ASSUME NEW b \in Loads PROVE AnswerInv(b)'
  OBVIOUS
<1>1. Answer(keys[b])' = Answer(keys[b])
  BY AnswerStays DEF batch
<1> QED BY <1>1 DEF ValuesInv, AnswerInv, Done, batch

LEMMA HitValues ==
    ASSUME BatchesInv, ValuesInv, NEW l \in Loads, NEW k \in Keys, Hit(l, k)
    PROVE  ValuesInv'
<1>1. UNCHANGED <<request, loader, batch>>
  BY DEF Hit
<1>2. cache[k] \in Values /\ (ByPosition => cache[k] \in Answers(k))
  BY DEF ValuesInv, ValuesOK, OwnValue, Hit
<1>3. ValuesOK'
  BY <1>1, <1>2 DEF ValuesInv, ValuesOK, Hit, loader, batch
<1>4. OwnValue'
  BY <1>1, <1>2 DEF BatchesInv, ControlOK, ValuesInv, ValuesOK, OwnValue, Answers, ByPosition, Hit,
     request, loader
<1> QED BY <1>1, <1>3, <1>4, AnswersStay DEF ValuesInv, request

LEMMA JoinValues ==
    ASSUME BatchesInv, ValuesInv, NEW l \in Loads, NEW k \in Keys, Join(l, k)
    PROVE  ValuesInv'
<1>1. UNCHANGED <<request, loader, batch, result>>
  BY DEF Join, Await
<1>2. ValuesOK'
  BY <1>1 DEF ValuesInv, ValuesOK, loader, batch
<1>3. \A c \in Loads : pc'[c] \in {"storing", "returned"} => UNCHANGED <<pc[c], key[c]>>
  BY DEF BatchesInv, ControlOK, Join, Await
<1>4. OwnValue'
  BY <1>1, <1>3 DEF ValuesInv, OwnValue, Answers, ByPosition, request, loader
<1> QED BY <1>1, <1>2, <1>4, AnswersStay DEF ValuesInv, request

LEMMA AppendValues ==
    ASSUME BatchesInv, ValuesInv, NEW l \in Loads, NEW k \in Keys, AppendKey(l, k)
    PROVE  ValuesInv'
<1> DEFINE b == Taker(l)
<1>0. ControlOK /\ b \in Loads
  BY DEF BatchesInv, ControlOK, Taker
<1>1. /\ timer[b] \in {"none", "sleeping"} /\ limiter[b] = "none"
      /\ keys' = [keys EXCEPT ![b] = Append(@, k)]
      /\ timer' = [timer EXCEPT ![b] = "sleeping"]
      /\ limiter' = [limiter EXCEPT ![b] = "ending"] \/ limiter' = limiter
      /\ Await(l, k, b, Len(keys[b]) + 1)
      /\ UNCHANGED <<request, cache, data, failed, result>>
  BY <1>0, AppendFacts
<1>2. ValuesOK'
  BY <1>1 DEF ValuesInv, ValuesOK
<1>3. \A c \in Loads : pc'[c] \in {"storing", "returned"} => UNCHANGED <<pc[c], key[c]>>
  BY <1>0, <1>1 DEF ControlOK, Await
<1>4. OwnValue'
  BY <1>1, <1>3 DEF ValuesInv, OwnValue, Answers, ByPosition, request
<1>5. \A c \in Loads : AnswerInv(c)'
  <2> TAKE c \in Loads
  <2>1. CASE c = b
    <3>1. ~Done(c) /\ ~Done(c)'
      BY <1>0, <1>1, <2>1 DEF Done, ControlOK
    <3> QED BY <1>1, <3>1 DEF ValuesInv, AnswerInv
  <2>2. CASE c # b
    <3>1. UNCHANGED <<keys[c], timer[c], limiter[c]>>
      BY <1>0, <1>1, <2>2 DEF ControlOK
    <3>2. UNCHANGED <<missing, data, failed>>
      BY <1>1 DEF request
    <3>3. Answer(keys[c])' = Answer(keys[c])
      BY <1>1, <3>1, AnswerStays
    <3> QED BY <3>1, <3>2, <3>3 DEF ValuesInv, AnswerInv, Done
  <2> QED BY <2>1, <2>2
<1> QED BY <1>1, <1>2, <1>4, <1>5 DEF ValuesInv, request

LEMMA TimerValues ==
    ASSUME BatchesInv, ValuesInv, NEW l \in Loads, Timer(l)
    PROVE  ValuesInv'
<1>1. UNCHANGED <<request, cache, keys, limiter, data, failed, pc, key, result>>
  BY DEF Timer, load
<1>2. ValuesOK' /\ OwnValue'
  BY <1>1 DEF ValuesInv, ValuesOK, OwnValue, Answers, ByPosition, request
<1>3. \A b \in Loads : Done(b)' <=> Done(b)
  BY <1>1 DEF BatchesInv, ControlOK, Timer, Done
<1>4. \A b \in Loads : Answer(keys[b])' = Answer(keys[b])
  BY <1>1, AnswerStays
<1>5. \A b \in Loads : AnswerInv(b)'
  BY <1>1, <1>3, <1>4 DEF ValuesInv, AnswerInv
<1> QED BY <1>2, <1>5 DEF ValuesInv

LEMMA EndValues ==
    ASSUME BatchesInv, ValuesInv, NEW l \in Loads, End(l)
    PROVE  ValuesInv'
<1>1. UNCHANGED <<request, cache, keys, pc, key, result>>
  BY DEF End, load, loader
<1>2. keys[l] \in Seq(Keys)
  BY DEF BatchesInv, ControlOK
<1>3. Answer(keys[l]) \in Seq(Values)
  BY <1>2, AnswerOK
<1>4. \/ data' = [data EXCEPT ![l] = Answer(keys[l])] /\ failed' = failed
      \/ data' = data /\ failed' = [failed EXCEPT ![l] = TRUE]
  BY DEF End, ValuesInv
<1>5. ValuesOK'
  BY <1>1, <1>3, <1>4 DEF ValuesInv, ValuesOK
<1>6. OwnValue'
  BY <1>1 DEF ValuesInv, OwnValue, Answers, ByPosition, request
<1>7. ~Done(l) /\ Done(l)'
  <2>1. \/ timer[l] = "ending" /\ limiter[l] = "none" /\ timer'[l] = "ended"
        \/ /\ limiter[l] = "ending" /\ limiter'[l] = "ended"
           /\ timer[l] \in {"sleeping", "stopped"}
    BY DEF BatchesInv, ControlOK, BatchInv, End
  <2> QED BY <2>1 DEF Done
<1>8. \A b \in Loads : b # l => (Done(b)' <=> Done(b))
  BY DEF BatchesInv, ControlOK, End, Done
<1>9. \A b \in Loads : AnswerInv(b)'
  <2> TAKE b \in Loads
  <2>1. CASE b = l
    <3>1. data[l] = <<>> /\ ~failed[l]
      BY <1>7 DEF ValuesInv, AnswerInv
    <3>2. ~failed'[l] => data'[l] = Answer(keys[l])
      BY <1>4, <3>1 DEF BatchesInv, ControlOK, ValuesInv, ValuesOK
    <3>3. Answer(keys[l])' = Answer(keys[l])
      BY <1>1, AnswerStays
    <3> QED BY <1>7, <2>1, <3>2, <3>3 DEF AnswerInv
  <2>2. CASE b # l
    <3>1. UNCHANGED <<data[b], failed[b]>>
      BY <1>4, <2>2 DEF BatchesInv, ControlOK, ValuesInv, ValuesOK
    <3>2. Answer(keys[b])' = Answer(keys[b])
      BY <1>1, AnswerStays
    <3> QED BY <1>8, <2>2, <3>1, <3>2 DEF ValuesInv, AnswerInv
  <2> QED BY <2>1, <2>2
<1> QED BY <1>1, <1>5, <1>6, <1>9 DEF ValuesInv, request

\* The thunk finds its own key's value at its position.
LEMMA ThunkValues ==
    ASSUME BatchesInv, ValuesInv, NEW l \in Loads, Thunk(l)
    PROVE  ValuesInv'
<1> DEFINE b == at[l]
<1>1. UNCHANGED <<request, loader, batch, key>>
  BY DEF Thunk
<1>2. b \in Loads /\ pos[l] \in DOMAIN keys[b] /\ keys[b][pos[l]] = key[l] /\ key[l] \in Keys
  BY DEF BatchesInv, LoadInv, Thunk
<1>3. Done(b) /\ keys[b] \in Seq(Keys) /\ data[b] \in Seq(Values)
  BY <1>2 DEF BatchesInv, ControlOK, ValuesInv, ValuesOK, Thunk
<1>4. ~failed[b] => data[b] = Answer(keys[b])
  BY <1>2, <1>3 DEF ValuesInv, AnswerInv
<1>5. ByPosition /\ ~failed[b]
      => pos[l] \in DOMAIN data[b] /\ data[b][pos[l]] \in Answers(key[l])
  BY <1>2, <1>3, <1>4, AnswerOK
<1>6. pos[l] \in DOMAIN data[b] => data[b][pos[l]] \in Values
  BY <1>3
<1>7. ValuesOK'
  BY <1>1, <1>6 DEF ValuesInv, ValuesOK, Thunk, loader, batch, Values
<1>8. \A c \in Loads : c # l => UNCHANGED <<pc[c], result[c]>>
  BY DEF BatchesInv, ControlOK, ValuesInv, ValuesOK, Thunk
<1>9. ByPosition /\ pc'[l] \in {"storing", "returned"} => result'[l] \in Answers(key[l])
  BY <1>5 DEF BatchesInv, ControlOK, ValuesInv, ValuesOK, Thunk
<1>10. OwnValue'
  BY <1>1, <1>8, <1>9 DEF ValuesInv, OwnValue, Answers, ByPosition, request, loader
<1> QED BY <1>1, <1>7, <1>10, AnswersStay DEF ValuesInv, request

LEMMA StoreValues ==
    ASSUME BatchesInv, ValuesInv, NEW l \in Loads, Store(l)
    PROVE  ValuesInv'
<1>1. UNCHANGED <<request, batch, key, result>>
  BY DEF Store
<1>2. key[l] \in Keys /\ result[l] \in Values /\ (ByPosition => result[l] \in Answers(key[l]))
  BY DEF BatchesInv, LoadInv, ValuesInv, ValuesOK, OwnValue, Store
<1>3. ValuesOK'
  BY <1>1, <1>2 DEF ValuesInv, ValuesOK, Store, batch
<1>4. \A c \in Loads : pc'[c] \in {"storing", "returned"} => pc[c] \in {"storing", "returned"}
  BY DEF BatchesInv, ControlOK, Store
<1>5. OwnValue'
  BY <1>1, <1>2, <1>4 DEF ValuesInv, ValuesOK, OwnValue, Answers, ByPosition, Store, request
<1> QED BY <1>1, <1>3, <1>5, AnswersStay DEF ValuesInv, request

\* ValuesInv is preserved by every step of a loader.
LEMMA ValuesInvStep == BatchesInv /\ ValuesInv /\ [Next]_vars => ValuesInv'
<1> SUFFICES ASSUME BatchesInv, ValuesInv, [Next]_vars PROVE ValuesInv'
  OBVIOUS
<1>1. ASSUME NEW l \in Loads, LoadThunk(l) PROVE ValuesInv'
  BY <1>1, HitValues, JoinValues, AppendValues DEF LoadThunk
<1>2. ASSUME NEW l \in Loads, Timer(l) PROVE ValuesInv'
  BY <1>2, TimerValues
<1>3. ASSUME NEW l \in Loads, End(l) PROVE ValuesInv'
  BY <1>3, EndValues
<1>4. ASSUME NEW l \in Loads, Thunk(l) PROVE ValuesInv'
  BY <1>4, ThunkValues
<1>5. ASSUME NEW l \in Loads, Store(l) PROVE ValuesInv'
  BY <1>5, StoreValues
<1>6. CASE UNCHANGED vars
  <2>1. \A b \in Loads : AnswerInv(b)'
    BY <1>6, AnswersStay DEF vars
  <2>2. ValuesOK' /\ OwnValue'
    BY <1>6 DEF vars, request, loader, batch, load, ValuesInv, ValuesOK, OwnValue, Answers, ByPosition
  <2> QED BY <2>1, <2>2 DEF ValuesInv
<1> QED BY <1>1, <1>2, <1>3, <1>4, <1>5, <1>6 DEF Next

LEMMA ValuesAlways == Spec => []ValuesInv
<1> QED BY ValuesInvInit, ValuesInvStep, BatchesAlways, PTL DEF Spec

\* Every variable of a loader always holds what it should.
THEOREM TypeCorrect == Spec => []TypeOK
<1>1. BatchesInv /\ ValuesInv => TypeOK
  BY DEF BatchesInv, ValuesInv, TypeOK
<1> QED BY <1>1, BatchesAlways, ValuesAlways, PTL

\* What is returned and cached for an id is that id's value (OwnValue): of
\* users always, of workspaces in requests where none is missing.
THEOREM OwnValues == Spec => []OwnValue
<1>1. ValuesInv => OwnValue
  BY DEF ValuesInv
<1> QED BY <1>1, ValuesAlways, PTL

-----------------------------------------------------------------------------
\* An id that a load has got an answer for is in the cache.
KeptInv == \A l \in Loads : pc[l] = "returned" => cache[key[l]] # Unset

LEMMA KeptInvStep ==
    BatchesInv /\ ValuesInv /\ KeptInv /\ [Next]_vars => KeptInv'
<1> SUFFICES ASSUME BatchesInv, ValuesInv, KeptInv, [Next]_vars PROVE KeptInv'
  OBVIOUS
<1> USE LoaderAssumption
<1>1. ASSUME NEW l \in Loads, NEW k \in Keys, Hit(l, k) PROVE KeptInv'
  BY <1>1 DEF BatchesInv, ControlOK, KeptInv, Hit, loader
<1>2. ASSUME NEW l \in Loads, NEW k \in Keys, Join(l, k) PROVE KeptInv'
  BY <1>2 DEF BatchesInv, ControlOK, KeptInv, Join, Await, loader
<1>3. ASSUME NEW l \in Loads, NEW k \in Keys, AppendKey(l, k) PROVE KeptInv'
  <2>1. UNCHANGED cache /\ pc' = [pc EXCEPT ![l] = "waiting"] /\ key' = [key EXCEPT ![l] = k]
    BY <1>3 DEF AppendKey, Await
  <2> QED BY <2>1 DEF BatchesInv, ControlOK, KeptInv
<1>4. ASSUME NEW l \in Loads, Timer(l) \/ End(l) PROVE KeptInv'
  <2>1. UNCHANGED <<cache, pc, key>>
    BY <1>4 DEF Timer, End, loader, load
  <2> QED BY <2>1 DEF KeptInv
<1>5. ASSUME NEW l \in Loads, Thunk(l) PROVE KeptInv'
  <2>1. UNCHANGED <<cache, key>>
    BY <1>5 DEF Thunk, loader
  <2>2. pc' = [pc EXCEPT ![l] = IF failed[at[l]] THEN "failed" ELSE "storing"]
    BY <1>5 DEF Thunk
  <2>3. \A c \in Loads : pc'[c] = "returned" => pc[c] = "returned"
    BY <2>2 DEF BatchesInv, ControlOK
  <2> QED BY <2>1, <2>3 DEF KeptInv
<1>6. ASSUME NEW l \in Loads, Store(l) PROVE KeptInv'
  <2>1. result[l] # Unset /\ key[l] \in Keys
    BY <1>6 DEF BatchesInv, LoadInv, ValuesInv, ValuesOK, Values, Store
  <2>2. UNCHANGED key /\ cache' = [cache EXCEPT ![key[l]] = result[l]]
    BY <1>6 DEF Store
  <2>3. \A c \in Loads : pc'[c] = "returned" => c = l \/ pc[c] = "returned"
    BY <1>6 DEF BatchesInv, ControlOK, Store
  <2>4. cache'[key[l]] # Unset /\ \A k \in Keys : cache'[k] = Unset => cache[k] = Unset
    BY <2>1, <2>2 DEF ValuesInv, ValuesOK
  <2>5. \A c \in Loads : pc[c] = "returned" => key[c] \in Keys
    BY DEF BatchesInv, LoadInv
  <2> QED BY <2>2, <2>3, <2>4, <2>5 DEF KeptInv
<1>7. CASE UNCHANGED vars
  BY <1>7 DEF vars, loader, load, KeptInv
<1> QED BY <1>1, <1>2, <1>3, <1>4, <1>5, <1>6, <1>7 DEF Next, LoadThunk

LEMMA KeptAlways == Spec => []KeptInv
<1>1. Init => KeptInv
  BY DEF Init, KeptInv
<1> QED BY <1>1, KeptInvStep, BatchesAlways, ValuesAlways, PTL DEF Spec

\* Neither loader fetches an id again that some load of the request has got an
\* answer for, a nil one included (NoRefetch).
THEOREM NotRefetched == Spec => NoRefetch
<1>1. BatchesInv /\ KeptInv /\ [Next]_vars
      => [\A b \in Loads, k \in Keys :
            (\E l \in Loads : pc[l] = "returned" /\ key[l] = k) /\ ~Holds(b, k)
            => ~Holds(b, k)']_vars
  <2> SUFFICES ASSUME BatchesInv, KeptInv, Next, NEW b \in Loads, NEW k \in Keys,
                      \E l \in Loads : pc[l] = "returned" /\ key[l] = k, ~Holds(b, k)
               PROVE  ~Holds(b, k)'
    OBVIOUS
  <2>1. cache[k] # Unset
    BY DEF KeptInv
  <2>2. ASSUME NEW l \in Loads, NEW j \in Keys, AppendKey(l, j) PROVE ~Holds(b, k)'
    <3>1. Taker(l) \in Loads
      BY DEF BatchesInv, ControlOK, Taker
    <3>2. keys' = [keys EXCEPT ![Taker(l)] = Append(@, j)]
      BY <2>2, <3>1, AppendFacts
    <3>3. j # k
      BY <2>1, <2>2 DEF AppendKey
    <3>4. keys[b] \in Seq(Keys) /\ (keys'[b] = keys[b] \/ keys'[b] = Append(keys[b], j))
      BY <3>2 DEF BatchesInv, ControlOK
    <3> QED BY <3>3, <3>4 DEF Holds
  <2>3. ASSUME NEW l \in Loads, NEW j \in Keys, Hit(l, j) \/ Join(l, j) PROVE ~Holds(b, k)'
    BY <2>3 DEF Hit, Join, batch, Holds
  <2>4. ASSUME NEW l \in Loads, Timer(l) \/ End(l) \/ Thunk(l) \/ Store(l)
        PROVE  ~Holds(b, k)'
    BY <2>4 DEF Timer, End, Thunk, Store, batch, Holds
  <2> QED BY <2>2, <2>3, <2>4 DEF Next, LoadThunk
<1> QED BY <1>1, BatchesAlways, KeptAlways, PTL DEF Spec, NoRefetch
=============================================================================
