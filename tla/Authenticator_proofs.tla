------------------------ MODULE Authenticator_proofs ------------------------
(***************************************************************************)
(* Proofs about Authenticator, for any number of calls and enrolments and  *)
(* any spans of time that TimeAssumption admits: AuthInv is inductive, and *)
(* with it no call uses an expired token, tokens are not fetched twice, a  *)
(* DisableMFA that succeeds has removed what it found, and statuses are    *)
(* stale for no longer than a cache lifetime and a request.                *)
(***************************************************************************)
EXTENDS Authenticator, TLAPS

LEMMA FirstOK ==
    ASSUME NEW c, kind[c] \in Kinds
    PROVE  First(c) \in {"list", "switchOn", "update"} /\ kind[c] \in Methods(First(c))
BY DEF First, Kinds, Methods

LEMMA SeenTokenOK ==
    ASSUME AuthInv, NEW c \in Calls, NEW t \in SeenToken(c)
    PROVE  t \in Nat \cup {Torn}
BY DEF AuthInv, TypeOK, SeenToken, Storing, RequestInv

\* Sending a request keeps the types.
LEMMA SendTyped ==
    ASSUME AuthInv, NEW c \in Calls, NEW l \in InFlight, Send(c, l)
    PROVE  /\ pc' \in [Calls -> InFlight \cup {"idle", "check", "lock", "store", "over"}]
           /\ sentAt' \in [Calls -> Nat]
           /\ tok' \in [Calls -> Nat \cup {Torn, None}]
           /\ reply' \in [Calls -> (SUBSET Enrollments) \cup {None}]
<1>1. pc' \in [Calls -> InFlight \cup {"idle", "check", "lock", "store", "over"}]
  BY DEF AuthInv, TypeOK, Send, Goto
<1>2. sentAt' \in [Calls -> Nat]
  BY DEF AuthInv, TypeOK, Send
<1>3. tok' \in [Calls -> Nat \cup {Torn, None}]
  BY SeenTokenOK DEF AuthInv, TypeOK, Send
<1>4. reply' \in [Calls -> (SUBSET Enrollments) \cup {None}]
  BY DEF AuthInv, TypeOK, Send
<1> QED BY <1>1, <1>2, <1>3, <1>4

LEMMA ReturnTyped ==
    ASSUME TypeOK, NEW c \in Calls, NEW r \in {"on", "off", "ok", "error"}, Return(c, r)
    PROVE  /\ pc' \in [Calls -> InFlight \cup {"idle", "check", "lock", "store", "over"}]
           /\ kind' \in [Calls -> Kinds \cup {None}]
           /\ sentAt' \in [Calls -> Nat]
           /\ tok' \in [Calls -> Nat \cup {Torn, None}]
           /\ reply' \in [Calls -> (SUBSET Enrollments) \cup {None}]
           /\ failed' \in [Calls -> BOOLEAN]
           /\ found' \in [Calls -> SUBSET Enrollments]
           /\ result' \in [Calls -> {"on", "off", "ok", "error", None}]
<1> USE DEF TypeOK, Return
<1>1. pc' \in [Calls -> InFlight \cup {"idle", "check", "lock", "store", "over"}]
  BY DEF Goto
<1>2. kind' \in [Calls -> Kinds \cup {None}]
  OBVIOUS
<1>3. sentAt' \in [Calls -> Nat] /\ tok' \in [Calls -> Nat \cup {Torn, None}]
  OBVIOUS
<1>4. reply' \in [Calls -> (SUBSET Enrollments) \cup {None}]
  OBVIOUS
<1>5. failed' \in [Calls -> BOOLEAN]
  OBVIOUS
<1>6. found' \in [Calls -> SUBSET Enrollments]
  OBVIOUS
<1>7. result' \in [Calls -> {"on", "off", "ok", "error", None}]
  OBVIOUS
<1> QED BY <1>1, <1>2, <1>3, <1>4, <1>5, <1>6, <1>7

LEMMA TypeInit == Init => TypeOK
<1> SUFFICES ASSUME Init PROVE TypeOK
  OBVIOUS
<1> USE TimeAssumption DEF Init
<1>1. /\ now \in 0..MaxTime /\ confirmed \subseteq Enrollments /\ deleted \subseteq Enrollments
      /\ changed \in Nat \cup {None}
  OBVIOUS
<1>8. required \in BOOLEAN /\ crossed \in BOOLEAN
  OBVIOUS
<1>2. token \in Nat /\ expireAt \in Nat
  OBVIOUS
<1>3. /\ holder \in Calls \cup {None} /\ fetched \in Nat \cup {None}
      /\ cache \in [status : {"on", "off"}, until : Nat] \cup {None}
  OBVIOUS
<1>4. /\ pc \in [Calls -> InFlight \cup {"idle", "check", "lock", "store", "over"}]
      /\ kind \in [Calls -> Kinds \cup {None}]
  OBVIOUS
<1>5. /\ sentAt \in [Calls -> Nat] /\ tok \in [Calls -> Nat \cup {Torn, None}]
      /\ reply \in [Calls -> (SUBSET Enrollments) \cup {None}]
  OBVIOUS
<1>6. /\ toDelete \in [Calls -> SUBSET Enrollments] /\ failed \in [Calls -> BOOLEAN]
      /\ found \in [Calls -> SUBSET Enrollments]
  OBVIOUS
<1>7. result \in [Calls -> {"on", "off", "ok", "error", None}]
  OBVIOUS
<1> QED BY <1>1, <1>2, <1>3, <1>4, <1>5, <1>6, <1>7, <1>8 DEF TypeOK

LEMMA TypeStep == AuthInv /\ [Next]_vars => TypeOK'
<1> SUFFICES ASSUME AuthInv, [Next]_vars PROVE TypeOK'
  OBVIOUS
<1>0. TypeOK
  BY DEF AuthInv
<1> USE TimeAssumption
<1>1. ASSUME NEW c \in Calls, Hit(c) PROVE TypeOK'
  <2>1. cache.status \in {"on", "off"}
    BY <1>0, <1>1 DEF TypeOK, Hit, Cached
  <2> QED BY <1>0, <1>1, <2>1, ReturnTyped DEF TypeOK, Hit, auth0, tokens
<1>2. ASSUME NEW c \in Calls, NEW k \in Kinds, Call(c, k) PROVE TypeOK'
  BY <1>0, <1>2 DEF TypeOK, Call, Goto, tokens, request
<1>3. ASSUME NEW c \in Calls, Check(c) PROVE TypeOK'
  <2>1. CASE Goto(c, "lock") /\ UNCHANGED request
    BY <1>0, <1>3, <2>1 DEF TypeOK, Check, Goto, auth0, tokens, request, disable
  <2>2. CASE Send(c, First(c))
    <3>1. First(c) \in InFlight
      BY <1>3, FirstOK DEF AuthInv, RequestInv, Check, Acting, Methods, InFlight
    <3> QED BY <1>0, <1>3, <2>2, <3>1, SendTyped DEF TypeOK, Check, auth0, tokens, disable
  <2> QED BY <1>3, <2>1, <2>2 DEF Check
<1>4. ASSUME NEW c \in Calls, Lock(c) PROVE TypeOK'
  <2>1. First(c) \in InFlight /\ "fetch" \in InFlight
    BY <1>4, FirstOK DEF AuthInv, RequestInv, Lock, Acting, Methods, InFlight
  <2>2. PICK l \in InFlight : Send(c, l)
    BY <1>4, <2>1 DEF Lock
  <2> QED BY <1>0, <1>4, <2>2, SendTyped DEF TypeOK, Lock, auth0, disable
<1>5. ASSUME NEW c \in Calls, Fetched(c) PROVE TypeOK'
  BY <1>0, <1>5 DEF TypeOK, Fetched, Goto, auth0, tokens, request, disable
<1>6. ASSUME NEW c \in Calls, FetchFailed(c) PROVE TypeOK'
  BY <1>0, <1>6, ReturnTyped DEF TypeOK, FetchFailed, auth0
<1>7. ASSUME NEW c \in Calls, Store(c) PROVE TypeOK'
  <2>1. First(c) \in InFlight /\ fetched \in Nat
    BY <1>0, <1>7, FirstOK DEF TypeOK, AuthInv, RequestInv, Store, Acting, Methods, InFlight
  <2> QED BY <1>0, <1>7, <2>1 DEF TypeOK, Store, Goto, auth0, disable
<1>8. ASSUME NEW c \in Calls, Issue(c) PROVE TypeOK'
  BY <1>0, <1>8 DEF TypeOK, Issue, auth0, request, disable
<1>9. ASSUME NEW c \in Calls, Serve(c) PROVE TypeOK'
  BY <1>0, <1>9 DEF TypeOK, Serve, Answer, auth0, tokens, disable
<1>10. ASSUME NEW c \in Calls, Fail(c) PROVE TypeOK'
  BY <1>0, <1>10, ReturnTyped DEF TypeOK, Fail, auth0, tokens
<1>11. ASSUME NEW c \in Calls, Listed(c) PROVE TypeOK'
  <2>1. Status(reply[c]) \in {"on", "off"} /\ now + TTL \in Nat
    BY <1>0 DEF Status, TypeOK
  <2> QED BY <1>0, <1>11, <2>1, ReturnTyped DEF TypeOK, Listed, CacheStatus, auth0, tokens
<1>12. ASSUME NEW c \in Calls, ListedToDelete(c) PROVE TypeOK'
  <2>1. PICK l \in InFlight : Send(c, l)
    BY <1>12 DEF ListedToDelete, InFlight
  <2>2. toDelete' \in [Calls -> SUBSET Enrollments]
    BY <1>0, <1>12 DEF TypeOK, ListedToDelete
  <2> QED BY <1>0, <1>12, <2>1, <2>2, SendTyped DEF TypeOK, ListedToDelete, auth0, tokens
<1>13. ASSUME NEW c \in Calls, NEW e \in Enrollments, Delete(c, e) PROVE TypeOK'
  <2>1. /\ confirmed' \subseteq Enrollments /\ deleted' \subseteq Enrollments
        /\ changed' \in Nat \cup {None}
    BY <1>0, <1>13 DEF TypeOK, Delete, SetConfirmed
  <2>2. failed' \in [Calls -> BOOLEAN] /\ toDelete' \in [Calls -> SUBSET Enrollments]
    BY <1>0, <1>13 DEF TypeOK, Delete
  <2> QED BY <1>0, <1>13, <2>1, <2>2 DEF TypeOK, Delete, tokens, request
<1>14. ASSUME NEW c \in Calls, Deleted(c) PROVE TypeOK'
  <2>1. CASE failed[c]
    BY <1>0, <1>14, <2>1, ReturnTyped DEF TypeOK, Deleted, auth0, tokens
  <2>2. CASE ~failed[c]
    <3>1. Send(c, "switchOff") /\ "switchOff" \in InFlight
      BY <1>14, <2>2 DEF Deleted, InFlight
    <3> QED BY <1>0, <1>14, <2>2, <3>1, SendTyped DEF TypeOK, Deleted, auth0, tokens
  <2> QED BY <2>1, <2>2
<1>15. ASSUME NEW c \in Calls, SwitchedOff(c) PROVE TypeOK'
  BY <1>0, <1>15, ReturnTyped DEF TypeOK, SwitchedOff, CacheStatus, auth0, tokens
<1>16. ASSUME NEW c \in Calls, SwitchedOn(c) PROVE TypeOK'
  <2>1. Send(c, "ticket") /\ "ticket" \in InFlight
    BY <1>16 DEF SwitchedOn, InFlight
  <2> QED BY <1>0, <1>16, <2>1, SendTyped DEF TypeOK, SwitchedOn, auth0, tokens, disable
<1>17. ASSUME NEW c \in Calls, Ticketed(c) PROVE TypeOK'
  BY <1>0, <1>17, ReturnTyped DEF TypeOK, Ticketed, auth0, tokens
<1>18. ASSUME NEW c \in Calls, Updated(c) PROVE TypeOK'
  BY <1>0, <1>18, ReturnTyped DEF TypeOK, Updated, auth0, tokens
<1>19. ASSUME NEW e \in Enrollments, Confirm(e) PROVE TypeOK'
  BY <1>0, <1>19 DEF TypeOK, Confirm, SetConfirmed, tokens, request, disable
<1>20. CASE Tick
  BY <1>0, <1>20 DEF TypeOK, Tick, auth0, tokens, request, disable
<1>21. CASE UNCHANGED vars
  BY <1>0, <1>21 DEF TypeOK, vars, auth0, tokens, request, disable
<1> QED BY <1>1, <1>2, <1>3, <1>4, <1>5, <1>6, <1>7, <1>8, <1>9, <1>10, <1>11, <1>12, <1>13,
           <1>14, <1>15, <1>16, <1>17, <1>18, <1>19, <1>20, <1>21 DEF Next, Proceed

-----------------------------------------------------------------------------
\* RequestInv and ExpiryInv: who holds the lock, and since when requests are
\* under way.
LEMMA RequestStep ==
    AuthInv /\ [Next]_vars => ExpiryInv' /\ \A d \in Calls : RequestInv(d)'
<1> SUFFICES ASSUME AuthInv, [Next]_vars PROVE ExpiryInv' /\ \A d \in Calls : RequestInv(d)'
  OBVIOUS
<1> DEFINE Goal == ExpiryInv' /\ \A d \in Calls : RequestInv(d)'
<1>0. TypeOK /\ ExpiryInv /\ \A d \in Calls : RequestInv(d)
  BY DEF AuthInv
<1> USE TimeAssumption DEF TypeOK, ExpiryInv, RequestInv, Goto, auth0, tokens, request, disable,
        Acting, InFlight, Held, Methods, Kinds
<1>1. ASSUME NEW c \in Calls, Hit(c) PROVE Goal
  BY <1>0, <1>1 DEF Hit, Cached, Return
<1>2. ASSUME NEW c \in Calls, Check(c) PROVE Goal
  <2>1. First(c) \in {"list", "switchOn", "update"} /\ kind[c] \in Methods(First(c))
    BY <1>0, <1>2, FirstOK DEF Check
  <2> QED BY <1>0, <1>2, <2>1 DEF Check, Send, NeedsFetch
<1>3. ASSUME NEW c \in Calls, Lock(c) PROVE Goal
  <2>1. First(c) \in {"list", "switchOn", "update"} /\ kind[c] \in Methods(First(c))
    BY <1>0, <1>3, FirstOK DEF Lock
  <2> QED BY <1>0, <1>3, <2>1 DEF Lock, Send, NeedsFetch
<1>4. ASSUME NEW c \in Calls, Fetched(c) PROVE Goal
  BY <1>0, <1>4 DEF Fetched
<1>5. ASSUME NEW c \in Calls, FetchFailed(c) PROVE Goal
  BY <1>0, <1>5 DEF FetchFailed, Return
<1>6. ASSUME NEW c \in Calls, Store(c) PROVE Goal
  <2>1. First(c) \in {"list", "switchOn", "update"} /\ kind[c] \in Methods(First(c))
    BY <1>0, <1>6, FirstOK DEF Store
  <2> QED BY <1>0, <1>6, <2>1 DEF Store
<1>7. ASSUME NEW c \in Calls, Issue(c) PROVE Goal
  BY <1>0, <1>7 DEF Issue
<1>8. ASSUME NEW c \in Calls, Serve(c) PROVE Goal
  BY <1>0, <1>8 DEF Serve, Answer
<1>9. ASSUME NEW c \in Calls, Fail(c) PROVE Goal
  BY <1>0, <1>9 DEF Fail, Return
<1>10. ASSUME NEW c \in Calls, Listed(c) PROVE Goal
  BY <1>0, <1>10 DEF Listed, CacheStatus, Return
<1>11. ASSUME NEW c \in Calls, ListedToDelete(c) PROVE Goal
  BY <1>0, <1>11 DEF ListedToDelete, Send
<1>12. ASSUME NEW c \in Calls, Deleted(c) PROVE Goal
  BY <1>0, <1>12 DEF Deleted, Send, Return
<1>13. ASSUME NEW c \in Calls, SwitchedOff(c) PROVE Goal
  BY <1>0, <1>13 DEF SwitchedOff, CacheStatus, Return
<1>14. ASSUME NEW c \in Calls, SwitchedOn(c) PROVE Goal
  BY <1>0, <1>14 DEF SwitchedOn, Send
<1>15. ASSUME NEW c \in Calls, Ticketed(c) PROVE Goal
  BY <1>0, <1>15 DEF Ticketed, Return
<1>16. ASSUME NEW c \in Calls, Updated(c) PROVE Goal
  BY <1>0, <1>16 DEF Updated, Return
<1>17. ASSUME NEW c \in Calls, NEW k \in Kinds, Call(c, k) PROVE Goal
  BY <1>0, <1>17 DEF Call
<1>18. ASSUME NEW c \in Calls, NEW e \in Enrollments, Delete(c, e) PROVE Goal
  BY <1>0, <1>18 DEF Delete
<1>19. ASSUME NEW e \in Enrollments, Confirm(e) PROVE Goal
  BY <1>0, <1>19 DEF Confirm
<1>20. CASE Tick
  BY <1>0, <1>20 DEF Tick
<1>21. CASE UNCHANGED vars
  BY <1>0, <1>21 DEF vars
<1> QED BY <1>1, <1>2, <1>3, <1>4, <1>5, <1>6, <1>7, <1>8, <1>9, <1>10, <1>11, <1>12, <1>13, <1>14, <1>15, <1>16, <1>17, <1>18, <1>19, <1>20, <1>21 DEF Next, Proceed

\* LastsInv: the margin covers every request that follows a check, and a newer
\* token lasts longer than the one it replaces.
LEMMA LastsStep == AuthInv /\ [Next]_vars => \A d \in Calls : LastsInv(d)'
<1> SUFFICES ASSUME AuthInv, [Next]_vars PROVE \A d \in Calls : LastsInv(d)'
  OBVIOUS
<1> DEFINE Goal == \A d \in Calls : LastsInv(d)'
<1>0. TypeOK /\ ExpiryInv /\ StatusInv /\ \A d \in Calls : RequestInv(d) /\ LastsInv(d) /\ DisableInv(d)
  BY DEF AuthInv
<1> USE TimeAssumption DEF TypeOK, Goto, auth0, tokens, request, disable, ExpiryInv, RequestInv, LastsInv, TimeNeeded, CurrentToken, Storing,
        Acting, InFlight, Held, Methods, Kinds
<1>1. ASSUME NEW c \in Calls, Hit(c) PROVE Goal
  BY <1>0, <1>1 DEF Hit, Cached, Return
<1>2. ASSUME NEW c \in Calls, Check(c) PROVE Goal
  <2>1. First(c) \in {"list", "switchOn", "update"} /\ kind[c] \in Methods(First(c))
    BY <1>0, <1>2, FirstOK DEF Check
  <2> QED BY <1>0, <1>2, <2>1 DEF Check, Send, NeedsFetch, SeenExpiry, SeenToken
<1>3. ASSUME NEW c \in Calls, Lock(c) PROVE Goal
  <2>1. First(c) \in {"list", "switchOn", "update"} /\ kind[c] \in Methods(First(c))
    BY <1>0, <1>3, FirstOK DEF Lock
  <2> QED BY <1>0, <1>3, <2>1 DEF Lock, Send, NeedsFetch, SeenToken
<1>4. ASSUME NEW c \in Calls, Fetched(c) PROVE Goal
  BY <1>0, <1>4 DEF Fetched
<1>5. ASSUME NEW c \in Calls, FetchFailed(c) PROVE Goal
  BY <1>0, <1>5 DEF FetchFailed, Return
<1>6. ASSUME NEW c \in Calls, Store(c) PROVE Goal
  <2>1. First(c) \in {"list", "switchOn", "update"} /\ kind[c] \in Methods(First(c))
    BY <1>0, <1>6, FirstOK DEF Store
  <2> QED BY <1>0, <1>6, <2>1 DEF Store
<1>7. ASSUME NEW c \in Calls, Issue(c) PROVE Goal
  BY <1>0, <1>7 DEF Issue
<1>8. ASSUME NEW c \in Calls, Serve(c) PROVE Goal
  BY <1>0, <1>8 DEF Serve, Answer
<1>9. ASSUME NEW c \in Calls, Fail(c) PROVE Goal
  BY <1>0, <1>9 DEF Fail, Return
<1>10. ASSUME NEW c \in Calls, Listed(c) PROVE Goal
  BY <1>0, <1>10 DEF Listed, CacheStatus, Status, Return
<1>11. ASSUME NEW c \in Calls, ListedToDelete(c) PROVE Goal
  BY <1>0, <1>11 DEF ListedToDelete, Send, SeenToken
<1>12. ASSUME NEW c \in Calls, Deleted(c) PROVE Goal
  BY <1>0, <1>12 DEF Deleted, Send, SeenToken, Return
<1>13. ASSUME NEW c \in Calls, SwitchedOff(c) PROVE Goal
  BY <1>0, <1>13 DEF SwitchedOff, CacheStatus, Return
<1>14. ASSUME NEW c \in Calls, SwitchedOn(c) PROVE Goal
  BY <1>0, <1>14 DEF SwitchedOn, Send, SeenToken
<1>15. ASSUME NEW c \in Calls, Ticketed(c) PROVE Goal
  BY <1>0, <1>15 DEF Ticketed, Return
<1>16. ASSUME NEW c \in Calls, Updated(c) PROVE Goal
  BY <1>0, <1>16 DEF Updated, Return
<1>17. ASSUME NEW c \in Calls, NEW k \in Kinds, Call(c, k) PROVE Goal
  BY <1>0, <1>17 DEF Call
<1>18. ASSUME NEW c \in Calls, NEW e \in Enrollments, Delete(c, e) PROVE Goal
  BY <1>0, <1>18 DEF Delete, SetConfirmed
<1>19. ASSUME NEW e \in Enrollments, Confirm(e) PROVE Goal
  BY <1>0, <1>19 DEF Confirm, SetConfirmed
<1>20. CASE Tick
  BY <1>0, <1>20 DEF Tick
<1>21. CASE UNCHANGED vars
  BY <1>0, <1>21 DEF vars
<1> QED BY <1>1, <1>2, <1>3, <1>4, <1>5, <1>6, <1>7, <1>8, <1>9, <1>10, <1>11, <1>12, <1>13, <1>14, <1>15, <1>16, <1>17, <1>18, <1>19, <1>20, <1>21 DEF Next, Proceed

\* A call that a step does not touch.
LEMMA DisableSame ==
    ASSUME NEW d \in Calls, DisableInv(d),
           UNCHANGED <<confirmed, deleted, required, crossed>>,
           pc'[d] = pc[d], kind'[d] = kind[d], reply'[d] = reply[d], toDelete'[d] = toDelete[d],
           failed'[d] = failed[d], found'[d] = found[d],
           \A x \in Calls : kind'[x] = "enable" => kind[x] = "enable"
    PROVE  DisableInv(d)'
<1>1. InHand(d)' = InHand(d)
  BY DEF InHand
<1> QED BY <1>1 DEF DisableInv

\* DisableInv: what is confirmed and was found is still to be deleted, and
\* nothing else is confirmed unless something crossed.
LEMMA DisableStep == AuthInv /\ [Next]_vars => \A d \in Calls : DisableInv(d)'
<1> SUFFICES ASSUME AuthInv, [Next]_vars PROVE \A d \in Calls : DisableInv(d)'
  OBVIOUS
<1> DEFINE Goal == \A d \in Calls : DisableInv(d)'
<1>0. TypeOK /\ ExpiryInv /\ StatusInv /\ \A d \in Calls : RequestInv(d) /\ LastsInv(d) /\ DisableInv(d)
  BY DEF AuthInv
<1> USE TimeAssumption DEF TypeOK, Goto, auth0, tokens, request, disable, RequestInv, DisableInv, InHand,
        Acting, InFlight, Held, Methods, Kinds
<1>1. ASSUME NEW c \in Calls, Hit(c) PROVE Goal
  BY <1>0, <1>1 DEF Hit, Cached, Return
<1>2. ASSUME NEW c \in Calls, Check(c) PROVE Goal
  <2>1. First(c) \in {"list", "switchOn", "update"} /\ kind[c] \in Methods(First(c))
    BY <1>0, <1>2, FirstOK DEF Check
  <2> QED BY <1>0, <1>2, <2>1 DEF Check, Send, NeedsFetch, SeenExpiry, SeenToken
<1>3. ASSUME NEW c \in Calls, Lock(c) PROVE Goal
  <2>1. First(c) \in {"list", "switchOn", "update"} /\ kind[c] \in Methods(First(c))
    BY <1>0, <1>3, FirstOK DEF Lock
  <2> QED BY <1>0, <1>3, <2>1 DEF Lock, Send, NeedsFetch, SeenToken
<1>4. ASSUME NEW c \in Calls, Fetched(c) PROVE Goal
  BY <1>0, <1>4 DEF Fetched
<1>5. ASSUME NEW c \in Calls, FetchFailed(c) PROVE Goal
  BY <1>0, <1>5 DEF FetchFailed, Return
<1>6. ASSUME NEW c \in Calls, Store(c) PROVE Goal
  <2>1. First(c) \in {"list", "switchOn", "update"} /\ kind[c] \in Methods(First(c))
    BY <1>0, <1>6, FirstOK DEF Store
  <2> QED BY <1>0, <1>6, <2>1 DEF Store
<1>7. ASSUME NEW c \in Calls, Issue(c) PROVE Goal
  BY <1>0, <1>7 DEF Issue
<1>8. ASSUME NEW c \in Calls, Serve(c) PROVE Goal
  BY <1>0, <1>8 DEF Serve, Answer
<1>9. ASSUME NEW c \in Calls, Fail(c) PROVE Goal
  BY <1>0, <1>9 DEF Fail, Return
<1>10. ASSUME NEW c \in Calls, Listed(c) PROVE Goal
  BY <1>0, <1>10 DEF Listed, CacheStatus, Status, Return
<1>11. ASSUME NEW c \in Calls, ListedToDelete(c) PROVE Goal
  BY <1>0, <1>11 DEF ListedToDelete, Send, SeenToken
<1>12. ASSUME NEW c \in Calls, Deleted(c) PROVE Goal
  BY <1>0, <1>12 DEF Deleted, Send, SeenToken, Return
<1>13. ASSUME NEW c \in Calls, SwitchedOff(c) PROVE Goal
  BY <1>0, <1>13 DEF SwitchedOff, CacheStatus, Return
<1>14. ASSUME NEW c \in Calls, SwitchedOn(c) PROVE Goal
  BY <1>0, <1>14 DEF SwitchedOn, Send, SeenToken
<1>15. ASSUME NEW c \in Calls, Ticketed(c) PROVE Goal
  BY <1>0, <1>15 DEF Ticketed, Return
<1>16. ASSUME NEW c \in Calls, Updated(c) PROVE Goal
  BY <1>0, <1>16 DEF Updated, Return
<1>17. ASSUME NEW c \in Calls, NEW k \in Kinds, Call(c, k) PROVE Goal
  <2>1. ASSUME NEW d \in Calls, d # c PROVE DisableInv(d)'
    BY <1>0, <1>17, <2>1 DEF Call
  <2>2. DisableInv(c)'
    <3>1. pc'[c] = "check" /\ kind'[c] = k
          /\ found'[c] = IF k = "disable" THEN confirmed ELSE {}
      BY <1>0, <1>17 DEF Call
    <3>2. (InHand(c))' = Enrollments
      BY <3>1
    <3> QED BY <1>0, <1>17, <3>1, <3>2 DEF Call
  <2> QED BY <2>1, <2>2
<1>18. ASSUME NEW c \in Calls, NEW e \in Enrollments, Delete(c, e) PROVE Goal
  BY <1>0, <1>18 DEF Delete, SetConfirmed
<1>19. ASSUME NEW e \in Enrollments, Confirm(e) PROVE Goal
  <2>1. ASSUME NEW d \in Calls, kind[d] = "disable" PROVE DisableInv(d)'
    <3>1. InHand(d)' = InHand(d) /\ crossed' = TRUE /\ kind' = kind
      BY <1>19, <2>1 DEF Confirm
    <3>2. found'[d] = found[d] /\ confirmed' = confirmed \cup {e} /\ deleted' = deleted
      BY <1>19 DEF Confirm, SetConfirmed
    <3>3. e \notin found[d] /\ DisableInv(d)
      BY <1>0, <1>19, <2>1 DEF Confirm
    <3> HIDE DEF InHand
    <3> QED BY <2>1, <3>1, <3>2, <3>3
  <2> QED BY <2>1, <1>19 DEF Confirm
<1>20. CASE Tick
  BY <1>0, <1>20 DEF Tick
<1>21. CASE UNCHANGED vars
  BY <1>0, <1>21 DEF vars
<1> QED BY <1>1, <1>2, <1>3, <1>4, <1>5, <1>6, <1>7, <1>8, <1>9, <1>10, <1>11, <1>12, <1>13, <1>14, <1>15, <1>16, <1>17, <1>18, <1>19, <1>20, <1>21 DEF Next, Proceed

\* StatusInv: answers and entries become wrong only by a later change.
LEMMA StatusStep == AuthInv /\ [Next]_vars => StatusInv'
<1> SUFFICES ASSUME AuthInv, [Next]_vars PROVE StatusInv'
  OBVIOUS
<1> DEFINE Goal == StatusInv'
<1>0. TypeOK /\ ExpiryInv /\ StatusInv /\ \A d \in Calls : RequestInv(d) /\ LastsInv(d) /\ DisableInv(d)
  BY DEF AuthInv
<1> USE TimeAssumption DEF TypeOK, Goto, auth0, tokens, request, disable, RequestInv, DisableInv, InHand, StatusInv, Since, Enrolled,
        Acting, InFlight, Held, Methods, Kinds
<1>1. ASSUME NEW c \in Calls, Hit(c) PROVE Goal
  BY <1>0, <1>1 DEF Hit, Cached, Return
<1>2. ASSUME NEW c \in Calls, Check(c) PROVE Goal
  <2>1. First(c) \in {"list", "switchOn", "update"} /\ kind[c] \in Methods(First(c))
    BY <1>0, <1>2, FirstOK DEF Check
  <2> QED BY <1>0, <1>2, <2>1 DEF Check, Send, NeedsFetch, SeenExpiry, SeenToken
<1>3. ASSUME NEW c \in Calls, Lock(c) PROVE Goal
  <2>1. First(c) \in {"list", "switchOn", "update"} /\ kind[c] \in Methods(First(c))
    BY <1>0, <1>3, FirstOK DEF Lock
  <2> QED BY <1>0, <1>3, <2>1 DEF Lock, Send, NeedsFetch, SeenToken
<1>4. ASSUME NEW c \in Calls, Fetched(c) PROVE Goal
  BY <1>0, <1>4 DEF Fetched
<1>5. ASSUME NEW c \in Calls, FetchFailed(c) PROVE Goal
  BY <1>0, <1>5 DEF FetchFailed, Return
<1>6. ASSUME NEW c \in Calls, Store(c) PROVE Goal
  <2>1. First(c) \in {"list", "switchOn", "update"} /\ kind[c] \in Methods(First(c))
    BY <1>0, <1>6, FirstOK DEF Store
  <2> QED BY <1>0, <1>6, <2>1 DEF Store
<1>7. ASSUME NEW c \in Calls, Issue(c) PROVE Goal
  BY <1>0, <1>7 DEF Issue
<1>8. ASSUME NEW c \in Calls, Serve(c) PROVE Goal
  BY <1>0, <1>8 DEF Serve, Answer
<1>9. ASSUME NEW c \in Calls, Fail(c) PROVE Goal
  BY <1>0, <1>9 DEF Fail, Return
<1>10. ASSUME NEW c \in Calls, Listed(c) PROVE Goal
  BY <1>0, <1>10 DEF Listed, CacheStatus, Status, Return
<1>11. ASSUME NEW c \in Calls, ListedToDelete(c) PROVE Goal
  BY <1>0, <1>11 DEF ListedToDelete, Send, SeenToken
<1>12. ASSUME NEW c \in Calls, Deleted(c) PROVE Goal
  BY <1>0, <1>12 DEF Deleted, Send, SeenToken, Return
<1>13. ASSUME NEW c \in Calls, SwitchedOff(c) PROVE Goal
  BY <1>0, <1>13 DEF SwitchedOff, CacheStatus, Return
<1>14. ASSUME NEW c \in Calls, SwitchedOn(c) PROVE Goal
  BY <1>0, <1>14 DEF SwitchedOn, Send, SeenToken
<1>15. ASSUME NEW c \in Calls, Ticketed(c) PROVE Goal
  BY <1>0, <1>15 DEF Ticketed, Return
<1>16. ASSUME NEW c \in Calls, Updated(c) PROVE Goal
  BY <1>0, <1>16 DEF Updated, Return
<1>17. ASSUME NEW c \in Calls, NEW k \in Kinds, Call(c, k) PROVE Goal
  BY <1>0, <1>17 DEF Call
<1>18. ASSUME NEW c \in Calls, NEW e \in Enrollments, Delete(c, e) PROVE Goal
  <2>1. /\ confirmed' \cap deleted' = {} /\ now \in Nat
        /\ \/ confirmed' = confirmed /\ changed' = changed
           \/ Enrolled' = Enrolled /\ changed' = changed
           \/ changed' = now
    BY <1>0, <1>18 DEF Delete, SetConfirmed
  <2>2. UNCHANGED <<now, crossed, cache, pc, kind, sentAt, reply>>
    BY <1>18 DEF Delete
  <2>3. cache # None => cache.until \in Nat /\ cache.until <= now + TTL
    BY <1>0
  <2> QED BY <1>0, <2>1, <2>2, <2>3
<1>19. ASSUME NEW e \in Enrollments, Confirm(e) PROVE Goal
  <2>1. /\ confirmed' \cap deleted' = {} /\ now \in Nat
        /\ \/ Enrolled' = Enrolled /\ changed' = changed
           \/ changed' = now
    BY <1>0, <1>19 DEF Confirm, SetConfirmed
  <2>2. UNCHANGED <<now, cache, pc, kind, sentAt, reply>> /\ (crossed => crossed')
    BY <1>19 DEF Confirm
  <2>3. cache # None => cache.until \in Nat /\ cache.until <= now + TTL
    BY <1>0
  <2> QED BY <1>0, <2>1, <2>2, <2>3
<1>20. CASE Tick
  BY <1>0, <1>20 DEF Tick
<1>21. CASE UNCHANGED vars
  BY <1>0, <1>21 DEF vars
<1> QED BY <1>1, <1>2, <1>3, <1>4, <1>5, <1>6, <1>7, <1>8, <1>9, <1>10, <1>11, <1>12, <1>13, <1>14, <1>15, <1>16, <1>17, <1>18, <1>19, <1>20, <1>21 DEF Next, Proceed

-----------------------------------------------------------------------------
LEMMA InvInit == Init => AuthInv
<1> SUFFICES ASSUME Init PROVE AuthInv
  OBVIOUS
<1>1. TypeOK
  BY TypeInit
<1>2. ExpiryInv
  BY TimeAssumption DEF Init, ExpiryInv
<1>3. StatusInv
  BY DEF Init, StatusInv
<1>4. ASSUME NEW c \in Calls PROVE RequestInv(c) /\ LastsInv(c) /\ DisableInv(c)
  BY <1>4, TimeAssumption
     DEF Init, RequestInv, LastsInv, DisableInv, Acting, InFlight, Held, Kinds
<1> QED BY <1>1, <1>2, <1>3, <1>4 DEF AuthInv

LEMMA InvStep == AuthInv /\ [Next]_vars => AuthInv'
<1> SUFFICES ASSUME AuthInv, [Next]_vars PROVE AuthInv'
  OBVIOUS
<1>1. TypeOK' /\ ExpiryInv' /\ StatusInv'
  BY TypeStep, RequestStep, StatusStep
<1>2. \A c \in Calls : RequestInv(c)' /\ LastsInv(c)' /\ DisableInv(c)'
  BY RequestStep, LastsStep, DisableStep
<1> QED BY <1>1, <1>2 DEF AuthInv

\* The inductive invariant: the lock belongs to the call that fetches a token,
\* tokens last for the requests that follow, and answers and cached statuses
\* are outdated only by later changes.
THEOREM AuthInvAlways == Spec => []AuthInv
BY InvInit, InvStep, PTL DEF Spec

\* The variables keep their types.
THEOREM TypesKept == Spec => []TypeOK
<1>1. AuthInv => TypeOK
  BY DEF AuthInv
<1> QED BY <1>1, AuthInvAlways, PTL

\* No request reaches Auth0 with a token that has expired meanwhile: a token
\* lasts longer than the timeout of the request that carries it.
THEOREM TokensAreGood == Spec => []GoodToken
<1>1. AuthInv => GoodToken
  <2> SUFFICES ASSUME AuthInv, NEW c \in Calls, pc[c] \in InFlight \ {"fetch"}, tok[c] # Torn
               PROVE  now < tok[c]
    BY DEF GoodToken
  <2>1. now \in Nat /\ sentAt[c] \in Nat /\ now <= sentAt[c] + Timeout
    BY DEF AuthInv, TypeOK, RequestInv
  <2>2. tok[c] \in Nat /\ tok[c] > sentAt[c] + TimeNeeded(c)
    BY DEF AuthInv, LastsInv
  <2>3. TimeNeeded(c) \in Nat /\ TimeNeeded(c) >= Timeout
    BY TimeAssumption DEF TimeNeeded
  <2> QED BY <2>1, <2>2, <2>3, TimeAssumption
<1> QED BY <1>1, AuthInvAlways, PTL

\* A token is replaced only when it is within the margin of its expiry: who
\* queues for the lock behind a fetch does not fetch again.
THEOREM OneFetchOnly == Spec => OneFetch
<1>1. AuthInv /\ [Next]_vars => [token' # token => token <= now + Margin]_vars
  <2> SUFFICES ASSUME AuthInv, Next, token' # token PROVE token <= now + Margin
    OBVIOUS
  <2>1. PICK c \in Calls : Store(c)
    <3> USE DEF tokens
    <3>1. ASSUME NEW c \in Calls, NEW k \in Kinds PROVE ~Call(c, k)
      BY DEF Call
    <3>2. ASSUME NEW c \in Calls PROVE ~Issue(c) /\ ~Serve(c) /\ ~Hit(c)
      BY DEF Issue, Serve, Hit
    <3>3. ASSUME NEW c \in Calls, Proceed(c) PROVE Store(c)
      BY <3>3 DEF Proceed, Check, Lock, Fetched, FetchFailed, Fail, Listed, ListedToDelete,
                  Deleted, SwitchedOff, SwitchedOn, Ticketed, Updated, Delete
    <3>4. ~Tick /\ \A e \in Enrollments : ~Confirm(e)
      BY DEF Tick, Confirm
    <3> QED BY <3>1, <3>2, <3>3, <3>4 DEF Next
  <2>2. expireAt <= now + Margin /\ token <= expireAt
    BY <2>1 DEF AuthInv, RequestInv, Store, Held, ExpiryInv
  <2> QED BY <2>2, TimeAssumption DEF AuthInv, TypeOK
<1> QED BY <1>1, AuthInvAlways, PTL DEF Spec, OneFetch

\* What a call has returned changes when it returns, and with no other step.
LEMMA OnlyReturns ==
    ASSUME AuthInv, Next, NEW c \in Calls, result'[c] # result[c]
    PROVE  \/ Hit(c) /\ kind[c] = None
           \/ FetchFailed(c) \/ Fail(c) \/ Listed(c) \/ Deleted(c) \/ SwitchedOff(c)
           \/ Ticketed(c) \/ Updated(c)
<1> USE DEF AuthInv, TypeOK, disable
<1>1. ASSUME NEW d \in Calls, NEW k \in Kinds PROVE ~Call(d, k)
  BY DEF Call
<1>2. ASSUME NEW d \in Calls PROVE ~Issue(d) /\ ~Serve(d)
  BY DEF Issue, Serve
<1>3. ~Tick /\ \A e \in Enrollments : ~Confirm(e)
  BY DEF Tick, Confirm
<1>4. ASSUME NEW d \in Calls
      PROVE /\ ~Check(d) /\ ~Lock(d) /\ ~Fetched(d) /\ ~Store(d) /\ ~ListedToDelete(d)
            /\ ~SwitchedOn(d) /\ \A e \in Enrollments : ~Delete(d, e)
  BY DEF Check, Lock, Fetched, Store, ListedToDelete, SwitchedOn, Delete
<1>5. ASSUME NEW d \in Calls,
             \/ Hit(d) \/ FetchFailed(d) \/ Fail(d) \/ Listed(d) \/ Deleted(d) \/ SwitchedOff(d)
             \/ Ticketed(d) \/ Updated(d)
      PROVE  d = c
  BY <1>5 DEF Hit, FetchFailed, Fail, Listed, Deleted, SwitchedOff, Ticketed, Updated, Return
<1>6. Hit(c) => kind[c] = None
  BY DEF Hit, RequestInv, Acting, InFlight
<1> QED BY <1>1, <1>2, <1>3, <1>4, <1>5, <1>6 DEF Next, Proceed

\* A DisableMFA that succeeds has removed what it found, and left nothing if
\* nothing crossed it.
THEOREM DisableRemovesAll == Spec => DisableRemoves
<1>1. AuthInv /\ [Next]_vars =>
        [\A c \in Calls :
           kind[c] = "disable" /\ result'[c] # result[c] /\ result'[c] = "ok" =>
             /\ found[c] \cap confirmed = {}
             /\ ~crossed => confirmed = {} /\ ~required]_vars
  <2> SUFFICES ASSUME AuthInv, Next, NEW c \in Calls,
                      kind[c] = "disable", result'[c] # result[c], result'[c] = "ok"
               PROVE  /\ found[c] \cap confirmed = {}
                      /\ ~crossed => confirmed = {} /\ ~required
    OBVIOUS
  <2>1. kind[c] # None /\ DisableInv(c) /\ RequestInv(c)
    BY TimeAssumption DEF AuthInv, Kinds
  <2>2. ~Ticketed(c) /\ ~Updated(c)
    BY <2>1 DEF Ticketed, Updated, RequestInv, Acting, InFlight, Methods
  <2>3. ~FetchFailed(c) /\ ~Fail(c) /\ ~Listed(c) /\ ~Deleted(c)
    BY DEF FetchFailed, Fail, Listed, Deleted, Return, AuthInv, TypeOK, Send, disable
  <2>4. SwitchedOff(c)
    BY <2>1, <2>2, <2>3, OnlyReturns
  <2>5. pc[c] = "switchOff" /\ reply[c] # None /\ InHand(c) = {}
    BY <2>4 DEF SwitchedOff, InHand
  <2> QED BY <2>1, <2>5 DEF DisableInv
<1> QED BY <1>1, AuthInvAlways, PTL DEF Spec, DisableRemoves

\* A returned status was true at most a cache lifetime and a request ago.
THEOREM StatusIsFresh == Spec => StatusFresh
<1>1. AuthInv /\ [Next]_vars =>
        [\A c \in Calls :
           result'[c] # result[c] =>
             /\ result'[c] = "on" => Enrolled \/ Recently
             /\ result'[c] = "off" /\ ~crossed => ~Enrolled \/ Recently]_vars
  <2> SUFFICES ASSUME AuthInv, Next, NEW c \in Calls, result'[c] # result[c],
                      result'[c] \in {"on", "off"}
               PROVE  /\ result'[c] = "on" => Enrolled \/ Recently
                      /\ result'[c] = "off" /\ ~crossed => ~Enrolled \/ Recently
    OBVIOUS
  <2>1. Hit(c) \/ Listed(c)
    <3>1. ~FetchFailed(c) /\ ~Fail(c) /\ ~Deleted(c) /\ ~SwitchedOff(c) /\ ~Ticketed(c) /\ ~Updated(c)
      BY DEF FetchFailed, Fail, Deleted, SwitchedOff, Ticketed, Updated, Return, AuthInv, TypeOK,
             disable
    <3> QED BY <3>1, OnlyReturns
  <2>2. /\ now \in Nat /\ changed \in Nat \cup {None} /\ sentAt[c] \in Nat
        /\ changed # None => changed <= now
        /\ None \notin Nat /\ TTL \in Nat /\ Timeout \in Nat
    BY TimeAssumption DEF AuthInv, TypeOK, StatusInv
  <2>3. CASE Hit(c)
    <3>1. /\ cache # None /\ now < cache.until /\ result'[c] = cache.status
          /\ cache.until \in Nat
      BY <2>3 DEF Hit, Cached, Return, AuthInv, TypeOK
    <3>2. /\ cache.status = "on" => Enrolled \/ (changed # None /\ cache.until <= changed + TTL + Timeout)
          /\ cache.status = "off" /\ ~crossed =>
               ~Enrolled \/ (changed # None /\ cache.until <= changed + TTL + Timeout)
      BY <3>1 DEF AuthInv, StatusInv
    <3> QED BY <2>2, <3>1, <3>2 DEF Recently
  <2>4. CASE Listed(c)
    <3>1. /\ pc[c] = "list" /\ reply[c] # None
          /\ result'[c] = "on" => reply[c] # {}
          /\ result'[c] = "off" => reply[c] = {}
      BY <2>4 DEF Listed, Return, AuthInv, TypeOK, Status
    <3>2. /\ reply[c] # {} => Enrolled \/ Since(sentAt[c])
          /\ reply[c] = {} => ~Enrolled \/ Since(sentAt[c])
      BY <3>1 DEF AuthInv, StatusInv
    <3>3. now <= sentAt[c] + Timeout
      BY <3>1 DEF AuthInv, RequestInv, InFlight
    <3> QED BY <2>2, <3>1, <3>2, <3>3 DEF Recently, Since
  <2> QED BY <2>1, <2>3, <2>4
<1> QED BY <1>1, AuthInvAlways, PTL DEF Spec, StatusFresh
=============================================================================
