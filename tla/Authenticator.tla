--------------------------- MODULE Authenticator ----------------------------
(***************************************************************************)
(* The Auth0 authenticator (server/internal/infrastructure/auth0): calls   *)
(* of one process share a management token, which is fetched again when    *)
(* it has an hour left, and a cache of each user's MFA status.  A call is  *)
(* a chain of HTTP requests; each is carried out by Auth0 some time after  *)
(* it was sent, may fail before or after that, and has a timeout.          *)
(*                                                                         *)
(* Only one user's enrolments are modelled: the cache has an entry per     *)
(* user, and users share nothing else but the token.  Enrolments that are  *)
(* not confirmed yet do not count, so they are not told from none.  A      *)
(* token is the time at which Auth0 ceases to accept it, 0 when there is   *)
(* none.                                                                   *)
(*                                                                         *)
(* The first needsFetchToken and the reads of a.token are not synchronised *)
(* with the writes in updateToken: while a token is being stored a reader  *)
(* sees either expiry, and the new token or Torn, whatever else the race   *)
(* yields (the old token, none, a mixture), which Auth0 does not accept.   *)
(***************************************************************************)
EXTENDS Naturals

CONSTANTS
    Calls,       \* calls, each with a goroutine of its own
    Enrollments, \* ids of the user's factors, each used once
    TTL,         \* mfaStatusCacheTTL
    Timeout,     \* of an HTTP request
    Margin,      \* how long a token must be valid to be used
    Lifetime,    \* of a new token
    Initially,   \* bound: the sets of confirmed enrolments to start from
    Left,        \* bound: what is left of the token that the process has fetched, 0 without one
    MaxTime,     \* bound of the clock
    Torn,
    None

\* The methods: GetMFAStatus, DisableMFA, EnableMFA and those of one request.
Kinds == {"status", "disable", "enable", "update"}

\* A call makes at most three requests with its token, and the token was at
\* most one request old when its life was reckoned.
ASSUME TimeAssumption ==
    /\ TTL \in Nat /\ Timeout \in Nat /\ MaxTime \in Nat
    /\ Margin \in Nat /\ Margin >= 4 * Timeout
    /\ Lifetime \in Nat /\ Lifetime > 4 * Timeout
    /\ Left \subseteq Nat /\ Initially \subseteq SUBSET Enrollments
    /\ None \notin Calls \cup Nat \cup Kinds /\ Torn \notin Nat /\ None # Torn

VARIABLES
    now,
    confirmed, \* Auth0: the confirmed enrolments
    deleted,   \* Auth0: those that were, and are not any more
    required,  \* Auth0: app_metadata.mfa_enabled
    changed,   \* when the user last became enrolled or ceased to be, None before
    crossed,   \* while a DisableMFA ran, a factor was confirmed or an EnableMFA ran
    token,     \* a.token
    expireAt,  \* a.expireAt
    holder,    \* of a.lock
    fetched,   \* the token its holder has been given, None before
    cache,     \* mfaStatusCache: the user's entry
    pc,        \* where each call is: the request it makes
    kind,      \* which method it is in
    sentAt,    \* when its request was sent
    tok,       \* the token its request carries
    reply,     \* the enrolments Auth0 has answered with, {} of other requests, None before
    toDelete,  \* enrolments that DisableMFA has yet to hear of
    failed,    \* one of its deletions has failed
    found,     \* what was confirmed when a DisableMFA began
    result     \* what the call has returned

auth0 == <<confirmed, deleted, required, changed, crossed>>
tokens == <<token, expireAt, holder, fetched>>
request == <<sentAt, tok, reply>>
disable == <<toDelete, failed, found>>
vars == <<now, auth0, tokens, cache, pc, kind, request, disable, result>>

InFlight == {"fetch", "list", "delete", "switchOff", "switchOn", "ticket", "update"}

Init ==
    /\ now = 0
    /\ confirmed \in Initially
    /\ deleted = {}
    /\ required = (confirmed # {})
    /\ changed = None
    /\ crossed = FALSE
    /\ token \in Left
    /\ expireAt \in IF token = 0 THEN {0} ELSE token..(token + Timeout)
    /\ holder = None
    /\ fetched = None
    /\ cache = None
    /\ pc = [c \in Calls |-> "idle"]
    /\ kind = [c \in Calls |-> None]
    /\ sentAt = [c \in Calls |-> 0]
    /\ tok = [c \in Calls |-> None]
    /\ reply = [c \in Calls |-> None]
    /\ toDelete = [c \in Calls |-> {}]
    /\ failed = [c \in Calls |-> FALSE]
    /\ found = [c \in Calls |-> {}]
    /\ result = [c \in Calls |-> None]

Goto(c, l) == pc' = [pc EXCEPT ![c] = l]

-----------------------------------------------------------------------------
\* The token.

\* Mutant: the margin is for one request and its own latency.
NeedsFetchForOneRequest(e) == e <= now + 2 * Timeout

\* needsFetchToken, of the expiry that is read.
NeedsFetch(e) == e <= now + Margin

Storing == holder # None /\ pc[holder] = "store"

\* What an unsynchronised read of a.expireAt may see.
SeenExpiry == {expireAt} \cup IF Storing THEN {now + Lifetime} ELSE {}

\* What reading a.token may give to call c.
SeenToken(c) == IF Storing /\ holder # c THEN {fetched, Torn} ELSE {token}

\* Request l is sent.
Send(c, l) ==
    /\ Goto(c, l)
    /\ sentAt' = [sentAt EXCEPT ![c] = now]
    /\ \E t \in SeenToken(c) : tok' = [tok EXCEPT ![c] = t]
    /\ reply' = [reply EXCEPT ![c] = None]

Return(c, r) ==
    /\ Goto(c, "over")
    /\ result' = [result EXCEPT ![c] = r]
    /\ kind' = [kind EXCEPT ![c] = None]
    /\ found' = [found EXCEPT ![c] = {}]
    /\ failed' = [failed EXCEPT ![c] = FALSE]
    /\ sentAt' = [sentAt EXCEPT ![c] = 0]
    /\ tok' = [tok EXCEPT ![c] = None]
    /\ reply' = [reply EXCEPT ![c] = None]

\* The first request of each method.
First(c) == CASE kind[c] = "status" -> "list"
              [] kind[c] = "disable" -> "list"
              [] kind[c] = "enable" -> "switchOn"
              [] kind[c] = "update" -> "update"

\* Mutant: entries do not expire.
CachedForever == cache # None

\* A status in the cache that has not expired.
Cached == cache # None /\ now < cache.until

\* GetMFAStatus finds the status in the cache.
Hit(c) ==
    /\ pc[c] = "idle" /\ Cached
    /\ Return(c, cache.status)
    /\ UNCHANGED <<now, auth0, tokens, cache, toDelete>>

\* A call begins that has to make requests.
Call(c, k) ==
    /\ pc[c] = "idle"
    /\ k = "status" => ~Cached
    /\ kind' = [kind EXCEPT ![c] = k]
    /\ found' = [found EXCEPT ![c] = IF k = "disable" THEN confirmed ELSE {}]
    /\ Goto(c, "check")
    /\ crossed' = (crossed \/ (k = "enable" /\ \E d \in Calls : kind[d] = "disable")
                           \/ (k = "disable" /\ \E d \in Calls : kind[d] = "enable"))
    /\ UNCHANGED <<now, confirmed, deleted, required, changed, tokens, cache, request, toDelete,
                   failed, result>>

\* updateToken without the lock,
Check(c) ==
    /\ pc[c] = "check"
    /\ \E e \in SeenExpiry :
         IF NeedsFetch(e) THEN Goto(c, "lock") /\ UNCHANGED request
                          ELSE Send(c, First(c))
    /\ UNCHANGED <<now, auth0, tokens, cache, kind, disable, result>>

\* Mutant: the expiry is not looked at again under the lock.
LockAndFetch(c) ==
    /\ pc[c] = "lock" /\ holder = None
    /\ Send(c, "fetch") /\ holder' = c
    /\ UNCHANGED <<now, auth0, token, expireAt, fetched, cache, kind, disable, result>>

\* and again with it.
Lock(c) ==
    /\ pc[c] = "lock" /\ holder = None
    /\ IF NeedsFetch(expireAt) THEN Send(c, "fetch") /\ holder' = c
                               ELSE Send(c, First(c)) /\ UNCHANGED holder
    /\ UNCHANGED <<now, auth0, token, expireAt, fetched, cache, kind, disable, result>>

\* The new token arrives,
Fetched(c) ==
    /\ pc[c] = "fetch" /\ fetched # None
    /\ Goto(c, "store")
    /\ UNCHANGED <<now, auth0, tokens, cache, kind, request, disable, result>>

\* Mutant: a failing fetch returns without unlocking.
FetchFailedLocked(c) ==
    /\ pc[c] = "fetch"
    /\ Return(c, "error")
    /\ fetched' = None
    /\ UNCHANGED <<now, auth0, token, expireAt, holder, cache, toDelete>>

\* or the call fails and unlocks.
FetchFailed(c) ==
    /\ pc[c] = "fetch"
    /\ Return(c, "error")
    /\ holder' = None /\ fetched' = None
    /\ UNCHANGED <<now, auth0, token, expireAt, cache, toDelete>>

\* Token and expiry are stored, a.lock is unlocked, and the first request uses
\* the token.
Store(c) ==
    /\ pc[c] = "store"
    /\ token' = fetched
    /\ expireAt' = now + Lifetime
    /\ holder' = None /\ fetched' = None
    /\ Goto(c, First(c))
    /\ sentAt' = [sentAt EXCEPT ![c] = now]
    /\ tok' = [tok EXCEPT ![c] = fetched]
    /\ UNCHANGED <<now, auth0, cache, kind, reply, disable, result>>

-----------------------------------------------------------------------------
\* Auth0, as the code uses it: a request that is carried out.
Enrolled == confirmed # {}

SetConfirmed(s) ==
    /\ confirmed' = s
    /\ changed' = IF (s # {}) # Enrolled THEN now ELSE changed

Answer(c, r) == reply' = [reply EXCEPT ![c] = r]

\* A token is issued,
Issue(c) ==
    /\ pc[c] = "fetch" /\ fetched = None
    /\ fetched' = now + Lifetime
    /\ UNCHANGED <<now, auth0, token, expireAt, holder, cache, pc, kind, request, disable, result>>

\* the enrolments are listed, app_metadata is patched, or something is done
\* that changes neither.
Serve(c) ==
    /\ tok[c] # Torn /\ reply[c] = None
    /\ \/ pc[c] = "list" /\ Answer(c, confirmed) /\ UNCHANGED auth0
       \/ /\ pc[c] \in {"switchOff", "switchOn"} /\ Answer(c, {})
          /\ required' = (pc[c] = "switchOn")
          /\ UNCHANGED <<confirmed, deleted, changed, crossed>>
       \/ pc[c] \in {"ticket", "update"} /\ Answer(c, {}) /\ UNCHANGED auth0
    /\ UNCHANGED <<now, tokens, cache, pc, kind, sentAt, tok, disable, result>>

\* The user completes an enrolment.
Confirm(e) ==
    /\ e \notin confirmed \cup deleted
    /\ SetConfirmed(confirmed \cup {e})
    /\ crossed' = (crossed \/ \E c \in Calls : kind[c] = "disable")
    /\ UNCHANGED <<now, deleted, required, tokens, cache, pc, kind, request, disable, result>>

-----------------------------------------------------------------------------
\* The methods.

\* Any request may fail, carried out or not.
Fail(c) ==
    /\ pc[c] \in InFlight \ {"fetch", "delete"}
    /\ Return(c, "error")
    /\ UNCHANGED <<now, auth0, tokens, cache, toDelete>>

Status(s) == IF s = {} THEN "off" ELSE "on"

CacheStatus(s) == cache' = [status |-> s, until |-> now + TTL]

\* GetMFAStatus has the enrolments.
Listed(c) ==
    /\ pc[c] = "list" /\ kind[c] = "status" /\ reply[c] # None
    /\ CacheStatus(Status(reply[c]))
    /\ Return(c, Status(reply[c]))
    /\ UNCHANGED <<now, auth0, tokens, toDelete>>

\* DisableMFA has them: all are deleted at once.
ListedToDelete(c) ==
    /\ pc[c] = "list" /\ kind[c] = "disable" /\ reply[c] # None
    /\ toDelete' = [toDelete EXCEPT ![c] = reply[c]]
    /\ Send(c, IF reply[c] = {} THEN "switchOff" ELSE "delete")
    /\ UNCHANGED <<now, auth0, tokens, cache, kind, failed, found, result>>

\* One deletion ends: carried out or not, and heard of or not.  Auth0 may call
\* it an error that an enrolment is gone already.
Delete(c, e) ==
    /\ pc[c] = "delete" /\ e \in toDelete[c]
    /\ toDelete' = [toDelete EXCEPT ![c] = @ \ {e}]
    /\ \/ /\ tok[c] # Torn
          /\ SetConfirmed(confirmed \ {e})
          /\ deleted' = deleted \cup {e}
          /\ UNCHANGED failed
       \/ /\ tok[c] # Torn
          /\ SetConfirmed(confirmed \ {e})
          /\ deleted' = deleted \cup {e}
          /\ failed' = [failed EXCEPT ![c] = TRUE]
       \/ /\ failed' = [failed EXCEPT ![c] = TRUE]
          /\ UNCHANGED <<confirmed, deleted, changed>>
    /\ UNCHANGED <<now, required, crossed, tokens, cache, pc, kind, request, found, result>>

\* Mutant: the errors of the deletions are only logged.
DeletedAnyhow(c) ==
    /\ pc[c] = "delete" /\ toDelete[c] = {}
    /\ Send(c, "switchOff")
    /\ UNCHANGED <<now, auth0, tokens, cache, kind, disable, result>>

\* The wait group is done.
Deleted(c) ==
    /\ pc[c] = "delete" /\ toDelete[c] = {}
    /\ IF failed[c] THEN Return(c, "error")
                    ELSE Send(c, "switchOff") /\ UNCHANGED <<kind, failed, found, result>>
    /\ UNCHANGED <<now, auth0, tokens, cache, toDelete>>

SwitchedOff(c) ==
    /\ pc[c] = "switchOff" /\ reply[c] # None
    /\ CacheStatus("off")
    /\ Return(c, "ok")
    /\ UNCHANGED <<now, auth0, tokens, toDelete>>

SwitchedOn(c) ==
    /\ pc[c] = "switchOn" /\ reply[c] # None
    /\ Send(c, "ticket")
    /\ UNCHANGED <<now, auth0, tokens, cache, kind, disable, result>>

\* EnableMFA has its ticket and forgets the cached status.
Ticketed(c) ==
    /\ pc[c] = "ticket" /\ reply[c] # None
    /\ cache' = None
    /\ Return(c, "ok")
    /\ UNCHANGED <<now, auth0, tokens, toDelete>>

\* UpdateUser, ResendVerificationEmail and RegenerateMFARecoveryCode are one
\* request each and no entry of the cache.
Updated(c) ==
    /\ pc[c] = "update" /\ reply[c] # None
    /\ Return(c, "ok")
    /\ UNCHANGED <<now, auth0, tokens, cache, toDelete>>

\* Time passes while calls wait for Auth0 or the lock, and no request takes
\* longer than its timeout; what a call does by itself takes no time.
Tick ==
    /\ now < MaxTime
    /\ \A c \in Calls :
         /\ pc[c] \notin {"check", "store"}
         /\ pc[c] \in InFlight => now < sentAt[c] + Timeout
    /\ now' = now + 1
    /\ UNCHANGED <<auth0, tokens, cache, pc, kind, request, disable, result>>

\* A call goes on, Auth0 answering or not.
Proceed(c) ==
    \/ Check(c) \/ Lock(c) \/ Fetched(c) \/ FetchFailed(c) \/ Store(c) \/ Fail(c)
    \/ Listed(c) \/ ListedToDelete(c) \/ Deleted(c) \/ SwitchedOff(c)
    \/ SwitchedOn(c) \/ Ticketed(c) \/ Updated(c)
    \/ \E e \in Enrollments : Delete(c, e)

Next ==
    \/ \E c \in Calls : Issue(c) \/ Serve(c) \/ Hit(c) \/ Proceed(c) \/ \E k \in Kinds : Call(c, k)
    \/ \E e \in Enrollments : Confirm(e)
    \/ Tick

Spec == Init /\ [][Next]_vars

\* Every request ends, if only by its timeout, and goroutines go on.
FairSpec == Spec /\ \A c \in Calls : WF_vars(Proceed(c))

-----------------------------------------------------------------------------
\* What the variables hold.
TypeOK ==
    /\ now \in 0..MaxTime
    /\ confirmed \subseteq Enrollments /\ deleted \subseteq Enrollments
    /\ required \in BOOLEAN /\ crossed \in BOOLEAN
    /\ changed \in Nat \cup {None}
    /\ token \in Nat /\ expireAt \in Nat
    /\ holder \in Calls \cup {None} /\ fetched \in Nat \cup {None}
    /\ cache \in [status : {"on", "off"}, until : Nat] \cup {None}
    /\ pc \in [Calls -> InFlight \cup {"idle", "check", "lock", "store", "over"}]
    /\ kind \in [Calls -> Kinds \cup {None}]
    /\ sentAt \in [Calls -> Nat]
    /\ tok \in [Calls -> Nat \cup {Torn, None}]
    /\ reply \in [Calls -> (SUBSET Enrollments) \cup {None}]
    /\ toDelete \in [Calls -> SUBSET Enrollments]
    /\ failed \in [Calls -> BOOLEAN]
    /\ found \in [Calls -> SUBSET Enrollments]
    /\ result \in [Calls -> {"on", "off", "ok", "error", None}]

\* The inductive invariant.  Requests are younger than their timeout, and the
\* lock is held from the fetch of a token until it is stored;
Held == {"fetch", "store"}
Acting == InFlight \cup {"check", "lock", "store"}

\* the methods whose calls may be at l;
Methods(l) == CASE l = "list" -> {"status", "disable"}
                [] l \in {"delete", "switchOff"} -> {"disable"}
                [] l \in {"switchOn", "ticket"} -> {"enable"}
                [] l = "update" -> {"update"}
                [] OTHER -> Kinds

RequestInv(c) ==
    /\ kind[c] \in IF pc[c] \in Acting THEN Methods(pc[c]) ELSE {None}
    /\ pc[c] \in InFlight \cup {"store"} => sentAt[c] <= now /\ now <= sentAt[c] + Timeout
    /\ holder = c <=> pc[c] \in Held
    /\ pc[c] \in Held => expireAt <= now + Margin
    /\ pc[c] \in Held => reply[c] = None
    /\ pc[c] = "store" => fetched # None
    /\ pc[c] \in Held /\ fetched # None =>
         fetched <= now + Lifetime /\ sentAt[c] + Lifetime <= fetched

\* the stored expiry is at most a request too late;
ExpiryInv ==
    /\ token <= expireAt /\ expireAt <= token + Timeout
    /\ holder = None => fetched = None

\* a token lasts for the request it is in and for those that are to follow;
TimeNeeded(c) == CASE pc[c] = "list" /\ kind[c] = "disable" -> 3 * Timeout
                   [] pc[c] \in {"delete", "switchOn"} -> 2 * Timeout
                   [] OTHER -> Timeout

CurrentToken == IF Storing THEN fetched ELSE token

LastsInv(c) ==
    pc[c] \in InFlight \ {"fetch"} =>
      /\ CurrentToken > sentAt[c] + TimeNeeded(c)
      /\ tok[c] # Torn => tok[c] \in Nat /\ tok[c] > sentAt[c] + TimeNeeded(c)

\* what a DisableMFA has not yet deleted it still has in hand;
InHand(c) == CASE pc[c] = "list" /\ reply[c] # None -> reply[c]
              [] pc[c] = "delete" /\ ~failed[c] -> toDelete[c]
              [] pc[c] = "switchOff" -> {}
              [] OTHER -> Enrollments

DisableInv(c) ==
    kind[c] = "disable" =>
      /\ found[c] \subseteq confirmed \cup deleted
      /\ found[c] \cap confirmed \subseteq InHand(c)
      /\ ~crossed => /\ confirmed \subseteq InHand(c)
                     /\ \A d \in Calls : kind[d] # "enable"
                     /\ pc[c] = "switchOff" /\ reply[c] # None => ~required

\* and an answer, or an entry of the cache, says what was so when it was made.
Since(t) == changed # None /\ t <= changed

StatusInv ==
    /\ confirmed \cap deleted = {}
    /\ changed # None => changed <= now
    /\ \A c \in Calls :
         pc[c] = "list" /\ reply[c] # None =>
           /\ reply[c] # {} => Enrolled \/ Since(sentAt[c])
           /\ reply[c] = {} => ~Enrolled \/ Since(sentAt[c])
    /\ cache # None =>
         /\ cache.until <= now + TTL
         /\ cache.status = "on" => Enrolled \/ (changed # None /\ cache.until <= changed + TTL + Timeout)
         /\ cache.status = "off" /\ ~crossed =>
               ~Enrolled \/ (changed # None /\ cache.until <= changed + TTL + Timeout)

AuthInv ==
    /\ TypeOK /\ ExpiryInv /\ StatusInv
    /\ \A c \in Calls : RequestInv(c) /\ LastsInv(c) /\ DisableInv(c)

\* No request reaches Auth0 with a token that has expired meanwhile, by
\* whichever call and however long ago it was fetched: the token check, the
\* delays of the requests after it and the latency of the fetch are covered by
\* the margin.  Torn reads are the exception.
GoodToken ==
    \A c \in Calls :
      pc[c] \in InFlight \ {"fetch"} /\ tok[c] # Torn => now < tok[c]

\* Calls that need a token at the same time fetch one: a token is replaced
\* only when it is within the margin of its expiry.
OneFetch == [][token' # token => token <= now + Margin]_vars

\* A status that GetMFAStatus returns was true at most a cache lifetime and a
\* request ago, whatever fill, DisableMFA and EnableMFA raced for the entry;
\* unless the user was enrolling while a DisableMFA ran.
Recently == changed # None /\ now <= changed + TTL + Timeout

StatusFresh ==
    [][\A c \in Calls :
         result'[c] # result[c] =>
           /\ result'[c] = "on" => Enrolled \/ Recently
           /\ result'[c] = "off" /\ ~crossed => ~Enrolled \/ Recently]_vars

\* When DisableMFA succeeds, nothing is left of what was confirmed when it
\* began; and if neither enrolling nor EnableMFA crossed it, MFA is off.
DisableRemoves ==
    [][\A c \in Calls :
         kind[c] = "disable" /\ result'[c] # result[c] /\ result'[c] = "ok" =>
           /\ found[c] \cap confirmed = {}
           /\ ~crossed => confirmed = {} /\ ~required]_vars

\* Every call returns, also those that queue for the lock behind failing
\* fetches.
CallsReturn == \A c \in Calls : pc[c] = "check" ~> pc[c] = "over"
=============================================================================
