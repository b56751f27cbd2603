----------------------------- MODULE ServiceToken -----------------------------
(***************************************************************************)
(* The Provider SDX API's own access token for the Provider API: requests  *)
(* that need it share one cached token and, when it is used up, one fetch  *)
(* of a new one.  A fetch is named by the request that starts it.          *)
(***************************************************************************)
EXTENDS Naturals, FiniteSets

CONSTANTS
  Requests,     \* calls to the Provider SDX API, past its guard
  Lives,        \* expires_in of the tokens the identity provider issues
  Margin,       \* the 60 s a cached token must have left
  Fallback,     \* the 300 s assumed of a token whose answer names no lifetime
  ExplicitUrl,  \* PROVIDER_SDX_API_TOKEN_URL is configured
  MaxClock,     \* bound on the clock
  None

ASSUME TokenTimes == Lives \subseteq Nat /\ Margin \in Nat /\ Fallback \in Nat
                     /\ MaxClock \in Nat
ASSUME TokenNames == None \notin Requests \cup Nat /\ ExplicitUrl \in BOOLEAN

VARIABLES
  now,       \* Date.now()
  endpoint,  \* providerApiTokenEndpoint is known
  cached,    \* providerApiAccessToken, or None
  shared,    \* providerApiTokenRequest: the fetch it settles with, or None
  fetch,     \* the fetches under way
  joined,    \* the fetch a waiting request awaits
  token,     \* the expiry of the token a request goes out with
  pc         \* where each request is

vars == <<now, endpoint, cached, shared, fetch, joined, token, pc>>

\* A token lives from issued for life, and told says that its answer names that
\* lifetime.  expiresAt is what the cache computes from the moment it reads the
\* answer; issued, life, told and read are history.
Tokens  == [issued: Nat, life: Nat, told: BOOLEAN, read: Nat, expiresAt: Nat]
Idle    == [stage |-> "none"]
Fetches == {Idle} \cup [stage: {"discover", "post"}]
             \cup [stage: {"issued"}, issued: Nat, life: Nat, told: BOOLEAN]
Served  == {"invalid", "failed", "relayed", "unauthorized", "unreachable", "lost"}
Pending == {"wait", "call"}

TypeOK ==
  /\ now \in Nat /\ endpoint \in BOOLEAN
  /\ cached \in Tokens \cup {None}
  /\ shared \in Requests \cup {None}
  /\ fetch \in [Requests -> Fetches]
  /\ joined \in [Requests -> Requests \cup {None}]
  /\ token \in [Requests -> Nat \cup {None}]
  /\ pc \in [Requests -> {"idle"} \cup Pending \cup Served]

Init ==
  /\ now = 0 /\ endpoint = ExplicitUrl
  /\ cached = None /\ shared = None
  /\ fetch = [f \in Requests |-> Idle]
  /\ joined = [r \in Requests |-> None]
  /\ token = [r \in Requests |-> None]
  /\ pc = [r \in Requests |-> "idle"]

UnderWay == {f \in Requests : fetch[f] # Idle}
-----------------------------------------------------------------------------
\* When the issuer, and the Provider API with it, holds a token to be expired.
Expiry(t) == t.issued + t.life

Fresh == cached # None /\ cached.expiresAt > now + Margin

\* providerApiTokenRequest ??= ...
Joins(r) == IF shared = None THEN r ELSE shared

\* A malformed subject, widget id or username is refused before any await.
Refuse(r) ==
  /\ pc[r] = "idle"
  /\ pc' = [pc EXCEPT ![r] = "invalid"]
  /\ UNCHANGED <<now, endpoint, cached, shared, fetch, joined, token>>

\* providerApiBearerToken with a cached token.
UseCached(r) ==
  /\ pc[r] = "idle" /\ Fresh
  /\ token' = [token EXCEPT ![r] = Expiry(cached)]
  /\ pc' = [pc EXCEPT ![r] = "call"]
  /\ UNCHANGED <<now, endpoint, cached, shared, fetch, joined>>

\* providerApiBearerToken without: await the shared fetch, or start it.
Await(r) ==
  /\ pc[r] = "idle" /\ ~Fresh
  /\ joined' = [joined EXCEPT ![r] = Joins(r)]
  /\ shared' = Joins(r)
  /\ fetch' =
       IF Joins(r) # r THEN fetch
       ELSE [fetch EXCEPT ![r] = [stage |-> IF endpoint THEN "post" ELSE "discover"]]
  /\ pc' = [pc EXCEPT ![r] = "wait"]
  /\ UNCHANGED <<now, endpoint, cached, token>>

\* getProviderApiTokenEndpoint: the discovery document has come.
Discover(f) ==
  /\ fetch[f].stage = "discover"
  /\ endpoint' = TRUE
  /\ fetch' = [fetch EXCEPT ![f].stage = "post"]
  /\ UNCHANGED <<now, cached, shared, joined, token, pc>>

\* The identity provider issues a token; its answer, with or without a numeric
\* expires_in, is on the way.
Issue(f) ==
  /\ fetch[f].stage = "post"
  /\ \E life \in Lives, told \in BOOLEAN :
       fetch' = [fetch EXCEPT ![f] =
                   [stage |-> "issued", issued |-> now, life |-> life, told |-> told]]
  /\ UNCHANGED <<now, endpoint, cached, shared, joined, token, pc>>

\* Mutant of Waiters: only the request that started the fetch is resumed.
Starter(f) == {f}

Waiters(f) == {r \in Requests : pc[r] = "wait" /\ joined[r] = f}

\* expiresIn of a fetched answer.
ExpiresIn(t) == IF t.told THEN t.life ELSE Fallback

\* What the cache keeps of the answer to f, dated by the given expiry.
Kept(f, expiresAt) ==
  [issued |-> fetch[f].issued, life |-> fetch[f].life, told |-> fetch[f].told,
   read |-> now, expiresAt |-> expiresAt]

\* Mutants of Remembered: the expiry is not computed, or not from expires_in.
Undated(f) == Kept(f, None)
DatedByFallback(f) == Kept(f, now + Fallback)

\* The cache dates the token from the moment its answer is read.
Remembered(f) == Kept(f, now + ExpiresIn(fetch[f]))

\* The fetch resolves: the token is cached, the shared promise cleared, and
\* every request awaiting it goes out with the token.
Resolve(f) ==
  /\ fetch[f].stage = "issued"
  /\ cached' = Remembered(f)
  /\ shared' = None
  /\ fetch' = [fetch EXCEPT ![f] = Idle]
  /\ token' = [r \in Requests |-> IF r \in Waiters(f) THEN Expiry(fetch[f]) ELSE token[r]]
  /\ pc' = [r \in Requests |-> IF r \in Waiters(f) THEN "call" ELSE pc[r]]
  /\ UNCHANGED <<now, endpoint, joined>>

\* Mutant of Cleared: .then instead of .finally, a rejection is kept.
NotCleared == shared

Cleared == None

\* The fetch rejects (no secret or URL, discovery or token request failed, no
\* access_token), and with it every request awaiting it.
Reject(f) ==
  /\ f \in UnderWay
  /\ shared' = Cleared
  /\ fetch' = [fetch EXCEPT ![f] = Idle]
  /\ pc' = [r \in Requests |-> IF r \in Waiters(f) THEN "failed" ELSE pc[r]]
  /\ UNCHANGED <<now, endpoint, cached, joined, token>>

\* providerRequest: the Provider API's status is relayed; an expired token gets
\* a 401 from its guard, and a failed connection is a 500.  Nothing is retried.
Call(r) ==
  /\ pc[r] = "call"
  /\ \E outcome \in
          {"unreachable", IF token[r] > now THEN "relayed" ELSE "unauthorized"} :
       pc' = [pc EXCEPT ![r] = outcome]
  /\ UNCHANGED <<now, endpoint, cached, shared, fetch, joined, token>>

Restart ==
  /\ endpoint' = ExplicitUrl /\ cached' = None /\ shared' = None
  /\ fetch' = [f \in Requests |-> Idle]
  /\ pc' = [r \in Requests |-> IF pc[r] \in Pending THEN "lost" ELSE pc[r]]
  /\ UNCHANGED <<now, joined, token>>

\* MaxClock bounds the clock.
Tick ==
  /\ now < MaxClock
  /\ now' = now + 1
  /\ UNCHANGED <<endpoint, cached, shared, fetch, joined, token, pc>>

Progress(f) == Discover(f) \/ Issue(f) \/ Resolve(f) \/ Reject(f)

Next ==
  \/ \E r \in Requests :
       Refuse(r) \/ UseCached(r) \/ Await(r) \/ Progress(r) \/ Call(r)
  \/ Restart \/ Tick

Spec == Init /\ [][Next]_vars

\* Outgoing HTTP calls return or fail, and continuations run.
Fairness == \A r \in Requests : WF_vars(Progress(r)) /\ WF_vars(Call(r))
FairSpec == Spec /\ Fairness
-----------------------------------------------------------------------------
(* Properties.                                                             *)

(* However many requests need a token at once, at most one fetch is under way. *)
OneFetch == Cardinality(UnderWay) <= 1

(* The shared promise is always that of a fetch under way: neither a settled   *)
(* token nor a failure is handed to a request that asks later.                 *)
SharedIsUnderWay == UnderWay = IF shared = None THEN {} ELSE {shared}

(* The safe half of EveryCallAnswered: what a request waits for is the shared   *)
(* fetch, which is under way; no request is left behind with a settled one.    *)
WaitersShare == \A r \in Requests : pc[r] = "wait" => joined[r] = shared /\ shared # None

(* The safe half of CachedTokenValid: the cached token is dated by the lifetime *)
(* its answer named, or the fallback, counted from when the answer was read.   *)
Dated == cached # None => cached.expiresAt = cached.read + ExpiresIn(cached)

(* A token whose answer came within the margin of its issue and named its       *)
(* lifetime, or that lives at least as long as the fallback that is then        *)
(* assumed of it, is never taken from the cache once its issuer holds it to be  *)
(* expired, although the cache counts its lifetime from the answer and not from *)
(* the issue.  Of a later answer, or one that names no lifetime and hides a     *)
(* shorter one, the code gives no such assurance.                               *)
CachedTokenValid ==
  [][\A r \in Requests :
       /\ pc[r] = "idle" /\ pc'[r] = "call"
       /\ cached.read <= cached.issued + Margin
       /\ cached.told \/ cached.life >= Fallback
       => token'[r] > now]_vars

(* Every request that waits for a token or for the Provider API is answered.   *)
EveryCallAnswered == \A r \in Requests : pc[r] \in Pending ~> pc[r] \in Served
=============================================================================
