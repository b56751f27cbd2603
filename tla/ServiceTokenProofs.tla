-------------------------- MODULE ServiceTokenProofs --------------------------
(* Theorems about ServiceToken, for every number of requests, every token    *)
(* lifetime and every margin.                                                *)
EXTENDS ServiceToken, FiniteSetTheorems, TLAPS

(* A fetch is under way when it has a stage other than "none".               *)
LEMMA StageUnderWay ==
  ASSUME TypeOK, NEW f \in Requests
  PROVE  f \in UnderWay <=> fetch[f].stage # "none"
BY DEF TypeOK, UnderWay, Fetches, Idle

(* Every step keeps the types and the link between the shared promise and    *)
(* the fetch under way.                                                      *)
LEMMA NextShared ==
  ASSUME TypeOK, SharedIsUnderWay, [Next]_vars
  PROVE  TypeOK' /\ SharedIsUnderWay'
<1>. USE TokenTimes, TokenNames
<1>1. ASSUME NEW r \in Requests, Refuse(r) \/ UseCached(r) \/ Call(r)
      PROVE  TypeOK' /\ SharedIsUnderWay'
  <2>1. UNCHANGED <<fetch, shared>>
    BY <1>1 DEF Refuse, UseCached, Call
  <2>2. SharedIsUnderWay'
    BY <2>1 DEF SharedIsUnderWay, UnderWay
  <2>3. TypeOK'
    BY <1>1 DEF Refuse, UseCached, Call, TypeOK, Pending, Served, Tokens, Fresh, Expiry
  <2>4. QED  BY <2>2, <2>3
<1>2. ASSUME NEW r \in Requests, Await(r)
      PROVE  TypeOK' /\ SharedIsUnderWay'
  <2>1. TypeOK'
    BY <1>2 DEF Await, TypeOK, Joins, Pending, Fetches
  <2>2. CASE shared = None
    <3>1. /\ fetch' = [fetch EXCEPT ![r] =
                         [stage |-> IF endpoint THEN "post" ELSE "discover"]]
          /\ shared' = r
      BY <1>2, <2>2 DEF Await, Joins
    <3>2. UnderWay' = UnderWay \cup {r}
      BY <3>1 DEF UnderWay, TypeOK, Idle
    <3>3. QED  BY <2>1, <2>2, <3>1, <3>2 DEF SharedIsUnderWay
  <2>3. CASE shared # None
    <3>1. r \in UnderWay => r = shared
      BY <2>3 DEF SharedIsUnderWay
    <3>2. CASE shared # r
      BY <1>2, <2>1, <2>3, <3>2 DEF Await, Joins, SharedIsUnderWay, UnderWay
    <3>3. CASE shared = r
      <4>1. /\ fetch' = [fetch EXCEPT ![r] =
                           [stage |-> IF endpoint THEN "post" ELSE "discover"]]
            /\ shared' = r
        BY <1>2, <3>3 DEF Await, Joins
      <4>2. UnderWay' = UnderWay \cup {r}
        BY <4>1 DEF UnderWay, TypeOK, Idle
      <4>3. QED  BY <2>1, <3>3, <4>1, <4>2 DEF SharedIsUnderWay
    <3>4. QED  BY <3>2, <3>3
  <2>4. QED  BY <2>2, <2>3
<1>3. ASSUME NEW f \in Requests, Discover(f) \/ Issue(f)
      PROVE  TypeOK' /\ SharedIsUnderWay'
  <2>1. fetch[f].stage \in {"discover", "post"}
    BY <1>3 DEF Discover, Issue
  <2>2. f \in UnderWay /\ fetch[f] \in [stage: {"discover", "post"}]
    BY <2>1, StageUnderWay DEF TypeOK, Fetches, Idle
  <2>3. PICK x \in Fetches \ {Idle} : fetch' = [fetch EXCEPT ![f] = x]
    <3>1. CASE Discover(f)
      BY <2>2, <3>1 DEF Discover, Fetches, Idle
    <3>2. CASE Issue(f)
      <4>1. PICK life \in Lives, told \in BOOLEAN :
              fetch' = [fetch EXCEPT ![f] = [stage |-> "issued", issued |-> now,
                                             life |-> life, told |-> told]]
        BY <3>2 DEF Issue
      <4>2. now \in Nat /\ life \in Nat
        BY DEF TypeOK
      <4>3. [stage |-> "issued", issued |-> now, life |-> life, told |-> told]
              \in Fetches \ {Idle}
        BY <4>2 DEF Fetches, Idle
      <4>4. QED  BY <4>1, <4>3
    <3>3. QED  BY <1>3, <3>1, <3>2
  <2>4. UnderWay' = UnderWay
    BY <2>2, <2>3 DEF UnderWay, TypeOK
  <2>5. QED  BY <1>3, <2>3, <2>4 DEF Discover, Issue, TypeOK, SharedIsUnderWay
<1>4. ASSUME NEW f \in Requests, Resolve(f) \/ Reject(f)
      PROVE  TypeOK' /\ SharedIsUnderWay'
  <2>1. f \in UnderWay
    BY <1>4, StageUnderWay DEF Resolve, Reject
  <2>2. UnderWay = {f}
    BY <2>1 DEF SharedIsUnderWay
  <2>3. fetch' = [fetch EXCEPT ![f] = Idle] /\ shared' = None
    BY <1>4 DEF Resolve, Reject, Cleared
  <2>4. UnderWay' = {}
    BY <2>2, <2>3 DEF UnderWay, TypeOK
  <2>5. TypeOK'
    <3>1. CASE Reject(f)
      BY <3>1 DEF Reject, TypeOK, Cleared, Fetches, Served, Pending
    <3>2. CASE Resolve(f)
      <4>1. /\ fetch[f].issued \in Nat /\ fetch[f].life \in Nat
            /\ fetch[f].told \in BOOLEAN
        BY <3>2 DEF Resolve, TypeOK, Fetches, Idle
      <4>2. ExpiresIn(fetch[f]) \in Nat /\ Expiry(fetch[f]) \in Nat
        BY <4>1 DEF ExpiresIn, Expiry
      <4>3. cached' \in Tokens
        BY <3>2, <4>1, <4>2 DEF Resolve, Remembered, Kept, Tokens, TypeOK
      <4>4. QED  BY <3>2, <4>2, <4>3 DEF Resolve, TypeOK, Fetches, Pending
    <3>3. QED  BY <1>4, <3>1, <3>2
  <2>6. QED  BY <2>3, <2>4, <2>5 DEF SharedIsUnderWay
<1>5. CASE Restart \/ Tick \/ UNCHANGED vars
  <2>1. CASE Restart
    <3>1. UnderWay' = {} /\ shared' = None
      BY <2>1 DEF Restart, UnderWay
    <3>2. TypeOK'
      BY <2>1 DEF Restart, TypeOK, Fetches, Served, Pending
    <3>3. QED  BY <3>1, <3>2 DEF SharedIsUnderWay
  <2>2. CASE Tick \/ UNCHANGED vars
    BY <2>2 DEF Tick, vars, TypeOK, SharedIsUnderWay, UnderWay
  <2>3. QED  BY <1>5, <2>1, <2>2
<1>6. QED  BY <1>1, <1>2, <1>3, <1>4, <1>5 DEF Next, Progress

(* The shared promise is always that of the one fetch under way.             *)
THEOREM SharedIsUnderWayAlways == Spec => [](TypeOK /\ SharedIsUnderWay)
<1>1. Init => TypeOK /\ SharedIsUnderWay
  <2>. SUFFICES ASSUME Init PROVE TypeOK /\ SharedIsUnderWay
    OBVIOUS
  <2>1. UnderWay = {}
    BY DEF Init, UnderWay
  <2>2. QED
    BY <2>1, TokenNames DEF Init, TypeOK, SharedIsUnderWay, Fetches
<1>2. TypeOK /\ SharedIsUnderWay /\ [Next]_vars => (TypeOK /\ SharedIsUnderWay)'
  BY NextShared
<1>3. QED  BY <1>1, <1>2, PTL DEF Spec

(* Requests, the cached token and the fetches keep their types.              *)
THEOREM TypeCorrect == Spec => []TypeOK
  BY SharedIsUnderWayAlways, PTL

(* However many requests need a token at once, one fetch serves them all.    *)
THEOREM OneFetchAlways == Spec => []OneFetch
<1>1. SharedIsUnderWay => OneFetch
  <2>1. CASE UnderWay = {}
    BY <2>1, FS_EmptySet DEF OneFetch
  <2>2. CASE UnderWay = {shared}
    <3>1. Cardinality({shared}) = 1
      BY FS_Singleton
    <3>2. QED  BY <2>2, <3>1 DEF OneFetch
  <2>3. QED  BY <2>1, <2>2 DEF SharedIsUnderWay
<1>2. QED  BY SharedIsUnderWayAlways, <1>1, PTL

(* Every step keeps the cached token dated from when its answer was read.    *)
LEMMA NextDated ==
  ASSUME TypeOK, Dated, [Next]_vars
  PROVE  Dated'
<1>1. ASSUME NEW f \in Requests, Resolve(f) PROVE Dated'
  <2>1. /\ cached'.read = now
        /\ cached'.expiresAt = now + ExpiresIn(fetch[f])
        /\ cached'.told = fetch[f].told /\ cached'.life = fetch[f].life
    BY <1>1 DEF Resolve, Remembered, Kept
  <2>2. QED  BY <2>1 DEF Dated, ExpiresIn
<1>2. CASE UNCHANGED cached \/ cached' = None
  BY <1>2 DEF Dated, ExpiresIn
<1>3. QED
  BY <1>1, <1>2
  DEF Next, Progress, Refuse, UseCached, Await, Call, Discover, Issue, Reject, Restart,
      Tick, vars

(* The cached token is dated by the lifetime it was given, or assumed to have, *)
(* from the moment its answer was read.                                      *)
THEOREM DatedAlways == Spec => []Dated
<1>1. Init => Dated
  BY DEF Init, Dated
<1>2. TypeOK /\ Dated /\ [Next]_vars => Dated'
  BY NextDated
<1>3. QED  BY <1>1, <1>2, TypeCorrect, PTL DEF Spec

(* A token that came in time, and whose lifetime was named or is no shorter  *)
(* than the fallback, is never taken from the cache after its expiry,        *)
(* whatever the lifetimes, the margin and the fallback are.                  *)
THEOREM CachedTokenValidAlways == Spec => CachedTokenValid
<1>1. ASSUME TypeOK, Dated, [Next]_vars, NEW r \in Requests,
             pc[r] = "idle", pc'[r] = "call",
             cached.read <= cached.issued + Margin,
             cached.told \/ cached.life >= Fallback
      PROVE  token'[r] > now
  <2>1. UseCached(r)
    BY <1>1
    DEF TypeOK, Next, Progress, Refuse, UseCached, Await, Call, Discover, Issue, Resolve,
        Reject, Restart, Tick, vars, Waiters, Pending
  <2>2. /\ cached # None /\ cached \in Tokens
        /\ cached.expiresAt > now + Margin
        /\ token'[r] = Expiry(cached)
    BY <1>1, <2>1 DEF UseCached, Fresh, TypeOK
  <2>3. ExpiresIn(cached) \in Nat /\ ExpiresIn(cached) <= cached.life
    BY <1>1, <2>2, TokenTimes DEF ExpiresIn, Tokens
  <2>4. cached.read + ExpiresIn(cached) > now + Margin
    BY <1>1, <2>2 DEF Dated
  <2>5. cached.issued + cached.life > now
    BY <1>1, <2>2, <2>3, <2>4, TokenTimes DEF Tokens, TypeOK
  <2>6. QED  BY <2>2, <2>5 DEF Expiry
<1>2. TypeOK /\ Dated /\ [Next]_vars =>
        [\A r \in Requests :
           /\ pc[r] = "idle" /\ pc'[r] = "call"
           /\ cached.read <= cached.issued + Margin
           /\ cached.told \/ cached.life >= Fallback
           => token'[r] > now]_vars
  BY <1>1
<1>3. QED  BY TypeCorrect, DatedAlways, <1>2, PTL DEF Spec, CachedTokenValid

(* Every step keeps the requests that wait with the one fetch under way.     *)
LEMMA NextWaiters ==
  ASSUME TypeOK, SharedIsUnderWay, WaitersShare, [Next]_vars
  PROVE  WaitersShare'
<1>. USE TokenNames
<1>1. ASSUME NEW r \in Requests, Refuse(r) \/ UseCached(r) \/ Call(r)
      PROVE  WaitersShare'
  <2>1. /\ UNCHANGED <<joined, shared>> /\ pc'[r] # "wait"
        /\ \A q \in Requests \ {r} : pc'[q] = pc[q]
    BY <1>1 DEF Refuse, UseCached, Call, TypeOK
  <2>2. QED  BY <2>1 DEF WaitersShare
<1>2. ASSUME NEW r \in Requests, Await(r) PROVE WaitersShare'
  <2>1. /\ joined'[r] = shared' /\ shared' # None
        /\ \A q \in Requests \ {r} : pc'[q] = pc[q] /\ joined'[q] = joined[q]
        /\ shared # None => shared' = shared
    BY <1>2 DEF Await, Joins, TypeOK
  <2>2. QED  BY <2>1 DEF WaitersShare
<1>3. ASSUME NEW f \in Requests, Discover(f) \/ Issue(f) PROVE WaitersShare'
  BY <1>3 DEF Discover, Issue, WaitersShare
<1>4. ASSUME NEW f \in Requests, Resolve(f) \/ Reject(f) PROVE WaitersShare'
  <2>1. f = shared
    BY <1>4, StageUnderWay DEF Resolve, Reject, SharedIsUnderWay
  <2>2. \A r \in Requests : pc[r] = "wait" => r \in Waiters(f)
    BY <2>1 DEF WaitersShare, Waiters
  <2>3. \A r \in Requests : pc'[r] # "wait"
    BY <1>4, <2>2 DEF Resolve, Reject
  <2>4. QED  BY <2>3 DEF WaitersShare
<1>5. CASE Restart
  BY <1>5 DEF Restart, WaitersShare, Pending
<1>6. CASE Tick \/ UNCHANGED vars
  BY <1>6 DEF Tick, vars, WaitersShare
<1>7. QED  BY <1>1, <1>2, <1>3, <1>4, <1>5, <1>6 DEF Next, Progress

(* No request waits for a fetch that was settled, replaced or lost: whatever *)
(* it waits for is the shared promise, which is that of a fetch under way.   *)
THEOREM WaitersShareAlways == Spec => []WaitersShare
<1>1. Init => WaitersShare
  BY DEF Init, WaitersShare
<1>2. TypeOK /\ SharedIsUnderWay /\ WaitersShare /\ [Next]_vars => WaitersShare'
  BY NextWaiters
<1>3. QED  BY <1>1, <1>2, SharedIsUnderWayAlways, PTL DEF Spec
=============================================================================
