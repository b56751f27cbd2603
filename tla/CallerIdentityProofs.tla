------------------------ MODULE CallerIdentityProofs ------------------------
(* Theorems about CallerIdentity, for any people, names and clients and for  *)
(* any tokens of the shapes TokenShapes allows.                              *)
EXTENDS CallerIdentity, TLAPS

\* What kind of token one is follows from its holder, in every shape.
LEMMA Shapes ==
  ASSUME NEW t \in Tokens
  PROVE  /\ t \in Token /\ t.claims \in Claims /\ ~Disagree(t.claims)
         /\ t.holder \in Users =>
              ~IsClientToken(t.claims) /\ t.claims.sub = t.holder
         /\ t.holder \in Clients =>
              IsClientToken(t.claims) /\ ClientId(t.claims) = t.holder
<1>. DEFINE c == t.claims
<1>1. t \in Token /\ c \in Claims
  BY TokensAssumption DEF Token
<1>2. CASE t.holder \in Users
  <2>1. /\ c.sub = t.holder /\ ~c.grant /\ c.client_id = None
        /\ c.azp \in Clients \cup {None}
        /\ \A k \in Clients : c.preferred_username # ServiceAccount[k]
    BY <1>2, TokenShapes, IdentityNames
  <2>2. ~IsClientToken(c)
    BY <2>1 DEF IsClientToken, ClientId, FirstOf
  <2>3. ~Disagree(c)
    BY <2>1 DEF Disagree
  <2>4. QED  BY <1>1, <1>2, <2>1, <2>2, <2>3, IdentityNames
<1>3. CASE t.holder \in Clients
  <2>1. /\ c.azp \in {t.holder, None} /\ c.client_id \in {t.holder, None}
        /\ c.azp # None \/ c.client_id # None
        /\ \/ c.grant
           \/ c.client_id # None
           \/ c.preferred_username = ServiceAccount[t.holder]
    BY <1>3, TokenShapes, IdentityNames
  <2>2. t.holder # None /\ ServiceAccount[t.holder] \in Names
    BY <1>3, IdentityNames
  <2>3. ClientId(c) = t.holder /\ ~Disagree(c)
    BY <2>1, <2>2 DEF ClientId, FirstOf, Disagree
  <2>4. IsClientToken(c)
    BY <2>1, <2>2, <2>3 DEF IsClientToken
  <2>5. QED  BY <1>1, <1>3, <2>3, <2>4, IdentityNames
<1>4. QED  BY <1>1, <1>2, <1>3 DEF Token

LEMMA UsernameType ==
  ASSUME NEW c \in Claims
  PROVE  /\ UsernameFromClaims(c) \in Text /\ UsernameFor(c) \in Text
         /\ c.sub # None => UsernameFor(c) # None
  BY DEF Claims, UsernameFromClaims, UsernameFor, FirstOf

\* A caller the guard lets through has a subject and a name.
LEMMA CallerType ==
  ASSUME NEW o \in Onward, ProviderRefusal(o) = None
  PROVE  EffectiveCaller(o) \in Callers
<1>1. o.token \in Tokens /\ o.subject \in Text /\ o.username \in Text
  BY DEF Onward, Header
<1>2. o.token.claims \in Claims
  BY <1>1, Shapes
<1>3. CASE IsClientToken(o.token.claims)
  <2>1. ~HeaderMissing(o)
    BY <1>3, IdentityNames DEF ProviderRefusal, ValidAtProvider, Codes
  <2>2. QED  BY <1>1, <1>3, <2>1 DEF HeaderMissing, EffectiveCaller, Callers
<1>4. CASE ~IsClientToken(o.token.claims)
  <2>1. o.token.claims.sub # None /\ UsernameFromClaims(o.token.claims) # None
    BY <1>4, IdentityNames DEF ProviderRefusal, ValidAtProvider, Codes
  <2>2. QED
    BY <1>2, <1>4, <2>1, UsernameType DEF EffectiveCaller, Callers, Claims
<1>5. QED  BY <1>3, <1>4

\* What the Provider SDX API conveys passes the Provider API's guard.
LEMMA ConveyedPasses ==
  ASSUME NEW o \in Onward, NEW c \in Claims, Conveys(o, c)
  PROVE  /\ ProviderRefusal(o) \in {None, 401}
         /\ ProviderRefusal(o) = None \/ o.token.expired
         /\ EffectiveCaller(o).subject = c.sub
<1>1. o.token \in Tokens /\ o.token.holder \in Clients
  BY IdentityNames DEF Onward, Conveys
<1>2. /\ IsClientToken(o.token.claims) /\ ~Disagree(o.token.claims)
      /\ ClientId(o.token.claims) = SdxClient
  BY <1>1, Shapes DEF Conveys
<1>3. FirstOf(ClientId(o.token.claims), o.token.claims.sub, None) = SdxClient
  BY <1>2, IdentityNames DEF FirstOf
<1>4. SdxClient # None /\ ClientAllowed(SdxClient)
  BY IdentityNames, SetupAssumption DEF ClientAllowed
<1>5. ~HeaderMissing(o)
  BY UsernameType DEF Conveys, HeaderMissing
<1>6. ProviderRefusal(o) = IF o.token.expired THEN 401 ELSE None
  BY <1>1, <1>2, <1>3, <1>4, <1>5 DEF ProviderRefusal, ValidAtProvider
<1>7. QED  BY <1>2, <1>6 DEF Conveys, EffectiveCaller

LEMMA RefusalTypes ==
  ASSUME NEW r, NEW o
  PROVE  SdxRefusal(r) \in Codes \cup {None} /\ ProviderRefusal(o) \in Codes \cup {None}
  BY DEF SdxRefusal, ValidAtSdx, ProviderRefusal, ValidAtProvider, Codes

\* Each step keeps the types and what its stage knows.
LEMMA NextStages ==
  ASSUME TypeOK, StagesOK, [Next]_vars
  PROVE  TypeOK' /\ StagesOK'
<1>. USE IdentityNames, NoneAssumption DEF Codes, Faults
<1>1. CASE CallSdx
  <2>1. PICK r \in Requests : request' = r /\ r.to = "sdx"
    BY <1>1 DEF CallSdx
  <2>2. QED  BY <1>1, <2>1 DEF CallSdx, TypeOK, StagesOK, Stages
<1>2. CASE CallProvider
  <2>1. PICK r \in Requests, subject \in Users \cup {None},
             username \in (Names \ Unsendable) \cup {None} :
          /\ request' = r /\ r.to = "provider"
          /\ onward' = [token |-> r.token, subject |-> subject,
                        username |-> username, named |-> r.named]
    BY <1>2 DEF CallProvider
  <2>2. onward' \in Onward
    BY <2>1 DEF Onward, Requests, Header, Text
  <2>3. request'.to = "provider"
    BY <2>1
  <2>4. /\ stage = "start" /\ stage' = "provider"
        /\ UNCHANGED <<caller, fault, status>>
    BY <1>2 DEF CallProvider
  <2>5. TypeOK'
    BY <2>1, <2>2, <2>4 DEF TypeOK, Stages
  <2>6. QED  BY <2>1, <2>2, <2>3, <2>4, <2>5 DEF StagesOK, TypeOK
<1>3. CASE SdxGuard
  <2>1. CASE SdxRefusal(request) # None /\ Refuse(SdxRefusal(request))
    <3>1. SdxRefusal(request) \in Codes
      BY <2>1, RefusalTypes
    <3>2. QED  BY <1>3, <2>1, <3>1 DEF SdxGuard, Refuse, TypeOK, StagesOK, Stages
  <2>2. CASE /\ SdxRefusal(request) = None /\ stage' = "forward"
             /\ UNCHANGED <<request, onward, caller, fault, status>>
    BY <1>3, <2>2 DEF SdxGuard, TypeOK, StagesOK, Stages
  <2>3. CASE Fail("keys", 401)
    BY <1>3, <2>3 DEF SdxGuard, Fail, TypeOK, StagesOK, Stages
  <2>4. QED  BY <1>3, <2>1, <2>2, <2>3 DEF SdxGuard
<1>4. CASE Forward
  <2>. DEFINE c == request.token.claims
  <2>1. request \in Requests /\ stage = "forward" /\ c \in Claims
    <3>1. request \in Requests /\ stage = "forward"
      BY <1>4 DEF Forward, StagesOK, TypeOK
    <3>2. QED  BY <3>1, Shapes DEF Requests
  <2>2. CASE stage' = "done"
    <3>1. /\ UNCHANGED <<request, onward, caller>>
          /\ fault' \in Faults \cup {None} /\ status' \in {500, 502}
      BY <1>4, <2>2 DEF Forward, NoServiceToken, Fail, Refuse, TypeOK
    <3>2. QED  BY <2>1, <2>2, <3>1 DEF TypeOK, StagesOK, Stages
  <2>3. CASE stage' # "done"
    <3>1. PICK t \in Tokens :
            /\ t.holder = SdxClient
            /\ onward' = [token |-> t, subject |-> c.sub,
                          username |-> UsernameFor(c), named |-> c.sub]
      BY <1>4, <2>3 DEF Forward, NoServiceToken, Fail, Refuse
    <3>2. /\ stage' = "provider" /\ UNCHANGED <<request, caller, fault, status>>
      BY <1>4, <2>3 DEF Forward, NoServiceToken, Fail, Refuse
    <3>3. onward' \in Onward
      BY <2>1, <3>1, UsernameType DEF Onward, Header, Claims
    <3>4. c.sub # None
      BY <2>1 DEF StagesOK, SdxRefusal, ValidAtSdx
    <3>5. Conveys(onward', c)
      BY <3>1, <3>4 DEF Conveys
    <3>6. QED  BY <2>1, <3>2, <3>3, <3>5 DEF TypeOK, StagesOK, Stages
  <2>4. QED  BY <2>2, <2>3
<1>5. CASE ProviderGuard
  <2>1. stage = "provider" /\ onward \in Onward
    BY <1>5 DEF ProviderGuard, StagesOK, TypeOK
  <2>2. CASE stage' = "done"
    <3>1. /\ UNCHANGED <<request, onward, caller>>
          /\ fault' \in Faults \cup {None}
          /\ status' \in {ProviderRefusal(onward), 401, 500} \ {None}
      BY <1>5, <2>1, <2>2 DEF ProviderGuard, Answer, Fail, Refuse, TypeOK
    <3>2. status' \in Codes
      BY <3>1, RefusalTypes
    <3>3. QED  BY <2>1, <2>2, <3>1, <3>2 DEF TypeOK, StagesOK, Stages
  <2>3. CASE stage' # "done"
    <3>1. /\ ProviderRefusal(onward) = None
          /\ caller' = EffectiveCaller(onward) /\ stage' = "handler"
          /\ UNCHANGED <<request, onward, fault, status>>
      BY <1>5, <2>3 DEF ProviderGuard, Answer, Fail, Refuse
    <3>2. caller' \in Callers
      BY <2>1, <3>1, CallerType
    <3>3. QED  BY <2>1, <3>1, <3>2 DEF TypeOK, StagesOK, Stages
  <2>4. QED  BY <2>2, <2>3
<1>6. CASE Handler
  <2>1. /\ stage = "handler" /\ stage' = "done" /\ status' \in {200, 403, 500}
        /\ fault' \in Faults \cup {None} /\ UNCHANGED <<request, onward, caller>>
    BY <1>6 DEF Handler, Answer, Fail, Refuse, TypeOK
  <2>2. QED  BY <2>1 DEF TypeOK, StagesOK, Stages
<1>7. CASE Done \/ UNCHANGED vars
  BY <1>7 DEF Done, vars, TypeOK, StagesOK
<1>8. QED  BY <1>1, <1>2, <1>3, <1>4, <1>5, <1>6, <1>7 DEF Next

\* The types, and what each stage knows from those before it, in every state.
THEOREM StagesAlways == Spec => [](TypeOK /\ StagesOK)
<1>1. Init => TypeOK /\ StagesOK
  BY IdentityNames DEF Init, TypeOK, StagesOK, Stages
<1>2. TypeOK /\ StagesOK /\ [Next]_vars => (TypeOK /\ StagesOK)'
  BY NextStages
<1>3. QED  BY <1>1, <1>2, PTL DEF Spec

\* The variables of both guards and the forwarding keep their types.
THEOREM TypeCorrect == Spec => []TypeOK
  BY StagesAlways, PTL

\* Whoever the Provider API takes a call to come from is the holder of the
\* token it came with, or was named by an allowed client; and behind the
\* Provider SDX API it is the person who called there.
THEOREM ActsAsHolderAlways == Spec => []ActsAsHolder
<1>1. TypeOK /\ StagesOK => ActsAsHolder
  <2>. SUFFICES ASSUME TypeOK, StagesOK, caller # None PROVE ActsAsHolder
    BY DEF ActsAsHolder
  <2>. DEFINE t == onward.token
  <2>1. /\ onward \in Onward /\ t \in Tokens /\ ProviderRefusal(onward) = None
        /\ caller = EffectiveCaller(onward)
    BY DEF StagesOK, TypeOK, Onward
  <2>2. t.holder \in Users \cup Clients
    BY <2>1, Shapes DEF Token
  <2>3. MayActAs(t, caller.subject)
    <3>1. CASE t.holder \in Users
      BY <2>1, <3>1, Shapes DEF EffectiveCaller, MayActAs
    <3>2. CASE t.holder \in Clients
      <4>1. FirstOf(ClientId(t.claims), t.claims.sub, None) = t.holder
        BY <2>1, <3>2, Shapes, IdentityNames DEF FirstOf
      <4>2. IsClientToken(t.claims)
        BY <2>1, <3>2, Shapes
      <4>3. ClientAllowed(t.holder)
        BY <2>1, <4>1, <4>2, IdentityNames DEF ProviderRefusal, ValidAtProvider, Codes
      <4>4. QED  BY <4>3 DEF ClientAllowed, MayActAs
    <3>3. QED  BY <2>2, <3>1, <3>2
  <2>4. ASSUME request.to = "sdx", request.token.holder \in Users
        PROVE  caller.subject = request.token.holder
    <3>1. request \in Requests /\ request.token \in Tokens
      BY DEF StagesOK, TypeOK, Requests
    <3>2. request.token.claims \in Claims /\ request.token.claims.sub = request.token.holder
      BY <2>4, <3>1, Shapes
    <3>3. Conveys(onward, request.token.claims)
      BY <2>1, <2>4 DEF StagesOK
    <3>4. QED  BY <2>1, <3>2, <3>3, ConveyedPasses
  <2>5. QED  BY <2>3, <2>4 DEF ActsAsHolder
<1>2. QED  BY <1>1, StagesAlways, PTL

\* No guard refuses an entitled person's call that a fault does not end.
LEMMA NextEntitled ==
  ASSUME TypeOK, StagesOK, EntitledServed, [Next]_vars
  PROVE  EntitledServed'
<1>1. CASE UNCHANGED <<status, fault, request, onward>>
  BY <1>1 DEF EntitledServed
<1>2. CASE stage' # "done" /\ ~UNCHANGED <<status, fault, request, onward>>
  <2>1. StagesOK'
    BY NextStages
  <2>2. QED  BY <1>2, <2>1 DEF StagesOK, EntitledServed
<1>3. CASE stage' = "done" /\ ~UNCHANGED <<status, fault, request, onward>>
  <2>1. stage \in {"sdx", "forward", "provider", "handler"}
    BY <1>3 DEF Next, CallSdx, CallProvider, SdxGuard, Forward, ProviderGuard,
                Handler, Done, vars
  <2>2. UNCHANGED <<request, onward>>
    BY <1>3 DEF Next, CallSdx, CallProvider, SdxGuard, Forward, NoServiceToken,
                ProviderGuard, Handler, Done, Answer, Fail, Refuse, vars
  <2>. SUFFICES ASSUME Entitled(request), request.to = "sdx"
                PROVE  \/ status' = 200
                       \/ <<fault', status'>> \in Faulty
                       \/ status' = 401 /\ onward # None /\ onward.token.expired
                       \/ /\ status' = 500 /\ onward = None
                          /\ ~Sendable(request.token.claims)
    BY <2>2 DEF EntitledServed
  <2>. DEFINE c == request.token.claims
  <2>3. request \in Requests /\ request.token \in Tokens
    BY <2>1 DEF StagesOK, TypeOK, Requests
  <2>4. c \in Claims /\ c.sub = request.token.holder /\ c.sub # None
    BY <2>3, Shapes, IdentityNames DEF Entitled
  <2>5. CASE stage = "sdx"
    <3>1. SdxRefusal(request) = None
      BY <2>4 DEF Entitled, SdxRefusal, ValidAtSdx
    <3>2. SdxGuard
      BY <1>3, <2>5 DEF Next, CallSdx, CallProvider, Forward, ProviderGuard,
                        Handler, Done, vars
    <3>3. QED  BY <1>3, <3>1, <3>2 DEF SdxGuard, Fail, Faulty
  <2>6. CASE stage = "forward"
    <3>1. onward = None
      BY <2>6 DEF StagesOK
    <3>2. Forward
      BY <1>3, <2>6 DEF Next, CallSdx, CallProvider, SdxGuard, ProviderGuard,
                        Handler, Done, vars
    <3>3. QED  BY <1>3, <3>1, <3>2 DEF Forward, NoServiceToken, Fail, Refuse, Faulty
  <2>7. ASSUME onward # None
        PROVE  /\ ProviderRefusal(onward) \in {None, 401}
               /\ ProviderRefusal(onward) = None \/ onward.token.expired
               /\ onward.named = EffectiveCaller(onward).subject
    <3>1. onward \in Onward /\ Conveys(onward, c)
      BY <2>7 DEF StagesOK, TypeOK
    <3>2. QED  BY <2>4, <3>1, ConveyedPasses DEF Conveys
  <2>8. CASE stage = "provider"
    <3>1. /\ onward # None /\ ProviderRefusal(onward) \in {None, 401}
          /\ ProviderRefusal(onward) = None \/ onward.token.expired
      BY <2>7, <2>8 DEF StagesOK
    <3>2. ProviderGuard
      BY <1>3, <2>8 DEF Next, CallSdx, CallProvider, SdxGuard, Forward,
                        Handler, Done, vars
    <3>3. QED  BY <1>3, <3>1, <3>2 DEF ProviderGuard, Answer, Fail, Refuse, Faulty
  <2>9. CASE stage = "handler"
    <3>1. onward # None /\ caller = EffectiveCaller(onward)
      BY <2>9 DEF StagesOK
    <3>2. onward.named = caller.subject
      BY <2>7, <3>1
    <3>3. Handler
      BY <1>3, <2>9 DEF Next, CallSdx, CallProvider, SdxGuard, Forward,
                        ProviderGuard, Done, vars
    <3>4. QED  BY <3>2, <3>3 DEF Handler, Answer, Fail, Refuse, Faulty
  <2>10. QED  BY <2>1, <2>5, <2>6, <2>8, <2>9
<1>4. QED  BY <1>1, <1>2, <1>3

\* An entitled person is served by the two services together, unless something
\* they depend on fails or the person's name does not fit a header.
THEOREM EntitledServedAlways == Spec => []EntitledServed
<1>1. Init => EntitledServed
  BY DEF Init, EntitledServed
<1>2. (TypeOK /\ StagesOK) /\ EntitledServed /\ [Next]_vars => EntitledServed'
  BY NextEntitled
<1>3. QED  BY <1>1, <1>2, StagesAlways, PTL DEF Spec
=============================================================================
