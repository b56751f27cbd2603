---------------------------- MODULE CallerIdentity ----------------------------
(***************************************************************************)
(* On whose behalf a call acts: a call to the Provider SDX API passes its  *)
(* guard and is forwarded with the service's own token and on-behalf-of    *)
(* headers; the Provider API's guard turns a token and those headers into  *)
(* an effective caller.  Claims and headers are trimmed names, or None     *)
(* when absent or blank.                                                   *)
(***************************************************************************)
EXTENDS Naturals, FiniteSets

CONSTANTS
  Users,           \* sub claims of people
  Names,           \* user names, display names and e-mail addresses
  Clients,         \* OIDC clients
  SdxClient,       \* PROVIDER_SDX_API_CLIENT_ID
  Allowed,         \* PROVIDER_API_ALLOWED_CLIENT_IDS
  ServiceAccount,  \* client -> service-account-<client>
  Unsendable,      \* names an HTTP header cannot hold (beyond Latin-1)
  Tokens,          \* the tokens the identity provider issues
  Scopes,          \* the scopes of the operations
  ChecksScopes,    \* JWT_VALIDATE_SCOPES of the Provider SDX API
  ChecksExpiry,    \* JWT_VALIDATE_EXPIRY of the Provider SDX API
  ChecksSignature, \* JWT_VALIDATE_SIGNATURE of the Provider SDX API
  Audiences,       \* JWT_REQUIRED_AUDIENCES
  None

Text    == Users \cup Names \cup Clients \cup {None}
Claims  == [sub: Text, azp: Text, client_id: Text, grant: BOOLEAN,
            preferred_username: Text, name: Text, email: Text,
            scopes: SUBSET Scopes, aud: SUBSET Audiences]

\* holder, the user or client the token was issued to, is what the identity
\* provider knows; the code sees the claims only.
Token   == [holder: Users \cup Clients, expired: BOOLEAN, claims: Claims]

Codes == {200, 400, 401, 403, 500, 502}

ASSUME IdentityNames ==
  /\ SdxClient \in Clients /\ Allowed \subseteq Clients
  /\ ServiceAccount \in [Clients -> Names] /\ Unsendable \subseteq Names
  /\ ChecksScopes \in BOOLEAN /\ ChecksExpiry \in BOOLEAN /\ ChecksSignature \in BOOLEAN
  /\ Users \cap Clients = {} /\ None \notin Users \cup Names \cup Clients
  /\ None \notin Codes
ASSUME TokensAssumption == Tokens \subseteq Token

\* What the setup script configures.
ASSUME SetupAssumption == SdxClient \in Allowed

\* Keycloak's claims.  A person's token names the person and no service account;
\* a client's names the client and shows in one of three ways what it is.
ASSUME TokenShapes ==
  \A t \in Tokens : LET c == t.claims IN
    \/ /\ t.holder \in Users /\ c.sub = t.holder
       /\ ~c.grant /\ c.client_id = None /\ c.azp \in Clients \cup {None}
       /\ \A k \in Clients : c.preferred_username # ServiceAccount[k]
    \/ /\ t.holder \in Clients
       /\ c.azp \in {t.holder, None} /\ c.client_id \in {t.holder, None}
       /\ c.azp # None \/ c.client_id # None
       /\ \/ c.grant
          \/ c.client_id # None
          \/ c.preferred_username = ServiceAccount[t.holder]

VARIABLES
  stage,    \* the code that runs next
  request,  \* the call received
  onward,   \* what the Provider API receives
  caller,   \* providerCaller: the effective subject and name, or None
  fault,    \* history: what outside the two services ended the call, or None
  status    \* the answer, or None

vars == <<stage, request, onward, caller, fault, status>>

Header   == Text
Requests ==
  [to: {"sdx", "provider"}, token: Tokens, scope: Scopes, gateway: BOOLEAN,
   named: Users \cup {None}]
Onward   == [token: Tokens, subject: Header, username: Header, named: Text]
Callers  == [subject: Text \ {None}, username: Text \ {None}]
Stages   == {"start", "sdx", "forward", "provider", "handler", "done"}
Faults   == {"keys", "token", "connection"}

ASSUME NoneAssumption == None \notin Requests \cup Onward \cup Callers

TypeOK ==
  /\ stage \in Stages
  /\ request \in Requests \cup {None}
  /\ onward \in Onward \cup {None}
  /\ caller \in Callers \cup {None}
  /\ fault \in Faults \cup {None}
  /\ status \in Codes \cup {None}

Init ==
  /\ stage = "start" /\ request = None
  /\ onward = None /\ caller = None /\ fault = None /\ status = None

\* The exception of a guard or handler becomes the answer.
Refuse(code) ==
  stage' = "done" /\ status' = code /\ UNCHANGED <<request, onward, caller, fault>>

\* So does the failure of a request the services make themselves.
Fail(what, code) ==
  /\ stage' = "done" /\ status' = code /\ fault' = what
  /\ UNCHANGED <<request, onward, caller>>
-----------------------------------------------------------------------------
\* The first of several claims that is present.
FirstOf(a, b, c) == IF a # None THEN a ELSE IF b # None THEN b ELSE c

UsernameFromClaims(c) == FirstOf(c.name, c.preferred_username, c.email)

\* clientIdFromClaims, when azp and client_id do not disagree.
ClientId(c) == FirstOf(c.azp, c.client_id, None)
Disagree(c) == c.azp # None /\ c.client_id # None /\ c.azp # c.client_id

\* isClientToken: told by the grant, a client_id, or the service account's name.
IsClientToken(c) ==
  \/ c.grant
  \/ c.client_id # None
  \/ /\ ClientId(c) # None
     /\ c.preferred_username \in Names
     /\ c.preferred_username = ServiceAccount[ClientId(c)]

\* A user calls one of the Provider SDX API's operations, through the gateway or
\* locally; each operation has one scope.
CallSdx ==
  /\ stage = "start"
  /\ \E r \in {q \in Requests : q.to = "sdx" /\ q.named = None} : request' = r
  /\ stage' = "sdx"
  /\ UNCHANGED <<onward, caller, fault, status>>

\* A token holder calls the Provider API itself, with any on-behalf-of headers.
CallProvider ==
  /\ stage = "start"
  /\ \E r \in {q \in Requests : q.to = "provider"}, subject \in Users \cup {None},
        username \in (Names \ Unsendable) \cup {None} :
       /\ request' = r
       /\ onward' = [token |-> r.token, subject |-> subject, username |-> username,
                     named |-> r.named]
  /\ stage' = "provider"
  /\ UNCHANGED <<caller, fault, status>>

\* JwtTokenValidator, of which each service has its own: signature and issuer
\* hold of whatever the identity provider has issued; the expiry is left.
ValidAtSdx(t)      == ChecksExpiry => ~t.expired
ValidAtProvider(t) == ~t.expired

\* JwtAuthGuard of the Provider SDX API: token, sub, audiences, scopes, then
\* the headers the gateway adds.
SdxRefusal(r) ==
  LET c == r.token.claims IN
  IF ~ValidAtSdx(r.token) THEN 401
  ELSE IF c.sub = None \/ ~(Audiences \subseteq c.aud) THEN 401
  ELSE IF ChecksScopes /\ r.scope \notin c.scopes THEN 403
  ELSE IF ~r.gateway THEN 401 ELSE None

\* The keys that signatures are checked with cannot be loaded: a 401 as well.
SdxGuard ==
  /\ stage = "sdx"
  /\ \/ ChecksSignature /\ Fail("keys", 401)
     \/ SdxRefusal(request) # None /\ Refuse(SdxRefusal(request))
     \/ /\ SdxRefusal(request) = None
        /\ stage' = "forward"
        /\ UNCHANGED <<request, onward, caller, fault, status>>

\* Mutant of UsernameFor: nothing stands in for a missing name.
UsernameOnly(c) == UsernameFromClaims(c)

\* usernameFor: the subject stands in for a missing name.
UsernameFor(c) ==
  IF UsernameFromClaims(c) # None THEN UsernameFromClaims(c) ELSE c.sub

\* Headers takes no characters beyond Latin-1.
Sendable(c) == {c.sub, UsernameFor(c)} \cap Unsendable = {}

\* fetchProviderApiBearerToken and getProviderApiTokenEndpoint: 500 when the
\* secret or the authority is not configured or a request breaks, 502 when the
\* identity provider's answer is an error or of no use.
NoServiceToken == \E code \in {500, 502} : Fail("token", code)

\* authHeaders, then providerRequest: the token comes first, then the headers,
\* whose TypeError is a 500, then the Provider API, not reached (500) or called.
\* A token from the cache may be expired by then (ServiceToken says which).
\* (The lengths validateSubject and validateUsername refuse do not occur.)
Forward ==
  /\ stage = "forward"
  /\ LET c == request.token.claims IN
       \/ NoServiceToken
       \/ ~Sendable(c) /\ Refuse(500)
       \/ Sendable(c) /\ Fail("connection", 500)
       \/ /\ Sendable(c)
          /\ \E t \in {s \in Tokens : s.holder = SdxClient} :
               onward' = [token |-> t, subject |-> c.sub,
                          username |-> UsernameFor(c), named |-> c.sub]
          /\ stage' = "provider"
          /\ UNCHANGED <<request, caller, fault, status>>

\* Mutant of ClientAllowed: the allow list is not consulted.
AnyClient(c) == TRUE

\* validateAllowedClient
ClientAllowed(c) == c \in Allowed

\* Mutant of HeaderMissing: one header is enough.
BothMissing(o) == o.subject = None /\ o.username = None

HeaderMissing(o) == o.subject = None \/ o.username = None
HeaderPresent(o) == o.subject # None \/ o.username # None

\* ProviderServiceAuthGuard: the refusals in their order.
ProviderRefusal(o) ==
  LET c == o.token.claims
      client == IsClientToken(c)
      holder == FirstOf(ClientId(c), c.sub, None)
  IN IF ~ValidAtProvider(o.token) \/ Disagree(c) \/ holder = None THEN 401
     ELSE IF client /\ ~ClientAllowed(holder) THEN 401
     ELSE IF client /\ HeaderMissing(o) THEN 400
     ELSE IF ~client /\ HeaderPresent(o) THEN 400
     ELSE IF ~client /\ (c.sub = None \/ UsernameFromClaims(c) = None) THEN 400
     ELSE None

EffectiveCaller(o) ==
  IF IsClientToken(o.token.claims)
  THEN [subject |-> o.subject, username |-> o.username]
  ELSE [subject |-> o.token.claims.sub,
        username |-> UsernameFromClaims(o.token.claims)]

\* The Provider API's answer; one that the Provider SDX API relays may be lost on
\* the way, and providerRequest's fetch rejects.
Answer(code) == Refuse(code) \/ (request.to = "sdx" /\ Fail("connection", 500))

\* A signature is always checked here, and the keys may not be there.
ProviderGuard ==
  /\ stage = "provider"
  /\ \/ Fail("keys", 401)
     \/ ProviderRefusal(onward) # None /\ Answer(ProviderRefusal(onward))
     \/ /\ ProviderRefusal(onward) = None
        /\ caller' = EffectiveCaller(onward)
        /\ stage' = "handler"
        /\ UNCHANGED <<request, onward, fault, status>>

\* requireEffectiveSubject: a subject in the path must be the caller's.  200: the
\* operation is carried out.
Handler ==
  /\ stage = "handler"
  /\ Answer(IF onward.named \in {None, caller.subject} THEN 200 ELSE 403)

Done == stage = "done" /\ UNCHANGED vars

Next ==
  CallSdx \/ CallProvider \/ SdxGuard \/ Forward \/ ProviderGuard \/ Handler \/ Done

Spec == Init /\ [][Next]_vars
-----------------------------------------------------------------------------
(* Properties.                                                             *)

\* Who may act as subject s with token t: s itself, and the allowed clients.
MayActAs(t, s) == t.holder = s \/ t.holder \in Allowed

(* Whatever shape the identity provider gives a token's claims, its holder     *)
(* acts as itself or is an allowed client; and what a person asks of the       *)
(* Provider SDX API is done as that person.                                    *)
ActsAsHolder ==
  caller # None =>
    /\ MayActAs(onward.token, caller.subject)
    /\ request.to = "sdx" /\ request.token.holder \in Users =>
         caller.subject = request.token.holder

\* A person's unexpired token with what the operation needs, over the gateway.
Entitled(r) ==
  /\ r.token.holder \in Users /\ ~r.token.expired /\ r.gateway
  /\ r.scope \in r.token.claims.scopes /\ Audiences \subseteq r.token.claims.aud

\* The answers that name a fault outside the two services.
Faulty == {<<"keys", 401>>, <<"token", 500>>, <<"token", 502>>, <<"connection", 500>>}

(* The two services agree: no guard, header or check of either, with its own   *)
(* token and its own reading of claims, turns down a user entitled to an       *)
(* operation.  What ends such a call is a request that the services depend on  *)
(* and that failed - for the signing keys, for the service's token, to the     *)
(* Provider API -, a service token that has run out, or a name that no header  *)
(* takes.                                                                      *)
EntitledServed ==
  status # None /\ request.to = "sdx" /\ Entitled(request) =>
    \/ status = 200
    \/ <<fault, status>> \in Faulty
    \/ status = 401 /\ onward # None /\ onward.token.expired
    \/ status = 500 /\ onward = None /\ ~Sendable(request.token.claims)

(* "username must be a non-empty string up to 255 characters" (validateUsername*)
(* of the Provider SDX API): a user whose name is such a string is not         *)
(* answered with an internal error when every request the services make is     *)
(* answered.                                                                   *)
AnyValidUsernameForwarded == fault = None => status # 500

(* How the properties come about: what each stage knows from those before it.  *)
Conveys(o, c) ==
  /\ o.token.holder = SdxClient /\ c.sub # None
  /\ o.subject = c.sub /\ o.username = UsernameFor(c) /\ o.named = c.sub

StagesOK ==
  /\ stage = "start" <=> request = None
  /\ stage \in {"start", "sdx", "forward"} => onward = None
  /\ stage \in {"provider", "handler"} => onward # None
  /\ stage \in {"start", "sdx", "forward", "provider"} => caller = None
  /\ stage = "handler" => caller # None
  /\ stage # "done" <=> status = None
  /\ stage \in {"sdx", "forward"} => request.to = "sdx"
  /\ stage = "forward" => SdxRefusal(request) = None
  /\ onward # None /\ request.to = "sdx" =>
       Conveys(onward, request.token.claims)
  /\ caller # None =>
       /\ onward # None /\ ProviderRefusal(onward) = None
       /\ caller = EffectiveCaller(onward)
=============================================================================
