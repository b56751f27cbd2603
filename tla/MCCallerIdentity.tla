--------------------------- MODULE MCCallerIdentity ---------------------------
(* CallerIdentity for two people and two clients, one of them allowed.       *)
EXTENDS CallerIdentity

CONSTANTS
  ann, bob,                     \* people
  login, Ann, Wide,             \* names; Wide has characters beyond Latin-1
  sdx, other, saSdx, saOther,   \* clients and their service accounts
  read, write, pz               \* scopes and an audience

Accounts == [c \in {sdx, other} |-> IF c = sdx THEN saSdx ELSE saOther]
ReadWrite == {read, write}

Claim(sub, azp, client_id, grant, preferred, name, scopes, aud) ==
  [sub |-> sub, azp |-> azp, client_id |-> client_id, grant |-> grant,
   preferred_username |-> preferred, name |-> name, email |-> None,
   scopes |-> scopes, aud |-> aud]

Personal ==
  [holder: {ann}, expired: BOOLEAN,
   claims: {Claim(ann, azp, None, FALSE, preferred, name, scopes, aud) :
              azp \in {sdx, other}, preferred \in {login, None},
              name \in {Ann, Wide, None}, scopes \in SUBSET ReadWrite,
              aud \in SUBSET {pz}}]

\* Service tokens with all of Keycloak's client claims, or with azp and the
\* service account's name only.
Service(c) ==
  [holder: {c}, expired: BOOLEAN,
   claims: {Claim(Accounts[c], c, client_id, grant, Accounts[c], None, {}, {}) :
              client_id \in {c, None}, grant \in BOOLEAN}]

Issued == Personal \cup Service(sdx) \cup Service(other)
=============================================================================
