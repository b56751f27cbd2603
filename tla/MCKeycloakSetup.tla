--------------------------- MODULE MCKeycloakSetup ---------------------------
(* KeycloakSetup on small instances: two environments of one realm, options  *)
(* with and without required audiences, with ids of the environment and with *)
(* explicit ones, and a realm that is new or holds what administrators made  *)
(* by hand.                                                                  *)
EXTENDS KeycloakSetup, TLC

CONSTANTS e1, e2, f1, f2, o1, o2, a1, a2, x1, x2, w1

MCScopes == <<w1>>

\* The ids made from an environment's name.
Ids(e) == [k \in ClientKinds |-> <<e, k>>]

MCClientIds == {e1, e2} \X ClientKinds

Opt(ids, f, os, as, s) ==
  [clients |-> ids, envFile |-> f, origins |-> os, audiences |-> as, scope |-> s]

Usual == [k \in BrowserClients |-> o1]
Moved == [Usual EXCEPT !["bff"] = o2]

\* Explicit ids: the first environment's clients with the second's service client.
Shared == [Ids(e1) EXCEPT !["providerService"] = <<e2, "providerService">>]

MCConfigs ==
  {Opt(Ids(e1), f1, Usual, <<a1>>, x1),     \* one required audience
   Opt(Ids(e1), f1, Usual, <<>>, x1),       \* audiences switched off
   Opt(Shared, f2, Moved, <<a2>>, x1),      \* another address, audience and file
   Opt(Ids(e2), f2, Usual, <<a1>>, x2)}     \* another environment

Empty == [o \in Objects |-> None]

\* A realm that is there, with the first environment's client, its audience
\* scope and mappers made by hand, one of them of another type.
ByHand ==
  [o \in Objects |->
     CASE o \in {Realm, Scope(x1), Client(<<e1, "bff">>), Mapper(x1, a1)} ->
            [is |-> Plain("manual"), by |-> None]
       [] o = Mapper(x1, a2) -> [is |-> OtherType, by |-> None]
       [] OTHER -> None]

MCPriors == {Empty, ByHand}

Symmetry == Permutations(Runs)
==============================================================================
