------------------------- MODULE KeycloakSetupProofs -------------------------
(* Theorems about KeycloakSetup, for any number of runs that overlap in any  *)
(* way, any environments and options, and whatever the realm held before.    *)
EXTENDS KeycloakSetup, SequenceTheorems, TLAPS

USE NamesAssumption, ConfigsAssumption

----------------------------------------------------------------------------
(* What a plan consists of.                                                *)

Assigned(c) == WidgetScopes \cup (IF audienceScopeEnabled(c) THEN {c.scope} ELSE {})

\* The objects a run with options c creates or updates.
Own(c) ==
  {Realm} \cup {Scope(s) : s \in Assigned(c)}
    \cup {Mapper(c.scope, a) : a \in Required(c)}
    \cup {Client(c.clients[k]) : k \in ClientKinds}

Assigns(c) ==
  {Step("assign", Scope(s), Client(c.clients[k])) : s \in Assigned(c), k \in ClientKinds}

Removes(c) ==
  IF audienceScopeEnabled(c) THEN {}
  ELSE {Step("remove", Scope(c.scope), Client(c.clients[k])) : k \in ClientKinds}

BodySteps(c) ==
  {Ensure(o) : o \in Own(c)} \cup Assigns(c) \cup Removes(c)
    \cup (IF audienceScopeEnabled(c) THEN {} ELSE {Step("find", Scope(c.scope), None)})
    \cup {Step("prune", Scope(c.scope), None)}

LastStep == Step("write", None, None)

LEMMA OptionTypes ==
  ASSUME NEW c \in Configs
  PROVE  /\ c.envFile \in EnvFiles
         /\ c.clients \in [ClientKinds -> ClientIds]
         /\ c.origins \in [BrowserClients -> Origins]
         /\ c.audiences \in Seq(Audiences) /\ c.scope \in AudienceScopes
         /\ c # None
         /\ Required(c) \subseteq Audiences
<1>1. c \in Options
  OBVIOUS
<1>2. c.audiences \in Seq(Audiences)
  BY <1>1 DEF Options
<1>3. Required(c) \subseteq Audiences
  BY <1>2 DEF Required
<1>4. QED  BY <1>1, <1>2, <1>3 DEF Options

LEMMA Joined ==
  ASSUME NEW S, NEW s \in Seq(S), NEW t \in Seq(S)
  PROVE  s \o t \in Seq(S) /\ Range(s \o t) = Range(s) \cup Range(t)
  BY ConcatProperties, RangeConcatenation

LEMMA ScopeStepsShape ==
  ASSUME NEW c \in Configs
  PROVE  /\ ScopeSteps \in Seq(BodySteps(c))
         /\ \A s \in WidgetScopes : Ensure(Scope(s)) \in Range(ScopeSteps)
<1>1. Len(WIDGET_SCOPES) \in Nat /\ DOMAIN WIDGET_SCOPES = 1..Len(WIDGET_SCOPES)
  OBVIOUS
<1>2. \A i \in 1..Len(WIDGET_SCOPES) : Ensure(Scope(WIDGET_SCOPES[i])) \in BodySteps(c)
  BY <1>1 DEF BodySteps, Own, Assigned, WidgetScopes
<1>3. ScopeSteps \in Seq(BodySteps(c))
  BY <1>1, <1>2 DEF ScopeSteps
<1>4. ASSUME NEW s \in WidgetScopes
      PROVE  Ensure(Scope(s)) \in Range(ScopeSteps)
  <2>1. PICK i \in 1..Len(WIDGET_SCOPES) : s = WIDGET_SCOPES[i]
    BY <1>1 DEF WidgetScopes
  <2>2. i \in DOMAIN ScopeSteps /\ ScopeSteps[i] = Ensure(Scope(s))
    BY <1>1, <2>1 DEF ScopeSteps
  <2>3. QED  BY <2>2 DEF Range
<1>5. QED  BY <1>3, <1>4

LEMMA AssignStepsShape ==
  ASSUME NEW c \in Configs, NEW k \in ClientKinds
  PROVE  /\ AssignSteps(c, k) \in Seq(BodySteps(c))
         /\ \A s \in WidgetScopes :
              Step("assign", Scope(s), Client(c.clients[k])) \in Range(AssignSteps(c, k))
<1>. DEFINE row == AssignSteps(c, k)
<1>1. Len(WIDGET_SCOPES) \in Nat /\ DOMAIN WIDGET_SCOPES = 1..Len(WIDGET_SCOPES)
  OBVIOUS
<1>2. \A i \in 1..Len(WIDGET_SCOPES) :
        Step("assign", Scope(WIDGET_SCOPES[i]), Client(c.clients[k])) \in BodySteps(c)
  BY <1>1 DEF BodySteps, Assigns, Assigned, WidgetScopes
<1>3. row \in Seq(BodySteps(c))
  BY <1>1, <1>2 DEF AssignSteps
<1>4. ASSUME NEW s \in WidgetScopes
      PROVE  Step("assign", Scope(s), Client(c.clients[k])) \in Range(row)
  <2>1. PICK i \in 1..Len(WIDGET_SCOPES) : s = WIDGET_SCOPES[i]
    BY <1>1 DEF WidgetScopes
  <2>2. i \in DOMAIN row /\ row[i] = Step("assign", Scope(s), Client(c.clients[k]))
    BY <1>1, <2>1 DEF AssignSteps
  <2>3. QED  BY <2>2 DEF Range
<1>5. QED  BY <1>3, <1>4

LEMMA MapperStepsShape ==
  ASSUME NEW c \in Configs
  PROVE  /\ MapperSteps(c) \in Seq(BodySteps(c))
         /\ \A a \in Required(c) :
              Ensure(Mapper(c.scope, a)) \in Range(MapperSteps(c))
         /\ Step("prune", Scope(c.scope), None) \in Range(MapperSteps(c))
<1>. DEFINE row == [i \in 1..Len(c.audiences) |->
                      Ensure(Mapper(c.scope, c.audiences[i]))]
            last == <<Step("prune", Scope(c.scope), None)>>
<1>1. Len(c.audiences) \in Nat /\ DOMAIN c.audiences = 1..Len(c.audiences)
  BY OptionTypes
<1>2. \A i \in 1..Len(c.audiences) :
        Ensure(Mapper(c.scope, c.audiences[i])) \in BodySteps(c)
  BY <1>1 DEF BodySteps, Own, Required
<1>3. row \in Seq(BodySteps(c))
  BY <1>1, <1>2
<1>4. last \in Seq(BodySteps(c)) /\ Step("prune", Scope(c.scope), None) \in Range(last)
  BY DEF BodySteps, Range
<1>5. ASSUME NEW a \in Required(c)
      PROVE  Ensure(Mapper(c.scope, a)) \in Range(row)
  <2>1. PICK i \in 1..Len(c.audiences) : a = c.audiences[i]
    BY <1>1 DEF Required
  <2>2. i \in DOMAIN row /\ row[i] = Ensure(Mapper(c.scope, a))
    BY <1>1, <2>1
  <2>3. QED  BY <2>2 DEF Range
<1>6. MapperSteps(c) = row \o last
  BY DEF MapperSteps
<1>. HIDE DEF row, last
<1>7. QED  BY <1>3, <1>4, <1>5, <1>6, Joined

LEMMA OtherStepsShape ==
  ASSUME NEW c \in Configs
  PROVE  /\ <<Ensure(Realm)>> \in Seq(BodySteps(c))
         /\ <<AudienceScopeStep(c)>> \in Seq(BodySteps(c))
         /\ ClientSteps(c) \in Seq(BodySteps(c))
         /\ \A k \in ClientKinds : Ensure(Client(c.clients[k])) \in Range(ClientSteps(c))
         /\ AudienceSteps(c) \in Seq(BodySteps(c))
         /\ audienceScopeEnabled(c) => \A k \in AudienceClients :
              Step("assign", Scope(c.scope), Client(c.clients[k])) \in Range(AudienceSteps(c))
         /\ ~audienceScopeEnabled(c) => \A k \in AudienceClients :
              Step("remove", Scope(c.scope), Client(c.clients[k])) \in Range(AudienceSteps(c))
<1>1. <<Ensure(Realm)>> \in Seq(BodySteps(c))
  BY DEF BodySteps, Own
<1>2. <<AudienceScopeStep(c)>> \in Seq(BodySteps(c))
  <2>1. AudienceScopeStep(c) \in BodySteps(c)
    BY DEF AudienceScopeStep, BodySteps, Own, Assigned, Ensure
  <2>2. QED  BY <2>1
<1>3. ClientSteps(c) \in Seq(BodySteps(c))
  <2>1. \A k \in ClientKinds : Ensure(Client(c.clients[k])) \in BodySteps(c)
    BY DEF BodySteps, Own
  <2>2. QED  BY <2>1 DEF ClientSteps, ClientKinds, BrowserClients
<1>4. \A k \in ClientKinds : Ensure(Client(c.clients[k])) \in Range(ClientSteps(c))
  BY DEF ClientSteps, ClientKinds, BrowserClients, Range
<1>5. AudienceSteps(c) \in Seq(BodySteps(c))
  <2>1. CASE audienceScopeEnabled(c)
    <3>1. \A k \in ClientKinds :
            Step("assign", Scope(c.scope), Client(c.clients[k])) \in BodySteps(c)
      BY <2>1 DEF BodySteps, Assigns, Assigned
    <3>2. QED
      BY <2>1, <3>1 DEF AudienceSteps, ClientKinds, BrowserClients
  <2>2. CASE ~audienceScopeEnabled(c)
    <3>1. \A k \in ClientKinds :
            Step("remove", Scope(c.scope), Client(c.clients[k])) \in BodySteps(c)
      BY <2>2 DEF BodySteps, Removes
    <3>2. QED
      BY <2>2, <3>1 DEF AudienceSteps, ClientKinds, BrowserClients
  <2>3. QED  BY <2>1, <2>2
<1>6. audienceScopeEnabled(c) => \A k \in AudienceClients :
        Step("assign", Scope(c.scope), Client(c.clients[k])) \in Range(AudienceSteps(c))
  BY DEF AudienceSteps, AudienceClients, Range
<1>7. ~audienceScopeEnabled(c) => \A k \in AudienceClients :
        Step("remove", Scope(c.scope), Client(c.clients[k])) \in Range(AudienceSteps(c))
  BY DEF AudienceSteps, AudienceClients, Range
<1>8. QED  BY <1>1, <1>2, <1>3, <1>4, <1>5, <1>6, <1>7

\* What c's env file relies on is all in the plan.
Relied(c) ==
  {Ensure(Client(c.clients[k])) : k \in ClientKinds}
    \cup {Step("assign", Scope(s), Client(c.clients[k])) : s \in WidgetScopes,
                                                      k \in BrowserClients}
    \cup (IF audienceScopeEnabled(c)
            THEN {Ensure(Mapper(c.scope, a)) : a \in Required(c)}
                   \cup {Step("assign", Scope(c.scope), Client(c.clients[k])) :
                           k \in AudienceClients}
            ELSE {})

\* The steps that take away what earlier options left are all in the plan.
Cleanings(c) ==
  {Step("prune", Scope(c.scope), None)}
    \cup (IF audienceScopeEnabled(c) THEN {}
          ELSE {Step("remove", Scope(c.scope), Client(c.clients[k])) : k \in AudienceClients})

LEMMA BodyShape ==
  ASSUME NEW c \in Configs
  PROVE  /\ Body(c) \in Seq(BodySteps(c))
         /\ Relied(c) \cup Cleanings(c) \subseteq Range(Body(c))
<1>. DEFINE S  == BodySteps(c)
            s1 == <<Ensure(Realm)>> \o ScopeSteps
            s2 == s1 \o <<AudienceScopeStep(c)>>
            s3 == s2 \o MapperSteps(c)
            s4 == s3 \o ClientSteps(c)
            s5 == s4 \o AssignSteps(c, "bff")
            s6 == s5 \o AssignSteps(c, "providerApiSwagger")
            s7 == s6 \o AssignSteps(c, "providerSdxApiSwagger")
            s8 == s7 \o AudienceSteps(c)
<1>1. Body(c) = s8
  BY DEF Body
<1>2. BrowserClients \subseteq ClientKinds
  BY DEF ClientKinds
<1>. HIDE DEF S
<1>3. s1 \in Seq(S)
  BY ScopeStepsShape, OtherStepsShape, Joined DEF S
<1>4. s2 \in Seq(S)
  <2>. HIDE DEF s1
  <2>1. QED  BY <1>3, OtherStepsShape, Joined DEF S
<1>5. s3 \in Seq(S) /\ Range(MapperSteps(c)) \subseteq Range(s3)
  <2>. HIDE DEF s2
  <2>1. QED  BY <1>4, MapperStepsShape, Joined DEF S
<1>6. s4 \in Seq(S) /\ Range(s3) \cup Range(ClientSteps(c)) \subseteq Range(s4)
  <2>. HIDE DEF s3
  <2>1. QED  BY <1>5, OtherStepsShape, Joined DEF S
<1>7. s5 \in Seq(S) /\ Range(s4) \cup Range(AssignSteps(c, "bff")) \subseteq Range(s5)
  <2>. HIDE DEF s4
  <2>1. "bff" \in ClientKinds
    BY DEF ClientKinds, BrowserClients
  <2>2. QED  BY <1>6, <2>1, AssignStepsShape, Joined DEF S
<1>8. /\ s6 \in Seq(S)
      /\ Range(s5) \cup Range(AssignSteps(c, "providerApiSwagger")) \subseteq Range(s6)
  <2>. HIDE DEF s5
  <2>1. "providerApiSwagger" \in ClientKinds
    BY DEF ClientKinds, BrowserClients
  <2>2. QED  BY <1>7, <2>1, AssignStepsShape, Joined DEF S
<1>9. /\ s7 \in Seq(S)
      /\ Range(s6) \cup Range(AssignSteps(c, "providerSdxApiSwagger")) \subseteq Range(s7)
  <2>. HIDE DEF s6
  <2>1. "providerSdxApiSwagger" \in ClientKinds
    BY DEF ClientKinds, BrowserClients
  <2>2. QED  BY <1>8, <2>1, AssignStepsShape, Joined DEF S
<1>10. s8 \in Seq(S) /\ Range(s7) \cup Range(AudienceSteps(c)) \subseteq Range(s8)
  <2>. HIDE DEF s7
  <2>1. QED  BY <1>9, OtherStepsShape, Joined DEF S
<1>. HIDE DEF s1, s2, s3, s4, s5, s6, s7, s8
<1>11. Range(MapperSteps(c)) \cup Range(ClientSteps(c)) \cup Range(AudienceSteps(c))
         \subseteq Range(s8)
  BY <1>5, <1>6, <1>7, <1>8, <1>9, <1>10
<1>12. \A k \in BrowserClients : Range(AssignSteps(c, k)) \subseteq Range(s8)
  BY <1>7, <1>8, <1>9, <1>10 DEF BrowserClients
<1>13. Relied(c) \subseteq Range(s8)
  <2>1. \A k \in ClientKinds : Ensure(Client(c.clients[k])) \in Range(s8)
    BY <1>11, OtherStepsShape
  <2>2. \A s \in WidgetScopes, k \in BrowserClients :
          Step("assign", Scope(s), Client(c.clients[k])) \in Range(s8)
    BY <1>2, <1>12, AssignStepsShape
  <2>3. \A a \in Required(c) : Ensure(Mapper(c.scope, a)) \in Range(s8)
    BY <1>11, MapperStepsShape
  <2>4. audienceScopeEnabled(c) => \A k \in AudienceClients :
          Step("assign", Scope(c.scope), Client(c.clients[k])) \in Range(s8)
    BY <1>11, OtherStepsShape
  <2>5. QED  BY <2>1, <2>2, <2>3, <2>4 DEF Relied
<1>14. Cleanings(c) \subseteq Range(s8)
  BY <1>11, MapperStepsShape, OtherStepsShape DEF Cleanings
<1>15. QED  BY <1>1, <1>10, <1>13, <1>14 DEF S

PlanSteps(c) == BodySteps(c) \cup {LastStep}

LEMMA PlanShape ==
  ASSUME NEW c \in Configs
  PROVE  /\ Len(Body(c)) \in Nat
         /\ DOMAIN Plan[c] = 1..Len(Body(c)) + 1
         /\ \A k \in 1..Len(Body(c)) : Plan[c][k] \in BodySteps(c)
         /\ Plan[c][Len(Body(c)) + 1] = LastStep
         /\ \A k \in DOMAIN Plan[c] : Plan[c][k] \in PlanSteps(c)
         /\ \A s \in Relied(c) \cup Cleanings(c) :
              \E k \in DOMAIN Plan[c] : Plan[c][k] = s
<1>. DEFINE b == Body(c)
<1>1. b \in Seq(BodySteps(c)) /\ Relied(c) \cup Cleanings(c) \subseteq Range(b)
  BY BodyShape
<1>2. Plan[c] = Append(b, LastStep)
  BY DEF Plan, LastStep
<1>. HIDE DEF b
<1>3. /\ Len(b) \in Nat /\ DOMAIN Plan[c] = 1..Len(b) + 1
      /\ \A k \in 1..Len(b) : Plan[c][k] = b[k] /\ b[k] \in BodySteps(c)
      /\ Plan[c][Len(b) + 1] = LastStep
  BY <1>1, <1>2
<1>4. \A k \in DOMAIN Plan[c] : Plan[c][k] \in PlanSteps(c)
  <2>1. \A k \in DOMAIN Plan[c] : k \in 1..Len(b) \/ k = Len(b) + 1
    BY <1>3
  <2>2. QED  BY <1>3, <2>1 DEF PlanSteps
<1>5. ASSUME NEW s \in Relied(c) \cup Cleanings(c)
      PROVE  \E k \in DOMAIN Plan[c] : Plan[c][k] = s
  <2>1. PICK k \in DOMAIN b : b[k] = s
    BY <1>1 DEF Range
  <2>2. k \in 1..Len(b)
    BY <1>1
  <2>3. QED  BY <1>3, <2>1, <2>2
<1>6. QED  BY <1>3, <1>4, <1>5 DEF b

\* What a run makes of an object: a client's settings are those of its kind.
LEMMA RepresentationShape ==
  ASSUME NEW c \in Configs
  PROVE  /\ \A k \in ClientKinds :
              Representation(c, Client(c.clients[k])) =
                [as |-> k, address |-> OriginOf(c, k)]
         /\ \A o : o.kind # "client" => Representation(c, o) = Generated
         /\ \A k \in ClientKinds : OriginOf(c, k) \in Origins \cup {None}
         /\ Generated \in Settings /\ Generated # OtherType
<1>1. ASSUME NEW k \in ClientKinds
      PROVE  /\ Representation(c, Client(c.clients[k])) =
                  [as |-> k, address |-> OriginOf(c, k)]
             /\ OriginOf(c, k) \in Origins \cup {None}
  <2>. DEFINE o == Client(c.clients[k])
  <2>1. o.kind = "client" /\ o.name = c.clients[k]
    BY DEF Client
  <2>2. KindOf(c, o) = k
    <3>1. \A j \in ClientKinds : c.clients[j] = o.name => j = k
      BY <2>1, ClientIdsAssumption
    <3>. HIDE DEF o
    <3>2. QED  BY <2>1, <3>1 DEF KindOf
  <2>3. Representation(c, o) = [as |-> k, address |-> OriginOf(c, k)]
    <3>. HIDE DEF o
    <3>1. QED  BY <2>1, <2>2 DEF Representation
  <2>4. QED  BY <2>3, OptionTypes DEF OriginOf
<1>2. \A o : o.kind # "client" => Representation(c, o) = Generated
  BY DEF Representation
<1>3. Generated \in Settings /\ Generated # OtherType
  BY DEF Generated, OtherType, Plain, Settings
<1>4. QED  BY <1>1, <1>2, <1>3

LEMMA OwnObjects ==
  ASSUME NEW c \in Configs
  PROVE  /\ Own(c) \subseteq Objects
         /\ \A o \in Own(c) : Representation(c, o) \in Settings \ {OtherType}
         /\ Unrequired(c) \subseteq Mappers /\ Mappers \subseteq Objects
<1>1. Own(c) \subseteq Objects
  BY OptionTypes DEF Own, Assigned, Objects, ScopeNames, Mappers, Clients
<1>2. \A o \in Own(c) : Representation(c, o) \in Settings \ {OtherType}
  <2>1. ASSUME NEW o \in Own(c), o.kind # "client"
        PROVE  Representation(c, o) \in Settings \ {OtherType}
    BY <2>1, RepresentationShape
  <2>2. ASSUME NEW k \in ClientKinds
        PROVE  Representation(c, Client(c.clients[k])) \in Settings \ {OtherType}
    <3>1. /\ Representation(c, Client(c.clients[k])) =
               [as |-> k, address |-> OriginOf(c, k)]
          /\ OriginOf(c, k) \in Origins \cup {None}
      BY RepresentationShape
    <3>2. k # "other"
      BY DEF ClientKinds, BrowserClients
    <3>3. QED  BY <3>1, <3>2 DEF Settings, OtherType, Plain
  <2>3. \A o \in Own(c) :
          o.kind # "client" \/ \E k \in ClientKinds : o = Client(c.clients[k])
    BY DEF Own, Realm, Scope, Mapper
  <2>4. QED  BY <2>1, <2>2, <2>3
<1>3. QED  BY <1>1, <1>2, OptionTypes DEF Unrequired, Mappers, Objects

StepOK(c, s) ==
  /\ s.op \in {"ensure", "find", "prune", "assign", "remove", "write"}
  /\ s.op = "write" => s = LastStep
  /\ s.op # "write" => s \in BodySteps(c)
  /\ s.op = "ensure" => s.obj \in Own(c)
  /\ s.op = "assign" => s \in Assigns(c)
  /\ s.op = "remove" => s \in Removes(c)
  /\ s.op = "find" => ~audienceScopeEnabled(c) /\ s.obj = Scope(c.scope)
  /\ s.op \in {"assign", "remove"} =>
       s.client \in Clients /\ s.obj \in {Scope(n) : n \in ScopeNames}

LEMMA StepShape ==
  ASSUME NEW c \in Configs, NEW s \in PlanSteps(c)
  PROVE  StepOK(c, s)
<1>1. CASE s \in {Ensure(o) : o \in Own(c)}
  BY <1>1 DEF Ensure, Step, BodySteps, StepOK
<1>2. CASE s \in Assigns(c)
  BY <1>2, OptionTypes
  DEF Assigns, Assigned, Step, BodySteps, Clients, ScopeNames, StepOK
<1>3. CASE s \in Removes(c)
  BY <1>3, OptionTypes DEF Removes, Step, BodySteps, Clients, ScopeNames, StepOK
<1>4. CASE s = Step("prune", Scope(c.scope), None)
  BY <1>4 DEF Step, BodySteps, StepOK
<1>5. CASE s \in (IF audienceScopeEnabled(c) THEN {}
                ELSE {Step("find", Scope(c.scope), None)})
  <2>1. ~audienceScopeEnabled(c) /\ s = Step("find", Scope(c.scope), None)
    BY <1>5
  <2>2. QED  BY <2>1 DEF Step, BodySteps, StepOK
<1>6. CASE s = LastStep
  BY <1>6 DEF LastStep, Step, StepOK
<1>7. QED  BY <1>1, <1>2, <1>3, <1>4, <1>5, <1>6 DEF PlanSteps, BodySteps

\* Where a run is in its plan.
LEMMA HereShape ==
  ASSUME TypeOK, NEW r \in Runs, status[r] = "running"
  PROVE  /\ cfg[r] \in Configs
         /\ at[r] \in 1..Len(Body(cfg[r])) + 1
         /\ Here(r) = Plan[cfg[r]][at[r]] /\ Here(r) \in PlanSteps(cfg[r])
         /\ Here(r).op # "write" => at[r] + 1 \in DOMAIN Plan[cfg[r]]
         /\ Here(r).op = "write" => at[r] = Len(Body(cfg[r])) + 1
<1>. DEFINE c == cfg[r]
<1>1. c \in Configs
  BY DEF TypeOK
<1>2. at[r] \in DOMAIN Plan[c] /\ DOMAIN Plan[c] = 1..Len(Body(c)) + 1
  BY <1>1, PlanShape, OptionTypes DEF TypeOK
<1>3. Here(r) = Plan[c][at[r]] /\ Here(r) \in PlanSteps(c)
  BY <1>1, <1>2, PlanShape DEF Here
<1>4. Here(r).op # "write" => at[r] + 1 \in DOMAIN Plan[c]
  <2>1. CASE at[r] = Len(Body(c)) + 1
    BY <1>1, <1>3, <2>1, PlanShape DEF LastStep, Step
  <2>2. CASE at[r] # Len(Body(c)) + 1
    BY <1>1, <1>2, <2>2, PlanShape
  <2>3. QED  BY <2>1, <2>2
<1>5. Here(r).op = "write" => at[r] = Len(Body(c)) + 1
  <2>1. CASE at[r] \in 1..Len(Body(c))
    <3>1. Here(r) \in BodySteps(c)
      BY <1>1, <1>3, <2>1, PlanShape
    <3>2. Here(r).op # "write"
      BY <3>1
      DEF BodySteps, Ensure, Step, Assigns, Removes
    <3>3. QED  BY <3>2
  <2>2. QED  BY <1>1, <1>2, <2>1, PlanShape
<1>6. QED  BY <1>1, <1>2, <1>3, <1>4, <1>5

----------------------------------------------------------------------------
(* Runs with options d undo nothing of what options c ask for, when d is c or *)
(* no rival of c.                                                            *)

LEMMA OneRepresentation ==
  ASSUME NEW c \in Configs, NEW d \in Configs, d = c \/ ~Rivals(d, c),
         NEW o \in Own(c), o \in Own(d)
  PROVE  Representation(d, o) = Representation(c, o)
<1>1. CASE d = c
  BY <1>1
<1>2. CASE ~Rivals(d, c)
  <2>1. o.kind # "client"
    BY <1>2 DEF Own, Rivals, Realm, Scope, Mapper, Client
  <2>2. QED  BY <2>1, RepresentationShape
<1>3. QED  BY <1>1, <1>2

LEMMA PutKeeps ==
  ASSUME NEW c \in Configs, NEW d \in Configs, d = c \/ ~Rivals(d, c),
         NEW o \in Own(d), NEW s \in PlanSteps(c), Kept(c, s),
         store'[o] # None, store'[o].is = Representation(d, o),
         \A p \in Objects \ {o} : store'[p] = store[p],
         assigned \subseteq assigned'
  PROVE  Kept(c, s)'
<1>1. CASE s.op = "ensure"
  <2>1. s.obj \in Own(c) /\ s.obj \in Objects
    BY <1>1, StepShape, OwnObjects DEF StepOK
  <2>2. CASE s.obj = o
    BY <1>1, <2>1, <2>2, OneRepresentation DEF Kept
  <2>3. CASE s.obj # o
    BY <1>1, <2>1, <2>3 DEF Kept
  <2>4. QED  BY <2>2, <2>3
<1>2. CASE s.op # "ensure"
  BY <1>2 DEF Kept
<1>3. QED  BY <1>1, <1>2

LEMMA DeleteKeeps ==
  ASSUME NEW c \in Configs, NEW d \in Configs, d = c \/ ~Rivals(d, c),
         NEW o \in Unrequired(d), NEW s \in PlanSteps(c), Kept(c, s),
         \A p \in Objects \ {o} : store'[p] = store[p], UNCHANGED assigned
  PROVE  Kept(c, s)'
<1>1. CASE s.op = "ensure"
  <2>1. s.obj \in Own(c) /\ s.obj \in Objects
    BY <1>1, StepShape, OwnObjects DEF StepOK
  <2>2. o \notin Own(c)
    BY DEF Unrequired, Own, Rivals, Realm, Scope, Mapper, Client
  <2>3. QED  BY <1>1, <2>1, <2>2 DEF Kept
<1>2. CASE s.op # "ensure"
  BY <1>2 DEF Kept
<1>3. QED  BY <1>1, <1>2

LEMMA RemoveKeeps ==
  ASSUME NEW c \in Configs, NEW d \in Configs, d = c \/ ~Rivals(d, c),
         NEW gone \in Removes(d), NEW s \in PlanSteps(c), Kept(c, s),
         assigned' = assigned \ {<<gone.client, gone.obj>>}, UNCHANGED store
  PROVE  Kept(c, s)'
<1>1. CASE s.op = "assign"
  <2>1. s \in Assigns(c)
    BY <1>1, StepShape DEF StepOK
  <2>2. PICK k \in ClientKinds, n \in Assigned(c) :
          s = Step("assign", Scope(n), Client(c.clients[k]))
    BY <2>1 DEF Assigns
  <2>3. PICK j \in ClientKinds :
          gone = Step("remove", Scope(d.scope), Client(d.clients[j]))
    BY DEF Removes
  <2>4. ~audienceScopeEnabled(d)
    BY DEF Removes
  <2>5. CASE d = c
    <3>1. n \in WidgetScopes /\ d.scope \in AudienceScopes
      BY <2>4, <2>5, OptionTypes DEF Assigned
    <3>2. s.obj # gone.obj
      BY <2>2, <2>3, <3>1 DEF Step, Scope
    <3>3. QED  BY <1>1, <3>2 DEF Kept
  <2>6. CASE ~Rivals(d, c)
    <3>1. s.client # gone.client
      BY <2>2, <2>3, <2>6 DEF Step, Client, Rivals
    <3>2. QED  BY <1>1, <3>1 DEF Kept
  <2>7. QED  BY <2>5, <2>6
<1>2. CASE s.op # "assign"
  BY <1>2 DEF Kept
<1>3. QED  BY <1>1, <1>2

\* When all of c's plan is kept, its env file can be used.
LEMMA KeptUsable ==
  ASSUME NEW c \in Configs, \A k \in DOMAIN Plan[c] : Kept(c, Plan[c][k])
  PROVE  Usable(FileOf(c))
<1>1. \A s \in Relied(c) : Kept(c, s)
  BY PlanShape
<1>2. ASSUME NEW k \in ClientKinds
      PROVE  /\ store[Client(c.clients[k])] # None
             /\ store[Client(c.clients[k])].is = [as |-> k, address |-> OriginOf(c, k)]
  <2>1. Kept(c, Ensure(Client(c.clients[k])))
    BY <1>1 DEF Relied
  <2>2. QED  BY <2>1, RepresentationShape DEF Kept, Ensure, Step
<1>3. ASSUME NEW k \in BrowserClients, NEW s \in WidgetScopes
      PROVE  <<Client(c.clients[k]), Scope(s)>> \in assigned
  <2>1. Kept(c, Step("assign", Scope(s), Client(c.clients[k])))
    BY <1>1 DEF Relied
  <2>2. QED  BY <2>1 DEF Kept, Step
<1>. DEFINE f == FileOf(c)
<1>4. ClientsReady(f)
  <2>1. f.clients = c.clients /\ f.origins = c.origins
    BY DEF FileOf
  <2>2. ASSUME NEW k \in ClientKinds
        PROVE  /\ store[Client(c.clients[k])] # None
               /\ store[Client(c.clients[k])].is.as = k
               /\ store[Client(c.clients[k])].is.address = OriginOf(c, k)
    <3>. DEFINE client == store[Client(c.clients[k])]
    <3>1. client # None /\ client.is = [as |-> k, address |-> OriginOf(c, k)]
      BY <1>2
    <3>. HIDE DEF client
    <3>2. client.is.as = k /\ client.is.address = OriginOf(c, k)
      BY <3>1
    <3>3. QED  BY <3>1, <3>2 DEF client
  <2>3. \A k \in BrowserClients : k \in ClientKinds /\ OriginOf(c, k) = c.origins[k]
    BY DEF ClientKinds, OriginOf
  <2>. HIDE DEF f
  <2>4. QED  BY <1>3, <2>1, <2>2, <2>3 DEF ClientsReady
<1>5. ASSUME audienceScopeEnabled(c)
      PROVE  AudiencesReady(f)
  <2>1. ASSUME NEW k \in AudienceClients
        PROVE  <<Client(c.clients[k]), Scope(c.scope)>> \in assigned
    <3>1. Kept(c, Step("assign", Scope(c.scope), Client(c.clients[k])))
      BY <1>1, <1>5 DEF Relied
    <3>2. QED  BY <3>1 DEF Kept, Step
  <2>2. ASSUME NEW a \in Required(c)
        PROVE  /\ store[Mapper(c.scope, a)] # None
               /\ store[Mapper(c.scope, a)].is = Generated
    <3>1. Kept(c, Ensure(Mapper(c.scope, a)))
      BY <1>1, <1>5 DEF Relied
    <3>2. Mapper(c.scope, a).kind # "client"
      BY DEF Mapper
    <3>3. QED  BY <3>1, <3>2, RepresentationShape DEF Kept, Ensure, Step
  <2>3. f.clients = c.clients /\ f.scope = c.scope /\ f.audiences = Required(c)
    BY <1>5 DEF FileOf
  <2>. HIDE DEF f
  <2>4. QED  BY <2>1, <2>2, <2>3 DEF AudiencesReady
<1>6. f.scope # None => audienceScopeEnabled(c)
  BY DEF FileOf
<1>. HIDE DEF f
<1>7. QED  BY <1>4, <1>5, <1>6 DEF Usable, f

----------------------------------------------------------------------------
(* Steps.                                                                  *)

\* What the locals of a run become.
LEMMA Advances ==
  ASSUME TypeOK, ProgressKept, NEW r \in Runs, status[r] = "running",
         Here(r).op # "write", Advance(r), UNCHANGED <<status, cfg>>
  PROVE  /\ at' \in [Runs -> Nat]
         /\ \A q \in Runs : cfg'[q] # None => at'[q] \in DOMAIN Plan[cfg'[q]]
         /\ phase' \in [Runs -> {"look", "put"}]
         /\ seen' \in [Runs -> Made \cup {None}]
         /\ obsolete' \in [Runs -> SUBSET [obj : Mappers, by : Runs \cup {None}]]
         /\ \A q \in Runs : RunOK(q)'
         /\ \A q \in Runs \ {r} : at'[q] = at[q]
         /\ at'[r] = at[r] + 1
<1>1. cfg[r] \in Configs /\ at[r] + 1 \in DOMAIN Plan[cfg[r]] /\ at[r] \in Nat
  BY HereShape DEF TypeOK
<1>2. /\ at' \in [Runs -> Nat] /\ at'[r] = at[r] + 1
      /\ \A q \in Runs \ {r} : at'[q] = at[q]
  BY <1>1 DEF Advance, TypeOK
<1>3. \A q \in Runs : cfg'[q] # None => at'[q] \in DOMAIN Plan[cfg'[q]]
  BY <1>1, <1>2 DEF TypeOK
<1>4. /\ phase' \in [Runs -> {"look", "put"}]
      /\ seen' \in [Runs -> Made \cup {None}]
      /\ obsolete' \in [Runs -> SUBSET [obj : Mappers, by : Runs \cup {None}]]
  BY DEF Advance, TypeOK
<1>5. obsolete'[r] = {} /\ \A q \in Runs \ {r} : obsolete'[q] = obsolete[q]
  BY DEF Advance, TypeOK
<1>6. \A q \in Runs : RunOK(q)'
  BY <1>2, <1>5 DEF ProgressKept, RunOK
<1>7. QED  BY <1>2, <1>3, <1>4, <1>6

LEMMA Ends ==
  ASSUME TypeOK, ProgressKept, NEW r \in Runs, status[r] = "running",
         NEW how \in {"done", "refused", "stopped"}, End(r, how), UNCHANGED cfg
  PROVE  /\ status' \in [Runs -> {"idle", "running", "done", "refused", "stopped"}]
         /\ \A q \in Runs : status'[q] # "idle" => cfg'[q] # None
         /\ at' \in [Runs -> Nat]
         /\ \A q \in Runs : cfg'[q] # None => at'[q] \in DOMAIN Plan[cfg'[q]]
         /\ phase' \in [Runs -> {"look", "put"}]
         /\ seen' \in [Runs -> Made \cup {None}]
         /\ obsolete' \in [Runs -> SUBSET [obj : Mappers, by : Runs \cup {None}]]
         /\ found' \in [Runs -> BOOLEAN]
         /\ \A q \in Runs : RunOK(q)'
         /\ \A q \in Runs \ {r} : at'[q] = at[q]
         /\ at'[r] = 1
<1>1. cfg[r] \in Configs /\ 1 \in DOMAIN Plan[cfg[r]]
  BY HereShape, PlanShape
<1>2. /\ at' \in [Runs -> Nat] /\ at'[r] = 1
      /\ \A q \in Runs \ {r} : at'[q] = at[q]
  BY DEF End, TypeOK
<1>3. \A q \in Runs : cfg'[q] # None => at'[q] \in DOMAIN Plan[cfg'[q]]
  BY <1>1, <1>2 DEF TypeOK
<1>4. /\ status' \in [Runs -> {"idle", "running", "done", "refused", "stopped"}]
      /\ \A q \in Runs : status'[q] # "idle" => cfg'[q] # None
      /\ status'[r] = how /\ \A q \in Runs \ {r} : status'[q] = status[q]
  BY DEF End, TypeOK
<1>5. /\ phase' \in [Runs -> {"look", "put"}]
      /\ seen' \in [Runs -> Made \cup {None}]
      /\ obsolete' \in [Runs -> SUBSET [obj : Mappers, by : Runs \cup {None}]]
      /\ found' \in [Runs -> BOOLEAN]
  BY DEF End, TypeOK
<1>6. obsolete'[r] = {} /\ \A q \in Runs \ {r} : obsolete'[q] = obsolete[q]
  BY DEF End, TypeOK
<1>7. \A q \in Runs : RunOK(q)'
  BY <1>1, <1>2, <1>4, <1>6, OptionTypes DEF ProgressKept, RunOK
<1>8. QED  BY <1>2, <1>3, <1>4, <1>5, <1>7

\* A step of run r keeps what all runs have done, if it undoes nothing of options
\* that have no rival, and passes its own step only when that is done.
LEMMA StepKeeps ==
  ASSUME TypeOK, ProgressKept, NEW r \in Runs, status[r] = "running",
         UNCHANGED cfg, \A q \in Runs : RunOK(q)',
         \A q \in Runs \ {r} : at'[q] = at[q],
         \/ at'[r] \in {1, at[r]}
         \/ /\ at'[r] = at[r] + 1
            /\ \A s : s = Here(r) => Kept(cfg[r], s)',
         \A c \in Configs : \A s :
           /\ cfg[r] = c \/ ~Rivals(cfg[r], c)
           /\ s \in PlanSteps(c) /\ Kept(c, s)
           => Kept(c, s)',
         \A e \in EnvFiles :
           \/ file'[e] = file[e]
           \/ /\ e = cfg[r].envFile /\ file'[e] \in {FileOf(cfg[r]), Torn}
              /\ Here(r).op = "write"
  PROVE  ProgressKept'
<1>1. SUFFICES ASSUME NEW c \in Configs, OnlyRun(c)'
               PROVE  WorkKept(c)'
  BY DEF ProgressKept
<1>2. OnlyRun(c) /\ WorkKept(c)
  BY <1>1 DEF OnlyRun, ProgressKept
<1>3. cfg[r] \in Configs /\ at[r] \in Nat \ {0} /\ Here(r) = Plan[cfg[r]][at[r]]
  BY HereShape
<1>4. cfg[r] = c \/ ~Rivals(cfg[r], c)
  BY <1>2, <1>3, OptionTypes DEF OnlyRun
<1>5. ASSUME NEW k \in DOMAIN Plan[c], Kept(c, Plan[c][k])
      PROVE  Kept(c, Plan[c][k])'
  <2>1. Plan[c][k] \in PlanSteps(c)
    BY PlanShape
  <2>2. QED  BY <1>4, <1>5, <2>1
<1>6. ASSUME NEW q \in Runs, cfg'[q] = c, NEW k \in DOMAIN Plan[c], k < at'[q]
      PROVE  Kept(c, Plan[c][k])'
  <2>1. k \in Nat \ {0} /\ cfg[q] = c
    BY <1>6, PlanShape
  <2>2. CASE k < at[q]
    BY <1>2, <1>5, <1>6, <2>1, <2>2 DEF WorkKept
  <2>3. CASE ~(k < at[q])
    <3>1. /\ q = r /\ at'[r] = at[r] + 1
          /\ \A s : s = Here(r) => Kept(cfg[r], s)'
      BY <1>3, <1>6, <2>1, <2>3
    <3>2. k = at[r]
      BY <1>3, <1>6, <2>1, <2>3, <3>1
    <3>3. QED
      <4>1. Here(r) = Plan[c][k]
        BY <1>3, <2>1, <3>1, <3>2
      <4>2. Kept(cfg[r], Plan[c][k])'
        BY <3>1, <4>1
      <4>3. QED  BY <2>1, <3>1, <4>2 DEF Kept
  <2>4. QED  BY <2>2, <2>3
<1>7. ASSUME file'[c.envFile] # None
      PROVE  /\ file'[c.envFile] \in {FileOf(c), Torn}
             /\ \A k \in DOMAIN Plan[c] : Kept(c, Plan[c][k])'
  <2>1. c.envFile \in EnvFiles
    BY OptionTypes
  <2>2. CASE file'[c.envFile] = file[c.envFile]
    BY <1>2, <1>5, <1>7, <2>2 DEF WorkKept
  <2>3. CASE /\ c.envFile = cfg[r].envFile
             /\ file'[c.envFile] \in {FileOf(cfg[r]), Torn}
             /\ Here(r).op = "write"
    <3>1. cfg[r] = c
      BY <1>4, <2>3 DEF Rivals
    <3>2. at[r] = Len(Body(c)) + 1
      BY <2>3, <3>1, HereShape
    <3>3. ASSUME NEW k \in DOMAIN Plan[c]
          PROVE  Kept(c, Plan[c][k])
      <4>1. CASE k < at[r]
        BY <1>2, <3>1, <4>1 DEF WorkKept
      <4>2. CASE ~(k < at[r])
        <5>1. k = Len(Body(c)) + 1
          BY <3>2, <4>2, PlanShape
        <5>2. Plan[c][k] = LastStep
          BY <5>1, PlanShape
        <5>3. QED  BY <5>2 DEF Kept, LastStep, Step
      <4>3. QED  BY <4>1, <4>2
    <3>4. QED  BY <1>5, <2>3, <3>1, <3>3
  <2>4. QED  BY <1>7, <2>1, <2>2, <2>3
<1>8. QED  BY <1>6, <1>7 DEF WorkKept

LEMMA StartKeeps ==
  ASSUME TypeOK, ProgressKept, NEW r \in Runs, Start(r)
  PROVE  TypeOK' /\ ProgressKept'
<1>1. PICK d \in Configs : cfg' = [cfg EXCEPT ![r] = d]
  BY DEF Start
<1>2. /\ status[r] = "idle" /\ status' = [status EXCEPT ![r] = "running"]
      /\ UNCHANGED <<keycloak, locals>>
      /\ cfg[r] = None /\ at[r] = 1 /\ obsolete[r] = {}
  BY DEF Start, ProgressKept, RunOK
<1>3. /\ cfg' \in [Runs -> Configs \cup {None}] /\ cfg'[r] = d /\ d # None
      /\ \A q \in Runs \ {r} : cfg'[q] = cfg[q] /\ status'[q] = status[q]
      /\ status'[r] = "running"
  BY <1>1, <1>2, OptionTypes DEF TypeOK
<1>4. meets' \in [Runs -> SUBSET Runs]
  <2>1. Active \in SUBSET Runs
    BY DEF Active
  <2>2. \A q \in Runs :
          (CASE q = r -> Active [] q # r /\ status[q] = "idle" -> {}
             [] OTHER -> meets[q] \cup {r}) \in SUBSET Runs
    BY <2>1 DEF TypeOK
  <2>3. QED  BY <2>2 DEF Start
<1>5. 1 \in DOMAIN Plan[d]
  BY PlanShape
<1>6. TypeOK'
  BY <1>2, <1>3, <1>4, <1>5 DEF TypeOK, keycloak, locals
<1>7. \A q \in Runs : RunOK(q)'
  BY <1>2, <1>3 DEF ProgressKept, RunOK, locals
<1>8. ASSUME NEW c \in Configs, OnlyRun(c)'
      PROVE  WorkKept(c)'
  <2>1. OnlyRun(c)
    BY <1>2, <1>3, <1>8 DEF OnlyRun
  <2>2. WorkKept(c)
    BY <2>1 DEF ProgressKept
  <2>3. \A s : Kept(c, s)' <=> Kept(c, s)
    BY <1>2 DEF Kept, keycloak
  <2>4. ASSUME NEW q \in Runs, cfg'[q] = c, NEW k \in DOMAIN Plan[c], k < at'[q]
        PROVE  Kept(c, Plan[c][k])'
    <3>1. CASE q = r
      <4>1. k \in Nat \ {0} /\ at'[q] = 1
        BY <1>2, <3>1, PlanShape DEF locals
      <4>2. QED  BY <2>4, <4>1
    <3>2. CASE q # r
      BY <1>2, <1>3, <2>2, <2>3, <2>4, <3>2 DEF WorkKept, locals
    <3>3. QED  BY <3>1, <3>2
  <2>5. file'[c.envFile] # None =>
          /\ file'[c.envFile] \in {FileOf(c), Torn}
          /\ \A k \in DOMAIN Plan[c] : Kept(c, Plan[c][k])'
    BY <1>2, <2>2, <2>3 DEF WorkKept, keycloak
  <2>6. QED  BY <2>4, <2>5 DEF WorkKept
<1>9. QED  BY <1>6, <1>7, <1>8 DEF ProgressKept

\* A call that changes nothing in Keycloak and passes its step, or does not.
LEMMA QuietKeeps ==
  ASSUME TypeOK, ProgressKept, NEW r \in Runs, status[r] = "running",
         UNCHANGED <<store, assigned, cfg>>, \A q \in Runs : RunOK(q)',
         \A q \in Runs \ {r} : at'[q] = at[q],
         \/ at'[r] \in {1, at[r]}
         \/ at'[r] = at[r] + 1 /\ Here(r).op \notin {"ensure", "assign"},
         \A e \in EnvFiles :
           \/ file'[e] = file[e]
           \/ /\ e = cfg[r].envFile /\ file'[e] \in {FileOf(cfg[r]), Torn}
              /\ Here(r).op = "write"
  PROVE  ProgressKept'
<1>1. \A c \in Configs : \A s :
        /\ cfg[r] = c \/ ~Rivals(cfg[r], c)
        /\ s \in PlanSteps(c) /\ Kept(c, s)
        => Kept(c, s)'
  BY DEF Kept
<1>2. Here(r).op \notin {"ensure", "assign"} =>
        \A s : s = Here(r) => Kept(cfg[r], s)'
  BY DEF Kept
<1>3. QED  BY <1>1, <1>2, StepKeeps

LEMMA QuietCallsKeep ==
  ASSUME TypeOK, ProgressKept, NEW r \in Runs, Look(r) \/ Lookup(r) \/ Pass(r)
  PROVE  TypeOK' /\ ProgressKept'
<1>1. status[r] = "running" /\ UNCHANGED <<keycloak, cfg, status, meets>>
  BY DEF Look, Lookup, Pass, Calls
<1>2. cfg[r] \in Configs /\ Here(r) \in PlanSteps(cfg[r])
  BY <1>1, HereShape
<1>3. CASE Look(r)
  <2>1. seen' \in [Runs -> Made \cup {None}]
    <3>1. Here(r).obj \in Objects
      BY <1>2, <1>3, StepShape, OwnObjects DEF Look, Calls, StepOK
    <3>2. Found(Here(r).obj) \in Made \cup {None}
      BY <3>1 DEF Found, TypeOK
    <3>3. QED  BY <1>3, <3>2 DEF Look, TypeOK
  <2>2. phase' \in [Runs -> {"look", "put"}] /\ UNCHANGED <<at, obsolete, found>>
    BY <1>3 DEF Look, TypeOK
  <2>3. TypeOK'
    BY <1>1, <2>1, <2>2 DEF TypeOK, keycloak
  <2>4. \A q \in Runs : RunOK(q)'
    BY <1>1, <2>2 DEF ProgressKept, RunOK
  <2>5. ProgressKept'
    BY <1>1, <2>2, <2>4, QuietKeeps DEF keycloak
  <2>6. QED  BY <2>3, <2>5
<1>4. CASE Lookup(r) \/ Pass(r)
  <2>1. Here(r).op \in {"find", "prune", "remove"} /\ Advance(r)
    BY <1>4 DEF Lookup, Pass, Calls
  <2>2. found' \in [Runs -> BOOLEAN]
    BY <1>4 DEF Lookup, Pass, TypeOK
  <2>3. /\ at' \in [Runs -> Nat]
        /\ \A q \in Runs : cfg'[q] # None => at'[q] \in DOMAIN Plan[cfg'[q]]
        /\ phase' \in [Runs -> {"look", "put"}]
        /\ seen' \in [Runs -> Made \cup {None}]
        /\ obsolete' \in [Runs -> SUBSET [obj : Mappers, by : Runs \cup {None}]]
        /\ \A q \in Runs : RunOK(q)'
        /\ \A q \in Runs \ {r} : at'[q] = at[q]
        /\ at'[r] = at[r] + 1
    BY <1>1, <2>1, Advances
  <2>4. TypeOK'
    BY <1>1, <2>2, <2>3 DEF TypeOK, keycloak
  <2>5. ProgressKept'
    BY <1>1, <2>1, <2>3, QuietKeeps DEF keycloak
  <2>6. QED  BY <2>4, <2>5
<1>5. QED  BY <1>3, <1>4

LEMMA PutCallsKeep ==
  ASSUME TypeOK, ProgressKept, NEW r \in Runs, Create(r) \/ Update(r)
  PROVE  TypeOK' /\ ProgressKept'
<1>. DEFINE d == cfg[r]
            o == Here(r).obj
<1>1. /\ status[r] = "running" /\ Here(r).op = "ensure" /\ Advance(r)
      /\ UNCHANGED <<assigned, file, status, cfg, found, meets>>
  BY DEF Create, Update, Calls
<1>2. d \in Configs /\ Here(r) \in PlanSteps(d) /\ Here(r).op # "write"
  BY <1>1, HereShape
<1>3. o \in Own(d) /\ o \in Objects /\ Representation(d, o) \in Settings
  BY <1>1, <1>2, StepShape, OwnObjects DEF StepOK
<1>4. /\ store' \in [Objects -> Made \cup {None}]
      /\ store'[o] # None /\ store'[o].is = Representation(d, o)
      /\ \A p \in Objects \ {o} : store'[p] = store[p]
  <2>1. CASE Create(r)
    <3>1. store' = [store EXCEPT ![o] = [is |-> Representation(d, o), by |-> r]]
      BY <2>1 DEF Create
    <3>2. [is |-> Representation(d, o), by |-> r] \in Made
      BY <1>3 DEF Made
    <3>3. QED  BY <1>3, <3>1, <3>2 DEF TypeOK
  <2>2. CASE Update(r)
    <3>1. /\ store' = [store EXCEPT ![o] =
                         [store[o] EXCEPT !.is = Representation(d, o)]]
          /\ store[o] # None
      BY <2>2 DEF Update, SameObject
    <3>2. store[o] \in Made
      BY <1>3, <3>1 DEF TypeOK
    <3>3. /\ [store[o] EXCEPT !.is = Representation(d, o)] \in Made
          /\ [store[o] EXCEPT !.is = Representation(d, o)].is = Representation(d, o)
      BY <1>3, <3>2 DEF Made
    <3>4. QED  BY <1>3, <3>1, <3>3 DEF TypeOK
  <2>3. QED  BY <2>1, <2>2
<1>5. /\ at' \in [Runs -> Nat]
      /\ \A q \in Runs : cfg'[q] # None => at'[q] \in DOMAIN Plan[cfg'[q]]
      /\ phase' \in [Runs -> {"look", "put"}]
      /\ seen' \in [Runs -> Made \cup {None}]
      /\ obsolete' \in [Runs -> SUBSET [obj : Mappers, by : Runs \cup {None}]]
      /\ \A q \in Runs : RunOK(q)'
      /\ \A q \in Runs \ {r} : at'[q] = at[q]
      /\ at'[r] = at[r] + 1
  BY <1>1, <1>2, Advances
<1>6. TypeOK'
  BY <1>1, <1>4, <1>5 DEF TypeOK
<1>7. \A c \in Configs : \A s :
        /\ d = c \/ ~Rivals(d, c)
        /\ s \in PlanSteps(c) /\ Kept(c, s)
        => Kept(c, s)'
  BY <1>1, <1>2, <1>3, <1>4, PutKeeps
<1>8. \A s : s = Here(r) => Kept(d, s)'
  BY <1>1, <1>4 DEF Kept
<1>9. ProgressKept'
  BY <1>1, <1>5, <1>7, <1>8, StepKeeps
<1>10. QED  BY <1>6, <1>9

LEMMA ListKeeps ==
  ASSUME TypeOK, ProgressKept, NEW r \in Runs, List(r)
  PROVE  TypeOK' /\ ProgressKept'
<1>. DEFINE gone == ObsoleteMappers(cfg[r])
<1>1. /\ status[r] = "running" /\ Here(r).op = "prune"
      /\ UNCHANGED <<keycloak, status, cfg, found, meets>>
  BY DEF List, Calls
<1>2. cfg[r] \in Configs
  BY <1>1, HereShape
<1>3. CASE Advance(r)
  <2>1. /\ at' \in [Runs -> Nat]
        /\ \A q \in Runs : cfg'[q] # None => at'[q] \in DOMAIN Plan[cfg'[q]]
        /\ phase' \in [Runs -> {"look", "put"}]
        /\ seen' \in [Runs -> Made \cup {None}]
        /\ obsolete' \in [Runs -> SUBSET [obj : Mappers, by : Runs \cup {None}]]
        /\ \A q \in Runs : RunOK(q)'
        /\ \A q \in Runs \ {r} : at'[q] = at[q]
        /\ at'[r] = at[r] + 1
    BY <1>1, <1>3, Advances
  <2>2. TypeOK'
    BY <1>1, <2>1 DEF TypeOK, keycloak
  <2>3. ProgressKept'
    BY <1>1, <2>1, QuietKeeps DEF keycloak
  <2>4. QED  BY <2>2, <2>3
<1>4. CASE ~Advance(r)
  <2>1. /\ obsolete' = [obsolete EXCEPT ![r] =
                          {[obj |-> o, by |-> store[o].by] : o \in gone}]
        /\ phase' = [phase EXCEPT ![r] = "put"]
        /\ UNCHANGED <<at, seen>>
    BY <1>4 DEF List
  <2>2. \A o \in gone : o \in Unrequired(cfg[r]) /\ store[o] \in Made
    <3>1. \A o \in gone : o \in Unrequired(cfg[r]) /\ store[o] # None
      BY DEF ObsoleteMappers, Unrequired
    <3>2. QED  BY <1>2, <3>1, OwnObjects DEF TypeOK
  <2>3. \A o \in gone : [obj |-> o, by |-> store[o].by]
                          \in [obj : Mappers, by : Runs \cup {None}]
    BY <1>2, <2>2, OwnObjects DEF Made
  <2>4. TypeOK'
    <3>1. obsolete' \in [Runs -> SUBSET [obj : Mappers, by : Runs \cup {None}]]
      BY <2>1, <2>3 DEF TypeOK
    <3>2. QED  BY <1>1, <2>1, <3>1 DEF TypeOK, keycloak
  <2>5. \A q \in Runs : RunOK(q)'
    <3>1. /\ \A m \in obsolete'[r] : m.obj \in Unrequired(cfg[r])
          /\ \A q \in Runs \ {r} : obsolete'[q] = obsolete[q]
      BY <2>1, <2>2 DEF TypeOK
    <3>2. QED  BY <1>1, <2>1, <3>1 DEF ProgressKept, RunOK
  <2>6. ProgressKept'
    BY <1>1, <2>1, <2>5, QuietKeeps DEF keycloak
  <2>7. QED  BY <2>4, <2>6
<1>5. QED  BY <1>3, <1>4

LEMMA DeleteCallKeeps ==
  ASSUME TypeOK, ProgressKept, NEW r \in Runs, Delete(r)
  PROVE  TypeOK' /\ ProgressKept'
<1>. DEFINE d == cfg[r]
<1>1. /\ status[r] = "running" /\ Here(r).op = "prune"
      /\ UNCHANGED <<assigned, file, status, cfg, found, meets>>
  BY DEF Delete, Calls
<1>2. PICK m \in obsolete[r] :
        /\ store' = [store EXCEPT ![m.obj] = None]
        /\ \/ Advance(r)
           \/ /\ obsolete' = [obsolete EXCEPT ![r] = @ \ {m}]
              /\ UNCHANGED <<at, phase, seen>>
  BY DEF Delete
<1>3. d \in Configs /\ m.obj \in Unrequired(d)
  BY <1>1, HereShape DEF ProgressKept, RunOK
<1>4. /\ m.obj \in Objects
      /\ store' \in [Objects -> Made \cup {None}]
      /\ \A p \in Objects \ {m.obj} : store'[p] = store[p]
  BY <1>2, <1>3, OwnObjects DEF TypeOK
<1>5. \A c \in Configs : \A s :
        /\ d = c \/ ~Rivals(d, c)
        /\ s \in PlanSteps(c) /\ Kept(c, s)
        => Kept(c, s)'
  BY <1>1, <1>3, <1>4, DeleteKeeps
<1>6. CASE Advance(r)
  <2>1. /\ at' \in [Runs -> Nat]
        /\ \A q \in Runs : cfg'[q] # None => at'[q] \in DOMAIN Plan[cfg'[q]]
        /\ phase' \in [Runs -> {"look", "put"}]
        /\ seen' \in [Runs -> Made \cup {None}]
        /\ obsolete' \in [Runs -> SUBSET [obj : Mappers, by : Runs \cup {None}]]
        /\ \A q \in Runs : RunOK(q)'
        /\ \A q \in Runs \ {r} : at'[q] = at[q]
        /\ at'[r] = at[r] + 1
    BY <1>1, <1>6, Advances
  <2>2. TypeOK'
    BY <1>1, <1>4, <2>1 DEF TypeOK
  <2>3. \A s : s = Here(r) => Kept(d, s)'
    BY <1>1 DEF Kept
  <2>4. ProgressKept'
    BY <1>1, <1>5, <2>1, <2>3, StepKeeps
  <2>5. QED  BY <2>2, <2>4
<1>7. CASE ~Advance(r)
  <2>1. /\ obsolete' = [obsolete EXCEPT ![r] = @ \ {m}]
        /\ UNCHANGED <<at, phase, seen>>
    BY <1>2, <1>7
  <2>2. TypeOK'
    <3>1. obsolete' \in [Runs -> SUBSET [obj : Mappers, by : Runs \cup {None}]]
      BY <2>1 DEF TypeOK
    <3>2. QED  BY <1>1, <1>4, <2>1, <3>1 DEF TypeOK
  <2>3. \A q \in Runs : RunOK(q)'
    <3>1. \A q \in Runs : obsolete'[q] \subseteq obsolete[q]
      BY <2>1 DEF TypeOK
    <3>2. QED  BY <1>1, <2>1, <3>1 DEF ProgressKept, RunOK
  <2>4. ProgressKept'
    BY <1>1, <1>5, <2>1, <2>3, StepKeeps
  <2>5. QED  BY <2>2, <2>4
<1>8. QED  BY <1>6, <1>7

LEMMA AssignCallsKeep ==
  ASSUME TypeOK, ProgressKept, NEW r \in Runs,
         assignOptionalClientScope(r) \/ removeOptionalClientScope(r)
  PROVE  TypeOK' /\ ProgressKept'
<1>. DEFINE d == cfg[r]
            pair == <<Here(r).client, Here(r).obj>>
<1>1. /\ status[r] = "running" /\ Advance(r)
      /\ Here(r).op \in {"assign", "remove"}
      /\ UNCHANGED <<store, file, status, cfg, found, meets>>
  BY DEF assignOptionalClientScope, removeOptionalClientScope, Calls
<1>2. d \in Configs /\ Here(r) \in PlanSteps(d) /\ Here(r).op # "write"
  BY <1>1, HereShape
<1>3. Here(r).client \in Clients /\ Here(r).obj \in {Scope(s) : s \in ScopeNames}
  BY <1>1, <1>2, StepShape DEF StepOK
<1>4. /\ at' \in [Runs -> Nat]
      /\ \A q \in Runs : cfg'[q] # None => at'[q] \in DOMAIN Plan[cfg'[q]]
      /\ phase' \in [Runs -> {"look", "put"}]
      /\ seen' \in [Runs -> Made \cup {None}]
      /\ obsolete' \in [Runs -> SUBSET [obj : Mappers, by : Runs \cup {None}]]
      /\ \A q \in Runs : RunOK(q)'
      /\ \A q \in Runs \ {r} : at'[q] = at[q]
      /\ at'[r] = at[r] + 1
  BY <1>1, <1>2, Advances
<1>5. CASE assignOptionalClientScope(r)
  <2>1. assigned' = assigned \cup {pair}
    BY <1>5 DEF assignOptionalClientScope
  <2>2. TypeOK'
    BY <1>1, <1>3, <1>4, <2>1 DEF TypeOK
  <2>3. \A c \in Configs : \A s : Kept(c, s) => Kept(c, s)'
    BY <1>1, <2>1 DEF Kept
  <2>4. \A s : s = Here(r) => Kept(d, s)'
    BY <1>5, <2>1 DEF Kept, assignOptionalClientScope, Calls
  <2>5. ProgressKept'
    BY <1>1, <1>4, <2>3, <2>4, StepKeeps
  <2>6. QED  BY <2>2, <2>5
<1>6. CASE removeOptionalClientScope(r)
  <2>1. assigned' = assigned \ {pair} /\ Here(r).op = "remove"
    BY <1>6 DEF removeOptionalClientScope, Calls
  <2>2. TypeOK'
    BY <1>1, <1>4, <2>1 DEF TypeOK
  <2>3. Here(r) \in Removes(d)
    BY <1>2, <2>1, StepShape DEF StepOK
  <2>4. \A c \in Configs : \A s :
          /\ d = c \/ ~Rivals(d, c)
          /\ s \in PlanSteps(c) /\ Kept(c, s)
          => Kept(c, s)'
    BY <1>1, <1>2, <2>1, <2>3, RemoveKeeps
  <2>5. \A s : s = Here(r) => Kept(d, s)'
    BY <2>1 DEF Kept
  <2>6. ProgressKept'
    BY <1>1, <1>4, <2>4, <2>5, StepKeeps
  <2>7. QED  BY <2>2, <2>6
<1>7. QED  BY <1>5, <1>6

LEMMA FileCallsKeep ==
  ASSUME TypeOK, ProgressKept, NEW r \in Runs, OpenFile(r) \/ WriteFile(r)
  PROVE  TypeOK' /\ ProgressKept'
<1>1. /\ status[r] = "running" /\ Here(r).op = "write"
      /\ UNCHANGED <<store, assigned, cfg, meets>>
  BY DEF OpenFile, WriteFile, Calls
<1>2. cfg[r] \in Configs
  BY <1>1, HereShape
<1>3. CASE OpenFile(r)
  <2>1. /\ file' = [file EXCEPT ![cfg[r].envFile] = Torn]
        /\ phase' = [phase EXCEPT ![r] = "put"]
        /\ UNCHANGED <<status, at, seen, obsolete, found>>
    BY <1>3 DEF OpenFile
  <2>2. TypeOK'
    BY <1>1, <2>1 DEF TypeOK
  <2>3. \A q \in Runs : RunOK(q)'
    BY <1>1, <2>1 DEF ProgressKept, RunOK
  <2>4. \A e \in EnvFiles :
          \/ file'[e] = file[e]
          \/ e = cfg[r].envFile /\ file'[e] = Torn
    BY <2>1 DEF TypeOK
  <2>5. ProgressKept'
    BY <1>1, <2>1, <2>3, <2>4, QuietKeeps
  <2>6. QED  BY <2>2, <2>5
<1>4. CASE WriteFile(r)
  <2>1. file' = [file EXCEPT ![cfg[r].envFile] = FileOf(cfg[r])] /\ End(r, "done")
    BY <1>4 DEF WriteFile
  <2>2. /\ status' \in [Runs -> {"idle", "running", "done", "refused", "stopped"}]
        /\ \A q \in Runs : status'[q] # "idle" => cfg'[q] # None
        /\ at' \in [Runs -> Nat]
        /\ \A q \in Runs : cfg'[q] # None => at'[q] \in DOMAIN Plan[cfg'[q]]
        /\ phase' \in [Runs -> {"look", "put"}]
        /\ seen' \in [Runs -> Made \cup {None}]
        /\ obsolete' \in [Runs -> SUBSET [obj : Mappers, by : Runs \cup {None}]]
        /\ found' \in [Runs -> BOOLEAN]
        /\ \A q \in Runs : RunOK(q)'
        /\ \A q \in Runs \ {r} : at'[q] = at[q]
        /\ at'[r] = 1
    BY <1>1, <2>1, Ends
  <2>3. FileOf(cfg[r]) \in Files
    BY <1>2, OptionTypes DEF FileOf, Files
  <2>4. TypeOK'
    BY <1>1, <2>1, <2>2, <2>3 DEF TypeOK
  <2>5. \A e \in EnvFiles :
          \/ file'[e] = file[e]
          \/ e = cfg[r].envFile /\ file'[e] = FileOf(cfg[r])
    BY <2>1 DEF TypeOK
  <2>6. ProgressKept'
    BY <1>1, <2>2, <2>5, QuietKeeps
  <2>7. QED  BY <2>4, <2>6
<1>5. QED  BY <1>3, <1>4

LEMMA EndingsKeep ==
  ASSUME TypeOK, ProgressKept, NEW r \in Runs, Refuse(r) \/ Stop(r)
  PROVE  TypeOK' /\ ProgressKept'
<1>1. status[r] = "running" /\ UNCHANGED <<keycloak, cfg, meets>>
  BY DEF Refuse, Refused, Stop, Calls
<1>2. PICK how \in {"refused", "stopped"} : End(r, how)
  BY DEF Refuse, Stop
<1>3. /\ status' \in [Runs -> {"idle", "running", "done", "refused", "stopped"}]
      /\ \A q \in Runs : status'[q] # "idle" => cfg'[q] # None
      /\ at' \in [Runs -> Nat]
      /\ \A q \in Runs : cfg'[q] # None => at'[q] \in DOMAIN Plan[cfg'[q]]
      /\ phase' \in [Runs -> {"look", "put"}]
      /\ seen' \in [Runs -> Made \cup {None}]
      /\ obsolete' \in [Runs -> SUBSET [obj : Mappers, by : Runs \cup {None}]]
      /\ found' \in [Runs -> BOOLEAN]
      /\ \A q \in Runs : RunOK(q)'
      /\ \A q \in Runs \ {r} : at'[q] = at[q]
      /\ at'[r] = 1
  BY <1>1, <1>2, Ends
<1>4. TypeOK'
  BY <1>1, <1>3 DEF TypeOK, keycloak
<1>5. ProgressKept'
  BY <1>1, <1>3, QuietKeeps DEF keycloak
<1>6. QED  BY <1>4, <1>5

----------------------------------------------------------------------------
\* The types, and that nothing a run has passed is undone by runs of the same
\* options or of options that are no rivals, in every state.
THEOREM ProgressAlways == Spec => [](TypeOK /\ ProgressKept)
<1>1. Init => TypeOK /\ ProgressKept
  <2>. SUFFICES ASSUME Init PROVE TypeOK /\ ProgressKept
    OBVIOUS
  <2>1. TypeOK
    BY DEF Init, TypeOK
  <2>2. \A r \in Runs : RunOK(r)
    BY DEF Init, RunOK
  <2>3. ASSUME NEW c \in Configs
        PROVE  WorkKept(c)
    BY OptionTypes DEF Init, WorkKept
  <2>4. QED  BY <2>1, <2>2, <2>3 DEF ProgressKept
<1>2. TypeOK /\ ProgressKept /\ [Next]_vars => (TypeOK /\ ProgressKept)'
  <2>. SUFFICES ASSUME TypeOK, ProgressKept, [Next]_vars
                PROVE  TypeOK' /\ ProgressKept'
    OBVIOUS
  <2>1. CASE UNCHANGED vars
    <3>1. TypeOK'
      BY <2>1 DEF vars, keycloak, locals, TypeOK
    <3>2. /\ \A r \in Runs : RunOK(r)'
          /\ \A c \in Configs : OnlyRun(c)' <=> OnlyRun(c)
          /\ \A c \in Configs : WorkKept(c) => WorkKept(c)'
      BY <2>1
      DEF vars, keycloak, locals, ProgressKept, RunOK, OnlyRun, WorkKept, Kept
    <3>3. QED  BY <3>1, <3>2 DEF ProgressKept
  <2>2. ASSUME NEW r \in Runs, Start(r) \/ Call(r) \/ Refuse(r) \/ Stop(r)
        PROVE  TypeOK' /\ ProgressKept'
    BY <2>2, StartKeeps, QuietCallsKeep, PutCallsKeep, ListKeeps, DeleteCallKeeps,
       AssignCallsKeep, FileCallsKeep, EndingsKeep DEF Call
  <2>3. QED  BY <2>1, <2>2 DEF Next, Done
<1>3. QED  BY <1>1, <1>2, PTL DEF Spec

\* What Keycloak, the env files and the runs hold keeps its types.
THEOREM TypeCorrect == Spec => []TypeOK
  BY ProgressAlways, PTL

----------------------------------------------------------------------------
(* Who meets whom, and what a run that meets nobody has found.             *)

\* A step of a run leaves the locals of the others alone.
LEMMA OthersStay ==
  ASSUME TypeOK, NEW r \in Runs, Call(r) \/ Refuse(r) \/ Stop(r)
  PROVE  /\ status[r] = "running" /\ UNCHANGED <<cfg, meets>>
         /\ status' \in [Runs -> {"idle", "running", "done", "refused", "stopped"}]
         /\ status'[r] \in {"running", "done", "refused", "stopped"}
         /\ \A q \in Runs \ {r} :
              /\ status'[q] = status[q] /\ at'[q] = at[q] /\ phase'[q] = phase[q]
              /\ seen'[q] = seen[q] /\ obsolete'[q] = obsolete[q]
              /\ found'[q] = found[q]
<1>1. CASE Look(r) \/ Lookup(r) \/ List(r) \/ Delete(r)
  BY <1>1 DEF Look, Lookup, List, Delete, Calls, Advance, TypeOK
<1>2. CASE Create(r) \/ Update(r) \/ Pass(r)
  BY <1>2 DEF Create, Update, Pass, Calls, Advance, TypeOK
<1>3. CASE assignOptionalClientScope(r) \/ removeOptionalClientScope(r)
  BY <1>3
  DEF assignOptionalClientScope, removeOptionalClientScope, Calls, Advance, TypeOK
<1>4. CASE OpenFile(r)
  BY <1>4 DEF OpenFile, Calls, TypeOK
<1>5. CASE WriteFile(r) \/ Refuse(r) \/ Stop(r)
  <2>1. status[r] = "running" /\ UNCHANGED <<cfg, meets>>
    BY <1>5 DEF WriteFile, Refuse, Refused, Stop, Calls
  <2>2. PICK how \in {"done", "refused", "stopped"} : End(r, how)
    BY <1>5 DEF WriteFile, Refuse, Stop
  <2>3. /\ status' = [status EXCEPT ![r] = how] /\ at' = [at EXCEPT ![r] = 1]
        /\ phase' = [phase EXCEPT ![r] = "look"] /\ seen' = [seen EXCEPT ![r] = None]
        /\ obsolete' = [obsolete EXCEPT ![r] = {}]
        /\ found' = [found EXCEPT ![r] = TRUE]
    BY <2>2 DEF End
  <2>4. QED  BY <2>1, <2>3 DEF TypeOK
<1>6. QED  BY <1>1, <1>2, <1>3, <1>4, <1>5 DEF Call

\* A file is opened by a run that is at its last step, which stays there until it
\* has written the file or is stopped.
LEMMA TornKept ==
  ASSUME TypeOK, TornExplained, [Next]_vars
  PROVE  TornExplained'
<1>1. SUFFICES ASSUME NEW f \in EnvFiles, file'[f] = Torn
               PROVE  TornByRun(f)'
  BY DEF TornExplained
<1>2. CASE UNCHANGED vars
  BY <1>1, <1>2
  DEF vars, keycloak, locals, TornExplained, TornByRun, Calls, Here
<1>3. ASSUME NEW r \in Runs, Start(r)
      PROVE  TornByRun(f)'
  <2>1. /\ status[r] = "idle" /\ UNCHANGED <<keycloak, locals>>
        /\ \A q \in Runs \ {r} : cfg'[q] = cfg[q] /\ status'[q] = status[q]
    BY <1>3 DEF Start, TypeOK
  <2>2. PICK q \in Runs : /\ cfg[q] # None /\ cfg[q].envFile = f
                          /\ Calls(q, "write", "put") \/ status[q] = "stopped"
    BY <1>1, <2>1 DEF TornExplained, TornByRun, keycloak
  <2>3. q # r
    BY <2>1, <2>2 DEF Calls
  <2>4. cfg'[q] # None /\ cfg'[q].envFile = f
    BY <2>1, <2>2, <2>3
  <2>5. (Calls(q, "write", "put") \/ status[q] = "stopped")'
    BY <2>1, <2>2, <2>3 DEF Calls, Here, locals
  <2>6. QED  BY <1>1, <2>4, <2>5 DEF TornByRun
<1>4. ASSUME NEW r \in Runs, OpenFile(r), cfg[r].envFile = f
      PROVE  TornByRun(f)'
  <2>1. /\ Calls(r, "write", "look") /\ phase'[r] = "put" /\ cfg[r] # None
        /\ UNCHANGED <<status, cfg, at>>
    BY <1>4 DEF OpenFile, Calls, TypeOK
  <2>2. Calls(r, "write", "put")'
    BY <2>1 DEF Calls, Here
  <2>3. QED  BY <1>1, <1>4, <2>1, <2>2 DEF TornByRun
<1>5. ASSUME NEW r \in Runs, Call(r) \/ Refuse(r) \/ Stop(r),
             ~(OpenFile(r) /\ cfg[r].envFile = f)
      PROVE  TornByRun(f)'
  <2>1. file[f] = Torn /\ ~(WriteFile(r) /\ cfg[r].envFile = f)
    <3>1. CASE WriteFile(r)
      <4>1. file' = [file EXCEPT ![cfg[r].envFile] = FileOf(cfg[r])]
            /\ cfg[r] \in Configs
        BY <3>1 DEF WriteFile, Calls, TypeOK
      <4>2. FileOf(cfg[r]) # Torn
        BY <4>1, OptionTypes DEF FileOf, Files
      <4>3. QED  BY <1>1, <4>1, <4>2 DEF TypeOK
    <3>2. CASE OpenFile(r)
      BY <1>1, <1>5, <3>2 DEF OpenFile, WriteFile, Calls, TypeOK
    <3>3. CASE ~WriteFile(r) /\ ~OpenFile(r)
      <4>1. UNCHANGED file
        BY <1>5, <3>3
        DEF Call, Refuse, Stop, Look, Create, Update, Lookup, List, Delete, Pass,
            assignOptionalClientScope, removeOptionalClientScope, keycloak
      <4>2. QED  BY <1>1, <3>3, <4>1
    <3>4. QED  BY <3>1, <3>2, <3>3
  <2>2. PICK q \in Runs : /\ cfg[q] # None /\ cfg[q].envFile = f
                          /\ Calls(q, "write", "put") \/ status[q] = "stopped"
    BY <2>1 DEF TornExplained, TornByRun
  <2>3. cfg' = cfg
    BY <1>5, OthersStay
  <2>4. CASE q # r
    <3>1. status'[q] = status[q] /\ at'[q] = at[q] /\ phase'[q] = phase[q]
      BY <1>5, <2>4, OthersStay
    <3>2. (Calls(q, "write", "put") \/ status[q] = "stopped")'
      BY <2>2, <2>3, <3>1 DEF Calls, Here
    <3>3. QED  BY <1>1, <2>2, <2>3, <3>2 DEF TornByRun
  <2>5. CASE q = r
    <3>1. status[r] = "running" /\ Here(r).op = "write" /\ phase[r] = "put"
      BY <1>5, <2>2, <2>5, OthersStay DEF Calls
    <3>2. Stop(r)
      BY <1>5, <2>1, <2>2, <2>5, <3>1
      DEF Call, Refuse, Refused, Look, Create, Update, Lookup, List, Delete, Pass,
          assignOptionalClientScope, removeOptionalClientScope, OpenFile, WriteFile, Calls
    <3>3. status'[r] = "stopped"
      BY <3>2 DEF Stop, End, TypeOK
    <3>4. QED  BY <1>1, <2>2, <2>3, <2>5, <3>3 DEF TornByRun
  <2>6. QED  BY <2>4, <2>5
<1>6. QED  BY <1>2, <1>3, <1>4, <1>5 DEF Next, Done

\* A torn env file has its run: one that is about to write it or was stopped.
THEOREM TornExplainedAlways == Spec => []TornExplained
<1>1. Init => TornExplained
  BY DEF Init, TornExplained
<1>2. TypeOK /\ ProgressKept /\ TornExplained /\ [Next]_vars => TornExplained'
  BY TornKept
<1>3. QED  BY <1>1, <1>2, ProgressAlways, PTL DEF Spec

\* From the moment there is an env file, what services started from it rely on is
\* in the realm at every moment, however many runs repeat its options and wherever
\* they are stopped, if no rival options met them; the file is whole unless a run
\* has opened it and not written it yet, or was stopped then.
THEOREM RerunKeepsWorkingAlways == Spec => []RerunKeepsWorking
<1>1. TypeOK /\ ProgressKept /\ TornExplained => RerunKeepsWorking
  <2>. SUFFICES ASSUME TypeOK, ProgressKept, TornExplained,
                       NEW c \in Configs, OnlyRun(c), file[c.envFile] # None
                PROVE  /\ Usable(FileOf(c))
                       /\ file[c.envFile] = FileOf(c) \/ TornByRun(c.envFile)
    BY DEF RerunKeepsWorking
  <2>1. /\ file[c.envFile] \in {FileOf(c), Torn}
        /\ \A k \in DOMAIN Plan[c] : Kept(c, Plan[c][k])
    BY DEF ProgressKept, WorkKept
  <2>2. QED  BY <2>1, KeptUsable, OptionTypes DEF TornExplained
<1>2. QED  BY <1>1, ProgressAlways, TornExplainedAlways, PTL

LEMMA MetKept ==
  ASSUME TypeOK, Met, [Next]_vars
  PROVE  Met'
<1>1. CASE UNCHANGED vars
  BY <1>1 DEF vars, Met
<1>2. ASSUME NEW r \in Runs, Start(r)
      PROVE  Met'
  <2>. SUFFICES ASSUME NEW p \in Runs, NEW q \in Runs
                PROVE  /\ q # p /\ status'[p] # "idle" /\ status'[q] = "running"
                            => q \in meets'[p]
                       /\ q \in meets'[p] => status'[q] # "idle"
    BY DEF Met
  <2>1. /\ status[r] = "idle" /\ status'[r] = "running"
        /\ \A t \in Runs \ {r} : status'[t] = status[t]
        /\ meets'[p] = CASE p = r -> Active
                         [] p # r /\ status[p] = "idle" -> {}
                         [] OTHER -> meets[p] \cup {r}
    BY <1>2 DEF Start, TypeOK
  <2>2. CASE p = r
    BY <2>1, <2>2 DEF Active
  <2>3. CASE p # r /\ status[p] = "idle"
    BY <2>1, <2>3
  <2>4. CASE p # r /\ status[p] # "idle"
    <3>1. meets'[p] = meets[p] \cup {r}
      BY <2>1, <2>4
    <3>2. q # r => status'[q] = status[q]
      BY <2>1
    <3>3. QED  BY <2>1, <2>4, <3>1, <3>2 DEF Met
  <2>5. QED  BY <2>2, <2>3, <2>4
<1>3. ASSUME NEW r \in Runs, Call(r) \/ Refuse(r) \/ Stop(r)
      PROVE  Met'
  <2>1. /\ status[r] = "running" /\ status'[r] # "idle" /\ UNCHANGED meets
        /\ \A q \in Runs \ {r} : status'[q] = status[q]
    BY <1>3, OthersStay
  <2>2. QED  BY <2>1 DEF Met
<1>4. QED  BY <1>1, <1>2, <1>3 DEF Next, Done

\* Nothing a run makes has the settings of a mapper of another type.
LEMMA OnlyMappersOtherKept ==
  ASSUME TypeOK, OnlyMappersOther, [Next]_vars
  PROVE  OnlyMappersOther'
<1>1. CASE UNCHANGED store
  BY <1>1 DEF OnlyMappersOther
<1>2. ASSUME NEW r \in Runs, Create(r) \/ Update(r)
      PROVE  OnlyMappersOther'
  <2>. DEFINE o == Here(r).obj
  <2>1. status[r] = "running" /\ Here(r).op = "ensure"
    BY <1>2 DEF Create, Update, Calls
  <2>2. cfg[r] \in Configs /\ o \in Own(cfg[r])
    BY <2>1, HereShape, StepShape DEF StepOK
  <2>3. o \in Objects /\ Representation(cfg[r], o) # OtherType
    BY <2>2, OwnObjects
  <2>4. \A p \in Objects \ {o} : store'[p] = store[p]
    BY <1>2, <2>3 DEF Create, Update, TypeOK
  <2>5. store'[o].is = Representation(cfg[r], o)
    <3>1. CASE Create(r)
      BY <2>3, <3>1 DEF Create, TypeOK
    <3>2. CASE Update(r)
      <4>1. /\ store[o] \in Made
            /\ store'[o] = [store[o] EXCEPT !.is = Representation(cfg[r], o)]
        BY <2>3, <3>2 DEF Update, SameObject, TypeOK
      <4>2. QED  BY <4>1 DEF Made
    <3>3. QED  BY <1>2, <3>1, <3>2
  <2>6. QED  BY <2>3, <2>4, <2>5 DEF OnlyMappersOther
<1>3. ASSUME NEW r \in Runs, Delete(r)
      PROVE  OnlyMappersOther'
  <2>1. PICK m \in obsolete[r] : store' = [store EXCEPT ![m.obj] = None]
    BY <1>3 DEF Delete
  <2>2. \A p \in Objects : store'[p] \in {store[p], None}
    BY <2>1 DEF TypeOK
  <2>3. QED  BY <2>2 DEF OnlyMappersOther
<1>4. ASSUME NEW r \in Runs, Start(r) \/ Call(r) \/ Refuse(r) \/ Stop(r)
      PROVE  UNCHANGED store \/ Create(r) \/ Update(r) \/ Delete(r)
  BY <1>4
  DEF Start, Call, Refuse, Stop, Look, Lookup, List, Pass, OpenFile, WriteFile,
      assignOptionalClientScope, removeOptionalClientScope, keycloak
<1>5. QED  BY <1>1, <1>2, <1>3, <1>4 DEF Next, Done, vars, keycloak

\* What the run of the step itself holds is current afterwards.
LEMMA OwnLookCurrent ==
  ASSUME TypeOK, NEW r \in Runs, AloneOK(r), Call(r) \/ Refuse(r) \/ Stop(r)
  PROVE  AloneOK(r)'
<1>1. CASE Advance(r) /\ UNCHANGED status
  <2>1. phase'[r] = "look" /\ status'[r] = "running"
    BY <1>1, OthersStay DEF Advance, TypeOK
  <2>2. QED  BY <2>1 DEF AloneOK, Calls
<1>2. CASE \E how \in {"done", "refused", "stopped"} : End(r, how)
  <2>1. phase'[r] = "look" /\ found'[r]
    BY <1>2 DEF End, TypeOK
  <2>2. QED  BY <2>1 DEF AloneOK, Calls
<1>3. CASE Look(r)
  <2>1. /\ Here(r).op = "ensure" /\ status[r] = "running"
        /\ seen'[r] = Found(Here(r).obj)
        /\ UNCHANGED <<store, cfg, at, status>>
    BY <1>3 DEF Look, Calls, TypeOK, keycloak
  <2>2. Here(r)' = Here(r) /\ Found(Here(r).obj)' = Found(Here(r).obj)
    BY <2>1 DEF Here, Found
  <2>3. QED  BY <2>1, <2>2 DEF AloneOK, Calls
<1>4. CASE List(r) /\ ~Advance(r)
  <2>1. /\ Here(r).op = "prune" /\ status[r] = "running"
        /\ obsolete'[r] = {[obj |-> o, by |-> store[o].by] :
                             o \in ObsoleteMappers(cfg[r])}
        /\ UNCHANGED <<store, cfg, at, status>>
    BY <1>4 DEF List, Calls, TypeOK, keycloak
  <2>2. \A m \in obsolete'[r] : Current(m)
    BY <2>1 DEF ObsoleteMappers, Current
  <2>3. Here(r)' = Here(r) /\ \A m : Current(m)' <=> Current(m)
    BY <2>1 DEF Here, Current
  <2>4. QED  BY <2>1, <2>2, <2>3 DEF AloneOK, Calls
<1>5. CASE Delete(r) /\ ~Advance(r)
  <2>1. PICK m \in obsolete[r] :
          /\ Current(m)
          /\ store' = [store EXCEPT ![m.obj] = None]
          /\ obsolete' = [obsolete EXCEPT ![r] = @ \ {m}]
          /\ UNCHANGED <<at, phase, cfg, status, meets>>
    BY <1>5 DEF Delete
  <2>2. /\ Here(r).op = "prune" /\ phase[r] = "put" /\ status[r] = "running"
        /\ Here(r)' = Here(r)
    BY <1>5, <2>1 DEF Delete, Calls, Here
  <2>3. ASSUME meets[r] = {}, NEW n \in obsolete'[r]
        PROVE  Current(n)'
    <3>1. n \in obsolete[r] /\ n # m
      BY <2>1 DEF TypeOK
    <3>2. Current(n)
      BY <2>2, <2>3, <3>1 DEF AloneOK, Calls
    <3>3. n \in [obj : Mappers, by : Runs \cup {None}]
      BY <3>1 DEF TypeOK
    <3>4. m \in [obj : Mappers, by : Runs \cup {None}]
      BY <2>1 DEF TypeOK
    <3>5. n.obj # m.obj
      BY <2>1, <3>1, <3>2, <3>3, <3>4 DEF Current
    <3>6. n.obj \in Objects /\ store'[n.obj] = store[n.obj]
      BY <2>1, <3>3, <3>5 DEF Objects, TypeOK
    <3>7. QED  BY <3>2, <3>6 DEF Current
  <2>4. QED  BY <2>1, <2>2, <2>3 DEF AloneOK, Calls
<1>6. CASE OpenFile(r)
  <2>1. Here(r).op = "write" /\ status[r] = "running" /\ UNCHANGED <<cfg, at, status>>
    BY <1>6 DEF OpenFile, Calls
  <2>2. Here(r)' = Here(r)
    BY <2>1 DEF Here
  <2>3. QED  BY <2>1, <2>2 DEF AloneOK, Calls
<1>7. QED
  BY <1>1, <1>2, <1>3, <1>4, <1>5, <1>6
  DEF Call, Create, Update, Lookup, List, Delete, Pass, WriteFile, Refuse, Stop,
      assignOptionalClientScope, removeOptionalClientScope

LEMMA LooksKept ==
  ASSUME TypeOK, LooksCurrent, [Next]_vars
  PROVE  LooksCurrent'
<1>1. Met' /\ OnlyMappersOther'
  BY MetKept, OnlyMappersOtherKept DEF LooksCurrent
<1>2. CASE UNCHANGED vars
  <2>1. \A r \in Runs : AloneOK(r)'
    BY <1>2
    DEF vars, locals, keycloak, LooksCurrent, AloneOK, Calls, Here, Found, Current
  <2>2. QED  BY <1>1, <2>1 DEF LooksCurrent
<1>3. ASSUME NEW r \in Runs, Start(r)
      PROVE  \A q \in Runs : AloneOK(q)'
  <2>. SUFFICES ASSUME NEW q \in Runs PROVE AloneOK(q)'
    OBVIOUS
  <2>1. /\ status[r] = "idle" /\ UNCHANGED <<phase, found>>
        /\ \A t \in Runs \ {r} : status'[t] = status[t]
        /\ status'[r] = "running"
        /\ meets'[q] = CASE q = r -> Active
                         [] q # r /\ status[q] = "idle" -> {}
                         [] OTHER -> meets[q] \cup {r}
    BY <1>3 DEF Start, TypeOK, locals
  <2>2. AloneOK(q) /\ phase[r] = "look"
    BY <2>1 DEF LooksCurrent, AloneOK
  <2>3. CASE status'[q] = "running" /\ q # r
    <3>1. meets'[q] # {}
      BY <2>1, <2>3
    <3>2. QED  BY <2>3, <3>1 DEF AloneOK
  <2>4. CASE status'[q] # "running" \/ q = r
    BY <2>1, <2>2, <2>4 DEF AloneOK, Calls
  <2>5. QED  BY <2>3, <2>4
<1>4. ASSUME NEW r \in Runs, Call(r) \/ Refuse(r) \/ Stop(r)
      PROVE  \A q \in Runs : AloneOK(q)'
  <2>1. AloneOK(r)'
    BY <1>4, OwnLookCurrent DEF LooksCurrent
  <2>2. ASSUME NEW q \in Runs \ {r}
        PROVE  AloneOK(q)'
    <3>1. /\ status[r] = "running" /\ UNCHANGED meets
          /\ status'[q] = status[q] /\ phase'[q] = phase[q] /\ found'[q] = found[q]
      BY <1>4, OthersStay
    <3>2. status[q] = "running" => meets[q] # {}
      BY <3>1 DEF LooksCurrent, Met
    <3>3. AloneOK(q)
      BY DEF LooksCurrent
    <3>4. QED  BY <3>1, <3>2, <3>3 DEF AloneOK, Calls
  <2>3. QED  BY <2>1, <2>2
<1>5. QED  BY <1>1, <1>2, <1>3, <1>4 DEF Next, Done, LooksCurrent

\* Runs under way know of each other, and what one that met nobody has found is
\* still there, in every state.
THEOREM LooksCurrentAlways == Spec => []LooksCurrent
<1>1. Init => LooksCurrent
  <2>. SUFFICES ASSUME Init PROVE LooksCurrent
    OBVIOUS
  <2>1. Met /\ \A r \in Runs : AloneOK(r)
    BY DEF Init, Met, AloneOK, Calls
  <2>2. OnlyMappersOther
    BY DEF Init, OnlyMappersOther
  <2>3. QED  BY <2>1, <2>2 DEF LooksCurrent
<1>2. TypeOK /\ LooksCurrent /\ [Next]_vars => LooksCurrent'
  BY LooksKept
<1>3. QED  BY <1>1, <1>2, TypeCorrect, PTL DEF Spec

LEMMA OnlyForReason ==
  ASSUME TypeOK, LooksCurrent, NEW r \in Runs, Refused(r), meets[r] = {}
  PROVE  Blocked(cfg[r])
<1>1. AloneOK(r) /\ status[r] = "running"
  BY DEF LooksCurrent, Refused, Calls
<1>2. ~(Calls(r, "prune", "put") /\ \E m \in obsolete[r] : ~Current(m))
  BY <1>1 DEF AloneOK
<1>. DEFINE o == Here(r).obj
<1>3. /\ Calls(r, "ensure", "put") /\ seen[r] = Found(o)
      /\ ~(seen[r] = None /\ store[o] = None) /\ ~SameObject(r, o)
  BY <1>1, <1>2 DEF Refused, AloneOK
<1>4. store[o] # None /\ store[o].is = OtherType
  BY <1>3 DEF Found, SameObject
<1>5. cfg[r] \in Configs /\ o \in Own(cfg[r]) /\ o \in Objects
  BY <1>1, <1>3, HereShape, StepShape, OwnObjects DEF Calls, StepOK
<1>6. o.kind = "mapper"
  BY <1>4, <1>5 DEF LooksCurrent, OnlyMappersOther
<1>7. PICK a \in Required(cfg[r]) : o = Mapper(cfg[r].scope, a)
  BY <1>5, <1>6 DEF Own, Realm, Scope, Client
<1>8. QED  BY <1>4, <1>7 DEF Blocked

\* Keycloak refuses a call only of a run that another run overlapped, or for a
\* mapper of another type in the place of a required one.
THEOREM RefusedOnlyIfMetAlways == Spec => RefusedOnlyIfMet
<1>1. ASSUME TypeOK, LooksCurrent, [Next]_vars, NEW r \in Runs,
             status[r] = "running", status'[r] = "refused"
      PROVE  meets[r] # {} \/ Blocked(cfg[r])
  <2>1. ~UNCHANGED status
    BY <1>1
  <2>2. PICK q \in Runs : Start(q) \/ Call(q) \/ Refuse(q) \/ Stop(q)
    BY <1>1, <2>1 DEF Next, Done, vars
  <2>3. ~Start(q)
    BY <1>1 DEF Start, TypeOK
  <2>4. q = r
    BY <1>1, <2>2, <2>3, OthersStay
  <2>5. ~Call(r) /\ ~Stop(r)
    BY <1>1
    DEF Call, Look, Create, Update, Lookup, List, Delete, assignOptionalClientScope,
        removeOptionalClientScope, Pass, OpenFile, WriteFile, Stop, End, TypeOK
  <2>6. Refused(r)
    BY <2>2, <2>3, <2>4, <2>5 DEF Refuse
  <2>7. QED  BY <1>1, <2>6, OnlyForReason
<1>2. TypeOK /\ LooksCurrent /\ [Next]_vars =>
        \A r \in Runs : status[r] = "running" /\ status'[r] = "refused" =>
          meets[r] # {} \/ Blocked(cfg[r])
  BY <1>1
<1>3. QED  BY <1>2, TypeCorrect, LooksCurrentAlways, PTL DEF Spec, RefusedOnlyIfMet

----------------------------------------------------------------------------
(* What a plan opens with: the realm and the scopes.                       *)

Openers(c) ==
  {Ensure(Realm), AudienceScopeStep(c)} \cup {Ensure(Scope(s)) : s \in WidgetScopes}

\* b begins s.
Begins(b, s) == Len(b) <= Len(s) /\ \A k \in 1..Len(b) : s[k] = b[k]

LEMMA BeginsLonger ==
  ASSUME NEW S, NEW b \in Seq(S), NEW s \in Seq(S), NEW t \in Seq(S), Begins(b, s)
  PROVE  s \o t \in Seq(S) /\ Begins(b, s \o t)
<1>1. /\ s \o t \in Seq(S) /\ Len(s \o t) = Len(s) + Len(t)
      /\ \A k \in 1..Len(s) : (s \o t)[k] = s[k]
      /\ Len(b) \in Nat /\ Len(s) \in Nat /\ Len(t) \in Nat
  BY ConcatProperties
<1>2. QED  BY <1>1 DEF Begins

LEMMA OpenersFirst ==
  ASSUME NEW c \in Configs
  PROVE  \E p \in Nat :
           /\ p <= Len(Body(c))
           /\ \A k \in 1..p : Plan[c][k] \in Openers(c)
           /\ \A s \in Openers(c) : \E j \in 1..p : Plan[c][j] = s
<1>. DEFINE S  == BodySteps(c)
            s1 == <<Ensure(Realm)>> \o ScopeSteps
            s2 == s1 \o <<AudienceScopeStep(c)>>
            s3 == s2 \o MapperSteps(c)
            s4 == s3 \o ClientSteps(c)
            s5 == s4 \o AssignSteps(c, "bff")
            s6 == s5 \o AssignSteps(c, "providerApiSwagger")
            s7 == s6 \o AssignSteps(c, "providerSdxApiSwagger")
            s8 == s7 \o AudienceSteps(c)
<1>1. Body(c) = s8
  BY DEF Body
<1>2. BrowserClients \subseteq ClientKinds
  BY DEF ClientKinds
<1>3. ScopeSteps \in Seq(Openers(c))
  <2>1. Len(WIDGET_SCOPES) \in Nat /\ DOMAIN WIDGET_SCOPES = 1..Len(WIDGET_SCOPES)
    OBVIOUS
  <2>2. \A i \in 1..Len(WIDGET_SCOPES) : Ensure(Scope(WIDGET_SCOPES[i])) \in Openers(c)
    BY <2>1 DEF Openers, WidgetScopes
  <2>3. QED  BY <2>1, <2>2 DEF ScopeSteps
<1>4. /\ s1 \in Seq(Openers(c)) /\ Ensure(Realm) \in Range(s1)
      /\ \A s \in WidgetScopes : Ensure(Scope(s)) \in Range(s1)
  <2>1. <<Ensure(Realm)>> \in Seq(Openers(c)) /\ Ensure(Realm) \in Range(<<Ensure(Realm)>>)
    BY DEF Openers, Range
  <2>2. /\ s1 \in Seq(Openers(c))
        /\ Range(s1) = Range(<<Ensure(Realm)>>) \cup Range(ScopeSteps)
    BY <1>3, <2>1, Joined
  <2>. HIDE DEF s1
  <2>3. QED  BY <2>1, <2>2, ScopeStepsShape
<1>5. s2 \in Seq(Openers(c)) /\ \A s \in Openers(c) : s \in Range(s2)
  <2>1. /\ <<AudienceScopeStep(c)>> \in Seq(Openers(c))
        /\ AudienceScopeStep(c) \in Range(<<AudienceScopeStep(c)>>)
    BY DEF Openers, Range
  <2>. HIDE DEF s1
  <2>2. /\ s2 \in Seq(Openers(c))
        /\ Range(s2) = Range(s1) \cup Range(<<AudienceScopeStep(c)>>)
    BY <1>4, <2>1, Joined
  <2>. HIDE DEF s2
  <2>3. QED  BY <1>4, <2>1, <2>2 DEF Openers
<1>. HIDE DEF S
<1>6. s2 \in Seq(S)
  <2>1. s1 \in Seq(S)
    BY ScopeStepsShape, OtherStepsShape, Joined DEF S
  <2>. HIDE DEF s1
  <2>2. QED  BY <2>1, OtherStepsShape, Joined DEF S
<1>. HIDE DEF s2
<1>7. Begins(s2, s2)
  BY <1>6 DEF Begins
<1>8. s3 \in Seq(S) /\ Begins(s2, s3)
  BY <1>6, <1>7, MapperStepsShape, BeginsLonger DEF S
<1>9. s4 \in Seq(S) /\ Begins(s2, s4)
  <2>. HIDE DEF s3
  <2>1. QED  BY <1>6, <1>8, OtherStepsShape, BeginsLonger DEF S
<1>10. s5 \in Seq(S) /\ Begins(s2, s5)
  <2>. HIDE DEF s4
  <2>1. "bff" \in ClientKinds
    BY DEF ClientKinds, BrowserClients
  <2>2. QED  BY <1>6, <1>9, <2>1, AssignStepsShape, BeginsLonger DEF S
<1>11. s6 \in Seq(S) /\ Begins(s2, s6)
  <2>. HIDE DEF s5
  <2>1. "providerApiSwagger" \in ClientKinds
    BY DEF ClientKinds, BrowserClients
  <2>2. QED  BY <1>6, <1>10, <2>1, AssignStepsShape, BeginsLonger DEF S
<1>12. s7 \in Seq(S) /\ Begins(s2, s7)
  <2>. HIDE DEF s6
  <2>1. "providerSdxApiSwagger" \in ClientKinds
    BY DEF ClientKinds, BrowserClients
  <2>2. QED  BY <1>6, <1>11, <2>1, AssignStepsShape, BeginsLonger DEF S
<1>13. s8 \in Seq(S) /\ Begins(s2, s8)
  <2>. HIDE DEF s7
  <2>1. QED  BY <1>6, <1>12, OtherStepsShape, BeginsLonger DEF S
<1>. HIDE DEF s8
<1>14. Plan[c] = Append(s8, LastStep)
  BY <1>1 DEF Plan, LastStep
<1>15. /\ Len(s2) \in Nat /\ Len(s2) <= Len(s8) /\ Len(s8) \in Nat
       /\ \A k \in 1..Len(s2) : Plan[c][k] = s2[k]
  BY <1>6, <1>13, <1>14 DEF Begins
<1>16. \A k \in 1..Len(s2) : Plan[c][k] \in Openers(c)
  BY <1>5, <1>15
<1>17. ASSUME NEW s \in Openers(c)
       PROVE  \E j \in 1..Len(s2) : Plan[c][j] = s
  <2>1. PICK j \in DOMAIN s2 : s2[j] = s
    BY <1>5 DEF Range
  <2>2. j \in 1..Len(s2)
    BY <1>5
  <2>3. QED  BY <1>15, <2>1, <2>2
<1>18. QED  BY <1>1, <1>15, <1>16, <1>17

\* Whoever is at another step has passed the opening ones.
LEMMA OpenersPassed ==
  ASSUME TypeOK, NEW r \in Runs, status[r] = "running",
         Here(r) \notin Openers(cfg[r]), NEW s \in Openers(cfg[r])
  PROVE  \E j \in DOMAIN Plan[cfg[r]] : j < at[r] /\ Plan[cfg[r]][j] = s
<1>. DEFINE c == cfg[r]
<1>1. /\ c \in Configs /\ at[r] \in 1..Len(Body(c)) + 1
      /\ Here(r) = Plan[c][at[r]]
  BY HereShape
<1>2. /\ Len(Body(c)) \in Nat /\ DOMAIN Plan[c] = 1..Len(Body(c)) + 1
  BY <1>1, PlanShape
<1>3. PICK p \in Nat :
        /\ p <= Len(Body(c))
        /\ \A k \in 1..p : Plan[c][k] \in Openers(c)
        /\ \A t \in Openers(c) : \E j \in 1..p : Plan[c][j] = t
  BY <1>1, OpenersFirst
<1>4. ~(at[r] \in 1..p)
  BY <1>1, <1>3
<1>5. PICK j \in 1..p : Plan[c][j] = s
  BY <1>3
<1>6. j \in DOMAIN Plan[c] /\ j < at[r]
  BY <1>1, <1>2, <1>3, <1>4
<1>7. QED  BY <1>5, <1>6

\* The scope that a mapper or an assignment belongs to is there.
LEMMA ScopeIsThere ==
  ASSUME TypeOK, ScopesThere, NEW r \in Runs, status[r] = "running"
  PROVE  /\ \A a \in Audiences :
              Here(r) = Ensure(Mapper(cfg[r].scope, a)) /\ a \in Required(cfg[r]) =>
                store[Scope(cfg[r].scope)] # None
         /\ Here(r).op = "assign" => store[Here(r).obj] # None
<1>. DEFINE c == cfg[r]
<1>1. c \in Configs /\ Here(r) \in PlanSteps(c)
  BY HereShape
<1>2. ASSUME NEW n \in Assigned(c), Here(r) \notin Openers(c)
      PROVE  store[Scope(n)] # None
  <2>1. Ensure(Scope(n)) \in Openers(c) /\ n \in ScopeNames
    BY <1>1, OptionTypes DEF Assigned, Openers, AudienceScopeStep, Ensure, ScopeNames
  <2>2. PICK j \in DOMAIN Plan[c] : j < at[r] /\ Plan[c][j] = Ensure(Scope(n))
    BY <1>2, <2>1, OpenersPassed
  <2>3. QED  BY <2>1, <2>2 DEF ScopesThere
<1>3. ASSUME NEW a \in Required(c), Here(r) = Ensure(Mapper(c.scope, a))
      PROVE  store[Scope(c.scope)] # None
  <2>1. audienceScopeEnabled(c)
    BY DEF audienceScopeEnabled
  <2>2. Here(r) \notin Openers(c)
    <3>1. Here(r).obj.kind = "mapper"
      BY <1>3 DEF Ensure, Step, Mapper
    <3>2. \A o : Ensure(o).obj = o
      BY DEF Ensure, Step
    <3>3. AudienceScopeStep(c).obj = Scope(c.scope)
      BY DEF AudienceScopeStep, Step
    <3>4. Realm.kind # "mapper" /\ \A n : Scope(n).kind # "mapper"
      BY DEF Realm, Scope
    <3>5. QED  BY <3>1, <3>2, <3>3, <3>4 DEF Openers
  <2>3. QED  BY <1>2, <2>1, <2>2 DEF Assigned
<1>4. ASSUME Here(r).op = "assign"
      PROVE  store[Here(r).obj] # None
  <2>1. Here(r) \in Assigns(c)
    BY <1>1, <1>4, StepShape DEF StepOK
  <2>2. PICK n \in Assigned(c) : Here(r).obj = Scope(n)
    BY <2>1 DEF Assigns, Step
  <2>3. Here(r) \notin Openers(c)
    BY <1>4 DEF Openers, AudienceScopeStep, Ensure, Step
  <2>4. QED  BY <1>2, <2>2, <2>3
<1>5. QED  BY <1>3, <1>4

\* What a step does to the objects.
LEMMA StoreStep ==
  ASSUME TypeOK, ProgressKept, NEW r \in Runs, Call(r) \/ Refuse(r) \/ Stop(r)
  PROVE  /\ Create(r) \/ Update(r) \/ Delete(r) \/ UNCHANGED store
         /\ Create(r) \/ Update(r) =>
              /\ Here(r).op = "ensure" /\ Here(r).obj \in Own(cfg[r])
              /\ store'[Here(r).obj] # None
              /\ store'[Here(r).obj].is = Representation(cfg[r], Here(r).obj)
              /\ \A p \in Objects \ {Here(r).obj} : store'[p] = store[p]
         /\ Delete(r) =>
              /\ Here(r).op = "prune"
              /\ \E o \in Unrequired(cfg[r]) : store' = [store EXCEPT ![o] = None]
<1>1. ASSUME Create(r) \/ Update(r)
      PROVE  /\ Here(r).op = "ensure" /\ Here(r).obj \in Own(cfg[r])
             /\ store'[Here(r).obj] # None
             /\ store'[Here(r).obj].is = Representation(cfg[r], Here(r).obj)
             /\ \A p \in Objects \ {Here(r).obj} : store'[p] = store[p]
  <2>. DEFINE o == Here(r).obj
  <2>1. status[r] = "running" /\ Here(r).op = "ensure"
    BY <1>1 DEF Create, Update, Calls
  <2>2. cfg[r] \in Configs /\ o \in Own(cfg[r]) /\ o \in Objects
    BY <2>1, HereShape, StepShape, OwnObjects DEF StepOK
  <2>3. \A p \in Objects \ {o} : store'[p] = store[p]
    BY <1>1, <2>2 DEF Create, Update, TypeOK
  <2>4. store'[o] # None /\ store'[o].is = Representation(cfg[r], o)
    <3>1. CASE Create(r)
      <4>1. store'[o] = [is |-> Representation(cfg[r], o), by |-> r]
        BY <2>2, <3>1 DEF Create, TypeOK
      <4>2. store'[o] \in Made
        BY <2>2, <4>1, OwnObjects DEF Made
      <4>3. QED  BY <4>1, <4>2
    <3>2. CASE Update(r)
      <4>1. /\ store[o] \in Made
            /\ store'[o] = [store[o] EXCEPT !.is = Representation(cfg[r], o)]
        BY <2>2, <3>2 DEF Update, SameObject, TypeOK
      <4>2. store'[o] \in Made /\ store'[o].is = Representation(cfg[r], o)
        BY <2>2, <4>1, OwnObjects DEF Made
      <4>3. QED  BY <4>2
    <3>3. QED  BY <1>1, <3>1, <3>2
  <2>5. QED  BY <2>1, <2>2, <2>3, <2>4
<1>2. ASSUME Delete(r)
      PROVE  /\ Here(r).op = "prune"
             /\ \E o \in Unrequired(cfg[r]) : store' = [store EXCEPT ![o] = None]
  <2>1. PICK m \in obsolete[r] : store' = [store EXCEPT ![m.obj] = None]
    BY <1>2 DEF Delete
  <2>2. m.obj \in Unrequired(cfg[r])
    BY <2>1 DEF ProgressKept, RunOK
  <2>3. Here(r).op = "prune"
    BY <1>2 DEF Delete, Calls
  <2>4. QED  BY <2>1, <2>2, <2>3
<1>3. Create(r) \/ Update(r) \/ Delete(r) \/ UNCHANGED store
  BY
  DEF Call, Refuse, Stop, Look, Lookup, List, Pass, OpenFile, WriteFile,
      assignOptionalClientScope, removeOptionalClientScope, keycloak
<1>4. QED  BY <1>1, <1>2, <1>3

\* Scopes are never deleted.
LEMMA ScopesStay ==
  ASSUME TypeOK, ProgressKept, NEW r \in Runs, Call(r) \/ Refuse(r) \/ Stop(r),
         NEW s \in ScopeNames, store[Scope(s)] # None
  PROVE  store'[Scope(s)] # None
<1>1. Scope(s) \in Objects
  BY DEF Objects
<1>2. \A c : \A o \in Unrequired(c) : o # Scope(s)
  BY DEF Unrequired, Mapper, Scope
<1>3. CASE Create(r) \/ Update(r)
  <2>1. /\ store'[Here(r).obj] # None
        /\ \A p \in Objects \ {Here(r).obj} : store'[p] = store[p]
    BY <1>3, StoreStep
  <2>2. QED  BY <1>1, <2>1
<1>4. CASE Delete(r)
  <2>1. PICK o \in Unrequired(cfg[r]) : store' = [store EXCEPT ![o] = None]
    BY <1>4, StoreStep
  <2>2. QED  BY <1>1, <1>2, <2>1 DEF TypeOK
<1>5. CASE UNCHANGED store
  BY <1>5
<1>6. QED  BY <1>3, <1>4, <1>5, StoreStep

\* A run passes only what it has made.
LEMMA AtStep ==
  ASSUME TypeOK, ProgressKept, NEW r \in Runs, Call(r) \/ Refuse(r) \/ Stop(r),
         status'[r] = "running"
  PROVE  \/ at'[r] = at[r] /\ ~(Here(r).op = "ensure" /\ (Create(r) \/ Update(r)))
         \/ /\ at'[r] = at[r] + 1 /\ Advance(r) /\ Here(r).op # "write"
            /\ Here(r).op = "ensure" => Create(r) \/ Update(r)
<1>1. at[r] \in Nat /\ status[r] = "running"
  BY OthersStay DEF TypeOK
<1>2. CASE Look(r)
  BY <1>2 DEF Look, Create, Update, Calls
<1>3. CASE Create(r) \/ Update(r)
  BY <1>1, <1>3 DEF Create, Update, Calls, Advance, TypeOK
<1>4. CASE Lookup(r) \/ Pass(r) \/ List(r)
  BY <1>1, <1>4 DEF Lookup, Pass, List, Calls, Advance, TypeOK, Create, Update
<1>5. CASE Delete(r)
  BY <1>1, <1>5 DEF Delete, Calls, Advance, TypeOK, Create, Update
<1>6. CASE assignOptionalClientScope(r) \/ removeOptionalClientScope(r)
  BY <1>1, <1>6
  DEF assignOptionalClientScope, removeOptionalClientScope, Calls, Advance, TypeOK
<1>7. CASE OpenFile(r)
  BY <1>7 DEF OpenFile, Calls
<1>8. CASE WriteFile(r) \/ Refuse(r) \/ Stop(r)
  <2>1. PICK how \in {"done", "refused", "stopped"} : End(r, how)
    BY <1>8 DEF WriteFile, Refuse, Stop
  <2>2. status'[r] = how
    BY <2>1 DEF End, TypeOK
  <2>3. QED  BY <2>2
<1>9. QED
  BY <1>2, <1>3, <1>4, <1>5, <1>6, <1>7, <1>8 DEF Call

LEMMA ScopesThereKept ==
  ASSUME TypeOK, ProgressKept, ScopesThere, [Next]_vars
  PROVE  ScopesThere'
<1>1. CASE UNCHANGED vars
  BY <1>1 DEF vars, keycloak, locals, ScopesThere
<1>2. ASSUME NEW r \in Runs, Start(r)
      PROVE  ScopesThere'
  <2>1. PICK d \in Configs : cfg' = [cfg EXCEPT ![r] = d]
    BY <1>2 DEF Start
  <2>2. /\ UNCHANGED <<store, assigned, at>> /\ status[r] = "idle" /\ at[r] = 1
        /\ \A q \in Runs \ {r} : status'[q] = status[q]
    BY <1>2 DEF Start, keycloak, locals, TypeOK, ProgressKept, RunOK
  <2>3. /\ cfg'[r] = d /\ \A q \in Runs \ {r} : cfg'[q] = cfg[q]
    BY <2>1 DEF TypeOK
  <2>4. \A k \in DOMAIN Plan[d] : ~(k < at'[r])
    BY <2>2, PlanShape
  <2>5. ASSUME NEW q \in Runs, status'[q] = "running",
               NEW k \in DOMAIN Plan[cfg'[q]], NEW s \in ScopeNames,
               k < at'[q], Plan[cfg'[q]][k] = Ensure(Scope(s))
        PROVE  store'[Scope(s)] # None
    <3>1. q # r
      BY <2>3, <2>4, <2>5
    <3>2. QED  BY <2>2, <2>3, <2>5, <3>1 DEF ScopesThere
  <2>6. QED  BY <2>2, <2>5 DEF ScopesThere
<1>3. ASSUME NEW r \in Runs, Call(r) \/ Refuse(r) \/ Stop(r)
      PROVE  ScopesThere'
  <2>1. /\ status[r] = "running" /\ UNCHANGED cfg
        /\ \A q \in Runs \ {r} : status'[q] = status[q] /\ at'[q] = at[q]
    BY <1>3, OthersStay
  <2>2. cfg[r] \in Configs /\ Here(r) \in PlanSteps(cfg[r]) /\ at[r] \in Nat \ {0}
        /\ Here(r) = Plan[cfg[r]][at[r]]
    BY <2>1, HereShape
  <2>3. ASSUME NEW x \in AudienceScopes, NEW a \in Audiences,
               store'[Mapper(x, a)] # None
        PROVE  store'[Scope(x)] # None
    <3>. DEFINE o == Mapper(x, a)
    <3>1. o \in Objects /\ x \in ScopeNames
      BY DEF Objects, Mappers, ScopeNames
    <3>2. CASE store[o] # None
      BY <1>3, <3>1, <3>2, ScopesStay DEF ScopesThere
    <3>3. CASE store[o] = None
      <4>1. /\ Here(r).op = "ensure" /\ Here(r).obj = o
            /\ o \in Own(cfg[r])
        <5>1. ~UNCHANGED store
          BY <2>3, <3>3
        <5>2. ~Delete(r)
          <6>1. ASSUME NEW m \in Unrequired(cfg[r]), store' = [store EXCEPT ![m] = None]
                PROVE  store'[o] = None
            BY <3>1, <3>3, <6>1 DEF TypeOK
          <6>2. QED  BY <1>3, <2>3, <6>1, StoreStep
        <5>3. Create(r) \/ Update(r)
          BY <1>3, <5>1, <5>2, StoreStep
        <5>4. /\ Here(r).op = "ensure" /\ Here(r).obj \in Own(cfg[r])
              /\ \A p \in Objects \ {Here(r).obj} : store'[p] = store[p]
          BY <1>3, <5>3, StoreStep
        <5>5. QED  BY <2>3, <3>1, <3>3, <5>4
      <4>2. x = cfg[r].scope /\ a \in Required(cfg[r])
        BY <4>1 DEF Own, Realm, Scope, Mapper, Client
      <4>3. Here(r) = Ensure(o)
        <5>1. Here(r) \in BodySteps(cfg[r])
          BY <2>2, <4>1, StepShape DEF StepOK
        <5>2. PICK p \in Own(cfg[r]) : Here(r) = Ensure(p)
          BY <4>1, <5>1 DEF BodySteps, Assigns, Removes, Step
        <5>3. p = o
          BY <4>1, <5>2 DEF Ensure, Step
        <5>4. QED  BY <5>2, <5>3
      <4>4. store[Scope(x)] # None
        BY <2>1, <4>2, <4>3, ScopeIsThere
      <4>5. QED  BY <1>3, <3>1, <4>4, ScopesStay
    <3>4. QED  BY <3>2, <3>3
  <2>4. ASSUME NEW pair \in assigned'
        PROVE  store'[pair[2]] # None
    <3>1. CASE pair \in assigned
      <4>1. PICK n \in ScopeNames : pair[2] = Scope(n)
        BY <3>1 DEF TypeOK
      <4>2. QED  BY <1>3, <3>1, <4>1, ScopesStay DEF ScopesThere
    <3>2. CASE pair \notin assigned
      <4>1. /\ Here(r).op = "assign" /\ pair = <<Here(r).client, Here(r).obj>>
            /\ UNCHANGED store
        BY <1>3, <3>2
        DEF Call, Refuse, Stop, Look, Create, Update, Delete, Lookup, List, Pass,
            OpenFile, WriteFile, assignOptionalClientScope,
            removeOptionalClientScope, keycloak, Calls
      <4>2. QED  BY <2>1, <4>1, ScopeIsThere
    <3>3. QED  BY <3>1, <3>2
  <2>5. ASSUME NEW q \in Runs, status'[q] = "running",
               NEW k \in DOMAIN Plan[cfg'[q]], NEW s \in ScopeNames,
               k < at'[q], Plan[cfg'[q]][k] = Ensure(Scope(s))
        PROVE  store'[Scope(s)] # None
    <3>1. status[q] = "running" /\ cfg'[q] = cfg[q] /\ cfg[q] \in Configs
      BY <2>1, <2>2, <2>5 DEF TypeOK
    <3>2. k \in Nat
      BY <3>1, PlanShape
    <3>3. CASE k < at[q]
      BY <1>3, <2>5, <3>1, <3>3, ScopesStay DEF ScopesThere
    <3>4. CASE ~(k < at[q])
      <4>1. q = r
        BY <2>1, <2>5, <3>4
      <4>2. k = at[r] /\ at'[r] = at[r] + 1
        <5>1. at'[r] = at[r] + 1 \/ at'[r] = at[r]
          BY <1>3, <2>5, <4>1, AtStep
        <5>2. QED  BY <2>2, <2>5, <3>2, <3>4, <4>1, <5>1
      <4>3. Here(r).op = "ensure" /\ Here(r).obj = Scope(s)
        BY <2>2, <2>5, <3>1, <4>1, <4>2 DEF Ensure, Step
      <4>4. Create(r) \/ Update(r)
        <5>1. at'[r] # at[r]
          BY <2>2, <4>2
        <5>2. QED  BY <1>3, <2>5, <4>1, <4>3, <5>1, AtStep
      <4>5. QED  BY <1>3, <4>3, <4>4, StoreStep
    <3>5. QED  BY <3>3, <3>4
  <2>6. QED  BY <2>3, <2>4, <2>5 DEF ScopesThere
<1>4. QED  BY <1>1, <1>2, <1>3 DEF Next, Done

----------------------------------------------------------------------------
(* Runs that meet no rival reach what they ask for.                        *)

LEMMA ObsoleteShrinks ==
  ASSUME NEW c \in Configs, \A o \in Unrequired(c) : store'[o] \in {store[o], None}
  PROVE  ObsoleteMappers(c)' \subseteq ObsoleteMappers(c)
BY DEF ObsoleteMappers, Unrequired

\* A step of a run with options d undoes nothing that is finished for options c.
LEMMA FinishedKept ==
  ASSUME TypeOK, ProgressKept, NEW r \in Runs, Call(r) \/ Refuse(r) \/ Stop(r),
         NEW c \in Configs, cfg[r] = c \/ ~Rivals(cfg[r], c)
  PROVE  /\ ObsoleteMappers(c)' \subseteq ObsoleteMappers(c)
         /\ \A s \in PlanSteps(c) : Finished(c, s) => Finished(c, s)'
<1>. DEFINE d == cfg[r]
<1>1. status[r] = "running"
  BY OthersStay
<1>2. d \in Configs /\ Here(r) \in PlanSteps(d)
  BY <1>1, HereShape
<1>3. Unrequired(c) \subseteq Objects
  BY OwnObjects
<1>4. CASE Create(r) \/ Update(r)
  <2>. DEFINE o == Here(r).obj
  <2>1. /\ o \in Own(d) /\ store'[o] # None /\ store'[o].is = Representation(d, o)
        /\ \A p \in Objects \ {o} : store'[p] = store[p]
    BY <1>4, StoreStep
  <2>2. UNCHANGED assigned
    BY <1>4 DEF Create, Update
  <2>3. o \notin Unrequired(c)
    BY <2>1, <1>2, OptionTypes
    DEF Unrequired, Own, Rivals, Realm, Scope, Mapper, Client
  <2>4. ObsoleteMappers(c)' \subseteq ObsoleteMappers(c)
    BY <1>3, <2>1, <2>3, ObsoleteShrinks
  <2>5. ASSUME NEW s \in PlanSteps(c), Kept(c, s)
        PROVE  Kept(c, s)'
    <3>. HIDE DEF o
    <3>1. QED  BY <1>2, <2>1, <2>2, <2>5, PutKeeps
  <2>6. QED  BY <2>2, <2>4, <2>5 DEF Finished
<1>5. CASE Delete(r)
  <2>1. PICK o \in Unrequired(d) : store' = [store EXCEPT ![o] = None]
    BY <1>5, StoreStep
  <2>2. UNCHANGED assigned
    BY <1>5 DEF Delete
  <2>3. /\ \A p \in Objects : store'[p] \in {store[p], None}
        /\ \A p \in Objects \ {o} : store'[p] = store[p]
    BY <2>1 DEF TypeOK
  <2>4. ObsoleteMappers(c)' \subseteq ObsoleteMappers(c)
    BY <1>3, <2>3, ObsoleteShrinks
  <2>5. ASSUME NEW s \in PlanSteps(c), Kept(c, s)
        PROVE  Kept(c, s)'
    BY <1>2, <2>2, <2>3, <2>5, DeleteKeeps
  <2>6. QED  BY <2>2, <2>4, <2>5 DEF Finished
<1>6. CASE assignOptionalClientScope(r)
  <2>1. /\ assigned' = assigned \cup {<<Here(r).client, Here(r).obj>>}
        /\ UNCHANGED store /\ Here(r).op = "assign"
    BY <1>6 DEF assignOptionalClientScope, Calls
  <2>2. ObsoleteMappers(c)' = ObsoleteMappers(c)
    BY <2>1 DEF ObsoleteMappers
  <2>3. ASSUME NEW s \in PlanSteps(c), Kept(c, s)
        PROVE  Kept(c, s)'
    BY <2>1, <2>3 DEF Kept
  <2>4. ASSUME NEW s \in PlanSteps(c), s.op = "remove"
        PROVE  <<s.client, s.obj>> # <<Here(r).client, Here(r).obj>>
    <3>1. s \in Removes(c) /\ Here(r) \in Assigns(d)
      BY <1>2, <2>1, <2>4, StepShape DEF StepOK
    <3>2. PICK j \in ClientKinds : s = Step("remove", Scope(c.scope), Client(c.clients[j]))
      BY <3>1 DEF Removes
    <3>3. ~audienceScopeEnabled(c)
      BY <3>1 DEF Removes
    <3>4. PICK k \in ClientKinds, n \in Assigned(d) :
            Here(r) = Step("assign", Scope(n), Client(d.clients[k]))
      BY <3>1 DEF Assigns
    <3>5. CASE d = c
      <4>1. n \in WidgetScopes /\ c.scope \in AudienceScopes
        BY <3>3, <3>4, <3>5, OptionTypes DEF Assigned
      <4>2. s.obj # Here(r).obj
        BY <3>2, <3>4, <4>1 DEF Step, Scope
      <4>3. QED  BY <4>2
    <3>6. CASE ~Rivals(d, c)
      <4>1. s.client # Here(r).client
        BY <3>2, <3>4, <3>6 DEF Step, Client, Rivals
      <4>2. QED  BY <4>1
    <3>7. QED  BY <3>5, <3>6
  <2>5. QED  BY <2>1, <2>2, <2>3, <2>4 DEF Finished
<1>7. CASE removeOptionalClientScope(r)
  <2>1. /\ assigned' = assigned \ {<<Here(r).client, Here(r).obj>>}
        /\ UNCHANGED store /\ Here(r).op = "remove"
    BY <1>7 DEF removeOptionalClientScope, Calls
  <2>2. ObsoleteMappers(c)' = ObsoleteMappers(c)
    BY <2>1 DEF ObsoleteMappers
  <2>3. Here(r) \in Removes(d)
    BY <1>2, <2>1, StepShape DEF StepOK
  <2>4. ASSUME NEW s \in PlanSteps(c), Kept(c, s)
        PROVE  Kept(c, s)'
    BY <1>2, <2>1, <2>3, <2>4, RemoveKeeps
  <2>5. QED  BY <2>1, <2>2, <2>4 DEF Finished
<1>8. CASE UNCHANGED <<store, assigned>>
  BY <1>8 DEF Finished, Kept, ObsoleteMappers
<1>9. QED
  BY <1>4, <1>5, <1>6, <1>7, <1>8
  DEF Call, Refuse, Stop, Look, Lookup, List, Pass, OpenFile, WriteFile, keycloak

\* The audience scope of options c changes by runs of c, which only make it when it
\* is wanted, and of rivals.
LEMMA ScopeUntouched ==
  ASSUME TypeOK, ProgressKept, NEW r \in Runs, Call(r) \/ Refuse(r) \/ Stop(r),
         NEW c \in Configs,
         \/ cfg[r] = c /\ ~audienceScopeEnabled(c)
         \/ ~Rivals(cfg[r], c)
  PROVE  store'[Scope(c.scope)] = store[Scope(c.scope)]
<1>. DEFINE p == Scope(c.scope)
<1>1. p \in Objects
  BY OptionTypes DEF Objects, ScopeNames
<1>2. cfg[r] \in Configs
  BY OthersStay, HereShape
<1>3. p \notin Own(cfg[r])
  <2>1. \A n \in Assigned(cfg[r]) : n # c.scope
    BY <1>2, OptionTypes DEF Assigned, Rivals
  <2>2. QED  BY <2>1 DEF Own, Realm, Scope, Mapper, Client
<1>4. CASE Create(r) \/ Update(r)
  <2>1. /\ Here(r).obj \in Own(cfg[r])
        /\ \A q \in Objects \ {Here(r).obj} : store'[q] = store[q]
    BY <1>4, StoreStep
  <2>2. QED  BY <1>1, <1>3, <2>1
<1>5. CASE Delete(r)
  <2>1. PICK o \in Unrequired(cfg[r]) : store' = [store EXCEPT ![o] = None]
    BY <1>5, StoreStep
  <2>2. o # p
    BY DEF Unrequired, Mapper, Scope
  <2>3. QED  BY <1>1, <2>1, <2>2 DEF TypeOK
<1>6. CASE UNCHANGED store
  BY <1>6
<1>7. QED  BY <1>4, <1>5, <1>6, StoreStep

\* What a step has passed is finished.
LEMMA PassedFinished ==
  ASSUME TypeOK, ProgressKept, ScopesThere, NEW r \in Runs, Finishing(r),
         Call(r) \/ Refuse(r) \/ Stop(r), Advance(r), Here(r).op # "write"
  PROVE  \A c, s : c = cfg[r] /\ s = Here(r) => Finished(c, s)'
<1>. DEFINE d == cfg[r]
            h == Here(r)
<1>1. status[r] = "running" /\ d \in Configs /\ h \in PlanSteps(d) /\ UNCHANGED cfg
  BY OthersStay, HereShape
<1>2. at'[r] = at[r] + 1 /\ at[r] \in Nat /\ at'[r] # at[r]
  BY DEF Advance, TypeOK
<1>3. ~Look(r) /\ ~OpenFile(r) /\ ~WriteFile(r)
  BY <1>2 DEF Look, OpenFile, WriteFile, Calls
<1>4. status'[r] = "running"
  <2>1. \A how : End(r, how) => at'[r] = 1
    BY DEF End, TypeOK
  <2>2. CASE Refuse(r) \/ Stop(r)
    <3>1. at'[r] = 1
      BY <2>1, <2>2 DEF Refuse, Stop
    <3>2. at[r] \in 1..Len(Body(d)) + 1
      BY <1>1, HereShape
    <3>3. QED  BY <1>2, <3>1, <3>2
  <2>3. CASE Call(r)
    BY <1>1, <1>3, <2>3
    DEF Call, Create, Update, Lookup, List, Delete, Pass,
        assignOptionalClientScope, removeOptionalClientScope
  <2>4. QED  BY <2>2, <2>3
<1>5. ~Refuse(r) /\ ~Stop(r)
  BY <1>4 DEF Refuse, Stop, End, TypeOK
<1>6. CASE Create(r) \/ Update(r)
  <2>1. h.op = "ensure" /\ store'[h.obj] # None
        /\ store'[h.obj].is = Representation(d, h.obj)
    BY <1>6, StoreStep
  <2>2. \A c, s : c = d /\ s = h => Finished(c, s)'
    BY <1>1, <2>1 DEF Finished, Kept
  <2>3. QED  BY <2>2
<1>7. CASE Lookup(r)
  BY <1>7 DEF Lookup, Calls, Finished, Kept
<1>8. CASE List(r)
  <2>1. ObsoleteMappers(d) = {} /\ h.op = "prune" /\ UNCHANGED store
    <3>1. h.op = "prune" /\ UNCHANGED store
      BY <1>8 DEF List, Calls, keycloak
    <3>2. phase'[r] = "look"
      BY DEF Advance, TypeOK
    <3>3. QED  BY <1>8, <3>1, <3>2 DEF List, TypeOK
  <2>2. ObsoleteMappers(d)' = ObsoleteMappers(d)
    BY <1>1, <2>1 DEF ObsoleteMappers
  <2>3. \A c, s : c = d /\ s = h => Finished(c, s)'
    BY <1>1, <2>1, <2>2 DEF Finished, Kept, ObsoleteMappers
  <2>4. QED  BY <2>3
<1>9. CASE Delete(r)
  <2>1. PICK m \in obsolete[r] :
          /\ store' = [store EXCEPT ![m.obj] = None]
          /\ IF obsolete[r] = {m} THEN Advance(r)
             ELSE UNCHANGED <<at, phase, seen>>
    BY <1>9 DEF Delete
  <2>2. obsolete[r] = {m}
    BY <1>2, <2>1
  <2>3. h.op = "prune" /\ ObsoleteMappers(d) \subseteq {m.obj}
    BY <1>9, <2>2 DEF Delete, Calls, Finishing
  <2>4. m.obj \in Objects /\ \A o \in Objects \ {m.obj} : store'[o] = store[o]
    <3>1. m.obj \in Unrequired(d)
      BY <2>1 DEF ProgressKept, RunOK
    <3>2. QED  BY <1>1, <2>1, <3>1, OwnObjects DEF TypeOK
  <2>5. \A o \in Unrequired(d) :
          ~(store'[o] # None /\ store'[o].is = Generated)
    <3>1. Unrequired(d) \subseteq Objects
      BY <1>1, OwnObjects
    <3>2. store'[m.obj] = None
      BY <2>1, <2>4 DEF TypeOK
    <3>3. QED  BY <2>3, <2>4, <3>1, <3>2 DEF ObsoleteMappers, Unrequired
  <2>6. \A c, s : c = d /\ s = h => Finished(c, s)'
    BY <2>3, <2>5 DEF Finished, Kept, ObsoleteMappers, Unrequired
  <2>7. QED  BY <2>6
<1>10. CASE assignOptionalClientScope(r)
  <2>1. h.op = "assign" /\ <<h.client, h.obj>> \in assigned'
    BY <1>10 DEF assignOptionalClientScope, Calls
  <2>2. \A c, s : c = d /\ s = h => Finished(c, s)'
    BY <1>1, <2>1 DEF Finished, Kept
  <2>3. QED  BY <2>2
<1>11. CASE removeOptionalClientScope(r)
  <2>1. h.op = "remove" /\ <<h.client, h.obj>> \notin assigned'
    BY <1>11 DEF removeOptionalClientScope, Calls
  <2>2. \A c, s : c = d /\ s = h => Finished(c, s)'
    BY <1>1, <2>1 DEF Finished, Kept
  <2>3. QED  BY <2>2
<1>12. CASE Pass(r)
  <2>1. h.op \in {"prune", "remove"} /\ ~found[r] /\ UNCHANGED <<store, assigned>>
    BY <1>12 DEF Pass, Calls, keycloak
  <2>2. store[Scope(d.scope)] = None
    BY <2>1 DEF Finishing
  <2>3. ObsoleteMappers(d) = {}
    BY <1>1, <2>2, OptionTypes DEF ScopesThere, ObsoleteMappers
  <2>4. h.op = "remove" => <<h.client, h.obj>> \notin assigned
    <3>1. h.op = "remove" => h.obj = Scope(d.scope)
      BY <1>1, StepShape DEF StepOK, Removes, Step
    <3>2. QED  BY <2>2, <3>1 DEF ScopesThere
  <2>5. \A c, s : c = d /\ s = h => Finished(c, s)'
    BY <2>1, <2>3, <2>4 DEF Finished, Kept, ObsoleteMappers
  <2>6. QED  BY <2>5
<1>13. QED
  BY <1>3, <1>5, <1>6, <1>7, <1>8, <1>9, <1>10, <1>11, <1>12 DEF Call

\* The steps of options c that were finished stay so, and those passed are finished.
LEMMA WorkFinished ==
  ASSUME TypeOK, ProgressKept, ScopesThere, NEW r \in Runs, Finishing(r),
         status[r] = "running", Call(r) \/ Refuse(r) \/ Stop(r), status'[r] = "running",
         NEW k \in DOMAIN Plan[cfg[r]], k < at'[r]
  PROVE  \A c : c = cfg[r] => Finished(c, Plan[c][k])'
<1>. DEFINE d == cfg[r]
<1>1. /\ d \in Configs /\ at[r] \in Nat \ {0} /\ Here(r) = Plan[d][at[r]]
  BY HereShape
<1>2. k \in Nat /\ Plan[d][k] \in PlanSteps(d)
  BY <1>1, PlanShape
<1>3. CASE k < at[r]
  <2>1. Finished(d, Plan[d][k])
    BY <1>3 DEF Finishing
  <2>2. \A c \in Configs : \A s \in PlanSteps(c) :
          c = d /\ Finished(c, s) => Finished(c, s)'
    BY FinishedKept
  <2>3. ASSUME NEW c, c = d
        PROVE  Finished(c, Plan[c][k])'
    <3>1. c \in Configs /\ Plan[c][k] \in PlanSteps(c) /\ Finished(c, Plan[c][k])
      BY <1>1, <1>2, <2>1, <2>3
    <3>2. QED  BY <2>2, <2>3, <3>1
  <2>4. QED  BY <2>3
<1>4. CASE ~(k < at[r])
  <2>1. at'[r] = at[r] + 1 /\ Advance(r) /\ Here(r).op # "write"
    BY <1>1, <1>2, <1>4, AtStep
  <2>2. k = at[r]
    BY <1>1, <1>2, <1>4, <2>1
  <2>3. \A c, s : c = d /\ s = Here(r) => Finished(c, s)'
    BY <2>1, PassedFinished
  <2>4. \A c : c = d => Here(r) = Plan[c][k]
    BY <1>1, <2>2
  <2>5. QED  BY <2>3, <2>4
<1>5. QED  BY <1>3, <1>4

\* A run's own step.
LEMMA OwnFinishing ==
  ASSUME TypeOK, ProgressKept, ScopesThere, NEW r \in Runs, Finishing(r),
         Call(r) \/ Refuse(r) \/ Stop(r), status'[r] \in {"running", "done"}
  PROVE  Finishing(r)'
<1>. DEFINE d == cfg[r]
<1>1. status[r] = "running" /\ UNCHANGED cfg
  BY OthersStay
<1>2. d \in Configs /\ Here(r) \in PlanSteps(d) /\ at[r] \in Nat \ {0}
  BY <1>1, HereShape
<1>3. CASE status'[r] = "running"
  <2>1. \A k \in DOMAIN Plan[d] : k < at'[r] =>
          \A c : c = d => Finished(c, Plan[c][k])'
    BY <1>1, <1>3, WorkFinished
  <2>2. ~found'[r] => ~audienceScopeEnabled(d) /\ store'[Scope(d.scope)] = None
    <3>1. CASE Lookup(r)
      <4>1. /\ Here(r).op = "find" /\ UNCHANGED store
            /\ found'[r] = (store[Here(r).obj] # None)
        BY <3>1 DEF Lookup, Calls, keycloak, TypeOK
      <4>2. ~audienceScopeEnabled(d) /\ Here(r).obj = Scope(d.scope)
        BY <1>2, <4>1, StepShape DEF StepOK
      <4>3. QED  BY <4>1, <4>2
    <3>2. CASE ~Lookup(r)
      <4>1. ~WriteFile(r) /\ ~Refuse(r) /\ ~Stop(r)
        BY <1>3 DEF WriteFile, Refuse, Stop, End, TypeOK
      <4>2. found'[r] = found[r]
        BY <3>2, <4>1
        DEF Call, Look, Create, Update, List, Delete, Pass, OpenFile,
            assignOptionalClientScope, removeOptionalClientScope
      <4>3. ASSUME ~found[r]
            PROVE  ~audienceScopeEnabled(d) /\ store'[Scope(d.scope)] = None
        <5>1. ~audienceScopeEnabled(d) /\ store[Scope(d.scope)] = None
          BY <4>3 DEF Finishing
        <5>2. store'[Scope(d.scope)] = store[Scope(d.scope)]
          BY <1>2, <5>1, ScopeUntouched
        <5>3. QED  BY <5>1, <5>2
      <4>4. QED  BY <4>2, <4>3
    <3>3. QED  BY <3>1, <3>2
  <2>3. ASSUME phase'[r] = "put", Here(r)'.op = "prune"
        PROVE  \A c : c = d =>
                 ObsoleteMappers(c)' \subseteq {m.obj : m \in obsolete'[r]}
    <3>1. ~Advance(r)
      BY <2>3 DEF Advance, TypeOK
    <3>2. at'[r] = at[r] /\ Here(r)' = Here(r)
      BY <1>1, <1>3, <3>1, AtStep DEF Here
    <3>3. List(r) \/ Delete(r)
      <4>1. ~WriteFile(r) /\ ~Refuse(r) /\ ~Stop(r)
        BY <1>3 DEF WriteFile, Refuse, Stop, End, TypeOK
      <4>2. ~Look(r) /\ ~OpenFile(r)
        BY <2>3, <3>2 DEF Look, OpenFile, Calls
      <4>3. QED
        BY <3>1, <4>1, <4>2
        DEF Call, Create, Update, Lookup, Pass, assignOptionalClientScope,
            removeOptionalClientScope
    <3>4. CASE List(r)
      <4>1. /\ obsolete'[r] = {[obj |-> o, by |-> store[o].by] :
                                 o \in ObsoleteMappers(d)}
            /\ UNCHANGED store
        BY <3>1, <3>4 DEF List, TypeOK, keycloak
      <4>2. \A c : c = d => ObsoleteMappers(c)' = ObsoleteMappers(d)
        BY <4>1 DEF ObsoleteMappers
      <4>3. ASSUME NEW o \in ObsoleteMappers(d)
            PROVE  \E m \in obsolete'[r] : m.obj = o
        <5>. DEFINE m == [obj |-> o, by |-> store[o].by]
        <5>1. m \in obsolete'[r] /\ m.obj = o
          BY <4>1
        <5>2. QED  BY <5>1
      <4>4. QED  BY <4>2, <4>3
    <3>5. CASE Delete(r)
      <4>1. PICK m \in obsolete[r] :
              /\ store' = [store EXCEPT ![m.obj] = None]
              /\ obsolete' = [obsolete EXCEPT ![r] = @ \ {m}]
        BY <3>1, <3>5 DEF Delete
      <4>2. ObsoleteMappers(d) \subseteq {n.obj : n \in obsolete[r]}
        BY <3>5 DEF Delete, Calls, Finishing
      <4>3. m.obj \in Unrequired(d) /\ Unrequired(d) \subseteq Objects
        BY <1>2, <4>1, OwnObjects DEF ProgressKept, RunOK
      <4>4. /\ store'[m.obj] = None /\ obsolete'[r] = obsolete[r] \ {m}
            /\ \A o \in Objects \ {m.obj} : store'[o] = store[o]
        BY <4>1, <4>3 DEF TypeOK
      <4>5. ASSUME NEW c, c = d, NEW o \in ObsoleteMappers(c)'
            PROVE  o \in {n.obj : n \in obsolete'[r]}
        <5>1. o \in Unrequired(d) /\ store'[o] # None /\ store'[o].is = Generated
          BY <4>5 DEF ObsoleteMappers, Unrequired
        <5>2. o # m.obj /\ store'[o] = store[o]
          BY <4>3, <4>4, <5>1
        <5>3. o \in ObsoleteMappers(d)
          BY <5>1, <5>2 DEF ObsoleteMappers, Unrequired
        <5>4. PICK n \in obsolete[r] : n.obj = o
          BY <4>2, <5>3
        <5>5. n \in obsolete'[r]
          BY <4>4, <5>2, <5>4
        <5>6. QED  BY <5>4, <5>5
      <4>6. QED  BY <4>5
    <3>6. QED  BY <3>3, <3>4, <3>5
  <2>4. QED  BY <1>1, <1>3, <2>1, <2>2, <2>3 DEF Finishing, Calls
<1>4. CASE status'[r] = "done"
  <2>1. WriteFile(r)
    BY <1>1, <1>4
    DEF Call, Look, Create, Update, Lookup, List, Delete, assignOptionalClientScope,
        removeOptionalClientScope, Pass, OpenFile, Refuse, Stop, End, TypeOK
  <2>2. /\ file'[d.envFile] = FileOf(d) /\ found'[r] /\ UNCHANGED <<store, assigned>>
        /\ Here(r).op = "write"
    BY <1>2, <2>1, OptionTypes DEF WriteFile, Calls, End, TypeOK
  <2>3. ASSUME NEW k \in DOMAIN Plan[d]
        PROVE  Finished(d, Plan[d][k])
    <3>1. CASE k < at[r]
      BY <3>1 DEF Finishing
    <3>2. CASE ~(k < at[r])
      <4>1. Plan[d][k] = LastStep
        BY <1>1, <1>2, <2>2, <3>2, HereShape, PlanShape
      <4>2. QED  BY <4>1 DEF Finished, Kept, LastStep, Step
    <3>3. QED  BY <3>1, <3>2
  <2>4. \A c : c = d =>
          \A k \in DOMAIN Plan[c] : Finished(c, Plan[c][k])'
    BY <2>2, <2>3 DEF Finished, Kept, ObsoleteMappers
  <2>5. QED  BY <1>1, <1>4, <2>2, <2>4 DEF Finishing, Calls
<1>5. QED  BY <1>3, <1>4

\* Another run's step.
LEMMA OtherFinishing ==
  ASSUME TypeOK, ProgressKept, NEW r \in Runs, Call(r) \/ Refuse(r) \/ Stop(r),
         NEW q \in Runs \ {r}, status[q] \in {"running", "done"},
         ~Rivals(cfg[r], cfg[q]), Finishing(q)
  PROVE  Finishing(q)'
<1>. DEFINE c == cfg[q]
<1>1. c \in Configs /\ cfg[r] \in Configs /\ status[r] = "running"
  BY OthersStay, HereShape DEF TypeOK
<1>2. /\ status'[q] = status[q] /\ at'[q] = at[q] /\ phase'[q] = phase[q]
      /\ obsolete'[q] = obsolete[q] /\ found'[q] = found[q] /\ UNCHANGED cfg
  BY OthersStay
<1>3. \A k \in DOMAIN Plan[c] : Plan[c][k] \in PlanSteps(c)
  BY <1>1, PlanShape
<1>4. \A b \in Configs : b = c =>
        /\ ObsoleteMappers(b)' \subseteq ObsoleteMappers(b)
        /\ \A s \in PlanSteps(b) : Finished(b, s) => Finished(b, s)'
  BY FinishedKept
<1>5. store'[Scope(c.scope)] = store[Scope(c.scope)]
  BY <1>1, ScopeUntouched
<1>6. file'[c.envFile] = file[c.envFile]
  <2>1. cfg[r].envFile # c.envFile
    BY DEF Rivals
  <2>2. CASE OpenFile(r) \/ WriteFile(r)
    BY <1>1, <2>1, <2>2, OptionTypes DEF OpenFile, WriteFile, TypeOK
  <2>3. CASE ~(OpenFile(r) \/ WriteFile(r))
    BY <2>3
    DEF Call, Refuse, Stop, Look, Create, Update, Lookup, List, Delete, Pass,
        assignOptionalClientScope, removeOptionalClientScope, keycloak
  <2>4. QED  BY <2>2, <2>3
<1>7. Here(q)' = Here(q)
  BY <1>2 DEF Here
<1>8. ASSUME NEW b, b = c
      PROVE  \A k \in DOMAIN Plan[b] :
               status[q] = "done" \/ k < at[q] => Finished(b, Plan[b][k])'
  BY <1>1, <1>3, <1>4, <1>8 DEF Finishing
<1>9. ASSUME NEW b, b = c, Calls(q, "prune", "put")
      PROVE  ObsoleteMappers(b)' \subseteq {m.obj : m \in obsolete[q]}
  BY <1>1, <1>4, <1>9 DEF Finishing
<1>10. QED
  BY <1>2, <1>5, <1>6, <1>7, <1>8, <1>9 DEF Finishing, Calls

LEMMA ReachingKept ==
  ASSUME TypeOK, ProgressKept, LooksCurrent, ScopesThere, ReachingPlans, [Next]_vars
  PROVE  ReachingPlans'
<1>1. CASE UNCHANGED vars
  <2>1. UNCHANGED <<store, assigned, file, status, cfg, at, phase, obsolete, found, meets>>
    BY <1>1 DEF vars, keycloak, locals
  <2>2. QED
    BY <2>1
    DEF ReachingPlans, Undisturbed, Finishing, Finished, Kept, ObsoleteMappers, Calls,
        Here
<1>2. ASSUME NEW r \in Runs, Start(r)
      PROVE  ReachingPlans'
  <2>1. PICK d \in Configs : cfg' = [cfg EXCEPT ![r] = d]
    BY <1>2 DEF Start
  <2>2. /\ UNCHANGED <<store, assigned, file, at, phase, obsolete, found>>
        /\ status[r] = "idle" /\ at[r] = 1 /\ found[r] /\ phase[r] = "look"
        /\ status'[r] = "running"
        /\ \A q \in Runs \ {r} : status'[q] = status[q]
    BY <1>2
    DEF Start, keycloak, locals, TypeOK, ProgressKept, RunOK, LooksCurrent, AloneOK
  <2>3. /\ cfg'[r] = d /\ \A q \in Runs \ {r} : cfg'[q] = cfg[q]
    BY <2>1 DEF TypeOK
  <2>4. Finishing(r)'
    <3>1. \A k \in DOMAIN Plan[d] : ~(k < at'[r])
      BY <2>2, PlanShape
    <3>2. QED  BY <2>2, <2>3, <3>1 DEF Finishing, Calls
  <2>5. ASSUME NEW q \in Runs \ {r}, status[q] \in {"running", "done"}, Undisturbed(q)'
        PROVE  Finishing(q)'
    <3>1. meets'[q] = meets[q] \cup {r}
      BY <1>2, <2>5 DEF Start
    <3>2. \A p \in meets[q] : p \in Runs \ {r}
      BY <2>2 DEF LooksCurrent, Met, TypeOK
    <3>3. Undisturbed(q)
      BY <2>3, <2>5, <3>1, <3>2 DEF Undisturbed
    <3>4. Finishing(q)
      BY <2>5, <3>3 DEF ReachingPlans
    <3>5. cfg'[q] = cfg[q] /\ status'[q] = status[q]
      BY <2>2, <2>3
    <3>6. QED
      BY <2>2, <3>4, <3>5
      DEF Finishing, Finished, Kept, ObsoleteMappers, Calls, Here
  <2>6. QED  BY <2>2, <2>4, <2>5 DEF ReachingPlans
<1>3. ASSUME NEW r \in Runs, Call(r) \/ Refuse(r) \/ Stop(r)
      PROVE  ReachingPlans'
  <2>1. /\ status[r] = "running" /\ UNCHANGED <<cfg, meets>>
        /\ \A q \in Runs \ {r} : status'[q] = status[q]
    BY <1>3, OthersStay
  <2>2. \A q \in Runs : Undisturbed(q)' <=> Undisturbed(q)
    BY <2>1 DEF Undisturbed
  <2>3. ASSUME status'[r] \in {"running", "done"}, Undisturbed(r)
        PROVE  Finishing(r)'
    <3>1. Finishing(r)
      BY <2>1, <2>3 DEF ReachingPlans
    <3>2. QED  BY <1>3, <2>3, <3>1, OwnFinishing
  <2>4. ASSUME NEW q \in Runs \ {r}, status[q] \in {"running", "done"}, Undisturbed(q)
        PROVE  Finishing(q)'
    <3>1. r \in meets[q]
      BY <2>1, <2>4 DEF LooksCurrent, Met
    <3>2. ~Rivals(cfg[r], cfg[q]) /\ Finishing(q)
      BY <2>4, <3>1 DEF Undisturbed, ReachingPlans
    <3>3. QED  BY <1>3, <2>4, <3>2, OtherFinishing
  <2>5. QED  BY <2>1, <2>2, <2>3, <2>4 DEF ReachingPlans
<1>4. QED  BY <1>1, <1>2, <1>3 DEF Next, Done

\* Mappers and assignments belong to scopes that are there, and what a run that met
\* no rival has passed is as its options want it, in every state.
THEOREM ReachingPlansAlways == Spec => [](ScopesThere /\ ReachingPlans)
<1>1. Init => ScopesThere /\ ReachingPlans
  <2>. SUFFICES ASSUME Init PROVE ScopesThere /\ ReachingPlans
    OBVIOUS
  <2>1. ScopesThere
    BY DEF Init, ScopesThere
  <2>2. ReachingPlans
    BY DEF Init, ReachingPlans
  <2>3. QED  BY <2>1, <2>2
<1>2. TypeOK /\ ProgressKept /\ LooksCurrent /\ (ScopesThere /\ ReachingPlans)
        /\ [Next]_vars => (ScopesThere /\ ReachingPlans)'
  BY ScopesThereKept, ReachingKept
<1>3. QED  BY <1>1, <1>2, ProgressAlways, LooksCurrentAlways, PTL DEF Spec

\* A run that ended well and met no rival has brought the realm and the env file to
\* what its options ask for.
THEOREM ConvergedAlways == Spec => []Converged
<1>1. ASSUME TypeOK, ReachingPlans, NEW r \in Runs,
             status[r] = "done", \A q \in meets[r] : ~Rivals(cfg[q], cfg[r])
      PROVE  Reached(cfg[r])
  <2>. DEFINE c == cfg[r]
  <2>1. c \in Configs /\ Finishing(r)
    BY <1>1 DEF TypeOK, ReachingPlans, Undisturbed
  <2>2. file[c.envFile] = FileOf(c) /\ \A k \in DOMAIN Plan[c] : Finished(c, Plan[c][k])
    BY <1>1, <2>1 DEF Finishing
  <2>3. Usable(FileOf(c))
    BY <2>1, <2>2, KeptUsable DEF Finished
  <2>4. \A s \in Cleanings(c) : Finished(c, s)
    BY <2>1, <2>2, PlanShape
  <2>5. ObsoleteMappers(c) = {}
    <3>1. Finished(c, Step("prune", Scope(c.scope), None))
      BY <2>4 DEF Cleanings
    <3>2. QED  BY <3>1 DEF Finished, Step
  <2>6. ASSUME ~audienceScopeEnabled(c), NEW k \in AudienceClients
        PROVE  <<Client(c.clients[k]), Scope(c.scope)>> \notin assigned
    <3>1. Finished(c, Step("remove", Scope(c.scope), Client(c.clients[k])))
      BY <2>4, <2>6 DEF Cleanings
    <3>2. QED  BY <3>1 DEF Finished, Step
  <2>7. QED  BY <2>2, <2>3, <2>5, <2>6 DEF Reached, ObsoleteMappers
<1>2. TypeOK /\ ReachingPlans => Converged
  BY <1>1 DEF Converged
<1>3. QED  BY <1>2, TypeCorrect, ReachingPlansAlways, PTL
=============================================================================
