---------------------------- MODULE KeycloakSetup ----------------------------
(***************************************************************************)
(* The setup script: runs of scripts/setup-keycloak.mjs against one realm. *)
(* A run is a straight line of administrative calls, each of which looks   *)
(* for an object and then creates or updates it, assigns or removes a      *)
(* scope, or deletes an audience mapper; at its end it writes an env file, *)
(* from which the services are started.  Runs may be stopped between any   *)
(* two calls.  Runs of several operators and environments overlap, and may *)
(* share clients, the audience scope or the env file.                      *)
(*                                                                         *)
(* Keycloak answers one call at a time.  It refuses to create an object    *)
(* whose name is taken (409) and to change one whose id is gone (404); the *)
(* script ends at any status it does not expect.  Nothing it does deletes  *)
(* a realm, a scope or a client, so only mappers can be gone, and the GET  *)
(* that reads back the id of a new object is part of its creation.         *)
(***************************************************************************)
EXTENDS Naturals, FiniteSets, Sequences

CONSTANTS
  Runs,           \* invocations of the script
  MaxOverlap,     \* how many of them are under way at a time (a bound)
  LateOverlap,    \* whether one begins beside another when one has ended (a bound)
  ClientIds,      \* made from --environment, or given one by one
  EnvFiles,       \* --env-file, or the one of the environment
  Origins,        \* public addresses of the frontend and of the two APIs
  Audiences,      \* --required-audiences
  AudienceScopes, \* --audience-scope
  WIDGET_SCOPES,  \* the names of the widget scopes, in order
  Configs,        \* the options runs are given
  Priors,         \* what the realm holds before the first run
  Torn,           \* an env file that is being written
  None

WidgetScopes == {WIDGET_SCOPES[i] : i \in DOMAIN WIDGET_SCOPES}

BrowserClients == {"bff", "providerApiSwagger", "providerSdxApiSwagger"}
AudienceClients == {"bff", "providerSdxApiSwagger"}
ClientKinds == BrowserClients \cup {"providerService"}

\* main reads its options: the audiences without duplicates, in order.
Options ==
  [clients : [ClientKinds -> ClientIds], envFile : EnvFiles,
   origins : [BrowserClients -> Origins],
   audiences : Seq(Audiences), scope : AudienceScopes]

Required(c) == {c.audiences[i] : i \in DOMAIN c.audiences}

audienceScopeEnabled(c) == Required(c) # {}

----------------------------------------------------------------------------
(* What Keycloak holds: each object's settings and the run that made it,   *)
(* which stands for its id.                                                *)

Realm        == [kind |-> "realm",  of |-> None, name |-> None]
Scope(s)     == [kind |-> "scope",  of |-> None, name |-> s]
Mapper(s, a) == [kind |-> "mapper", of |-> s,    name |-> a]
Client(i)    == [kind |-> "client", of |-> None, name |-> i]

ScopeNames == WidgetScopes \cup AudienceScopes

Mappers == {Mapper(s, a) : s \in AudienceScopes, a \in Audiences}
Clients == {Client(i) : i \in ClientIds}
Objects == {Realm} \cup {Scope(s) : s \in ScopeNames} \cup Mappers \cup Clients

\* Settings: a client's are those of its kind, with the address its users come
\* back to; other objects are as the script makes them, made by hand, or, of a
\* mapper, of another type under the script's name.
Settings ==
  [as : ClientKinds \cup {"generated", "manual", "other"}, address : Origins \cup {None}]

Plain(how) == [as |-> how, address |-> None]
Generated  == Plain("generated")
OtherType  == Plain("other")

Made == [is : Settings, by : Runs \cup {None}]

\* An env file's content; None before there is one.
Files ==
  [clients : [ClientKinds -> ClientIds], origins : [BrowserClients -> Origins],
   audiences : SUBSET Audiences, scope : AudienceScopes \cup {None}]

ASSUME NamesAssumption ==
  /\ WIDGET_SCOPES \in Seq(WidgetScopes)
  /\ WidgetScopes \cap AudienceScopes = {}
  /\ None \notin Made \cup Files \cup Options \cup Runs \cup ScopeNames
  /\ Torn \notin Files /\ Torn # None

ASSUME ConfigsAssumption ==
  /\ Configs \subseteq Options
  /\ None \notin Configs
  /\ Priors \subseteq [Objects -> Made \cup {None}]
  /\ \A p \in Priors :
       /\ \A o \in Objects : p[o] # None /\ p[o].is = OtherType => o.kind = "mapper"
       /\ \A x \in AudienceScopes, a \in Audiences :
            p[Mapper(x, a)] # None => p[Scope(x)] # None

\* The four clients of a run are different ones.
ASSUME ClientIdsAssumption ==
  \A c \in Configs : \A j, k \in ClientKinds : c.clients[j] = c.clients[k] => j = k

VARIABLES
  store,     \* the objects of the realm, None where there is none
  assigned,  \* optional scopes of clients, as pairs of both
  file,      \* the env files
  status,    \* of each run
  cfg,       \* its options
  at,        \* the step of the plan it is at
  phase,     \* whether it has looked, at that step, or not yet
  seen,      \* the object the look found, or None
  obsolete,  \* the mappers the look found obsolete
  found,     \* whether it has an audience scope
  meets      \* history: runs under way when it started, and begun since

keycloak == <<store, assigned, file>>
locals   == <<at, phase, seen, obsolete, found>>
vars     == <<keycloak, status, cfg, locals, meets>>
----------------------------------------------------------------------------
(* main as a plan: its calls in order.                                     *)

Step(op, obj, client) == [op |-> op, obj |-> obj, client |-> client]
Ensure(obj) == Step("ensure", obj, None)

ScopeSteps == [i \in 1..Len(WIDGET_SCOPES) |-> Ensure(Scope(WIDGET_SCOPES[i]))]

AudienceScopeStep(c) ==
  Step(IF audienceScopeEnabled(c) THEN "ensure" ELSE "find", Scope(c.scope), None)

\* reconcileAudienceMappers
MapperSteps(c) ==
  [i \in 1..Len(c.audiences) |-> Ensure(Mapper(c.scope, c.audiences[i]))]
    \o <<Step("prune", Scope(c.scope), None)>>

ClientSteps(c) ==
  <<Ensure(Client(c.clients.bff)),
    Ensure(Client(c.clients.providerService)),
    Ensure(Client(c.clients.providerApiSwagger)),
    Ensure(Client(c.clients.providerSdxApiSwagger))>>

AssignSteps(c, k) ==
  [i \in 1..Len(WIDGET_SCOPES) |->
     Step("assign", Scope(WIDGET_SCOPES[i]), Client(c.clients[k]))]

\* Mutant of AudienceSteps: a scope that is no longer required stays assigned.
GiveOnly(c) ==
  IF audienceScopeEnabled(c)
    THEN <<Step("assign", Scope(c.scope), Client(c.clients.bff)),
           Step("assign", Scope(c.scope), Client(c.clients.providerSdxApiSwagger))>>
    ELSE <<>>

AudienceSteps(c) ==
  LET op == IF audienceScopeEnabled(c) THEN "assign" ELSE "remove" IN
  <<Step(op, Scope(c.scope), Client(c.clients.bff)),
    Step(op, Scope(c.scope), Client(c.clients.providerSdxApiSwagger))>>

\* All calls but the last.
Body(c) ==
  <<Ensure(Realm)>> \o ScopeSteps \o <<AudienceScopeStep(c)>> \o MapperSteps(c)
    \o ClientSteps(c)
    \o AssignSteps(c, "bff") \o AssignSteps(c, "providerApiSwagger")
    \o AssignSteps(c, "providerSdxApiSwagger")
    \o AudienceSteps(c)

Plan == [c \in Configs |-> Append(Body(c), Step("write", None, None))]

KindOf(c, o) == CHOOSE k \in ClientKinds : c.clients[k] = o.name

OriginOf(c, k) == IF k \in BrowserClients THEN c.origins[k] ELSE None

\* Mutant of Representation: a client's id taken for its address.
MixedUp(c, o) ==
  IF o.kind = "client" THEN [as |-> KindOf(c, o), address |-> o.name] ELSE Generated

\* What a run with options c makes of an object.
Representation(c, o) ==
  IF o.kind = "client"
    THEN [as |-> KindOf(c, o), address |-> OriginOf(c, KindOf(c, o))]
    ELSE Generated

FileOf(c) ==
  [clients   |-> c.clients,
   origins   |-> c.origins,
   audiences |-> Required(c),
   scope     |-> IF audienceScopeEnabled(c) THEN c.scope ELSE None]

----------------------------------------------------------------------------
Active == {r \in Runs : status[r] = "running"}

\* MaxOverlap and LateOverlap bound how runs overlap; alone, one may always begin.
Room ==
  \/ Active = {}
  \/ /\ Cardinality(Active) < MaxOverlap
     /\ LateOverlap \/ \A q \in Runs : status[q] \in {"idle", "running"}

\* A run begins: main has its options and an administrator's token.
Start(r) ==
  /\ status[r] = "idle"
  /\ Room
  /\ \E c \in Configs : cfg' = [cfg EXCEPT ![r] = c]
  /\ status' = [status EXCEPT ![r] = "running"]
  /\ meets' = [q \in Runs |->
                 CASE q = r -> Active
                   [] q # r /\ status[q] = "idle" -> {}
                   [] OTHER -> meets[q] \cup {r}]
  /\ UNCHANGED <<keycloak, locals>>

Here(r) == Plan[cfg[r]][at[r]]

Calls(r, op, ph) ==
  status[r] = "running" /\ Here(r).op = op /\ phase[r] = ph

Advance(r) ==
  /\ at' = [at EXCEPT ![r] = @ + 1]
  /\ phase' = [phase EXCEPT ![r] = "look"]
  /\ seen' = [seen EXCEPT ![r] = None]
  /\ obsolete' = [obsolete EXCEPT ![r] = {}]

\* A run that has ended needs its locals no more.
End(r, how) ==
  /\ status' = [status EXCEPT ![r] = how]
  /\ at' = [at EXCEPT ![r] = 1]
  /\ phase' = [phase EXCEPT ![r] = "look"]
  /\ seen' = [seen EXCEPT ![r] = None]
  /\ obsolete' = [obsolete EXCEPT ![r] = {}]
  /\ found' = [found EXCEPT ![r] = TRUE]

\* Mutant of Found: what is there already is not looked for.
Never(o) == None

\* The find of each ensure: a mapper of another type does not count.
Found(o) == IF store[o] # None /\ store[o].is = OtherType THEN None ELSE store[o]

Look(r) ==
  /\ Calls(r, "ensure", "look")
  /\ seen' = [seen EXCEPT ![r] = Found(Here(r).obj)]
  /\ phase' = [phase EXCEPT ![r] = "put"]
  /\ UNCHANGED <<keycloak, status, cfg, at, obsolete, found, meets>>

\* POST
Create(r) ==
  /\ Calls(r, "ensure", "put")
  /\ LET o == Here(r).obj IN
       /\ seen[r] = None /\ store[o] = None
       /\ store' = [store EXCEPT ![o] =
                      [is |-> Representation(cfg[r], o), by |-> r]]
  /\ Advance(r)
  /\ UNCHANGED <<assigned, file, status, cfg, found, meets>>

SameObject(r, o) == seen[r] # None /\ store[o] # None /\ store[o].by = seen[r].by

\* PUT, at the id that was found
Update(r) ==
  /\ Calls(r, "ensure", "put")
  /\ LET o == Here(r).obj IN
       /\ SameObject(r, o)
       /\ store' = [store EXCEPT ![o].is = Representation(cfg[r], o)]
  /\ Advance(r)
  /\ UNCHANGED <<assigned, file, status, cfg, found, meets>>

\* findClientScope, when no audience is required
Lookup(r) ==
  /\ Calls(r, "find", "look")
  /\ found' = [found EXCEPT ![r] = store[Here(r).obj] # None]
  /\ Advance(r)
  /\ UNCHANGED <<keycloak, status, cfg, meets>>

\* Mutant of ObsoleteMappers: required mappers are deleted too, to be made anew.
GeneratedMappers(c) ==
  {o \in {Mapper(c.scope, a) : a \in Audiences} :
     store[o] # None /\ store[o].is = Generated}

\* findObsoleteAudienceMappers: only mappers as the script makes them count.
ObsoleteMappers(c) ==
  {o \in {Mapper(c.scope, a) : a \in Audiences \ Required(c)} :
     store[o] # None /\ store[o].is = Generated}

List(r) ==
  /\ Calls(r, "prune", "look") /\ found[r]
  /\ LET gone == ObsoleteMappers(cfg[r]) IN
       \/ gone = {} /\ Advance(r)
       \/ /\ gone # {}
          /\ obsolete' = [obsolete EXCEPT ![r] =
                            {[obj |-> o, by |-> store[o].by] : o \in gone}]
          /\ phase' = [phase EXCEPT ![r] = "put"]
          /\ UNCHANGED <<at, seen>>
  /\ UNCHANGED <<keycloak, status, cfg, found, meets>>

\* m is still the object it was when it was listed.
Current(m) == store[m.obj] # None /\ store[m.obj].by = m.by

Delete(r) ==
  /\ Calls(r, "prune", "put")
  /\ \E m \in obsolete[r] :
       /\ Current(m)
       /\ store' = [store EXCEPT ![m.obj] = None]
       /\ IF obsolete[r] = {m}
            THEN Advance(r)
            ELSE /\ obsolete' = [obsolete EXCEPT ![r] = @ \ {m}]
                 /\ UNCHANGED <<at, phase, seen>>
  /\ UNCHANGED <<assigned, file, status, cfg, found, meets>>

\* A status keycloakRequest does not expect: the name is taken, or the id is
\* gone.
Refused(r) ==
  \/ /\ Calls(r, "ensure", "put")
     /\ LET o == Here(r).obj IN
        ~(seen[r] = None /\ store[o] = None) /\ ~SameObject(r, o)
  \/ /\ Calls(r, "prune", "put")
     /\ \E m \in obsolete[r] : ~Current(m)

Refuse(r) ==
  /\ Refused(r)
  /\ End(r, "refused")
  /\ UNCHANGED <<keycloak, cfg, meets>>

assignOptionalClientScope(r) ==
  /\ Calls(r, "assign", "look")
  /\ assigned' = assigned \cup {<<Here(r).client, Here(r).obj>>}
  /\ Advance(r)
  /\ UNCHANGED <<store, file, status, cfg, found, meets>>

removeOptionalClientScope(r) ==
  /\ Calls(r, "remove", "look") /\ found[r]
  /\ assigned' = assigned \ {<<Here(r).client, Here(r).obj>>}
  /\ Advance(r)
  /\ UNCHANGED <<store, file, status, cfg, found, meets>>

\* There is no audience scope to clear.
Pass(r) ==
  /\ Calls(r, "prune", "look") \/ Calls(r, "remove", "look")
  /\ ~found[r]
  /\ Advance(r)
  /\ UNCHANGED <<keycloak, status, cfg, found, meets>>

\* writeFile empties the file before it writes.
OpenFile(r) ==
  /\ Calls(r, "write", "look")
  /\ file' = [file EXCEPT ![cfg[r].envFile] = Torn]
  /\ phase' = [phase EXCEPT ![r] = "put"]
  /\ UNCHANGED <<store, assigned, status, cfg, at, seen, obsolete, found, meets>>

WriteFile(r) ==
  /\ Calls(r, "write", "put")
  /\ file' = [file EXCEPT ![cfg[r].envFile] = FileOf(cfg[r])]
  /\ End(r, "done")
  /\ UNCHANGED <<store, assigned, cfg, meets>>

\* The run is interrupted, or a call fails for a reason of its own (the
\* network, an expired administrator's token, an answer without a secret).
Stop(r) ==
  /\ status[r] = "running"
  /\ End(r, "stopped")
  /\ UNCHANGED <<keycloak, cfg, meets>>

----------------------------------------------------------------------------
Init ==
  /\ store \in Priors
  /\ assigned = {}
  /\ file = [f \in EnvFiles |-> None]
  /\ status = [r \in Runs |-> "idle"]
  /\ cfg = [r \in Runs |-> None]
  /\ at = [r \in Runs |-> 1]
  /\ phase = [r \in Runs |-> "look"]
  /\ seen = [r \in Runs |-> None]
  /\ obsolete = [r \in Runs |-> {}]
  /\ found = [r \in Runs |-> TRUE]
  /\ meets = [r \in Runs |-> {}]

Call(r) ==
  \/ Look(r) \/ Create(r) \/ Update(r) \/ Lookup(r) \/ List(r) \/ Delete(r)
  \/ assignOptionalClientScope(r) \/ removeOptionalClientScope(r) \/ Pass(r)
  \/ OpenFile(r) \/ WriteFile(r)

\* Nobody needs to run the script again.
Done == (\A r \in Runs : status[r] \notin {"idle", "running"}) /\ UNCHANGED vars

Next ==
  \/ \E r \in Runs : Start(r) \/ Call(r) \/ Refuse(r) \/ Stop(r)
  \/ Done

Spec == Init /\ [][Next]_vars
----------------------------------------------------------------------------
(* Properties.                                                             *)

TypeOK ==
  /\ store \in [Objects -> Made \cup {None}]
  /\ assigned \subseteq Clients \X {Scope(s) : s \in ScopeNames}
  /\ file \in [EnvFiles -> Files \cup {None, Torn}]
  /\ status \in [Runs -> {"idle", "running", "done", "refused", "stopped"}]
  /\ cfg \in [Runs -> Configs \cup {None}]
  /\ \A r \in Runs : status[r] # "idle" => cfg[r] # None
  /\ at \in [Runs -> Nat]
  /\ \A r \in Runs : cfg[r] # None => at[r] \in DOMAIN Plan[cfg[r]]
  /\ phase \in [Runs -> {"look", "put"}]
  /\ seen \in [Runs -> Made \cup {None}]
  /\ obsolete \in [Runs -> SUBSET [obj : Mappers, by : Runs \cup {None}]]
  /\ found \in [Runs -> BOOLEAN]
  /\ meets \in [Runs -> SUBSET Runs]

\* What a sign-in through the clients of an env file relies on.
ClientsReady(f) ==
  /\ \A k \in ClientKinds :
       LET client == store[Client(f.clients[k])] IN client # None /\ client.is.as = k
  /\ \A k \in BrowserClients :
       /\ store[Client(f.clients[k])].is.address = f.origins[k]
       /\ \A s \in WidgetScopes : <<Client(f.clients[k]), Scope(s)>> \in assigned

AudiencesReady(f) ==
  /\ \A k \in AudienceClients : <<Client(f.clients[k]), Scope(f.scope)>> \in assigned
  /\ \A a \in f.audiences :
       LET m == store[Mapper(f.scope, a)] IN m # None /\ m.is = Generated

Usable(f) == ClientsReady(f) /\ (f.scope # None => AudiencesReady(f))

\* Runs that configure a client, an audience scope or an env file of the other.
Rivals(c, d) ==
  \/ \E j, k \in ClientKinds : c.clients[j] = d.clients[k]
  \/ c.envFile = d.envFile
  \/ c.scope = d.scope

\* Exactly what c asks for, with nothing left of earlier options for its clients
\* and its scope.
Reached(c) ==
  /\ file[c.envFile] = FileOf(c)
  /\ Usable(FileOf(c))
  /\ \A a \in Audiences \ Required(c) :
       LET m == store[Mapper(c.scope, a)] IN m = None \/ m.is # Generated
  /\ ~audienceScopeEnabled(c) =>
       \A k \in AudienceClients :
         <<Client(c.clients[k]), Scope(c.scope)>> \notin assigned

(* "The script is idempotent. It creates or updates: ..." (KEYCLOAK_OIDC_SETUP.md):
   a run that ends well, and that no run which shares a client, an audience scope or
   an env file with it overlapped or followed, has brought the realm and the env
   file to what its options ask for, whatever runs with other options did before,
   wherever they were stopped, and whatever runs that share nothing do meanwhile. *)
Converged ==
  \A r \in Runs :
    status[r] = "done" /\ (\A q \in meets[r] : ~Rivals(cfg[q], cfg[r]))
      => Reached(cfg[r])

\* Every run that could touch what c configures had c's options.
OnlyRun(c) == \A r \in Runs : cfg[r] # None /\ Rivals(cfg[r], c) => cfg[r] = c

\* A run has opened the file and has not written it yet, or was stopped then.
TornByRun(f) ==
  /\ file[f] = Torn
  /\ \E r \in Runs :
       /\ cfg[r] # None /\ cfg[r].envFile = f
       /\ Calls(r, "write", "put") \/ status[r] = "stopped"

(* Running the script again with the same options disturbs nobody: from the moment
   there is an env file, the clients, redirect addresses, scopes and audience
   mappers that services started from it rely on are in the realm at every moment,
   while further runs overlap, are refused or are stopped anywhere.  The file itself
   is whole except from a run's opening it to its writing it; a run stopped between
   the two leaves it empty, for good unless another run ends well (Converged).
   (A run with other options breaks the old file's clients from its first change
   on, until it has written the new file.)                                        *)
RerunKeepsWorking ==
  \A c \in Configs :
    OnlyRun(c) /\ file[c.envFile] # None =>
      /\ Usable(FileOf(c))
      /\ file[c.envFile] = FileOf(c) \/ TornByRun(c.envFile)

Blocked(c) ==
  \E a \in Required(c) :
    LET m == store[Mapper(c.scope, a)] IN m # None /\ m.is = OtherType

(* Keycloak refuses a call only of a run that another run overlapped, or for a
   mapper of another type that has the name of a required audience: whatever
   stopped runs left behind, the next run alone gets through.                     *)
RefusedOnlyIfMet ==
  [][\A r \in Runs :
       status[r] = "running" /\ status'[r] = "refused" =>
         meets[r] # {} \/ Blocked(cfg[r])]_vars

(* How RerunKeepsWorking comes about: what a run with options c has passed stays as
   c makes it, for no run that may be under way undoes it.                        *)
Kept(c, s) ==
  /\ s.op = "ensure" =>
       store[s.obj] # None /\ store[s.obj].is = Representation(c, s.obj)
  /\ s.op = "assign" => <<s.client, s.obj>> \in assigned

Unrequired(c) == {Mapper(c.scope, a) : a \in Audiences \ Required(c)}

RunOK(r) ==
  /\ status[r] = "idle" <=> cfg[r] = None
  /\ status[r] # "running" => at[r] = 1 /\ obsolete[r] = {}
  /\ \A m \in obsolete[r] : m.obj \in Unrequired(cfg[r])

WorkKept(c) ==
  /\ \A r \in Runs : cfg[r] = c =>
       \A k \in DOMAIN Plan[c] : k < at[r] => Kept(c, Plan[c][k])
  /\ file[c.envFile] # None =>
       /\ file[c.envFile] \in {FileOf(c), Torn}
       /\ \A k \in DOMAIN Plan[c] : Kept(c, Plan[c][k])

\* A torn file has its run: one that is about to write it, or was stopped then.
TornExplained == \A f \in EnvFiles : file[f] = Torn => TornByRun(f)

ProgressKept ==
  /\ \A r \in Runs : RunOK(r)
  /\ \A c \in Configs : OnlyRun(c) => WorkKept(c)

(* How RefusedOnlyIfMet comes about: runs under way know of each other, so what a
   run that met nobody has found is still there when it acts on it.               *)
Met ==
  \A r, q \in Runs :
    /\ q # r /\ status[r] # "idle" /\ status[q] = "running" => q \in meets[r]
    /\ q \in meets[r] => status[q] # "idle"

AloneOK(r) ==
  /\ status[r] # "running" => phase[r] = "look" /\ found[r]
  /\ meets[r] = {} =>
       /\ Calls(r, "ensure", "put") => seen[r] = Found(Here(r).obj)
       /\ Calls(r, "prune", "put") => \A m \in obsolete[r] : Current(m)

OnlyMappersOther ==
  \A o \in Objects : store[o] # None /\ store[o].is = OtherType => o.kind = "mapper"

LooksCurrent == Met /\ (\A r \in Runs : AloneOK(r)) /\ OnlyMappersOther

(* How Converged comes about: nothing belongs to a scope that is not there, and
   what a run that met no rival has passed is as its options want it.             *)
ScopesThere ==
  /\ \A x \in AudienceScopes, a \in Audiences :
       store[Mapper(x, a)] # None => store[Scope(x)] # None
  /\ \A pair \in assigned : store[pair[2]] # None
  /\ \A r \in Runs : status[r] = "running" =>
       \A k \in DOMAIN Plan[cfg[r]], s \in ScopeNames :
         k < at[r] /\ Plan[cfg[r]][k] = Ensure(Scope(s)) => store[Scope(s)] # None

Finished(c, s) ==
  /\ Kept(c, s)
  /\ s.op = "prune" => ObsoleteMappers(c) = {}
  /\ s.op = "remove" => <<s.client, s.obj>> \notin assigned

Undisturbed(r) == \A q \in meets[r] : ~Rivals(cfg[q], cfg[r])

Finishing(r) ==
  /\ status[r] = "done" => file[cfg[r].envFile] = FileOf(cfg[r])
  /\ \A k \in DOMAIN Plan[cfg[r]] :
       status[r] = "done" \/ k < at[r] => Finished(cfg[r], Plan[cfg[r]][k])
  /\ ~found[r] =>
       ~audienceScopeEnabled(cfg[r]) /\ store[Scope(cfg[r].scope)] = None
  /\ Calls(r, "prune", "put") =>
       ObsoleteMappers(cfg[r]) \subseteq {m.obj : m \in obsolete[r]}

ReachingPlans ==
  \A r \in Runs : status[r] \in {"running", "done"} /\ Undisturbed(r) => Finishing(r)
==============================================================================
