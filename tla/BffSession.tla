------------------------------ MODULE BffSession ------------------------------
(***************************************************************************)
(* Sign-in at the backend-for-frontend: the login transactions and         *)
(* sessions BffSessionService keeps in memory, the two cookies that lead   *)
(* browsers back to them, and the identity provider's discovery document.  *)
(* A handler step is one synchronous stretch between awaits; a response    *)
(* changes the browser's cookies only when it is delivered, so requests of *)
(* one browser overlap and their responses may pass each other.            *)
(*                                                                         *)
(* A random token is named by the request that draws it: login request l   *)
(* has state token (and authorization code) l, callback r session id r.    *)
(***************************************************************************)
EXTENDS Naturals, FiniteSets

CONSTANTS
  Requests,   \* requests to the BFF, each sent once
  Browsers,   \* cookie jars
  LoginTTL,   \* LOGIN_TTL_MS
  Lives,      \* the lifetimes the identity provider gives access tokens
  Documents,  \* how fetchDiscovery may settle: known, unusable, failed
  MaxClock,   \* bound on the clock
  None,       \* no token, an absent cookie
  Keep        \* a response that does not mention a cookie

ASSUME TimesAssumption ==
  LoginTTL \in Nat \ {0} /\ Lives \subseteq Nat /\ MaxClock \in Nat

ASSUME DocumentsAssumption == Documents \subseteq {"known", "unusable", "failed"}

VARIABLES
  now,        \* Date.now()
  logins,     \* the logins map: state token -> expiresAt, or None
  sessions,   \* the sessions map: session id -> expiresAt, or None
  discovery,  \* the discovery promise
  jar,        \* each browser's bff_login and bff_session cookies
  pc,         \* where each request is
  req,        \* what it asks, and the cookies it carries
  reply,      \* the response under way or delivered
  sent        \* callbacks that have sent their code to the token endpoint

vars == <<now, logins, sessions, discovery, jar, pc, req, reply, sent>>

Token    == Requests \cup {None}
Jars     == [login: Token, session: Token]
Kinds    == {"login", "callback", "visit", "logout"}
Asks     == [kind: Kinds, browser: Browsers, state: Token, code: BOOLEAN,
             login: Token, session: Token]
Outcomes ==
  {"authorize", "recover", "landed", "user", "anonymous", "ended", "failed"}
Replies  ==
  [outcome: Outcomes, login: Token \cup {Keep}, session: Token \cup {Keep}]
Handling == Kinds \cup {"exchange"}

ASSUME NamesAssumption ==
  /\ None \notin Requests \cup Nat \cup Asks \cup Replies
  /\ Keep \notin Requests /\ None # Keep

TypeOK ==
  /\ now \in Nat
  /\ logins \in [Requests -> Nat \cup {None}]
  /\ sessions \in [Requests -> Nat \cup {None}]
  /\ discovery \in {"none", "asked", "known", "unusable", "failed"}
  /\ jar \in [Browsers -> Jars]
  /\ pc \in [Requests -> Handling \cup {"idle", "replied", "done", "lost"}]
  /\ req \in [Requests -> Asks \cup {None}]
  /\ reply \in [Requests -> Replies \cup {None}]
  /\ sent \subseteq Requests

Init ==
  /\ now = 0
  /\ logins = [l \in Requests |-> None]
  /\ sessions = [i \in Requests |-> None]
  /\ discovery = "none"
  /\ jar = [b \in Browsers |-> [login |-> None, session |-> None]]
  /\ pc = [r \in Requests |-> "idle"]
  /\ req = [r \in Requests |-> None]
  /\ reply = [r \in Requests |-> None]
  /\ sent = {}

-----------------------------------------------------------------------------
(* Browsers.                                                               *)

\* Logins whose redirect has reached a browser: the identity provider may
\* answer them, and their callback address may be opened, and reopened.
Offered == {l \in Requests : pc[l] = "done" /\ reply[l].outcome = "authorize"}

\* What may be asked: a callback comes back with its login's state and a code,
\* with an error instead of the code, or without a state.
Question(kind, state, code) ==
  \/ kind # "callback" /\ state = None /\ ~code
  \/ kind = "callback" /\ state \in Offered \cup {None}

\* Browser b sends request r with the cookies it has now.
Send(r) ==
  /\ pc[r] = "idle"
  /\ \E b \in Browsers, kind \in Kinds, state \in Token, code \in BOOLEAN :
       /\ Question(kind, state, code)
       /\ req' = [req EXCEPT ![r] =
                    [kind |-> kind, browser |-> b, state |-> state, code |-> code,
                     login |-> jar[b].login, session |-> jar[b].session]]
       /\ pc' = [pc EXCEPT ![r] = kind]
  /\ UNCHANGED <<now, logins, sessions, discovery, jar, reply, sent>>

After(cookie, set) == IF set = Keep THEN cookie ELSE set

\* The response reaches the browser, which applies its Set-Cookie headers.
Deliver(r) ==
  /\ pc[r] = "replied"
  /\ pc' = [pc EXCEPT ![r] = "done"]
  /\ jar' = [jar EXCEPT ![req[r].browser] =
               [login |-> After(@.login, reply[r].login),
                session |-> After(@.session, reply[r].session)]]
  /\ UNCHANGED <<now, logins, sessions, discovery, req, reply, sent>>

\* A cookie reaches its Max-Age, or the user clears it.
Forget(b) ==
  /\ \/ jar[b].login # None /\ jar' = [jar EXCEPT ![b].login = None]
     \/ jar[b].session # None /\ jar' = [jar EXCEPT ![b].session = None]
  /\ UNCHANGED <<now, logins, sessions, discovery, pc, req, reply, sent>>

-----------------------------------------------------------------------------
(* The handlers.                                                           *)

Respond(r, outcome, login, session) ==
  /\ pc' = [pc EXCEPT ![r] = "replied"]
  /\ reply' = [reply EXCEPT ![r] =
                 [outcome |-> outcome, login |-> login, session |-> session]]

\* getDiscovery: the first caller starts the request.
AskDiscovery(r) ==
  /\ pc[r] = "login" /\ discovery = "none"
  /\ discovery' = "asked"
  /\ UNCHANGED <<now, logins, sessions, jar, pc, req, reply, sent>>

\* fetchDiscovery settles; the promise is kept either way.  Unusable: a document
\* whose authorization endpoint is not a URL.
Discovered ==
  /\ discovery = "asked"
  /\ discovery' \in Documents
  /\ UNCHANGED <<now, logins, sessions, jar, pc, req, reply, sent>>

\* Mutant of BeginLogin: the transaction's lifetime is left unset.
BeginTimeless(r) ==
  /\ pc[r] = "login" /\ discovery = "known"
  /\ logins' = [logins EXCEPT ![r] = Keep]
  /\ Respond(r, "authorize", r, Keep)
  /\ UNCHANGED <<now, sessions, discovery, jar, req, sent>>

\* Mutant of BeginLogin: the rejected promise is not passed on.
BeginIfKnown(r) ==
  /\ pc[r] = "login" /\ discovery = "known"
  /\ logins' = [logins EXCEPT ![r] = now + LoginTTL]
  /\ Respond(r, "authorize", r, Keep)
  /\ UNCHANGED <<now, sessions, discovery, jar, req, sent>>

\* beginLogin, past its await.  It throws for a request without a host and for a
\* returnTo that is given twice; on an unusable endpoint only once the transaction
\* is stored and the cookie is in the response.
BeginLogin(r) ==
  /\ pc[r] = "login"
  /\ \/ /\ discovery \in {"known", "unusable"}
        /\ logins' = [logins EXCEPT ![r] = now + LoginTTL]
        /\ Respond(r, IF discovery = "known" THEN "authorize" ELSE "failed", r, Keep)
     \/ /\ discovery \in {"known", "unusable", "failed"}
        /\ Respond(r, "failed", Keep, Keep)
        /\ UNCHANGED logins
  /\ UNCHANGED <<now, sessions, discovery, jar, req, sent>>

\* Mutant of Foreign: the login cookie is not compared.
AnyBrowser(r) == FALSE

\* The callback's state is not that of the browser's current login.
Foreign(r) == req[r].state # req[r].login

\* Mutant of MismatchCookie: a mismatch clears the login cookie like the rest.
MismatchClears(r) == None

\* recoverExpiredLogin(response, false)
MismatchCookie(r) == Keep

\* Mutant of Consumed: the transaction is deleted when the exchange is over.
NotYetConsumed(l) == logins

\* logins.delete(state), before the await.
Consumed(l) == [logins EXCEPT ![l] = None]

Pending(l) == logins[l] # None /\ logins[l] > now

\* completeLogin up to the token request.
Callback(r) ==
  /\ pc[r] = "callback"
  /\ LET l == req[r].state IN
       \/ /\ l = None
          /\ Respond(r, "recover", None, Keep)
          /\ UNCHANGED <<logins, sent>>
       \/ /\ l # None /\ Foreign(r)
          /\ logins' = Consumed(l)
          /\ Respond(r, "recover", MismatchCookie(r), Keep)
          /\ UNCHANGED sent
       \/ /\ l # None /\ ~Foreign(r)
          /\ ~(req[r].code /\ Pending(l))
          /\ logins' = Consumed(l)
          /\ Respond(r, "recover", None, Keep)
          /\ UNCHANGED sent
       \/ /\ l # None /\ ~Foreign(r) /\ req[r].code /\ Pending(l)
          /\ logins' = Consumed(l)
          /\ sent' = sent \cup {r}
          /\ pc' = [pc EXCEPT ![r] = "exchange"]
          /\ UNCHANGED reply
  /\ UNCHANGED <<now, sessions, discovery, jar, req>>

\* createSession: the session lives from the moment it is made.
Opened(i) == \E life \in Lives : sessions' = [sessions EXCEPT ![i] = now + life]

\* Mutant of Exchange: a failed exchange restores the transaction for a retry.
ExchangeOrRestore(r) ==
  /\ pc[r] = "exchange"
  /\ \/ /\ Opened(r)
        /\ Respond(r, "landed", None, r)
        /\ UNCHANGED logins
     \/ /\ Respond(r, "failed", Keep, Keep)
        /\ logins' = [logins EXCEPT ![req[r].state] = now + LoginTTL]
        /\ UNCHANGED sessions
  /\ UNCHANGED <<now, discovery, jar, req, sent>>

\* The token endpoint answers: a new session, or an error
\* (refused, unreachable, no access token, no subject) that keeps all cookies.
Exchange(r) ==
  /\ pc[r] = "exchange"
  /\ \/ /\ Opened(r)
        /\ Respond(r, "landed", None, r)
     \/ /\ Respond(r, "failed", Keep, Keep)
        /\ UNCHANGED sessions
  /\ UNCHANGED <<now, logins, discovery, jar, req, sent>>

Stored(i) == i # None /\ sessions[i] # None

\* getSession, also behind the guard of every Widget call: an expired session
\* is deleted.
Visit(r) ==
  /\ pc[r] = "visit"
  /\ LET i == req[r].session IN
       \/ /\ ~Stored(i)
          /\ Respond(r, "anonymous", Keep, Keep)
          /\ UNCHANGED sessions
       \/ /\ Stored(i) /\ sessions[i] <= now
          /\ sessions' = [sessions EXCEPT ![i] = None]
          /\ Respond(r, "anonymous", Keep, Keep)
       \/ /\ Stored(i) /\ sessions[i] > now
          /\ Respond(r, "user", Keep, Keep)
          /\ UNCHANGED sessions
  /\ UNCHANGED <<now, logins, discovery, jar, req, sent>>

\* Mutant of Logout: only the cookies go.
ForgetfulLogout(r) ==
  /\ pc[r] = "logout"
  /\ Respond(r, "ended", None, None)
  /\ UNCHANGED <<now, logins, sessions, discovery, jar, req, sent>>

\* endSession
Logout(r) ==
  /\ pc[r] = "logout"
  /\ LET i == req[r].session IN
       sessions' = IF i = None THEN sessions ELSE [sessions EXCEPT ![i] = None]
  /\ Respond(r, "ended", None, None)
  /\ UNCHANGED <<now, logins, discovery, jar, req, sent>>

\* The process restarts: the maps and every request in it are gone.
Restart ==
  /\ \E r \in Requests : pc[r] # "idle"
  /\ logins' = [l \in Requests |-> None]
  /\ sessions' = [i \in Requests |-> None]
  /\ discovery' = "none"
  /\ pc' = [r \in Requests |-> IF pc[r] \in Handling THEN "lost" ELSE pc[r]]
  /\ UNCHANGED <<now, jar, req, reply, sent>>

\* MaxClock bounds the clock.
Tick ==
  /\ now < MaxClock
  /\ now' = now + 1
  /\ UNCHANGED <<logins, sessions, discovery, jar, pc, req, reply, sent>>

Handle(r) ==
  \/ AskDiscovery(r) \/ BeginLogin(r) \/ Callback(r)
  \/ Exchange(r) \/ Visit(r) \/ Logout(r)

\* Every request has been made; browsers need send no other.
Done == (\A r \in Requests : pc[r] \in {"done", "lost"}) /\ UNCHANGED vars

Next ==
  \/ \E r \in Requests : Send(r) \/ Deliver(r) \/ Handle(r)
  \/ \E b \in Browsers : Forget(b)
  \/ Discovered \/ Restart \/ Tick \/ Done

Spec == Init /\ [][Next]_vars

\* The event loop runs what is ready, and outgoing HTTP calls return or fail.
Fairness == WF_vars(Discovered) /\ \A r \in Requests : WF_vars(Handle(r))
FairSpec == Spec /\ Fairness
-----------------------------------------------------------------------------
(* Properties.                                                             *)

(* The inductive invariant behind the next two properties: tokens stay with  *)
(* the browser they were made for, and a code goes with its transaction.     *)

\* A callback's login has long been answered; it will not begin again.
StatesOffered ==
  \A r \in Requests : req[r] # None /\ req[r].state # None => pc[req[r].state] = "done"

\* A sent code's transaction is gone from the map.
SentConsumed ==
  \A r \in sent :
    /\ pc[r] \in {"exchange", "replied", "done", "lost"}
    /\ req[r] # None /\ req[r].state # None
    /\ logins[req[r].state] = None

\* A request that has been sent has a question, and only then.
Asked ==
  \A r \in Requests :
    /\ pc[r] = "idle" <=> req[r] = None
    /\ pc[r] \in {"idle"} \cup Handling => reply[r] = None
    /\ pc[r] \in {"replied", "done"} => reply[r] # None
    /\ pc[r] = "exchange" => r \in sent /\ req[r].state = req[r].login

\* l is a login token of browser b, or none.
LoginOf(l, b) == l # None => req[l] # None /\ req[l].browser = b

\* i is the id of a session opened by browser b, or none.
SessionOf(i, b) ==
  i # None =>
    /\ req[i] # None /\ req[i].browser = b
    /\ req[i].state # None /\ req[req[i].state] # None
    /\ req[req[i].state].browser = b

TokensAtHome ==
  /\ \A b \in Browsers : LoginOf(jar[b].login, b) /\ SessionOf(jar[b].session, b)
  /\ \A r \in Requests : req[r] # None =>
       LoginOf(req[r].login, req[r].browser) /\ SessionOf(req[r].session, req[r].browser)
  /\ \A r \in Requests : reply[r] # None =>
       /\ req[r] # None
       /\ reply[r].login # Keep => LoginOf(reply[r].login, req[r].browser)
       /\ reply[r].session # Keep => SessionOf(reply[r].session, req[r].browser)
       /\ reply[r].outcome = "user" => req[r].session # None

SignInInv == StatesOffered /\ SentConsumed /\ Asked /\ TokensAtHome

(* One authorization code goes to the token endpoint at most once, although    *)
(* the callback address is reloaded, opened twice or reopened after a restart. *)
CodeSentOnce == \A r, q \in sent : r # q => req[r].state # req[q].state

\* Session i was opened by the browser that had begun its login.
OpenedBy(i, b) == req[i].browser = b /\ req[req[i].state].browser = b

(* A browser's session cookie, and every session it is served under, comes     *)
(* from a login begun in that browser, whichever browser a callback address is *)
(* opened in.                                                                  *)
SessionInStartingBrowser ==
  /\ \A b \in Browsers : jar[b].session # None => OpenedBy(jar[b].session, b)
  /\ \A r \in Requests : reply[r] # None /\ reply[r].outcome = "user" =>
       OpenedBy(req[r].session, req[r].browser)

LoggedOut(i) ==
  \E q \in Requests :
    reply[q] # None /\ reply[q].outcome = "ended" /\ req[q].session = i

(* Once a logout has been answered, or the process has restarted, no request   *)
(* is served under the session, even one sent before with the old cookie; nor  *)
(* at or past the session's expiry.                                            *)
ServedWhileSignedIn ==
  [][\A r \in Requests :
       reply'[r] # reply[r] /\ reply'[r].outcome = "user" =>
         ~LoggedOut(req[r].session) /\ sessions[req[r].session] > now]_vars

Arrives(r) == pc[r] = "replied" /\ pc'[r] = "done"

(* A callback that names another login than the browser's current one leaves   *)
(* both cookies and that login's transaction as they are.  One that names none *)
(* takes the login's cookie, so that the login can no longer be completed, but *)
(* neither its transaction nor the session.                                    *)
RefusedCallbackKeepsLogin ==
  [][\A r \in Requests :
       req[r] # None /\ req[r].kind = "callback" /\ Foreign(r)
                     /\ req[r].login # None =>
         /\ Arrives(r) =>
              jar' = IF req[r].state # None THEN jar
                     ELSE [jar EXCEPT ![req[r].browser].login = None]
         /\ pc[r] = "callback" /\ pc'[r] = "replied" =>
              logins'[req[r].login] = logins[req[r].login]]_vars

(* How the last two come about: the id of a session is known only when it has   *)
(* been opened, so that a session that was ended is not opened again; and a    *)
(* callback of another login is answered without a cookie, one of none without *)
(* a session's.                                                                *)
Opening(i) == i # None /\ pc[i] \notin {"replied", "done", "lost"}

SessionsOpened ==
  /\ \A b \in Browsers : ~Opening(jar[b].session)
  /\ \A r \in Requests :
       /\ req[r] # None => ~Opening(req[r].session)
       /\ reply[r] # None /\ reply[r].session # Keep => ~Opening(reply[r].session)

LogoutsForget ==
  \A i \in Requests : LoggedOut(i) => sessions[i] = None

RefusalsKeep ==
  \A r \in Requests :
    /\ pc[r] \in Kinds => req[r].kind = pc[r]
    /\ reply[r] # None /\ req[r].kind = "callback" /\ Foreign(r) =>
         /\ reply[r].login = IF req[r].state # None THEN Keep ELSE None
         /\ reply[r].session = Keep

ServingInv == SessionsOpened /\ LogoutsForget /\ RefusalsKeep

(* What the service's maps, requests and answers amount to in SignIn.          *)

\* l's redirect has been answered; i's session has been opened.
Authorized(l) == reply[l] # None /\ reply[l].outcome = "authorize"
Landed(i)     == reply[i] # None /\ reply[i].outcome = "landed"

Redeemed(l) == \E q \in sent : req[q].state = l /\ Landed(q)
Spent(l)    == \E q \in sent : req[q].state = l

LoginLives ==
  [l \in Requests |->
     IF Authorized(l)
     THEN [life |-> IF Pending(l) THEN "begun" ELSE IF Redeemed(l) THEN "redeemed"
                    ELSE IF Spent(l) THEN "spent" ELSE "over",
           browser |-> req[l].browser]
     ELSE [life |-> "unborn", browser |-> None]]

SessionLives ==
  [i \in Requests |->
     IF Landed(i)
     THEN [life |-> IF sessions[i] # None /\ sessions[i] > now THEN "open" ELSE "over",
           browser |-> req[i].browser]
     ELSE [life |-> "unborn", browser |-> None]]

Told ==
  [r \in Requests |->
     IF reply[r] # None /\ reply[r].outcome \in {"user", "anonymous", "ended"}
     THEN [answer |-> reply[r].outcome, browser |-> req[r].browser,
           session |-> req[r].session]
     ELSE None]

SignedIn == INSTANCE SignIn WITH
  Tokens <- Requests, logins <- LoginLives, sessions <- SessionLives, told <- Told

(* The service implements SignIn: codes are spent once and open one session of *)
(* their browser, and who is served, turned away or signed out is as the       *)
(* session is at that moment, whatever overlaps, expires or restarts.          *)
ImplementsSignIn == SignedIn!SSpec

(* How the refinement comes about: a login in the map was answered and a       *)
(* session in the map with its landing, and only logins that were answered     *)
(* with a redirect come back, and only sessions that were opened.              *)
MapsAnswered ==
  \A r \in Requests :
    /\ logins[r] # None => reply[r] # None
    /\ sessions[r] # None => Landed(r)
    /\ Landed(r) => r \in sent

TokensAnswered ==
  /\ \A b \in Browsers : jar[b].session # None => Landed(jar[b].session)
  /\ \A r \in Requests :
       /\ req[r] # None =>
            /\ req[r].state # None => Authorized(req[r].state)
            /\ req[r].session # None => Landed(req[r].session)
       /\ reply[r] # None /\ reply[r].session \notin {None, Keep} =>
            reply[r].session = r /\ Landed(r)

AnswersInv == MapsAnswered /\ TokensAnswered

(* Every request the BFF receives is answered, or lost to a restart.           *)
EveryRequestAnswered ==
  \A r \in Requests : pc[r] \in Handling ~> pc[r] \in {"replied", "done", "lost"}

=============================================================================
