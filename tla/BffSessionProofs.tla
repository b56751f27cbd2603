--------------------------- MODULE BffSessionProofs ---------------------------
(* Theorems about BffSession, for every number of browsers and requests.     *)
EXTENDS BffSession, TLAPS

(* A process that has served nothing satisfies the inductive invariant.      *)
LEMMA InitSignIn == Init => TypeOK /\ SignInInv
<1>. SUFFICES ASSUME Init PROVE TypeOK /\ SignInInv
  OBVIOUS
<1>1. TypeOK
  BY DEF Init, TypeOK, Jars, Token
<1>2. SignInInv
  BY <1>1 DEF Init, SignInInv, StatesOffered, SentConsumed, Asked, TokensAtHome, LoginOf,
     SessionOf, Handling, Kinds
<1>3. QED  BY <1>1, <1>2

(* Every step keeps the types.                                               *)
LEMMA NextType ==
  ASSUME TypeOK, SignInInv, [Next]_vars
  PROVE  TypeOK'
<1>. USE NamesAssumption, TimesAssumption DEF Respond, TypeOK
<1>1. ASSUME NEW r \in Requests, Send(r) PROVE TypeOK'
  <2>1. PICK b \in Browsers, kind \in Kinds, state \in Token, code \in BOOLEAN :
          /\ req' = [req EXCEPT ![r] =
                       [kind |-> kind, browser |-> b, state |-> state, code |-> code,
                        login |-> jar[b].login, session |-> jar[b].session]]
          /\ pc' = [pc EXCEPT ![r] = kind]
    BY <1>1 DEF Send
  <2>2. jar[b].login \in Token /\ jar[b].session \in Token
    BY <2>1 DEF Jars
  <2>3. QED  BY <1>1, <2>1, <2>2 DEF Send, Asks, Handling
<1>2. ASSUME NEW r \in Requests, Deliver(r) PROVE TypeOK'
  <2>1. req[r] \in Asks /\ reply[r] \in Replies
    BY <1>2 DEF Deliver, SignInInv, Asked
  <2>2. jar[req[r].browser] \in Jars
    BY <2>1 DEF Asks
  <2>3. /\ After(jar[req[r].browser].login, reply[r].login) \in Token
        /\ After(jar[req[r].browser].session, reply[r].session) \in Token
    BY <2>1, <2>2 DEF After, Jars, Replies
  <2>4. QED  BY <1>2, <2>3 DEF Deliver, Jars
<1>3. ASSUME NEW b \in Browsers, Forget(b) PROVE TypeOK'
  BY <1>3 DEF Forget, Jars, Token
<1>4. ASSUME NEW r \in Requests, AskDiscovery(r) PROVE TypeOK'
  BY <1>4 DEF AskDiscovery
<1>5. ASSUME NEW r \in Requests, BeginLogin(r) PROVE TypeOK'
  BY <1>5 DEF BeginLogin, Replies, Outcomes, Token
<1>6. ASSUME NEW r \in Requests, Callback(r) PROVE TypeOK'
  BY <1>6 DEF Callback, Consumed, MismatchCookie, Replies, Outcomes, Token, Handling
<1>7. ASSUME NEW r \in Requests, Exchange(r) PROVE TypeOK'
  BY <1>7 DEF Exchange, Opened, Replies, Outcomes, Token
<1>8. ASSUME NEW r \in Requests, Visit(r) PROVE TypeOK'
  BY <1>8 DEF Visit, Replies, Outcomes, Token
<1>9. ASSUME NEW r \in Requests, Logout(r) PROVE TypeOK'
  BY <1>9 DEF Logout, Replies, Outcomes, Token
<1>10. CASE Discovered \/ Restart \/ Tick \/ Done \/ UNCHANGED vars
  <2>1. CASE Discovered
    <3>1. discovery' \in {"known", "unusable", "failed"}
      BY <2>1, DocumentsAssumption DEF Discovered
    <3>2. QED  BY <2>1, <3>1 DEF Discovered
  <2>2. CASE Restart \/ Tick \/ Done \/ UNCHANGED vars
    BY <2>2 DEF Restart, Tick, Done, vars
  <2>3. QED  BY <1>10, <2>1, <2>2
<1>11. QED
  BY <1>1, <1>2, <1>3, <1>4, <1>5, <1>6, <1>7, <1>8, <1>9, <1>10 DEF Next, Handle

(* Answering a request disturbs no callback's login and asks nothing.         *)
LEMMA Answered ==
  ASSUME TypeOK, StatesOffered, Asked, NEW r \in Requests, pc[r] \in Handling,
         NEW o \in Outcomes, NEW l \in Token \cup {Keep}, NEW i \in Token \cup {Keep},
         Respond(r, o, l, i), req' = req, sent' = sent
  PROVE  StatesOffered' /\ Asked'
<1>1. pc[r] \notin {"idle", "replied", "done", "lost"}
  BY DEF Handling, Kinds
<1>2. \A q \in Requests : q # r => pc'[q] = pc[q] /\ reply'[q] = reply[q]
  BY DEF Respond, TypeOK
<1>3. pc'[r] = "replied" /\ reply'[r] \in Replies
  BY DEF Respond, TypeOK, Replies
<1>4. StatesOffered'
  <2>1. \A q \in Requests : req[q] # None => req[q].state \in Token
    BY DEF TypeOK, Asks
  <2>2. QED  BY <1>1, <1>2, <2>1 DEF StatesOffered, Token
<1>5. Asked'
  <2>1. req[r] # None
    BY <1>1 DEF Asked
  <2>2. reply'[r] # None
    BY <1>3, NamesAssumption
  <2>3. "replied" \notin {"idle"} \cup Handling
    BY DEF Handling, Kinds
  <2>4. QED  BY <1>1, <1>2, <1>3, <2>1, <2>2, <2>3 DEF Asked, Handling, Kinds
<1>6. QED  BY <1>4, <1>5

(* Every step keeps the sign-in invariant.                                   *)
LEMMA NextSignIn ==
  ASSUME TypeOK, SignInInv, [Next]_vars
  PROVE  SignInInv'
<1>. USE NamesAssumption, TimesAssumption DEF Respond, SignInInv
<1>1. ASSUME NEW r \in Requests, Send(r) PROVE SignInInv'
  <2>1. PICK b \in Browsers, kind \in Kinds, state \in Token, code \in BOOLEAN :
          /\ Question(kind, state, code)
          /\ req' = [req EXCEPT ![r] =
                       [kind |-> kind, browser |-> b, state |-> state, code |-> code,
                        login |-> jar[b].login, session |-> jar[b].session]]
          /\ pc' = [pc EXCEPT ![r] = kind]
    BY <1>1 DEF Send
  <2>2. state # None => pc[state] = "done"
    BY <2>1 DEF Question, Offered
  <2>3. pc[r] = "idle" /\ req[r] = None /\ req'[r] # None /\ req'[r] \in Asks
    BY <1>1, <2>1 DEF Send, Asked, TypeOK, Asks, Jars
  <2>4. StatesOffered'
    BY <2>1, <2>2, <2>3 DEF StatesOffered, TypeOK, Asks
  <2>5. SentConsumed'
    BY <1>1, <2>1, <2>3 DEF Send, SentConsumed, TypeOK
  <2>6. Asked'
    BY <1>1, <2>1, <2>3 DEF Send, Asked, TypeOK, Handling, Kinds
  <2>7. TokensAtHome'
    <3>1. \A q \in Requests : req[q] # None => req'[q] = req[q]
      BY <2>1, <2>3 DEF TypeOK
    <3>2. \A c \in Browsers, t \in Token :
            /\ LoginOf(t, c) => LoginOf(t, c)'
            /\ SessionOf(t, c) => SessionOf(t, c)'
      BY <3>1 DEF LoginOf, SessionOf, Token, TypeOK, Asks
    <3>3. LoginOf(jar[b].login, b) /\ SessionOf(jar[b].session, b)
      BY DEF TokensAtHome
    <3>4. QED
      BY <1>1, <2>1, <2>3, <3>1, <3>2, <3>3
      DEF Send, TokensAtHome, TypeOK, Jars, Asks, Replies
  <2>8. QED  BY <2>4, <2>5, <2>6, <2>7
<1>2. ASSUME NEW r \in Requests, Deliver(r) PROVE SignInInv'
  <2>1. StatesOffered'
    BY <1>2 DEF Deliver, StatesOffered, TypeOK, Asks
  <2>2. SentConsumed'
    BY <1>2 DEF Deliver, SentConsumed, TypeOK
  <2>3. Asked'
    BY <1>2 DEF Deliver, Asked, TypeOK, Handling, Kinds
  <2>4. TokensAtHome'
    <3>1. req[r] # None /\ req[r].browser \in Browsers /\ reply[r] # None
      BY <1>2 DEF Deliver, Asked, TypeOK, Asks
    <3>2. \A c \in Browsers :
            jar'[c] = IF c = req[r].browser
                      THEN [login |-> After(jar[c].login, reply[r].login),
                            session |-> After(jar[c].session, reply[r].session)]
                      ELSE jar[c]
      BY <1>2, <3>1 DEF Deliver, TypeOK
    <3>3. \A c \in Browsers : LoginOf(jar'[c].login, c) /\ SessionOf(jar'[c].session, c)
      <4>1. /\ LoginOf(After(jar[req[r].browser].login, reply[r].login), req[r].browser)
            /\ SessionOf(After(jar[req[r].browser].session, reply[r].session),
                         req[r].browser)
        <5>1. /\ LoginOf(jar[req[r].browser].login, req[r].browser)
              /\ SessionOf(jar[req[r].browser].session, req[r].browser)
          BY <3>1 DEF TokensAtHome
        <5>2. /\ reply[r].login # Keep => LoginOf(reply[r].login, req[r].browser)
              /\ reply[r].session # Keep => SessionOf(reply[r].session, req[r].browser)
          BY <3>1 DEF TokensAtHome
        <5>3. QED  BY <5>1, <5>2 DEF After
      <4>2. ASSUME NEW c \in Browsers, c = req[r].browser
            PROVE  LoginOf(jar'[c].login, c) /\ SessionOf(jar'[c].session, c)
        <5>1. jar'[c] = [login |-> After(jar[c].login, reply[r].login),
                         session |-> After(jar[c].session, reply[r].session)]
          BY <3>2, <4>2
        <5>2. QED  BY <4>1, <4>2, <5>1
      <4>3. ASSUME NEW c \in Browsers, c # req[r].browser
            PROVE  LoginOf(jar'[c].login, c) /\ SessionOf(jar'[c].session, c)
        BY <3>2, <4>3 DEF TokensAtHome
      <4>4. QED  BY <4>2, <4>3
    <3>4. req' = req /\ reply' = reply
      BY <1>2 DEF Deliver
    <3>5. QED  BY <3>3, <3>4 DEF TokensAtHome, LoginOf, SessionOf
  <2>5. QED  BY <2>1, <2>2, <2>3, <2>4
<1>3. ASSUME NEW b \in Browsers, Forget(b) PROVE SignInInv'
  BY <1>3 DEF Forget, StatesOffered, SentConsumed, Asked, TokensAtHome, TypeOK, Jars,
     LoginOf, SessionOf
<1>4. ASSUME NEW r \in Requests, AskDiscovery(r) PROVE SignInInv'
  BY <1>4 DEF AskDiscovery, StatesOffered, SentConsumed, Asked, TokensAtHome,
     LoginOf, SessionOf
<1>5. ASSUME NEW r \in Requests, BeginLogin(r) PROVE SignInInv'
  <2>1. /\ req[r] # None /\ pc[r] = "login" /\ r \notin sent
        /\ \A q \in Requests : req[q] # None => req[q].state # r
    BY <1>5 DEF BeginLogin, Asked, StatesOffered, SentConsumed
  <2>2. PICK o \in Outcomes, l \in Token \cup {Keep} : Respond(r, o, l, Keep)
    BY <1>5 DEF BeginLogin, Outcomes, Token
  <2>3. StatesOffered' /\ Asked'
    BY <1>5, <2>1, <2>2, Answered DEF BeginLogin, Handling, Kinds, Token
  <2>4. SentConsumed'
    <3>1. \A q \in sent : pc'[q] = pc[q] /\ req'[q] = req[q]
      BY <1>5, <2>1 DEF BeginLogin, TypeOK
    <3>2. \A q \in sent : req[q].state \in Requests /\ req[q].state # r
      BY <2>1 DEF SentConsumed, TypeOK, Asks, Token
    <3>3. \A q \in sent : logins'[req[q].state] = logins[req[q].state]
      BY <1>5, <3>2 DEF BeginLogin, TypeOK
    <3>4. QED  BY <1>5, <3>1, <3>3 DEF BeginLogin, SentConsumed
  <2>5. TokensAtHome'
    BY <1>5, <2>1 DEF BeginLogin, TokensAtHome, TypeOK, LoginOf, SessionOf
  <2>6. QED  BY <2>3, <2>4, <2>5
<1>6. ASSUME NEW r \in Requests, Callback(r) PROVE SignInInv'
  <2>1. req[r] # None /\ pc[r] = "callback" /\ r \notin sent
    BY <1>6 DEF Callback, Asked, SentConsumed
  <2>2. \A q \in sent : q # r /\ pc'[q] = pc[q]
    BY <1>6, <2>1 DEF Callback, TypeOK
  <2>3. StatesOffered' /\ Asked'
    <3>1. CASE pc' = [pc EXCEPT ![r] = "exchange"]
      <4>1. sent' = sent \cup {r} /\ ~Foreign(r) /\ reply' = reply /\ req' = req
        BY <1>6, <3>1 DEF Callback, TypeOK
      <4>2. \A q \in Requests : q # r => pc'[q] = pc[q]
        BY <3>1 DEF TypeOK
      <4>3. \A q \in Requests : req[q] # None => req[q].state \in Token
        BY DEF TypeOK, Asks
      <4>4. StatesOffered'
        BY <2>1, <4>1, <4>2, <4>3 DEF StatesOffered, Token
      <4>5. pc'[r] = "exchange" /\ reply[r] = None
        BY <2>1, <3>1 DEF TypeOK, Asked, Handling, Kinds
      <4>6. Asked'
        BY <2>1, <4>1, <4>2, <4>5 DEF Asked, Foreign
      <4>7. QED  BY <4>4, <4>6
    <3>2. CASE pc' # [pc EXCEPT ![r] = "exchange"]
      <4>1. /\ sent' = sent /\ req' = req
            /\ \E l \in Token \cup {Keep} : Respond(r, "recover", l, Keep)
        BY <1>6, <3>2 DEF Callback, MismatchCookie, Token
      <4>2. QED  BY <2>1, <4>1, Answered DEF Handling, Kinds, Outcomes
    <3>3. QED  BY <3>1, <3>2
  <2>4. SentConsumed'
    BY <1>6, <2>1 DEF Callback, SentConsumed, TypeOK, Consumed, Asks, Token
  <2>6. TokensAtHome'
    BY <1>6, <2>1
    DEF Callback, TokensAtHome, TypeOK, LoginOf, SessionOf, MismatchCookie
  <2>7. QED  BY <2>3, <2>4, <2>6
<1>7. ASSUME NEW r \in Requests, Exchange(r) PROVE SignInInv'
  <2>1. /\ req[r] # None /\ pc[r] = "exchange"
        /\ req[r].state # None /\ req[r].state = req[r].login
    BY <1>7 DEF Exchange, Asked, SentConsumed
  <2>2. StatesOffered' /\ Asked'
    <3>1. \E o \in Outcomes, l \in Token \cup {Keep}, i \in Token \cup {Keep} :
            Respond(r, o, l, i)
      BY <1>7 DEF Exchange, Outcomes, Token
    <3>2. QED  BY <1>7, <2>1, <3>1, Answered DEF Exchange, Handling
  <2>3. SentConsumed'
    BY <1>7 DEF Exchange, SentConsumed, TypeOK
  <2>5. SessionOf(r, req[r].browser)
    BY <2>1 DEF TokensAtHome, SessionOf, LoginOf
  <2>6. TokensAtHome'
    BY <1>7, <2>1, <2>5 DEF Exchange, TokensAtHome, TypeOK, LoginOf, SessionOf
  <2>7. QED  BY <2>2, <2>3, <2>6
<1>8. ASSUME NEW r \in Requests, Visit(r) \/ Logout(r) PROVE SignInInv'
  <2>1. /\ req[r] # None /\ pc[r] \in {"visit", "logout"} /\ r \notin sent
        /\ \E o \in Outcomes, t \in {None, Keep} :
             /\ Respond(r, o, t, t)
             /\ o = "user" => req[r].session # None
    BY <1>8 DEF Visit, Logout, Asked, SentConsumed, Outcomes, Stored
  <2>2. UNCHANGED <<logins, req, sent, jar>>
    BY <1>8 DEF Visit, Logout
  <2>3. StatesOffered' /\ Asked'
    BY <2>1, <2>2, Answered DEF Handling, Kinds, Token
  <2>4. SentConsumed'
    BY <2>1, <2>2 DEF SentConsumed, TypeOK
  <2>6. TokensAtHome'
    BY <2>1, <2>2 DEF TokensAtHome, TypeOK, LoginOf, SessionOf
  <2>7. QED  BY <2>3, <2>4, <2>6
<1>9. CASE Restart
  <2>0. \A q \in Requests :
          pc'[q] = (IF pc[q] \in Handling THEN "lost" ELSE pc[q]) /\ logins'[q] = None
    BY <1>9 DEF Restart
  <2>1. \A q \in Requests : req[q] # None => req[q].state \in Token
    BY DEF TypeOK, Asks
  <2>2. StatesOffered'
    BY <1>9, <2>0, <2>1 DEF Restart, StatesOffered, Handling, Kinds, Token
  <2>3. Asked'
    BY <1>9, <2>0 DEF Restart, Asked, Handling, Kinds
  <2>4. SentConsumed'
    <3>1. \A q \in sent : q \in Requests /\ req[q].state \in Requests
      BY <2>1 DEF SentConsumed, TypeOK, Token
    <3>2. QED  BY <1>9, <2>0, <3>1 DEF Restart, SentConsumed, Handling, Kinds
  <2>5. TokensAtHome'
    BY <1>9 DEF Restart, TokensAtHome, LoginOf, SessionOf
  <2>6. QED  BY <2>2, <2>3, <2>4, <2>5
<1>10. CASE Discovered \/ Tick \/ Done \/ UNCHANGED vars
  BY <1>10 DEF Discovered, Tick, Done, vars, StatesOffered, SentConsumed, Asked,
     TokensAtHome, LoginOf, SessionOf
<1>11. QED
  BY <1>1, <1>2, <1>3, <1>4, <1>5, <1>6, <1>7, <1>8, <1>9, <1>10 DEF Next, Handle

(* The inductive invariant holds in every reachable state.                   *)
THEOREM SignInInvariant == Spec => [](TypeOK /\ SignInInv)
<1>1. TypeOK /\ SignInInv /\ [Next]_vars => (TypeOK /\ SignInInv)'
  BY NextType, NextSignIn
<1>2. QED  BY InitSignIn, <1>1, PTL DEF Spec

(* The maps, cookies and requests are well-typed in every reachable state.   *)
THEOREM TypeCorrect == Spec => []TypeOK
  BY SignInInvariant, PTL

(* However often a callback address is opened, and whatever restarts happen, *)
(* one authorization code is sent to the token endpoint at most once.        *)
THEOREM CodeSentOnceAlways == Spec => []CodeSentOnce
<1>1. TypeOK /\ SignInInv /\ CodeSentOnce /\ [Next]_vars => CodeSentOnce'
  <2>. SUFFICES ASSUME TypeOK, SignInInv, CodeSentOnce, [Next]_vars
                PROVE  CodeSentOnce'
    OBVIOUS
  <2>1. ASSUME NEW r \in Requests, Callback(r) PROVE CodeSentOnce'
    <3>1. sent' # sent =>
            /\ sent' = sent \cup {r} /\ req[r].state # None
            /\ Pending(req[r].state)
      BY <2>1 DEF Callback
    <3>2. \A q \in sent : Pending(req[r].state) => req[q].state # req[r].state
      BY DEF SignInInv, SentConsumed, Pending
    <3>3. QED  BY <2>1, <3>1, <3>2 DEF Callback, CodeSentOnce
  <2>2. ASSUME NEW r \in Requests, Send(r) PROVE CodeSentOnce'
    BY <2>2 DEF Send, CodeSentOnce, SignInInv, SentConsumed, TypeOK
  <2>3. QED
    BY <2>1, <2>2
    DEF Next, Handle, Deliver, AskDiscovery, BeginLogin, Exchange, Visit, Logout, Forget,
        Discovered, Restart, Tick, Done, vars, CodeSentOnce
<1>2. Init => CodeSentOnce
  BY DEF Init, CodeSentOnce
<1>3. QED  BY SignInInvariant, <1>1, <1>2, PTL DEF Spec

(* A session cookie, and every session a request is served under, belongs to *)
(* the browser that began its login.                                         *)
THEOREM SessionInStartingBrowserAlways == Spec => []SessionInStartingBrowser
<1>1. TypeOK /\ SignInInv => SessionInStartingBrowser
  BY DEF SignInInv, TokensAtHome, SessionOf, SessionInStartingBrowser, OpenedBy, TypeOK,
     Jars
<1>2. QED  BY SignInInvariant, <1>1, PTL

-----------------------------------------------------------------------------
(* Serving and refusing.  A process that has served nothing has promised      *)
(* nothing.                                                                   *)
LEMMA InitServing == Init => ServingInv
  BY DEF Init, ServingInv, SessionsOpened, LogoutsForget, RefusalsKeep, Opening,
     LoggedOut, Kinds

(* A request that has been answered or lost stays so.                         *)
LEMMA AnsweredStays ==
  ASSUME TypeOK, [Next]_vars, NEW i \in Token, ~Opening(i)
  PROVE  ~Opening(i)'
<1>. SUFFICES ASSUME i # None PROVE pc'[i] \in {"replied", "done", "lost"}
  BY DEF Opening
<1>1. i \in Requests /\ pc[i] \in {"replied", "done", "lost"}
  BY DEF Opening, Token
<1>2. CASE \E r \in Requests : Send(r) \/ Deliver(r)
  BY <1>1, <1>2 DEF Send, Deliver, TypeOK
<1>3. CASE \E r \in Requests : Handle(r)
  BY <1>1, <1>3
  DEF Handle, AskDiscovery, BeginLogin, Callback, Exchange, Visit, Logout, Respond,
      TypeOK
<1>4. CASE Restart
  BY <1>1, <1>4 DEF Restart, Handling, Kinds
<1>5. CASE UNCHANGED pc
  BY <1>1, <1>5
<1>6. QED
  BY <1>2, <1>3, <1>4, <1>5 DEF Next, Forget, Discovered, Tick, Done, vars

(* Every step keeps that known sessions have been opened.                     *)
LEMMA NextOpened ==
  ASSUME TypeOK, SignInInv, SessionsOpened, [Next]_vars
  PROVE  SessionsOpened'
<1>. USE NamesAssumption
<1>0. \A i \in Token : ~Opening(i) => ~Opening(i)'
  BY AnsweredStays
<1>1. /\ \A b \in Browsers : jar[b].session \in Token /\ ~Opening(jar[b].session)
      /\ \A r \in Requests :
           /\ req[r] # None => req[r].session \in Token /\ ~Opening(req[r].session)
           /\ reply[r] # None /\ reply[r].session # Keep =>
                reply[r].session \in Token /\ ~Opening(reply[r].session)
  BY DEF SessionsOpened, TypeOK, Jars, Asks, Replies
<1>2. ASSUME NEW r \in Requests, Send(r) PROVE SessionsOpened'
  <2>1. PICK b \in Browsers, kind \in Kinds, state \in Token, code \in BOOLEAN :
          req' = [req EXCEPT ![r] =
                    [kind |-> kind, browser |-> b, state |-> state, code |-> code,
                     login |-> jar[b].login, session |-> jar[b].session]]
    BY <1>2 DEF Send
  <2>2. req'[r].session = jar[b].session /\ UNCHANGED <<jar, reply>>
    BY <1>2, <2>1 DEF Send, TypeOK
  <2>3. \A q \in Requests : q # r => req'[q] = req[q]
    BY <2>1 DEF TypeOK
  <2>4. QED  BY <1>0, <1>1, <2>2, <2>3 DEF SessionsOpened, Opening
<1>3. ASSUME NEW r \in Requests, Deliver(r) PROVE SessionsOpened'
  <2>1. req[r] # None /\ req[r].browser \in Browsers /\ reply[r] # None
    BY <1>3 DEF Deliver, SignInInv, Asked, TypeOK, Asks
  <2>2. ASSUME NEW b \in Browsers
        PROVE  \/ jar'[b].session = jar[b].session
               \/ reply[r].session # Keep /\ jar'[b].session = reply[r].session
    BY <1>3, <2>1 DEF Deliver, After, TypeOK
  <2>3. UNCHANGED <<req, reply>>
    BY <1>3 DEF Deliver
  <2>4. QED  BY <1>0, <1>1, <2>1, <2>2, <2>3 DEF SessionsOpened, Opening
<1>4. ASSUME NEW r \in Requests, Handle(r) PROVE SessionsOpened'
  <2>1. UNCHANGED <<jar, req>>
    BY <1>4
    DEF Handle, AskDiscovery, BeginLogin, Callback, Exchange, Visit, Logout
  <2>2. ASSUME NEW q \in Requests, reply'[q] # reply[q]
        PROVE  /\ q = r /\ pc'[r] = "replied"
               /\ reply'[r].session \in {None, Keep, r}
    BY <1>4, <2>2
    DEF Handle, AskDiscovery, BeginLogin, Callback, Exchange, Visit, Logout, Respond,
        TypeOK
  <2>3. QED  BY <1>0, <1>1, <2>1, <2>2 DEF SessionsOpened, Opening
<1>5. ASSUME NEW b \in Browsers, Forget(b) PROVE SessionsOpened'
  <2>1. ASSUME NEW c \in Browsers PROVE jar'[c].session \in {None, jar[c].session}
    BY <1>5 DEF Forget, TypeOK, Jars
  <2>2. UNCHANGED <<req, reply>>
    BY <1>5 DEF Forget
  <2>3. QED  BY <1>0, <1>1, <2>1, <2>2 DEF SessionsOpened, Opening
<1>6. CASE UNCHANGED <<jar, req, reply>>
  BY <1>0, <1>1, <1>6 DEF SessionsOpened, Opening
<1>7. QED
  BY <1>2, <1>3, <1>4, <1>5, <1>6 DEF Next, Discovered, Restart, Tick, Done, vars

(* A question is asked once.                                                  *)
LEMMA QuestionStays ==
  ASSUME TypeOK, SignInInv, [Next]_vars, NEW q \in Requests, req[q] # None
  PROVE  req'[q] = req[q]
<1>1. CASE \E r \in Requests : Send(r)
  BY <1>1 DEF Send, SignInInv, Asked, TypeOK
<1>2. CASE UNCHANGED req
  BY <1>2
<1>3. QED
  BY <1>1, <1>2
  DEF Next, Handle, Deliver, AskDiscovery, BeginLogin, Callback, Exchange, Visit,
      Logout, Forget, Discovered, Restart, Tick, Done, vars

(* Every step keeps that a session whose end was answered is gone.            *)
LEMMA NextForgets ==
  ASSUME TypeOK, SignInInv, SessionsOpened, LogoutsForget, [Next]_vars
  PROVE  LogoutsForget'
<1>. USE NamesAssumption
<1>1. ASSUME NEW i \in Requests, LoggedOut(i)', ~LoggedOut(i)
      PROVE  sessions'[i] = None
  <2>1. PICK q \in Requests : /\ reply'[q] # None /\ reply'[q].outcome = "ended"
                              /\ req'[q].session = i
    BY <1>1 DEF LoggedOut
  <2>2. CASE reply'[q] = reply[q]
    <3>1. req[q] # None
      BY <2>1, <2>2 DEF SignInInv, TokensAtHome
    <3>2. req'[q] = req[q]
      BY <3>1, QuestionStays
    <3>3. QED  BY <1>1, <2>1, <2>2, <3>2 DEF LoggedOut
  <2>3. CASE reply'[q] # reply[q]
    <3>1. PICK r \in Requests : Handle(r)
      BY <2>3 DEF Next, Send, Deliver, Forget, Discovered, Restart, Tick, Done, vars
    <3>2. r = q
      BY <2>3, <3>1
      DEF Handle, AskDiscovery, BeginLogin, Callback, Exchange, Visit, Logout, Respond,
          TypeOK
    <3>3. Logout(q)
      BY <2>1, <2>3, <3>1, <3>2
      DEF Handle, AskDiscovery, BeginLogin, Callback, Exchange, Visit, Respond, TypeOK
    <3>4. QED  BY <2>1, <3>3 DEF Logout, TypeOK
  <2>4. QED  BY <2>2, <2>3
<1>2. ASSUME NEW i \in Requests, LoggedOut(i)
      PROVE  sessions'[i] = None
  <2>1. sessions[i] = None /\ pc[i] # "exchange"
    BY <1>2 DEF LogoutsForget, LoggedOut, SessionsOpened, Opening, SignInInv,
       TokensAtHome
  <2>2. QED
    BY <2>1
    DEF Next, Handle, Send, Deliver, AskDiscovery, BeginLogin, Callback, Exchange,
        Opened, Visit, Logout, Forget, Discovered, Restart, Tick, Done, vars, TypeOK
<1>3. QED  BY <1>1, <1>2 DEF LogoutsForget

(* Every step keeps that a callback of another login changes no cookie.       *)
LEMMA NextRefusals ==
  ASSUME TypeOK, SignInInv, RefusalsKeep, [Next]_vars
  PROVE  RefusalsKeep'
<1>. USE NamesAssumption
<1>1. ASSUME NEW q \in Requests, pc'[q] \in Kinds PROVE req'[q].kind = pc'[q]
  <2>1. CASE \E r \in Requests : Send(r)
    BY <1>1, <2>1 DEF Send, RefusalsKeep, TypeOK
  <2>2. CASE ~\E r \in Requests : Send(r)
    <3>1. UNCHANGED req
      BY <2>2
      DEF Next, Handle, Deliver, AskDiscovery, BeginLogin, Callback, Exchange, Visit,
          Logout, Forget, Discovered, Restart, Tick, Done, vars
    <3>2. pc'[q] = pc[q]
      <4>1. pc'[q] \notin {"replied", "done", "exchange", "lost"}
        BY <1>1 DEF Kinds
      <4>2. CASE \E r \in Requests : Deliver(r) \/ Handle(r)
        BY <4>1, <4>2
        DEF Handle, Deliver, AskDiscovery, BeginLogin, Callback, Exchange, Visit,
            Logout, Respond, TypeOK
      <4>3. CASE Restart
        BY <4>1, <4>3 DEF Restart
      <4>4. QED
        BY <2>2, <4>2, <4>3 DEF Next, Forget, Discovered, Tick, Done, vars
    <3>3. QED  BY <1>1, <3>1, <3>2 DEF RefusalsKeep
  <2>3. QED  BY <2>1, <2>2
<1>2. ASSUME NEW q \in Requests, reply'[q] # None, req'[q].kind = "callback",
             req'[q].state # req'[q].login
      PROVE  /\ reply'[q].login = IF req'[q].state # None THEN Keep ELSE None
             /\ reply'[q].session = Keep
  <2>1. CASE reply'[q] = reply[q]
    <3>1. req[q] # None
      BY <1>2, <2>1 DEF SignInInv, TokensAtHome
    <3>2. req'[q] = req[q]
      BY <3>1, QuestionStays
    <3>3. QED  BY <1>2, <2>1, <3>2 DEF RefusalsKeep, Foreign
  <2>2. CASE reply'[q] # reply[q]
    <3>1. PICK r \in Requests : Handle(r)
      BY <2>2 DEF Next, Send, Deliver, Forget, Discovered, Restart, Tick, Done, vars
    <3>2. r = q /\ req'[q] = req[q]
      BY <2>2, <3>1
      DEF Handle, AskDiscovery, BeginLogin, Callback, Exchange, Visit, Logout, Respond,
          TypeOK
    <3>3. ~Exchange(q)
      BY <1>2, <3>2 DEF Exchange, SignInInv, Asked
    <3>4. ~AskDiscovery(q)
      BY <2>2 DEF AskDiscovery
    <3>5. ~(BeginLogin(q) \/ Visit(q) \/ Logout(q))
      BY <1>2, <3>2 DEF BeginLogin, Visit, Logout, RefusalsKeep, Kinds
    <3>6. Callback(q)
      BY <3>1, <3>2, <3>3, <3>4, <3>5 DEF Handle
    <3>7. QED
      BY <1>2, <2>2, <3>2, <3>6
      DEF Callback, Foreign, Respond, MismatchCookie, TypeOK
  <2>3. QED  BY <2>1, <2>2
<1>3. QED  BY <1>1, <1>2 DEF RefusalsKeep, Foreign

(* The invariants of signing in, serving and refusing hold together.          *)
THEOREM ServingInvariant == Spec => [](TypeOK /\ SignInInv /\ ServingInv)
<1>1. TypeOK /\ SignInInv /\ ServingInv /\ [Next]_vars => ServingInv'
  BY NextOpened, NextForgets, NextRefusals DEF ServingInv
<1>2. QED  BY InitServing, SignInInvariant, <1>1, PTL DEF Spec

(* Only a visit serves, and only under a session that is stored, has not      *)
(* expired and was not ended.                                                 *)
LEMMA StepServes ==
  ASSUME TypeOK, SignInInv, ServingInv, [Next]_vars, NEW r \in Requests,
         reply'[r] # reply[r], reply'[r].outcome = "user"
  PROVE  ~LoggedOut(req[r].session) /\ sessions[req[r].session] > now
<1>1. PICK q \in Requests : Handle(q)
  BY DEF Next, Send, Deliver, Forget, Discovered, Restart, Tick, Done, vars
<1>2. q = r
  BY <1>1
  DEF Handle, AskDiscovery, BeginLogin, Callback, Exchange, Visit, Logout, Respond,
      TypeOK
<1>3. Visit(r)
  BY <1>1, <1>2
  DEF Handle, AskDiscovery, BeginLogin, Callback, Exchange, Logout, Respond, TypeOK
<1>4. Stored(req[r].session) /\ sessions[req[r].session] > now
  BY <1>3 DEF Visit, Respond, TypeOK
<1>5. req[r].session \in Requests
  <2>1. req[r] # None
    BY <1>3 DEF Visit, SignInInv, Asked
  <2>2. QED  BY <1>4, <2>1 DEF TypeOK, Asks, Token, Stored
<1>6. QED  BY <1>4, <1>5 DEF Stored, ServingInv, LogoutsForget

(* No request is served under a session after its logout was answered, after  *)
(* a restart, or from its expiry on.                                          *)
THEOREM ServedWhileSignedInAlways == Spec => ServedWhileSignedIn
<1>1. TypeOK /\ SignInInv /\ ServingInv /\ [Next]_vars =>
        [\A r \in Requests :
           reply'[r] # reply[r] /\ reply'[r].outcome = "user" =>
             ~LoggedOut(req[r].session) /\ sessions[req[r].session] > now]_vars
  BY StepServes
<1>2. QED  BY <1>1, ServingInvariant, PTL DEF Spec, ServedWhileSignedIn

(* A callback deletes no other transaction than its own; the answer to one of *)
(* another login leaves the cookies alone, to one of none it takes the login  *)
(* cookie.                                                                    *)
LEMMA StepRefuses ==
  ASSUME TypeOK, SignInInv, ServingInv, [Next]_vars, NEW r \in Requests,
         req[r] # None, req[r].kind = "callback", Foreign(r), req[r].login # None
  PROVE  /\ Arrives(r) =>
              jar' = IF req[r].state # None THEN jar
                     ELSE [jar EXCEPT ![req[r].browser].login = None]
         /\ pc[r] = "callback" /\ pc'[r] = "replied" =>
              logins'[req[r].login] = logins[req[r].login]
<1>1. ASSUME Arrives(r)
      PROVE  jar' = IF req[r].state # None THEN jar
                    ELSE [jar EXCEPT ![req[r].browser].login = None]
  <2>1. PICK q \in Requests : Deliver(q)
    BY <1>1
    DEF Arrives, Next, Handle, Send, AskDiscovery, BeginLogin, Callback, Exchange,
        Visit, Logout, Respond, Forget, Discovered, Restart, Tick, Done, vars, TypeOK,
        Handling, Kinds
  <2>2. q = r
    BY <1>1, <2>1 DEF Arrives, Deliver, TypeOK
  <2>3. /\ reply[r].login = IF req[r].state # None THEN Keep ELSE None
        /\ reply[r].session = Keep
    BY <1>1, <2>1, <2>2
    DEF Arrives, ServingInv, RefusalsKeep, SignInInv, Asked
  <2>4. req[r].browser \in Browsers
    BY DEF TypeOK, Asks
  <2>5. [login |-> jar[req[r].browser].login,
         session |-> jar[req[r].browser].session] = jar[req[r].browser]
    BY <2>4 DEF TypeOK, Jars
  <2>6. jar' = [jar EXCEPT ![req[r].browser] =
                  [login |-> After(jar[req[r].browser].login, reply[r].login),
                   session |-> After(jar[req[r].browser].session, reply[r].session)]]
    BY <2>1, <2>2, <2>4 DEF Deliver
  <2>7. CASE req[r].state # None
    BY <2>3, <2>4, <2>5, <2>6, <2>7 DEF After, TypeOK
  <2>8. CASE req[r].state = None
    <3>1. /\ After(jar[req[r].browser].login, reply[r].login) = None
          /\ After(jar[req[r].browser].session, reply[r].session)
               = jar[req[r].browser].session
      BY <2>3, <2>8, NamesAssumption DEF After
    <3>2. jar[req[r].browser] \in Jars
      BY <2>4 DEF TypeOK
    <3>3. [jar[req[r].browser] EXCEPT !.login = None]
            = [login |-> None, session |-> jar[req[r].browser].session]
      BY <3>2 DEF Jars
    <3>4. QED  BY <2>4, <2>6, <2>8, <3>1, <3>3
  <2>9. QED  BY <2>7, <2>8
<1>2. ASSUME pc[r] = "callback", pc'[r] = "replied"
      PROVE  logins'[req[r].login] = logins[req[r].login]
  <2>1. PICK q \in Requests : Handle(q)
    BY <1>2
    DEF Next, Send, Deliver, Forget, Discovered, Restart, Tick, Done, vars, TypeOK,
        Handling, Kinds
  <2>2. q = r
    BY <1>2, <2>1
    DEF Handle, AskDiscovery, BeginLogin, Callback, Exchange, Visit, Logout, Respond,
        TypeOK
  <2>3. Callback(r)
    BY <1>2, <2>1, <2>2
    DEF Handle, AskDiscovery, BeginLogin, Exchange, Visit, Logout
  <2>4. req[r].login \in Requests /\ req[r].state # req[r].login
    BY DEF TypeOK, Asks, Token, Foreign
  <2>5. QED  BY <2>3, <2>4 DEF Callback, Consumed, Foreign, TypeOK
<1>3. QED  BY <1>1, <1>2

(* A callback of another login disturbs no login that is under way in its     *)
(* browser; one of none takes its cookie and nothing else.                    *)
THEOREM RefusedCallbackKeepsLoginAlways == Spec => RefusedCallbackKeepsLogin
<1>1. TypeOK /\ SignInInv /\ ServingInv /\ [Next]_vars =>
        [\A r \in Requests :
           req[r] # None /\ req[r].kind = "callback" /\ Foreign(r)
                         /\ req[r].login # None =>
             /\ Arrives(r) =>
                  jar' = IF req[r].state # None THEN jar
                         ELSE [jar EXCEPT ![req[r].browser].login = None]
             /\ pc[r] = "callback" /\ pc'[r] = "replied" =>
                  logins'[req[r].login] = logins[req[r].login]]_vars
  BY StepRefuses
<1>2. QED  BY <1>1, ServingInvariant, PTL DEF Spec, RefusedCallbackKeepsLogin

-----------------------------------------------------------------------------
(* The service implements SignIn.                                             *)

(* An answer is given once.                                                   *)
LEMMA AnswerStays ==
  ASSUME TypeOK, SignInInv, [Next]_vars, NEW q \in Requests, reply[q] # None
  PROVE  reply'[q] = reply[q] /\ req[q] # None /\ req'[q] = req[q]
<1>1. req[q] # None /\ req'[q] = req[q]
  BY QuestionStays DEF SignInInv, TokensAtHome
<1>2. CASE \E r \in Requests : Handle(r)
  <2>1. PICK r \in Requests : Handle(r)
    BY <1>2
  <2>2. CASE q = r
    BY <2>1, <2>2
    DEF Handle, AskDiscovery, BeginLogin, Callback, Exchange, Visit, Logout, SignInInv,
        Asked, Handling, Kinds
  <2>3. CASE q # r
    BY <1>1, <2>1, <2>3
    DEF Handle, AskDiscovery, BeginLogin, Callback, Exchange, Visit, Logout, Respond,
        TypeOK
  <2>4. QED  BY <1>1, <2>2, <2>3
<1>3. CASE UNCHANGED reply
  BY <1>1, <1>3
<1>4. QED
  BY <1>2, <1>3 DEF Next, Send, Deliver, Forget, Discovered, Restart, Tick, Done, vars

(* What has been answered with a redirect or a landing has been so for good.  *)
LEMMA LandedStays ==
  ASSUME TypeOK, SignInInv, [Next]_vars, NEW q \in Requests
  PROVE  /\ Authorized(q) => Authorized(q)'
         /\ Landed(q) => Landed(q)'
BY AnswerStays DEF Authorized, Landed

(* Every step keeps that the maps hold answered tokens.                       *)
LEMMA NextMapsAnswered ==
  ASSUME TypeOK, SignInInv, AnswersInv, [Next]_vars
  PROVE  MapsAnswered'
<1>. USE NamesAssumption DEF AnswersInv
<1>1. ASSUME NEW q \in Requests, logins'[q] # None PROVE reply'[q] # None
  <2>1. CASE logins[q] # None
    BY <2>1, AnswerStays DEF MapsAnswered
  <2>2. CASE logins[q] = None
    <3>1. PICK r \in Requests : BeginLogin(r) \/ Callback(r)
      BY <1>1, <2>2
      DEF Next, Handle, Send, Deliver, AskDiscovery, Exchange, Visit, Logout, Forget,
          Discovered, Restart, Tick, Done, vars
    <3>2. ~Callback(r)
      BY <1>1, <2>2 DEF Callback, Consumed, TypeOK
    <3>3. r = q
      BY <1>1, <2>2, <3>1, <3>2 DEF BeginLogin, TypeOK
    <3>4. PICK o \in {"authorize", "failed"} :
            reply'[q] = [outcome |-> o, login |-> q, session |-> Keep]
      BY <1>1, <2>2, <3>1, <3>2, <3>3 DEF BeginLogin, Respond, TypeOK
    <3>5. [outcome |-> o, login |-> q, session |-> Keep] \in Replies
      BY <3>4 DEF Replies, Outcomes, Token
    <3>6. QED  BY <3>4, <3>5
  <2>3. QED  BY <2>1, <2>2
<1>2. ASSUME NEW q \in Requests, sessions'[q] # None PROVE Landed(q)'
  <2>1. CASE sessions[q] # None
    BY <2>1, LandedStays DEF MapsAnswered
  <2>2. CASE sessions[q] = None
    <3>1. PICK r \in Requests : Exchange(r) \/ Visit(r) \/ Logout(r)
      BY <1>2, <2>2
      DEF Next, Handle, Send, Deliver, AskDiscovery, BeginLogin, Callback, Forget,
          Discovered, Restart, Tick, Done, vars
    <3>2. ~Visit(r) /\ ~Logout(r)
      BY <1>2, <2>2 DEF Visit, Logout, TypeOK
    <3>3. r = q
      BY <1>2, <2>2, <3>1, <3>2 DEF Exchange, Opened, TypeOK
    <3>4. reply'[q] = [outcome |-> "landed", login |-> None, session |-> q]
      BY <1>2, <2>2, <3>1, <3>2, <3>3 DEF Exchange, Respond, TypeOK
    <3>5. [outcome |-> "landed", login |-> None, session |-> q] \in Replies
      BY DEF Replies, Outcomes, Token
    <3>6. QED  BY <3>4, <3>5 DEF Landed
  <2>3. QED  BY <2>1, <2>2
<1>3. ASSUME NEW q \in Requests, Landed(q)' PROVE q \in sent'
  <2>1. sent \subseteq sent'
    BY
    DEF Next, Handle, Send, Deliver, AskDiscovery, BeginLogin, Callback, Exchange, Visit,
        Logout, Forget, Discovered, Restart, Tick, Done, vars
  <2>2. CASE Landed(q)
    BY <2>1, <2>2 DEF MapsAnswered
  <2>3. CASE ~Landed(q)
    <3>1. reply'[q] # reply[q] /\ reply'[q].outcome = "landed"
      BY <1>3, <2>3 DEF Landed
    <3>2. PICK r \in Requests : Handle(r)
      BY <3>1 DEF Next, Send, Deliver, Forget, Discovered, Restart, Tick, Done, vars
    <3>3. r = q
      BY <3>1, <3>2
      DEF Handle, AskDiscovery, BeginLogin, Callback, Exchange, Visit, Logout, Respond,
          TypeOK
    <3>4. Exchange(q)
      BY <3>1, <3>2, <3>3
      DEF Handle, AskDiscovery, BeginLogin, Callback, Visit, Logout, Respond, TypeOK
    <3>5. QED  BY <2>1, <3>4 DEF Exchange, SignInInv, Asked
  <2>4. QED  BY <2>2, <2>3
<1>4. QED  BY <1>1, <1>2, <1>3 DEF MapsAnswered

(* Every step keeps that known tokens are answered ones.                      *)
LEMMA NextTokensAnswered ==
  ASSUME TypeOK, SignInInv, AnswersInv, [Next]_vars
  PROVE  TokensAnswered'
<1>. USE NamesAssumption DEF AnswersInv, Authorized, Landed
<1>0. \A t \in Requests : /\ Authorized(t) => Authorized(t)'
                          /\ Landed(t) => Landed(t)'
  BY LandedStays
<1>t. TypeOK'
  BY NextType
<1>1. ASSUME NEW b \in Browsers, NEW i \in Requests, jar'[b].session = i
      PROVE  Landed(i)'
  <2>1. CASE jar[b].session = i
    <3>1. Landed(i)
      BY <2>1 DEF TokensAnswered
    <3>2. QED  BY <1>0, <3>1
  <2>2. CASE jar[b].session # i
    <3>1. ~\E c \in Browsers : Forget(c)
      BY <1>1, <2>2 DEF Forget, TypeOK, Jars
    <3>2. PICK r \in Requests : Deliver(r)
      BY <1>1, <2>2, <3>1
      DEF Next, Handle, Send, AskDiscovery, BeginLogin, Callback, Exchange, Visit,
          Logout, Discovered, Restart, Tick, Done, vars
    <3>3. /\ i = reply[r].session
          /\ reply[r].session # Keep /\ reply[r] # None
      BY <1>1, <2>2, <3>2 DEF Deliver, After, TypeOK, SignInInv, Asked
    <3>4. i = r /\ Landed(i)
      BY <3>3 DEF TokensAnswered
    <3>5. QED  BY <1>0, <3>4
  <2>3. QED  BY <2>1, <2>2
<1>2. ASSUME NEW q \in Requests, req'[q] # None, NEW t \in Requests
      PROVE  /\ req'[q].state = t => Authorized(t)'
             /\ req'[q].session = t => Landed(t)'
  <2>1. /\ req'[q].state = t => Authorized(t)
        /\ req'[q].session = t => Landed(t)
    <3>1. CASE req[q] # None
      <4>1. req'[q] = req[q]
        BY <3>1, QuestionStays
      <4>2. QED  BY <3>1, <4>1 DEF TokensAnswered
    <3>2. CASE req[q] = None
      <4>1. PICK r \in Requests : Send(r)
        BY <1>2, <3>2
        DEF Next, Handle, Deliver, AskDiscovery, BeginLogin, Callback, Exchange, Visit,
            Logout, Forget, Discovered, Restart, Tick, Done, vars
      <4>2. PICK b \in Browsers, kind \in Kinds, state \in Token, code \in BOOLEAN :
              /\ Question(kind, state, code)
              /\ req' = [req EXCEPT ![r] =
                           [kind |-> kind, browser |-> b, state |-> state,
                            code |-> code, login |-> jar[b].login,
                            session |-> jar[b].session]]
        BY <4>1 DEF Send
      <4>3. q = r /\ req'[q].state = state /\ req'[q].session = jar[b].session
        BY <1>2, <3>2, <4>2 DEF TypeOK
      <4>4. state # None => Authorized(state)
        BY <4>2 DEF Question, Offered, SignInInv, Asked
      <4>5. jar[b].session # None => Landed(jar[b].session)
        BY DEF TokensAnswered
      <4>6. QED  BY <4>3, <4>4, <4>5
    <3>3. QED  BY <3>1, <3>2
  <2>2. QED  BY <1>0, <2>1
<1>3. ASSUME NEW q \in Requests, reply'[q] # None, reply'[q].session \notin {None, Keep}
      PROVE  reply'[q].session = q /\ Landed(q)'
  <2>1. CASE reply'[q] = reply[q]
    BY <1>0, <1>3, <2>1 DEF TokensAnswered
  <2>2. CASE reply'[q] # reply[q]
    <3>1. PICK r \in Requests : Handle(r)
      BY <2>2 DEF Next, Send, Deliver, Forget, Discovered, Restart, Tick, Done, vars
    <3>2. r = q
      BY <2>2, <3>1
      DEF Handle, AskDiscovery, BeginLogin, Callback, Exchange, Visit, Logout, Respond,
          TypeOK
    <3>3. Exchange(q)
      BY <1>3, <2>2, <3>1, <3>2
      DEF Handle, AskDiscovery, BeginLogin, Callback, MismatchCookie, Visit, Logout,
          Respond, TypeOK
    <3>4. QED  BY <1>3, <3>3 DEF Exchange, Respond, TypeOK
  <2>3. QED  BY <2>1, <2>2
<1>4. ASSUME NEW b \in Browsers PROVE jar'[b].session \in Requests \cup {None}
  BY <1>t DEF TypeOK, Jars, Token
<1>5. ASSUME NEW q \in Requests, req'[q] # None
      PROVE  {req'[q].state, req'[q].session} \subseteq Requests \cup {None}
  BY <1>t, <1>5 DEF TypeOK, Asks, Token
<1>6. QED  BY <1>1, <1>2, <1>3, <1>4, <1>5 DEF TokensAnswered

(* Tokens in the maps, in cookies and in requests have been answered.         *)
THEOREM AnswersInvariant == Spec => [](TypeOK /\ SignInInv /\ CodeSentOnce /\ AnswersInv)
<1>1. Init => AnswersInv
  BY DEF Init, AnswersInv, MapsAnswered, TokensAnswered, Landed
<1>2. TypeOK /\ SignInInv /\ AnswersInv /\ [Next]_vars => AnswersInv'
  BY NextMapsAnswered, NextTokensAnswered DEF AnswersInv
<1>3. QED  BY SignInInvariant, CodeSentOnceAlways, <1>1, <1>2, PTL DEF Spec

\* What the steps of the refinement rest on.
SignInFacts == TypeOK /\ SignInInv /\ CodeSentOnce /\ AnswersInv

(* The mapped functions, told by their values.                                *)
LEMMA LivesByValue ==
  /\ LoginLives = [l \in Requests |-> LoginLives[l]]
  /\ SessionLives = [i \in Requests |-> SessionLives[i]]
  /\ Told = [r \in Requests |-> Told[r]]
  /\ LoginLives' = [l \in Requests |-> LoginLives'[l]]
  /\ SessionLives' = [i \in Requests |-> SessionLives'[i]]
  /\ Told' = [r \in Requests |-> Told'[r]]
BY DEF LoginLives, SessionLives, Told

(* A login's life follows from whether it was answered, is pending, has been  *)
(* spent and has been redeemed.                                               *)
LEMMA LoginFrame ==
  ASSUME SignInFacts, [Next]_vars, NEW l \in Requests,
         Authorized(l)' <=> Authorized(l),
         Authorized(l) => (Pending(l)' <=> Pending(l)),
         Spent(l)' <=> Spent(l), Redeemed(l)' <=> Redeemed(l)
  PROVE  LoginLives'[l] = LoginLives[l]
<1>1. Authorized(l) => req'[l].browser = req[l].browser
  BY AnswerStays DEF SignInFacts, Authorized
<1>2. QED  BY <1>1 DEF LoginLives

(* A session's life follows from whether it was opened and is in the map.     *)
LEMMA SessionFrame ==
  ASSUME SignInFacts, [Next]_vars, NEW i \in Requests, Landed(i)' <=> Landed(i),
         (sessions'[i] # None /\ sessions'[i] > now')
           <=> (sessions[i] # None /\ sessions[i] > now)
  PROVE  SessionLives'[i] = SessionLives[i]
<1>1. Landed(i) => req'[i].browser = req[i].browser
  BY AnswerStays DEF SignInFacts, Landed
<1>2. QED  BY <1>1 DEF SessionLives

(* What a request was told is known from its answer.                          *)
LEMMA ToldFrame ==
  ASSUME SignInFacts, [Next]_vars, NEW r \in Requests, reply'[r] = reply[r]
  PROVE  Told'[r] = Told[r]
<1>1. reply[r] # None => req'[r] = req[r]
  BY AnswerStays DEF SignInFacts
<1>2. QED  BY <1>1 DEF Told

(* Codes are spent and redeemed by the callbacks that have sent them.         *)
LEMMA SentFrame ==
  ASSUME SignInFacts, [Next]_vars, NEW l \in Requests
  PROVE  /\ Spent(l) => Spent(l)'
         /\ sent' = sent => (Spent(l)' <=> Spent(l))
         /\ sent' = sent /\ (\A q \in sent : Landed(q)' <=> Landed(q)) =>
              (Redeemed(l)' <=> Redeemed(l))
<1>1. \A q \in sent : q \in Requests /\ req'[q] = req[q]
  BY QuestionStays DEF SignInFacts, TypeOK, SignInInv, SentConsumed
<1>2. sent \subseteq sent'
  BY
  DEF Next, Handle, Send, Deliver, AskDiscovery, BeginLogin, Callback, Exchange, Visit,
      Logout, Forget, Discovered, Restart, Tick, Done, vars
<1>3. QED  BY <1>1, <1>2 DEF Spent, Redeemed

\* The step answers no login and opens no session, and tells nobody anything.
Quiet ==
  \A q \in Requests :
    /\ Authorized(q)' <=> Authorized(q)
    /\ Landed(q)' <=> Landed(q)
    /\ Told'[q] = Told[q]

(* A step that leaves the answers alone is quiet.                             *)
LEMMA QuietWhenSilent ==
  ASSUME SignInFacts, [Next]_vars, reply' = reply
  PROVE  Quiet
BY ToldFrame DEF Quiet, Authorized, Landed

(* A failure and a recovery are quiet answers.                                *)
LEMMA QuietAnswer ==
  ASSUME SignInFacts, [Next]_vars, NEW r \in Requests, pc[r] \in Handling,
         NEW o \in {"failed", "recover"}, NEW l \in Token \cup {Keep},
         NEW i \in Token \cup {Keep}, Respond(r, o, l, i)
  PROVE  Quiet
<1>1. reply[r] = None /\ reply'[r].outcome = o
  BY DEF SignInFacts, SignInInv, Asked, Respond, TypeOK
<1>2. \A q \in Requests : q # r => reply'[q] = reply[q]
  BY DEF SignInFacts, Respond, TypeOK
<1>3. Told'[r] = Told[r]
  BY <1>1 DEF Told
<1>4. QED  BY <1>1, <1>2, <1>3, ToldFrame DEF Quiet, Authorized, Landed

(* A quiet step that only takes logins and sessions away, or lets time pass,  *)
(* is a lapse.                                                                *)
LEMMA Fading ==
  ASSUME SignInFacts, [Next]_vars, Quiet, sent' = sent, now' \in Nat, now <= now',
         \A l \in Requests : Authorized(l) => logins'[l] \in {logins[l], None},
         \A i \in Requests : sessions'[i] \in {sessions[i], None}
  PROVE  SignedIn!SNext
<1>. USE NamesAssumption
<1>. DEFINE L == {l \in Requests : LoginLives[l].life = "begun"
                                   /\ LoginLives'[l].life # "begun"}
            I == {i \in Requests : SessionLives[i].life = "open"
                                   /\ SessionLives'[i].life # "open"}
<1>1. \A q \in Requests :
        /\ Authorized(q)' <=> Authorized(q)
        /\ Landed(q)' <=> Landed(q)
        /\ Told'[q] = Told[q]
  BY DEF Quiet
<1>2. ASSUME NEW l \in Requests
      PROVE  LoginLives'[l] = IF l \in L THEN [LoginLives[l] EXCEPT !.life = "over"]
                              ELSE LoginLives[l]
  <2>1. /\ Spent(l)' <=> Spent(l)
        /\ Redeemed(l)' <=> Redeemed(l)
    BY <1>1, SentFrame DEF SignInFacts, TypeOK
  <2>2. Authorized(l) /\ Pending(l)' => Pending(l)
    BY DEF Pending, SignInFacts, TypeOK
  <2>3. CASE Authorized(l) => (Pending(l)' <=> Pending(l))
    <3>1. LoginLives'[l] = LoginLives[l]
      BY <1>1, <2>1, <2>3, LoginFrame
    <3>2. QED  BY <3>1
  <2>4. CASE Authorized(l) /\ Pending(l) /\ ~Pending(l)'
    <3>1. ~Spent(l) /\ ~Redeemed(l)
      BY <2>4 DEF Spent, Redeemed, SignInFacts, SignInInv, SentConsumed, Pending
    <3>2. Authorized(l) /\ Authorized(l)' /\ req'[l].browser = req[l].browser
      BY <1>1, <2>4, AnswerStays DEF SignInFacts, Authorized
    <3>3. LoginLives[l] = [life |-> "begun", browser |-> req[l].browser]
      BY <2>4, <3>2 DEF LoginLives
    <3>4. LoginLives'[l] = [life |-> "over", browser |-> req[l].browser]
      BY <2>1, <2>4, <3>1, <3>2 DEF LoginLives
    <3>5. QED  BY <3>3, <3>4
  <2>5. QED  BY <2>2, <2>3, <2>4
<1>3. ASSUME NEW i \in Requests
      PROVE  SessionLives'[i] = IF i \in I THEN [SessionLives[i] EXCEPT !.life = "over"]
                                ELSE SessionLives[i]
  <2>1. sessions'[i] # None /\ sessions'[i] > now' => sessions[i] # None /\ sessions[i] > now
    BY DEF SignInFacts, TypeOK
  <2>2. CASE (sessions'[i] # None /\ sessions'[i] > now')
               <=> (sessions[i] # None /\ sessions[i] > now)
    <3>1. SessionLives'[i] = SessionLives[i]
      BY <1>1, <2>2, SessionFrame
    <3>2. QED  BY <3>1
  <2>3. CASE /\ sessions[i] # None /\ sessions[i] > now
             /\ ~(sessions'[i] # None /\ sessions'[i] > now')
    <3>1. Landed(i) /\ Landed(i)' /\ req'[i].browser = req[i].browser
      BY <1>1, <2>3, AnswerStays DEF SignInFacts, AnswersInv, MapsAnswered, Landed
    <3>2. SessionLives[i] = [life |-> "open", browser |-> req[i].browser]
      BY <2>3, <3>1 DEF SessionLives
    <3>3. SessionLives'[i] = [life |-> "over", browser |-> req[i].browser]
      BY <2>3, <3>1 DEF SessionLives
    <3>4. QED  BY <3>2, <3>3
  <2>4. QED  BY <2>1, <2>2, <2>3
<1>4. Told' = Told
  BY <1>1, LivesByValue
<1>5. /\ LoginLives' = [l \in Requests |-> IF l \in L
                          THEN [LoginLives[l] EXCEPT !.life = "over"] ELSE LoginLives[l]]
      /\ SessionLives' = [i \in Requests |-> IF i \in I
                            THEN [SessionLives[i] EXCEPT !.life = "over"]
                            ELSE SessionLives[i]]
  <2>. HIDE DEF L, I
  <2>1. QED  BY <1>2, <1>3, LivesByValue
<1>6. SignedIn!Lapse(L, I)
  BY <1>4, <1>5 DEF SignedIn!Lapse
<1>7. L \in SUBSET {l \in Requests : LoginLives[l].life = "begun"}
  OBVIOUS
<1>8. I \in SUBSET {i \in Requests : SessionLives[i].life = "open"}
  OBVIOUS
<1>9. QED
  <2>. HIDE DEF L, I
  <2>1. QED  BY <1>6, <1>7, <1>8 DEF SignedIn!SNext

(* A login begins when its redirect is answered.                              *)
LEMMA BeginMaps ==
  ASSUME SignInFacts, [Next]_vars, NEW r \in Requests, BeginLogin(r)
  PROVE  SignedIn!SNext
<1>. USE NamesAssumption, TimesAssumption
<1>1. pc[r] \in Handling /\ reply[r] = None /\ req[r] # None /\ req'[r] = req[r]
  BY DEF BeginLogin, SignInFacts, SignInInv, Asked, Handling, Kinds
<1>2. CASE reply'[r].outcome = "failed"
  <2>1. PICK l \in {r, Keep} : Respond(r, "failed", l, Keep)
    BY <1>2 DEF BeginLogin, Respond, SignInFacts, TypeOK
  <2>2. Quiet
    BY <1>1, <2>1, QuietAnswer DEF Token
  <2>3. \A q \in Requests : Authorized(q) => logins'[q] = logins[q]
    BY <1>1 DEF BeginLogin, Authorized, SignInFacts, TypeOK
  <2>4. UNCHANGED <<now, sessions, sent>>
    BY DEF BeginLogin
  <2>5. QED  BY <2>2, <2>3, <2>4, Fading DEF SignInFacts, TypeOK
<1>3. CASE reply'[r].outcome # "failed"
  <2>1. /\ logins' = [logins EXCEPT ![r] = now + LoginTTL]
        /\ Respond(r, "authorize", r, Keep)
        /\ UNCHANGED <<now, sessions, sent>>
    BY <1>3 DEF BeginLogin, Respond, SignInFacts, TypeOK
  <2>2. \A q \in Requests : q # r => reply'[q] = reply[q] /\ logins'[q] = logins[q]
    BY <2>1 DEF Respond, SignInFacts, TypeOK
  <2>3. reply'[r] = [outcome |-> "authorize", login |-> r, session |-> Keep]
    BY <2>1 DEF Respond, SignInFacts, TypeOK
  <2>4. reply'[r] \in Replies
    BY <2>3 DEF Replies, Outcomes, Token
  <2>5. Authorized(r)' /\ ~Authorized(r) /\ ~Landed(r) /\ ~Landed(r)' /\ Pending(r)'
    <3>1. logins'[r] = now + LoginTTL /\ now' = now /\ now \in Nat
      BY <2>1 DEF SignInFacts, TypeOK
    <3>2. Pending(r)'
      BY <3>1 DEF Pending
    <3>3. QED  BY <1>1, <2>3, <2>4, <3>2 DEF Authorized, Landed
  <2>6. \A q \in Requests : Landed(q)' <=> Landed(q)
    BY <2>2, <2>5 DEF Landed
  <2>7. ASSUME NEW q \in Requests, q # r PROVE LoginLives'[q] = LoginLives[q]
    <3>1. /\ Spent(q)' <=> Spent(q)
          /\ Redeemed(q)' <=> Redeemed(q)
      BY <2>1, <2>6, SentFrame DEF SignInFacts, TypeOK
    <3>2. /\ Authorized(q)' <=> Authorized(q)
          /\ Pending(q)' <=> Pending(q)
      BY <2>1, <2>2, <2>7 DEF Authorized, Pending
    <3>3. QED  BY <3>1, <3>2, LoginFrame
  <2>8. SessionLives' = SessionLives
    <3>1. \A q \in Requests : SessionLives'[q] = SessionLives[q]
      BY <2>1, <2>6, SessionFrame
    <3>2. QED  BY <3>1, LivesByValue
  <2>9. Told' = Told
    <3>1. Told'[r] = Told[r]
      BY <1>1, <2>3 DEF Told
    <3>2. \A q \in Requests : Told'[q] = Told[q]
      BY <2>2, <3>1, ToldFrame
    <3>3. QED  BY <3>2, LivesByValue
  <2>10. LoginLives[r] = SignedIn!Unborn
    BY <2>5 DEF LoginLives, SignedIn!Unborn
  <2>11. LoginLives'[r] = [life |-> "begun", browser |-> req[r].browser]
    BY <1>1, <2>5 DEF LoginLives
  <2>12. LoginLives' = [LoginLives EXCEPT ![r] = [life |-> "begun",
                                                  browser |-> req[r].browser]]
    BY <2>7, <2>11, LivesByValue
  <2>13. req[r].browser \in Browsers
    BY <1>1 DEF SignInFacts, TypeOK, Asks
  <2>14. SignedIn!Begin(r, req[r].browser)
    BY <2>8, <2>9, <2>10, <2>12 DEF SignedIn!Begin
  <2>15. QED  BY <2>13, <2>14 DEF SignedIn!SNext
<1>4. QED  BY <1>2, <1>3

(* A code is spent when its callback goes on to the token endpoint; every     *)
(* other callback ends its login at most.                                     *)
LEMMA CallbackMaps ==
  ASSUME SignInFacts, [Next]_vars, NEW r \in Requests, Callback(r)
  PROVE  SignedIn!SNext
<1>. USE NamesAssumption
<1>1. /\ pc[r] \in Handling /\ reply[r] = None /\ req[r] # None /\ r \notin sent
      /\ UNCHANGED <<now, sessions, req>>
  BY
  DEF Callback, SignInFacts, SignInInv, Asked, SentConsumed, Handling, Kinds
<1>2. CASE sent' = sent
  <2>1. \E l \in Token \cup {Keep} : Respond(r, "recover", l, Keep)
    BY <1>1, <1>2 DEF Callback, MismatchCookie, Token
  <2>2. Quiet
    BY <1>1, <2>1, QuietAnswer
  <2>3. \A l \in Requests : logins'[l] \in {logins[l], None}
    BY DEF Callback, Consumed, SignInFacts, TypeOK
  <2>4. QED  BY <1>1, <1>2, <2>2, <2>3, Fading DEF SignInFacts, TypeOK
<1>3. CASE sent' # sent
  <2>. DEFINE l == req[r].state
  <2>1. /\ l # None /\ Pending(l)
        /\ logins' = [logins EXCEPT ![l] = None]
        /\ sent' = sent \cup {r} /\ reply' = reply
    BY <1>3 DEF Callback, Consumed
  <2>2. l \in Requests /\ Authorized(l)
    BY <1>1, <2>1
    DEF SignInFacts, TypeOK, Asks, Token, AnswersInv, TokensAnswered
  <2>3. Quiet
    BY <2>1, QuietWhenSilent
  <2>4. ~Spent(l) /\ ~Redeemed(l)
    BY <2>1, <2>2 DEF Spent, Redeemed, Pending, SignInFacts, SignInInv, SentConsumed
  <2>5. ~Landed(r) /\ \A q \in Requests : Landed(q)' <=> Landed(q)
    BY <1>1, <2>1 DEF Landed
  <2>6. ~Pending(l)' /\ Spent(l)' /\ ~Redeemed(l)'
    <3>1. ~Pending(l)'
      <4>1. logins'[req[r].state] = None /\ req' = req
        BY <1>1, <2>1, <2>2 DEF SignInFacts, TypeOK
      <4>2. QED  BY <4>1 DEF Pending
    <3>2. Spent(l)'
      BY <1>1, <2>1 DEF Spent
    <3>3. ~Redeemed(l)'
      BY <1>1, <2>1, <2>4, <2>5 DEF Redeemed, Landed
    <3>4. QED  BY <3>1, <3>2, <3>3
  <2>7. ASSUME NEW q \in Requests, q # l PROVE LoginLives'[q] = LoginLives[q]
    <3>1. /\ Spent(q)' <=> Spent(q)
          /\ Redeemed(q)' <=> Redeemed(q)
      BY <1>1, <2>1, <2>5, <2>7 DEF Spent, Redeemed, Landed
    <3>2. Pending(q)' <=> Pending(q)
      BY <1>1, <2>1, <2>7 DEF Pending, SignInFacts, TypeOK
    <3>3. Authorized(q)' <=> Authorized(q)
      BY <2>1 DEF Authorized
    <3>4. QED  BY <3>1, <3>2, <3>3, LoginFrame
  <2>8. LoginLives[l] = [life |-> "begun", browser |-> req[l].browser]
    BY <2>1, <2>2 DEF LoginLives
  <2>9. LoginLives'[l] = [life |-> "spent", browser |-> req[l].browser]
    <3>1. Authorized(l)'
      BY <1>1, <2>1, <2>2 DEF Authorized
    <3>2. QED  BY <1>1, <2>2, <2>6, <3>1 DEF LoginLives
  <2>10. LoginLives' = [LoginLives EXCEPT ![l].life = "spent"]
    <3>1. [LoginLives[l] EXCEPT !.life = "spent"]
            = [life |-> "spent", browser |-> req[l].browser]
      BY <2>8
    <3>2. QED
      <4>. HIDE DEF l
      <4>1. QED  BY <2>2, <2>7, <2>9, <3>1, LivesByValue
  <2>11. SessionLives' = SessionLives
    <3>1. \A q \in Requests : SessionLives'[q] = SessionLives[q]
      BY <1>1, <2>5, SessionFrame
    <3>2. QED  BY <3>1, LivesByValue
  <2>12. Told' = Told
    BY <2>3, LivesByValue DEF Quiet
  <2>13. SignedIn!Spend(l)
    BY <2>8, <2>10, <2>11, <2>12 DEF SignedIn!Spend
  <2>14. QED  BY <2>2, <2>13 DEF SignedIn!SNext
<1>4. QED  BY <1>2, <1>3

(* A successful exchange redeems the login for one session, of its browser.   *)
LEMMA ExchangeMaps ==
  ASSUME SignInFacts, [Next]_vars, NEW r \in Requests, Exchange(r)
  PROVE  SignedIn!SNext
<1>. USE NamesAssumption
<1>1. /\ pc[r] \in Handling /\ reply[r] = None /\ req[r] # None /\ r \in sent
      /\ req[r].state = req[r].login /\ req[r].state # None
      /\ UNCHANGED <<now, logins, req, sent>>
  BY
  DEF Exchange, SignInFacts, SignInInv, Asked, SentConsumed, Handling, Kinds
<1>2. CASE Respond(r, "failed", Keep, Keep) /\ UNCHANGED sessions
  <2>1. Quiet
    BY <1>1, <1>2, QuietAnswer
  <2>2. QED  BY <1>1, <1>2, <2>1, Fading DEF SignInFacts, TypeOK
<1>3. CASE Opened(r) /\ Respond(r, "landed", None, r)
  <2>1. PICK l \in Requests : l = req[r].state
    BY <1>1 DEF SignInFacts, TypeOK, Asks, Token
  <2>2. /\ Authorized(l) /\ logins[l] = None
        /\ req[l] # None /\ req[l].browser = req[r].browser
    BY <1>1, <2>1
    DEF SignInFacts, AnswersInv, TokensAnswered, SignInInv, SentConsumed, TokensAtHome,
        LoginOf
  <2>3. reply'[r] = [outcome |-> "landed", login |-> None, session |-> r]
    BY <1>3 DEF Respond, SignInFacts, TypeOK
  <2>4. reply'[r] # None
    <3>1. reply'[r] \in Replies
      BY <2>3 DEF Replies, Outcomes, Token
    <3>2. QED  BY <3>1
  <2>5. Landed(r)' /\ ~Landed(r)
    BY <1>1, <2>3, <2>4 DEF Landed
  <2>6. \A q \in Requests : q # r => reply'[q] = reply[q] /\ sessions'[q] = sessions[q]
    BY <1>3 DEF Respond, Opened, SignInFacts, TypeOK
  <2>7. \A q \in Requests : Authorized(q)' <=> Authorized(q)
    BY <1>1, <2>3, <2>6 DEF Authorized
  <2>8. \A q \in sent : req[q].state = l => q = r
    BY <1>1, <2>1 DEF SignInFacts, CodeSentOnce
  <2>9. Spent(l) /\ ~Redeemed(l) /\ Redeemed(l)'
    <3>1. Spent(l)
      BY <1>1, <2>1 DEF Spent
    <3>2. ~Redeemed(l)
      BY <2>5, <2>8 DEF Redeemed
    <3>3. Redeemed(l)'
      BY <1>1, <2>1, <2>5 DEF Redeemed
    <3>4. QED  BY <3>1, <3>2, <3>3
  <2>10. ~Pending(l) /\ ~Pending(l)'
    BY <1>1, <2>2 DEF Pending
  <2>11. LoginLives[l] = [life |-> "spent", browser |-> req[r].browser]
    BY <2>2, <2>9, <2>10 DEF LoginLives
  <2>12. LoginLives'[l] = [life |-> "redeemed", browser |-> req[r].browser]
    <3>1. Authorized(l)' /\ req'[l].browser = req[r].browser
      BY <1>1, <2>2, <2>7
    <3>2. QED  BY <2>9, <2>10, <3>1 DEF LoginLives
  <2>13. ASSUME NEW q \in Requests, q # l PROVE LoginLives'[q] = LoginLives[q]
    <3>1. Pending(q)' <=> Pending(q)
      BY <1>1 DEF Pending
    <3>2. Spent(q)' <=> Spent(q)
      BY <1>1 DEF Spent
    <3>3. Redeemed(q)' <=> Redeemed(q)
      <4>1. \A c \in sent : c \in Requests
        BY DEF SignInFacts, TypeOK
      <4>2. \A c \in sent : req[c].state = q => (Landed(c)' <=> Landed(c))
        BY <2>1, <2>6, <2>13, <4>1 DEF Landed
      <4>3. QED  BY <1>1, <4>2 DEF Redeemed
    <3>4. QED  BY <2>7, <3>1, <3>2, <3>3, LoginFrame
  <2>14. LoginLives' = [LoginLives EXCEPT ![l].life = "redeemed"]
    <3>1. [LoginLives[l] EXCEPT !.life = "redeemed"]
            = [life |-> "redeemed", browser |-> req[r].browser]
      BY <2>11
    <3>2. QED  BY <2>12, <2>13, <3>1, LivesByValue
  <2>15. SessionLives[r] = SignedIn!Unborn
    BY <2>5 DEF SessionLives, SignedIn!Unborn
  <2>16. PICK life \in {"open", "over"} :
           SessionLives'[r] = [life |-> life, browser |-> req[r].browser]
    BY <1>1, <2>5 DEF SessionLives
  <2>17. SessionLives' = [SessionLives EXCEPT ![r] =
                            [life |-> life, browser |-> LoginLives[l].browser]]
    <3>1. \A q \in Requests : q # r => SessionLives'[q] = SessionLives[q]
      <4>1. \A q \in Requests : q # r => (Landed(q)' <=> Landed(q))
        BY <2>6 DEF Landed
      <4>2. QED  BY <1>1, <2>6, <4>1, SessionFrame
    <3>2. QED  BY <2>11, <2>16, <3>1, LivesByValue
  <2>18. Told' = Told
    <3>1. Told'[r] = Told[r]
      BY <1>1, <2>3 DEF Told
    <3>2. \A q \in Requests : Told'[q] = Told[q]
      BY <2>6, <3>1, ToldFrame
    <3>3. QED  BY <3>2, LivesByValue
  <2>19. SignedIn!Redeem(l, r)
    <3>1. LoginLives[l].life = "spent"
      BY <2>11
    <3>2. \E x \in {"open", "over"} :
            SessionLives' = [SessionLives EXCEPT ![r] =
                               [life |-> x, browser |-> LoginLives[l].browser]]
      BY <2>17
    <3>3. QED  BY <2>14, <2>15, <2>18, <3>1, <3>2, Zenon DEF SignedIn!Redeem
  <2>20. QED  BY <2>19 DEF SignedIn!SNext
<1>4. QED  BY <1>2, <1>3 DEF Exchange

(* A visit or a logout tells its own request and touches no login.            *)
LEMMA Telling ==
  ASSUME SignInFacts, [Next]_vars, NEW r \in Requests, pc[r] \in Handling,
         NEW o \in {"user", "anonymous", "ended"}, NEW t \in {None, Keep},
         Respond(r, o, t, t), UNCHANGED <<now, logins, req, sent>>
  PROVE  /\ Told[r] = None
         /\ Told' = [Told EXCEPT ![r] = [answer |-> o, browser |-> req[r].browser,
                                         session |-> req[r].session]]
         /\ LoginLives' = LoginLives
         /\ \A q \in Requests : Landed(q)' <=> Landed(q)
<1>. USE NamesAssumption
<1>1. reply[r] = None /\ req[r] # None
  BY DEF SignInFacts, SignInInv, Asked, Handling, Kinds
<1>2. reply'[r] = [outcome |-> o, login |-> t, session |-> t]
  BY DEF Respond, SignInFacts, TypeOK
<1>3. reply'[r] # None
  <2>1. reply'[r] \in Replies
    BY <1>2 DEF Replies, Outcomes, Token
  <2>2. QED  BY <2>1
<1>4. \A q \in Requests : q # r => reply'[q] = reply[q]
  BY DEF Respond, SignInFacts, TypeOK
<1>5. \A q \in Requests : /\ Authorized(q)' <=> Authorized(q)
                          /\ Landed(q)' <=> Landed(q)
  BY <1>1, <1>2, <1>4 DEF Authorized, Landed
<1>6. LoginLives' = LoginLives
  <2>1. ASSUME NEW l \in Requests PROVE LoginLives'[l] = LoginLives[l]
    <3>1. /\ Spent(l)' <=> Spent(l)
          /\ Redeemed(l)' <=> Redeemed(l)
      BY <1>5, SentFrame DEF SignInFacts, TypeOK
    <3>2. Pending(l)' <=> Pending(l)
      BY DEF Pending
    <3>3. QED  BY <1>5, <3>1, <3>2, LoginFrame
  <2>2. QED  BY <2>1, LivesByValue
<1>7. Told[r] = None
  BY <1>1 DEF Told
<1>8. Told' = [Told EXCEPT ![r] = [answer |-> o, browser |-> req[r].browser,
                                   session |-> req[r].session]]
  <2>1. Told'[r] = [answer |-> o, browser |-> req[r].browser, session |-> req[r].session]
    BY <1>2, <1>3 DEF Told
  <2>2. \A q \in Requests : q # r => Told'[q] = Told[q]
    BY <1>4, ToldFrame
  <2>3. QED  BY <2>1, <2>2, LivesByValue
<1>9. QED  BY <1>5, <1>6, <1>7, <1>8

(* A request that carries a session carries one of its own browser.           *)
LEMMA CarriedIsOwn ==
  ASSUME SignInFacts, NEW r \in Requests, req[r] # None, req[r].session # None
  PROVE  /\ req[r].session \in Requests /\ Landed(req[r].session)
         /\ SignedIn!Of(req[r].session, req[r].browser)
<1>1. req[r].session \in Requests /\ Landed(req[r].session)
  BY DEF SignInFacts, TypeOK, Asks, Token, AnswersInv, TokensAnswered
<1>2. req[req[r].session].browser = req[r].browser
  BY DEF SignInFacts, SignInInv, TokensAtHome, SessionOf
<1>3. QED  BY <1>1, <1>2 DEF SignedIn!Of, SessionLives

(* A visit is served under an open session or turned away from one that is    *)
(* over.                                                                      *)
LEMMA VisitMaps ==
  ASSUME SignInFacts, [Next]_vars, NEW r \in Requests, Visit(r)
  PROVE  SignedIn!SNext
<1>. USE NamesAssumption
<1>. DEFINE i == req[r].session
            b == req[r].browser
<1>1. /\ pc[r] \in Handling /\ req[r] # None /\ UNCHANGED <<now, logins, req, sent>>
      /\ b \in Browsers /\ i \in Requests \cup {None}
  <2>1. pc[r] \in Handling /\ req[r] # None /\ UNCHANGED <<now, logins, req, sent>>
    BY DEF Visit, SignInFacts, SignInInv, Asked, Handling, Kinds
  <2>2. QED  BY <2>1 DEF SignInFacts, TypeOK, Asks, Token
<1>2. PICK o \in {"user", "anonymous"} : Respond(r, o, Keep, Keep)
  BY DEF Visit
<1>3. /\ Told[r] = None
      /\ Told' = [Told EXCEPT ![r] = [answer |-> o, browser |-> b, session |-> i]]
      /\ LoginLives' = LoginLives
      /\ \A q \in Requests : Landed(q)' <=> Landed(q)
  BY <1>1, <1>2, Telling
<1>4. SessionLives' = SessionLives
  <2>1. ASSUME NEW q \in Requests
        PROVE  (sessions'[q] # None /\ sessions'[q] > now')
                 <=> (sessions[q] # None /\ sessions[q] > now)
    BY <1>1 DEF Visit, Stored, SignInFacts, TypeOK
  <2>2. \A q \in Requests : SessionLives'[q] = SessionLives[q]
    BY <1>3, <2>1, SessionFrame
  <2>3. QED  BY <2>2, LivesByValue
<1>5. reply'[r].outcome = o
  BY <1>2 DEF Respond, SignInFacts, TypeOK
<1>6. CASE o = "user"
  <2>1. Stored(i) /\ sessions[i] > now
    BY <1>5, <1>6 DEF Visit, Respond, SignInFacts, TypeOK
  <2>2. i \in Requests /\ Landed(i) /\ SignedIn!Of(i, b)
    BY <1>1, <2>1, CarriedIsOwn DEF Stored
  <2>3. SessionLives[i].life = "open"
    BY <2>1, <2>2 DEF SessionLives, Stored
  <2>4. SignedIn!Serve(r, b, i)
    BY <1>3, <1>4, <1>6, <2>2, <2>3 DEF SignedIn!Serve, SignedIn!Tell
  <2>5. QED
    <3>. HIDE DEF i, b
    <3>1. QED  BY <1>1, <2>2, <2>4 DEF SignedIn!SNext
<1>7. CASE o = "anonymous"
  <2>1. ~(Stored(i) /\ sessions[i] > now)
    <3>1. \/ ~Stored(i)
          \/ Stored(i) /\ sessions[i] <= now
      BY <1>5, <1>7 DEF Visit, Respond, SignInFacts, TypeOK
    <3>2. Stored(i) => sessions[i] \in Nat
      BY <1>1 DEF Stored, SignInFacts, TypeOK
    <3>3. QED  BY <3>1, <3>2 DEF SignInFacts, TypeOK
  <2>2. i # None => SignedIn!Of(i, b) /\ SessionLives[i].life = "over"
    <3>. SUFFICES ASSUME i # None PROVE SignedIn!Of(i, b) /\ SessionLives[i].life = "over"
      OBVIOUS
    <3>1. i \in Requests /\ Landed(i) /\ SignedIn!Of(i, b)
      BY <1>1, CarriedIsOwn
    <3>2. SessionLives[i].life = "over"
      BY <2>1, <3>1 DEF SessionLives, Stored
    <3>3. QED  BY <3>1, <3>2
  <2>3. SignedIn!TurnAway(r, b, i)
    BY <1>3, <1>4, <1>7, <2>2 DEF SignedIn!TurnAway, SignedIn!Tell
  <2>4. QED
    <3>. HIDE DEF i, b
    <3>1. QED  BY <1>1, <2>3 DEF SignedIn!SNext
<1>8. QED  BY <1>6, <1>7

(* A logout ends its own session, whatever has become of it.                  *)
LEMMA LogoutMaps ==
  ASSUME SignInFacts, [Next]_vars, NEW r \in Requests, Logout(r)
  PROVE  SignedIn!SNext
<1>. USE NamesAssumption
<1>. DEFINE i == req[r].session
            b == req[r].browser
<1>1. /\ pc[r] \in Handling /\ req[r] # None /\ UNCHANGED <<now, logins, req, sent>>
      /\ b \in Browsers /\ i \in Requests \cup {None}
  <2>1. pc[r] \in Handling /\ req[r] # None /\ UNCHANGED <<now, logins, req, sent>>
    BY DEF Logout, SignInFacts, SignInInv, Asked, Handling, Kinds
  <2>2. QED  BY <2>1 DEF SignInFacts, TypeOK, Asks, Token
<1>2. Respond(r, "ended", None, None)
  BY DEF Logout
<1>3. /\ Told[r] = None
      /\ Told' = [Told EXCEPT ![r] = [answer |-> "ended", browser |-> b, session |-> i]]
      /\ LoginLives' = LoginLives
      /\ \A q \in Requests : Landed(q)' <=> Landed(q)
  BY <1>1, <1>2, Telling
<1>4. ASSUME NEW q \in Requests, q # i PROVE SessionLives'[q] = SessionLives[q]
  <2>1. (sessions'[q] # None /\ sessions'[q] > now')
          <=> (sessions[q] # None /\ sessions[q] > now)
    BY <1>1, <1>4 DEF Logout, SignInFacts, TypeOK
  <2>2. QED  BY <1>3, <2>1, SessionFrame
<1>5. CASE i = None
  <2>1. SessionLives' = SessionLives
    BY <1>4, <1>5, LivesByValue
  <2>2. SignedIn!Leave(r, b, i)
    BY <1>3, <1>5, <2>1 DEF SignedIn!Leave, SignedIn!Tell
  <2>3. QED
    <3>. HIDE DEF i, b
    <3>1. QED  BY <1>1, <2>2 DEF SignedIn!SNext
<1>6. CASE i # None
  <2>1. i \in Requests /\ Landed(i) /\ SignedIn!Of(i, b)
    BY <1>1, <1>6, CarriedIsOwn
  <2>2. SessionLives[i].browser = req[i].browser
        /\ SessionLives[i] = [life |-> SessionLives[i].life, browser |-> req[i].browser]
    BY <2>1 DEF SessionLives
  <2>3. SessionLives'[i] = [life |-> "over", browser |-> req[i].browser]
    <3>1. sessions'[i] = None
      BY <1>6, <2>1 DEF Logout, SignInFacts, TypeOK
    <3>2. PICK s \in Requests : s = i
      BY <2>1
    <3>3. Landed(s)' /\ sessions'[s] = None /\ req' = req
      BY <1>1, <1>3, <2>1, <3>1, <3>2
    <3>4. SessionLives'[s] = [life |-> "over", browser |-> req[s].browser]
      BY <3>3 DEF SessionLives
    <3>5. QED  BY <3>2, <3>4
  <2>4. SessionLives' = [SessionLives EXCEPT ![i].life = "over"]
    <3>1. [SessionLives[i] EXCEPT !.life = "over"]
            = [life |-> "over", browser |-> req[i].browser]
      BY <2>2
    <3>2. QED
      <4>. HIDE DEF i
      <4>1. QED  BY <1>4, <2>1, <2>3, <3>1, LivesByValue
  <2>5. SignedIn!Leave(r, b, i)
    BY <1>3, <1>6, <2>1, <2>4 DEF SignedIn!Leave, SignedIn!Tell
  <2>6. QED
    <3>. HIDE DEF i, b
    <3>1. QED  BY <1>1, <2>5 DEF SignedIn!SNext
<1>7. QED  BY <1>5, <1>6

(* Every step of the service is a step of SignIn.                             *)
LEMMA StepMaps ==
  ASSUME SignInFacts, [Next]_vars
  PROVE  SignedIn!SNext
<1>1. CASE \E r \in Requests : BeginLogin(r) \/ Callback(r) \/ Exchange(r)
  BY <1>1, BeginMaps, CallbackMaps, ExchangeMaps
<1>2. CASE \E r \in Requests : Visit(r) \/ Logout(r)
  BY <1>2, VisitMaps, LogoutMaps
<1>3. CASE Restart
  <2>1. Quiet
    BY <1>3, QuietWhenSilent DEF Restart
  <2>2. QED  BY <1>3, <2>1, Fading DEF Restart, SignInFacts, TypeOK
<1>4. CASE Tick
  <2>1. Quiet
    BY <1>4, QuietWhenSilent DEF Tick
  <2>2. QED  BY <1>4, <2>1, Fading DEF Tick, SignInFacts, TypeOK
<1>5. CASE UNCHANGED <<now, logins, sessions, reply, sent>>
  <2>1. Quiet
    BY <1>5, QuietWhenSilent
  <2>2. QED  BY <1>5, <2>1, Fading DEF SignInFacts, TypeOK
<1>6. QED
  BY <1>1, <1>2, <1>3, <1>4, <1>5
  DEF Next, Handle, Send, Deliver, AskDiscovery, Forget, Discovered, Done, vars

(* The service implements SignIn, for any browsers, requests and lifetimes,   *)
(* with every overlap, expiry and restart.                                    *)
THEOREM BffSessionImplementsSignIn == Spec => ImplementsSignIn
<1>1. Init => SignedIn!SInit
  BY NamesAssumption
  DEF Init, SignedIn!SInit, SignedIn!Unborn, LoginLives, SessionLives, Told, Authorized,
      Landed
<1>2. SignInFacts /\ [Next]_vars => [SignedIn!SNext]_<<LoginLives, SessionLives, Told>>
  BY StepMaps
<1>3. Spec => []SignInFacts
  BY AnswersInvariant, PTL DEF SignInFacts
<1>4. QED  BY <1>1, <1>2, <1>3, PTL DEF Spec, ImplementsSignIn, SignedIn!SSpec
=============================================================================
