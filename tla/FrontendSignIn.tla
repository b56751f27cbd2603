--------------------------- MODULE FrontendSignIn ---------------------------
(***************************************************************************)
(* The sign-in state of the frontend in the tabs of one browser.  A tab    *)
(* asks the BFF for the session in three places that know nothing of each  *)
(* other: the guard (beforeLoad) of every navigation, the AuthProvider     *)
(* once per document, and the callback page.  The session belongs to the   *)
(* browser and may end, or become another user's, at any moment, by what   *)
(* another tab does too.                                                   *)
(*                                                                         *)
(* The router renders nothing before the first guard has let a page        *)
(* through, takes the last of overlapping navigations, and puts a redirect *)
(* in the place of the navigation it redirects.  A document that was left  *)
(* is never shown again as it was, since it is sent with no-store.         *)
(***************************************************************************)
EXTENDS Naturals, FiniteSets

CONSTANTS
  Tabs,
  Subjects,    \* users
  MaxChanges,  \* changes of the session by itself, and calls that fail (a bound)
  MaxMoves,    \* clicks, addresses and reloads (a bound)
  None


VARIABLES
  session,   \* the user the BFF holds a session of for this browser, or None
  page,      \* what the router shows in each tab, None before the first page
  route,     \* where a navigation under way leads, or None
  user, loading,  \* AuthProvider's state
  call,      \* the calls of a tab: none, sent, or the answer waiting to be read
  told,      \* history: what the BFF could answer since the guard's call began
  since,     \* history: the same since the document was loaded
  changes, moves

tab  == <<page, route, user, loading, call>>
vars == <<session, tab, told, since, changes, moves>>

Guarded == {"home", "login", "widgets"}
Open    == {"unknown", "callback"}   \* routes without beforeLoad
Routes  == Guarded \cup Open
Pages   == {"login", "widgets", "unknown", "callback", "error",
            "badConfig", "away"}

\* The button has no guard against a second click: logouts overlap, two in a
\* document (a bound).
Logouts == {"logout", "logoutAgain"}
Places  == {"config", "guard", "provider", "callback"} \cup Logouts

\* getAppUser makes null of a response that is not ok; fetch itself may fail.
Answers == Subjects \cup {None, "failed"}

ASSUME NamesAssumption ==
  /\ None \notin Subjects \cup Routes \cup Pages
  /\ (Subjects \cup {None}) \cap {"failed", "none", "sent"} = {}

TypeOK ==
  /\ session \in Subjects \cup {None}
  /\ page \in [Tabs -> Pages \cup {None}]
  /\ route \in [Tabs -> Routes \cup {None}]
  /\ user \in [Tabs -> Subjects \cup {None}]
  /\ loading \in [Tabs -> BOOLEAN]
  /\ call \in [Tabs -> [Places -> Answers \cup {"none", "sent"}]]
  /\ told \in [Tabs -> SUBSET (Subjects \cup {None})]
  /\ since \in [Tabs -> SUBSET (Subjects \cup {None})]
  /\ changes \in Nat /\ moves \in Nat

Quiet == [p \in Places |-> "none"]

Answered(t, p) == call[t][p] \in Answers

\* The document shows a page under the AuthProvider and the Layout.  The error
\* page is the root's errorComponent and stands in the place of both.
Rendered(t) == page[t] \notin {None, "badConfig", "away", "error"}

----------------------------------------------------------------------------
(* Documents.  Loading one forgets the state and the calls of the last.    *)

\* With the AuthProvider goes its state; an answer to its call then sets nothing.
Unmounted(t) ==
  /\ user' = [user EXCEPT ![t] = None]
  /\ loading' = [loading EXCEPT ![t] = TRUE]

\* window.location, an address, a reload or a redirect of the BFF: main asks
\* for config.json before it renders.
Load(t, r) ==
  /\ page' = [page EXCEPT ![t] = None]
  /\ route' = [route EXCEPT ![t] = r]
  /\ Unmounted(t)
  /\ call' = [call EXCEPT ![t] = [Quiet EXCEPT !["config"] = "sent"]]

\* What the tab is told counts from now on.
Afresh(t, s) ==
  /\ told' = [told EXCEPT ![t] = {s}]
  /\ since' = [since EXCEPT ![t] = {s}]

Move == moves < MaxMoves /\ moves' = moves + 1

OpenAddress(t, r) ==
  /\ Move /\ Load(t, r) /\ Afresh(t, session)
  /\ UNCHANGED <<session, changes>>

\* Mutant of ProviderCall: the user is not asked for where no user is shown.
UnlessUnknown(t, p) ==
  IF Rendered(t) \/ p = "unknown" THEN call[t]["provider"] ELSE "sent"

\* The provider's effect runs when the document shows its first page.
ProviderCall(t, p) == IF Rendered(t) THEN call[t]["provider"] ELSE "sent"

\* The root's errorComponent
ShowError(t) ==
  /\ page' = [page EXCEPT ![t] = "error"]
  /\ route' = [route EXCEPT ![t] = None]
  /\ call' = [call EXCEPT ![t] = [@ EXCEPT !["guard"] = "none", !["provider"] = "none"]]
  /\ Unmounted(t)

Show(t, p) ==
  /\ page' = [page EXCEPT ![t] = p]
  /\ route' = [route EXCEPT ![t] = None]
  /\ call' = [call EXCEPT ![t] =
       [@ EXCEPT !["guard"] = "none", !["config"] = "none",
                 !["provider"] = ProviderCall(t, p),
                 !["callback"] = IF p = "callback" THEN "sent" ELSE call[t]["callback"]]]

\* The router starts for r: beforeLoad sends its call.
Navigate(t, r) ==
  /\ route' = [route EXCEPT ![t] = r]
  /\ call' = [call EXCEPT ![t] = [@ EXCEPT !["guard"] = "sent", !["config"] = "none"]]
  /\ told' = [told EXCEPT ![t] = {session}]

\* config.json, or the values the page was built with, name the BFF.
Configured(t) ==
  /\ call[t]["config"] = "sent"
  /\ \/ /\ route[t] \in Open
        /\ Show(t, route[t])
        /\ UNCHANGED told
     \/ /\ route[t] \in Guarded
        /\ Navigate(t, route[t])
        /\ UNCHANGED page
  /\ UNCHANGED <<session, user, loading, since, changes, moves>>

\* They do not: main renders the error and no router.
Misconfigured(t) ==
  /\ call[t]["config"] = "sent"
  /\ page' = [page EXCEPT ![t] = "badConfig"]
  /\ route' = [route EXCEPT ![t] = None]
  /\ call' = [call EXCEPT ![t] = Quiet]
  /\ UNCHANGED <<session, user, loading, told, since, changes, moves>>

----------------------------------------------------------------------------
(* The BFF.                                                                *)

Asked == {"guard", "provider", "callback"}

\* BffAuthController.getSession
Serve(t, p) ==
  /\ call[t][p] = "sent"
  /\ call' = [call EXCEPT ![t][p] = session]
  /\ UNCHANGED <<session, page, route, user, loading, told, since, changes, moves>>

\* The BFF cannot be reached, or answers with an error.
NotServed(t, p) ==
  /\ call[t][p] = "sent"
  /\ changes < MaxChanges /\ changes' = changes + 1
  /\ \E a \in {None, "failed"} : call' = [call EXCEPT ![t][p] = a]
  /\ told' = [told EXCEPT ![t] = @ \cup {None}]
  /\ since' = [since EXCEPT ![t] = @ \cup {None}]
  /\ UNCHANGED <<session, page, route, user, loading, moves>>

\* BffSessionService.endSession.  A call that fails, or that a server or a proxy
\* answers with an error, may have ended the session or not; fetch rejects only
\* the first of the two.
Logout(t, p) ==
  /\ call[t][p] = "sent"
  /\ \/ session' = None /\ call' = [call EXCEPT ![t][p] = None] /\ UNCHANGED changes
     \/ /\ changes < MaxChanges /\ changes' = changes + 1
        /\ session' \in {session, None}
        /\ \E a \in {None, "failed"} : call' = [call EXCEPT ![t][p] = a]
  /\ told' = [u \in Tabs |-> told[u] \cup {session'}]
  /\ since' = [u \in Tabs |-> since[u] \cup {session'}]
  /\ UNCHANGED <<page, route, user, loading, moves>>

\* The session expires, is lost in a restart, or becomes another by a sign-in
\* that a tab not modelled completes.
Change ==
  /\ changes < MaxChanges /\ changes' = changes + 1
  /\ session' \in (Subjects \cup {None}) \ {session}
  /\ told' = [t \in Tabs |-> told[t] \cup {session'}]
  /\ since' = [t \in Tabs |-> since[t] \cup {session'}]
  /\ UNCHANGED <<tab, moves>>

----------------------------------------------------------------------------
(* Continuations.                                                          *)

\* Mutant of Seen: the widgets route asks the context instead of the BFF.
SeenInContext(t) ==
  IF route[t] = "widgets" THEN user[t] ELSE call[t]["guard"]

\* What the guard was answered.
Seen(t) == call[t]["guard"]

\* Mutant of Onward: without a user, login and widgets send to each other.
InCircles(r, someone) ==
  CASE r = "home" -> "widgets"
    [] r = "login" -> IF someone THEN "widgets" ELSE "home"
    [] r = "widgets" -> IF someone THEN "widgets" ELSE "login"

\* The guards: where a navigation to r goes; to r itself when it may.
Onward(r, someone) ==
  CASE r \in {"home", "login"} -> IF someone THEN "widgets" ELSE "login"
    [] r = "widgets" -> IF someone THEN "widgets" ELSE "login"

Guard(t) ==
  /\ Answered(t, "guard")
  /\ IF Seen(t) = "failed"
       THEN ShowError(t) /\ UNCHANGED told
       ELSE /\ LET to == Onward(route[t], Seen(t) # None) IN
               IF to = route[t]
                 THEN Show(t, to) /\ UNCHANGED told
                 ELSE Navigate(t, to) /\ UNCHANGED page
            /\ UNCHANGED <<user, loading>>
  /\ UNCHANGED <<session, since, changes, moves>>

\* Mutant of UserAfter: a fetch that fails sets the user too.
WhateverComes(t) == call[t]["provider"]

UserAfter(t) == IF call[t]["provider"] = "failed" THEN user[t] ELSE call[t]["provider"]

\* getAppUser().then(setUser).finally(() => setLoading(false))
Provided(t) ==
  /\ Answered(t, "provider")
  /\ user' = [user EXCEPT ![t] = UserAfter(t)]
  /\ loading' = [loading EXCEPT ![t] = FALSE]
  /\ call' = [call EXCEPT ![t]["provider"] = "none"]
  /\ UNCHANGED <<session, page, route, told, since, changes, moves>>

\* completeLogin in the callback page
Completed(t) ==
  /\ Answered(t, "callback")
  /\ IF call[t]["callback"] \in Subjects
       THEN Load(t, "widgets") /\ Afresh(t, session)
       ELSE /\ call' = [call EXCEPT ![t]["callback"] = "none"]
            /\ UNCHANGED <<page, route, user, loading, told, since>>
  /\ UNCHANGED <<session, changes, moves>>

\* Mutant of AfterLogout: the router goes to the login page.
StayInDocument(t) ==
  /\ route' = [route EXCEPT ![t] = "login"]
  /\ call' = [call EXCEPT ![t] = [@ EXCEPT !["guard"] = "sent", !["logout"] = "none",
                                            !["logoutAgain"] = "none"]]
  /\ UNCHANGED <<page, user, loading>>

\* beginLogout loads the login page anew.
AfterLogout(t) == Load(t, "login")

LoggedOut(t, p) ==
  /\ Answered(t, p)
  /\ IF call[t][p] = "failed"
       THEN /\ call' = [call EXCEPT ![t][p] = "none"]
            /\ UNCHANGED <<page, route, user, loading, told, since>>
       ELSE AfterLogout(t) /\ Afresh(t, session)
  /\ UNCHANGED <<session, changes, moves>>

----------------------------------------------------------------------------
(* The user.                                                               *)

\* Layout's bar is there while the context has a user.
BarShown(t) == Rendered(t) /\ ~loading[t] /\ user[t] # None

ClickMyWidgets(t) ==
  /\ Move /\ BarShown(t)
  /\ Navigate(t, "widgets")
  /\ UNCHANGED <<session, page, user, loading, since, changes>>

\* NotFound
ClickBackHome(t) ==
  /\ Move /\ page[t] = "unknown"
  /\ Navigate(t, "home")
  /\ UNCHANGED <<session, page, user, loading, since, changes>>

\* beginLogout, also while another one is under way
ClickLogOut(t, p) ==
  /\ Move /\ BarShown(t) /\ call[t][p] = "none"
  /\ call' = [call EXCEPT ![t][p] = "sent"]
  /\ UNCHANGED <<session, page, route, user, loading, told, since, changes>>

\* beginLogin: the tab leaves for the identity provider.
ClickLogIn(t) ==
  /\ Move /\ page[t] = "login"
  /\ page' = [page EXCEPT ![t] = "away"]
  /\ route' = [route EXCEPT ![t] = None]
  /\ Unmounted(t)
  /\ call' = [call EXCEPT ![t] = Quiet]
  /\ UNCHANGED <<session, told, since, changes>>

\* The BFF sends the tab to returnTo, as somebody, or back to the login page.
Return(t) ==
  /\ page[t] = "away"
  /\ \/ /\ session' \in Subjects
        /\ Load(t, "widgets")
     \/ /\ session' = session
        /\ Load(t, "login")
  /\ told' = [u \in Tabs |-> IF u = t THEN {session'} ELSE told[u] \cup {session'}]
  /\ since' = [u \in Tabs |-> IF u = t THEN {session'} ELSE since[u] \cup {session'}]
  /\ UNCHANGED <<changes, moves>>

----------------------------------------------------------------------------
Init ==
  /\ session \in Subjects \cup {None}
  /\ page = [t \in Tabs |-> "away"]
  /\ route = [t \in Tabs |-> None]
  /\ user = [t \in Tabs |-> None]
  /\ loading = [t \in Tabs |-> TRUE]
  /\ call = [t \in Tabs |-> Quiet]
  /\ told = [t \in Tabs |-> {session}]
  /\ since = [t \in Tabs |-> {session}]
  /\ changes = 0
  /\ moves = 0

Continue(t) ==
  \/ Configured(t) \/ Misconfigured(t) \/ Guard(t) \/ Provided(t)
  \/ Completed(t) \/ \E p \in Logouts : LoggedOut(t, p)

Click(t) ==
  \/ \E r \in Routes : OpenAddress(t, r)
  \/ \E p \in Logouts : ClickLogOut(t, p)
  \/ ClickMyWidgets(t) \/ ClickBackHome(t) \/ ClickLogIn(t)

Next ==
  \/ Change
  \/ \E t \in Tabs :
       \/ Continue(t) \/ Click(t) \/ Return(t)
       \/ \E p \in Logouts : Logout(t, p)
       \/ \E p \in Asked : Serve(t, p) \/ NotServed(t, p)

\* The BFF answers or fetch gives up; the browser runs what is ready to run.
Fairness ==
  \A t \in Tabs :
    /\ WF_vars(Continue(t))
    /\ \A p \in Logouts : WF_vars(Logout(t, p))
    /\ \A p \in Asked : WF_vars(Serve(t, p))

Spec == Init /\ [][Next]_vars /\ Fairness
----------------------------------------------------------------------------
(* Properties.                                                             *)

(* A name a tab shows was signed in in this browser since the tab's document was
   loaded and since its last logout was answered: no answer to an earlier
   document, and no state from before a logout, is shown (AuthContext.tsx,
   beginLogout in oidc.ts).                                                      *)
NameWasSignedIn == \A t \in Tabs : user[t] # None => user[t] \in since[t]

AtRest(t) ==
  /\ route[t] = None
  /\ call[t]["provider"] = "none" /\ call[t]["config"] = "none"

(* A tab that has come to the widgets shows them: "Loading your session..."
   (routes/widgets.tsx) stays for good only if, since the document was loaded, the
   session was missing for a moment or a call failed.                             *)
WidgetsShown ==
  \A t \in Tabs :
    page[t] = "widgets" /\ AtRest(t) /\ None \notin since[t] => user[t] # None

AsksAnew(t) ==
  route[t] # None /\ route'[t] = None =>
    /\ page'[t] = "widgets" => told[t] \cap Subjects # {}
    /\ page'[t] = "login" => None \in told[t]

(* A navigation ends at the widgets only if somebody, and at the login page only
   if nobody, was signed in at some moment since its guard asked (or asking
   failed): what the tab knew before decides nothing (beforeLoad of the routes).  *)
GuardAsksAnew == [][\A t \in Tabs : AsksAnew(t)]_vars

(* Every navigation ends at a page: the guards' redirects do not chase each other,
   also when the session ends or begins between two of them.                      *)
NavigationSettles == \A t \in Tabs : route[t] # None ~> route[t] = None

(* The safe half of NavigationSettles: a navigation under way always has its
   configuration or its guard's call to wait for, and so has the AuthProvider of a
   rendered page while it says that it is loading: no answer is dropped that a
   page still waits for, whichever navigations and logouts overlap.  A document
   asks nothing before it is configured, and nothing waits in one that was left.  *)
Waits(t) ==
  /\ route[t] # None =>
       call[t]["config"] = "sent" \/ call[t]["guard"] # "none"
  /\ Rendered(t) /\ loading[t] => call[t]["provider"] # "none"
  /\ call[t]["config"] = "sent" => page[t] = None /\ call[t]["guard"] = "none"
  /\ page[t] = "away" => call[t] = Quiet

WaitsForCall == \A t \in Tabs : Waits(t)

\* A guard has been answered and navigates on, without a click.
Redirected(t) ==
  moves' = moves /\ Answered(t, "guard") /\ call'[t]["guard"] = "sent"

(* Why the redirects of /login and /widgets do not chase each other: each of the
   two is taken only as the session was at some moment since its own guard asked
   (or asking failed), so that going back needs another change or failure.        *)
Follows(t) ==
  Redirected(t) =>
    \/ route'[t] = "login" /\ route[t] # "login" /\ None \in told[t]
    \/ route'[t] = "widgets" /\ route[t] # "widgets" /\ told[t] \cap Subjects # {}

RedirectsFollowSession == [][\A t \in Tabs : Follows(t)]_vars

(* How the properties come about: an answer on its way to the guard or to the
   provider was true at a moment that counts for it, or asking failed.            *)
Heard(a, moments) ==
  IF a = "failed" THEN None \in moments ELSE a \in Answers => a \in moments

TabOK(t) ==
  /\ session \in told[t] \cap since[t]
  /\ call[t]["guard"] # "none" => route[t] \in Guarded
  /\ Heard(call[t]["guard"], told[t])
  /\ Heard(call[t]["provider"], since[t])
  /\ user[t] # None => user[t] \in since[t]
  /\ Rendered(t) /\ call[t]["provider"] = "none" /\ None \notin since[t] =>
       user[t] # None

TabsOK == \A t \in Tabs : TabOK(t)
==============================================================================
