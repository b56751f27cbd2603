------------------------ MODULE FrontendSignInProofs ------------------------
(* Theorems about FrontendSignIn, for any number of tabs and users, and      *)
(* however often the session changes and calls fail.                         *)
EXTENDS FrontendSignIn, TLAPS

USE NamesAssumption

\* A tab an action leaves alone.
Untouched(u) ==
  UNCHANGED <<page[u], route[u], user[u], loading[u], call[u]>>

\* The histories of a tab grow with the session.
Grows(u) ==
  /\ told[u] \subseteq told'[u] /\ since[u] \subseteq since'[u]
  /\ session' \in told'[u] \cap since'[u]

LEMMA UntouchedStaysOK ==
  ASSUME NEW u \in Tabs, TabOK(u), Untouched(u), Grows(u)
  PROVE  TabOK(u)'
  BY DEF TabOK, Untouched, Grows, Heard, Rendered

----------------------------------------------------------------------------
(* What the helpers of the actions do to the tabs' state.                  *)

Typed ==
  /\ page \in [Tabs -> Pages \cup {None}]
  /\ route \in [Tabs -> Routes \cup {None}]
  /\ user \in [Tabs -> Subjects \cup {None}]
  /\ loading \in [Tabs -> BOOLEAN]
  /\ call \in [Tabs -> [Places -> Answers \cup {"none", "sent"}]]

LEMMA CallSet ==
  ASSUME Typed, NEW t \in Tabs, NEW p \in Places,
         NEW a \in Answers \cup {"none", "sent"},
         call' = [call EXCEPT ![t][p] = a]
  PROVE  /\ call' \in [Tabs -> [Places -> Answers \cup {"none", "sent"}]]
         /\ call'[t][p] = a
         /\ \A q \in Places \ {p} : call'[t][q] = call[t][q]
         /\ \A u \in Tabs \ {t} : call'[u] = call[u]
<1>. DEFINE row == [call[t] EXCEPT ![p] = a]
<1>1. call' = [call EXCEPT ![t] = row]
  BY DEF Typed
<1>2. call[t] \in [Places -> Answers \cup {"none", "sent"}]
  BY DEF Typed
<1>3. /\ row \in [Places -> Answers \cup {"none", "sent"}]
      /\ row[p] = a /\ \A q \in Places \ {p} : row[q] = call[t][q]
  BY <1>2
<1>. HIDE DEF row
<1>4. QED  BY <1>1, <1>3 DEF Typed

LEMMA Loads ==
  ASSUME Typed, NEW t \in Tabs, NEW r \in Routes, Load(t, r)
  PROVE  /\ Typed'
         /\ page'[t] = None /\ route'[t] = r /\ user'[t] = None
         /\ call'[t]["guard"] = "none" /\ call'[t]["provider"] = "none"
         /\ call'[t]["config"] = "sent"
         /\ \A u \in Tabs \ {t} : Untouched(u)
<1>. DEFINE row == [Quiet EXCEPT !["config"] = "sent"]
<1>1. /\ row \in [Places -> Answers \cup {"none", "sent"}]
      /\ row["guard"] = "none" /\ row["provider"] = "none"
      /\ row["config"] = "sent"
  BY DEF Quiet, Places
<1>. HIDE DEF row
<1>2. call' = [call EXCEPT ![t] = row]
  BY DEF Load, row
<1>3. QED  BY <1>1, <1>2 DEF Load, Unmounted, Typed, Untouched

LEMMA ShowsError ==
  ASSUME Typed, NEW t \in Tabs, ShowError(t)
  PROVE  /\ Typed'
         /\ page'[t] = "error" /\ route'[t] = None /\ user'[t] = None
         /\ call'[t]["guard"] = "none" /\ call'[t]["provider"] = "none"
         /\ call'[t]["config"] = call[t]["config"]
         /\ \A u \in Tabs \ {t} : Untouched(u)
<1>. DEFINE row == [call[t] EXCEPT !["guard"] = "none", !["provider"] = "none"]
<1>1. call[t] \in [Places -> Answers \cup {"none", "sent"}]
  BY DEF Typed
<1>2. /\ row \in [Places -> Answers \cup {"none", "sent"}]
      /\ row["guard"] = "none" /\ row["provider"] = "none"
      /\ row["config"] = call[t]["config"]
  BY <1>1 DEF Places
<1>3. call' = [call EXCEPT ![t] = row]
  BY DEF ShowError
<1>. HIDE DEF row
<1>4. Typed'
  BY <1>2, <1>3 DEF ShowError, Unmounted, Typed, Pages
<1>5. QED  BY <1>2, <1>3, <1>4 DEF ShowError, Unmounted, Typed, Untouched

LEMMA Shows ==
  ASSUME Typed, NEW t \in Tabs, NEW p \in Pages, Show(t, p), UNCHANGED <<user, loading>>
  PROVE  /\ Typed'
         /\ page'[t] = p /\ route'[t] = None
         /\ call'[t]["guard"] = "none" /\ call'[t]["config"] = "none"
         /\ call'[t]["provider"] = ProviderCall(t, p)
         /\ \A u \in Tabs \ {t} : Untouched(u)
<1>. DEFINE row ==
       [call[t] EXCEPT !["guard"] = "none", !["config"] = "none",
                       !["provider"] = ProviderCall(t, p),
                       !["callback"] = IF p = "callback" THEN "sent"
                                       ELSE call[t]["callback"]]
<1>1. call[t] \in [Places -> Answers \cup {"none", "sent"}]
  BY DEF Typed
<1>2. ProviderCall(t, p) \in Answers \cup {"none", "sent"}
  BY <1>1 DEF ProviderCall, Places
<1>3. /\ row \in [Places -> Answers \cup {"none", "sent"}]
      /\ row["guard"] = "none" /\ row["config"] = "none"
      /\ row["provider"] = ProviderCall(t, p)
  BY <1>1, <1>2 DEF Places
<1>4. call' = [call EXCEPT ![t] = row]
  BY DEF Show
<1>. HIDE DEF row
<1>5. QED  BY <1>3, <1>4 DEF Show, Typed, Untouched

LEMMA Navigates ==
  ASSUME Typed, NEW t \in Tabs, NEW r \in Routes, Navigate(t, r),
         UNCHANGED <<page, user, loading>>
  PROVE  /\ Typed'
         /\ route'[t] = r
         /\ call'[t]["guard"] = "sent" /\ call'[t]["config"] = "none"
         /\ call'[t]["provider"] = call[t]["provider"]
         /\ \A u \in Tabs \ {t} : Untouched(u)
<1>. DEFINE row == [call[t] EXCEPT !["guard"] = "sent", !["config"] = "none"]
<1>1. call[t] \in [Places -> Answers \cup {"none", "sent"}]
  BY DEF Typed
<1>2. /\ row \in [Places -> Answers \cup {"none", "sent"}]
      /\ row["guard"] = "sent" /\ row["config"] = "none"
      /\ row["provider"] = call[t]["provider"]
  BY <1>1 DEF Places
<1>3. call' = [call EXCEPT ![t] = row]
  BY DEF Navigate, Typed
<1>. HIDE DEF row
<1>4. QED  BY <1>2, <1>3 DEF Navigate, Typed, Untouched
----------------------------------------------------------------------------
(* One step.  The acting tab is shown well by the lemma of its action; the  *)
(* others are untouched, and their histories grow with the session.         *)

HistoriesOK ==
  /\ session \in Subjects \cup {None}
  /\ told \in [Tabs -> SUBSET (Subjects \cup {None})]
  /\ since \in [Tabs -> SUBSET (Subjects \cup {None})]
  /\ changes \in Nat /\ moves \in Nat

LEMMA TypeParts ==
  /\ TypeOK <=> Typed /\ HistoriesOK
  /\ TypeOK' <=> Typed' /\ HistoriesOK'
  BY DEF TypeOK, Typed, HistoriesOK

LEMMA OneTab ==
  ASSUME TabsOK, NEW t \in Tabs, TabOK(t)', AsksAnew(t),
         \A u \in Tabs \ {t} : Untouched(u) /\ Grows(u)
  PROVE  TabsOK' /\ \A u \in Tabs : AsksAnew(u)
<1>1. ASSUME NEW u \in Tabs \ {t}
      PROVE  TabOK(u)' /\ AsksAnew(u)
  BY <1>1, UntouchedStaysOK DEF TabsOK, Untouched, AsksAnew
<1>2. QED  BY <1>1 DEF TabsOK

\* Leaving a document for another, or for the identity provider.
LEMMA LoadKeeps ==
  ASSUME TypeOK, TabsOK, NEW t \in Tabs, NEW r \in Routes, Load(t, r),
         Afresh(t, session), UNCHANGED session,
         changes' \in Nat, moves' \in Nat
  PROVE  TypeOK' /\ TabsOK' /\ \A u \in Tabs : AsksAnew(u)
<1>1. /\ Typed'
      /\ page'[t] = None /\ route'[t] = r /\ user'[t] = None
      /\ call'[t]["guard"] = "none" /\ call'[t]["provider"] = "none"
      /\ \A u \in Tabs \ {t} : Untouched(u)
  BY Loads, TypeParts
<1>2. HistoriesOK'
  BY TypeParts DEF HistoriesOK, Afresh
<1>3. TabOK(t)'
  BY <1>1, TypeParts DEF TabOK, Heard, Answers, Rendered, Afresh, HistoriesOK
<1>4. AsksAnew(t)
  BY <1>1 DEF AsksAnew
<1>5. \A u \in Tabs \ {t} : Grows(u)
  BY TypeParts DEF Grows, Afresh, HistoriesOK, TabsOK, TabOK
<1>6. TypeOK'
  BY <1>1, <1>2, TypeParts
<1>7. TabsOK' /\ \A u \in Tabs : AsksAnew(u)
  BY <1>1, <1>3, <1>4, <1>5, OneTab
<1>8. QED  BY <1>6, <1>7

\* The router starts for a guarded route.
LEMMA NavigateKeeps ==
  ASSUME TypeOK, TabsOK, NEW t \in Tabs, NEW r \in Guarded, Navigate(t, r),
         UNCHANGED <<session, page, user, loading, since>>,
         changes' \in Nat, moves' \in Nat
  PROVE  TypeOK' /\ TabsOK' /\ \A u \in Tabs : AsksAnew(u)
<1>. r \in Routes
  BY DEF Routes
<1>1. /\ Typed' /\ route'[t] = r
      /\ call'[t]["guard"] = "sent" /\ call'[t]["provider"] = call[t]["provider"]
      /\ \A u \in Tabs \ {t} : Untouched(u)
  BY Navigates, TypeParts
<1>2. HistoriesOK'
  BY TypeParts DEF HistoriesOK, Navigate
<1>3. TabOK(t)'
  <2>1. TabOK(t) /\ told'[t] = {session}
    BY TypeParts DEF TabsOK, Navigate, HistoriesOK
  <2>2. QED  BY <1>1, <2>1 DEF TabOK, Heard, Answers, Rendered
<1>4. AsksAnew(t)
  BY <1>1 DEF AsksAnew
<1>5. \A u \in Tabs \ {t} : Grows(u)
  BY TypeParts DEF Grows, Navigate, HistoriesOK, TabsOK, TabOK
<1>6. TypeOK'
  BY <1>1, <1>2, TypeParts
<1>7. TabsOK' /\ \A u \in Tabs : AsksAnew(u)
  BY <1>1, <1>3, <1>4, <1>5, OneTab
<1>8. QED  BY <1>6, <1>7

\* A page is shown, which the guard's answer allows.
LEMMA ShowKeeps ==
  ASSUME TypeOK, TabsOK, NEW t \in Tabs, Show(t, page'[t]), page'[t] \in Pages,
         page'[t] \notin {"badConfig", "away", "error"},
         UNCHANGED <<session, user, loading, told, since, changes, moves>>,
         page'[t] = "widgets" => told[t] \cap Subjects # {},
         page'[t] = "login" => None \in told[t]
  PROVE  TypeOK' /\ TabsOK' /\ \A u \in Tabs : AsksAnew(u)
<1>1. /\ Typed' /\ route'[t] = None
      /\ call'[t]["guard"] = "none"
      /\ call'[t]["provider"] = ProviderCall(t, page'[t])
      /\ \A u \in Tabs \ {t} : Untouched(u)
  BY Shows, TypeParts
<1>2. HistoriesOK'
  BY TypeParts DEF HistoriesOK
<1>3. TabOK(t)'
  BY <1>1 DEF TabsOK, TabOK, Heard, Answers, Rendered, ProviderCall
<1>4. AsksAnew(t)
  BY DEF AsksAnew
<1>5. \A u \in Tabs \ {t} : Grows(u)
  BY DEF Grows, TabsOK, TabOK
<1>6. TypeOK'
  BY <1>1, <1>2, TypeParts
<1>7. TabsOK' /\ \A u \in Tabs : AsksAnew(u)
  BY <1>1, <1>3, <1>4, <1>5, OneTab
<1>8. QED  BY <1>6, <1>7

\* The error page takes the place of the provider and of its call.
LEMMA ErrorKeeps ==
  ASSUME TypeOK, TabsOK, NEW t \in Tabs, ShowError(t),
         UNCHANGED <<session, told, since, changes, moves>>
  PROVE  TypeOK' /\ TabsOK' /\ \A u \in Tabs : AsksAnew(u)
<1>1. /\ Typed' /\ page'[t] = "error" /\ user'[t] = None
      /\ call'[t]["guard"] = "none" /\ call'[t]["provider"] = "none"
      /\ \A u \in Tabs \ {t} : Untouched(u)
  BY ShowsError, TypeParts
<1>2. TypeOK'
  BY <1>1, TypeParts DEF HistoriesOK
<1>3. TabOK(t)' /\ AsksAnew(t)
  BY <1>1 DEF TabsOK, TabOK, Heard, Answers, Rendered, AsksAnew
<1>4. \A u \in Tabs \ {t} : Grows(u)
  BY DEF Grows, TabsOK, TabOK
<1>5. TabsOK' /\ \A u \in Tabs : AsksAnew(u)
  BY <1>1, <1>3, <1>4, OneTab
<1>6. QED  BY <1>2, <1>5

LEMMA QuietHistories ==
  ASSUME TypeOK, TabsOK, UNCHANGED <<session, told, since>>,
         changes' \in Nat, moves' \in Nat
  PROVE  HistoriesOK' /\ \A u \in Tabs : Grows(u)
  BY TypeParts DEF HistoriesOK, Grows, TabsOK, TabOK

\* A call begins, is answered or read, and nothing else of the tab changes.
LEMMA CallKeeps ==
  ASSUME TypeOK, TabsOK, NEW t \in Tabs, NEW p \in Places,
         NEW a \in Answers \cup {"none", "sent"},
         call' = [call EXCEPT ![t][p] = a],
         UNCHANGED <<page, route, user, loading>>,
         HistoriesOK', \A u \in Tabs : Grows(u),
         p \in {"guard", "provider"} =>
           call[t][p] = "sent" /\ a \in Answers /\ Heard(a, told'[t] \cap since'[t])
  PROVE  TypeOK' /\ TabsOK' /\ \A u \in Tabs : AsksAnew(u)
<1>1. /\ call' \in [Tabs -> [Places -> Answers \cup {"none", "sent"}]]
      /\ call'[t][p] = a
      /\ \A q \in Places \ {p} : call'[t][q] = call[t][q]
      /\ \A u \in Tabs \ {t} : call'[u] = call[u]
  BY CallSet, TypeParts
<1>2. Typed'
  BY <1>1, TypeParts DEF Typed
<1>3. TypeOK'
  BY <1>2, TypeParts
<1>4. TabOK(t) /\ Grows(t) /\ {"guard", "provider"} \subseteq Places
  BY DEF TabsOK, Places
<1>5. TabOK(t)'
  BY <1>1, <1>4 DEF TabOK, Grows, Heard, Answers, Rendered
<1>6. AsksAnew(t) /\ \A u \in Tabs \ {t} : Untouched(u)
  BY <1>1 DEF AsksAnew, Untouched
<1>7. QED  BY <1>3, <1>5, <1>6, OneTab

LEMMA NextKeeps ==
  ASSUME TypeOK, TabsOK, [Next]_vars
  PROVE  TypeOK' /\ TabsOK' /\ \A u \in Tabs : AsksAnew(u)
<1>1. CASE UNCHANGED vars
  <2>1. TypeOK' /\ \A u \in Tabs : AsksAnew(u)
    BY <1>1 DEF vars, tab, TypeOK, AsksAnew
  <2>2. TabsOK'
    BY <1>1 DEF vars, tab, TabsOK, TabOK, Rendered
  <2>3. QED  BY <2>1, <2>2
<1>2. CASE Change
  <2>1. TypeOK'
    BY <1>2 DEF Change, tab, TypeOK
  <2>2. \A u \in Tabs : Untouched(u) /\ Grows(u)
    BY <1>2 DEF Change, tab, Untouched, Grows, TypeOK
  <2>3. \A u \in Tabs : TabOK(u)' /\ AsksAnew(u)
    BY <2>2, UntouchedStaysOK DEF TabsOK, Untouched, AsksAnew
  <2>4. QED  BY <2>1, <2>3 DEF TabsOK
<1>3. ASSUME NEW t \in Tabs, NEW r \in Routes, OpenAddress(t, r)
      PROVE  TypeOK' /\ TabsOK' /\ \A u \in Tabs : AsksAnew(u)
  BY <1>3, LoadKeeps DEF OpenAddress, Move, TypeOK
<1>4. ASSUME NEW t \in Tabs, Configured(t)
      PROVE  TypeOK' /\ TabsOK' /\ \A u \in Tabs : AsksAnew(u)
  <2>1. CASE route[t] \in Open /\ Show(t, route[t]) /\ UNCHANGED told
    <3>1. page'[t] = route[t] /\ page'[t] \in Pages
      BY <2>1 DEF Show, TypeOK, Open, Pages
    <3>2. page'[t] \notin {"badConfig", "away", "error", "widgets", "login"}
      BY <2>1, <3>1 DEF Open
    <3>3. QED  BY <1>4, <2>1, <3>1, <3>2, ShowKeeps DEF Configured, TypeOK
  <2>2. CASE route[t] \in Guarded /\ Navigate(t, route[t]) /\ UNCHANGED page
    BY <1>4, <2>2, NavigateKeeps DEF Configured, TypeOK
  <2>3. QED  BY <1>4, <2>1, <2>2 DEF Configured
<1>5. ASSUME NEW t \in Tabs, Guard(t)
      PROVE  TypeOK' /\ TabsOK' /\ \A u \in Tabs : AsksAnew(u)
  <2>1. /\ route[t] \in Guarded /\ Heard(Seen(t), told[t])
        /\ Seen(t) \in Answers
    BY <1>5 DEF Guard, Answered, Seen, TabsOK, TabOK, Answers
  <2>. DEFINE to == Onward(route[t], Seen(t) # None)
  <2>2. CASE Seen(t) = "failed"
    BY <1>5, <2>2, ErrorKeeps DEF Guard
  <2>3. CASE Seen(t) # "failed" /\ to = route[t]
    <3>1. /\ Show(t, to) /\ page'[t] = to
          /\ UNCHANGED <<session, user, loading, told, since, changes, moves>>
      BY <1>5, <2>3 DEF Guard, Show, TypeOK
    <3>2. \/ to = "widgets" /\ Seen(t) # None
          \/ to = "login" /\ Seen(t) = None
      <4>1. to = IF Seen(t) # None THEN "widgets" ELSE "login"
        <5>1. CASE route[t] = "widgets"
          BY <5>1 DEF Onward
        <5>2. CASE route[t] \in {"home", "login"}
          BY <5>2 DEF Onward
        <5>3. QED  BY <2>1, <5>1, <5>2 DEF Guarded
      <4>2. QED  BY <4>1
    <3>3. to \in Pages \ {"badConfig", "away", "error"}
      BY <3>2 DEF Pages
    <3>4. /\ to = "widgets" => told[t] \cap Subjects # {}
          /\ to = "login" => None \in told[t]
      BY <2>1, <2>3, <3>2 DEF Heard, Answers
    <3>. HIDE DEF to
    <3>5. QED  BY <3>1, <3>3, <3>4, ShowKeeps DEF TypeOK
  <2>4. CASE Seen(t) # "failed" /\ to # route[t]
    <3>1. to \in Guarded
      BY <2>1 DEF Guarded, Onward
    <3>2. QED  BY <1>5, <2>4, <3>1, NavigateKeeps DEF Guard, TypeOK
  <2>5. QED  BY <2>2, <2>3, <2>4
<1>6. ASSUME NEW t \in Tabs, Completed(t)
      PROVE  TypeOK' /\ TabsOK' /\ \A u \in Tabs : AsksAnew(u)
  <2>1. CASE call[t]["callback"] \in Subjects
    BY <1>6, <2>1, LoadKeeps DEF Completed, TypeOK, Routes, Guarded
  <2>2. CASE call[t]["callback"] \notin Subjects
    <3>1. "none" \in Answers \cup {"none", "sent"} /\ "callback" \in Places
      BY DEF Places
    <3>2. /\ call' = [call EXCEPT ![t]["callback"] = "none"]
          /\ UNCHANGED <<session, page, route, user, loading, told, since,
                         changes, moves>>
      BY <1>6, <2>2 DEF Completed
    <3>3. HistoriesOK' /\ \A u \in Tabs : Grows(u)
      BY <3>2, QuietHistories DEF TypeOK
    <3>4. QED  BY <3>1, <3>2, <3>3, CallKeeps
  <2>3. QED  BY <2>1, <2>2
<1>7. ASSUME NEW t \in Tabs, NEW p \in Logouts, LoggedOut(t, p)
      PROVE  TypeOK' /\ TabsOK' /\ \A u \in Tabs : AsksAnew(u)
  <2>1. CASE call[t][p] # "failed"
    BY <1>7, <2>1, LoadKeeps DEF LoggedOut, AfterLogout, TypeOK, Routes, Guarded
  <2>2. CASE call[t][p] = "failed"
    <3>1. /\ "none" \in Answers \cup {"none", "sent"}
          /\ p \in Places \ {"guard", "provider"}
      BY DEF Places, Logouts
    <3>2. /\ call' = [call EXCEPT ![t][p] = "none"]
          /\ UNCHANGED <<session, page, route, user, loading, told, since,
                         changes, moves>>
      BY <1>7, <2>2 DEF LoggedOut
    <3>3. HistoriesOK' /\ \A u \in Tabs : Grows(u)
      BY <3>2, QuietHistories DEF TypeOK
    <3>4. QED  BY <3>1, <3>2, <3>3, CallKeeps
  <2>3. QED  BY <2>1, <2>2
<1>8. ASSUME NEW t \in Tabs, NEW p \in Asked, Serve(t, p)
      PROVE  TypeOK' /\ TabsOK' /\ \A u \in Tabs : AsksAnew(u)
  <2>1. p \in Places /\ session \in Answers
    BY DEF Asked, Places, Answers, TypeOK
  <2>2. /\ call' = [call EXCEPT ![t][p] = session] /\ call[t][p] = "sent"
        /\ UNCHANGED <<session, page, route, user, loading, told, since,
                       changes, moves>>
    BY <1>8 DEF Serve
  <2>3. session \in told[t] \cap since[t] /\ session # "failed"
    BY DEF TabsOK, TabOK, TypeOK
  <2>4. HistoriesOK' /\ \A u \in Tabs : Grows(u)
    BY <2>2, QuietHistories DEF TypeOK
  <2>5. QED  BY <2>1, <2>2, <2>3, <2>4, CallKeeps DEF Heard
<1>9. ASSUME NEW t \in Tabs, NEW p \in Asked, NotServed(t, p)
      PROVE  TypeOK' /\ TabsOK' /\ \A u \in Tabs : AsksAnew(u)
  <2>1. PICK a \in {None, "failed"} : call' = [call EXCEPT ![t][p] = a]
    BY <1>9 DEF NotServed
  <2>2. p \in Places /\ a \in Answers
    BY DEF Asked, Places, Answers
  <2>3. /\ call[t][p] = "sent"
        /\ UNCHANGED <<session, page, route, user, loading, moves>>
        /\ told' = [told EXCEPT ![t] = @ \cup {None}]
        /\ since' = [since EXCEPT ![t] = @ \cup {None}]
        /\ changes' \in Nat
    BY <1>9 DEF NotServed, TypeOK
  <2>4. /\ HistoriesOK' /\ \A u \in Tabs : Grows(u)
        /\ None \in told'[t] /\ None \in since'[t]
    BY <2>3, TypeParts DEF HistoriesOK, Grows, TabsOK, TabOK
  <2>5. QED  BY <2>1, <2>2, <2>3, <2>4, CallKeeps DEF Heard
<1>10. ASSUME NEW t \in Tabs, NEW p \in Logouts, Logout(t, p)
       PROVE  TypeOK' /\ TabsOK' /\ \A u \in Tabs : AsksAnew(u)
  <2>1. PICK a \in {None, "failed"} : call' = [call EXCEPT ![t][p] = a]
    BY <1>10 DEF Logout
  <2>2. p \in Places \ {"guard", "provider"} /\ a \in Answers
    BY DEF Places, Logouts, Answers
  <2>3. /\ session' \in Subjects \cup {None} /\ changes' \in Nat
        /\ UNCHANGED <<page, route, user, loading, moves>>
        /\ told' = [u \in Tabs |-> told[u] \cup {session'}]
        /\ since' = [u \in Tabs |-> since[u] \cup {session'}]
    BY <1>10 DEF Logout, TypeOK
  <2>4. HistoriesOK' /\ \A u \in Tabs : Grows(u)
    BY <2>3, TypeParts DEF HistoriesOK, Grows
  <2>5. QED  BY <2>1, <2>2, <2>3, <2>4, CallKeeps
<1>11. ASSUME NEW t \in Tabs, Provided(t)
       PROVE  TypeOK' /\ TabsOK' /\ \A u \in Tabs : AsksAnew(u)
  <2>1. /\ "none" \in Answers \cup {"none", "sent"} /\ "provider" \in Places
        /\ call' = [call EXCEPT ![t]["provider"] = "none"]
        /\ UNCHANGED <<session, page, route, told, since, changes, moves>>
        /\ user' = [user EXCEPT ![t] = UserAfter(t)]
        /\ loading' = [loading EXCEPT ![t] = FALSE]
    BY <1>11 DEF Provided, Places
  <2>2. /\ Heard(call[t]["provider"], since[t]) /\ call[t]["provider"] \in Answers
        /\ TabOK(t) /\ Typed
    BY <1>11, TypeParts DEF Provided, Answered, TabsOK, TabOK
  <2>3. /\ call' \in [Tabs -> [Places -> Answers \cup {"none", "sent"}]]
        /\ call'[t]["provider"] = "none"
        /\ call'[t]["guard"] = call[t]["guard"]
        /\ \A u \in Tabs \ {t} : call'[u] = call[u]
    <3>1. "guard" \in Places \ {"provider"}
      BY DEF Places
    <3>2. QED  BY <2>1, <2>2, <3>1, CallSet
  <2>4. UserAfter(t) \in Subjects \cup {None}
    BY <2>2 DEF UserAfter, Answers, Typed
  <2>5. Typed'
    BY <2>1, <2>2, <2>3, <2>4 DEF Typed
  <2>6. TypeOK'
    BY <2>1, <2>5, TypeParts DEF HistoriesOK
  <2>7. user'[t] = UserAfter(t)
    BY <2>1, <2>2 DEF Typed
  <2>8. /\ UserAfter(t) # None => UserAfter(t) \in since[t]
        /\ None \notin since[t] => UserAfter(t) # None
    BY <2>2 DEF UserAfter, Heard, TabOK
  <2>9. TabOK(t)' /\ AsksAnew(t)
    BY <2>1, <2>2, <2>3, <2>7, <2>8 DEF TabOK, Heard, Answers, AsksAnew, Rendered
  <2>10. \A u \in Tabs \ {t} : Untouched(u) /\ Grows(u)
    BY <2>1, <2>2, <2>3 DEF Untouched, Grows, Typed, TabsOK, TabOK
  <2>11. QED  BY <2>6, <2>9, <2>10, OneTab
<1>12. ASSUME NEW t \in Tabs, ClickMyWidgets(t) \/ ClickBackHome(t)
       PROVE  TypeOK' /\ TabsOK' /\ \A u \in Tabs : AsksAnew(u)
  BY <1>12, NavigateKeeps DEF ClickMyWidgets, ClickBackHome, Move, TypeOK, Guarded
<1>13. ASSUME NEW t \in Tabs, NEW p \in Logouts, ClickLogOut(t, p)
       PROVE  TypeOK' /\ TabsOK' /\ \A u \in Tabs : AsksAnew(u)
  <2>1. p \in Places \ {"guard", "provider"}
    BY DEF Places, Logouts
  <2>2. /\ call' = [call EXCEPT ![t][p] = "sent"] /\ moves' \in Nat
        /\ UNCHANGED <<session, page, route, user, loading, told, since, changes>>
    BY <1>13 DEF ClickLogOut, Move, TypeOK
  <2>3. HistoriesOK' /\ \A u \in Tabs : Grows(u)
    BY <2>2, QuietHistories DEF TypeOK
  <2>4. QED  BY <2>1, <2>2, <2>3, CallKeeps
<1>14. ASSUME NEW t \in Tabs, ClickLogIn(t) \/ Misconfigured(t)
       PROVE  TypeOK' /\ TabsOK' /\ \A u \in Tabs : AsksAnew(u)
  <2>. DEFINE Leaves(p, who, busy) ==
          /\ page' = [page EXCEPT ![t] = p]
          /\ route' = [route EXCEPT ![t] = None]
          /\ user' = [user EXCEPT ![t] = who]
          /\ loading' = [loading EXCEPT ![t] = busy]
          /\ call' = [call EXCEPT ![t] = Quiet]
          /\ UNCHANGED <<session, told, since, changes>> /\ moves' \in Nat
  <2>1. PICK p \in {"away", "badConfig"}, who \in {None, user[t]}, busy \in BOOLEAN :
          Leaves(p, who, busy)
    <3>1. CASE ClickLogIn(t)
      <4>1. Leaves("away", None, TRUE)
        BY <3>1 DEF ClickLogIn, Unmounted, Move, TypeOK
      <4>2. QED  BY <4>1
    <3>2. CASE Misconfigured(t)
      <4>1. Leaves("badConfig", user[t], loading[t]) /\ loading[t] \in BOOLEAN
        BY <3>2 DEF Misconfigured, TypeOK
      <4>2. QED  BY <4>1
    <3>3. QED  BY <1>14, <3>1, <3>2
  <2>2. /\ Quiet \in [Places -> Answers \cup {"none", "sent"}]
        /\ Quiet["guard"] = "none" /\ Quiet["provider"] = "none"
    BY DEF Quiet, Places
  <2>3. Typed'
    BY <2>1, <2>2, TypeParts DEF Typed, Pages
  <2>4. TypeOK'
    BY <2>1, <2>3, TypeParts DEF HistoriesOK
  <2>5. TabOK(t)' /\ AsksAnew(t)
    BY <2>1, <2>2, TypeParts
    DEF Typed, TabsOK, TabOK, Heard, Answers, AsksAnew, Rendered
  <2>6. \A u \in Tabs \ {t} : Untouched(u) /\ Grows(u)
    BY <2>1, TypeParts DEF Untouched, Grows, Typed, TabsOK, TabOK
  <2>7. QED  BY <2>4, <2>5, <2>6, OneTab
<1>15. ASSUME NEW t \in Tabs, Return(t)
       PROVE  TypeOK' /\ TabsOK' /\ \A u \in Tabs : AsksAnew(u)
  <2>1. PICK r \in Routes : Load(t, r)
    BY <1>15 DEF Return, Routes, Guarded
  <2>2. /\ session' \in Subjects \cup {None} /\ UNCHANGED <<changes, moves>>
        /\ told' = [u \in Tabs |-> IF u = t THEN {session'}
                                   ELSE told[u] \cup {session'}]
        /\ since' = [u \in Tabs |-> IF u = t THEN {session'}
                                    ELSE since[u] \cup {session'}]
    BY <1>15 DEF Return, TypeOK
  <2>3. /\ Typed'
        /\ page'[t] = None /\ route'[t] = r /\ user'[t] = None
        /\ call'[t]["guard"] = "none" /\ call'[t]["provider"] = "none"
        /\ \A u \in Tabs \ {t} : Untouched(u)
    BY <2>1, Loads, TypeParts
  <2>4. TypeOK'
    BY <2>2, <2>3, TypeParts DEF HistoriesOK
  <2>5. TabOK(t)' /\ AsksAnew(t)
    BY <2>2, <2>3 DEF TabOK, Heard, Answers, AsksAnew, Rendered
  <2>6. \A u \in Tabs \ {t} : Grows(u)
    BY <2>2, TypeParts DEF Grows
  <2>7. QED  BY <2>3, <2>4, <2>5, <2>6, OneTab
<1>16. QED
  BY <1>1, <1>2, <1>3, <1>4, <1>5, <1>6, <1>7, <1>8, <1>9, <1>10, <1>11, <1>12,
     <1>13, <1>14, <1>15
  DEF Next, Continue, Click

----------------------------------------------------------------------------
\* The types, and what an answer on its way is worth, in every state.
THEOREM TabsAlways == Spec => [](TypeOK /\ TabsOK)
<1>1. Init => TypeOK /\ TabsOK
  <2>. SUFFICES ASSUME Init PROVE TypeOK /\ TabsOK
    OBVIOUS
  <2>1. Quiet \in [Places -> Answers \cup {"none", "sent"}]
        /\ Quiet["guard"] = "none" /\ Quiet["provider"] = "none"
    BY DEF Quiet, Places
  <2>2. TypeOK
    BY <2>1 DEF Init, TypeOK, Pages
  <2>3. TabsOK
    BY <2>1 DEF Init, TabsOK, TabOK, Heard, Answers, Rendered
  <2>4. QED  BY <2>2, <2>3
<1>2. TypeOK /\ TabsOK /\ [Next]_vars => (TypeOK /\ TabsOK)'
  BY NextKeeps
<1>3. QED  BY <1>1, <1>2, PTL DEF Spec

\* The state of the tabs, of their calls and of the histories keeps its types.
THEOREM TypeCorrect == Spec => []TypeOK
  BY TabsAlways, PTL

\* A name in a tab's bar was signed in since its document was loaded.
THEOREM NameWasSignedInAlways == Spec => []NameWasSignedIn
<1>1. TabsOK => NameWasSignedIn
  BY DEF TabsOK, TabOK, NameWasSignedIn
<1>2. QED  BY <1>1, TabsAlways, PTL

\* The spinner of the widgets page stays only after a moment without a session
\* or a failed call.
THEOREM WidgetsShownAlways == Spec => []WidgetsShown
<1>1. TabsOK => WidgetsShown
  BY DEF TabsOK, TabOK, WidgetsShown, Rendered, AtRest, Pages
<1>2. QED  BY <1>1, TabsAlways, PTL

\* Where a navigation ends is what the BFF could answer since its guard asked.
THEOREM GuardAsksAnewAlways == Spec => GuardAsksAnew
<1>1. TypeOK /\ TabsOK /\ [Next]_vars => [\A t \in Tabs : AsksAnew(t)]_vars
  BY NextKeeps
<1>2. QED  BY <1>1, TabsAlways, PTL DEF Spec, GuardAsksAnew
----------------------------------------------------------------------------
(* Nothing that a page waits for is dropped, and redirects end with the     *)
(* changes of the session.                                                  *)

LEMMA OneTabWaits ==
  ASSUME WaitsForCall, NEW t \in Tabs, Waits(t)', Follows(t),
         \A u \in Tabs \ {t} : Untouched(u)
  PROVE  WaitsForCall' /\ \A u \in Tabs : Follows(u)
<1>1. ASSUME NEW u \in Tabs \ {t} PROVE Waits(u)' /\ Follows(u)
  <2>1. Waits(u) /\ Untouched(u)
    BY DEF WaitsForCall
  <2>2. Waits(u)'
    BY <2>1 DEF Waits, Untouched, Rendered
  <2>3. Follows(u)
    BY <2>1 DEF Follows, Redirected, Answered, Answers, Untouched
  <2>4. QED  BY <2>2, <2>3
<1>2. QED  BY <1>1 DEF WaitsForCall

\* A new document waits for its configuration.
LEMMA LoadWaits ==
  ASSUME TypeOK, WaitsForCall, NEW t \in Tabs, NEW r \in Routes, Load(t, r)
  PROVE  WaitsForCall' /\ \A u \in Tabs : Follows(u)
<1>1. /\ page'[t] = None /\ route'[t] = r /\ call'[t]["guard"] = "none"
      /\ call'[t]["config"] = "sent"
      /\ \A u \in Tabs \ {t} : Untouched(u)
  BY Loads, TypeParts
<1>2. Waits(t)' /\ Follows(t)
  BY <1>1 DEF Waits, Rendered, Follows, Redirected, Pages
<1>3. QED  BY <1>1, <1>2, OneTabWaits

\* A page that is shown has asked for its user, and nothing leads on from it.
LEMMA ShowWaits ==
  ASSUME TypeOK, WaitsForCall, NEW t \in Tabs, NEW p \in Pages \ {"away", "error"},
         Show(t, p), UNCHANGED <<user, loading>>
  PROVE  WaitsForCall' /\ \A u \in Tabs : Follows(u)
<1>1. /\ page'[t] = p /\ route'[t] = None
      /\ call'[t]["guard"] = "none" /\ call'[t]["config"] = "none"
      /\ call'[t]["provider"] = ProviderCall(t, p)
      /\ \A u \in Tabs \ {t} : Untouched(u)
  BY Shows, TypeParts
<1>2. Waits(t)' /\ Follows(t)
  BY <1>1 DEF WaitsForCall, Waits, Rendered, ProviderCall, Follows, Redirected
<1>3. QED  BY <1>1, <1>2, OneTabWaits

\* The error page waits for nothing.
LEMMA ErrorWaits ==
  ASSUME TypeOK, WaitsForCall, NEW t \in Tabs, ShowError(t), call[t]["guard"] # "none"
  PROVE  WaitsForCall' /\ \A u \in Tabs : Follows(u)
<1>1. /\ page'[t] = "error" /\ route'[t] = None
      /\ call'[t]["guard"] = "none" /\ call'[t]["config"] = call[t]["config"]
      /\ \A u \in Tabs \ {t} : Untouched(u)
  BY ShowsError, TypeParts
<1>2. Waits(t)' /\ Follows(t)
  BY <1>1 DEF WaitsForCall, Waits, Rendered, Follows, Redirected
<1>3. QED  BY <1>1, <1>2, OneTabWaits

\* A navigation that starts waits for its guard.
LEMMA NavigateWaits ==
  ASSUME TypeOK, WaitsForCall, NEW t \in Tabs, NEW r \in Guarded, Navigate(t, r),
         UNCHANGED <<page, user, loading>>, page[t] # "away",
         Redirected(t) => Follows(t)
  PROVE  WaitsForCall' /\ \A u \in Tabs : Follows(u)
<1>. r \in Routes
  BY DEF Routes
<1>1. /\ call'[t]["guard"] = "sent" /\ call'[t]["config"] = "none"
      /\ call'[t]["provider"] = call[t]["provider"]
      /\ \A u \in Tabs \ {t} : Untouched(u)
  BY Navigates, TypeParts
<1>2. Waits(t)'
  BY <1>1 DEF WaitsForCall, Waits, Rendered
<1>3. Follows(t)
  BY DEF Follows
<1>4. QED  BY <1>1, <1>2, <1>3, OneTabWaits

\* A call is sent or answered: the guard's and the provider's stay to be read.
LEMMA CallWaits ==
  ASSUME TypeOK, WaitsForCall, NEW t \in Tabs, NEW p \in Places \ {"config"},
         NEW a \in Answers \cup {"none", "sent"},
         call' = [call EXCEPT ![t][p] = a],
         UNCHANGED <<page, route, user, loading>>,
         page[t] # "away",
         p \in {"guard", "provider"} => call[t][p] = "sent" /\ a \in Answers
  PROVE  WaitsForCall' /\ \A u \in Tabs : Follows(u)
<1>1. /\ call'[t][p] = a
      /\ \A q \in Places \ {p} : call'[t][q] = call[t][q]
      /\ \A u \in Tabs \ {t} : call'[u] = call[u]
  BY CallSet, TypeParts
<1>2. Waits(t) /\ {"config", "guard", "provider"} \subseteq Places
  BY DEF WaitsForCall, Places
<1>3. Waits(t)'
  BY <1>1, <1>2 DEF Waits, Rendered, Answers
<1>4. Follows(t)
  BY <1>1, <1>2 DEF Follows, Redirected, Answered, Answers
<1>5. \A u \in Tabs \ {t} : Untouched(u)
  BY <1>1 DEF Untouched
<1>6. QED  BY <1>3, <1>4, <1>5, OneTabWaits

\* No call is under way in a tab that is at the identity provider.
LEMMA Elsewhere ==
  ASSUME WaitsForCall, NEW t \in Tabs, NEW p \in Places, call[t][p] # "none"
  PROVE  page[t] # "away"
  BY DEF WaitsForCall, Waits, Quiet

LEMMA NextWaits ==
  ASSUME TypeOK, TabsOK, WaitsForCall, [Next]_vars
  PROVE  WaitsForCall' /\ \A u \in Tabs : Follows(u)
<1>. {"config", "guard", "provider", "callback"} \cup Logouts \subseteq Places
  BY DEF Places
<1>1. CASE Change \/ UNCHANGED vars
  <2>1. \A u \in Tabs : Untouched(u)
    BY <1>1 DEF Change, vars, tab, Untouched
  <2>2. ASSUME NEW u \in Tabs PROVE Waits(u)' /\ Follows(u)
    <3>1. Waits(u) /\ Untouched(u)
      BY <2>1 DEF WaitsForCall
    <3>2. QED
      BY <3>1
      DEF Waits, Untouched, Rendered, Follows, Redirected, Answered, Answers
  <2>3. QED  BY <2>2 DEF WaitsForCall
<1>2. ASSUME NEW t \in Tabs,
             \/ \E r \in Routes : OpenAddress(t, r)
             \/ Return(t)
             \/ Completed(t) /\ call[t]["callback"] \in Subjects
             \/ \E p \in Logouts : LoggedOut(t, p) /\ call[t][p] # "failed"
      PROVE  WaitsForCall' /\ \A u \in Tabs : Follows(u)
  <2>1. PICK r \in Routes : Load(t, r)
    BY <1>2 DEF OpenAddress, Return, Completed, LoggedOut, AfterLogout, Routes, Guarded
  <2>2. QED  BY <2>1, LoadWaits
<1>3. ASSUME NEW t \in Tabs, Configured(t)
      PROVE  WaitsForCall' /\ \A u \in Tabs : Follows(u)
  <2>1. page[t] # "away" /\ call[t]["guard"] = "none" /\ UNCHANGED <<user, loading>>
    BY <1>3, Elsewhere DEF Configured, WaitsForCall, Waits
  <2>2. CASE route[t] \in Open /\ Show(t, route[t])
    <3>1. route[t] \in Pages \ {"away", "error"}
      BY <2>2 DEF Open, Pages
    <3>2. QED  BY <2>1, <2>2, <3>1, ShowWaits
  <2>3. CASE route[t] \in Guarded /\ Navigate(t, route[t]) /\ UNCHANGED page
    <3>1. ~Redirected(t)
      BY <2>1 DEF Redirected, Answered, Answers
    <3>2. QED  BY <2>1, <2>3, <3>1, NavigateWaits
  <2>4. QED  BY <1>3, <2>2, <2>3 DEF Configured
<1>4. ASSUME NEW t \in Tabs, Guard(t)
      PROVE  WaitsForCall' /\ \A u \in Tabs : Follows(u)
  <2>1. /\ route[t] \in Guarded /\ Heard(Seen(t), told[t])
        /\ Seen(t) \in Answers /\ call[t]["guard"] # "none"
        /\ Seen(t) # "failed" => UNCHANGED <<user, loading>>
    BY <1>4 DEF Guard, Answered, Seen, TabsOK, TabOK, Answers
  <2>2. page[t] # "away"
    BY <2>1, Elsewhere
  <2>. DEFINE to == Onward(route[t], Seen(t) # None)
  <2>3. to = IF Seen(t) # None THEN "widgets" ELSE "login"
    <3>1. CASE route[t] = "widgets"
      BY <3>1 DEF Onward
    <3>2. CASE route[t] \in {"home", "login"}
      BY <3>2 DEF Onward
    <3>3. QED  BY <2>1, <3>1, <3>2 DEF Guarded
  <2>4. to \in Guarded /\ to \in Pages \ {"away", "error"}
    BY <2>3 DEF Guarded, Pages
  <2>5. CASE Seen(t) = "failed"
    BY <1>4, <2>1, <2>5, ErrorWaits DEF Guard
  <2>6. CASE Seen(t) # "failed" /\ to = route[t]
    <3>1. Show(t, to)
      BY <1>4, <2>6 DEF Guard
    <3>. HIDE DEF to
    <3>2. QED  BY <2>1, <2>4, <2>6, <3>1, ShowWaits
  <2>7. CASE Seen(t) # "failed" /\ to # route[t]
    <3>1. Navigate(t, to) /\ UNCHANGED page
      BY <1>4, <2>7 DEF Guard
    <3>2. route'[t] = to
      BY <3>1 DEF Navigate, TypeOK
    <3>3. Follows(t)
      <4>1. Seen(t) \in told[t] /\ Seen(t) \in Subjects \cup {None}
        BY <2>1, <2>7 DEF Heard, Answers
      <4>. HIDE DEF to
      <4>2. QED  BY <2>3, <2>7, <3>2, <4>1 DEF Follows
    <3>. HIDE DEF to
    <3>4. QED  BY <2>1, <2>2, <2>4, <2>7, <3>1, <3>3, NavigateWaits
  <2>8. QED  BY <2>5, <2>6, <2>7
<1>5. ASSUME NEW t \in Tabs, ClickMyWidgets(t) \/ ClickBackHome(t)
      PROVE  WaitsForCall' /\ \A u \in Tabs : Follows(u)
  <2>1. PICK r \in {"widgets", "home"} : Navigate(t, r)
    BY <1>5 DEF ClickMyWidgets, ClickBackHome
  <2>2. UNCHANGED <<page, user, loading>> /\ page[t] # "away" /\ r \in Guarded
    BY <1>5 DEF ClickMyWidgets, ClickBackHome, BarShown, Rendered, Guarded
  <2>3. ~Redirected(t)
    BY <1>5 DEF ClickMyWidgets, ClickBackHome, Move, Redirected, TypeOK
  <2>4. QED  BY <2>1, <2>2, <2>3, NavigateWaits
<1>6. ASSUME NEW t \in Tabs,
             \/ Completed(t) /\ call[t]["callback"] \notin Subjects
             \/ \E p \in Logouts : LoggedOut(t, p) /\ call[t][p] = "failed"
             \/ \E p \in Logouts : Logout(t, p) \/ ClickLogOut(t, p)
      PROVE  WaitsForCall' /\ \A u \in Tabs : Follows(u)
  <2>1. PICK p \in {"callback"} \cup Logouts, a \in {"none", "sent", None, "failed"} :
          /\ call' = [call EXCEPT ![t][p] = a]
          /\ UNCHANGED <<page, route, user, loading>>
          /\ call[t][p] # "none" \/ page[t] # "away"
    BY <1>6
    DEF Completed, LoggedOut, Logout, ClickLogOut, BarShown, Rendered, Answered, Answers
  <2>2. /\ p \in Places \ {"config", "guard", "provider"}
        /\ a \in Answers \cup {"none", "sent"}
    BY DEF Answers, Logouts
  <2>3. page[t] # "away"
    BY <2>1, <2>2, Elsewhere
  <2>4. QED  BY <2>1, <2>2, <2>3, CallWaits
<1>7. ASSUME NEW t \in Tabs, NEW p \in Asked, Serve(t, p) \/ NotServed(t, p)
      PROVE  WaitsForCall' /\ \A u \in Tabs : Follows(u)
  <2>1. PICK a \in {session, None, "failed"} : call' = [call EXCEPT ![t][p] = a]
    BY <1>7 DEF Serve, NotServed
  <2>2. call[t][p] = "sent" /\ UNCHANGED <<page, route, user, loading>>
    BY <1>7 DEF Serve, NotServed
  <2>3. p \in Places \ {"config"} /\ a \in Answers
    BY DEF Asked, Answers, TypeOK
  <2>4. page[t] # "away"
    BY <2>2, <2>3, Elsewhere
  <2>5. QED  BY <2>1, <2>2, <2>3, <2>4, CallWaits
<1>8. ASSUME NEW t \in Tabs, Provided(t)
      PROVE  WaitsForCall' /\ \A u \in Tabs : Follows(u)
  <2>1. /\ call' = [call EXCEPT ![t]["provider"] = "none"] /\ call[t]["provider"] # "none"
        /\ UNCHANGED <<page, route>>
        /\ user' = [user EXCEPT ![t] = UserAfter(t)]
        /\ loading' = [loading EXCEPT ![t] = FALSE]
    BY <1>8 DEF Provided, Answered, Answers
  <2>2. page[t] # "away" /\ Waits(t) /\ Typed
    BY <2>1, Elsewhere, TypeParts DEF WaitsForCall
  <2>3. /\ call'[t]["guard"] = call[t]["guard"]
        /\ call'[t]["config"] = call[t]["config"]
        /\ \A u \in Tabs \ {t} : call'[u] = call[u]
    <3>1. {"guard", "config"} \subseteq Places \ {"provider"}
      BY DEF Places
    <3>2. QED  BY <2>1, <2>2, <3>1, CallSet
  <2>4. Waits(t)'
    BY <2>1, <2>2, <2>3 DEF Waits, Typed
  <2>5. Follows(t)
    BY <2>3 DEF Follows, Redirected, Answered, Answers
  <2>6. \A u \in Tabs \ {t} : Untouched(u)
    BY <2>1, <2>2, <2>3 DEF Untouched, Typed
  <2>7. QED  BY <2>4, <2>5, <2>6, OneTabWaits
<1>9. ASSUME NEW t \in Tabs, ClickLogIn(t) \/ Misconfigured(t)
      PROVE  WaitsForCall' /\ \A u \in Tabs : Follows(u)
  <2>1. PICK p \in {"away", "badConfig"} :
          /\ page' = [page EXCEPT ![t] = p]
          /\ route' = [route EXCEPT ![t] = None]
          /\ call' = [call EXCEPT ![t] = Quiet]
    BY <1>9 DEF ClickLogIn, Misconfigured
  <2>2. \A u \in Tabs \ {t} : user'[u] = user[u] /\ loading'[u] = loading[u]
    BY <1>9 DEF ClickLogIn, Unmounted, Misconfigured, TypeOK
  <2>3. page'[t] = p /\ route'[t] = None /\ call'[t] = Quiet
    BY <2>1 DEF TypeOK
  <2>4. Quiet["config"] = "none" /\ Quiet["guard"] = "none"
    BY DEF Quiet
  <2>5. Waits(t)' /\ Follows(t)
    BY <2>3, <2>4 DEF Waits, Rendered, Quiet, Follows, Redirected
  <2>6. \A u \in Tabs \ {t} : Untouched(u)
    BY <2>1, <2>2 DEF Untouched, TypeOK
  <2>7. QED  BY <2>5, <2>6, OneTabWaits
<1>10. QED
  BY <1>1, <1>2, <1>3, <1>4, <1>5, <1>6, <1>7, <1>8, <1>9 DEF Next, Continue, Click

\* A navigation under way, and a page that says it is loading, have a call to
\* wait for: none is dropped when navigations, answers and logouts overlap.
THEOREM WaitsForCallAlways == Spec => []WaitsForCall
<1>1. Init => WaitsForCall
  BY DEF Init, WaitsForCall, Waits, Rendered, Quiet, Places
<1>2. TypeOK /\ TabsOK /\ WaitsForCall /\ [Next]_vars => WaitsForCall'
  BY NextWaits
<1>3. QED  BY <1>1, <1>2, TabsAlways, PTL DEF Spec

\* A guard redirects only as the session was at some moment since it asked, or
\* because asking failed: for /login and /widgets to send a tab back, one of the
\* two must happen anew.
THEOREM RedirectsFollowSessionAlways == Spec => RedirectsFollowSession
<1>1. TypeOK /\ TabsOK /\ WaitsForCall /\ [Next]_vars =>
        [\A t \in Tabs : Follows(t)]_vars
  BY NextWaits
<1>2. QED
  BY <1>1, TabsAlways, WaitsForCallAlways, PTL DEF Spec, RedirectsFollowSession
=============================================================================
