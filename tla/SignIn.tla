-------------------------------- MODULE SignIn --------------------------------
(***************************************************************************)
(* What signing in promises, without requests under way, cookies, a clock  *)
(* or a process that restarts: a login begins in one browser, its code is  *)
(* spent at most once, and a spent code opens at most one session, of that *)
(* browser.  A session that is over stays over.  A request is served under *)
(* an open session of its own browser; it is turned away only when its     *)
(* session is over, or when it has none.                                   *)
(***************************************************************************)
CONSTANTS Tokens, Browsers, None

VARIABLES
  logins,    \* login -> its life and its browser
  sessions,  \* session -> its life and its browser
  told       \* request -> what it was told, and as what it came, or None

Unborn == [life |-> "unborn", browser |-> None]

SInit ==
  /\ logins = [l \in Tokens |-> Unborn]
  /\ sessions = [i \in Tokens |-> Unborn]
  /\ told = [r \in Tokens |-> None]

Begin(l, b) ==
  /\ logins[l] = Unborn
  /\ logins' = [logins EXCEPT ![l] = [life |-> "begun", browser |-> b]]
  /\ UNCHANGED <<sessions, told>>

\* The code goes to the identity provider.
Spend(l) ==
  /\ logins[l].life = "begun"
  /\ logins' = [logins EXCEPT ![l].life = "spent"]
  /\ UNCHANGED <<sessions, told>>

\* A session may be over as soon as it is made: the lifetime is not ours.
Redeem(l, i) ==
  /\ logins[l].life = "spent" /\ sessions[i] = Unborn
  /\ logins' = [logins EXCEPT ![l].life = "redeemed"]
  /\ \E life \in {"open", "over"} :
       sessions' = [sessions EXCEPT ![i] =
                      [life |-> life, browser |-> logins[l].browser]]
  /\ UNCHANGED told

\* Logins that have begun and open sessions end, for whatever reason.
Lapse(L, I) ==
  /\ \A l \in L : logins[l].life = "begun"
  /\ \A i \in I : sessions[i].life = "open"
  /\ logins' = [l \in Tokens |-> IF l \in L THEN [logins[l] EXCEPT !.life = "over"]
                                 ELSE logins[l]]
  /\ sessions' = [i \in Tokens |-> IF i \in I THEN [sessions[i] EXCEPT !.life = "over"]
                                   ELSE sessions[i]]
  /\ UNCHANGED told

Tell(r, answer, b, i) ==
  /\ told[r] = None
  /\ told' = [told EXCEPT ![r] = [answer |-> answer, browser |-> b, session |-> i]]

\* i is a session of browser b that has been opened.
Of(i, b) == sessions[i].life \in {"open", "over"} /\ sessions[i].browser = b

Serve(r, b, i) ==
  /\ Of(i, b) /\ sessions[i].life = "open"
  /\ Tell(r, "user", b, i)
  /\ UNCHANGED <<logins, sessions>>

TurnAway(r, b, i) ==
  /\ i # None => Of(i, b) /\ sessions[i].life = "over"
  /\ Tell(r, "anonymous", b, i)
  /\ UNCHANGED <<logins, sessions>>

Leave(r, b, i) ==
  /\ i # None => Of(i, b)
  /\ Tell(r, "ended", b, i)
  /\ sessions' = IF i = None THEN sessions ELSE [sessions EXCEPT ![i].life = "over"]
  /\ UNCHANGED logins

SNext ==
  \/ \E l \in Tokens, b \in Browsers : Begin(l, b)
  \/ \E l \in Tokens : Spend(l) \/ \E i \in Tokens : Redeem(l, i)
  \/ \E L \in SUBSET {l \in Tokens : logins[l].life = "begun"},
        I \in SUBSET {i \in Tokens : sessions[i].life = "open"} : Lapse(L, I)
  \/ \E r \in Tokens, b \in Browsers :
       \/ \E i \in Tokens : Serve(r, b, i)
       \/ \E i \in Tokens \cup {None} : TurnAway(r, b, i) \/ Leave(r, b, i)

SSpec == SInit /\ [][SNext]_<<logins, sessions, told>>
=============================================================================
