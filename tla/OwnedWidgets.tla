----------------------------- MODULE OwnedWidgets -----------------------------
(***************************************************************************)
(* What the widget service promises about its records, without requests,   *)
(* statements or time: a widget is born once, with an owner it keeps; only *)
(* its owner's calls change or remove it, each in one step; it never comes *)
(* back; and a subject's idempotency key names at most one live widget,    *)
(* which is that subject's own, for exactly as long as the widget lives.   *)
(* An owner is for good because canTransferWidgetOwnership, the place for  *)
(* a policy that allows transfers, grants none (widgets.service.ts:446);   *)
(* the API's descriptions of PUT and PATCH speak of transfers all the same.*)
(***************************************************************************)
CONSTANTS Subjects, WidgetIds, Keys, Fields, Values, None

VARIABLES
  shelf,   \* widget id -> its life
  names    \* <<subject, key>> -> the widget the key created, or None

Contents == [Fields -> Values]
Patches  == UNION {[D -> Values] : D \in SUBSET Fields}
Unborn   == [life |-> "unborn", owner |-> None, content |-> None]
Gone     == [life |-> "gone", owner |-> None, content |-> None]
Live(s, c) == [life |-> "live", owner |-> s, content |-> c]
Owns(s, w) == shelf[w].life = "live" /\ shelf[w].owner = s

AInit ==
  /\ shelf = [w \in WidgetIds |-> Unborn]
  /\ names = [k \in Subjects \X Keys |-> None]

Bear(w, s, c) ==
  /\ shelf[w] = Unborn
  /\ shelf' = [shelf EXCEPT ![w] = Live(s, c)]

Add(w, s, c) == Bear(w, s, c) /\ UNCHANGED names

AddNamed(w, s, c, k) ==
  /\ names[<<s, k>>] = None
  /\ Bear(w, s, c)
  /\ names' = [names EXCEPT ![<<s, k>>] = w]

\* Only the columns named change, from their values at the moment of the change.
Change(w, s, changes) ==
  /\ Owns(s, w)
  /\ shelf' = [shelf EXCEPT ![w] = Live(s,
                 [f \in Fields |-> IF f \in DOMAIN changes THEN changes[f]
                                   ELSE shelf[w].content[f]])]
  /\ UNCHANGED names

Discard(w, s) ==
  /\ Owns(s, w)
  /\ shelf' = [shelf EXCEPT ![w] = Gone]
  /\ names' = [k \in Subjects \X Keys |-> IF names[k] = w THEN None ELSE names[k]]

ANext ==
  \E w \in WidgetIds, s \in Subjects :
    \/ \E c \in Contents : Add(w, s, c) \/ \E k \in Keys : AddNamed(w, s, c, k)
    \/ \E changes \in Patches : Change(w, s, changes)
    \/ Discard(w, s)

ASpec == AInit /\ [][ANext]_<<shelf, names>>
=============================================================================
