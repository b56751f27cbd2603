---------------------------- MODULE MCWidgetStore ----------------------------
(* Small instances of WidgetStore: the calls each run offers, and symmetry.  *)
EXTENDS WidgetStore, TLC

CONSTANTS alice, bob, title, state, a, b, k1

\* Column values: `title` is the text columns, `state` the status column.
Body(t, s) == (title :> t) @@ (state :> s)
NoChange   == [f \in {} |-> None]

Call(op, s, named, target, key, tag, body) ==
  [op |-> op, subject |-> s, named |-> named, target |-> target, key |-> key,
   ifMatch |-> tag, body |-> body]

Creates(owners, keys, bodies) ==
  {Call("create", s, s, Bad, k, None, x) : s \in owners, k \in keys, x \in bodies}
Writes(op, owners, named, tags, bodies) ==
  {Call(op, s, n, w, None, t, x) :
     s \in owners, n \in named, w \in WidgetIds, t \in tags, x \in bodies}
Tags == {None} \cup (WidgetIds \X (0..MaxClock))
OwnTag(c) == c.ifMatch \in {None, Bad} \/ c.ifMatch[1] = c.target

\* Everything two subjects can ask, well-formed or not.
AllCalls ==
  Creates({alice, bob}, {None}, {Body(a, a)})
  \cup Creates({alice, bob}, {k1}, {Body(a, a)})
  \cup Creates({alice}, {k1}, {Body(b, a)})
  \cup {Call("create", alice, bob, Bad, None, None, Body(a, a)),
        Call("create", alice, alice, Bad, None, None, Bad),
        Call("list", alice, alice, Bad, None, None, NoChange),
        Call("list", bob, bob, Bad, None, None, NoChange),
        Call("list", bob, bob, Bad, None, None, Bad),
        Call("delete", bob, None, Bad, None, None, NoChange)}
  \cup Writes("get", {alice, bob}, {None}, {None}, {NoChange})
  \cup Writes("replace", {alice}, {None, bob}, {None}, {Body(b, b)})
  \cup Writes("replace", {bob}, {None}, {Bad}, {Bad})
  \cup Writes("patch", {alice, bob}, {None}, {None}, {title :> b})
  \cup {c \in Writes("patch", {alice}, {None}, Tags, {state :> b, NoChange}) : OwnTag(c)}
  \cup Writes("delete", {alice, bob}, {None}, {None}, {NoChange})

\* Keyed creates by one subject beside the writes that touch what they created.
KeyedCalls ==
  Creates({alice}, {k1}, {Body(a, a), Body(b, a)})
  \cup Writes("patch", {alice}, {None}, {None}, {title :> b})
  \cup Writes("delete", {alice}, {None}, {None}, {NoChange})

\* Duplicates of one keyed create, with deletes that free its key.
DuplicateCalls ==
  Creates({alice}, {k1}, {Body(a, a)})
  \cup Writes("delete", {alice}, {None}, {None}, {NoChange})

\* Conditional writes of one subject.
ConditionalCalls ==
  Creates({alice}, {None}, {Body(a, a)})
  \cup {c \in Writes("patch", {alice}, {None}, Tags, {title :> b}) : OwnTag(c)}

NoWidth    == {}
WideList   == {<<bob, "list">>}
Symmetry == Permutations(Requests) \cup Permutations(WidgetIds)
=============================================================================
