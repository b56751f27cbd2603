------------------------------ MODULE WidgetStore ------------------------------
(***************************************************************************)
(* The Provider API's widget service over its PostgreSQL tables.  Requests *)
(* run concurrently; one action is one synchronous stretch of a handler    *)
(* ended by one SQL statement, so that everything the handler holds across *)
(* an await can be stale when the next statement runs.  The guard has      *)
(* already resolved the caller: a call carries its effective subject.      *)
(***************************************************************************)
EXTENDS Naturals, FiniteSets

CONSTANTS
  Requests,      \* HTTP requests, each served once
  Subjects,      \* owners: effective subjects of callers
  WidgetIds,     \* the UUIDs the service may mint
  Keys,          \* well-formed Idempotency-Key values
  Fields,        \* the columns a body sets (name, description, status, additional_data)
  Values,        \* what a column may hold
  MaxClock,      \* bound on the millisecond clock
  Calls,         \* the calls clients send (a subset of CallType)
  Unrecordable,  \* <<subject, op>> whose access event exceeds its columns' widths
  None,          \* an absent header, row or value
  Bad            \* a malformed id, key, tag, body or query

Ops        == {"create", "list", "get", "replace", "patch", "delete"}
Contents   == [Fields -> Values]
Patches    == UNION {[D -> Values] : D \in SUBSET Fields}
ETags      == WidgetIds \X Nat
Rows       == [subject: Subjects, content: Contents, updatedAt: Nat]
IdemRows   == [hash: Contents, widget: WidgetIds]

\* `named` is the subject the request names: in the path of create and list,
\* optionally in the body of replace and patch.
CallType ==
  [ op: Ops, subject: Subjects, named: Subjects \cup {None},
    target: WidgetIds \cup {Bad}, key: Keys \cup {None, Bad},
    ifMatch: ETags \cup {None, Bad}, body: Patches \cup {Bad} ]

ASSUME CallsAssumption ==
  /\ Calls \subseteq CallType
  /\ \A c \in Calls : c.op \in {"create", "replace"} => c.body \in Contents \cup {Bad}
  /\ Unrecordable \subseteq Subjects \X Ops
  /\ MaxClock \in Nat

ASSUME NoneAssumption ==
  /\ None \notin Rows \cup IdemRows \cup CallType \cup WidgetIds
  /\ None \notin Subjects \cup Keys \cup ETags \cup Nat
  /\ Bad \notin WidgetIds \cup Keys \cup ETags \cup Patches
  /\ Bad # None

VARIABLES
  widgets,   \* widgets.widgets: id -> row or None (committed rows)
  idem,      \* widgets.widget_idempotency: <<subject, key>> -> row or None
  events,    \* widgets.widget_access_events
  minted,    \* UUIDs handed out so far
  clock,     \* the service's millisecond clock
  pc,        \* the statement a request's handler issues next
  call,      \* what the request asked
  wid,       \* the widget id the handler works on
  owner,     \* the ownerSubject the handler will record
  found,     \* the rows the handler returns: a set of <<id, row>>
  stamp,     \* the updatedAt its UPDATE carries
  answer,    \* the HTTP status sent, or None
  wrote      \* requests whose statement has changed a committed widget row

vars == <<widgets, idem, events, minted, clock, pc, call, wid, owner, found,
          stamp, answer, wrote>>
tables == <<widgets, idem, events>>

Waiting  == {"insert", "lookup", "replay", "txInsert", "claim", "commit",
             "list", "read", "write", "remove", "record"}
Ended    == {"answered", "lost"}
Statuses == {200, 201, 204, 400, 403, 404, 409, 412, 422, 500}

Events == [request: Requests, owner: Subjects, actor: Subjects, op: Ops,
           widget: WidgetIds \cup {None}]

TypeOK ==
  /\ widgets \in [WidgetIds -> Rows \cup {None}]
  /\ idem \in [Subjects \X Keys -> IdemRows \cup {None}]
  /\ events \subseteq Events
  /\ minted \subseteq WidgetIds
  /\ clock \in Nat
  /\ pc \in [Requests -> {"idle"} \cup Waiting \cup Ended]
  /\ call \in [Requests -> Calls \cup {None}]
  /\ wid \in [Requests -> WidgetIds \cup {None}]
  /\ owner \in [Requests -> Subjects \cup {None}]
  /\ found \in [Requests -> SUBSET (WidgetIds \X Rows)]
  /\ stamp \in [Requests -> Nat]
  /\ answer \in [Requests -> Statuses \cup {None}]
  /\ wrote \subseteq Requests

Init ==
  /\ widgets = [w \in WidgetIds |-> None]
  /\ idem = [k \in Subjects \X Keys |-> None]
  /\ events = {}
  /\ minted = {}
  /\ clock = 0
  /\ pc = [r \in Requests |-> "idle"]
  /\ call = [r \in Requests |-> None]
  /\ wid = [r \in Requests |-> None]
  /\ owner = [r \in Requests |-> None]
  /\ found = [r \in Requests |-> {}]
  /\ stamp = [r \in Requests |-> 0]
  /\ answer = [r \in Requests |-> None]
  /\ wrote = {}

-----------------------------------------------------------------------------
(* Validation, row predicates and the data the statements carry.           *)

Keyed(c)  == c.key # None
Update(c) == c.op \in {"replace", "patch"}

\* requireEffectiveSubject: the path's subject must be the caller's.
Forbidden(c) == c.op \in {"create", "list"} /\ c.named # c.subject

\* 400 before any statement: a widgetId that is no UUID, a malformed query.
Malformed(c) ==
  \/ c.op \in {"get", "replace", "patch", "delete"} /\ c.target = Bad
  \/ c.op = "list" /\ c.body = Bad

\* 422 of an update body: a malformed field, or no field at all.
BadUpdate(c) ==
  Update(c) /\ (c.body = Bad \/ (DOMAIN c.body = {} /\ c.named = None))

\* 422 before any statement: a malformed create body or Idempotency-Key.
BadCreate(c) == c.op = "create" /\ (c.body = Bad \/ c.key = Bad)

EarlyRefusal(c) ==
  IF Forbidden(c) THEN 403
  ELSE IF Malformed(c) THEN 400
  ELSE IF BadCreate(c) THEN 422 ELSE None

FirstStatement(c) ==
  IF c.op = "create" THEN (IF Keyed(c) THEN "lookup" ELSE "insert")
  ELSE IF c.op = "list" THEN "list" ELSE "read"

\* The ETag of a row: a hash of its id and its updatedAt in milliseconds.
ETag(w, row) == <<w, row.updatedAt>>

\* validateIfMatch: no header always passes.
IfMatchHolds(c, w, row) == c.ifMatch = None \/ c.ifMatch = ETag(w, row)

\* Mutant of VisibleTo: the owner is left out of the WHERE clause.
VisibleToAnyone(w, s) == widgets[w] # None

\* where: { id, subject }
VisibleTo(w, s) == widgets[w] # None /\ widgets[w].subject = s

\* Mutant of StoredSubject: the subject named in the body is stored.
TransferredSubject(c, row) == IF c.named # None THEN c.named ELSE row.subject

\* canTransferWidgetOwnership grants nothing, although the descriptions of PUT
\* and PATCH say that a subject may be transferred: a named subject is replaced
\* by the caller's, and an absent one leaves the column alone.
StoredSubject(c, row) == IF c.named # None THEN c.subject ELSE row.subject

Merge(changes, content) ==
  [f \in Fields |-> IF f \in DOMAIN changes THEN changes[f] ELSE content[f]]

\* A replace body sets every column (buildUpdateData applies the defaults), a
\* patch body those it names; both refresh updatedAt.
UpdatedRow(c, row, time) ==
  [subject |-> StoredSubject(c, row), content |-> Merge(c.body, row.content),
   updatedAt |-> time]

NewRow(c) == [subject |-> c.subject, content |-> c.body, updatedAt |-> clock]
IdemKey(c) == <<c.subject, c.key>>

\* Mutant of ClaimHeld: the claim outlives its transaction.
ClaimKept(k) ==
  \E r \in Requests : pc[r] \in {"commit", "record", "answered"}
                      /\ wid[r] # None /\ IdemKey(call[r]) = k

\* The unique index makes an insert wait for an uncommitted row with its key.
ClaimHeld(k) == \E r \in Requests : pc[r] = "commit" /\ IdemKey(call[r]) = k

\* Mutant of WithoutWidget: the foreign key does not cascade.
WithoutCascade(w) == idem

\* ON DELETE CASCADE of the idempotency rows.
WithoutWidget(w) ==
  [k \in Subjects \X Keys |->
     IF idem[k] # None /\ idem[k].widget = w THEN None ELSE idem[k]]
-----------------------------------------------------------------------------
Goto(r, label) ==
  /\ pc' = [pc EXCEPT ![r] = label]
  /\ UNCHANGED answer

Reply(r, status) ==
  /\ pc' = [pc EXCEPT ![r] = "answered"]
  /\ answer' = [answer EXCEPT ![r] = status]

\* The handler now holds row (w, row) and will record s as its owner.
Hold(r, w, row, s) ==
  /\ wid' = [wid EXCEPT ![r] = w]
  /\ found' = [found EXCEPT ![r] = {<<w, row>>}]
  /\ owner' = [owner EXCEPT ![r] = s]

\* A request arrives and runs up to its first statement: the checks that need
\* no row refuse it here.
Arrive(r) ==
  /\ pc[r] = "idle"
  /\ \E c \in Calls :
       /\ call' = [call EXCEPT ![r] = c]
       /\ IF EarlyRefusal(c) # None
          THEN Reply(r, EarlyRefusal(c))
          ELSE Goto(r, FirstStatement(c))
  /\ UNCHANGED <<tables, minted, clock, wid, owner, found, stamp, wrote>>

\* Mutant of FreshIds: the id of a deleted widget may be handed out again.
FreeIds == {w \in WidgetIds : widgets[w] = None}

\* A UUID is never minted twice.
FreshIds == WidgetIds \ minted

\* widget.create without an Idempotency-Key.
Insert(r) ==
  /\ pc[r] = "insert"
  /\ \E w \in FreshIds :
       LET row == NewRow(call[r]) IN
       /\ minted' = minted \cup {w}
       /\ widgets' = [widgets EXCEPT ![w] = row]
       /\ Hold(r, w, row, row.subject)
  /\ wrote' = wrote \cup {r}
  /\ Goto(r, "record")
  /\ UNCHANGED <<idem, events, clock, call, stamp>>

\* Mutant of SameRequest: the stored request hash is not compared.
AnyRequest(k, c) == TRUE

SameRequest(k, c) == idem[k].hash = c.body

\* In the transaction: find the key's row.
Lookup(r) ==
  /\ pc[r] = "lookup"
  /\ LET c == call[r]
         k == IdemKey(c)
     IN \/ /\ idem[k] = None
           /\ Goto(r, "txInsert")
           /\ UNCHANGED wid
        \/ /\ idem[k] # None
           /\ ~SameRequest(k, c)
           /\ Reply(r, 409)
           /\ UNCHANGED wid
        \/ /\ idem[k] # None
           /\ SameRequest(k, c)
           /\ wid' = [wid EXCEPT ![r] = idem[k].widget]
           /\ Goto(r, "replay")
  /\ UNCHANGED <<tables, minted, clock, call, owner, found, stamp, wrote>>

\* A known key: read its widget, by id alone, in a later statement of the
\* transaction (Read Committed: the widget may have gone meanwhile).
Replay(r) ==
  /\ pc[r] = "replay"
  /\ LET w == wid[r] IN
       \/ /\ widgets[w] = None
          /\ Reply(r, 404)
          /\ UNCHANGED <<wid, found, owner>>
       \/ /\ widgets[w] # None
          /\ Hold(r, w, widgets[w], widgets[w].subject)
          /\ Goto(r, "record")
  /\ UNCHANGED <<tables, minted, clock, call, stamp, wrote>>

\* A new key: insert the widget; the row stays invisible until the commit.
TxInsert(r) ==
  /\ pc[r] = "txInsert"
  /\ \E w \in FreshIds :
       LET row == NewRow(call[r]) IN
       /\ minted' = minted \cup {w}
       /\ Hold(r, w, row, row.subject)
  /\ Goto(r, "claim")
  /\ UNCHANGED <<tables, clock, call, stamp, wrote>>

\* Mutant of KeyTaken: no unique index on (subject, key).
NeverTaken(k) == FALSE

KeyTaken(k) == idem[k] # None

\* Insert the idempotency row: waits for another claim on the key, then fails
\* with a unique violation (rollback, 500) if that claim committed.
Claim(r) ==
  /\ pc[r] = "claim"
  /\ LET k == IdemKey(call[r]) IN
       /\ ~ClaimHeld(k)
       /\ IF KeyTaken(k) THEN Reply(r, 500) ELSE Goto(r, "commit")
  /\ UNCHANGED <<tables, minted, clock, call, wid, owner, found, stamp, wrote>>

\* COMMIT publishes both rows.
Commit(r) ==
  /\ pc[r] = "commit"
  /\ \E p \in found[r] :
       /\ widgets' = [widgets EXCEPT ![p[1]] = p[2]]
       /\ idem' = [idem EXCEPT ![IdemKey(call[r])] =
                     [hash |-> call[r].body, widget |-> p[1]]]
  /\ wrote' = wrote \cup {r}
  /\ Goto(r, "record")
  /\ UNCHANGED <<events, minted, clock, call, wid, owner, found, stamp>>

\* widget.findMany: a page of the rows visible to the subject that match the
\* filters (filter, order and page are abstracted to a choice).
List(r) ==
  /\ pc[r] = "list"
  /\ \E page \in SUBSET {w \in WidgetIds : VisibleTo(w, call[r].subject)} :
       found' = [found EXCEPT ![r] = {<<w, widgets[w]>> : w \in page}]
  /\ owner' = [owner EXCEPT ![r] = call[r].subject]
  /\ Goto(r, "record")
  /\ UNCHANGED <<tables, minted, clock, call, wid, stamp, wrote>>

\* findFirst { id, subject }, then the checks on the row just read.  A get is
\* done reading; a write carries the time of this moment as its updatedAt.
Read(r) ==
  /\ pc[r] = "read"
  /\ LET c == call[r]
         w == c.target
     IN \/ /\ ~VisibleTo(w, c.subject)
           /\ Reply(r, 404)
           /\ UNCHANGED <<wid, found, owner, stamp>>
        \/ /\ VisibleTo(w, c.subject)
           /\ Hold(r, w, widgets[w], widgets[w].subject)
           /\ \/ /\ c.op = "get"
                 /\ Goto(r, "record")
                 /\ UNCHANGED stamp
              \/ /\ c.op # "get" /\ ~IfMatchHolds(c, w, widgets[w])
                 /\ Reply(r, 412)
                 /\ UNCHANGED stamp
              \/ /\ c.op # "get" /\ IfMatchHolds(c, w, widgets[w]) /\ BadUpdate(c)
                 /\ Reply(r, 422)
                 /\ UNCHANGED stamp
              \/ /\ c.op # "get" /\ IfMatchHolds(c, w, widgets[w]) /\ ~BadUpdate(c)
                 /\ Goto(r, IF Update(c) THEN "write" ELSE "remove")
                 /\ stamp' = [stamp EXCEPT ![r] = clock]
  /\ UNCHANGED <<tables, minted, clock, call, wrote>>

\* Mutant of BaseRow: the columns not named are written back as they were read.
RowRead(r) == (CHOOSE p \in found[r] : TRUE)[2]

\* An UPDATE starts from the row as it is when the statement runs.
BaseRow(r) == widgets[wid[r]]

\* widget.update({ where: { id } }): the row as it is now, not as it was read.
Write(r) ==
  /\ pc[r] = "write"
  /\ LET w == wid[r]
         row == UpdatedRow(call[r], BaseRow(r), stamp[r])
     IN \/ /\ widgets[w] = None
           /\ Reply(r, 500)
           /\ UNCHANGED <<widgets, found, wrote>>
        \/ /\ widgets[w] # None
           /\ widgets' = [widgets EXCEPT ![w] = row]
           /\ found' = [found EXCEPT ![r] = {<<w, row>>}]
           /\ wrote' = wrote \cup {r}
           /\ Goto(r, "record")
  /\ UNCHANGED <<idem, events, minted, clock, call, wid, owner, stamp>>

\* Mutant of Remove: deleteMany, for which no row is no error.
RemoveMany(r) ==
  /\ pc[r] = "remove"
  /\ widgets' = [widgets EXCEPT ![wid[r]] = None]
  /\ idem' = WithoutWidget(wid[r])
  /\ found' = [found EXCEPT ![r] = {}]
  /\ wrote' = IF widgets[wid[r]] = None THEN wrote ELSE wrote \cup {r}
  /\ Goto(r, "record")
  /\ UNCHANGED <<events, minted, clock, call, wid, owner, stamp>>

\* widget.delete({ where: { id } }) with the cascade.
Remove(r) ==
  /\ pc[r] = "remove"
  /\ LET w == wid[r] IN
       \/ /\ widgets[w] = None
          /\ Reply(r, 500)
          /\ UNCHANGED <<widgets, idem, found, wrote>>
       \/ /\ widgets[w] # None
          /\ widgets' = [widgets EXCEPT ![w] = None]
          /\ idem' = WithoutWidget(w)
          /\ found' = [found EXCEPT ![r] = {}]
          /\ wrote' = wrote \cup {r}
          /\ Goto(r, "record")
  /\ UNCHANGED <<events, minted, clock, call, wid, owner, stamp>>

\* Mutant of Success: a delete answers that it will be done.
SuccessSoon(c) ==
  IF c.op = "create" THEN 201 ELSE IF c.op = "delete" THEN 202 ELSE 200

Success(c) ==
  IF c.op = "create" THEN 201 ELSE IF c.op = "delete" THEN 204 ELSE 200

AccessEvent(r) ==
  [request |-> r, owner |-> owner[r], actor |-> call[r].subject,
   op |-> call[r].op, widget |-> wid[r]]

\* Mutant of Record: a refused event is swallowed.
RecordIfPossible(r) ==
  /\ pc[r] = "record"
  /\ Reply(r, Success(call[r]))
  /\ events' = events \cup
       {e \in {AccessEvent(r)} : <<call[r].subject, call[r].op>> \notin Unrecordable}
  /\ UNCHANGED <<widgets, idem, minted, clock, call, wid, owner, found, stamp,
                 wrote>>

\* widgetAccessEvent.create, a statement of its own, then the response.  An
\* event wider than its columns is refused by the database.
Record(r) ==
  /\ pc[r] = "record"
  /\ IF <<call[r].subject, call[r].op>> \in Unrecordable
     THEN Reply(r, 500) /\ UNCHANGED events
     ELSE Reply(r, Success(call[r])) /\ events' = events \cup {AccessEvent(r)}
  /\ UNCHANGED <<widgets, idem, minted, clock, call, wid, owner, found, stamp,
                 wrote>>

\* A statement fails (connection, timeout): an open transaction rolls back and
\* the exception becomes a 500.
Fail(r) ==
  /\ pc[r] \in Waiting
  /\ Reply(r, 500)
  /\ UNCHANGED <<tables, minted, clock, call, wid, owner, found, stamp, wrote>>

\* The process dies: every request in flight is lost, the tables stay.
Crash ==
  /\ \E r \in Requests : pc[r] \in Waiting
  /\ pc' = [r \in Requests |-> IF pc[r] \in Waiting THEN "lost" ELSE pc[r]]
  /\ UNCHANGED <<tables, minted, clock, call, wid, owner, found, stamp, answer,
                 wrote>>

\* MaxClock bounds the clock.
Tick ==
  /\ clock < MaxClock
  /\ clock' = clock + 1
  /\ UNCHANGED <<tables, minted, pc, call, wid, owner, found, stamp, answer,
                 wrote>>

Serve(r) ==
  \/ Insert(r) \/ Lookup(r) \/ Replay(r) \/ TxInsert(r) \/ Claim(r) \/ Commit(r)
  \/ List(r) \/ Read(r) \/ Write(r) \/ Remove(r) \/ Record(r)

\* All requests have been served.
Done == (\A r \in Requests : pc[r] \in Ended) /\ UNCHANGED vars

Next ==
  \/ \E r \in Requests : Arrive(r) \/ Serve(r) \/ Fail(r)
  \/ Crash
  \/ Tick
  \/ Done

Spec == Init /\ [][Next]_vars

\* The event loop and the database keep running the requests they have.
Fairness == \A r \in Requests : WF_vars(Serve(r))
FairSpec == Spec /\ Fairness
-----------------------------------------------------------------------------
(* What a handler knows at each of its statements, from the checks before. *)

Creating == {"insert", "lookup", "replay", "txInsert", "claim", "commit"}
Holding  == {"replay", "claim", "commit", "write", "remove"}
Owning   == {"claim", "commit", "write", "remove", "record"}

ControlOK ==
  \A r \in Requests :
    /\ pc[r] = "idle" =>
         call[r] = None /\ wid[r] = None /\ found[r] = {} /\ r \notin wrote
    /\ pc[r] # "idle" => call[r] \in Calls
    /\ pc[r] \in Creating => call[r].op = "create" /\ call[r].body \in Contents
    /\ pc[r] \in Creating \ {"insert"} => call[r].key \in Keys
    /\ pc[r] = "insert" => call[r].key = None
    /\ pc[r] = "list" => call[r].op = "list"
    /\ pc[r] = "read" =>
         /\ call[r].op \in {"get", "replace", "patch", "delete"}
         /\ call[r].target \in WidgetIds
    /\ pc[r] = "write" => Update(call[r]) /\ call[r].body \in Patches
    /\ pc[r] = "remove" => call[r].op = "delete"
    /\ pc[r] \in Holding => wid[r] # None
    /\ pc[r] \in Owning => owner[r] # None

-----------------------------------------------------------------------------
(* Properties.                                                             *)

Ok(r) == answer[r] \in {200, 201, 204}
KeyedCreate(r) == call[r] # None /\ call[r].op = "create" /\ Keyed(call[r])
SameKey(r, q) ==
  KeyedCreate(r) /\ KeyedCreate(q) /\ IdemKey(call[r]) = IdemKey(call[q])

(* Only a request of a widget's own subject changes or removes its row, and no *)
(* step changes the row's subject, although update and delete name the row by  *)
(* id alone, after a read that may be stale (lines 242, 271, 294).  README.md:280*)
(* and widgets.service.spec.ts:113 say so too; widgets.controller.ts:939 and    *)
(* :991 and update-widget.dto.ts:35 say that a replace or patch may transfer a  *)
(* widget to another subject, which the code never does.                       *)
OwnerOnlyWrites ==
  [][\A w \in WidgetIds :
       widgets[w] # None /\ widgets'[w] # widgets[w] =>
         /\ \E r \in wrote' \ wrote : call[r].subject = widgets[w].subject
         /\ widgets'[w] # None => widgets'[w].subject = widgets[w].subject]_vars

(* A stored idempotency key names a live widget of the key's own subject, and  *)
(* no two keys name one widget: what a replay (line 108) returns by id alone   *)
(* exists and is the caller's.                                                 *)
KeyNamesOwnLiveWidget ==
  /\ \A k \in Subjects \X Keys : idem[k] # None =>
       widgets[idem[k].widget] # None /\ widgets[idem[k].widget].subject = k[1]
  /\ \A k, m \in Subjects \X Keys :
       idem[k] # None /\ idem[m] # None /\ k # m => idem[k].widget # idem[m].widget

(* The inductive invariant behind the ownership properties below: every row  *)
(* that is written by id alone was either found under its owner, or is known *)
(* to nobody else.                                                           *)

\* An id is minted before anyone can hold it or a row can bear it.
IdsMinted ==
  /\ \A w \in WidgetIds : widgets[w] # None => w \in minted
  /\ \A r \in Requests : wid[r] # None => wid[r] \in minted

\* What a handler has in memory is its caller's.
HeldRowsOwned ==
  \A r \in Requests : \A p \in found[r] : p[2].subject = call[r].subject

\* The row a handler is about to touch by id alone is gone or its caller's.
TargetsOwned ==
  \A r \in Requests : pc[r] \in {"replay", "write", "remove"} =>
    widgets[wid[r]] = None \/ widgets[wid[r]].subject = call[r].subject

\* A row inserted in an open transaction is known to its own handler only.
OpenRowsPrivate ==
  \A r \in Requests : pc[r] \in {"claim", "commit"} =>
    /\ \A p \in found[r] : p[1] = wid[r]
    /\ widgets[wid[r]] = None
    /\ \A q \in Requests \ {r} : wid[q] # wid[r]

\* One transaction at most is about to commit a key, and the key is free.
ClaimsExclusive ==
  \A r \in Requests : pc[r] = "commit" =>
    /\ idem[IdemKey(call[r])] = None
    /\ \A q \in Requests \ {r} :
         pc[q] = "commit" => IdemKey(call[q]) # IdemKey(call[r])

\* Creations have distinct widgets, and a key names the live one it created.
CreationsNamed ==
  \A r \in wrote :
    /\ pc[r] \in {"record", "answered", "lost"}
    /\ call[r].op = "create" =>
         /\ wid[r] # None /\ call[r].key \in Keys \cup {None}
         /\ \A q \in wrote \ {r} : call[q].op = "create" => wid[q] # wid[r]
         /\ Keyed(call[r]) /\ widgets[wid[r]] # None =>
              /\ idem[IdemKey(call[r])] # None
              /\ idem[IdemKey(call[r])].widget = wid[r]

OwnershipInv ==
  /\ IdsMinted /\ HeldRowsOwned /\ TargetsOwned /\ OpenRowsPrivate
  /\ ClaimsExclusive /\ CreationsNamed /\ KeyNamesOwnLiveWidget

(* However retries and duplicates of one keyed create interleave, at most one  *)
(* of the widgets they created is alive.                                       *)
OneLiveWidgetPerKey ==
  \A r, q \in wrote :
    r # q /\ SameKey(r, q) => widgets[wid[r]] = None \/ widgets[wid[q]] = None

(* A key is bound to the body it was first used with: successful creates that  *)
(* return one widget sent one body, and a 409 is given only to a body that     *)
(* differs from an earlier, successful use of the key (lines 101-106).         *)
KeyBindsBody ==
  /\ \A r, q \in Requests :
       Ok(r) /\ Ok(q) /\ SameKey(r, q) /\ wid[r] = wid[q] =>
         call[r].body = call[q].body
  /\ \A r \in Requests : answer[r] = 409 =>
       \E q \in wrote : SameKey(r, q) /\ call[q].body # call[r].body

(* A successful answer holds rows of the caller's subject only.                *)
OnlyOwnRows ==
  \A r \in Requests : Ok(r) => \A p \in found[r] : p[2].subject = call[r].subject

Recorded(r) ==
  \E e \in events : e.request = r /\ e.op = call[r].op /\ e.actor = call[r].subject
                                  /\ e.owner = call[r].subject

(* Every successful call is in the audit table under its caller and owner, and *)
(* a write missing from it is still being served or was reported as failed.    *)
AuditComplete ==
  /\ \A r \in Requests : Ok(r) => Recorded(r)
  /\ \A r \in wrote :
       Recorded(r) \/ pc[r] = "record" \/ pc[r] = "lost" \/ answer[r] = 500

(* The audit table never tells of what did not happen: a recorded delete means *)
(* the widget is gone, a recorded update was applied, and a recorded owner is  *)
(* the owner of the widget as long as it lives.                                *)
AuditTruthful ==
  \A e \in events :
    /\ e.op \in {"replace", "patch", "delete"} => e.request \in wrote
    /\ e.op = "delete" => widgets[e.widget] = None
    /\ e.widget # None /\ widgets[e.widget] # None =>
         widgets[e.widget].subject = e.owner

(* How the audit properties come about: what a handler records is its caller's, *)
(* and an answer, an event and a write of one request do not contradict.       *)
Changing == {"replace", "patch", "delete"}

RequestAudited(r) ==
  /\ pc[r] # "answered" => answer[r] = None
  /\ wid[r] # None /\ widgets[wid[r]] # None =>
       widgets[wid[r]].subject = call[r].subject
  /\ pc[r] \in Owning => owner[r] = call[r].subject
  /\ pc[r] = "record" /\ call[r].op \in Changing => r \in wrote
  /\ Ok(r) => Recorded(r)
  /\ r \in wrote =>
       /\ Recorded(r) \/ pc[r] \in {"record", "lost"} \/ answer[r] = 500
       /\ call[r].op = "delete" => wid[r] # None /\ widgets[wid[r]] = None

EventTrue(e) ==
  /\ pc[e.request] = "answered"
  /\ e.actor = call[e.request].subject /\ e.owner = e.actor
  /\ e.op = call[e.request].op /\ e.widget = wid[e.request]
  /\ e.op \in Changing => e.request \in wrote

AuditInv ==
  /\ \A r \in Requests : RequestAudited(r)
  /\ \A e \in events : EventTrue(e)

(* How KeyBindsBody comes about: a stored key, a replay and a 409 each go back  *)
(* to a request that wrote under the key and is still known.                   *)
KeyUsed(k, body, w) ==
  \E q \in wrote :
    /\ KeyedCreate(q) /\ IdemKey(call[q]) = k
    /\ call[q].body = body /\ wid[q] = w

KeyHonoured(r) ==
  KeyedCreate(r) =>
    /\ pc[r] \in {"replay", "record"} \/ Ok(r) =>
         KeyUsed(IdemKey(call[r]), call[r].body, wid[r])
    /\ answer[r] = 409 =>
         \E q \in wrote : SameKey(r, q) /\ call[q].body # call[r].body

KeysInv ==
  /\ \A k \in Subjects \X Keys :
       idem[k] # None => KeyUsed(k, idem[k].hash, idem[k].widget)
  /\ \A r \in Requests : KeyHonoured(r)
  /\ \A r \in Requests : answer[r] = 409 => KeyedCreate(r)

(* A patch leaves every column it does not name as another request's last      *)
(* write made it, although the handler read the row in an earlier statement.   *)
PatchKeepsOtherFields ==
  [][\A r \in wrote' \ wrote : call[r].op = "patch" =>
       \A f \in Fields \ DOMAIN call[r].body :
         widgets'[wid[r]].content[f] = widgets[wid[r]].content[f]]_vars

\* Widget w once had a committed row.
Born(w) == \E r \in wrote : wid[r] = w

Shelf ==
  [w \in WidgetIds |->
     IF widgets[w] # None
     THEN [life |-> "live", owner |-> widgets[w].subject,
           content |-> widgets[w].content]
     ELSE [life |-> IF Born(w) THEN "gone" ELSE "unborn", owner |-> None,
           content |-> None]]
Names ==
  [k \in Subjects \X Keys |-> IF idem[k] = None THEN None ELSE idem[k].widget]

Owned == INSTANCE OwnedWidgets WITH shelf <- Shelf, names <- Names

(* The service implements OwnedWidgets: each statement is one of its steps or  *)
(* invisible to it, whatever else runs, fails or crashes.  (No step of it gives *)
(* a record away, as the API's descriptions of PUT and PATCH would have it.)   *)
ImplementsOwnedWidgets == Owned!ASpec

(* The safe half of the next property.  A keyed create that waits for a claim   *)
(* waits for a transaction that itself waits for nobody and has the one row it *)
(* will publish: its own call's, under the key the claim is on.                *)
CommitsOwnRow ==
  \A r \in Requests : pc[r] \in {"claim", "commit"} =>
    \E time \in 0..clock :
      found[r] = {<<wid[r], [subject |-> call[r].subject, content |-> call[r].body,
                            updatedAt |-> time]>>}

\* How many statements a handler has before it at most.
Ahead(label) ==
  CASE label = "lookup" -> 5
    [] label = "txInsert" -> 4
    [] label \in {"claim", "read"} -> 3
    [] label \in {"insert", "replay", "commit", "list", "write", "remove"} -> 2
    [] label = "record" -> 1
    [] OTHER -> 0

(* And no handler goes back: whatever runs beside it, each step of a request    *)
(* brings it nearer to its answer.                                             *)
StatementsAdvance ==
  [][\A r \in Requests : pc[r] \in Waiting /\ pc'[r] # pc[r] =>
       pc'[r] \in Waiting \cup Ended /\ Ahead(pc'[r]) < Ahead(pc[r])]_vars

(* Every request that has reached the handler is answered or lost to a crash:  *)
(* a keyed create waiting for another's claim does not wait for ever.          *)
EveryRequestEnds == \A r \in Requests : pc[r] \in Waiting ~> pc[r] \in Ended

(* "When supplied, the update or delete only succeeds if the widget has not    *)
(* changed" (If-Match header of the API description, widgets.controller.ts).   *)
IfMatchGuardsWrite ==
  [][\A r \in wrote' \ wrote :
       call[r].op # "create" /\ call[r].ifMatch # None =>
         ETag(wid[r], widgets[wid[r]]) = call[r].ifMatch]_vars

(* "Reusing the same key with the same request body returns the original       *)
(* result" (Idempotency-Key header of the API description).                    *)
ReplayReturnsOriginal ==
  \A r, q \in Requests :
    Ok(r) /\ Ok(q) /\ SameKey(r, q) /\ call[r].body = call[q].body =>
      found[r] = found[q]

=============================================================================
