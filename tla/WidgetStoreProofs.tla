--------------------------- MODULE WidgetStoreProofs ---------------------------
(* Theorems about WidgetStore, for all values of its constants.            *)
EXTENDS WidgetStore, TLAPS

(* A patch applied to a row's columns gives a row's columns.               *)
LEMMA MergeType ==
  ASSUME NEW changes \in Patches, NEW content \in Contents
  PROVE  Merge(changes, content) \in Contents
<1>1. PICK D \in SUBSET Fields : changes \in [D -> Values]
  BY DEF Patches
<1>2. \A f \in Fields : (IF f \in DOMAIN changes THEN changes[f] ELSE content[f]) \in Values
  BY <1>1 DEF Contents
<1>3. QED  BY <1>2 DEF Merge, Contents

(* What the assumptions say of a call.                                     *)
LEMMA CallFacts ==
  ASSUME NEW c \in Calls
  PROVE  /\ c \in CallType
         /\ c.op \in {"create", "replace"} => c.body \in Contents \cup {Bad}
         /\ c # None
  BY CallsAssumption, NoneAssumption

(* What a call that is not refused on arrival looks like.                  *)
LEMMA Accepted ==
  ASSUME NEW c \in Calls, EarlyRefusal(c) = None
  PROVE  /\ ~Forbidden(c) /\ ~Malformed(c) /\ ~BadCreate(c)
         /\ c.op = "create" => c.body \in Contents /\ c.key \in Keys \cup {None}
         /\ c.op \in {"get", "replace", "patch", "delete"} => c.target \in WidgetIds
<1>1. 400 # None /\ 403 # None /\ 422 # None
  BY NoneAssumption
<1>2. ~Forbidden(c) /\ ~Malformed(c) /\ ~BadCreate(c)
  BY <1>1 DEF EarlyRefusal
<1>3. QED
  BY <1>2, CallFacts DEF Malformed, BadCreate, CallType

(* A refusal on arrival is an HTTP status.                                 *)
LEMMA RefusalType ==
  ASSUME NEW c \in Calls, EarlyRefusal(c) # None
  PROVE  EarlyRefusal(c) \in Statuses
  BY DEF EarlyRefusal, Statuses

(* The first statement of a handler is one its call is meant for.          *)
LEMMA FirstStatementType ==
  ASSUME NEW c \in Calls, EarlyRefusal(c) = None
  PROVE  \/ c.op = "create" /\ c.key \in Keys /\ FirstStatement(c) = "lookup"
         \/ c.op = "create" /\ c.key = None /\ FirstStatement(c) = "insert"
         \/ c.op = "list" /\ FirstStatement(c) = "list"
         \/ /\ c.op \in {"get", "replace", "patch", "delete"}
            /\ FirstStatement(c) = "read"
  BY Accepted, CallFacts, NoneAssumption DEF FirstStatement, Keyed, CallType, Ops

(* Types and control: TypeOK is not inductive alone, since what a handler  *)
(* holds is typed only by where it is in its sequence of statements.       *)
LEMMA InitControl == Init => TypeOK /\ ControlOK
<1>. SUFFICES ASSUME Init PROVE TypeOK /\ ControlOK
  OBVIOUS
<1>1. TypeOK
  BY DEF Init, TypeOK
<1>2. ControlOK
  BY DEF Init, ControlOK, Creating, Holding, Owning
<1>3. QED  BY <1>1, <1>2

(* Every step of a handler keeps the types and the facts the handler relies  *)
(* on from its earlier checks.                                               *)
LEMMA NextControl ==
  ASSUME TypeOK, ControlOK, [Next]_vars
  PROVE  TypeOK' /\ ControlOK'
<1>. USE DEF Goto, Reply, Hold, tables, Creating, Holding, Owning, Waiting, Ended
<1>1. ASSUME NEW r \in Requests, Arrive(r) PROVE TypeOK' /\ ControlOK'
  <2>1. PICK c \in Calls :
          /\ call' = [call EXCEPT ![r] = c]
          /\ IF EarlyRefusal(c) # None THEN Reply(r, EarlyRefusal(c))
                                       ELSE Goto(r, FirstStatement(c))
    BY <1>1 DEF Arrive
  <2>2. TypeOK'
    BY <1>1, <2>1, RefusalType, FirstStatementType DEF Arrive, TypeOK
  <2>3. ControlOK'
    BY <1>1, <2>1, Accepted, FirstStatementType DEF Arrive, TypeOK, ControlOK
  <2>4. QED  BY <2>2, <2>3
<1>2. ASSUME NEW r \in Requests, Insert(r) PROVE TypeOK' /\ ControlOK'
  <2>1. PICK w \in WidgetIds \ minted :
          /\ minted' = minted \cup {w}
          /\ widgets' = [widgets EXCEPT ![w] = NewRow(call[r])]
          /\ Hold(r, w, NewRow(call[r]), NewRow(call[r]).subject)
    BY <1>2 DEF Insert, FreshIds
  <2>2. NewRow(call[r]) \in Rows /\ NewRow(call[r]).subject \in Subjects
    BY <1>2, CallFacts DEF Insert, NewRow, Rows, ControlOK, CallType, TypeOK
  <2>3. TypeOK'
    BY <1>2, <2>1, <2>2 DEF Insert, TypeOK
  <2>4. ControlOK'
    BY <1>2, <2>1, <2>2, NoneAssumption DEF Insert, TypeOK, ControlOK
  <2>5. QED  BY <2>3, <2>4
<1>3. ASSUME NEW r \in Requests, Lookup(r) PROVE TypeOK' /\ ControlOK'
  <2>1. IdemKey(call[r]) \in Subjects \X Keys
    BY <1>3, CallFacts DEF Lookup, IdemKey, CallType, ControlOK
  <2>2. wid' \in [Requests -> WidgetIds \cup {None}]
    BY <1>3, <2>1, NoneAssumption DEF Lookup, TypeOK, IdemRows
  <2>3. TypeOK'
    BY <1>3, <2>2 DEF Lookup, TypeOK, Statuses
  <2>4. pc'[r] = "replay" => wid'[r] # None
    BY <1>3, <2>1, NoneAssumption DEF Lookup, TypeOK, IdemRows
  <2>5. ControlOK'
    BY <1>3, <2>4 DEF Lookup, TypeOK, ControlOK
  <2>6. QED  BY <2>3, <2>5
<1>4. ASSUME NEW r \in Requests, Replay(r) PROVE TypeOK' /\ ControlOK'
  <2>1. wid[r] \in WidgetIds
    BY <1>4 DEF Replay, TypeOK, ControlOK
  <2>2. widgets[wid[r]] # None =>
          widgets[wid[r]] \in Rows /\ widgets[wid[r]].subject \in Subjects
    BY <2>1 DEF TypeOK, Rows
  <2>3. TypeOK'
    BY <1>4, <2>1, <2>2 DEF Replay, TypeOK, Statuses
  <2>4. ControlOK'
    BY <1>4, <2>1, <2>2, NoneAssumption DEF Replay, TypeOK, ControlOK
  <2>5. QED  BY <2>3, <2>4
<1>5. ASSUME NEW r \in Requests, TxInsert(r) PROVE TypeOK' /\ ControlOK'
  <2>1. PICK w \in WidgetIds \ minted :
          /\ minted' = minted \cup {w}
          /\ Hold(r, w, NewRow(call[r]), NewRow(call[r]).subject)
    BY <1>5 DEF TxInsert, FreshIds
  <2>2. NewRow(call[r]) \in Rows /\ NewRow(call[r]).subject \in Subjects
    BY <1>5, CallFacts DEF TxInsert, NewRow, Rows, ControlOK, CallType, TypeOK
  <2>3. TypeOK'
    BY <1>5, <2>1, <2>2 DEF TxInsert, TypeOK
  <2>4. ControlOK'
    BY <1>5, <2>1, <2>2, NoneAssumption DEF TxInsert, TypeOK, ControlOK
  <2>5. QED  BY <2>3, <2>4
<1>6. ASSUME NEW r \in Requests, Claim(r) PROVE TypeOK' /\ ControlOK'
  <2>1. TypeOK'
    BY <1>6 DEF Claim, TypeOK, Statuses
  <2>2. ControlOK'
    BY <1>6 DEF Claim, TypeOK, ControlOK
  <2>3. QED  BY <2>1, <2>2
<1>7. ASSUME NEW r \in Requests, Commit(r) PROVE TypeOK' /\ ControlOK'
  <2>1. PICK p \in found[r] :
          /\ widgets' = [widgets EXCEPT ![p[1]] = p[2]]
          /\ idem' = [idem EXCEPT ![IdemKey(call[r])] =
                        [hash |-> call[r].body, widget |-> p[1]]]
    BY <1>7 DEF Commit
  <2>2. p[1] \in WidgetIds /\ p[2] \in Rows
    BY <2>1 DEF TypeOK
  <2>3. [hash |-> call[r].body, widget |-> p[1]] \in IdemRows
    BY <1>7, <2>2 DEF Commit, ControlOK, IdemRows
  <2>4. widgets' \in [WidgetIds -> Rows \cup {None}]
    BY <2>1, <2>2 DEF TypeOK
  <2>5. idem' \in [Subjects \X Keys -> IdemRows \cup {None}]
    BY <2>1, <2>3 DEF TypeOK
  <2>6. TypeOK'
    BY <1>7, <2>4, <2>5 DEF Commit, TypeOK
  <2>7. ControlOK'
    BY <1>7 DEF Commit, TypeOK, ControlOK
  <2>8. QED  BY <2>6, <2>7
<1>8. ASSUME NEW r \in Requests, List(r) PROVE TypeOK' /\ ControlOK'
  <2>1. PICK page \in SUBSET {w \in WidgetIds : VisibleTo(w, call[r].subject)} :
          found' = [found EXCEPT ![r] = {<<w, widgets[w]>> : w \in page}]
    BY <1>8 DEF List
  <2>2. {<<w, widgets[w]>> : w \in page} \subseteq WidgetIds \X Rows
    BY <2>1 DEF VisibleTo, TypeOK
  <2>3. call[r].subject \in Subjects
    BY <1>8, CallFacts DEF List, ControlOK, CallType
  <2>4. TypeOK'
    BY <1>8, <2>1, <2>2, <2>3 DEF List, TypeOK
  <2>5. ControlOK'
    BY <1>8, <2>1, <2>3, NoneAssumption DEF List, TypeOK, ControlOK
  <2>6. QED  BY <2>4, <2>5
<1>9. ASSUME NEW r \in Requests, Read(r) PROVE TypeOK' /\ ControlOK'
  <2>1. /\ call[r] \in CallType /\ call[r].target \in WidgetIds
        /\ call[r].op \in {"get", "replace", "patch", "delete"}
    BY <1>9, CallFacts DEF Read, ControlOK
  <2>2. VisibleTo(call[r].target, call[r].subject) =>
          /\ widgets[call[r].target] \in Rows
          /\ widgets[call[r].target].subject \in Subjects
    BY <2>1 DEF VisibleTo, TypeOK, Rows
  <2>3. TypeOK'
    <3>1. /\ wid' \in [Requests -> WidgetIds \cup {None}]
          /\ owner' \in [Requests -> Subjects \cup {None}]
          /\ stamp' \in [Requests -> Nat]
      BY <1>9, <2>1, <2>2 DEF Read, TypeOK
    <3>2. found' \in [Requests -> SUBSET (WidgetIds \X Rows)]
      BY <1>9, <2>1, <2>2 DEF Read, TypeOK
    <3>3. /\ pc' \in [Requests -> {"idle"} \cup Waiting \cup Ended]
          /\ answer' \in [Requests -> Statuses \cup {None}]
      BY <1>9 DEF Read, TypeOK, Statuses
    <3>4. QED  BY <1>9, <3>1, <3>2, <3>3 DEF Read, TypeOK
  <2>4. Update(call[r]) /\ ~BadUpdate(call[r]) => call[r].body \in Patches
    BY <2>1 DEF BadUpdate, CallType
  <2>5. ControlOK'
    BY <1>9, <2>1, <2>2, <2>4, NoneAssumption DEF Read, TypeOK, ControlOK, Update
  <2>6. QED  BY <2>3, <2>5
<1>10. ASSUME NEW r \in Requests, Write(r) PROVE TypeOK' /\ ControlOK'
  <2>1. wid[r] \in WidgetIds /\ call[r] \in CallType /\ call[r].body \in Patches
    BY <1>10, CallFacts DEF Write, TypeOK, ControlOK
  <2>2. ASSUME widgets[wid[r]] # None
        PROVE  UpdatedRow(call[r], BaseRow(r), stamp[r]) \in Rows
    <3>1. BaseRow(r) \in Rows
      BY <2>1, <2>2 DEF TypeOK, BaseRow
    <3>2. Merge(call[r].body, BaseRow(r).content) \in Contents
      BY <2>1, <3>1, MergeType DEF Rows
    <3>3. StoredSubject(call[r], BaseRow(r)) \in Subjects
      BY <2>1, <3>1 DEF StoredSubject, CallType, Rows
    <3>4. QED  BY <3>2, <3>3 DEF UpdatedRow, Rows, TypeOK
  <2>3. TypeOK'
    BY <1>10, <2>1, <2>2 DEF Write, TypeOK, Statuses
  <2>4. ControlOK'
    BY <1>10 DEF Write, TypeOK, ControlOK
  <2>5. QED  BY <2>3, <2>4
<1>11. ASSUME NEW r \in Requests, Remove(r) PROVE TypeOK' /\ ControlOK'
  <2>1. WithoutWidget(wid[r]) \in [Subjects \X Keys -> IdemRows \cup {None}]
    BY DEF WithoutWidget, TypeOK
  <2>2. TypeOK'
    BY <1>11, <2>1 DEF Remove, TypeOK, Statuses
  <2>3. ControlOK'
    BY <1>11 DEF Remove, TypeOK, ControlOK
  <2>4. QED  BY <2>2, <2>3
<1>12. ASSUME NEW r \in Requests, Record(r) PROVE TypeOK' /\ ControlOK'
  <2>1. call[r] \in CallType /\ call[r] \in Calls
    BY <1>12, CallFacts DEF Record, ControlOK
  <2>2. Success(call[r]) \in Statuses
    BY DEF Success, Statuses
  <2>3. AccessEvent(r) \in Events
    BY <1>12, <2>1 DEF Record, AccessEvent, Events, TypeOK, ControlOK, CallType
  <2>4. events' \subseteq Events
    BY <1>12, <2>3 DEF Record, TypeOK
  <2>5. TypeOK'
    BY <1>12, <2>2, <2>4 DEF Record, TypeOK, Statuses
  <2>6. ControlOK'
    BY <1>12 DEF Record, TypeOK, ControlOK
  <2>7. QED  BY <2>5, <2>6
<1>13. ASSUME NEW r \in Requests, Fail(r) PROVE TypeOK' /\ ControlOK'
  <2>1. TypeOK'
    BY <1>13 DEF Fail, TypeOK, Statuses
  <2>2. ControlOK'
    BY <1>13 DEF Fail, TypeOK, ControlOK
  <2>3. QED  BY <2>1, <2>2
<1>14. CASE Crash
  <2>1. TypeOK'
    BY <1>14 DEF Crash, TypeOK
  <2>2. ControlOK'
    BY <1>14 DEF Crash, TypeOK, ControlOK
  <2>3. QED  BY <2>1, <2>2
<1>15. CASE Tick
  <2>1. TypeOK'
    BY <1>15 DEF Tick, TypeOK
  <2>2. ControlOK'
    BY <1>15 DEF Tick, ControlOK
  <2>3. QED  BY <2>1, <2>2
<1>16. CASE UNCHANGED vars
  BY <1>16 DEF vars, TypeOK, ControlOK
<1>17. QED
  BY <1>1, <1>2, <1>3, <1>4, <1>5, <1>6, <1>7, <1>8, <1>9, <1>10, <1>11, <1>12,
     <1>13, <1>14, <1>15, <1>16
  DEF Next, Serve, Done

(* The state of every instance is well-typed in every reachable state.       *)
THEOREM TypeCorrect == Spec => []TypeOK
<1>1. Spec => [](TypeOK /\ ControlOK)
  BY InitControl, NextControl, PTL DEF Spec
<1>2. QED  BY <1>1, PTL

-----------------------------------------------------------------------------
(* Ownership.  The initial tables are empty.                                 *)
LEMMA InitOwnership == Init => OwnershipInv
  BY NoneAssumption DEF Init, OwnershipInv, IdsMinted, HeldRowsOwned, TargetsOwned,
     OpenRowsPrivate, ClaimsExclusive, CreationsNamed, KeyNamesOwnLiveWidget

(* Every step keeps the ownership invariant, part by part.                   *)
LEMMA NextOwnership ==
  ASSUME TypeOK, ControlOK, OwnershipInv, [Next]_vars
  PROVE  OwnershipInv'
<1>. USE NoneAssumption DEF Goto, Reply, Hold, tables, Creating, Holding, Owning, Waiting, Ended
<1>1. ASSUME NEW r \in Requests, Arrive(r) PROVE OwnershipInv'
  <2>1. PICK c \in Calls :
        /\ call' = [call EXCEPT ![r] = c]
        /\ IF EarlyRefusal(c) # None THEN Reply(r, EarlyRefusal(c))
                                     ELSE Goto(r, FirstStatement(c))
    BY <1>1 DEF Arrive
  <2>2. /\ pc' = [pc EXCEPT ![r] = pc'[r]]
        /\ pc'[r] \in {"answered", "insert", "lookup", "list", "read"}
    BY <2>1, FirstStatementType DEF TypeOK
  <2>4. IdsMinted'
    BY <1>1, <2>1 DEF Arrive, IdsMinted, OwnershipInv
  <2>5. HeldRowsOwned'
    BY <1>1 DEF Arrive, HeldRowsOwned, OwnershipInv, ControlOK
  <2>6. TargetsOwned'
    BY <1>1, <2>2 DEF Arrive, TargetsOwned, OwnershipInv, TypeOK, ControlOK
  <2>7. OpenRowsPrivate'
    BY <1>1, <2>2 DEF Arrive, OpenRowsPrivate, OwnershipInv, TypeOK
  <2>8. ClaimsExclusive'
    BY <1>1, <2>2 DEF Arrive, ClaimsExclusive, OwnershipInv, TypeOK
  <2>9. CreationsNamed'
    BY <1>1, <2>2 DEF Arrive, CreationsNamed, OwnershipInv, TypeOK
  <2>10. KeyNamesOwnLiveWidget'
    BY <1>1 DEF Arrive, KeyNamesOwnLiveWidget, OwnershipInv, TypeOK
  <2>11. QED  BY <2>4, <2>5, <2>6, <2>7, <2>8, <2>9, <2>10 DEF OwnershipInv
<1>2. ASSUME NEW r \in Requests, Insert(r) PROVE OwnershipInv'
  <2>1. PICK w \in WidgetIds \ minted :
        /\ minted' = minted \cup {w}
        /\ widgets' = [widgets EXCEPT ![w] = NewRow(call[r])]
        /\ Hold(r, w, NewRow(call[r]), NewRow(call[r]).subject)
    BY <1>2 DEF Insert, FreshIds
  <2>2. /\ widgets[w] = None
        /\ \A q \in Requests : wid[q] # w
        /\ \A k \in Subjects \X Keys : idem[k] # None => idem[k].widget # w
    BY <2>1 DEF OwnershipInv, IdsMinted, KeyNamesOwnLiveWidget, TypeOK
  <2>3. NewRow(call[r]).subject = call[r].subject /\ NewRow(call[r]) # None
    BY <1>2, CallFacts DEF Insert, ControlOK, NewRow, CallType, Rows, TypeOK
  <2>4. IdsMinted'
    BY <1>2 DEF Insert, IdsMinted, OwnershipInv
  <2>5. HeldRowsOwned'
    BY <1>2, <2>3 DEF Insert, HeldRowsOwned, OwnershipInv
  <2>6. TargetsOwned'
    BY <1>2, <2>1, <2>2, <2>3 DEF Insert, TargetsOwned, OwnershipInv
  <2>7. OpenRowsPrivate'
    BY <1>2, <2>1, <2>2 DEF Insert, OpenRowsPrivate, OwnershipInv
  <2>8. ClaimsExclusive'
    BY <1>2, <2>1, <2>2 DEF Insert, ClaimsExclusive, OwnershipInv
  <2>9. CreationsNamed'
    BY <1>2, <2>1, <2>2
    DEF Insert, CreationsNamed, OwnershipInv, TypeOK, ControlOK, Keyed
  <2>10. KeyNamesOwnLiveWidget'
    BY <1>2, <2>1, <2>2
    DEF Insert, KeyNamesOwnLiveWidget, OwnershipInv, TypeOK, ControlOK
  <2>11. QED  BY <2>4, <2>5, <2>6, <2>7, <2>8, <2>9, <2>10 DEF OwnershipInv
<1>3. ASSUME NEW r \in Requests, Lookup(r) PROVE OwnershipInv'
  <2>1. /\ call[r] \in CallType /\ call[r].key \in Keys
        /\ IdemKey(call[r]) \in Subjects \X Keys
    BY <1>3, CallFacts DEF Lookup, IdemKey, CallType, ControlOK
  <2>2. LET w == idem[IdemKey(call[r])].widget IN
        idem[IdemKey(call[r])] # None =>
          /\ w \in WidgetIds /\ w \in minted
          /\ widgets[w] # None
          /\ widgets[w].subject = call[r].subject
    BY <2>1
    DEF OwnershipInv, KeyNamesOwnLiveWidget, IdsMinted, IdemKey, TypeOK, IdemRows
  <2>4. IdsMinted'
    BY <1>3, <2>1, <2>2 DEF Lookup, IdsMinted, OwnershipInv, TypeOK
  <2>5. HeldRowsOwned'
    BY <1>3, <2>2 DEF Lookup, HeldRowsOwned, OwnershipInv, TypeOK
  <2>6. TargetsOwned'
    BY <1>3, <2>2 DEF Lookup, TargetsOwned, OwnershipInv, TypeOK
  <2>7. OpenRowsPrivate'
    BY <1>3, <2>2 DEF Lookup, OpenRowsPrivate, OwnershipInv, TypeOK
  <2>8. ClaimsExclusive'
    BY <1>3, <2>2 DEF Lookup, ClaimsExclusive, OwnershipInv, TypeOK
  <2>9. CreationsNamed'
    BY <1>3 DEF Lookup, CreationsNamed, OwnershipInv, TypeOK
  <2>10. KeyNamesOwnLiveWidget'
    BY <1>3 DEF Lookup, KeyNamesOwnLiveWidget, OwnershipInv, TypeOK
  <2>11. QED  BY <2>4, <2>5, <2>6, <2>7, <2>8, <2>9, <2>10 DEF OwnershipInv
<1>4. ASSUME NEW r \in Requests, Replay(r) PROVE OwnershipInv'
  <2>2. widgets[wid[r]] # None => widgets[wid[r]].subject = call[r].subject
    BY <1>4 DEF Replay, OwnershipInv, TargetsOwned
  <2>3. IdsMinted'
    BY <1>4 DEF Replay, IdsMinted, OwnershipInv, TypeOK
  <2>4. HeldRowsOwned'
    BY <1>4, <2>2 DEF Replay, HeldRowsOwned, OwnershipInv, TypeOK
  <2>5. TargetsOwned'
    BY <1>4, <2>2 DEF Replay, TargetsOwned, OwnershipInv, TypeOK
  <2>6. OpenRowsPrivate'
    BY <1>4 DEF Replay, OpenRowsPrivate, OwnershipInv, TypeOK
  <2>7. ClaimsExclusive'
    BY <1>4 DEF Replay, ClaimsExclusive, OwnershipInv, TypeOK
  <2>8. CreationsNamed'
    BY <1>4 DEF Replay, CreationsNamed, OwnershipInv, TypeOK
  <2>9. KeyNamesOwnLiveWidget'
    BY <1>4 DEF Replay, KeyNamesOwnLiveWidget, OwnershipInv, TypeOK
  <2>10. QED  BY <2>3, <2>4, <2>5, <2>6, <2>7, <2>8, <2>9 DEF OwnershipInv
<1>5. ASSUME NEW r \in Requests, TxInsert(r) PROVE OwnershipInv'
  <2>1. PICK w \in WidgetIds \ minted :
        /\ minted' = minted \cup {w}
        /\ Hold(r, w, NewRow(call[r]), NewRow(call[r]).subject)
    BY <1>5 DEF TxInsert, FreshIds
  <2>2. /\ widgets[w] = None
        /\ \A q \in Requests : wid[q] # w
    BY <2>1 DEF OwnershipInv, IdsMinted, TypeOK
  <2>3. NewRow(call[r]).subject = call[r].subject /\ r \notin wrote
    BY <1>5 DEF TxInsert, NewRow, OwnershipInv, CreationsNamed
  <2>4. IdsMinted'
    BY <1>5 DEF TxInsert, IdsMinted, OwnershipInv
  <2>5. HeldRowsOwned'
    BY <1>5, <2>3 DEF TxInsert, HeldRowsOwned, OwnershipInv
  <2>6. TargetsOwned'
    BY <1>5, <2>3 DEF TxInsert, TargetsOwned, OwnershipInv
  <2>7. OpenRowsPrivate'
    BY <1>5, <2>1, <2>2 DEF TxInsert, OpenRowsPrivate, OwnershipInv, TypeOK
  <2>8. ClaimsExclusive'
    BY <1>5, <2>1, <2>2 DEF TxInsert, ClaimsExclusive, OwnershipInv, TypeOK
  <2>9. CreationsNamed'
    BY <1>5 DEF TxInsert, CreationsNamed, OwnershipInv
  <2>10. KeyNamesOwnLiveWidget'
    BY <1>5 DEF TxInsert, KeyNamesOwnLiveWidget, OwnershipInv
  <2>11. QED  BY <2>4, <2>5, <2>6, <2>7, <2>8, <2>9, <2>10 DEF OwnershipInv
<1>6. ASSUME NEW r \in Requests, Claim(r) PROVE OwnershipInv'
  <2>2. IdsMinted'
    BY <1>6 DEF Claim, IdsMinted, OwnershipInv
  <2>3. HeldRowsOwned'
    BY <1>6 DEF Claim, HeldRowsOwned, OwnershipInv
  <2>4. TargetsOwned'
    BY <1>6 DEF Claim, TargetsOwned, OwnershipInv, TypeOK
  <2>5. OpenRowsPrivate'
    BY <1>6 DEF Claim, OpenRowsPrivate, OwnershipInv, TypeOK
  <2>6. ClaimsExclusive'
    BY <1>6 DEF Claim, ClaimsExclusive, OwnershipInv, TypeOK, ClaimHeld, KeyTaken
  <2>7. CreationsNamed'
    BY <1>6 DEF Claim, CreationsNamed, OwnershipInv, TypeOK
  <2>8. KeyNamesOwnLiveWidget'
    BY <1>6 DEF Claim, KeyNamesOwnLiveWidget, OwnershipInv, TypeOK
  <2>9. QED  BY <2>2, <2>3, <2>4, <2>5, <2>6, <2>7, <2>8 DEF OwnershipInv
<1>7. ASSUME NEW r \in Requests, Commit(r) PROVE OwnershipInv'
  <2>1. PICK p \in found[r] :
        /\ widgets' = [widgets EXCEPT ![p[1]] = p[2]]
        /\ idem' = [idem EXCEPT ![IdemKey(call[r])] =
                      [hash |-> call[r].body, widget |-> p[1]]]
    BY <1>7 DEF Commit
  <2>2. /\ p[1] = wid[r] /\ p[1] \in WidgetIds /\ p[1] \in minted
        /\ p[2] \in Rows /\ p[2] # None /\ p[2].subject = call[r].subject
        /\ widgets[wid[r]] = None
    BY <1>7
    DEF Commit, TypeOK, OwnershipInv, OpenRowsPrivate, HeldRowsOwned, IdsMinted
  <2>3. /\ r \notin wrote /\ \A q \in Requests \ {r} : wid[q] # wid[r]
        /\ call[r].op = "create" /\ call[r].key \in Keys /\ call[r] \in CallType
    BY <1>7, CallFacts
    DEF Commit, OwnershipInv, OpenRowsPrivate, CreationsNamed, ControlOK
  <2>4. /\ IdemKey(call[r]) \in Subjects \X Keys
        /\ IdemKey(call[r])[1] = call[r].subject
    BY <2>3 DEF IdemKey, CallType
  <2>5. idem[IdemKey(call[r])] = None
    BY <1>7 DEF Commit, OwnershipInv, ClaimsExclusive
  <2>7. \A q \in wrote : /\ q \in Requests /\ call[q] \in CallType
                         /\ call[q].op = "create" /\ Keyed(call[q]) =>
                              IdemKey(call[q]) \in Subjects \X Keys
    BY CallFacts
    DEF TypeOK, ControlOK, OwnershipInv, CreationsNamed, Keyed, IdemKey, CallType
  <2>8. IdsMinted'
    BY <1>7, <2>1, <2>2 DEF Commit, IdsMinted, OwnershipInv
  <2>9. HeldRowsOwned'
    BY <1>7, <2>1, <2>2 DEF Commit, HeldRowsOwned, OwnershipInv
  <2>10. TargetsOwned'
    BY <1>7 DEF Commit, TargetsOwned, OwnershipInv, OpenRowsPrivate
  <2>11. OpenRowsPrivate'
    BY <1>7 DEF Commit, OpenRowsPrivate, OwnershipInv, TypeOK
  <2>12. ClaimsExclusive'
    BY <1>7 DEF Commit, ClaimsExclusive, OwnershipInv, TypeOK
  <2>13. CreationsNamed'
    <3>1. /\ UNCHANGED <<call, wid>> /\ wrote' = wrote \cup {r}
          /\ pc' = [pc EXCEPT ![r] = "record"]
      BY <1>7 DEF Commit
    <3>2. /\ idem'[IdemKey(call[r])] = [hash |-> call[r].body, widget |-> wid[r]]
          /\ [hash |-> call[r].body, widget |-> wid[r]] \in IdemRows
      BY <1>7, <2>1, <2>2, <2>4 DEF TypeOK, ControlOK, Commit, IdemRows
    <3>3. ASSUME NEW q \in wrote, call[q].op = "create", Keyed(call[q]),
                 widgets'[wid[q]] # None
          PROVE  /\ idem'[IdemKey(call[q])] # None
                 /\ idem'[IdemKey(call[q])].widget = wid[q]
      <4>1. widgets[wid[q]] # None
        BY <2>1, <2>2, <2>3, <2>7, <3>3 DEF TypeOK
      <4>2. /\ idem[IdemKey(call[q])] # None
            /\ idem[IdemKey(call[q])].widget = wid[q]
        BY <3>3, <4>1 DEF OwnershipInv, CreationsNamed
      <4>3. QED  BY <2>1, <2>4, <2>5, <2>7, <3>3, <4>2 DEF TypeOK
    <3>4. \A q \in wrote' \ {r} : call[q].op = "create" => wid[q] # wid[r]
      BY <2>3, <2>7, <3>1
    <3>5. ASSUME NEW q \in wrote
          PROVE  /\ pc'[q] \in {"record", "answered", "lost"}
                 /\ call[q].op = "create" =>
                      /\ wid[q] # None /\ call[q].key \in Keys \cup {None}
                      /\ \A t \in wrote' \ {q} : call[t].op = "create" => wid[t] # wid[q]
      BY <2>3, <2>7, <3>1 DEF OwnershipInv, CreationsNamed, TypeOK
    <3>6. QED
      BY <2>2, <2>3, <3>1, <3>2, <3>3, <3>4, <3>5 DEF CreationsNamed, TypeOK
  <2>14. KeyNamesOwnLiveWidget'
    BY <1>7, <2>1, <2>2, <2>4
    DEF Commit, KeyNamesOwnLiveWidget, OwnershipInv, TypeOK
  <2>15. QED  BY <2>8, <2>9, <2>10, <2>11, <2>12, <2>13, <2>14 DEF OwnershipInv
<1>8. ASSUME NEW r \in Requests, List(r) PROVE OwnershipInv'
  <2>1. PICK page \in SUBSET {w \in WidgetIds : VisibleTo(w, call[r].subject)} :
        found' = [found EXCEPT ![r] = {<<w, widgets[w]>> : w \in page}]
    BY <1>8 DEF List
  <2>2. \A p \in found'[r] : p[2].subject = call[r].subject
    BY <2>1 DEF VisibleTo, TypeOK
  <2>3. IdsMinted'
    BY <1>8 DEF List, IdsMinted, OwnershipInv
  <2>4. HeldRowsOwned'
    BY <1>8, <2>2 DEF List, HeldRowsOwned, OwnershipInv
  <2>5. TargetsOwned'
    BY <1>8, <2>2 DEF List, TargetsOwned, OwnershipInv
  <2>6. OpenRowsPrivate'
    BY <1>8 DEF List, OpenRowsPrivate, OwnershipInv
  <2>7. ClaimsExclusive'
    BY <1>8 DEF List, ClaimsExclusive, OwnershipInv
  <2>8. CreationsNamed'
    BY <1>8 DEF List, CreationsNamed, OwnershipInv
  <2>9. KeyNamesOwnLiveWidget'
    BY <1>8 DEF List, KeyNamesOwnLiveWidget, OwnershipInv
  <2>10. QED  BY <2>3, <2>4, <2>5, <2>6, <2>7, <2>8, <2>9 DEF OwnershipInv
<1>9. ASSUME NEW r \in Requests, Read(r) PROVE OwnershipInv'
  <2>1. /\ call[r] \in CallType /\ call[r].target \in WidgetIds
        /\ call[r].op \in {"get", "replace", "patch", "delete"}
        /\ r \notin wrote
    BY <1>9, CallFacts DEF Read, ControlOK, OwnershipInv, CreationsNamed
  <2>3. VisibleTo(call[r].target, call[r].subject) =>
        /\ widgets[call[r].target] # None
        /\ widgets[call[r].target].subject = call[r].subject
        /\ call[r].target \in minted
    BY <2>1 DEF VisibleTo, OwnershipInv, IdsMinted
  <2>4. IdsMinted'
    BY <1>9, <2>3 DEF Read, IdsMinted, OwnershipInv, TypeOK
  <2>5. HeldRowsOwned'
    BY <1>9, <2>3 DEF Read, HeldRowsOwned, OwnershipInv, TypeOK
  <2>6. TargetsOwned'
    BY <1>9, <2>3 DEF Read, TargetsOwned, OwnershipInv, TypeOK
  <2>7. OpenRowsPrivate'
    BY <1>9, <2>3 DEF Read, OpenRowsPrivate, OwnershipInv, TypeOK
  <2>8. ClaimsExclusive'
    BY <1>9, <2>3 DEF Read, ClaimsExclusive, OwnershipInv, TypeOK
  <2>9. CreationsNamed'
    BY <1>9 DEF Read, CreationsNamed, OwnershipInv, TypeOK
  <2>10. KeyNamesOwnLiveWidget'
    BY <1>9 DEF Read, KeyNamesOwnLiveWidget, OwnershipInv, TypeOK
  <2>11. QED  BY <2>4, <2>5, <2>6, <2>7, <2>8, <2>9, <2>10 DEF OwnershipInv
<1>10. ASSUME NEW r \in Requests, Write(r) PROVE OwnershipInv'
  <2>1. /\ wid[r] \in WidgetIds /\ r \notin wrote /\ call[r].op # "create"
        /\ widgets[wid[r]] # None => widgets[wid[r]].subject = call[r].subject
    BY <1>10
    DEF Write, TypeOK, ControlOK, Update, OwnershipInv, TargetsOwned, CreationsNamed
  <2>2. \/ UNCHANGED <<widgets, found, wrote>> /\ pc' = [pc EXCEPT ![r] = "answered"]
        \/ \E row :
             /\ widgets[wid[r]] # None
             /\ row # None /\ row.subject = call[r].subject
             /\ widgets' = [widgets EXCEPT ![wid[r]] = row]
             /\ found' = [found EXCEPT ![r] = {<<wid[r], row>>}]
             /\ wrote' = wrote \cup {r}
             /\ pc' = [pc EXCEPT ![r] = "record"]
    <3>1. CASE widgets[wid[r]] = None
      BY <1>10, <3>1 DEF Write
    <3>2. CASE widgets[wid[r]] # None
      <4>1. BaseRow(r) \in Rows /\ call[r] \in CallType /\ call[r].body \in Patches
        BY <1>10, <2>1, <3>2, CallFacts DEF BaseRow, TypeOK, ControlOK, Write
      <4>2. Merge(call[r].body, BaseRow(r).content) \in Contents
        BY <4>1, MergeType DEF Rows
      <4>3. StoredSubject(call[r], BaseRow(r)) = call[r].subject
        BY <2>1, <3>2 DEF StoredSubject, BaseRow
      <4>4. /\ UpdatedRow(call[r], BaseRow(r), stamp[r]) \in Rows
            /\ UpdatedRow(call[r], BaseRow(r), stamp[r]).subject = call[r].subject
        BY <4>1, <4>2, <4>3 DEF UpdatedRow, Rows, TypeOK, CallType
      <4>5. QED  BY <1>10, <3>2, <4>4 DEF Write
    <3>3. QED  BY <3>1, <3>2
  <2>3. IdsMinted'
    BY <1>10 DEF Write, IdsMinted, OwnershipInv, TypeOK
  <2>4. HeldRowsOwned'
    BY <1>10, <2>2 DEF Write, HeldRowsOwned, OwnershipInv, TypeOK
  <2>5. TargetsOwned'
    BY <1>10, <2>2 DEF Write, TargetsOwned, OwnershipInv, TypeOK, ControlOK
  <2>6. OpenRowsPrivate'
    BY <1>10, <2>2 DEF Write, OpenRowsPrivate, OwnershipInv, TypeOK, ControlOK
  <2>7. ClaimsExclusive'
    BY <1>10 DEF Write, ClaimsExclusive, OwnershipInv, TypeOK, ControlOK
  <2>8. CreationsNamed'
    BY <1>10, <2>1 DEF Write, CreationsNamed, OwnershipInv, TypeOK
  <2>9. KeyNamesOwnLiveWidget'
    <3>1. UNCHANGED idem
      BY <1>10 DEF Write
    <3>2. \A w \in WidgetIds : widgets[w] # None =>
            widgets'[w] # None /\ widgets'[w].subject = widgets[w].subject
      BY <2>1, <2>2 DEF TypeOK
    <3>3. \A k \in Subjects \X Keys : idem[k] # None => idem[k].widget \in WidgetIds
      BY DEF TypeOK, IdemRows
    <3>4. QED  BY <3>1, <3>2, <3>3 DEF KeyNamesOwnLiveWidget, OwnershipInv
  <2>10. QED  BY <2>3, <2>4, <2>5, <2>6, <2>7, <2>8, <2>9 DEF OwnershipInv
<1>11. ASSUME NEW r \in Requests, Remove(r) PROVE OwnershipInv'
  <2>1. wid[r] \in WidgetIds /\ r \notin wrote /\ call[r].op # "create"
    BY <1>11 DEF Remove, TypeOK, ControlOK, OwnershipInv, CreationsNamed
  <2>2. \A k \in Subjects \X Keys :
        WithoutWidget(wid[r])[k] =
          IF idem[k] # None /\ idem[k].widget = wid[r] THEN None ELSE idem[k]
    BY DEF WithoutWidget
  <2>3. \A q \in Requests : pc[q] \in Creating \ {"insert"} => IdemKey(call[q]) \in Subjects \X Keys
    BY CallFacts DEF ControlOK, IdemKey, CallType
  <2>4. \A q \in wrote : /\ q \in Requests /\ call[q] \in CallType
                         /\ call[q].op = "create" /\ Keyed(call[q]) =>
                              IdemKey(call[q]) \in Subjects \X Keys
    BY CallFacts
    DEF TypeOK, ControlOK, OwnershipInv, CreationsNamed, Keyed, IdemKey, CallType
  <2>5. /\ UNCHANGED <<call, wid>>
        /\ \/ UNCHANGED <<widgets, idem, wrote>>
           \/ /\ widgets[wid[r]] # None
              /\ widgets' = [widgets EXCEPT ![wid[r]] = None]
              /\ idem' = WithoutWidget(wid[r])
              /\ wrote' = wrote \cup {r}
        /\ pc' = [pc EXCEPT ![r] = pc'[r]]
        /\ pc'[r] \in {"answered", "record"}
    BY <1>11 DEF Remove, TypeOK
  <2>6. IdsMinted'
    BY <1>11, <2>1 DEF Remove, IdsMinted, OwnershipInv, TypeOK
  <2>7. HeldRowsOwned'
    BY <1>11 DEF Remove, HeldRowsOwned, OwnershipInv, TypeOK
  <2>8. TargetsOwned'
    BY <1>11 DEF Remove, TargetsOwned, OwnershipInv, TypeOK, ControlOK
  <2>9. OpenRowsPrivate'
    BY <1>11 DEF Remove, OpenRowsPrivate, OwnershipInv, TypeOK, ControlOK
  <2>10. ClaimsExclusive'
    BY <1>11, <2>2, <2>3
    DEF Remove, ClaimsExclusive, OwnershipInv, TypeOK, ControlOK
  <2>11. CreationsNamed'
    <3>1. ASSUME NEW q \in wrote, call[q].op = "create", Keyed(call[q]),
                 widgets'[wid[q]] # None
          PROVE  /\ idem'[IdemKey(call[q])] # None
                 /\ idem'[IdemKey(call[q])].widget = wid[q]
      <4>. wid[q] \in WidgetIds
        BY <2>4, <3>1 DEF TypeOK, OwnershipInv, CreationsNamed
      <4>1. widgets[wid[q]] # None /\ (wid[q] = wid[r] => UNCHANGED <<widgets, idem>>)
        BY <2>1, <2>4, <2>5, <3>1 DEF TypeOK
      <4>2. /\ idem[IdemKey(call[q])] # None
            /\ idem[IdemKey(call[q])].widget = wid[q]
        BY <3>1, <4>1 DEF OwnershipInv, CreationsNamed
      <4>3. QED  BY <2>2, <2>4, <2>5, <3>1, <4>1, <4>2
    <3>2. ASSUME NEW q \in wrote
          PROVE  /\ pc'[q] \in {"record", "answered", "lost"}
                 /\ call[q].op = "create" =>
                      /\ wid[q] # None /\ call[q].key \in Keys \cup {None}
                      /\ \A t \in wrote' \ {q} : call[t].op = "create" => wid[t] # wid[q]
      BY <2>1, <2>4, <2>5 DEF OwnershipInv, CreationsNamed, TypeOK
    <3>3. r \in wrote' => pc'[r] = "record"
      BY <1>11, <2>1 DEF Remove, TypeOK
    <3>4. QED
      BY <2>1, <2>5, <3>1, <3>2, <3>3 DEF CreationsNamed
  <2>12. KeyNamesOwnLiveWidget'
    <3>1. ASSUME NEW k \in Subjects \X Keys, idem'[k] # None
          PROVE  /\ idem'[k] = idem[k] /\ idem[k] # None
                 /\ widgets'[idem[k].widget] = widgets[idem[k].widget]
      BY <2>2, <2>5, <3>1 DEF TypeOK, IdemRows
    <3>2. QED  BY <3>1 DEF KeyNamesOwnLiveWidget, OwnershipInv
  <2>13. QED  BY <2>6, <2>7, <2>8, <2>9, <2>10, <2>11, <2>12 DEF OwnershipInv
<1>12. ASSUME NEW r \in Requests, Record(r) PROVE OwnershipInv'
  <2>1. IdsMinted'
    BY <1>12 DEF Record, IdsMinted, OwnershipInv
  <2>2. HeldRowsOwned'
    BY <1>12 DEF Record, HeldRowsOwned, OwnershipInv
  <2>3. TargetsOwned'
    BY <1>12 DEF Record, TargetsOwned, OwnershipInv, TypeOK
  <2>4. OpenRowsPrivate'
    BY <1>12 DEF Record, OpenRowsPrivate, OwnershipInv, TypeOK
  <2>5. ClaimsExclusive'
    BY <1>12 DEF Record, ClaimsExclusive, OwnershipInv, TypeOK
  <2>6. CreationsNamed'
    BY <1>12 DEF Record, CreationsNamed, OwnershipInv, TypeOK
  <2>7. KeyNamesOwnLiveWidget'
    BY <1>12 DEF Record, KeyNamesOwnLiveWidget, OwnershipInv, TypeOK
  <2>8. QED  BY <2>1, <2>2, <2>3, <2>4, <2>5, <2>6, <2>7 DEF OwnershipInv
<1>13. ASSUME NEW r \in Requests, Fail(r) PROVE OwnershipInv'
  <2>1. IdsMinted'
    BY <1>13 DEF Fail, IdsMinted, OwnershipInv
  <2>2. HeldRowsOwned'
    BY <1>13 DEF Fail, HeldRowsOwned, OwnershipInv
  <2>3. TargetsOwned'
    BY <1>13 DEF Fail, TargetsOwned, OwnershipInv
  <2>4. OpenRowsPrivate'
    BY <1>13 DEF Fail, OpenRowsPrivate, OwnershipInv
  <2>5. ClaimsExclusive'
    BY <1>13 DEF Fail, ClaimsExclusive, OwnershipInv
  <2>6. CreationsNamed'
    BY <1>13 DEF Fail, CreationsNamed, OwnershipInv
  <2>7. KeyNamesOwnLiveWidget'
    BY <1>13 DEF Fail, KeyNamesOwnLiveWidget, OwnershipInv
  <2>8. QED  BY <2>1, <2>2, <2>3, <2>4, <2>5, <2>6, <2>7 DEF OwnershipInv
<1>14. CASE Crash
  <2>1. \A q \in Requests : pc'[q] = pc[q] \/ pc'[q] = "lost"
    BY <1>14 DEF Crash
  <2>2. UNCHANGED <<widgets, idem, minted, call, wid, found, wrote>>
    BY <1>14 DEF Crash
  <2>3. QED
    BY <2>1, <2>2 DEF OwnershipInv, IdsMinted, HeldRowsOwned, TargetsOwned,
       OpenRowsPrivate, ClaimsExclusive, CreationsNamed, KeyNamesOwnLiveWidget, TypeOK
<1>15. CASE Tick \/ UNCHANGED vars
  BY <1>15 DEF Tick, vars, OwnershipInv, IdsMinted, HeldRowsOwned, TargetsOwned,
     OpenRowsPrivate, ClaimsExclusive, CreationsNamed, KeyNamesOwnLiveWidget
<1>16. QED
  BY <1>1, <1>2, <1>3, <1>4, <1>5, <1>6, <1>7, <1>8, <1>9, <1>10, <1>11, <1>12,
     <1>13, <1>14, <1>15
  DEF Next, Serve, Done

(* Every reachable state satisfies the inductive invariant.                  *)
THEOREM OwnershipInvariant == Spec => [](TypeOK /\ ControlOK /\ OwnershipInv)
<1>1. Init => TypeOK /\ ControlOK /\ OwnershipInv
  BY InitControl, InitOwnership
<1>2. TypeOK /\ ControlOK /\ OwnershipInv /\ [Next]_vars
        => (TypeOK /\ ControlOK /\ OwnershipInv)'
  BY NextControl, NextOwnership
<1>3. QED  BY <1>1, <1>2, PTL DEF Spec

(* Whatever retries, races, failures and crashes happen, a stored idempotency *)
(* key names a live widget of its own subject.                                *)
THEOREM KeyNamesOwnLiveWidgetAlways == Spec => []KeyNamesOwnLiveWidget
<1>1. OwnershipInv => KeyNamesOwnLiveWidget
  BY DEF OwnershipInv
<1>2. QED  BY <1>1, OwnershipInvariant, PTL

(* At most one widget created under a key of a subject is alive.              *)
THEOREM OneLiveWidgetPerKeyAlways == Spec => []OneLiveWidgetPerKey
<1>1. OwnershipInv => OneLiveWidgetPerKey
  <2>. SUFFICES ASSUME OwnershipInv, NEW r \in wrote, NEW q \in wrote, r # q,
                       SameKey(r, q), widgets[wid[r]] # None, widgets[wid[q]] # None
                PROVE  FALSE
    BY DEF OneLiveWidgetPerKey
  <2>1. wid[r] # wid[q]
    BY DEF OwnershipInv, CreationsNamed, SameKey, KeyedCreate
  <2>2. /\ idem[IdemKey(call[r])].widget = wid[r]
        /\ idem[IdemKey(call[q])].widget = wid[q]
    BY DEF OwnershipInv, CreationsNamed, SameKey, KeyedCreate
  <2>3. QED  BY <2>1, <2>2 DEF SameKey
<1>2. QED  BY <1>1, OwnershipInvariant, PTL

(* A successful answer never holds another subject's row, also when the row   *)
(* was read by id alone.                                                      *)
THEOREM OnlyOwnRowsAlways == Spec => []OnlyOwnRows
<1>1. OwnershipInv => OnlyOwnRows
  BY DEF OwnershipInv, HeldRowsOwned, OnlyOwnRows
<1>2. QED  BY <1>1, OwnershipInvariant, PTL

(* One step changes an existing row only for a request of the row's subject,  *)
(* and keeps that subject.                                                    *)
LEMMA StepByOwner ==
  ASSUME TypeOK, ControlOK, OwnershipInv, [Next]_vars, NEW w \in WidgetIds,
         widgets[w] # None, widgets'[w] # widgets[w]
  PROVE  /\ \E r \in wrote' \ wrote : call[r].subject = widgets[w].subject
         /\ widgets'[w] # None => widgets'[w].subject = widgets[w].subject
<1>1. ASSUME NEW r \in Requests, Insert(r) PROVE FALSE
  BY <1>1 DEF Insert, FreshIds, OwnershipInv, IdsMinted, TypeOK
<1>2. ASSUME NEW r \in Requests, Commit(r) PROVE FALSE
  BY <1>2 DEF Commit, OwnershipInv, OpenRowsPrivate, TypeOK
<1>3. ASSUME NEW r \in Requests, Write(r) \/ Remove(r)
      PROVE  /\ wid[r] = w /\ r \in wrote' \ wrote
             /\ call[r].subject = widgets[w].subject
             /\ widgets'[w] # None => widgets'[w].subject = widgets[w].subject
  <2>1. wid[r] = w
    BY <1>3 DEF Write, Remove, TypeOK
  <2>2. call[r].subject = widgets[w].subject
    BY <1>3, <2>1 DEF Write, Remove, OwnershipInv, TargetsOwned
  <2>3. r \in wrote' \ wrote
    BY <1>3 DEF Write, Remove, OwnershipInv, CreationsNamed
  <2>4. StoredSubject(call[r], BaseRow(r)) = call[r].subject
    BY <2>1, <2>2 DEF StoredSubject, BaseRow
  <2>5. UpdatedRow(call[r], BaseRow(r), stamp[r]).subject = call[r].subject
    BY <2>4 DEF UpdatedRow
  <2>6. widgets'[w] # None => widgets'[w].subject = call[r].subject
    BY <1>3, <2>1, <2>5 DEF Write, Remove, TypeOK
  <2>7. QED  BY <2>1, <2>2, <2>3, <2>6
<1>4. QED
  BY <1>1, <1>2, <1>3
  DEF Next, Serve, Done, vars, tables, Arrive, Lookup, Replay, TxInsert, Claim, List,
      Read, Record, Fail, Crash, Tick

(* Rows are changed and removed by their owner's requests only, although the  *)
(* statements that do it name the row by id alone; none gives a row away,     *)
(* whatever subject the body of a replace or patch names.                     *)
THEOREM OwnerOnlyWritesAlways == Spec => OwnerOnlyWrites
<1>1. TypeOK /\ ControlOK /\ OwnershipInv /\ [Next]_vars =>
        [\A w \in WidgetIds :
           widgets[w] # None /\ widgets'[w] # widgets[w] =>
             /\ \E r \in wrote' \ wrote : call[r].subject = widgets[w].subject
             /\ widgets'[w] # None => widgets'[w].subject = widgets[w].subject]_vars
  BY StepByOwner
<1>2. QED  BY <1>1, OwnershipInvariant, PTL DEF Spec, OwnerOnlyWrites

-----------------------------------------------------------------------------
(* A patch.  Only Write writes a row for a patch, and it starts from the row  *)
(* as it is.                                                                  *)
LEMMA StepKeepsOtherFields ==
  ASSUME TypeOK, ControlOK, [Next]_vars, NEW r \in wrote' \ wrote,
         call[r].op = "patch", NEW f \in Fields \ DOMAIN call[r].body
  PROVE  widgets'[wid[r]].content[f] = widgets[wid[r]].content[f]
<1>1. PICK q \in Requests : Insert(q) \/ Commit(q) \/ Write(q) \/ Remove(q)
  BY DEF Next, Serve, Done, vars, Arrive, Lookup, Replay, TxInsert, Claim, List,
         Read, Record, Fail, Crash, Tick
<1>2. q = r
  BY <1>1 DEF Insert, Commit, Write, Remove
<1>3. Write(r)
  BY <1>1, <1>2 DEF Insert, Commit, Remove, ControlOK, Creating
<1>4. /\ wid[r] \in WidgetIds
      /\ widgets'[wid[r]] = UpdatedRow(call[r], BaseRow(r), stamp[r])
  BY <1>2, <1>3 DEF Write, TypeOK, ControlOK, Holding
<1>5. UpdatedRow(call[r], BaseRow(r), stamp[r]).content[f] = BaseRow(r).content[f]
  BY DEF UpdatedRow, Merge
<1>6. QED  BY <1>4, <1>5 DEF BaseRow

(* A patch of stale knowledge undoes nobody's change of another column.       *)
THEOREM PatchKeepsOtherFieldsAlways == Spec => PatchKeepsOtherFields
<1>1. TypeOK /\ ControlOK /\ OwnershipInv /\ [Next]_vars =>
        [\A r \in wrote' \ wrote : call[r].op = "patch" =>
           \A f \in Fields \ DOMAIN call[r].body :
             widgets'[wid[r]].content[f] = widgets[wid[r]].content[f]]_vars
  BY StepKeepsOtherFields
<1>2. QED  BY <1>1, OwnershipInvariant, PTL DEF Spec, PatchKeepsOtherFields

-----------------------------------------------------------------------------
(* The audit table.  A widget a handler knows is not born again, nor given    *)
(* away, while the handler knows it.                                          *)
LEMMA KnownRowStays ==
  ASSUME TypeOK, ControlOK, OwnershipInv, [Next]_vars, NEW q \in Requests,
         wid[q] # None, widgets'[wid[q]] # None, pc[q] = "commit" => pc'[q] = pc[q]
  PROVE  /\ widgets[wid[q]] # None
         /\ widgets'[wid[q]].subject = widgets[wid[q]].subject
<1>. wid[q] \in WidgetIds
  BY DEF TypeOK
<1>1. ASSUME widgets[wid[q]] = None PROVE FALSE
  <2>1. PICK r \in Requests : Insert(r) \/ Commit(r) \/ Write(r) \/ Remove(r)
    BY <1>1
    DEF Next, Serve, Done, vars, tables, Arrive, Lookup, Replay, TxInsert, Claim,
        List, Read, Record, Fail, Crash, Tick
  <2>2. CASE Insert(r)
    BY <1>1, <2>2 DEF Insert, FreshIds, OwnershipInv, IdsMinted, TypeOK
  <2>3. CASE Commit(r)
    <3>1. q # r
      BY <2>3 DEF Commit, Goto, TypeOK
    <3>2. wid[q] # wid[r] /\ \A p \in found[r] : p[1] = wid[r]
      BY <2>3, <3>1 DEF Commit, OwnershipInv, OpenRowsPrivate
    <3>3. QED  BY <1>1, <2>3, <3>2 DEF Commit, TypeOK
  <2>4. CASE Write(r) \/ Remove(r)
    BY <1>1, <2>4 DEF Write, Remove, TypeOK
  <2>5. QED  BY <2>1, <2>2, <2>3, <2>4
<1>2. QED  BY <1>1, StepByOwner

(* What is known of other requests, and of earlier events, outlasts a step of *)
(* request r.                                                                 *)
LEMMA OthersAudited ==
  ASSUME TypeOK, ControlOK, OwnershipInv, AuditInv, [Next]_vars,
         NEW r \in Requests, pc[r] # "answered", events \subseteq events',
         \A q \in Requests \ {r} :
           /\ pc'[q] = pc[q] /\ call'[q] = call[q] /\ wid'[q] = wid[q]
           /\ owner'[q] = owner[q] /\ answer'[q] = answer[q]
           /\ q \in wrote' <=> q \in wrote
  PROVE  /\ \A q \in Requests \ {r} : RequestAudited(q)'
         /\ \A e \in events : EventTrue(e)'
<1>1. ASSUME NEW q \in Requests \ {r} PROVE RequestAudited(q)'
  <2>1. RequestAudited(q)
    BY DEF AuditInv
  <2>2. /\ pc'[q] = pc[q] /\ call'[q] = call[q] /\ wid'[q] = wid[q]
        /\ owner'[q] = owner[q] /\ answer'[q] = answer[q]
        /\ q \in wrote' <=> q \in wrote
    OBVIOUS
  <2>3. wid[q] # None /\ widgets'[wid[q]] # None =>
          /\ widgets[wid[q]] # None
          /\ widgets'[wid[q]].subject = widgets[wid[q]].subject
    BY <2>2, KnownRowStays
  <2>4. Recorded(q) => Recorded(q)'
    BY <2>2 DEF Recorded
  <2>5. QED  BY <2>1, <2>2, <2>3, <2>4 DEF RequestAudited, Ok
<1>2. ASSUME NEW e \in events PROVE EventTrue(e)'
  <2>1. EventTrue(e) /\ e.request \in Requests \ {r}
    BY DEF AuditInv, EventTrue, TypeOK, Events
  <2>2. QED  BY <2>1 DEF EventTrue
<1>3. QED  BY <1>1, <1>2

(* The tables are empty, and nobody has an answer.                            *)
LEMMA InitAudit == Init => AuditInv
  BY NoneAssumption DEF Init, AuditInv, RequestAudited, Ok, Owning

(* A refusal on arrival is no success.                                        *)
LEMMA RefusalIsNoSuccess ==
  ASSUME NEW c \in Calls, EarlyRefusal(c) # None
  PROVE  EarlyRefusal(c) \notin {200, 201, 204, 409}
  BY DEF EarlyRefusal

(* A step of request r keeps the audit invariant if it does so for r itself.  *)
LEMMA OwnAudited ==
  ASSUME TypeOK, ControlOK, OwnershipInv, AuditInv, [Next]_vars,
         NEW r \in Requests, pc[r] # "answered",
         \A q \in Requests \ {r} :
           /\ pc'[q] = pc[q] /\ call'[q] = call[q] /\ wid'[q] = wid[q]
           /\ owner'[q] = owner[q] /\ answer'[q] = answer[q]
           /\ q \in wrote' <=> q \in wrote,
         UNCHANGED events, RequestAudited(r)'
  PROVE  AuditInv'
<1>1. /\ \A q \in Requests \ {r} : RequestAudited(q)'
      /\ \A e \in events : EventTrue(e)'
  BY OthersAudited
<1>2. \A q \in Requests : RequestAudited(q)'
  BY <1>1
<1>3. QED  BY <1>1, <1>2 DEF AuditInv

(* Every step keeps the audit invariant.                                      *)
LEMMA NextAudit ==
  ASSUME TypeOK, ControlOK, OwnershipInv, AuditInv, [Next]_vars
  PROVE  AuditInv'
<1>. USE NoneAssumption DEF Goto, Reply, Hold, tables, Creating, Holding, Owning,
         Waiting, Ended
<1>1. ASSUME NEW r \in Requests, Arrive(r) PROVE AuditInv'
  <2>1. PICK c \in Calls :
        /\ call' = [call EXCEPT ![r] = c]
        /\ IF EarlyRefusal(c) # None THEN Reply(r, EarlyRefusal(c))
                                     ELSE Goto(r, FirstStatement(c))
    BY <1>1 DEF Arrive
  <2>2. /\ RequestAudited(r) /\ pc[r] = "idle" /\ wid[r] = None /\ r \notin wrote
        /\ UNCHANGED <<widgets, events, wid, owner, wrote>>
    BY <1>1 DEF Arrive, AuditInv, ControlOK
  <2>3. \/ pc'[r] = "answered" /\ ~Ok(r)'
        \/ pc'[r] \in {"insert", "lookup", "list", "read"} /\ answer'[r] = None
    BY <2>1, <2>2, FirstStatementType, RefusalIsNoSuccess
    DEF RequestAudited, TypeOK, Ok
  <2>4. RequestAudited(r)'
    BY <2>2, <2>3 DEF RequestAudited, Ok, TypeOK
  <2>5. QED  BY <1>1, <2>1, <2>2, <2>4, OwnAudited DEF TypeOK
<1>2. ASSUME NEW r \in Requests, Insert(r) PROVE AuditInv'
  <2>1. PICK w \in WidgetIds \ minted :
        /\ widgets' = [widgets EXCEPT ![w] = NewRow(call[r])]
        /\ Hold(r, w, NewRow(call[r]), NewRow(call[r]).subject)
    BY <1>2 DEF Insert, FreshIds
  <2>2. call[r].op = "create" /\ NewRow(call[r]).subject = call[r].subject
    BY <1>2 DEF Insert, NewRow, ControlOK
  <2>3. RequestAudited(r)'
    BY <1>2, <2>1, <2>2 DEF Insert, RequestAudited, AuditInv, Ok, TypeOK, Changing
  <2>4. QED  BY <1>2, <2>1, <2>3, OwnAudited DEF Insert, TypeOK
<1>3. ASSUME NEW r \in Requests, Lookup(r) PROVE AuditInv'
  <2>1. /\ call[r] \in CallType /\ r \notin wrote
        /\ IdemKey(call[r]) \in Subjects \X Keys
        /\ IdemKey(call[r])[1] = call[r].subject
    BY <1>3, CallFacts
    DEF Lookup, IdemKey, CallType, ControlOK, OwnershipInv, CreationsNamed
  <2>2. idem[IdemKey(call[r])] # None =>
          widgets[idem[IdemKey(call[r])].widget].subject = call[r].subject
    BY <2>1 DEF OwnershipInv, KeyNamesOwnLiveWidget
  <2>3. RequestAudited(r)'
    BY <1>3, <2>1, <2>2 DEF Lookup, RequestAudited, AuditInv, Ok, TypeOK
  <2>4. QED  BY <1>3, <2>3, OwnAudited DEF Lookup, TypeOK
<1>4. ASSUME NEW r \in Requests, Replay(r) PROVE AuditInv'
  <2>1. call[r].op = "create" /\ r \notin wrote
    BY <1>4 DEF Replay, ControlOK, OwnershipInv, CreationsNamed
  <2>2. widgets[wid[r]] # None => widgets[wid[r]].subject = call[r].subject
    BY <1>4 DEF Replay, OwnershipInv, TargetsOwned
  <2>3. RequestAudited(r)'
    BY <1>4, <2>1, <2>2 DEF Replay, RequestAudited, AuditInv, Ok, TypeOK, Changing
  <2>4. QED  BY <1>4, <2>3, OwnAudited DEF Replay, TypeOK
<1>5. ASSUME NEW r \in Requests, TxInsert(r) PROVE AuditInv'
  <2>1. PICK w \in WidgetIds \ minted :
        Hold(r, w, NewRow(call[r]), NewRow(call[r]).subject)
    BY <1>5 DEF TxInsert, FreshIds
  <2>2. /\ NewRow(call[r]).subject = call[r].subject /\ r \notin wrote
        /\ widgets[w] = None
    BY <1>5 DEF TxInsert, NewRow, OwnershipInv, CreationsNamed, IdsMinted
  <2>3. RequestAudited(r)'
    BY <1>5, <2>1, <2>2 DEF TxInsert, RequestAudited, AuditInv, Ok, TypeOK
  <2>4. QED  BY <1>5, <2>3, OwnAudited DEF TxInsert, TypeOK
<1>6. ASSUME NEW r \in Requests, Claim(r) PROVE AuditInv'
  <2>1. r \notin wrote
    BY <1>6 DEF Claim, OwnershipInv, CreationsNamed
  <2>2. RequestAudited(r)'
    BY <1>6, <2>1 DEF Claim, RequestAudited, AuditInv, Ok, TypeOK
  <2>3. QED  BY <1>6, <2>2, OwnAudited DEF Claim, TypeOK
<1>7. ASSUME NEW r \in Requests, Commit(r) PROVE AuditInv'
  <2>1. PICK p \in found[r] : widgets' = [widgets EXCEPT ![p[1]] = p[2]]
    BY <1>7 DEF Commit
  <2>2. /\ p[1] = wid[r] /\ p[2].subject = call[r].subject
        /\ call[r].op = "create" /\ wid[r] \in WidgetIds
    BY <1>7, <2>1
    DEF Commit, OwnershipInv, OpenRowsPrivate, HeldRowsOwned, ControlOK, TypeOK
  <2>3. widgets'[wid[r]] = p[2]
    BY <2>1, <2>2 DEF TypeOK
  <2>4. RequestAudited(r)'
    BY <1>7, <2>2, <2>3 DEF Commit, RequestAudited, AuditInv, Ok, TypeOK, Changing
  <2>5. QED  BY <1>7, <2>4, OwnAudited DEF Commit, TypeOK
<1>8. ASSUME NEW r \in Requests, List(r) PROVE AuditInv'
  <2>1. r \notin wrote /\ call[r].op = "list"
    BY <1>8 DEF List, OwnershipInv, CreationsNamed, ControlOK
  <2>2. RequestAudited(r)'
    BY <1>8, <2>1 DEF List, RequestAudited, AuditInv, Ok, TypeOK, Changing
  <2>3. QED  BY <1>8, <2>2, OwnAudited DEF List, TypeOK
<1>9. ASSUME NEW r \in Requests, Read(r) PROVE AuditInv'
  <2>1. r \notin wrote /\ call[r].op \in {"get", "replace", "patch", "delete"}
    BY <1>9 DEF Read, OwnershipInv, CreationsNamed, ControlOK
  <2>2. ASSUME VisibleTo(call[r].target, call[r].subject)
        PROVE  /\ wid'[r] = call[r].target
               /\ owner'[r] = call[r].subject
               /\ widgets'[wid'[r]].subject = call[r].subject
    BY <1>9, <2>2 DEF Read, VisibleTo, TypeOK
  <2>3. /\ pc'[r] \in {"answered", "record", "write", "remove"}
        /\ pc'[r] = "record" => call[r].op = "get"
        /\ pc'[r] # "answered" => answer'[r] = answer[r]
        /\ ~Ok(r)'
    BY <1>9 DEF Read, TypeOK, AuditInv, RequestAudited, Ok
  <2>4. RequestAudited(r)'
    <3>1. CASE VisibleTo(call[r].target, call[r].subject)
      BY <1>9, <2>1, <2>2, <2>3, <3>1
      DEF Read, RequestAudited, AuditInv, TypeOK, Changing
    <3>2. CASE ~VisibleTo(call[r].target, call[r].subject)
      BY <1>9, <2>1, <2>3, <3>2 DEF Read, RequestAudited, AuditInv, TypeOK
    <3>3. QED  BY <3>1, <3>2
  <2>5. QED  BY <1>9, <2>4, OwnAudited DEF Read, TypeOK
<1>10. ASSUME NEW r \in Requests, Write(r) PROVE AuditInv'
  <2>1. /\ wid[r] # None /\ r \notin wrote /\ call[r].op # "delete"
        /\ widgets'[wid[r]] # None => widgets'[wid[r]].subject = call[r].subject
    BY <1>10, KnownRowStays
    DEF Write, ControlOK, Update, OwnershipInv, TargetsOwned, CreationsNamed
  <2>2. RequestAudited(r)'
    BY <1>10, <2>1 DEF Write, RequestAudited, AuditInv, Ok, TypeOK
  <2>3. QED  BY <1>10, <2>2, OwnAudited DEF Write, TypeOK
<1>11. ASSUME NEW r \in Requests, Remove(r) PROVE AuditInv'
  <2>1. /\ wid[r] \in WidgetIds /\ wid[r] # None /\ r \notin wrote
        /\ widgets'[wid[r]] = None
    BY <1>11 DEF Remove, ControlOK, OwnershipInv, CreationsNamed, TypeOK
  <2>2. RequestAudited(r)'
    BY <1>11, <2>1 DEF Remove, RequestAudited, AuditInv, Ok, TypeOK
  <2>3. QED  BY <1>11, <2>2, OwnAudited DEF Remove, TypeOK
<1>12. ASSUME NEW r \in Requests, Record(r) PROVE AuditInv'
  <2>1. /\ RequestAudited(r) /\ pc[r] = "record" /\ owner[r] = call[r].subject
        /\ call[r].op \in Changing => r \in wrote
        /\ UNCHANGED <<widgets, call, wid, owner, wrote>>
        /\ pc' = [pc EXCEPT ![r] = "answered"]
    BY <1>12 DEF Record, AuditInv, RequestAudited
  <2>2. \/ events' = events /\ answer'[r] = 500
        \/ events' = events \cup {AccessEvent(r)}
    BY <1>12 DEF Record, TypeOK
  <2>3. AccessEvent(r) \in events' => Recorded(r)'
    BY <2>1 DEF Recorded, AccessEvent
  <2>4. RequestAudited(r)'
    BY <2>1, <2>2, <2>3 DEF RequestAudited, Ok, TypeOK
  <2>5. ASSUME NEW e, e = AccessEvent(r) PROVE EventTrue(e)'
    BY <2>1, <2>5 DEF EventTrue, AccessEvent, TypeOK
  <2>6. /\ pc[r] # "answered" /\ events \subseteq events'
        /\ \A q \in Requests \ {r} :
             /\ pc'[q] = pc[q] /\ call'[q] = call[q] /\ wid'[q] = wid[q]
             /\ owner'[q] = owner[q] /\ answer'[q] = answer[q]
             /\ q \in wrote' <=> q \in wrote
    BY <1>12, <2>1, <2>2 DEF Record, TypeOK
  <2>7. /\ \A q \in Requests \ {r} : RequestAudited(q)'
        /\ \A e \in events : EventTrue(e)'
    BY <2>6, OthersAudited
  <2>8. \A e \in events' : EventTrue(e)'
    BY <2>2, <2>5, <2>7
  <2>9. \A q \in Requests : RequestAudited(q)'
    BY <2>4, <2>7
  <2>10. QED  BY <2>8, <2>9 DEF AuditInv
<1>13. ASSUME NEW r \in Requests, Fail(r) PROVE AuditInv'
  <2>1. RequestAudited(r)'
    BY <1>13 DEF Fail, RequestAudited, AuditInv, Ok, TypeOK
  <2>2. QED  BY <1>13, <2>1, OwnAudited DEF Fail, TypeOK
<1>14. CASE Crash
  <2>1. /\ \A q \in Requests : pc'[q] = IF pc[q] \in Waiting THEN "lost" ELSE pc[q]
        /\ UNCHANGED <<widgets, events, call, wid, owner, answer, wrote>>
    BY <1>14 DEF Crash
  <2>2. ASSUME NEW q \in Requests PROVE RequestAudited(q)'
    BY <2>1 DEF AuditInv, RequestAudited, Ok, Recorded
  <2>3. ASSUME NEW e \in events PROVE EventTrue(e)'
    BY <2>1 DEF AuditInv, EventTrue, TypeOK, Events
  <2>4. QED  BY <2>1, <2>2, <2>3 DEF AuditInv
<1>15. CASE Tick \/ UNCHANGED vars
  BY <1>15 DEF Tick, vars, AuditInv, RequestAudited, EventTrue, Ok, Recorded
<1>16. QED
  BY <1>1, <1>2, <1>3, <1>4, <1>5, <1>6, <1>7, <1>8, <1>9, <1>10, <1>11, <1>12,
     <1>13, <1>14, <1>15
  DEF Next, Serve, Done

(* Every reachable state satisfies the audit invariant.                       *)
THEOREM AuditInvariant == Spec => [](TypeOK /\ ControlOK /\ OwnershipInv /\ AuditInv)
<1>1. Init => AuditInv
  BY InitAudit
<1>2. TypeOK /\ ControlOK /\ OwnershipInv /\ AuditInv /\ [Next]_vars => AuditInv'
  BY NextAudit
<1>3. QED  BY <1>1, <1>2, OwnershipInvariant, PTL DEF Spec

(* No successful call and no write is missing from the audit table, unless    *)
(* the caller was told of a failure or the process died.                      *)
THEOREM AuditCompleteAlways == Spec => []AuditComplete
<1>1. TypeOK /\ AuditInv => AuditComplete
  BY DEF AuditInv, RequestAudited, AuditComplete, TypeOK
<1>2. QED  BY <1>1, AuditInvariant, PTL

(* The audit table tells only what happened, and names the true owner.        *)
THEOREM AuditTruthfulAlways == Spec => []AuditTruthful
<1>1. TypeOK /\ AuditInv => AuditTruthful
  <2>. SUFFICES ASSUME TypeOK, AuditInv, NEW e \in events
                PROVE  /\ e.op \in {"replace", "patch", "delete"} => e.request \in wrote
                       /\ e.op = "delete" => widgets[e.widget] = None
                       /\ e.widget # None /\ widgets[e.widget] # None =>
                            widgets[e.widget].subject = e.owner
    BY DEF AuditTruthful
  <2>1. EventTrue(e) /\ e.request \in Requests /\ RequestAudited(e.request)
    BY DEF AuditInv, TypeOK, Events
  <2>2. QED  BY <2>1 DEF EventTrue, RequestAudited, Changing
<1>2. QED  BY <1>1, AuditInvariant, PTL

-----------------------------------------------------------------------------
(* Keys and bodies.  A request that wrote keeps its call and its widget.      *)
LEMMA WritersStay ==
  ASSUME TypeOK, ControlOK, OwnershipInv, [Next]_vars, NEW q \in wrote
  PROVE  q \in wrote' /\ call'[q] = call[q] /\ wid'[q] = wid[q]
<1>1. q \in Requests /\ pc[q] \in {"record", "answered", "lost"}
  BY DEF OwnershipInv, CreationsNamed, TypeOK
<1>2. wrote \subseteq wrote'
  BY DEF Next, Serve, Done, vars, Arrive, Insert, Lookup, Replay, TxInsert, Claim,
         Commit, List, Read, Write, Remove, Record, Fail, Crash, Tick
<1>3. call'[q] = call[q]
  <2>1. CASE \E r \in Requests : Arrive(r)
    BY <1>1, <2>1 DEF Arrive, TypeOK
  <2>2. CASE UNCHANGED call
    BY <2>2
  <2>3. QED
    BY <2>1, <2>2
    DEF Next, Serve, Done, vars, Insert, Lookup, Replay, TxInsert, Claim, Commit,
        List, Read, Write, Remove, Record, Fail, Crash, Tick
<1>4. wid'[q] = wid[q]
  <2>1. ASSUME NEW r \in Requests,
               Insert(r) \/ Lookup(r) \/ Replay(r) \/ TxInsert(r) \/ Read(r)
        PROVE  r # q /\ wid' = [wid EXCEPT ![r] = wid'[r]]
    BY <1>1, <2>1 DEF Insert, Lookup, Replay, TxInsert, Read, Hold, TypeOK
  <2>2. CASE \E r \in Requests :
               Insert(r) \/ Lookup(r) \/ Replay(r) \/ TxInsert(r) \/ Read(r)
    BY <1>1, <2>1, <2>2 DEF TypeOK
  <2>3. CASE UNCHANGED wid
    BY <2>3
  <2>4. QED
    BY <2>2, <2>3
    DEF Next, Serve, Done, vars, Arrive, Claim, Commit, List, Write, Remove, Record,
        Fail, Crash, Tick
<1>5. QED  BY <1>1, <1>2, <1>3, <1>4

(* So a key that was used with a body, for a widget, stays used with them.    *)
LEMMA KeyUsedStays ==
  ASSUME TypeOK, ControlOK, OwnershipInv, [Next]_vars, NEW k, NEW body, NEW w,
         KeyUsed(k, body, w)
  PROVE  KeyUsed(k, body, w)'
<1>1. PICK q \in wrote : /\ KeyedCreate(q) /\ IdemKey(call[q]) = k
                         /\ call[q].body = body /\ wid[q] = w
  BY DEF KeyUsed
<1>2. q \in wrote' /\ call'[q] = call[q] /\ wid'[q] = wid[q]
  BY WritersStay
<1>3. /\ KeyedCreate(q)' /\ IdemKey(call'[q]) = k
      /\ call'[q].body = body /\ wid'[q] = w
  BY <1>1, <1>2 DEF KeyedCreate
<1>4. QED  BY <1>2, <1>3 DEF KeyUsed

(* A request that keeps its call, its widget and its answer, and is not about *)
(* to answer anew, goes back to the same use of its key as before.            *)
LEMMA HonouredStays ==
  ASSUME TypeOK, ControlOK, OwnershipInv, [Next]_vars, NEW q \in Requests,
         KeyHonoured(q), call'[q] = call[q], wid'[q] = wid[q],
         answer'[q] = answer[q],
         pc'[q] \in {"replay", "record"} => pc[q] \in {"replay", "record"}
  PROVE  KeyHonoured(q)'
<1>1. (KeyedCreate(q)' <=> KeyedCreate(q)) /\ (Ok(q)' <=> Ok(q))
  BY DEF KeyedCreate, Ok
<1>2. KeyUsed(IdemKey(call[q]), call[q].body, wid[q]) =>
        KeyUsed(IdemKey(call[q]), call[q].body, wid[q])'
  <2>1. \A k, body, w : KeyUsed(k, body, w) => KeyUsed(k, body, w)'
    BY KeyUsedStays
  <2>2. QED  BY <2>1 DEF KeyUsed
<1>3. ASSUME NEW t \in wrote, SameKey(q, t), call[t].body # call[q].body
      PROVE  t \in wrote' /\ SameKey(q, t)' /\ call'[t].body # call'[q].body
  <2>1. t \in wrote' /\ call'[t] = call[t]
    BY WritersStay
  <2>2. QED  BY <1>3, <2>1 DEF SameKey, KeyedCreate
<1>4. QED  BY <1>1, <1>2, <1>3 DEF KeyHonoured

(* A step of request r keeps what is known of keys if it does so for r itself *)
(* and for a key it stores.                                                   *)
LEMMA OwnHonoured ==
  ASSUME TypeOK, ControlOK, OwnershipInv, KeysInv, [Next]_vars, NEW r \in Requests,
         \A q \in Requests \ {r} :
           /\ pc'[q] = pc[q] /\ call'[q] = call[q] /\ wid'[q] = wid[q]
           /\ answer'[q] = answer[q],
         \A k \in Subjects \X Keys : idem'[k] # None =>
           \/ idem'[k] = idem[k]
           \/ \E q \in wrote' :
                /\ KeyedCreate(q)' /\ IdemKey(call'[q]) = k
                /\ call'[q].body = idem'[k].hash /\ wid'[q] = idem'[k].widget,
         KeyHonoured(r)', answer'[r] = 409 => KeyedCreate(r)'
  PROVE  KeysInv'
<1>1. ASSUME NEW k \in Subjects \X Keys, idem'[k] # None
      PROVE  KeyUsed(k, idem[k].hash, idem[k].widget)'
  <2>1. \A body, w : KeyUsed(k, body, w) => KeyUsed(k, body, w)'
    BY KeyUsedStays
  <2>2. CASE idem'[k] = idem[k]
    BY <1>1, <2>1, <2>2 DEF KeysInv, KeyUsed
  <2>3. CASE idem'[k] # idem[k]
    BY <1>1, <2>3 DEF KeyUsed
  <2>4. QED  BY <2>2, <2>3
<1>2. ASSUME NEW q \in Requests PROVE KeyHonoured(q)'
  BY HonouredStays DEF KeysInv
<1>3. ASSUME NEW q \in Requests, answer'[q] = 409 PROVE KeyedCreate(q)'
  BY <1>3 DEF KeysInv, KeyedCreate
<1>4. QED  BY <1>1, <1>2, <1>3 DEF KeysInv

(* There are no keys, and nobody has an answer.                               *)
LEMMA InitKeys == Init => KeysInv
  BY NoneAssumption
  DEF Init, KeysInv, KeyHonoured, KeyedCreate

(* A key or a conflict is met in creates only.                                *)
LEMMA NotOfKeys ==
  ASSUME NEW r \in Requests, call'[r].op # "create" \/ ~Keyed(call'[r]),
         answer'[r] # 409
  PROVE  KeyHonoured(r)' /\ (answer'[r] = 409 => KeyedCreate(r)')
  BY DEF KeyHonoured, KeyedCreate

(* Every step keeps the invariant of keys and bodies.                         *)
LEMMA NextKeys ==
  ASSUME TypeOK, ControlOK, OwnershipInv, AuditInv, KeysInv, [Next]_vars
  PROVE  KeysInv'
<1>. USE NoneAssumption DEF Goto, Reply, Hold, tables, Creating, Holding, Waiting, Ended
<1>1. ASSUME NEW r \in Requests, Arrive(r) PROVE KeysInv'
  <2>1. PICK c \in Calls :
        /\ call' = [call EXCEPT ![r] = c]
        /\ IF EarlyRefusal(c) # None THEN Reply(r, EarlyRefusal(c))
                                     ELSE Goto(r, FirstStatement(c))
    BY <1>1 DEF Arrive
  <2>2. pc[r] = "idle" /\ answer[r] = None /\ UNCHANGED <<idem, wid>>
    BY <1>1 DEF Arrive, AuditInv, RequestAudited
  <2>3. pc'[r] \notin {"replay", "record"} /\ answer'[r] # 409 /\ ~Ok(r)'
    BY <2>1, <2>2, FirstStatementType, RefusalIsNoSuccess DEF TypeOK, Ok
  <2>4. KeyHonoured(r)'
    BY <2>3 DEF KeyHonoured
  <2>5. QED  BY <2>1, <2>2, <2>3, <2>4, OwnHonoured DEF TypeOK
<1>2. ASSUME NEW r \in Requests, Insert(r) PROVE KeysInv'
  <2>1. /\ UNCHANGED <<idem, call, answer>> /\ ~Keyed(call[r]) /\ answer[r] # 409
        /\ pc' = [pc EXCEPT ![r] = "record"]
    BY <1>2 DEF Insert, ControlOK, Keyed, AuditInv, RequestAudited
  <2>2. wid' = [wid EXCEPT ![r] = wid'[r]]
    BY <1>2 DEF Insert, TypeOK
  <2>3. KeyHonoured(r)' /\ (answer'[r] = 409 => KeyedCreate(r)')
    BY <2>1, NotOfKeys
  <2>4. QED  BY <2>1, <2>2, <2>3, OwnHonoured DEF TypeOK
<1>3. ASSUME NEW r \in Requests, Lookup(r) PROVE KeysInv'
  <2>1. /\ call[r] \in CallType /\ KeyedCreate(r) /\ answer[r] = None
        /\ IdemKey(call[r]) \in Subjects \X Keys
        /\ UNCHANGED <<idem, call, wrote>>
    BY <1>3, CallFacts
    DEF Lookup, IdemKey, CallType, ControlOK, KeyedCreate, Keyed, AuditInv,
        RequestAudited
  <2>2. KeyedCreate(r)'
    BY <2>1 DEF KeyedCreate
  <2>3. CASE idem[IdemKey(call[r])] = None
    <3>1. pc' = [pc EXCEPT ![r] = "txInsert"] /\ UNCHANGED <<wid, answer>>
      BY <1>3, <2>3 DEF Lookup
    <3>2. KeyHonoured(r)'
      BY <2>1, <3>1 DEF KeyHonoured, Ok, TypeOK
    <3>3. QED  BY <2>1, <2>2, <3>1, <3>2, OwnHonoured DEF TypeOK
  <2>4. ASSUME idem[IdemKey(call[r])] # None PROVE KeysInv'
    <3>. DEFINE row == idem[IdemKey(call[r])]
    <3>1. PICK q \in wrote :
            /\ KeyedCreate(q) /\ IdemKey(call[q]) = IdemKey(call[r])
            /\ call[q].body = row.hash /\ wid[q] = row.widget
      BY <2>1, <2>4 DEF KeysInv, KeyUsed
    <3>2. /\ q # r /\ q \in Requests /\ SameKey(r, q)'
          /\ call'[q] = call[q] /\ wid'[q] = wid[q]
      BY <1>3, <2>1, <3>1, WritersStay
      DEF Lookup, OwnershipInv, CreationsNamed, SameKey, KeyedCreate, TypeOK
    <3>3. CASE ~SameRequest(IdemKey(call[r]), call[r])
      <4>1. /\ pc' = [pc EXCEPT ![r] = "answered"] /\ UNCHANGED wid
            /\ answer' = [answer EXCEPT ![r] = 409]
        BY <1>3, <2>4, <3>3 DEF Lookup
      <4>2. call'[q].body # call'[r].body
        BY <2>1, <3>1, <3>2, <3>3 DEF SameRequest
      <4>3. KeyHonoured(r)'
        BY <2>1, <3>1, <3>2, <4>1, <4>2 DEF KeyHonoured, Ok, TypeOK
      <4>4. QED  BY <2>1, <2>2, <4>1, <4>3, OwnHonoured DEF TypeOK
    <3>4. CASE SameRequest(IdemKey(call[r]), call[r])
      <4>1. /\ pc' = [pc EXCEPT ![r] = "replay"] /\ UNCHANGED answer
            /\ wid' = [wid EXCEPT ![r] = row.widget]
        BY <1>3, <2>4, <3>4 DEF Lookup
      <4>2. KeyUsed(IdemKey(call[r]), call[r].body, wid[r])'
        BY <2>1, <3>1, <3>2, <3>4, <4>1 DEF KeyUsed, SameRequest, SameKey, TypeOK
      <4>3. KeyHonoured(r)'
        BY <2>1, <4>1, <4>2 DEF KeyHonoured
      <4>4. QED  BY <2>1, <2>2, <4>1, <4>3, OwnHonoured DEF TypeOK
    <3>5. QED  BY <3>3, <3>4
  <2>5. QED  BY <2>3, <2>4
<1>4. ASSUME NEW r \in Requests, Replay(r) PROVE KeysInv'
  <2>1. /\ pc[r] = "replay" /\ answer[r] = None /\ KeyHonoured(r)
        /\ UNCHANGED <<idem, call, wid>>
    BY <1>4 DEF Replay, AuditInv, RequestAudited, KeysInv, TypeOK
  <2>2. \/ /\ pc' = [pc EXCEPT ![r] = "answered"]
           /\ answer' = [answer EXCEPT ![r] = 404]
        \/ pc' = [pc EXCEPT ![r] = "record"] /\ UNCHANGED answer
    BY <1>4 DEF Replay
  <2>3. CASE pc' = [pc EXCEPT ![r] = "record"] /\ UNCHANGED answer
    <3>1. KeyHonoured(r)'
      BY <2>1, <2>3, HonouredStays
    <3>2. QED  BY <2>1, <2>3, <3>1, OwnHonoured DEF TypeOK
  <2>4. CASE /\ pc' = [pc EXCEPT ![r] = "answered"]
             /\ answer' = [answer EXCEPT ![r] = 404]
    <3>1. KeyHonoured(r)'
      BY <2>4 DEF KeyHonoured, Ok, TypeOK
    <3>2. QED  BY <2>1, <2>4, <3>1, OwnHonoured DEF TypeOK
  <2>5. QED  BY <2>2, <2>3, <2>4
<1>5. ASSUME NEW r \in Requests, TxInsert(r) PROVE KeysInv'
  <2>1. /\ pc' = [pc EXCEPT ![r] = "claim"] /\ answer[r] = None
        /\ UNCHANGED <<idem, call, answer>>
    BY <1>5 DEF TxInsert, AuditInv, RequestAudited
  <2>2. wid' = [wid EXCEPT ![r] = wid'[r]]
    BY <1>5 DEF TxInsert, TypeOK
  <2>3. KeyHonoured(r)'
    BY <2>1 DEF KeyHonoured, Ok, TypeOK
  <2>4. QED  BY <2>1, <2>2, <2>3, OwnHonoured DEF TypeOK
<1>6. ASSUME NEW r \in Requests, Claim(r) \/ Fail(r) PROVE KeysInv'
  <2>1. /\ UNCHANGED <<idem, call, wid>> /\ answer[r] = None
        /\ pc' = [pc EXCEPT ![r] = pc'[r]] /\ answer' = [answer EXCEPT ![r] = answer'[r]]
        /\ pc'[r] \in {"commit", "answered"} /\ answer'[r] \in {None, 500}
    BY <1>6 DEF Claim, Fail, AuditInv, RequestAudited, TypeOK
  <2>2. KeyHonoured(r)'
    BY <2>1 DEF KeyHonoured, Ok
  <2>3. QED  BY <2>1, <2>2, OwnHonoured DEF TypeOK
<1>7. ASSUME NEW r \in Requests, Commit(r) PROVE KeysInv'
  <2>1. PICK p \in found[r] :
        idem' = [idem EXCEPT ![IdemKey(call[r])] =
                   [hash |-> call[r].body, widget |-> p[1]]]
    BY <1>7 DEF Commit
  <2>2. /\ pc[r] = "commit" /\ UNCHANGED <<call, wid, answer>> /\ r \in wrote'
        /\ pc' = [pc EXCEPT ![r] = "record"]
    BY <1>7 DEF Commit
  <2>3. /\ p[1] = wid[r] /\ answer[r] = None
        /\ KeyedCreate(r) /\ KeyedCreate(r)'
    <3>1. p[1] = wid[r]
      BY <2>1, <2>2 DEF OwnershipInv, OpenRowsPrivate
    <3>2. answer[r] = None
      BY <2>2 DEF AuditInv, RequestAudited
    <3>3. KeyedCreate(r)
      BY <2>2, CallFacts DEF ControlOK, KeyedCreate, Keyed
    <3>4. QED  BY <2>2, <3>1, <3>2, <3>3 DEF KeyedCreate
  <2>4. KeyHonoured(r)'
    BY <2>2, <2>3 DEF KeyHonoured, KeyUsed
  <2>5. \A k \in Subjects \X Keys :
          \/ idem'[k] = idem[k]
          \/ /\ k = IdemKey(call[r]) /\ idem'[k].hash = call[r].body
             /\ idem'[k].widget = wid[r]
    BY <2>1, <2>3 DEF TypeOK
  <2>6. QED  BY <2>2, <2>3, <2>4, <2>5, OwnHonoured DEF TypeOK
<1>8. ASSUME NEW r \in Requests, List(r) \/ Read(r) \/ Write(r) PROVE KeysInv'
  <2>1. UNCHANGED <<idem, call>> /\ call[r].op # "create" /\ answer[r] = None
    BY <1>8
    DEF List, Read, Write, ControlOK, Update, AuditInv, RequestAudited
  <2>2. /\ pc' = [pc EXCEPT ![r] = pc'[r]] /\ wid' = [wid EXCEPT ![r] = wid'[r]]
        /\ answer' = [answer EXCEPT ![r] = answer'[r]] /\ answer'[r] # 409
    BY <1>8, <2>1 DEF List, Read, Write, TypeOK
  <2>3. KeyHonoured(r)' /\ (answer'[r] = 409 => KeyedCreate(r)')
    BY <2>1, <2>2, NotOfKeys
  <2>4. QED  BY <2>1, <2>2, <2>3, OwnHonoured DEF TypeOK
<1>9. ASSUME NEW r \in Requests, Remove(r) PROVE KeysInv'
  <2>1. UNCHANGED <<call, wid>> /\ call[r].op # "create" /\ answer[r] = None
    BY <1>9 DEF Remove, ControlOK, AuditInv, RequestAudited
  <2>2. /\ pc' = [pc EXCEPT ![r] = pc'[r]]
        /\ answer' = [answer EXCEPT ![r] = answer'[r]] /\ answer'[r] # 409
    BY <1>9, <2>1 DEF Remove, TypeOK
  <2>3. \A k \in Subjects \X Keys : idem'[k] # None => idem'[k] = idem[k]
    BY <1>9 DEF Remove, WithoutWidget
  <2>4. KeyHonoured(r)' /\ (answer'[r] = 409 => KeyedCreate(r)')
    BY <2>1, <2>2, NotOfKeys
  <2>5. QED  BY <2>1, <2>2, <2>3, <2>4, OwnHonoured DEF TypeOK
<1>10. ASSUME NEW r \in Requests, Record(r) PROVE KeysInv'
  <2>1. /\ pc[r] = "record" /\ UNCHANGED <<idem, call, wid>> /\ KeyHonoured(r)
        /\ pc' = [pc EXCEPT ![r] = "answered"]
        /\ answer' = [answer EXCEPT ![r] = answer'[r]]
        /\ answer'[r] \in {200, 201, 204, 500}
    BY <1>10 DEF Record, KeysInv, Success, TypeOK
  <2>2. KeyedCreate(r) => KeyUsed(IdemKey(call[r]), call[r].body, wid[r])
    BY <2>1 DEF KeyHonoured
  <2>3. \A k, body, w : KeyUsed(k, body, w) => KeyUsed(k, body, w)'
    BY KeyUsedStays
  <2>4. KeyedCreate(r) => KeyUsed(IdemKey(call[r]), call[r].body, wid[r])'
    BY <2>1, <2>2, <2>3 DEF KeyUsed
  <2>5. KeyHonoured(r)'
    BY <2>1, <2>4 DEF KeyHonoured, KeyedCreate
  <2>6. QED  BY <2>1, <2>5, OwnHonoured DEF TypeOK
<1>11. CASE Crash \/ Tick \/ UNCHANGED vars
  <2>1. /\ UNCHANGED <<idem, call, wid, answer>>
        /\ \A q \in Requests : pc'[q] = pc[q] \/ pc'[q] = "lost"
    BY <1>11 DEF Crash, Tick, vars
  <2>2. ASSUME NEW q \in Requests PROVE KeyHonoured(q)'
    BY <2>1, HonouredStays DEF KeysInv
  <2>3. ASSUME NEW q \in Requests, answer'[q] = 409 PROVE KeyedCreate(q)'
    BY <2>1, <2>3 DEF KeysInv, KeyedCreate
  <2>4. ASSUME NEW k \in Subjects \X Keys, idem'[k] # None
        PROVE  KeyUsed(k, idem[k].hash, idem[k].widget)'
    <3>1. \A body, w : KeyUsed(k, body, w) => KeyUsed(k, body, w)'
      BY KeyUsedStays
    <3>2. QED  BY <2>1, <2>4, <3>1 DEF KeysInv, KeyUsed
  <2>5. QED  BY <2>2, <2>3, <2>4 DEF KeysInv
<1>12. QED
  BY <1>1, <1>2, <1>3, <1>4, <1>5, <1>6, <1>7, <1>8, <1>9, <1>10, <1>11
  DEF Next, Serve, Done

(* A key is bound to one body: of the requests that were answered with one    *)
(* widget under one key all sent the body it was created with, and who got a  *)
(* conflict sent another one.                                                 *)
THEOREM KeyBindsBodyAlways == Spec => []KeyBindsBody
<1>1. TypeOK /\ OwnershipInv /\ KeysInv => KeyBindsBody
  <2>. SUFFICES ASSUME TypeOK, OwnershipInv, KeysInv PROVE KeyBindsBody
    OBVIOUS
  <2>1. ASSUME NEW r \in Requests, NEW q \in Requests, Ok(r), Ok(q), SameKey(r, q),
               wid[r] = wid[q]
        PROVE  call[r].body = call[q].body
    <3>1. PICK t \in wrote : /\ KeyedCreate(t) /\ call[t].body = call[r].body
                             /\ wid[t] = wid[r]
      BY <2>1 DEF KeysInv, KeyHonoured, KeyUsed, SameKey
    <3>2. PICK u \in wrote : /\ KeyedCreate(u) /\ call[u].body = call[q].body
                             /\ wid[u] = wid[q]
      BY <2>1 DEF KeysInv, KeyHonoured, KeyUsed, SameKey
    <3>3. t = u
      BY <2>1, <3>1, <3>2 DEF OwnershipInv, CreationsNamed, KeyedCreate
    <3>4. QED  BY <3>1, <3>2, <3>3
  <2>2. ASSUME NEW r \in Requests, answer[r] = 409
        PROVE  \E q \in wrote : SameKey(r, q) /\ call[q].body # call[r].body
    BY <2>2 DEF KeysInv, KeyHonoured
  <2>3. QED  BY <2>1, <2>2 DEF KeyBindsBody
<1>2. Init => KeysInv
  BY InitKeys
<1>3. TypeOK /\ ControlOK /\ OwnershipInv /\ AuditInv /\ KeysInv /\ [Next]_vars
        => KeysInv'
  BY NextKeys
<1>4. QED  BY <1>1, <1>2, <1>3, AuditInvariant, PTL DEF Spec
-----------------------------------------------------------------------------
(* No handler goes back, and what a transaction is to commit is its own: the *)
(* safe half of the promise that every request ends.                         *)

(* The statements that may follow another.                                   *)
After(label) ==
  CASE label = "lookup" -> {"txInsert", "replay"}
    [] label = "txInsert" -> {"claim"}
    [] label = "claim" -> {"commit"}
    [] label = "read" -> {"record", "write", "remove"}
    [] label \in {"insert", "replay", "commit", "list", "write", "remove"} -> {"record"}
    [] OTHER -> {}

(* What a step of request r leaves of the others, and where it leads.        *)
Handles(r) ==
  /\ \A q \in Requests \ {r} :
       UNCHANGED <<pc[q], call[q], wid[q], found[q]>>
  /\ clock' = clock
  /\ pc[r] \in Waiting => pc'[r] \in After(pc[r]) \cup {"answered"}
  /\ pc[r] = "idle" =>
       pc'[r] \in {"lookup", "insert", "list", "read", "answered"}
  /\ pc[r] \in {"txInsert", "claim"} \/ pc'[r] \notin {"claim", "commit"}

LEMMA Handling ==
  ASSUME TypeOK, ControlOK, NEW r \in Requests, Arrive(r) \/ Serve(r) \/ Fail(r)
  PROVE  Handles(r)
<1>. USE DEF Handles, After, Goto, Reply, Hold, TypeOK, Waiting
<1>1. CASE Arrive(r)
  <2>1. PICK c \in Calls :
          IF EarlyRefusal(c) # None THEN Reply(r, EarlyRefusal(c))
                                    ELSE Goto(r, FirstStatement(c))
    BY <1>1 DEF Arrive
  <2>2. FirstStatement(c) \in {"lookup", "insert", "list", "read"}
    BY DEF FirstStatement
  <2>3. QED  BY <1>1, <2>1, <2>2 DEF Arrive
<1>2. CASE Insert(r)
  BY <1>2 DEF Insert
<1>3. CASE Lookup(r)
  BY <1>3 DEF Lookup
<1>4. CASE Replay(r)
  BY <1>4 DEF Replay
<1>5. CASE TxInsert(r)
  BY <1>5 DEF TxInsert
<1>6. CASE Claim(r)
  BY <1>6 DEF Claim
<1>7. CASE Commit(r)
  BY <1>7 DEF Commit
<1>8. CASE List(r)
  BY <1>8 DEF List
<1>9. CASE Read(r)
  BY <1>9 DEF Read
<1>10. CASE Write(r)
  BY <1>10 DEF Write
<1>11. CASE Remove(r)
  BY <1>11 DEF Remove
<1>12. CASE Record(r)
  BY <1>12 DEF Record
<1>13. CASE Fail(r)
  BY <1>13 DEF Fail
<1>14. QED
  BY <1>1, <1>2, <1>3, <1>4, <1>5, <1>6, <1>7, <1>8, <1>9, <1>10, <1>11, <1>12,
     <1>13
  DEF Serve

(* Every statement that may follow is nearer to the answer.                  *)
LEMMA AfterIsNearer ==
  ASSUME NEW label \in Waiting, NEW next \in After(label) \cup {"answered"}
  PROVE  next \in Waiting \cup Ended /\ Ahead(next) < Ahead(label)
<1>. USE DEF After, Ahead, Waiting, Ended
<1>1. CASE label = "lookup"
  BY <1>1
<1>2. CASE label = "txInsert"
  BY <1>2
<1>3. CASE label = "claim"
  BY <1>3
<1>4. CASE label = "read"
  BY <1>4
<1>5. CASE label \in {"insert", "replay", "commit", "list", "write", "remove"}
  BY <1>5
<1>6. CASE label = "record"
  BY <1>6
<1>7. QED  BY <1>1, <1>2, <1>3, <1>4, <1>5, <1>6

(* A crash or the clock moves no request but to its loss.                    *)
LEMMA Aside ==
  ASSUME TypeOK, Crash \/ Tick \/ UNCHANGED vars
  PROVE  /\ UNCHANGED <<call, wid, found>> /\ clock' \in {clock, clock + 1}
         /\ \A r \in Requests :
              pc'[r] = pc[r] \/ (pc[r] \in Waiting /\ pc'[r] = "lost")
  BY DEF Crash, Tick, vars, TypeOK

(* Whatever happens beside it, each step of a request that is being served    *)
(* brings it nearer to its answer: retries and claims never send it back.     *)
THEOREM StatementsAdvanceAlways == Spec => StatementsAdvance
<1>1. ASSUME TypeOK, ControlOK, [Next]_vars, NEW q \in Requests,
             pc[q] \in Waiting, pc'[q] # pc[q]
      PROVE  pc'[q] \in Waiting \cup Ended /\ Ahead(pc'[q]) < Ahead(pc[q])
  <2>1. ASSUME NEW r \in Requests, Arrive(r) \/ Serve(r) \/ Fail(r)
        PROVE  pc'[q] \in Waiting \cup Ended /\ Ahead(pc'[q]) < Ahead(pc[q])
    <3>1. Handles(r)
      BY <1>1, <2>1, Handling
    <3>2. q = r
      BY <1>1, <3>1 DEF Handles
    <3>3. pc'[q] \in After(pc[q]) \cup {"answered"}
      BY <1>1, <3>1, <3>2 DEF Handles
    <3>4. QED  BY <1>1, <3>3, AfterIsNearer
  <2>2. CASE Crash \/ Tick \/ UNCHANGED vars
    <3>1. pc'[q] = "lost"
      BY <1>1, <2>2, Aside
    <3>2. Ahead("lost") = 0 /\ Ahead(pc[q]) \in 1..5
      BY <1>1 DEF Ahead, Waiting
    <3>3. QED  BY <3>1, <3>2 DEF Ended
  <2>3. QED  BY <1>1, <2>1, <2>2 DEF Next, Done
<1>2. TypeOK /\ ControlOK /\ [Next]_vars =>
        [\A r \in Requests : pc[r] \in Waiting /\ pc'[r] # pc[r] =>
           pc'[r] \in Waiting \cup Ended /\ Ahead(pc'[r]) < Ahead(pc[r])]_vars
  BY <1>1
<1>3. QED  BY <1>2, OwnershipInvariant, PTL DEF Spec, StatementsAdvance

(* Every step leaves each open transaction its own row.                      *)
LEMMA NextCommits ==
  ASSUME TypeOK, ControlOK, CommitsOwnRow, [Next]_vars
  PROVE  CommitsOwnRow'
<1>. USE DEF CommitsOwnRow
<1>1. ASSUME NEW q \in Requests, pc[q] \in {"claim", "commit"},
             UNCHANGED <<call[q], wid[q], found[q]>>, clock' \in {clock, clock + 1}
      PROVE  \E time \in 0..clock' :
               found'[q] = {<<wid'[q], [subject |-> call'[q].subject,
                                        content |-> call'[q].body,
                                        updatedAt |-> time]>>}
  <2>1. PICK time \in 0..clock :
          found[q] = {<<wid[q], [subject |-> call[q].subject,
                                 content |-> call[q].body, updatedAt |-> time]>>}
    BY <1>1
  <2>2. time \in 0..clock'
    BY <1>1, <2>1 DEF TypeOK
  <2>3. QED  BY <1>1, <2>1, <2>2
<1>2. ASSUME NEW r \in Requests, Arrive(r) \/ Serve(r) \/ Fail(r)
      PROVE  CommitsOwnRow'
  <2>1. Handles(r)
    BY <1>2, Handling
  <2>2. ASSUME NEW q \in Requests \ {r}, pc'[q] \in {"claim", "commit"}
        PROVE  \E time \in 0..clock' :
                 found'[q] = {<<wid'[q], [subject |-> call'[q].subject,
                                          content |-> call'[q].body,
                                          updatedAt |-> time]>>}
    BY <1>1, <2>1, <2>2 DEF Handles
  <2>3. ASSUME pc'[r] \in {"claim", "commit"}
        PROVE  \E time \in 0..clock' :
                 found'[r] = {<<wid'[r], [subject |-> call'[r].subject,
                                          content |-> call'[r].body,
                                          updatedAt |-> time]>>}
    <3>1. pc[r] \in {"txInsert", "claim"} /\ clock' = clock
      BY <2>1, <2>3 DEF Handles
    <3>2. CASE pc[r] = "claim"
      <4>1. Claim(r) \/ Fail(r)
        BY <1>2, <3>2
        DEF Arrive, Serve, Insert, Lookup, Replay, TxInsert, Commit, List, Read, Write,
            Remove, Record
      <4>2. UNCHANGED <<call, wid, found>>
        BY <4>1 DEF Claim, Fail
      <4>3. QED  BY <1>1, <3>1, <3>2, <4>2
    <3>3. CASE pc[r] = "txInsert"
      <4>1. TxInsert(r) \/ (Fail(r) /\ pc'[r] = "answered")
        BY <1>2, <3>3
        DEF Arrive, Serve, Insert, Lookup, Replay, Claim, Commit, List, Read, Write,
            Remove, Record, Fail, Reply, TypeOK
      <4>2. PICK w \in FreshIds : Hold(r, w, NewRow(call[r]), NewRow(call[r]).subject)
        BY <2>3, <4>1 DEF TxInsert
      <4>3. wid'[r] = w /\ found'[r] = {<<w, NewRow(call[r])>>} /\ call'[r] = call[r]
        BY <2>3, <4>1, <4>2 DEF Hold, TypeOK, TxInsert
      <4>4. clock \in 0..clock'
        BY <3>1 DEF TypeOK
      <4>5. QED  BY <4>3, <4>4 DEF NewRow
    <3>4. QED  BY <3>1, <3>2, <3>3
  <2>4. QED  BY <2>2, <2>3
<1>3. CASE Crash \/ Tick \/ UNCHANGED vars
  <2>1. ASSUME NEW q \in Requests, pc'[q] \in {"claim", "commit"}
        PROVE  /\ pc[q] \in {"claim", "commit"}
               /\ UNCHANGED <<call[q], wid[q], found[q]>>
               /\ clock' \in {clock, clock + 1}
    BY <1>3, <2>1, Aside
  <2>2. QED  BY <1>1, <2>1
<1>4. QED  BY <1>2, <1>3 DEF Next, Done

(* A keyed create that waits for a claim waits for a transaction that has the  *)
(* one row it will publish, its own call's, and so is free to commit.          *)
THEOREM CommitsOwnRowAlways == Spec => []CommitsOwnRow
<1>1. Init => CommitsOwnRow
  BY DEF Init, CommitsOwnRow
<1>2. TypeOK /\ ControlOK /\ CommitsOwnRow /\ [Next]_vars => CommitsOwnRow'
  BY NextCommits
<1>3. QED  BY <1>1, <1>2, OwnershipInvariant, PTL DEF Spec
=============================================================================
