------------------------- MODULE WidgetStoreRefinement -------------------------
(* WidgetStore implements OwnedWidgets under the mapping Shelf, Names: a      *)
(* statement that changes widget rows is one step of OwnedWidgets, and every  *)
(* other step leaves the mapped state alone.                                  *)
EXTENDS WidgetStoreProofs

(* The initial tables map to an empty shelf.                                  *)
LEMMA InitMaps == Init => Owned!AInit
  BY DEF Init, Owned!AInit, Owned!Unborn, Shelf, Names, Born

\* A step that changes neither rows nor keys, nor which widgets were written.
LEMMA QuietStep ==
  ASSUME TypeOK, UNCHANGED <<widgets, idem, wrote>>,
         \A q \in wrote : wid'[q] = wid[q]
  PROVE  UNCHANGED <<Shelf, Names>>
  BY DEF Shelf, Names, Born

\* Row w changes from absent to `row`: a birth, for w was never written before.
LEMMA BirthMaps ==
  ASSUME TypeOK, NEW w \in WidgetIds, NEW row \in Rows, NEW r \in Requests,
         widgets[w] = None, widgets' = [widgets EXCEPT ![w] = row],
         \A q \in wrote : wid[q] # w /\ wid'[q] = wid[q],
         wid'[r] = w, wrote' = wrote \cup {r}
  PROVE  /\ Owned!Bear(w, row.subject, row.content)
         /\ Shelf[w] = Owned!Unborn
<1>1. row # None
  BY NoneAssumption
<1>2. Shelf[w] = Owned!Unborn
  BY DEF Shelf, Born, Owned!Unborn
<1>3. Shelf'[w] = Owned!Live(row.subject, row.content)
  BY <1>1 DEF Shelf, Owned!Live, TypeOK
<1>4. ASSUME NEW v \in WidgetIds \ {w} PROVE Shelf'[v] = Shelf[v]
  <2>1. widgets'[v] = widgets[v] /\ (Born(v)' <=> Born(v))
    BY DEF Born, TypeOK
  <2>2. QED  BY <2>1 DEF Shelf
<1>5. Shelf' = [Shelf EXCEPT ![w] = Owned!Live(row.subject, row.content)]
  <2>1. Shelf' = [v \in WidgetIds |-> Shelf'[v]] /\ Shelf = [v \in WidgetIds |-> Shelf[v]]
    BY DEF Shelf
  <2>2. QED  BY <1>3, <1>4, <2>1
<1>6. QED  BY <1>2, <1>5 DEF Owned!Bear

(* Every step of the service is a step of OwnedWidgets or leaves it alone.    *)
LEMMA NextMaps ==
  ASSUME TypeOK, ControlOK, OwnershipInv, [Next]_vars
  PROVE  [Owned!ANext]_<<Shelf, Names>>
<1>. USE DEF tables, Goto, Reply, Hold
<1>1. ASSUME NEW r \in Requests, Insert(r) PROVE Owned!ANext
  <2>1. PICK w \in WidgetIds \ minted :
          /\ widgets' = [widgets EXCEPT ![w] = NewRow(call[r])]
          /\ wid' = [wid EXCEPT ![r] = w]
    BY <1>1 DEF Insert, FreshIds
  <2>2. /\ widgets[w] = None
        /\ \A q \in Requests : wid[q] # w
        /\ r \notin wrote
    BY <1>1, <2>1, NoneAssumption
    DEF OwnershipInv, IdsMinted, CreationsNamed, TypeOK, Insert
  <2>3. NewRow(call[r]) \in Rows
    BY <1>1, CallFacts
    DEF Insert, NewRow, Rows, ControlOK, CallType, TypeOK, Creating
  <2>4. Owned!Bear(w, NewRow(call[r]).subject, NewRow(call[r]).content)
    <3>1. /\ wrote' = wrote \cup {r} /\ wid'[r] = w
          /\ \A q \in wrote : wid[q] # w /\ wid'[q] = wid[q]
      BY <1>1, <2>1, <2>2 DEF Insert, TypeOK
    <3>2. QED  BY <2>1, <2>2, <2>3, <3>1, BirthMaps
  <2>5. UNCHANGED Names
    BY <1>1 DEF Insert, Names
  <2>6. QED  BY <2>3, <2>4, <2>5
             DEF Owned!ANext, Owned!Add, Rows, Contents, Owned!Contents
<1>2. ASSUME NEW r \in Requests, Commit(r) PROVE Owned!ANext
  <2>1. PICK p \in found[r] :
          /\ widgets' = [widgets EXCEPT ![p[1]] = p[2]]
          /\ idem' = [idem EXCEPT ![IdemKey(call[r])] =
                        [hash |-> call[r].body, widget |-> p[1]]]
    BY <1>2 DEF Commit
  <2>2. /\ p[1] = wid[r] /\ p[1] \in WidgetIds /\ p[2] \in Rows
        /\ p[2].subject = call[r].subject /\ widgets[wid[r]] = None
        /\ \A q \in Requests \ {r} : wid[q] # wid[r]
        /\ r \notin wrote
    BY <1>2, <2>1 DEF Commit, TypeOK, OwnershipInv, OpenRowsPrivate, HeldRowsOwned,
                      CreationsNamed
  <2>3. Owned!Bear(p[1], p[2].subject, p[2].content)
    <3>1. /\ wrote' = wrote \cup {r} /\ wid'[r] = p[1]
          /\ \A q \in wrote : wid[q] # p[1] /\ wid'[q] = wid[q]
      BY <1>2, <2>2 DEF Commit, TypeOK
    <3>2. widgets[p[1]] = None /\ widgets' = [widgets EXCEPT ![p[1]] = p[2]]
      BY <2>1, <2>2
    <3>3. QED  BY <2>2, <3>1, <3>2, BirthMaps
  <2>4. /\ call[r].subject \in Subjects /\ call[r].key \in Keys
        /\ IdemKey(call[r]) = <<p[2].subject, call[r].key>>
        /\ idem[IdemKey(call[r])] = None
    BY <1>2, <2>2, CallFacts
    DEF Commit, ControlOK, CallType, Creating, IdemKey, OwnershipInv, ClaimsExclusive
  <2>5. /\ Names[IdemKey(call[r])] = None
        /\ Names' = [Names EXCEPT ![IdemKey(call[r])] = p[1]]
    <3>1. [hash |-> call[r].body, widget |-> p[1]] \in IdemRows
      BY <1>2, <2>2 DEF Commit, ControlOK, Creating, IdemRows
    <3>2. IdemKey(call[r]) \in Subjects \X Keys
      BY <2>2, <2>4
    <3>3. QED  BY <2>1, <2>4, <3>1, <3>2, NoneAssumption DEF Names, TypeOK
  <2>6. QED
    BY <2>2, <2>3, <2>4, <2>5
    DEF Owned!ANext, Owned!AddNamed, Rows, Contents, Owned!Contents
<1>3. ASSUME NEW r \in Requests, Write(r), widgets[wid[r]] # None PROVE Owned!ANext
  <2>1. /\ wid[r] \in WidgetIds /\ call[r] \in CallType /\ call[r].body \in Patches
        /\ widgets[wid[r]] \in Rows /\ widgets[wid[r]].subject = call[r].subject
    BY <1>3, CallFacts
    DEF Write, TypeOK, ControlOK, Holding, OwnershipInv, TargetsOwned
  <2>. DEFINE w == wid[r]
              s == call[r].subject
              row == UpdatedRow(call[r], BaseRow(r), stamp[r])
              change == [f \in Fields |-> IF f \in DOMAIN call[r].body THEN call[r].body[f]
                                          ELSE Shelf[w].content[f]]
  <2>2. Owned!Owns(s, w) /\ Shelf[w].content = widgets[w].content
    BY <1>3, <2>1 DEF Owned!Owns, Shelf
  <2>3. row.subject = s /\ row.content = change /\ row \in Rows
    <3>1. Merge(call[r].body, widgets[w].content) \in Contents
      BY <2>1, MergeType DEF Rows
    <3>2. StoredSubject(call[r], BaseRow(r)) = s
      BY <2>1 DEF StoredSubject, BaseRow
    <3>3. Merge(call[r].body, widgets[w].content) = change
      BY <2>2 DEF Merge
    <3>4. QED
      BY <2>1, <3>1, <3>2, <3>3 DEF UpdatedRow, BaseRow, Rows, TypeOK, CallType
  <2>4. /\ widgets' = [widgets EXCEPT ![w] = row] /\ row # None
        /\ UNCHANGED <<idem, wid>> /\ wrote' = wrote \cup {r}
    BY <1>3, <2>3, NoneAssumption DEF Write
  <2>5. Shelf'[w] = Owned!Live(s, change)
    <3>1. widgets'[w] = row /\ widgets'[w] # None
      BY <2>1, <2>4 DEF TypeOK
    <3>2. Shelf'[w] = [life |-> "live", owner |-> row.subject, content |-> row.content]
      BY <2>1, <3>1 DEF Shelf
    <3>3. QED  BY <2>3, <3>2 DEF Owned!Live
  <2>6. ASSUME NEW v \in WidgetIds \ {w} PROVE Shelf'[v] = Shelf[v]
    <3>1. widgets'[v] = widgets[v] /\ (Born(v)' <=> Born(v))
      BY <2>4 DEF Born, TypeOK
    <3>2. QED  BY <3>1 DEF Shelf
  <2>7. Shelf' = [Shelf EXCEPT ![w] = Owned!Live(s, change)]
    BY <2>5, <2>6 DEF Shelf
  <2>8. UNCHANGED Names
    BY <2>4 DEF Names
  <2>9. Owned!Change(w, s, call[r].body)
    BY <2>2, <2>7, <2>8 DEF Owned!Change
  <2>10. QED
    BY <2>1, <2>9 DEF Owned!ANext, CallType, Patches, Owned!Patches
<1>4. ASSUME NEW r \in Requests, Remove(r), widgets[wid[r]] # None PROVE Owned!ANext
  <2>1. /\ wid[r] \in WidgetIds /\ call[r] \in CallType
        /\ widgets[wid[r]].subject = call[r].subject
    BY <1>4, CallFacts
    DEF Remove, TypeOK, ControlOK, Holding, OwnershipInv, TargetsOwned
  <2>. DEFINE w == wid[r]
              s == call[r].subject
  <2>2. Owned!Owns(s, w)
    BY <1>4, <2>1 DEF Owned!Owns, Shelf
  <2>3. /\ widgets' = [widgets EXCEPT ![w] = None] /\ idem' = WithoutWidget(w)
        /\ UNCHANGED wid /\ wrote' = wrote \cup {r}
    BY <1>4 DEF Remove
  <2>4. Shelf'[w] = Owned!Gone
    <3>1. widgets'[w] = None
      BY <2>1, <2>3 DEF TypeOK
    <3>2. \E q \in wrote' : wid'[q] = w
      BY <2>3
    <3>3. QED  BY <2>1, <3>1, <3>2 DEF Shelf, Born, Owned!Gone
  <2>5. ASSUME NEW v \in WidgetIds \ {w} PROVE Shelf'[v] = Shelf[v]
    <3>1. widgets'[v] = widgets[v] /\ (Born(v)' <=> Born(v))
      BY <2>3 DEF Born, TypeOK
    <3>2. QED  BY <3>1 DEF Shelf
  <2>6. Shelf' = [Shelf EXCEPT ![w] = Owned!Gone]
    BY <2>4, <2>5 DEF Shelf
  <2>7. ASSUME NEW k \in Subjects \X Keys
        PROVE  Names'[k] = IF Names[k] = w THEN None ELSE Names[k]
    BY <2>1, <2>3, NoneAssumption DEF Names, WithoutWidget
  <2>8. Owned!Discard(w, s)
    BY <2>2, <2>6, <2>7 DEF Owned!Discard, Names
  <2>9. QED  BY <2>1, <2>8 DEF Owned!ANext, CallType
<1>5. ASSUME UNCHANGED <<widgets, idem, wrote>>,
             \A q \in wrote : wid'[q] = wid[q]
      PROVE  UNCHANGED <<Shelf, Names>>
  BY <1>5, QuietStep
<1>6. ASSUME NEW r \in Requests,
             Arrive(r) \/ Lookup(r) \/ Replay(r) \/ TxInsert(r) \/ Claim(r) \/ List(r)
               \/ Read(r) \/ Record(r) \/ Fail(r)
      PROVE  UNCHANGED <<Shelf, Names>>
  <2>1. UNCHANGED <<widgets, idem, wrote>>
    BY <1>6 DEF Arrive, Lookup, Replay, TxInsert, Claim, List, Read, Record, Fail
  <2>2. UNCHANGED wid \/ (wid' = [wid EXCEPT ![r] = wid'[r]] /\ r \notin wrote)
    BY <1>6
    DEF Arrive, Lookup, Replay, TxInsert, Claim, List, Read, Record, Fail,
        OwnershipInv, CreationsNamed, TypeOK
  <2>3. QED  BY <1>5, <2>1, <2>2 DEF TypeOK
<1>7. ASSUME NEW r \in Requests, Write(r) \/ Remove(r), widgets[wid[r]] = None
      PROVE  UNCHANGED <<Shelf, Names>>
  BY <1>5, <1>7 DEF Write, Remove
<1>8. ASSUME Crash \/ Tick \/ UNCHANGED vars PROVE UNCHANGED <<Shelf, Names>>
  BY <1>5, <1>8 DEF Crash, Tick, vars
<1>9. QED
  BY <1>1, <1>2, <1>3, <1>4, <1>6, <1>7, <1>8 DEF Next, Serve, Done

(* The widget service implements OwnedWidgets for every number of concurrent  *)
(* requests, subjects, widgets and keys, with a transfer policy that grants   *)
(* nothing, as the code has it.                                               *)
THEOREM WidgetStoreImplementsOwnedWidgets == Spec => ImplementsOwnedWidgets
<1>1. TypeOK /\ ControlOK /\ OwnershipInv /\ [Next]_vars
        => [Owned!ANext]_<<Shelf, Names>>
  BY NextMaps
<1>2. QED
  BY <1>1, InitMaps, OwnershipInvariant, PTL
  DEF Spec, ImplementsOwnedWidgets, Owned!ASpec
=============================================================================
