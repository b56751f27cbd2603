------------------------ MODULE WidgetManagerProofs ------------------------
(* The form and the saves of the widget page, for any numbers of overlapping *)
(* calls, widgets, contents and filters.                                     *)
EXTENDS WidgetManager, TLAPS

FormInv == FormIsOfEdited /\ SaveOwnsForm /\ PageHeld /\ ClosureOK

\* Showing a row, or nothing, keeps the form's state within its type.
LEMMA ShowType ==
  ASSUME TypeOK, NEW row \in Rows \cup {None}, NEW shown \in BOOLEAN,
         Show(row, shown)
  PROVE  /\ editing' \in Rows \cup {None} /\ showForm' \in BOOLEAN
         /\ form' \in [widget : Rows \cup {None}, input : Inputs \cup {Unfit}]
  BY DEF Show, Mounted, Rows, TypeOK

\* An answer is of its type, whatever becomes of it on its way.
LEMMA AnswerType ==
  ASSUME TypeOK, NEW o \in Ops, NEW s, NEW ids \in SUBSET Widgets,
         NEW row \in Rows \cup {None}, GiveData(o, s, ids, row)
  PROVE  reply' \in [Ops -> Replies \cup {None}]
<1>1. PICK t \in Relayed(s) :
        reply' = [reply EXCEPT ![o] =
                    [ok  |-> AxiosOk(t),
                     ids |-> IF AxiosOk(t) THEN ids ELSE {},
                     row |-> IF AxiosOk(t) THEN row ELSE None]]
  BY DEF GiveData
<1>2. AxiosOk(t) \in BOOLEAN
  BY DEF AxiosOk
<1>3. [ok  |-> AxiosOk(t),
       ids |-> IF AxiosOk(t) THEN ids ELSE {},
       row |-> IF AxiosOk(t) THEN row ELSE None] \in Replies
  BY <1>2 DEF Replies
<1>4. QED  BY <1>1, <1>3 DEF TypeOK

LEMMA InitInv == ASSUME Init PROVE TypeOK /\ FormInv
<1>1. PICK o \in Ops :
        /\ pc = [q \in Ops |-> IF q = o THEN "list" ELSE "idle"]
        /\ arg = [q \in Ops |->
                   IF q = o THEN [id |-> None, input |-> None, filter |-> Inputs]
                            ELSE None]
  BY DEF Init
<1>2. [id |-> None, input |-> None, filter |-> Inputs] \in Args
  BY InputsAssumption DEF Args
<1>3. TypeOK
  <2>1. pc \in [Ops -> Loads \cup {"idle", "save", "open", "remove"}]
    BY <1>1 DEF Loads
  <2>2. arg \in [Ops -> Args \cup {None}]
    BY <1>1, <1>2
  <2>3. QED
    BY <2>1, <2>2, InputsAssumption DEF Init, TypeOK, Mounted
<1>4. ClosureOK
  BY <1>1, <1>2 DEF ClosureOK
<1>5. Holders = {} /\ \A q \in Ops : pc[q] \in {"list", "idle"}
  BY <1>1 DEF Holders
<1>6. FormIsOfEdited /\ SaveOwnsForm /\ PageHeld
  BY <1>5 DEF Init, FormIsOfEdited, SaveOwnsForm, PageHeld
<1>7. QED  BY <1>3, <1>4, <1>6 DEF FormInv

\* The way of a call changes the database and the answer only.
LEMMA ServeInv ==
  ASSUME TypeOK, FormInv, NEW o \in Ops, Serve(o)
  PROVE  TypeOK' /\ FormInv'
<1>1. UNCHANGED <<page, pc, arg>>
  BY DEF Serve, Refuse, ServeList, ServeGet, ServeCreate, ServeReplace, ServeDelete
<1>2. reply' \in [Ops -> Replies \cup {None}]
  <2>1. CASE Refuse(o)
    BY <2>1, AnswerType DEF Refuse, Give
  <2>2. CASE ServeList(o)
    BY <2>2, AnswerType DEF ServeList
  <2>3. CASE ServeGet(o)
    <3>1. ASSUME server[arg[o].id] # None
          PROVE  [id |-> arg[o].id, input |-> server[arg[o].id]] \in Rows
      BY <2>3, <3>1 DEF ServeGet, FormInv, ClosureOK, TypeOK, Rows
    <3>2. QED  BY <2>3, <3>1, AnswerType DEF ServeGet, Give
  <2>4. CASE ServeCreate(o)
    BY <2>4, AnswerType DEF ServeCreate, Give
  <2>5. CASE ServeReplace(o)
    BY <2>5, AnswerType DEF ServeReplace, Give
  <2>6. CASE ServeDelete(o)
    BY <2>6, AnswerType DEF ServeDelete, Give
  <2>7. QED  BY <2>1, <2>2, <2>3, <2>4, <2>5, <2>6 DEF Serve
<1>3. /\ server' \in [Widgets -> Inputs \cup {None}]
      /\ born' \subseteq Widgets /\ stored' \subseteq Ops
  <2>1. pc[o] = "save" => arg[o].input \in Inputs
    BY DEF FormInv, ClosureOK
  <2>2. CASE ServeCreate(o)
    BY <2>1, <2>2 DEF ServeCreate, TypeOK
  <2>3. CASE ServeReplace(o)
    BY <2>1, <2>3 DEF ServeReplace, TypeOK
  <2>4. CASE ServeDelete(o)
    BY <2>4 DEF ServeDelete, TypeOK
  <2>5. CASE Refuse(o) \/ ServeList(o) \/ ServeGet(o)
    BY <2>5 DEF Refuse, ServeList, ServeGet, TypeOK
  <2>6. QED  BY <2>2, <2>3, <2>4, <2>5 DEF Serve
<1>4. TypeOK'
  BY <1>1, <1>2, <1>3 DEF TypeOK, page
<1>5. FormInv'
  BY <1>1 DEF page, FormInv, FormIsOfEdited, SaveOwnsForm, PageHeld, ClosureOK, Holders
<1>6. QED  BY <1>4, <1>5

\* An op that begins finds its closure of the right type.
LEMMA BeginType ==
  ASSUME TypeOK, ClosureOK, NEW o \in Ops,
         NEW label \in {"list", "open", "remove", "save"},
         NEW id \in Widgets \cup {None}, NEW input \in Inputs \cup {None},
         NEW f \in Filters, Begin(o, label, id, input, f),
         label \in {"open", "remove"} => id \in Widgets,
         label = "save" => input \in Inputs
  PROVE  /\ pc' \in [Ops -> Loads \cup {"idle", "save", "open", "remove"}]
         /\ arg' \in [Ops -> Args \cup {None}]
         /\ UNCHANGED <<reply, stored>>
         /\ pc[o] = "idle" /\ pc'[o] = label /\ arg'[o].id = id
         /\ \A q \in Ops \ {o} : pc'[q] = pc[q] /\ arg'[q] = arg[q]
         /\ ClosureOK'
<1>1. [id |-> id, input |-> input, filter |-> f] \in Args
  BY DEF Args
<1>2. /\ pc' = [pc EXCEPT ![o] = label]
      /\ arg' = [arg EXCEPT ![o] = [id |-> id, input |-> input, filter |-> f]]
      /\ UNCHANGED <<reply, stored>> /\ pc[o] = "idle"
  BY DEF Begin
<1>3. /\ pc'[o] = label /\ arg'[o] = [id |-> id, input |-> input, filter |-> f]
      /\ \A q \in Ops \ {o} : pc'[q] = pc[q] /\ arg'[q] = arg[q]
  BY <1>2 DEF TypeOK
<1>4. ClosureOK'
  BY <1>1, <1>3 DEF ClosureOK
<1>5. QED  BY <1>1, <1>2, <1>3, <1>4 DEF TypeOK, Loads

\* What the user starts.
LEMMA UserInv ==
  ASSUME TypeOK, FormInv, NEW o \in Ops, User(o)
  PROVE  TypeOK' /\ FormInv'
<1>. USE DEF FormInv
<1>. DEFINE Begun(label, id) ==
              /\ pc' \in [Ops -> Loads \cup {"idle", "save", "open", "remove"}]
              /\ arg' \in [Ops -> Args \cup {None}]
              /\ UNCHANGED <<reply, stored>>
              /\ pc[o] = "idle" /\ pc'[o] = label /\ arg'[o].id = id
              /\ \A q \in Ops \ {o} : pc'[q] = pc[q] /\ arg'[q] = arg[q]
              /\ ClosureOK'
<1>1. CASE ChangeFilter(o)
  <2>1. PICK f \in Filters : filter' = f /\ Begin(o, "list", None, None, f)
    BY <1>1 DEF ChangeFilter, LoadFilter
  <2>2. Begun("list", None)
    BY <2>1, BeginType
  <2>3. /\ UNCHANGED <<server, born, list, busy, editing, showForm, form>>
        /\ loading' = TRUE /\ crossed' \in BOOLEAN
    BY <1>1 DEF ChangeFilter, KeepForm
  <2>4. TypeOK'
    BY <2>1, <2>2, <2>3 DEF TypeOK
  <2>5. Holders' = Holders
    BY <2>2 DEF Holders
  <2>6. FormIsOfEdited' /\ SaveOwnsForm' /\ PageHeld'
    BY <2>2, <2>3, <2>5 DEF FormIsOfEdited, SaveOwnsForm, PageHeld, Holders
  <2>7. QED  BY <2>2, <2>4, <2>6
<1>2. CASE openEdit(o)
  <2>1. PICK w \in Widgets : CanClick(w) /\ Begin(o, "open", w, None, filter)
    BY <1>2 DEF openEdit
  <2>2. Begun("open", w)
    BY <2>1, BeginType DEF TypeOK
  <2>3. /\ UNCHANGED <<server, born, list, loading, filter, crossed,
                       editing, showForm, form>>
        /\ busy' = TRUE /\ ~busy /\ ~showForm
    BY <1>2, <2>1 DEF openEdit, KeepForm, CanClick
  <2>4. TypeOK'
    BY <2>2, <2>3 DEF TypeOK
  <2>5. Holders = {} /\ Holders' = {o}
    BY <2>2, <2>3 DEF Holders, PageHeld
  <2>6. \A q \in Ops : pc'[q] # "save"
    BY <2>2, <2>5 DEF Holders
  <2>7. FormIsOfEdited' /\ SaveOwnsForm' /\ PageHeld'
    BY <2>3, <2>5, <2>6 DEF FormIsOfEdited, SaveOwnsForm, PageHeld
  <2>8. QED  BY <2>2, <2>4, <2>7
<1>3. CASE deleteWidget(o)
  <2>1. PICK w \in Widgets : CanClick(w) /\ Begin(o, "remove", w, None, filter)
    BY <1>3 DEF deleteWidget
  <2>2. Begun("remove", w)
    BY <2>1, BeginType DEF TypeOK
  <2>3. UNCHANGED <<server, born, list, loading, busy, filter, crossed,
                    editing, showForm, form>>
    BY <1>3 DEF deleteWidget, KeepForm
  <2>4. TypeOK'
    BY <2>2, <2>3 DEF TypeOK
  <2>5. Holders' = Holders
    BY <2>2 DEF Holders
  <2>6. FormIsOfEdited' /\ SaveOwnsForm' /\ PageHeld'
    BY <2>2, <2>3, <2>5 DEF FormIsOfEdited, SaveOwnsForm, PageHeld, Holders
  <2>7. QED  BY <2>2, <2>4, <2>6
<1>4. CASE saveWidget(o)
  <2>1. /\ Begin(o, "save", IdOf(editing), form.input, filter)
        /\ form.input \in Inputs /\ IdOf(editing) \in Widgets \cup {None}
        /\ UNCHANGED <<server, born, list, loading, filter, crossed,
                       editing, showForm, form>>
        /\ busy' = TRUE /\ ~busy /\ showForm
    BY <1>4 DEF saveWidget, MaySave, Accepted, KeepForm, IdOf, TypeOK, Rows
  <2>2. Begun("save", IdOf(editing))
    BY <2>1, BeginType DEF TypeOK
  <2>3. TypeOK'
    BY <2>1, <2>2 DEF TypeOK
  <2>4. Holders = {} /\ Holders' = {o}
    BY <2>1, <2>2 DEF Holders, PageHeld
  <2>5. \A q \in Ops \ {o} : pc'[q] \notin {"save", "open"}
    BY <2>2, <2>4 DEF Holders
  <2>6. FormIsOfEdited' /\ SaveOwnsForm' /\ PageHeld'
    BY <2>1, <2>2, <2>4, <2>5 DEF FormIsOfEdited, SaveOwnsForm, PageHeld, IdOf
  <2>7. QED  BY <2>2, <2>3, <2>6
<1>5. QED  BY <1>1, <1>2, <1>3, <1>4 DEF User

\* An op that ends leaves the others as they were.
LEMMA FinishType ==
  ASSUME TypeOK, ClosureOK, NEW o \in Ops, Finish(o)
  PROVE  /\ pc' \in [Ops -> Loads \cup {"idle", "save", "open", "remove"}]
         /\ arg' \in [Ops -> Args \cup {None}]
         /\ reply' \in [Ops -> Replies \cup {None}] /\ stored' \subseteq Ops
         /\ pc'[o] = "idle"
         /\ \A q \in Ops \ {o} : pc'[q] = pc[q] /\ arg'[q] = arg[q]
         /\ ClosureOK' /\ Holders' = Holders \ {o}
<1>1. /\ pc' = [pc EXCEPT ![o] = "idle"] /\ arg' = [arg EXCEPT ![o] = None]
      /\ reply' = [reply EXCEPT ![o] = None] /\ stored' = stored \ {o}
  BY DEF Finish
<1>2. pc'[o] = "idle" /\ \A q \in Ops \ {o} : pc'[q] = pc[q] /\ arg'[q] = arg[q]
  BY <1>1 DEF TypeOK
<1>3. ClosureOK'
  BY <1>2 DEF ClosureOK
<1>4. Holders' = Holders \ {o}
  BY <1>2 DEF Holders
<1>5. QED  BY <1>1, <1>2, <1>3, <1>4 DEF TypeOK, Loads

\* So does one that loads the list anew.
LEMMA ReloadType ==
  ASSUME TypeOK, ClosureOK, NEW o \in Ops, pc[o] # "idle",
         NEW label \in {"relist", "saved"}, Reload(o, label)
  PROVE  /\ pc' \in [Ops -> Loads \cup {"idle", "save", "open", "remove"}]
         /\ arg' \in [Ops -> Args \cup {None}]
         /\ reply' \in [Ops -> Replies \cup {None}] /\ stored' \subseteq Ops
         /\ loading' = TRUE /\ list' = list
         /\ pc'[o] = label
         /\ \A q \in Ops \ {o} : pc'[q] = pc[q] /\ arg'[q] = arg[q]
         /\ ClosureOK'
<1>1. /\ pc' = [pc EXCEPT ![o] = label]
      /\ arg' = [arg EXCEPT ![o] = [arg[o] EXCEPT !.id = None, !.input = None]]
      /\ reply' = [reply EXCEPT ![o] = None] /\ stored' = stored \ {o}
      /\ loading' = TRUE /\ list' = list
  BY DEF Reload
<1>2. [arg[o] EXCEPT !.id = None, !.input = None] \in Args
  BY DEF ClosureOK, Args
<1>3. /\ pc'[o] = label /\ arg'[o] \in Args
      /\ \A q \in Ops \ {o} : pc'[q] = pc[q] /\ arg'[q] = arg[q]
  BY <1>1, <1>2 DEF TypeOK
<1>4. ClosureOK'
  BY <1>3 DEF ClosureOK
<1>5. QED  BY <1>1, <1>2, <1>3, <1>4 DEF TypeOK, Loads

\* How an op goes on when its call is answered.
LEMMA ResumeInv ==
  ASSUME TypeOK, FormInv, NEW o \in Ops, Resume(o)
  PROVE  TypeOK' /\ FormInv'
<1>. USE DEF FormInv
<1>1. CASE Loaded(o)
  <2>1. /\ Finish(o) /\ pc[o] \in Loads /\ reply[o] \in Replies
        /\ UNCHANGED <<server, born, filter, editing, showForm, form>>
        /\ loading' = FALSE /\ busy' = (IF pc[o] = "saved" THEN FALSE ELSE busy)
        /\ crossed' \in BOOLEAN
    BY <1>1 DEF Loaded, KeepForm, TypeOK
  <2>2. list' \in [ids : SUBSET Widgets, filter : Filters]
    BY <1>1, <2>1 DEF Loaded, TypeOK, ClosureOK, Loads, Args, Replies
  <2>3. TypeOK'
    BY <2>1, <2>2, FinishType DEF TypeOK
  <2>4. \A q \in Holders \ {o} : busy'
    BY <2>1 DEF PageHeld, SaveOwnsForm, Holders
  <2>5. \A q \in Ops : pc'[q] = "save" => busy'
    BY <2>1, <2>4, FinishType DEF Holders
  <2>6. FormIsOfEdited' /\ SaveOwnsForm' /\ PageHeld'
    BY <2>1, <2>4, <2>5, FinishType
    DEF FormIsOfEdited, SaveOwnsForm, PageHeld, IdOf
  <2>7. QED  BY <2>1, <2>3, <2>6, FinishType
<1>2. CASE Saved(o)
  <2>1. /\ pc[o] = "save" /\ Reload(o, "saved") /\ Show(None, FALSE)
        /\ UNCHANGED <<server, born, busy, filter, crossed>>
    BY <1>2 DEF Saved, Answered
  <2>2. Holders = {o} /\ busy
    BY <2>1 DEF Holders, SaveOwnsForm, PageHeld
  <2>3. /\ pc'[o] = "saved" /\ ClosureOK'
        /\ \A q \in Ops \ {o} : pc'[q] = pc[q]
    BY <2>1, ReloadType
  <2>4. TypeOK'
    BY <2>1, ReloadType, ShowType DEF TypeOK
  <2>5. Holders' = {o} /\ (\A q \in Ops : pc'[q] # "save") /\ showForm' = FALSE
    BY <2>1, <2>2, <2>3 DEF Holders, Show
  <2>6. FormIsOfEdited' /\ SaveOwnsForm' /\ PageHeld'
    BY <2>1, <2>2, <2>5 DEF FormIsOfEdited, SaveOwnsForm, PageHeld
  <2>7. QED  BY <2>3, <2>4, <2>6
<1>3. CASE NotSaved(o) \/ NotOpened(o)
  <2>1. /\ Finish(o) /\ pc[o] \in {"save", "open"} /\ busy' = FALSE
        /\ UNCHANGED <<server, born, list, loading, filter, crossed,
                       editing, showForm, form>>
    BY <1>3 DEF NotSaved, NotOpened, Answered, FreesPage, KeepForm
  <2>2. TypeOK'
    BY <2>1, FinishType DEF TypeOK
  <2>3. Holders' = {}
    BY <2>1, FinishType DEF Holders, SaveOwnsForm
  <2>4. \A q \in Ops : pc'[q] \notin {"save", "open"}
    BY <2>3 DEF Holders
  <2>5. FormIsOfEdited' /\ SaveOwnsForm' /\ PageHeld'
    BY <2>1, <2>3, <2>4 DEF FormIsOfEdited, SaveOwnsForm, PageHeld
  <2>6. QED  BY <2>1, <2>2, <2>5, FinishType
<1>4. CASE Opened(o)
  <2>1. /\ Finish(o) /\ pc[o] = "open" /\ busy' = FALSE
        /\ reply[o].row \in Rows \cup {None} /\ Show(reply[o].row, TRUE)
        /\ UNCHANGED <<server, born, list, loading, filter, crossed>>
    BY <1>4 DEF Opened, Answered, TypeOK, Replies
  <2>2. TypeOK'
    BY <2>1, FinishType, ShowType DEF TypeOK
  <2>3. Holders' = {}
    BY <2>1, FinishType DEF Holders, SaveOwnsForm
  <2>4. \A q \in Ops : pc'[q] \notin {"save", "open"}
    BY <2>3 DEF Holders
  <2>5. showForm => editing = None
    BY <2>1 DEF PageHeld
  <2>6. form'.widget = editing'
    <3>1. CASE showForm /\ reply[o].row = None
      BY <2>1, <2>5, <3>1 DEF Show, Mounted, FormIsOfEdited
    <3>2. CASE ~(showForm /\ reply[o].row = None)
      <4>1. FormKey(reply[o].row, TRUE) # FormKey(editing, showForm)
        BY <2>1, <2>5, <3>2, InputsAssumption DEF FormKey, IdOf, Rows, TypeOK
      <4>2. QED  BY <2>1, <4>1 DEF Show, Mounted
    <3>3. QED  BY <3>1, <3>2
  <2>7. FormIsOfEdited' /\ SaveOwnsForm' /\ PageHeld'
    BY <2>3, <2>4, <2>6 DEF FormIsOfEdited, SaveOwnsForm, PageHeld
  <2>8. QED  BY <2>1, <2>2, <2>7, FinishType
<1>5. CASE Removed(o)
  <2>1. /\ pc[o] = "remove" /\ Reload(o, "relist")
        /\ UNCHANGED <<server, born, busy, filter, crossed,
                       editing, showForm, form>>
    BY <1>5 DEF Removed, Answered, KeepForm
  <2>2. /\ pc'[o] = "relist" /\ ClosureOK'
        /\ \A q \in Ops \ {o} : pc'[q] = pc[q] /\ arg'[q] = arg[q]
    BY <2>1, ReloadType
  <2>3. TypeOK'
    BY <2>1, ReloadType DEF TypeOK
  <2>4. Holders' = Holders
    BY <2>1, <2>2 DEF Holders
  <2>5. FormIsOfEdited' /\ SaveOwnsForm' /\ PageHeld'
    BY <2>1, <2>2, <2>4 DEF FormIsOfEdited, SaveOwnsForm, PageHeld, Holders, IdOf
  <2>6. QED  BY <2>2, <2>3, <2>5
<1>6. CASE NotRemoved(o)
  <2>1. /\ Finish(o) /\ pc[o] = "remove"
        /\ UNCHANGED <<server, born, list, loading, busy, filter, crossed,
                       editing, showForm, form>>
    BY <1>6 DEF NotRemoved, Answered, KeepForm
  <2>2. TypeOK'
    BY <2>1, FinishType DEF TypeOK
  <2>3. Holders' = Holders
    BY <2>1, FinishType DEF Holders
  <2>4. FormIsOfEdited' /\ SaveOwnsForm' /\ PageHeld'
    BY <2>1, <2>3, FinishType DEF FormIsOfEdited, SaveOwnsForm, PageHeld, Holders, IdOf
  <2>5. QED  BY <2>1, <2>2, <2>4, FinishType
<1>7. QED  BY <1>1, <1>2, <1>3, <1>4, <1>5, <1>6 DEF Resume

\* Every step keeps the invariant.
LEMMA NextInv ==
  ASSUME TypeOK, FormInv, [Next]_vars
  PROVE  TypeOK' /\ FormInv'
<1>. USE DEF FormInv, ops
<1>1. CASE ClickCreate
  <2>1. /\ UNCHANGED <<server, born, list, loading, busy, filter, crossed, ops>>
        /\ Show(None, TRUE) /\ ~showForm
    BY <1>1 DEF ClickCreate
  <2>2. TypeOK'
    BY <2>1, ShowType DEF TypeOK
  <2>3. editing' = None /\ form'.widget = None
    BY <2>1 DEF Show, FormKey, Mounted
  <2>4. Holders' = Holders /\ \A o \in Ops : pc[o] # "save"
    BY <2>1 DEF Holders, SaveOwnsForm
  <2>5. QED
    BY <2>1, <2>2, <2>3, <2>4
    DEF FormIsOfEdited, SaveOwnsForm, PageHeld, ClosureOK
<1>2. CASE Type
  <2>1. /\ UNCHANGED <<server, born, list, loading, busy, filter, editing,
                       showForm, crossed, ops>>
        /\ form'.widget = form.widget
        /\ form' \in [widget : Rows \cup {None}, input : Inputs \cup {Unfit}]
    BY <1>2 DEF Type, TypeOK
  <2>2. QED
    BY <2>1
    DEF TypeOK, FormIsOfEdited, SaveOwnsForm, PageHeld, ClosureOK, Holders
<1>3. CASE Hide
  <2>1. /\ UNCHANGED <<server, born, list, loading, busy, filter, crossed, ops>>
        /\ Show(editing, FALSE) /\ ~busy /\ showForm' = FALSE
    BY <1>3 DEF Hide, Show
  <2>2. TypeOK'
    BY <2>1, ShowType DEF TypeOK
  <2>3. Holders' = Holders /\ Holders = {} /\ \A o \in Ops : pc[o] # "save"
    BY <2>1 DEF Holders, PageHeld, SaveOwnsForm
  <2>4. QED
    BY <2>1, <2>2, <2>3
    DEF FormIsOfEdited, SaveOwnsForm, PageHeld, ClosureOK
<1>4. CASE Elsewhere
  BY <1>4
  DEF Elsewhere, page, TypeOK, FormIsOfEdited, SaveOwnsForm, PageHeld, ClosureOK,
      Holders
<1>5. CASE UNCHANGED vars
  BY <1>5
  DEF vars, page, TypeOK, FormIsOfEdited, SaveOwnsForm, PageHeld, ClosureOK, Holders
<1>6. QED
  BY <1>1, <1>2, <1>3, <1>4, <1>5, UserInv, ServeInv, ResumeInv DEF Next

\* The types and the whole invariant hold in every state.
THEOREM FormInvAlways == Spec => [](TypeOK /\ FormInv)
<1>1. Init => TypeOK /\ FormInv
  BY InitInv
<1>2. TypeOK /\ FormInv /\ [Next]_vars => (TypeOK /\ FormInv)'
  BY NextInv
<1>3. QED  BY <1>1, <1>2, PTL DEF Spec

\* WidgetFormModal's state always started from the widget that its Save
\* replaces: the key the form is rendered with mounts it anew in time.
THEOREM FormIsOfEditedAlways == Spec => []FormIsOfEdited
<1>1. TypeOK /\ FormInv => FormIsOfEdited
  BY DEF FormInv
<1>2. QED  BY <1>1, FormInvAlways, PTL

\* saveWidget never runs twice at a time, nor beside openEdit, and the form it
\* was called from stays until its answer.
THEOREM SaveOwnsFormAlways == Spec => []SaveOwnsForm
<1>1. TypeOK /\ FormInv => SaveOwnsForm
  BY DEF FormInv
<1>2. QED  BY <1>1, FormInvAlways, PTL

\* A status below 200 or above 299 never reaches the page as a success.
LEMMA ErrorsStayErrors ==
  ASSUME NEW s \in {401, 403, 404, 500, 502}, NEW t \in Relayed(s)
  PROVE  ~AxiosOk(t)
  BY DEF Relayed, BffStatus, SdxStatus, Broken, AxiosOk

\* Another op's answer and stored input are not touched by op o.
LEMMA OthersTrue ==
  ASSUME TypeOK, AnswersTrue, NEW o \in Ops,
         \A q \in Ops \ {o} :
           /\ pc'[q] = pc[q] /\ reply'[q] = reply[q]
           /\ q \in stored => q \in stored',
         pc'[o] = "idle" => reply'[o] = None,
         pc'[o] = "save" /\ reply'[o] # None /\ reply'[o].ok => o \in stored'
  PROVE  AnswersTrue'
  BY DEF AnswersTrue

LEMMA NextTrue ==
  ASSUME TypeOK, TypeOK', AnswersTrue, [Next]_vars
  PROVE  AnswersTrue'
<1>1. ASSUME NEW o \in Ops, Serve(o) PROVE AnswersTrue'
  <2>1. /\ pc[o] # "idle" /\ UNCHANGED pc
        /\ \A q \in Ops \ {o} : reply'[q] = reply[q]
    <3>1. Awaits(o) /\ UNCHANGED pc
      BY <1>1 DEF Serve, Refuse, ServeList, ServeGet, ServeCreate, ServeReplace,
                  ServeDelete
    <3>2. \E x : reply' = [reply EXCEPT ![o] = x]
      BY <1>1 DEF Serve, Refuse, ServeList, ServeGet, ServeCreate, ServeReplace,
                  ServeDelete, Give, GiveData
    <3>3. QED  BY <3>1, <3>2 DEF Awaits, TypeOK
  <2>2. \A q \in Ops \ {o} : q \in stored => q \in stored'
    BY <1>1 DEF Serve, Refuse, ServeList, ServeGet, ServeCreate, ServeReplace,
                ServeDelete
  <2>3. pc[o] = "save" /\ reply'[o].ok => o \in stored'
    <3>1. ASSUME NEW s \in {401, 403, 404, 500, 502}, Give(o, s)
          PROVE  ~reply'[o].ok
      <4>1. PICK t \in Relayed(s) :
              reply' = [reply EXCEPT ![o] =
                          [ok  |-> AxiosOk(t),
                           ids |-> IF AxiosOk(t) THEN {} ELSE {},
                           row |-> IF AxiosOk(t) THEN None ELSE None]]
        BY <3>1 DEF Give, GiveData
      <4>2. reply'[o].ok = AxiosOk(t)
        BY <4>1 DEF TypeOK
      <4>3. QED  BY <4>2, ErrorsStayErrors
    <3>2. CASE Refuse(o)
      BY <3>1, <3>2 DEF Refuse, Refusals
    <3>3. CASE ServeCreate(o)
      BY <3>3 DEF ServeCreate
    <3>4. CASE ServeReplace(o)
      BY <3>1, <3>4 DEF ServeReplace
    <3>5. CASE ServeList(o) \/ ServeGet(o) \/ ServeDelete(o)
      BY <3>5 DEF ServeList, ServeGet, ServeDelete, Loads
    <3>6. QED  BY <1>1, <3>2, <3>3, <3>4, <3>5 DEF Serve
  <2>4. QED  BY <2>1, <2>2, <2>3, OthersTrue
<1>2. ASSUME NEW o \in Ops, User(o) PROVE AnswersTrue'
  <2>1. PICK label \in {"list", "open", "remove", "save"} :
          /\ pc[o] = "idle" /\ pc' = [pc EXCEPT ![o] = label]
          /\ UNCHANGED <<reply, stored>>
    BY <1>2 DEF User, ChangeFilter, openEdit, deleteWidget, saveWidget, Begin
  <2>2. pc'[o] # "idle" /\ reply'[o] = None
    BY <2>1 DEF AnswersTrue, TypeOK
  <2>3. \A q \in Ops \ {o} : pc'[q] = pc[q] /\ reply'[q] = reply[q]
    BY <2>1 DEF TypeOK
  <2>4. QED  BY <2>1, <2>2, <2>3, OthersTrue
<1>3. ASSUME NEW o \in Ops, Resume(o) PROVE AnswersTrue'
  <2>1. PICK label \in {"idle", "relist", "saved"} :
          /\ pc' = [pc EXCEPT ![o] = label]
          /\ reply' = [reply EXCEPT ![o] = None] /\ stored' = stored \ {o}
    BY <1>3 DEF Resume, Loaded, Saved, NotSaved, Opened, NotOpened, Removed,
                NotRemoved, Finish, Reload
  <2>2. /\ pc'[o] # "save" /\ reply'[o] = None
        /\ \A q \in Ops \ {o} : pc'[q] = pc[q] /\ reply'[q] = reply[q]
    BY <2>1 DEF TypeOK
  <2>3. QED  BY <2>1, <2>2, OthersTrue
<1>4. CASE ClickCreate \/ Type \/ Hide \/ Elsewhere \/ UNCHANGED vars
  BY <1>4 DEF ClickCreate, Type, Hide, Elsewhere, ops, vars, AnswersTrue
<1>5. QED  BY <1>1, <1>2, <1>3, <1>4 DEF Next

\* The page closes a form it saved only if the form's input reached the
\* database: neither proxy turns a failure, of its own or of the service behind
\* it, into a success.
THEOREM ClosedMeansStoredAlways == Spec => ClosedMeansStored
<1>1. Init => AnswersTrue
  BY DEF Init, AnswersTrue
<1>2. TypeOK /\ TypeOK' /\ AnswersTrue /\ [Next]_vars => AnswersTrue'
  BY NextTrue
<1>3. TypeOK /\ AnswersTrue /\ [Next]_vars =>
        [\A o \in Ops : pc[o] = "save" /\ pc'[o] = "saved" => o \in stored]_vars
  <2>1. SUFFICES ASSUME TypeOK, AnswersTrue, Next, NEW o \in Ops,
                        pc[o] = "save", pc'[o] = "saved"
                 PROVE  o \in stored
    OBVIOUS
  <2>2. Saved(o)
    <3>1. PICK q \in Ops : User(q) \/ Serve(q) \/ Resume(q)
      BY <2>1 DEF Next, ClickCreate, Type, Hide, Elsewhere, ops
    <3>2. ~Serve(q)
      BY <2>1 DEF Serve, Refuse, ServeList, ServeGet, ServeCreate, ServeReplace,
                  ServeDelete
    <3>3. ~User(q)
      BY <2>1 DEF User, ChangeFilter, openEdit, deleteWidget, saveWidget, Begin, TypeOK
    <3>4. QED
      BY <2>1, <3>1, <3>2, <3>3
      DEF Resume, Loaded, Saved, NotSaved, Opened, NotOpened, Removed, NotRemoved,
          Finish, Reload, Answered, TypeOK, Loads
  <2>3. QED  BY <2>1, <2>2 DEF Saved, Answered, AnswersTrue
<1>4. QED
  BY <1>1, <1>2, <1>3, FormInvAlways, PTL DEF Spec, ClosedMeansStored

\* The page's types hold in every state.
THEOREM TypeCorrect == Spec => []TypeOK
  BY FormInvAlways, PTL

\* Only a change of the filter and the continuations touch what ListTracked says.
LEMMA NextTracked ==
  ASSUME TypeOK, FormInv, ListTracked, [Next]_vars
  PROVE  ListTracked'
<1>. USE DEF ListTracked
<1>1. ASSUME NEW o \in Ops, Serve(o) PROVE ListTracked'
  <2>1. UNCHANGED <<page, pc, arg>>
    BY <1>1 DEF Serve, Refuse, ServeList, ServeGet, ServeCreate, ServeReplace,
                ServeDelete
  <2>2. QED  BY <2>1 DEF page
<1>2. ASSUME NEW o \in Ops, ChangeFilter(o) PROVE ListTracked'
  <2>1. PICK f \in Filters :
          /\ filter' = f
          /\ pc' = [pc EXCEPT ![o] = "list"]
          /\ arg' = [arg EXCEPT ![o] = [id |-> None, input |-> None, filter |-> f]]
          /\ ~crossed' => \A q \in Ops : pc[q] = "idle"
    BY <1>2 DEF ChangeFilter, Begin, LoadFilter
  <2>2. pc'[o] = "list" /\ arg'[o].filter = filter'
    BY <2>1 DEF TypeOK
  <2>3. \A q \in Ops \ {o} : pc'[q] = pc[q]
    BY <2>1 DEF TypeOK
  <2>4. QED  BY <2>1, <2>2, <2>3
<1>3. ASSUME NEW o \in Ops, openEdit(o) \/ deleteWidget(o) \/ saveWidget(o)
      PROVE  ListTracked'
  <2>1. PICK label, id, input :
          Begin(o, label, id, input, filter)
    BY <1>3 DEF openEdit, deleteWidget, saveWidget
  <2>2. /\ pc[o] = "idle" /\ arg'[o].filter = filter
        /\ \A q \in Ops \ {o} : pc'[q] = pc[q] /\ arg'[q] = arg[q]
    BY <2>1 DEF Begin, TypeOK
  <2>3. UNCHANGED <<filter, crossed, list>>
    BY <1>3 DEF openEdit, deleteWidget, saveWidget
  <2>4. QED  BY <2>2, <2>3
<1>4. ASSUME NEW o \in Ops, Loaded(o) PROVE ListTracked'
  <2>1. pc[o] # "idle" /\ Finish(o) /\ filter' = filter
    BY <1>4 DEF Loaded, Loads
  <2>2. pc'[o] = "idle" /\ \A q \in Ops \ {o} : pc'[q] = pc[q] /\ arg'[q] = arg[q]
    BY <2>1, FinishType DEF FormInv
  <2>3. ~crossed' => ~crossed /\ list'.filter = arg[o].filter
    BY <1>4 DEF Loaded
  <2>4. QED  BY <2>1, <2>2, <2>3
<1>5. ASSUME NEW o \in Ops, Saved(o) \/ Removed(o) PROVE ListTracked'
  <2>1. PICK label \in {"relist", "saved"} : Reload(o, label)
    BY <1>5 DEF Saved, Removed
  <2>2. pc[o] \in {"save", "remove"} /\ UNCHANGED <<filter, crossed, list>>
    BY <1>5, <2>1 DEF Saved, Removed, Answered, Reload
  <2>3. \A q \in Ops \ {o} : pc'[q] = pc[q] /\ arg'[q] = arg[q]
    BY <2>1, <2>2, ReloadType DEF FormInv
  <2>4. arg[o] \in Args
    BY <2>2 DEF FormInv, ClosureOK
  <2>5. arg' = [arg EXCEPT ![o] = [arg[o] EXCEPT !.id = None, !.input = None]]
    BY <2>1 DEF Reload
  <2>6. arg'[o].filter = arg[o].filter
    BY <2>4, <2>5 DEF Args, TypeOK
  <2>7. QED  BY <2>2, <2>3, <2>6
<1>6. ASSUME NEW o \in Ops,
             NotSaved(o) \/ Opened(o) \/ NotOpened(o) \/ NotRemoved(o)
      PROVE  ListTracked'
  <2>1. Finish(o) /\ pc[o] # "list" /\ UNCHANGED <<filter, crossed, list>>
    BY <1>6 DEF NotSaved, Opened, NotOpened, NotRemoved, Answered
  <2>2. pc'[o] = "idle" /\ \A q \in Ops \ {o} : pc'[q] = pc[q] /\ arg'[q] = arg[q]
    BY <2>1, FinishType DEF FormInv
  <2>3. QED  BY <2>1, <2>2
<1>7. CASE ClickCreate \/ Type \/ Hide \/ Elsewhere \/ UNCHANGED vars
  BY <1>7 DEF ClickCreate, Type, Hide, Elsewhere, ops, page, vars
<1>8. QED
  BY <1>1, <1>2, <1>3, <1>4, <1>5, <1>6, <1>7 DEF Next, User, Resume

\* However loads, saves and deletions overlap, the list at rest is that of the
\* filter on the screen, unless the filter was set over a running op or a load
\* failed.
THEOREM ListFollowsFilterAlways == Spec => []ListFollowsFilter
<1>1. Init => ListTracked
  <2>. SUFFICES ASSUME Init PROVE ListTracked
    OBVIOUS
  <2>1. PICK o \in Ops :
          /\ pc = [q \in Ops |-> IF q = o THEN "list" ELSE "idle"]
          /\ arg = [q \in Ops |->
                     IF q = o THEN [id |-> None, input |-> None, filter |-> Inputs]
                              ELSE None]
    BY DEF Init
  <2>2. QED  BY <2>1 DEF Init, ListTracked
<1>2. TypeOK /\ FormInv /\ ListTracked /\ [Next]_vars => ListTracked'
  BY NextTracked
<1>3. ListTracked => ListFollowsFilter
  BY DEF ListTracked, ListFollowsFilter
<1>4. QED  BY <1>1, <1>2, <1>3, FormInvAlways, PTL DEF Spec
----------------------------------------------------------------------------
\* Every step keeps the flags with the ops that will clear them.
LEMMA NextFlags ==
  ASSUME TypeOK, FormInv, FlagsHeld, [Next]_vars
  PROVE  FlagsHeld'
<1>. USE DEF FlagsHeld, Holders, Loads
<1>1. ASSUME NEW o \in Ops, Serve(o) PROVE FlagsHeld'
  <2>1. UNCHANGED <<page, pc>>
    BY <1>1 DEF Serve, Refuse, ServeList, ServeGet, ServeCreate, ServeReplace,
                ServeDelete
  <2>2. QED  BY <2>1 DEF page
<1>2. ASSUME NEW o \in Ops, User(o) PROVE FlagsHeld'
  <2>1. PICK label \in {"list", "open", "remove", "save"} :
          /\ pc[o] = "idle" /\ pc' = [pc EXCEPT ![o] = label]
          /\ busy' # busy => label \in {"open", "save"}
          /\ loading' # loading => label = "list"
    BY <1>2 DEF User, ChangeFilter, openEdit, deleteWidget, saveWidget, Begin
  <2>2. pc'[o] = label /\ \A q \in Ops \ {o} : pc'[q] = pc[q]
    BY <2>1 DEF TypeOK
  <2>3. \A q \in Ops : pc[q] # "idle" => q # o
    BY <2>1
  <2>4. QED  BY <2>1, <2>2, <2>3 DEF TypeOK
<1>3. ASSUME NEW o \in Ops, Resume(o) PROVE FlagsHeld'
  <2>1. PICK label \in {"idle", "relist", "saved"} : pc' = [pc EXCEPT ![o] = label]
    BY <1>3 DEF Resume, Loaded, Saved, NotSaved, Opened, NotOpened, Removed,
                NotRemoved, Finish, Reload
  <2>2. pc'[o] = label /\ \A q \in Ops \ {o} : pc'[q] = pc[q]
    BY <2>1 DEF TypeOK
  <2>3. /\ busy' => /\ busy
                    /\ \/ label = "saved"
                       \/ pc[o] \notin {"save", "open", "saved"}
        /\ loading' => label \in {"relist", "saved"} \/ (loading /\ pc[o] \notin Loads)
    <3>1. CASE Loaded(o)
      BY <3>1, <2>2 DEF Loaded, Finish
    <3>2. CASE Saved(o) \/ Removed(o)
      <4>1. PICK l \in {"relist", "saved"} :
              /\ Reload(o, l) /\ busy' = busy
              /\ l = "saved" \/ pc[o] = "remove"
        BY <3>2 DEF Saved, Removed, Answered
      <4>2. label = l
        BY <4>1, <2>2 DEF Reload, TypeOK
      <4>3. QED  BY <4>1, <4>2
    <3>3. CASE NotSaved(o) \/ Opened(o) \/ NotOpened(o)
      <4>1. pc[o] \in {"save", "open"} /\ ~busy' /\ UNCHANGED loading
        BY <3>3 DEF NotSaved, Opened, NotOpened, FreesPage, Answered
      <4>2. QED  BY <4>1
    <3>4. CASE NotRemoved(o)
      BY <3>4 DEF NotRemoved, Answered
    <3>5. QED  BY <1>3, <3>1, <3>2, <3>3, <3>4 DEF Resume
  <2>4. ASSUME busy' PROVE \E q \in Ops : pc'[q] \in {"save", "open", "saved"}
    <3>1. PICK q \in Ops : pc[q] \in {"save", "open", "saved"}
      BY <2>3, <2>4
    <3>2. CASE label = "saved"
      BY <3>2, <2>2
    <3>3. CASE pc[o] \notin {"save", "open", "saved"}
      BY <3>1, <3>3, <2>2
    <3>4. QED  BY <2>3, <2>4, <3>2, <3>3
  <2>5. ASSUME loading' PROVE \E q \in Ops : pc'[q] \in Loads
    BY <2>2, <2>3, <2>5
  <2>6. QED  BY <2>4, <2>5
<1>4. CASE ClickCreate \/ Type \/ Hide \/ Elsewhere \/ UNCHANGED vars
  <2>1. UNCHANGED <<pc, busy, loading>>
    BY <1>4 DEF ClickCreate, Type, Hide, Elsewhere, ops, page, vars
  <2>2. QED  BY <2>1
<1>5. QED  BY <1>1, <1>2, <1>3, <1>4 DEF Next

\* The page is never locked and never shows its spinner without an op under way
\* that ends it, although overlapping loads share one flag.
THEOREM FlagsHeldAlways == Spec => []FlagsHeld
<1>1. Init => FlagsHeld
  BY DEF Init, FlagsHeld, Loads
<1>2. TypeOK /\ FormInv /\ FlagsHeld /\ [Next]_vars => FlagsHeld'
  BY NextFlags
<1>3. QED  BY <1>1, <1>2, FormInvAlways, PTL DEF Spec
============================================================================
