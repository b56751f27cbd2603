--------------------------- MODULE WidgetManager ---------------------------
(***************************************************************************)
(* The widget page of one signed-in user: its list, its form and the calls *)
(* it has under way, which go through the BFF and the Provider SDX API to  *)
(* the widgets of the Provider API.  Each call is answered, refused on its *)
(* way, or done and its answer lost.                                       *)
(*                                                                         *)
(* An async function of the page that was called is an op: it runs from    *)
(* one await to the next.  React renders a state change before it delivers *)
(* the next event, and the dialog's backdrop covers the page behind it.    *)
(* The notice of the last error is left out: nothing depends on it.        *)
(***************************************************************************)
EXTENDS Integers, FiniteSets

CONSTANTS
  Ops,        \* how many async functions may run at a time (a bound)
  Widgets,    \* ids the Provider API may give
  Existing,   \* those it gave before the page was opened
  Inputs,     \* well-formed contents of the form
  Filters,    \* a filter is the set of inputs it lets through
  Unfit,      \* content the form refuses: no name, or not a JSON object
  None

ASSUME InputsAssumption ==
  /\ Existing \subseteq Widgets
  /\ Unfit \notin Inputs
  /\ Filters \subseteq SUBSET Inputs
  /\ Inputs \in Filters
  /\ None \notin Inputs \cup Widgets

VARIABLES
  server,     \* the user's widgets at the Provider API
  born,       \* ids given so far
  list,       \* widgets: the rows shown, and the filter they were asked for
  loading, busy, filter, editing, showForm,
  form,       \* WidgetFormModal's state: the widget it was mounted for, input
  pc, arg,    \* per op: where it awaits, and what its closure holds
  reply,      \* the answer that waits to be taken up, or None
  stored,     \* the saves under way whose input reached the database
  crossed     \* the filter was set while an op was under way, or a load failed

page  == <<list, loading, busy, filter, editing, showForm, form, crossed>>
ops   == <<pc, arg, reply, stored>>
vars  == <<server, born, page, ops>>

Rows    == [id : Widgets, input : Inputs]
Loads   == {"list", "relist", "saved"}
Args    == [id : Widgets \cup {None}, input : Inputs \cup {None}, filter : Filters]
Replies == [ok : BOOLEAN, ids : SUBSET Widgets, row : Rows \cup {None}]

TypeOK ==
  /\ server \in [Widgets -> Inputs \cup {None}]
  /\ born \subseteq Widgets
  /\ list \in [ids : SUBSET Widgets, filter : Filters]
  /\ loading \in BOOLEAN /\ busy \in BOOLEAN
  /\ filter \in Filters
  /\ editing \in Rows \cup {None}
  /\ showForm \in BOOLEAN
  /\ form \in [widget : Rows \cup {None}, input : Inputs \cup {Unfit}]
  /\ pc \in [Ops -> Loads \cup {"idle", "save", "open", "remove"}]
  /\ arg \in [Ops -> Args \cup {None}]
  /\ reply \in [Ops -> Replies \cup {None}]
  /\ stored \subseteq Ops
  /\ crossed \in BOOLEAN

----------------------------------------------------------------------------
(* The form.                                                               *)

\* Mutant of IdOf: the whole widget is put where its id belongs.
WholeRow(row) == row

IdOf(row) == IF row = None THEN None ELSE row.id

Mounted(row) ==
  [widget |-> row, input |-> IF row = None THEN Unfit ELSE row.input]

\* Mutant of FormKey: the key does not name the widget.
VisibilityKey(row, shown) == shown

\* The React key of the form: another key mounts it anew.
FormKey(row, shown) == <<IdOf(row), shown>>

Show(row, shown) ==
  /\ editing' = row
  /\ showForm' = shown
  /\ form' = IF FormKey(row, shown) = FormKey(editing, showForm)
               THEN form ELSE Mounted(row)

KeepForm == UNCHANGED <<editing, showForm, form>>

----------------------------------------------------------------------------
(* The way of a call: page, BFF, Provider SDX API, Provider API and back.  *)

Broken == 0

\* An error status is thrown on as it is; a fetch that rejects is a 500.
SdxStatus(s) == IF s = Broken THEN 500 ELSE s

\* Mutant of BffStatus: a rejected fetch is answered as if it had succeeded.
HidesOutage(s) == IF s = Broken THEN 200 ELSE s

\* The proxy passes every status on and answers 502 when its fetch rejects.
BffStatus(s) == IF s = Broken THEN 502 ELSE s

\* What the page may see of a status; each of three connections may break.
Relayed(s) ==
  {BffStatus(t) : t \in {SdxStatus(s), SdxStatus(Broken), Broken}} \cup {Broken}

\* axios rejects unless the status is 2xx.
AxiosOk(s) == s \in 200..299

\* Statuses of a call that a guard or a missing token keeps from the
\* Provider API.
Refusals == {401, 403, 500, 502}

GiveData(o, s, ids, row) ==
  \E t \in Relayed(s) :
    reply' = [reply EXCEPT ![o] =
                [ok  |-> AxiosOk(t),
                 ids |-> IF AxiosOk(t) THEN ids ELSE {},
                 row |-> IF AxiosOk(t) THEN row ELSE None]]

Give(o, s) == GiveData(o, s, {}, None)

Awaits(o) == pc[o] # "idle" /\ reply[o] = None

Refuse(o) ==
  /\ Awaits(o)
  /\ \E s \in Refusals : Give(o, s)
  /\ UNCHANGED <<server, born, page, pc, arg, stored>>

\* GET /widgets
ServeList(o) ==
  /\ Awaits(o) /\ pc[o] \in Loads
  /\ GiveData(o, 200, {w \in Widgets : server[w] \in arg[o].filter}, None)
  /\ UNCHANGED <<server, born, page, pc, arg, stored>>

\* GET /widgets/:widgetId
ServeGet(o) ==
  /\ Awaits(o) /\ pc[o] = "open"
  /\ LET w == arg[o].id IN
     IF server[w] = None THEN Give(o, 404)
     ELSE GiveData(o, 200, {}, [id |-> w, input |-> server[w]])
  /\ UNCHANGED <<server, born, page, pc, arg, stored>>

\* POST /widgets: each call carries a key of its own, so each one creates.
ServeCreate(o) ==
  /\ Awaits(o) /\ pc[o] = "save" /\ arg[o].id = None
  /\ \E w \in Widgets \ born :
       /\ server' = [server EXCEPT ![w] = arg[o].input]
       /\ born' = born \cup {w}
  /\ stored' = stored \cup {o}
  /\ Give(o, 201)
  /\ UNCHANGED <<page, pc, arg>>

\* PUT /widgets/:widgetId
ServeReplace(o) ==
  /\ Awaits(o) /\ pc[o] = "save" /\ arg[o].id # None
  /\ LET w == arg[o].id IN
     \/ /\ server[w] = None
        /\ Give(o, 404)
        /\ UNCHANGED <<server, stored>>
     \/ /\ server[w] # None
        /\ server' = [server EXCEPT ![w] = arg[o].input]
        /\ stored' = stored \cup {o}
        /\ Give(o, 200)
  /\ UNCHANGED <<born, page, pc, arg>>

\* DELETE /widgets/:widgetId
ServeDelete(o) ==
  /\ Awaits(o) /\ pc[o] = "remove"
  /\ Give(o, IF server[arg[o].id] = None THEN 404 ELSE 204)
  /\ server' = [server EXCEPT ![arg[o].id] = None]
  /\ UNCHANGED <<born, page, pc, arg, stored>>

Serve(o) ==
  \/ Refuse(o) \/ ServeList(o) \/ ServeGet(o)
  \/ ServeCreate(o) \/ ServeReplace(o) \/ ServeDelete(o)

\* The same user deletes a widget from elsewhere.
Elsewhere ==
  /\ \E w \in Widgets : server[w] # None /\ server' = [server EXCEPT ![w] = None]
  /\ UNCHANGED <<born, page, ops>>

----------------------------------------------------------------------------
(* What the user does.                                                     *)

Begin(o, label, id, input, f) ==
  /\ pc[o] = "idle"
  /\ pc' = [pc EXCEPT ![o] = label]
  /\ arg' = [arg EXCEPT ![o] = [id |-> id, input |-> input, filter |-> f]]
  /\ UNCHANGED <<reply, stored>>

\* Mutant of LoadFilter: the effect keeps the callback of the render before.
StaleFilter(f) == filter

\* The filter of the callback the effect runs after the filter became f.
LoadFilter(f) == f

\* The filter fields: a change makes a new loadWidgets, which the effect runs.
ChangeFilter(o) ==
  /\ ~showForm
  /\ \E f \in Filters \ {filter} :
       /\ filter' = f
       /\ Begin(o, "list", None, None, LoadFilter(f))
  /\ loading' = TRUE
  /\ crossed' = (\E q \in Ops : pc[q] # "idle")
  /\ KeepForm
  /\ UNCHANGED <<server, born, list, busy>>

ClickCreate ==
  /\ ~showForm
  /\ Show(None, TRUE)
  /\ UNCHANGED <<server, born, list, loading, busy, filter, crossed, ops>>

\* The buttons of a row, which are not rendered while a list loads.
CanClick(w) == w \in list.ids /\ ~loading /\ ~busy /\ ~showForm

openEdit(o) ==
  /\ \E w \in Widgets : CanClick(w) /\ Begin(o, "open", w, None, filter)
  /\ busy' = TRUE
  /\ KeepForm
  /\ UNCHANGED <<server, born, list, loading, filter, crossed>>

deleteWidget(o) ==
  /\ \E w \in Widgets : CanClick(w) /\ Begin(o, "remove", w, None, filter)
  /\ KeepForm
  /\ UNCHANGED <<server, born, list, loading, busy, filter, crossed>>

Type ==
  /\ showForm
  /\ \E i \in Inputs \cup {Unfit} : form' = [form EXCEPT !.input = i]
  /\ UNCHANGED <<server, born, list, loading, busy, filter, editing,
                 showForm, crossed, ops>>

\* Cancel, the cross or Escape: all three are off while busy.
Hide ==
  /\ showForm /\ ~busy
  /\ Show(editing, FALSE)
  /\ UNCHANGED <<server, born, list, loading, busy, filter, crossed, ops>>

\* Mutant of MaySave: the button stays enabled while busy.
Visible == showForm

MaySave == showForm /\ ~busy

\* What handleSubmit and the browser's own checks of the fields let through.
Accepted(input) == input \in Inputs

\* handleSubmit, which calls saveWidget for an input it accepts.
saveWidget(o) ==
  /\ MaySave
  /\ Accepted(form.input)
  /\ Begin(o, "save", IdOf(editing), form.input, filter)
  /\ busy' = TRUE
  /\ KeepForm
  /\ UNCHANGED <<server, born, list, loading, filter, crossed>>

----------------------------------------------------------------------------
(* The ops go on when their call is answered.                              *)

Answered(o, label) == pc[o] = label /\ reply[o] # None

Finish(o) ==
  /\ pc' = [pc EXCEPT ![o] = "idle"]
  /\ arg' = [arg EXCEPT ![o] = None]
  /\ reply' = [reply EXCEPT ![o] = None]
  /\ stored' = stored \ {o}

\* An op calls its loadWidgets, with the filter of the render it began in;
\* nothing else of its closure is needed any more.
Reload(o, label) ==
  /\ pc' = [pc EXCEPT ![o] = label]
  /\ arg' = [arg EXCEPT ![o].id = None, ![o].input = None]
  /\ reply' = [reply EXCEPT ![o] = None]
  /\ stored' = stored \ {o}
  /\ loading' = TRUE
  /\ UNCHANGED list

\* The end of loadWidgets, which handles its own errors.
Loaded(o) ==
  /\ pc[o] \in Loads /\ reply[o] # None
  /\ \/ /\ reply[o].ok
        /\ list' = [ids |-> reply[o].ids, filter |-> arg[o].filter]
        /\ UNCHANGED crossed
     \/ /\ ~reply[o].ok
        /\ crossed' = TRUE
        /\ UNCHANGED list
  /\ loading' = FALSE
  /\ busy' = IF pc[o] = "saved" THEN FALSE ELSE busy
  /\ Finish(o)
  /\ KeepForm
  /\ UNCHANGED <<server, born, filter>>

Saved(o) ==
  /\ Answered(o, "save") /\ reply[o].ok
  /\ Show(None, FALSE)
  /\ Reload(o, "saved")
  /\ UNCHANGED <<server, born, busy, filter, crossed>>

\* Mutant of FreesPage: only a success ends the wait.
NeverFrees(b) == b

\* The finally clause of a save or an opening that failed.
FreesPage(b) == FALSE

NotSaved(o) ==
  /\ Answered(o, "save") /\ ~reply[o].ok
  /\ busy' = FreesPage(busy)
  /\ Finish(o)
  /\ KeepForm
  /\ UNCHANGED <<server, born, list, loading, filter, crossed>>

Opened(o) ==
  /\ Answered(o, "open") /\ reply[o].ok
  /\ Show(reply[o].row, TRUE)
  /\ busy' = FALSE
  /\ Finish(o)
  /\ UNCHANGED <<server, born, list, loading, filter, crossed>>

NotOpened(o) ==
  /\ Answered(o, "open") /\ ~reply[o].ok
  /\ busy' = FreesPage(busy)
  /\ Finish(o)
  /\ KeepForm
  /\ UNCHANGED <<server, born, list, loading, filter, crossed>>

Removed(o) ==
  /\ Answered(o, "remove") /\ reply[o].ok
  /\ Reload(o, "relist")
  /\ KeepForm
  /\ UNCHANGED <<server, born, busy, filter, crossed>>

NotRemoved(o) ==
  /\ Answered(o, "remove") /\ ~reply[o].ok
  /\ Finish(o)
  /\ KeepForm
  /\ UNCHANGED <<server, born, list, loading, busy, filter, crossed>>

Resume(o) ==
  \/ Loaded(o) \/ Saved(o) \/ NotSaved(o) \/ Opened(o) \/ NotOpened(o)
  \/ Removed(o) \/ NotRemoved(o)

----------------------------------------------------------------------------
\* The page is mounted and its effect has called loadWidgets.
Init ==
  /\ server \in [Widgets -> Inputs \cup {None}]
  /\ \A w \in Widgets : server[w] # None => w \in Existing
  /\ born = Existing
  /\ list = [ids |-> {}, filter |-> Inputs]
  /\ loading = TRUE /\ busy = FALSE
  /\ filter = Inputs
  /\ editing = None /\ showForm = FALSE /\ form = Mounted(None)
  /\ \E o \in Ops :
       /\ pc = [q \in Ops |-> IF q = o THEN "list" ELSE "idle"]
       /\ arg = [q \in Ops |->
                  IF q = o THEN [id |-> None, input |-> None, filter |-> Inputs]
                           ELSE None]
  /\ reply = [o \in Ops |-> None]
  /\ stored = {}
  /\ crossed = FALSE

User(o) == ChangeFilter(o) \/ openEdit(o) \/ deleteWidget(o) \/ saveWidget(o)

Next ==
  \/ \E o \in Ops : User(o) \/ Serve(o) \/ Resume(o)
  \/ ClickCreate \/ Type \/ Hide \/ Elsewhere

Spec == Init /\ [][Next]_vars

\* A call is answered, refused or given up by the browser, and the event loop
\* runs what awaited it.  Nothing is assumed of the user.
FairSpec ==
  Spec /\ \A o \in Ops : WF_vars(Serve(o)) /\ WF_vars(Resume(o))

----------------------------------------------------------------------------
(* Properties.                                                             *)

\* What the form shows started from the widget that Save will replace, or
\* from a blank form when Save will create: values of one widget are never
\* saved over another, whatever openings, deletions and reloads overlap.
FormIsOfEdited == showForm => form.widget = editing

\* A save under way is that of the form on the screen, which stays until the
\* answer, and nothing else that opens or saves a form runs meanwhile: no
\* input is sent twice and no answer closes another form.
Holders == {o \in Ops : pc[o] \in {"save", "open", "saved"}}

SaveOwnsForm ==
  /\ \A o, q \in Holders : o = q
  /\ \A o \in Ops : pc[o] = "save" =>
       busy /\ showForm /\ arg[o].id = IdOf(editing)

\* A save closes the form only after its input reached the database, through
\* two proxies that may each lose the call or its answer.
ClosedMeansStored ==
  [][\A o \in Ops : pc[o] = "save" /\ pc'[o] = "saved" => o \in stored]_vars

\* When the page is at rest its list is what was asked for with the filter
\* that is set, if no op was under way when the filter was set and no load
\* failed since.  (An op that was under way may answer later with the list for
\* the filter before, and the next click removes the notice of a failed load.)
ListFollowsFilter ==
  (\A o \in Ops : pc[o] = "idle") /\ ~crossed => list.filter = filter

(* Unless crossed, every op under way loads for the filter that is set, and the
   list is for it or a first load still is: why ListFollowsFilter holds.     *)
ListTracked ==
  ~crossed =>
    /\ \A o \in Ops : pc[o] # "idle" => arg[o].filter = filter
    /\ list.filter = filter \/ \E o \in Ops : pc[o] = "list"

(* A save or an opening under way holds the page, and while a widget is being
   opened a form can only be one for a new widget: the part of the inductive
   invariant that says why the two invariants above hold.                    *)
PageHeld ==
  /\ \A o \in Holders : busy
  /\ \A o \in Ops : pc[o] = "open" /\ showForm => editing = None

(* What the closure of a running op holds.                                   *)
ClosureOK ==
  \A o \in Ops :
    /\ pc[o] # "idle" => arg[o] \in Args
    /\ pc[o] \in {"open", "remove"} => arg[o].id \in Widgets
    /\ pc[o] = "save" => arg[o].input \in Inputs

(* Nothing waits for an op at rest, and no proxy makes up a success.         *)
AnswersTrue ==
  \A o \in Ops :
    /\ pc[o] = "idle" => reply[o] = None
    /\ pc[o] = "save" /\ reply[o] # None /\ reply[o].ok => o \in stored

(* The safe half of the next property: whenever the page is locked or shows its
   spinner, an op is under way whose finally clause ends that, also after others
   have failed or have cleared a flag they share.                             *)
FlagsHeld ==
  /\ busy => Holders # {}
  /\ loading => \E o \in Ops : pc[o] \in Loads

\* The page never stays busy or loading, whatever fails.
PageSettles == (busy ~> ~busy) /\ (loading ~> ~loading)
============================================================================
