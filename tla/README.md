# Verification of the SDX reference implementation

TLA+ models of the reference implementation in this repository: a browser UI
(`frontend`), its backend-for-frontend (`bff`), the SDX-facing provider API
(`provider-sdx-api`), and the database-backed provider API (`provider-api`). The
models are checked with TLC on small instances; the properties that matter most
are proved with TLAPS for every value of the constants.

## The system and its parts

| Component | State it keeps | Operations | Talks to |
| --- | --- | --- | --- |
| Provider API widget service (`provider-api/src/widgets`) | three PostgreSQL tables: widgets, idempotency keys, access events | create, list, get, replace, patch, delete, list events | PostgreSQL; called by the Provider SDX API, or by holders of a user token |
| Provider API guard (`provider-api/src/auth`) | key set cache | token and on-behalf-of headers to an effective caller | identity provider |
| Provider SDX API (`provider-sdx-api/src`) | one service token, one token request | guard, then each widget operation forwarded | identity provider, Provider API; called by the BFF through the SDX gateway |
| BFF sign-in (`bff/src/auth`) | login transactions, sessions, discovery document, all in memory | login, callback, session, logout, guard of the widget calls | identity provider; browsers, by cookies |
| BFF widget proxy (`bff/src/widgets`) | none | each widget operation forwarded with the session's token | Provider SDX API |
| Frontend sign-in (`frontend/src/auth`, `routes`) | per tab: the route, the user the bar names, the calls under way | guards of the routes, session fetch, callback page, log in, log out | BFF; other tabs, by the shared session |
| Frontend widget manager (`frontend/src/components`) | React state of the widget list and its forms | load, filter, page, create, edit, delete | BFF |
| Keycloak setup (`scripts`) | the realm's clients, scopes, mappers; one env file per environment | one rerunnable script | Keycloak administration API; the services read the env file |
| Migrations (`migrations/sql`) | the schema | six scripts | PostgreSQL |

What is hard, and what must hold:

* **Widget service.** Handlers interleave at every SQL statement. Replace, patch
  and delete check a row they read and then write by id alone; keyed creates race
  for a unique index and wait for each other; the audit event is inserted after
  the write has committed, and may fail. Ownership, idempotency, no lost columns
  and a truthful audit table must survive this, and failing statements and
  crashes with it.
* **BFF sign-in.** Requests of one browser overlap and responses pass each other;
  cookies outlive the process; callback addresses are reloaded, reopened and
  opened elsewhere. A code must be used once, a session must stay with the browser
  that signed in, and a session that has ended must serve nobody.
* **Service token.** Requests share a token and a fetch; fetches fail half-way;
  two clocks date one token.
* **Caller identity.** Two services read two tokens and two headers and must agree
  on who acts; the identity provider issues service tokens in several shapes.
* **Frontend sign-in.** Several tabs share one session, which may end or become
  somebody else's at any moment. Each tab asks for it in three places that know
  nothing of each other: the guard of every navigation, the `AuthProvider` once per
  document, and the callback page. Navigations must end somewhere sensible, and a
  page must not stay without its user for no reason. (One known weakness, bounded
  rather than excluded by `WidgetsShown`: when the session ends, or a call fails,
  between the guard's fetch and the provider's, the widget page stays at "Loading
  your session..."; and the bar keeps a name until the document is loaded again.)
* **Widget manager.** Answers to overlapping calls arrive in any order, or get lost
  after the write; one form serves every widget and one flag guards it. What is
  typed for one widget must never be saved over another, and a form may close only
  when it was stored. (A known weakness that no document denies: a retry of a create
  carries a new key.)
* **Setup script.** It may stop between any two administrative calls, is run again
  with the same or other options, and runs of several operators and environments
  overlap in one realm. Running it again must repair what was left and must not
  disturb services that are running.

`PROJECT.json` lists every component with its status and every hazard with its
source line and the properties that would notice it.

## Modules

| Module | Models | Shape |
| --- | --- | --- |
| `WidgetStore` | `provider-api/src/widgets/widgets.service.ts` over the tables of `schema.prisma` | state machine, one action per statement |
| `OwnedWidgets` | what the service promises about its records | abstract specification |
| `SignIn` | what the BFF promises about logins and sessions | abstract specification |
| `BffSession` | `bff/src/auth/bff-session.service.ts`, its controller and guard | state machine, one action per stretch between awaits |
| `ServiceToken` | the token half of `provider-sdx-api/src/widgets/widgets.service.ts` | state machine, one action per continuation |
| `WidgetManager` | `frontend/src/components/WidgetManager.tsx`, its form, and the way of its calls through the BFF proxy and the Provider SDX API | state machine, one action per event, service step and continuation |
| `CallerIdentity` | the guards of both provider services and the headers between them | pipeline over every token shape |
| `FrontendSignIn` | `frontend/src/auth`, the guards of `frontend/src/routes`, the bar of `Layout.tsx` | state machine, one action per click, answer and continuation |
| `KeycloakSetup` | `scripts/setup-keycloak.mjs` | a plan of calls per run, one action per call |
| `MCWidgetStore`, `MCBffSession`, `MCServiceToken`, `MCWidgetManager`, `MCCallerIdentity`, `MCFrontendSignIn`, `MCKeycloakSetup` | | small instances for TLC |
| `WidgetStoreProofs`, `WidgetStoreRefinement`, `BffSessionProofs`, `ServiceTokenProofs`, `WidgetManagerProofs`, `CallerIdentityProofs`, `FrontendSignInProofs`, `KeycloakSetupProofs` | | theorems |

### WidgetStore

`widgets`, `idem` and `events` are the committed rows of the three tables. A
request has a program counter (`pc`, the statement its handler issues next) and
the handler's local variables: the call, the widget id, the owner it will record,
the rows it will return, and the `updatedAt` its UPDATE carries. Each action is
one synchronous stretch of the handler ended by one SQL statement, under Read
Committed:

| Code | Actions |
| --- | --- |
| validation before the first statement | `Arrive` |
| create without a key | `Insert`, `Record` |
| create with a key (`$transaction`) | `Lookup`, then `Replay` or `TxInsert`, `Claim`, `Commit`; then `Record` |
| list | `List`, `Record` |
| get | `Read`, `Record` |
| replace, patch | `Read` (with the If-Match and body checks), `Write`, `Record` |
| delete | `Read`, `Remove` (with the cascade), `Record` |
| a statement that fails; a process that dies | `Fail`, `Crash` |

A row inserted in an open transaction is in its handler's memory until `Commit`;
`Claim` waits while another open transaction holds the key, as the unique index
makes it, and fails (500) when the key has been committed. `Write` and `Remove`
name the row by id alone and see it as it is then. A body is a function from
columns to values; hashes, formatting, filters and page offsets are abstracted.
The widths of the audit columns are the set `Unrecordable`.

`OwnedWidgets` has no requests: records are born, changed and discarded by their
owner in one step each, never return, and a key names at most one live record.
`WidgetStore` maps to it by reading a record's life from its row and from the
writes made so far.

### BffSession

`logins`, `sessions` and `discovery` are the service's fields; `jar` holds each
browser's two cookies. A request carries the cookies its browser had when it was
sent (`Send`), is handled (`AskDiscovery`, `BeginLogin`, `Callback`, `Exchange`,
`Visit`, `Logout`), and changes the cookies only when its response arrives
(`Deliver`). `Exchange` is everything after the token request's await. A callback
may come with the state of any login that was answered, with a code or an error,
any number of times, in any browser, and also without a state; one without clears
the login's cookie all the same. `BeginLogin` may throw past its await: for a request
without a host or with a repeated `returnTo`, or, with the transaction stored and the
cookie set already, on a discovery document whose endpoint is no URL (`unusable`).
`Restart` empties the maps and loses the requests in the process; cookies stay.

`SignIn` has no requests under way, cookies, clock or process: a login begins in one
browser, its code is spent at most once and opens at most one session, of that
browser; a session that is over stays over; a request is served under an open session
of its browser and turned away only without one. `BffSession` maps to it by reading a
login's and a session's life from the maps and from the answers given. Expiry, a
restart, a refused or foreign callback and a visit that drops an expired session are
then one step, `Lapse`, which a tick can be for several logins and sessions at once.

### ServiceToken

A fetch of a token is named by the request that starts it; `shared` is the
promise in `providerApiTokenRequest`, `fetch` the stage each fetch has reached.
`Resolve` and `Reject` run the continuation of the fetch, its `finally` and the
continuations of all requests awaiting it, which no other request can observe
half done. A token has two expiries: the issuer's, from when it was issued, and
the cache's, from when the answer was read. An answer may name the token's lifetime
or not (`told`); of one that does not, the code assumes 300 s (`Fallback`), whatever
the issuer gave it. `issued`, `life`, `told` and `read` are kept as history.

### WidgetManager

`list`, `loading`, `busy`, `filter`, `editing`, `showForm` are the component's
React state and `form` that of `WidgetFormModal`, which is mounted anew whenever
its key (`FormKey`) changes. Every async function the user starts is an *op* with
its closure (`arg`): the widget, the input and the filter of the render it began
in. `saveWidget`, `openEdit`, `deleteWidget` and `ChangeFilter` start one;
`ClickCreate`, `Type` and `Hide` are the other events. A call is served by one
`Serve...` action, refused on its way (`Refuse`), and its answer passes three
connections that may each break (`Relayed`): the Provider SDX API throws statuses
on and makes 500 of a rejected fetch, the BFF relays statuses and makes 502 of
one. `Saved`, `NotSaved`, `Opened`, `NotOpened`, `Removed`, `NotRemoved` and
`Loaded` are the continuations. Assumed of the libraries: React renders a change
of state before the next event, and the dialog's backdrop covers the page.

### CallerIdentity

One call goes through the guard of the Provider SDX API, is forwarded with a
service token and the two headers, and goes through the Provider API's guard; or
it goes to the Provider API directly. Claims are names or absent. A token's
`holder` is what the identity provider knows about it and the code does not; the
properties compare the two. Every request the services make themselves may fail:
for the signing keys (401 at either guard), for the service's token (500 when the
secret or the authority is not configured or a request breaks, 502 when the identity
provider's answer is an error or of no use) and to the Provider API (500, before or
after it has acted). The history `fault` remembers which, so that `EntitledServed`
can tell a failure outside from a refusal by the services' own checks.

### FrontendSignIn

`session` is the browser's session at the BFF. A tab has the page it shows, the
`route` a navigation leads to, the two states of `AuthProvider` (`user`,
`loading`), and one call per place that makes one: the configuration at start, the
guard, the provider, the callback page and logout. A call is answered (`Serve`,
`NotServed`) with what holds then and read later (`Configured`, `Guard`,
`Provided`, `Completed`, `LoggedOut`), so the session may change in between
(`Change`, or another tab's log-in or logout). `Guard` is `beforeLoad` of the three
guarded routes with its redirects; `Navigate` starts a fetch of its own, as the
routes do, and what the tab knew before plays no part. `Load` is a new document,
which forgets the state of the last. A guard whose call fails leads to the error page
(`ShowError`), the root's own, in the place of `AuthProvider` and bar, whose state
goes with them (`Unmounted`). Logouts may overlap, as nothing disables the button;
one that is answered with an HTTP error leads to `/login` like any other, while the
session may still be there. Assumed of the router: nothing is rendered
before the first guard has let a page through, and the last of overlapping
navigations counts. `told` and `since` are histories the properties use: whom the
BFF could have answered since the guard asked, and since the document was loaded.

### KeycloakSetup

`store` is the realm: each object's settings and the run that made it, which stands
for its id; `assigned` the optional scopes of the clients; `file` the env files. A
run's options give four client ids (those of its environment, or explicit ones), an
env file, an address for each client that browsers come back to, and the required
audiences with their scope; two runs are `Rivals` when they share a client, the env
file or the audience scope. A run is a position in `Plan`, the calls of `main` in
order for its options. An ensured object is looked for (`Look`) and then created
or updated in a call of its own (`Create`, `Update`), which Keycloak refuses when
the name was taken or the id has gone (`Refuse`); obsolete audience mappers are
listed (`List`) and deleted one by one (`Delete`); scopes are assigned and removed;
the env file is emptied (`Torn`) and written (`OpenFile`, `WriteFile`). `Stop` ends a run
anywhere. What the realm holds before the first run is any of `Priors`. `meets`
is a history: the other runs a run overlapped, and those begun since.

## Runs

| Run | Instance | Checks |
| --- | --- | --- |
| `WidgetStoreSafety` | 3 requests, 2 subjects, 2 widgets, 1 key, the clock standing still, every operation well-formed and malformed | type invariant, ownership, idempotency, audit, patch, refinement |
| `WidgetStoreLive` | 3 duplicates of one keyed create, or deletes, 3 widgets | every request ends |
| `WidgetStoreIfMatch`, `-Replay` | 3 requests of one subject | two documented statements the code does not keep |
| `BffSessionSafety` | 4 requests, 2 browsers, lifetimes of 1 tick, discovery that succeeds, fails or is unusable | sign-in properties |
| `BffSessionLive` | 3 requests, 2 browsers, discovery that succeeds or fails | every request is answered; refinement of `SignIn` |
| `ServiceToken` | 3 requests, lifetimes of 1 and 3 ticks, told or not, with a margin of 1 and a fallback of 2, 4 instants | the shared fetch, validity, every call answered |
| `WidgetManager` | 2 overlapping ops, 2 widgets, 1 content, 2 filters | the form, the saves, the list where no load was crossed, lost answers, and that the page settles |
| `CallerIdentitySafety` | a person's and two clients' tokens in all shapes, both routes, every outside failure | who acts, and what alone can keep an entitled user from being served |
| `CallerIdentityName` | the same | names the service accepts but cannot forward |
| `FrontendSignIn` | 2 tabs, 2 users, 1 change of the session by itself or failed call, 2 clicks or reloads | whom the bar names, that widgets are shown, where navigations end and that they end |
| `KeycloakSetup` | 3 runs, 2 at a time, 2 environments of one realm, 4 sets of options, one of which shares the service client of one environment and the env file of the other, a new realm and one made by hand | repair by the next run, undisturbed services, refusals |

Bounds. Two concurrent writers and a third request are what the races of the widget
service need: a reader or creator whose row a second request changes while a third
retries; ids are never reused, so two suffice for two creations and three for the run
in which every request may create. One key is enough, as keys only interact with
themselves. Four sign-in requests cover login, callback, a second login or callback
and a visit or logout in two browsers. Three token requests cover one that fetches,
one that joins and one that finds the cache. The refinement of `SignIn` needs three: a
login, its callback and a visit or logout under the session, in either browser. In
`WidgetManager` one op already spans a save and its reload, so two overlap a save, an
opening or a deletion with any load; the properties tell widgets apart, not their
contents. In `FrontendSignIn` two tabs let the session change under a tab by what a
user does elsewhere, besides `MaxChanges`; two moves cover a click on a page that an
earlier one led to, and `Logouts` two overlapping logouts of one document. The run
does not check deadlock, as the tabs end with the bounds. In `KeycloakSetup`
`MaxOverlap` and `LateOverlap` bound how runs overlap: two at a time, and none
beginning beside another once one has ended, which leaves a stopped run, another that
overlaps it, and a third that finds what both left. The options differ in address,
audiences, environment, in having no audience at all, and in one explicit client id
and env file. `MaxClock` bounds every clock. `WidgetStoreSafety` runs with a clock
that stands still, since only the entity tags depend on it, which `WidgetStoreIfMatch`
looks at. In `BffSession` the intervals compared are 1 tick long, so one tick passes
them. In `ServiceToken` the lifetimes lie below and above the fallback, and the margin
equals the shorter one, so that 3 ticks pass an expiry of every kind. `unusable` is
left out of `BffSessionLive` for its size; the theorem of the same refinement has it.
Requests, widgets and browsers are permuted by symmetry in the safety runs; the
liveness runs use none.

Fairness. `WidgetStore`: weak fairness of each handler's next statement; a handler
is never kept from running for ever, since Node's event loop runs every settled
promise and the database answers or fails every statement. `BffSession` and
`ServiceToken`: weak fairness of each handler and of the answer to an outgoing
request, which `fetch` settles. Nothing is assumed about clients, browsers,
restarts or the clock, and nothing about which of an answer and a failure comes.
`WidgetManager`: weak fairness of every call's answer or failure (the browser gives
up a call no one answers) and of every continuation; nothing of the user.
`FrontendSignIn`: weak fairness of the answer to every call of a tab and of every
continuation; a call may fail instead, within `MaxChanges`.
`KeycloakSetup` assumes no fairness: runs may stop anywhere.

## Disagreements with the documents

Three have a run whose counterexample is short enough to read:

* `IfMatchGuardsWrite`: an update with If-Match overwrites a change made between
  its read and its UPDATE; the API promises it "only succeeds if the widget has
  not changed".
* `ReplayReturnsOriginal`: repeating a keyed create returns the widget as it is
  now, and after a delete creates another.
* `AnyValidUsernameForwarded`: a valid display name beyond Latin-1 makes every
  operation a 500.

A fourth has none, because the repository's own texts contradict each other on it.
The OpenAPI descriptions of replace and patch (`provider-api`
`widgets.controller.ts:939` and `:991`, and `dto/update-widget.dto.ts:35`) say that
they may transfer a widget to the subject named in the body. The code transfers
nothing: `canTransferWidgetOwnership` (`widgets.service.ts:446-448`) returns false for
every caller, and a subject in the body is overwritten by the caller's. The README
(`README.md:280`) and the unit test (`widgets.service.spec.ts:113`) say it as the code
does. `OwnerOnlyWrites` and `OwnedWidgets`, in which a record's owner never changes,
state what the code, the README and the test say; `AllCalls` has the replaces and
patches that name another subject, and each that succeeds refutes those three
lines.

## Proofs

All proofs are for any numbers of requests, subjects, widgets, keys, columns,
values, browsers, tabs, runs and any lifetimes, from the named assumptions on the
constants (calls are of their type; `None`, `Bad` and `Keep` are not values of
another kind; times are natural numbers). `TypeCorrect` is proved of every module;
every invariant and action property of the passing runs, and both refinements, are
theorems too.

* **`WidgetStoreProofs`**. `OwnershipInv` is inductive together with `TypeOK` and
  `ControlOK` (what a handler knows from the checks before its next statement).
  Ownership of rows written by id alone follows from `TargetsOwned` (the target is
  gone or the caller's), which in turn needs that ids are never reused (`IdsMinted`)
  and that a row of an open transaction is known to its own handler only
  (`OpenRowsPrivate`). One live widget per key needs that claims on a key are
  exclusive until commit (`ClaimsExclusive`) and that a key names what the creations
  made (`CreationsNamed`). From it: `KeyNamesOwnLiveWidgetAlways`,
  `OneLiveWidgetPerKeyAlways`, `OnlyOwnRowsAlways`, `OwnerOnlyWritesAlways`. On top of
  it stand two more inductive invariants. `AuditInv` follows a request from its write
  to its event: it is recorded, about to be, or has failed, and every event is of what
  its request did (`AuditCompleteAlways`, `AuditTruthfulAlways`). `KeysInv` says that
  a stored key carries the body of the create that used it first, which gives
  `KeyBindsBodyAlways`. `PatchKeepsOtherFieldsAlways` holds because a patch's UPDATE
  names its own columns only, whatever was written since its read.
  `StatementsAdvanceAlways` (each step of a request that is being served brings it
  nearer to its answer, by the measure `Ahead`) and `CommitsOwnRowAlways` (a
  transaction that others wait for has its own row to commit) are the safe half of
  `EveryRequestEnds`; both use one lemma, `Handling`, on which statement may follow
  which.
* **`WidgetStoreRefinement`**. `Spec => ImplementsOwnedWidgets`: the initial state
  maps to the initial state and, under the invariant, `Insert` to `Add`, `Commit` to
  `AddNamed`, `Write` to `Change`, `Remove` to `Discard`, all else to stutters.
* **`BffSessionProofs`**. `SignInInv`: a callback's login has been answered; the
  transaction of a sent code is gone from the map; a response exists from the time it
  is made; and every token in a cookie, a request or a response was made for that
  browser. The second excludes a second use of a code even across restarts; the last
  gives `SessionInStartingBrowserAlways`. `ServingInv` adds that a session's id is
  known only once the session was opened, so that one which a logout deleted is never
  opened again (`ServedWhileSignedInAlways`), and what the answer to a callback of
  another login does to the cookies: nothing, if it names that login; if it names
  none, it takes the browser's login cookie, and with it the chance to complete the
  login, but neither transaction nor session (`RefusedCallbackKeepsLoginAlways`).
  `AnswersInv` says that what the maps hold was answered: a login in the map with its
  redirect, a session with its landing, and that cookies and requests carry such
  tokens only. Under it `Spec => ImplementsSignIn` (`BffSessionImplementsSignIn`):
  `BeginLogin` maps to `Begin`; a callback to `Spend` when it sends its code and to
  `Lapse` or a stutter when it does not; `Exchange` to `Redeem`; a visit to `Serve` or
  `TurnAway`; `Logout` to `Leave`; a tick and a restart to `Lapse`; all else to
  stutters. The step that needs most is `TurnAway`: a visit is refused only when its
  session is over, which holds because no cookie is of a session not yet opened.
* **`WidgetManagerProofs`**. `FormInv`: openings and saves hold the `busy` flag and
  exclude each other (`SaveOwnsForm`, `PageHeld`), and while a widget is being opened
  a form on the screen is one for a new widget, so the widget's arrival changes the
  form's key (`FormIsOfEdited`). `ClosedMeansStored` follows from `AnswersTrue`: no
  hop turns an error, or a broken connection, into a success.
  `ListFollowsFilterAlways` follows each load from the filter it was begun with to the
  list it replaces (`ListTracked`). `FlagsHeldAlways`, the safe half of `PageSettles`:
  whenever the page is locked or loading, an op is under way whose end clears that,
  since openings and saves exclude each other (`SaveOwnsForm`) and a load that clears
  the flag of a later one leaves it cleared.
* **`ServiceTokenProofs`**. `SharedIsUnderWay` is inductive with the types and bounds
  the fetches by one (`OneFetchAlways`). `DatedAlways`: whatever the order of fetches,
  joins and failures, the cached token is the one last read, dated by the lifetime its
  answer named, or by the fallback, from when it was read. With the margin that gives
  `CachedTokenValidAlways`, under the two conditions the code itself depends on: the
  answer was read within the margin of the token's issue, and it named the lifetime or
  the token lives at least as long as the fallback. Without either an expired token
  can be used, which the Provider API answers with 401. `WaitersShareAlways`: what a
  request waits for is the shared fetch, so none is left with one that was settled,
  rejected or lost, the safe half of `EveryCallAnswered`.
* **`CallerIdentityProofs`**. `StagesOK` says what each guard may rely on from the
  stages before it. `ActsAsHolderAlways` and `EntitledServedAlways` are for any set of
  tokens of the shapes `TokenShapes` names (no person's token bears the name of a
  service account; a client's shows in one of three ways what it is), when the
  Provider SDX API's client is among those the Provider API allows
  (`SetupAssumption`). `EntitledServedAlways` is that the two services agree: an
  entitled user's call ends otherwise than well only by a failed request of the
  services (with the status the code gives it), by a service token that has run out,
  or by a name no header takes.
* **`FrontendSignInProofs`**. `TabsOK`: an answer on its way to the guard was true at
  a moment since it asked, one on its way to the provider at a moment since the
  document was loaded; and a rendered page without a user has heard of a moment
  without a session. `NameWasSignedInAlways`, `WidgetsShownAlways` and
  `GuardAsksAnewAlways` follow. `WaitsForCallAlways`: a navigation under way has its
  configuration or its guard's call to wait for, and a page that is loading its
  provider's; and `RedirectsFollowSessionAlways`: a guard redirects only as the
  session was since it asked, so each redirect back takes another change or failed
  call. Together they are the safe half of `NavigationSettles`.
* **`KeycloakSetupProofs`**. What a plan consists of is proved from its definition
  (`PlanShape`, `StepShape`; `OpenersFirst`: the scopes come before all that belongs
  to them), for any number of scopes and audiences. `ProgressKept`: what a run has
  passed is undone by no run of the same options, nor of options that share no client,
  env file or audience scope with its own. From it `RerunKeepsWorkingAlways`: from the
  moment there is an env file, whole or torn, what services started from it rely on is
  in the realm at every moment, runs stopped anywhere included. The file itself is
  whole, or torn by a run that is writing it or was stopped then
  (`TornExplainedAlways`). `LooksCurrent`: runs under way know of each other, so a run
  that met nobody acts on what is still there (`RefusedOnlyIfMetAlways`).
  `ReachingPlans`, with `ScopesThere`: for a run that met no rival, what it has passed
  is made, cleaned and assigned as its options ask; at the end of its plan that is
  `ConvergedAlways`. Assumed of the realm before the first run: only mappers can be of
  another type, and no mapper is without its scope.

Model-checked only: liveness (`EveryRequestEnds`, `EveryRequestAnswered`,
`EveryCallAnswered`, `PageSettles`, `NavigationSettles`), which needs fairness and
`ENABLED` and is out of the prover's reach. What is proved of it is its safe half:
that whatever is waited for is under way, and that steps do not lead back. The
theorems `FlagsHeldAlways`, `StatementsAdvanceAlways`, `CommitsOwnRowAlways`,
`WaitersShareAlways`, `OneFetchAlways`, `WaitsForCallAlways` and
`RedirectsFollowSessionAlways` are therefore about definitions that no run lists:
the runs check the liveness itself. `DatedAlways` and `TornExplainedAlways` are steps on
the way to `CachedTokenValid` and `RerunKeepsWorking`, which the runs list.

## Limits of the properties

What the code does and a property deliberately leaves open:

* A replace or patch names the owner by the caller (see above); no property says who
  ought to own a widget after it.
* An accepted callback clears the browser's login cookie even if a newer login has set it
  meanwhile (`bff-session.service.ts:109`); the user has to begin that login again.
* A login transaction is not accepted once expired because `Callback` asks so; no
  property restates it, and `SignIn` has no clock.
* A discovery request that failed is remembered for the life of the process
  (`bff-session.service.ts:217`): `EveryRequestAnswered` holds, by failures.
* `CachedTokenValid` promises nothing of a token whose answer came later than the margin,
  or hid a lifetime shorter than 300 s.
* `ListFollowsFilter` is of loads no filter change crossed: of crossing loads the last to
  be answered decides the list.
* The bar may show an older name than the session's until the document is loaded anew:
  `NameWasSignedIn` goes back to that load and no further.
* A run of the setup script stopped while it writes leaves an empty env file until another
  ends well. The scope and mappers of an `--audience-scope` that was renamed stay in the
  realm, unchecked by `Converged`.

## Not modelled

The unregistered `WidgetsController` and `JwtAuthGuard` of the Provider API, the
HTTP shell, OpenAPI documents, Swagger, logging, metrics and health checks, and
deployment: they keep no state of the system's own logic. The migrations run
once, in order, before the services. Signature, issuer and key-set checks are the
assumption that a token comes from the identity provider; that the keys for them may
not be there is modelled. Maps that only grow
(`logins`, `sessions`) are not bounded by any statement of the code. `refreshUser`
of the frontend is left out because nothing calls it, and the silent callback page
because it only closes its window; of the setup script the
secrets, the spelling of URLs and its messages are. The BFF's widget proxy is
modelled as the relay it is on the way of the page's calls; PATCH, which the page
never sends, and a session that outlives its access token are not.

## Plan

1. `EndToEnd`: the page's calls with the session's access token, which may expire
   on the way, over `WidgetStore` in the place of `WidgetManager`'s one-step
   database.
2. Pagination by offsets over a changing table, for widgets and for access events.
3. `FrontendSignIn` over `SignIn`, in the place of its one variable `session`.
