# A TLA+ verification of challenge-labs

challenge-labs lets users attack small vulnerable machines in the browser. A Go
server starts one Docker container for each challenge session, bridges a shell in
it to a WebSocket terminal, ends sessions that are too old or idle, checks the
flags users submit and keeps their progress. A React application is its client.

The modules in this directory model the system where several actors meet on shared
state: the goroutines of the server on its database, its containers and its maps, and in
the browser the handlers of a page on its state, when answers come in an order nobody
chose. They are translated from the source; the README of the repository and the comments
in the code enter as claims that are checked against the model.

## Inventory

| Component | State | Operations | Talks to |
|---|---|---|---|
| session store (`internal/session`, `internal/repository`) | one row per session: status, container, expiry, last activity | create, update (whole row), update status, update last activity, five queries | called by every component below |
| session handlers (`internal/handlers/session.go`) | a copy of the row across calls | start, terminate, status, reconnect, list, stats | store, container manager |
| container manager (`internal/container`) | the Docker daemon's containers | create, stop, is-running, exec-attach, resize, stats | Docker |
| scheduler (`internal/scheduler`) | the slice of rows a job works through | reap expired, reap idle, broadcast expiry warnings | store, container manager, hub |
| terminal handler and bridge (`internal/handlers/terminal.go`, `internal/terminal`) | one context, four goroutines and one exec stream per connection | connect, run, forward both ways, tick | store, container manager, hub, client |
| hub and clients (`internal/ws`) | session key to client; per client a buffered channel and a done channel | register, unregister, broadcast, send, close, write pump | bridge, scheduler |
| development routes (`internal/handlers/dev.go`) | none of its own | start, terminate, inspect sessions without a login | store, container manager |
| rate limiter (`internal/middleware/ratelimit.go`) | per client address, the times of the requests let through | allow, cleanup | in front of every handler |
| one-time codes (`internal/otp`) | code rows with expiry and used flag; TOTP secrets | generate, verify | users, mailer |
| accounts (`internal/handlers/auth.go`, `mfa.go`, `premium.go`, `admin.go`) | user rows | register, verify, login, MFA, premium, roles, passwords | one-time codes, JWT service |
| challenges (`internal/handlers/challenge.go`, `category.go`, `settings.go`) | challenges, tasks, categories, progress rows, settings | CRUD, submit flag, leaderboard | repository |
| tokens (`internal/auth`, `internal/middleware/auth.go`) | none (signed tokens) | issue, parse, check role | accounts |
| sign-in pages (`frontend/src/pages/auth`, `ProfilePage`, `context/AuthContext`, `routes`, `lib/api`) | the token in local storage, the user, each form's state | login, registration, reset, profile, MFA, logout, guards | accounts over HTTP |
| challenge page and terminal pane (`ChallengeDetailPage`, `components/terminal`) | challenge, progress and session shown, the socket | get, reconnect, start, kill, submit flag, open and close | session handlers, challenges, terminal handler |
| administration pages (`pages/admin`, `context/SettingsContext`) | a table, a modal or form and its flags; the sidebar's settings | list, toggle, create, edit, delete, set password | accounts, challenges, settings over HTTP |
| other pages | what they fetched | fetch and show | HTTP |
| seed program, email, configuration, logger | files and environment | straight-line code | |


How they interact: every HTTP request, every WebSocket connection and every firing
of a cron job is a goroutine. They share the database (each query is its own
transaction), the Docker daemon, the hub's map and the limiter's map, and nothing
else. No lock or transaction spans two calls, except the mutexes of the hub, the
limiter and MemoryStore, each held for one operation. The browser has one thread; what
overlaps there are the requests. A handler sends one, the user goes on, and the rest of
the handler runs when the answer comes, with the values it was rendered with. No request
of a form or a button is ever aborted; only some effects drop an answer that comes after
their page was left.

What is hard here, and what correctness means:

- *sessions*: handlers keep a copy of a row for up to three minutes of booting while
  other requests and two reapers write the same row; the server may end at any call,
  and Docker calls fail. An active session must have its container; a session that is
  over must stay over; sessions too old or idle must come to an end.
- *terminals*: five goroutines end in any order, a browser may vanish, a second tab
  may replace the first. The scheduler must not wait for a browser, and no goroutine
  may be left behind.
- *accounts*: two requests use one code, two addresses race for one name, rows are put
  back whole, finders return a zero row with an error that is dropped. An account must
  be backed by a code, and MFA by a secret its user has confirmed.
- *rate limiter*: times are dropped while requests are counted. It must answer as if
  nothing were forgotten, and must not grow for ever.
- *pages*: requests are served, and answered, in any order; the page, its route, its modal
  or its row may be another by the time of the answer; an answer may be lost after its
  effect; another tab or another administrator acts meanwhile. What is shown once all is
  answered must be what is stored, what was asked for must be done, a secret must stay
  with whom it was typed for, and no button may stay disabled.

## Modules

| Module | Models | Variables and the code they stand for |
|---|---|---|
| `SessionContract` | what is promised of one session, without store, goroutines or clock: opened at most once, on a container that has come up; over for good; its container taken down only then | `phase` how far each session has come; `box` its container: up, exited or removed |
| `SessionLifecycle` | store, session handlers, container manager, reapers, development routes, crash | `session` the rows; `docker` the containers; `pc`, `sess`, `batch` a goroutine's place, its copy of a row and the slice a reaper works through; `attached` the open terminals; `created`, `now`, `crashes` |
| `SessionClaims` | a sentence of the repository's README, stated over `SessionLifecycle` | |
| `TerminalHub` | `Connect`, `Bridge.Run`, `Client`, `Hub`, the scheduler's use of the hub, and whoever ends the session: reapers and `Terminate`, which stop its container, and the handlers that mark it expired and stop nothing | `conn[c]` one record per connection (context, done channel, exec stream, send channel, and where each of its goroutines is); `hub`; `live` the row is active, `expired` its TTL is over, `container`; `job` where each job or request to terminate is, `target` the client a job has got from the hub |
| `SlidingWindow` | what a rate limiter promises | `granted`, `answer`, `now` |
| `RateLimiter` | `allow` and `cleanup` | `requests` the map of slices |
| `Accounts` | the handlers that write a user's row, and the one-time codes | `users`, `codes` the tables; `work[p]` a goroutine's handler, next query and copy of a row; `now`; the histories `confirmed` and `proofs` |
| `SignIn` | `AuthContext`, the guards, the pages of login, registration, reset and profile, and what their requests find | `token` in local storage; `user`, `splash` of the context; `page` the route; `form` the state of its component; `calls[f]` the request on its way in `f`, and the handler that waits for it; `account`, `secrets` on the server; `app` the person's authenticator |
| `ChallengePage` | `ChallengeDetailPage` and `TerminalPane`, with `Get`, `SubmitFlag` and the session routes as one step each | `id` the route; `view`, `pane` the state of the two components; `calls`; `live`, `sessions`, `rows` the server; the history `disturbed`. `Zero` is the challenge of id 0 that is answered when the look-up of one has failed |
| `AdminPages` | the pages of users, categories, challenges, the challenge form and settings, `SettingsContext`, and the handlers behind them | `ui` the page and the state of its component; `calls`; `stored` the server's table; `sidebar`; the histories `asked` and `stale`. A change is `Find` and `Save`, or, when the look-up has failed, `SaveEmpty`, which saves the zero row as a new one |
| `*_proofs` | theorems about the module of that name; `SessionContract_proofs` the refinement of `SessionContract` by `SessionLifecycle` | |
| `MC*` | the model values, symmetry and choices of activities of the runs | |

One action is one call on shared state (a query, a Docker call, a channel
operation, a critical section) with what the handler does up to the next. Actions
carry the names of the functions, or of the function and the call
(`StartInspect`, `StartPublish`: the inspection and the last write of `Start`). A
definition marked *Variant* is a plausible bug in the definition it precedes; it is
used by no specification, and shows that a property can fail.

Data is abstracted to what the properties tell apart. A session key stands for the
row's id, its key, and the container's name; a password, a name or an address is a
model value; whether a typed code or password is right is a choice; an expiry is a
number of ticks. A premium without an expiry date expires after the end of time
(`Never`). Terminal bytes, container statistics, avatars and tokens are left out.

In the three modules of pages a request is three actions: one sends it, one serves it, one
is the rest of its handler. A handler on the server that asks twice (a look-up, then a
write) is two. `here`, `at` say whether the component that sent a request is still mounted;
the guards with which an effect drops a late answer read them. Histories (`disturbed`,
`stale`, `asked`) record why what is shown may not be what is stored, so that a property
can say that nothing else makes it so.

Composition: `SessionLifecycle` holds store, handlers, manager and scheduler
together, since all their hazards are between them. `TerminalHub` has what one
session's terminals share and keeps of the row and container only `live`, `expired`
and `container`; `SessionLifecycle` keeps of a terminal only `attached`. The pages are
composed with the server as a page can tell it: `SignIn` with the rows of `Accounts` reduced
to MFA and its secret, `ChallengePage` with the live session of each challenge,
which others may end or start at any time, `AdminPages` with one table.

## Runs

| Run | Question | States | Time |
|---|---|---|---|
| `lifecycle_crash` | With both reapers, the development routes, failing Docker calls, containers that exit and a crash anywhere: does any interleaving leave a row booting or terminating with nobody at work on it, a container unowned, stop the container of an active session, or end a session early; and does it implement `SessionContract`? | 1.63M | 110 s |
| `lifecycle_any_fault` | With every fault at once and the memory store, is a session that is over revived, or an active row without a container? | 267k | 10 s |
| `lifecycle_liveness` | Are sessions past their TTL, and idle ones, ended, when stops and inspections may fail and containers may exit? And with requests one at a time, is there one live session per pair? | 500k | 150 s |
| `terminal_safety` | Does the hub hold only clients that are served, is the exec stream closed last, and does a session that was terminated leave no shell, for two connections in any order beside a `Terminate` and handlers that mark the row expired? | 3.0M | 60 s |
| `terminal_liveness` | Do jobs finish whatever the browsers do, is a dead peer closed, is anything left behind, and does an abandoned terminal end unless its session is orphaned, when Docker may fail? | 142k | 90 s |
| `rate_limiter` | Does the limiter answer as one that forgets nothing, and does it forget clients that are gone? | 133k | 10 s |
| `accounts` | Is every account backed by a used code of its own and every password reset by a used code of its address (which two resets may share), are unused codes bounded, and is MFA on only with a confirmed secret, when queries fail? | 943k | 30 s |
| `sign_in` | Is each button's flag its one request's, is nobody locked out by MFA, are the routes guarded, do token and user go together, and does every handler end? | 665k | 135 s |
| `challenge_page` | Is what is shown as completed recorded, each accepted flag once; does an undisturbed page show the session that runs, and is a light that is on backed by a socket or the close of one? | 3.7M | 75 s |
| `admin_pages` | Is what was asked for stored and what is stored shown; do passwords stay with the user they were typed for, deleted rows deleted, and flags with their requests, when look-ups may fail and answers be lost? | 1.96M | 200 s |

All of these hold. Two runs end in a violation, each of a sentence of the repository that
the code does not keep:

| Run | The sentence | What the code does |
|---|---|---|
| `claim_one_container` | "One Docker container per (user, challenge) pair" (README.md:1129) | two concurrent starts both find no session and both create one (session.go:62, 88) |
| `claim_killed_on_expiry` | "containers are automatically killed on expiry" (README.md:48) | a terminal handler that meets a session past its TTL marks it expired and leaves the container; the reapers' queries no longer find it (terminal.go:98) |

### Bounds

- `SessionLifecycle`: two requests and one firing of each reaper suffice for every
  pair of goroutines that can meet on a row; requests are reused, so sequences of any
  length occur. `MaxSessions` 1 puts all of them on one session (a key's row and
  container are reached by no other key), 2 is used where sessions of one pair matter.
  `MaxTime` 2 or 3 with `TTL` 1 gives a session before, at and after its expiry, and
  idle or not; the liveness run has `TTL` 2 and `IdleTimeout` 0, so that idle sessions
  are ended before they expire. `MaxCrashes` 1: a second crash meets the state a first one
  left. `MaxSessions` and `MaxTime` are in the guards of creation and `Tick` and nowhere
  else.
- `TerminalHub`: two connections are enough for one to replace the other; `Buffer` 1
  is full after one message. The safety run has no scheduler's job: the request to terminate
  and the marks without a stop end the session in every way a job can, and jobs meet a
  connection only in its send channel. Docker does not fail in it, for then
  `NoShellOutlivesSession` asks nothing. The liveness run has one connection, one warning
  job, one reaper and one request to terminate, and Docker's stop and inspection fail.
- `RateLimiter`: `Limit` 2 and `Window` 2 over 5 ticks give a window that fills, slides
  and empties; the theorems hold for all.
- `Accounts`: two goroutines and four requests cover the registrations of one code
  twice, a reset beside a registration, and setup, enable, a second setup and a
  save. One password: no property of the run compares passwords. `MaxTime` 1 with
  `CodeTTL` 1 has codes fresh and expired. The bound on requests makes the model
  stop.
- The pages have two requests on the way at a time (`Fetches`), of which any can be an
  old one: the hazards are of an answer that meets another request or another page.
  Requests follow each other without end. `SignIn` has `MaxSecrets` 2, for a setup that
  overlaps another. `ChallengePage` has two challenges, of which the user knows the flag of
  one (`Known`), two sessions, and one replaced socket whose event is to come
  (`MaxClosing`). `AdminPages` has two rows; a behaviour makes use of the activities of
  one member of `Errands`, and these are the pairs of activities that have some of the
  page's state in common.

`SignIn` with two accounts and two secrets each was checked for its invariants once (8M
states), too long for a run of every day.

Deadlock is checked in all lifecycle, limiter, challenge and administration runs. It is not
in the terminal runs, where the given connections really end, nor in those of `Accounts`
and `SignIn`, where an idle server, or a page whose secrets are used up, has nothing to do.

### Fairness

- A goroutine between two calls goes on (`WF` of `Step`, `HandlerStep`, `PumpStep`,
  ...): the Docker calls of a start have a deadline of three minutes, those of a stop
  of 30 seconds, database calls return, WebSocket writes have a deadline of 10 seconds.
  The inspection in `Start` has no deadline of its own; Docker's API is taken to answer.
- Cron fires each job for ever (`WF` of `Fire`, of `WarnerGets`, and of `ReaperFinds`
  once the TTL is over): `scheduler.go:44-57` registers them every 30 seconds and two minutes, and no
  firing waits for another.
- Tickers tick: the limiter's cleanup every five minutes, the bridge's expiry check
  every five seconds, the pump's ping every 30 seconds.
- In the browser a request ends, with an answer or an error, and its handler then goes on
  (`WF` of `Serve` and `Deliver`): `fetch` settles, and no handler waits for anything else. No
  liveness is claimed of the challenge page.
- Nothing is assumed of users, browsers, shells, containers or crashes: no fairness on
  arrivals and clicks, on `ReaderGetsFrame`, `BrowserCloses`, `ShellExits`, `Crash`.

## Proofs

All theorems are of the form `Spec => []P`, `Spec => [][A]_vars` or `Spec =>
AbstractSpec`, for every value of the constants; the assumptions are the named ASSUMEs of
the modules (bounds are naturals, sets of goroutines are disjoint, `Procs` of
`Accounts` is finite, `Buffer`, `Limit` and `Window` are at least 1, `Nothing` and `Nobody`
are no rows and accounts). Every module has `TypeCorrect`; `TypeOK` is in a run of
`AdminPages` only, for the theorem says it of all instances.

- `SessionLifecycle_proofs`. Under every fault: `StoreCorrect`, `ActiveNamesContainer`,
  `SessionsStayOver`, `ReaperIsJustified`, `ContainersMoveOn` and `PublishedSettles`. When
  writes of the store succeed (`"store"` not in `Faults`): `ActiveIsSpared` (nothing but its
  own exit stops the container of an active session), `BootingHasItsStart`,
  `TerminatingHasItsKiller`, `ContainersAreOwned`; `ContainersRun` if containers do not
  exit either. When Docker's stop and remove succeed: `EndedAreRemoved`.
  - The inductive invariant is `StoreInv`: a Start is alone on its key,
    whose row names no container yet; rows name only their own container; and a copy that
    names a container agrees with the row, however old it is. This last part is what makes
    stale copies harmless for `ActiveHasContainer`.
  - `ContainerInv` adds that whoever stops a container has taken its row out of `active`
    before, and that no Start can bring it back, because `StoreInv` keeps a Start's key
    apart from every copy with a container. With exits among the faults it asks that
    the container be up or exited, not removed (`Up`).
  - `MadeInv` is what is left of it under every fault: a container that a row names has been
    started, and one that is being made is as far as its Start. `ContainersMoveOn` follows (a
    container is made and started once, and a removed one does not come back), and so do
    `EndedAreRemoved` and `PublishedSettles`, which is what `TerminalHub` takes for granted
    of `live`, `expired` and `container`: none of them is ever undone.
  - `ReaperIsJustified` needs `ReaperInv`, that a reaper at work ends sessions and
    does nothing else, and that the copy a Start writes back has the expiry of its row.
- `SessionContract_proofs`: `LifecycleImplementsContract`, when writes of the store succeed;
  Docker may fail, containers exit and the server crash.
  Every step of the lifecycle is one of the contract or a stutter, said first of the phases
  and boxes of all keys, then shown of each action from `StoreInv` and `ContainerInv`.
- `TerminalHub_proofs`: `HubServes`, `StreamClosesLast`, `GoneLetGo`, `AbandonedGoOn`,
  `NoShellOutlives`. `HubInv` adds `Sound`: the reader has ended and the context is cancelled
  from the return of `Run` on. The last three are what the liveness runs rest on, as far as
  it is a matter of states: the goroutines a handler leaves behind wait for nobody
  (`GoneLetsGo`, for `NothingLeftBehind`); without browser and shell some part of a terminal
  can always go on (`AbandonedGoesOn`, for `AbandonedTerminalEnds`); and a shell is open
  only in a container that is up, and in a session that is over only while somebody goes on
  to stop it, unless a handler met the session past its TTL or Docker failed
  (`NoShellOutlivesSession`), handlers that attach late included. `StagesInv` says what runs
  and what has ended by the time a handler is where it is; `ShellInv`, that a container that
  is down has no shell, and that a session that is over has no container but for those who
  are to stop it and the two exceptions.
- `RateLimiter_proofs`: `NeverOverLimit`, `LimiterImplementsWindow`, `SlicesBounded`,
  `RefusedAreNotCounted`. The
  invariant has `Ordered` (times are in order and not in the future) and `Remembers`
  (nothing in the window is missing from the map), hence what `allow` counts is what the
  abstract limiter counts. A client's slice never has more than `Limit` times, however many
  requests it makes, for those refused are not recorded; and a Window after the last that
  passed its window is empty.
- `Accounts_proofs`: `CodesProveEmails`, `AccountsHaveTheirOwnCode`,
  `MfaIsConfirmed`, `CodesAreBounded`. `AccountsInv` says what the tables guarantee
  (`Tables`) and what of a goroutine's old copy stays true of them (`Fits`). `Grows`
  lists the few ways tables change (rows keep their address, codes their address and
  purpose, used codes stay used, confirmed secrets stay confirmed); `GrowthKeepsFit`
  shows once that no such change disturbs another goroutine's copy. `CodesInv` counts the
  unused codes together with the goroutines about to store one.
- `SignIn_proofs`: `MfaNeedsConfirmation`, `RoutesGuarded`, `TokenAndUserTogether`,
  `ButtonsCorrect`. The first needs that a confirmation on its way carries a code of a
  secret that was in the app when it was typed (`CodesAreFromApp`); the last `ButtonInv`: a
  request whose component is mounted belongs to a form of the page on the screen, and a
  login to the address typed last.
- `ChallengePage_proofs`: `TerminalFollowsSession`, `LightIsBacked`, `OneStartAtATime`,
  `FlagsStayRecorded`, `BadgeIsRight`, `QuietPageShowsSession`. `RecordInv` adds that a
  look-up that found a progress row was right and still is; `ButtonInv` that an answer
  to a page that was left is dropped; `QuietInv` that while nothing has disturbed the page,
  each request of it is of its challenge, what its answer says still holds (`Orderly`),
  and either the page is up to date or an answer is on its way that makes it so (`Settles`).
  A look-up of the challenge that failed makes the page one of challenge 0, for which
  nothing runs: the theorem says of it that no session is shown, whatever runs for the
  challenge that was asked for.
- `AdminPages_proofs`: `PasswordsOfTheirTarget`, `AskedAreStored`, `FlagsBacked`,
  `SlotsBacked`, `QuietPageShowsTable`, `DeletedStayDeleted`. `PageInv` says which requests
  can be on the way on which page (`Fits`). `AskedInv`: while it is known what was last
  asked of a row, its one request asks for that; a look-up that fails (`SaveEmpty`) ends that
  knowledge, for its change is answered ok and made to another row. `QuietPageShowsTable` rests on four
  invariants: `LoadInv` (one load at a time, with no change of an earlier page behind it),
  `TableInv` (what is shown or was answered to the load is what is stored, or a change has
  been answered and will be loaded again), `SettingInv` (settings are changed on the page,
  row by row, with one request a row) and `SidebarInv`. `TableSteps` sorts all steps
  once into those that leave the table alone and the few that do not. `SlotsBacked`: the row
  whose button is disabled has a change of its own on the way, though all rows share the
  slot; with the end of that request the slot is free (`SlotIsFreed`).

Only model-checked: the liveness properties (liveness and ENABLED are beyond the prover).
`OneLivePerSlot` is model-checked only, with one request at a time: two requests break it
(`claim_one_container`), and nothing in the code keeps them apart. Every other invariant
and action property of a passing run is a theorem, some with a fault left out: when writes of the store fail, a session may stay active while its
container is stopped, or terminating for ever, and `OnlyExitsStopActive`,
`TerminatingHasKiller`, `RunningIsOwned` and the refinement are false.

The inductive invariants were checked by TLC before they were proved, on the instances of
the runs and outside of them, as were the properties that are theorems only
(`DockerMovesOn`, `EndedIsRemoved`, `PublishedIsSettled`, `GoneLetsGo`, `AbandonedGoesOn`, `SlicesAreBounded`, `RefusalsDoNotCount`, `SlotsAreBacked`).

## What does not hold

Found while stating properties, beside the two violations above; none of these is
asserted, and the properties say what remains.

Sessions and terminals:

- A session ended while it is booting is live again when its Start publishes the row
  (session.go:112). README.md:952 draws expired as final; `NeverRevived` says what
  remains: it is, once its Start has returned.
- The idle reaper may end a session that became active after the reaper's query.
- `Connect` past the TTL, and `Start`, `Status` and `Reconnect` when Docker does not answer
  the inspection, mark the row expired with its container up (terminal.go:98, session.go:69,
  146, 183). No reaper finds it any more: the container runs on, and with it the shells and
  handlers of the session's other terminals, abandoned or not. `AbandonedTerminalEnds` and
  `NoShellOutlivesSession` except it.
- A row marked terminating stays so if the server ends before the mark expired: no query
  looks for terminating rows.
- A container made by a Start that dies before its update is owned by nobody.
- The closing of the WebSocket does not close the session, as bridge.go:72-76 says: `Run`
  waits for a context that the end of the WebSocket does not cancel (bridge.go:169, 210).
- A reader waits for a silent browser without a deadline after the shell has ended.
- The notice of expiry is dropped when a client's channel is full, as its comment says.
- The handler of a replaced connection unregisters the newer client (hub.go:78), which
  then gets no more messages of the scheduler.

Accounts and sign-in:

- `UpdateProfile` "updates the authenticated user's display name and/or avatar URL"
  (auth.go:300) by writing the whole row, read earlier: a concurrent change of password,
  role, premium or MFA is undone (auth.go:328, repository.go:49). So does `SetRole`
  (admin.go:141), and `Status` of premium revokes by a row it read before (premium.go:40).
- A failed read in `UpdateProfile` or `SetRole` yields a zero row, which `Save` inserts as a
  new account without address or password. Two password resets may use one code.
- The secret of an MFA setup "is NOT yet stored" (mfa.go:27), and line 45 stores it, with
  MFA off: a setup answered late undoes an enabling. The second step of a login checks
  whichever secret the row has by then (auth.go:224).
- The role in a token outlives a change of role (middleware/auth.go:37), and two
  administrators can demote each other.
- The second step of an MFA login and of a registration store the token and leave the user
  of `AuthContext` unset: the guard leads back to /login with a valid token
  (LoginPage.tsx:46-59, RegisterPage.tsx:45-58). `SignedInTogether` excepts them.
- A `refreshUser` that fails late clears the token of a later login; one that succeeds late
  shows a user after a logout (AuthContext.tsx:21-29).
- The form of a new password cannot be sent from its page: the answer to the first step sets
  `success` (ForgotPasswordPage.tsx:32), and with a password typed `success` disables the
  fields and the button (:179, :199, :230, :251).
- The address of a registration or reset can be edited while its request is on the way;
  the code is then verified for another address.
- The page /leaderboard is not guarded by its setting (README.md:1012 says it is hidden).

The challenge page:

- An accepted flag is not shown as completed before the page is loaded again: line 130 of
  ChallengeDetailPage.tsx updates a progress that is not there on a first visit, unless the
  look-up has failed, for which Get answers a row of zeros (challenge.go:78,
  repository.go:360).
- Two clicks on Kill: the answer to the second clears a session started in between
  (ChallengeDetailPage.tsx:109-118). After a jump in the history from one challenge to
  another the session of the first stays on the page. `disturbed` records both.
- A look-up of the challenge that fails is answered 200 with the challenge of id 0
  (challenge.go:276-281, repository.go:174-182): the page asks for the session of challenge
  0 and shows none, though one may run. `QuietPageIsCurrent` excepts it.
- The `onclose` of a replaced socket turns the light off that the new one has turned on.

The administration pages:

- The list of users has no is_premium (admin.go:53-97), so its toggle always grants
  (AdminUsersPage.tsx:56-68; README.md:932).
- A challenge's flag can be left empty "to keep existing" (AdminChallengeFormPage.tsx:232,
  challenge.go:152), but is `binding:"required"` (challenge.go:91): the answer is 400. Update
  ignores slug, category and tasks.
- One slot for all rows: with the toggles of two rows on the way the first row's button is
  enabled again, and a late request undoes a later choice. Two crossing changes of one
  setting leave the page with the one answered last.
- The answer to a modal's request closes whichever modal is open; a form's answer
  leads away from whichever form is open; the load after a change is of the page number the
  button was rendered with.
- When the look-up of `SetRole`, or of an update of a category or a challenge, fails
  (admin.go:135, category.go:77, challenge.go:154), what was sent is saved as a new row,
  unless a unique index or a foreign key refuses it, and answered ok; the row it was meant
  for stays as it is (`SaveEmpty`). `AskedIsStored` excepts it.
- After a jump between two forms the form of one challenge can be saved as another; a
  challenge that cannot be loaded leaves an empty form in edit mode.
- Saving a challenge or category that was deleted since its look-up inserts it again
  (challenge.go:179, category.go:93). `GoneForGood` excepts it.

## Plan

Done, in the order of the plan: the lifecycle of sessions with its refinement; terminals; the
rate limiter; accounts; the sign-in pages; the challenge page with progress and flags; the
administration pages with settings; and their proofs. What would come next:

1. The countdown of the terminal pane, which is not reset for a new session
   (TerminalPane.tsx:41), and the resizing of the shell.
2. Signing and expiry of tokens beside the changes of `Accounts` that do not revoke them.
3. `ChallengePage` over `SessionLifecycle`, in place of sessions that come and go in one
   step, with a coarser lifecycle as the contract between them.

### Not modelled

The mailer (one HTTP call, whose failure `Accounts` has), configuration and logging,
migrations and sample data (straight-line code or I/O), the static terminal page, the
challenge images, the theme and toasts, and the pages that fetch once and show what they
got: they keep no state that outlives a request, and nothing else acts on it. The
leaderboard, the statistics and the lists of progress only read. The signature and the
expiry of tokens are data: what matters of them, that a request with a token of the wrong
kind is refused, is in `SignIn`.
