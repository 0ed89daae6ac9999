# go-carta in TLA+

go-carta is the controller of the CARTA image viewer: `carta-ctl` speaks
WebSocket and HTTP with browsers, `carta-spawn` starts one worker process per
session and per open file, and `carta-worker` (or the C++ backend) does the work.
The modules here model the parts of it that several goroutines, processes or
users share, TLC checks them on small instances, and TLAPS proves what matters
most for every size.

Contents: 1 inventory, 2 modules, 3 what each run checks, 4 findings, 5 fairness,
6 bounds, 7 what is proved, 8 what is only model-checked, 9 what is left out,
10 plan.

## 1. Inventory

Everything below is under `src/`. Abbreviations: ctl = `services/carta-ctl`,
spawn = `services/carta-spawn`.

| Component | State it keeps | Operations | Modelled in |
|---|---|---|---|
| **SpawnWorker** (spawn/internal/processHelpers/processSpawning.go) | child process, two pipes, two watcher goroutines, `readyCh` of capacity 1, deadline context | start, watch both streams, return the port, give up and reap | `SpawnWorker`, promise in `Launch` |
| **carta-spawn** (spawn/main.go, internal/httpHelpers) | `workerMap` (plain Go map), children, the global context | POST /, GET /workers, GET and DELETE /worker/{id}, shutdown on a signal | `Spawner` |
| **Controller session** (ctl/internal/session) | `Info`, `sharedWorker`, `fileMap`, one `sendChan` per worker, `clientSendChan` | REGISTER_VIEWER, OPEN_FILE, proxying, status; relay of what workers say; `HandleDisconnect` | `Session` |
| **WebSocket endpoint** (ctl/internal/http/websocket.go) | the connection | read loop, a goroutine per message, PING/PONG | read loop in `Session` |
| **Client of the spawner** (ctl/internal/spawnerHelpers) | none | RequestWorkerStartup, -Shutdown, -Status | `Leases`, promise in `Lease`; as steps of `Session` |
| **Workspaces** (ctl/internal/database) | table `workspaces` | set, get by key or name, list, clear, share | `Workspaces` |
| **Preferences, layouts, snippets** (ctl/internal/database) | three tables | get, set, clear | `Preferences` |
| **Tokens and cookies** (ctl/internal/auth, ctl/internal/http) | keys and ages; `refresh_token` in the browser | issue, refresh, check, log out | `Login` |
| **OIDC login** (ctl/internal/auth/oidc) | PKCE, state and ID token cookies, provider metadata | login, callback | `Login` |
| **PAM login, login page** (ctl/internal/auth/pam, pamwrap, login.go) | none | authenticate, show the page | `Login`, `Startup` |
| **Start-up and routing** (ctl/main.go, ctl/internal/http/spa.go) | mode, what was set up, endpoints | load, set up, register, serve | `Startup` |
| **Configuration** (pkg/config) | merged values | defaults, file, environment, flags, overrides | `Startup`, for the key it branches on |
| **Message headers** (ctl/internal/cartaHelpers) | none | decode and prepare an 8-byte header, read a file id | kind and file id of a message in `Session` |
| Logging, static pages | none | | not modelled |
| **carta-worker** | none between calls | list a directory, FITS headers through cfitsio | not modelled: stateless calls |
| **api** | none | a stub | not modelled |

### How they interact

A browser opens a WebSocket. The read loop hands every message to a goroutine of
its own. REGISTER_VIEWER asks the spawner for a worker (HTTP POST), dials it and
makes it the session's *shared worker*; OPEN_FILE does the same for one file,
tells that worker REGISTER_VIEWER first and, when its acknowledgement comes back,
OPEN_FILE. Everything else is proxied to the worker of its file, or to the shared
one. Each worker has a channel and a goroutine that writes it to the connection,
a goroutine that reads the connection, and a goroutine per message read, which
puts it on the client's channel. In the spawner a POST starts a child, waits until
one of its two output streams announces a port, pings it over WebSocket and puts
it in the map. The database handlers share nothing but PostgreSQL.

Controller and spawner know nothing of each other but what these HTTP requests
carry, each made once, without a timeout or a retry: a POST per worker wanted, one
DELETE when the client has left. Before all this, `main` of carta-ctl puts its
configuration together, sets up what the mode of authentication needs and registers
endpoints; a user logs in through PAM or an OIDC provider, which puts a refresh token
into a cookie all tabs share; each tab trades it for access tokens of its own, and
shows one with every request and WebSocket. The controller keeps no list of sessions.

### What is hard, and what would be correct

* **SpawnWorker**: two watchers announce into a channel of one, the deadline may
  fire at the same moment, the watcher that finds the port must keep the pipe
  drained for the rest of the worker's life. *Correct*: a call hands over a
  started child or leaves none behind; the port is the first announced; lines are
  neither lost nor reordered; the child is never blocked by its own output.
* **Spawner**: handlers and the shutdown loop share a map without a lock; the
  context kills children on its own; `Wait` may be called once. *Correct*: a
  running worker is in the map or in its POST's hands; "Worker stopped" is true;
  the shutdown ends, and no worker it found runs on.
* **Session**: any number of handlers, relays and the cleanup run at once, on
  channels that are nil, full or closed. *Correct*: messages reach the worker of
  their file, a worker registers before it opens, no worker learns of another's
  file, nothing blocks for ever, no registered worker outlives the session, no panic.
* **Workspaces**: ids come from the database and from requests, rows are cleared
  and their names used again, keys are handed to other users. *Correct*: a key
  leads to one workspace; users see their own or shared rows and change their own
  only; a key that was given out stays good.
* **Preferences**: several tabs write parts of one JSON value. *Correct*: an
  update takes nothing away that it does not name.
* **Workers across both programs**: a request or its answer is lost, a dial fails, the
  client leaves with requests under way, either program ends. *Correct*: no worker is
  stopped under a session that uses it; a worker that was registered in time does not
  outlive its session; the ways to lose a worker, and to wait for ever, are known.
* **Login**: tabs share cookies and not tokens, tokens cannot be taken back, answers
  come late, the provider's part happens elsewhere, configuration and controller
  change in between. *Correct*: nobody is taken for somebody else, a login ends when
  its tokens do, a logout is not undone by what was under way, and the page offers
  what works.

PROJECT.json lists each hazard with its line and the properties that watch it.

## 2. The modules

    Launch            promise of one SpawnWorker call (abstract)
    SpawnWorker       the call in detail            implements Launch
    Spawner           the carta-spawn process       uses Launch, one per POST
    Session           one client session of carta-ctl
    Lease             promise about one worker, from start to end (abstract)
    Leases            sessions of carta-ctl and the workers of carta-spawn
                                                    uses Lease, one per worker
    Tables            what the tables of the database share
    Workspaces        the table of workspaces       extends Tables
    Preferences       the tables of preferences, layouts, snippets
                                                    extends Tables
    Startup           main of carta-ctl and its configuration
    Login             logins, tokens and cookies    extends Startup
    MC<X>             constants for TLC; MCDatabase puts Workspaces and
                      Preferences on one database
    <X>_proofs        theorems about X
    SessionTraffic_proofs
                      theorems about the messages of Session, on top of
                      Session_proofs

Each variable is commented where it is declared, and every action with the call
it stands for; `map` in PROJECT.json gives the lines. An operator that ends in
`_word` and is marked "Mutant" is a wrong version of the one that follows it: it is
used by no specification, and serves to show that a property would notice.

**SpawnWorker.** `main` is the caller's program counter, `pipe[p]` what the child
wrote and nobody has read, `watcher[p]` the goroutine of `watch`. A line is the
port it announces, anything else (chatter), or something longer than `bufio.Scanner`
takes. `Wait` closes the pipes' read ends (as `os/exec` does),
so `ReapWorker` does. `sudo` and the command it runs are one child.

**Launch** has two variables, the call's phase and the child's state. `SpawnWorker`
maps its phase with a CASE; `Spawner` instantiates it once per POST, so what
DELETE and the shutdown do with a child is checked against the same promise.

**Spawner.** A POST, its child and its id are one value. A goroutine at a step such
as `inserting` or `lookup` is *inside* an access to the map. When a write overlaps
another access, `Written` lets it and any other entry be lost, `Found` lets a reader
miss entries, and `MapFault` lets the runtime end the program: Go defines nothing of
such accesses. `raced` records that an overlap existed, so that the properties can say
what holds without one.
`proc = "reaped"` is `ProcessState # nil`.

**Session.** A message is its position in `Script`, the list of what the client
will send, with the message whose answer it waits for (`after`). The worker a
message starts is named after it. `h[m]` is the step of message m's handler: one
step per access to what the goroutines share (`fileMap == nil`, `make`, the store,
the publication of `sharedWorker`, `handleInit`, a channel send). A Go channel is
`chan[w]` with `queue[w]`: a send needs room, panics on a closed and waits for ever
on a nil channel. `loop` is the read loop and then the steps of `HandleDisconnect`.

**Lease** has a worker's state and who answers for it: the spawner that starts it, an
open session, a cleanup, nobody (`"lost"`). Only the spawner that starts a worker and
the cleanup may stop it. **Leases** implements it, once per worker: `HolderOf` reads
the holder off the state of both programs (whose POST is under way, which session has
the id in `info`, which cleanup is about to delete it). A request, its worker and its
id are one value. `call[q]` is the handler in the controller, `post[q]` the handler in
the spawner, so that either goes on when the other is gone; `phase[s]` is
`HandleDisconnect`. The map of the spawner is atomic here (its races are Spawner's
subject), and traffic between workers and clients is left to Session. `inTime`
records which registrations were answered before the cleanup looked.

**Workspaces.** A request is one step because each handler runs one SQL statement.
The constraint `unique_workspace_id`, the default `gen_random_uuid()`, the
`ON CONFLICT` clauses and the `WHERE` clauses of each statement are operators of
their own (`Taken`, `IdsFor`, `Store`, `Readable`, `Sharable`).

**Preferences.** A preference, a layout and a snippet are cells of a user's store.
`seen[t][c]` remembers what tab t last learned of cell c, unless another tab of the
user has written that cell since; `WhatWasSeenStands` compares it with the store.
MCDatabase runs both modules on one set of users; a behaviour of the instance shows
one of the two, since no statement touches both.

**Startup** has the stages of `main`, the mode it read, what it set up (`ready`) and
the endpoints it registered (`served`), each decided by a look of its own at the mode,
as in the code. `Effective` is the precedence of the sources of a key. Any stage may
fail.

**Login.** What there is to know of a login is in the browser: the cookies `refresh`,
`pkce` (state and code verifier, which are set and cleared together) and `idToken` (with
the logout endpoint, likewise), and `access[t]`, the token a tab holds. A request that
carries cookies takes them along when it is sent (`request[t]`) and meets the controller
later: a refresh, a callback, and a logout, whose handler shows the provider the ID
token it was sent (`hint`) while its answer clears the cookies there are by then. The
requests for a login read no cookie and are one step. An answer sets its cookies as soon
as it is made; `NoAnswer` and `CallbackFails` cover refused requests and lost answers.
The provider is `flow`, `code` and `endSession`, what the controller read of its
metadata when it was started last (`Discovers`). Each token carries, as history, the
login it goes back to and whether that was already logged out when the token was asked
for: no code reads them.

## 3. The runs

| Run | Checks | What it shows |
|---|---|---|
| SpawnWorker_calls | TypeOK, FirstAnnouncement, NothingLost, Implements, CallReturns, PipesDrained | with over-long lines and failing stdio, the call returns and keeps `Launch`'s promise, the port is the first one announced, no line is lost under a live watcher, and a full pipe is read again even long after |
| Spawner_shutdown | Tracked, SweepComplete, ShutdownEnds | two POST, a DELETE, a listing and a shutdown in every order: no worker is lost from sight unless accesses to the map overlap, every worker the shutdown found in the map has ended when its loop has, and the signal ends the program |
| Spawner_faults | TypeOK, StoppedMeansDead, DroppedOnlyDead, UsesLaunch | two POST, a DELETE and a GET with refused signals and a listener that fails: what DELETE reports is true, entries go only for dead workers unless accesses overlap, and every child is used as `Launch` allows |
| Session_patient | TypeOK, RoutedToFile, Confined, DeliveredInTurn, NeverStuck, PanicOnlyAfterLeave, RegisteredStopped | a client that registers twice and waits for each answer, and for a file to be open before it opens the next, gets what `shared.go` promises, nobody is told anything out of turn or twice, with workers that do not start, exit or refuse to stop, and the client leaving at any moment; the cleanup stops the worker of a registration that was handled and not replaced by another, even when its dial failed |
| Session_live | EveryAnswer | all channels of capacity one: no cycle of full channels ever holds everybody up |
| Leases_faults | TypeOK, RegisteredFreed, LostOnlySo, UsesLease, CleanupEnds, OnlySilenceHolds | two requests for workers, of one session or two, with lost requests and answers, refused kills and either program ending: every worker lives as `Lease` allows, a worker registered in time goes with its session, the others are lost in the ways LostOnlySo lists and in no other, and what holds a cleanup or a request for ever is a spawner that is up and never answers, or a worker that is silent or could not be killed |
| Database_rows | RowsTypeOK, UniqueIds, ShownIsVisible, OwnRowsOnly, KeyIsKept; CellsTypeOK, WhatWasSeenStands | two users share, clear, re-use ids and save workspaces again; two tabs of one user and one of another write preferences, layouts and snippets |
| Login_tabs | TypeOK, LoginOffersWork, SessionBounded, Authentic, LogoutHolds, HintMatches | two tabs, two people, two logins of either kind, with refreshes answered late, tokens and cookies that expire, restarts of the browser and, with another configuration, of the controller: nobody is taken for another, a login ends with its tokens, a logout is not undone and shows the provider the ID token the browser has unless something was answered in between, and the login page offers what is served |

The runs that expect a violation are the findings.

## 4. Findings

Each is a run in which TLC finds a behaviour of the code that a comment of the code
denies; PROJECT.json quotes the comment.

| Run | Behaviour |
|---|---|
| SpawnWorker_longline | a line of 64 KiB ends the watcher; the worker's pipe is never read again, and the worker blocks on its own output |
| Spawner_graceful | the signal's context kills the workers before the loop sends SIGTERM |
| Session_lostroute | two OPEN_FILE handlers both make `fileMap`; messages about the first file go to the shared worker |
| Session_panic | a send meets a channel the cleanup has closed, and the controller panics |

Seen while modelling, and not made into runs:

* Spawner: two POSTs write the unlocked map at once, and one worker is lost from it
  (which is why `Tracked` is about executions without an overlap); `TestWorker` reads
  without a deadline, so that a silent worker keeps its POST for ever; a worker that
  exited by itself is reported alive (`ProcessState` is set by a `Wait` nobody calls
  before the shutdown), and its entry stays for ever.
* SpawnWorker: a comment of `processSpawning.go` says the watcher looks for "server
  listening", and the code looks for the regular expression that carries the port.
* Session: the cleanup forgets the workers in `fileMap`, and a second REGISTER_VIEWER
  replaces `Info` and leaves the first worker running; `sharedWorker` is visible
  before it has a channel, and a send on nil waits for ever; opening a file id again
  replaces its entry and leaks the older worker; a dial that fails after OPEN_FILE
  started its worker leaks it; a registration still at work when the client leaves
  leaks its worker.
* Workspaces and preferences: saving a workspace without `"shared"` un-shares it;
  saving one under an id that is another row's answers 500; PUT /preferences with the
  body `null` panics inside the handler, which `net/http` recovers. With a database
  and mode `none` every request is refused, for no token can be had.
* Both programs: file workers, workers whose dial failed and workers whose answer was
  lost run on with nobody who knows them (`"lost"` in Lease) until they end on their
  own `--idle_timeout` or with the spawner, which keeps their entries.
* Login: in mode `both` a PAM login leaves the ID token cookies of an earlier OIDC
  login, so that logout ends the other user's session at the provider (`HintMatches`
  leaves that case out); two tabs' logins overwrite each other's PKCE cookies, and the
  answer of one callback clears the other's; a callback with an error leaves them; a
  login given up leaves `oidc_redirect_params` for the next; without an
  `end_session_endpoint` the callback answers 500 though the user is logged in; the
  user of a tab changes at its next refresh after a login in another; an open
  WebSocket outlives its token; the ID token cookies end with the browser, and the
  refresh cookie does not.
* Start-up: without `frontend_dir` there is neither a login endpoint nor a WebSocket,
  though the log (main.go:196) says "only /carta WebSocket"; README.MD:103 has
  `/oidc/callback` where the code serves `/api/auth/oidc_callback`; a wrong log level
  makes `NewLogger` return nil and `slog.SetDefault` panic; the fallback for the
  spawner's address (main.go:81) is dead, since there is a default.
* Configuration of the spawner: `--timeout` is an int bound to a Duration, so 5 is five
  nanoseconds (spawn/main.go:44); `--base_dir` is bound to a key no field reads
  (`base_dir_tmpl`); the default of `--worker_exec` is never used.

## 5. Fairness

* **SpawnWorker**: the caller and each watcher are goroutines the scheduler runs, a
  timer fires, and the goroutine of `CommandContext` kills when it can. No fairness
  for what the child writes, when it exits, or the signal.
* **Spawner**: main, and every handler step that waits for nothing outside the
  program. A worker need not announce itself, answer or exit; a request or the
  signal need not come. `TestPasses` and `TestFails` wait for the worker and have
  no fairness (`TestBreaks`, when it is gone, has).
* **Session**: handlers, writers, readers, relays and the cleanup are goroutines;
  weak fairness on each kind is enough because each kind has finitely many steps to
  take, and those enabled stay enabled until one of them is taken. Workers that
  live take the frames that reach them. A client need neither send nor leave.
* **Leases**: handlers and cleanups of the controller are scheduled (weak fairness per
  request and per session), and so is what the spawner does on its own with a POST it
  has taken up: start the child, refuse, kill it at the deadline, collect it when it
  has ended. `ChildReady`, `TestPasses` and `TestFails` wait for the worker and have no
  fairness. Nor do `PostArrives` and `DeleteServed`: a spawner that is up may never
  answer, and `http.DefaultClient` has no timeout (spawnerHelpers.go:117). A request
  that meets a spawner that is gone is refused in the end (`CallBreaks` and
  `ShutdownLost` are fair then).
* **Workspaces, Preferences, Startup, Login**: no liveness is stated. A login waits for
  people.

## 6. Bounds

* SpawnWorker: two streams (there are two), four kinds of line (two ports, chatter,
  over-long), at most two per stream, one line per pipe. Two announcements, on one
  stream or on both, are what it takes to fill and overflow `readyCh`; one line fills a
  pipe.
* Spawner: two POST and one DELETE are enough for a write to overlap a write, and a
  handler to be at work on either side of the loop; a reader (a listing or a GET) is
  added in each run. Deadlock is not checked: the program may end.
* Session: scripts of two to eight messages, chosen in MCSession. `Patient` holds every
  kind of message, registers a second time and opens two files in turn, with a message
  about the first under way while the second is opened; `TwoOpens` opens them at once;
  `Flood` sends three messages at once for a worker whose channel, connection and client
  channel hold one each; `Short` is a registration and one file. Capacity one (`Cap`,
  100 in the code) and one frame under way (`Wire`) make every channel full at some
  time. Deadlock is not checked: a session may be over and a client silent.
* Leases: two sessions, two requests, each a registration or a file, the second of
  either session; all four kinds of fault. Two requests make a session that replaces
  its worker, one with a file, and two sessions that could stop each other's. Deadlock
  is not checked: sessions end.
* Workspaces: two users, two names, three ids, two contents: an id can be in use, be
  free again or never have been given, and a third is there for a fresh row.
* Preferences: two tabs of one user, one of another, two keys (the version and one
  other), one name for a layout and a snippet.
* Login: ages 1 and 2 within a time of 3, so that every token expires and an access
  token outlives the refresh token it was made from; two logins (`MaxLogins`), one to
  be replaced, two flows, two users. `show` splits behaviours in two: two tabs on a
  controller in mode both that stays up, with a provider that has an
  `end_session_endpoint`; or one tab and one flow around restarts, each of which may
  find the endpoint or not, over five configurations that yield four modes and an
  unknown one. Only one tab refreshes:
  what a tab does with its token concerns no other tab. Keys and issuer stay the same
  over restarts, which is the harder case.

## 7. What is proved

For every value of the constants under the modules' ASSUMEs, which say no more than
that channels hold at least one message, that an OPEN_FILE names a file, that
`Nil`-like values are different from the others, and the like.

| Theorem | Says | Argument |
|---|---|---|
| SpawnWorker_proofs!TypeCorrect | types | inductive |
| SpawnWorker_proofs!KeepsPromise | `Spec => Promise!Spec`, i.e. SpawnWorker implements Launch | initial states map to initial states, every step to a step of Launch or a stutter |
| SpawnWorker_proofs!LinesConserved | `[]NothingLost` | each watcher step moves the head of one part of `Accounted` to the end of the part before it |
| SpawnWorker_proofs!ReturnsFirst | `[]FirstAnnouncement` | what sits in `readyCh` was the first announcement of its stream, because a later one finds the channel full |
| SpawnWorker_proofs!WaitsEnd | `[]NobodyWaitsInVain` | `WatchedInv`: read ends are closed only with the child reaped, and a running child has watchers |
| Spawner_proofs!TypeCorrect, WorkersTracked, StoppedWorkersDead, ShutdownComplete, EntriesOutliveWorkers, LaunchRespected | types, `[]Tracked`, `[]StoppedMeansDead`, `[]SweepComplete`, `DroppedOnlyDead`, `UsesLaunch` | one invariant `IInv`: how far each handler got with its child (`PostInv`), that a DELETE or the loop about to remove an entry has a dead child (`DelInv`, `MainInv`), that an overlap is on record (`RaceInv`); for SweepComplete, what the loop has seen and left behind (`SweepInv`) |
| Spawner_proofs!AwaitedChildren | `[]AwaitedIsThere`: main waits for no child twice, and for no live one it could kill | only main waits for a child whose POST is over; with `MainInv` |
| Session_proofs!TypeCorrect | types; in particular no channel exceeds its capacity | with `Stages`: which messages can be at which step |
| Session_proofs!OpensInOrder | `[]OpenAfterRegister`, part of DeliveredInTurn | `Traffic`: an OPEN_FILE frame on its way, or an acknowledgement on its way back, means the worker has been asked to register |
| Session_proofs!FilesKeptApart | `[]Confined` | `Routes`: entries of `fileMap` are file workers of that file, `shared` is a registration's; with `Traffic` for frames under way |
| Session_proofs!StaysUp | `[]PanicOnlyAfterLeave` | `ClosedLate`: only steps after the read loop close channels |
| Session_proofs!RegistrationStopped | `[]RegisteredStopped` | `Registration`: `info` names the worker of the registration from the moment it runs, and the handlers that were done when the client left start no worker later; a second registration may replace the first, which RegisteredStopped then leaves out |
| SessionTraffic_proofs!InTurn | `[]DeliveredInTurn` | `Once`: whatever is in a queue, on a connection, with the worker or with a relay is there once and nowhere else, and what is still to be sent is in none of them; with OpensInOrder |
| SessionTraffic_proofs!RoutedWhenKnown | `OpensOneFirst` gives `[]RoutedToFile` | `Acks`: an answer the client has is one its worker gave, so the OPEN_FILE was handled; `Filing`: `fileMap` is made once, and a file that was opened stays in it, under the worker that opened it |
| SessionTraffic_proofs!NoneStuck | `AnswersFirst` gives `[]NeverStuck` | `Meeting`: a handler that runs has its worker's channel, since the answer to the last registration came through it (`RegisteredInTurn`) |
| SessionTraffic_proofs!NoFault | `TakesTurns` gives `[](crashed # "fatal")` | `Turns`: who touches `fileMap` was read when the one before was done |
| SessionTraffic_proofs!NoneHeldUp | `[]NobodyHeldUp`: while the client stays, who waits for room waits for someone who can go on | `Linked`: without a channel nothing is under way, and only a worker that exits closes its connection; then from the full queue to the connection, the worker, the connection back and the reader, of whom one can move |
| Leases_proofs!WaysToLose, WaysWithoutFaults | `[]LostOnlySo`: a worker that nobody answers for is of a file and its session gone, replaced, registered too late, or lost to a fault that is named; without faults only the first three | `LossInv`: which fault is behind each outcome, and that a cleanup stops what was registered in time |
| Leases_proofs!TypeCorrect, RegisteredAreFreed | types, `[]RegisteredFreed` | an invariant that follows a registered worker through the cleanup: from `info` to `target`, to the answer of the DELETE |
| Leases_proofs!LeasesImplementLease | `Spec => UsesLease`: every worker is a behaviour of Lease | per action and worker: which holder it had, which it has; a stop comes from the POST that started the worker or from a DELETE whose cleanup holds it |
| Workspaces_proofs!TypeCorrect, IdsUnique, RowsAreOwn, KeysAreKept | types, `[]UniqueIds`, `OwnRowsOnly`, `KeyIsKept` | UniqueIds is inductive given the types; the action properties follow from what each statement may touch |
| Workspaces_proofs!OnlyVisibleShown | `[]ShownIsVisible` | every step makes it true of its answer, whatever was before |
| Login_proofs!TypeCorrect, PagesWork | types, `[]LoginOffersWork` | what is ready and served follows from the mode at each stage |
| Login_proofs!SessionsEnd, UsersAreAuthentic, LogoutIsFinal, HintsMatch | `[]SessionBounded`, `[]Authentic`, `[]LogoutHolds`, `[]HintMatches` | one invariant about every token there is, in the cookie, under way or in a tab: it names a login that happened, with its user and source and an age bounded by that login's time, and the cookies are of no login that was logged out; for the hints, that the refresh cookie is of the latest login and came with whatever ID token there is (`HintInv`) |
| Preferences_proofs!TypeCorrect, SeenStands | types, `[]WhatWasSeenStands` | inductive given the types, one case per statement |

None of the safety properties but types and UniqueIds is inductive alone. In Session,
for instance, that a worker was told of its file in order says nothing about the
frames in its channel; `Routes`, `Traffic` and `ClosedLate` are what has to be known
of handlers, maps and channels so that the next frame is right, too. They were
model-checked before they were proved.

Two invariants hold only of clients that wait for the right answers, and so does the
absence of a fault in the map of files. Their theorems name what a client must do, as a
hypothesis about its script, and no more:

* `OpensOneFirst`: of any two OPEN_FILE, one waits for the answer to an OPEN_FILE.
  Session_lostroute is the run of a client that does not.
* `AnswersFirst`: registrations come first, as many as the client likes and each after
  the answer to the one before, and everything else after the answer to the last.
* `TakesTurns`: each message about a file waits for the answer to the one before.

MCSession's `Disciplines` has TLC confirm which of its clients keep which. Session_patient
has messages about one file under way while another is opened; it keeps the first two.
The other theorems about Session need no hypothesis about the client.

Liveness is out of the prover's reach, but not what it rests on. NoneHeldUp is the
reason why EveryAnswer holds, for channels and connections of every size and any
number of workers, where Session_live shows it for one of each size; WaitsEnd and
AwaitedChildren are the steps of CallReturns, PipesDrained and ShutdownEnds at which
somebody else must act first. What is left to TLC is that these steps are then taken.

WaysToLose turns a model-checked surprise into a list: when workers are found running
with nobody to answer for them, it says where to look (`openFile.go:29`,
`session.go:114`, `registerViewer.go:26`, the order of `HandleDisconnect`), and that there
is nowhere else, short of the faults it names.

## 8. Only model-checked

* Liveness (CallReturns, PipesDrained, ShutdownEnds, EveryAnswer, CleanupEnds,
  OnlySilenceHolds): the prover has no rules for fairness and ENABLED.
* The findings, by nature.

The other way round, the theorems about SpawnWorker also cover kills the kernel
refuses (`"kill"` in `Faults`), which its run leaves out because `CallReturns` is not
true then.

## 9. What is left out, and what the models assume

* Logging, wording, HTTP status codes other than success or not, JSON layout, the
  contents of messages, workspaces and preferences; the schemas that validate them
  (their files are not in the repository).
* SpawnWorker: the argument templates and the working directory; that SIGKILL on
  `sudo` may leave its command running.
* Spawner: `Exit` may come at any time in the second main sleeps (main.go:263-267). A
  worker the loop did not find, because its POST was still at work, ends only if the
  goroutine of `exec.CommandContext` kills it by then, which nothing waits for, so that
  no property says it does. Failures of Accept are one step, `ServeFails`; a UUID never
  repeats.
* Session: PINGs (their PONG is written by the read loop while the sender writes, and
  what gorilla's connection does with two writers is its own); a worker answers
  each frame with one message and takes a frame when it has room for the answer
  (workers that send on their own accord add relays of the same kind); a spawner that
  never answers, which is Leases' subject. The header's bytes, and which event types
  carry a file id: a message has its kind and its file.
* Workspaces, Preferences: a statement is atomic, as in PostgreSQL; an UPSERT that
  waits for another is ordered after it; a request that is refused changes nothing
  (`Refuse`; left out of Preferences, whose properties speak of no answer).
* Leases: what workers and clients say to each other; a connection that is lost is
  noticed in the end, and what takes for ever is a spawner that is up and silent; the
  races on the spawner's map (Spawner) and on the session's fields (Session).
* Startup, Login: signatures hold and keys stay; PAM and the provider are right about
  who a user is; the provider takes a code back when it is used. `oidc_redirect_params`,
  the template of the page, static files and keys of the configuration other than
  `auth_mode` are left out, and so is code nobody calls: `auth/session.go`,
  `AuthenticateHTTP`, `MultiAuthenticator`, `NoopAuthenticator`.
* carta-worker and api keep no state; logging has none.

## 10. Plan

Done, in the order of their importance: Launch, SpawnWorker, Spawner, Session,
Workspaces, Preferences, Lease, Leases, Startup, Login, with their theorems. Left:

1. Proofs: Leases repeats in brief what Session and Spawner say at length. State what
   it takes of each (the way of a registered id from the POST to the DELETE; what a
   POST and a DELETE do to a child while no accesses to the map overlap) and prove
   that the detailed modules imply it.
2. Headers as operators: the 8-byte header at its width, file ids by event type.
3. One WebSocket connection with its two writers, if the repository comes to say what
   a client may rely on.

The project keeps few runs, each with every property its instance can tell apart: a
new module of the database joins Database_rows, and one on logins Login_tabs.
