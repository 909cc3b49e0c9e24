# JPL Circulation Middleware: TLA+ models

TLA+ models, model-checking configurations and machine-checked proofs for the
Python middleware in `src/`: a FastAPI process that reads row events of a Koha
database replica from its binlog and broadcasts them to dashboards over
WebSockets, mails alerts, supervises IoT gates, and keeps users and an activity
log in files.

## 1. Inventory

| Component | Source | State | Operations | Talks to |
| --- | --- | --- | --- | --- |
| CDC engine | `app/services/cdc_engine.py` | binlog coordinate, stream, status, stop event, counters; the state file | `start`, `stop`, the worker thread, `_save_state`, `_load_state`, `_handle_event_async` | asks the session for its health; schedules broadcasts and mails on the loop |
| WebSocket hub | `app/routers/ws.py` | list of connections | `connect`, `disconnect`, `broadcast`, the endpoint | called by the CDC engine's coroutines |
| Database session | `app/db/session.py` | pool, status, supervisor task | `initialize`, `connect`, `disconnect`, health loop, `fetch_*`, `execute` | the tunnel; its health is read by the CDC thread |
| SSH tunnel | `app/db/tunnel.py` | tunnel; it rewrites `settings.REPLICA_HOST/PORT` | `start`, `stop` | opened in a thread |
| SMTP dispatcher | `app/services/smtp_service.py` | time of the last mail, counters | `send_alert_email` | called for the CDC engine's alerts; sends in a thread of the executor it shares with tunnel and IoT service |
| IoT supervisor | `app/services/iot_service.py` | one record per node | heartbeat, TTL supervisor, deploy, metrics, scan | threads that hold SSH sessions |
| User store | `app/services/user_service.py` | users in memory and in a file | create, update, delete, reset, login, logout, heartbeat | routes of superuser and auth |
| Activity log | `app/services/activity_service.py` | capped list, in memory and in a file | `log_activity`, `clear_activities`, queries by page | routes of superuser and auth |
| Authentication | `app/routers/auth.py` | none of its own: signed tokens its clients hold | login, logout, verify | user store, activity log |
| Dashboard client | `static/app.js` | session, socket, timers, live table | sign in and out, connect, reconnect, ping, query a table | hub, REST routes |
| Lifespan | `main.py` | none | order of start and stop | session, IoT, CDC engine |
| Read routes, middleware, settings | `app/routers/*`, `app/middleware/*`, `app/core/*` | none that changes | queries, headers, logging | session |

The hard behaviours, and what makes a component right:

* **CDC engine.** A daemon thread and the event loop share coordinate, stream
  and status without a lock. It must not jump over an event, not lose a row of
  one it has begun, hand rows over in binlog order, and know after a crash how
  much it repeats. Every assignment can fall between two steps of the other
  thread; the state file is truncated and then written; the stream fails and is
  attached again from a coordinate read at that moment.
* **Hub.** A broadcast suspends at every send, while endpoints add and remove
  connections and other broadcasts prune. Everyone who is there must get each
  message once, and everyone who left must leave the list.
* **Session and tunnel.** A supervisor replaces pool and tunnel while requests
  hold connections and a shutdown may cancel it at any await; a thread that opens
  a tunnel outlives its timeout. The status must not claim what the pool cannot
  do, no connection may be orphaned, and the session must heal.
* **IoT.** A gate's record is changed by heartbeats, by the supervisor, and by
  SSH threads that return late. A silent gate must be declared OFFLINE in bounded
  time, and one that was just heard must not.
* **Users.** Each server process keeps all accounts in memory and rewrites one file in
  place; the default accounts are merged in at every start; rules over two attributes
  protect the last superuser, and differ from one operation to the other. No update may take the last active one away,
  changes must reach the file, and an uptime may not count time twice.
* **Dashboard.** A page has one WebSocket it looks at and any number that it replaced; all of them
  call the same `onclose`, which opens the next. Reconnecting must neither end nor multiply, and what the
  page shows must be true.
* **Activity log.** A capped list that each process rewrites in place over the other's, read page by page
  while it grows. The newest entries must stay, in order, and a reader must miss none.
* **Console and authentication.** A route changes an account, which saves one file, and then records an entry,
  which saves another; a process may die in between. An entry must not be recorded before the save of its change is over, and a process
  that lives must record one for each change it granted, once and in order.
* **SMTP.** The handlers of many events ask one rate limit as their broadcasts end, in any order; the limit
  looks at a wall clock that may be set; the mail waits for a thread behind other work. The inbox must not be
  flooded, nothing but a mail may silence an alert, and no handler may hang.

`PROJECT.json` lists every one of these hazards at its line, with the properties
that cover it or the reason why none does.

## 2. Modules

| Module | Models | Lines of code |
| --- | --- | --- |
| `OrderedFeed` | what the CDC engine promises to those it feeds | `cdc_engine.py` |
| `CdcEngine` | the two threads, the state file, the life of the process | `cdc_engine.py`, `main.py` 54-71 |
| `WsHub` | connections, endpoint tasks, broadcast tasks | `ws.py`, `cdc_engine.py` 207-211 |
| `DbSession` | lifespan task, supervisor, connect, requests, tunnel | `session.py`, `tunnel.py` |
| `IotRegistry` | gate records, supervisor, SSH threads, a clock | `iot_service.py` |
| `UserStore` | the accounts of each process, the user file, a clock | `user_service.py`, `gunicorn_conf.py` |
| `Dashboard` | sessions of the page, its WebSocket, reconnects | `static/app.js` 34-212, 353-383 |
| `AlertMail` | event handlers, rate limit, wall clock, executor | `cdc_engine.py` 207-276, `smtp_service.py` |
| `ActivityLog` | the log of each process, the log file, a reader of pages | `activity_service.py` |
| `Console` | the routes over `UserStore` and `ActivityLog`, tokens | `superuser.py`, `auth.py` |
| `CdcEngineProofs`, `WsHubProofs`, `DbSessionProofs`, `IotRegistryProofs`, `UserStoreProofs`, `DashboardProofs`, `AlertMailProofs` | theorems about the modules they are named after; `CdcEngine` implements `OrderedFeed` | |
| `ConsoleProofs` | theorems about `Console` and `ActivityLog`; `Console` implements `UserStore` and `ActivityLog` | |
| `MC*` | constants of the small instances | |

### OrderedFeed and CdcEngine

`OrderedFeed` is the abstract specification: one life of the process takes up one event after the
other without a gap, hands over the rows of each up to one that raises, and shows them in the order in
which they were handed over; a new life begins anew. Without `CDC_RESUME_STREAM` it may go back
(`Rewinds`), but not jump ahead. The instance `Feed` at the end of `CdcEngine` maps to it: `fed` is its event, `row` its
next row, `queue` what waits, `seen` what was shown, and `main` its life. Everything else in
`CdcEngine` (the coordinate, the reader, the stop event, the state file, the health of the replica) is a
stutter, and must not disturb the feed.

Two program counters: `wpc` for `_run_cdc_worker` and `_process_event_sync`,
`main` for the life of the process, from `__init__` (`Boot`) over `start` and
`stop` to the closing of the loop. One step is what a thread does between two
accesses to something the other thread can see; so `lastFile` and `lastPos` are
assigned in two steps (148, 149), and `_save_state` truncates in one step and
writes in another (61-69). With `DiskMayFail` either of them may raise, the opening as well as a write after the
truncation, which leaves an empty or torn file and a process that goes on as if it had saved. `stop` is not a coroutine, so nothing is delivered
while it runs (`LoopIdle`).

Abstractions:

* A coordinate is a pair of file number and event number: the position the reader
  reports after an event is named by that event. 0 stands for `None`, the default
  of `CDC_LOG_FILE` and `CDC_LOG_POS`.
* `eventsProcessed` is kept modulo `SaveEvery`, all the code asks of it.
* Rows are pairs of event and index; what a row says is abstracted to whether
  building its payload or alert raises (`BadRows`).
* `dbUp` is what `db.is_healthy()` answers (`session.py` 163); why it changes is the subject of `DbSession`. Nothing
  obliges it to become true again.
* An event is committed with all its rows; the library filters other events and
  tables before the code sees them.

External, from the way the code uses them: the `BinLogStreamReader` starts
at the coordinate with `resume_stream`, at the start of the file without it, at
the server's current file or position without a coordinate; its iterator ends or
raises when another thread closes it; a coordinate whose file and position belong to
different files is refused, or read as a place of that file. Two writers of
the state file may leave the tail of the longer text behind the shorter one.

### WsHub

One program counter per endpoint task and per broadcast task. `Member` and
`Pruned` are the copy of the list and its pruning. All messages are scheduled in order and
their tasks start in order, as the loop does it; their sends interleave. Every
send may suspend, which includes the schedules in which it does not. Two things a
transport does are allowed: a message sent to a client who has left may vanish
without an error, and a full buffer suspends the sender.

### DbSession

`main`, `sup` and `conn` are the places of the lifespan task, the supervisor and
whoever is in `connect`. The manager's lock is only ever taken by `connect`, and
the supervisor exists only after the first `connect` has returned, so there is no
step that waits for it. `port` records whether `REPLICA_PORT` is still the configured
one; a tunnel opened when it is not is `"bad"`. Counters of queries and of
failures in a row are left out: nothing but a metric reads them. The length of a
sleep is left out: a sleep may take any time.

### IotRegistry

All writes to a record are made on the event loop under the service's lock, and nothing
is awaited while it is held: a write is one step. `Launch` and `Deployed` are the two ends
of a deployment between which the new agent's heartbeats may come in; `Answered` is the
return of a metrics query. `clock` counts ticks; the supervisor's sleep ends at `wakeAt`, and
the loop runs it at most `Late` ticks after (`Tick` waits for it). A gate has at
most one deployment and one query under way. An agent may report any word as its status, OFFLINE and DEPLOYED
included; `"none"` is only the model's name for a gate without a record. Barcodes, metrics and the scan of the
network are left out: no decision of the code reads them.

### UserStore

`mem` holds the accounts of each process, `file` the user file. The handlers do not
await between reading an account and saving, so an operation is one step up to the opening of
the file, which truncates it (`Changed`), and `Flush` is the writing and closing. In between the
other process may start and read an empty file, or save. `json.dump` writes its text in pieces: while a process has the
file open, a piece of it (`WritePart`) destroys what another one has closed meanwhile, and of two saves that overlap
(`crossed`) each may leave the file as it wrote it or as a mixture of both texts, which is taken to be unreadable. A
process may die between any two pieces. `Kept` is a change that
does not reach the file: a heartbeat, a refused update, a disk that fails.

Roles are `"superuser"` and everything else; an update names a status or `"same"`. Here a logout
may come at any time and to either process; `Console` asks for a token. `lastSaver` and
`unsaved` are history variables that properties refer to.

### ActivityLog and Console

`ActivityLog` is built like `UserStore`: `log` is the list of each process, `logFile` the file, `Changed` and
`Flush` the two ends of a save, with `WritePart` and `logCrossed` in between. An entry is its number, in the order in which entries are made by any process,
and what it is about. `reader` is a client that asks for page after page (`FirstPage`, `NextPage`,
`AtEnd`), and whichever process accepts the request answers; pages that come from two processes are pages of two different
lists, and such a reader is not followed any further. Filters are left out, as they keep the order of what they pass. `held` is a history variable: what a
process should remember if it had no cap.

`Console` composes the two by `INSTANCE`. A route is the change of an account (a step of `Store`), `SaveUsers`,
`Tell` (the entry, a step of `Log`) and `SaveLog`, in this order and with nothing of the same process in between,
since no route awaits; the process may die at each of these points and the other one runs all the while. `tokens` are the
accounts that hold a token `verify_token` accepts: any process accepts it, for seven days, whatever becomes of the
account, and a logout does not end it. `changed` is a history variable: the requests to change an account that a process has granted, to which `Route` adds
each one whether or not the route has left an entry to be recorded. Heartbeats and refused updates record no entry; a refused
creation, a failed login and a logout of an account that is gone record one without a change. An entry of such
a kind is about `None`, another about the number of its change.

### AlertMail

`handler` follows `_handle_event_async` of each event: `Arrive`, the broadcast that may take any time,
and then either `NoAlert`, `Suppress` or `Pass`. These are one step, because `send_alert_email` does not await while
it holds its lock, and so nobody ever waits for the lock. `Wall` is `time.time()`: it runs with `time`, and
`SetAhead` and `SetBack` set it. `queue` and `Free` are asyncio's default executor; `OtherWork` is what tunnel and
IoT service give it (`iot_service.py` 97, 175, 203, 236, `tunnel.py` 57, 86). Events are pairs of table and kind, which is all
`_build_circulation_alert` decides by. That mail is not configured is the case without any of this.

### Dashboard

The page is one thread, so a handler is a step; answers, timers and close events come in any
order. `ws` is the WebSocket `wsConnection` refers to; `"broken"` is one whose server is gone while its
`readyState` still says OPEN. Of the WebSockets `initWebSocket` closed itself (360) only their
number `replaced` matters, because each will call the same `onclose`; of the timers that sets, `timers`. `Login`
to `SignIn` are the two ends of `handleLogin`, between which the page may have connected; the logout
button is not disabled, so two requests may be under way. `Reload` is a new page with `checkAuthOnLoad`.
Messages, heartbeats, tables and panels are left out.

## 3. Runs

| Run | Expect | What it asks |
| --- | --- | --- |
| `cdc_resume` | pass | with `CDC_RESUME_STREAM`, two lives of the process and two faults: every row once, in order (`OnceInOrder`), a crash repeats less than a save interval (`ReplayBound`) and, from the first save on and outside of the saves themselves, skips nothing (`RestartSkipsNone`); the engine catches up where the session heals (`KeepsUp`) and implements `OrderedFeed` (`ImplementsFeed`) |
| `cdc_from_file_start` | pass | the default settings, with rows that raise and a disk that fails: no row is lost in a life (`RowAccounting`, `FeedContiguous`), the status settles (`StatusSettles`), and the engine implements the feed that may go back (`ImplementsFeed`) |
| `cdc_restart` | violation | `ResumesSeamlessly`: an orderly stop and start without any fault loses or repeats rows |
| `ws_hub` | pass | the pool is right (`PoolMatchesEndpoints`, `GoneIsForgotten`), everyone gets each message once (`EachMemberOnce`), broadcasts end (`BroadcastEnds`) |
| `db_session` | pass | `HealthyIsUsable`, `NoOrphanConnections`, `ShutdownIsFinal`, `ShutdownEnds`, and `RecoversDirect` without SSH |
| `db_self_healing` | violation | `SelfHealing`: with SSH one outage of the database is final |
| `iot_registry` | pass | `UnheardIsOffline` and `OnlyUnheardGoOffline` over every order of heartbeats, sweeps and late threads |
| `user_store` | pass | two processes over one file, restarts, writes that fail or cross each other: `FileIsLastSavers`, `UptimeWithinTime`, and a process loses its last active superuser in one way only (`LastAdminGoesByDeletion`) |
| `dashboard` | pass | one chain of retries for each session, never fewer and never more (`OneChainPerSession`), `BadgeTellsTruth`; an open connection returns (`RetriesUntilOpen`) and with one session per page it stays (`OneSessionSettles`) |
| `dashboard_flaps` | violation | `StaysConnected`: two chains of reconnects close each other's connection for good |
| `alert_mail` | pass | mails stay within the rate for every overlap of handlers and every setting of the clock (`NoFlood`), an alert is suppressed only on account of a mail (`SilencedByMailOnly`), and every handler ends (`HandlersSettle`) |
| `console` | pass | two processes, two files, restarts and deaths anywhere: `NewestFirst`, `KeepsNewest` and `PagingMissesNothing` of the log, no entry before the save of its change is over (`EntriesFollowChanges`), and for each change that was granted one entry, in order, while the process lives (`ChangesAreTold`) |

**Bounds.** Three events in two files, the first with two rows, `SaveEvery` 2:
there is a save inside an event and one between events, a rotation with events on
both sides, and a re-attach in either file. Two boots and two faults (crash, outage
or stream error, in any mix) give a crash after a recovery and a restart over each
content of the state file; `RestartSkipsNone` and `ReplayBound` need no
third life, since a life starts from the file alone. Two clients and two messages are the
least at which broadcasts overlap, one prunes what the other has copied, and
a client joins between two snapshots; a buffer of one makes sends
suspend. Two requests and a pool of two make it full and half full. Gates do not
influence each other, so one is enough, with time for a silence, the sweep that finds it and a
second silence. Two processes are what `gunicorn_conf.py` starts; one default superuser and one
other account, three changes and three starts give a promotion, a demotion and a
deletion, or two saves that overlap and a restart that reads what they left. Two outages and four
sessions put a session before, during and after a reconnect, and two logouts under way put an answer
after the next login. Four events of which three raise an alert, two threads and one other piece
of work let a mail wait, pass while another is sent, and fail; a rate of two ticks in four, with the clock set ahead and back
by one, has room for a second mail and for a window that is cut short or drawn out. In `console` two changes in
two starts give a process that loads what the other wrote, and three entries over a log of two, with a page of one, reach
the cap and move the pages under a reader. The disk does not fail there (`user_store` and the proofs
about both stores have that case), but files tear when processes die or write over each other. The processes are interchangeable, so the run uses their symmetry, and checks
invariants only. The proofs
remove the bounds for the properties they cover.

**Deadlock.** It is checked in `dashboard` and `iot_registry`, and not in the models whose system really stops: a
process that exited and is not started again, clients that have all come and gone, a
session that is shut down, a user store, console or mailer whose bounds are used up. The liveness properties say what must not
get stuck before that.

**Fairness.** Weak fairness only, on steps that an operating
system or an event loop takes without being asked: the worker thread is scheduled,
the loop runs what is scheduled and what can go on after an await, timers fire. Of the
environment: in `DbSession` an outage of the database ends; a query ends; a client reads or else the server's
WebSocket keepalive closes its connection (uvicorn's default), after which a receive raises; a browser
calls the timers and the handlers that are due; a server that stopped is started again; a mail server or an SSH peer
answers or runs into the timeout that smtplib and paramiko are given.
Nothing obliges a fault, a commit, a query, a client, a user or a `stop`. In `CdcEngine` nothing obliges `is_healthy()` to become true: `KeepsUp` has a
premise instead (`DbHeals`, the session is healthy again and again), because the session's recovery is code of this
repository. `RecoversDirect` shows the premise of a direct connection, `db_self_healing` that it fails over SSH: there
the engine waits for ever after one outage. `RecoversDirect` and
`ShutdownEnds` depend on queries ending, because the pool's `wait_closed` has
no timeout.

**Mutants.** The operators marked `mutant` are changed forms of a definition
(a dropped coordinate, an off-by-one at the end of an event, a missing handler, a skipped
wait). With one put in place of its original, a property of a passing run fails; they are
used nowhere else.

## 4. What the runs found

1. *Restarts are not seamless* (`README.md` line 74). The coordinate moves
   before the rows of its event are handed over, and `stop` saves it without
   waiting for the worker: the event in hand is lost, or the one before it is
   saved and repeated. At a rotation `stop` can read a new file with an old position.
   With `CDC_RESUME_STREAM` false, the default, a start reads the current file again from
   its beginning; the run sets it to true to show that this is not the whole cause.
2. *A session over SSH heals never.* `tunnel.start` writes the local end of the tunnel
   over `settings.REPLICA_HOST/PORT` and the next `start` takes its remote end from there.
3. *A dashboard may flap for good.* A session that starts while no connection is open, in the middle of
   a reconnect, adds a second chain of retries: `initWebSocket` closes the connection it replaces,
   whose `onclose` calls `initWebSocket` two seconds later (`static/app.js` 143, 359-360, 377-381).
   What is broadcast in between is lost to that page.

Seen while modelling, and without a run of their own:

* The last active superuser can be deleted. The comment at `user_service.py` 285 says "Never delete the last active
  superuser", and line 288 counts superusers of either status, where `update_user` counts the active ones (260, 266). If a
  disabled superuser is left (a second one is created and disabled, say), the only active one can be deleted, by any caller
  the route lets through, and nobody can log in to the console as an administrator. `LastAdminGoesByDeletion` excepts this
  way by name and says that it is the only one; without the exception it fails in `user_store` after two requests.
* A crash between the truncation of the state file and its flush (`cdc_engine.py` 61-69), a write that fails there, and a
  crash before a first save leave no coordinate: with `CDC_RESUME_STREAM` the next life begins at the server's current
  end, and what was committed in between is skipped; without it, it begins at the start of the current file, and events of
  earlier files are skipped (`WSaveOpen`, `Crash` and `StartPositions`; `RestartSkipsNone` names the exceptions).
* Of two server processes the later save of the user file undoes what the earlier one has changed, and an unreadable file makes
  the next start begin with the default accounts; a deleted default account is back after any start
  (`user_service.py` 143-161; `Flush` and `Loaded` in `UserStore`).
* With two server processes the pages of one query may come from two logs, and may miss entries (`NextPage` in
  `ActivityLog`).
* Tunnels that a reconnect replaced, and those whose thread came back after its timeout, are still open after
  `disconnect` (`tunnel.py` 56; `leaked` in `DbSession`).
* A gate with a dead agent stays online: `get_node_stats` refreshes `last_seen`, the only thing the supervisor
  looks at, and the dashboard asks every connected gate each eight seconds (`iot_service.py` 246,
  `static/app.js` 965-967; `AgentDies` and `Answered` in `IotRegistry`).
* A cleared activity log comes back with the next entry of the other server process, whose memory still has it,
  while `static/app.js` 2186 calls the clearing permanent (`Clear` and `Changed` in `ActivityLog`).
* The alert of a removed loan takes its item from the values before an update, which a removal does not have, and
  so names no item (`cdc_engine.py` 185, 263; the text of alerts is not modelled).
* A process that dies between the two saves leaves a change without its entry, and a save of the other process may undo a change
  whose entry stays (`End` and `SaveUsers` in `Console`).

## 5. Proofs

`CdcEngineProofs` proves, for every value of the constants allowed by
`BoundsAssumption` and `BinlogAssumption` (events, files and rows in any number; a file
starts before each of its events):

* `TypeCorrect`: `Spec => []TypeOK`. `TypeOK` is not inductive: that the file on disk
  names an event needs that whoever is about to write it holds a coordinate,
  and that the queue holds rows needs that the worker's row is one. `TypeInv` adds this, place by place.
* `FeedIsContiguous`: `Spec => FeedContiguous`, no event is jumped over in one life of the process. The
  argument is the coupling `FeedInv` of coordinate, reader and `fed`: as long as `stop` has not
  been called, outside of lines 146-182 the coordinate is that of the last event
  processed (`Synced`), so a re-attach starts right behind it, or before it without
  `CDC_RESUME_STREAM` (`ReattachBehind`), and the reader never gets ahead of it by more than the
  event in hand. Once `stop` is called the coupling breaks (the reader is taken away between two
  assignments), but then only the event already past line 143 can be processed, and it still follows.
* `Invariance`: `Spec => [](TypeInv /\ FeedInv)`, the invariant both rest on.

The safety of the rows is divided into two arguments:

* `InOrderAlways` and `NothingIsLost` use the steps of `OrderedFeed` alone, for any events and rows. The invariant
  (`PromiseInv`) says that all that was handed over lies before the place of the feed, in order, and that every
  row before that place was handed over or follows one that raises. Neither threads nor faults occur in it.
* `EngineImplementsFeed`: `Spec => ImplementsFeed`. Each step of the engine is a step of the feed or a
  stutter. It needs `FeedInv` for the event taken up (`Follows`), and `HandInv`: the row in
  hand is one of the event processed last, and a process not yet started has shown nothing.
* `RowsOnceInOrder` and `RowsAccountedFor`: `Spec => []OnceInOrder` and `Spec => []RowAccounting` follow from
  the two.

The remaining invariants are about status and disk:

* `StatusDoesSettle`: `Spec => []StatusSettles`. It is inductive as it stands: STOPPED is the last thing that `stop` and
  the worker each write to the status.
* `SavedInTime`: `~DiskMayFail /\ Spec => []RestartSkipsNone`. `SaveInv` follows a periodic save through its steps (count,
  truncate, flush, schedule): outside of them a file that holds no coordinate means that fewer rows were handed on than
  the counter says, so by `SaveEvery` rows there has been a save; and the coordinate on disk is never ahead of
  the event processed last, from which `StartPositions` does not skip (`DiskInv`). That an open save is excepted is not for
  the proof's sake: TLC finds the crash in it at once.
* `ReplayIsBounded`: `~DiskMayFail /\ Spec => []ReplayBound`. `HandedInv` and `ReplayInv` couple the set of rows
  behind the coordinate on disk to the counter of the periodic save, through the three steps (count, save,
  schedule) that a row takes. The hypothesis is needed: `_save_state` swallows an error of the
  disk and the counter goes on from zero, so each save that fails adds another interval of rows behind the file.
  With `DiskMayFail` and `SaveEvery` 1 TLC finds that state; `cdc_resume`, which checks the
  invariant, sets `DiskMayFail` to false.

`WsHubProofs` proves, under `HubAssumption`, for any connections, messages, pings and capacity:

* `TypeCorrect`: `Spec => []TypeOK`, and `PoolIsRight`: `Spec => []PoolMatchesEndpoints`. `PoolInv` says that the list has no
  repetitions, that its members have endpoints that serve, and that a served client is in it. A broadcast may
  prune while an endpoint removes the same connection; the invariant survives because a broadcast holds for dead only those
  whose client is gone (`CastInv`), and nobody who is gone comes back (`PeerStep`).
* `EveryMemberHasIt`: `Spec => []EachMemberOnce`. A snapshot has no repetitions, so a connection the loop is at
  was not passed before and has no copy yet; it was accepted before the snapshot, so no client of it can
  still be away. Reading moves a copy from the buffer to the client and neither loses nor doubles it (`TimesTail`, `TimesAppend`).
* `WithoutIs` is what both rest on: the list without a set of members keeps all others, and no more often. `Without` is
  a recursive function; that it exists and what it computes for every list is proved by induction on
  positions. The library's induction theorem is about an operator, which the provers cannot instantiate; `Induction` states
  the principle with a set of numbers and proves it from the minimum that every set of numbers has (`WFMin`).

`DbSessionProofs` proves, under `SessionAssumption`, with SSH and without, for any requests, pool and faults:

* `TypeCorrect`, `HealthyCanBeUsed` and `NoneIsOrphaned`: `Spec => []TypeOK`, `Spec => []HealthyIsUsable`,
  `Spec => []NoOrphanConnections`. The argument is who is where: `TaskInv` says that only one of lifespan task and
  supervisor is ever in `connect`, `PoolInv` that a pool which closes has somebody waiting for it, and `StatusInv` that
  `connect` takes HEALTHY back before it touches tunnel or pool.
* `ShutdownStays`: `Spec => ShutdownIsFinal`, from the same invariant: once `main` is past `"serving"` the supervisor is gone
  and nobody is in `connect`.

`IotRegistryProofs` proves, for any set of gates and any times allowed by `TimeAssumption`, and for any
words an agent may report (`ReportAssumption` keeps apart the model's own `"none"`), `TypeCorrect` and:

* `SilenceIsFound`: `Spec => []UnheardIsOffline`. The bound alone is not inductive; `SweepInv`
  adds what the last sweep left behind: no watched gate was last seen more than
  `Timeout` before it, that is before `wakeAt - Period`, and the next sweep is not more than `Late`
  overdue. The two add up to `Grace`.
* `OnlySilenceIsFound`: `Spec => OnlyUnheardGoOffline`. A pulse never is later than `lastSeen`,
  so the silence that the supervisor measures is at most the one the property speaks of; the other steps that write
  OFFLINE are the gate's own reports.

`DashboardProofs` proves, for any number of outages, sessions and logouts:

* `ChainsAreKept`: `Spec => []OneChainPerSession`, a conservation law: what will call `initWebSocket`
  again (`Chains`: timers, replaced WebSockets and a live one) is exactly the number of sessions that
  opened one since the page was loaded. So reconnecting neither ends nor multiplies by itself.
* `BadgeIsRight`: `Spec => []BadgeTellsTruth`. With one chain nothing but the WebSocket of the page
  can change the badge.

`AlertMailProofs` proves, under `MailAssumption` (any events, threads, other work, rate and clock):

* `InboxIsNotFlooded`: `Spec => []NoFlood`. The count of mails is not inductive by itself: the invariant adds that
  `last_sent_time` is what the wall clock showed when the last mail passed, and bounds the mails by the
  moment of the last instead of by now. Setting the clock back only delays the next mail, which is why `back`
  does not occur in the bound.
* `SilenceHasAMail`: `Spec => SilencedByMailOnly`, from the same invariant; before the first mail it needs that the
  clock is at `Rate` at least.

`UserStoreProofs` proves, under `StoreAssumption`, for any processes, accounts, defaults and bounds:

* `ChangesReachTheFile`: `Spec => []FileIsLastSavers`, coupling the file to the memory of the process in
  `lastSaver`, and `TimeIsCountedOnce`: `Spec => []UptimeWithinTime`, which also needs it of every file that may be loaded.
* `AdminIsKept`: `Spec => LastAdminGoesByDeletion`. Step by step: an update whose role passes the one guard and whose status
  passes the other leaves an active superuser, also when it is refused after its role was assigned; a deletion leaves a
  superuser, of whatever status.

`ConsoleProofs` proves, under `ConsoleAssumption` (the assumptions of both stores), for any processes, accounts, operations,
cap, page and failures of the disk, in three parts. The first is about `ActivityLog` alone; `LogInv` is its invariant:

* `NewestFirstAlways`: `Spec => []NewestFirst`. The invariant adds that no entry, in any memory or file, is newer
  than the last one made: a list that another process wrote is older than what is put in front of it.
* `NewestKept`: `Spec => []KeepsNewest`. It needs the order of the list, as the entry that the cap drops must be shown to be
  older than each one that stays.
* `NothingIsSkipped`: `Spec => []PagingMissesNothing`. The invariant says of a reader in the middle of the
  log that it was shown each entry it wants that lies before its offset; adding in front moves it only
  further back.

The second is the composition. `StoreIsKept` (`Spec => Store!Spec`) and `LogIsKept` (`Spec => Log!Spec`) show that every step of the
console is a step of each of the two, or leaves it alone; so what is proved of a store or a log holds in the
whole server, with the theorems of `UserStoreProofs` taken by `INSTANCE`. `TypeCorrect` (`Spec => []TypeOK`) and
the three theorems above are obtained in this way.

The third is about what joins the two, and belongs to neither. `JointInv` has four parts: a process that is down
has nothing left to tell (`DownInv`); a change whose entry is next has been saved, or the disk has refused it
(`SettledInv`); all that any list tells is of such changes (`FollowInv`); and each change of a
process that lives was told or is what it will tell next (`ToldInv`).

* `NoEntryIsAhead`: `Spec => []EntriesFollowChanges`, from `FollowInv`, which reaches the file and, through it, the processes that
  start from it.
* `NoChangeIsUntold`: `Spec => []ChangesAreTold`, from `ToldInv`, and for the order from `SequenceInv`: what a process has yet
  to record is the last of its changes and no other process's (`TurnInv`), and no entry anywhere is about it already
  (`PastInv`). Since `changed` does not depend on what a route leaves to be recorded, the proof has to go
  through each route (`RouteIs`).

The type invariant of a module is a conjunct of the invariant its `Invariance` proves, or a theorem of its own
(`TypeCorrect`); those of `CdcEngine` and `Dashboard` are in no run, and
those of `UserStore` and `ActivityLog` only as parts of the one of `Console`.

Every invariant and action property of a passing run is a theorem; `ReplayBound` and `RestartSkipsNone` are theorems for a disk
that does not fail. The theorems
assume what the modules assume of their constants by name, nothing else; TLC evaluates each of these
assumptions in the run of the module. Only model-checked are the liveness properties (`KeepsUp`, `BroadcastEnds`,
`GoneIsForgotten`, `RecoversDirect`, `ShutdownEnds`, `RetriesUntilOpen`, `OneSessionSettles`, `HandlersSettle`),
which are beyond the prover, as is `ENABLED`.

## 6. Not modelled

The read routes, the middleware, the scripts in `scratch` and the rendering in the dashboard keep no state of
their own, or none a property is about. Text of alerts, mails and entries is
left out, as are passwords, the counters of the health route and the aggregates of the analytics route. What the dashboard's
live table shows, and two CDC engines over one state file (`gunicorn_conf.py` starts two processes, the image one),
are hazards without a property so far.

## 7. Plan

In this order, the most important first; what is done is above.

1. Two CDC engines in the two processes of gunicorn, over one state file and one replica.
2. The live table and the panels of the dashboard: late answers against live events.
3. Proofs: the invariants these two modules will need, and abstract specifications of hub and session
   from which `EachMemberOnce` and `HealthyIsUsable` follow as `OnceInOrder` does from `OrderedFeed`.
