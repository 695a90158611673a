# Formal models of HomeSentinel

TLA+ modules about the parts of HomeSentinel in which order, interleaving and
interruption matter, the TLC configurations that check them, and TLAPS proofs
of what should hold whatever the size of the network. Line numbers below and in
`PROJECT.json` are those of the files in `backend/` unless another directory is
named. Every definition is translated from the code, never from its comments;
where a comment or docstring says something else, a run shows the difference or
section 5 tells it.

1. [The system](#1-the-system)
2. [The modules](#2-the-modules)
3. [The runs](#3-the-runs)
4. [What is proved](#4-what-is-proved)
5. [Where the code and its words differ](#5-where-the-code-and-its-words-differ)
6. [What is not modelled](#6-what-is-not-modelled)
7. [Plan](#7-plan)

## 1. The system

HomeSentinel watches a home network. A FastAPI process asks the gateway, a
Chester cellular router and a TP-Link Deco mesh who is there, keeps an inventory
of devices in SQLite, tells arrivals and departures as events and alerts, and
serves a React frontend. An AWS Lambda function gives Alexa a view of it.

One asyncio loop runs every route and every scheduler. Blocking jobs of the
schedulers (a scan, a speed test, a snapshot of the local services) run in
executor threads; what an `async def` route calls runs on the loop's thread and
holds up everything else on the loop. All threads share one SQLite connection.
launchd starts the process again when it fails
(`scripts/install-macos-runtime.sh:65`).

| Component | State it keeps | Operations | What makes it hard, and what correct means |
| --- | --- | --- | --- |
| Scanner `services/device_scanner.py` | rows of `network_devices`; cache of Deco node MACs; locals of a scan in flight | `scan_and_update`, reservations, event recording | Two scans overlap statement by statement, routes change the rows meanwhile, sources fail one by one. Presence is what some scan saw; each departure is told once; a new device is announced. |
| Events `services/event_service.py` | `device_events`, `device_alerts` | record, create alert, dismiss, query | Event and alert are two commits, and deletions cascade. Alerts match events. |
| Retention `services/retention_*.py` | the APScheduler job | daily cleanup, cleanup at startup | Time as strings, cascades, missed jobs. Old rows go, young rows stay. |
| Database `db.py` | the connection and its open transaction; `_write_lock` | `get_connection`, `write_connection`, `close` | Threads share a transaction; few take the lock; nobody rolls back. What was reported committed is in the file, whoever committed it. |
| Migrations `db.py`, `migrations/` | the schema, table `migrations` | `run_migrations` | Scripts commit piecemeal. What is recorded has run; a restart goes on. |
| Background jobs `main.py`, `services/*_scheduler.py`, `services/polling_service.py` | tasks, executor threads, the pause | startup, the loops, shutdown | Cancelling a task leaves its thread running; the shutdown closes clients and database. Nothing is closed under a running task; the shutdown ends. |
| Event stream `routes/sse.py` | `_subscribers`, a bounded queue each | publish, subscribe, drain | Slow, vanished and never-started clients. No gaps, no leak. |
| Deco client `services/deco_client.py` | session, local lock, topology cache, retries | topology, client list, optimize, rename, mesh | The router admits one session; the cache is read outside the lock. One competitor costs nobody an answer, no session is left behind. |
| Deco service and pages `services/deco_service.py`, `routes/deco.py` | stacked caches, one shared refresh of the client map | list nodes, topology pages, refresh, client map | Waiters time out while the refresh goes on. One refresh at a time, every request answered, ages bounded by what the Deco's slowness allows. |
| Chester `services/chester_*.py` | SSH session, credentials | status, neighbours, reservations | A snapshot mirrored into rows one by one, while routes and others edit the router, and an address of the Deco that may be an old lease's. The rows come to show what the router holds; the Deco is found again. |
| Names and links `services/correlation_service.py`, `services/alexa_service.py`, `routes/alexa.py`, `routes/deco.py` | `friendly_name`, `alexa_device_links`, snapshots of an identification | rename, link, imports, identify | Imports look at a name and write it later. No import overrides the user. |
| Alexa API client `services/alexa_client.py` | tokens, backoff | refresh, list | Two refreshes at once, rotated tokens. |
| OAuth `routes/oauth.py`, `lambda/` | codes, tokens, refresh tokens in memory | authorize, exchange, refresh, sweep | Repeated requests, expiry, restart. Single use of codes. |
| Alarm.com `services/alarm_com_client.py`, `routes/alarm_com.py` | account, cookie, controller | save, log in, code, list, arm, lock | Coroutines that wait in their middle use what others have replaced. Commands go to the configured account. |
| HiBoost `services/hiboost_*.py` | token, cache, history | read, set, poll | Revoked tokens, lost answers, cached values. What is shown is recent. |
| Local service monitor `services/local_service_monitor.py` | samples and transitions of local services | snapshot, record, control | Observation and recording are apart; one limit for all services. The story has no gaps and ends true. |
| Speed test `services/speedtest_*.py` | results, scheduler state | test, insights | A scheduler and a route act at once. |
| Settings `routes/settings.py` | credentials | save, load, test | The environment comes before the database at a start, and may come back at the next; the copy in use is the one that was given last. |
| Search, vendors, digest, health | none | queries and scores | Pure functions of the rows. |
| Middleware `middleware/auth.py` | none | compare a header | Stateless. |
| Frontend `frontend/src` | requests in flight, React state | poll, dismiss, edit | Requests shared between pollers, answers out of order. |
| Scripts `scripts/` | launch agents | install, restart, roll back | Process supervision. |

How they interact: the poller's thread and the route `POST /api/devices/scan-now`
call the scanner; the scanner asks the Deco and Chester clients and writes rows,
events and alerts through the repositories; the repositories and every other
writer share the connection; after a scan the poller publishes to the event
stream; the routes rename and delete the rows a scan is working on, and the Deco
service sets nodes online when it lists them; the retention job deletes what the
scanner recorded; the shutdown stops the jobs and closes what they use.

## 2. The modules

Each component's module has its state, one action per statement, call or
handler, and its properties; `...MC` modules give constants their values for
TLC; `...Proofs` modules hold the theorems: `DatabaseProofs` those of `Migrations` and
`Retention`, `AccountProofs` those of `AlarmSession` and `SkillTokens`, `HouseProofs`
those of `DeviceNames`, `HiBoost`, `LocalMonitor` and `DecoPages`, the others those of the module
they are named after and of what it implements or extends. Definitions marked as mutants are
plausible bugs of the definition after them: the same action with a guard
dropped, a bound moved or a step left out. No specification uses them; each
property is known to fail when one of them takes its action's place.

| Module | Of the code | Composed with |
| --- | --- | --- |
| `DeviceScanner` | `services/device_scanner.py`, `services/event_service.py`, row writes of `db.py`, rename and delete routes | |
| `SharedConnection` | the connection of `db.py` | implements `GroupStore` |
| `Retention` | `services/retention_*.py` | in `SeparateParts` |
| `Migrations` | `run_migrations`, `migrations/` | in `SeparateParts` |
| `EventStream` | `routes/sse.py` | extended by `BackgroundJobs` |
| `BackgroundJobs` | startup, jobs and shutdown of `main.py`, `polling_service.py`, the schedulers | publishes to `EventStream` |
| `DecoSession` | `services/deco_client.py` | implements `TopologySource` |
| `ClientMap` | `/client-node-map` of `routes/deco.py` | |
| `RouterMirror` | reservations and endpoint in `device_scanner.py`, `chester_*.py`, their routes | |
| `AlarmSession`, `SkillTokens`, `DeviceNames`, `LocalMonitor`, `HiBoost`, `DecoPages` | see below | in `SeparateParts` |

### DeviceScanner

`scan_and_update` and what changes the same rows.

* `status`, `name`, `events`, `alerts` are the tables; a row's `device_id` is a
  UUID computed from its MAC, so the MAC stands for both. `nodeCache` is
  `_deco_node_macs_cache`. `scan[s]` holds the locals of scanner `s`: which
  loop it is in (`phase`), what is left of it (`todo`), the device at hand
  (`cur`), what was read about it (`existed`, `named`, `rowed`), and
  `online_macs` (`seen`).
* A scan is `StartScan`, `Collect` (ARP, DHCP, Chester neighbours, merged), then
  the phases *merged*, *clients*, *nodes*, *chester*, *sweep*, *revive*. In the
  first four a device runs through `Lookup`, `SelectRow`, `UpdateRow` or
  `InsertRow`, `RereadRow`, `NameRow`, `RecordEvent`, `CreateAlert`, as far as its
  branch of the code goes; *sweep* and *revive* are the loops over rows that
  became offline or online. Each of these is one SQL statement with its commit,
  which is where another thread can come between.
* `Fault` raises at any step. The try blocks around the Deco clients, the Deco
  nodes and the Chester swallow it, `_record_device_event` swallows it, anywhere
  else it ends the scan. `Crash` ends the process.
* `RenameDevice`, `DeleteDevice` (routes of `main.py`) and `SyncNode`
  (`services/deco_service.py:44`) come at any time except while a scan occupies
  the loop's thread (`LoopFree`): the manual route's scan does, the poller's
  does not.
* `owed`, `gone`, `synced` and the field `heard` are history: they constrain
  nothing and let properties speak of the past.

Left out: vendors, wording, the history of IP addresses; reservations and the
address of the Deco are `RouterMirror`'s. No step modelled here depends on them.

### SharedConnection and GroupStore

`SharedConnection` is the connection: the transaction belongs to it, not to the
call that opened it. A call runs statements and then `commit()`; checking whether
a transaction is open, `BEGIN`, the statement and `COMMIT` are separate steps
since other threads run in between. That behaviour of `sqlite3` is not in this
repository and is marked external in the map. `Locking` are the callers of
`write_connection`. A statement may raise; nothing rolls back, so what the call
had written stays in the open transaction for whoever commits next.

`GroupStore` is what that gives a caller, seen from outside. The docstring of
`Database` speaks of serialized writes, but most callers take no lock and a failed
call is not undone, so no store in which a call takes effect at once or not at all is
there to be had. What is there is a group commit: written rows are *loose* until
somebody commits, a commit carries all that is loose, other calls' and failed calls'
rows included, a call is told of a success only when all its own rows are in the
file, and a crash loses what is loose. `SharedConnection` implements it for any calls,
with the lock or without, raising or not.

### Retention

The scheduler's job, its two halves, and the clock in ticks of a day's fraction.
`Older` is the comparison of the two string formats. `Misfire` is a daily job
that does not run, `CleanupEventsFails` one that raises. Events and dismissals
come at any tick, also between the halves, which run on the loop while the
scanner's thread records. The cleanups treat each row by itself, so that one
event shows what can become of any.

### Migrations

`run_migrations` statement by statement over the eighteen scripts, `ServerDies`
between any two, `BeginStartup` after a crash or a failure. `schema` is the set of
statements whose effect is in the file; the other DDL is `IF NOT EXISTS`, an
`ALTER TABLE ADD COLUMN` raises when its column is there.

### EventStream and BackgroundJobs

`EventStream`: `publish_event` and the generators of `GET /api/sse/events`. A
generator is suspended waiting for its queue, or in a `yield` until the client has
the frame, and where it is suspended decides when its `finally` clause runs when
the client goes: at once, when the generator is collected (`Collected`), or never
if it had not started. That last distinction follows from how Python runs
asynchronous generators.

`BackgroundJobs` extends it with the six jobs of the server, each a task and, for
three of them, a thread: `Wake`, then the job's own sequence (home check, pause,
scan and publication for the poller; test and insights for the speed test). `Stop`,
`Unwind` and `Close` are `shutdown_event` statement by statement, in
`ShutdownOrder`. A cancelled task ends, its thread runs on (`OrphanEnds`). Intervals
are left out: a sleep may end at any time.

### DecoSession and TopologySource

The Deco admits one session (`session`): a login ends whoever had it. A call of
`call[t]` is the list of requests it still has to send; `Login`, `Answer`, `Conflict`,
`RequestLost`, `LoginFails` decide how the head of the list ends, `Success` and
`Failure` where the code goes from there, the fallback from the aggregate client
list to the nodes included. Calls of three kinds meet: those that hold
`_local_api_lock`, the writing calls with a client of their own and no lock, and the
long-lived client (`Keeper`), whose client list looks up, sets and clears the mark of a
broken list like that of the others and answers with nothing where another call would
fail. The answer to an ended session (403, no data or
data that does not decrypt) is the router's behaviour as the code expects it.

`TopologySource` is what `get_topology_local` promises: one cached topology, read by
one fetch at a time and not again while it is fresh. `ImplementsSource` checks that
`DecoSession` implements it, `reading` mapped to the fetch of the lock's holder.

### ClientMap

`/client-node-map`: requests join one refresh in a worker thread for at most five seconds
(`Timeout`, shielded), the done callback stores the result (`Notice`, `StoreMap`), a failed
or late refresh leaves the old map. A worker may take for ever, and a loop that another
handler blocks is one that takes no step here for as long.

### RouterMirror

What is copied from the Chester: reservations into rows, the master's address into
the Deco client and the saved credentials. A scan is a snapshot (`Whole`, `Partial`,
`NoSnapshot`) and then `Reconcile`, `StoreSaved`, `MirrorRow` for each row,
`AskTopology`. The routes `ChangeLease`/`RecordLease` and
`SaveCredentials`/`UseCredentials` come between any two of these; others edit the
router, the Deco moves, leases are renewed or run out (`LeaseTurns`), the process restarts.

* In a `Whole` snapshot the master is an online neighbour. In a `Partial` one sections may
  be missing, and the address is the one `_reconcile_deco_endpoint` ends up with: `Hint`,
  which is `ip_hints()` with its reservations before its leases, an unexpired lease of where
  the Deco was (`lease`), a neighbour entry that was still counted as online, or none.
* Of credentials only the endpoint is kept, since nothing else of them is compared with
  the router. `Started` are the endpoints a start may leave the client with: the
  environment's, before the saved one, before the default of a new client, which credentials
  for the cloud and a load that fails leave as it is. A start may hear of the master at once.
* `_persist_deco_endpoint` is one step, `StoreSaved`; it may find nothing saved, fail, or lose
  a race, and then leaves what was saved.

### SeparateParts

Eight parts share no variable: `Migrations`, `Retention`, `AlarmSession`,
`SkillTokens`, `DeviceNames`, `LocalMonitor`, `HiBoost` and `DecoPages`. What the whole does is an
interleaving of what they do, and each of their properties speaks of one part only.
So a behaviour of `SeparateParts` shows the steps of one part, chosen at the start
(`part`), while the others stutter: the state space is the sum of theirs, not the
product, and nothing a property could see is lost.

* `AlarmSession`: the client's coroutines wait for Alarm.com in their middle. `call[r]`
  says what a request waits for and on which controller; saving credentials
  replaces the account, a login the controller, a one-time code the cookie. A start takes
  the account from the environment (`env`; a name without a password counts as none), else
  from the setting, and a load that fails leaves none; `origin` remembers which it was.
* `SkillTokens`: codes, access and refresh tokens; each handler is one step of the
  loop; expiry, the sweep and a restart come at any time.
* `DeviceNames`: who writes `friendly_name` and `alexa_device_links`. A name is its
  origin. Routes run to their end on the loop; the steps of an import (`SyncItem`,
  `LookItem`, `MacItem`, `DecoItem`) interleave with a scan's (`ScanLook`, `ScanName`);
  the identify routes wait for a thread.
* `LocalMonitor`: `Look` (lsof), `Check` (health) and `Record` (one transaction) of the
  task and the route; both tables are cut to `RowsKept` rows for all services together.
  A table is a sequence by id and `Newest` the query for the last row of a service;
  `Listed` is the list sorted by port, which decides what the cut leaves.
* `HiBoost`: token, cached detail with its age, the booster itself. `Get` logs in anew
  after a 401, `Post` does not, and a write's answer may be lost after it was applied. A
  restart loads the environment's account or the saved one, right or wrong.
* `DecoPages`: the caches of `DecoService` and of the routes on top of it. Each page is the
  age of its oldest part, counted from the moment the Deco was asked for it, and the time
  it has been kept. A handler goes from source to source, `ReadNodes`, `StampNodes`,
  `ReadTopology`, `StampPage`, and time passes between any two of its steps and during each
  of them: it stamps its page when it has done, and so did the fetch of the topology it
  uses. `Slow` is how long one handler, or one fetch, may take.

## 3. The runs

| Run | Question | Answer | States |
| --- | --- | --- | --- |
| `ScanAlone` | One scanner, four scans, routes, a mishap anywhere | Departures are told once each, presence is what was seen | 2 547 132 |
| `ScanOverlap` | Two scanners at once, two scans, routes | References hold, no alert or announcement is lost | 1 915 236 |
| `ScanReturns`, `ScanSilent`, `ScanNames` | What comments say of the scan | Violated, see section 5 | |
| `ConnectionShared` | Two locked calls, two unlocked ones, an error | Reported commits are in the file; nothing stays behind without an error; every call ends | 12 454 |
| `MigrationsWedge` | One crash | The migrations may never complete, see section 5 | |
| `DecoSession` | Two threads with clients of their own and the long-lived client compete for the session, a network error | Sessions are closed, only unlocked calls rob, failures have a reason, the cache is a `TopologySource`, every call ends | 630 513 |
| `ClientMap` | Three clients, two workers, three refreshes | One refresh at a time, none is lost, every request is answered | 4 179 |
| `BackgroundJobs` | All jobs, three scans, a client of the stream, the pause, the shutdown | The stream has no gaps and forgets who left, nothing is closed under a task, a pause lets one scan through, the shutdown ends | 635 984 |
| `RouterMirror` | Two rows, two addresses, a change of reservations and two of moves, saves and restarts, leases that turn over | The rows come to show the reservations; the client follows the Deco, with the exception below | 910 260 |
| `SeparateParts` | The eight separate parts | Sixteen properties, see below | 1 168 979 |

The properties of `SeparateParts`: of the migrations `RecordTruthful` and
`FailureExplained`; of retention `AlertConsistent`, `AgeBounded`, `KeptAtLeast`; of
Alarm.com `AccountAsGiven` and `CommandsForConfigured`; of the skill
`CodesExchangedOnce`; of names and links `ChosenNamesKept`, `ManualLinksKept`,
`CompletedOnce`; of the monitor `ChainUnbroken` and `MonitorSettles`; of the booster
`AnswersRecent` and `BoosterRecovers`; of the Deco's pages `AgesStack`.

Three properties say less than their names might suggest:

* `EndpointFollows`. The router does not always see the Deco, and then HomeSentinel believes a
  lease that has not run out, a reservation, or a neighbour entry from before the move. Such
  an address is adopted though it is wrong, and again after it has been put right; so *from
  some time on the client has the master's address* does not hold of a known master. What
  does is: it has the address time and again, and for good once neither a reservation nor a
  lease of another address is left to be believed (`HintsTrue`). A wrong reservation of the
  master keeps the client changing for as long as it is there.
* `AgesStack`. "Cached for 60s" is not how old a page may be. It shows a topology that was kept
  for up to 30 seconds, in nodes kept for up to 60, for up to 60 more, and each was stamped
  only after the requests that filled it, so that their durations come on top, up to three
  times `Slow`.
* `AccountAsGiven`. Credentials saved in a process that the environment gives an account are
  in use at once and the environment's again after a restart, as the docstring
  of `load_alarm_com_credentials_on_startup` has it. The property is about the process that runs.

**Bounds.** Two devices are enough for the scanner: one is a Deco node and one is not, the
gateway is one of them, and devices share nothing but `online_macs`, of which the properties
need a device in it and one outside. Three scans let a device come, go and come back, a
fourth lets it go again. Two scanners are all there are, as scans on the loop's thread
exclude each other. One mishap is any one interruption; `ScanOverlap` has none, and what a
crash may cost there the theorems alone show. For the connection two callers of each kind
meet in every order. The migrations need no bound but the crashes. The queue of the stream
holds one message instead of a hundred, and three are published: enough to fill it, to
overflow it and to publish once more. For the Deco two threads that between them make every
call with a client of its own, the long-lived client, three calls and a network error: a
competitor can take a session, and take it again before the retry; a time to live of one
tick makes a cache fresh, stale and in between. `DecoPages` keeps answers for two ticks and
lets a handler take one, which distinguishes the ages of the three layers and the durations
between them. `ClientMap` has a worker more than the one refresh needs, and a client that
asks while one waits and one has given up. In `RouterMirror` a change of reservations meets
any two moves, saves and restarts, and reservations and addresses have two values to differ
in; leases turn over without a bound. For Alarm.com two accounts, each of which the
environment or the setting may name, two controllers and two requests let each answer be
late; one code suffices as codes do not meet; two endpoints linked to one device are what
makes an import ambiguous; one expected and one stray listener share tables of three rows,
so that one pushes the other out; gains are taken at and beyond both ends of their range.
Retention has days of three ticks, so that an event is before, at or after the cleanup's
hour, and a period of two days.

**View.** `ScanAlone` and `ScanOverlap` use `NamelessView`, which leaves out
the names of devices. Only `NameRow` reads them (through `named`) and it writes nothing
else, so states that agree on the rest have the same steps up to names, every step of
a scan changes what is left, and the properties of both runs speak of the rest.
`ScanNames` explores the names. Symmetry is declared nowhere: most runs check liveness
or action properties.

**Fairness.**

* `CallsEnd` of the connection: a call in flight takes its next step and a lock that
  is released reaches those who wait.
* `CallsEnd` of the Deco: threads are scheduled and each exchange has a timeout
  (`deco_client.py`, `timeout=` of every request).
* `RequestsAnswered`, `RefreshKept`: the loop runs what is ready and timers fire.
  Nothing is assumed of the worker threads.
* `Delivered`: the loop runs a generator that can go on, and a client that stays reads.
  `ShutdownEnds`: the loop runs `shutdown_event`; nothing is assumed of the executor
  threads, which is what the property is about.
* `RouterMirror`: the poller goes on scanning, what a route began it ends, and the
  router answers in full now and then (strong fairness of `Whole`), since otherwise there
  is nothing to mirror. Nothing is assumed of leases: an old one may stay for ever.
* `MonitorSettles`: the sampler's loop goes on, as it catches what a snapshot raises.
  `BoosterRecovers`: the scheduler goes on polling.
* `EventuallyMigrated`: the process is started again after a failure, as launchd's
  `KeepAlive` with `SuccessfulExit` false does.

No fairness is assumed of clients, routes, faults or crashes.

**Deadlock** is not checked: with the bounds on scans, calls, messages, crashes and the
clock used up the models stop, and a server that has shut down stops too.

## 4. What is proved

For all values of the constants, under the named assumptions of each module:

| Theorem | Module | Argument |
| --- | --- | --- |
| `TypeCorrect` | `DeviceScannerProofs` | `TypeOK` with `IdInv`; one step per action |
| `ReferencesHold` | `DeviceScannerProofs` | see below |
| `PresenceHolds` | `DeviceScannerProofs` | `PresenceInv` is inductive, see below |
| `AlertsAlways`, `NewDevicesAlways`, `DeparturesAlways` | `DeviceScannerProofs` | `AlertInv`, `NewDevicesAnnounced`, `SweepInv`: counting, see below |
| `TypeCorrect`, `LockDisciplineAlways`, `DurableAlways`, `NothingStrandedAlways` | `SharedConnectionProofs` | `ConnectionInv` is inductive |
| `Refinement` | `SharedConnectionProofs` | each step maps to a step of `GroupStore` or a stutter, see below |
| `TruthfulAlways`, `FailuresExplained` | `DatabaseProofs` | `SchemaInv` is inductive |
| `RetentionTypeCorrect`, `AlertsConsistent`, `KeptLongEnough` | `DatabaseProofs` | `CleanupInv` is inductive: the types, `AlertConsistent`, no event of the future |
| `AgeBoundedAlways` | `DatabaseProofs` | `AgeInv`, see below |
| `PartsKeepDatabase` | `DatabaseProofs` | `PartsSpec` implies both specifications |
| `StreamTypeCorrect`, `GaplessAlways`, `AbandonedAlways` | `BackgroundJobsProofs` | `StreamInv` is inductive, see below |
| `JobsImplementStream`, `JobsGapless` | `BackgroundJobsProofs` | a step of the jobs is one of the stream or leaves it alone |
| `UsersStopFirstAlways`, `PauseQuietsAlways` | `BackgroundJobsProofs` | `JobsInv` is inductive, see below |
| `TypeCorrect`, `SessionsClosedAlways`, `OnlyUnlockedRobAlways`, `FailuresExplainedAlways` | `DecoSessionProofs` | `SessionInv` is inductive, see below |
| `Refinement` | `DecoSessionProofs` | each step maps to a step of `TopologySource` or a stutter |
| `TypeCorrect`, `OneBuilderAlways` | `ClientMapProofs` | `BuilderInv` is inductive |
| `CodesAlways` | `AccountProofs` | `SkillInv`: a code still kept has led to nothing |
| `AccountsAlways`, `CommandsAlways` | `AccountProofs` | `AlarmInv` is inductive, see below |
| `ChosenNamesAlways`, `ManualLinksAlways`, `CompletedAlways` | `HouseProofs` | `NamesInv` is inductive, see below |
| `AnswersAlways` | `HouseProofs` | `BoosterInv` is inductive, see below |
| `ChainAlways` | `HouseProofs` | `MonitorInv` is inductive, see below |
| `AgesStackAlways` | `HouseProofs` | `AgesInv` is inductive, see below |

*References.* `ReferentialIntegrity` alone is not inductive: an alert that is about
to be written names an event id, and nothing in it says what that event is.
`IdInv` adds that ids in the table were issued, so that an issued id is never
used again, and that the id a scan holds between its two statements can only
belong to the event it recorded, if that is still there. With both, `CreateAlert` adds
an alert that agrees with an existing event, and `DeleteDevice` takes alerts and
events of a device together.

*Presence.* `PresenceWitnessed` speaks of the moment when all scans are over, so it
says nothing a step could start from. `PresenceInv` says what holds meanwhile: as long
as a row is online, some scanner answers for it, because its scan saw the device, has
yet to sweep, has the device left to sweep, or ended without completing; and the same for
a row that is offline. A scanner may stop answering for a device only in the step that
takes its status the other way, and then another reason has come into being. The
theorem covers two scanners at once, of which the run shows one.

*Counting.* Three properties allow as many misses as there were crashes and errors between
two commits, so their proofs count sets: an event without its alert, an inserted row
without its event, a departure without its event. No step but a mishap adds to such a set
(`NoneCutOff`); a mishap adds at most one element per scanner, the one it was at
(`OneEach`, `Accounted`). That sets can be counted at all needs `FinitenessAssumption`:
finitely many scanners and devices. `DeparturesAlways` assumes one scanner, since with two
the log tells one departure twice: `gone[m]` less the events told and the one about to be
told (`Lost`) changes by at most one per mishap, because a row still to sweep has not been
offline since it was listed (`SweepInv`), nobody else taking it there.

*Connection.* What a call has written is in the open transaction or in the file;
an open transaction that holds rows of no failed call has a call that is still
going to commit. `ConnectionInv` says this by the place each call is at.
`NothingStranded` needs the absence of errors, `Durable` does not.

*Group commit.* The refinement maps the file to the store's rows, the open transaction to
what is loose, and the end of a call to what it reported. `BEGIN` and the lock are stutters.
A statement that finds no transaction open, since another thread committed after its
check, goes to the file by itself; `DurableInv` has it that nothing is loose then. A call ends
well at its own `COMMIT` or when it finds that another's has carried its rows; that all of them are
in the file or loose at that moment is what `DurableInv` says of calls before their commit. No
assumption is made on who locks or what raises, and this is a theorem only: a run for it would
repeat `ConnectionShared`.

*Migrations.* `SchemaInv` relates the startup's position to the schema: all before
it is recorded, all before the current line has run, and without a crash nothing
else has.

*Retention.* Both columns are strings whose first ten characters are the day. `OlderAge`
bounds from that comparison how old a row is that a cleanup takes, by way of two
lemmas on days and ticks; `KeptAtLeast` follows for each step. That an alert goes with its
event needs that the foreign key is on, as `db.py` sets it. `AgeBounded` says nothing while a
cleanup is due, so `AgeInv` bounds the age by the time since the last cleanup was due
(`SinceHour`): each tick adds one to both, a cleanup that ran takes a day off both, one that
was missed adds a day to the bound, and a process that is down counts its ticks.

*Event stream.* `Gapless` speaks of two sequences put together. `Numbered` says the same of
each, from which taking the head of one and appending it to the other is seen to change
nothing. A queue of a client that has gone holds all that was published since, which
bounds how long it can stay on the list: with `Capacity` messages it is full, and the
next one takes it off. `JobsImplementStream` carries this over to `BackgroundJobs`, where the
poller publishes, the pause holds it back and the shutdown cancels it: `JobsSpec` implies
the stream's specification, so `JobsGapless` needs no argument of its own.

*Jobs.* That a client is closed after its users needs what the shutdown has done so far:
every job before the current statement of `ShutdownOrder` has stopped and cannot start again,
and what is closed lies before it (`StopInv`). That a pause lets one scan through needs that
nothing was published since the pause while a scan is under way, and at most one thing
otherwise (`PauseInv`); both rest on which step of its sequence a job's thread can be at
(`Work`), part of `JobsTypeOK`.

*Deco sessions.* `SessionInv` says of every thread what its call may still have to send at
the step it is at (`CallOK`), that a locked call under way has the lock, that who believes to
be logged in and is not was robbed, and was robbed twice if it had logged in again, that
without faults the router holds no session its client has forgotten, and that a fetch which has
not read yet is needed. The first makes the lists of requests finitely many, so that each step
is seen to take a list to a list; the last two are what `SessionsClosed` and the refinement
rest on. In the refinement the first answer about the nodes is the source's read and the store
its end; everything about sessions is a stutter, and that a call may lose its session between the
two is why a read is remembered per call.

*Deco pages.* `AgesStack` speaks of what a page shows while it is kept. `AgesInv` says of every
kept page that its data are no older than they could be when it was stamped plus the time it
has been kept, and of the handler that what it has read so far is no older than its sources
allowed plus the time since it began (`ReadInv`). The latter needs `Slow`, as does the
fetch of the topology. `OneBuilder` follows from `BuilderInv`: whoever builds the map is the
task that the requests join, and a new one begins only when that one is done.

*Alarm.com.* `AccountAsGiven` rests on who writes what: a save gives the client and the setting
the same account in one step, a start sets `origin` with the account, and an answer to a code
changes cookies alone, in the client and in what it then reads of the setting. That a
command goes to the configured account needs that the current controller was made for it:
`AlarmInv` says so, and that whoever waits does so for an account that is set. A step
may append a controller or mark one as let in or listed, and `ChangeKeeps` and
`AppendKeeps` show that whom a controller was made for never changes; saving other
credentials drops the current one in the same step. What is not true, and not claimed, is
that a command under way ends for the account configured at its end.

*Names and links.* An import writes by what it read. `Fits` says of each item still to do
that what it read excludes that the user has named the row since: routes run on the loop
and the import occupies it, and a scan, which does not wait for the loop, writes no name
of the user's. For links, that both rows of a link exist is what the foreign keys keep;
an item to be linked has a row, since deletion is a route as well.

*Local services.* `ChainUnbroken` is inductive with the types of the tables and of what an
observer has found: whoever records reads the newest sample in the same transaction, and the
property says that the last event agrees with it. What is needed beside is about sequences.
A cut after an append leaves a suffix (`Grown`); so the newest row of a service, if one is left,
is that of the new rows or that of before (`NewestGrown`); and each service is in the list of
a snapshot once (`ListedOnce`), as its rank by port is a bijection. That a service with rows has
a newest one is the least-number principle (`Least`), taken from the well-foundedness of the
natural numbers.

*Booster.* A cached detail was the booster's setting no longer ago than the cache is old
(`BoosterInv`), because an acknowledged write clears the cache and any other change leaves
the former setting's age as it is.

The theorems of `AccountProofs` and `HouseProofs` are about `PartsSpec`: `AlarmPart`,
`SkillPart`, `NamesPart`, `MonitorPart`, `BoosterPart` and `PagesPart` show that a step of
the whole is one of the part or leaves its variables alone.

Proving corrected the models in four places. `TypeOK` of `DecoSession` did not know a topology
that a client list falls back to; two arms of its `Begin` overlapped, so that which one held was
left to `CHOOSE`; `JobsTypeOK` said nothing of the threads; the devices of the scanner were not
said to be finite. `LocalMonitor` filtered sequences with `SelectSeq`, which the provers cannot
expand, and speaks of positions now.

Only model-checked: liveness, that is `CallsEnd` of the connection and of the Deco,
`RequestsAnswered`, `RefreshKept`, `Delivered`, `ShutdownEnds`, `MonitorSettles`,
`BoosterRecovers` and both properties of `RouterMirror`. It needs `ENABLED` under fairness and is
out of the prover's reach. Every invariant and action property of a passing run is a theorem.

## 5. Where the code and its words differ

* `ScanReturns`: "Also check for devices that just came online"
  (`device_scanner.py:1043`). `create_or_update` has already set such a device
  online when the check looks for offline rows. Only a Deco node can be found by it.
* `ScanSilent`: "the scan failed. Do not read that as 'everyone left'"
  (`device_scanner.py:1019`). Cached Deco nodes make a silent scan look like one
  that saw something, and everything else goes offline.
* `ScanNames`: "if device has no friendly_name yet" (`device_scanner.py:919`). A name
  given between the read and the write is lost.
* `MigrationsWedge`: "Run all migrations in order" (`db.py:94`). After a crash at the wrong
  place no startup gets past the script.

### Noted divergences

These follow from the code without a search and have no run of their own.

Database and scanner:

* The branches for Deco clients and for the Chester insert rows without an event, though
  "All devices go through event detection" (`device_scanner.py:793`).
* Most writers use `get_connection` and take no lock, though "Writes are serialized via a
  threading.Lock" (`db.py:28`). One of them is `POST /deco/credentials`, while
  `_persist_deco_endpoint` loads, changes and stores the same setting under the lock: a
  login saved in between is replaced by the former one. `RouterMirror` keeps of
  credentials the endpoint only, of which either may be the last; no property speaks of the
  login that is lost.
* After a restart with a stale saved address the master is unknown, and an unknown master
  is not reconciled: `EndpointFollows` is stated for a known one. A failed
  `_persist_deco_endpoint` is not tried again.
* "The router knows where the master is now" (`device_scanner.py:551`): where it does not see the
  master, `ip_hints()` offers what it once assigned or what is reserved, and that is believed as
  well, see `EndpointFollows` above.
* A row may go up to a day early, since a blank sorts before `T`, though "older than
  specified days" (`retention_cleanup.py:30`); `KeptAtLeast` bounds by how much. Deleting
  an old event takes its alert along, dismissed or not, though the cleanup is one of
  "events + dismissed alerts" (`retention_cleanup.py:142`).

Deco:

* Two calls without the lock can take the session from each other until both fail;
  `FailuresExplained` says they need two losses each. Such a conflict at the probe marks
  the client list as broken, though it is not.
* `POST /nodes/refresh` clears the service's cache but neither the topology's nor the
  routes'; `AgesStack` counts with that. "Cached for 60s" (`routes/deco.py:858`) is the time
  since a page was built, not the age of what it shows.
* `update_wifi_config` always raises.

Names and identification:

* A scan's host name or Deco name may replace a chosen one (`ScanNames`), and so may
  `import-mac-addresses` where the user chose a name it takes for generic; `ChosenNamesKept`
  excepts both. With two links to one device the synchronisation writes the second name over
  the first although `overwrite_existing` is false.
* An identification begun while another completes loses its snapshot, and the second of two
  completions ends with a `KeyError`.

Alarm.com, HiBoost, local services:

* The cookie of an accepted code is taken from the controller current at the answer: after
  a login in between, the cookie of the code is lost though the code was accepted.
  Credentials saved without a cookie keep the former account's. A login that ends after
  other credentials were saved reports `logged_in` without a controller. No property catches
  these: `AccountAsGiven` and `CommandsForConfigured` are about accounts.
* With an account in the environment other than the stored one, the cookie of an accepted code
  is written to the stored account's credentials (`routes/alarm_com.py:218`).
* Writes to the booster do not log in anew after a 401, and a write whose answer is lost
  leaves the cached detail for up to 30 seconds. Saving credentials keeps the cache.
* A failing `lsof` reads as every service being down. An observation recorded late stays
  until the next sample.

Jobs:

* The shutdown does not wait for executor threads, so a scan may go on while the database is
  closed under it; `UsersStopFirst` is about tasks. Open streams hold up the shutdown until
  their clients leave.
* The poller clears `last_error` after a scan whose result holds errors.
* A speed test that raises after its row was inserted is recorded a second time.

Alexa API client (not modelled): a 401 leads to a refresh without the backoff its docstring
describes (`alexa_client.py:139-142`); a rotated refresh token is kept in memory only.

## 6. What is not modelled

`PROJECT.json` lists every component with its status and reason. Text handling
(SSH output, ARP tables, XML, encryption of the Deco protocol), the wording of events,
layout and the vendor table are data without control. Authentication compares a header.
External services appear as what they may answer. The Alexa API client depends on what
Amazon does with tokens; the skill's endpoints of `routes/alexa.py` answer 503 and the
Lambda function that calls them is stateless. `tmp_client.py` is a tool for the terminal.
The statistics of the speed test, search, digest and health are arithmetic over rows.
The frontend renders and polls. Groups, the polling configuration and the Chester
credentials are single statements.

That rows other than those of the inventory share the connection is
`SharedConnection`'s subject: the other models take each commit as durable, and
`DurableAlways` is the reason they may.

## 7. Plan

Done: all modules of section 2 and the theorems of section 4. What would add most next:

1. Proofs: safety of `RouterMirror` (a row shows a reservation that the router had; the address
   in use is one that a start, a user or a snapshot named), which the runs do not state yet.
2. The Alexa API client: refresh and backoff with a token endpoint that rotates or not.
3. The polling hook of the frontend: requests shared by path, aborts, answers out of order.
4. Pure modules: insight rules, health score, correlation of names by MAC address.
