# TLA+ models of REFITT

These modules model the concurrent and stateful parts of REFITT (`src/refitt`): the daemon that
supervises its services and the control channel to it, the programs that work on the record of an
object (broker stream, TNS services, publication), the night's publication of forecasts and
recommendations, the web API in front of the database, and the client's side of that API. TLC
checks each module on small instances; TLAPS proves theorems about the control channel, the
supervision of the services, the TNS thread pool, the uploads, the objects, the accounts, the
publication and the client for every number of clients, services, threads, requests and processes.
This file is the map: the inventory of the system, what each
module stands for, what the runs show and where they stop, and what is not modelled.

Paths below are relative to `src/refitt/` in the repository's source tree.

## 1. Inventory

| | Component | State it keeps | Operations | Who it talks to | Modules |
|---|---|---|---|---|---|
| A | Daemon control: `daemon/client.py`, `daemon/server.py`, `apps/refittctl`, `apps/refittd` (`await_action`) | an action queue and a status slot, both `JoinableQueue(maxsize=1)` in a manager process | `request`, `status`, `_poll_status`; `get_action`, the `status` setter, `__exit__` | `refittctl` processes call the manager's threads; the daemon's main thread calls the same queues | `DaemonControl`, `StatusBoard` |
| B | Service supervision: `daemon/service.py`, `apps/refittd` | pidfiles, child processes, the dictionary of services, the configuration | `start`, `stop`, `restart`, `keep_alive`, `lock`, `unlock`, `reload_service`, `start_services` | the kernel, the configuration files, other daemons through the pidfiles and the port | `ServiceSupervisor` |
| C | TNS: `data/tns/*`, `apps/refitt/service/tns.py` | a bounded queue, worker threads, a catalog and its cache file; `Object` rows | `run`, `from_queue`; `TNSQueryManager.update_object`, `TNSCatalogManager.update_object`, the catalog's `get`, `refresh` | the TNS web service, the database | `TNSService`, `ObjectRecords` |
| D | Database model: `database/model.py`, `database/interface.py` | the tables; one SQLAlchemy session per thread | `add`, `update`, `delete` and the operations composed of several commits | every other component | all below |
| E | Web API: `web/api/*`, `apps/refitt/service/api.py` | none of its own; `--workers` processes, each with one request at a time | one handler per route, `endpoint` (exceptions to status codes), `authenticate`, `authorization` | D | `Endpoints`, `ReadEndpoints`, `Accounts`, `Queries`, `ObservedUpload` |
| F | Client's side: `web/request.py`, `core/config.py`, `apps/refitt/{api,login,whoami}.py` | `KEY`, `SECRET`, `TOKEN` of a process; the configuration file and its backups | `request` (repeated once with a new token), `refresh_token`, `login`, `use_token`, `use_auth`, `update` | E, the person, other processes through the file | `ApiClient` |
| G | Tokens: `web/token.py` | none | encryption, expiry, hashes of keys and secrets | D, E | as opaque values in `Accounts`, `ApiClient` |
| H | Broker ingest: `data/broker/*`, `apps/refitt/service/stream.py` | none (the broker's cursor is external) | `persist_to_database`: object, observation, alert, a commit each; backfill | broker, D | `ObjectRecords` |
| I | Forecasts: `forecast/*`, `apps/refitt/forecast/publish.py` | files, `Model` rows | load by observation or by primary model, publish the observation, then the models | D | `Publication`, `ModelFiles`, `Schema`, `ObjectRecords` |
| J | Recommendations: `apps/refitt/{recommendation,observation}/publish.py`, `apps/refitt/epoch.py` | a local list of candidates | publish from a file or from values, publish an observation, list, accept, reject | D | `Publication` |
| K | The rest: `core/*`, `comm/*`, `apps/refitt/*` | configuration files | settings, schema validation, mail, Slack, queries | D, E | `Schema` |

### What is hard in each, and what makes it correct

* **A.** Several clients and the daemon take the only status out of its slot and put it back;
  requests wait on a queue of one with a timeout; a client may die and the daemon may be
  interrupted at any point. Correct: the status has one owner, nobody is shown a status older
  than the question, everybody gets through when nothing fails.
* **B.** `start` is three steps (look for the pidfile, `Popen`, write the pidfile), `stop` is
  two; an exception in any of them runs the exits of two `with` blocks; configuration, service
  processes and other daemons change in between. Correct: no service runs twice, no process
  escapes the daemon, exits leave nothing behind, a reload ends with the new definitions.
* **C, H.** Names and sentinels share one bounded queue; a worker may raise. An object is read,
  TNS is asked over the network, and the whole row is written back while other programs write it.
  A broker delivers an alert twice, or the ingest dies between commits. Correct: every name is
  handled once and the service ends with its source; an object loses nothing but to a program
  that had read it before; every alert is there once, with all that goes with it, but for what a death
  between two commits leaves.
* **D, E.** Tests and writes are separate commits, and requests overlap. Correct: what was
  acknowledged is what is stored until another request undoes it; no row refers to one that is
  gone; a revoked client stays out; what is private is shown to its owner whichever endpoint
  leads to it; an answer is one that the endpoint documents.
* **F, G.** A token may expire between check and use, the key may be replaced, the file be written
  by two processes. Correct: a repeated request ran once, as the right user; a key is not lost.
* **I, J.** A publication is a sequence of commits that may stop in the middle, while an epoch is
  opened and observers list and decide. Correct: batches are whole, models are of the object and
  the shape they claim, decisions stick, what is offered is tonight's.
* **K.** A schema's checks refuse what they say, and nothing else.

`PROJECT.json` lists the hazards by line, each with the properties that would notice it.

## 2. Modules

Names ending in `_M` in the modules are mistakes that the code does not make; each is the mutant of
one property (section 3).

### `DaemonControl`, with `StatusBoard` and `DaemonControl_proofs` (component A)

`queue` and `slot` are `DaemonServer._queue` and `DaemonServer._status`. A status is the number
of the snapshot it is (`epoch`); the services are one, `alive`, `dead` or `stopped`, since here
only the channel matters. `pc[c]` is where each `refittctl` is:

| TLA+ | code |
|---|---|
| `Invoke` | `RefittControllerApp.run` connects and calls the action's method |
| `Request`, `RequestTimeout` | `DaemonClient.request`: the put with `timeout=10` |
| `After`, `Message` | `DaemonClient.status`: put `status`, `flush`, `flush`, then poll |
| `PollGet`, `PollPut` | `_poll_status`: take the status out, put it back |
| `Die` | the process of a client ends; a call that was sent is still carried out by the manager's thread |
| `TakeAction` | `get_action` and the dispatch in `await_action` |
| `Refresh` | `Empty` after the refresh time, `keep_alive()` |
| `Restart`, `Reload` | `restart()`, `reload()`, which may raise and so close the daemon |
| `Snapshot`, `SetGet`, `SetPut` | `self.server.status = self.status()`: the argument, then the two calls of the setter |
| `Close`, `StopServices` | `DaemonServer.__exit__`, then `RefittDaemonApp.__exit__` |
| `Interrupt` | `KeyboardInterrupt` in the main thread |

`asked` and `board` are history variables: the epoch at which each client asked, and the last
status put in the slot. `StatusBoard` is the abstract specification: a board onto which the
newest snapshot is posted, and callers who are answered in one step with what it shows. The
channel implements it with `taken <- epoch, answer <- held` (`BoardSpec`).

The puts' deadlines are not clocked: whenever the queue is full a put may time out. `task_done`
and `join` are left out because nothing joins the queues. The exits of the manager's threads when
it shuts down are `Close` setting every `pc` to `off`.

### `ServiceSupervisor`, with `ServiceSupervisor_proofs` (component B)

Each daemon is one thread. `todo[d][s]` is what it has still to do with each service, as a sequence
of operations, one action each: `define` (a `DaemonService` is put in the dictionary), `start` (look
for the pidfile), `popen`, `lock`, `stop` (signal and wait), `unlock`, `check` (`keep_alive`),
`pop`, `reload`. They are as long as what the code does without looking at something another
process can change. `at[d]` is the service that the daemon is at: it goes on with that one until
nothing is left for it, and then turns to any other. The code's order is that of the command line,
of the configuration files or of the dictionary, so any may occur; only what `reload` starts anew
comes after all else (`Doing`). `defined[d]` is `RefittDaemonApp.services`, `process[d]` the `Popen`
objects, `read[d]` the configuration as last loaded, `config` the files. Several daemons share
`pidfile`, `running` and `port`. An exception replaces `todo` by the stops of `__exit__` (`Leave`).

`Launch` is `start_services` with `--all` or a list of names; `Serve` the binding of the port by
`DaemonServer`; `Killed` is SIGKILL, which runs no exit: the services go on, and so does the process
that `BaseManager` started, which keeps the port (`Orphaned`) until somebody ends it (`ServerEnds`);
until then no daemon gets further than `Serve`. `stubborn` processes survive `stop`'s
signals; `Reloaded` and the inductive invariant are proved with that fault too, the other properties
are claimed without it.

### `TNSService`, with `TNSService_proofs` (component C)

`Feed` and `FeedStop` are the main thread's puts on `queue.Queue(maxsize=threads)`, `Get` and
`Update` a thread's `iter(queue.get, STOP_ITER)` loop, `Join` the joins. A name is its place in
the source. `update_object` returns, or logs a `TNSError`, or raises something else, which ends
the thread. `BlankLines` says whether the source is a stream with empty lines, whose stripped form
is the sentinel.

### `ObservedUpload`, with `ObservedUpload_proofs` (components D and E)

The uploads for one recommendation: `POST /recommendation/<id>/observed` and
`.../observed/file`. Requests run in `workers` processes and interleave between queries and
commits; a worker may be killed. A loaded row stays as it was loaded until the request commits
(`seen`, `base`), and an update writes only columns that differ from the loaded ones: both are
what the SQLAlchemy session does under `ModelBase.update`. `Source.get_or_create` is
`FindSource`, `AddSource`; a lost race on a unique column is `critical` (the 500 of
`response.py`). Modelled are requests of the recommendation's owner with a valid payload. All others
are refused before they write an observation, a file or the recommendation; one whose values are
refused after `Source.get_or_create` (`recommendation.py:541`) has by then committed the source, as
a request that is killed after `AddSource` has here.

### `Endpoints`, `ReadEndpoints` (component E)

The routes as data: `Endpoint(auth, asks, steps, docs)` is whom its decorator admits, the steps
that are taken before the handler for that (`asks`), the steps its handler takes in order, and the
status codes that its entry in `info['Endpoints']` documents.
Definitions have the handlers' names. `Accounts` and `Queries` give the steps their meaning, so
that one action stands for what many handlers share, and the order of a handler's checks is its
own. `Code` is `STATUS` and `RESPONSE_MAP` of `response.py`.

### `Accounts`, with `Accounts_proofs` (components D, E, G)

Requests to `user.py`, `facility.py`, `client.py` and `token.py`, and the commands of
`refitt auth`. `req[r].todo` is what a request has still to do; each step is one query or one
commit, and requests interleave between them. `users`, `facilities`, `pairs`, `clients`, `session`
are the tables; `recommended` the foreign keys by which recommendations keep a user or facility
from being deleted. An id, a key or a secret is named for the request that generated it, so that
`c.key = q` says who gave it out. `User.delete` is five kinds of step (`FindClientToDrop` to
`DropUser`), each with its commit. A row that is gone when the session has to load or update it
again ends the request with 500. `Refused` is what a step cannot do with what it was given (a
parameter named `id` is a second value for `User.update`'s own, a `TypeError`), or what the database
refuses other than for a constraint: 500 too. A request may come with a token of a client that was
deleted (`Former`), which `authenticated` answers with 404. `before` is history: the requests that
were over when this one began.

Foreign keys are enforced here, as PostgreSQL does. SQLite, the provider when none is configured
(`core/config.py:67`), checks them only after `PRAGMA foreign_keys`, which nothing here issues: there
the deletes that the model refuses would go through, so that `Integrity`, and what follows from
it, is claimed for PostgreSQL only.

### `Queries` (components D, E)

Every reading endpoint, for one request at a time by an administrator, the owner or another
observer. Between any two of its queries `Arrive` adds a row whose references exist, `Decide`
accepts or rejects the recommendation, `Revoke` revokes a client. `req.at` is the row a handler
has in hand, `req.visited` those whose content goes into the answer. Rows are of one object: an
alert, a forecast with its model, a recommendation and what its owner uploads; that is each table
once and each way from one to another. The object may be without a type, since `Object.type_id` may
be null, though no program of the repository adds one like that. `Load` is given the id of a row, of
none, or, where the route does not ask for an integer (`/observation/model/<id>`), something else,
which the database refuses. No row is deleted through these endpoints.

### `ObjectRecords`, with `ObjectRecords_proofs` (components C, D, H, I)

A process is one call: `update_object` of either TNS manager, `persist_to_database` of one alert,
`RecommendationTag.get_or_create`, or the forecast's `update_object`. A step is one statement with
its commit, or one request to TNS. `snap` is the object as the ORM loaded it: `Update` writes
those columns that differ from `snap`, and JSON columns (`aliases`, `history`, `data`) whole,
which is what loses another program's work. `tns` is what TNS knows and `Report` changes it;
`file` and `held` are the catalog's cache file and the catalog in memory, each with its day.
`Stop` kills a process between two steps; `Restart` is a new catalog service, whose memory is
empty and whose file is not. `TNSFails` is a request to TNS that fails, the download of a catalog
included, whether none is held or an old one is: with a status that is not 200 it is a `TNSError`,
which the worker logs (`unanswered`); without a connection, or with a reply that cannot be read, it is
not, and ends the worker's thread (`unreachable`). All other exceptions end a program as `raised`.
`met`, `had`, `stale` and `added` are history.

### `Publication`, with `ModelFiles`, `Schema` and `Publication_proofs` (components I, J, K)

A process is one command (`refitt forecast publish`, `recommendation publish` from a file or from
values, `observation publish`) or one request (list next, list the history, accept or reject), a
step one query or commit. An observation for a recommendation may be of any object, since
`refitt observation publish` does not compare the two; its source is compared with the
recommendation's user and facility, and may be refused for that. `proc[p].on` is what the command was given, `proc[p].epoch` the epoch it
found; the file of recommendations is the sequence of predictions in its rows. `AddRecommendations`
is `add_all`, one transaction; the tags before it are commits of their own. `Stop` interrupts a
command. The constant `Loads` is how the loading of a forecast's file may go, and `ModelFiles` gives
its value (`FileLoads`): `Schema.Ensure` follows the checks of `ListSchema.ensure` and
`DictSchema.ensure` in order, over payloads in which one entry differs from what the schema of a
model type says, and `Conforms` is the reference definition. `LoadFile` and `InspectFile` are the
checks of the two publication files.

### `ApiClient`, with `ApiClient_proofs` (components F, G)

Processes of one person, each with the globals `KEY`, `SECRET` (one value here) and `TOKEN`, and
one configuration file that all read when they start and rewrite when they get a key or a token.
`update` is `Backup`, `Read`, `Open` (which empties the file), `Write`. `use_token` and `use_auth`
are `Use` before a request and `Leave` after it. `Expire` lets the server's tokens end at any time
and `Prompt` is the person who gets a new key, which replaces the old one. `Sent` and `Ran` count
what the server received and executed; a file that a first attempt read is at its end (`whole`).
Revocation is in `Accounts`.

## 3. Runs

| Run | Checks | Bounds | Distinct states |
|---|---|---|---|
| `daemon_channel` | `ChannelInv`, `FreshStatus`, `BoardSpec` under deaths and interrupts | 2 clients, 2 snapshots, all requests | not large |
| `daemon_live` | `ClientsReturn`, `StopHonoured`, `KeptAlive`, nothing failing | 2 clients, `stop` and `status` requests | not large |
| `supervisor_one` | `ProcessInv`, `DefinedInv`, `CleanExit` | 1 daemon at a time, 3 services, 4 pids, 2 definitions, `Popen` may fail | 0.4 million |
| `supervisor_live` | `ExitStopsOwn`, `Relaunched` | 2 daemons that may be killed, 1 service, 3 pids, `Popen` may fail | 0.2 million |
| `tns_service` | `AllHandled`, `ServiceInv`, `ServiceEnds` | 3 threads, up to 4 names | not large |
| `upload_requests` | `UploadInv`, `LatestShown`, `AssociatedOrRaced`, `FileKept` | 3 requests, 1 or 2 workers that may be killed | not large |
| `accounts` | `AccountsInv`, `AnswersDocumented`, `CredentialsTold`, `RevokedOut`, `ChangesTold` | 2 requests of any of the 26 kinds, with credentials that exist or are of a deleted client; an administrator, one other user, one facility | 2.6 million |
| `queries` | `AnswersInv`, `AccessInv`, `UploadedReadable` | 1 request of any reading kind, rows in any order, an object with or without a type | 4.0 million |
| `objects` | `RecordInv`, `IngestInv`, `RaisedForCause`, `NamesKept`, `CatalogFresh` | 2 programs of any kind on one thing, 2 classes, 2 changes at TNS, 2 alerts, 1 expiry, requests to TNS that fail | 1.8 million |
| `publication` | `PublishedInv`, `ModelsWellFormed`, `DecisionSeen`, `NextOfTonight`, `LinkKept` | 2 commands or requests, 2 objects, 2 facilities, 2 models, 2 epochs, files of up to 2 rows | 1.0 million |
| `client` | `RequestInv`, `RefusedForCause`, `AsWhom`, `KeyKept` | 2 processes with 2 requests each, 2 keys, 2 seconds | 1.1 million |
| `publish_prediction` (violation) | `PredictedObject` | 1 command | not large |

Invariants whose names end in `Inv` are conjunctions of named parts, each with its own comment:
`ChannelInv` of `TypeOK`, `StatusExclusive` and `StatusInv`; `ProcessInv` of `TypeOK`, `OneProcess`,
`Supervised` and `PidIsPidfile`; `DefinedInv` of `RunsAsDefined` and `ReloadComplete`; `ServiceInv`
of `TypeOK`, `QueueInv`, `Accounted`, `Joined` and `OneWorkerPerName`; `UploadInv` of `TypeOK` and
`CriticalRaced`; `AccountsInv` of `TypeOK` and `Integrity`; `ChangesTold` of `AssociationsTold` and
`DeletedGone`; `AnswersInv` of `TypeOK` and `AnswersDocumented`; `AccessInv` of `OwnersOnly` and
`PermissionsDocumented`; `RecordInv` of `TypeOK`, `HistoryComplete` and `TagComplete`; `IngestInv`
of `ObservedOnce`, `IngestComplete`, `AlertedOrStopped` and `OneObjectPerName`; `PublishedInv` of `TypeOK`,
`BatchWhole` and `ModelsOfObject`; `RequestInv` of `TypeOK`, `RanOnce` and `FreshOnRepeat`.

Many properties say "... unless another program was at work at the same time" (`stale`, `met`,
`before`, `Overlap`, `Raced`). The code takes no locks, so the plain statement does not hold of it;
what holds, and is checked, is that nothing but such an overlap, or a death between two commits,
explains a loss. Section 4 lists what can then be seen.

The bounds, and why they are enough:

* `MaxEpoch` of the channel bounds only new status questions. Two snapshots are what it takes for
  an older and a newer status to be in different hands; two clients what it takes to have one
  overtake the other or fill the queue. The proofs remove both bounds.
* `Pids` are the processes there can be at any time: one more than services, so that a process that
  would escape its daemon does not reuse the pid of the one that replaced it. When none is left,
  `Popen` fails, as it may at any time; it does not hang.
* Three services are what it takes for one to fail while another is running and a third is still to
  be started, in any order; two versions for a definition to change under a process. The proofs
  remove all three bounds.
* `MaxNames` exceeds the capacity of the queue (the number of threads), so that the feeder
  blocks, and threads compete for names and for sentinels.
* Three uploads: one that wins a race, one that loses it, and a file or a correction that follows
  either. Two values per column make a mixture of two updates visible.
* Two requests, programs, commands or processes elsewhere: each property relates a call to one
  other that overlaps it, and each pair of kinds is in the run. Initial states hold what earlier
  calls leave (a user with or without credentials, a session, associations, recommendations; an
  object with or without a TNS name), so that a call need not spend its place on preparing them.
* Two objects whose ids differ from the observation's in `publication`, since the ids are
  compared; two rows of a file (`MaxRows`) for a batch that is torn or out of order.
* `MaxDay` 1 and `MaxVersion` 2 are one expiry of the catalog and one change after the first report.
* Two seconds in `client`: backups that collide, and backups that do not.

Symmetry is used where processes, requests or values are interchangeable, and in no run that
checks liveness.

### Mutants

Each property has one mutant, an operator next to the definition that it replaces: a check that is
skipped, a reset that is forgotten, a look that is taken too early, a sentinel put by the wrong
count. The property fails when the mutant takes the definition's place.

### Fairness

`daemon_live`: the daemon's main thread and the manager's threads are scheduled, and so is each
client that is in a call. Nobody is obliged to call `refittctl`, nothing is obliged to fail.
`KeptAlive` holds there because the requests end: the wait in `get_action` only times out when
no request comes for the refresh time, so that a never-ending stream of reloads would starve it.
`supervisor_live`: the operations of a daemon are scheduled and its wait for requests times out
whenever it stays idle; no daemon has to be killed, and no `Popen` has to fail. `tns_service`:
threads are scheduled and a request to TNS comes back; `ServiceEnds` excludes the state in which
every thread has raised, in which the main thread waits in `put` for ever.

Deadlock is checked except where the system does stop: when a client took the status along or an
interrupt hit the setter (`daemon_channel`), and when no thread is left (`tns_service`).

## 4. What the modelling found

One run ends in a violation: `publish_prediction`. `refitt recommendation publish --prediction ID`
without `--object` takes `Observation.from_id(ID).id` for the object's id
(`apps/refitt/recommendation/publish.py:296`), which is the observation's own.

Seen while modelling, without a run of their own; the modules have these behaviours, and the
properties are stated around them:

* **Daemon.** A client that dies between `get` and `put` of `_poll_status` takes the status with it,
  and the daemon blocks in its next status or in `__exit__`. A `KeyboardInterrupt` inside the
  setter does the same. A put that times out raises `queue.Full`, which the handler of
  `multiprocessing.TimeoutError` (`daemon/client.py:44`) lets through. A second daemon that fails to
  start removes the first one's pidfiles (`daemon/service.py:101`). A daemon killed between `Popen`
  and `lock` leaves a process that the next daemon does not know of. The server process of a daemon
  that is killed keeps the port, and the next daemon stops at binding it.
* **TNS.** An empty line in a stream of names is `STOP_ITER` (`data/tns/service.py:165`) and ends a
  thread. The catalog adds an object without a look for its other names (`data/tns/manager.py:154`);
  internal names are split at `','` while TNS separates them with `', '`. `refresh` does not set
  `last_updated` (`data/tns/catalog.py`). A stale write of `aliases` can lose a tag's alias for
  ever, because `get_or_create` then finds the tag. The query asks TNS for the given name. Only a
  status other than 200 is a `TNSError` (`data/tns/interface.py:112`): a connection that fails ends
  the worker's thread.
* **Broker.** A stream that stops between `Observation.add` and `Alert.add` leaves an observation
  without its alert for ever: the backfill of a later delivery compares the times of observations
  (`data/broker/alert.py:225`). `AlertedOrStopped` says that nothing else leaves one.
* **Uploads.** Two overlapping first uploads both add an observation and are both answered; one is
  left that no recommendation shows (`web/api/endpoint/recommendation.py:547`).
* **Answers.** A refused uniqueness constraint is a 500 in most handlers. `GET /token` by a revoked
  client is 401 where 403 is documented; an expired token is 403 where 401 is. A profile posted with
  an unknown id is 404, `GET /epoch` may be 413, `get_many` 404 or 500, an attribute that is no
  Boolean 500, an id of a model that is no integer 500, and slices of a member that a recommendation
  does not have 500 instead of 404. `PUT /user/5?id=3` is a `TypeError`, and so 500
  (`web/api/endpoint/user.py:212`); the token of a client that was deleted is a 404 that is
  documented nowhere (`web/api/auth.py:90`).
  `get_token_for_user` makes a client whose key and secret nobody is told. `authenticated` does not
  look at the `Session` table. A facility is added at level 1 where level 0 is documented.
* **Permissions.** `/source/<id>` of refitt itself is refused to observers, who are shown it through
  the observations of forecasts; `/observation/model/<id>` shows to all what `/model/<id>` shows to
  those it was recommended to; `/observation/file/<id>/type` and its like refuse administrators whom
  other routes to the same file admit.
* **Publication.** A forecast's observation stays without models when a later file of the same
  command does not fit or is refused. A size of `ALL_EQUAL` is always refused by `DictSchema`, and
  in `ListSchema` an empty list raises `IndexError`, a member without length `TypeError`, neither of
  them a `SchemaError`.
* **Client.** An upload that is repeated after `Token expired` sends an empty file, since the first
  attempt has read it (`apps/refitt/api.py:168`, `web/request.py:157`). Overlapping updates of the
  configuration lose entries, a process that starts meanwhile finds an empty file, and an interrupt
  leaves one. `use_token` with an expired token repeats as the configured user. The token that
  `use_auth` got stays after its context. After `login --force` the old token is used until it ends.
  `update` leaves the configuration in memory as it was.

## 5. Proofs

`DaemonControl_proofs` proves, for any set of clients, any requests, any faults and any
`MaxEpoch`:

| Theorem | States |
|---|---|
| `TypeCorrect` | `Spec => []TypeOK` |
| `Exclusion` | `Spec => []StatusExclusive` |
| `ChannelInvariant` | `Spec => []ChannelInv` |
| `Freshness` | `Spec => []FreshStatus` |
| `Refinement` | `Spec => BoardSpec` |

The inductive invariant is `ChannelInv == TypeOK /\ StatusExclusive /\ StatusInv`. `FreshStatus` alone
is not inductive: it says nothing of a client that is still flushing. `StatusInv` says where a
client's question is: behind the first flush it is at the head of the queue, being served, or
served; behind the second it is served, or the queue is not empty and it is being served; at the
poll it is served, so that `board` is newer than `asked[c]`. That step needs `StatusExclusive`:
what is in the slot, or in a client's hands, is `board`, because nobody puts an older status over
a newer one. TLC checks it in `daemon_channel`. `Refinement` maps each action to one
of the board's or to a stutter; `Close` is `Forget(Clients)`, `PollGet` is `Answer`.

`ServiceSupervisor_proofs` proves, for any services, definitions and pids, any number of daemons
and any faults:

| Theorem | States |
|---|---|
| `Invariant` | `Spec => []IInv` |
| `TypeCorrect` | `Spec => []TypeOK` |
| `Reloaded` | `Spec => []ReloadComplete` |
| `StopsOwn` | `Spec => []ExitStopsOwn`, when no process is `stubborn` |

and, for one daemon that is not killed, with no process `stubborn` (`OneDaemon`):

| Theorem | States |
|---|---|
| `ProcessesSupervised` | `Spec => []ProcessInv` |
| `Definitions` | `Spec => []DefinedInv` |
| `LeavesNothing` | `Spec => []CleanExit` |

`Stage(d, s)` says which plans a daemon may have for a service whose turn has not come (`Waiting`)
and for the one that it is at (`InTurn`), what its dictionary holds for each of them
(`InDictionary`), and when a process that it started may be alive (`AliveInDictionary`); `IInv` is
that of all daemons and services. It says nothing of pidfiles, since another daemon may remove them
at any step. `SoleInv` does: with one daemon, each plan has its pidfile and its processes (`Locked`,
`Gone`, `Ours`, `AsDefined`); for example, `popen` is only to come when there is neither. `OneDaemon`
is needed because the code does not keep two daemons apart: one that fails to bind the port removes
the pidfiles of the other, and one that is killed between `Popen` and `lock` leaves a process that
nobody knows of (section 4). The run `supervisor_live` has both.

`TNSService_proofs` proves, for any finite set of threads and any `MaxNames`, when the source has
no empty line (`BlankLines = FALSE`; section 4 says what one does), whatever
`update_object` raises:

| Theorem | States |
|---|---|
| `TypeCorrect` | `Spec => []TypeOK` |
| `ServiceInvariant` | `Spec => []ServiceInv` |
| `Exclusive` | `Spec => []OneWorkerPerName` |
| `Complete` | `Spec => []AllHandled` |

`AllHandled` speaks of the end only; `ServiceInv` accounts for each name that was fed: it is in the
queue, with a thread, or handled. What is left is to show that no name is in the queue at the end,
even when every thread has raised: a name in the queue has all the sentinels that were put behind
it, and the queue has as many places as there are sentinels, so that the last sentinel is put only
when every name has been taken. This is where the code's choice of `maxsize=threads` is used; with
a larger queue and threads that raise, names would be left.

`ObservedUpload_proofs` proves, for any finite set of requests, any values and any number of
workers, which may be killed:

| Theorem | States |
|---|---|
| `Uploaded` | `Spec => []UploadInv` |
| `Latest` | `Spec => []LatestShown` |
| `Associated` | `Spec => []AssociatedOrRaced` |
| `FileStays` | `Spec => []FileKept` |

`LatestShown` is a statement about requests that are over; its invariant has to follow the one that
is about to write. `Shows(from)` names for each column the upload it comes from, and `Outlives`
says of every other upload, from the step at which it has read the row, that it will not put back a
value from before that one: either it has read what is still shown, or the two overlap. `NoneInv`
is the other half: a request that has seen no observation, and is about to add one, began before
anything that was shown was over, so that replacing it is a race and not a loss.

`ApiClient_proofs` proves, for any processes and any `MaxKey`, `MaxSecond` and `MaxRequests`:

| Theorem | States |
|---|---|
| `Invariant` | `Spec => []IInv` |
| `RequestRuns` | `Spec => []RequestInv` |
| `RanAs` | `Spec => []AsWhom` |
| `KeyStays` | `Spec => []KeyKept` |
| `Refused` | `Spec => []RefusedForCause` |

`Doing` says what a process holds at each step that is left to it, in particular that no token it
has is newer than the number of its requests, from which it follows that the token of a repeated
request is another one. `ApartInv`, `FileInv` and `BackupInv` follow the file while updates do not
overlap: one process at a time is past its backup, the file or a backup holds the last key that was
written, and what a process has parsed is still what the file held. `KeyInv` relates the keys that
processes hold to those they can have read. The proof showed that `KeyKept` was checked under too
small a bound: with three keys, two logins can both be at the prompt, and the one that got the older
key writes it after the newer; two keys are too few for that. `Updating` now counts a process that
holds a key it has not written as one that is updating, and so the two logins as overlapping.

`Accounts_proofs` proves, for any requests of any of the kinds, any users and any facilities:

| Theorem | States |
|---|---|
| `Invariant` | `Spec => []IInv` |
| `TablesHold` | `Spec => []AccountsInv` |
| `RevokedStayOut` | `Spec => []RevokedOut` |
| `CredentialsAreTold` | `Spec => []CredentialsTold` |
| `ChangesStay` | `Spec => []ChangesTold` |
| `AnswersAsDocumented` | `Spec => []AnswersDocumented` |

`WorkInv` says which sequences of steps can be left to a request of each kind, and `Reached` uses
that to say of a request that a certain commit is behind it. Around it are: what a request has
found and looks for (`FoundInv`), that identifiers and secrets are unique and not yet in use before
a request generates them (`DistinctInv`, `UnusedInv`), that whoever has the secret that a request
came with is the client it came from (`SecretInv`), and each of the properties from the commit on
that makes it true (`RevokedInv`, `TellInv`, `DeletedInv`, `PairsInv`). `RevokedOut` needs
`SecretInv`, since the handler compares the secret and not the client: a revoked client whose key
and secret are renewed has other ones, and remains invalid.

`AnswersAsDocumented` has an invariant of its own, `DocInv`, which is inductive together with `IInv`.
Of a request of the API that is not answered it says which steps can be left to it (`Left`, which is
narrower than what `WorkInv` says) and, unless it has raced with another that writes, that what it
found is still there (`Intact`), as far as the steps to come need it: the user, the facility, the
client, its session, the association. Of a request that is answered it says that the status is
documented, or is one of the cases that `AnswersDocumented` names. What another request does needs
no look at its steps: if it writes while this one is under way, the two have raced (`BothBusy`).
`Follows` is what remains, the needs of a step and of the one after it. `EndpointDocs` reads the
table of endpoints, entry by entry, once.

`ObjectRecords_proofs` proves, for any number of programs of any of the kinds, any things, alerts
and classes, and any choice of faults:

| Theorem | States |
|---|---|
| `Invariant` | `Spec => []IInv` |
| `RecordsHold` | `Spec => []RecordInv` |
| `AlertsIngested` | `Spec => []IngestInv` |
| `RaisedWithCause` | `Spec => []RaisedForCause` |
| `NamesStay` | `Spec => NamesKept` |
| `CatalogIsFresh` | `Spec => CatalogFresh` |

The properties speak of programs that are over; `IInv` has to say of those that are not what they
have done so far. `WorkInv` gives each its stage: an alert is one to find an object for, to add the
object of, to observe, to record or to go on from (`ToFind`, `ToAdd`, `ToObserve`, `ToAlert`,
`ToGoOn`), and at each stage it is known which of the times it still has to write (`ToWrite`) and
that it has written none of them. `ObservedOnce` compares what two deliveries wrote, one of them
long over: `Unfound` and `FoundFirst` therefore say that whatever was written before a delivery
began belongs to the object that this delivery finds, or to one whose names it does not find. That
rests on names: the stream's and the catalog's own names of an object, once in its row, are never
taken away again (`Loaded`), because every write of `aliases` starts from a row that had them.
`MetInv` is why two programs at work can be said to have overlapped, `TagInv` says that a tag that is
not complete is still in the hands of the program that added it, or that this one was stopped.
`Settled`, of each program, is the invariant of `AlertedOrStopped`: what it has observed has its
alert, unless the alert is its next step or it was stopped.

A step of one program leaves the stage of every other as it was (`StepHolds`): the tables only grow
(`Grows`), a row keeps its thing, its author and those two names, and what a program adds is its
own. What is left for each step is the stage of the program that takes it, a lemma each. That a
backfill has a last time to begin with follows from the well-founded order of the naturals
(`Latest`).

`NamesKept` and `CatalogFresh` are about steps. `NamesStay` looks at the steps of one program
(`StepsOfOne`): only two write a name's absence, and they write what was loaded (`LosesOnly`).
`CatalogIsFresh` needs of `Typed` that `held.updated <= held.day`: the catalog in memory is never
marked as newer than its content is.

`Publication_proofs` proves, for any number of commands and requests, any objects, facilities and
types of models, any number of epochs and files of any length, interrupted anywhere:

| Theorem | States |
|---|---|
| `Invariant` | `Spec => []IInv` |
| `WholePublications` | `Spec => []PublishedInv` |
| `Seen` | `Spec => []DecisionSeen` |
| `OfTonight` | `Spec => []NextOfTonight` |
| `Linked` | `Spec => LinkKept` |
| `WellFormed` | `Spec => []ModelsWellFormed`, when `LoadsChecked` |

`Stage` says of each process, by its kind, what may be left to it and what the tables and its memory
are then: a forecast that has come to its models has published those that are no longer left, of the
object that its row is of (`ForecastAt`); a file's recommendations are the first of those wanted
while they are built, and are then either all there, in order, or not at all (`Building`, `Batch`);
an observer that has found no observation may only replace that of one that was not over when it
began (`Unlinked`). `Shown` and `Deciding` are the two halves of `DecisionSeen`: what was decided
stays unless it is undone, and who asks later is shown it. The tables only grow and what a process
adds is its own, so that a step of one leaves the stage of every other (`Grow`, `WrittenBy`); the
rest is one lemma for each step.

`LoadsChecked` is the hypothesis that a file's data are accepted, or end in the `IndexError` of
section 4, exactly when they conform to the schema. `Publication` takes what loading may do as the
constant `Loads`, and does not know of schemas; that `FileLoads`, the value which `ModelFiles` gives
it, is as the hypothesis says was computed by TLC, and `ModelsWellFormed` fails in the run when
`Schema.Accepts` is changed. For data of every shape it would be an induction over nested values.

The assumptions used are those that the modules state of their constants; TLC evaluates them in
every run. Every inductive invariant was checked by TLC on the instance of the run before it was
proved, and `ApiClient`'s also with three keys.

Only model-checked:

* Liveness (`ClientsReturn`, `StopHonoured`, `KeptAlive`, `Relaunched`, `ServiceEnds`): fairness and
  ENABLED are beyond the prover.
* `Queries` (`AnswersInv`, `AccessInv`, `UploadedReadable`): it follows one request and has no
  parameter but the absent value; TLC's instance is the whole system, and a proof would say no more.
* `Schema`: what `Ensure` does is recursive over values. The prover has no induction over data, and
  loses its arithmetic in any module that reaches a RECURSIVE operator; this is why `Publication`
  has `Loads` as a constant.
* `PredictedObject`, which the code violates.

## 6. Not modelled, and why

* `daemon/daemon.py`: the double fork is a straight line of system calls without state.
* `comm/*`, `core/logging.py`, `apps/refitt/database/query.py`, `apps/refitt/notify/*`: formatting
  and I/O without state that outlives a call. The messaging tables of the database model (`Level`,
  `Topic`, `Host`, `Message`, `Consumer`, ...) have no program in the repository that runs on them
  concurrently.
* Mathematics of the forecasts: numerical, external models.
* `web/token.py`: ciphers and hashes; keys, secrets and tokens are opaque values here.
* The precedence of configuration sources is the library cmdkit's; `core/typing.py` coerces strings.
* Inside A and B: authentication of the manager's connections, signals to the services other than
  the outcome of `stop`, log files.
* Inside E and J: plain columns, the text of errors, files' contents, paging and joins of answers.

## 7. What remains open

1. `Schema` over a bounded depth of values, without RECURSIVE operators, from which `LoadsChecked`
   could be proved for every schema and all data of that depth.
2. Weaker hypotheses for the supervisor: two daemons of which the second never fails to bind the
   port, or a daemon that is killed, but never between `Popen` and `lock`.
3. Larger runs where time allows: three accounts requests of selected kinds, two services with two
   daemons, two requests in `Queries`.
