# TLA+ verification of the scraping system

The program takes scraping requests over HTTP, hands them to workers through
RabbitMQ, runs a versioned script for each one and gives its output back. This
directory holds TLA+ models of the parts where order, failure and sharing
decide whether it is right, TLC configurations that check them on small
instances, and TLAPS proofs for every value of the constants. Paths in this
file are relative to the root of the repository; `PROJECT.json` and most comments
in the modules write `src/` before them.

`PROJECT.json` holds the tables: every run with its properties, the lines each
definition was translated from, the mutants that show each property can fail,
the hazards of the code at their lines, the findings and the theorems.

## 1. The system

```
 client --HTTP--> submit_scraping_request --> RabbitMQRPC.call_async
                       (gateway)                 | publish         ^ _on_response
                                                 v                 |
                                       task queue (durable)   callback queue
                                                 |              (exclusive)
                                                 v                 ^
                             RabbitMQWorker._process_message ------+
                                                 |  ScrapingWorker._handle_task
                                                 v
                 ScriptExecutor --> CacheManager.get_script --> repository
                        |                 | cache directory (shared volume)
                        v
                 ProcessManager.execute_script --> script process
```

Gateway and worker are asyncio processes: code between two awaits is one step,
and everything else of the process may happen at an await. The broker, the
client library, git, HTTP and S3 servers and the scripts are outside.

### Inventory

| component | state | operations | talks to |
|---|---|---|---|
| RPC client, `RabbitMQRPC` (`src/queue/rabbitmq_rpc.py`) | `futures`, one future and one coroutine per call, connection, callback queue | `call_async`, `_on_response`, robust reconnection | broker, `submit_scraping_request` |
| Gateway process (`src/api/main.py`) | the global RPC client, task manager and monitor | `lifespan`: connect each part, disconnect each; `GET /health` | uvicorn, broker |
| `POST /scrape`, tokens (`src/api/main.py`, `auth.py`, `models.py`) | a token per client, nothing on the server | issue and verify a token, validate, `call_async`, map result and errors to a response | RPC client, thread pool |
| Logging (`src/utils/logging.py`) | the handlers of one logger per process | `setup_logging`, called for every request | every part |
| RPC server, `RabbitMQWorker` (same file) | channel, consumer with prefetch 1 | `start_consuming`, `_process_message`, `_send_response`, `reconnect`, `disconnect` | broker, `_handle_task` |
| Execution: `ScrapingWorker._handle_task`, `ScriptExecutor`, `ProcessManager` (`src/worker/`) | `active_processes`, child processes | busy test, run with a timeout, terminate, completion event | script cache, OS |
| Script cache, `CacheManager` (`src/scripts/cache_manager.py`) | directories per script and version, `.cache_info` | `get_script`, validity test, `cleanup_old_cache` | repository, other workers through the volume |
| Repositories (`src/scripts/repository.py`) | local git clone | latest version, download | remote server |
| Script downloader (`src/scripts/downloader.py`) | none of its own | `get_script` with `force_download`, `invalidate_cache`, `validate_script`, `get_script_info` | script cache |
| Worker lifecycle (`src/worker/worker_main.py`) | flags, three loops, three connections | `initialize`, `start`, signal, `stop`, `cleanup` | all parts of the worker |
| Worker status (`src/queue/worker_monitor.py`), task events (`task_manager.py`) | a connection each, the status last published | register, heartbeat, status message, completion event | broker |
| WebSocket endpoint (`src/api/endpoints/websocket.py`) | `active_connections` | connect, receive and answer, broadcast, disconnect | clients |
| Status and metrics, settings, metadata, helpers | see section 8 | | |

### What is hard, and what makes each part correct

* **RPC client.** A reply can arrive before the publish is confirmed, in the turn
  between the timer and the caller, after the caller gave up, twice, or never.
  Correct: each call ends once, with the reply that resolved its own future; a
  waiting caller can always be found by its reply; entries do not pile up.
* **Worker and broker.** A request is delivered again after a crash or a lost
  channel, while the coroutine of the first delivery or its script may live on.
  Reply, error reply and completion event can each fail. Correct: no request is
  stranded or forgotten, no success is made up, the limit of concurrent tasks
  holds.
* **Whole.** Two processes give up independently: the caller's timeout does not
  take the request from the queue. Correct: what a client is told of its call is
  true, and both sides come to an end.
* **Gateway process.** Each of its parts is optional at the start; dependencies
  run in threads beside the event loop, and all of them set up one logger; a
  token may expire between two steps. Correct: a request that is refused never
  reaches the queue, the client's view of a call is still that of `RpcCall`, a
  gateway that reports itself healthy serves, and a shutdown ends.
* **Script cache.** Deleting, copying and writing `.cache_info` are separate steps
  that a crash, a failure or another worker can fall between; an invalidation
  can be cut short; the clone keeps its head and its tags from one request to
  the next. Correct: a script that is returned is whole, of the right version
  (the newest one where the latest was asked for), and stays while it runs.
* **Lifecycle.** The handler takes requests all through the cleanup and publishes
  a status of its own. Correct: the worker stops, leaves no process, no
  connection and no lost request, and is not listed as active afterwards.
* **WebSocket.** The dictionary is keyed by an id the client chooses; an endpoint
  cleans up by id, not by socket; a broadcast iterates over it while it changes.
  Correct: no stale entry, no answer to another id, only a shared id can cost a
  client its registration, and a broadcast that ends has reached everybody.

## 2. Modules

| module | what it is | lines it models |
|---|---|---|
| `RpcCall` | abstract: what a client of `POST /scrape` is promised | the outcomes of `submit_scraping_request` |
| `RabbitMQRPC` | gateway side of the RPC; the worker is an environment that answers anything | `RabbitMQRPC` |
| `ScrapingWorker` | worker side and the broker's task queue; the gateway is an environment that publishes and takes replies | `RabbitMQWorker`, `_handle_task`, `ScriptExecutor`, `ProcessManager` |
| `ScrapingSystem` | both together, without the two environments; implements `RpcCall` | their interaction |
| `ApiService` | the gateway process around `call_async`; its queue and workers are an instance of `RpcCall`, and it implements `RpcCall` again | `main.py`, `auth.py`, `models.py`, `logging.py` |
| `ScriptStore` | abstract: what `get_script` promises a program that has the cache directory for itself | the outcomes of `get_script`, invalidation and cleanup |
| `ScriptCache` | cache directory, clone, the workers and downloaders on it; implements `ScriptStore` for one worker | `CacheManager`, the three repositories, `ScriptDownloader` |
| `WorkerLifecycle` | one worker from `main()` to its end, with its heartbeats | `worker_main.py`, `cleanup_all_processes`, `WorkerMonitor` |
| `ConnectionManager` | `/ws` endpoints, the table they share and a broadcast over it | `websocket.py` |
| `MC*` | the symmetry sets TLC uses | |
| `*_proofs` | theorems of the module they are named after | |

`ScrapingSystem` composes `RabbitMQRPC` and `ScrapingWorker` by `INSTANCE`: a step
is a step of one side with the other's private variables unchanged; the task
queue (`task`) and the callback queue (`callbackQueue`) are shared. `ApiService`
stands on the other side of `RpcCall`: where `ScrapingSystem` shows that
`call_async`, queue and workers keep its promise, `ApiService` takes the promise
as its environment (`RpcAnswers`, `ScriptSucceeds`) and shows that the client of
the endpoint still has it. `ScriptCache`
has an abstract specification of its own, `ScriptStore`; in `ScrapingWorker` the
whole of `get_script` is the step from "preparing" to "running" or to a failed
response, which is what a `Find` or `Deliver` of the store is to its user. `WorkerLifecycle` has a
simpler handler of its own, because its subject is the end of the process, not
the protocol.

### RabbitMQRPC

`caller[c]` is the program counter of `call_async`; the awaits are its values.
`publishing` is before the broker has the message and `confirming` after it,
so a reply may overtake the confirmation. `wait_for` needs three steps after
its timer fired, as in CPython 3.11 (which the project's Dockerfiles use): the
waiter is released (`TimerFires`), it resumes and finds either a result
(`ReturnResult`) or nothing, in which case it cancels the future
(`CancelFuture`), and a turn later raises (`TimesOut`). `OnResponse` runs between
any two of these. `PublishFails` leaves the future registered because the
publish stands outside the `try`. `LoseConnection` kills the exclusive callback
queue and `Reconnect` declares it again, empty. `GatewayCrash` restarts the
process.

### ScrapingWorker

There is one coroutine per delivery, `h = <<c, n>>` for the n-th delivery of
call c. Its `pc` follows `_process_message`: preparing (`get_script`, validation,
start of the process), running, terminating, publishing (the completion event),
replying, apologising (the error reply of the `except` branch), acking (the end
of `message.process()`). `child[h]` is the script's process; it is separate because
it outlives the coroutine. `active_processes` is not a variable: its entries
are the coroutines in `execute_script`, whose `finally` removes them. `replied` is a
history variable. The faults are a lost connection, a crash of the worker with
its container, and a publish that raises before or after the broker took the
message. A lost connection requeues what the channel held; the coroutine is
cancelled or survives, and the consumer comes back or not (the check in the main
loop may open a connection on which nobody calls `start_consuming`).

### ScrapingSystem and RpcCall

`RpcCall` knows only what clients have seen (`answer`) and which scripts have
succeeded (`ran`). The refinement mapping takes `answer` from `outcome` and
`caller`, and `ran` from `child`. All of queueing, redelivery, timers and lost
replies is invisible; a success is a step `Execute`, the end of `call_async` a
step `Answer`, a crash of the gateway the step `LoseClients`.

### ApiService

`phase` is the lifespan: three connections that may each fail, serving, draining,
three disconnects of which a failed one skips the rest. `handle[p]` is the global
variable of a part. `pc[r]` follows a client's call through the dependencies of
FastAPI: `signing` and `verifying` are `get_auth_manager` and `get_current_client`,
plain functions that run in threads; `submitting` and `calling` are the endpoint
on the loop, before and in `call_async`. Each of the first three, and `GET /health`,
contains a `setup_logging`: `handlers.clear()` at its start and `addHandler` at its
end, so that setups in threads overlap. `raised` is the status an endpoint decides
on and `Wire` what the client gets. `Crash` clears the process; clients in a call
lose it.

### ScriptCache

One script with versions numbered in the order of their release. `job[w]` is the
`get_script` (or the running script) of worker w, one step per operation on the
file system: rmtree, make the directory, copy each of two files in any order,
the metadata, `.cache_info`. A cache directory is a record of what is in it, and
of which version's files those are. A version listed in `Entryless` is published
without the entry point its metadata names; one in `SingleFiles` is a single file
in the git repository, which `CopySingle` puts into the directory as it finds it:
nothing is removed, old files and an old `.cache_info` stay. Default metadata names
`main.py`, so that a single file of another name gives a directory without its
entry point, and a null hash (such a version is in both sets). `gaps` is the
history of the versions whose directory may lack the entry point or mix files:
those two kinds, and those whose removal was cut short. The git clone is depth 1, so it has only
the tags of the commits it fetched; a checkout detaches its head and the next
pull fails, and a tag it has not got is only warned about (`fallback` records
that). `cleanup_old_cache` takes every directory without `.cache_info` for rubbish,
the clone's subdirectories too, and goes on after a directory it could remove in part only
(`CleanupFails`). What an interrupted rmtree leaves of the clone either is no
repository any more ("broken") or still opens, with files missing that a later
copy does not have ("torn"). `FirstListed` is the fallback of `HttpRepository`: when
`/latest` answers with an error, the first of a list that nobody has sorted. The S3 repository sorts versions as strings;
`StringKey` is that order for versions named 1.9.0, 1.10.0 and so on, so that the
very first release is misplaced. `since` remembers what the newest version was when
the latest was asked for. A `Downloader` uses the `ScriptDownloader` as well:
`ForceDownload` begins with an invalidation, `Invalidate` is one of its own, and
`InvalidateFails` or a crash leaves any part of the directories (`CutShort`).

`ScriptStore` has no file system: a version's script is there or not (`held`), and a
worker has got it or not (`using`). `Held` and `Using` of `ScriptCache` are the
mapping: a directory counts while `_is_cache_valid` would accept it or while a
worker uses it, so rmtree, copytree and the metadata are invisible, the write of
`.cache_info` is the step `Deliver`, an expiry, an invalidation or a cleanup is
`Remove`, and the end of a script, which may have been kept over its 24 hours, is
`GiveUp`. A version in `gaps` is not in the store: of a single file, of a script
without its entry point and of what an interrupted removal left the code does not
keep the promise, and the mapping does not claim it.

### WorkerLifecycle

`main` is the program counter of `main()` through `initialize`, `start`, the first
`cleanup` (start's `finally`), the wait of `stop()` and the second `cleanup`; the
handler runs beside it until the process ends. `PublishOnClosed` is why the second
cleanup never gets far: its first statement uses the connection that the first
one has closed. `said` is what the last status message or heartbeat says of the
worker; "contradicted" is a handler that publishes "active" after the cleanup has
published "inactive". `CleanupProcesses` and `KillAndGoOn` are the loop over
`active_processes`, which terminates one process after the other and sleeps up to
five seconds in its body; `walk` is where it stands and what the dictionary's
iterator knows. If the size has changed meanwhile, the iteration raises: nothing is
cleared and the processes ahead live on. If an entry came and another went, so that
the size is the same, it may raise, skip entries or come to the new one. `StartScript`
forks and `EnterProcess` registers: between the two steps, at the await of
`create_subprocess_exec`, the process is in no dictionary. With a whole channel there
is one entry at a time (prefetch 1); `LoseChannel` lets a request be delivered while
the coroutine of another one lives on, which is how the loop meets several. The
redelivered request counts as another member of `Tasks`.

### ConnectionManager

One endpoint per socket. An await of `send_text` is the state `sending`, with the
socket that was looked up by id in `target`. `cast` is a broadcast at an await, with
what the dictionary's iterator knows: the size it must find unchanged, how many
entries are to come, and whether an insertion may have moved them under it (then
it may skip or repeat any entry). The endpoint passes no client id, so `client_connections` stays empty
and is not modelled.

## 3. Runs

| run | instance | what it shows |
|---|---|---|
| `rpc_safety` | 2 calls, 2 losses or crashes, 2 queued replies | futures, callers and the dictionary stay in step whatever the worker answers, late, twice or in garbage |
| `worker_safety` | 1 request, 2 workers, any 2 faults | no request stranded or forgotten, none delivered again once it is settled, no false success, no acknowledgement without an answer |
| `worker_lostlimit` | 1 request, 1 worker, 1 lost connection | **violation** of `ChildLimit` |
| `system_faults` | 1 call, 2 workers, 1 fault on each side, with fairness | the whole implements `RpcCall`; every call ends, every queued request is settled |
| `system_calls` | 2 calls, 1 worker, 1 crash or failed publish | replies do not cross; without lost connections the limit of scripts holds and nobody is told "busy" |
| `cache_alone` | 1 worker that is a downloader too, 2 versions, the first a single file in git and without its entry point, all repositories, 2 crashes or failing cleanups | what `get_script` returns is whole unless there is a cause in `gaps`, right, the newest where that was asked for, and stays; file by file it implements `ScriptStore` |
| `cache_shared` | 2 workers, 1 version, HTTP | **violation** of `RunningScriptKeepsFiles` |
| `websocket` | 4 sockets, 2 ids, 1 broadcast | the table keeps nothing stale, no answer crosses ids, a broadcast that ends has reached all |
| `lifecycle` | 2 requests, 2 of 4 kinds of fault, with fairness | the worker stops, keeps its requests, closes its connections, ends as inactive; the walk through `active_processes` leaves behind only late scripts, or what a lost channel hid from it |
| `lifecycle_scripts` | 2 requests, no fault | **violation** of `NoScriptOutlivesWorker` |
| `api` | 2 calls, 1 crash, with fairness | refused requests never run, the logger keeps a handler, a healthy gateway serves, the endpoint implements `RpcCall`, a shutdown ends |
| `api_errors` | 1 call | **violation** of `ErrorsKeepTheirStatus` |

### The bounds

* *Calls.* Calls of one gateway share only the dictionary, keyed by id, and the
  two queues; crossing needs two of them. Where a run has one call, its subject
  is one request and its redeliveries.
* *Workers.* Two: one that holds a survivor or has died and one that takes over.
* *`MaxFaults`.* It also bounds the deliveries of a request to `MaxFaults + 1`. Two
  are needed for reply and error reply to fail in one attempt, or for a lost
  connection to be followed by something that happens to the survivor.
* *`MaxQueued`.* The environment's replies only; two are a duplicate.
* *Versions.* Two: the one wanted and another one.
* *Sockets.* Four: two per id, or three on one id and a bystander. One broadcast:
  it leaves nothing behind but removed entries.
* *`MaxRelease`.* Besides the instance (two), the model itself stops at 91: the
  string order of `StringKey` is worked out for minor numbers of two digits.
* *`Requests`.* Two: two setups in threads overlap each other and one on the loop,
  and one call is refused while the other is served.
* *`SingleFiles`, `Entryless`.* The first version is both, so that every request
  for it in git ends without an entry point, and the second, an ordinary one, is
  asked for before and after it; the theorems have any two sets.
* *`Tasks`.* Two requests: one is handled, or orphaned by a lost channel, while the
  other comes in during the five seconds of the first one's termination. The
  theorems have any finite number.
* *`MaxCrashes`.* In `ScriptCache` it bounds crashes and failing cleanups together:
  two, so that what one left half-removed can be cut short once more. In `ApiService`
  one: the gateway keeps nothing from one process to the next.

Symmetry is used for calls, workers, sockets and ids in runs without liveness.
`CHECK_DEADLOCK FALSE` stands where a finite set of calls, requests or sockets is
used up and the system then rightly rests. The script cache always has a next
request and the gateway can always be started or stopped, and their runs check
for deadlock. That nobody waits for ever is what the liveness properties say.

### Fairness

`system_faults` assumes weak fairness of each coroutine's next step, of the
delivery of each ready request, and of the gateway's reconnection. The code's
side of it: asyncio runs every ready callback and every timer; `connect_robust`
retries without limit; the broker delivers to a free consumer. `HandlerStep`
contains the timeout of a script, so **a script need not end**. It does assume
that `get_script` and the publishes end one way or the other; git is called
without a timeout, so a server that never answers is outside the property. A
call is never obliged to be made and a fault never to happen. There are more
workers than faults, because a lost connection may leave a worker without its
consumer for ever; with as many faults as workers `RequestSettles` would fail for
that reason.

`lifecycle` assumes only weak fairness of `main()`: nothing of the handler, the
scripts or the requests. Every step of `main()` waits for a timer or for an
operation on the broker. "Eventually" can be long: the cleanup loop looks at
the flag once a day (`worker_cleanup_interval`), and a container runtime kills the
process long before.

`api` assumes that the loop and the thread pool run what is ready (`Handle`,
`Report`), that uvicorn and the lifespan go on (`Drained`, `Disconnect`), and that a
call of `call_async` ends (`RpcAnswers`). The last one is not a guess: it is
`EveryCallEnds`, which `system_faults` checks. Nothing obliges a client, a signal or
a connection at the start.

## 4. Findings

1. **More scripts than the limit** (`worker_lostlimit`). When a lost connection
   cancels a coroutine inside `execute_script`, `finally` forgets the process without
   terminating it. The request is delivered again, `is_busy()` counts the
   dictionary only, and two scripts run with `max_concurrent_tasks = 1`.
2. **Files removed under a running script** (`cache_shared`). Replicas share the
   cache volume. A worker that does not find a valid `.cache_info` deletes the
   directory another worker's script runs from.
3. **A script outlives its worker** (`lifecycle_scripts`). `cleanup()` terminates
   scripts before it stops taking requests; the second cleanup breaks off on the
   closed connection.
4. **Errors lose their status** (`api_errors`). The exception handlers put an
   `ErrorResponse` with a `datetime` into a `JSONResponse`, which cannot encode it.
   Both raise, and 401, 403, 408 and 500 all reach the client as the server's
   bare 500; it cannot tell a timeout from a bad token.

Seen while reading, not turned into runs:

* the comment at `src/worker/worker_main.py:293` promises to wait up to 30 seconds
  for running tasks, but the `finally` of `start()` has terminated them by then;
* the S3 versions are sorted as strings under a comment that speaks of semantic
  order (`src/scripts/repository.py:407`); `LatestIsFresh` makes that its only
  exception;
* `HttpRepository.get_latest_version` takes the first of a list it does not sort
  when `/latest` fails (`src/scripts/repository.py:287`), the other exception of
  `LatestIsFresh`;
* a script that is a single file is copied without removing what was there
  (`src/scripts/cache_manager.py:91`); unless it is `main.py`, its default metadata names a
  file that does not exist, the hash is null (line 168), the directory counts as
  cached, and `validate_script_execution` refuses it for 24 hours;
* `cleanup_all_processes` promises to tidy up all active processes
  (`src/worker/process_manager.py:232`), but iterates over a dictionary that changes
  under it: the `RuntimeError` ends the loop, and `ScriptExecutor.cleanup` swallows it;
* after one checkout by tag every later git download clones anew;
* the 503 of `src/api/main.py:255` is raised inside the `try` whose last clause turns it
  into a 500 (`Unavailable`);
* `get_script_info` of the downloader downloads the script it describes;
* `validate_client_credentials` refuses only ids that `AuthTokenRequest` has already
  refused;
* `cleanup_inactive_workers` is a stub, and `send_client_message` finds nobody, since
  no connection ever has a client id.

## 5. Proofs

The theorems hold for any sets of calls, workers, sockets and ids and any bounds
on faults, under the named assumptions of the modules only (`GatewayAssumption`,
`WorkerAssumption`, `SystemAssumption`, `SocketAssumption`, `ApiAssumption`,
`LifecycleAssumption`, `CacheAssumption`), which say that bounds are naturals, the
placeholder values are not members of the sets, the sets that are counted
(`Ids`, `Requests`, `Tasks`) are finite, downloaders are workers and repositories are of
the three kinds. Some theorems of the script cache have a hypothesis besides,
named below. Each proof
has the same shape: the initial states satisfy `IInv`, each action preserves it
(one lemma or step per action), temporal logic does the rest; action properties
follow from `IInv` before the step.

* **RabbitMQRPC_proofs.** The invariants the run checks are not inductive one by
  one. `NoResultDiscarded` needs to know that a caller in "cancelling" has a
  cancelled future, and `OnlyFailedPublishLeaks` that an entry of a running call
  has a pending one; `FutureFollowsCaller` says so for every state of the
  coroutine and closes the induction.
* **ScrapingWorker_proofs.** `CompletedReplyIsTrue` needs that a response says
  "completed" only after a success (`ResponseIsTrue`); `AckedWasAnswered` that an
  attempt has replied before it acknowledges, and `DeliveredIsHandled` that later
  attempts do not exist yet (both in `AttemptsInOrder`); the effect of a lost
  channel needs that a worker holds one request (`OneRequestPerWorker`). Without
  lost connections `NoSurvivors` is inductive on top of it, and `ChildLimit` follows:
  a live script's coroutine holds the only message of its worker. The limit thus
  comes from `prefetch_count=1`, not from the busy test, which counts only the
  processes that have got as far as the dictionary.
* **ScrapingSystem_proofs.** A step of one side preserves its own invariant by
  that side's lemmas; it remains that it preserves the other's, since they share
  two variables, and `CallsFitRequests`, which ties them: a future resolved as
  completed belongs to a call whose script succeeded, and a request exists only
  after its caller has published it. `SuccessIsReal` follows, and the refinement
  `Implements`: the initial states map to `RpcCall`'s, and every step to one of its
  steps or to no change. Without lost connections `NoSurvivors` and `ChildLimit` carry
  over from the worker's lemmas, and `BusyNeedsLostChannel` follows from
  `NobodyIsBusy`: nothing that says "busy" is in a handler, in the callback queue,
  in a future or with a caller.
* **ConnectionManager_proofs.** `EntriesAreOpen` needs that an opened socket has an
  id and keeps it. `BroadcastReachesAll` needs two more: whom a broadcast is going
  to remove is known to have ended (`CastKnowsEnds`), or `UnregisteredNeedsTwin` would
  break; and unless an insertion has shifted the iterator, the dictionary can only
  have lost ids, so that an equal size means the same ids (`CastKeepsCount`).
* **ApiService_proofs.** Three facts beside the properties: nobody is in an endpoint
  unless the server runs (`QuietOutside`); each setup in progress owes the logger one
  handler (`HandlersAreOwed`, an argument about cardinalities, from which
  `HandlersStayFew` follows); `call_async` is open only where an endpoint awaits it
  (`CallsFitSteps`). `HealthyThenServed` needs that a healthy report was true and stays
  so. The refinement maps the token, validation and lifespan steps to no change and
  the end of an endpoint to `Answer`.

* **WorkerLifecycle_proofs.** The invariant follows the path of `main()`. Nothing of a
  request exists before `start()` (`NothingBeforeStart`), and nothing is closed before the
  first cleanup, whose last step closes the monitor (`MonitorIsThere`); that connection
  is thereby the mark of a cleanup that came to its end. An attempt reports when
  its script has ended and acknowledges when it has replied (`HandlerOrder`). Unless an
  await of the cleanup raised, the queue it has let go of holds nothing
  unacknowledged and delivers nothing any more (`ReleasedStaysReleased`), although the
  second cleanup stops at once: `ShutdownKeepsRequests` and `NothingStaysConnected` come
  from there. `OnlyLateScriptsSurvive` needs to know of every live process that is
  neither late nor an orphan where the walk will meet it (`MissedAreLate`): it is
  being forked, is in `active_processes` before the walk, is the one under
  termination, or, if a channel was lost, lies ahead of it. With a whole channel
  nothing lies ahead, because one request is handled at a time (`OneAtATime`).
  `StoppedIsInactive` needs that after the first cleanup's message only a handler takes
  "inactive" back (`InactiveIsSaid`).
* **ScriptCache_proofs.** For any number of workers and downloaders on one
  directory: `TypeOK`, and `LatestIsFresh` from `CloneIsInOrder` (the clone has the newest
  tag of its branch, and its head is on a tag), `RequestsAreInOrder` (where a version is
  needed there is one, and only the configured repository takes part) and
  `ListedIsFresh` (from the end of a fetch to the choice of a tag the clone is as
  new as the request, although others pull, discard and clone it meanwhile).
  `OtherVersionNeedsFallback` holds with one worker, and with any number where the
  repository is not git (`VersionsAreRight`): with a shared clone another worker's
  checkout may come between a checkout and the copy. `ReadyScriptIsWhole` and
  `RunningScriptKeepsFiles` are for one worker (`OneWorker`: any two workers are the same), and
  `cache_shared` shows that the second one is false without that. They rest on
  `AloneInv`: what `.cache_info` says of a directory without a gap is true
  (`InfoIsTrue`), and how far the directory of the
  version wanted is at each step (`DirectoryFollows`). The second part needs the
  first: a worker crashes anywhere, and the next request starts from whatever
  directory is left.
* **ScriptStore_proofs.** The refinement `ScriptCacheIsAStore`, for one worker, any
  kind of repository and any number of versions and crashes. The `As...` lemmas
  turn what a step does to `Held` and `Using`, one version at a time, into a step of the
  store; the steps of `get_script` change no directory that counts
  because of `DirectoryFollows`, what remains of a removal that was cut short has a gap,
  and what a crash leaves of the rmtree of `get_script` itself does not count because of
  `InfoIsTrue`.

The theorems close what small instances leave open: `system_faults` has a single
call, `system_calls` no lost connections, while `SuccessIsReal` and `Implements` cover
any number of both, and `api` has two requests where `Implements` of
`ApiService_proofs` has any finite number. Put together, the two refinements say
that the client of `POST /scrape` has what `RpcCall` promises, from the HTTP status
back to the script.

### Model-checked only

Liveness (`EveryCallEnds`, `RequestSettles`, `SignalStops`, `StopEnds`), which is beyond
the proof system, as is `ENABLED` and with it the absence of deadlock. Every
invariant, action property and refinement that a passing run checks is also a
theorem. For two workers on one cache directory there is, beside the theorems
that need no hypothesis, only the run that shows the violation.

## 6. What the models take from outside

From how the code uses it, not from the repository: a message of a channel that
is gone is requeued; an exclusive queue dies with its connection; the callback
of a lost channel may be cancelled or run on; a publish on a channel its owner
closed raises; with prefetch 1 the handler of a channel runs one message at a
time; uvicorn stops taking requests on a signal and lets those in progress end
before the lifespan goes on; FastAPI runs a plain function that is a dependency
in a thread and answers 403 without credentials; `is_closed` of a robust connection
is true only after `close()`; a depth-1 clone has only the tags of its commit and pulling on a detached
head fails. Where the library's behaviour depends on timing, the model allows
each outcome.

## 7. Abstractions

A response is its status ("busy" is the failed response that says so). Output
and resource figures are left out: parsing them never fails a run. Requests
always parse, as the gateway builds them from a validated model. The memory
limit and the process monitor are among the reasons for which a script may
fail. Hashes are the version they were computed from. Files are copied as a whole: of
a crash within a copy only the file that comes last, `.cache_info`, may be half
written (a truncated entry point is what the hash tells, of a truncated
`metadata.json` nothing is said). A `git checkout` that dies and leaves its
`index.lock` behind is not modelled. A token is none, forged, fresh or expired. The console handler and the optional
file handler of a logger setup count as one. Of a status message only "active" or
"inactive" is kept. Time is the order of
events, apart from the ages of a cache entry (fresh, older than the validity,
older than the cleanup's limit).

## 8. Not modelled

* `GET /status` and the metrics: read-only, and nothing but the endpoint of the
  metrics calls their counters. `get_optional_current_client`, which only
  `GET /status` uses.
* The rate limit of `POST /scrape`: commented out in the code.
* The consumers of `WorkerMonitor` and `TaskManager`, `unregister_worker` and the other
  publishers of `TaskManager`: nothing calls them, and nobody reads the queues.
* Settings, validation of metadata, request models beyond "fits or does not":
  values and checks without state.
* The listings and statistics of cache, repositories and downloader: read-only.
* `broadcast_to_client` and `send_client_message`: no connection has a client id.
* `retry_with_backoff` and the other helpers, the exception classes: nothing in the
  running system calls the helpers, and the classes hold a message.
* `examples/`: programs that show the use of the parts.

## 9. Plan

Written so far, in order of importance: `RabbitMQRPC`, `ScrapingWorker` and their
composition against `RpcCall`; `ScriptCache` with the downloader, `ConnectionManager`
with broadcasts, `WorkerLifecycle` with heartbeats; then the gateway process,
`ApiService`, on the other side of `RpcCall`; theorems for every component, and
`ScriptStore` with the proof that `ScriptCache` implements it.

Next:

1. The half of liveness that is safety: a rank of `main()` in `WorkerLifecycle` and of
   a caller in `RabbitMQRPC` that no step of theirs increases and every step of
   their own decreases, so that `SignalStops` and `EveryCallEnds` rest on fairness alone.
2. What several workers on one directory may still rely on: that what they return
   was whole when its `.cache_info` was written, or a condition on the ages under
   which `RunningScriptKeepsFiles` holds for them.
