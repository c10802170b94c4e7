# A verification project for 1tube

1tube serves edge functions from one machine. A .NET package, *OneTube*
(`dotnet/OneTube/`), runs inside the operator's web host: it starts a gateway
process, proxies to it, and replaces it when firmware, secrets or settings change.
The gateway (`src/`, TypeScript on Bun) routes requests to functions run by one of two
backends, workerd children or an in-process Bun host; the same sources can be built for
Vercel. This directory holds TLA+ models of the parts where interleaving, failure and
order decide correctness, TLC configurations that check them, and TLAPS proofs of all
their safety properties for every number of jobs, children, sessions, requests and sizes.

| module | models | runs | proofs |
| --- | --- | --- | --- |
| `FirmwareSupervisor` | the firmware update protocol of the .NET host | `firmware`, `firmware_liveness` | `FirmwareSupervisor_proofs` |
| `FirmwareSlots` | what that protocol promises its clients, abstractly | (refined in `firmware`) | `FirmwareSupervisor_proofs` |
| `WorkerdBackend` | reloads, crashes and shutdown of the workerd backend | `workerd` | `WorkerdBackend_proofs` |
| `WorkerdProcess`, `Watchdog` | one child from preflight to exit; the memory watchdog over it | `watchdog` | `Lifecycle_proofs`, second part |
| `FunctionHost` | the Bun backend: claims, imports, draining, waiting requests | `function_host`, `function_host_requests` | `FunctionHost_proofs` |
| `Gateway` | middlewares, dispatch, circuit breaker, timeouts | `gateway` | `Gateway_proofs` |
| `Lifecycle` | boot and shutdown, the log store and its readers | `lifecycle` | `Lifecycle_proofs` |
| `Overrides` | the runtime editor's overlay store | `overrides` | `Overrides_proofs` |
| `Artifact` | build, package, Vercel output | `artifact` | `Artifact_proofs` |
| `Deps` | the package store and the remote cache | `deps` | `Artifact_proofs`, second part |
| `ModuleGraph` | import map, dependency graph, caches, env files | `module_graph` | `ModuleGraph_proofs` |

`MC*.tla` extend these modules with the sets a run needs; each `.cfg` is one run.
`PROJECT.json` lists components, runs, mutants, the source map, hazards and theorems.

Paths below are relative to the repository; file names without a path are those of the
section's component. In the modules, an operator under a comment that starts with
`Mutant` is a plausible wrong version of the operator after it; each one makes some
property fail, which shows that the property can fail.

## 1. Inventory

### 1.1 The .NET host

**Firmware supervisor** (`Firmware/FirmwareSupervisor.cs`, `FirmwareJob.cs`,
`FirmwareState*.cs`, `FirmwareLayout.cs`, `SwappableDestinationProvider.cs`).
*State*: the job table, the active slot `_activeJob`, the staging semaphore,
`state.json` (current, previous, history, hashes), the directories `versions/` and
`incoming/`, the live gateway and the candidate. *Operations*: upload in two forms
(`StageAsync` answers when the copy is done, `BeginStageAsync` at once), rollback,
config reload, host start and stop. *Interacts with*: HTTP endpoints and the settings
watchers (callers), gateway hosts (callee), the reverse proxy (the destination it
swaps). *Hard*: jobs run concurrently and overwrite the slot before they own the lock;
cancellation may come at any await; the process may die between any two disk writes.
*Correct when*: `state.json` never names a missing directory, no running gateway loses
its directory, the serving gateway is the recorded one, at most one job is in the
pipeline, terminal states are final, every queued job ends. **Modelled.**

**Firmware endpoints** (`FirmwareEndpoints.cs`): uploads, the short cut for
duplicates and rollbacks are the requests of the firmware model; what only reads is left
out. **Partly.** **Firmware envelope** (`FirmwareEnvelope.cs`, `src/cli/envelope.ts`,
`src/firmware-content-hash.ts`): what an envelope binds and when a payload is refused is
in `Artifact`; canonical JSON and HMAC are abstracted. **Partly.**

**Gateway host** (`GatewayHostService.cs`): child process, health loop, restart budget,
back-off. In the firmware model a host is a record that boots, fails, is swapped and
stops. `SpawnProcess` resets the back-off that the failure handler has just doubled
(line 946 after 1371). **Not modelled.** **Secrets and workerd-compatibility stores and
watchers** (`Secrets/`, `Workerd/`): debounce, up to six reload requests and monitoring of
the job; their effect on the supervisor is the reload request of the firmware model, which
may come at any time. **Not modelled.** **Host wiring** (`OneTubeExtensions.cs`): the
choice of the boot directory is in the firmware model. **Log and diagnostics endpoints**:
read only. Both **not modelled**.

### 1.2 The gateway

**Workerd backend** (`src/backends/workerd/backend.ts`). *State*: current child,
generation, `reloadInFlight`, crash timestamps, `stopping`, the bundler, the shared
runtime, bundles in the cache directory, the overlay store of the runtime editor.
*Operations*: reload, crash handler, stop, dispatch, the editor's four calls. *Hard*:
callers meet one reload in flight; a child may die in any phase of it; stop may overtake
it; two editor sessions interleave at every file operation. *Correct when*: a caller told
of success is served its edit, two port slots never collide, no child is lost, the gateway
lets through what is served, firmware functions stay served whatever is edited. **Partly**
(`WorkerdBackend`, `Overrides`): configuration text and forwarding are left out.

**Workerd process** (`process.ts`) and **memory watchdog** (`watchdog.ts`, `proc-stats.ts`):
sockets, readiness probe with its deadline, exit and connect events in any order, SIGTERM and
SIGKILL, sampling with hysteresis. *Correct when*: the child that serves listens on all its
sockets and nobody else does, no child outlives what is about it, a child over its
budget is recycled. **Modelled** (`WorkerdProcess`, `Watchdog`). **Hot reloaders**
(`workerd/hot-reloader.ts`, `bun/hot-reloader.ts`, `env-hot-reloader.ts`, `fs-watch.ts`,
`dep-graph.ts`): debounced batches, what a batch affects. **Modelled** in `WorkerdBackend`,
`FunctionHost` and `ModuleGraph`.

**Bun function host** (`backends/bun/function-host.ts`, `shared-runtime.ts`). *State*: handles,
boot states, pending claims, chains, the import queue, generations of shared
dependencies with reference counts, waiters. *Operations*: deferred boot, reload, prioritise,
dispatch, dispose, stop. *Hard*: three callers spawn the same function; every import is
serialised; graphs drain while successors come and go. *Correct when*: no edit is lost or
undone, references are exact, waiters are told, work in flight is not cut. **Modelled.**
**Function registry** (`registry.ts`): tables and handles are in `Gateway` and
`FunctionHost`; `getOrLoad` serves only the legacy loader. **Partly.**

**Gateway server** (`server.ts`): dispatch of both backends (`Gateway`, `FunctionHost`), boot
and shutdown (`Lifecycle`); admin endpoints are left out. **Partly.** **Gateway middlewares**
(`gateway/`): rate limiter, token cache, body watchdog, logged outcome (`Gateway`); CORS and
prefixes are left out. **Partly.** **Circuit breaker** (`supervisor.ts`): admit, record,
forget, reset, with requests in flight across them. **Modelled** (`Gateway`).
**Invocation logs** (`logs/`, `log-buffer.ts`): writer, retention, paging and following
(`Lifecycle`); filters, full-text search, the lookup of one invocation and the .NET
reader are left out. **Partly.**

**Deno compatibility and bundler** (`compat/`, `bundler/core.ts`): the package store and remote
cache (`Deps`), import map and rewriting (`ModuleGraph`), bundler outputs (`Artifact`), the
shared runtime (`WorkerdBackend`); the Deno API shim and the text of transformed sources are
left out. **Configuration generation** (`runtime-overrides.ts`, `prebuilt.ts`, `env-file.ts`,
`capnp.ts`, `launch.ts`): overlays, checks of a prebuilt directory, env files; not the Cap'n
Proto text, nor the dev launcher. **Command line and packaging** (`cli/`): build, package and
content hash, with kills and edits in between (`Artifact`). **Vercel backend**
(`backends/vercel/`, `cli/vercel-build.ts`): the output directory, its routes and the capture of
`serve()` options (`Artifact`); not the wrapper inside a deployed function. All **partly**.

**Edge runtime API** (`edge.ts`, `edge-caller.ts`): pure functions of one request. **Test
toolkit** (`src/test/`): a sequential library outside the gateway. **Not modelled.**

## 2. Plan

Done: every module of the table above, its runs and a mutant per property; an inductive
invariant for each module that is run, and a theorem for each safety invariant and action property
of a run (section 8), the refinement of `FirmwareSlots` among them.

Left: the gateway host's exit and health loop, and the settings watchers on top of
`FirmwareSlots`, which the refinement proof makes a sound environment for them.

No module that has theorems reaches a RECURSIVE operator.

## 3. The firmware supervisor

### 3.1 Model and code

A job is an identity `j` with a program counter `pc[j]`; its phases are the stretches
between two points where the code can be interrupted.

| phase | code |
| --- | --- |
| `check`, `preempt`, `create` | `CreateStageJob` 355-390: read the active slot, cancel what is there, take it over |
| `upload` | `CopyPayloadAsync` 392-425 |
| `wait` | `_stagingLock.WaitAsync`, 526 |
| `unpack`, `verify`, `stage` | 559-622, 764-1014 |
| `spawn`, `smoke` | 1088-1172 |
| `promote`, `write` | 659-663, `PromoteAsync` 1174-1206 |
| `swap`, `drain`, `collect`, `final` | 1208-1252, `GarbageCollect` 1432-1468, `finally` 685-695 |
| `over`, `refused`, `errored`, `lost` | ended, refused, failed as a request, gone with the process |

`state` is the job state clients see, `cancelled` its cancellation token, `active` the
slot, `lock` the semaphore, `file` is `state.json`, `disk` `versions/`, `incoming` the
payloads, `live`, `cand` and `draining` the gateway processes. `StopAsync` is the
host's orderly stop, `Restart` a crash or start: it keeps `file` and `disk`, wipes
`incoming` and boots what `state.json` names.

The environment may fail a copy (`upload`), a payload's verification (`payload`), the
staging on disk, the candidate's health, the smoke deadline, the write of
`state.json` and the deletion of directories; `Faults` says which of these a run
allows. Abstracted: package bytes (a version and a fingerprint), progress, time
(every bounded wait may end at any moment), and the list of history entries (per
version, the last one is all that the code looks up).

### 3.2 Runs

`firmware`: 3 jobs of every kind, all faults, 1 crash, retention 3 (1.9 million states).
Three jobs are what the races need: one in the pipeline, one that has taken the slot from it,
one more that arrives. Of four versions two are installed, and a third comes new, rebuilt
and forged, so that collection deletes something and a version meets another package of its
name. One crash suffices because `Restart` forgets everything but the disk. Jobs are
symmetric. `firmware_liveness`: 2 jobs, every fault but a broken copy (see 3.4),
retention 2, no symmetry.

Fairness is weak and only on the host's own continuations: request handling before
and after the copy (`Handle`), the semaphore's grant (`Begin`: a FIFO semaphore in
practice, weak fairness is less), every phase (awaits complete, the smoke test has a
deadline), and the copy of a cancelled job (the read observes the token). Clients may
stall for ever, and crashes and stops are never required.

### 3.3 What holds

* `SlotsOnDisk`, `GatewayDirIntact`: versions named by `state.json` are on disk, also right
  after a crash; a directory a gateway runs from is not touched.
* `CandidateOwned`: no orphan candidate, no two gateways on one port.
* `LiveIsCurrent`: outside the swap itself, and while nobody reloads (see 3.4), traffic and
  `state.json` agree.
* `PreemptedHasSuccessor`, `PreemptedNeverPromotes`: pre-emption neither leaves the slot with a
  dead job nor lets a cancelled one through.
* `ImplementsSlots`: clients see updates that commit one at a time, all or nothing.
* `QueuedJobEnds`: whoever waits for the staging lock gets to an end.

### 3.4 What the code does not keep

* A config reload reads the current version before it queues for the lock (1272). If an
  upload promotes in between, the reload puts the old version back into traffic while
  `state.json` names the new one (the comment at 1255 expects the current one).
* The refusal of uploads during a promotion looks at the active slot, which a younger
  queued job may have taken (360, against the comment at 657).
* A job pre-empted during the pause between two health probes ends as Failed, not
  Cancelled (1167, against 284 and `docs/firmware-local.md`:167).
* An I/O error on the streaming upload path is not caught (307, against 283): the job stays
  Uploading, also after later requests cancelled it. This is why `firmware_liveness` leaves that
  fault out and `QueuedJobEnds` speaks of queued jobs.
* A rollback reads `previous` before it queues (475), so it may install a version that is
  no longer previous; if its directory was collected and staged again meanwhile, it
  records the hashes of the old package.
* A request may call `Cancel` on a source that was just disposed (370, 692) and fail.
* A job cancelled before unpacking or in its smoke test leaves `incoming/<job>/` behind until
  the next start.
* `PromoteAsync` takes a snapshot for an undo it never performs (1176).
* The drain of the old gateway ignores its token because `GatewayHostService.StopAsync`
  kills the process tree at once, so requests do not finish on the host they started on
  (comment at 1217).

The first four are what the runs' properties step around; each was found as a counterexample
to the property without that exception.

## 4. The workerd backend

### 4.1 `WorkerdBackend`: model and code

JavaScript runs to completion between two awaits, so an action is one such stretch.

| action | code (`backend.ts` if not said otherwise) |
| --- | --- |
| `Save`, `DeleteFunction`, `SaveShared`, `Push`, `Flush` | debouncer of `hot-reloader.ts` 121-171 and what a path means, 44-64 |
| `ReloadAll` | env watcher (`env-hot-reloader.ts` 73-100) or memory watchdog |
| `EditorSave`, `EditorReload` | runtime editor, 2083-2111: the overlay is written, then `doReload` |
| `StartReload`, `DoReload` | `doReload` up to its first await, 1698-1736 |
| `Bundle`, `Configure`, `Spawn` | `boot`: discovery and bundles, the shared runtime 1354-1396, port preflight and spawn |
| `BootFails` | `process.ts` 513-554: exit or time-out before the sockets accept |
| `Swap`, `Drained` | 1738-1770: install the child, stop its predecessor and wait |
| `Settle`, `Bridged` (in the steps that end a reload) | the promise and its `finally`; `onReloaded` of `server.ts` 1252-1274 |
| `ChildExits`, `Crash` | expected exit; the crash handler, 1637-1689 |
| `StopWatchers`, `Stop`, `Stopped` | `server.ts` 2531-2562; 2113-2134, before and after the await |

`source` counts the saves of each function, `bundle` is the version bundled, and a child has
the versions it `loaded`; `calls` remembers for each caller what it asked for, which
versions that meant, and whether it joined a reload in flight. Sources are read one by
one while bundling, so a concurrent save may be seen in part (`from`). `known` is the gateway's
copy of the names that are served. The shared module is evaluated in the gateway by a runtime
of its own; `bundler` fixes at its creation whether bundles call it. Time is abstract: timers
fire at any moment, and any number of crashes may age out of the window. The initial state is
the one after `start()`, with or without functions.

Run `workerd`: 2 functions, 3 children, a hot reloader, an env reloader and an editor, start with
one function and the shared module or with nothing (live mode) or with all (prebuilt), both modes,
all faults, a budget of one crash (5 in the code), one save per function, one of the shared
module, one full reload, two incidents in all (397,599 states). Two functions tell a partial
reload from a full one; a crash budget of one reaches both sides of it; at most two children live
at once (`ChildrenAccountedFor`), so three identities always leave one free.

Fairness: the reload's awaits complete (the readiness probe has a deadline), timers fire, an
editor session that saved goes on to reload, a child told to stop is killed in the end (SIGKILL
after `shutdownTimeoutMs`), and `stop()` continues once its child is gone. Saves, crashes and the
call of `stop()` are never required.

What holds: `ChildrenAccountedFor` (the preflight never meets a child of our own, none is lost
before `stop()`), `KnownIsServed`, `SharedCallsArrive`, `ReloadServesItsEdits`, `CallsSettle`,
`EditsGetServed`.

### 4.2 `WorkerdProcess` and `Watchdog`

`WorkerdProcess` splits what `WorkerdBackend` takes as one step: the preflight with its cleanup
of leftovers, the probe of every port, connect and exit events that are delivered late and in any
order, SIGTERM and SIGKILL. `os` is what the kernel knows of a child, `owner` who listens on a
socket, `boot` where the reload in flight stands. `Watchdog` adds the sampling timer.

| action | code |
| --- | --- |
| `Preflight`, `CleanUp` | `backend.ts` 1470-1553; `killStaleWorkerd` 552-587 |
| `Listen` | workerd itself: it takes all sockets of its config or exits |
| `Connect`, `Connected`, `Refused`, `Deadline` | `process.ts` 243-315: the probe of a port; the last one swaps the child in |
| `Ask` | `reload`, 2017-2031, by anybody |
| `Terminates`, `Dies`, `ExitEvent` | `process.ts` 557-582, 505-526; the crash handler of `backend.ts` |
| `Grows`, `Sample`, `Read` (nothing, under, over), `QuietEnds` | `watchdog.ts` 151-220; `proc-stats.ts` 34-45 |

Run `watchdog`: two children, two ports, leftovers of workerd or of someone else on any of them,
cleanup off or by port owner, hysteresis 2, a crash budget of one, both modes (382,229 states). A child
and its successor are all there can be; with two ports a start can be half ready. Fairness: probes,
deadlines, terminations, deliveries of exit events and samples are weak; a sample that could be
read over or under the budget again and again is read in the end (strong).

What holds: `NoStolenTraffic`, `ChildrenAccountedFor`, and `OverBudgetIsActedOn` (no failed, refused
or joined reload puts the watchdog to sleep).

### 4.3 What the code does not keep

* Concurrent callers do not queue, they get the promise of the reload in flight (1722, against
  321), whose sources may have been read already. An editor session can be told of a
  success its edit is not part of; the hot reloader can lose a save in the same way to an env
  or watchdog reload. `ReloadServesItsEdits` and `EditsGetServed` except joined callers.
* A new child that dies while its predecessor is drained calls `doReload`, which joins the
  reload that is past its boot (1722 against 1628). Nothing is left to recover.
* `stop()` does not wait for a reload in flight, which then installs a child that nobody stops
  (2117 against 380); a shared runtime restarted by that reload stays as well.
* A new function that does not compile makes every later partial reload fail (1196) until a full
  one leaves it out. A failed reload drops the names it was asked for (`hot-reloader.ts`:294).
* The gateway's names lag behind the swap while the predecessor drains (1765-1795): a new function
  is answered 404 although it is served (`server.ts`:1259).
* The shared runtime is started once (1389): saving `_shared/profile-cache.ts` reloads everything and
  reports success, but functions keep calling the old module. A shared module created after
  the bundler exists starts a runtime nobody calls.
* The comment at 1618-1621 says a manual reload clears the crash counter, which nothing does; a
  recovery reload that fails is not retried; the debouncer re-arms its timer after `stop()`.
* `process.ts`: a child that dies after its last probe connected and before its exit event is
  swapped in (309, against 108); a readiness time-out is always reported as "exited before
  sockets became ready"; `pid` stays after the exit (117). The cleanup of stale processes by image
  name kills the child that serves (`backend.ts` 1512 against 1801). In prebuilt mode the watchdog's
  reload is always refused (2021).

Not in the model: deletion of the shared module; edits of an existing one are bounded away in the
run (`MaxShared` = 1) but not in the proofs.

## 5. The Bun function host and its sources

### 5.1 `FunctionHost`: model and code

A function's code is loaded as a *graph* (an instance). Three callers make graphs: the deferred
boot, the hot reloader and the env reloader.

| state | code (`function-host.ts` if not said otherwise) |
| --- | --- |
| `handles`, `boot`, `known` | the registry, `bootStates`, the names that are known |
| `pendingClaim`, `claim`, `chain`, `lane` | claims of callers on functions, superseded before they start and chained after; the bounded lanes that start them |
| `importQ` | `serializeImport`, where captures do not mix |
| `inst` | graphs: waiting, importing, live, draining, lingering |
| `gen`, `retired`, `refs` | generations of shared dependencies (`compat/shared-deps.ts`) |
| `pending`, `armed`, `want`, `phase` | the debouncers and what each caller is doing |
| `req` | requests that wait for a function or run in a graph (`server.ts` 2012-2110) |

Actions: `Edit`, `EditShared`, `Flush`, `Affected` (the hot reloader), `EnvEdit`, `EnvFlush` (the
env reloader), `Prepared`, `Reload`, `ClaimStep` (a claim starts, a spawn begins),
`ImportBegins`, `ImportEnds`, `ImportFails`, `Dispose`, `ReloadEnds`; `Arrive`, `WaitTimeout`, `Resume`,
`Progress` of requests; `Stop`. `ImportEnds` is the import's continuation to the swap, with the
retirement of the predecessor and the news to who waits. A timer does not overtake a promise that
has settled (`ToldFirst`), which is the event loop's order.

Run `function_host`: two functions, one of which imports shared code, four graphs, isolated and
shared dependencies, failing preparation and imports, two edits, env changes or a stop between them,
one lane (1,416,788 states). Run `function_host_requests`: one function, three graphs, a request, no
env changes (109,789 states). Two functions tell a bump of shared code from an edit of one; boot plus two
events make three claims meet, one started, one superseded, one chained. With four graphs a
function can have one of each status.

Fairness: timers fire, awaited I/O and imports end, a drained graph is disposed, a request is
answered or times out. Nobody has to edit or to send anything.

What holds: `TablesAreTrue`, `ReferencesExact`, `QuietServesNewest` (no edit lost or undone),
`RequestsSurviveReloads`, `EditsGetServed`. What the code does not keep: the generation of shared
dependencies that a graph loads from is not pinned during the import (567, against the comment at
564), so its files may go while the graph loads; the pin is exact once it is registered. A spawn
that ends after a newer claim has queued the function marks it ready (1150): the request
gets the older code without the mark of `server.ts`:181. A function removed while
a spawn of it is in flight comes back (1119).

### 5.2 `ModuleGraph`: from a saved file to what runs

`source` is the disk, `parsed` and `rewritten` are the caches of `dep-graph.ts` and
`compat/plugin.ts`, `graph` the files a function is reloaded for, `job` the walk and then the load
of each graph's reload, `loaded` what runs. `Stat` and `Read` are the two halves of
`parseFile`, between which a save may come; `Load`, `Bind`, `Imported` are the module loader with the
rewriting of imports; `SharedReloaded` evaluates the module the gateway shares.
`SaveEnv`, `EnvFlush` and `EnvReloadEnds` take env files to the environment with `applyEnvFiles`, line
by line. Import maps are modelled by what resolution does, scopes and longest prefixes included.

`Reached(imports, from, through)` are the files that one reaches through the imports of some: the smallest
set that contains `from` and that no import of these leads out of. `Closure` is the graph one would draw
of the files on disk; `Own` is the part of it a function evaluates itself, for what only the shared file
imports is evaluated with that. The walk and the load of the code do not use either: they take files from
a work list one by one.

Run `module_graph`: two functions and a shared module, six files, an import map with a scope
for one function, one key in `.env` and `.env.local`, two saves or deletions (458,864 states). A save
during a walk and one during the load that follows are the two that matter.

What holds: `GraphsAreHonest` (no path is forgotten, however saves, walks and cache entries overlap),
`NewestCodeRuns` (after the last reload the newest revisions run, also where an earlier import failed, and
every importer of the shared module is bound to its newest evaluation, which is of its newest revision
unless one of its own imports failed it), `SecretsTakeEffect`. What the code does not keep:

* `classify` of the dependency graph never maps path-like specifiers, the loader's
  `rewriteTarget` maps all; a map that renames a relative path makes them disagree.
* A shared module that is missing during one reload is dropped for good. A save of a file the shared
  module imports reloads the functions but not the shared module.
* Extensionless imports of files not yet written are tracked under a path no event has. The filter of
  saves that change nothing can drop a revert (A to B to A within one flush). Caches are keyed by
  time and size.
* One of several env files missing for a moment: its keys are deleted, although
  `env-file.ts`:161-163 says owned keys survive a transient read failure. An env change reloads the
  functions, but neither the shared runtime nor the shared dependencies (`server.ts` 1610-1631). A key
  the shell had set, a file took over and gave up again, is deleted instead of restored. Only env
  files that exist at boot are watched.

Simplifications: claims start at once, and at most one running and one waiting claim per function;
`FunctionHost` has the rest.

## 6. The request path and the process

### 6.1 `Gateway`

The middlewares in their order (`server.ts` 1707-1763), then the dispatch of either backend.

| action | code |
| --- | --- |
| `Arrive` | fast-fail, body limit, token probe with the cache (`gateway/auth.ts` 91-103) |
| `Verified` | `verifyToken` after its await, `cacheSet` 105-117 |
| `Limit` | `gateway/rate-limit.ts` 68-187: key, bucket, refill, token |
| `NotUp`, `AdmitBun`, `AdmitWorkerd` | dispatch up to the call, with `admit` of `supervisor.ts` 89-114 |
| `Respond`, `Fail`, `Abort` | the call's end, the timers, the body watchdog, the logged outcome, `record` 118-160 |
| `RemoveFunction`, `Load`, `Leak` | reloads and removals under requests in flight; a leaked rejection |

Run `gateway`: two requests of one client, one token that expires, both backends, buckets of one
token and one bucket at most, a cache of one, a window of two outcomes, a clock up to 2 (714,100
states). Buckets and caches at their limit, a refill in the middle of a token, and a
trip followed by late outcomes all occur. Fairness: code runs, promises settle, and the timer of a
function fires.

What holds: `AdmittedByTheRules` (no stretch of time gets more grants than a bucket holds and what
flows in; an accepted token was alive when its request came), `BreakerTripsOnFailures`, `AllAnswered`.
What the code does not keep: a timeout on the workerd path ends as a 502 without the kind
`timeout` (`backend.ts`:2062, against `logging.ts`:57); outcomes of superseded code count against the
breaker that the reload has just reset (`function-host.ts` 1143 after 1142).

### 6.2 `Lifecycle`

`pc` is the step of the boot or the phase of the shutdown, `held` what the process has acquired, `queue`,
`timer` and `table` are the log writer's, `tail` and `pages` a client that follows the lines or pages
through the rows. Actions: `OpenLogs`, `StartBackend`, `StartWatchers`, `Serve` and their failures
(`server.ts` 1006-2520); `Signal`, `GraceEnds`, `Drain`, `StopBackend`, `Close` (2530-2646);
`Start`, `LogLine`, `Finish` of requests; `Flush`, `PruneStart`, `PruneStep` (`logs/writer.ts`);
`Follow`, `QueryInvocations`, `SearchLogs` (`logs/query.ts`).

A table is a set of rows, as a table of SQL is, and the time and id of a row are its order. So a page is
*a* set of `limit` rows after the cursor with nothing skipped, as `ORDER BY ... LIMIT` allows it, and a
batch numbers its lines by their place in it.

Run `lifecycle`: two requests, tables that start empty or with two rows, three writers (synchronous;
threshold 2; a queue of 2 under a threshold of 3, which overflows), retention of one tick and one row,
pages of one row, all faults. Fairness: timers fire and awaited calls return; requests may never end
and nobody has to signal.

What holds: `ShutdownIsOrderly`, `ReadersMissNothing`, `ShutdownEnds`. What the code does not keep: the
cap on rows is not hard when rows share a millisecond (`writer.ts`:307, against 68); when the port is
taken the announced tear-down does nothing before the exit (`server.ts` 2516, against 2514).

### 6.3 `Overrides`

Two editor sessions create, save, delete and revert functions while boots compose the overlays with
the firmware. Every file operation of `runtime-overrides.ts` is a step (`RemoveDir`, `WriteFile`,
`Persist`, `Written`), a call may fail at each of them, and `Restart` is a crash or a firmware
change. `ComposeEntry` iterates over the index *by position* while other calls push into it and
`persist` sorts it in place, as the code does. The index lists a name once, so `filter` removes at most
one entry (`Without`); `sort` yields some ascending rearrangement of it (`Sortings`).

Run `overrides`: two symmetric sessions, two names, a firmware of one or both functions, two saves, one
incident. Safety only. What holds: `StoreIsSound`, `FirmwareStaysServed`, `OwnReloadServesIt`. What the
code does not keep: two sessions that read and then save lose an update; a session whose every
firmware function is patched meets "zero functions"; the comments at `backend.ts` 1024 and 1037 are
not true with overlays; the editor works in prebuilt mode only (947). Outside the model: a read
of an editable source during a save can mix two saves or fail with ENOENT (`runtime-overrides.ts`
290-322, 491-510).

## 7. Artifacts and stores

### 7.1 `Artifact`

`dist` and `output` are the two output directories, `build` and `package` the commands that run,
`payloads` the files written. A bundle is what it was made of; a chunk is named after its content, an
entry is not; content hashes and fingerprints are sets of what they hash. Files are written one by
one or in a group, commands may be killed between any two writes, sources edited at any time
(`StopBuild`, `Edit`), and a package may read `dist` while a build rewrites it.

Run `artifact`: two functions, one of which declares options, both targets, one edit, two builds, two
packages, one kill (2,783,656 states). Two builds with one edit between them give two versions of
everything; two packages are what fingerprints compare. Safety only.

What holds: `VerificationIsRight`, `FingerprintNamesContent`, `RoutesReachFunctions`. What the code does
not keep: the content hash is computed from the disk after the packaged bytes were read and
the host does not recompute it; a torn `config.json` makes later Vercel builds fail; "Every file is
regenerated on each build" (`build.ts`:396) does not hold for functions and chunks that are gone;
deleted functions stay deployed in `.vercel/output`; the capture of `serve()` options attributes
late registrations to the wrong function, and a repeated build in one process registers nothing. Not
modelled: deployment ids.

### 7.2 `Deps`

`packageJson`, `marker` and `disk` are `package.json`, `.1tube-installing` and `node_modules`; `chain` the
calls of `ensure` in a process, `child` its installs, awaited or blocking; `bodyFile` and `metaFile` the two cache
files of a URL. `bun install` is external: it reads `package.json` when it starts, refuses all of it for
one package it cannot find, and extracts one package after the other. A kill takes a process
with its children.

Run `deps`: one process, four requests of which two share a package and one is refused, two batches
that can wait, one kill, with and without the reload flag (662,827 states). One process suffices for the interplay
of awaited and blocking installs; the theorems hold for any number. Fairness: installs end, writes are
synchronous, and the event loop gets to settled promises, strongly, because blocking installs
may interrupt it again and again.

What holds: `CachesAreWhole`, `EnsuredMeansPresent`, `EnsureSettles`. What the code does not keep:
`resolveSync` during an awaited install ends by removing the marker of the install that
still runs, so a kill then leaves a half-extracted package that is trusted (excluded by
`overlapped`); a refused request stays in `package.json` and fails every later install (against
"self-healing", `deps.ts` 17-18), and a batch fails for its one bad request; the reload flag or a second
process may tear the body of a complete cache entry (excluded by `clobbered`).

### 7.3 Seen outside the models

Live and candidate gateway share a cache directory. `getOrLoad` of the registry can put back what a
`delete` during the load removed. `launch.ts`: a change and its reversal within 250 ms cause no
restart, as intended, but a change between the fingerprint and the start of the watch is missed, import maps are
watched in the working directory only, and a leaked workerd child makes the restarted
gateway's preflight fail. The Vercel wrapper's `__1tubePending` grows without bound where the
platform has `waitUntil`.

## 8. What is proved

Every theorem holds for all values of the constants its module's ASSUMEs allow: any number of
jobs, children, functions, requests, processes, sizes and bounds. TLC checked each inductive
invariant on the instances of the runs before it was proved. In every `_proofs` module `IInv` is that
invariant (`ChildrenInv` of the watchdog, `PackagesInv` of the stores), shown in three facts (`Init => IInv`, `IInv /\ [Next]_vars => IInv'`, `IInv => ...`), with
one step per action and one lemma per conjunct; lemmas about what an action leaves alone come first.

| module | assumptions | theorem, and the property it states |
| --- | --- | --- |
| `FirmwareSupervisor_proofs` | packages carry versions of `Versions`, uploads and only they have packages; `None` is none of the values; at most two installed packages, of distinct versions | `SlotsStayOnDisk`, `GatewayDirStays`, `CandidateIsOwned`, `LiveStaysCurrent`, `PreemptionHasSuccessor`, `CancelledNeverPromotes`, `Implements` (`ImplementsSlots`); also `TypeCorrect`, `Exclusion`, `PayloadStays`, `PromotedDirsStable`, `JobsNeverResurrect` |
| `WorkerdBackend_proofs` | at least two children; at most one hot reloader; `None` is no child and no reload | `ChildrenStayAccountedFor`, `GatewayKnowsWhatIsServed`, `CallsFindTheRuntime`, `OwnReloadServes` |
| `Lifecycle_proofs`, on `Watchdog` | at least two children, none of which is a leftover; a positive hysteresis | `TrafficIsNeverStolen`, `ChildrenStayAccountedFor` |
| `FunctionHost_proofs` | finitely many graphs; callers, functions and the shared file differ | `TablesStayTrue`, `ReferencesStayExact`, `NoEditIsLost`, `RequestsOutliveReloads` |
| `Gateway_proofs` | sizes, refill interval, window and error limit are positive, the limit fits the window; clients and tokens differ | `OnlyByTheRules`, `TripsOnFailures` |
| `Lifecycle_proofs` | positive limits and thresholds; old rows are of no request of this process | `ShutdownStaysOrderly` (`ShutdownIsOrderly`), `ReadersStayExact` (`ReadersMissNothing`) |
| `Overrides_proofs` | a firmware is not empty; `None` is no session, save or index; `"reload"` is no session | `StoreStaysSound` (`StoreIsSound`), `FirmwareStays` (`FirmwareStaysServed`), `OwnReloadServes` (`OwnReloadServesIt`) |
| `ModuleGraph_proofs` | entries are files, those of functions differ from the shared module's, none of them is deleted; specifiers resolve to files or are bare packages, and the map does not rename path-like ones; `None` is no value | `GraphsStayHonest` (`GraphsAreHonest`), `NewestCodeStays` (`NewestCodeRuns`), `SecretsAlwaysTakeEffect` (`SecretsTakeEffect`) |
| `Artifact_proofs` | finitely many functions, which are no bundles and no routes of the frontend; `None` is no value | `PayloadsVerify` (`VerificationIsRight`), `HashNamesContent` (`FingerprintNamesContent`), `RoutesLeadThere` (`RoutesReachFunctions`) |
| `Artifact_proofs`, on `Deps` | batches are sets of requests; `NoInstall` is no install and no package | `NothingHalfWrittenIsTrusted` (`CachesAreWhole`), `FulfilledMeansPresent` (`EnsuredMeansPresent`) |

None of the properties is inductive alone. What their invariants add:

**Firmware supervisor.** `RequestInv` and `TargetInv` say what a job has settled when it is received:
rollbacks and reloads only aim at versions promoted before. `CandidateInv`: a candidate exists only
under the lock holder, was booted from the target's directory, and uses the port the live gateway
does not. `LiveInv`: the live gateway runs from the untouched directory of a promoted version.
`PromotionInv`: how far a promotion has come decides what `file` and `live` hold, which orders the
write of `state.json`, the swap and the collection. `HistoryInv`, `StateInv` and `CreatedInv`
keep books on histories, terminal states and the slot. The argument for
`SlotsOnDisk`: `current` changes only in `write`, where the candidate that passed its smoke test
shows that the target's directory exists; `previous` becomes the old `current`; directories
disappear only in `collect`, which pins both, and in `stage`, which refuses promoted versions.
`LiveIsCurrent` is inductive on top of `IInv`, once a job that was never received
has no request (`IdleInv`).
The refinement maps an update to *waiting* until its job owns the lock, *active* up to the write,
*committed* (or *reloading*) until the swap, then *ended*: `write` commits, `swap` serves,
`collect` removes what neither slot names, and every other action is a stutter or a change of status.

**Workerd backend.** `CurrentInv` and `SeatsInv` say which children may be alive at each await of
a reload, and on which port slot: between reloads only the current child; during the drain it and its
predecessor; hence the slot of the next generation is always free (`PreflightFindsNoOwnChild`).
`StopInv` ties `stop()` to the child it waits for. `LoadedInv` and `NamesInv` relate what a
child has loaded to the names the backend and the gateway have. `CallerInv` and `FreshInv` give
`ReloadServesItsEdits`: a caller that did not join began the reload, with the
versions it asked for, and from the bundle on whatever was asked for is at least that new, in the
cache directory and then in the child. `RuntimeInv` orders bundler, shared runtime and children: whoever
calls the runtime was started after it. It is the failure *between* these steps that makes it
necessary: a bundler that calls may exist for several failed boots before there is a runtime.

**Watchdog.** `BootInv` says what a reload is about, `Tracked` that no other child is left unburied.
`ProbeInv` is the core: since the preflight only the new child listens on the ports of its slot, and
a port on which a connection was accepted is still its own while it runs, though the connect event comes
later. Then a start whose last probe succeeded has all its sockets, or is dead.

**Function host.** `ClaimInv`: the claim that spawns is the head of its function's chain. `GraphInv`: each
such claim has one graph on its way in, and imports are queued. `EventInv` bounds generations by
events, so that a bump always has a number. `RefsInv` counts the pins of live graphs with
`Cardinality`. `NewestInv` says where the news of an edit is at every moment: whatever the
present version of a function is, either it serves, or failed, or a graph is on its way in that has
it, or a flush or a claim that has not read it yet is still due (`Due`); quiet means nothing is due. It
needs `EnvInv` for the environment's changes. `RequestInv`: a request that waits for fresh code has a
graph to fall back to that is not disposed before the request has gone on.

**Gateway.** `BucketInv` keeps an account per bucket and grant: tokens held plus tokens given since
the i-th grant are at most the bucket's size and what has flowed in since, rounded up to whole tokens
(`Balanced`). The rounding is why `RateBound` is not inductive alone: whether the refill clock lags by
part of a token decides if the next refill comes a tick early. `DivMono`, `DivSum` and `Inflow` are the
division facts it rests on. `RequestInv` says what is known of a request where it is; tokens in
the cache may expire there, and are checked when they are taken out. `WindowInv`: who is in a
breaker's window has ended, ran some code, and is there once.

**Process and logs.** `PhaseInv` says what each step of the boot and of the shutdown implies for
the resources held and for the requests: while anything runs and the grace period has not expired,
nothing has been closed. `AccountInv` finds the row of every request that ended: in its table, in the queue, or among
what was dropped, failed or pruned; at the end the queue is empty, and so `close()` has lost nothing silently.
`TailInv`: a line's id is at most the last one given and a follower is never ahead of it. `PagesInv`: between
two pages the cursor divides what has been read from what was there and has not (`Divides`), whatever is
written or pruned meanwhile; that `Older` orders rows strictly is what the argument rests on.

**Overrides.** `WholeInv` says of every name that no failure or meeting of calls has touched (`hurt`) that at
most one session is at work on it, how far its files are (`AsFar`), and that without one they are as listed or not
there. `DurableInv`: every text that `overrides.json` holds or is being written lists what the index lists,
but for names whose calls have still to `persist`. That is what carries `WholeInv` over a restart. `OwnInv`
follows a session's change into its reload. The array it composes may be sorted under
it, so that an entry is passed over; but then another was taken twice, for there are as many steps as entries
(`AllTakenOut`, by counting), and a config with a name twice is refused. So a reload that succeeds has
taken every name, the session's among them. `ReloadInv` shows that patches only replace what they overlay,
hence that the firmware stays served.

**Module graph.** Whether a function is reloaded depends on the graph it *has*, which may be as old as the
change, while what runs is judged by the graph it *should* have. `GraphOK` is the bridge: a path that
is changed and not yet looked at belongs to both graphs or to neither, for a file that imports differently than the
graph says has itself changed; so no function is forgotten. `WalkOK` says what an unfinished walk is worth: it has
seen what the files it knows import, nothing else unless one of these was saved meanwhile, and if it was, the
hot reloader is due again; a walk of the env reloader, which nobody follows up, never leads out of a graph the hot
reloader will find the change in. `LoadOK` is the same for the loader, with `CacheInv` (a cache
entry of the present revision is honest, and none is newer than the edits so far, so a save between `Stat` and
`Read` leaves an entry that will not be found again) in between. `NewestOK` and `SecretOK` say what is left when
the job ends. `SharedInv` orders the shared module: it is evaluated before its importers are looked for, and its
generations are counted by saves. `ClaimOK` says that a reloader has one claim on a function at most.
The proofs never follow a path: a set is reached if every set that is closed contains it, so a lemma about
`Reached` names one closed set (`ReachedFacts`, and what it does when an import changes outside it).

**Artifacts.** A build is followed through its phases. `BuildInv`: what it holds in memory was made of one
version of the shared module (`Bundled`). `WroteInv`: in each phase, which files are there, which are finished, and that
a hash taken is of a finished file; the ends of the phases leave a directory that fits its manifest (`WholeInv`)
until the next write, which resets `whole`. Whatever a kill left, the manifest is one that some build wrote, or
does not parse (`IsManifest`), and that is all `VerifiedIsWhole` needs: a payload whose files have the hashes of such a
manifest is of that build. `PackageInv` says what a package command that nobody has overlapped has read, pass by pass, and
`PayloadInv` that its payload fits its manifest and is under the fingerprint of its own files.
`HashNamesContent` is then a statement about two such payloads: from the text of a function's chunk, which the
fingerprint has at a known depth, its version and that of the shared module can be read back, and equal versions
give equal sets of hashes (`SameVersions`). `EmitInv` follows a function's directory from its removal to
its limit. `RoutesInv`: outside `hurt` and the build under way, a function with a directory has one route, before any
marker, and the frontend's routes are in order. What a merge does to a list of routes of any length is proved
without induction over sequences: the routes that stay are enumerated by counting, the n-th is the one with n kept
positions up to it, which is unique because counting is monotonic and exists because a smallest
exception would contradict the one before it (`Moved` says what follows: others keep their order, new
ones come once, before the first marker).

**Package store.** `ListedInv`: only what `package.json` lists is extracted. `StoreInv`: an install that is
alone has its marker set, and what it neither has to extract nor is extracting is whole; without a marker
nothing is half-extracted. `AskedInv` carries a waiting call's requests to the end of its install.
`RemoteInv` orders the two writes of a download.

### What is only model-checked, and why

* Liveness (`QueuedJobEnds`, `CallsSettle`, both `EditsGetServed`, `OverBudgetIsActedOn`,
  `AllAnswered`, `ShutdownEnds`, `EnsureSettles`): fairness and ENABLED are beyond the provers.

No safety invariant and no action property of a run is without a theorem.

## 9. Limits

Properties are checked on the instances above and proved where section 8 says so. Nothing is said
about data formats, about real time beyond the order of ticks, about the operating system's process and file
semantics beyond atomic rename and port exclusivity, about what happens inside workerd, esbuild, `bun
install` and SQLite, or about the components that section 1 lists as not modelled. A property that
excepts a case the code does not keep (sections 3.4, 4.3, 5 to 7) says so in its definition.
