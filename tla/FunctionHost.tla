----------------------------- MODULE FunctionHost -----------------------------
(***************************************************************************)
(* The Bun backend (src/backends/bun/function-host.ts): one module graph   *)
(* per function, the deferred boot, reloads asked for by the hot reloader  *)
(* (hot-reloader.ts) and by the env reloader, the claims and chains that   *)
(* keep their spawns apart, the draining of superseded graphs, the         *)
(* generations of the shared-dependency graph (compat/shared-deps.ts), and *)
(* how a request waits for a function (server.ts 2012-2108).               *)
(*                                                                         *)
(* Code runs to completion between two awaits.  Simplifications: the       *)
(* content of a function is a version number; eager boot is deferred boot  *)
(* without requests; reloadDrainMs is not 0; lanes start claims in any     *)
(* order (byRecency); time is abstract, but a timer does not overtake a    *)
(* promise that is already settled (ToldFirst).                            *)
(***************************************************************************)
EXTENDS Naturals, Sequences, FiniteSets

CONSTANTS
  Functions, Requests,
  Instances,             \* numbers for module graphs, reused once free
  Boot, Hmr, Env,        \* the callers: startDeferred, hot reloader, env reloader
  Shared, Dependents,    \* a file of shared code, evaluated in the shared graph, and
                         \* the functions that import it
  Modes,                 \* whether dependencies may be shared: TRUE, FALSE
  Faults,                \* what may fail: "prepare", "import"
  Concurrency,
  EnvChanges,            \* what writing an env file changes: 1 something, 0 nothing
  MaxEvents,             \* bound on edits, env changes and stops together
  None

Callers == {Boot, Hmr, Env}

Generations == 1..(MaxEvents + 1)

ASSUME HostAssumption ==
  /\ Modes \subseteq BOOLEAN /\ EnvChanges \subseteq {0, 1} /\ Faults \subseteq {"prepare", "import"}
  /\ {Concurrency, MaxEvents} \subseteq Nat /\ Concurrency > 0
  /\ Instances \subseteq Nat /\ IsFiniteSet(Instances)
  /\ None \notin Instances \cup Callers \cup Functions /\ Shared \notin Functions /\ Dependents \subseteq Functions
  /\ Boot # Hmr /\ Boot # Env /\ Hmr # Env

Statuses == {"free", "waiting", "importing", "live", "draining", "lingering"}

\* A module graph: its function, whose claim spawned it, the version and environment
\* it was loaded with, the generations its stubs bound to and the one it pins.
GraphType == [fn : Functions \cup {None}, by : Callers \cup {None}, version : Nat, env : Nat,
              gens : SUBSET Generations, pin : {0} \cup Generations, st : Statuses]

\* A request: the graph it runs in or would fall back to, whether that was superseded
\* when it was called, what ended its wait.
RequestType == [phase : {"idle", "warm", "fresh", "run", "tail", "dead", "refused"}, fn : Functions \cup {None},
                inst : Instances \cup {None}, late : BOOLEAN, told : {"", "ready", "failed", "timeout"}, stale : BOOLEAN]

VARIABLES
  sharing,       \* shareDeps and no env enforcement
  version,       \* what was last written of a function
  present,       \* the functions whose entry is on disk
  handles,       \* handles, and the registry's worker handles
  known,         \* names the registry knows
  boot,          \* bootStates
  inst,          \* graphs: [fn, by, version, env, gens, pin, st]
  pendingClaim,  \* pendingClaims: the caller whose claim may be started
  claim,         \* per caller and function: how far its claim has come
  lane,          \* claims a lane waits for; the others were started by a request
  chain,         \* spawnChains
  importQ,       \* importChain
  prepared,      \* the boot-wide dependency install is over
  phase, want,   \* per caller: where reload() stands, and the names it is for
  pending, armed,        \* the hot reloader's debouncer
  secrets, env,          \* version of the .env files; of what process.env holds of them
  envPending, envArmed,  \* the env reloader's debouncer
  events,                \* edits, env changes and stops so far
  gen, refs, retired,    \* shared dependencies: current generation, references
  req,           \* requests: [phase, fn, inst, late, told]
  stopped

disk     == <<version, present>>
claims   == <<pendingClaim, claim, lane, chain, prepared, phase, want>>
hmr      == <<pending, armed>>
envs     == <<secrets, env, envPending, envArmed>>
watch    == <<hmr, envs, events>>
shareds  == <<gen, refs, retired>>
vars == <<sharing, disk, handles, known, boot, inst, claims, importQ, watch, shareds, req, stopped>>

Free == [fn |-> None, by |-> None, version |-> 0, env |-> 0, gens |-> {}, pin |-> 0, st |-> "free"]
NoRequest == [phase |-> "idle", fn |-> None, inst |-> None, late |-> FALSE, told |-> "", stale |-> FALSE]
Live(i) == inst[i].st # "free"

Init ==
  /\ sharing \in Modes
  /\ version = [f \in Functions |-> 1] /\ present = Functions
  /\ handles = [f \in Functions |-> None] /\ known = Functions
  /\ boot = [f \in Functions |-> "queued"]
  /\ inst = [i \in Instances |-> Free]
  /\ pendingClaim = [f \in Functions |-> Boot]
  /\ claim = [c \in Callers |-> [f \in Functions |-> IF c = Boot THEN "pending" ELSE "none"]]
  /\ lane = {}
  /\ chain = [f \in Functions |-> <<>>]
  /\ importQ = <<>> /\ prepared = FALSE
  /\ phase = [c \in Callers |-> IF c = Boot THEN "reload" ELSE "idle"]
  /\ want = [c \in Callers |-> Functions]
  /\ pending = {} /\ armed = FALSE /\ events = 0
  /\ secrets = 1 /\ env = 1 /\ envPending = FALSE /\ envArmed = FALSE
  /\ gen = 1 /\ refs = [g \in Generations |-> 0] /\ retired = {}
  /\ req = [r \in Requests |-> NoRequest]
  /\ stopped = FALSE

-----------------------------------------------------------------------------
(* Shared dependencies: references pin a generation until its users are gone *)

Pins(rs) == [g \in Generations |-> Cardinality({i \in rs : inst[i].pin = g})]

\* Graphs are disposed: their references go, and with the last one a generation
\* that bump() has retired.
Release(is) ==
  /\ refs' = [g \in DOMAIN refs |-> refs[g] - Pins(is)[g]]
  /\ retired' = {g \in retired : refs'[g] > 0}
  /\ UNCHANGED gen

Bump ==
  IF sharing
  THEN /\ gen' = gen + 1
       /\ retired' = IF refs[gen] > 0 THEN retired \cup {gen} ELSE retired
       /\ UNCHANGED refs
  ELSE UNCHANGED shareds

-----------------------------------------------------------------------------
(* Graph instances *)

WorksIn(i) == {r \in Requests : req[r].inst = i /\ req[r].phase \in {"run", "tail"}}

\* Mutant: background work and open streams do not count.
BusyInflight(i) == \E r \in WorksIn(i) : req[r].phase = "run"

Busy(i) == WorksIn(i) # {}

\* terminate({drainMs}): keep serving what is in flight, linger once idle.
Retired(i) == [inst[i] EXCEPT !.st = IF Busy(i) THEN "draining" ELSE "lingering"]

\* dispose(): streams are cut; a handler that still runs never answers.
Cut(is) == req' = [r \in Requests |->
  IF req[r].inst \in is /\ req[r].phase = "run" THEN [req[r] EXCEPT !.phase = "dead"]
  ELSE IF req[r].inst \in is /\ req[r].phase = "tail" THEN NoRequest
  ELSE req[r]]

\* Continuations of settled promises run before any timer does.
ToldFirst == \A r \in Requests : req[r].told = ""

\* The linger, or the drain window, is over.
Dispose(i) ==
  /\ ToldFirst /\ inst[i].st \in {"draining", "lingering"}
  /\ inst' = [inst EXCEPT ![i] = Free]
  /\ Release({i}) /\ Cut({i})
  /\ UNCHANGED <<sharing, disk, handles, known, boot, claims, importQ, watch, stopped>>

-----------------------------------------------------------------------------
(* Boot states and their waiters *)

Waits(r) == req[r].phase \in {"warm", "fresh"} /\ req[r].told = ""

Tell(f, s) == req' = [r \in Requests |->
  IF Waits(r) /\ req[r].fn = f THEN [req[r] EXCEPT !.told = s] ELSE req[r]]

settleBootState(f, s) == boot' = [boot EXCEPT ![f] = s] /\ Tell(f, s)

-----------------------------------------------------------------------------
(* Claims *)

Starting(c, f) ==
  /\ pendingClaim' = [pendingClaim EXCEPT ![f] = None]
  /\ boot' = [boot EXCEPT ![f] = "loading"]
  /\ IF c = Boot /\ ~prepared
     THEN /\ claim' = [claim EXCEPT ![c][f] = "prepare"]
          /\ UNCHANGED chain
     ELSE /\ claim' = [claim EXCEPT ![c][f] = "chain"]
          /\ chain' = [chain EXCEPT ![f] = Append(@, c)]

\* drainClaims: a lane takes the next claim that nobody superseded.
StartClaim(c, f) ==
  /\ pendingClaim[f] = c /\ claim[c][f] = "pending"
  /\ Cardinality({l \in lane : l[1] = c}) < Concurrency
  /\ Starting(c, f)
  /\ lane' = lane \cup {<<c, f>>}
  /\ UNCHANGED <<sharing, disk, handles, known, inst, importQ, prepared, phase, want, watch, shareds, req, stopped>>

\* prioritize(): a request waits, so the claim starts above the bound.
Prioritize(f) ==
  /\ UNCHANGED lane
  /\ IF boot[f] = "queued" /\ pendingClaim[f] # None
     THEN Starting(pendingClaim[f], f)
     ELSE UNCHANGED <<pendingClaim, boot, claim, chain>>

\* prepareBatch is over, whatever became of it: claims that waited join the chain.
Prepared ==
  /\ ~prepared /\ prepared' = TRUE
  /\ LET fs == {f \in Functions : claim[Boot][f] = "prepare"} IN
     /\ claim' = [claim EXCEPT ![Boot] = [f \in Functions |-> IF f \in fs THEN "chain" ELSE @[f]]]
     /\ chain' = [f \in Functions |-> IF f \in fs THEN Append(chain[f], Boot) ELSE chain[f]]
  /\ UNCHANGED <<sharing, disk, handles, known, boot, inst, pendingClaim, lane, importQ, phase, want,
                 watch, shareds, req, stopped>>

\* The ending of the claim whose turn it is: the next in the chain may go on.
ClaimEnds(c, f) ==
  /\ claim' = [claim EXCEPT ![c][f] = "none"]
  /\ lane' = lane \ {<<c, f>>}
  /\ chain' = [chain EXCEPT ![f] = Tail(@)]
  /\ UNCHANGED <<pendingClaim, prepared, phase, want>>

Spawns(c, f) == Head(chain[f]) = c

\* spawnAndRegister: graph walk and install, then createInstance up to the import;
\* the generation of that moment is pinned.
Spawn(c, f) ==
  /\ claim[c][f] = "chain" /\ Spawns(c, f)
  /\ \/ /\ \E i \in Instances :
             /\ ~Live(i) /\ \A j \in Instances : j < i => Live(j)
             /\ inst' = [inst EXCEPT ![i] = [Free EXCEPT !.fn = f, !.by = c, !.st = "waiting",
                                               !.pin = IF sharing THEN gen ELSE 0]]
             /\ importQ' = IF sharing THEN Append(importQ, i) ELSE importQ
        /\ refs' = IF sharing THEN [refs EXCEPT ![gen] = @ + 1] ELSE refs
        /\ claim' = [claim EXCEPT ![c][f] = "import"]
        /\ UNCHANGED <<boot, lane, pendingClaim, chain, prepared, phase, want, req>>
     \/ /\ "prepare" \in Faults /\ c # Boot
        /\ ClaimEnds(c, f) /\ settleBootState(f, "failed")
        /\ UNCHANGED <<inst, importQ, refs>>
  /\ UNCHANGED <<sharing, disk, handles, known, watch, gen, retired, stopped>>

\* serializeImport: with shared dependencies one import at a time. The stubs bind to
\* whatever generation is current.
ImportBegins(i) ==
  /\ inst[i].st = "waiting" /\ (sharing => Head(importQ) = i)
  /\ inst' = [inst EXCEPT ![i].st = "importing",
                          ![i].version = IF inst[i].fn \in present THEN version[inst[i].fn] ELSE 0,
                          ![i].env = env,
                          ![i].gens = IF sharing THEN {gen} ELSE {}]
  /\ UNCHANGED <<sharing, disk, handles, known, boot, claims, importQ, watch, shareds, req, stopped>>

\* The import in flight was the first in the queue.
ImportSettled == importQ' = IF sharing THEN Tail(importQ) ELSE importQ

\* Mutant: the predecessor is not retired.
RegisterOver(i, f) == inst' = [inst EXCEPT ![i].st = "live"]

\* The handle is swapped in, its predecessor retired. A stub bound late in the
\* import may have met the generation after a bump.
Register(i, f) ==
  LET old == handles[f]
      up == [inst[i] EXCEPT !.st = "live"] IN
  \E late \in SUBSET (IF sharing THEN {gen} ELSE {}) :
    inst' = [j \in Instances |-> IF j = i THEN [up EXCEPT !.gens = @ \cup late]
                                 ELSE IF j = old THEN Retired(j) ELSE inst[j]]

\* Mutant: a graph whose import fails keeps its reference.
ReleaseNot(i) == UNCHANGED shareds

ReleaseOf(i) == Release({i})

ImportFails(i) ==
  LET f == inst[i].fn IN
  /\ inst[i].st = "importing" /\ ("import" \in Faults \/ inst[i].version = 0)
  /\ inst' = [inst EXCEPT ![i] = Free]
  /\ ReleaseOf(i)
  /\ settleBootState(f, "failed")
  /\ ClaimEnds(inst[i].by, f)
  /\ ImportSettled
  /\ UNCHANGED <<sharing, disk, handles, known, watch, stopped>>

ImportEnds(i) ==
  LET f == inst[i].fn IN
  /\ inst[i].st = "importing" /\ inst[i].version > 0
  /\ Register(i, f)
  /\ handles' = [handles EXCEPT ![f] = i]
  /\ known' = known \cup {f}
  /\ settleBootState(f, "ready")
  /\ ClaimEnds(inst[i].by, f)
  /\ ImportSettled
  /\ UNCHANGED <<sharing, disk, watch, shareds, stopped>>

-----------------------------------------------------------------------------
(* reload() *)

forgetBootState(gone, b) == [f \in Functions |-> IF f \in gone THEN "unknown" ELSE b[f]]

\* Mutant: a spawn under way is taken for good enough.
RespawnedIdle(c) == {f \in want[c] \cap present : boot[f] # "loading"}

Respawned(c) == want[c] \cap present

\* Discovery, then in one go: names without an entry go, the others get a new claim
\* that supersedes one not started.
Reload(c) ==
  LET gone == {f \in want[c] \ present : handles[f] # None}
      fresh == Respawned(c) IN
  /\ phase[c] = "discover"
  /\ phase' = [phase EXCEPT ![c] = "reload"]
  /\ inst' = [i \in Instances |-> IF \E f \in gone : handles[f] = i THEN Retired(i) ELSE inst[i]]
  /\ handles' = [f \in Functions |-> IF f \in gone THEN None ELSE handles[f]]
  /\ known' = known \ gone
  /\ boot' = [f \in Functions |-> IF f \in fresh THEN "queued" ELSE forgetBootState(gone, boot)[f]]
  /\ req' = [r \in Requests |-> IF Waits(r) /\ req[r].fn \in gone THEN [req[r] EXCEPT !.told = "failed"] ELSE req[r]]
  /\ pendingClaim' = [f \in Functions |-> IF f \in fresh THEN c ELSE IF f \in gone THEN None ELSE pendingClaim[f]]
  /\ claim' = [claim EXCEPT ![c] = [f \in Functions |-> IF f \in fresh THEN "pending" ELSE "none"]]
  /\ UNCHANGED <<sharing, disk, lane, chain, importQ, prepared, want, watch, shareds, stopped>>

\* Mutant: the debouncer's finally block does not re-arm the timer.
FlushEndsForgetting(c) == UNCHANGED <<armed, envArmed>>

\* The debouncers' finally blocks: what came in meanwhile gets a timer.
FlushEnds(c) ==
  /\ armed' = (armed \/ (c = Hmr /\ pending # {}))
  /\ envArmed' = (envArmed \/ (c = Env /\ envPending))

\* Every claim of the call has ended or was superseded.
ReloadEnds(c) ==
  /\ phase[c] = "reload"
  /\ \A f \in Functions : claim[c][f] = "none" \/ (claim[c][f] = "pending" /\ pendingClaim[f] # c)
  /\ phase' = [phase EXCEPT ![c] = "idle"]
  /\ want' = [want EXCEPT ![c] = Functions]
  /\ claim' = [claim EXCEPT ![c] = [f \in Functions |-> "none"]]
  /\ FlushEnds(c)
  /\ UNCHANGED <<sharing, disk, handles, known, boot, inst, pendingClaim, lane, chain, importQ, prepared,
                 pending, secrets, env, envPending, events, shareds, req, stopped>>

-----------------------------------------------------------------------------
(* The hot reloader and the env reloader *)

Event == ~stopped /\ events < MaxEvents /\ events' = events + 1

\* push: the leading edge arms the timer once per burst, and not during a flush.
Push(path) ==
  /\ pending' = pending \cup {path}
  /\ armed' = (armed \/ (path \notin pending /\ phase[Hmr] = "idle"))

\* A function is written, created again or deleted.
Edit(f) ==
  /\ Event
  /\ version' = [version EXCEPT ![f] = @ + 1]
  /\ \/ present' = present \cup {f}
     \/ present' = present \ {f} /\ f \in present
  /\ Push(f)
  /\ UNCHANGED <<sharing, handles, known, boot, inst, claims, importQ, envs, shareds, req, stopped>>

EditShared ==
  /\ Event
  /\ Push(Shared)
  /\ UNCHANGED <<sharing, disk, handles, known, boot, inst, claims, importQ, envs, shareds, req, stopped>>

\* flush: the batch is taken; want holds it while its files are read.
Flush ==
  /\ armed /\ armed' = FALSE
  /\ IF phase[Hmr] = "idle" /\ pending # {}
     THEN /\ phase' = [phase EXCEPT ![Hmr] = "flush"]
          /\ want' = [want EXCEPT ![Hmr] = pending]
          /\ pending' = {}
     ELSE UNCHANGED <<phase, want, pending>>
  /\ UNCHANGED <<sharing, disk, handles, known, boot, inst, pendingClaim, claim, lane, chain, prepared, importQ,
                 envs, events, shareds, req, stopped>>

\* Shared code re-evaluates before its dependents reload; names that are neither
\* loaded nor on disk are dropped.
Affected ==
  LET batch == want[Hmr]
      fs == (batch \cup IF Shared \in batch THEN Dependents ELSE {})
              \cap {f \in Functions : handles[f] # None \/ f \in present} IN
  /\ phase[Hmr] = "flush"
  /\ IF Shared \in batch THEN Bump ELSE UNCHANGED shareds
  /\ want' = [want EXCEPT ![Hmr] = IF fs = {} THEN Functions ELSE fs]
  /\ IF fs = {}
     THEN phase' = [phase EXCEPT ![Hmr] = "idle"] /\ FlushEnds(Hmr)
     ELSE phase' = [phase EXCEPT ![Hmr] = "discover"] /\ UNCHANGED <<armed, envArmed>>
  /\ UNCHANGED <<sharing, disk, handles, known, boot, inst, pendingClaim, claim, lane, chain, prepared, importQ,
                 pending, secrets, env, envPending, events, req, stopped>>

\* schedule: the leading edge, and no timer while a flush is running.
EnvEdit ==
  /\ Event
  /\ \E n \in EnvChanges : secrets' = secrets + n
  /\ envPending' = TRUE
  /\ envArmed' = (envArmed \/ phase[Env] = "idle")
  /\ UNCHANGED <<sharing, disk, handles, known, boot, inst, claims, importQ, hmr, env, shareds, req, stopped>>

\* flush: the files are applied to process.env; a change reloads every function.
EnvFlush ==
  /\ envArmed /\ envArmed' = FALSE /\ envPending' = FALSE
  /\ env' = secrets
  /\ phase' = [phase EXCEPT ![Env] = IF envPending /\ secrets # env THEN "discover" ELSE @]
  /\ UNCHANGED <<sharing, disk, handles, known, boot, inst, pendingClaim, claim, lane, chain, prepared, want, importQ,
                 hmr, secrets, events, shareds, req, stopped>>

-----------------------------------------------------------------------------
(* Requests *)

Answer(r) == req' = [req EXCEPT ![r] = NoRequest]

\* The handle is called: a disposed graph refuses.
Dispatch(r, f, i, stale) == req' = [req EXCEPT ![r] =
  [phase |-> IF i # None /\ inst[i].fn = f /\ Live(i) THEN "run" ELSE "refused", fn |-> f, inst |-> i,
   late |-> i # None /\ inst[i].st # "live", told |-> "", stale |-> stale]]

\* HMR freshness: while a reload of the function is pending or in flight, wait for it.
Freshness(r, f, i) ==
  /\ Prioritize(f)
  /\ IF boot[f] \in {"queued", "loading"}
     THEN req' = [req EXCEPT ![r] = [NoRequest EXCEPT !.phase = "fresh", !.fn = f, !.inst = i]]
     ELSE Dispatch(r, f, i, FALSE)

\* Whether the registry has a handle or a candidate: otherwise 404 at once.
has(f) == f \in known

Arrive(r, f) ==
  /\ ~stopped /\ req[r].phase = "idle" /\ has(f)
  /\ IF handles[f] # None THEN Freshness(r, f, handles[f])
     ELSE /\ boot[f] \in {"queued", "loading"}      \* otherwise 503 or 404 at once
          /\ Prioritize(f)
          /\ req' = [req EXCEPT ![r] = [NoRequest EXCEPT !.phase = "warm", !.fn = f]]
  /\ UNCHANGED <<sharing, disk, handles, known, inst, importQ, prepared, phase, want, watch, shareds, stopped>>

WaitTimeout(r) ==
  /\ ToldFirst /\ Waits(r)
  /\ req' = [req EXCEPT ![r].told = "timeout"]
  /\ UNCHANGED <<sharing, disk, handles, known, boot, inst, claims, importQ, watch, shareds, stopped>>

\* The wait is over: warming up is answered 503 unless the function is ready now; a
\* request that waited for fresh code falls back to the graph it had found.
Resume(r) ==
  LET f == req[r].fn
      now == handles[f] IN
  /\ req[r].told # ""
  /\ IF req[r].phase = "warm"
     THEN IF req[r].told = "ready" /\ now # None THEN Freshness(r, f, now)
          ELSE Answer(r) /\ UNCHANGED <<pendingClaim, boot, claim, chain, lane>>
     ELSE /\ IF req[r].told = "ready" THEN Dispatch(r, f, IF now # None THEN now ELSE req[r].inst, FALSE)
             ELSE Dispatch(r, f, req[r].inst, TRUE)
          /\ UNCHANGED <<pendingClaim, boot, claim, chain, lane>>
  /\ UNCHANGED <<sharing, disk, handles, known, inst, importQ, prepared, phase, want, watch, shareds, stopped>>

\* A draining graph that becomes idle starts to linger.
NotifyIdle(i) == inst' = IF i # None /\ inst[i].st = "draining" /\ WorksIn(i) = {r \in WorksIn(i) : req'[r].phase = "idle"}
                         THEN [inst EXCEPT ![i].st = "lingering"] ELSE inst

\* The handler answers, perhaps leaving a stream or waitUntil work behind; or the
\* request times out; or that work ends.
Progress(r) ==
  /\ req[r].phase \in {"run", "tail", "dead", "refused"}
  /\ \/ Answer(r)
     \/ req[r].phase = "run" /\ req' = [req EXCEPT ![r].phase = "tail"]
  /\ NotifyIdle(req[r].inst)
  /\ UNCHANGED <<sharing, disk, handles, known, boot, claims, importQ, watch, shareds, stopped>>

-----------------------------------------------------------------------------
\* stop(): every graph it knows is terminated; spawns in flight are not its concern.
Stop ==
  LET all == {i \in Instances : inst[i].st \in {"draining", "lingering"} \/ \E f \in Functions : handles[f] = i} IN
  /\ Event /\ stopped' = TRUE
  /\ handles' = [f \in Functions |-> None]
  /\ inst' = [i \in Instances |-> IF i \in all THEN Free ELSE inst[i]]
  /\ Release(all) /\ Cut(all)
  /\ armed' = FALSE /\ envArmed' = FALSE
  /\ UNCHANGED <<sharing, disk, known, boot, claims, importQ, pending, secrets, env, envPending>>

ClaimStep == \E c \in Callers, f \in Functions : StartClaim(c, f) \/ Spawn(c, f)

Next ==
  \/ \E f \in Functions : Edit(f)
  \/ EditShared \/ EnvEdit \/ EnvFlush
  \/ Flush \/ Affected \/ Prepared
  \/ \E c \in Callers : Reload(c) \/ ReloadEnds(c)
  \/ ClaimStep
  \/ \E i \in Instances : ImportBegins(i) \/ ImportEnds(i) \/ ImportFails(i) \/ Dispose(i)
  \/ \E r \in Requests : WaitTimeout(r) \/ Resume(r) \/ Progress(r) \/ \E f \in Functions : Arrive(r, f)
  \/ Stop

Spec == Init /\ [][Next]_vars

\* Timers fire, awaited I/O completes, an import ends, a drained graph is disposed, a
\* request is answered or times out.  Nobody has to edit anything or to send requests.
\* Of the actions under one WF at most one is enabled at a time.
FairSpec == Spec
  /\ WF_vars(Flush) /\ WF_vars(EnvFlush) /\ WF_vars(Affected) /\ WF_vars(Prepared)
  /\ \A c \in Callers :
       /\ WF_vars(Reload(c) \/ ReloadEnds(c))
       /\ \A f \in Functions : WF_vars(StartClaim(c, f) \/ Spawn(c, f))
  /\ \A i \in Instances : WF_vars(ImportBegins(i) \/ ImportEnds(i) \/ ImportFails(i) \/ Dispose(i))
  /\ \A r \in Requests : WF_vars(WaitTimeout(r) \/ Resume(r) \/ Progress(r))

-----------------------------------------------------------------------------
TypeOK ==
  /\ sharing \in Modes /\ stopped \in BOOLEAN /\ {prepared, armed, envPending, envArmed} \subseteq BOOLEAN
  /\ secrets \in Generations /\ env \in 1..secrets
  /\ version \in [Functions -> Generations] /\ present \subseteq Functions /\ known \subseteq Functions
  /\ handles \in [Functions -> Instances \cup {None}]
  /\ boot \in [Functions -> {"unknown", "queued", "loading", "ready", "failed"}]
  /\ inst \in [Instances -> GraphType]
  /\ \A i \in Instances : inst[i].gens \subseteq 1..gen /\ inst[i].pin \in 0..gen
  /\ pendingClaim \in [Functions -> Callers \cup {None}]
  /\ claim \in [Callers -> [Functions -> {"none", "pending", "prepare", "chain", "import"}]]
  /\ chain \in [Functions -> Seq(Callers)] /\ importQ \in Seq(Instances) /\ lane \subseteq Callers \X Functions
  /\ phase \in [Callers -> {"idle", "flush", "discover", "reload"}]
  /\ want \in [Callers -> SUBSET (Functions \cup {Shared})]
  /\ pending \subseteq Functions \cup {Shared} /\ events \in 0..MaxEvents
  /\ gen \in Generations /\ retired \subseteq 1..(gen - 1)
  /\ refs \in [Generations -> Nat] /\ req \in [Requests -> RequestType]

(* What a boot state tells the dispatcher is so: a ready function has a graph, a
   queued one can be pulled forward, a loading one is being spawned.  Otherwise a
   request waits for nothing, or is told 404 about a function that is there. *)
BootStatesMean ==
  ~stopped => \A f \in Functions :
    /\ boot[f] = "ready" => handles[f] # None
    /\ boot[f] = "queued" => pendingClaim[f] # None
    /\ boot[f] = "loading" => \E c \in Callers : claim[c][f] \in {"prepare", "chain", "import"}

(* Nobody waits for a function whose spawn has ended or that is gone. *)
WaitersAreTold == \A r \in Requests : Waits(r) => boot[req[r].fn] \in {"queued", "loading"}

(* Until stop() every graph is on its way in, serves its function, or drains: none
   is left behind alive by reloads that overlap. *)
GraphsTracked ==
  ~stopped => \A i \in Instances : inst[i].st = "live" => handles[inst[i].fn] = i

(* The host's tables say what is so: boot states, handles and the graphs that live. *)
TablesAreTrue == TypeOK /\ BootStatesMean /\ GraphsTracked

(* References to generations of shared dependencies are exact, and a generation that
   was superseded lives exactly as long as it has some. *)
ReferencesExact ==
  \A g \in Generations :
    /\ refs[g] = Cardinality({i \in Instances : Live(i) /\ inst[i].pin = g})
    /\ g < gen => (g \in retired <=> refs[g] > 0)

(* A superseded graph is given up early only when what it had in flight is finished,
   handlers, streams and background work alike. *)
LingerIsIdle ==
  \A i \in Instances : inst[i].st = "lingering" => \A r \in WorksIn(i) : req[r].late

(* A request is never sent to a graph that is already disposed, though reloads replace
   and remove graphs while it waits. *)
NeverUnloaded == \A r \in Requests : req[r].phase = "refused" => stopped

(* Requests survive reloads: those that wait are told, those in a graph are not cut. *)
RequestsSurviveReloads == WaitersAreTold /\ LingerIsIdle /\ NeverUnloaded

(* Once nothing is pending or under way, what serves is what was written last, loaded
   with the environment that was written last, unless it does not load: no edit of a
   function or of an env file was lost between overlapping reloads. *)
QuietServesNewest ==
  ~stopped /\ pending = {} /\ ~envPending /\ (\A c \in Callers : phase[c] = "idle")
    => \A f \in present : boot[f] = "failed" \/
         (handles[f] # None /\ inst[handles[f]].version = version[f] /\ inst[handles[f]].env = secrets)

(* No edit is lost on its way: its version, or a later one, comes to serve, or failed to
   load, or the function is gone. *)
EditsGetServed ==
  \A f \in Functions : \A n \in 2..(MaxEvents + 1) :
    f \in pending /\ version[f] = n ~>
      \/ stopped \/ version[f] > n \/ boot[f] = "failed" \/ f \notin present
      \/ handles[f] # None /\ inst[handles[f]].version = n
=============================================================================
