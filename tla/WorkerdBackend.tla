---------------------------- MODULE WorkerdBackend ----------------------------
(***************************************************************************)
(* The workerd backend of the gateway (src/backends/workerd/backend.ts):   *)
(* the current workerd child, hot reloads that boot a successor on the     *)
(* other port slot and swap it in, recovery from crashes, shutdown; who    *)
(* asks for reloads: the watcher of the function sources (hot-reloader.ts),*)
(* env watcher and memory watchdog, and the runtime editor of prebuilt     *)
(* mode; what the gateway is told of the result (server.ts 1252-1274); and *)
(* the one runtime in the gateway itself that evaluates the shared module,  *)
(* which the functions' bundles call (shared-runtime.ts, bundler/core.ts).  *)
(*                                                                         *)
(* Code runs to completion between two awaits, so an action is what        *)
(* happens from one await to the next.  Simplifications: the content of a  *)
(* function is a version number; a child is its port slot and the versions *)
(* it loaded, 0 for a function it does not have; in prebuilt mode the set  *)
(* of functions is fixed (Overrides adds and removes them); start() has    *)
(* just returned in the initial state (the server awaits it before         *)
(* anything may reload); there is at most one shared module, and it is not *)
(* deleted again.                                                          *)
(***************************************************************************)
EXTENDS Naturals, FiniteSets

CONSTANTS
  Functions,
  Children,          \* identities for workerd children, reused once free
  Watchers,          \* the hot reloader, if it is on
  Reloaders,         \* who reloads everything: env watcher, memory watchdog
  Editors,           \* sessions of the runtime editor
  Initial,           \* at start: sets of functions, each with 0 or 1 shared modules
  Saves,             \* the sets of functions one save may change
  Modes,             \* whether it may run in prebuilt mode: TRUE, FALSE
  Faults,            \* what may fail: "bundle", "shared", "ports", "boot"
  MAX_CRASHES,       \* crashes within CRASH_WINDOW_MS that are recovered from
  MaxSaves,          \* bound on the saves and deletions per function
  MaxShared,         \* bound on the saves of the shared module
  MaxRequests,       \* bound on the reloads Reloaders ask for
  MaxIncidents,      \* bound on these and the crashes together
  None

Callers == Watchers \cup Reloaders \cup Editors

ASSUME ModeAssumption == Modes \subseteq BOOLEAN /\ \A w, x \in Watchers : w = x
ASSUME DataAssumption ==
  /\ Saves \subseteq SUBSET Functions /\ Initial \subseteq (SUBSET Functions) \X (0..MaxShared)
  /\ Faults \subseteq {"bundle", "shared", "ports", "boot"}
\* One identity for the child that serves, one for its successor.
ASSUME ChildrenAssumption == \E p, q \in Children : p # q
ASSUME BoundsAssumption == {MAX_CRASHES, MaxSaves, MaxShared, MaxRequests, MaxIncidents} \subseteq Nat

Versions == [Functions -> Nat]

\* A child, a caller's request and a reload, of a shared module with the given versions.
ChildType(shared) == [status : {"none", "booting", "up", "stopping"}, slot : 0..1,
                      loaded : Versions, shared : shared]
CallType == [status : {"idle", "saved", "waiting", "ok", "failed"}, want : SUBSET Functions,
             at : Versions, joined : BOOLEAN]
ReloadType(shared) == [phase : {"bundle", "config", "spawn", "boot", "drain"}, want : SUBSET Functions,
                       from : Versions, shared : shared, new : Children \cup {None},
                       old : Children \cup {None}]

ASSUME NoneAssumption == None \notin Children /\ None \notin ReloadType(Nat)

VARIABLES
  prebuilt,    \* prebuilt mode: sources are overlays, every boot bundles them all
  present,     \* the functions there are in the functions directory
  source,      \* number of times every function was saved or deleted
  sharedSource, \* number of times the shared module was saved, 0 without one
  bundle,      \* version of its bundle in the cache directory, 0 without one
  bundler,     \* none yet, or whether it replaces the shared module by calls
  sharedRuntime, \* the version of the module it evaluated, 0 if it does not run
  child,       \* workerd children: [status, slot, loaded, shared]
  current,     \* workerdProcess
  names,       \* the names it was booted with: names, routesByName, manifests
  known,       \* the names the gateway lets through: workerdNames, registry, supervisor
  generation,
  reload,      \* reloadInFlight and where its code stands, or None
  crashes,     \* crashTimestamps.length
  crashed,     \* crashes so far in this run
  shutdown,    \* of the gateway: phase, and the child that stop() waits for
  calls,       \* callers of doReload: what they asked for, what became of it
  requests,    \* reloads the Reloaders asked for
  pending,     \* the debouncer's pendingFunctions
  armed        \* the debouncer's timer

hmrVars  == <<pending, armed>>
tree == <<prebuilt, present, source, sharedSource>>
bundles == <<bundle, bundler, sharedRuntime>>
vars == <<tree, bundles, child, current, names, known, generation, reload, crashes, crashed,
          shutdown, calls, requests, hmrVars>>

Gone == [status |-> "none", slot |-> 0, loaded |-> [f \in Functions |-> 0], shared |-> 0]
Alive(p) == child[p] # Gone
\* Identities mean nothing, so one that is free stands for all of them.
Fresh(used) == CHOOSE p \in Children : p \notin used
OnDisk == [f \in Functions |-> IF f \in present THEN source[f] ELSE 0]
Reload(want) == [phase |-> "bundle", want |-> want, from |-> OnDisk, shared |-> sharedSource, new |-> None, old |-> None]
Call(s, want) == [status |-> s, want |-> want, at |-> OnDisk, joined |-> FALSE]

\* The modules it replaces are those found when it is created.
BundlerFor(shared) == IF shared > 0 THEN "calls" ELSE "plain"

\* The first boot is over; without any function it has made nothing.
Init ==
  /\ prebuilt \in Modes
  /\ \E i \in Initial : present = (IF prebuilt THEN Functions ELSE i[1]) /\ sharedSource = i[2]
  /\ source = [f \in Functions |-> 1] /\ bundle = OnDisk
  /\ bundler = IF present = {} THEN "none" ELSE BundlerFor(sharedSource)
  /\ sharedRuntime = IF present = {} THEN 0 ELSE sharedSource
  /\ names = present /\ known = present
  /\ current = IF present = {} THEN None ELSE Fresh({})
  /\ child = [q \in Children |->
       IF q = current THEN [status |-> "up", slot |-> 0, loaded |-> bundle, shared |-> sharedRuntime] ELSE Gone]
  /\ generation = 0
  /\ reload = None
  /\ crashes = 0 /\ crashed = 0
  /\ shutdown = [phase |-> "no", target |-> None]
  /\ calls = [c \in Callers |-> Call("idle", {})]
  /\ requests = 0
  /\ pending = {} /\ armed = FALSE

\* The watchers and the watchdog are stopped before the backend is.
watching == shutdown.phase = "no"
stopping == shutdown.phase \in {"waiting", "done"}

-----------------------------------------------------------------------------
(* doReload: denied while stopping; joins the reload in flight; else starts one *)

StartReload(want) == reload' = IF stopping \/ reload # None THEN reload ELSE Reload(want)

DoReload(c, want) ==
  /\ StartReload(want)
  /\ calls' = [calls EXCEPT ![c] =
       [Call(IF stopping THEN "failed" ELSE "waiting", want) EXCEPT !.joined = reload # None]]

\* Mutants: those who joined the reload are not told; the debouncer's finally
\* block does not look for changes that arrived while it was flushing.
SettleForStarter(outcome) ==
  /\ reload' = None
  /\ calls' = [c \in Callers |->
       IF calls[c].status = "waiting" /\ ~calls[c].joined THEN [calls[c] EXCEPT !.status = outcome] ELSE calls[c]]
  /\ armed' = (armed \/ (pending # {} /\ \E w \in Watchers : calls[w].status = "waiting"))
  /\ known' = IF outcome = "ok" THEN names' ELSE known
  /\ UNCHANGED pending
SettleForgetting(outcome) ==
  /\ reload' = None
  /\ calls' = [c \in Callers |->
       IF calls[c].status = "waiting" THEN [calls[c] EXCEPT !.status = outcome] ELSE calls[c]]
  /\ known' = IF outcome = "ok" THEN names' ELSE known
  /\ UNCHANGED hmrVars

\* Mutant: the gateway does not take out names that are gone.
BridgedAdding == known \cup names'

\* onReloaded: registry, supervisor and workerdNames follow the manifests.
Bridged == names'

\* The reload's promise settles: a success is bridged to the gateway, the slot is
\* cleared, everybody who waits gets the same result, and the debouncer schedules
\* what was saved meanwhile, also when it was stopped.
Settle(outcome) ==
  /\ reload' = None
  /\ calls' = [c \in Callers |->
       IF calls[c].status = "waiting" THEN [calls[c] EXCEPT !.status = outcome] ELSE calls[c]]
  /\ armed' = (armed \/ (pending # {} /\ \E w \in Watchers : calls[w].status = "waiting"))
  /\ known' = IF outcome = "ok" THEN Bridged ELSE known
  /\ UNCHANGED pending

-----------------------------------------------------------------------------
(* Who asks *)

\* The watcher pushes names into the debouncer, which arms its timer for new ones.
Push(fs) ==
  /\ pending' = IF watching THEN pending \cup fs ELSE pending
  /\ armed' = (armed \/ (watching /\ ~(fs \subseteq pending)))

\* A function's source is written, the first time or again, or one that many share.
Save(fs) ==
  /\ ~prebuilt /\ \A f \in fs : source[f] <= MaxSaves
  /\ source' = [f \in Functions |-> IF f \in fs THEN source[f] + 1 ELSE source[f]]
  /\ present' = present \cup fs
  /\ Push(fs)
  /\ UNCHANGED <<prebuilt, sharedSource, bundles, child, current, names, known, generation, reload, crashes, crashed, shutdown, calls, requests>>

\* A path that belongs to no function: everything is to be reloaded.
SaveShared ==
  /\ ~prebuilt /\ sharedSource < MaxShared /\ sharedSource' = sharedSource + 1
  /\ Push(Functions)
  /\ UNCHANGED <<prebuilt, present, source, bundles, child, current, names, known, generation, reload, crashes, crashed, shutdown, calls, requests>>

DeleteFunction(f) ==
  /\ ~prebuilt /\ f \in present /\ source[f] <= MaxSaves
  /\ present' = present \ {f} /\ source' = [source EXCEPT ![f] = @ + 1]
  /\ Push({f})
  /\ UNCHANGED <<prebuilt, sharedSource, bundles, child, current, names, known, generation, reload, crashes, crashed, shutdown, calls, requests>>

\* flush: nothing while a flush is running, else the pending set is taken.
Flush(w) ==
  /\ armed /\ armed' = FALSE
  /\ \/ /\ calls[w].status = "waiting" \/ pending = {}
        /\ UNCHANGED <<reload, calls, pending>>
     \/ /\ calls[w].status # "waiting" /\ pending # {}
        /\ DoReload(w, pending)
        /\ pending' = {}
  /\ UNCHANGED <<tree, bundles, child, current, names, known, generation, crashes, crashed, shutdown, requests>>

\* An env file changed, or the watchdog tripped: both wait for their last reload.
ReloadAll(c) ==
  /\ ~prebuilt /\ watching /\ calls[c].status # "waiting" /\ requests < MaxRequests
  /\ crashed + requests < MaxIncidents
  /\ requests' = requests + 1
  /\ DoReload(c, Functions)
  /\ UNCHANGED <<tree, bundles, child, current, names, known, generation, crashes, crashed, shutdown, hmrVars>>

\* saveEditableSource: the overlay is written, then the backend reloads.
EditorSave(c, f) ==
  /\ prebuilt /\ calls[c].status \notin {"waiting", "saved"} /\ source[f] <= MaxSaves
  /\ source' = [source EXCEPT ![f] = @ + 1]
  /\ calls' = [calls EXCEPT ![c] = [Call("saved", {f}) EXCEPT !.at = source']]
  /\ UNCHANGED <<prebuilt, present, sharedSource, bundles, child, current, names, known, generation, reload, crashes, crashed, shutdown, requests, hmrVars>>

EditorReload(c) ==
  /\ calls[c].status = "saved"
  /\ DoReload(c, calls[c].want)
  /\ UNCHANGED <<tree, bundles, child, current, names, known, generation, crashes, crashed, shutdown, requests, hmrVars>>

-----------------------------------------------------------------------------
(* The reload in flight: boot(), then the swap *)

InPhase(s) == reload # None /\ reload.phase = s
Goto(s) == reload' = [reload EXCEPT !.phase = s]

nextSlot == (generation + 1) % 2

\* What discovery found when the reload began.
Discovered == {f \in Functions : reload.from[f] > 0}

\* Mutant: a bundle that is on disk is taken for the function's own.
RebundledMissing == {f \in Discovered : bundle[f] = 0}

\* Prebuilt mode bundles every overlay at every boot, live mode the wanted ones.
Rebundled == IF prebuilt THEN Discovered ELSE Discovered \cap reload.want

\* Sources are read one by one while the reload bundles: a save meanwhile may be
\* seen, or not, or in part.
Bundled(fs) ==
  \E read \in [Functions -> 0..(MaxSaves + 1)] :
    /\ \A f \in Functions : IF f \in fs THEN read[f] \in reload.from[f]..(IF f \in present THEN source[f] ELSE reload.from[f])
                                        ELSE read[f] = bundle[f]
    /\ bundle' = read

\* The bundler is made once, and stays when the bundling fails.
CreateBundler == bundler' = IF bundler = "none" /\ ~prebuilt /\ Discovered # {} THEN BundlerFor(reload.shared) ELSE bundler

\* Bundling. A function that does not compile, or was deleted, fails the reload, as
\* may a bundler that stop() has disposed; other bundles may be written already.
\* Without any function there is nothing to boot.
Bundle ==
  /\ InPhase("bundle")
  /\ UNCHANGED <<tree, child, current, names, generation, crashes, crashed, shutdown, requests, sharedRuntime>>
  /\ CreateBundler
  /\ \/ /\ Bundled(Rebundled)
        /\ \E v \in reload.shared..sharedSource :
             reload' = [reload EXCEPT !.phase = IF Discovered = {} THEN "boot" ELSE "config",
                                      !.shared = IF @ = 0 \/ sharedRuntime # 0 THEN @ ELSE v]
        /\ UNCHANGED <<calls, known, hmrVars>>
     \/ /\ "bundle" \in Faults \/ shutdown.phase = "done" \/ ~(Rebundled \subseteq present)
        /\ Rebundled # {} \/ (Discovered # {} /\ reload.shared > 0)
        /\ \E fs \in SUBSET Rebundled : Bundled(fs)
        /\ Settle("failed")

\* The shared module's code is evaluated the first time it is there, and never again;
\* it may throw.
StartShared == sharedRuntime = 0 /\ reload.shared > 0

\* Manifests and the config are read and written.
Configure ==
  /\ InPhase("config")
  /\ UNCHANGED <<tree, bundle, bundler, child, current, names, generation, crashes, crashed, shutdown, requests>>
  /\ \/ /\ sharedRuntime' = IF StartShared THEN reload.shared ELSE sharedRuntime
        /\ Goto("spawn")
        /\ UNCHANGED <<calls, known, hmrVars>>
     \/ /\ "shared" \in Faults /\ StartShared
        /\ Settle("failed")
        /\ UNCHANGED sharedRuntime

\* Port preflight on the other slot, then the child is spawned: it reads its
\* config and the bundles from the cache directory.
Spawn ==
  /\ InPhase("spawn")
  /\ UNCHANGED <<tree, bundles, current, names, generation, crashes, crashed, shutdown, requests>>
  /\ \/ /\ \A p \in Children : Alive(p) => child[p].slot # nextSlot
        /\ LET p == Fresh({q \in Children : Alive(q)} \cup {current}) IN
             /\ child' = [child EXCEPT ![p] =
                  [status |-> "booting", slot |-> nextSlot,
                   loaded |-> [f \in Functions |-> IF f \in Discovered THEN bundle[f] ELSE 0],
                   shared |-> sharedRuntime]]
             /\ reload' = [reload EXCEPT !.phase = "boot", !.new = p]
        /\ UNCHANGED <<calls, known, hmrVars>>
     \/ /\ "ports" \in Faults \/ \E p \in Children : Alive(p) /\ child[p].slot = nextSlot
        /\ Settle("failed")
        /\ UNCHANGED child

\* A function that was never bundled has no file for the config to embed.
Loadable == \A f \in Discovered : child[reload.new].loaded[f] > 0

\* Mutant: what the boot stands on is torn down with it, as it is when the first boot fails.
BootFailsCleaning ==
  /\ InPhase("boot") /\ reload.new # None
  /\ "boot" \in Faults \/ ~Loadable
  /\ child' = [child EXCEPT ![reload.new] = Gone]
  /\ bundler' = "none" /\ sharedRuntime' = 0
  /\ UNCHANGED <<tree, bundle, current, names, generation, crashes, crashed, shutdown, requests>>
  /\ Settle("failed")

\* The child exits, or its sockets are not ready in time: it is killed.
BootFails ==
  /\ InPhase("boot") /\ reload.new # None
  /\ "boot" \in Faults \/ ~Loadable
  /\ child' = [child EXCEPT ![reload.new] = Gone]
  /\ UNCHANGED <<tree, bundles, current, names, generation, crashes, crashed, shutdown, requests>>
  /\ Settle("failed")

Up(p) == [q \in Children |-> IF q = p THEN [child[q] EXCEPT !.status = "up"] ELSE child[q]]

\* Mutant: the predecessor's exit is not awaited.
SwapNoWait ==
  /\ InPhase("boot") /\ (reload.new # None => Loadable)
  /\ child' = [p \in Children |->
       [Up(reload.new)[p] EXCEPT !.status = IF p = current /\ @ = "up" THEN "stopping" ELSE @]]
  /\ current' = reload.new /\ names' = Discovered
  /\ generation' = generation + 1
  /\ UNCHANGED <<tree, bundles, crashes, crashed, shutdown, requests>>
  /\ Settle("ok")

\* Every socket accepts: new dispatches go to the new child, and the old one is
\* asked to stop; without one the reload is done.
Swap ==
  /\ InPhase("boot") /\ (reload.new # None => Loadable)
  /\ current' = reload.new /\ names' = Discovered
  /\ generation' = generation + 1
  /\ UNCHANGED <<tree, bundles, crashes, crashed, shutdown, requests>>
  /\ LET old == current IN
     \/ /\ old # None /\ Alive(old)
        /\ child' = [Up(reload.new) EXCEPT ![old].status = "stopping"]
        /\ reload' = [reload EXCEPT !.phase = "drain", !.old = old]
        /\ UNCHANGED <<calls, known, hmrVars>>
     \/ /\ old # None => ~Alive(old)
        /\ child' = Up(reload.new)
        /\ Settle("ok")

\* The predecessor is gone.
Drained ==
  /\ InPhase("drain") /\ ~Alive(reload.old)
  /\ UNCHANGED <<tree, bundles, child, current, names, generation, crashes, crashed, shutdown, requests>>
  /\ Settle("ok")

-----------------------------------------------------------------------------
(* Children and shutdown *)

\* SIGTERM, or the SIGKILL after shutdownTimeoutMs. The exit was expected.
ChildExits(p) ==
  /\ child[p].status = "stopping"
  /\ child' = [child EXCEPT ![p] = Gone]
  /\ UNCHANGED <<tree, bundles, current, names, known, generation, reload, crashes, crashed, shutdown,
                 calls, requests, hmrVars>>

\* A child dies. Only the current one matters: dispatch answers 503 from here on,
\* crashes older than the window age out, and unless there are too many the
\* handler reloads everything.
Crash(p) ==
  /\ child[p].status = "up" /\ crashed + requests < MaxIncidents
  /\ crashed' = crashed + 1
  /\ child' = [child EXCEPT ![p] = Gone]
  /\ \/ /\ stopping \/ current # p
        /\ UNCHANGED <<current, crashes, reload>>
     \/ /\ ~stopping /\ current = p
        /\ current' = None
        /\ \E recent \in 0..crashes : crashes' = recent + 1
        /\ IF crashes' <= MAX_CRASHES THEN StartReload(Functions) ELSE UNCHANGED reload
  /\ UNCHANGED <<tree, bundles, names, known, generation, shutdown, calls, requests, hmrVars>>

\* The gateway shuts down: no watcher asks for anything any more ...
StopWatchers ==
  /\ watching
  /\ shutdown' = [shutdown EXCEPT !.phase = "draining"] /\ armed' = FALSE
  /\ UNCHANGED <<tree, bundles, child, current, names, known, generation, reload, crashes, crashed, calls, requests, pending>>

\* ... the requests have drained, stop() asks the current child to stop and waits for it ...
Stop ==
  /\ shutdown.phase = "draining"
  /\ shutdown' = [phase |-> "waiting", target |-> current]
  /\ child' = [p \in Children |->
       IF p = current THEN [child[p] EXCEPT !.status = "stopping"] ELSE child[p]]
  /\ UNCHANGED <<tree, bundles, current, names, known, generation, reload, crashes, crashed, calls, requests, hmrVars>>

\* ... then disposes shared runtime and bundler and forgets the current child.
Stopped ==
  /\ shutdown.phase = "waiting"
  /\ shutdown.target # None => ~Alive(shutdown.target)
  /\ shutdown' = [shutdown EXCEPT !.phase = "done"]
  /\ current' = None /\ bundler' = "none" /\ sharedRuntime' = 0
  /\ UNCHANGED <<tree, bundle, child, names, known, generation, reload, crashes, crashed, calls, requests, hmrVars>>

AllDone == shutdown.phase = "done" /\ reload = None /\ UNCHANGED vars

ReloadStep == Bundle \/ Configure \/ Spawn \/ BootFails \/ Swap \/ Drained

Next ==
  \/ \E fs \in Saves : Save(fs)
  \/ SaveShared \/ \E f \in Functions : DeleteFunction(f)
  \/ \E w \in Watchers : Flush(w)
  \/ \E c \in Reloaders : ReloadAll(c)
  \/ \E c \in Editors : EditorReload(c) \/ \E f \in Functions : EditorSave(c, f)
  \/ ReloadStep
  \/ \E p \in Children : ChildExits(p) \/ Crash(p)
  \/ StopWatchers \/ Stop \/ Stopped \/ AllDone

Spec == Init /\ [][Next]_vars

\* Timers fire, awaited I/O completes, the boot of a child succeeds or times out,
\* a child that is asked to stop is killed in the end.
FairSpec == Spec
  /\ WF_vars(ReloadStep)
  /\ \A c \in Callers : /\ WF_vars(c \in Watchers /\ Flush(c))
                        /\ WF_vars(c \in Editors /\ EditorReload(c))
  /\ \A p \in Children : WF_vars(ChildExits(p))
  /\ WF_vars(Stopped)

-----------------------------------------------------------------------------
TypeOK ==
  /\ prebuilt \in Modes /\ {present, names, known} \subseteq SUBSET Functions
  /\ source \in Versions /\ bundle \in Versions
  /\ child \in [Children -> ChildType(0..sharedSource)]
  /\ bundler \in {"none", "plain", "calls"} /\ {sharedSource, sharedRuntime} \subseteq 0..MaxShared
  /\ current \in Children \cup {None}
  /\ generation \in Nat
  /\ reload \in {None} \cup ReloadType(0..sharedSource)
  /\ crashes \in Nat /\ crashed \in 0..MaxIncidents
  /\ shutdown \in [phase : {"no", "draining", "waiting", "done"}, target : Children \cup {None}]
  /\ calls \in [Callers -> CallType]
  /\ requests \in 0..MaxRequests
  /\ pending \subseteq Functions /\ armed \in BOOLEAN

Serving == current # None /\ Alive(current)
Serves(p, c) == \A f \in calls[c].want :
  IF calls[c].at[f] = 0 THEN child[p].loaded[f] = 0 ELSE child[p].loaded[f] >= calls[c].at[f]
InFlight == IF reload = None THEN {} ELSE {reload.new, reload.old} \ {None}

(* Two slots are enough: when a reload comes to probe the ports of its slot,
   none of the backend's own children is still on them, however crashes, reloads
   and shutdown interleaved before.  A child found there would make the preflight
   refuse the reload, or, with killStaleWorkerd, kill it. *)
PreflightFindsNoOwnChild ==
  InPhase("spawn") => \A p \in Children : Alive(p) => child[p].slot # nextSlot

(* Until stop() is called no child is lost track of: every living child serves,
   boots for the reload in flight, or is the predecessor that reload waits for. *)
ChildrenTracked ==
  ~stopping => {p \in Children : Alive(p)} \subseteq {current} \cup InFlight

(* The backend's books on its children are right: none of its own is ever in the way
   of a reload and none runs that it does not know of. *)
ChildrenAccountedFor == TypeOK /\ PreflightFindsNoOwnChild /\ ChildrenTracked

(* The functions the gateway lets through, with their limits and breakers, are those
   that the child which serves was booted with, whatever was added, deleted, broken or
   crashed before; only while a reload waits for the predecessor does it lag behind. *)
KnownIsServed ==
  Serving /\ ~InPhase("drain") => known = {f \in Functions : child[current].loaded[f] > 0}

(* A caller whose reload succeeded, and was its own, finds what it asked for in
   the child that serves, deletions included, unless that one has crashed since. *)
ReloadServesItsEdits ==
  [][\A c \in Callers :
       calls[c].status = "waiting" /\ calls'[c].status = "ok" /\ ~calls[c].joined
         => ~Serving' \/ Serves(current, c)']_vars

(* Bundles that call the shared module find it: the child that serves them was given
   the address of the runtime that runs, whichever boots failed before and after the
   bundler was made, and though each boot may be the one that starts it. *)
SharedCallsArrive ==
  Serving /\ ~stopping /\ (bundler = "calls" \/ (prebuilt /\ sharedSource > 0)) =>
    sharedRuntime # 0 /\ child[current].shared = sharedRuntime

(* Whoever waits for a reload hears of it, whatever fails or crashes meanwhile and
   even if the backend is being stopped. *)
CallsSettle == \A c \in Callers : calls[c].status = "waiting" ~> calls[c].status # "waiting"

(* No save, creation or deletion is lost on its way to a reload, whenever it comes: it
   comes to be served, or its reload failed or joined another one, or nothing serves. *)
EditsGetServed ==
  \A f \in Functions : \A n \in 1..(MaxSaves + 1) :
    f \in pending /\ source[f] = n ~>
      \/ ~watching \/ current = None
      \/ IF f \in present THEN child[current].loaded[f] >= n ELSE child[current].loaded[f] = 0
      \/ \E w \in Watchers : calls[w].status = "failed" \/ calls[w].joined
=============================================================================
