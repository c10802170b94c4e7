-------------------------- MODULE FunctionHost_proofs --------------------------
(***************************************************************************)
(* Proofs about FunctionHost for any functions, requests, graphs and       *)
(* overlapping reloads.  They rest on who may be spawning a function: its  *)
(* chain admits one claim at a time, the claim owns at most one graph, and *)
(* a caller has claims only while its reload() runs.  That no edit is lost *)
(* (NewestInv) says where the news of an edit is at every moment: in the   *)
(* debouncer, in the batch, in a claim, or in the graph being imported.    *)
(***************************************************************************)
EXTENDS FunctionHost, FiniteSetTheorems, TLAPS

Listed(s, x) == \E k \in 1..Len(s) : s[k] = x
Spawning(i) == inst[i].st \in {"waiting", "importing"}

\* A caller has claims while its reload() runs; the one that spawns is the head of
\* the function's chain.
ClaimInv ==
  /\ \A c \in Callers, f \in Functions :
       /\ claim[c][f] # "none" => phase[c] = "reload"
       /\ claim[c][f] \in {"chain", "import"} => Listed(chain[f], c)
       /\ claim[c][f] = "import" => Head(chain[f]) = c
  /\ \A f \in Functions : pendingClaim[f] # None => claim[pendingClaim[f]][f] = "pending"

\* A reload is for functions. The env reloader always reloads everything, and its timer
\* runs only between reloads.
EnvInv ==
  /\ \A c \in Callers : phase[c] = "discover" => want[c] \subseteq Functions
  /\ want[Env] = Functions /\ (envArmed => phase[Env] = "idle")
  /\ secrets # env => envPending

\* A graph on its way in is the only one of its claim, and imports are queued; a
\* handle's graph is live and its function's.
GraphInv ==
  /\ \A i \in Instances : Spawning(i) =>
       /\ inst[i].fn \in Functions /\ inst[i].by \in Callers /\ claim[inst[i].by][inst[i].fn] = "import"
       /\ \A j \in Instances : Spawning(j) /\ inst[j].fn = inst[i].fn => j = i
       /\ sharing => Listed(importQ, i) /\ (inst[i].st = "importing" => Head(importQ) = i)
  /\ \A f \in Functions : handles[f] # None => inst[handles[f]].st = "live" /\ inst[handles[f]].fn = f
  /\ \A i \in Instances : inst[i].st = "live" => inst[i].fn \in Functions /\ handles[inst[i].fn] = i

\* Every superseded generation and every version is paid for by an event.
Owed == (IF Shared \in pending THEN 1 ELSE 0) + (IF phase[Hmr] = "flush" /\ Shared \in want[Hmr] THEN 1 ELSE 0)

EventInv ==
  /\ gen + Owed <= events + 1 /\ secrets <= events + 1
  /\ \A f \in Functions : version[f] <= events + 1

PinnedBy(g) == {i \in Instances : Live(i) /\ inst[i].pin = g}

RefsInv ==
  /\ refs = [g \in Generations |-> Cardinality(PinnedBy(g))]
  /\ \A g \in Generations : g < gen => (g \in retired <=> refs[g] > 0)

\* What will still make the newest code of a function be loaded.
Due(f) ==
  \/ f \in pending \/ (phase[Hmr] \in {"flush", "discover"} /\ f \in want[Hmr])
  \/ secrets # env \/ phase[Env] = "discover"
  \/ pendingClaim[f] # None \/ \E c \in Callers : claim[c][f] \in {"prepare", "chain"}

Newest(i) == inst[i].version = version[inst[i].fn] /\ inst[i].env = secrets

NewestInv == ~stopped =>
  /\ \A f \in present : Due(f) \/ boot[f] = "failed" \/ (handles[f] # None /\ Newest(handles[f]))
                        \/ \E i \in Instances : Spawning(i) /\ inst[i].fn = f
  /\ \A i \in Instances : inst[i].st = "importing" /\ inst[i].fn \in present => Due(inst[i].fn) \/ Newest(i)

\* A request that waits for fresh code has a graph to fall back to, which is not
\* disposed before the request has gone on.
RequestInv ==
  /\ \A r \in Requests :
       /\ req[r].told # "" => req[r].phase \in {"warm", "fresh"}
       /\ req[r].phase \in {"warm", "fresh"} => req[r].fn \in Functions
       /\ ~stopped /\ req[r].phase = "fresh" =>
            /\ req[r].told = "" => req[r].inst = handles[req[r].fn]
            /\ req[r].inst # None /\ inst[req[r].inst].fn = req[r].fn
            /\ inst[req[r].inst].st \in {"live", "draining", "lingering"}
  /\ RequestsSurviveReloads

IInv == TypeOK /\ ClaimInv /\ EnvInv /\ GraphInv /\ BootStatesMean /\ EventInv /\ RefsInv /\ NewestInv /\ RequestInv

-----------------------------------------------------------------------------
(* Which actions change what *)

USE DEF disk, claims, hmr, envs, watch, shareds

LEMMA FrameDisk ==
  ASSUME [Next]_vars
  PROVE  \/ UNCHANGED disk
         \/ \E f \in Functions : Edit(f)
  BY ZenonT(60)  DEF Next, ClaimStep, EditShared, EnvEdit, EnvFlush, Flush, Affected, Prepared, Reload, ReloadEnds,
     StartClaim, Spawn, ImportBegins, ImportEnds, ImportFails, Dispose, Arrive, WaitTimeout, Resume, Progress,
     Stop, Event, vars

LEMMA FrameHandles ==
  ASSUME [Next]_vars
  PROVE  \/ UNCHANGED <<handles, known>>
         \/ \E c \in Callers : Reload(c)
         \/ \E i \in Instances : ImportEnds(i)
         \/ Stop
  BY ZenonT(60)  DEF Next, ClaimStep, Edit, EditShared, EnvEdit, EnvFlush, Flush, Affected, Prepared, ReloadEnds,
     StartClaim, Spawn, ImportBegins, ImportFails, Dispose, Arrive, WaitTimeout, Resume, Progress, Event, vars

LEMMA FrameGraphs ==
  ASSUME [Next]_vars
  PROVE  \/ UNCHANGED inst
         \/ \E c \in Callers : Reload(c)
         \/ \E c \in Callers, f \in Functions : Spawn(c, f)
         \/ \E i \in Instances : ImportBegins(i) \/ ImportEnds(i) \/ ImportFails(i) \/ Dispose(i)
         \/ \E r \in Requests : Progress(r)
         \/ Stop
  BY DEF Next, ClaimStep, Edit, EditShared, EnvEdit, EnvFlush, Flush, Affected, Prepared, ReloadEnds,
     StartClaim, Arrive, WaitTimeout, Resume, Event, vars

LEMMA FrameClaims ==
  ASSUME [Next]_vars
  PROVE  \/ UNCHANGED <<boot, pendingClaim, claim, chain, lane>>
         \/ Prepared
         \/ \E c \in Callers : Reload(c) \/ ReloadEnds(c)
         \/ \E c \in Callers, f \in Functions : StartClaim(c, f) \/ Spawn(c, f)
         \/ \E i \in Instances : ImportEnds(i) \/ ImportFails(i)
         \/ \E r \in Requests, f \in Functions : Arrive(r, f)
         \/ \E r \in Requests : Resume(r)
  BY DEF Next, ClaimStep, Edit, EditShared, EnvEdit, EnvFlush, Flush, Affected, ImportBegins, Dispose,
     WaitTimeout, Progress, Stop, Event, vars

LEMMA FrameReloads ==
  ASSUME [Next]_vars
  PROVE  \/ UNCHANGED <<phase, want>>
         \/ Flush \/ Affected \/ EnvFlush
         \/ \E c \in Callers : Reload(c) \/ ReloadEnds(c)
  BY ZenonT(60)  DEF Next, ClaimStep, Edit, EditShared, EnvEdit, Prepared, StartClaim, Spawn, ImportBegins, ImportEnds,
     ImportFails, ClaimEnds, Dispose, Arrive, WaitTimeout, Resume, Progress, Stop, Event, vars

LEMMA FrameImports ==
  ASSUME [Next]_vars
  PROVE  \/ UNCHANGED importQ
         \/ \E c \in Callers, f \in Functions : Spawn(c, f)
         \/ \E i \in Instances : ImportEnds(i) \/ ImportFails(i)
  BY DEF Next, ClaimStep, Edit, EditShared, EnvEdit, EnvFlush, Flush, Affected, Prepared, Reload,
     ReloadEnds, StartClaim, ImportBegins, Dispose, Arrive, WaitTimeout, Resume, Progress, Stop, Event, vars

LEMMA FrameEvents ==
  ASSUME [Next]_vars
  PROVE  \/ UNCHANGED <<events, pending>>
         \/ \E f \in Functions : Edit(f)
         \/ EditShared \/ EnvEdit \/ Flush \/ Stop
  BY ZenonT(60)  DEF Next, ClaimStep, EnvFlush, Affected, Prepared, Reload, ReloadEnds, StartClaim, Spawn, ImportBegins,
     ImportEnds, ImportFails, Dispose, Arrive, WaitTimeout, Resume, Progress, Event, vars

LEMMA FrameEnvs ==
  ASSUME [Next]_vars
  PROVE  \/ UNCHANGED <<secrets, env, envPending>>
         \/ EnvEdit \/ EnvFlush
  BY ZenonT(60)  DEF Next, ClaimStep, Edit, EditShared, Flush, Affected, Prepared, Reload, ReloadEnds, StartClaim,
     Spawn, ImportBegins, ImportEnds, ImportFails, Dispose, Arrive, WaitTimeout, Resume, Progress, Stop,
     Event, vars

LEMMA FrameTimers ==
  ASSUME [Next]_vars
  PROVE  \/ UNCHANGED envArmed
         \/ EnvEdit \/ EnvFlush \/ Affected \/ Stop
         \/ \E c \in Callers : ReloadEnds(c)
  BY DEF Next, ClaimStep, Edit, EditShared, Flush, Prepared, Reload, StartClaim, Spawn, ImportBegins,
     ImportEnds, ImportFails, Dispose, Arrive, WaitTimeout, Resume, Progress, Event, vars

LEMMA FrameRefs ==
  ASSUME [Next]_vars
  PROVE  \/ UNCHANGED shareds
         \/ \E c \in Callers, f \in Functions : Spawn(c, f)
         \/ \E i \in Instances : ImportFails(i) \/ Dispose(i)
         \/ Affected \/ Stop
  BY DEF Next, ClaimStep, Edit, EditShared, EnvEdit, EnvFlush, Flush, Prepared, Reload, ReloadEnds,
     StartClaim, ImportBegins, ImportEnds, Arrive, WaitTimeout, Resume, Progress, Event, vars

LEMMA FrameSharing ==
  ASSUME [Next]_vars
  PROVE  sharing' = sharing
  BY DEF Next, ClaimStep, Edit, EditShared, EnvEdit, EnvFlush, Flush, Affected, Prepared, Reload, ReloadEnds, StartClaim,
     Spawn, ImportBegins, ImportEnds, ImportFails, Dispose, Arrive, WaitTimeout, Resume, Progress, Stop, vars

LEMMA FrameStopped ==
  ASSUME [Next]_vars
  PROVE  UNCHANGED stopped \/ Stop
  BY DEF Next, ClaimStep, Edit, EditShared, EnvEdit, EnvFlush, Flush, Affected, Prepared, Reload, ReloadEnds, StartClaim,
     Spawn, ImportBegins, ImportEnds, ImportFails, Dispose, Arrive, WaitTimeout, Resume, Progress, vars

LEMMA FrameRequests ==
  ASSUME [Next]_vars
  PROVE  \/ UNCHANGED req
         \/ \E c \in Callers : Reload(c)
         \/ \E c \in Callers, f \in Functions : Spawn(c, f)
         \/ \E i \in Instances : ImportEnds(i) \/ ImportFails(i) \/ Dispose(i)
         \/ \E r \in Requests, f \in Functions : Arrive(r, f)
         \/ \E r \in Requests : WaitTimeout(r) \/ Resume(r) \/ Progress(r)
         \/ Stop
  BY DEF Next, ClaimStep, Edit, EditShared, EnvEdit, EnvFlush, Flush, Affected, Prepared, ReloadEnds,
     StartClaim, ImportBegins, Event, vars

-----------------------------------------------------------------------------
(* Types, and what events pay for *)

LEMMA CallersDiffer == Boot \in Callers /\ Hmr \in Callers /\ Env \in Callers /\ Hmr # Env /\ Hmr # Boot /\ Boot # Env
  BY HostAssumption DEF Callers

FlagsOK == sharing \in Modes /\ stopped \in BOOLEAN /\ prepared \in BOOLEAN /\ armed \in BOOLEAN
           /\ envPending \in BOOLEAN /\ envArmed \in BOOLEAN

LEMMA FlagTypes ==
  ASSUME TypeOK, [Next]_vars
  PROVE  FlagsOK'
<1>0. FlagsOK
  BY Zenon DEF TypeOK, FlagsOK
<1>1. sharing' = sharing
  BY FrameSharing
<1>2. stopped' \in {stopped, TRUE}
  BY FrameStopped, Zenon DEF Stop
<1>3. prepared' \in {prepared, TRUE}
  BY FrameClaims, ZenonT(60) DEF Next, ClaimStep, Edit, EditShared, EnvEdit, EnvFlush, Flush, Affected, Prepared, Reload, ReloadEnds,
     StartClaim, Spawn, ClaimEnds, ImportBegins, ImportEnds, ImportFails, Dispose, Arrive, WaitTimeout, Resume, Progress, Stop, vars
<1>4. armed' \in BOOLEAN
  BY <1>0, ZenonT(60) DEF FlagsOK, Next, ClaimStep, Edit, EditShared, EnvEdit, EnvFlush, Flush, Affected, Prepared, Reload, ReloadEnds,
     FlushEnds, Push, StartClaim, Spawn, ImportBegins, ImportEnds, ImportFails, Dispose, Arrive, WaitTimeout, Resume,
     Progress, Stop, vars
<1>5. envPending' \in BOOLEAN
  BY <1>0, FrameEnvs, Zenon DEF FlagsOK, EnvEdit, EnvFlush
<1>6. envArmed' \in BOOLEAN
  BY <1>0, FrameTimers, Zenon DEF FlagsOK, EnvEdit, EnvFlush, Affected, FlushEnds, Stop, ReloadEnds
<1> QED BY <1>0, <1>1, <1>2, <1>3, <1>4, <1>5, <1>6, Zenon DEF FlagsOK

CountsOK ==
  /\ secrets \in Generations /\ env \in 1..secrets
  /\ version \in [Functions -> Generations] /\ present \subseteq Functions
  /\ events \in 0..MaxEvents

ReloadsOK ==
  /\ phase \in [Callers -> {"idle", "flush", "discover", "reload"}]
  /\ want \in [Callers -> SUBSET (Functions \cup {Shared})]
  /\ pending \subseteq Functions \cup {Shared}

LEMMA ReloadTypes ==
  ASSUME TypeOK, [Next]_vars
  PROVE  ReloadsOK'
<1> USE CallersDiffer
<1>0. ReloadsOK
  BY DEF TypeOK, ReloadsOK
<1>1. pending' \subseteq Functions \cup {Shared}
  <2>1. ASSUME NEW f \in Functions, Edit(f) PROVE pending' \subseteq Functions \cup {Shared}
    BY <1>0, <2>1 DEF ReloadsOK, Edit, Push
  <2>2. CASE EditShared \/ EnvEdit
    BY <1>0, <2>2 DEF ReloadsOK, EditShared, Push, EnvEdit
  <2>3. CASE Flush \/ Stop
    BY <1>0, <2>3 DEF ReloadsOK, Flush, Stop
  <2> QED BY <1>0, <2>1, <2>2, <2>3, FrameEvents DEF ReloadsOK
<1>2. /\ phase' \in [Callers -> {"idle", "flush", "discover", "reload"}]
      /\ want' \in [Callers -> SUBSET (Functions \cup {Shared})]
  <2>1. CASE Flush
    BY <1>0, <2>1 DEF ReloadsOK, Flush
  <2>2. CASE Affected
    <3> DEFINE fs == (want[Hmr] \cup IF Shared \in want[Hmr] THEN Dependents ELSE {})
                       \cap {f \in Functions : handles[f] # None \/ f \in present}
    <3>1. want' = [want EXCEPT ![Hmr] = IF fs = {} THEN Functions ELSE fs]
          /\ (phase' = [phase EXCEPT ![Hmr] = "idle"] \/ phase' = [phase EXCEPT ![Hmr] = "discover"])
      BY <2>2 DEF Affected
    <3>2. fs \subseteq Functions
      OBVIOUS
    <3> HIDE DEF fs
    <3> QED BY <1>0, <3>1, <3>2 DEF ReloadsOK
  <2>3. CASE EnvFlush
    BY <1>0, <2>3 DEF ReloadsOK, EnvFlush
  <2>4. ASSUME NEW c \in Callers, Reload(c) \/ ReloadEnds(c)
        PROVE  /\ phase' \in [Callers -> {"idle", "flush", "discover", "reload"}]
               /\ want' \in [Callers -> SUBSET (Functions \cup {Shared})]
    BY <1>0, <2>4 DEF ReloadsOK, Reload, ReloadEnds
  <2> QED BY <1>0, <2>1, <2>2, <2>3, <2>4, FrameReloads DEF ReloadsOK
<1> QED BY <1>1, <1>2 DEF ReloadsOK

LEMMA Bounded == \A a, b, c \in Nat : a <= b + 1 /\ b <= c => a <= c + 1
  OBVIOUS

LEMMA LessOwed == \A a, b \in Nat : \A o \in {0, 1, 2} : a + o <= b + 1 => a <= b + 1
  OBVIOUS

\* One step adds at most what its event pays for.
LEMMA NextEvents ==
  ASSUME TypeOK, EventInv, [Next]_vars
  PROVE  EventInv' /\ CountsOK' /\ gen' \in Generations
<1> USE CallersDiffer
<1>0. /\ gen \in Nat /\ gen >= 1 /\ secrets \in Nat /\ secrets >= 1 /\ events \in Nat /\ events <= MaxEvents /\ MaxEvents \in Nat
      /\ Shared \notin Functions /\ version \in [Functions -> Nat] /\ \A f \in Functions : version[f] >= 1
  BY HostAssumption DEF TypeOK, Generations
<1>1. Owed \in {0, 1, 2} /\ Owed' \in {0, 1, 2}
  BY DEF Owed
<1>2. gen' \in Nat /\ gen' >= 1 /\ gen' + Owed' <= events' + 1
  <2>1. CASE \/ (\E f \in Functions : Edit(f)) \/ EnvEdit \/ Stop
    <3>1. events' = events + 1 /\ UNCHANGED <<gen, phase, want>> /\ (Shared \in pending' <=> Shared \in pending)
      BY <1>0, <2>1 DEF Edit, EnvEdit, Stop, Event, Push, Release
    <3> QED BY <1>0, <1>1, <3>1 DEF EventInv, Owed
  <2>2. CASE EditShared
    BY <1>0, <2>2 DEF EditShared, Event, EventInv, Owed
  <2>3. CASE Flush
    BY <1>0, <2>3 DEF TypeOK, Flush, EventInv, Owed
  <2>4. CASE Affected
    <3>1. phase[Hmr] = "flush" /\ phase'[Hmr] # "flush" /\ UNCHANGED <<pending, events>>
      BY <2>4 DEF TypeOK, Affected
    <3>2. gen' = gen \/ (gen' = gen + 1 /\ Shared \in want[Hmr])
      BY <2>4 DEF Affected, Bump
    <3> QED BY <1>0, <3>1, <3>2 DEF EventInv, Owed
  <2>5. CASE EnvFlush \/ \E c \in Callers : Reload(c) \/ ReloadEnds(c)
    <3>1. UNCHANGED <<pending, events, gen>> /\ (phase'[Hmr] = "flush" => phase[Hmr] = "flush" /\ want'[Hmr] = want[Hmr])
      BY <2>5 DEF TypeOK, EnvFlush, Reload, ReloadEnds
    <3> QED BY <1>0, <3>1 DEF EventInv, Owed
  <2>6. CASE UNCHANGED <<events, pending, phase, want>> /\ gen' = gen
    BY <1>0, <2>6 DEF EventInv, Owed
  <2>7. ASSUME NEW i \in Instances, ImportFails(i) \/ Dispose(i) PROVE gen' = gen
    BY <2>7 DEF ImportFails, ReleaseOf, Dispose, Release
  <2>8. ASSUME NEW c \in Callers, NEW f \in Functions, Spawn(c, f) PROVE gen' = gen
    BY <2>8 DEF Spawn
  <2> QED BY <2>1, <2>2, <2>3, <2>4, <2>5, <2>6, <2>7, <2>8, FrameEvents, FrameReloads, FrameRefs
<1>3. events' \in 0..MaxEvents /\ events' \in Nat /\ events' >= events
  <2>1. CASE Event
    BY <1>0, <2>1 DEF Event
  <2>2. CASE events' = events
    BY <1>0, <2>2
  <2> QED BY <2>1, <2>2, FrameEvents DEF Edit, EditShared, EnvEdit, Flush, Stop
<1> DEFINE Dated == /\ version' \in [Functions -> Nat] /\ present' \subseteq Functions
                    /\ \A f \in Functions : version'[f] >= 1 /\ version'[f] <= events' + 1
<1>4. Dated
  <2>1. ASSUME NEW f \in Functions, Edit(f) PROVE Dated
    BY <1>0, <2>1, SMTT(30) DEF EventInv, TypeOK, Edit, Event
  <2>2. CASE UNCHANGED disk
    BY <1>0, <1>3, <2>2 DEF EventInv, TypeOK
  <2> QED BY <2>1, <2>2, FrameDisk
<1>5. secrets' \in Nat /\ secrets' >= 1 /\ secrets' <= events' + 1 /\ env' \in 1..secrets'
  <2>1. CASE EnvEdit
    <3>1. PICK n \in {0, 1} : secrets' = secrets + n
      BY <2>1, HostAssumption DEF EnvEdit
    <3> QED BY <1>0, <2>1, <3>1 DEF EnvEdit, Event, EventInv, TypeOK
  <2>2. CASE EnvFlush
    BY <1>0, <2>2 DEF EnvFlush, EventInv
  <2>3. CASE UNCHANGED <<secrets, env>>
    <3>1. secrets <= events + 1 /\ env \in 1..secrets
      BY DEF EventInv, TypeOK
    <3>2. secrets' <= events' + 1
      BY <1>0, <1>3, <2>3, <3>1, Bounded
    <3>3. env' \in 1..secrets'
      BY <2>3, <3>1
    <3> QED BY <1>0, <2>3, <3>2, <3>3
  <2> QED BY <2>1, <2>2, <2>3, FrameEnvs
<1>6. gen' + Owed' <= events' + 1 /\ gen' <= MaxEvents + 1 /\ secrets' <= MaxEvents + 1
      /\ \A f \in Functions : version'[f] <= MaxEvents + 1
  <2>1. events' \in Nat /\ events' <= MaxEvents
    BY <1>0, <1>3
  <2>2. gen' <= events' + 1
    BY <1>1, <1>2, <2>1, LessOwed
  <2>3. gen' <= MaxEvents + 1 /\ secrets' <= MaxEvents + 1
    BY <1>0, <1>2, <1>5, <2>1, <2>2, Bounded
  <2>4. \A f \in Functions : version'[f] <= MaxEvents + 1
    BY <1>0, <1>4, <2>1, Bounded
  <2> QED BY <1>2, <2>3, <2>4
<1>7. gen' \in Generations /\ secrets' \in Generations /\ version' \in [Functions -> Generations]
  BY <1>0, <1>2, <1>4, <1>5, <1>6 DEF Generations
<1>8. EventInv'
  BY <1>2, <1>4, <1>5 DEF EventInv
<1>9. CountsOK'
  BY <1>3, <1>4, <1>5, <1>7 DEF CountsOK
<1> QED BY <1>7, <1>8, <1>9

-----------------------------------------------------------------------------
(* The ways of claims *)

Starts(c, f) == pendingClaim[f] = c /\ claim[c][f] = "pending" /\ Starting(c, f) /\ UNCHANGED prepared

\* The claim whose turn it is gets a graph.
Opens(c, f) ==
  /\ claim[c][f] = "chain" /\ Head(chain[f]) = c
  /\ claim' = [claim EXCEPT ![c][f] = "import"] /\ UNCHANGED <<boot, pendingClaim, chain, lane>>

Finishes(c, f, s) ==
  /\ claim[c][f] \in {"chain", "import"} /\ Head(chain[f]) = c
  /\ ClaimEnds(c, f) /\ boot' = [boot EXCEPT ![f] = s]

ClaimStays == UNCHANGED <<boot, pendingClaim, claim, chain>> /\ lane' \subseteq lane \cup (Callers \X Functions)

LEMMA ClaimSteps ==
  ASSUME TypeOK, ClaimInv, GraphInv, RequestInv, [Next]_vars
  PROVE  \/ ClaimStays
         \/ \E c \in Callers, f \in Functions :
              \/ Starts(c, f) /\ lane' \subseteq lane \cup (Callers \X Functions) /\ UNCHANGED <<phase, want>>
              \/ Opens(c, f) /\ Spawn(c, f) /\ UNCHANGED <<phase, want>>
              \/ Finishes(c, f, "ready") /\ claim[c][f] = "import" /\ \E i \in Instances : ImportEnds(i) /\ inst[i].fn = f
              \/ Finishes(c, f, "failed") /\ (Spawn(c, f) \/ claim[c][f] = "import")
         \/ Prepared
         \/ \E c \in Callers : Reload(c) \/ ReloadEnds(c)
<1> DEFINE Some == \/ ClaimStays
                   \/ \E c \in Callers, f \in Functions :
                        \/ Starts(c, f) /\ lane' \subseteq lane \cup (Callers \X Functions) /\ UNCHANGED <<phase, want>>
                        \/ Opens(c, f) /\ Spawn(c, f) /\ UNCHANGED <<phase, want>>
                        \/ Finishes(c, f, "ready") /\ claim[c][f] = "import" /\ \E i \in Instances : ImportEnds(i) /\ inst[i].fn = f
                        \/ Finishes(c, f, "failed") /\ (Spawn(c, f) \/ claim[c][f] = "import")
<1>1. ASSUME NEW c \in Callers, NEW f \in Functions, StartClaim(c, f) PROVE Some
  BY <1>1 DEF StartClaim, Starts
<1>2. ASSUME NEW f \in Functions, Prioritize(f), UNCHANGED <<prepared, phase, want>> PROVE Some
  <2>1. CASE boot[f] = "queued" /\ pendingClaim[f] # None
    <3>1. pendingClaim[f] \in Callers /\ claim[pendingClaim[f]][f] = "pending"
      BY <2>1 DEF TypeOK, ClaimInv
    <3> QED BY <1>2, <2>1, <3>1 DEF Prioritize, Starts
  <2>2. CASE ~(boot[f] = "queued" /\ pendingClaim[f] # None)
    BY <1>2, <2>2 DEF Prioritize, ClaimStays
  <2> QED BY <2>1, <2>2
<1>3. ASSUME NEW c \in Callers, NEW f \in Functions, Spawn(c, f) PROVE Some
  <2>1. CASE claim' = [claim EXCEPT ![c][f] = "import"] /\ UNCHANGED <<boot, lane, pendingClaim, chain, phase, want>>
    BY <1>3, <2>1 DEF Spawn, Spawns, Opens
  <2>2. CASE ClaimEnds(c, f) /\ settleBootState(f, "failed")
    BY <1>3, <2>2 DEF Spawn, Spawns, Finishes, settleBootState
  <2> QED BY <1>3, <2>1, <2>2 DEF Spawn
<1>4. ASSUME NEW i \in Instances, ImportEnds(i) \/ ImportFails(i) PROVE Some
  <2> DEFINE c == inst[i].by
             f == inst[i].fn
  <2>1. c \in Callers /\ f \in Functions /\ claim[c][f] = "import"
    BY <1>4 DEF GraphInv, Spawning, ImportEnds, ImportFails
  <2>2. Head(chain[f]) = c
    BY <2>1 DEF ClaimInv
  <2>3. ClaimEnds(c, f) /\ ((boot' = [boot EXCEPT ![f] = "ready"] /\ ImportEnds(i)) \/ boot' = [boot EXCEPT ![f] = "failed"])
    BY <1>4 DEF ImportEnds, ImportFails, settleBootState
  <2>4. inst[i].fn = f
    OBVIOUS
  <2> HIDE DEF c, f
  <2> QED BY <2>1, <2>2, <2>3, <2>4 DEF Finishes
<1>5. ASSUME NEW r \in Requests, NEW f \in Functions, Arrive(r, f) PROVE Some
  <2>1. Prioritize(f) /\ UNCHANGED <<prepared, phase, want>>
    BY <1>5 DEF Arrive, Freshness
  <2> QED BY <1>2, <2>1
<1>6. ASSUME NEW r \in Requests, Resume(r) PROVE Some
  <2>1. CASE UNCHANGED <<pendingClaim, boot, claim, chain, lane>>
    BY <2>1 DEF ClaimStays
  <2>2. CASE Prioritize(req[r].fn) /\ req[r].phase = "warm" /\ UNCHANGED <<prepared, phase, want>>
    BY <1>2, <1>6, <2>2 DEF RequestInv
  <2> QED BY <1>6, <2>1, <2>2 DEF Resume, Freshness
<1> QED BY <1>1, <1>3, <1>4, <1>5, <1>6, FrameClaims DEF ClaimStays

LEMMA ListedAppend ==
  ASSUME NEW S, NEW s \in Seq(S), NEW x \in S
  PROVE  /\ Append(s, x) \in Seq(S) /\ Listed(Append(s, x), x)
         /\ \A y : Listed(s, y) => Listed(Append(s, x), y) /\ Head(Append(s, x)) = Head(s)
<1>1. PICK n \in Nat : n = Len(s)
  OBVIOUS
<1>2. /\ Append(s, x) \in Seq(S) /\ Len(Append(s, x)) = n + 1 /\ Append(s, x)[n + 1] = x
      /\ \A k \in 1..n : Append(s, x)[k] = s[k]
  BY <1>1
<1>3. Listed(Append(s, x), x)
  BY <1>1, <1>2, n + 1 \in 1..(n + 1) DEF Listed
<1>4. ASSUME NEW y, Listed(s, y) PROVE Listed(Append(s, x), y) /\ Head(Append(s, x)) = Head(s)
  <2>1. PICK k \in 1..n : s[k] = y
    BY <1>1, <1>4 DEF Listed
  <2>2. k \in 1..(n + 1) /\ 1 \in 1..n
    BY <2>1
  <2>3. Listed(Append(s, x), y)
    BY <1>2, <2>1, <2>2 DEF Listed
  <2>4. Append(s, x)[1] = s[1] /\ s # <<>> /\ Append(s, x) # <<>>
    BY <1>1, <1>2, <2>2
  <2> QED BY <1>2, <2>3, <2>4
<1> QED BY <1>2, <1>3, <1>4

LEMMA ListedTail ==
  ASSUME NEW S, NEW s \in Seq(S), NEW x, Listed(s, x)
  PROVE  /\ Tail(s) \in Seq(S) /\ Head(s) \in S
         /\ \A y : Listed(s, y) /\ y # Head(s) => Listed(Tail(s), y)
<1>1. PICK n \in Nat : n = Len(s)
  OBVIOUS
<1>2. s # <<>> /\ n # 0
  BY <1>1 DEF Listed
<1>3. /\ Tail(s) \in Seq(S) /\ Len(Tail(s)) = n - 1 /\ Head(s) = s[1] /\ Head(s) \in S
      /\ \A k \in 1..(n - 1) : Tail(s)[k] = s[k + 1]
  BY <1>1, <1>2
<1>4. ASSUME NEW y, Listed(s, y), y # Head(s) PROVE Listed(Tail(s), y)
  <2>1. PICK k \in 1..n : s[k] = y
    BY <1>1, <1>4 DEF Listed
  <2>2. k # 1
    BY <1>3, <1>4, <2>1
  <2>3. k - 1 \in 1..(n - 1) /\ (k - 1) + 1 = k
    BY <2>1, <2>2
  <2>4. Tail(s)[k - 1] = y
    BY <1>3, <2>1, <2>3
  <2> QED BY <1>3, <2>3, <2>4 DEF Listed
<1> QED BY <1>3, <1>4

ClaimsOK ==
  /\ pendingClaim \in [Functions -> Callers \cup {None}]
  /\ claim \in [Callers -> [Functions -> {"none", "pending", "prepare", "chain", "import"}]]
  /\ chain \in [Functions -> Seq(Callers)] /\ lane \subseteq Callers \X Functions
  /\ boot \in [Functions -> {"unknown", "queued", "loading", "ready", "failed"}]

\* What the start of a claim does to it.
LEMMA Started ==
  ASSUME ClaimsOK, NEW c \in Callers, NEW f \in Functions, Starts(c, f)
  PROVE  /\ pendingClaim' = [pendingClaim EXCEPT ![f] = None] /\ boot' = [boot EXCEPT ![f] = "loading"]
         /\ \E s \in {"prepare", "chain"} :
              /\ claim' = [claim EXCEPT ![c][f] = s]
              /\ chain' = IF s = "chain" THEN [chain EXCEPT ![f] = Append(@, c)] ELSE chain
  BY DEF Starts, Starting

LEMMA ClaimTypes ==
  ASSUME TypeOK, ClaimInv, GraphInv, RequestInv, [Next]_vars
  PROVE  ClaimsOK'
<1>0. ClaimsOK
  BY DEF TypeOK, ClaimsOK
<1> USE DEF ClaimsOK
<1>1. CASE ClaimStays
  BY <1>0, <1>1 DEF ClaimStays
<1>2. ASSUME NEW c \in Callers, NEW f \in Functions, Starts(c, f), lane' \subseteq lane \cup (Callers \X Functions)
      PROVE  ClaimsOK'
  <2>1. Append(chain[f], c) \in Seq(Callers)
    BY <1>0
  <2>2. PICK s \in {"prepare", "chain"} :
          /\ claim' = [claim EXCEPT ![c][f] = s]
          /\ chain' = IF s = "chain" THEN [chain EXCEPT ![f] = Append(@, c)] ELSE chain
    BY <1>0, <1>2, Started
  <2>3. pendingClaim' = [pendingClaim EXCEPT ![f] = None] /\ boot' = [boot EXCEPT ![f] = "loading"]
    BY <1>0, <1>2, Started
  <2>4. chain' \in [Functions -> Seq(Callers)]
    BY <1>0, <2>1, <2>2
  <2> QED BY <1>0, <1>2, <2>2, <2>3, <2>4
<1>3. ASSUME NEW c \in Callers, NEW f \in Functions, Opens(c, f) PROVE ClaimsOK'
  BY <1>0, <1>3 DEF Opens
<1>4. ASSUME NEW c \in Callers, NEW f \in Functions, NEW s \in {"ready", "failed"}, Finishes(c, f, s) PROVE ClaimsOK'
  <2>1. Tail(chain[f]) \in Seq(Callers)
    BY <1>0, <1>4, ListedTail DEF Finishes, ClaimInv
  <2> QED BY <1>0, <1>4, <2>1 DEF Finishes, ClaimEnds
<1>5. CASE Prepared
  <2>1. \A f \in Functions : Append(chain[f], Boot) \in Seq(Callers)
    BY <1>0, CallersDiffer
  <2> QED BY <1>0, <1>5, <2>1, CallersDiffer DEF Prepared
<1>6. ASSUME NEW c \in Callers, Reload(c) PROVE ClaimsOK'
  BY <1>0, <1>6 DEF Reload, forgetBootState
<1>7. ASSUME NEW c \in Callers, ReloadEnds(c) PROVE ClaimsOK'
  BY <1>0, <1>7 DEF ReloadEnds
<1> QED BY <1>1, <1>2, <1>3, <1>4, <1>5, <1>6, <1>7, ClaimSteps

\* What a finished claim leaves behind it.
LEMMA Finished ==
  ASSUME TypeOK, ClaimInv, NEW c \in Callers, NEW f \in Functions, NEW s, Finishes(c, f, s)
  PROVE  /\ claim' = [claim EXCEPT ![c][f] = "none"] /\ boot' = [boot EXCEPT ![f] = s]
         /\ UNCHANGED <<pendingClaim, phase, want, prepared>>
         /\ \A g \in Functions \ {f} : chain'[g] = chain[g]
         /\ \A d \in Callers \ {c} : claim[d][f] \in {"chain", "import"} => claim[d][f] = "chain" /\ Listed(chain'[f], d)
<1>1. Listed(chain[f], c) /\ chain' = [chain EXCEPT ![f] = Tail(chain[f])] /\ Head(chain[f]) = c
  BY DEF ClaimInv, Finishes, ClaimEnds
<1>2. ASSUME NEW d \in Callers \ {c}, claim[d][f] \in {"chain", "import"} PROVE claim[d][f] = "chain" /\ Listed(chain'[f], d)
  BY <1>1, <1>2, ListedTail DEF TypeOK, ClaimInv
<1> QED BY <1>1, <1>2 DEF TypeOK, Finishes, ClaimEnds

LEMMA NextClaim ==
  ASSUME TypeOK, ClaimInv, EnvInv, GraphInv, RequestInv, [Next]_vars
  PROVE  ClaimInv'
<1>0. ClaimsOK /\ phase \in [Callers -> {"idle", "flush", "discover", "reload"}]
  BY DEF TypeOK, ClaimsOK
<1> USE DEF ClaimsOK
<1>1. CASE ClaimStays
  <2>1. \A c \in Callers : phase[c] = "reload" => phase'[c] = "reload" \/ ReloadEnds(c)
    <3>1. CASE Flush \/ Affected
      BY <1>0, <3>1, CallersDiffer DEF Flush, Affected
    <3>2. CASE EnvFlush
      BY <1>0, <3>2, CallersDiffer DEF EnvFlush, EnvInv
    <3>3. ASSUME NEW c \in Callers, Reload(c) \/ ReloadEnds(c)
          PROVE  \A d \in Callers : phase[d] = "reload" => phase'[d] = "reload" \/ ReloadEnds(d)
      BY <1>0, <3>3 DEF Reload, ReloadEnds
    <3> QED BY <3>1, <3>2, <3>3, FrameReloads
  <2>2. CASE \A c \in Callers : ~ReloadEnds(c)
    BY <1>0, <1>1, <2>1, <2>2 DEF ClaimStays, ClaimInv
  <2>3. ASSUME NEW c \in Callers, ReloadEnds(c) PROVE ClaimInv'
    BY <1>0, <2>3, HostAssumption DEF ReloadEnds, ClaimInv
  <2> QED BY <2>2, <2>3
<1>2. ASSUME NEW c \in Callers, NEW f \in Functions, Starts(c, f), UNCHANGED <<phase, want>> PROVE ClaimInv'
  <2>1. PICK s \in {"prepare", "chain"} :
          /\ claim' = [claim EXCEPT ![c][f] = s]
          /\ chain' = IF s = "chain" THEN [chain EXCEPT ![f] = Append(@, c)] ELSE chain
    BY <1>0, <1>2, Started
  <2>2. /\ \A d \in Callers, g \in Functions : claim'[d][g] = IF d = c /\ g = f THEN s ELSE claim[d][g]
        /\ claim[c][f] = "pending" /\ pendingClaim' = [pendingClaim EXCEPT ![f] = None]
    BY <1>0, <1>2, <2>1, Started DEF Starts
  <2>3. \A d \in Callers, g \in Functions : Listed(chain[g], d) => Listed(chain'[g], d) /\ Head(chain'[g]) = Head(chain[g])
    BY <1>0, <2>1, ListedAppend
  <2>4. s = "chain" => Listed(chain'[f], c)
    BY <1>0, <2>1, ListedAppend
  <2> QED BY <1>0, <1>2, <2>1, <2>2, <2>3, <2>4, HostAssumption DEF ClaimInv
<1>3. ASSUME NEW c \in Callers, NEW f \in Functions, Opens(c, f), UNCHANGED <<phase, want>> PROVE ClaimInv'
  BY <1>0, <1>3 DEF Opens, ClaimInv
<1>4. ASSUME NEW c \in Callers, NEW f \in Functions, NEW s \in {"ready", "failed"}, Finishes(c, f, s) PROVE ClaimInv'
  <2>1. \A d \in Callers, g \in Functions : claim'[d][g] = IF d = c /\ g = f THEN "none" ELSE claim[d][g]
    BY <1>0, <1>4, Finished
  <2>2. claim[c][f] \in {"chain", "import"}
    BY <1>4 DEF Finishes
  <2>3. /\ UNCHANGED <<pendingClaim, phase>> /\ \A g \in Functions \ {f} : chain'[g] = chain[g]
        /\ \A d \in Callers \ {c} : claim[d][f] \in {"chain", "import"} => claim[d][f] = "chain" /\ Listed(chain'[f], d)
    BY <1>4, Finished
  <2>4. \A d \in Callers, g \in Functions :
          /\ claim'[d][g] # "none" => phase'[d] = "reload"
          /\ claim'[d][g] \in {"chain", "import"} => Listed(chain'[g], d)
          /\ claim'[d][g] = "import" => Head(chain'[g]) = d
    BY <2>1, <2>3 DEF ClaimInv
  <2>5. ASSUME NEW g \in Functions, pendingClaim'[g] # None PROVE claim'[pendingClaim'[g]][g] = "pending"
    <3>1. pendingClaim'[g] = pendingClaim[g] /\ pendingClaim[g] \in Callers
      BY <1>0, <2>3, <2>5
    <3>2. claim[pendingClaim[g]][g] = "pending" /\ ~(pendingClaim[g] = c /\ g = f)
      BY <2>2, <2>5, <3>1 DEF ClaimInv
    <3> QED BY <2>1, <3>1, <3>2
  <2> QED BY <2>4, <2>5 DEF ClaimInv
<1>5. CASE Prepared
  <2>1. /\ \A c \in Callers, f \in Functions :
             claim'[c][f] = IF c = Boot /\ claim[c][f] = "prepare" THEN "chain" ELSE claim[c][f]
        /\ \A f \in Functions : chain'[f] = IF claim[Boot][f] = "prepare" THEN Append(chain[f], Boot) ELSE chain[f]
        /\ UNCHANGED <<pendingClaim, phase>>
    BY <1>0, <1>5, CallersDiffer DEF Prepared
  <2>2. \A g \in Functions :
          /\ \A d \in Callers : Listed(chain[g], d) => Listed(chain'[g], d) /\ Head(chain'[g]) = Head(chain[g])
          /\ claim[Boot][g] = "prepare" => Listed(chain'[g], Boot)
    <3> TAKE g \in Functions
    <3>1. chain[g] \in Seq(Callers) /\ Boot \in Callers
      BY <1>0, CallersDiffer
    <3>2. /\ Listed(Append(chain[g], Boot), Boot)
          /\ \A d : Listed(chain[g], d) =>
               Listed(Append(chain[g], Boot), d) /\ Head(Append(chain[g], Boot)) = Head(chain[g])
      BY <3>1, ListedAppend
    <3> QED BY <2>1, <3>2
  <2>3. \A d \in Callers, g \in Functions :
          /\ claim'[d][g] # "none" => phase'[d] = "reload"
          /\ claim'[d][g] \in {"chain", "import"} => Listed(chain'[g], d)
          /\ claim'[d][g] = "import" => Head(chain'[g]) = d
    BY <2>1, <2>2 DEF ClaimInv
  <2>4. ASSUME NEW g \in Functions, pendingClaim'[g] # None PROVE claim'[pendingClaim'[g]][g] = "pending"
    <3>1. pendingClaim'[g] = pendingClaim[g] /\ pendingClaim[g] \in Callers
      BY <1>0, <2>1, <2>4
    <3>2. claim[pendingClaim[g]][g] = "pending"
      BY <2>4, <3>1 DEF ClaimInv
    <3> QED BY <2>1, <3>1, <3>2
  <2> QED BY <2>3, <2>4 DEF ClaimInv
<1>6. ASSUME NEW c \in Callers, Reload(c) PROVE ClaimInv'
  <2>1. \A f \in Functions : claim[c][f] = "none"
    BY <1>0, <1>6 DEF ClaimInv, Reload
  <2>2. /\ \A d \in Callers, f \in Functions : claim'[d][f] = IF d = c THEN (IF f \in Respawned(c) THEN "pending" ELSE "none")
                                                               ELSE claim[d][f]
        /\ chain' = chain /\ phase' = [phase EXCEPT ![c] = "reload"]
        /\ \A f \in Functions : IF f \in Respawned(c) THEN pendingClaim'[f] = c
                                ELSE pendingClaim'[f] \in {None, pendingClaim[f]}
    BY <1>0, <1>6 DEF Reload
  <2> QED BY <1>0, <2>1, <2>2, HostAssumption DEF ClaimInv
<1>7. ASSUME NEW c \in Callers, ReloadEnds(c) PROVE ClaimInv'
  <2>1. /\ \A d \in Callers, f \in Functions : claim'[d][f] = IF d = c THEN "none" ELSE claim[d][f]
        /\ phase' = [phase EXCEPT ![c] = "idle"] /\ UNCHANGED <<chain, pendingClaim>>
        /\ \A f \in Functions : claim[c][f] = "none" \/ (claim[c][f] = "pending" /\ pendingClaim[f] # c)
    BY <1>0, <1>7 DEF ReloadEnds
  <2>2. \A d \in Callers, g \in Functions :
          /\ claim'[d][g] # "none" => phase'[d] = "reload"
          /\ claim'[d][g] \in {"chain", "import"} => Listed(chain'[g], d)
          /\ claim'[d][g] = "import" => Head(chain'[g]) = d
    BY <1>0, <2>1 DEF ClaimInv
  <2>3. ASSUME NEW g \in Functions, pendingClaim'[g] # None PROVE claim'[pendingClaim'[g]][g] = "pending"
    <3>1. pendingClaim'[g] = pendingClaim[g] /\ pendingClaim[g] \in Callers
      BY <1>0, <2>1, <2>3
    <3>2. claim[pendingClaim[g]][g] = "pending"
      BY <2>3, <3>1 DEF ClaimInv
    <3>3. pendingClaim[g] # c
      BY <2>1, <3>2
    <3> QED BY <2>1, <3>1, <3>2, <3>3
  <2> QED BY <2>2, <2>3 DEF ClaimInv
<1> QED
  <2>1. \A c \in Callers, f \in Functions, s \in {"ready", "failed"} : Finishes(c, f, s) => ClaimInv'
    BY <1>4
  <2> QED BY <1>1, <1>2, <1>3, <1>5, <1>6, <1>7, <2>1, ClaimSteps

LEMMA NextEnv ==
  ASSUME TypeOK, EnvInv, [Next]_vars
  PROVE  EnvInv'
<1> USE CallersDiffer
<1>0. phase \in [Callers -> {"idle", "flush", "discover", "reload"}] /\ want \in [Callers -> SUBSET (Functions \cup {Shared})]
  BY DEF TypeOK
<1>1. want'[Env] = Functions
  BY <1>0, FrameReloads, ZenonT(60) DEF EnvInv, Flush, Affected, EnvFlush, Reload, ReloadEnds
<1>2. envArmed' => phase'[Env] = "idle"
  <2>1. CASE EnvFlush \/ Stop \/ EnvEdit
    BY <1>0, <2>1 DEF EnvInv, EnvFlush, Stop, EnvEdit
  <2>2. CASE Affected \/ Flush
    BY <1>0, <2>2 DEF EnvInv, Affected, Flush, FlushEnds
  <2>3. ASSUME NEW c \in Callers, Reload(c) \/ ReloadEnds(c) PROVE envArmed' => phase'[Env] = "idle"
    BY <1>0, <2>3 DEF EnvInv, Reload, ReloadEnds, FlushEnds
  <2>4. CASE UNCHANGED <<phase, want>> /\ UNCHANGED envArmed
    BY <2>4 DEF EnvInv
  <2> QED BY <2>1, <2>2, <2>3, <2>4, FrameReloads, FrameTimers
<1>3. secrets' # env' => envPending'
  <2>1. CASE EnvEdit
    BY <2>1 DEF EnvEdit
  <2>2. CASE EnvFlush
    BY <2>2 DEF EnvFlush
  <2>3. CASE UNCHANGED <<secrets, env, envPending>>
    BY <2>3 DEF EnvInv
  <2> QED BY <2>1, <2>2, <2>3, FrameEnvs
<1>4. ASSUME NEW c \in Callers, phase'[c] = "discover" PROVE want'[c] \subseteq Functions
  <2>1. CASE Affected
    <3>1. want'[Hmr] \subseteq Functions /\ \A d \in Callers \ {Hmr} : want'[d] = want[d] /\ phase'[d] = phase[d]
      BY <1>0, <2>1 DEF Affected
    <3> QED BY <1>4, <3>1 DEF EnvInv
  <2>2. CASE Flush
    BY <1>0, <1>4, <2>2 DEF EnvInv, Flush
  <2>3. CASE EnvFlush
    BY <1>0, <1>4, <2>3 DEF EnvInv, EnvFlush
  <2>4. ASSUME NEW d \in Callers, Reload(d) \/ ReloadEnds(d) PROVE want'[c] \subseteq Functions
    BY <1>0, <1>4, <2>4 DEF EnvInv, Reload, ReloadEnds
  <2> QED BY <1>4, <2>1, <2>2, <2>3, <2>4, FrameReloads DEF EnvInv
<1> QED BY <1>1, <1>2, <1>3, <1>4 DEF EnvInv

-----------------------------------------------------------------------------
(* Graphs *)

GraphsOK == inst \in [Instances -> GraphType] /\ handles \in [Functions -> Instances \cup {None}] /\ importQ \in Seq(Instances)

\* The same graph in another state.
SameGraph(i) ==
  /\ inst'[i].fn = inst[i].fn /\ inst'[i].by = inst[i].by /\ inst'[i].pin = inst[i].pin
  /\ inst'[i].version = inst[i].version /\ inst'[i].env = inst[i].env

LEMMA FreeTyped == GraphsOK => Free \in GraphType /\ Free.st = "free" /\ Free.pin = 0
  BY DEF Free, GraphType, Statuses

LEMMA RetiredTyped ==
  ASSUME GraphsOK, NEW i \in Instances
  PROVE  /\ Retired(i) \in GraphType /\ Retired(i).st \in {"draining", "lingering"}
         /\ Retired(i).st = "lingering" <=> ~Busy(i)
         /\ Retired(i).fn = inst[i].fn /\ Retired(i).by = inst[i].by /\ Retired(i).pin = inst[i].pin
         /\ Retired(i).version = inst[i].version /\ Retired(i).env = inst[i].env /\ Retired(i).gens = inst[i].gens
<1>1. inst[i] \in GraphType
  BY DEF GraphsOK
<1> DEFINE s == IF Busy(i) THEN "draining" ELSE "lingering"
<1>2. Retired(i) = [inst[i] EXCEPT !.st = s]
  BY DEF Retired
<1>3. s \in {"draining", "lingering"} /\ (s = "lingering" <=> ~Busy(i))
  OBVIOUS
<1> HIDE DEF s
<1> QED BY <1>1, <1>2, <1>3 DEF GraphType, Statuses

\* A spawned graph takes a free identity.
LEMMA Spawned ==
  ASSUME TypeOK, NEW c \in Callers, NEW f \in Functions, Spawn(c, f)
  PROVE  \/ /\ Opens(c, f)
            /\ refs' = IF sharing THEN [refs EXCEPT ![gen] = @ + 1] ELSE refs
            /\ \E i \in Instances :
                 /\ ~Live(i) /\ inst' = [inst EXCEPT ![i] = inst'[i]]
                 /\ inst'[i] \in GraphType /\ inst'[i].fn = f /\ inst'[i].by = c /\ inst'[i].st = "waiting"
                 /\ inst'[i].pin = (IF sharing THEN gen ELSE 0) /\ inst'[i].gens = {}
                 /\ importQ' = IF sharing THEN Append(importQ, i) ELSE importQ
            /\ UNCHANGED req
         \/ Finishes(c, f, "failed") /\ Tell(f, "failed") /\ UNCHANGED <<inst, importQ, refs>>
<1>1. GraphsOK /\ gen \in Generations
  BY DEF TypeOK, GraphsOK
<1>2. CASE ClaimEnds(c, f) /\ settleBootState(f, "failed") /\ UNCHANGED <<inst, importQ, refs>>
  BY <1>2 DEF Spawn, Spawns, Finishes, settleBootState
<1>3. ASSUME NEW i \in Instances, ~Live(i), claim' = [claim EXCEPT ![c][f] = "import"],
             UNCHANGED <<boot, lane, pendingClaim, chain, req>>,
             inst' = [inst EXCEPT ![i] = [Free EXCEPT !.fn = f, !.by = c, !.st = "waiting", !.pin = IF sharing THEN gen ELSE 0]]
      PROVE  /\ Opens(c, f) /\ inst' = [inst EXCEPT ![i] = inst'[i]]
             /\ inst'[i] \in GraphType /\ inst'[i].fn = f /\ inst'[i].by = c /\ inst'[i].st = "waiting"
             /\ inst'[i].pin = (IF sharing THEN gen ELSE 0) /\ inst'[i].gens = {}
  <2> DEFINE pin == IF sharing THEN gen ELSE 0
             new == [Free EXCEPT !.fn = f, !.by = c, !.st = "waiting", !.pin = pin]
  <2>1. pin \in {0} \cup Generations
    BY <1>1
  <2> HIDE DEF pin
  <2>2. /\ new \in GraphType /\ new.fn = f /\ new.by = c /\ new.st = "waiting" /\ new.pin = pin /\ new.gens = {}
    BY <2>1 DEF Free, GraphType, Statuses
  <2>3. inst'[i] = new
    BY <1>1, <1>3 DEF pin, GraphsOK
  <2>4. inst' = [inst EXCEPT ![i] = inst'[i]]
    BY <1>3, <2>3 DEF pin
  <2> HIDE DEF new
  <2>5. Opens(c, f)
    BY <1>3 DEF Spawn, Spawns, Opens
  <2> QED BY <2>2, <2>3, <2>4, <2>5 DEF pin
<1> QED BY <1>2, <1>3 DEF Spawn

LEMMA ImportStarted ==
  ASSUME TypeOK, NEW i \in Instances, ImportBegins(i)
  PROVE  /\ inst[i].st = "waiting" /\ (sharing => Head(importQ) = i)
         /\ inst' = [inst EXCEPT ![i] = inst'[i]] /\ inst'[i] \in GraphType /\ inst'[i].st = "importing"
         /\ inst'[i].fn = inst[i].fn /\ inst'[i].by = inst[i].by /\ inst'[i].pin = inst[i].pin
         /\ inst'[i].version = (IF inst[i].fn \in present THEN version[inst[i].fn] ELSE 0) /\ inst'[i].env = env
         /\ inst'[i].gens \subseteq {gen}
<1> DEFINE v == IF inst[i].fn \in present THEN version[inst[i].fn] ELSE 0
           gs == IF sharing THEN {gen} ELSE {}
<1>1. inst[i] \in GraphType /\ inst \in [Instances -> GraphType] /\ gen \in Generations /\ env \in Nat
  BY DEF TypeOK
<1>2. v \in Nat
  BY DEF TypeOK, Generations
<1>3. gs \in SUBSET Generations /\ gs \subseteq {gen}
  BY <1>1
<1>4. inst' = [inst EXCEPT ![i].st = "importing", ![i].version = v, ![i].env = env, ![i].gens = gs]
  BY DEF ImportBegins
<1>5. v = IF inst[i].fn \in present THEN version[inst[i].fn] ELSE 0
  OBVIOUS
<1> HIDE DEF v, gs
<1>6. inst'[i] = [inst[i] EXCEPT !.st = "importing", !.version = v, !.env = env, !.gens = gs]
      /\ inst' = [inst EXCEPT ![i] = inst'[i]]
  BY <1>1, <1>4
<1>7. /\ inst'[i] \in GraphType /\ inst'[i].st = "importing" /\ inst'[i].version = v /\ inst'[i].env = env /\ inst'[i].gens = gs
      /\ inst'[i].fn = inst[i].fn /\ inst'[i].by = inst[i].by /\ inst'[i].pin = inst[i].pin
  BY <1>1, <1>2, <1>3, <1>6 DEF GraphType, Statuses
<1> QED BY <1>3, <1>5, <1>6, <1>7 DEF ImportBegins

LEMMA Registered ==
  ASSUME TypeOK, ClaimInv, GraphInv, NEW i \in Instances, ImportEnds(i)
  PROVE  LET f == inst[i].fn IN
         /\ inst[i].st = "importing" /\ inst[i].version > 0 /\ f \in Functions
         /\ inst' \in [Instances -> GraphType]
         /\ \A j \in Instances : SameGraph(j) /\ inst'[j].gens \subseteq inst[j].gens \cup {gen}
         /\ \A j \in Instances : IF j = i THEN inst'[j].st = "live"
              ELSE IF j = handles[f] THEN inst'[j] = Retired(j) ELSE inst'[j] = inst[j]
         /\ handles' = [handles EXCEPT ![f] = i] /\ Finishes(inst[i].by, f, "ready") /\ Tell(f, "ready")
<1> DEFINE f == inst[i].fn
           up == [inst[i] EXCEPT !.st = "live"]
<1>1. inst[i] \in GraphType /\ inst \in [Instances -> GraphType] /\ gen \in Generations /\ GraphsOK
  BY DEF TypeOK, GraphsOK
<1>2. inst[i].st = "importing" /\ inst[i].version > 0 /\ f \in Functions /\ inst[i].by \in Callers
      /\ claim[inst[i].by][f] = "import"
  BY DEF ImportEnds, GraphInv, Spawning
<1>3. PICK late \in SUBSET {gen} :
        inst' = [j \in Instances |-> IF j = i THEN [up EXCEPT !.gens = @ \cup late]
                                     ELSE IF j = handles[f] THEN Retired(j) ELSE inst[j]]
  <2>1. \E late \in SUBSET (IF sharing THEN {gen} ELSE {}) :
          inst' = [j \in Instances |-> IF j = i THEN [up EXCEPT !.gens = @ \cup late]
                                       ELSE IF j = handles[f] THEN Retired(j) ELSE inst[j]]
    BY DEF ImportEnds, Register
  <2> QED BY <2>1
<1>4. up \in GraphType /\ up.st = "live" /\ up.gens = inst[i].gens /\ up.fn = f /\ up.by = inst[i].by /\ up.pin = inst[i].pin
      /\ up.version = inst[i].version /\ up.env = inst[i].env
  BY <1>1 DEF GraphType, Statuses
<1> DEFINE gs == up.gens \cup late
<1>5. gs \in SUBSET Generations /\ gs \subseteq inst[i].gens \cup {gen} /\ inst'[i] = [up EXCEPT !.gens = gs]
  BY <1>1, <1>3, <1>4 DEF GraphType
<1> HIDE DEF gs, up
<1>6. inst'[i] \in GraphType /\ inst'[i].st = "live" /\ inst'[i].gens = gs /\ inst'[i].fn = f /\ inst'[i].by = inst[i].by
      /\ inst'[i].pin = inst[i].pin /\ inst'[i].version = inst[i].version /\ inst'[i].env = inst[i].env
  BY <1>4, <1>5 DEF GraphType
<1>7. \A j \in Instances \ {i} : inst'[j] = IF j = handles[f] THEN Retired(j) ELSE inst[j]
  BY <1>3
<1>8. inst' \in [Instances -> GraphType]
  BY <1>1, <1>3, <1>6, <1>7, RetiredTyped
<1>9. \A j \in Instances : SameGraph(j) /\ inst'[j].gens \subseteq inst[j].gens \cup {gen}
  <2>1. SameGraph(i) /\ inst'[i].gens \subseteq inst[i].gens \cup {gen}
    BY <1>5, <1>6 DEF SameGraph
  <2>2. ASSUME NEW j \in Instances \ {i} PROVE SameGraph(j) /\ inst'[j].gens \subseteq inst[j].gens \cup {gen}
    <3>1. CASE inst'[j] = inst[j]
      BY <3>1 DEF SameGraph
    <3>2. CASE inst'[j] = Retired(j)
      BY <1>1, <3>2, RetiredTyped DEF SameGraph
    <3> QED BY <1>7, <3>1, <3>2
  <2> QED BY <2>1, <2>2
<1>10. handles' = [handles EXCEPT ![f] = i] /\ ClaimEnds(inst[i].by, f) /\ settleBootState(f, "ready")
  BY DEF ImportEnds
<1> QED BY <1>2, <1>6, <1>7, <1>8, <1>9, <1>10 DEF Finishes, settleBootState, ClaimInv

LEMMA Failed ==
  ASSUME TypeOK, ClaimInv, GraphInv, NEW i \in Instances, ImportFails(i)
  PROVE  /\ inst[i].st = "importing" /\ inst[i].fn \in Functions
         /\ inst' = [inst EXCEPT ![i] = Free] /\ Release({i})
         /\ Finishes(inst[i].by, inst[i].fn, "failed") /\ Tell(inst[i].fn, "failed") /\ UNCHANGED handles
<1>1. /\ inst[i].st = "importing" /\ ClaimEnds(inst[i].by, inst[i].fn) /\ settleBootState(inst[i].fn, "failed")
      /\ inst' = [inst EXCEPT ![i] = Free] /\ Release({i}) /\ UNCHANGED handles
  BY DEF ImportFails, ReleaseOf
<1>2. inst[i].fn \in Functions /\ inst[i].by \in Callers /\ claim[inst[i].by][inst[i].fn] = "import"
  BY <1>1 DEF GraphInv, Spawning
<1> QED BY <1>1, <1>2 DEF Finishes, settleBootState, ClaimInv

\* In all other steps graphs are only retired, become idle or are freed.
Frees(is) == inst' = [i \in Instances |-> IF i \in is THEN Free ELSE inst[i]]

Calms(is) ==
  /\ inst' \in [Instances -> GraphType]
  /\ \A i \in Instances : SameGraph(i) /\ inst'[i].gens = inst[i].gens
  /\ \A i \in Instances : IF i \in is THEN inst'[i].st \in {"draining", "lingering"} ELSE inst'[i] = inst[i]

LEMMA Calmed ==
  ASSUME TypeOK, [Next]_vars
  PROVE  /\ \A c \in Callers : Reload(c) => Calms({i \in Instances : \E f \in want[c] \ present : handles[f] = i})
         /\ \A r \in Requests : Progress(r) => Calms({i \in Instances : inst[i].st = "draining" /\ inst'[i] # inst[i]})
         /\ \A i \in Instances : Dispose(i) => Frees({i}) /\ inst[i].st \in {"draining", "lingering"}
         /\ Stop => Frees({i \in Instances : inst[i].st \in {"draining", "lingering"} \/ \E f \in Functions : handles[f] = i})
<1>0. inst \in [Instances -> GraphType] /\ GraphsOK
  BY DEF TypeOK, GraphsOK
<1>1. ASSUME NEW c \in Callers, Reload(c) PROVE Calms({i \in Instances : \E f \in want[c] \ present : handles[f] = i})
  <2> DEFINE is == {i \in Instances : \E f \in want[c] \ present : handles[f] = i}
  <2>1. inst' = [i \in Instances |-> IF i \in is THEN Retired(i) ELSE inst[i]]
    <3>1. \A i \in Instances : (\E f \in {f \in want[c] \ present : handles[f] # None} : handles[f] = i) <=> i \in is
      BY HostAssumption
    <3> QED BY <1>1, <3>1 DEF Reload
  <2> HIDE DEF is
  <2>2. \A i \in Instances : inst'[i] = IF i \in is THEN Retired(i) ELSE inst[i]
    BY <2>1
  <2>3. inst' \in [Instances -> GraphType]
    BY <1>0, <2>1, RetiredTyped
  <2>4. \A i \in Instances : SameGraph(i) /\ inst'[i].gens = inst[i].gens
    BY <1>0, <2>2, RetiredTyped DEF SameGraph
  <2>5. Calms(is)
    BY <1>0, <2>2, <2>3, <2>4, RetiredTyped DEF Calms
  <2> QED BY <2>5 DEF is
<1>2. ASSUME NEW r \in Requests, Progress(r)
      PROVE  Calms({i \in Instances : inst[i].st = "draining" /\ inst'[i] # inst[i]})
  <2>1. CASE inst' = inst
    BY <1>0, <2>1 DEF Calms, SameGraph
  <2>2. CASE inst' # inst
    <3> DEFINE i == req[r].inst
    <3>1. i \in Instances /\ inst[i].st = "draining" /\ inst' = [inst EXCEPT ![i].st = "lingering"]
      BY <1>2, <2>2 DEF TypeOK, Progress, NotifyIdle, RequestType
    <3> HIDE DEF i
    <3>2. inst'[i] = [inst[i] EXCEPT !.st = "lingering"] /\ \A j \in Instances \ {i} : inst'[j] = inst[j]
      BY <1>0, <3>1
    <3>3. inst'[i] \in GraphType /\ inst'[i].st = "lingering" /\ SameGraph(i) /\ inst'[i].gens = inst[i].gens
      <4>1. inst[i] \in GraphType
        BY <1>0, <3>1
      <4> QED BY <3>2, <4>1 DEF GraphType, Statuses, SameGraph
    <3>4. inst' \in [Instances -> GraphType]
      BY <1>0, <3>1, <3>3
    <3> QED BY <3>1, <3>2, <3>3, <3>4 DEF Calms, SameGraph
  <2> QED BY <2>1, <2>2
<1>3. ASSUME NEW i \in Instances, Dispose(i) PROVE Frees({i}) /\ inst[i].st \in {"draining", "lingering"}
  BY <1>0, <1>3 DEF Dispose, Frees
<1>4. ASSUME Stop
      PROVE  Frees({i \in Instances : inst[i].st \in {"draining", "lingering"} \/ \E f \in Functions : handles[f] = i})
  BY <1>4 DEF Stop, Frees
<1> QED BY <1>1, <1>2, <1>3, <1>4

LEMMA GenGrows ==
  ASSUME TypeOK, [Next]_vars
  PROVE  (gen' = gen \/ gen' = gen + 1) /\ gen \in Nat /\ gen >= 1
<1>1. gen' = gen \/ gen' = gen + 1
  BY FrameRefs DEF Spawn, ImportFails, ReleaseOf, Dispose, Release, Affected, Bump, Stop
<1> QED BY <1>1 DEF TypeOK, Generations

LEMMA GraphTypes ==
  ASSUME TypeOK, ClaimInv, GraphInv, [Next]_vars
  PROVE  inst' \in [Instances -> GraphType] /\ \A i \in Instances : inst'[i].gens \subseteq 1..gen' /\ inst'[i].pin \in 0..gen'
<1> DEFINE Bound(i) == inst'[i].gens \subseteq 1..gen' /\ inst'[i].pin \in 0..gen'
<1>0. /\ inst \in [Instances -> GraphType] /\ GraphsOK /\ gen \in 1..gen /\ 1..gen \subseteq 1..gen' /\ 0..gen \subseteq 0..gen'
      /\ \A i \in Instances : inst[i].gens \subseteq 1..gen /\ inst[i].pin \in 0..gen
  BY GenGrows, SMTT(30) DEF TypeOK, GraphsOK
<1>1. \A i \in Instances : (inst'[i] = inst[i] => Bound(i)) /\ (inst'[i] = Free => Bound(i))
  BY <1>0, GenGrows DEF Free
<1>2. ASSUME NEW c \in Callers, NEW f \in Functions, Spawn(c, f) PROVE inst' \in [Instances -> GraphType] /\ \A i \in Instances : Bound(i)
  <2>1. CASE UNCHANGED inst
    BY <1>0, <1>1, <2>1
  <2>2. ASSUME NEW i \in Instances, inst' = [inst EXCEPT ![i] = inst'[i]], inst'[i] \in GraphType, inst'[i].gens = {},
               inst'[i].pin = (IF sharing THEN gen ELSE 0)
        PROVE  inst' \in [Instances -> GraphType] /\ \A j \in Instances : Bound(j)
    <3>1. Bound(i)
      BY <1>0, <2>2, GenGrows
    <3> QED BY <1>0, <1>1, <2>2, <3>1
  <2> QED BY <1>2, <2>1, <2>2, Spawned
<1>3. ASSUME NEW i \in Instances, ImportBegins(i) PROVE inst' \in [Instances -> GraphType] /\ \A j \in Instances : Bound(j)
  <2>1. Bound(i)
    BY <1>0, <1>3, ImportStarted
  <2> QED BY <1>0, <1>1, <1>3, <2>1, ImportStarted
<1>4. ASSUME NEW i \in Instances, ImportEnds(i) PROVE inst' \in [Instances -> GraphType] /\ \A j \in Instances : Bound(j)
  <2>1. \A j \in Instances : Bound(j)
    BY <1>0, <1>4, Registered DEF SameGraph
  <2> QED BY <1>4, <2>1, Registered
<1>5. ASSUME NEW is, Frees(is) PROVE inst' \in [Instances -> GraphType] /\ \A j \in Instances : Bound(j)
  BY <1>0, <1>1, <1>5, FreeTyped DEF Frees
<1>6. ASSUME NEW i \in Instances, ImportFails(i) PROVE inst' \in [Instances -> GraphType] /\ \A j \in Instances : Bound(j)
  BY <1>0, <1>1, <1>6, Failed, FreeTyped
<1>7. ASSUME NEW is, Calms(is) PROVE inst' \in [Instances -> GraphType] /\ \A j \in Instances : Bound(j)
  BY <1>0, <1>7 DEF Calms, SameGraph
<1>8. CASE UNCHANGED inst
  BY <1>0, <1>1, <1>8
<1> QED
  BY <1>2, <1>3, <1>4, <1>5, <1>6, <1>7, <1>8, Calmed, FrameGraphs

LEMMA ImportClaims ==
  ASSUME TypeOK, ClaimInv, GraphInv, RequestInv, [Next]_vars, NEW c \in Callers, NEW f \in Functions, claim[c][f] = "import"
  PROVE  \/ claim'[c][f] = "import"
         \/ \E i \in Instances : (ImportEnds(i) \/ ImportFails(i)) /\ inst[i].fn = f /\ inst[i].by = c
<1>0. ClaimsOK /\ phase[c] = "reload"
  BY DEF TypeOK, ClaimsOK, ClaimInv
<1> USE DEF ClaimsOK
<1>1. ASSUME NEW d \in Callers, NEW g \in Functions, Spawn(d, g) PROVE claim'[c][f] = "import"
  <2>1. claim[d][g] = "chain" /\ (claim' = [claim EXCEPT ![d][g] = "import"] \/ claim' = [claim EXCEPT ![d][g] = "none"])
    BY <1>1, Spawned DEF Spawn, Opens, Finishes, ClaimEnds
  <2>2. ASSUME NEW s \in {"import", "none"}, claim' = [claim EXCEPT ![d][g] = s], claim[d][g] = "chain" PROVE claim'[c][f] = "import"
    BY <1>0, <2>2
  <2> QED BY <2>1, <2>2
<1>2. ASSUME NEW i \in Instances, ImportEnds(i) \/ ImportFails(i), ~(inst[i].fn = f /\ inst[i].by = c) PROVE claim'[c][f] = "import"
  <2>1. claim' = [claim EXCEPT ![inst[i].by][inst[i].fn] = "none"] /\ inst[i].by \in Callers /\ inst[i].fn \in Functions
    BY <1>2 DEF ImportEnds, ImportFails, ClaimEnds, GraphInv, Spawning
  <2> QED BY <1>0, <1>2, <2>1
<1>3. ASSUME NEW d \in Callers, NEW g \in Functions, Starts(d, g) PROVE claim'[c][f] = "import"
  <2>1. claim[d][g] = "pending" /\ \E s \in {"prepare", "chain"} : claim' = [claim EXCEPT ![d][g] = s]
    BY <1>0, <1>3, Started DEF Starts
  <2> QED BY <1>0, <2>1
<1>4. CASE Prepared
  BY <1>0, <1>4, CallersDiffer DEF Prepared
<1>5. ASSUME NEW d \in Callers, Reload(d) \/ ReloadEnds(d) PROVE claim'[c][f] = "import"
  <2>1. d # c
    BY <1>0, <1>5 DEF Reload, ReloadEnds
  <2> QED BY <1>0, <1>5, <2>1 DEF Reload, ReloadEnds
<1>6. CASE ClaimStays
  BY <1>6 DEF ClaimStays
<1>7. ASSUME NEW g \in Functions, Prioritize(g), UNCHANGED prepared PROVE claim'[c][f] = "import"
  <2>1. pendingClaim[g] # None => pendingClaim[g] \in Callers /\ claim[pendingClaim[g]][g] = "pending"
    BY <1>0 DEF ClaimInv
  <2>2. CASE boot[g] = "queued" /\ pendingClaim[g] # None
    BY <1>3, <1>7, <2>1, <2>2 DEF Prioritize, Starts
  <2> QED BY <1>7, <2>2 DEF Prioritize
<1>8. ASSUME NEW d \in Callers, NEW g \in Functions, StartClaim(d, g) PROVE claim'[c][f] = "import"
  BY <1>3, <1>8 DEF StartClaim, Starts
<1>9. ASSUME NEW r \in Requests, NEW g \in Functions, Arrive(r, g) PROVE claim'[c][f] = "import"
  BY <1>7, <1>9 DEF Arrive, Freshness
<1>10. ASSUME NEW r \in Requests, Resume(r) PROVE claim'[c][f] = "import"
  <2>1. req[r].phase = "warm" => req[r].fn \in Functions
    BY DEF RequestInv
  <2> QED BY <1>7, <1>10, <2>1 DEF Resume, Freshness
<1> QED BY <1>1, <1>2, <1>4, <1>5, <1>8, <1>9, <1>10, FrameClaims
HandlesOK == handles \in [Functions -> Instances \cup {None}] /\ known \subseteq Functions /\ importQ \in Seq(Instances)

LEMMA HandleTypes ==
  ASSUME TypeOK, ClaimInv, GraphInv, [Next]_vars
  PROVE  HandlesOK'
<1>0. HandlesOK
  BY DEF TypeOK, HandlesOK
<1>1. handles' \in [Functions -> Instances \cup {None}] /\ known' \subseteq Functions
  <2>1. ASSUME NEW c \in Callers, Reload(c) PROVE handles' \in [Functions -> Instances \cup {None}] /\ known' \subseteq Functions
    BY <1>0, <2>1 DEF HandlesOK, Reload
  <2>2. ASSUME NEW i \in Instances, ImportEnds(i)
        PROVE  handles' \in [Functions -> Instances \cup {None}] /\ known' \subseteq Functions
    <3>1. inst[i].fn \in Functions
      BY <2>2 DEF ImportEnds, GraphInv, Spawning
    <3> QED BY <1>0, <2>2, <3>1 DEF HandlesOK, ImportEnds
  <2>3. CASE Stop
    BY <1>0, <2>3 DEF HandlesOK, Stop
  <2> QED BY <1>0, <2>1, <2>2, <2>3, FrameHandles DEF HandlesOK
<1>2. importQ' \in Seq(Instances)
  <2>1. ASSUME NEW c \in Callers, NEW f \in Functions, Spawn(c, f) PROVE importQ' \in Seq(Instances)
    <3>1. \A i \in Instances : Append(importQ, i) \in Seq(Instances)
      BY <1>0 DEF HandlesOK
    <3> QED BY <1>0, <2>1, <3>1, Spawned DEF HandlesOK
  <2>2. ASSUME NEW i \in Instances, ImportEnds(i) \/ ImportFails(i) PROVE importQ' \in Seq(Instances)
    <3>1. sharing => Listed(importQ, i)
      BY <2>2 DEF ImportEnds, ImportFails, GraphInv, Spawning
    <3>2. sharing => Tail(importQ) \in Seq(Instances)
      BY <1>0, <3>1, ListedTail DEF HandlesOK
    <3> QED BY <1>0, <2>2, <3>2 DEF HandlesOK, ImportEnds, ImportFails, ImportSettled
  <2> QED BY <1>0, <2>1, <2>2, FrameImports DEF HandlesOK
<1> QED BY <1>1, <1>2 DEF HandlesOK

SpawnsOwned == \A i \in Instances : Spawning(i) =>
  /\ inst[i].fn \in Functions /\ inst[i].by \in Callers /\ claim[inst[i].by][inst[i].fn] = "import"
  /\ \A j \in Instances : Spawning(j) /\ inst[j].fn = inst[i].fn => j = i
  /\ sharing => Listed(importQ, i) /\ (inst[i].st = "importing" => Head(importQ) = i)

HandlesLive ==
  /\ \A f \in Functions : handles[f] # None => inst[handles[f]].st = "live" /\ inst[handles[f]].fn = f
  /\ \A i \in Instances : inst[i].st = "live" => inst[i].fn \in Functions /\ handles[inst[i].fn] = i

LEMMA GraphParts == GraphInv <=> SpawnsOwned /\ HandlesLive
  BY DEF GraphInv, SpawnsOwned, HandlesLive

LEMMA ImportSettles ==
  ASSUME TypeOK, ClaimInv, GraphInv, NEW i \in Instances, ImportEnds(i) \/ ImportFails(i)
  PROVE  inst[i].st = "importing" /\ inst'[i].st \in {"live", "free"}
<1>1. inst \in [Instances -> GraphType]
  BY DEF TypeOK
<1>2. CASE ImportEnds(i)
  BY <1>2, Registered
<1>3. CASE ImportFails(i)
  <2>1. inst[i].st = "importing" /\ inst' = [inst EXCEPT ![i] = Free]
    BY <1>3, Failed
  <2> QED BY <1>1, <2>1 DEF Free
<1> QED BY <1>2, <1>3

\* A step that neither starts nor ends an import leaves the graphs on their way alone.
LEMMA SpawnsStay ==
  ASSUME TypeOK, ClaimInv, GraphInv, RequestInv, [Next]_vars, UNCHANGED importQ,
         \A i \in Instances : Spawning(i)' => inst'[i] = inst[i],
         \A i \in Instances : inst[i].st = "importing" => inst'[i] = inst[i]
  PROVE  SpawnsOwned'
<1>0. \A i \in Instances : ~ImportEnds(i) /\ ~ImportFails(i)
  BY ImportSettles
<1>1. \A i \in Instances : Spawning(i) => inst[i].by \in Callers /\ inst[i].fn \in Functions /\ claim'[inst[i].by][inst[i].fn] = "import"
  BY <1>0, ImportClaims DEF GraphInv
<1>2. SpawnsOwned /\ \A i \in Instances : Spawning(i)' => Spawning(i)
  BY DEF GraphInv, SpawnsOwned, Spawning
<1>3. sharing' = sharing
  BY FrameSharing
<1> QED BY <1>1, <1>2, <1>3 DEF SpawnsOwned, Spawning

LEMMA NextGraph ==
  ASSUME TypeOK, ClaimInv, EnvInv, GraphInv, RequestInv, [Next]_vars
  PROVE  GraphInv'
<1>0. /\ GraphsOK /\ SpawnsOwned /\ HandlesLive /\ sharing' = sharing /\ None \notin Instances
      /\ \A i \in Instances : Spawning(i) => inst[i].st \notin {"free", "live", "draining", "lingering"}
  BY FrameSharing, HostAssumption DEF TypeOK, GraphsOK, GraphInv, SpawnsOwned, HandlesLive, Spawning
<1>1. ASSUME NEW c \in Callers, NEW f \in Functions, Spawn(c, f) PROVE SpawnsOwned' /\ HandlesLive'
  <2>1. CASE UNCHANGED <<inst, importQ>>
    <3>1. SpawnsOwned'
      BY <2>1, SpawnsStay DEF Spawning
    <3> QED BY <1>0, <1>1, <2>1, <3>1 DEF Spawn, HandlesLive
  <2>2. ASSUME NEW i \in Instances, ~Live(i), inst' = [inst EXCEPT ![i] = inst'[i]], Opens(c, f),
               inst'[i].fn = f, inst'[i].by = c, inst'[i].st = "waiting",
               importQ' = IF sharing THEN Append(importQ, i) ELSE importQ
        PROVE  SpawnsOwned' /\ HandlesLive'
    <3>1. /\ \A j \in Instances \ {i} : inst'[j] = inst[j]
          /\ inst[i].st = "free" /\ handles' = handles
      BY <1>0, <1>1, <2>2 DEF GraphsOK, Live, Spawn
    <3>2. \A d \in Callers, g \in Functions : claim'[d][g] = IF d = c /\ g = f THEN "import" ELSE claim[d][g]
      BY <2>2 DEF Opens, TypeOK
    <3>3. \A j \in Instances : Spawning(j) => inst[j].fn # f
      BY <1>0, <2>2 DEF Opens, ClaimInv, SpawnsOwned
    <3>4. sharing => Listed(importQ', i) /\ \A j : Listed(importQ, j) => Listed(importQ', j) /\ Head(importQ') = Head(importQ)
      BY <1>0, <2>2, ListedAppend DEF GraphsOK
    <3>5. HandlesLive'
      <4>1. ASSUME NEW g \in Functions, handles'[g] # None PROVE inst'[handles'[g]].st = "live" /\ inst'[handles'[g]].fn = g
        BY <1>0, <3>1, <4>1 DEF HandlesLive, GraphsOK
      <4>2. ASSUME NEW j \in Instances, inst'[j].st = "live" PROVE inst'[j].fn \in Functions /\ handles'[inst'[j].fn] = j
        BY <1>0, <2>2, <3>1, <4>2 DEF HandlesLive
      <4> QED BY <4>1, <4>2 DEF HandlesLive
    <3>6. \A j \in Instances : Spawning(j)' => j = i \/ (Spawning(j) /\ inst'[j] = inst[j])
      BY <3>1 DEF Spawning
    <3>7. SpawnsOwned'
      <4>1. ASSUME NEW j \in Instances, Spawning(j)'
            PROVE  inst'[j].fn \in Functions /\ inst'[j].by \in Callers /\ claim'[inst'[j].by][inst'[j].fn] = "import"
        BY <1>0, <2>2, <3>2, <3>6, <4>1 DEF SpawnsOwned
      <4>2. ASSUME NEW j \in Instances, Spawning(j)', NEW k \in Instances, Spawning(k)', inst'[k].fn = inst'[j].fn PROVE k = j
        BY <1>0, <2>2, <3>3, <3>6, <4>2 DEF SpawnsOwned
      <4>3. ASSUME NEW j \in Instances, Spawning(j)', sharing
            PROVE  Listed(importQ', j) /\ (inst'[j].st = "importing" => Head(importQ') = j)
        BY <1>0, <2>2, <3>4, <3>6, <4>3 DEF SpawnsOwned
      <4> QED BY <1>0, <4>1, <4>2, <4>3 DEF SpawnsOwned
    <3> QED BY <3>5, <3>7
  <2> QED BY <1>1, <2>1, <2>2, Spawned
<1>2. ASSUME NEW i \in Instances, ImportBegins(i) PROVE SpawnsOwned' /\ HandlesLive'
  <2>1. /\ inst[i].st = "waiting" /\ (sharing => Head(importQ) = i) /\ inst'[i].st = "importing"
        /\ inst'[i].fn = inst[i].fn /\ inst'[i].by = inst[i].by /\ \A j \in Instances \ {i} : inst'[j] = inst[j]
    BY <1>0, <1>2, ImportStarted DEF GraphsOK
  <2>2. UNCHANGED <<handles, claim, importQ>>
    BY <1>2 DEF ImportBegins
  <2>3. \A j \in Instances : (Spawning(j)' <=> Spawning(j)) /\ inst'[j].fn = inst[j].fn /\ inst'[j].by = inst[j].by
    BY <2>1 DEF Spawning
  <2>4. \A j \in Instances : inst'[j].st = "importing" => inst[j].st = "importing" \/ j = i
    BY <2>1
  <2>5. SpawnsOwned'
    BY <1>0, <2>1, <2>2, <2>3, <2>4 DEF SpawnsOwned
  <2> QED BY <1>0, <2>1, <2>2, <2>5 DEF HandlesLive, GraphsOK
<1>3. ASSUME NEW i \in Instances, ImportEnds(i) \/ ImportFails(i), \A j \in Instances \ {i} : Spawning(j)' => inst'[j] = inst[j],
             \A j \in Instances \ {i} : inst[j].st = "importing" => inst'[j] = inst[j]
      PROVE  SpawnsOwned'
  <2>0. ~Spawning(i)' /\ \A j \in Instances \ {i} : ~ImportEnds(j) /\ ~ImportFails(j)
    BY <1>3, ImportSettles DEF Spawning
  <2>1. Spawning(i) /\ inst[i].st = "importing"
    BY <1>3 DEF ImportEnds, ImportFails, Spawning
  <2>2. \A j \in Instances : Spawning(j)' => Spawning(j) /\ j # i /\ inst'[j] = inst[j] /\ inst[j].fn # inst[i].fn
    BY <1>0, <1>3, <2>0, <2>1 DEF SpawnsOwned, Spawning
  <2>3. \A j \in Instances : Spawning(j)' => claim'[inst[j].by][inst[j].fn] = "import"
    BY <1>0, <1>3, <2>0, <2>2, ImportClaims DEF SpawnsOwned
  <2>4. ASSUME NEW j \in Instances, Spawning(j)', sharing PROVE Listed(importQ', j) /\ inst'[j].st # "importing"
    <3>1. importQ' = Tail(importQ) /\ Head(importQ) = i /\ Listed(importQ, j)
      BY <1>0, <1>3, <2>1, <2>2, <2>4 DEF ImportEnds, ImportFails, ImportSettled, SpawnsOwned
    <3>2. Listed(Tail(importQ), j)
      BY <1>0, <2>2, <2>4, <3>1, ListedTail DEF GraphsOK
    <3> QED BY <1>0, <2>1, <2>2, <2>4, <3>1, <3>2 DEF SpawnsOwned
  <2> QED BY <1>0, <2>2, <2>3, <2>4 DEF SpawnsOwned
<1>4. ASSUME NEW i \in Instances, ImportEnds(i) PROVE SpawnsOwned' /\ HandlesLive'
  <2> DEFINE f == inst[i].fn
  <2>1. /\ f \in Functions /\ handles' = [handles EXCEPT ![f] = i] /\ inst'[i].st = "live" /\ inst[i].st = "importing"
        /\ \A j \in Instances : inst'[j].fn = inst[j].fn
        /\ \A j \in Instances \ {i} : inst'[j] = IF j = handles[f] THEN Retired(j) ELSE inst[j]
    BY <1>4, Registered DEF SameGraph
  <2> HIDE DEF f
  <2>2. \A j \in Instances \ {i} : IF j = handles[f] THEN inst[j].st = "live" /\ inst'[j].st \in {"draining", "lingering"}
                                   ELSE inst'[j] = inst[j]
    BY <1>0, <2>1, RetiredTyped DEF HandlesLive
  <2>3. SpawnsOwned'
    BY <1>0, <1>3, <1>4, <2>2 DEF Spawning
  <2>4. ASSUME NEW g \in Functions, handles'[g] # None PROVE inst'[handles'[g]].st = "live" /\ inst'[handles'[g]].fn = g
    <3>1. CASE g = f
      BY <1>0, <2>1, <3>1 DEF f, GraphsOK
    <3>2. CASE g # f
      <4>1. handles'[g] = handles[g] /\ handles[g] \in Instances /\ inst[handles[g]].st = "live" /\ inst[handles[g]].fn = g
        BY <1>0, <2>1, <2>4, <3>2 DEF GraphsOK, HandlesLive
      <4>2. handles[g] # i /\ (handles[f] = handles[g] => FALSE)
        BY <1>0, <2>1, <3>2, <4>1 DEF HandlesLive
      <4> QED BY <2>2, <4>1, <4>2
    <3> QED BY <3>1, <3>2
  <2>5. ASSUME NEW j \in Instances, inst'[j].st = "live" PROVE inst'[j].fn \in Functions /\ handles'[inst'[j].fn] = j
    <3>1. CASE j = i
      BY <1>0, <2>1, <3>1 DEF f, GraphsOK
    <3>2. CASE j # i
      BY <1>0, <2>1, <2>2, <2>5, <3>2 DEF GraphsOK, HandlesLive
    <3> QED BY <3>1, <3>2
  <2> QED BY <2>3, <2>4, <2>5 DEF HandlesLive
<1>5. ASSUME NEW i \in Instances, ImportFails(i) PROVE SpawnsOwned' /\ HandlesLive'
  <2>1. inst' = [inst EXCEPT ![i] = Free] /\ UNCHANGED handles /\ inst[i].st = "importing"
    BY <1>5, Failed
  <2>2. inst'[i].st = "free" /\ \A j \in Instances \ {i} : inst'[j] = inst[j]
    BY <1>0, <2>1 DEF GraphsOK, Free
  <2>3. SpawnsOwned'
    BY <1>3, <1>5, <2>2
  <2>4. ASSUME NEW g \in Functions, handles'[g] # None PROVE inst'[handles'[g]].st = "live" /\ inst'[handles'[g]].fn = g
    BY <1>0, <2>1, <2>2, <2>4 DEF GraphsOK, HandlesLive
  <2>5. ASSUME NEW j \in Instances, inst'[j].st = "live" PROVE inst'[j].fn \in Functions /\ handles'[inst'[j].fn] = j
    BY <1>0, <2>1, <2>2, <2>5 DEF HandlesLive
  <2> QED BY <2>3, <2>4, <2>5 DEF HandlesLive
<1>6. ASSUME NEW is, Calms(is) \/ Frees(is), \A i \in Instances : i \in is => ~Spawning(i), UNCHANGED importQ
      PROVE  SpawnsOwned'
  <2>1. \A i \in Instances : (Spawning(i)' => inst'[i] = inst[i]) /\ (Spawning(i) => inst'[i] = inst[i])
    BY <1>6 DEF Calms, Frees, Free, Spawning
  <2> QED BY <1>6, <2>1, SpawnsStay DEF Spawning
<1>7. ASSUME NEW c \in Callers, Reload(c) PROVE SpawnsOwned' /\ HandlesLive'
  <2> DEFINE gone == {f \in want[c] \ present : handles[f] # None}
             is == {i \in Instances : \E f \in want[c] \ present : handles[f] = i}
  <2>1. /\ Calms(is) /\ UNCHANGED importQ /\ handles' = [f \in Functions |-> IF f \in gone THEN None ELSE handles[f]]
        /\ want[c] \subseteq Functions
    BY <1>7, Calmed DEF EnvInv, Reload
  <2>2. \A i \in Instances : i \in is <=> \E f \in gone : handles[f] = i
    BY <1>0
  <2>3. gone \subseteq Functions /\ \A f \in gone : handles[f] # None
    BY <2>1
  <2>4. \A i \in Instances : IF i \in is THEN inst'[i].st \in {"draining", "lingering"} ELSE inst'[i] = inst[i]
    BY <2>1 DEF Calms
  <2> HIDE DEF gone, is
  <2>5. SpawnsOwned'
    <3>1. \A i \in is : i \in Instances => ~Spawning(i)
      BY <1>0, <2>2, <2>3 DEF HandlesLive
    <3> QED BY <1>6, <2>1, <3>1
  <2>6. ASSUME NEW f \in Functions, handles'[f] # None PROVE inst'[handles'[f]].st = "live" /\ inst'[handles'[f]].fn = f
    <3>1. f \notin gone /\ handles'[f] = handles[f] /\ handles[f] \in Instances
      BY <1>0, <2>1, <2>6 DEF GraphsOK
    <3>2. inst[handles[f]].st = "live" /\ inst[handles[f]].fn = f
      BY <1>0, <2>6, <3>1 DEF HandlesLive
    <3>3. handles[f] \notin is
      BY <1>0, <2>2, <2>3, <3>1, <3>2 DEF HandlesLive
    <3> QED BY <2>4, <3>1, <3>2, <3>3
  <2>7. ASSUME NEW i \in Instances, inst'[i].st = "live" PROVE inst'[i].fn \in Functions /\ handles'[inst'[i].fn] = i
    <3>1. i \notin is /\ inst'[i] = inst[i]
      BY <2>4, <2>7
    <3>2. inst[i].fn \in Functions /\ handles[inst[i].fn] = i
      BY <1>0, <2>7, <3>1 DEF HandlesLive
    <3> QED BY <2>1, <2>2, <3>1, <3>2
  <2> QED BY <2>5, <2>6, <2>7 DEF HandlesLive
<1>8. ASSUME NEW r \in Requests, Progress(r) PROVE SpawnsOwned' /\ HandlesLive'
  <2> DEFINE is == {i \in Instances : inst[i].st = "draining" /\ inst'[i] # inst[i]}
  <2>1. Calms(is) /\ UNCHANGED <<importQ, handles>>
    BY <1>8, Calmed DEF Progress
  <2>2. SpawnsOwned'
    <3>1. \A i \in Instances : i \in is => ~Spawning(i)
      BY DEF Spawning
    <3> QED BY <1>6, <2>1, <3>1
  <2>3. \A i \in Instances : (inst'[i].st = "live" \/ inst[i].st = "live") => inst'[i] = inst[i]
    BY <2>1 DEF Calms
  <2> QED BY <1>0, <2>1, <2>2, <2>3 DEF HandlesLive, GraphsOK
<1>9. ASSUME NEW is, Frees(is), UNCHANGED importQ, \A i \in Instances : i \in is => ~Spawning(i),
             \/ UNCHANGED handles /\ \A i \in Instances : i \in is => inst[i].st # "live"
             \/ handles' = [f \in Functions |-> None] /\ \A i \in Instances : inst[i].st = "live" => i \in is
      PROVE  SpawnsOwned' /\ HandlesLive'
  <2>1. SpawnsOwned'
    BY <1>6, <1>9
  <2>2. \A i \in Instances : inst'[i] = IF i \in is THEN Free ELSE inst[i]
    BY <1>9 DEF Frees
  <2>3. HandlesLive'
    BY <1>0, <1>9, <2>2 DEF HandlesLive, GraphsOK, Free
  <2> QED BY <2>1, <2>3
<1>10. ASSUME NEW i \in Instances, Dispose(i) PROVE SpawnsOwned' /\ HandlesLive'
  <2>1. Frees({i}) /\ inst[i].st \in {"draining", "lingering"} /\ UNCHANGED <<importQ, handles>>
    BY <1>10, Calmed DEF Dispose
  <2> QED BY <1>9, <2>1 DEF Spawning
<1>11. ASSUME Stop PROVE SpawnsOwned' /\ HandlesLive'
  <2> DEFINE is == {i \in Instances : inst[i].st \in {"draining", "lingering"} \/ \E f \in Functions : handles[f] = i}
  <2>1. Frees(is) /\ UNCHANGED importQ /\ handles' = [f \in Functions |-> None]
    BY <1>11, Calmed DEF Stop
  <2>2. \A i \in Instances : (i \in is => ~Spawning(i)) /\ (inst[i].st = "live" => i \in is)
    BY <1>0 DEF HandlesLive, Spawning
  <2> HIDE DEF is
  <2> QED BY <1>9, <2>1, <2>2
<1>12. ASSUME UNCHANGED inst PROVE SpawnsOwned' /\ HandlesLive'
  <2>1. \A i \in Instances : ~ImportEnds(i) /\ ~ImportFails(i)
    BY <1>12, ImportSettles
  <2>3. ASSUME UNCHANGED importQ PROVE SpawnsOwned' /\ HandlesLive'
    <3>1. SpawnsOwned'
      BY <1>12, <2>3, SpawnsStay
    <3>2. ASSUME UNCHANGED handles PROVE HandlesLive'
      BY <1>0, <1>12, <3>1, <3>2 DEF HandlesLive
    <3> QED BY <1>7, <1>11, <2>1, <3>1, <3>2, FrameHandles
  <2> QED BY <1>1, <2>1, <2>3, FrameImports
<1> QED
  <2>1. SpawnsOwned' /\ HandlesLive'
    BY <1>1, <1>2, <1>4, <1>5, <1>7, <1>8, <1>10, <1>11, <1>12, FrameGraphs
  <2> QED BY <2>1 DEF GraphInv, SpawnsOwned, HandlesLive
-----------------------------------------------------------------------------
(* References to generations *)

LEMMA PinnedFinite == \A g : IsFiniteSet(PinnedBy(g)) /\ Cardinality(PinnedBy(g)) \in Nat
<1>1. \A g : IsFiniteSet(PinnedBy(g))
  <2>1. \A g : PinnedBy(g) \in SUBSET Instances
    BY DEF PinnedBy
  <2> QED BY <2>1, HostAssumption, FS_Subset
<1> QED BY <1>1, FS_CardinalityType

SharedsOK == refs \in [Generations -> Nat] /\ retired \subseteq 1..(gen - 1)

\* Nothing is pinned or released.
LEMMA PinsStay ==
  ASSUME TypeOK, RefsInv, UNCHANGED shareds,
         \A i \in Instances : (Live(i)' <=> Live(i)) /\ inst'[i].pin = inst[i].pin
  PROVE  RefsInv' /\ SharedsOK'
<1>1. \A g : PinnedBy(g)' = PinnedBy(g)
  BY DEF PinnedBy
<1> QED BY <1>1 DEF RefsInv, TypeOK, SharedsOK

LEMMA Released ==
  ASSUME TypeOK, RefsInv, NEW is \in SUBSET Instances, \A i \in is : Live(i), Frees(is), Release(is)
  PROVE  RefsInv' /\ SharedsOK'
<1> DEFINE own(g) == {i \in is : inst[i].pin = g}
<1>1. \A g \in Generations : PinnedBy(g)' = PinnedBy(g) \ own(g) /\ own(g) \subseteq PinnedBy(g)
  <2>1. \A i \in Instances : inst'[i] = IF i \in is THEN Free ELSE inst[i]
    BY DEF Frees
  <2> QED BY <2>1 DEF PinnedBy, Live, Free
<1>2. \A g \in Generations :
        /\ IsFiniteSet(own(g)) /\ Cardinality(own(g)) \in Nat
        /\ Cardinality(PinnedBy(g)') = Cardinality(PinnedBy(g)) - Cardinality(own(g))
  <2> TAKE g \in Generations
  <2>1. IsFiniteSet(own(g)) /\ Cardinality(own(g)) \in Nat
    <3>1. IsFiniteSet(own(g))
      BY <1>1, PinnedFinite, FS_Subset
    <3> QED BY <3>1, FS_CardinalityType
  <2>2. own(g) = PinnedBy(g) \cap own(g)
    BY <1>1
  <2>3. Cardinality(PinnedBy(g) \ own(g)) = Cardinality(PinnedBy(g)) - Cardinality(PinnedBy(g) \cap own(g))
    BY PinnedFinite, <2>1, FS_Difference
  <2> QED BY <1>1, <2>1, <2>2, <2>3
<1>3. \A g \in Generations : refs'[g] = refs[g] - Cardinality(own(g))
  BY DEF Release, Pins, TypeOK
<1> HIDE DEF own
<1>4. refs' = [g \in Generations |-> Cardinality(PinnedBy(g)')]
  <2>1. DOMAIN refs' = Generations /\ refs' = [g \in DOMAIN refs' |-> refs'[g]]
    BY DEF Release, TypeOK
  <2> QED BY <1>2, <1>3, <2>1 DEF RefsInv
<1>5. \A g \in Generations : Cardinality(PinnedBy(g)') \in Nat /\ (refs'[g] > 0 => refs[g] > 0)
  <2> TAKE g \in Generations
  <2>1. Cardinality(PinnedBy(g)') \in Nat
    BY PinnedFinite, <1>1, FS_CardinalityType, FS_Subset
  <2>2. refs'[g] = refs[g] - Cardinality(own(g)) /\ refs[g] \in Nat /\ Cardinality(own(g)) \in Nat
    BY <1>2, <1>3 DEF TypeOK
  <2> QED BY <2>1, <2>2
<1>6. retired' = {g \in retired : refs'[g] > 0} /\ gen' = gen
  BY DEF Release
<1> QED BY <1>4, <1>5, <1>6 DEF RefsInv, TypeOK, SharedsOK

LEMMA NextRefs ==
  ASSUME TypeOK, ClaimInv, EnvInv, GraphInv, RefsInv, [Next]_vars
  PROVE  RefsInv' /\ SharedsOK'
<1>0. /\ inst \in [Instances -> GraphType] /\ GraphsOK /\ refs \in [Generations -> Nat] /\ gen \in Generations
      /\ retired \subseteq 1..(gen - 1) /\ Generations \subseteq Nat \ {0}
      /\ \A f \in Functions : handles[f] # None => handles[f] \in Instances /\ Live(handles[f])
  BY DEF TypeOK, GraphsOK, GraphInv, Live, Generations
<1>1. ASSUME NEW c \in Callers, NEW f \in Functions, Spawn(c, f) PROVE RefsInv' /\ SharedsOK'
  <2>1. CASE UNCHANGED <<inst, refs>>
    BY <1>1, <2>1, PinsStay DEF Spawn, Live
  <2>2. ASSUME NEW i \in Instances, ~Live(i), inst' = [inst EXCEPT ![i] = inst'[i]], inst'[i].st = "waiting",
               inst'[i].pin = (IF sharing THEN gen ELSE 0), refs' = IF sharing THEN [refs EXCEPT ![gen] = @ + 1] ELSE refs
        PROVE  RefsInv' /\ SharedsOK'
    <3>1. gen' = gen /\ retired' = retired
      BY <1>1 DEF Spawn
    <3>2. \A j \in Instances : IF j = i THEN Live(j)' /\ ~Live(j) ELSE (Live(j)' <=> Live(j)) /\ inst'[j].pin = inst[j].pin
      BY <1>0, <2>2 DEF Live
    <3>3. \A g \in Generations : PinnedBy(g)' = IF sharing /\ g = gen THEN PinnedBy(g) \cup {i} ELSE PinnedBy(g)
      BY <1>0, <2>2, <3>2 DEF PinnedBy
    <3>4. \A g : i \notin PinnedBy(g)
      BY <2>2 DEF PinnedBy
    <3>5. Cardinality(PinnedBy(gen) \cup {i}) = Cardinality(PinnedBy(gen)) + 1
      BY <3>4, PinnedFinite, FS_AddElement
    <3>6. refs' = [g \in Generations |-> Cardinality(PinnedBy(g)')]
      BY <1>0, <2>2, <3>3, <3>5 DEF RefsInv
    <3>7. refs' \in [Generations -> Nat] /\ \A g \in Generations : g # gen => refs'[g] = refs[g]
      BY <1>0, <2>2
    <3> QED BY <1>0, <3>1, <3>6, <3>7 DEF RefsInv, SharedsOK
  <2> QED BY <1>1, <2>1, <2>2, Spawned
<1>2. ASSUME NEW i \in Instances, ImportBegins(i) PROVE RefsInv' /\ SharedsOK'
  <2>1. \A j \in Instances : (Live(j)' <=> Live(j)) /\ inst'[j].pin = inst[j].pin
    BY <1>0, <1>2, ImportStarted DEF Live
  <2> QED BY <1>2, <2>1, PinsStay DEF ImportBegins
<1>3. ASSUME NEW i \in Instances, ImportEnds(i) PROVE RefsInv' /\ SharedsOK'
  <2> DEFINE f == inst[i].fn
  <2>1. /\ inst[i].st = "importing" /\ f \in Functions /\ inst'[i].st = "live"
        /\ \A j \in Instances : inst'[j].pin = inst[j].pin
        /\ \A j \in Instances \ {i} : inst'[j] = IF j = handles[f] THEN Retired(j) ELSE inst[j]
    BY <1>3, Registered DEF SameGraph
  <2> HIDE DEF f
  <2>2. \A j \in Instances : Live(j)' <=> Live(j)
    BY <1>0, <2>1, RetiredTyped, HostAssumption DEF Live
  <2> QED BY <1>3, <2>1, <2>2, PinsStay DEF ImportEnds
<1>4. ASSUME NEW i \in Instances, ImportFails(i) PROVE RefsInv' /\ SharedsOK'
  <2>1. Frees({i}) /\ Release({i}) /\ Live(i)
    BY <1>0, <1>4, Failed DEF Frees, Live
  <2> QED BY <2>1, Released
<1>5. ASSUME NEW i \in Instances, Dispose(i) PROVE RefsInv' /\ SharedsOK'
  <2>1. Frees({i}) /\ Release({i}) /\ Live(i)
    BY <1>5, Calmed DEF Dispose, Live
  <2> QED BY <2>1, Released
<1>6. ASSUME Stop PROVE RefsInv' /\ SharedsOK'
  <2> DEFINE is == {i \in Instances : inst[i].st \in {"draining", "lingering"} \/ \E f \in Functions : handles[f] = i}
  <2>1. Frees(is) /\ Release(is)
    BY <1>6, Calmed DEF Stop
  <2>2. is \in SUBSET Instances /\ \A i \in is : Live(i)
    BY <1>0, HostAssumption DEF Live
  <2> HIDE DEF is
  <2> QED BY <2>1, <2>2, Released
<1>7. ASSUME NEW is, Calms(is), \A i \in Instances : i \in is => Live(i), UNCHANGED shareds PROVE RefsInv' /\ SharedsOK'
  <2>1. \A i \in Instances : (Live(i)' <=> Live(i)) /\ inst'[i].pin = inst[i].pin
    BY <1>7 DEF Calms, SameGraph, Live
  <2> QED BY <1>7, <2>1, PinsStay
<1>8. ASSUME NEW c \in Callers, Reload(c) PROVE RefsInv' /\ SharedsOK'
  <2> DEFINE is == {i \in Instances : \E f \in want[c] \ present : handles[f] = i}
  <2>1. Calms(is) /\ UNCHANGED shareds /\ want[c] \subseteq Functions
    BY <1>8, Calmed DEF Reload, EnvInv
  <2>2. \A i \in Instances : i \in is => Live(i)
    BY <1>0, <2>1, HostAssumption
  <2> HIDE DEF is
  <2> QED BY <1>7, <2>1, <2>2
<1>9. ASSUME NEW r \in Requests, Progress(r) PROVE RefsInv' /\ SharedsOK'
  <2> DEFINE is == {i \in Instances : inst[i].st = "draining" /\ inst'[i] # inst[i]}
  <2>1. Calms(is) /\ UNCHANGED shareds
    BY <1>9, Calmed DEF Progress
  <2>2. \A i \in Instances : i \in is => Live(i)
    BY DEF Live
  <2> HIDE DEF is
  <2> QED BY <1>7, <2>1, <2>2
<1>10. ASSUME Affected PROVE RefsInv' /\ SharedsOK'
  <2>1. UNCHANGED inst /\ (UNCHANGED shareds \/ Bump)
    BY <1>10 DEF Affected
  <2>2. CASE UNCHANGED shareds
    BY <2>1, <2>2, PinsStay DEF Live
  <2>3. ASSUME gen' = gen + 1, refs' = refs, retired' = IF refs[gen] > 0 THEN retired \cup {gen} ELSE retired
        PROVE  RefsInv' /\ SharedsOK'
    <3>1. \A g : PinnedBy(g)' = PinnedBy(g)
      BY <2>1 DEF PinnedBy, Live
    <3>2. gen \in Nat /\ gen >= 1 /\ \A g \in Generations : g \in Nat /\ refs[g] \in Nat
      BY <1>0
    <3>3. \A g \in Generations : g < gen + 1 => (g \in retired' <=> refs[g] > 0)
      BY <1>0, <2>3, <3>2 DEF RefsInv
    <3>4. retired' \subseteq 1..(gen' - 1)
      BY <1>0, <2>3, <3>2
    <3> QED BY <1>0, <2>3, <3>1, <3>3, <3>4 DEF RefsInv, SharedsOK
  <2> QED BY <2>1, <2>2, <2>3 DEF Bump
<1>11. ASSUME UNCHANGED <<inst, shareds>> PROVE RefsInv' /\ SharedsOK'
  BY <1>11, PinsStay DEF Live
<1> QED BY <1>1, <1>2, <1>3, <1>4, <1>5, <1>6, <1>8, <1>9, <1>10, <1>11, FrameGraphs, FrameRefs
-----------------------------------------------------------------------------
(* Requests *)

Ends == {"ready", "failed", "timeout"}

\* What a step may do to a request.
Told(r) == Waits(r) /\ \E s \in Ends : req'[r] = [req[r] EXCEPT !.told = s]
Moves(r) == req[r].phase = "run" /\ \E p \in {"tail", "dead"} : req'[r] = [req[r] EXCEPT !.phase = p]

WaitsAnew(r) == \E f \in Functions :
  /\ boot'[f] \in {"queued", "loading"} /\ UNCHANGED <<handles, inst, stopped>>
  /\ \/ req'[r] = [NoRequest EXCEPT !.phase = "warm", !.fn = f]
     \/ handles[f] # None /\ req'[r] = [NoRequest EXCEPT !.phase = "fresh", !.fn = f, !.inst = handles[f]]

Dispatched(r) == \E f \in Functions, i \in Instances \cup {None}, stale \in BOOLEAN :
  /\ Dispatch(r, f, i, stale) /\ UNCHANGED <<inst, stopped>>
  /\ stopped \/ (i # None /\ inst[i].fn = f /\ Live(i))

Touched(r) == Told(r) \/ Moves(r) \/ req'[r] = NoRequest \/ WaitsAnew(r) \/ Dispatched(r)

LEMMA Prioritized ==
  ASSUME TypeOK, NEW f \in Functions, Prioritize(f), boot[f] \in {"queued", "loading"}
  PROVE  boot'[f] \in {"queued", "loading"}
<1>1. CASE boot[f] = "queued" /\ pendingClaim[f] # None
  BY <1>1 DEF TypeOK, Prioritize, Starting
<1> QED BY <1>1 DEF Prioritize

LEMMA RequestSteps ==
  ASSUME TypeOK, ClaimInv, GraphInv, RequestInv, [Next]_vars
  PROVE  DOMAIN req' = Requests /\ \A r \in Requests : req'[r] = req[r] \/ Touched(r)
<1> DEFINE Goal == DOMAIN req' = Requests /\ \A r \in Requests : req'[r] = req[r] \/ Touched(r)
<1>0. req \in [Requests -> RequestType] /\ handles \in [Functions -> Instances \cup {None}]
  BY DEF TypeOK
<1>1. ASSUME NEW f, NEW s \in Ends, Tell(f, s) PROVE Goal
  BY <1>0, <1>1 DEF Tell, Touched, Told
<1>2. ASSUME NEW is, Cut(is) PROVE Goal
  BY <1>0, <1>2 DEF Cut, Touched, Moves
<1>3. ASSUME NEW c \in Callers, Reload(c) PROVE Goal
  BY <1>0, <1>3 DEF Reload, Touched, Told, Ends
<1>4. ASSUME NEW r \in Requests, DOMAIN req' = Requests, \A q \in Requests \ {r} : req'[q] = req[q], Touched(r) PROVE Goal
  BY <1>4
<1>5. ASSUME NEW r \in Requests, WaitTimeout(r) PROVE Goal
  <2>1. Told(r)
    BY <1>0, <1>5 DEF WaitTimeout, Told, Ends
  <2> QED BY <1>0, <1>4, <1>5, <2>1 DEF WaitTimeout, Touched
<1>6. ASSUME NEW r \in Requests, Progress(r) PROVE Goal
  <2>1. req'[r] = NoRequest \/ Moves(r)
    BY <1>0, <1>6 DEF Progress, Answer, Moves
  <2> QED BY <1>0, <1>4, <1>6, <2>1 DEF Progress, Answer, Touched
<1>7. ASSUME NEW r \in Requests, NEW f \in Functions, Freshness(r, f, handles[f]), handles[f] # None, UNCHANGED <<handles, inst, stopped>>
      PROVE  Goal
  <2>1. CASE boot[f] \in {"queued", "loading"}
    <3>1. boot'[f] \in {"queued", "loading"}
      BY <1>7, <2>1, Prioritized DEF Freshness
    <3>2. req' = [req EXCEPT ![r] = [NoRequest EXCEPT !.phase = "fresh", !.fn = f, !.inst = handles[f]]]
      BY <1>7, <2>1 DEF Freshness
    <3>3. WaitsAnew(r)
      BY <1>0, <1>7, <3>1, <3>2 DEF WaitsAnew
    <3> QED BY <1>0, <1>4, <3>2, <3>3 DEF Touched
  <2>2. CASE boot[f] \notin {"queued", "loading"}
    <3>1. Dispatch(r, f, handles[f], FALSE)
      BY <1>7, <2>2 DEF Freshness
    <3>2. handles[f] \in Instances /\ inst[handles[f]].fn = f /\ Live(handles[f])
      BY <1>0, <1>7 DEF GraphInv, Live
    <3>3. Dispatched(r)
      BY <1>0, <1>7, <3>1, <3>2 DEF Dispatched
    <3> QED BY <1>0, <1>4, <3>1, <3>3 DEF Dispatch, Touched
  <2> QED BY <2>1, <2>2
<1>8. ASSUME NEW r \in Requests, NEW f \in Functions, Arrive(r, f) PROVE Goal
  <2>1. CASE handles[f] # None
    BY <1>7, <1>8, <2>1 DEF Arrive
  <2>2. CASE handles[f] = None
    <3>1. boot'[f] \in {"queued", "loading"} /\ req' = [req EXCEPT ![r] = [NoRequest EXCEPT !.phase = "warm", !.fn = f]]
      BY <1>8, <2>2, Prioritized DEF Arrive
    <3>2. WaitsAnew(r)
      BY <1>0, <1>8, <3>1 DEF WaitsAnew, Arrive
    <3> QED BY <1>0, <1>4, <3>1, <3>2 DEF Touched
  <2> QED BY <2>1, <2>2
<1>9. ASSUME NEW r \in Requests, Resume(r) PROVE Goal
  <2> DEFINE f == req[r].fn
  <2>1. req[r].phase \in {"warm", "fresh"} /\ f \in Functions /\ req[r].inst \in Instances \cup {None}
    BY <1>0, <1>9 DEF Resume, RequestInv, RequestType
  <2>2. UNCHANGED <<handles, inst, stopped>>
    BY <1>9 DEF Resume
  <2> HIDE DEF f
  <2>3. CASE Answer(r)
    BY <1>0, <1>4, <2>3 DEF Answer, Touched
  <2>4. CASE Freshness(r, f, handles[f]) /\ handles[f] # None
    BY <1>7, <2>1, <2>2, <2>4
  <2>5. ASSUME NEW i \in Instances \cup {None}, NEW stale \in BOOLEAN, Dispatch(r, f, i, stale), req[r].phase = "fresh",
               i = req[r].inst \/ (i = handles[f] /\ i # None)
        PROVE  Goal
    <3>1. i = req[r].inst => stopped \/ (i # None /\ inst[i].fn = f /\ Live(i))
      BY <2>1, <2>5 DEF f, RequestInv, Live
    <3>2. i = handles[f] /\ i # None => inst[i].fn = f /\ Live(i)
      BY <2>1 DEF GraphInv, Live
    <3>3. Dispatched(r)
      BY <2>1, <2>2, <2>5, <3>1, <3>2 DEF Dispatched
    <3> QED BY <1>0, <1>4, <2>5, <3>3 DEF Dispatch, Touched
  <2>6. CASE req[r].phase = "warm"
    BY <1>9, <2>3, <2>4, <2>6 DEF Resume, f
  <2>7. CASE req[r].phase = "fresh"
    <3>1. handles[f] \in Instances \cup {None}
      BY <1>0, <2>1
    <3>2. \/ Dispatch(r, f, req[r].inst, TRUE)
          \/ handles[f] # None /\ Dispatch(r, f, handles[f], FALSE)
          \/ handles[f] = None /\ Dispatch(r, f, req[r].inst, FALSE)
      BY <1>9, <2>7 DEF Resume, f
    <3> QED BY <2>1, <2>5, <2>7, <3>1, <3>2
  <2> QED BY <2>1, <2>6, <2>7
<1>10. ASSUME NEW i \in Instances, ImportEnds(i) \/ ImportFails(i) \/ Dispose(i) PROVE Goal
  BY <1>1, <1>2, <1>10 DEF ImportEnds, ImportFails, settleBootState, Dispose, Ends
<1>11. ASSUME NEW c \in Callers, NEW f \in Functions, Spawn(c, f) PROVE Goal
  <2>1. CASE UNCHANGED req
    BY <1>0, <2>1
  <2>2. CASE Tell(f, "failed")
    BY <1>1, <2>2 DEF Ends
  <2> QED BY <1>11, <2>1, <2>2, Spawned
<1>12. CASE Stop
  BY <1>2, <1>12 DEF Stop
<1> QED BY <1>0, <1>3, <1>5, <1>6, <1>8, <1>9, <1>10, <1>11, <1>12, FrameRequests
\* Touched requests are requests.
LEMMA TouchedTyped ==
  ASSUME TypeOK, NEW r \in Requests, Touched(r)
  PROVE  req'[r] \in RequestType
<1>0. req[r] \in RequestType /\ NoRequest \in RequestType /\ handles \in [Functions -> Instances \cup {None}]
      /\ req \in [Requests -> RequestType]
  <2>1. NoRequest \in RequestType
    BY DEF NoRequest, RequestType
  <2> QED BY <2>1 DEF TypeOK
<1>1. CASE Told(r) \/ Moves(r) \/ req'[r] = NoRequest
  BY <1>0, <1>1 DEF Told, Moves, Ends, RequestType
<1>2. CASE WaitsAnew(r)
  BY <1>0, <1>2, ZenonT(60) DEF WaitsAnew, NoRequest, RequestType
<1>3. ASSUME NEW f \in Functions, NEW i \in Instances \cup {None}, NEW stale \in BOOLEAN, Dispatch(r, f, i, stale)
      PROVE  req'[r] \in RequestType
  <2> DEFINE p == IF i # None /\ inst[i].fn = f /\ Live(i) THEN "run" ELSE "refused"
             l == i # None /\ inst[i].st # "live"
  <2>1. p \in {"run", "refused"} /\ l \in BOOLEAN
    BY Zenon
  <2>2. req' = [req EXCEPT ![r] = [phase |-> p, fn |-> f, inst |-> i, late |-> l, told |-> "", stale |-> stale]]
    BY <1>3 DEF Dispatch
  <2> HIDE DEF p, l
  <2> QED BY <1>0, <2>1, <2>2 DEF RequestType
<1> QED BY <1>1, <1>2, <1>3 DEF Touched, Dispatched

LEMMA RequestTypes ==
  ASSUME TypeOK, ClaimInv, GraphInv, RequestInv, [Next]_vars
  PROVE  req' \in [Requests -> RequestType]
<1>1. DOMAIN req' = Requests /\ \A r \in Requests : req'[r] \in RequestType
  BY RequestSteps, TouchedTyped DEF TypeOK
<1>2. req' = [r \in DOMAIN req' |-> req'[r]]
  <2>1. CASE UNCHANGED req
    BY <2>1 DEF TypeOK
  <2>2. CASE (\E f \in Functions : \E s : Tell(f, s)) \/ (\E is : Cut(is)) \/ \E c \in Callers : Reload(c)
    BY <2>2 DEF Tell, Cut, Reload
  <2>3. ASSUME NEW r \in Requests, NEW q, req' = [req EXCEPT ![r] = q] PROVE req' = [x \in DOMAIN req' |-> req'[x]]
    BY <2>3 DEF TypeOK
  <2>4. ASSUME NEW i \in Instances, ImportEnds(i) \/ ImportFails(i) PROVE \E f \in Functions : \E s : Tell(f, s)
    BY <2>4, Registered, Failed
  <2>5. ASSUME NEW i \in Instances, Dispose(i) PROVE \E is : Cut(is)
    BY <2>5 DEF Dispose
  <2>6. ASSUME NEW c \in Callers, NEW f \in Functions, Spawn(c, f) PROVE UNCHANGED req \/ Tell(f, "failed")
    BY <2>6, Spawned
  <2>7. ASSUME NEW r \in Requests, NEW f \in Functions, Arrive(r, f) PROVE \E q : req' = [req EXCEPT ![r] = q]
    BY <2>7 DEF Arrive, Freshness, Dispatch
  <2>8. ASSUME NEW r \in Requests, WaitTimeout(r) \/ Resume(r) \/ Progress(r) PROVE \E q : req' = [req EXCEPT ![r] = q]
    BY <2>8 DEF WaitTimeout, Resume, Progress, Freshness, Answer, Dispatch
  <2>9. ASSUME Stop PROVE \E is : Cut(is)
    BY <2>9 DEF Stop
  <2> QED BY <2>1, <2>2, <2>3, <2>4, <2>5, <2>6, <2>7, <2>8, <2>9, FrameRequests
<1> QED BY <1>1, <1>2

\* Who waits for a function whose boot state or handle changes is told so.
LEMMA WaitersHear ==
  ASSUME TypeOK, ClaimInv, EnvInv, GraphInv, RequestInv, [Next]_vars, NEW f \in Functions, NEW r \in Requests,
         Waits(r), req[r].fn = f, req'[r] = req[r]
  PROVE  boot'[f] \in {"queued", "loading"} /\ (handles'[f] = handles[f] \/ Stop)
<1>0. boot[f] \in {"queued", "loading"} /\ ClaimsOK /\ GraphsOK /\ req \in [Requests -> RequestType] /\ req[r].told = ""
  BY DEF RequestInv, RequestsSurviveReloads, WaitersAreTold, TypeOK, ClaimsOK, GraphsOK, Waits
<1>1. ASSUME NEW s \in Ends, Tell(f, s) PROVE FALSE
  <2>1. req'[r] = [req[r] EXCEPT !.told = s]
    BY <1>0, <1>1 DEF Tell
  <2>2. req'[r].told = s
    BY <1>0, <2>1 DEF RequestType
  <2> QED BY <1>0, <2>2 DEF Ends
<1>2. ASSUME NEW c \in Callers, Reload(c)
      PROVE  boot'[f] \in {"queued", "loading"} /\ handles'[f] = handles[f]
  <2> DEFINE gone == {g \in want[c] \ present : handles[g] # None}
  <2>1. f \notin gone
    <3>1. f \in gone => req'[r] = [req[r] EXCEPT !.told = "failed"]
      BY <1>0, <1>2 DEF Reload
    <3>2. f \in gone => req'[r].told = "failed"
      BY <1>0, <3>1 DEF RequestType
    <3> QED BY <1>0, <3>2
  <2>2. handles'[f] = (IF f \in gone THEN None ELSE handles[f]) /\ boot'[f] \in {"queued", (IF f \in gone THEN "unknown" ELSE boot[f])}
    BY <1>2 DEF Reload, forgetBootState
  <2> QED BY <1>0, <2>1, <2>2
<1>3. boot'[f] \in {"queued", "loading"}
  <2>1. CASE ClaimStays \/ Prepared \/ \E c \in Callers : ReloadEnds(c)
    BY <1>0, <2>1 DEF ClaimStays, Prepared, ReloadEnds
  <2>2. ASSUME NEW c \in Callers, NEW g \in Functions, Starts(c, g) \/ Opens(c, g) PROVE boot'[f] \in {"queued", "loading"}
    BY <1>0, <2>2, Started DEF ClaimsOK, Opens
  <2>3. ASSUME boot'[f] # boot[f], boot'[f] \in {"ready", "failed"} PROVE FALSE
    <3>1. ASSUME NEW i \in Instances, ImportEnds(i) \/ ImportFails(i) PROVE FALSE
      <4>1. /\ inst[i].fn \in Functions /\ \E s \in {"ready", "failed"} : Tell(inst[i].fn, s) /\ boot' = [boot EXCEPT ![inst[i].fn] = s]
        BY <3>1, Registered, Failed DEF ImportEnds, ImportFails, settleBootState
      <4>2. inst[i].fn = f
        BY <1>0, <2>3, <4>1 DEF ClaimsOK
      <4> QED BY <1>1, <4>1, <4>2 DEF Ends
    <3>2. ASSUME NEW c \in Callers, NEW g \in Functions, Spawn(c, g) PROVE FALSE
      <4>1. boot' = boot \/ (boot' = [boot EXCEPT ![g] = "failed"] /\ Tell(g, "failed"))
        BY <3>2, Spawned DEF Opens, Finishes
      <4>2. g = f /\ Tell(g, "failed")
        BY <1>0, <2>3, <4>1 DEF ClaimsOK
      <4> QED BY <1>1, <4>2 DEF Ends
    <3>3. ASSUME NEW c \in Callers, Reload(c) PROVE FALSE
      BY <1>2, <2>3, <3>3
    <3>4. ASSUME NEW g \in Functions, Prioritize(g) PROVE FALSE
      BY <1>0, <2>3, <3>4 DEF ClaimsOK, Prioritize, Starting
    <3>5. ASSUME NEW q \in Requests, Resume(q) PROVE FALSE
      <4>1. UNCHANGED boot \/ (req[q].phase = "warm" /\ Prioritize(req[q].fn))
        BY <3>5 DEF Resume, Freshness
      <4> QED BY <2>3, <3>4, <4>1 DEF RequestInv
    <3>6. ASSUME NEW q \in Requests, NEW g \in Functions, Arrive(q, g) PROVE FALSE
      BY <3>4, <3>6 DEF Arrive, Freshness
    <3>7. ASSUME NEW c \in Callers, NEW g \in Functions, StartClaim(c, g) PROVE FALSE
      BY <1>0, <2>3, <3>7 DEF ClaimsOK, StartClaim, Starting
    <3> QED BY <2>3, <3>1, <3>2, <3>3, <3>5, <3>6, <3>7, FrameClaims DEF Prepared, ReloadEnds
  <2>4. ASSUME NEW c \in Callers, NEW g \in Functions, NEW s \in {"ready", "failed"}, Finishes(c, g, s)
        PROVE  boot'[f] \in {"queued", "loading"}
    BY <1>0, <2>3, <2>4 DEF ClaimsOK, Finishes
  <2> QED
    <3>1. \A c \in Callers, g \in Functions, s \in {"ready", "failed"} : Finishes(c, g, s) => boot'[f] \in {"queued", "loading"}
      BY <2>4
    <3> QED BY <1>2, <2>1, <2>2, <3>1, ClaimSteps
<1>4. handles'[f] = handles[f] \/ Stop
  <2>1. ASSUME NEW i \in Instances, ImportEnds(i) PROVE handles'[f] = handles[f]
    <3>1. inst[i].fn \in Functions /\ Tell(inst[i].fn, "ready") /\ handles' = [handles EXCEPT ![inst[i].fn] = i]
      BY <2>1, Registered
    <3>2. inst[i].fn # f
      BY <1>1, <3>1 DEF Ends
    <3> QED BY <3>1, <3>2
  <2> QED BY <1>2, <2>1, FrameHandles
<1> QED BY <1>3, <1>4
Serves(i) == inst[i].st \in {"live", "draining", "lingering"}

\* What becomes of the graphs requests are in.
LEMMA GraphMoves ==
  ASSUME TypeOK, ClaimInv, EnvInv, GraphInv, [Next]_vars, NEW i \in Instances
  PROVE  /\ Serves(i) => Dispose(i) \/ Stop \/ (Serves(i)' /\ SameGraph(i))
         /\ inst'[i].st = "lingering" => inst[i].st = "lingering" \/ \A r \in WorksIn(i) : req'[r].phase = "idle"
<1> DEFINE Goal == /\ Serves(i) => Dispose(i) \/ Stop \/ (Serves(i)' /\ SameGraph(i))
                   /\ inst'[i].st = "lingering" => inst[i].st = "lingering" \/ \A r \in WorksIn(i) : req'[r].phase = "idle"
<1>0. GraphsOK /\ req \in [Requests -> RequestType]
  BY DEF TypeOK, GraphsOK
<1>1. ASSUME inst'[i] = inst[i] PROVE Goal
  BY <1>1 DEF Serves, SameGraph
<1>2. ASSUME inst'[i] = Retired(i) PROVE Goal
  BY <1>0, <1>2, RetiredTyped DEF Serves, SameGraph, Busy
<1>3. ASSUME NEW c \in Callers, NEW f \in Functions, Spawn(c, f) PROVE Goal
  <2>1. CASE UNCHANGED inst
    BY <1>1, <2>1
  <2>2. ASSUME NEW j \in Instances, ~Live(j), inst' = [inst EXCEPT ![j] = inst'[j]], inst'[j].st = "waiting" PROVE Goal
    <3>1. CASE i = j
      BY <2>2, <3>1 DEF Serves, Live
    <3>2. CASE i # j
      BY <1>0, <1>1, <2>2, <3>2 DEF GraphsOK
    <3> QED BY <3>1, <3>2
  <2> QED BY <1>3, <2>1, <2>2, Spawned
<1>4. ASSUME NEW j \in Instances, ImportBegins(j) PROVE Goal
  <2>1. inst[j].st = "waiting" /\ inst'[j].st = "importing" /\ inst' = [inst EXCEPT ![j] = inst'[j]]
    BY <1>4, ImportStarted
  <2>2. CASE i = j
    BY <2>1, <2>2 DEF Serves
  <2>3. CASE i # j
    BY <1>0, <1>1, <2>1, <2>3 DEF GraphsOK
  <2> QED BY <2>2, <2>3
<1>5. ASSUME NEW j \in Instances, ImportEnds(j) PROVE Goal
  <2>1. CASE i = j
    BY <1>5, <2>1, Registered DEF Serves
  <2>2. CASE i # j
    BY <1>1, <1>2, <1>5, <2>2, Registered
  <2> QED BY <2>1, <2>2
<1>6. ASSUME NEW is, Frees(is), i \in is => ~Serves(i) \/ Dispose(i) \/ Stop PROVE Goal
  <2>1. i \in is => inst'[i] = Free
    BY <1>6 DEF Frees
  <2>2. i \notin is => inst'[i] = inst[i]
    BY <1>6 DEF Frees
  <2> QED BY <1>1, <1>6, <2>1, <2>2 DEF Free, Serves
<1>7. ASSUME NEW j \in Instances, ImportFails(j) PROVE Goal
  <2>1. inst' = [inst EXCEPT ![j] = Free] /\ inst[j].st = "importing"
    BY <1>7, Failed
  <2>2. Frees({j})
    BY <1>0, <2>1 DEF Frees, GraphsOK
  <2>3. ~Serves(j)
    BY <2>1 DEF Serves
  <2> QED BY <1>6, <2>2, <2>3
<1>8. ASSUME NEW j \in Instances, Dispose(j) PROVE Goal
  BY <1>6, <1>8, Calmed
<1>9. ASSUME Stop PROVE Goal
  BY <1>6, <1>9, Calmed
<1>10. ASSUME NEW c \in Callers, Reload(c) PROVE Goal
  BY <1>1, <1>2, <1>10 DEF Reload
<1>11. ASSUME NEW r \in Requests, Progress(r) PROVE Goal
  <2>1. CASE inst'[i] = inst[i]
    BY <1>1, <2>1
  <2>2. CASE inst'[i] # inst[i]
    <3>1. /\ req[r].inst = i /\ inst[i].st = "draining" /\ inst' = [inst EXCEPT ![i].st = "lingering"]
          /\ WorksIn(i) = {q \in WorksIn(i) : req'[q].phase = "idle"}
      BY <1>0, <1>11, <2>2 DEF Progress, NotifyIdle, GraphsOK
    <3>2. inst[i] \in GraphType /\ inst'[i] = [inst[i] EXCEPT !.st = "lingering"]
      BY <1>0, <3>1 DEF GraphsOK
    <3>3. inst'[i].st = "lingering" /\ SameGraph(i)
      BY <3>2 DEF GraphType, SameGraph
    <3> QED BY <3>1, <3>3 DEF Serves
  <2> QED BY <2>1, <2>2
<1>12. ASSUME UNCHANGED inst PROVE Goal
  BY <1>1, <1>12
<1> QED BY <1>3, <1>4, <1>5, <1>7, <1>8, <1>9, <1>10, <1>11, <1>12, FrameGraphs

\* What holds of one request.
RequestOK(r) ==
  /\ req[r].told # "" => req[r].phase \in {"warm", "fresh"}
  /\ req[r].phase \in {"warm", "fresh"} => req[r].fn \in Functions
  /\ ~stopped /\ req[r].phase = "fresh" =>
       /\ req[r].told = "" => req[r].inst = handles[req[r].fn]
       /\ req[r].inst # None /\ inst[req[r].inst].fn = req[r].fn /\ Serves(req[r].inst)
  /\ Waits(r) => boot[req[r].fn] \in {"queued", "loading"}
  /\ \A i \in Instances : inst[i].st = "lingering" /\ r \in WorksIn(i) => req[r].late
  /\ req[r].phase = "refused" => stopped

LEMMA RequestParts == RequestInv <=> \A r \in Requests : RequestOK(r)
  BY DEF RequestInv, RequestOK, RequestsSurviveReloads, WaitersAreTold, LingerIsIdle, NeverUnloaded, WorksIn, Serves

LEMMA NextRequest ==
  ASSUME TypeOK, ClaimInv, EnvInv, GraphInv, RequestInv, [Next]_vars
  PROVE  RequestInv'
<1> SUFFICES ASSUME NEW r \in Requests PROVE RequestOK(r)'
  BY DEF RequestInv, RequestOK, RequestsSurviveReloads, WaitersAreTold, LingerIsIdle, NeverUnloaded, WorksIn, Serves
<1>0. /\ RequestOK(r) /\ req[r] \in RequestType /\ req'[r] \in RequestType /\ GraphsOK /\ None \notin Instances \cup Functions
      /\ (stopped => stopped')
  BY FrameStopped, RequestTypes, HostAssumption, ZenonT(60)
     DEF RequestInv, RequestOK, RequestsSurviveReloads, WaitersAreTold, LingerIsIdle, NeverUnloaded, WorksIn, Serves, TypeOK, GraphsOK,
         Stop
<1> DEFINE LateOK == \A i \in Instances : inst'[i].st = "lingering" /\ (r \in WorksIn(i))' => req'[r].late
\* A request that stays in its graph.
<1>1. ASSUME req'[r].inst = req[r].inst, req'[r].phase \in {"run", "tail"} => req[r].phase \in {"run", "tail"}, req'[r].late = req[r].late
      PROVE  LateOK
  <2> SUFFICES ASSUME NEW i \in Instances, inst'[i].st = "lingering", (r \in WorksIn(i))' PROVE req'[r].late
    OBVIOUS
  <2>1. r \in WorksIn(i) /\ req'[r].phase # "idle"
    BY <1>1 DEF WorksIn
  <2>2. inst[i].st = "lingering"
    BY <2>1, GraphMoves
  <2> QED BY <1>0, <1>1, <2>1, <2>2 DEF RequestOK
<1>2. ASSUME req'[r].phase \notin {"run", "tail"} PROVE LateOK
  BY <1>2 DEF WorksIn
\* A request that may still fall back to its graph.
<1>3. ASSUME req'[r].inst = req[r].inst, req'[r].fn = req[r].fn, req[r].phase = "fresh", ~stopped',
             req[r].told # "" \/ req[r].inst = handles[req[r].fn], \A i \in Instances : Dispose(i) => req[r].told = ""
      PROVE  req'[r].inst # None /\ inst'[req'[r].inst].fn = req'[r].fn /\ Serves(req[r].inst)'
  <2>1. PICK i \in Instances : i = req[r].inst /\ Serves(i) /\ inst[i].fn = req[r].fn /\ req[r].fn \in Functions
    BY <1>0, <1>3 DEF RequestOK, RequestType
  <2>2. ~Dispose(i)
    <3>1. ASSUME Dispose(i) PROVE FALSE
      <4>1. i = handles[req[r].fn] /\ inst[i].st \in {"draining", "lingering"}
        BY <1>3, <2>1, <3>1 DEF Dispose, ToldFirst
      <4> QED BY <1>0, <2>1, <4>1 DEF GraphInv
    <3> QED BY <3>1
  <2>3. ~Stop
    BY <1>3 DEF Stop
  <2>4. Serves(i)' /\ inst'[i].fn = inst[i].fn
    BY <2>1, <2>2, <2>3, GraphMoves DEF SameGraph
  <2> QED BY <1>0, <1>3, <2>1, <2>4 DEF Serves
<1>4. CASE req'[r] = req[r]
  <2>1. Waits(r)' => boot'[req'[r].fn] \in {"queued", "loading"}
    BY <1>0, <1>4, WaitersHear DEF RequestOK, Waits
  <2>2. LateOK
    BY <1>1, <1>4
  <2>3. ASSUME ~stopped', req'[r].phase = "fresh"
        PROVE  /\ req'[r].told = "" => req'[r].inst = handles'[req'[r].fn]
               /\ req'[r].inst # None /\ inst'[req'[r].inst].fn = req'[r].fn /\ Serves(req[r].inst)'
    <3>1. ~stopped /\ ~Stop /\ req[r].fn \in Functions /\ (req[r].told = "" => Waits(r) /\ req[r].inst = handles[req[r].fn])
      BY <1>0, <1>4, <2>3 DEF RequestOK, Waits, Stop
    <3>2. req'[r].told = "" => req'[r].inst = handles'[req'[r].fn]
      BY <1>4, <3>1, WaitersHear
    <3>3. \A i \in Instances : Dispose(i) => req[r].told = ""
      BY DEF Dispose, ToldFirst
    <3>4. req'[r].inst = req[r].inst /\ req'[r].fn = req[r].fn /\ req[r].phase = "fresh"
      BY <1>4, <2>3
    <3> QED BY <1>3, <2>3, <3>1, <3>2, <3>3, <3>4
  <2> QED BY <1>0, <1>4, <2>1, <2>2, <2>3 DEF RequestOK
<1>5. CASE Told(r)
  <2>1. PICK s \in Ends : Waits(r) /\ req'[r] = [req[r] EXCEPT !.told = s]
    BY <1>5 DEF Told
  <2>2. /\ req'[r].phase = req[r].phase /\ req'[r].fn = req[r].fn /\ req'[r].inst = req[r].inst /\ req'[r].told = s /\ s # ""
        /\ req[r].phase \in {"warm", "fresh"} /\ req[r].told = ""
    BY <1>0, <2>1 DEF RequestType, Waits, Ends
  <2>3. LateOK
    BY <1>2, <2>2
  <2>4. ASSUME ~stopped', req'[r].phase = "fresh"
        PROVE  req'[r].inst # None /\ inst'[req'[r].inst].fn = req'[r].fn /\ Serves(req[r].inst)'
    BY <1>0, <1>3, <2>2, <2>4 DEF RequestOK
  <2> QED BY <1>0, <2>2, <2>3, <2>4 DEF RequestOK, Waits
<1>6. CASE Moves(r)
  <2>1. /\ req[r].phase = "run" /\ req'[r].phase \in {"tail", "dead"} /\ req'[r].inst = req[r].inst /\ req'[r].late = req[r].late
        /\ req'[r].told = req[r].told
    BY <1>0, <1>6 DEF Moves, RequestType
  <2>2. LateOK
    BY <1>1, <2>1
  <2> QED BY <1>0, <2>1, <2>2 DEF RequestOK, Waits
<1>7. CASE req'[r] = NoRequest
  <2>0. NoRequest.phase = "idle" /\ NoRequest.told = ""
    BY DEF NoRequest
  <2>1. req'[r].phase = "idle" /\ req'[r].told = ""
    BY <1>7, <2>0
  <2>2. LateOK
    BY <1>2, <2>1
  <2> QED BY <2>1, <2>2 DEF RequestOK, Waits
<1>8. CASE WaitsAnew(r)
  <2>1. PICK f \in Functions :
          /\ boot'[f] \in {"queued", "loading"} /\ UNCHANGED <<handles, inst, stopped>>
          /\ \/ req'[r] = [NoRequest EXCEPT !.phase = "warm", !.fn = f]
             \/ handles[f] # None /\ req'[r] = [NoRequest EXCEPT !.phase = "fresh", !.fn = f, !.inst = handles[f]]
    BY <1>8 DEF WaitsAnew
  <2>2. /\ req'[r].told = "" /\ req'[r].fn = f /\ req'[r].phase \in {"warm", "fresh"}
        /\ req'[r].phase = "fresh" => handles[f] # None /\ req'[r].inst = handles[f]
    BY <2>1 DEF NoRequest
  <2>3. LateOK
    BY <1>2, <2>2
  <2>4. ASSUME req'[r].phase = "fresh"
        PROVE  /\ req'[r].inst = handles'[req'[r].fn] /\ req'[r].inst # None
               /\ inst'[req'[r].inst].fn = req'[r].fn /\ Serves(req[r].inst)'
    BY <2>1, <2>2, <2>4 DEF GraphInv, Serves
  <2>5. req'[r].phase # "refused" /\ boot'[req'[r].fn] \in {"queued", "loading"}
    BY <2>1, <2>2
  <2> QED BY <2>2, <2>3, <2>4, <2>5 DEF RequestOK, Waits
<1>9. CASE Dispatched(r)
  <2>1. PICK f \in Functions, i \in Instances \cup {None}, stale \in BOOLEAN :
          /\ Dispatch(r, f, i, stale) /\ UNCHANGED <<inst, stopped>>
          /\ stopped \/ (i # None /\ inst[i].fn = f /\ Live(i))
    BY <1>9 DEF Dispatched
  <2> DEFINE p == IF i # None /\ inst[i].fn = f /\ Live(i) THEN "run" ELSE "refused"
             l == i # None /\ inst[i].st # "live"
  <2>2. req' = [req EXCEPT ![r] = [phase |-> p, fn |-> f, inst |-> i, late |-> l, told |-> "", stale |-> stale]]
    BY <2>1 DEF Dispatch
  <2>3. p \in {"run", "refused"} /\ (p = "refused" => stopped) /\ (i # None /\ inst[i].st = "lingering" => l = TRUE)
    BY <2>1
  <2> HIDE DEF p, l
  <2>4. req'[r].phase = p /\ req'[r].inst = i /\ req'[r].told = "" /\ req'[r].late = l
    BY <2>2 DEF TypeOK
  <2>5. LateOK
    BY <1>0, <2>1, <2>3, <2>4 DEF WorksIn
  <2> QED BY <2>1, <2>3, <2>4, <2>5 DEF RequestOK, Waits
<1> QED BY <1>4, <1>5, <1>6, <1>7, <1>8, <1>9, RequestSteps DEF Touched
-----------------------------------------------------------------------------
(* Boot states *)

LEMMA NextBoot ==
  ASSUME TypeOK, ClaimInv, EnvInv, GraphInv, BootStatesMean, RequestInv, [Next]_vars
  PROVE  BootStatesMean'
<1> SUFFICES ASSUME ~stopped', NEW f \in Functions
             PROVE  /\ boot'[f] = "ready" => handles'[f] # None
                    /\ boot'[f] = "queued" => pendingClaim'[f] # None
                    /\ boot'[f] = "loading" => \E c \in Callers : claim'[c][f] \in {"prepare", "chain", "import"}
  BY DEF BootStatesMean
<1> DEFINE Going(x) == \E c \in Callers : x[c][f] \in {"prepare", "chain", "import"}
           Goal == /\ boot'[f] = "queued" => pendingClaim'[f] # None
                   /\ boot'[f] = "loading" => Going(claim')
<1>0. /\ ~stopped /\ ~Stop /\ ClaimsOK /\ GraphsOK /\ None \notin Callers \cup Instances
      /\ boot[f] = "ready" => handles[f] # None
      /\ boot[f] = "queued" => pendingClaim[f] # None
      /\ boot[f] = "loading" => Going(claim)
  BY FrameStopped, HostAssumption DEF BootStatesMean, TypeOK, ClaimsOK, GraphsOK, Stop
<1>1. ASSUME boot'[f] = "ready" PROVE handles'[f] # None
  <2>1. ASSUME NEW i \in Instances, ImportEnds(i), inst[i].fn = f PROVE handles'[f] # None
    BY <1>0, <2>1, Registered DEF GraphsOK
  <2>2. boot[f] = "ready" \/ \E i \in Instances : ImportEnds(i) /\ inst[i].fn = f
    <3>1. CASE ClaimStays \/ Prepared \/ \E c \in Callers : Reload(c) \/ ReloadEnds(c)
      BY <1>0, <1>1, <3>1 DEF ClaimStays, Prepared, Reload, ReloadEnds, forgetBootState
    <3>2. ASSUME NEW c \in Callers, NEW g \in Functions, Starts(c, g) \/ Opens(c, g) \/ Finishes(c, g, "failed") PROVE boot[f] = "ready"
      BY <1>0, <1>1, <3>2, Started DEF ClaimsOK, Opens, Finishes
    <3>3. ASSUME NEW c \in Callers, NEW g \in Functions, Finishes(c, g, "ready"), g # f PROVE boot[f] = "ready"
      BY <1>0, <1>1, <3>3 DEF ClaimsOK, Finishes
    <3> QED BY <3>1, <3>2, <3>3, ClaimSteps
  <2>3. ASSUME NEW i \in Instances, ImportEnds(i), inst[i].fn # f, boot[f] = "ready" PROVE handles'[f] # None
    BY <1>0, <2>3, Registered DEF GraphsOK
  <2>4. ASSUME NEW c \in Callers, Reload(c), boot[f] = "ready" PROVE handles'[f] # None
    <3>1. f \notin {g \in want[c] \ present : handles[g] # None}
      BY <1>0, <1>1, <2>4 DEF Reload, forgetBootState
    <3> QED BY <1>0, <2>4, <3>1 DEF Reload
  <2> QED BY <1>0, <2>1, <2>2, <2>3, <2>4, FrameHandles
<1>2. Goal
  <2>1. CASE ClaimStays
    BY <1>0, <2>1 DEF ClaimStays
  <2>2. ASSUME NEW c \in Callers, NEW g \in Functions, Starts(c, g) PROVE Goal
    <3>1. PICK s \in {"prepare", "chain"} : claim' = [claim EXCEPT ![c][g] = s]
      BY <1>0, <2>2, Started
    <3>2. pendingClaim' = [pendingClaim EXCEPT ![g] = None] /\ boot' = [boot EXCEPT ![g] = "loading"]
      BY <1>0, <2>2, Started
    <3>3. CASE g = f
      <4>1. claim'[c][f] = s /\ boot'[f] = "loading"
        BY <1>0, <3>1, <3>2, <3>3 DEF ClaimsOK
      <4> QED BY <4>1
    <3>4. CASE g # f
      <4>1. (\A d \in Callers : claim'[d][f] = claim[d][f]) /\ boot'[f] = boot[f] /\ pendingClaim'[f] = pendingClaim[f]
        BY <1>0, <3>1, <3>2, <3>4 DEF ClaimsOK
      <4> QED BY <1>0, <4>1
    <3> QED BY <3>3, <3>4
  <2>3. ASSUME NEW c \in Callers, NEW g \in Functions, Opens(c, g) PROVE Goal
    <3>1. \A d \in Callers : claim'[d][f] = claim[d][f] \/ claim'[d][f] = "import"
      BY <1>0, <2>3 DEF ClaimsOK, Opens
    <3> QED BY <1>0, <2>3, <3>1 DEF Opens
  <2>4. ASSUME NEW c \in Callers, NEW g \in Functions, NEW s \in {"ready", "failed"}, Finishes(c, g, s) PROVE Goal
    <3>1. claim' = [claim EXCEPT ![c][g] = "none"] /\ boot' = [boot EXCEPT ![g] = s] /\ pendingClaim' = pendingClaim
      BY <2>4 DEF Finishes, ClaimEnds
    <3>2. CASE g = f
      BY <1>0, <3>1, <3>2 DEF ClaimsOK
    <3>3. CASE g # f
      <4>1. (\A d \in Callers : claim'[d][f] = claim[d][f]) /\ boot'[f] = boot[f]
        BY <1>0, <3>1, <3>3 DEF ClaimsOK
      <4> QED BY <1>0, <3>1, <4>1
    <3> QED BY <3>2, <3>3
  <2>5. CASE Prepared
    <3>1. \A d \in Callers : claim'[d][f] = claim[d][f] \/ claim'[d][f] = "chain"
      BY <1>0, <2>5, CallersDiffer DEF ClaimsOK, Prepared
    <3> QED BY <1>0, <2>5, <3>1 DEF Prepared
  <2>6. ASSUME NEW c \in Callers, Reload(c) PROVE Goal
    <3>1. \A d \in Callers : claim[d][f] # "none" => claim'[d][f] = claim[d][f]
      BY <1>0, <2>6 DEF ClaimsOK, ClaimInv, Reload
    <3>2. boot'[f] = "loading" => boot[f] = "loading"
      BY <2>6 DEF Reload, forgetBootState
    <3>3. boot'[f] = "queued" => pendingClaim'[f] # None
      BY <1>0, <2>6 DEF Reload, forgetBootState
    <3> QED BY <1>0, <3>1, <3>2, <3>3
  <2>7. ASSUME NEW c \in Callers, ReloadEnds(c) PROVE Goal
    <3>1. \A d \in Callers : claim[d][f] \in {"prepare", "chain", "import"} => claim'[d][f] = claim[d][f]
      BY <1>0, <2>7 DEF ClaimsOK, ReloadEnds
    <3> QED BY <1>0, <2>7, <3>1 DEF ReloadEnds
  <2>8. \A c \in Callers, g \in Functions, s \in {"ready", "failed"} : Finishes(c, g, s) => Goal
    BY <2>4
  <2> HIDE DEF Goal
  <2> QED BY <2>1, <2>2, <2>3, <2>5, <2>6, <2>7, <2>8, ClaimSteps
<1> QED BY <1>1, <1>2

-----------------------------------------------------------------------------
(* The news of an edit *)

LEMMA DueStays ==
  ASSUME TypeOK, ClaimInv, EnvInv, GraphInv, RequestInv, [Next]_vars, NEW f \in Functions, f \in present, Due(f)
  PROVE  Due(f)' \/ Stop \/ \E c \in Callers : Spawn(c, f)
<1>0. /\ ClaimsOK /\ ReloadsOK /\ None \notin Callers /\ secrets \in Nat /\ env \in Nat /\ env <= secrets
  BY HostAssumption DEF TypeOK, ClaimsOK, ReloadsOK, Generations
<1> USE CallersDiffer
<1>1. ASSUME NEW c \in Callers, Reload(c), f \in want[c] PROVE Due(f)'
  <2>1. pendingClaim'[f] = c
    BY <1>1 DEF Reload, Respawned
  <2> QED BY <1>0, <2>1 DEF Due
<1>2. CASE f \in pending
  <2>1. CASE Flush
    <3>1. f \in pending' \/ (phase'[Hmr] = "flush" /\ f \in want'[Hmr])
      BY <1>0, <1>2, <2>1 DEF ReloadsOK, Flush
    <3> QED BY <3>1 DEF Due
  <2>2. CASE ~Flush /\ ~Stop
    <3>1. f \in pending'
      BY <1>2, <2>2, FrameEvents DEF Edit, EditShared, EnvEdit, Push
    <3> QED BY <3>1 DEF Due
  <2> QED BY <2>1, <2>2
<1>3. CASE phase[Hmr] \in {"flush", "discover"} /\ f \in want[Hmr]
  <2>1. CASE Affected
    <3> DEFINE fs == (want[Hmr] \cup IF Shared \in want[Hmr] THEN Dependents ELSE {})
                       \cap {g \in Functions : handles[g] # None \/ g \in present}
    <3>1. f \in fs
      BY <1>3
    <3>2. want' = [want EXCEPT ![Hmr] = IF fs = {} THEN Functions ELSE fs]
          /\ (fs # {} => phase' = [phase EXCEPT ![Hmr] = "discover"])
      BY <2>1 DEF Affected
    <3> HIDE DEF fs
    <3>3. phase'[Hmr] = "discover" /\ f \in want'[Hmr]
      BY <1>0, <3>1, <3>2 DEF ReloadsOK
    <3> QED BY <3>3 DEF Due
  <2>2. CASE phase'[Hmr] = phase[Hmr] /\ want'[Hmr] = want[Hmr]
    BY <1>3, <2>2 DEF Due
  <2>3. CASE Flush \/ EnvFlush \/ \E c \in Callers : Reload(c) \/ ReloadEnds(c)
    <3>1. CASE Reload(Hmr)
      BY <1>1, <1>3, <3>1
    <3>2. CASE ~Reload(Hmr)
      <4>1. phase'[Hmr] = phase[Hmr] /\ want'[Hmr] = want[Hmr]
        BY <1>0, <1>3, <2>3, <3>2 DEF ReloadsOK, Flush, EnvFlush, Reload, ReloadEnds
      <4> QED BY <2>2, <4>1
    <3> QED BY <3>1, <3>2
  <2> QED BY <2>1, <2>2, <2>3, FrameReloads
<1>4. CASE secrets # env
  <2>1. CASE EnvEdit
    <3>1. PICK n \in {0, 1} : secrets' = secrets + n
      BY <2>1, HostAssumption DEF EnvEdit
    <3>2. secrets' # env'
      BY <1>0, <1>4, <2>1, <3>1 DEF EnvEdit
    <3> QED BY <3>2 DEF Due
  <2>2. CASE EnvFlush
    <3>1. phase'[Env] = "discover"
      BY <1>0, <1>4, <2>2 DEF ReloadsOK, EnvFlush, EnvInv
    <3> QED BY <3>1 DEF Due
  <2>3. CASE UNCHANGED <<secrets, env, envPending>>
    BY <1>4, <2>3 DEF Due
  <2> QED BY <2>1, <2>2, <2>3, FrameEnvs
<1>5. CASE phase[Env] = "discover"
  <2>1. CASE Reload(Env)
    BY <1>1, <2>1 DEF EnvInv
  <2>2. CASE ~Reload(Env)
    <3>1. phase'[Env] = phase[Env]
      <4>1. ~EnvFlush
        BY <1>5 DEF EnvInv, EnvFlush
      <4>2. (Flush \/ Affected) => phase'[Env] = phase[Env]
        BY <1>0 DEF ReloadsOK, Flush, Affected
      <4>3. ASSUME NEW c \in Callers, Reload(c) \/ ReloadEnds(c) PROVE phase'[Env] = phase[Env]
        BY <1>0, <1>5, <2>2, <4>3 DEF ReloadsOK, Reload, ReloadEnds
      <4> QED BY <4>1, <4>2, <4>3, FrameReloads
    <3> QED BY <1>5, <3>1 DEF Due
  <2> QED BY <2>1, <2>2
<1>6. CASE pendingClaim[f] # None \/ \E c \in Callers : claim[c][f] \in {"prepare", "chain"}
  <2> DEFINE Goal == Due(f)' \/ \E c \in Callers : Spawn(c, f)
  <2>1. ASSUME pendingClaim[f] # None => pendingClaim'[f] # None,
               \A c \in Callers : claim[c][f] \in {"prepare", "chain"} => claim'[c][f] \in {"prepare", "chain"}
        PROVE  Goal
    BY <1>6, <2>1 DEF Due
  <2>2. ASSUME ClaimStays PROVE Goal
    BY <2>1, <2>2 DEF ClaimStays
  <2>3. ASSUME NEW c \in Callers, NEW g \in Functions, Starts(c, g) PROVE Goal
    <3>1. PICK s \in {"prepare", "chain"} : claim' = [claim EXCEPT ![c][g] = s]
      BY <1>0, <2>3, Started
    <3>2. CASE g = f
      <4>1. claim'[c][f] = s
        BY <1>0, <3>1, <3>2 DEF ClaimsOK
      <4> QED BY <4>1 DEF Due
    <3>3. CASE g # f
      <4>0. pendingClaim' = [pendingClaim EXCEPT ![g] = None]
        BY <1>0, <2>3, Started
      <4>1. (\A d \in Callers : claim'[d][f] = claim[d][f]) /\ pendingClaim'[f] = pendingClaim[f]
        BY <1>0, <3>1, <3>3, <4>0 DEF ClaimsOK
      <4> QED BY <2>1, <4>1
    <3> QED BY <3>2, <3>3
  <2>4. ASSUME NEW c \in Callers, NEW g \in Functions, NEW s \in {"import", "none"}, UNCHANGED pendingClaim,
               claim' = [claim EXCEPT ![c][g] = s], Spawn(c, g) \/ claim[c][g] = "import"
        PROVE  Goal
    <3>1. CASE Spawn(c, g) /\ g = f
      BY <3>1
    <3>2. CASE ~(Spawn(c, g) /\ g = f)
      <4>1. \A d \in Callers : claim[d][f] \in {"prepare", "chain"} => claim'[d][f] = claim[d][f]
        BY <1>0, <2>4, <3>2 DEF ClaimsOK
      <4> QED BY <2>1, <2>4, <4>1
    <3> QED BY <3>1, <3>2
  <2>5. ASSUME Prepared PROVE Goal
    <3>1. pendingClaim' = pendingClaim /\ \A d \in Callers : claim'[d][f] = claim[d][f] \/ claim'[d][f] = "chain"
      BY <1>0, <2>5 DEF ClaimsOK, Prepared
    <3> QED BY <2>1, <3>1
  <2>6. ASSUME NEW c \in Callers, Reload(c) PROVE Goal
    <3>1. \A d \in Callers : claim[d][f] # "none" => claim'[d][f] = claim[d][f]
      BY <1>0, <2>6 DEF ClaimsOK, ClaimInv, Reload
    <3>2. pendingClaim[f] # None => pendingClaim'[f] # None
      BY <1>0, <2>6 DEF Reload
    <3> QED BY <2>1, <3>1, <3>2
  <2>7. ASSUME NEW c \in Callers, ReloadEnds(c) PROVE Goal
    <3>1. pendingClaim' = pendingClaim /\ \A d \in Callers : claim[d][f] \in {"prepare", "chain"} => claim'[d][f] = claim[d][f]
      BY <1>0, <2>7 DEF ClaimsOK, ReloadEnds
    <3> QED BY <2>1, <3>1
  <2>8. ASSUME NEW c \in Callers, NEW g \in Functions, Opens(c, g) /\ Spawn(c, g) PROVE Goal
    BY <2>4, <2>8 DEF Opens
  <2>9. ASSUME NEW c \in Callers, NEW g \in Functions, NEW s, Finishes(c, g, s), Spawn(c, g) \/ claim[c][g] = "import" PROVE Goal
    BY <2>4, <2>9 DEF Finishes, ClaimEnds
  <2> HIDE DEF Goal
  <2>10. \A c \in Callers, g \in Functions, s \in {"ready", "failed"} :
           Finishes(c, g, s) /\ (Spawn(c, g) \/ claim[c][g] = "import") => Goal
    BY <2>9
  <2>11. Goal
    BY <2>2, <2>3, <2>5, <2>6, <2>7, <2>8, <2>10, ClaimSteps
  <2> QED BY <2>11 DEF Goal
<1> QED BY <1>2, <1>3, <1>4, <1>5, <1>6 DEF Due
\* A graph on its way stays what it is until its import ends.
LEMMA SpawnMoves ==
  ASSUME TypeOK, ClaimInv, EnvInv, GraphInv, [Next]_vars, NEW i \in Instances
  PROVE  /\ Spawning(i) => ImportEnds(i) \/ ImportFails(i) \/ (Spawning(i)' /\ inst'[i].fn = inst[i].fn)
         /\ inst'[i].st = "importing" => inst'[i] = inst[i] \/ ImportBegins(i)
<1> DEFINE Goal == /\ Spawning(i) => ImportEnds(i) \/ ImportFails(i) \/ (Spawning(i)' /\ inst'[i].fn = inst[i].fn)
                   /\ inst'[i].st = "importing" => inst'[i] = inst[i] \/ ImportBegins(i)
<1>0. GraphsOK
  BY DEF TypeOK, GraphsOK
<1>1. ASSUME inst'[i] = inst[i] PROVE Goal
  BY <1>1 DEF Spawning
<1>2. ASSUME ~Spawning(i), inst'[i].st # "importing" PROVE Goal
  BY <1>2
<1>3. ASSUME NEW c \in Callers, NEW f \in Functions, Spawn(c, f) PROVE Goal
  <2>1. CASE UNCHANGED inst
    BY <1>1, <2>1
  <2>2. ASSUME NEW j \in Instances, ~Live(j), inst' = [inst EXCEPT ![j] = inst'[j]], inst'[j].st = "waiting" PROVE Goal
    <3>1. CASE i = j
      BY <1>2, <2>2, <3>1 DEF Spawning, Live
    <3>2. CASE i # j
      BY <1>0, <1>1, <2>2, <3>2 DEF GraphsOK
    <3> QED BY <3>1, <3>2
  <2> QED BY <1>3, <2>1, <2>2, Spawned
<1>4. ASSUME NEW j \in Instances, ImportBegins(j) PROVE Goal
  <2>1. inst'[j].st = "importing" /\ inst'[j].fn = inst[j].fn /\ inst' = [inst EXCEPT ![j] = inst'[j]]
    BY <1>4, ImportStarted
  <2>2. CASE i = j
    BY <1>4, <2>1, <2>2 DEF Spawning
  <2>3. CASE i # j
    BY <1>0, <1>1, <2>1, <2>3 DEF GraphsOK
  <2> QED BY <2>2, <2>3
<1>5. ASSUME NEW j \in Instances, ImportEnds(j) PROVE Goal
  <2>1. CASE i = j
    BY <1>5, <2>1, Registered
  <2>2. CASE i # j
    <3>1. CASE inst'[i] = inst[i]
      BY <1>1, <3>1
    <3>2. CASE i = handles[inst[j].fn] /\ inst'[i] = Retired(i)
      <4>1. inst[i].st = "live" /\ Retired(i).st \in {"draining", "lingering"}
        BY <1>0, <1>5, <3>2, Registered, RetiredTyped, HostAssumption DEF GraphInv
      <4> QED BY <1>2, <3>2, <4>1 DEF Spawning
    <3> QED BY <1>5, <2>2, <3>1, <3>2, Registered
  <2> QED BY <2>1, <2>2
<1>6. ASSUME NEW j \in Instances, ImportFails(j) PROVE Goal
  <2>1. inst' = [inst EXCEPT ![j] = Free]
    BY <1>6, Failed
  <2>2. CASE i = j
    <3>1. inst'[i].st = "free"
      BY <1>0, <2>1, <2>2 DEF GraphsOK, Free
    <3> QED BY <1>6, <2>2, <3>1
  <2>3. CASE i # j
    BY <1>0, <1>1, <2>1, <2>3 DEF GraphsOK
  <2> QED BY <2>2, <2>3
<1>7. ASSUME NEW is, Frees(is) \/ Calms(is), i \in is => ~Spawning(i) PROVE Goal
  <2>1. CASE i \in is
    <3>1. inst'[i].st # "importing"
      BY <1>7, <2>1 DEF Frees, Calms, Free
    <3> QED BY <1>2, <1>7, <2>1, <3>1
  <2>2. CASE i \notin is
    BY <1>1, <1>7, <2>2 DEF Frees, Calms
  <2> QED BY <2>1, <2>2
<1>8. ASSUME NEW j \in Instances, Dispose(j) PROVE Goal
  <2>1. Frees({j}) /\ inst[j].st \in {"draining", "lingering"}
    BY <1>8, Calmed
  <2> QED BY <1>7, <2>1 DEF Spawning
<1>9. ASSUME Stop PROVE Goal
  <2> DEFINE is == {j \in Instances : inst[j].st \in {"draining", "lingering"} \/ \E f \in Functions : handles[f] = j}
  <2>1. Frees(is) /\ (i \in is => ~Spawning(i))
    BY <1>9, Calmed, HostAssumption DEF Spawning, GraphInv
  <2> HIDE DEF is
  <2> QED BY <1>7, <2>1
<1>10. ASSUME NEW c \in Callers, Reload(c) PROVE Goal
  <2> DEFINE is == {j \in Instances : \E f \in want[c] \ present : handles[f] = j}
  <2>1. Calms(is) /\ want[c] \subseteq Functions
    BY <1>10, Calmed DEF Reload, EnvInv
  <2>2. i \in is => ~Spawning(i)
    BY <2>1, HostAssumption DEF GraphInv, Spawning
  <2> HIDE DEF is
  <2> QED BY <1>7, <2>1, <2>2
<1>11. ASSUME NEW r \in Requests, Progress(r) PROVE Goal
  <2> DEFINE is == {j \in Instances : inst[j].st = "draining" /\ inst'[j] # inst[j]}
  <2>1. Calms(is) /\ (i \in is => ~Spawning(i))
    BY <1>11, Calmed DEF Spawning
  <2> HIDE DEF is
  <2> QED BY <1>7, <2>1
<1>12. ASSUME UNCHANGED inst PROVE Goal
  BY <1>1, <1>12
<1> QED BY <1>3, <1>4, <1>5, <1>6, <1>8, <1>9, <1>10, <1>11, <1>12, FrameGraphs

LEMMA NewsIsDue ==
  ASSUME TypeOK, [Next]_vars, NEW f \in Functions
  PROVE  (version'[f] = version[f] /\ secrets' = secrets) \/ Due(f)'
<1>0. version \in [Functions -> Generations] /\ secrets \in Nat /\ env \in Nat /\ env <= secrets
  BY DEF TypeOK, Generations
<1>1. ASSUME NEW g \in Functions, Edit(g) PROVE Due(f)' \/ (version'[f] = version[f] /\ secrets' = secrets)
  BY <1>0, <1>1 DEF Edit, Push, Due
<1>2. CASE EnvEdit
  <2>1. PICK n \in {0, 1} : secrets' = secrets + n
    BY <1>2, HostAssumption DEF EnvEdit
  <2>2. env' = env /\ version' = version
    BY <1>2 DEF EnvEdit
  <2>3. CASE n = 1
    <3>1. secrets' # env'
      BY <1>0, <2>1, <2>2, <2>3
    <3> QED BY <3>1 DEF Due
  <2> QED BY <1>0, <2>1, <2>2, <2>3
<1> QED BY <1>1, <1>2, FrameDisk, FrameEnvs DEF EnvFlush

\* What a function has that is not due: the newest code, or it did not load.
Fine(f) == boot[f] = "failed" \/ (handles[f] # None /\ Newest(handles[f])) \/ \E i \in Instances : Spawning(i) /\ inst[i].fn = f

LEMMA FineStays ==
  ASSUME TypeOK, ClaimInv, EnvInv, GraphInv, RequestInv, [Next]_vars, NEW f \in Functions, f \in present, f \in present', Fine(f)
  PROVE  Fine(f)' \/ Due(f)' \/ Stop \/ \E i \in Instances : ImportEnds(i) /\ inst[i].fn = f
<1> DEFINE Goal == Fine(f)' \/ Due(f)' \/ Stop \/ \E i \in Instances : ImportEnds(i) /\ inst[i].fn = f
<1>0. /\ ClaimsOK /\ GraphsOK /\ None \notin Callers \cup Instances /\ secrets \in Nat /\ env \in Nat /\ env <= secrets
      /\ version \in [Functions -> Generations]
  BY HostAssumption DEF TypeOK, ClaimsOK, GraphsOK, Generations
<1>1. (version'[f] = version[f] /\ secrets' = secrets) \/ Due(f)'
  BY NewsIsDue
<1>2. ASSUME boot[f] = "failed" PROVE Goal
  <2>1. CASE boot'[f] = boot[f]
    BY <1>2, <2>1 DEF Fine
  <2>2. ASSUME NEW c \in Callers, NEW g \in Functions, Starts(c, g), boot'[f] # boot[f] PROVE Due(f)'
    <3>1. PICK s \in {"prepare", "chain"} : claim' = [claim EXCEPT ![c][g] = s]
      BY <1>0, <2>2, Started
    <3>2. g = f
      BY <1>0, <2>2, Started DEF ClaimsOK
    <3>3. claim'[c][f] = s
      BY <1>0, <3>1, <3>2 DEF ClaimsOK
    <3> QED BY <3>3 DEF Due
  <2>3. ASSUME NEW c \in Callers, Reload(c), boot'[f] # boot[f] PROVE Due(f)'
    <3>1. pendingClaim'[f] = c
      BY <2>3 DEF Reload, Respawned, forgetBootState
    <3> QED BY <1>0, <3>1 DEF Due
  <2>4. ASSUME NEW c \in Callers, NEW g \in Functions, Finishes(c, g, "ready"), boot'[f] # boot[f] PROVE g = f
    BY <1>0, <2>4 DEF Finishes, ClaimsOK
  <2>5. ASSUME NEW c \in Callers, NEW g \in Functions, Finishes(c, g, "failed") PROVE boot'[f] = boot[f]
    BY <1>0, <1>2, <2>5 DEF Finishes, ClaimsOK
  <2> QED BY <2>1, <2>2, <2>3, <2>4, <2>5, ClaimSteps DEF ClaimStays, Opens, Prepared, ReloadEnds
<1>3. ASSUME handles[f] # None, Newest(handles[f]) PROVE Goal
  <2>1. PICK i \in Instances : handles[f] = i /\ inst[i].st = "live" /\ inst[i].fn = f
    BY <1>0, <1>3 DEF GraphsOK, GraphInv
  <2>2. (Serves(i)' /\ SameGraph(i)) \/ Stop
    <3>1. ~Dispose(i)
      BY <2>1 DEF Dispose
    <3> QED BY <2>1, <3>1, GraphMoves DEF Serves
  <2>3. handles'[f] = i \/ Stop \/ \E j \in Instances : ImportEnds(j) /\ inst[j].fn = f
    <3>1. ASSUME NEW j \in Instances, ImportEnds(j), inst[j].fn # f PROVE handles'[f] = i
      BY <1>0, <2>1, <3>1, Registered DEF GraphsOK
    <3>2. ASSUME NEW c \in Callers, Reload(c) PROVE handles'[f] = i
      BY <2>1, <3>2 DEF Reload
    <3> QED BY <2>1, <3>1, <3>2, FrameHandles
  <2>4. ASSUME handles'[f] = i, SameGraph(i), version'[f] = version[f], secrets' = secrets PROVE Fine(f)'
    <3>1. inst'[i].version = version'[inst'[i].fn] /\ inst'[i].env = secrets'
      BY <1>3, <2>1, <2>4 DEF SameGraph, Newest
    <3> QED BY <1>0, <2>4, <3>1 DEF Fine, Newest
  <2> QED BY <1>1, <2>2, <2>3, <2>4
<1>4. ASSUME NEW i \in Instances, Spawning(i), inst[i].fn = f PROVE Goal
  <2>1. CASE ImportFails(i)
    <3>1. boot' = [boot EXCEPT ![f] = "failed"]
      BY <1>4, <2>1 DEF ImportFails, settleBootState
    <3> QED BY <1>0, <3>1 DEF ClaimsOK, Fine
  <2> QED BY <1>4, <2>1, SpawnMoves DEF Fine
<1> QED BY <1>2, <1>3, <1>4 DEF Fine

LEMMA NextNewest ==
  ASSUME TypeOK, ClaimInv, EnvInv, GraphInv, RequestInv, NewestInv, [Next]_vars
  PROVE  NewestInv'
<1> SUFFICES ASSUME ~stopped'
             PROVE  /\ \A f \in present' : Due(f)' \/ Fine(f)'
                    /\ \A i \in Instances : inst'[i].st = "importing" /\ inst'[i].fn \in present' => Due(inst[i].fn)' \/ Newest(i)'
  BY DEF NewestInv, Fine
<1>0. /\ ~stopped /\ ~Stop /\ ClaimsOK /\ GraphsOK /\ present' \subseteq Functions /\ present \subseteq Functions
      /\ None \notin Instances /\ secrets \in Nat /\ env \in Nat /\ env <= secrets
  <2>1. present' \subseteq Functions
    BY FrameDisk DEF TypeOK, Edit
  <2>2. ~stopped /\ ~Stop
    <3>1. ~Stop
      BY DEF Stop
    <3> QED BY <3>1, FrameStopped
  <2>3. secrets \in Nat /\ env \in Nat /\ env <= secrets
    BY DEF TypeOK, Generations
  <2> QED BY <2>1, <2>2, <2>3, HostAssumption DEF TypeOK, ClaimsOK, GraphsOK
<1>1. \A f \in present : Due(f) \/ Fine(f)
  BY <1>0 DEF NewestInv, Fine
<1>2. \A f \in present' : f \in present \/ Due(f)'
  BY FrameDisk DEF Edit, Push, Due
<1>3. ASSUME NEW f \in present', f \in present, NEW c \in Callers, Spawn(c, f) PROVE Fine(f)'
  <2>1. CASE Finishes(c, f, "failed")
    BY <1>0, <2>1 DEF Finishes, ClaimsOK, Fine
  <2>2. ASSUME NEW i \in Instances, inst'[i].st = "waiting", inst'[i].fn = f PROVE Fine(f)'
    BY <2>2 DEF Fine, Spawning
  <2> QED BY <1>0, <1>3, <2>1, <2>2, Spawned
<1>4. ASSUME NEW f \in present', f \in present, NEW i \in Instances, ImportEnds(i), inst[i].fn = f PROVE Due(f)' \/ Fine(f)'
  <2>1. inst[i].st = "importing" /\ SameGraph(i) /\ handles' = [handles EXCEPT ![f] = i]
    BY <1>4, Registered
  <2>2. Due(f) \/ Newest(i)
    BY <1>0, <1>4, <2>1 DEF NewestInv
  <2>3. ASSUME Newest(i) PROVE Fine(f)'
    <3>1. UNCHANGED <<version, secrets>>
      BY <1>4 DEF ImportEnds
    <3>2. inst'[i].version = version'[inst'[i].fn] /\ inst'[i].env = secrets'
      BY <2>1, <2>3, <3>1 DEF SameGraph, Newest
    <3>3. handles'[f] = i
      BY <1>0, <2>1 DEF GraphsOK
    <3> QED BY <1>0, <3>2, <3>3 DEF Fine, Newest
  <2> QED BY <1>0, <1>3, <1>4, <2>2, <2>3, DueStays
<1>5. ASSUME NEW f \in present' PROVE Due(f)' \/ Fine(f)'
  BY <1>0, <1>1, <1>2, <1>3, <1>4, <1>5, DueStays, FineStays
<1>6. ASSUME NEW i \in Instances, inst'[i].st = "importing", inst'[i].fn \in present' PROVE Due(inst[i].fn)' \/ Newest(i)'
  <2>1. CASE ImportBegins(i)
    <3>1. PICK f \in Functions : f = inst[i].fn /\ inst'[i].fn = f /\ f \in present
      BY <1>0, <1>6, <2>1, ImportStarted, ZenonT(60) DEF ImportBegins
    <3>2. inst'[i].version = version'[f] /\ inst'[i].env = env' /\ UNCHANGED <<secrets, env>>
      <4>1. UNCHANGED <<version, secrets, env>>
        BY <2>1 DEF ImportBegins
      <4>2. inst'[i].version = (IF inst[i].fn \in present THEN version[inst[i].fn] ELSE 0) /\ inst'[i].env = env
        BY <2>1, ImportStarted
      <4> QED BY <3>1, <4>1, <4>2
    <3>3. CASE secrets' = env'
      BY <3>1, <3>2, <3>3 DEF Newest
    <3>4. CASE secrets' # env'
      BY <3>4 DEF Due
    <3> QED BY <3>3, <3>4
  <2>2. CASE inst'[i] = inst[i]
    <3>1. PICK f \in Functions : f = inst[i].fn /\ inst'[i].fn = f /\ f \in present'
      BY <1>0, <1>6, <2>2
    <3>2. ASSUME Due(f)' PROVE Due(inst[i].fn)'
      BY <3>1, <3>2
    <3>3. ASSUME f \in present, Due(f) PROVE Due(f)'
      <4>1. ASSUME NEW c \in Callers, Spawn(c, f) PROVE FALSE
        <5>1. claim[c][f] = "chain" /\ Head(chain[f]) = c
          BY <4>1 DEF Spawn, Spawns
        <5>2. inst[i].by \in Callers /\ claim[inst[i].by][f] = "import" /\ Head(chain[f]) = inst[i].by
          BY <1>6, <2>2, <3>1 DEF GraphInv, ClaimInv, Spawning
        <5> QED BY <5>1, <5>2
      <4> QED BY <1>0, <3>3, <4>1, DueStays
    <3>4. ASSUME Newest(i), version'[f] = version[f], secrets' = secrets PROVE Newest(i)'
      BY <2>2, <3>1, <3>4 DEF Newest
    <3>5. f \in present => Due(f) \/ Newest(i)
      BY <1>0, <1>6, <2>2, <3>1 DEF NewestInv
    <3>6. (version'[f] = version[f] /\ secrets' = secrets) \/ Due(f)'
      BY NewsIsDue
    <3> QED BY <1>2, <3>1, <3>2, <3>3, <3>4, <3>5, <3>6
  <2> QED BY <1>6, <2>1, <2>2, SpawnMoves
<1> QED BY <1>5, <1>6

-----------------------------------------------------------------------------
(* The theorems *)

LEMMA NextType ==
  ASSUME TypeOK, ClaimInv, EnvInv, GraphInv, EventInv, RefsInv, RequestInv, [Next]_vars
  PROVE  TypeOK'
<1>1. FlagsOK' /\ ReloadsOK' /\ CountsOK' /\ gen' \in Generations /\ ClaimsOK' /\ HandlesOK' /\ SharedsOK'
  BY FlagTypes, ReloadTypes, NextEvents, ClaimTypes, HandleTypes, NextRefs
<1>2. {prepared', armed', envPending', envArmed'} \subseteq BOOLEAN
  BY <1>1, Zenon DEF FlagsOK
<1>3. sharing' \in Modes /\ stopped' \in BOOLEAN
  BY <1>1, Zenon DEF FlagsOK
<1>4. inst' \in [Instances -> GraphType] /\ \A i \in Instances : inst'[i].gens \subseteq 1..gen' /\ inst'[i].pin \in 0..gen'
  BY GraphTypes
<1>5. req' \in [Requests -> RequestType]
  BY RequestTypes
<1> QED BY <1>1, <1>2, <1>3, <1>4, <1>5 DEF TypeOK, ReloadsOK, CountsOK, ClaimsOK, HandlesOK, SharedsOK

\* The invariant holds when the backend is constructed and its deferred boot begins.
LEMMA InitIInv == Init => IInv
<1> SUFFICES ASSUME Init PROVE IInv
  OBVIOUS
<1> USE CallersDiffer
<1>0. 1 \in Generations /\ MaxEvents \in Nat
  BY HostAssumption DEF Generations
<1>1. TypeOK
  <2>1. Free \in GraphType /\ Free.gens = {} /\ Free.pin = 0
    BY DEF Free, GraphType, Statuses
  <2>2. NoRequest \in RequestType
    BY DEF NoRequest, RequestType
  <2>3. inst \in [Instances -> GraphType] /\ (\A i \in Instances : inst[i].gens \subseteq 1..gen /\ inst[i].pin \in 0..gen)
        /\ req \in [Requests -> RequestType] /\ gen \in Generations /\ retired \subseteq 1..(gen - 1)
    BY <1>0, <2>1, <2>2 DEF Init
  <2>4. /\ pendingClaim \in [Functions -> Callers \cup {None}]
        /\ claim \in [Callers -> [Functions -> {"none", "pending", "prepare", "chain", "import"}]]
        /\ chain \in [Functions -> Seq(Callers)] /\ importQ \in Seq(Instances) /\ lane \subseteq Callers \X Functions
        /\ phase \in [Callers -> {"idle", "flush", "discover", "reload"}]
        /\ want \in [Callers -> SUBSET (Functions \cup {Shared})]
        /\ refs \in [Generations -> Nat]
    BY DEF Init
  <2>5. /\ secrets \in Generations /\ env \in 1..secrets
        /\ version \in [Functions -> Generations] /\ present \subseteq Functions /\ known \subseteq Functions
        /\ handles \in [Functions -> Instances \cup {None}]
        /\ boot \in [Functions -> {"unknown", "queued", "loading", "ready", "failed"}]
        /\ pending \subseteq Functions \cup {Shared} /\ events \in 0..MaxEvents
    BY <1>0 DEF Init
  <2>6. sharing \in Modes /\ stopped \in BOOLEAN /\ {prepared, armed, envPending, envArmed} \subseteq BOOLEAN
    BY Zenon DEF Init
  <2> QED BY <2>3, <2>4, <2>5, <2>6 DEF TypeOK
<1>2. ClaimInv /\ EnvInv
  BY HostAssumption DEF Init, ClaimInv, EnvInv
<1>3. GraphInv
  BY DEF Init, GraphInv, Free, Spawning
<1>4. BootStatesMean
  BY HostAssumption DEF Init, BootStatesMean
<1>5. EventInv
  BY DEF Init, EventInv, Owed
<1>6. RefsInv
  <2>1. \A g : PinnedBy(g) = {}
    BY DEF Init, PinnedBy, Live, Free
  <2>2. \A g \in Generations : Cardinality(PinnedBy(g)) = 0
    BY <2>1, FS_EmptySet
  <2> QED BY <2>2 DEF Init, RefsInv, Generations
<1>7. NewestInv
  BY HostAssumption DEF Init, NewestInv, Due, Free
<1>8. RequestInv
  BY DEF Init, RequestInv, RequestsSurviveReloads, WaitersAreTold, LingerIsIdle, NeverUnloaded, WorksIn, Waits, NoRequest, Free
<1> QED BY <1>1, <1>2, <1>3, <1>4, <1>5, <1>6, <1>7, <1>8 DEF IInv

LEMMA NextIInv == IInv /\ [Next]_vars => IInv'
<1> SUFFICES ASSUME IInv, [Next]_vars PROVE IInv'
  OBVIOUS
<1>1. TypeOK /\ ClaimInv /\ EnvInv /\ GraphInv /\ BootStatesMean /\ EventInv /\ RefsInv /\ NewestInv /\ RequestInv
  BY DEF IInv
<1>2. TypeOK'
  BY <1>1, NextType
<1>3. ClaimInv' /\ EnvInv' /\ GraphInv'
  BY <1>1, NextClaim, NextEnv, NextGraph
<1>4. BootStatesMean' /\ EventInv' /\ RefsInv'
  BY <1>1, NextBoot, NextEvents, NextRefs
<1>5. NewestInv' /\ RequestInv'
  BY <1>1, NextNewest, NextRequest
<1> QED BY <1>2, <1>3, <1>4, <1>5 DEF IInv

(* What is assumed of claims, graphs, references and waiting requests holds throughout,
   for any number of functions, requests and graphs (function-host.ts, hot-reloader.ts,
   env-reloader, compat/shared-deps.ts). *)
THEOREM Inductive == Spec => []IInv
<1> QED BY InitIInv, NextIInv, PTL DEF Spec

(* Boot states, handles and graphs agree: a ready function has a graph, a queued or
   loading one is being seen to, and no graph is left alive that serves nobody
   (function-host.ts: bootStates, handles, spawnAndRegister, reload). *)
THEOREM TablesStayTrue == Spec => []TablesAreTrue
<1>1. IInv => TablesAreTrue
  BY DEF IInv, TablesAreTrue, GraphsTracked, GraphInv
<1> QED BY <1>1, Inductive, PTL

(* The reference counts of shared-dependency generations are exact, and superseded
   generations live exactly as long as they are pinned (shared-deps.ts: acquire, bump). *)
THEOREM ReferencesStayExact == Spec => []ReferencesExact
<1>1. IInv => ReferencesExact
  <2> SUFFICES ASSUME IInv PROVE ReferencesExact
    OBVIOUS
  <2> QED BY DEF IInv, RefsInv, PinnedBy, ReferencesExact
<1> QED BY <1>1, Inductive, PTL

(* No edit of a function or an env file is lost between reloads that overlap: once
   everything is quiet the newest code serves, with the newest environment, unless it
   failed to load (hot-reloader.ts flush, env-file reloader, function-host.ts claims). *)
THEOREM NoEditIsLost == Spec => []QuietServesNewest
<1>1. IInv => QuietServesNewest
  <2> SUFFICES ASSUME IInv, ~stopped, pending = {}, ~envPending, \A c \in Callers : phase[c] = "idle", NEW f \in present
               PROVE  boot[f] = "failed" \/
                        (handles[f] # None /\ inst[handles[f]].version = version[f] /\ inst[handles[f]].env = secrets)
    BY DEF QuietServesNewest
  <2>1. /\ ClaimInv /\ EnvInv /\ GraphInv /\ NewestInv /\ f \in Functions
        /\ claim \in [Callers -> [Functions -> {"none", "pending", "prepare", "chain", "import"}]]
        /\ pendingClaim \in [Functions -> Callers \cup {None}]
    BY DEF IInv, TypeOK
  <2>2. \A c \in Callers, g \in Functions : claim[c][g] = "none"
    BY <2>1 DEF ClaimInv
  <2>3. pendingClaim[f] = None
    BY <2>1, <2>2 DEF ClaimInv
  <2>4. ~Due(f)
    BY <2>1, <2>2, <2>3, CallersDiffer DEF Due, EnvInv
  <2>5. \A i \in Instances : ~Spawning(i)
    BY <2>1, <2>2 DEF GraphInv
  <2>6. boot[f] = "failed" \/ (handles[f] # None /\ Newest(handles[f]))
    BY <2>1, <2>4, <2>5 DEF NewestInv
  <2> QED BY <2>1, <2>6 DEF Newest, GraphInv
<1> QED BY <1>1, Inductive, PTL

(* Requests outlive reloads: whoever waits for a function is told what became of it, no
   graph is given up with work in it, and none is called after it was disposed of
   (server.ts dispatch, function-host.ts terminate and notifyIdle). *)
THEOREM RequestsOutliveReloads == Spec => []RequestsSurviveReloads
<1>1. IInv => RequestsSurviveReloads
  BY DEF IInv, RequestInv
<1> QED BY <1>1, Inductive, PTL
=============================================================================
