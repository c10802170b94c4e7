------------------------ MODULE WorkerdBackend_proofs ------------------------
(***************************************************************************)
(* Proofs about WorkerdBackend for any functions, any number of children,  *)
(* callers, saves, crashes and reloads.  What a reload may rely on at each *)
(* of its awaits, whatever happened in the ones before: that is what the   *)
(* parts of IInv say, and why the invariants of the runs hold.             *)
(***************************************************************************)
EXTENDS WorkerdBackend, TLAPS

Living == {p \in Children : Alive(p)}
Loads(p) == {f \in Functions : child[p].loaded[f] > 0}

\* Before a reload spawns its child; before it swaps the child in.
Bundling == {"bundle", "config", "spawn"}
Unswapped == Bundling \cup {"boot"}

\* The current child is on the slot of its generation, and dies only in a crash
\* that forgets it.
CurrentInv ==
  /\ current # None /\ Alive(current) => child[current].slot = generation % 2
  /\ current # None /\ ~stopping => child[current].status = "up"

\* Where the children are at each await of a reload.
SeatsInv ==
  /\ reload = None /\ ~stopping => Living \subseteq {current}
  /\ reload # None /\ reload.phase \in Bundling =>
       reload.new = None /\ reload.old = None /\ Living \subseteq {current}
  /\ InPhase("config") \/ InPhase("spawn") => Discovered # {}
  /\ InPhase("boot") =>
       /\ reload.old = None
       /\ Living \subseteq {current, reload.new}
       /\ reload.new # None =>
            child[reload.new].status = "booting" /\ child[reload.new].slot = nextSlot /\ reload.new # current
  /\ InPhase("drain") =>
       /\ reload.old # None /\ reload.old # current
       /\ current \in {reload.new, None}
       /\ ~stopping => Living \subseteq {current, reload.old}

\* stop() waits for the child that is current, unless a swap came between.
StopInv == shutdown.phase = "waiting" /\ reload # None /\ reload.phase \in Unswapped => shutdown.target = current

\* What a child that boots has loaded, and what the gateway knows of it.
LoadedInv ==
  /\ InPhase("boot") => (reload.new = None <=> Discovered = {})
  /\ InPhase("boot") /\ reload.new # None => Loads(reload.new) \subseteq Discovered
NamesInv ==
  /\ Serving => names = Loads(current)
  /\ Serving /\ ~InPhase("drain") => known = names

\* A caller waits for a reload; its own began with what it asked for.
CallerInv == \A c \in Callers : calls[c].status = "waiting" =>
  /\ reload # None
  /\ ~calls[c].joined => calls[c].want \subseteq reload.want /\ calls[c].at = reload.from

\* Once bundled, what was asked for is at least as new as when the reload began.
FreshInv ==
  /\ InPhase("config") \/ InPhase("spawn") => \A f \in Rebundled : bundle[f] >= reload.from[f]
  /\ (InPhase("boot") \/ InPhase("drain")) /\ reload.new # None /\ Alive(reload.new) =>
         /\ \A f \in Rebundled : child[reload.new].loaded[f] >= reload.from[f]
         /\ \A f \in Functions \ Discovered : child[reload.new].loaded[f] = 0

\* Until stop() disposes of it: the runtime of the shared module starts before the
\* first child that calls it, and stays.
RuntimeInv ==
  /\ bundler = "none" => Living = {} /\ sharedRuntime = 0 /\ ~InPhase("config") /\ ~InPhase("spawn")
  /\ bundler = "calls" =>
       /\ sharedSource > 0 /\ (reload # None => reload.shared > 0)
       /\ \A p \in Living : sharedRuntime # 0 /\ child[p].shared = sharedRuntime
       /\ InPhase("spawn") => sharedRuntime # 0
  /\ prebuilt => /\ bundler = "none" => Functions = {}
                 /\ bundler = "plain" => sharedSource = 0
SharedInv == sharedRuntime <= sharedSource /\ (~stopping => RuntimeInv)

IInv ==
  /\ TypeOK /\ CurrentInv /\ SeatsInv /\ StopInv /\ LoadedInv /\ NamesInv /\ CallerInv
  /\ FreshInv /\ SharedInv

-----------------------------------------------------------------------------
USE DEF ReloadType, ChildType, CallType, Bundling, Unswapped

(* The steps, as far as children, reloads and callers can tell them apart *)

\* A step that touches neither, but may save, delete or queue something.
Quiet ==
  /\ UNCHANGED <<prebuilt, bundles, child, current, names, known, generation, reload>>
  /\ sharedSource' >= sharedSource /\ (prebuilt => sharedSource' = sharedSource)
  /\ shutdown'.target = shutdown.target
  /\ stopping' = stopping
  /\ shutdown'.phase = "waiting" <=> shutdown.phase = "waiting"
  /\ \A c \in Callers : "waiting" \in {calls[c].status, calls'[c].status} => calls'[c] = calls[c]

\* Someone asks for a reload.
Asks == \E c \in Callers, want \in SUBSET Functions :
  /\ DoReload(c, want)
  /\ UNCHANGED <<tree, bundles, child, current, names, known, generation, crashes, crashed, shutdown>>

LEMMA OnDiskTyped == TypeOK => OnDisk \in Versions
  BY DEF TypeOK, OnDisk, Versions

LEMMA CallTyped ==
  ASSUME TypeOK, NEW want \in SUBSET Functions, NEW s \in {"saved", "waiting", "failed"}
  PROVE  Call(s, want) \in CallType
  BY OnDiskTyped DEF Call

LEMMA QuietSteps ==
  ASSUME TypeOK,
         \/ \E fs \in Saves : Save(fs)
         \/ SaveShared \/ \E f \in Functions : DeleteFunction(f)
         \/ \E c \in Editors, f \in Functions : EditorSave(c, f)
         \/ StopWatchers \/ AllDone \/ UNCHANGED vars
  PROVE  Quiet
<1> USE DEF Quiet, tree, bundles, hmrVars, stopping
<1>1. ASSUME NEW fs \in Saves, Save(fs) PROVE Quiet
  BY <1>1 DEF Save, TypeOK
<1>2. CASE SaveShared
  BY <1>2 DEF SaveShared, TypeOK
<1>3. ASSUME NEW f \in Functions, DeleteFunction(f) PROVE Quiet
  BY <1>3 DEF DeleteFunction, TypeOK
<1>4. ASSUME NEW c \in Editors, NEW f \in Functions, EditorSave(c, f) PROVE Quiet
  <2>1. \A d \in Callers : "waiting" \in {calls[d].status, calls'[d].status} => calls'[d] = calls[d]
    BY <1>4 DEF EditorSave, Call, TypeOK, Callers
  <2>2. UNCHANGED <<prebuilt, sharedSource, bundles, child, current, names, known, generation, reload, shutdown>>
    BY <1>4 DEF EditorSave
  <2> QED BY <2>1, <2>2 DEF TypeOK
<1>5. CASE StopWatchers
  BY <1>5 DEF StopWatchers, watching, TypeOK
<1>6. CASE AllDone \/ UNCHANGED vars
  BY <1>6 DEF AllDone, vars, TypeOK
<1> QED BY <1>1, <1>2, <1>3, <1>4, <1>5, <1>6

LEMMA AskingSteps ==
  ASSUME TypeOK,
         \/ \E w \in Watchers : Flush(w)
         \/ \E c \in Reloaders : ReloadAll(c)
         \/ \E c \in Editors : EditorReload(c)
  PROVE  Quiet \/ Asks
<1>1. ASSUME NEW w \in Watchers, Flush(w) PROVE Quiet \/ Asks
  <2>1. CASE UNCHANGED <<reload, calls, pending>>
    BY <1>1, <2>1 DEF Flush, Quiet, tree, bundles, TypeOK, stopping
  <2>2. CASE DoReload(w, pending)
    BY <1>1, <2>2 DEF Flush, Asks, TypeOK, Callers
  <2> QED BY <1>1, <2>1, <2>2 DEF Flush
<1>2. ASSUME NEW c \in Reloaders, ReloadAll(c) PROVE Asks
  BY <1>2 DEF ReloadAll, Asks, Callers
<1>3. ASSUME NEW c \in Editors, EditorReload(c) PROVE Asks
  <2>1. calls[c].want \in SUBSET Functions
    BY DEF TypeOK, Callers
  <2> QED BY <1>3, <2>1 DEF EditorReload, Asks, Callers
<1> QED BY <1>1, <1>2, <1>3

LEMMA Steps ==
  ASSUME TypeOK, [Next]_vars
  PROVE  Quiet \/ Asks \/ ReloadStep \/ (\E p \in Children : ChildExits(p) \/ Crash(p)) \/ Stop \/ Stopped
  BY QuietSteps, AskingSteps DEF Next

-----------------------------------------------------------------------------
(* Types *)

\* A settled reload is gone, and nobody waits for it.
LEMMA Settles ==
  ASSUME TypeOK, NEW outcome \in {"ok", "failed"}, Settle(outcome), names' \subseteq Functions
  PROVE  /\ reload' = None
         /\ calls' \in [Callers -> CallType]
         /\ \A c \in Callers : /\ calls'[c].status # "waiting"
                               /\ calls[c].status = "waiting" => calls'[c].status = outcome
         /\ known' = IF outcome = "ok" THEN names' ELSE known
         /\ known' \subseteq Functions
         /\ armed' \in BOOLEAN /\ pending' = pending
<1>1. calls' = [c \in Callers |->
        IF calls[c].status = "waiting" THEN [calls[c] EXCEPT !.status = outcome] ELSE calls[c]]
  BY DEF Settle
<1>2. \A c \in Callers :
        /\ calls[c] \in CallType
        /\ calls[c].status = "waiting" => [calls[c] EXCEPT !.status = outcome] \in CallType
  BY DEF TypeOK
<1>3. calls' \in [Callers -> CallType]
  BY <1>1, <1>2
<1>4. \A c \in Callers : /\ calls'[c].status # "waiting"
                         /\ calls[c].status = "waiting" => calls'[c].status = outcome
  BY <1>1, <1>2
<1>5. known' = (IF outcome = "ok" THEN names' ELSE known) /\ known' \subseteq Functions
  BY DEF Settle, Bridged, TypeOK
<1>6. reload' = None /\ pending' = pending
  BY DEF Settle, hmrVars
<1>7. armed' \in BOOLEAN
  <2>1. armed' = (armed \/ (pending # {} /\ \E w \in Watchers : calls[w].status = "waiting"))
    BY DEF Settle
  <2> QED BY <2>1, Zenon
<1> QED BY <1>3, <1>4, <1>5, <1>6, <1>7

LEMMA SpawnedIsFree ==
  ASSUME TypeOK, SeatsInv, InPhase("spawn")
  PROVE  LET p == Fresh({q \in Children : Alive(q)} \cup {current})
         IN  p \in Children /\ p # current /\ ~Alive(p)
<1>1. {q \in Children : Alive(q)} \cup {current} \subseteq {current}
  BY DEF SeatsInv, InPhase, Bundling, Living
<1>2. \E p \in Children : p \notin {q \in Children : Alive(q)} \cup {current}
  BY <1>1, ChildrenAssumption
<1> QED BY <1>2 DEF Fresh

LEMMA InitType == Init => TypeOK
<1> SUFFICES ASSUME Init PROVE TypeOK
  OBVIOUS
<1>1. prebuilt \in Modes /\ {present, names, known} \subseteq SUBSET Functions /\ sharedSource \in 0..MaxShared
  BY DataAssumption DEF Init
<1>2. source \in Versions /\ bundle \in Versions
  BY <1>1 DEF Init, OnDisk, Versions
<1>3. sharedRuntime \in 0..MaxShared /\ sharedRuntime <= sharedSource
  <2>1. sharedRuntime = IF present = {} THEN 0 ELSE sharedSource
    BY DEF Init
  <2> QED BY <1>1, <2>1, BoundsAssumption
<1>4. current \in Children \cup {None}
  BY ChildrenAssumption DEF Init, Fresh
<1>5. child \in [Children -> ChildType(0..sharedSource)]
  <2>1. Gone \in ChildType(0..sharedSource)
    BY <1>1, BoundsAssumption DEF Gone, Versions
  <2>2. [status |-> "up", slot |-> 0, loaded |-> bundle, shared |-> sharedRuntime] \in ChildType(0..sharedSource)
    BY <1>1, <1>2, <1>3, BoundsAssumption
  <2> QED BY <2>1, <2>2 DEF Init
<1>6. bundler \in {"none", "plain", "calls"}
  BY DEF Init, BundlerFor
<1>7. calls \in [Callers -> CallType]
  BY <1>2 DEF Init, Call, OnDisk, Versions
<1>8. /\ generation \in Nat /\ reload = None /\ crashes \in Nat /\ crashed \in 0..MaxIncidents
      /\ shutdown \in [phase : {"no", "draining", "waiting", "done"}, target : Children \cup {None}]
      /\ requests \in 0..MaxRequests /\ pending \subseteq Functions /\ armed \in BOOLEAN
  <2>1. /\ generation = 0 /\ reload = None /\ crashes = 0 /\ crashed = 0
        /\ shutdown = [phase |-> "no", target |-> None]
        /\ requests = 0 /\ pending = {} /\ armed = FALSE
    BY DEF Init
  <2>2. 0 \in 0..MaxIncidents /\ 0 \in 0..MaxRequests
    BY BoundsAssumption
  <2>3. armed \in BOOLEAN
    BY <2>1
  <2> QED BY <2>1, <2>2, <2>3
<1> QED
  BY <1>1, <1>2, <1>3, <1>4, <1>5, <1>6, <1>7, <1>8, BoundsAssumption DEF TypeOK

\* The types of what a reload works with.
LEMMA ReloadTyped ==
  ASSUME TypeOK, reload # None
  PROVE  reload \in ReloadType(0..sharedSource)
  BY DEF TypeOK

LEMMA DoReloadType ==
  ASSUME TypeOK, NEW c \in Callers, NEW want \in SUBSET Functions, DoReload(c, want),
         UNCHANGED <<tree, bundles, child, current, names, known, generation, crashes, crashed, shutdown>>,
         requests' \in 0..MaxRequests, pending' \subseteq Functions, armed' \in BOOLEAN
  PROVE  TypeOK'
<1>1. reload' = reload \/ reload' = Reload(want)
  BY DEF DoReload, StartReload
<1>2. Reload(want) \in ReloadType(0..sharedSource)
  BY OnDiskTyped DEF Reload, TypeOK
<1>3. calls' \in [Callers -> CallType]
  <2>1. \A s \in {"failed", "waiting"}, b \in BOOLEAN : [Call(s, want) EXCEPT !.joined = b] \in CallType
    BY OnDiskTyped DEF Call
  <2>2. [Call(IF stopping THEN "failed" ELSE "waiting", want) EXCEPT !.joined = reload # None] \in CallType
    BY <2>1
  <2> QED BY <2>2 DEF DoReload, TypeOK
<1>4. UNCHANGED <<tree, bundles, child, current, names, known, generation, crashes, crashed, shutdown>>
  OBVIOUS
<1> QED
  BY <1>1, <1>2, <1>3, <1>4 DEF TypeOK, tree, bundles

LEMMA AskingTypes ==
  ASSUME TypeOK,
         \/ \E w \in Watchers : Flush(w)
         \/ \E c \in Reloaders : ReloadAll(c)
         \/ \E c \in Editors : EditorReload(c)
  PROVE  TypeOK'
<1>1. ASSUME NEW w \in Watchers, Flush(w) PROVE TypeOK'
  <2>1. CASE UNCHANGED <<reload, calls, pending>>
    BY <1>1, <2>1, ZenonT(60) DEF Flush, TypeOK, tree, bundles
  <2>2. CASE DoReload(w, pending) /\ pending' = {}
    BY <1>1, <2>2, DoReloadType DEF Flush, TypeOK, Callers
  <2> QED BY <1>1, <2>1, <2>2 DEF Flush
<1>2. ASSUME NEW c \in Reloaders, ReloadAll(c) PROVE TypeOK'
  BY <1>2, DoReloadType, BoundsAssumption DEF ReloadAll, TypeOK, Callers, hmrVars
<1>3. ASSUME NEW c \in Editors, EditorReload(c) PROVE TypeOK'
  BY <1>3, DoReloadType DEF EditorReload, TypeOK, Callers, hmrVars
<1> QED BY <1>1, <1>2, <1>3

LEMMA SavingTypes ==
  ASSUME TypeOK,
         \/ \E fs \in Saves : Save(fs)
         \/ SaveShared \/ \E f \in Functions : DeleteFunction(f)
         \/ \E c \in Editors, f \in Functions : EditorSave(c, f)
         \/ StopWatchers \/ AllDone \/ UNCHANGED vars
  PROVE  TypeOK'
<1> USE DEF tree, bundles, hmrVars
<1>1. ASSUME NEW fs \in Saves, Save(fs) PROVE TypeOK'
  <2>1. fs \subseteq Functions
    BY DataAssumption
  <2>2. source' \in Versions
    BY <1>1 DEF Save, TypeOK, Versions
  <2>3. pending' \subseteq Functions /\ armed' \in BOOLEAN
    BY <1>1, <2>1 DEF Save, TypeOK, Push
  <2> QED BY <1>1, <2>1, <2>2, <2>3 DEF Save, TypeOK
<1>2. CASE SaveShared
  <2>1. sharedSource' \in 0..MaxShared /\ sharedSource < sharedSource'
    BY <1>2, BoundsAssumption DEF SaveShared, TypeOK
  <2>2. child' \in [Children -> ChildType(0..sharedSource')]
    BY <1>2, <2>1, BoundsAssumption DEF SaveShared, TypeOK
  <2>3. reload' \in {None} \cup
          ReloadType(0..sharedSource')
    BY <1>2, <2>1, BoundsAssumption DEF SaveShared, TypeOK
  <2>4. pending' \subseteq Functions /\ armed' \in BOOLEAN
    BY <1>2 DEF SaveShared, TypeOK, Push
  <2> QED BY <1>2, <2>1, <2>2, <2>3, <2>4 DEF SaveShared, TypeOK
<1>3. ASSUME NEW f \in Functions, DeleteFunction(f) PROVE TypeOK'
  <2>2. source' \in Versions
    BY <1>3 DEF DeleteFunction, TypeOK, Versions
  <2>3. pending' \subseteq Functions /\ armed' \in BOOLEAN
    BY <1>3 DEF DeleteFunction, TypeOK, Push
  <2> QED BY <1>3, <2>2, <2>3 DEF DeleteFunction, TypeOK
<1>4. ASSUME NEW c \in Editors, NEW f \in Functions, EditorSave(c, f) PROVE TypeOK'
  <2>1. source' \in Versions
    BY <1>4 DEF EditorSave, TypeOK, Versions
  <2>2. [Call("saved", {f}) EXCEPT !.at = source'] \in CallType
    BY <2>1, OnDiskTyped DEF Call
  <2>3. calls' \in [Callers -> CallType]
    BY <1>4, <2>2 DEF EditorSave, TypeOK
  <2>4. UNCHANGED <<prebuilt, present, sharedSource, bundles, child, current, names, known, generation,
                    reload, crashes, crashed, shutdown, requests, hmrVars>>
    BY <1>4 DEF EditorSave
  <2> QED BY <2>1, <2>3, <2>4 DEF TypeOK
<1>5. CASE StopWatchers
  BY <1>5 DEF StopWatchers, TypeOK
<1>6. CASE AllDone \/ UNCHANGED vars
  BY <1>6 DEF AllDone, vars, TypeOK
<1> QED BY <1>1, <1>2, <1>3, <1>4, <1>5, <1>6

\* What a step of a reload leaves alone is typed; what remains is shown step by step.
LEMMA ReloadTypes == IInv /\ ReloadStep => TypeOK'
<1> SUFFICES ASSUME TypeOK, SeatsInv, LoadedInv, SharedInv, ReloadStep PROVE TypeOK'
  BY DEF IInv
<1> USE DEF tree, bundles, InPhase
<1>0. \A outcome \in {"ok", "failed"} : Settle(outcome) /\ names' \subseteq Functions =>
        /\ reload' = None /\ calls' \in [Callers -> CallType]
        /\ known' \subseteq Functions /\ armed' \in BOOLEAN /\ pending' = pending
  BY Settles
<1>1. CASE Bundle
  <2>1. bundler' \in {"none", "plain", "calls"}
    BY <1>1 DEF Bundle, CreateBundler, BundlerFor, TypeOK
  <2>2. bundle' \in Versions
    <3>1. \A fs \in SUBSET Functions : Bundled(fs) => bundle' \in Versions
      BY BoundsAssumption DEF Bundled, Versions
    <3>2. Rebundled \subseteq Functions
      BY DEF Rebundled, Discovered
    <3> QED BY <1>1, <3>1, <3>2 DEF Bundle
  <2>3. UNCHANGED <<tree, child, current, names, generation, crashes, crashed, shutdown, requests, sharedRuntime>>
    BY <1>1 DEF Bundle
  <2>4. CASE UNCHANGED <<calls, known, hmrVars>> /\ \E v \in reload.shared..sharedSource :
               reload' = [reload EXCEPT !.phase = IF Discovered = {} THEN "boot" ELSE "config",
                                        !.shared = IF @ = 0 \/ sharedRuntime # 0 THEN @ ELSE v]
    <3>1. reload' \in ReloadType(0..sharedSource)
      <4>1. PICK v \in reload.shared..sharedSource :
               reload' = [reload EXCEPT !.phase = IF Discovered = {} THEN "boot" ELSE "config",
                                        !.shared = IF @ = 0 \/ sharedRuntime # 0 THEN @ ELSE v]
        BY <2>4
      <4>2. reload \in ReloadType(0..sharedSource)
        BY <1>1 DEF Bundle, TypeOK
      <4>3. v \in 0..sharedSource
        BY <4>1, <4>2 DEF TypeOK
      <4> QED BY <4>1, <4>2, <4>3
    <3> QED BY <2>1, <2>2, <2>3, <2>4, <3>1 DEF TypeOK, hmrVars
  <2>5. CASE Settle("failed")
    BY <1>0, <2>1, <2>2, <2>3, <2>5 DEF TypeOK
  <2> QED BY <1>1, <2>4, <2>5 DEF Bundle
<1>2. CASE Configure
  <2>1. sharedRuntime' \in 0..MaxShared
    <3>1. reload.shared \in 0..sharedSource
      BY <1>2 DEF Configure, TypeOK
    <3>2. sharedRuntime' \in {reload.shared, sharedRuntime}
      BY <1>2 DEF Configure
    <3> QED BY <3>1, <3>2, BoundsAssumption DEF TypeOK
  <2>2. UNCHANGED <<tree, bundle, bundler, child, current, names, generation, crashes, crashed, shutdown, requests>>
    BY <1>2 DEF Configure
  <2>3. CASE Goto("spawn") /\ UNCHANGED <<calls, known, hmrVars>>
    <3>1. reload' \in ReloadType(0..sharedSource)
      BY <1>2, <2>3 DEF Configure, Goto, TypeOK
    <3> QED BY <2>1, <2>2, <2>3, <3>1 DEF TypeOK, hmrVars
  <2>4. CASE Settle("failed")
    BY <1>0, <2>1, <2>2, <2>4 DEF TypeOK
  <2> QED BY <1>2, <2>3, <2>4 DEF Configure
<1>3. CASE Spawn
  <2>1. UNCHANGED <<tree, bundles, current, names, generation, crashes, crashed, shutdown, requests>>
    BY <1>3 DEF Spawn
  <2>2. CASE Settle("failed") /\ UNCHANGED child
    BY <1>0, <2>1, <2>2 DEF TypeOK
  <2>3. CASE ~(Settle("failed") /\ UNCHANGED child)
    <3> DEFINE p == Fresh({q \in Children : Alive(q)} \cup {current})
    <3> DEFINE c == [status |-> "booting", slot |-> nextSlot,
                     loaded |-> [f \in Functions |-> IF f \in Discovered THEN bundle[f] ELSE 0],
                     shared |-> sharedRuntime]
    <3>1. /\ child' = [child EXCEPT ![p] = c] /\ reload' = [reload EXCEPT !.phase = "boot", !.new = p]
          /\ UNCHANGED <<calls, known, hmrVars>>
      BY <1>3, <2>3, Zenon DEF Spawn
    <3>2. p \in Children
      BY <1>3, SpawnedIsFree DEF Spawn
    <3>3. nextSlot \in 0..1
      BY DEF nextSlot, TypeOK
    <3>4. c \in ChildType(0..sharedSource)
      BY <3>3 DEF TypeOK, SharedInv, Versions
    <3> HIDE DEF p, c
    <3>5. reload' \in ReloadType(0..sharedSource)
      BY <1>3, <3>1, <3>2 DEF Spawn, TypeOK
    <3> QED BY <2>1, <3>1, <3>2, <3>4, <3>5 DEF TypeOK, hmrVars
  <2> QED BY <2>2, <2>3
<1>4. CASE BootFails
  <2>1. child' \in [Children -> ChildType(0..sharedSource)]
    <3>1. Gone \in ChildType(0..sharedSource)
      BY DEF Gone, Versions, TypeOK
    <3> QED BY <1>4, <3>1 DEF BootFails, TypeOK
  <2>2. UNCHANGED <<tree, bundles, current, names, generation, crashes, crashed, shutdown, requests>>
    BY <1>4 DEF BootFails
  <2>3. Settle("failed")
    BY <1>4 DEF BootFails
  <2> QED BY <1>0, <2>1, <2>2, <2>3 DEF TypeOK
<1>5. CASE Swap
  <2>1. reload \in ReloadType(0..sharedSource)
    BY <1>5 DEF Swap, TypeOK
  <2>2. current' \in Children \cup {None} /\ names' \subseteq Functions /\ generation' \in Nat
    BY <1>5, <2>1 DEF Swap, TypeOK, Discovered
  <2>3. Up(reload.new) \in [Children -> ChildType(0..sharedSource)]
    BY DEF Up, TypeOK
  <2>4. UNCHANGED <<tree, bundles, crashes, crashed, shutdown, requests>>
    BY <1>5 DEF Swap
  <2>5. CASE /\ child' = [Up(reload.new) EXCEPT ![current].status = "stopping"]
             /\ reload' = [reload EXCEPT !.phase = "drain", !.old = current]
             /\ UNCHANGED <<calls, known, hmrVars>>
    <3>1. child' \in [Children -> ChildType(0..sharedSource)]
      BY <2>3, <2>5
    <3>2. reload' \in ReloadType(0..sharedSource)
      BY <2>1, <2>5 DEF TypeOK
    <3> QED BY <2>2, <2>4, <2>5, <3>1, <3>2 DEF TypeOK, hmrVars
  <2>6. CASE child' = Up(reload.new) /\ Settle("ok")
    BY <1>0, <2>2, <2>3, <2>4, <2>6 DEF TypeOK
  <2> QED BY <1>5, <2>5, <2>6 DEF Swap
<1>6. CASE Drained
  <2>1. UNCHANGED <<tree, bundles, child, current, names, generation, crashes, crashed, shutdown, requests>>
    BY <1>6 DEF Drained
  <2>2. Settle("ok")
    BY <1>6 DEF Drained
  <2> QED BY <1>0, <2>1, <2>2 DEF TypeOK
<1> QED BY <1>1, <1>2, <1>3, <1>4, <1>5, <1>6 DEF ReloadStep

LEMMA ChildTypes ==
  ASSUME IInv, (\E p \in Children : ChildExits(p) \/ Crash(p)) \/ Stop \/ Stopped
  PROVE  TypeOK'
<1> USE DEF tree, bundles, hmrVars
<1>0. TypeOK /\ Gone \in ChildType(0..sharedSource)
  BY DEF IInv, Gone, Versions, TypeOK
<1>1. ASSUME NEW p \in Children, ChildExits(p) PROVE TypeOK'
  <2>1. child' \in [Children -> ChildType(0..sharedSource)]
    BY <1>0, <1>1 DEF ChildExits, TypeOK
  <2> QED BY <1>0, <1>1, <2>1 DEF ChildExits, TypeOK
<1>2. ASSUME NEW p \in Children, Crash(p) PROVE TypeOK'
  <2>1. child' \in [Children -> ChildType(0..sharedSource)]
    BY <1>0, <1>2 DEF Crash, TypeOK
  <2>2. crashes' \in Nat /\ current' \in Children \cup {None}
    BY <1>0, <1>2 DEF Crash, TypeOK
  <2>3. crashed' \in 0..MaxIncidents
    BY <1>0, <1>2, BoundsAssumption DEF Crash, TypeOK
  <2>4. reload' = reload \/ reload' = Reload(Functions)
    BY <1>2 DEF Crash, StartReload
  <2>5. Reload(Functions) \in ReloadType(0..sharedSource)
    BY <1>0, OnDiskTyped DEF Reload, TypeOK
  <2>6. UNCHANGED <<tree, bundles, names, known, generation, shutdown, calls, requests, hmrVars>>
    BY <1>2 DEF Crash
  <2> QED BY <1>0, <2>1, <2>2, <2>3, <2>4, <2>5, <2>6 DEF TypeOK
<1>3. CASE Stop
  <2>1. child' \in [Children -> ChildType(0..sharedSource)]
    BY <1>0, <1>3 DEF Stop, TypeOK
  <2> QED BY <1>0, <1>3, <2>1 DEF Stop, TypeOK
<1>4. CASE Stopped
  BY <1>0, <1>4, BoundsAssumption DEF Stopped, TypeOK
<1> QED BY <1>1, <1>2, <1>3, <1>4

LEMMA NextType == IInv /\ [Next]_vars => TypeOK'
  BY AskingTypes, SavingTypes, ReloadTypes, ChildTypes DEF Next, IInv

-----------------------------------------------------------------------------
(* Where the children are *)

\* The steps of a reload, as changes of its record: it settles, or moves on.
Same == reload' # None /\ reload'.want = reload.want /\ reload'.from = reload.from

LEMMA InFlightTyped ==
  ASSUME TypeOK, ReloadStep
  PROVE  reload \in ReloadType(Nat) /\ reload # None
<1>1. reload # None
  BY DEF ReloadStep, Bundle, Configure, Spawn, BootFails, Swap, Drained, InPhase
<1> QED BY <1>1, ReloadTyped

LEMMA NotNone == \A r \in ReloadType(Nat) : r # None
  BY NoneAssumption

LEMMA BundleMoves ==
  ASSUME TypeOK, Bundle
  PROVE  /\ InPhase("bundle")
         /\ UNCHANGED <<tree, child, current, names, generation, shutdown, sharedRuntime>>
         /\ \/ Settle("failed")
            \/ /\ Same /\ reload'.phase = (IF Discovered = {} THEN "boot" ELSE "config")
               /\ reload'.new = reload.new /\ reload'.old = reload.old
               /\ reload'.shared = 0 <=> reload.shared = 0
               /\ Bundled(Rebundled) /\ UNCHANGED <<calls, known>>
<1>1. InPhase("bundle") /\ UNCHANGED <<tree, child, current, names, generation, shutdown, sharedRuntime>>
  BY DEF Bundle
<1>2. CASE /\ Bundled(Rebundled) /\ UNCHANGED <<calls, known, hmrVars>>
           /\ \E v \in reload.shared..sharedSource :
                reload' = [reload EXCEPT !.phase = IF Discovered = {} THEN "boot" ELSE "config",
                                         !.shared = IF @ = 0 \/ sharedRuntime # 0 THEN @ ELSE v]
  <2>1. PICK v \in reload.shared..sharedSource :
           reload' = [reload EXCEPT !.phase = IF Discovered = {} THEN "boot" ELSE "config",
                                    !.shared = IF @ = 0 \/ sharedRuntime # 0 THEN @ ELSE v]
    BY <1>2
  <2>2. reload \in ReloadType(Nat)
    BY InFlightTyped DEF ReloadStep
  <2>3. v \in Nat /\ reload.shared \in Nat /\ reload.shared <= v
    BY <2>1, <2>2
  <2>4. reload' \in ReloadType(Nat)
    BY <2>1, <2>2, <2>3
  <2>5. /\ Same /\ reload'.phase = (IF Discovered = {} THEN "boot" ELSE "config")
        /\ reload'.new = reload.new /\ reload'.old = reload.old
    BY <2>1, <2>2, <2>4, NotNone DEF Same
  <2>6. reload'.shared = 0 <=> reload.shared = 0
    BY <2>1, <2>2, <2>3
  <2> QED BY <1>1, <1>2, <2>5, <2>6
<1> QED BY <1>1, <1>2 DEF Bundle

LEMMA ConfigureMoves ==
  ASSUME TypeOK, Configure
  PROVE  /\ InPhase("config")
         /\ UNCHANGED <<tree, bundle, bundler, child, current, names, generation, shutdown>>
         /\ \/ Settle("failed") /\ UNCHANGED sharedRuntime
            \/ /\ Same /\ reload'.phase = "spawn" /\ reload'.shared = reload.shared
               /\ reload'.new = reload.new /\ reload'.old = reload.old
               /\ sharedRuntime' = (IF StartShared THEN reload.shared ELSE sharedRuntime)
               /\ UNCHANGED <<calls, known>>
<1>1. CASE Goto("spawn")
  <2>1. reload \in ReloadType(Nat)
    BY InFlightTyped DEF ReloadStep
  <2>2. reload' \in ReloadType(Nat)
    BY <1>1, <2>1 DEF Goto
  <2> QED BY <1>1, <2>1, <2>2, NotNone DEF Configure, Goto, Same, Settle
<1> QED BY <1>1 DEF Configure

LEMMA SpawnMoves ==
  ASSUME TypeOK, SeatsInv, Spawn
  PROVE  /\ InPhase("spawn")
         /\ UNCHANGED <<tree, bundles, current, names, generation, shutdown>>
         /\ \/ Settle("failed") /\ UNCHANGED child
            \/ \E p \in Children :
                 /\ p # current /\ ~Alive(p)
                 /\ Same /\ reload'.phase = "boot" /\ reload'.shared = reload.shared
                 /\ reload'.new = p /\ reload'.old = reload.old
                 /\ child' = [child EXCEPT ![p] =
                      [status |-> "booting", slot |-> nextSlot,
                       loaded |-> [f \in Functions |-> IF f \in Discovered THEN bundle[f] ELSE 0],
                       shared |-> sharedRuntime]]
                 /\ UNCHANGED <<calls, known>>
<1> DEFINE p == Fresh({q \in Children : Alive(q)} \cup {current})
<1>1. InPhase("spawn") /\ UNCHANGED <<tree, bundles, current, names, generation, shutdown>>
  BY DEF Spawn
<1>2. p \in Children /\ p # current /\ ~Alive(p)
  BY <1>1, SpawnedIsFree
<1>3. \/ Settle("failed") /\ UNCHANGED child
      \/ /\ child' = [child EXCEPT ![p] =
              [status |-> "booting", slot |-> nextSlot,
               loaded |-> [f \in Functions |-> IF f \in Discovered THEN bundle[f] ELSE 0],
               shared |-> sharedRuntime]]
         /\ reload' = [reload EXCEPT !.phase = "boot", !.new = p]
         /\ UNCHANGED <<calls, known>>
  BY Zenon DEF Spawn
<1> HIDE DEF p
<1>4. CASE reload' = [reload EXCEPT !.phase = "boot", !.new = p]
  <2>1. reload \in ReloadType(Nat)
    BY InFlightTyped DEF ReloadStep
  <2>2. reload' \in ReloadType(Nat)
    BY <1>2, <1>4, <2>1
  <2>3. /\ Same /\ reload'.phase = "boot" /\ reload'.shared = reload.shared
        /\ reload'.new = p /\ reload'.old = reload.old
    BY <1>4, <2>1, <2>2, NotNone DEF Same
  <2> QED BY <1>1, <1>2, <1>3, <2>3
<1> QED BY <1>1, <1>3, <1>4

LEMMA SwapMoves ==
  ASSUME TypeOK, Swap
  PROVE  /\ InPhase("boot") /\ (reload.new # None => Loadable)
         /\ UNCHANGED <<tree, bundles, shutdown>>
         /\ current' = reload.new /\ names' = Discovered /\ generation' = generation + 1
         /\ \/ /\ current # None /\ Alive(current)
               /\ Same /\ reload'.phase = "drain" /\ reload'.shared = reload.shared
               /\ reload'.new = reload.new /\ reload'.old = current
               /\ child' = [Up(reload.new) EXCEPT ![current].status = "stopping"]
               /\ UNCHANGED <<calls, known>>
            \/ /\ current # None => ~Alive(current)
               /\ child' = Up(reload.new)
               /\ Settle("ok")
<1>1. /\ InPhase("boot") /\ (reload.new # None => Loadable)
      /\ UNCHANGED <<tree, bundles, shutdown>>
      /\ current' = reload.new /\ names' = Discovered /\ generation' = generation + 1
  BY DEF Swap
<1>2. CASE reload' = [reload EXCEPT !.phase = "drain", !.old = current]
  <2>1. reload \in ReloadType(Nat) /\ current \in Children \cup {None}
    BY InFlightTyped DEF ReloadStep, TypeOK
  <2>2. reload' \in ReloadType(Nat)
    BY <1>2, <2>1
  <2>3. /\ Same /\ reload'.phase = "drain" /\ reload'.shared = reload.shared
        /\ reload'.new = reload.new /\ reload'.old = current
    BY <1>2, <2>1, <2>2, NotNone DEF Same
  <2> QED BY <1>1, <2>3 DEF Swap
<1> QED BY <1>1, <1>2 DEF Swap

\* A swap changes what children are asked to do, not what they are.
LEMMA SwapKeeps ==
  ASSUME TypeOK, SeatsInv, Swap
  PROVE  \A q \in Children : /\ child'[q].loaded = child[q].loaded /\ child'[q].shared = child[q].shared
                             /\ ~Alive(q) => child'[q] = child[q]
<1>1. \A q \in Children : /\ Up(reload.new)[q].loaded = child[q].loaded
                          /\ Up(reload.new)[q].shared = child[q].shared
                          /\ Up(reload.new)[q] \in ChildType(Nat)
                          /\ q # reload.new => Up(reload.new)[q] = child[q]
  BY DEF Up, TypeOK
<1>2. Up(reload.new) = [q \in Children |-> Up(reload.new)[q]]
  BY DEF Up
<1>3. reload.new # None => reload.new \in Children /\ Alive(reload.new)
  BY InFlightTyped, SwapMoves DEF ReloadStep, SeatsInv, Alive, Gone
<1>4. CASE child' = Up(reload.new)
  BY <1>1, <1>3, <1>4, NoneAssumption
<1>5. CASE current # None /\ Alive(current) /\ child' = [Up(reload.new) EXCEPT ![current].status = "stopping"]
  <2>1. current \in Children
    BY <1>5 DEF TypeOK
  <2>2. \A q \in Children : child'[q] = IF q = current THEN [Up(reload.new)[q] EXCEPT !.status = "stopping"]
                                       ELSE Up(reload.new)[q]
    BY <1>2, <1>5, <2>1
  <2>3. \A q \in Children : /\ child'[q].loaded = Up(reload.new)[q].loaded
                            /\ child'[q].shared = Up(reload.new)[q].shared
    BY <1>1, <2>2
  <2> QED BY <1>1, <1>3, <1>5, <2>2, <2>3, NoneAssumption
<1> QED BY <1>4, <1>5, SwapMoves

LEMMA InitSeats == Init => CurrentInv /\ SeatsInv /\ StopInv
<1> SUFFICES ASSUME Init PROVE CurrentInv /\ SeatsInv /\ StopInv
  OBVIOUS
<1>1. /\ generation = 0 /\ reload = None /\ shutdown.phase = "no"
      /\ current # None => current \in Children /\ child[current] =
           [status |-> "up", slot |-> 0, loaded |-> bundle, shared |-> sharedRuntime]
      /\ \A p \in Children : p # current => child[p] = Gone
  <2>1. current = None \/ current \in Children
    BY ChildrenAssumption DEF Init, Fresh
  <2> QED BY <2>1 DEF Init
<1> QED BY <1>1 DEF CurrentInv, SeatsInv, StopInv, InPhase, Living, Alive

LEMMA Flip == \A n \in Nat : (n + 1) % 2 \in 0..1 /\ (n + 1) % 2 # n % 2
  OBVIOUS

LEMMA NextSeats ==
  ASSUME IInv, [Next]_vars
  PROVE  CurrentInv' /\ SeatsInv' /\ StopInv'
<1> USE DEF CurrentInv, SeatsInv, StopInv, InPhase, Living
<1>0. TypeOK /\ CurrentInv /\ SeatsInv /\ StopInv
  BY DEF IInv
<1>a. reload # None => reload \in ReloadType(0..sharedSource)
  BY <1>0, ReloadTyped
<1>1. CASE Quiet
  BY <1>0, <1>1 DEF Quiet, Alive, nextSlot, Discovered
<1>2. CASE Asks
  <2>1. PICK c \in Callers, want \in SUBSET Functions : DoReload(c, want)
    BY <1>2 DEF Asks
  <2>2. /\ UNCHANGED <<child, current, generation, shutdown>>
        /\ \/ reload' = reload
           \/ reload = None /\ ~stopping /\ reload' = Reload(want)
    BY <1>2, <2>1 DEF Asks, DoReload, StartReload
  <2> QED BY <1>0, <2>2 DEF Reload, Alive, nextSlot, Discovered, stopping
<1>3. CASE ReloadStep
  <2>1. UNCHANGED shutdown
    BY <1>3 DEF ReloadStep, Bundle, Configure, Spawn, BootFails, Swap, Drained
  <2>2. CASE Bundle
    BY <1>0, <2>1, <2>2, BundleMoves DEF Settle, Same, Alive, nextSlot, Discovered, stopping
  <2>3. CASE Configure
    BY <1>0, <2>1, <2>3, ConfigureMoves DEF Settle, Same, Alive, nextSlot, Discovered, stopping
  <2>4. CASE Spawn
    BY <1>0, <2>1, <2>4, SpawnMoves, NoneAssumption DEF Settle, Same, Alive, nextSlot, Discovered, stopping, TypeOK
  <2>5. CASE BootFails
    BY <1>0, <2>1, <2>5 DEF BootFails, Settle, Alive, nextSlot, stopping, TypeOK
  <2>6. CASE Swap
    BY <1>0, <2>1, <2>6, SwapMoves, Flip, NoneAssumption DEF Settle, Same, Alive, nextSlot, Discovered, stopping, TypeOK, Up
  <2>7. CASE Drained
    BY <1>0, <2>1, <2>7 DEF Drained, Settle, Alive, nextSlot, stopping
  <2> QED BY <1>3, <2>2, <2>3, <2>4, <2>5, <2>6, <2>7 DEF ReloadStep
<1>4. ASSUME NEW p \in Children, ChildExits(p) PROVE CurrentInv' /\ SeatsInv' /\ StopInv'
  BY <1>0, <1>4 DEF ChildExits, TypeOK, Alive, nextSlot, Discovered, stopping, Gone
<1>5. ASSUME NEW p \in Children, Crash(p) PROVE CurrentInv' /\ SeatsInv' /\ StopInv'
  BY <1>0, <1>5 DEF Crash, StartReload, Reload, TypeOK, Alive, nextSlot, Discovered, stopping, Gone
<1>6. CASE Stop
  BY <1>0, <1>6 DEF Stop, TypeOK, Alive, nextSlot, Discovered, stopping, Gone
<1>7. CASE Stopped
  BY <1>0, <1>7 DEF Stopped, TypeOK, Alive, nextSlot, Discovered, stopping, Gone
<1> QED BY <1>0, <1>1, <1>2, <1>3, <1>4, <1>5, <1>6, <1>7, Steps

-----------------------------------------------------------------------------
(* What is loaded, and what the gateway knows of it *)

LEMMA InitNames == Init => LoadedInv /\ NamesInv /\ CallerInv /\ FreshInv
<1> SUFFICES ASSUME Init PROVE LoadedInv /\ NamesInv /\ CallerInv /\ FreshInv
  OBVIOUS
<1>1. reload = None /\ names = present /\ known = present
  BY DEF Init
<1>2. Serving => names = Loads(current)
  <2>1. current # None => current \in Children /\ child[current].loaded = OnDisk /\ source = [f \in Functions |-> 1]
    BY ChildrenAssumption DEF Init, Fresh
  <2>2. present \subseteq Functions
    BY DataAssumption DEF Init
  <2> QED BY <1>1, <2>1, <2>2 DEF Serving, Loads, OnDisk
<1>3. \A c \in Callers : calls[c].status = "idle"
  BY DEF Init, Call
<1> QED BY <1>1, <1>2, <1>3 DEF LoadedInv, NamesInv, CallerInv, FreshInv, InPhase

LEMMA NextLoaded ==
  ASSUME IInv, [Next]_vars
  PROVE  LoadedInv'
<1> USE DEF LoadedInv, InPhase, Loads
<1>0. TypeOK /\ SeatsInv /\ LoadedInv
  BY DEF IInv
<1>1. CASE Quiet
  BY <1>0, <1>1 DEF Quiet, Discovered
<1>2. CASE Asks
  BY <1>0, <1>2 DEF Asks, DoReload, StartReload, Reload, Discovered
<1>3. CASE ReloadStep
  <2>2. CASE Bundle
    BY <1>0, <2>2, BundleMoves DEF Settle, Same, Discovered, SeatsInv
  <2>3. CASE Configure
    BY <1>0, <2>3, ConfigureMoves DEF Settle, Same
  <2>4. CASE Spawn
    BY <1>0, <2>4, SpawnMoves, NoneAssumption DEF Settle, Same, Discovered, SeatsInv, TypeOK
  <2>5. CASE BootFails \/ Drained
    BY <2>5 DEF BootFails, Drained, Settle
  <2>6. CASE Swap
    BY <1>0, <2>6, SwapMoves DEF Settle, Same
  <2> QED BY <1>3, <2>2, <2>3, <2>4, <2>5, <2>6 DEF ReloadStep
<1>4. ASSUME NEW p \in Children, ChildExits(p) PROVE LoadedInv'
  BY <1>0, <1>4 DEF ChildExits, TypeOK, SeatsInv, Discovered
<1>5. ASSUME NEW p \in Children, Crash(p) PROVE LoadedInv'
  BY <1>0, <1>5 DEF Crash, StartReload, Reload, TypeOK, SeatsInv, Discovered
<1>6. CASE Stop
  BY <1>0, <1>6 DEF Stop, TypeOK, Discovered
<1>7. CASE Stopped
  BY <1>0, <1>7 DEF Stopped, Discovered
<1> QED BY <1>0, <1>1, <1>2, <1>3, <1>4, <1>5, <1>6, <1>7, Steps

LEMMA NextNames ==
  ASSUME IInv, [Next]_vars
  PROVE  NamesInv'
<1> USE DEF NamesInv, Serving, InPhase, Loads, Alive
<1>0. TypeOK /\ CurrentInv /\ SeatsInv /\ LoadedInv /\ NamesInv
  BY DEF IInv
<1>1. CASE Quiet
  BY <1>0, <1>1 DEF Quiet
<1>2. CASE Asks
  BY <1>0, <1>2 DEF Asks, DoReload, StartReload, Reload
<1>3. CASE ReloadStep
  <2>2. CASE Bundle
    BY <1>0, <2>2, BundleMoves DEF Settle, Bridged
  <2>3. CASE Configure
    BY <1>0, <2>3, ConfigureMoves DEF Settle, Bridged
  <2>4. CASE Spawn
    BY <1>0, <2>4, SpawnMoves DEF Settle, Bridged, TypeOK
  <2>5. CASE BootFails
    BY <1>0, <2>5 DEF BootFails, Settle, TypeOK, SeatsInv
  <2>6. CASE Swap
    <3>0. /\ reload.phase = "boot" /\ (reload.new # None => Loadable)
          /\ current' = reload.new /\ names' = Discovered
          /\ \/ /\ current # None /\ Alive(current) /\ reload' # None /\ reload'.phase = "drain"
                /\ child' = [Up(reload.new) EXCEPT ![current].status = "stopping"]
             \/ child' = Up(reload.new) /\ reload' = None /\ known' = names'
      BY <1>0, <2>6, SwapMoves DEF Settle, Bridged, Same
    <3>1. reload.new # None => reload.new \in Children /\ Loads(reload.new) = Discovered
      <4>1. reload # None /\ reload \in ReloadType(Nat)
        BY <1>0, <2>6, InFlightTyped DEF ReloadStep
      <4>2. reload.new # None => Loads(reload.new) \subseteq Discovered
        BY <1>0, <3>0, <4>1 DEF LoadedInv
      <4> QED BY <3>0, <4>1, <4>2 DEF Loadable, Discovered
    <3>2. reload.new # None => child'[reload.new].loaded = child[reload.new].loaded
      <4>1. \A q \in Children : Up(reload.new)[q].loaded = child[q].loaded /\ Up(reload.new)[q] \in ChildType(Nat)
        BY <1>0 DEF Up, TypeOK
      <4>2. Up(reload.new) = [q \in Children |-> Up(reload.new)[q]]
        BY DEF Up
      <4> QED BY <3>0, <3>1, <4>1, <4>2, SMTT(30)
    <3>3. Serving' => names' = Loads(current)'
      <4> SUFFICES ASSUME current' # None PROVE names' = Loads(current)'
        OBVIOUS
      <4>1. current' = reload.new /\ reload.new # None /\ names' = Discovered
        BY <3>0
      <4>2. Loads(current)' = Loads(reload.new)
        BY <3>2, <4>1
      <4> QED BY <3>1, <4>1, <4>2
    <3> QED BY <3>0, <3>3
  <2>7. CASE Drained
    BY <1>0, <2>7 DEF Drained, Settle, Bridged
  <2> QED BY <1>3, <2>2, <2>3, <2>4, <2>5, <2>6, <2>7 DEF ReloadStep
<1>4. ASSUME NEW p \in Children, ChildExits(p) PROVE NamesInv'
  BY <1>0, <1>4 DEF ChildExits, TypeOK
<1>5. ASSUME NEW p \in Children, Crash(p) PROVE NamesInv'
  BY <1>0, <1>5 DEF Crash, StartReload, Reload, TypeOK
<1>6. CASE Stop
  BY <1>0, <1>6 DEF Stop, TypeOK, CurrentInv, stopping, Gone
<1>7. CASE Stopped
  BY <1>0, <1>7 DEF Stopped
<1> QED BY <1>0, <1>1, <1>2, <1>3, <1>4, <1>5, <1>6, <1>7, Steps

-----------------------------------------------------------------------------
(* What the callers of a reload get *)

LEMMA NextCaller ==
  ASSUME IInv, [Next]_vars
  PROVE  CallerInv'
<1> USE DEF CallerInv
<1>0. TypeOK /\ SeatsInv /\ CallerInv /\ TypeOK'
  BY NextType DEF IInv
<1>1. CASE Quiet
  BY <1>0, <1>1 DEF Quiet
<1>2. CASE Asks
  <2>1. PICK c \in Callers, want \in SUBSET Functions : DoReload(c, want)
    BY <1>2 DEF Asks
  <2>2. CASE stopping
    BY <1>0, <2>1, <2>2 DEF DoReload, StartReload, Call, TypeOK
  <2>3. CASE ~stopping
    <3>1. reload' # None
      <4>1. Reload(want) \in ReloadType(Nat)
        BY <1>0, OnDiskTyped DEF Reload, TypeOK
      <4> QED BY <2>1, <2>3, <4>1, NotNone DEF DoReload, StartReload
    <3>2. calls'[c].joined = (reload # None) /\ calls'[c].want = want /\ calls'[c].at = OnDisk
      BY <1>0, <2>1 DEF DoReload, Call, TypeOK
    <3>3. \A d \in Callers \ {c} : calls'[d] = calls[d]
      BY <1>0, <2>1 DEF DoReload, TypeOK
    <3>4. reload # None => reload' = reload
      BY <2>1 DEF DoReload, StartReload
    <3>5. reload = None => reload'.want = want /\ reload'.from = OnDisk
      BY <2>1, <2>3 DEF DoReload, StartReload, Reload
    <3> QED BY <1>0, <3>1, <3>2, <3>3, <3>4, <3>5
  <2> QED BY <2>2, <2>3
<1>3. CASE ReloadStep
  <2>0. Settle("failed") \/ Settle("ok") => \A c \in Callers : calls'[c].status # "waiting"
    BY <1>0, Settles DEF TypeOK
  <2>2. CASE Bundle
    BY <1>0, <2>0, <2>2, BundleMoves DEF Same
  <2>3. CASE Configure
    BY <1>0, <2>0, <2>3, ConfigureMoves DEF Same
  <2>4. CASE Spawn
    BY <1>0, <2>0, <2>4, SpawnMoves DEF Same
  <2>5. CASE BootFails \/ Drained
    BY <2>0, <2>5 DEF BootFails, Drained
  <2>6. CASE Swap
    BY <1>0, <2>0, <2>6, SwapMoves DEF Same
  <2> QED BY <1>3, <2>2, <2>3, <2>4, <2>5, <2>6 DEF ReloadStep
<1>4. ASSUME NEW p \in Children, ChildExits(p) PROVE CallerInv'
  BY <1>0, <1>4 DEF ChildExits
<1>5. ASSUME NEW p \in Children, Crash(p) PROVE CallerInv'
  BY <1>0, <1>5 DEF Crash, StartReload
<1>6. CASE Stop \/ Stopped
  BY <1>0, <1>6 DEF Stop, Stopped
<1> QED BY <1>0, <1>1, <1>2, <1>3, <1>4, <1>5, <1>6, Steps

LEMMA NextFresh ==
  ASSUME IInv, [Next]_vars
  PROVE  FreshInv'
<1> USE DEF FreshInv, InPhase, Alive
<1>0. TypeOK /\ SeatsInv /\ FreshInv
  BY DEF IInv
<1>1. CASE Quiet
  BY <1>0, <1>1 DEF Quiet, Discovered, Rebundled, bundles
<1>2. CASE Asks
  BY <1>0, <1>2 DEF Asks, DoReload, StartReload, Reload, Discovered, Rebundled, tree, bundles
<1>3. CASE ReloadStep
  <2>1. prebuilt' = prebuilt
    BY <1>3 DEF ReloadStep, Bundle, Configure, Spawn, BootFails, Swap, Drained, tree
  <2>2. CASE Bundle
    <3>1. Bundled(Rebundled) => \A f \in Rebundled : bundle'[f] >= reload.from[f]
      <4>1. reload \in ReloadType(Nat) /\ source \in Versions
        BY <1>0, <1>3, InFlightTyped DEF TypeOK
      <4> QED BY <4>1 DEF Bundled, Rebundled, Discovered, Versions
    <3> QED BY <1>0, <2>1, <2>2, <3>1, BundleMoves DEF Settle, Same, Discovered, Rebundled, SeatsInv
  <2>3. CASE Configure
    BY <1>0, <2>1, <2>3, ConfigureMoves DEF Settle, Same, Discovered, Rebundled
  <2>4. CASE Spawn
    BY <1>0, <2>1, <2>4, SpawnMoves, NoneAssumption DEF Settle, Same, Discovered, Rebundled, TypeOK, bundles
  <2>5. CASE BootFails \/ Drained
    BY <2>5 DEF BootFails, Drained, Settle
  <2>6. CASE Swap
    BY <1>0, <2>1, <2>6, SwapMoves, SwapKeeps DEF Settle, Same, Discovered, Rebundled, TypeOK
  <2> QED BY <1>3, <2>2, <2>3, <2>4, <2>5, <2>6 DEF ReloadStep
<1>4. ASSUME NEW p \in Children, ChildExits(p) PROVE FreshInv'
  BY <1>0, <1>4 DEF ChildExits, TypeOK, Discovered, Rebundled, tree, bundles
<1>5. ASSUME NEW p \in Children, Crash(p) PROVE FreshInv'
  BY <1>0, <1>5 DEF Crash, StartReload, Reload, TypeOK, Discovered, Rebundled, tree, bundles
<1>6. CASE Stop
  <2>1. current # None => child[current].status = "up"
    BY <1>6 DEF Stop, IInv, CurrentInv, stopping
  <2>2. \A q \in Children : /\ child'[q].loaded = child[q].loaded
                            /\ child[q] = Gone => child'[q] = Gone
    BY <1>0, <1>6, <2>1, NoneAssumption DEF Stop, TypeOK, Gone
  <2> QED BY <1>0, <1>6, <2>2 DEF Stop, TypeOK, Discovered, Rebundled, tree, bundles
<1>7. CASE Stopped
  BY <1>0, <1>7 DEF Stopped, Discovered, Rebundled, tree
<1> QED BY <1>0, <1>1, <1>2, <1>3, <1>4, <1>5, <1>6, <1>7, Steps

-----------------------------------------------------------------------------
(* The shared module's runtime *)

LEMMA InitShared == Init => SharedInv
<1> SUFFICES ASSUME Init PROVE SharedInv
  OBVIOUS
<1>1. TypeOK
  BY InitType
<1>2. /\ reload = None
      /\ sharedRuntime = IF present = {} THEN 0 ELSE sharedSource
      /\ bundler = IF present = {} THEN "none" ELSE BundlerFor(sharedSource)
      /\ present = {} => current = None
      /\ \A q \in Children : Alive(q) => q = current /\ child[q].shared = sharedRuntime
      /\ prebuilt => present = Functions
  BY DEF Init, Alive
<1> QED BY <1>1, <1>2, NoneAssumption DEF SharedInv, RuntimeInv, BundlerFor, Living, InPhase, TypeOK

LEMMA NextShared ==
  ASSUME IInv, [Next]_vars
  PROVE  SharedInv'
<1> USE DEF SharedInv, RuntimeInv, InPhase, Alive, Living
<1>0. TypeOK /\ SeatsInv /\ LoadedInv /\ SharedInv
  BY DEF IInv
<1>00. TypeOK'
  BY NextType
<1>1. CASE Quiet
  <2>1. /\ UNCHANGED <<prebuilt, bundler, sharedRuntime, child, reload>> /\ stopping' = stopping
        /\ sharedSource' >= sharedSource /\ (prebuilt => sharedSource' = sharedSource)
    BY <1>1 DEF Quiet, bundles
  <2>2. {sharedSource, sharedSource', sharedRuntime} \subseteq Nat
    BY <1>0, <1>00 DEF TypeOK
  <2>3. sharedRuntime' <= sharedSource' /\ (sharedSource > 0 => sharedSource' > 0)
    BY <1>0, <2>1, <2>2
  <2>4. ~stopping => RuntimeInv'
    BY <1>0, <2>1, <2>3
  <2> QED BY <2>1, <2>3, <2>4
<1>2. CASE Asks
  BY <1>0, <1>2 DEF Asks, DoReload, StartReload, Reload, TypeOK, tree, bundles, stopping
<1>3. CASE ReloadStep
  <2>1. UNCHANGED <<tree, shutdown>>
    BY <1>3 DEF ReloadStep, Bundle, Configure, Spawn, BootFails, Swap, Drained
  <2>2. CASE Bundle
    <3>1. bundler' = IF bundler = "none" /\ ~prebuilt /\ Discovered # {} THEN BundlerFor(reload.shared) ELSE bundler
      BY <2>2 DEF Bundle, CreateBundler
    <3>2. reload \in ReloadType(0..sharedSource)
      BY <1>0, <2>2, BundleMoves DEF TypeOK
    <3>3. UNCHANGED <<prebuilt, sharedSource, sharedRuntime, child>> /\ stopping' = stopping
      BY <1>0, <2>1, <2>2, BundleMoves DEF tree, stopping
    <3>4. reload # None /\ reload.phase = "bundle" /\ Living \subseteq {current}
      BY <1>0, <2>2, BundleMoves DEF SeatsInv
    <3>5. \/ reload' = None
          \/ /\ reload'.phase = IF Discovered = {} THEN "boot" ELSE "config"
             /\ reload'.shared = 0 <=> reload.shared = 0
             /\ reload'.new = reload.new
      BY <1>0, <2>2, BundleMoves DEF Settle
    <3>6. ~stopping => RuntimeInv'
      <4> SUFFICES ASSUME ~stopping PROVE RuntimeInv'
        OBVIOUS
      <4>1. bundler' = "none" => Living' = {} /\ sharedRuntime' = 0 /\ ~InPhase("config")' /\ ~InPhase("spawn")'
        BY <1>0, <3>1, <3>3, <3>5 DEF BundlerFor, Discovered
      <4>2. bundler' = "calls" => sharedSource' > 0 /\ (reload' # None => reload'.shared > 0)
        <5>1. reload' # None => reload'.shared \in Nat
          BY <1>00 DEF TypeOK
        <5>2. reload.shared \in Nat /\ sharedSource \in Nat /\ (reload.shared > 0 => sharedSource > 0)
          BY <1>0, <3>2 DEF TypeOK
        <5>3. bundler' = "calls" => reload.shared > 0 /\ sharedSource > 0
          BY <1>0, <3>1, <3>4, <5>2 DEF BundlerFor
        <5> QED BY <3>3, <3>5, <5>1, <5>2, <5>3
      <4>3. bundler' = "calls" => \A p \in Living' : sharedRuntime' # 0 /\ child'[p].shared = sharedRuntime'
        BY <1>0, <3>1, <3>3 DEF BundlerFor
      <4>4. ~InPhase("spawn")'
        BY <3>5
      <4>5. prebuilt' => bundler' = bundler
        BY <3>1, <3>3
      <4> QED BY <1>0, <3>3, <4>1, <4>2, <4>3, <4>4, <4>5
    <3> QED BY <1>0, <3>3, <3>6
  <2>3. CASE Configure
    <3>1. /\ reload \in ReloadType(0..sharedSource) /\ reload.phase = "config"
          /\ UNCHANGED <<prebuilt, sharedSource, bundler, child>> /\ stopping' = stopping
          /\ \/ reload' = None /\ UNCHANGED sharedRuntime
             \/ /\ reload' # None /\ reload'.phase = "spawn" /\ reload'.shared = reload.shared
                /\ sharedRuntime' = (IF StartShared THEN reload.shared ELSE sharedRuntime)
      BY <1>0, <2>1, <2>3, ConfigureMoves DEF Settle, Same, tree, stopping, TypeOK
    <3>2. {sharedSource, sharedRuntime, reload.shared} \subseteq Nat /\ reload.shared <= sharedSource
      BY <1>0, <3>1 DEF TypeOK
    <3>3. sharedRuntime' <= sharedSource'
      BY <1>0, <3>1, <3>2
    <3>4. sharedRuntime # 0 => sharedRuntime' = sharedRuntime
      BY <3>1 DEF StartShared
    <3>5. reload.shared > 0 /\ reload' # None => sharedRuntime' # 0
      BY <3>1, <3>2 DEF StartShared
    <3>6. ~stopping => RuntimeInv'
      <4> SUFFICES ASSUME ~stopping PROVE RuntimeInv'
        OBVIOUS
      <4>1. bundler' # "none" /\ ~InPhase("config")'
        BY <1>0, <2>3, <3>1, ConfigureMoves
      <4>2. bundler' = "calls" => sharedSource' > 0 /\ (reload' # None => reload'.shared > 0)
        BY <1>0, <2>3, <3>1, ConfigureMoves
      <4>3. bundler' = "calls" => \A p \in Living' : sharedRuntime' # 0 /\ child'[p].shared = sharedRuntime'
        BY <1>0, <3>1, <3>4
      <4>4. bundler' = "calls" => (InPhase("spawn")' => sharedRuntime' # 0)
        BY <3>1, <3>5, <4>2
      <4> QED BY <1>0, <3>1, <4>1, <4>2, <4>3, <4>4
    <3> QED BY <3>1, <3>3, <3>6
  <2>4. CASE Spawn
    BY <1>0, <2>1, <2>4, SpawnMoves DEF Settle, Same, TypeOK, tree, bundles, stopping
  <2>5. CASE BootFails \/ Drained
    BY <1>0, <2>1, <2>5 DEF BootFails, Drained, Settle, TypeOK, bundles, tree, stopping
  <2>6. CASE Swap
    BY <1>0, <2>1, <2>6, SwapMoves, SwapKeeps DEF Settle, Same, tree, bundles, stopping
  <2> QED BY <1>3, <2>2, <2>3, <2>4, <2>5, <2>6 DEF ReloadStep
<1>4. ASSUME NEW p \in Children, ChildExits(p) PROVE SharedInv'
  BY <1>0, <1>4 DEF ChildExits, TypeOK, tree, bundles, stopping
<1>5. ASSUME NEW p \in Children, Crash(p) PROVE SharedInv'
  BY <1>0, <1>5 DEF Crash, StartReload, Reload, TypeOK, tree, bundles, stopping
<1>6. CASE Stop
  BY <1>0, <1>6 DEF Stop, stopping, tree, bundles
<1>7. CASE Stopped
  BY <1>0, <1>7 DEF Stopped, stopping, tree, TypeOK
<1> QED BY <1>0, <1>1, <1>2, <1>3, <1>4, <1>5, <1>6, <1>7, Steps

-----------------------------------------------------------------------------
(* Theorems *)

LEMMA InitIInv == Init => IInv
  BY InitType, InitSeats, InitNames, InitShared DEF IInv

LEMMA NextIInv == IInv /\ [Next]_vars => IInv'
  BY NextType, NextSeats, NextLoaded, NextNames, NextCaller, NextFresh, NextShared DEF IInv

\* The inductive invariant of reloads, crashes, the shared runtime and stop() (backend.ts).
THEOREM Inductive == Spec => []IInv
  BY InitIInv, NextIInv, PTL DEF Spec

\* Whatever the order of reloads, crashes and shutdown, none of the backend's own
\* children is on the ports a reload is about to probe, and none is lost track of.
THEOREM ChildrenStayAccountedFor == Spec => []ChildrenAccountedFor
<1>1. IInv => ChildrenAccountedFor
  <2> SUFFICES ASSUME IInv PROVE ChildrenAccountedFor
    OBVIOUS
  <2>0. TypeOK /\ CurrentInv /\ SeatsInv
    BY DEF IInv
  <2>1. PreflightFindsNoOwnChild
    <3> SUFFICES ASSUME InPhase("spawn"), NEW p \in Children, Alive(p)
                 PROVE  child[p].slot # nextSlot
      BY DEF PreflightFindsNoOwnChild
    <3>1. p = current /\ current # None
      BY <2>0, NoneAssumption DEF SeatsInv, InPhase, Living
    <3>2. child[p].slot = generation % 2
      BY <2>0, <3>1 DEF CurrentInv
    <3> QED BY <2>0, <3>2, Flip DEF nextSlot, TypeOK
  <2>2. ChildrenTracked
    BY <2>0, NoneAssumption DEF ChildrenTracked, SeatsInv, InPhase, Living, InFlight, TypeOK
  <2> QED BY <2>0, <2>1, <2>2 DEF ChildrenAccountedFor
<1> QED BY <1>1, Inductive, PTL

\* The gateway lets through what the child that serves was booted with.
THEOREM GatewayKnowsWhatIsServed == Spec => []KnownIsServed
<1>1. IInv => KnownIsServed
  BY DEF IInv, NamesInv, KnownIsServed, Loads
<1> QED BY <1>1, Inductive, PTL

\* A bundle that calls the shared module finds the runtime that evaluated it.
THEOREM CallsFindTheRuntime == Spec => []SharedCallsArrive
<1>1. IInv => SharedCallsArrive
  <2> SUFFICES ASSUME IInv, Serving, ~stopping, bundler = "calls" \/ (prebuilt /\ sharedSource > 0)
               PROVE  sharedRuntime # 0 /\ child[current].shared = sharedRuntime
    BY DEF SharedCallsArrive
  <2>0. TypeOK /\ RuntimeInv
    BY DEF IInv, SharedInv
  <2>1. current \in Living
    BY <2>0 DEF Serving, Living, TypeOK
  <2>2. bundler = "calls"
    BY <2>0, <2>1 DEF RuntimeInv, TypeOK
  <2> QED BY <2>0, <2>1, <2>2 DEF RuntimeInv
<1> QED BY <1>1, Inductive, PTL

\* A caller whose own reload succeeded finds its edits in the child that serves.
THEOREM OwnReloadServes == Spec => ReloadServesItsEdits
<1>1. ASSUME IInv, [Next]_vars, NEW c \in Callers,
             calls[c].status = "waiting", calls'[c].status = "ok", ~calls[c].joined, Serving'
      PROVE  Serves(current, c)'
  <2>0. TypeOK /\ SeatsInv /\ CallerInv /\ FreshInv /\ TypeOK'
    BY <1>1, NextType DEF IInv
  <2>1. /\ reload # None /\ reload \in ReloadType(Nat)
        /\ calls[c].want \subseteq reload.want /\ calls[c].at = reload.from
    BY <1>1, <2>0, ReloadTyped DEF CallerInv
  <2>2. (Swap \/ Drained) /\ Settle("ok")
    <3>1. CASE Quiet
      BY <1>1, <3>1 DEF Quiet
    <3>2. CASE Asks
      BY <1>1, <2>0, <3>2 DEF Asks, DoReload, Call, TypeOK
    <3>3. CASE ReloadStep
      <4>1. ~Settle("failed")
        BY <1>1, <2>0, Settles DEF TypeOK
      <4> QED BY <1>1, <2>0, <3>3, <4>1 DEF ReloadStep, Bundle, Configure, Spawn, BootFails, Swap, Drained
    <3>4. UNCHANGED calls => FALSE
      BY <1>1
    <3> QED BY <1>1, <2>0, <3>1, <3>2, <3>3, <3>4, Steps DEF ChildExits, Crash, Stop, Stopped
  <2>3. /\ current' # None /\ current' = reload.new /\ Alive(reload.new)
        /\ child'[current'].loaded = child[reload.new].loaded
        /\ InPhase("boot") \/ InPhase("drain")
    <3>1. CASE Swap
      BY <1>1, <2>0, <2>1, <3>1, SwapMoves, SwapKeeps DEF Serving, SeatsInv, Alive, Gone
    <3>2. CASE Drained
      BY <1>1, <2>0, <3>2 DEF Drained, Serving, SeatsInv, InPhase, Alive
    <3> QED BY <2>2, <3>1, <3>2
  <2>4. /\ \A f \in Rebundled : child[reload.new].loaded[f] >= reload.from[f]
        /\ \A f \in Functions \ Discovered : child[reload.new].loaded[f] = 0
    BY <2>0, <2>3 DEF FreshInv
  <2>5. calls'[c].want = calls[c].want /\ calls'[c].at = calls[c].at
    BY <2>0, <2>2 DEF Settle, TypeOK
  <2>6. ASSUME NEW f \in calls[c].want
        PROVE  IF reload.from[f] = 0 THEN child[reload.new].loaded[f] = 0
                                     ELSE child[reload.new].loaded[f] >= reload.from[f]
    BY <2>1, <2>4 DEF Discovered, Rebundled, Versions
  <2> QED BY <2>1, <2>3, <2>5, <2>6 DEF Serves
<1>2. IInv /\ [Next]_vars =>
        [\A c \in Callers :
           calls[c].status = "waiting" /\ calls'[c].status = "ok" /\ ~calls[c].joined
             => ~Serving' \/ Serves(current, c)']_vars
  BY <1>1
<1> QED BY <1>2, Inductive, PTL DEF Spec, ReloadServesItsEdits
=============================================================================
