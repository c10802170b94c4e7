---------------------------- MODULE WorkerdProcess ----------------------------
(***************************************************************************)
(* One workerd child from the port preflight to its exit                   *)
(* (src/backends/workerd/process.ts, and backend.ts where it makes, swaps  *)
(* and buries children): sockets and who listens on them, the readiness    *)
(* probe with its deadline, SIGTERM and SIGKILL, the exit event and the    *)
(* listener that turns an unexpected exit into a reload.                   *)
(*                                                                         *)
(* That a process is dead and that the event loop has delivered its exit   *)
(* are two things, and so are a connection the kernel has accepted and its *)
(* connect event: such events are delivered in any order.  Bundling comes  *)
(* before the preflight and stop() of the whole backend ends everything:   *)
(* both are in WorkerdBackend, where a boot is one step.                   *)
(***************************************************************************)
EXTENDS Naturals, FiniteSets

CONSTANTS
  Children,      \* identities for workerd children, reused once buried
  Ports,         \* the sockets of one slot: one per function
  Leftovers,     \* foreign listeners there at the start: "workerd", "other"
  Mortals,       \* children and leftovers that may die by themselves
  Cleanups,      \* --kill-stale-workerd: "off", "name" (POSIX), "owner" (Windows)
  MAX_CRASHES,   \* crashes within CRASH_WINDOW_MS that are recovered from
  None

\* The reload in flight: what it waits for and how far the probe of each port is.
BootType ==
  [phase : {"preflight", "probing", "killing", "draining"}, tried : {"nothing", "owner", "name"},
   child : Children \cup {None}, late : BOOLEAN, aborted : BOOLEAN,
   probe : [Ports -> {"idle", "accepted", "refused", "ok"}]]

ASSUME ProcessAssumption ==
  /\ Leftovers \subseteq {"workerd", "other"} /\ Cleanups \subseteq {"off", "name", "owner"}
  /\ MAX_CRASHES \in Nat /\ Children \cap {"workerd", "other"} = {}
  /\ None \notin Children /\ None \notin BootType
\* One identity for the child that serves, one for its successor.
ASSUME ChildrenAssumption == \E c, d \in Children : c # d

VARIABLES
  cleanup,    \* what --kill-stale-workerd does here
  os,         \* children: "none", "running", "dead" until the exit event is delivered
  owner,      \* who listens on a socket <<slot, port>>
  current,    \* workerdProcess
  slot,       \* the slot of the last successful boot: generation % 2
  wired,      \* children whose exit listener is registered
  stopRequested,  \* children with stopRequested
  crashes,    \* crashTimestamps.length, cut at one more than MAX_CRASHES
  boot        \* reloadInFlight and where its start() stands, or None

procVars == <<cleanup, os, owner, current, slot, wired, stopRequested, crashes, boot>>

Sockets == (0..1) \X Ports
RunningChildren == {c \in Children : os[c] = "running"}
nextSlot == 1 - slot

NewReload == [phase |-> "preflight", tried |-> "nothing", child |-> None, late |-> FALSE, aborted |-> FALSE,
              probe |-> [p \in Ports |-> "idle"]]

\* All it still does is to wait for this child's exit.
Await(s, c) == [NewReload EXCEPT !.phase = s, !.child = c]

ProcInit ==
  /\ cleanup \in Cleanups
  /\ LET c == CHOOSE c \in Children : TRUE IN
       /\ os = [d \in Children |-> IF d = c THEN "running" ELSE "none"]
       /\ current = c /\ wired = {c}
       /\ \E left \in Leftovers \cup {None}, ps \in SUBSET Ports :
            owner = [k \in Sockets |-> IF k[1] = 0 THEN c ELSE IF k[2] \in ps THEN left ELSE None]
  /\ slot = 0 /\ stopRequested = {} /\ crashes = 0
  /\ boot = None

-----------------------------------------------------------------------------
(* Steps of operations *)

\* doReload joins the reload in flight or starts one.
DoReload == boot' = IF boot # None THEN boot ELSE NewReload

\* These processes are gone at once, and nothing listens for them; a child's exit
\* is still to be delivered.
Kill(victims) ==
  /\ os' = [c \in Children |-> IF c \in victims /\ os[c] = "running" THEN "dead" ELSE os[c]]
  /\ owner' = [k \in Sockets |-> IF owner[k] \in victims THEN None ELSE owner[k]]

Conflicts == {p \in Ports : owner[<<nextSlot, p>>] # None}

\* Mutant: the failed start does not wait for the exit.
StartFailsAtOnce == boot' = None /\ UNCHANGED <<os, owner>>

\* start(): the readiness wait was rejected; kill, and await the exit.
StartFails ==
  /\ boot' = IF os[boot.child] = "none" THEN None ELSE Await("killing", boot.child)
  /\ Kill({boot.child})

\* doReload: the child is ready, new dispatches go to it, its exit is listened
\* for, and the predecessor is asked to stop unless its exit was delivered.
Swap ==
  /\ current' = boot.child /\ slot' = nextSlot /\ wired' = wired \cup {boot.child}
  /\ IF current = None \/ os[current] = "none"
     THEN stopRequested' = stopRequested /\ boot' = None
     ELSE stopRequested' = stopRequested \cup {current} /\ boot' = Await("draining", current)

-----------------------------------------------------------------------------
(* The reload in flight *)

InPhase(s) == boot # None /\ boot.phase = s

\* A reload is asked for: by the file and env watchers, by the runtime editor.
Ask == boot = None /\ DoReload /\ UNCHANGED <<cleanup, os, owner, current, slot, wired, stopRequested, crashes>>

Spawn ==
  /\ LET c == CHOOSE c \in Children \ {current} : os[c] = "none" IN
       /\ os' = [os EXCEPT ![c] = "running"]
       /\ boot' = [boot EXCEPT !.phase = "probing", !.child = c]
  /\ UNCHANGED owner

Workerds == Children \cup {"workerd"}

\* killWorkerdOwnersOfPorts (Windows), killStaleWorkerd.
OwnersOfPorts == {owner[<<nextSlot, p>>] : p \in Ports} \cap Workerds

CleanUp(tool) ==
  /\ boot.tried # tool
  /\ Kill(IF tool = "owner" THEN OwnersOfPorts ELSE Workerds)
  /\ boot' = [boot EXCEPT !.tried = tool]

\* Mutant: after a cleanup the ports are taken to be free.
PreflightTrusting ==
  /\ InPhase("preflight")
  /\ \/ (Conflicts = {} \/ boot.tried # "nothing") /\ Spawn
     \/ Conflicts # {} /\ cleanup # "off" /\ CleanUp(cleanup)
     \/ Conflicts # {} /\ cleanup = "off" /\ boot' = None /\ UNCHANGED <<os, owner>>
  /\ UNCHANGED <<cleanup, current, slot, wired, stopRequested, crashes>>

\* Probe the sockets of the slot; on a conflict clean up as far as allowed, wait
\* and probe again; a conflict that stays fails the reload.
Preflight ==
  /\ InPhase("preflight")
  /\ \/ Conflicts = {} /\ Spawn
     \/ Conflicts # {} /\ cleanup # "off" /\ boot.tried = "nothing" /\ CleanUp(cleanup)
     \/ Conflicts # {} /\ boot.tried = "owner" /\ CleanUp("name")
     \/ /\ Conflicts # {} /\ (cleanup = "off" \/ boot.tried = "name")
        /\ boot' = None /\ UNCHANGED <<os, owner>>
  /\ UNCHANGED <<cleanup, current, slot, wired, stopRequested, crashes>>

\* The child opens its sockets one by one, and exits if one is taken.
Listen(p) ==
  /\ InPhase("probing") /\ os[boot.child] = "running" /\ owner[<<nextSlot, p>>] # boot.child
  /\ \/ /\ owner[<<nextSlot, p>>] = None
        /\ owner' = [owner EXCEPT ![<<nextSlot, p>>] = boot.child]
        /\ UNCHANGED os
     \/ owner[<<nextSlot, p>>] # None /\ Kill({boot.child})
  /\ UNCHANGED <<cleanup, current, slot, wired, stopRequested, crashes, boot>>

\* readyTimeoutMs has passed.
Deadline ==
  /\ InPhase("probing") /\ ~boot.late
  /\ boot' = [boot EXCEPT !.late = TRUE]
  /\ UNCHANGED <<cleanup, os, owner, current, slot, wired, stopRequested, crashes>>

\* probeUntilReady: give up, or open a connection.
Connect(p) ==
  /\ InPhase("probing") /\ boot.probe[p] = "idle"
  /\ \/ (boot.aborted \/ boot.late) /\ StartFails
     \/ /\ ~boot.aborted /\ ~boot.late
        /\ boot' = [boot EXCEPT !.probe[p] = IF owner[<<nextSlot, p>>] # None THEN "accepted" ELSE "refused"]
        /\ UNCHANGED <<os, owner>>
  /\ UNCHANGED <<cleanup, current, slot, wired, stopRequested, crashes>>

\* The connect event: the port is done, and after the last one the child is
\* swapped in before any other event is delivered.
Connected(p) ==
  /\ InPhase("probing") /\ boot.probe[p] = "accepted"
  /\ \/ /\ \A q \in Ports \ {p} : boot.probe[q] = "ok"
        /\ Swap
     \/ /\ \E q \in Ports \ {p} : boot.probe[q] # "ok"
        /\ boot' = [boot EXCEPT !.probe[p] = "ok"]
        /\ UNCHANGED <<current, slot, wired, stopRequested>>
  /\ UNCHANGED <<cleanup, os, owner, crashes>>

\* The error event: sleep for probeIntervalMs, unless the child has exited.
Refused(p) ==
  /\ InPhase("probing") /\ boot.probe[p] = "refused"
  /\ \/ boot.aborted /\ StartFails
     \/ ~boot.aborted /\ boot' = [boot EXCEPT !.probe[p] = "idle"] /\ UNCHANGED <<os, owner>>
  /\ UNCHANGED <<cleanup, current, slot, wired, stopRequested, crashes>>

-----------------------------------------------------------------------------
(* Processes end *)

\* A child crashes or is killed from outside; a leftover goes away.
Dies(x) ==
  /\ x \in Mortals \cup stopRequested
  /\ x \in RunningChildren \/ \E k \in Sockets : owner[k] = x
  /\ Kill({x})
  /\ UNCHANGED <<cleanup, current, slot, wired, stopRequested, crashes, boot>>

\* SIGTERM, or the SIGKILL after shutdownTimeoutMs.
Terminates(c) == c \in stopRequested /\ Dies(c)

\* Crashes older than the window age out, and this one counts.
CountCrash == \E recent \in 0..crashes :
  crashes' = IF recent < MAX_CRASHES THEN recent + 1 ELSE MAX_CRASHES + 1

\* wireCrashHandler: nothing for a child that was replaced; else dispatch fails
\* from here on.
Crashed(c) ==
  \/ current = c /\ current' = None /\ CountCrash
  \/ current # c /\ UNCHANGED <<current, crashes>>

\* The exit event: the listener is called, if there is one already, and reloads
\* everything unless there were too many crashes; a probe still waiting is
\* aborted, and who awaits the exit goes on.
ExitEvent(c) ==
  /\ os[c] = "dead"
  /\ os' = [os EXCEPT ![c] = "none"]
  /\ wired' = wired \ {c} /\ stopRequested' = stopRequested \ {c}
  /\ IF c \in wired THEN Crashed(c) ELSE UNCHANGED <<current, crashes>>
  /\ IF boot # None /\ boot.child = c
     THEN boot' = IF boot.phase = "probing" THEN [boot EXCEPT !.aborted = TRUE] ELSE None
     ELSE IF current' # current /\ crashes' <= MAX_CRASHES THEN DoReload ELSE UNCHANGED boot
  /\ UNCHANGED <<cleanup, owner, slot>>

StartStep == Preflight \/ \E p \in Ports : Connect(p) \/ Connected(p) \/ Refused(p)

ProcNext ==
  \/ Ask \/ StartStep \/ Deadline
  \/ \E p \in Ports : Listen(p)
  \/ \E x \in Children \cup {"workerd", "other"} : Dies(x)
  \/ \E c \in Children : Terminates(c) \/ ExitEvent(c)
=============================================================================
