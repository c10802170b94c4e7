------------------------------- MODULE Watchdog -------------------------------
(***************************************************************************)
(* The memory watchdog (src/backends/workerd/watchdog.ts) over the workerd *)
(* children it measures: a timer takes samples that never overlap, an      *)
(* unbroken run of samples over the budget recycles the child, and a quiet *)
(* time follows.  A child's memory is over the budget or not; the quiet    *)
(* time ends at some later moment, perhaps during the reload, for it is    *)
(* counted from the sample.                                                *)
(***************************************************************************)
EXTENDS WorkerdProcess

CONSTANTS
  Hysteresis,    \* hysteresisSamples
  Modes          \* whether it may be prebuilt mode, where reload() is refused

ASSUME WatchdogAssumption == Hysteresis \in Nat \ {0} /\ Modes \subseteq BOOLEAN

VARIABLES
  prebuilt,   \* prebuilt mode
  over,       \* children whose resident set is over the budget
  sampling,   \* the sample in flight: "no", "reading", "reloading"
  pid,        \* whose resident set it reads
  streak,     \* overBudgetStreak
  quiet       \* now() < cooldownUntil

wdVars == <<sampling, pid, streak, quiet>>
watchdogVars == <<procVars, prebuilt, over, wdVars>>

WatchdogInit ==
  /\ ProcInit
  /\ prebuilt \in Modes /\ over = {}
  /\ sampling = "no" /\ pid = None /\ streak = 0 /\ quiet = FALSE

-----------------------------------------------------------------------------
\* Memory of the child that serves grows, or is freed.
Grows(c) ==
  /\ current = c /\ os[c] = "running"
  /\ over' = IF c \in over THEN over \ {c} ELSE over \cup {c}
  /\ UNCHANGED <<procVars, prebuilt, wdVars>>

\* The timer fires: nothing while a sample is in flight, in the quiet time or
\* without a child; else its resident set is read.
Sample ==
  /\ sampling = "no"
  /\ \/ /\ quiet \/ current = None
        /\ streak' = 0
        /\ UNCHANGED <<sampling, pid>>
     \/ /\ ~quiet /\ current # None
        /\ sampling' = "reading" /\ pid' = current
        /\ UNCHANGED streak
  /\ UNCHANGED <<procVars, prebuilt, over, quiet>>

\* Nothing was read: the process is gone, or the reader failed.
ReadNothing ==
  /\ sampling = "reading"
  /\ sampling' = "no" /\ pid' = None
  /\ UNCHANGED <<procVars, prebuilt, over, streak, quiet>>

ReadUnder ==
  /\ sampling = "reading" /\ os[pid] = "running" /\ pid \notin over
  /\ sampling' = "no" /\ pid' = None /\ streak' = 0
  /\ UNCHANGED <<procVars, prebuilt, over, quiet>>

Trips == streak + 1 >= Hysteresis

\* Mutant: a rejected reload leaves the sample in flight.
RecycleStuck ==
  /\ quiet' = TRUE /\ streak' = 0 /\ sampling' = "reloading"
  /\ IF prebuilt THEN UNCHANGED boot ELSE DoReload

\* Too many: the quiet time starts, and everything is reloaded; in prebuilt mode
\* the reload is refused at once.
Recycle ==
  /\ quiet' = TRUE /\ streak' = 0
  /\ IF prebuilt THEN sampling' = "no" /\ UNCHANGED boot ELSE sampling' = "reloading" /\ DoReload

ReadOver ==
  /\ sampling = "reading" /\ os[pid] = "running" /\ pid \in over
  /\ pid' = None
  /\ \/ Trips /\ Recycle
     \/ ~Trips /\ streak' = streak + 1 /\ sampling' = "no" /\ UNCHANGED <<quiet, boot>>
  /\ UNCHANGED <<cleanup, os, owner, current, slot, wired, stopRequested, crashes, prebuilt, over>>

\* cooldownMs have passed since the sample that tripped.
QuietEnds == quiet /\ quiet' = FALSE /\ UNCHANGED <<procVars, prebuilt, over, sampling, pid, streak>>

\* A step of the process manager; a new child starts within the budget, and the
\* sample that waits for a reload ends with it, whatever came of it.
Proc(Step) ==
  /\ Step
  /\ over' = {c \in over : os'[c] = "running"}
  /\ sampling' = IF sampling = "reloading" /\ boot # None /\ boot' = None THEN "no" ELSE sampling
  /\ UNCHANGED <<prebuilt, pid, streak, quiet>>

Read == ReadNothing \/ ReadUnder \/ ReadOver

WatchdogNext ==
  \/ Proc(ProcNext)
  \/ \E c \in Children : Grows(c)
  \/ Sample \/ Read \/ QuietEnds

\* Besides what the process manager's steps get: the timer fires, time passes, and
\* the reader of resident sets is not broken for good.
WatchdogSpec == WatchdogInit /\ [][WatchdogNext]_watchdogVars
  /\ WF_watchdogVars(Proc(StartStep)) /\ WF_watchdogVars(Proc(Deadline))
  /\ \A c \in Children : WF_watchdogVars(Proc(Terminates(c))) /\ WF_watchdogVars(Proc(ExitEvent(c)))
  /\ WF_watchdogVars(Sample) /\ WF_watchdogVars(Read) /\ SF_watchdogVars(ReadUnder \/ ReadOver)
  /\ WF_watchdogVars(QuietEnds)

-----------------------------------------------------------------------------
WatchdogTypeOK ==
  /\ cleanup \in Cleanups /\ prebuilt \in Modes
  /\ os \in [Children -> {"none", "running", "dead"}]
  /\ owner \in [Sockets -> Children \cup Leftovers \cup {None}]
  /\ current \in Children \cup {None} /\ slot \in 0..1
  /\ wired \subseteq Children /\ stopRequested \subseteq Children
  /\ crashes \in 0..(MAX_CRASHES + 1)
  /\ boot \in {None} \cup BootType
  /\ over \subseteq RunningChildren /\ sampling \in {"no", "reading", "reloading"}
  /\ pid \in Children \cup {None} /\ streak \in 0..(Hysteresis - 1) /\ quiet \in BOOLEAN

(* No stranger steals traffic: while the child that new requests go to runs, it
   and nobody else listens on every one of its sockets, whatever was left behind
   on the ports of the slot and however the probes and the cleanup went. *)
NoStolenTraffic ==
  current # None /\ os[current] = "running" => \A p \in Ports : owner[<<slot, p>>] = current

(* No child is lost track of: what runs is the child that serves or the one the
   reload in flight is about, so that nothing lives on when a reload has ended,
   however its start failed. *)
NoChildIsLost == RunningChildren \subseteq {current} \cup IF boot = None THEN {} ELSE {boot.child}

(* The books on children, sockets and the reload in flight are right at every moment. *)
ChildrenAccountedFor == WatchdogTypeOK /\ NoChildIsLost

(* A child that stays over its budget is acted on again and again: no failed,
   refused or joined reload puts the watchdog to sleep. *)
OverBudgetIsActedOn == \A c \in Children : []<>(current # c \/ c \notin over \/ quiet)
=============================================================================
