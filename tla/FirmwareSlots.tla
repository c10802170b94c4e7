---------------------------- MODULE FirmwareSlots ----------------------------
(***************************************************************************)
(* What the firmware supervisor promises its clients, without jobs' phases,*)
(* requests, locks or gateway processes: updates are installed one at a    *)
(* time; an update moves the slots current and previous only by committing *)
(* and traffic only after that; an update that ends before leaves both as  *)
(* they were; what is current, previous or serving is never removed or     *)
(* replaced; and a crash brings the current version back into service.     *)
(***************************************************************************)
CONSTANTS Updates, Versions, Packages, None

VARIABLES
  status,    \* of every update: "waiting", "active", "committed", "reloading" or "ended"
  current,   \* the version that is installed
  previous,  \* the version a rollback goes to
  serving,   \* the version that serves, None for the prebuilt gateway
  dirs       \* the versions on disk, with the package each was unpacked from

vars == <<status, current, previous, serving, dirs>>

OnDisk == {v \in Versions : dirs[v] # None}
InUse == {current, previous, serving} \ {None}

Init ==
  /\ status = [u \in Updates |-> "waiting"]
  /\ dirs \in [Versions -> Packages \cup {None}]
  /\ current \in OnDisk \cup {None}
  /\ previous \in OnDisk \cup {None}
  /\ serving = current

Become(u, s) == status' = [status EXCEPT ![u] = s]

\* No other update is being installed.
Begin(u) ==
  /\ status[u] = "waiting"
  /\ \A w \in Updates : status[w] \in {"waiting", "ended"}
  /\ Become(u, "active")
  /\ UNCHANGED <<current, previous, serving, dirs>>

\* Refused, skipped, cancelled or failed.
Drop(u) ==
  /\ status[u] \in {"waiting", "active"}
  /\ Become(u, "ended")
  /\ UNCHANGED <<current, previous, serving, dirs>>

\* The directory of a version that is not in use is written, or lost in a
\* failed attempt; the update may be dropped at the same time.
Prepare(u) ==
  /\ status[u] = "active"
  /\ Become(u, "active") \/ Become(u, "ended")
  /\ \E v \in Versions \ InUse, p \in Packages \cup {None} : dirs' = [dirs EXCEPT ![v] = p]
  /\ UNCHANGED <<current, previous, serving>>

Commit(u) ==
  /\ status[u] = "active"
  /\ Become(u, "committed")
  /\ current' \in OnDisk
  /\ previous' = IF current' = current THEN previous ELSE current
  /\ UNCHANGED <<serving, dirs>>

\* A reload installs nothing; it boots some version that is on disk.
Reload(u) ==
  /\ status[u] = "active"
  /\ Become(u, "reloading")
  /\ UNCHANGED <<current, previous, serving, dirs>>

Switch(u) ==
  /\ \/ status[u] = "committed" /\ serving' = current
     \/ status[u] = "reloading" /\ serving' \in OnDisk
  /\ Become(u, "ended")
  /\ UNCHANGED <<current, previous, dirs>>

Collect ==
  /\ \A v \in Versions : dirs'[v] # dirs[v] => dirs'[v] = None /\ v \notin InUse
  /\ dirs' \in [Versions -> Packages \cup {None}]
  /\ UNCHANGED <<status, current, previous, serving>>

Crash ==
  /\ serving' = current
  /\ status' \in [Updates -> {"waiting", "ended"}]
  /\ \A u \in Updates : status'[u] = "waiting" => status[u] = "waiting"
  /\ UNCHANGED <<current, previous, dirs>>

Next ==
  \/ \E u \in Updates : Begin(u) \/ Drop(u) \/ Prepare(u) \/ Commit(u) \/ Reload(u) \/ Switch(u)
  \/ Collect \/ Crash

Spec == Init /\ [][Next]_vars
=============================================================================
