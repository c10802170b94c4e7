------------------------- MODULE FirmwareSupervisor -------------------------
(***************************************************************************)
(* The firmware update protocol of the .NET host                           *)
(* (dotnet/OneTube/Firmware/FirmwareSupervisor.cs): uploads, rollbacks and *)
(* config reloads become jobs; a job pre-empts the one in the active slot, *)
(* waits for the staging lock, stages a version directory, boots and       *)
(* smoke-tests a candidate gateway, writes state.json, swaps the candidate *)
(* in and garbage-collects old versions.  The host may stop or crash at    *)
(* any step.                                                               *)
(*                                                                         *)
(* Simplifications: a package is its version and the fingerprint of its    *)
(* content; state.json's history keeps, per version, the package last      *)
(* promoted under it (the only use the code makes of the list); a gateway  *)
(* process is the record of what it was booted from.                       *)
(***************************************************************************)
EXTENDS Naturals, Sequences, FiniteSets

CONSTANTS
  Jobs,            \* job identities; the bound on requests per run
  Versions,        \* version ids, directories under versions/
  Packages,        \* firmware packages: [version, content] records
  Requests,        \* the requests clients may send
  Faults,          \* the environment failures that may happen
  Installed,       \* packages promoted before the run starts, oldest first
  RetainVersions,  \* FirmwareOptions.RetainVersions
  MaxCrashes,      \* bound on host crashes per run
  None

UploadKinds == {"stage", "begin"}
Kinds == UploadKinds \cup {"rollback", "reload"}

FaultKinds == {"upload", "payload", "stage", "candidate", "deadline", "promote", "collect"}

\* A request: what is asked, the package uploaded (None for the other kinds),
\* ?force=, and whether the client sent the X-1Tube-*-Sha256 headers.
RequestType == [kind : Kinds, package : Packages \cup {None},
                force : BOOLEAN, hinted : BOOLEAN]

\* A gateway process: what it was booted from, its port, whether it still runs.
Ports == {"Port", "CandidatePort"}
HostType == [version : Versions \cup {None}, package : Packages \cup {None},
             port : Ports, up : BOOLEAN]

ASSUME PackagesAssumption == \A p \in Packages : p.version \in Versions
ASSUME RequestsAssumption ==
  /\ Requests \subseteq RequestType
  /\ \A r \in Requests : r.kind \in UploadKinds <=> r.package \in Packages
  /\ \A r \in Requests : r.hinted => r.kind = "stage"
ASSUME NoneAssumption ==
  /\ None \notin Jobs \cup Versions \cup Packages
  /\ None \notin Requests
  /\ None \notin HostType
ASSUME BoundsAssumption ==
  /\ Faults \subseteq FaultKinds
  /\ RetainVersions \in Nat
  /\ MaxCrashes \in Nat
\* At most two packages are installed beforehand, under distinct versions.
ASSUME InstalledAssumption ==
  /\ Installed \in Seq(Packages)
  /\ Len(Installed) <= 2
  /\ Len(Installed) = 2 => Installed[1].version # Installed[2].version

VARIABLES
  \* one request and the job it becomes
  pc,          \* where the code handling j stands
  req,         \* the request
  seen,        \* _activeJob as CreateStageJob / RollbackAsync / RebootCurrentAsync read it
  state,       \* FirmwareJob.State, as _jobs shows it; "NoRecord" when _jobs has no entry
  cancelled,   \* FirmwareJob.Cts is cancelled
  target,      \* the version the job installs
  \* the supervisor
  active,      \* _activeJob
  lock,        \* the job holding _stagingLock
  stopping,    \* StopAsync has run
  \* gateway processes
  live,        \* the host SwappableDestinationProvider routes to
  cand,        \* the candidate host
  draining,    \* the host just swapped out, until it is stopped
  \* disk
  file,        \* state.json
  disk,        \* versions/<v>/: the package it was unpacked from
  born,        \* the creation time of those directories
  clock,       \* directories created so far
  incoming,    \* jobs whose incoming/<jobId>/ exists
  crashes      \* host crashes so far

requestVars == <<pc, req, seen, state, cancelled, target>>
hostVars    == <<live, cand, draining>>
diskVars    == <<file, disk, born, clock, incoming>>
vars == <<requestVars, active, lock, stopping, hostVars, diskVars, crashes>>

-----------------------------------------------------------------------------
(* Job states *)

TerminalStates == {"Done", "Skipped", "Failed", "RolledBack", "Cancelled"}
JobStates == {"Uploading", "Uploaded", "Unpacking", "Verifying", "Staging",
              "SmokeTesting", "Promoting"} \cup TerminalStates

IsTerminal(s) == s \in TerminalStates
IsPastCancellationDeadline(s) == s = "Promoting" \/ IsTerminal(s)

\* The phases a job runs under the staging lock.
LockPhases == {"unpack", "verify", "stage", "spawn", "smoke", "promote",
               "write", "swap", "drain", "collect", "final"}
Phases == LockPhases \cup {"idle", "check", "preempt", "create", "upload", "wait",
                           "refused", "errored", "abandoned", "over", "lost"}

IsUpload(j) == req[j].kind \in UploadKinds

-----------------------------------------------------------------------------
(* state.json and the versions directory *)

\* FirmwareState: what is current, from which package, the rollback target, and
\* for every promoted version the package of its last history entry.
NoState == [current |-> None, package |-> None, previous |-> None,
            history |-> [v \in Versions |-> None]]

Promoted(f) == {v \in Versions : f.history[v] # None} \cup ({f.current, f.previous} \ {None})

\* TryGetDuplicateActiveVersion: package p is the firmware that is current.
\* The package hash is always known, the content hash when `known` says so.
SameAsCurrent(p, known) ==
  /\ file.current # None
  /\ \/ p = file.package
     \/ known /\ p.content = file.package.content

IsDuplicate(p, known) == SameAsCurrent(p, known) /\ disk[file.current] # None

\* ReadPackageSha256 / ReadContentSha256: what state.json records for version v.
Recorded(v) == IF file.current = v THEN file.package ELSE file.history[v]

\* Mutant: previous is not advanced.
PromoteKeepingPrevious(v, p) ==
  [current |-> v, package |-> p, previous |-> file.previous,
   history |-> [file.history EXCEPT ![v] = p]]

\* PromoteAsync's newState: p installed as version v.
Promote(v, p) ==
  [current  |-> v,
   package  |-> p,
   previous |-> IF file.current = v THEN file.previous ELSE file.current,
   history  |-> [file.history EXCEPT ![v] = p]]

Dirs == {v \in Versions : disk[v] # None}

\* GarbageCollect: the directories kept. current and previous are pinned, then
\* the newest fill the retention window.
Pinned == {file.current, file.previous} \ {None}
KeepCount == IF RetainVersions > 2 THEN RetainVersions ELSE 2
Newer(v) == {w \in Dirs : born[w] > born[v]}
KeptUnpinned == {v \in Dirs : Cardinality(Newer(v)) < KeepCount}                          \* mutant: nothing pinned
Kept == Pinned \cup {v \in Dirs : Cardinality(Pinned \cup Newer(v)) < KeepCount}

-----------------------------------------------------------------------------
(* Gateway hosts *)

Host(v, p, port) == [version |-> v, package |-> p, port |-> port, up |-> TRUE]

\* The gateway the host process starts with: state.json's current version when
\* its directory exists, else OneTubeOptions.PrebuiltDir (version None).
BootHost(f, d) ==
  IF f.current # None /\ d[f.current] # None
  THEN Host(f.current, d[f.current], "Port")
  ELSE Host(None, None, "Port")

-----------------------------------------------------------------------------
InstalledState ==
  LET n == Len(Installed) IN
  IF n = 0 THEN NoState
  ELSE [current  |-> Installed[n].version,
        package  |-> Installed[n],
        previous |-> IF n = 1 THEN None ELSE Installed[1].version,
        history  |-> [v \in Versions |->
           IF \E i \in 1..n : Installed[i].version = v
           THEN CHOOSE p \in {Installed[i] : i \in 1..n} : p.version = v
           ELSE None]]

Init ==
  /\ pc = [j \in Jobs |-> "idle"]
  /\ req = [j \in Jobs |-> None]
  /\ seen = [j \in Jobs |-> None]
  /\ state = [j \in Jobs |-> "NoRecord"]
  /\ cancelled = [j \in Jobs |-> FALSE]
  /\ target = [j \in Jobs |-> None]
  /\ active = None
  /\ lock = None
  /\ stopping = FALSE
  /\ file = InstalledState
  /\ disk = InstalledState.history
  /\ born = [v \in Versions |-> IF v = file.current THEN 1 ELSE 0]
  /\ clock = 1
  /\ incoming = {}
  /\ live = BootHost(file, disk)
  /\ cand = None
  /\ draining = None
  /\ crashes = 0

-----------------------------------------------------------------------------
(* Requests, up to the creation of a job *)

\* POST /upload with hash headers that match state.json: a job record that is
\* already Skipped; neither the active slot nor the disk is touched.
SkipKnownDuplicate(j, r) ==
  /\ pc[j] = "idle" /\ ~stopping
  /\ r.kind = "stage" /\ ~r.force /\ r.hinted
  /\ SameAsCurrent(r.package, TRUE)
  /\ pc' = [pc EXCEPT ![j] = "over"]
  /\ req' = [req EXCEPT ![j] = r]
  /\ target' = [target EXCEPT ![j] = file.current]
  /\ state' = [state EXCEPT ![j] = "Skipped"]
  /\ UNCHANGED <<seen, cancelled, active, lock, stopping, hostVars, diskVars, crashes>>

ReceiveUpload(j, r) ==
  /\ pc[j] = "idle" /\ ~stopping
  /\ r.kind \in UploadKinds
  /\ ~ (r.kind = "stage" /\ ~r.force /\ r.hinted /\ SameAsCurrent(r.package, TRUE))
  /\ pc' = [pc EXCEPT ![j] = "check"]
  /\ req' = [req EXCEPT ![j] = r]
  /\ UNCHANGED <<seen, state, cancelled, target, active, lock, stopping,
                 hostVars, diskVars, crashes>>

\* RollbackAsync and RebootCurrentAsync read their target out of state.json and
\* check its directory before they look at the active job.
ReadTarget(j, r, v) ==
  /\ pc[j] = "idle" /\ ~stopping
  /\ v # None /\ disk[v] # None
  /\ pc' = [pc EXCEPT ![j] = "check"]
  /\ req' = [req EXCEPT ![j] = r]
  /\ target' = [target EXCEPT ![j] = v]
  /\ UNCHANGED <<seen, state, cancelled, active, lock, stopping,
                 hostVars, diskVars, crashes>>

ReceiveRollback(j, r) == r.kind = "rollback" /\ ReadTarget(j, r, file.previous)
ReceiveReload(j, r)   == r.kind = "reload" /\ ReadTarget(j, r, file.current)

\* The refuse-or-pre-empt decision on the job in the active slot.
ReadActive(j) ==
  /\ pc[j] = "check"
  /\ LET running == active # None /\ ~IsTerminal(state[active]) IN
     \/ /\ ~running
        /\ pc' = [pc EXCEPT ![j] = "create"]
        /\ UNCHANGED seen
     \/ /\ running /\ IsPastCancellationDeadline(state[active])
        /\ pc' = [pc EXCEPT ![j] = "refused"]
        /\ UNCHANGED seen
     \/ /\ running /\ ~IsPastCancellationDeadline(state[active])
        /\ pc' = [pc EXCEPT ![j] = "preempt"]
        /\ seen' = [seen EXCEPT ![j] = active]
  /\ UNCHANGED <<req, state, cancelled, target, active, lock, stopping,
                 hostVars, diskVars, crashes>>

\* existing.Cts.Cancel(). The job that was read may have ended since: its
\* source is disposed, Cancel throws and the request fails.
CancelExisting(j) ==
  /\ pc[j] = "preempt"
  /\ \/ /\ pc[seen[j]] # "over"
        /\ cancelled' = [cancelled EXCEPT ![seen[j]] = TRUE]
        /\ pc' = [pc EXCEPT ![j] = "create"]
     \/ /\ pc[seen[j]] = "over"
        /\ pc' = [pc EXCEPT ![j] = "errored"]
        /\ UNCHANGED cancelled
  /\ seen' = [seen EXCEPT ![j] = None]
  /\ UNCHANGED <<req, state, target, active, lock, stopping,
                 hostVars, diskVars, crashes>>

\* Mutant: the active slot is only taken when it is empty.
CreateJobIfFree(j) ==
  /\ pc[j] = "create"
  /\ active' = IF active = None THEN j ELSE active
  /\ pc' = [pc EXCEPT ![j] = IF IsUpload(j) THEN "upload" ELSE "wait"]
  /\ state' = [state EXCEPT ![j] = IF IsUpload(j) THEN "Uploading" ELSE "SmokeTesting"]
  /\ incoming' = IF IsUpload(j) THEN incoming \cup {j} ELSE incoming
  /\ UNCHANGED <<req, seen, cancelled, target, lock, stopping, hostVars,
                 file, disk, born, clock, crashes>>

\* The job enters _jobs and overwrites the active slot. An upload gets its
\* incoming directory and starts copying; the others queue for the lock.
CreateJob(j) ==
  /\ pc[j] = "create"
  /\ active' = j
  /\ IF IsUpload(j)
     THEN /\ pc' = [pc EXCEPT ![j] = "upload"]
          /\ state' = [state EXCEPT ![j] = "Uploading"]
          /\ incoming' = incoming \cup {j}
     ELSE /\ pc' = [pc EXCEPT ![j] = "wait"]
          /\ state' = [state EXCEPT ![j] = "SmokeTesting"]
          /\ UNCHANGED incoming
  /\ UNCHANGED <<req, seen, cancelled, target, lock, stopping, hostVars,
                 file, disk, born, clock, crashes>>

-----------------------------------------------------------------------------
(* CopyPayloadAsync: the request body is streamed to disk *)

FinishUpload(j) ==
  /\ pc[j] = "upload" /\ ~cancelled[j]
  /\ pc' = [pc EXCEPT ![j] = "wait"]
  /\ state' = [state EXCEPT ![j] = "Uploaded"]
  /\ UNCHANGED <<req, seen, cancelled, target, active, lock, stopping,
                 hostVars, diskVars, crashes>>

\* The job leaves without having taken the lock: terminal state, incoming
\* directory removed, active slot cleared if it is still its own, source disposed.
EndUpload(j, s) ==
  /\ pc' = [pc EXCEPT ![j] = "over"]
  /\ state' = [state EXCEPT ![j] = s]
  /\ incoming' = incoming \ {j}
  /\ active' = IF active = j THEN None ELSE active
  /\ UNCHANGED <<req, seen, cancelled, target, lock, stopping, hostVars,
                 file, disk, born, clock, crashes>>

\* The client hangs up, or the job was pre-empted: CancelUpload.
AbortUpload(j) == pc[j] = "upload" /\ EndUpload(j, "Cancelled")

\* The copy fails (disk full, broken body). BeginStageAsync fails the job;
\* StageAsync catches only OperationCanceledException and abandons it.
FailUpload(j) ==
  /\ "upload" \in Faults
  /\ pc[j] = "upload"
  /\ \/ req[j].kind = "begin" /\ EndUpload(j, "Failed")
     \/ /\ req[j].kind = "stage"
        /\ pc' = [pc EXCEPT ![j] = "abandoned"]
        /\ UNCHANGED <<req, seen, state, cancelled, target, active, lock, stopping,
                       hostVars, diskVars, crashes>>

-----------------------------------------------------------------------------
(* The state machine, under the staging lock *)

\* One step of the lock holder: phase a to phase b, job state s.
Advance(j, a, b, s) ==
  /\ pc[j] = a
  /\ pc' = [pc EXCEPT ![j] = b]
  /\ state' = [state EXCEPT ![j] = s]
  /\ UNCHANGED <<req, seen, cancelled, active, stopping, crashes>>

\* The job ends before it has a candidate.
Drop(j, a, s) ==
  /\ Advance(j, a, "final", s)
  /\ incoming' = incoming \ {j}
  /\ UNCHANGED <<lock, hostVars>>

\* The lock is granted: a pre-empted job ends at once (its incoming directory
\* stays), a duplicate is skipped, or redeployed from the current directory
\* when forced.
Begin(j) ==
  /\ pc[j] = "wait" /\ lock = None
  /\ lock' = j
  /\ UNCHANGED <<hostVars, file, disk, born, clock>>
  /\ \/ /\ cancelled[j]
        /\ Advance(j, "wait", "final", "Cancelled")
        /\ UNCHANGED <<target, incoming>>
     \/ /\ ~cancelled[j] /\ ~IsUpload(j)
        /\ Advance(j, "wait", "spawn", "SmokeTesting")
        /\ UNCHANGED <<target, incoming>>
     \/ /\ ~cancelled[j] /\ IsUpload(j)
        /\ IsDuplicate(req[j].package, req[j].hinted)
        /\ IF req[j].force THEN Advance(j, "wait", "spawn", "SmokeTesting")
                           ELSE Advance(j, "wait", "final", "Skipped")
        /\ target' = [target EXCEPT ![j] = file.current]
        /\ incoming' = incoming \ {j}
     \/ /\ ~cancelled[j] /\ IsUpload(j)
        /\ ~IsDuplicate(req[j].package, req[j].hinted)
        /\ Advance(j, "wait", "unpack", "Unpacking")
        /\ UNCHANGED <<target, incoming>>

Unpack(j) ==
  /\ UNCHANGED <<target, file, disk, born, clock>>
  /\ \/ /\ Advance(j, "unpack", "verify", "Verifying")
        /\ UNCHANGED <<lock, hostVars, incoming>>
     \/ "payload" \in Faults /\ Drop(j, "unpack", "Failed")

\* Envelope signature, manifest and bundle hashes; then the cancellation check,
\* then the duplicate check again, now that the content hash is known.
Verify(j) ==
  /\ pc[j] = "verify"
  /\ UNCHANGED <<file, disk, born, clock>>
  /\ \/ "payload" \in Faults /\ Drop(j, "verify", "Failed") /\ UNCHANGED target
     \/ cancelled[j] /\ Drop(j, "verify", "Cancelled") /\ UNCHANGED target
     \/ /\ ~cancelled[j]
        /\ LET duplicate == ~req[j].force /\ IsDuplicate(req[j].package, TRUE) IN
           \/ /\ duplicate
              /\ Drop(j, "verify", "Skipped")
              /\ target' = [target EXCEPT ![j] = file.current]
           \/ /\ ~duplicate
              /\ Advance(j, "verify", "stage", "Staging")
              /\ target' = [target EXCEPT ![j] = req[j].package.version]
              /\ UNCHANGED <<lock, hostVars, incoming>>

MayStageAny(v) == TRUE                                              \* mutant: nothing is protected

\* A directory of a promoted version is never overwritten.
MayStage(v) == disk[v] = None \/ v \notin Promoted(file)

\* StagePayload: the unpacked package becomes versions/<target>/. A failure may
\* already have removed the unpromoted directory that was there.
Stage(j) ==
  LET v == target[j] IN
  /\ pc[j] = "stage"
  /\ UNCHANGED <<target, file>>
  /\ \/ /\ ~MayStage(v)
        /\ Drop(j, "stage", "Failed")
        /\ UNCHANGED <<disk, born, clock>>
     \/ /\ MayStage(v) /\ "stage" \in Faults
        /\ Drop(j, "stage", "Failed")
        /\ disk' \in {disk, [disk EXCEPT ![v] = None]}
        /\ UNCHANGED <<born, clock>>
     \/ /\ MayStage(v)
        /\ disk' = [disk EXCEPT ![v] = req[j].package]
        /\ born' = [born EXCEPT ![v] = clock + 1]
        /\ clock' = clock + 1
        /\ \/ cancelled[j] /\ Drop(j, "stage", "Cancelled")
           \/ /\ ~cancelled[j]
              /\ Advance(j, "stage", "spawn", "SmokeTesting")
              /\ UNCHANGED <<lock, hostVars, incoming>>

\* SpawnCandidateAsync, on the port the active host does not use. A missing
\* directory boots a process that cannot serve (package None).
Spawn(j) ==
  /\ pc[j] = "spawn"
  /\ UNCHANGED <<target, lock, live, draining, diskVars>>
  /\ \/ /\ Advance(j, "spawn", "smoke", state[j])
        /\ cand' = Host(target[j], disk[target[j]],
                        IF live.port = "CandidatePort" THEN "Port" ELSE "CandidatePort")
     \/ /\ "candidate" \in Faults
        /\ Advance(j, "spawn", "final", "Failed")
        /\ UNCHANGED cand

\* Mutant: the failure path forgets to stop the candidate.
DropCandidateLeaking(j, a, s) ==
  Advance(j, a, "final", s) /\ UNCHANGED <<target, lock, hostVars, diskVars>>

\* The candidate is stopped and the job ends; incoming/<jobId>/ is not touched.
DropCandidate(j, a, s) ==
  /\ Advance(j, a, "final", s)
  /\ cand' = None
  /\ UNCHANGED <<target, lock, live, draining, diskVars>>

\* Mutant: no last look at the cancellation token.
SmokePassedUnchecked(j) ==
  /\ cand # None /\ cand.up /\ cand.package # None
  /\ Advance(j, "smoke", "promote", "SmokeTesting")
  /\ UNCHANGED <<target, lock, hostVars, diskVars>>

\* The candidate answers its health check; last look at the cancellation token.
SmokePassed(j) ==
  /\ pc[j] = "smoke" /\ cand.up /\ cand.package # None
  /\ \/ cancelled[j] /\ DropCandidate(j, "smoke", "Cancelled")
     \/ /\ ~cancelled[j]
        /\ Advance(j, "smoke", "promote", "SmokeTesting")
        /\ UNCHANGED <<target, lock, hostVars, diskVars>>

\* The candidate exits, or is not healthy when SmokeTimeoutMs is over.
SmokeFailed(j) ==
  /\ pc[j] = "smoke"
  /\ \/ {"candidate", "deadline"} \cap Faults # {}
     \/ ~cand.up
     \/ cand.package = None
  /\ DropCandidate(j, "smoke", "Failed")

\* The job is pre-empted while it polls. The check at the top of the loop ends
\* it Cancelled; but a health probe swallows the cancellation, and the delay
\* after it breaks out of the loop into the timeout exception: Failed.
SmokeCancelled(j) ==
  /\ pc[j] = "smoke" /\ cancelled[j]
  /\ \/ DropCandidate(j, "smoke", "Cancelled")
     \/ DropCandidate(j, "smoke", "Failed")

\* Mutant: a rollback is only swapped.
EnterPromotingSwapOnly(j) ==
  /\ Advance(j, "promote", IF IsUpload(j) THEN "write" ELSE "swap", "Promoting")
  /\ UNCHANGED <<target, lock, hostVars, diskVars>>

\* From here on the cancellation token is ignored. A reload has no state.json
\* to write.
EnterPromoting(j) ==
  /\ pc[j] = "promote"
  /\ Advance(j, "promote", IF req[j].kind = "reload" THEN "swap" ELSE "write", "Promoting")
  /\ UNCHANGED <<target, lock, hostVars, diskVars>>

\* PromoteAsync up to the rename of state.json.
WriteState(j) ==
  \/ /\ pc[j] = "write"
     /\ Advance(j, "write", "swap", "Promoting")
     /\ file' = Promote(target[j], IF IsUpload(j) THEN req[j].package ELSE Recorded(target[j]))
     /\ UNCHANGED <<target, lock, hostVars, disk, born, clock, incoming>>
  \/ "promote" \in Faults /\ DropCandidate(j, "write", "Failed")

\* New requests are routed to the candidate.
Swap(j) ==
  /\ Advance(j, "swap", "drain", "Promoting")
  /\ live' = cand /\ draining' = live /\ cand' = None
  /\ UNCHANGED <<target, lock, diskVars>>

\* The old host is stopped and the job is done; only an upload cleans up.
Drain(j) ==
  /\ pc[j] = "drain"
  /\ \/ /\ IsUpload(j)
        /\ Advance(j, "drain", "collect", "Done")
        /\ incoming' = incoming \ {j}
     \/ /\ ~IsUpload(j)
        /\ Advance(j, "drain", "final", IF req[j].kind = "rollback" THEN "RolledBack" ELSE "Done")
        /\ UNCHANGED incoming
  /\ draining' = None
  /\ UNCHANGED <<target, lock, live, cand, file, disk, born, clock>>

\* GarbageCollect. A directory that cannot be deleted is left behind.
Collect(j) ==
  /\ Advance(j, "collect", "final", state[j])
  /\ LET old == Dirs \ Kept IN
     \E removed \in (IF "collect" \in Faults THEN SUBSET old ELSE {old}) :
       /\ disk' = [v \in Versions |-> IF v \in removed THEN None ELSE disk[v]]
  /\ UNCHANGED <<target, lock, hostVars, file, born, clock, incoming>>

\* Mutant: the lock is not released.
FinalizeHolding(j) ==
  /\ pc[j] = "final"
  /\ pc' = [pc EXCEPT ![j] = "over"]
  /\ active' = IF active = j THEN None ELSE active
  /\ UNCHANGED <<req, seen, state, cancelled, target, lock, stopping, hostVars, diskVars, crashes>>

\* The finally block: the slot is cleared if it is still this job's, the
\* cancellation source disposed, the lock released.
Finalize(j) ==
  /\ pc[j] = "final"
  /\ pc' = [pc EXCEPT ![j] = "over"]
  /\ active' = IF active = j THEN None ELSE active
  /\ lock' = None
  /\ UNCHANGED <<req, seen, state, cancelled, target, stopping, hostVars, diskVars, crashes>>

-----------------------------------------------------------------------------
(* The host process *)

\* FirmwareSupervisor.StopAsync: the tracked candidate is stopped, a running job
\* is not.
StopAsync ==
  /\ ~stopping /\ crashes < MaxCrashes
  /\ stopping' = TRUE
  /\ cand' = IF cand = None THEN None ELSE [cand EXCEPT !.up = FALSE]
  /\ UNCHANGED <<requestVars, active, lock, live, draining, diskVars, crashes>>

\* The process exits, by a crash or after StopAsync, and boots again: jobs
\* evaporate, StartAsync wipes incoming/, the gateway starts from state.json.
Restart ==
  /\ crashes < MaxCrashes
  /\ crashes' = crashes + 1
  /\ pc' = [j \in Jobs |-> IF pc[j] = "idle" THEN "idle" ELSE "lost"]
  /\ req' = [j \in Jobs |-> None]
  /\ seen' = [j \in Jobs |-> None]
  /\ state' = [j \in Jobs |-> "NoRecord"]
  /\ cancelled' = [j \in Jobs |-> FALSE]
  /\ target' = [j \in Jobs |-> None]
  /\ active' = None /\ lock' = None /\ stopping' = FALSE
  /\ live' = BootHost(file, disk) /\ cand' = None /\ draining' = None
  /\ incoming' = {}
  /\ UNCHANGED <<file, disk, born, clock>>

\* Every request of the run has been dealt with.
AllHandled ==
  /\ \A j \in Jobs : pc[j] \in {"refused", "errored", "abandoned", "over", "lost"}
  /\ UNCHANGED vars

Arrive(j) == \E r \in Requests :
  \/ SkipKnownDuplicate(j, r)
  \/ ReceiveUpload(j, r)
  \/ ReceiveRollback(j, r)
  \/ ReceiveReload(j, r)

Handle(j) == ReadActive(j) \/ CancelExisting(j) \/ CreateJob(j)

Upload(j) == FinishUpload(j) \/ AbortUpload(j) \/ FailUpload(j)

RunPhase(j) ==
  \/ Unpack(j) \/ Verify(j) \/ Stage(j) \/ Spawn(j)
  \/ SmokePassed(j) \/ SmokeFailed(j) \/ SmokeCancelled(j)
  \/ EnterPromoting(j) \/ WriteState(j) \/ Swap(j) \/ Drain(j)
  \/ Collect(j) \/ Finalize(j)

Next ==
  \/ \E j \in Jobs : Arrive(j) \/ Handle(j) \/ Upload(j) \/ Begin(j) \/ RunPhase(j)
  \/ StopAsync \/ Restart \/ AllHandled

Spec == Init /\ [][Next]_vars

-----------------------------------------------------------------------------
TypeOK ==
  /\ pc \in [Jobs -> Phases]
  /\ req \in [Jobs -> Requests \cup {None}]
  /\ seen \in [Jobs -> Jobs \cup {None}]
  /\ state \in [Jobs -> JobStates \cup {"NoRecord"}]
  /\ cancelled \in [Jobs -> BOOLEAN]
  /\ target \in [Jobs -> Versions \cup {None}]
  /\ active \in Jobs \cup {None}
  /\ lock \in Jobs \cup {None}
  /\ stopping \in BOOLEAN
  /\ live \in HostType
  /\ cand \in HostType \cup {None}
  /\ draining \in HostType \cup {None}
  /\ file \in [current : Versions \cup {None}, package : Packages \cup {None},
               previous : Versions \cup {None},
               history : [Versions -> Packages \cup {None}]]
  /\ disk \in [Versions -> Packages \cup {None}]
  /\ born \in [Versions -> Nat]
  /\ clock \in Nat
  /\ incoming \subseteq Jobs
  /\ crashes \in 0..MaxCrashes

-----------------------------------------------------------------------------
(* Fairness: the thread pool runs every continuation, a candidate's smoke test *)
(* is bounded by SmokeTimeoutMs, the semaphore is granted, and the read of a   *)
(* cancelled upload returns.  Clients are not fair: an upload may stall.       *)

Fairness == \A j \in Jobs :
  /\ WF_vars(Handle(j))
  /\ WF_vars(Begin(j))
  /\ WF_vars(RunPhase(j))
  /\ WF_vars(cancelled[j] /\ AbortUpload(j))

FairSpec == Spec /\ Fairness

-----------------------------------------------------------------------------
(* Safety *)

\* The staging lock serialises the pipeline: whichever way jobs pre-empt and
\* overtake each other, only the lock holder is in a locked phase
\* (RunStateMachineAsync, RunRollbackAsync, RunReloadAsync).
LockInv == \A j \in Jobs : pc[j] \in LockPhases <=> lock = j

\* state.json never names a version that is not on disk: the boot after any crash
\* finds its code and the rollback target is there, whatever stages, fails or is
\* collected meanwhile (StagePayload's protection, GarbageCollect's pinning).
SlotsOnDisk == \A v \in Pinned : disk[v] # None

\* The directory a running gateway was booted from is neither deleted nor
\* replaced under it, even when the gateway is not the current version.
GatewayDirIntact ==
  \A h \in {live, cand} \ {None} : h.version # None => disk[h.version] = h.package

\* A candidate belongs to the lock holder: no failure or pre-emption path leaks
\* one, and it never shares a port with a gateway that is still up.
CandidateOwned == cand # None =>
  /\ \E j \in Jobs : pc[j] \in {"smoke", "promote", "write", "swap"}
  /\ draining = None
  /\ cand.port # live.port

\* A cancelled job only sits in the active slot while the request that cancelled
\* it is about to take the slot: no update is cancelled in favour of nothing.
PreemptedHasSuccessor ==
  active # None /\ cancelled[active] => \E r \in Jobs : pc[r] = "create"

\* The payload of a job is there until the job has staged it, although several
\* paths and every boot clean incoming/ up.
PayloadPresent == \A j \in Jobs :
  /\ pc[j] \in {"upload", "unpack", "verify", "stage"} => j \in incoming
  /\ pc[j] = "wait" /\ IsUpload(j) => j \in incoming

\* Unless a config reload was asked for, outside the swap itself the gateway that
\* serves is the one state.json says (PromoteAsync writes, then swaps; a crash boots
\* from state.json).
LiveIsCurrent ==
  (\A j \in Jobs : pc[j] # "swap" /\ (req[j] # None => req[j].kind # "reload")) =>
    live.version = file.current

-----------------------------------------------------------------------------
(* Action properties *)

\* A job that ended never leaves its terminal state (FirmwareJob.cs: "the same
\* JobId never resurrects"); records only disappear with the process.
NeverResurrects ==
  [][\A j \in Jobs : IsTerminal(state[j]) => state'[j] \in {state[j], "NoRecord"}]_vars

\* A job pre-empted before its smoke test passed never reaches promotion.
PreemptedNeverPromotes ==
  [][\A j \in Jobs : cancelled[j] /\ pc'[j] = "promote" => pc[j] = "promote"]_vars

\* The directory of a version that was ever promoted is never replaced while it
\* exists, and only removed once it is neither current nor previous.
PromotedDirStable ==
  [][\A v \in Promoted(file) : disk[v] # None /\ disk'[v] # disk[v] =>
       disk'[v] = None /\ v \notin Pinned]_vars

-----------------------------------------------------------------------------
(* Refinement *)

\* The status of the update that request j is, in the terms of FirmwareSlots: it
\* commits with the rename of state.json, a reload with its entry into Promoting.
Status(j) ==
  IF pc[j] \in {"idle", "check", "preempt", "create", "upload", "wait"} THEN "waiting"
  ELSE IF pc[j] \in {"unpack", "verify", "stage", "spawn", "smoke", "promote", "write"} THEN "active"
  ELSE IF pc[j] # "swap" THEN "ended"
  ELSE IF req[j].kind = "reload" THEN "reloading" ELSE "committed"

Slots == INSTANCE FirmwareSlots WITH
  Updates <- Jobs, status <- [j \in Jobs |-> Status(j)],
  current <- file.current, previous <- file.previous, serving <- live.version, dirs <- disk

\* Whatever jobs pre-empt each other and wherever they fail or the host dies, its
\* clients see updates one at a time, each all or nothing, on slots whose
\* directories stay (RunStateMachineAsync, RunRollbackAsync, RunReloadAsync).
ImplementsSlots == Slots!Spec

-----------------------------------------------------------------------------
(* Liveness *)

Ended(j) == pc[j] \in {"over", "lost", "errored", "refused"}

\* A job that is in the queue for the staging lock ends.
QueuedJobEnds == \A j \in Jobs : pc[j] = "wait" ~> Ended(j)

=============================================================================
