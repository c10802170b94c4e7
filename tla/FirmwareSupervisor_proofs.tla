---------------------- MODULE FirmwareSupervisor_proofs ----------------------
(***************************************************************************)
(* Proofs about FirmwareSupervisor for any number of jobs, versions,       *)
(* packages and crashes.  The safety invariants are not inductive one by   *)
(* one: why state.json never names a missing directory rests on what the   *)
(* lock holder's candidate was booted from, that on the version the job    *)
(* recorded when it was received, and so on.  IInv is their conjunction    *)
(* with the bookkeeping that makes it inductive; the refinement of         *)
(* FirmwareSlots, at the end, rests on it too.                             *)
(***************************************************************************)
EXTENDS FirmwareSupervisor, TLAPS

CandidatePhases == {"smoke", "promote", "write", "swap"}

\* What a request has settled once it is received.
RequestInv == \A j \in Jobs :
  /\ pc[j] \notin {"idle", "lost"} => req[j] \in Requests
  /\ pc[j] = "preempt" => seen[j] \in Jobs
  /\ pc[j] \in {"upload", "unpack", "verify", "stage", "collect"} => IsUpload(j)

\* The version a job works on: a rollback or reload only ever handles a version
\* that was promoted before.
TargetInv == \A j \in Jobs :
  /\ pc[j] \in {"stage", "spawn", "drain", "collect"} \cup CandidatePhases => target[j] \in Versions
  /\ pc[j] \notin {"idle", "lost"} /\ ~IsUpload(j) => target[j] \in Promoted(file)

\* A job shows a terminal state only when nothing is left that could change it.
StateInv == \A j \in Jobs : IsTerminal(state[j]) => pc[j] \in {"collect", "final", "over"}

\* current and previous have history entries, current has a recorded package.
HistoryInv ==
  /\ \A v \in Pinned : file.history[v] # None
  /\ file.current # None => file.package # None

\* The candidate is what the lock holder booted from its target's directory; past
\* the smoke test that directory exists.
CandidateInv ==
  /\ cand # None => \E j \in Jobs : pc[j] \in CandidatePhases
  /\ draining # None => \E j \in Jobs : pc[j] = "drain"
  /\ \A j \in Jobs : pc[j] \in CandidatePhases =>
       /\ cand # None
       /\ cand.version = target[j]
       /\ cand.package = disk[target[j]]
       /\ cand.port # live.port
       /\ pc[j] # "smoke" => cand.package # None

\* The live gateway runs from the untouched directory of a promoted version.
LiveInv == live.version # None =>
  /\ live.version \in Promoted(file)
  /\ live.package # None
  /\ disk[live.version] = live.package

\* What a promotion has done so far.
PromotionInv == \A j \in Jobs :
  /\ pc[j] = "write" => req[j].kind # "reload"
  /\ pc[j] \in {"swap", "drain", "collect"} /\ req[j].kind # "reload" => file.current = target[j]
  /\ pc[j] \in {"drain", "collect"} => live.version = target[j]

\* Only a job that was created can be in the active slot, read from it or cancelled.
Uncreated == {"idle", "check", "preempt", "create", "refused", "errored"}
CreatedInv == \A j \in Jobs :
  active = j \/ cancelled[j] \/ (\E k \in Jobs : seen[k] = j) => pc[j] \notin Uncreated

IInv ==
  /\ TypeOK /\ LockInv /\ RequestInv /\ TargetInv /\ StateInv /\ HistoryInv
  /\ SlotsOnDisk /\ CandidateInv /\ LiveInv /\ PromotionInv /\ PayloadPresent
  /\ CreatedInv /\ PreemptedHasSuccessor

-----------------------------------------------------------------------------
USE DEF Kinds, UploadKinds, FaultKinds, TerminalStates, JobStates, LockPhases, Phases,
        CandidatePhases, RequestType

FileType == [current : Versions \cup {None}, package : Packages \cup {None},
             previous : Versions \cup {None}, history : [Versions -> Packages \cup {None}]]

\* An upload carries a package, and a package a version.
LEMMA UploadHasPackage ==
  ASSUME NEW r \in Requests, r.kind \in UploadKinds
  PROVE  r.package \in Packages /\ r.package.version \in Versions
  BY RequestsAssumption, PackagesAssumption

-----------------------------------------------------------------------------
(* Types *)

LEMMA InitType == Init => TypeOK
<1> SUFFICES ASSUME Init PROVE TypeOK
  OBVIOUS
<1>1. file \in FileType
  BY PackagesAssumption, InstalledAssumption DEF Init, InstalledState, NoState, FileType
<1>2. disk \in [Versions -> Packages \cup {None}]
  <2>1. disk = file.history
    BY DEF Init
  <2> QED BY <1>1, <2>1 DEF FileType
<1>3. live \in HostType
  BY <1>1, <1>2 DEF Init, BootHost, Host, HostType, Ports, FileType
<1>4. born \in [Versions -> Nat] /\ clock \in Nat /\ crashes \in 0..MaxCrashes
  BY BoundsAssumption DEF Init
<1>5. /\ pc \in [Jobs -> Phases] /\ req \in [Jobs -> Requests \cup {None}]
      /\ seen \in [Jobs -> Jobs \cup {None}] /\ state \in [Jobs -> JobStates \cup {"NoRecord"}]
      /\ cancelled \in [Jobs -> BOOLEAN] /\ target \in [Jobs -> Versions \cup {None}]
  BY DEF Init
<1>6. /\ active \in Jobs \cup {None} /\ lock \in Jobs \cup {None} /\ stopping \in BOOLEAN
      /\ cand \in HostType \cup {None} /\ draining \in HostType \cup {None} /\ incoming \subseteq Jobs
  BY DEF Init
<1> QED
  BY <1>1, <1>2, <1>3, <1>4, <1>5, <1>6 DEF TypeOK, FileType

LEMMA HostTyped ==
  ASSUME TypeOK, NEW v \in Versions, NEW port \in Ports
  PROVE  Host(v, disk[v], port) \in HostType
  BY DEF TypeOK, Host, HostType

LEMMA NextType == IInv /\ [Next]_vars => TypeOK'
<1> SUFFICES ASSUME IInv, [Next]_vars PROVE TypeOK'
  OBVIOUS
<1> USE DEF TypeOK
<1>0. TypeOK
  BY DEF IInv
<1>1. ASSUME NEW j \in Jobs, NEW r \in Requests, SkipKnownDuplicate(j, r) PROVE TypeOK'
  BY <1>0, <1>1 DEF SkipKnownDuplicate, hostVars, diskVars
<1>2. ASSUME NEW j \in Jobs, NEW r \in Requests, ReceiveUpload(j, r) PROVE TypeOK'
  BY <1>0, <1>2 DEF ReceiveUpload, hostVars, diskVars
<1>3. ASSUME NEW j \in Jobs, NEW r \in Requests, NEW v \in Versions \cup {None},
             ReadTarget(j, r, v)
      PROVE  TypeOK'
  BY <1>0, <1>3 DEF ReadTarget, hostVars, diskVars
<1>4. ASSUME NEW j \in Jobs, NEW r \in Requests, ReceiveRollback(j, r) \/ ReceiveReload(j, r)
      PROVE  TypeOK'
  BY <1>0, <1>3, <1>4 DEF ReceiveRollback, ReceiveReload
<1>5. ASSUME NEW j \in Jobs, ReadActive(j) PROVE TypeOK'
  BY <1>0, <1>5 DEF ReadActive, hostVars, diskVars
<1>6. ASSUME NEW j \in Jobs, CancelExisting(j) PROVE TypeOK'
  BY <1>0, <1>6, ZenonT(60) DEF CancelExisting, hostVars, diskVars
<1>7. ASSUME NEW j \in Jobs, CreateJob(j) PROVE TypeOK'
  BY <1>0, <1>7 DEF CreateJob, hostVars, diskVars
<1>8. ASSUME NEW j \in Jobs, FinishUpload(j) PROVE TypeOK'
  BY <1>0, <1>8 DEF FinishUpload, hostVars, diskVars
<1>9. ASSUME NEW j \in Jobs, AbortUpload(j) PROVE TypeOK'
  BY <1>0, <1>9 DEF AbortUpload, EndUpload, hostVars, diskVars
<1>10. ASSUME NEW j \in Jobs, FailUpload(j) PROVE TypeOK'
  BY <1>0, <1>10 DEF FailUpload, EndUpload, hostVars, diskVars
<1>11. ASSUME NEW j \in Jobs, Begin(j) PROVE TypeOK'
  BY <1>0, <1>11 DEF Begin, Advance, hostVars, diskVars
<1>12. ASSUME NEW j \in Jobs, Unpack(j) PROVE TypeOK'
  BY <1>0, <1>12 DEF Unpack, Advance, Drop, hostVars, diskVars
<1>13. ASSUME NEW j \in Jobs, Verify(j) PROVE TypeOK'
  <2>1. req[j].package \in Packages /\ req[j].package.version \in Versions
    BY <1>13, UploadHasPackage DEF IInv, RequestInv, IsUpload, Verify
  <2> QED BY <1>0, <1>13, <2>1, ZenonT(60) DEF Verify, Advance, Drop, hostVars, diskVars
<1>14. ASSUME NEW j \in Jobs, Stage(j) PROVE TypeOK'
  <2>1. req[j].package \in Packages
    BY <1>14, UploadHasPackage DEF IInv, RequestInv, IsUpload, Stage
  <2>2. disk' \in [Versions -> Packages \cup {None}]
    BY <1>0, <1>14, <2>1 DEF Stage
  <2> QED BY <1>0, <1>14, <2>2 DEF Stage, Advance, Drop, hostVars, diskVars
<1>15. ASSUME NEW j \in Jobs, Spawn(j) PROVE TypeOK'
  <2>1. target[j] \in Versions
    BY <1>15 DEF IInv, TargetInv, Spawn
  <2>2. \A port \in Ports : Host(target[j], disk[target[j]], port) \in HostType
    BY <1>0, <2>1, HostTyped
  <2>3. cand' \in HostType \cup {None}
    BY <1>0, <1>15, <2>2 DEF Spawn, Ports
  <2> QED BY <1>0, <1>15, <2>3 DEF Spawn, Advance, hostVars, diskVars
<1>16. ASSUME NEW j \in Jobs, SmokePassed(j) PROVE TypeOK'
  BY <1>0, <1>16 DEF SmokePassed, DropCandidate, Advance, hostVars, diskVars
<1>17. ASSUME NEW j \in Jobs, SmokeFailed(j) \/ SmokeCancelled(j) PROVE TypeOK'
  BY <1>0, <1>17 DEF SmokeFailed, SmokeCancelled, DropCandidate, Advance, hostVars, diskVars
<1>18. ASSUME NEW j \in Jobs, EnterPromoting(j) PROVE TypeOK'
  BY <1>0, <1>18 DEF EnterPromoting, Advance, hostVars, diskVars
<1>19. ASSUME NEW j \in Jobs, WriteState(j) PROVE TypeOK'
  <2>1. pc[j] = "write"
    BY <1>19 DEF WriteState, DropCandidate, Advance
  <2>2. target[j] \in Versions /\ (IsUpload(j) => req[j].package \in Packages)
    BY <2>1, UploadHasPackage DEF IInv, TargetInv, RequestInv, IsUpload
  <2>3. file' \in FileType
    BY <1>0, <1>19, <2>2 DEF WriteState, Promote, Recorded, DropCandidate, diskVars, FileType
  <2> QED BY <1>0, <1>19, <2>3 DEF WriteState, DropCandidate, Advance, hostVars, diskVars, FileType
<1>20. ASSUME NEW j \in Jobs, Swap(j) PROVE TypeOK'
  <2>1. cand \in HostType
    BY <1>0, <1>20 DEF IInv, CandidateInv, Swap, Advance
  <2> QED BY <1>0, <1>20, <2>1 DEF Swap, Advance, diskVars
<1>21. ASSUME NEW j \in Jobs, Drain(j) PROVE TypeOK'
  BY <1>0, <1>21 DEF Drain, Advance
<1>22. ASSUME NEW j \in Jobs, Collect(j) \/ Finalize(j) PROVE TypeOK'
  BY <1>0, <1>22 DEF Collect, Finalize, Advance, hostVars, diskVars
<1>23. CASE StopAsync
  <2>1. cand' \in HostType \cup {None}
    BY <1>0, <1>23 DEF StopAsync, HostType
  <2> QED BY <1>0, <1>23, <2>1 DEF StopAsync, requestVars, diskVars
<1>24. CASE Restart
  <2>1. live' \in HostType
    BY <1>0, <1>24 DEF Restart, HostType, BootHost, Host, Ports
  <2>2. pc' \in [Jobs -> Phases] /\ crashes' \in 0..MaxCrashes
    BY <1>0, <1>24, BoundsAssumption DEF Restart
  <2> QED BY <1>0, <1>24, <2>1, <2>2 DEF Restart
<1>25. CASE UNCHANGED vars
  BY <1>0, <1>25 DEF vars, requestVars, hostVars, diskVars
<1> QED
  BY <1>1, <1>2, <1>4, <1>5, <1>6, <1>7, <1>8, <1>9, <1>10, <1>11, <1>12, <1>13, <1>14, <1>15,
     <1>16, <1>17, <1>18, <1>19, <1>20, <1>21, <1>22, <1>23, <1>24, <1>25
  DEF Next, Arrive, Handle, Upload, RunPhase, AllHandled

-----------------------------------------------------------------------------
(* The staging lock, the requests and the job states *)

\* The steps of one job, as changes of its phase.
LEMMA ArrivePhase ==
  ASSUME NEW j \in Jobs, Arrive(j)
  PROVE  \E r \in Requests, p \in {"check", "over"} :
           /\ pc[j] = "idle" /\ pc' = [pc EXCEPT ![j] = p]
           /\ req' = [req EXCEPT ![j] = r]
           /\ p = "over" => r.kind \in UploadKinds
           /\ p = "over" \/ UNCHANGED state
           /\ UNCHANGED <<seen, lock, hostVars, diskVars>>
<1>1. ASSUME NEW r \in Requests, SkipKnownDuplicate(j, r)
      PROVE  /\ pc[j] = "idle" /\ pc' = [pc EXCEPT ![j] = "over"]
             /\ req' = [req EXCEPT ![j] = r]
             /\ r.kind \in UploadKinds
             /\ UNCHANGED <<seen, lock, hostVars, diskVars>>
  BY <1>1 DEF SkipKnownDuplicate
<1>2. ASSUME NEW r \in Requests, ReceiveUpload(j, r) \/ ReceiveRollback(j, r) \/ ReceiveReload(j, r)
      PROVE  /\ pc[j] = "idle" /\ pc' = [pc EXCEPT ![j] = "check"]
             /\ req' = [req EXCEPT ![j] = r]
             /\ UNCHANGED <<seen, state, lock, hostVars, diskVars>>
  BY <1>2 DEF ReceiveUpload, ReceiveRollback, ReceiveReload, ReadTarget
<1> QED
  BY <1>1, <1>2 DEF Arrive

LEMMA BeginPhase ==
  ASSUME NEW j \in Jobs, Begin(j)
  PROVE  /\ pc[j] = "wait" /\ lock = None /\ lock' = j
         /\ \E p \in {"unpack", "spawn", "final"} :
              /\ pc' = [pc EXCEPT ![j] = p]
              /\ p = "unpack" => IsUpload(j)
              /\ p = "final" \/ \E s \in JobStates \ TerminalStates : state' = [state EXCEPT ![j] = s]
         /\ UNCHANGED <<req, seen, hostVars, file, disk>>
  BY DEF Begin, Advance

LEMMA RunPhasePhase ==
  ASSUME TypeOK, NEW j \in Jobs, RunPhase(j)
  PROVE  /\ pc[j] \in LockPhases
         /\ \E p \in Phases :
              /\ pc' = [pc EXCEPT ![j] = p]
              /\ p \in LockPhases => lock' = lock
              /\ p \notin LockPhases => p = "over" /\ lock' = None
              /\ p \in {"upload", "unpack", "verify", "stage"} => pc[j] \in {"unpack", "verify"}
              /\ p = "collect" => IsUpload(j)
              /\ p = "over" <=> pc[j] = "final"
              /\ p = "over" => UNCHANGED state
              /\ p # "over" => \E s \in JobStates \cup {"NoRecord"} :
                   /\ state' = [state EXCEPT ![j] = s]
                   /\ p \in {"collect", "final"} \/ s \notin TerminalStates \/ s = state[j]
                   /\ pc[j] = "collect" => s = state[j]
              /\ p \notin {"over", "final"} => pc[j] \notin {"collect", "final", "over"}
         /\ UNCHANGED <<req, seen>>
<1>1. CASE Unpack(j)
  BY <1>1 DEF Unpack, Drop, Advance
<1>2. CASE Verify(j)
  <2>1. /\ lock' = lock
        /\ \/ Advance(j, "verify", "stage", "Staging")
           \/ \E s \in TerminalStates : Advance(j, "verify", "final", s)
    BY <1>2 DEF Verify, Drop
  <2> QED BY <2>1 DEF Advance
<1>3. CASE Stage(j)
  BY <1>3 DEF Stage, Drop, Advance
<1>4. CASE Spawn(j)
  BY <1>4 DEF Spawn, Advance, TypeOK
<1>5. CASE SmokePassed(j) \/ SmokeFailed(j) \/ SmokeCancelled(j)
  BY <1>5 DEF SmokePassed, SmokeFailed, SmokeCancelled, DropCandidate, Advance
<1>6. CASE EnterPromoting(j) \/ WriteState(j) \/ Swap(j)
  BY <1>6 DEF EnterPromoting, WriteState, Swap, DropCandidate, Advance
<1>7. CASE Drain(j)
  BY <1>7 DEF Drain, Advance
<1>8. CASE Collect(j)
  BY <1>8 DEF Collect, Advance, TypeOK
<1>9. CASE Finalize(j)
  BY <1>9 DEF Finalize
<1> QED
  BY <1>1, <1>2, <1>3, <1>4, <1>5, <1>6, <1>7, <1>8, <1>9 DEF RunPhase

LEMMA NextLock == IInv /\ [Next]_vars => LockInv'
<1> SUFFICES ASSUME IInv, [Next]_vars PROVE LockInv'
  OBVIOUS
<1> USE DEF LockInv
<1>0. TypeOK /\ LockInv
  BY DEF IInv
<1> USE DEF TypeOK
<1>1. ASSUME NEW j \in Jobs, Arrive(j) PROVE LockInv'
  BY <1>0, <1>1, ArrivePhase
<1>2. ASSUME NEW j \in Jobs, Handle(j) PROVE LockInv'
  BY <1>0, <1>2 DEF Handle, ReadActive, CancelExisting, CreateJob
<1>3. ASSUME NEW j \in Jobs, Upload(j) PROVE LockInv'
  BY <1>0, <1>3 DEF Upload, FinishUpload, AbortUpload, FailUpload, EndUpload
<1>4. ASSUME NEW j \in Jobs, Begin(j) PROVE LockInv'
  BY <1>0, <1>4, BeginPhase, NoneAssumption
<1>5. ASSUME NEW j \in Jobs, RunPhase(j) PROVE LockInv'
  BY <1>0, <1>5, RunPhasePhase, NoneAssumption
<1>6. CASE StopAsync
  BY <1>0, <1>6 DEF StopAsync, requestVars
<1>7. CASE Restart
  BY <1>0, <1>7, NoneAssumption DEF Restart
<1>8. CASE UNCHANGED vars
  BY <1>0, <1>8 DEF vars, requestVars
<1> QED
  BY <1>1, <1>2, <1>3, <1>4, <1>5, <1>6, <1>7, <1>8 DEF Next, AllHandled

LEMMA NextRequest == IInv /\ [Next]_vars => RequestInv'
<1> SUFFICES ASSUME IInv, [Next]_vars PROVE RequestInv'
  OBVIOUS
<1> USE DEF RequestInv, IsUpload
<1>0. TypeOK /\ RequestInv
  BY DEF IInv
<1> USE DEF TypeOK
<1>1. ASSUME NEW j \in Jobs, Arrive(j) PROVE RequestInv'
  BY <1>0, <1>1, ArrivePhase
<1>2. ASSUME NEW j \in Jobs, Handle(j) PROVE RequestInv'
  BY <1>0, <1>2 DEF Handle, ReadActive, CancelExisting, CreateJob
<1>3. ASSUME NEW j \in Jobs, Upload(j) PROVE RequestInv'
  BY <1>0, <1>3 DEF Upload, FinishUpload, AbortUpload, FailUpload, EndUpload
<1>4. ASSUME NEW j \in Jobs, Begin(j) PROVE RequestInv'
  BY <1>0, <1>4, BeginPhase
<1>5. ASSUME NEW j \in Jobs, RunPhase(j) PROVE RequestInv'
  BY <1>0, <1>5, RunPhasePhase
<1>6. CASE StopAsync
  BY <1>0, <1>6 DEF StopAsync, requestVars
<1>7. CASE Restart
  BY <1>0, <1>7 DEF Restart
<1>8. CASE UNCHANGED vars
  BY <1>0, <1>8 DEF vars, requestVars
<1> QED
  BY <1>1, <1>2, <1>3, <1>4, <1>5, <1>6, <1>7, <1>8 DEF Next, AllHandled

LEMMA NextState == IInv /\ [Next]_vars => StateInv'
<1> SUFFICES ASSUME IInv, [Next]_vars PROVE StateInv'
  OBVIOUS
<1> USE DEF StateInv, IsTerminal
<1>0. TypeOK /\ StateInv
  BY DEF IInv
<1> USE DEF TypeOK
<1>1. ASSUME NEW j \in Jobs, Arrive(j) PROVE StateInv'
  BY <1>0, <1>1, ZenonT(60) DEF Arrive, SkipKnownDuplicate, ReceiveUpload, ReceiveRollback, ReceiveReload, ReadTarget
<1>2. ASSUME NEW j \in Jobs, Handle(j) PROVE StateInv'
  BY <1>0, <1>2 DEF Handle, ReadActive, CancelExisting, CreateJob
<1>3. ASSUME NEW j \in Jobs, Upload(j) PROVE StateInv'
  BY <1>0, <1>3 DEF Upload, FinishUpload, AbortUpload, FailUpload, EndUpload
<1>4. ASSUME NEW j \in Jobs, Begin(j) PROVE StateInv'
  BY <1>0, <1>4 DEF Begin, Advance
<1>5. ASSUME NEW j \in Jobs, RunPhase(j) PROVE StateInv'
  BY <1>0, <1>5, RunPhasePhase
<1>6. CASE StopAsync
  BY <1>0, <1>6 DEF StopAsync, requestVars
<1>7. CASE Restart
  BY <1>0, <1>7 DEF Restart
<1>8. CASE UNCHANGED vars
  BY <1>0, <1>8 DEF vars, requestVars
<1> QED
  BY <1>1, <1>2, <1>3, <1>4, <1>5, <1>6, <1>7, <1>8 DEF Next, AllHandled

LEMMA NextPayload == IInv /\ [Next]_vars => PayloadPresent'
<1> SUFFICES ASSUME IInv, [Next]_vars PROVE PayloadPresent'
  OBVIOUS
<1> USE DEF PayloadPresent, IsUpload
<1>0. TypeOK /\ PayloadPresent
  BY DEF IInv
<1> USE DEF TypeOK
<1>1. ASSUME NEW j \in Jobs, Arrive(j) PROVE PayloadPresent'
  BY <1>0, <1>1, ZenonT(60) DEF Arrive, SkipKnownDuplicate, ReceiveUpload, ReceiveRollback, ReceiveReload, ReadTarget, diskVars
<1>2. ASSUME NEW j \in Jobs, Handle(j) PROVE PayloadPresent'
  BY <1>0, <1>2 DEF Handle, ReadActive, CancelExisting, CreateJob, IsUpload, diskVars
<1>3. ASSUME NEW j \in Jobs, Upload(j) PROVE PayloadPresent'
  BY <1>0, <1>3 DEF Upload, FinishUpload, AbortUpload, FailUpload, EndUpload, diskVars
<1>4. ASSUME NEW j \in Jobs, Begin(j) PROVE PayloadPresent'
  BY <1>0, <1>4 DEF Begin, Advance, diskVars
<1>5. ASSUME NEW j \in Jobs, RunPhase(j)
      PROVE  PayloadPresent'
  <2>1. CASE Unpack(j) \/ Verify(j)
    BY <1>0, <2>1, ZenonT(60) DEF Unpack, Verify, Drop, Advance
  <2>2. CASE Stage(j)
    BY <1>0, <2>2 DEF Stage, Drop, Advance
  <2>3. CASE Spawn(j) \/ SmokePassed(j) \/ SmokeFailed(j) \/ SmokeCancelled(j)
    BY <1>0, <2>3 DEF Spawn, SmokePassed, SmokeFailed, SmokeCancelled, DropCandidate, Advance, diskVars
  <2>4. CASE EnterPromoting(j) \/ WriteState(j) \/ Swap(j)
    BY <1>0, <2>4 DEF EnterPromoting, WriteState, Swap, DropCandidate, Advance, diskVars
  <2>5. CASE Drain(j) \/ Collect(j) \/ Finalize(j)
    BY <1>0, <2>5 DEF Drain, Collect, Finalize, Advance, diskVars
  <2> QED BY <1>5, <2>1, <2>2, <2>3, <2>4, <2>5 DEF RunPhase
<1>6. CASE StopAsync
  BY <1>0, <1>6 DEF StopAsync, requestVars, diskVars
<1>7. CASE Restart
  BY <1>0, <1>7 DEF Restart
<1>8. CASE UNCHANGED vars
  BY <1>0, <1>8 DEF vars, requestVars, diskVars
<1> QED
  BY <1>1, <1>2, <1>3, <1>4, <1>5, <1>6, <1>7, <1>8 DEF Next, AllHandled

-----------------------------------------------------------------------------
(* state.json, the version directories and the gateways *)

HostPhases == CandidatePhases \cup {"drain", "collect"}

\* The steps that touch neither a gateway nor state.json nor versions/.
LEMMA QuietStep ==
  ASSUME TypeOK, NEW j \in Jobs,
         Arrive(j) \/ Handle(j) \/ Upload(j) \/ Begin(j) \/ Unpack(j) \/ Verify(j) \/ Finalize(j)
  PROVE  /\ UNCHANGED <<live, cand, draining, file, disk>>
         /\ pc[j] \notin HostPhases
         /\ \E p \in Phases \ HostPhases : pc' = [pc EXCEPT ![j] = p]
         /\ \A k \in Jobs \ {j} : target'[k] = target[k] /\ req'[k] = req[k]
<1> USE DEF HostPhases, hostVars, diskVars, TypeOK
<1>1. CASE Arrive(j)
  <2>1. PICK r \in Requests : SkipKnownDuplicate(j, r) \/ ReceiveUpload(j, r) \/ ReceiveRollback(j, r) \/ ReceiveReload(j, r)
    BY <1>1 DEF Arrive
  <2> QED BY <2>1 DEF SkipKnownDuplicate, ReceiveUpload, ReceiveRollback, ReceiveReload, ReadTarget
<1>2. CASE Handle(j)
  BY <1>2 DEF Handle, ReadActive, CancelExisting, CreateJob
<1>3. CASE Upload(j)
  BY <1>3 DEF Upload, FinishUpload, AbortUpload, FailUpload, EndUpload
<1>4. CASE Begin(j)
  BY <1>4 DEF Begin, Advance
<1>5. CASE Unpack(j)
  BY <1>5 DEF Unpack, Drop, Advance
<1>6. CASE Verify(j)
  BY <1>6 DEF Verify, Drop, Advance
<1>7. CASE Finalize(j)
  BY <1>7 DEF Finalize
<1> QED
  BY <1>1, <1>2, <1>3, <1>4, <1>5, <1>6, <1>7

\* Only a promotion writes state.json, only staging and collection change versions/.
LEMMA DiskStep ==
  ASSUME TypeOK, [Next]_vars
  PROVE  \/ UNCHANGED <<file, disk>>
         \/ \E j \in Jobs : WriteState(j) /\ UNCHANGED disk
         \/ \E j \in Jobs : (Stage(j) \/ Collect(j)) /\ UNCHANGED file
<1> USE DEF diskVars
<1>1. ASSUME NEW j \in Jobs, Spawn(j) \/ SmokePassed(j) \/ SmokeFailed(j) \/ SmokeCancelled(j)
                             \/ EnterPromoting(j) \/ Swap(j) \/ Drain(j)
      PROVE  UNCHANGED <<file, disk>>
  BY <1>1 DEF Spawn, SmokePassed, SmokeFailed, SmokeCancelled, EnterPromoting, Swap, Drain, DropCandidate
<1>2. ASSUME NEW j \in Jobs, WriteState(j) PROVE UNCHANGED disk
  BY <1>2 DEF WriteState, DropCandidate
<1>3. ASSUME NEW j \in Jobs, Stage(j) \/ Collect(j) PROVE UNCHANGED file
  BY <1>3 DEF Stage, Collect
<1>4. CASE StopAsync \/ Restart \/ UNCHANGED vars
  BY <1>4 DEF StopAsync, Restart, vars
<1> QED
  BY QuietStep, <1>1, <1>2, <1>3, <1>4 DEF Next, RunPhase, AllHandled

\* What WriteState installs: a package is known for every promoted version.
LEMMA WriteStep ==
  ASSUME IInv, NEW j \in Jobs, WriteState(j)
  PROVE  /\ pc[j] = "write" /\ target[j] \in Versions
         /\ \/ UNCHANGED file /\ pc' = [pc EXCEPT ![j] = "final"]
            \/ /\ \E p \in Packages : file' = Promote(target[j], p)
               /\ pc' = [pc EXCEPT ![j] = "swap"]
<1> USE DEF TypeOK, Advance
<1>1. pc[j] = "write"
  BY DEF WriteState, DropCandidate, Advance
<1>2. target[j] \in Versions
  BY <1>1 DEF IInv, TargetInv
<1>3. CASE IsUpload(j)
  BY <1>1, <1>2, <1>3, UploadHasPackage DEF WriteState, DropCandidate, diskVars, IInv, RequestInv, IsUpload
<1>4. CASE ~IsUpload(j)
  <2>1. target[j] \in Promoted(file)
    BY <1>1, <1>4 DEF IInv, TargetInv
  <2>2. Recorded(target[j]) \in Packages
    BY <1>2, <2>1, NoneAssumption DEF Recorded, Promoted, Pinned, IInv, HistoryInv, TypeOK
  <2> QED BY <1>1, <1>2, <1>4, <2>2 DEF WriteState, DropCandidate, diskVars
<1> QED
  BY <1>1, <1>2, <1>3, <1>4

\* What GarbageCollect deletes.
LEMMA CollectStep ==
  ASSUME TypeOK, NEW j \in Jobs, Collect(j)
  PROVE  /\ pc[j] = "collect" /\ pc' = [pc EXCEPT ![j] = "final"]
         /\ \A v \in Versions : disk'[v] # disk[v] => disk'[v] = None /\ v \notin Pinned
<1>1. PICK removed \in SUBSET (Dirs \ Kept) :
        disk' = [v \in Versions |-> IF v \in removed THEN None ELSE disk[v]]
  BY DEF Collect
<1>2. Pinned \subseteq Kept
  BY DEF Kept
<1>3. \A v \in Versions : disk'[v] # disk[v] => disk'[v] = None /\ v \notin Pinned
  BY <1>1, <1>2
<1>4. pc[j] = "collect" /\ pc' = [pc EXCEPT ![j] = "final"]
  BY DEF Collect, Advance
<1> QED BY <1>3, <1>4

LEMMA NextHistory == IInv /\ [Next]_vars => HistoryInv' /\ Promoted(file) \subseteq Promoted(file)'
<1> SUFFICES ASSUME IInv, [Next]_vars PROVE HistoryInv' /\ Promoted(file) \subseteq Promoted(file)'
  OBVIOUS
<1>0. TypeOK /\ HistoryInv
  BY DEF IInv
<1>1. CASE UNCHANGED file
  BY <1>0, <1>1 DEF HistoryInv, Promoted, Pinned
<1>2. ASSUME NEW j \in Jobs, NEW p \in Packages, target[j] \in Versions, file' = Promote(target[j], p)
      PROVE  HistoryInv' /\ Promoted(file) \subseteq Promoted(file)'
  BY <1>0, <1>2, NoneAssumption DEF TypeOK, HistoryInv, Promoted, Pinned, Promote
<1> QED
  BY <1>0, <1>1, <1>2, DiskStep, WriteStep

LEMMA NextSlots == IInv /\ [Next]_vars => SlotsOnDisk'
<1> SUFFICES ASSUME IInv, [Next]_vars PROVE SlotsOnDisk'
  OBVIOUS
<1>0. TypeOK /\ SlotsOnDisk
  BY DEF IInv
<1> USE DEF SlotsOnDisk, Pinned
<1>1. CASE UNCHANGED <<file, disk>>
  BY <1>0, <1>1
<1>2. ASSUME NEW j \in Jobs, WriteState(j), UNCHANGED disk PROVE SlotsOnDisk'
  <2>1. disk[target[j]] # None
    BY <1>2, WriteStep DEF IInv, CandidateInv, CandidatePhases
  <2> QED BY <1>0, <1>2, <2>1, WriteStep DEF Promote
<1>3. ASSUME NEW j \in Jobs, Stage(j), UNCHANGED file PROVE SlotsOnDisk'
  <2>1. req[j].package \in Packages
    BY <1>3, UploadHasPackage DEF IInv, RequestInv, IsUpload, Stage
  <2> QED BY <1>0, <1>3, <2>1, NoneAssumption DEF Stage, MayStage, Promoted, Drop, TypeOK
<1>4. ASSUME NEW j \in Jobs, Collect(j), UNCHANGED file PROVE SlotsOnDisk'
  BY <1>0, <1>4, CollectStep DEF TypeOK
<1> QED
  BY <1>0, <1>1, <1>2, <1>3, <1>4, DiskStep

\* A promoted version's directory is kept as it is, or deleted once it is neither
\* current nor previous.
LEMMA PromotedDirStep ==
  ASSUME IInv, [Next]_vars, NEW v \in Versions, v \in Promoted(file), disk[v] # None
  PROVE  disk'[v] # disk[v] => disk'[v] = None /\ v \notin Pinned /\ \E j \in Jobs : Collect(j)
<1>0. TypeOK
  BY DEF IInv
<1>1. ASSUME NEW j \in Jobs, Stage(j) PROVE disk'[v] = disk[v]
  BY <1>0, <1>1 DEF Stage, MayStage, TypeOK
<1>2. ASSUME NEW j \in Jobs, Collect(j) PROVE disk'[v] # disk[v] => disk'[v] = None /\ v \notin Pinned
  BY <1>0, <1>2, CollectStep
<1>3. \/ UNCHANGED disk
      \/ \E j \in Jobs : Stage(j) \/ Collect(j)
  BY <1>0, DiskStep
<1> QED
  BY <1>1, <1>2, <1>3

LEMMA NextLive == IInv /\ [Next]_vars => LiveInv'
<1> SUFFICES ASSUME IInv, [Next]_vars, live'.version # None PROVE LiveInv'
  BY DEF LiveInv
<1>0. TypeOK /\ LiveInv /\ PromotionInv /\ HistoryInv /\ SlotsOnDisk /\ CandidateInv /\ TargetInv /\ RequestInv
  BY DEF IInv
<1>1. CASE UNCHANGED live
  <2>1. live.version # None /\ live.version \in Versions /\ live.version \in Promoted(file) /\ disk[live.version] = live.package /\ live.package # None
    BY <1>0, <1>1 DEF LiveInv, TypeOK, HostType
  <2>2. ASSUME NEW j \in Jobs, Collect(j) PROVE live.version \in Pinned
    BY <1>0, <2>1, <2>2, RequestsAssumption DEF Collect, Advance, PromotionInv, RequestInv, IsUpload, Pinned
  <2>3. disk'[live.version] = disk[live.version]
    BY <2>1, <2>2, PromotedDirStep
  <2> QED BY <1>1, <2>1, <2>3, NextHistory DEF LiveInv
<1>2. ASSUME NEW j \in Jobs, Swap(j) PROVE LiveInv'
  <2>1. pc[j] = "swap" /\ live' = cand /\ UNCHANGED <<file, disk>>
    BY <1>2 DEF Swap, Advance, diskVars
  <2>2. cand.version = target[j] /\ cand.package = disk[target[j]] /\ cand.package # None
    BY <1>0, <2>1 DEF CandidateInv, CandidatePhases
  <2>3. target[j] \in Promoted(file)
    BY <1>0, <2>1, NoneAssumption DEF PromotionInv, TargetInv, IsUpload, Promoted, CandidatePhases
  <2> QED BY <2>1, <2>2, <2>3 DEF LiveInv, Promoted
<1>3. CASE Restart
  <2>1. live' = BootHost(file, disk) /\ UNCHANGED <<file, disk>>
    BY <1>3 DEF Restart
  <2> QED BY <2>1 DEF BootHost, Host, LiveInv, Promoted
<1>4. UNCHANGED live \/ Restart \/ \E j \in Jobs : Swap(j)
  BY <1>0, QuietStep DEF Next, RunPhase, AllHandled, Stage, Drop, Spawn, SmokePassed, SmokeFailed, SmokeCancelled,
     EnterPromoting, WriteState, Drain, Collect, DropCandidate, StopAsync, hostVars, vars
<1> QED
  BY <1>1, <1>2, <1>3, <1>4

LEMMA NextPromotion == IInv /\ [Next]_vars => PromotionInv'
<1> SUFFICES ASSUME IInv, [Next]_vars PROVE PromotionInv'
  OBVIOUS
<1>0. TypeOK /\ LockInv /\ PromotionInv /\ CandidateInv
  BY DEF IInv
<1> USE DEF PromotionInv, HostPhases, CandidatePhases, TypeOK, hostVars, diskVars
<1>1. ASSUME NEW j \in Jobs,
         Arrive(j) \/ Handle(j) \/ Upload(j) \/ Begin(j) \/ Unpack(j) \/ Verify(j) \/ Finalize(j)
      PROVE  PromotionInv'
  BY <1>0, <1>1, QuietStep
<1>2. ASSUME NEW j \in Jobs, Stage(j) PROVE PromotionInv'
  BY <1>0, <1>2 DEF Stage, Drop, Advance
<1>3. ASSUME NEW j \in Jobs, Spawn(j) \/ SmokePassed(j) \/ SmokeFailed(j) \/ SmokeCancelled(j)
      PROVE  PromotionInv'
  BY <1>0, <1>3 DEF Spawn, SmokePassed, SmokeFailed, SmokeCancelled, DropCandidate, Advance
<1>4. ASSUME NEW j \in Jobs, EnterPromoting(j) PROVE PromotionInv'
  BY <1>0, <1>4 DEF EnterPromoting, Advance
<1>5. ASSUME NEW j \in Jobs, WriteState(j) PROVE PromotionInv'
  BY <1>0, <1>5 DEF WriteState, DropCandidate, Advance, Promote, LockInv
<1>6. ASSUME NEW j \in Jobs, Swap(j) PROVE PromotionInv'
  BY <1>0, <1>6 DEF Swap, Advance, LockInv, CandidateInv
<1>7. ASSUME NEW j \in Jobs, Drain(j) \/ Collect(j) PROVE PromotionInv'
  BY <1>0, <1>7 DEF Drain, Collect, Advance
<1>8. CASE StopAsync
  BY <1>0, <1>8 DEF StopAsync, requestVars
<1>9. CASE Restart
  BY <1>0, <1>9 DEF Restart
<1>10. CASE UNCHANGED vars
  BY <1>0, <1>10 DEF vars, requestVars
<1> QED
  BY <1>1, <1>2, <1>3, <1>4, <1>5, <1>6, <1>7, <1>8, <1>9, <1>10 DEF Next, RunPhase, AllHandled

LEMMA NextCandidate == IInv /\ [Next]_vars => CandidateInv'
<1> SUFFICES ASSUME IInv, [Next]_vars PROVE CandidateInv'
  OBVIOUS
<1>0. TypeOK /\ LockInv /\ CandidateInv
  BY DEF IInv
<1> USE DEF CandidateInv, HostPhases, CandidatePhases, TypeOK, hostVars, diskVars
<1>1. ASSUME NEW j \in Jobs,
         Arrive(j) \/ Handle(j) \/ Upload(j) \/ Begin(j) \/ Unpack(j) \/ Verify(j) \/ Finalize(j)
      PROVE  CandidateInv'
  BY <1>0, <1>1, QuietStep
<1>2. ASSUME NEW j \in Jobs, Stage(j) PROVE CandidateInv'
  BY <1>0, <1>2 DEF Stage, Drop, Advance, LockInv
<1>3. ASSUME NEW j \in Jobs, Spawn(j) PROVE CandidateInv'
  <2>1. CASE cand' = cand /\ pc' = [pc EXCEPT ![j] = "final"]
    BY <1>0, <1>3, <2>1 DEF Spawn, Advance, LockInv
  <2>2. CASE pc' = [pc EXCEPT ![j] = "smoke"]
    <3>1. \E port \in Ports : port # live.port /\ cand' = Host(target[j], disk[target[j]], port)
      BY <1>0, <1>3, <2>2 DEF Spawn, Advance, Ports
    <3>2. cand' # None
      BY <1>0, <1>3, <3>1, HostTyped, NoneAssumption DEF IInv, TargetInv, Spawn
    <3> QED BY <1>0, <1>3, <2>2, <3>1, <3>2 DEF Spawn, Advance, LockInv, Host
  <2> QED BY <1>3, <2>1, <2>2 DEF Spawn, Advance
<1>4. ASSUME NEW j \in Jobs, SmokePassed(j) PROVE CandidateInv'
  BY <1>0, <1>4 DEF SmokePassed, DropCandidate, Advance, LockInv
<1>5. ASSUME NEW j \in Jobs, SmokeFailed(j) \/ SmokeCancelled(j) PROVE CandidateInv'
  BY <1>0, <1>5 DEF SmokeFailed, SmokeCancelled, DropCandidate, Advance, LockInv
<1>6. ASSUME NEW j \in Jobs, EnterPromoting(j) PROVE CandidateInv'
  BY <1>0, <1>6 DEF EnterPromoting, Advance
<1>7. ASSUME NEW j \in Jobs, WriteState(j) PROVE CandidateInv'
  BY <1>0, <1>7 DEF WriteState, DropCandidate, Advance, LockInv
<1>8. ASSUME NEW j \in Jobs, Swap(j) PROVE CandidateInv'
  BY <1>0, <1>8 DEF Swap, Advance, LockInv
<1>9. ASSUME NEW j \in Jobs, Drain(j) PROVE CandidateInv'
  BY <1>0, <1>9 DEF Drain, Advance, LockInv
<1>10. ASSUME NEW j \in Jobs, Collect(j) PROVE CandidateInv'
  BY <1>0, <1>10, CollectStep DEF Collect, Advance, LockInv
<1>11. CASE StopAsync
  <2>1. /\ cand' = None <=> cand = None
        /\ cand # None => /\ cand'.version = cand.version /\ cand'.package = cand.package
                          /\ cand'.port = cand.port
    <3>1. cand # None => cand \in HostType /\ cand' = [cand EXCEPT !.up = FALSE]
      BY <1>0, <1>11 DEF StopAsync
    <3>2. cand # None => cand' \in HostType
      BY <3>1 DEF HostType
    <3> QED BY <1>11, <3>1, <3>2, NoneAssumption DEF StopAsync, HostType
  <2> QED BY <1>0, <1>11, <2>1 DEF StopAsync, requestVars
<1>12. CASE Restart
  BY <1>0, <1>12 DEF Restart
<1>13. CASE UNCHANGED vars
  BY <1>0, <1>13 DEF vars, requestVars
<1> QED
  BY <1>1, <1>2, <1>3, <1>4, <1>5, <1>6, <1>7, <1>8, <1>9, <1>10, <1>11, <1>12, <1>13
  DEF Next, RunPhase, AllHandled

LEMMA NextTarget == IInv /\ [Next]_vars => TargetInv'
<1> SUFFICES ASSUME IInv, [Next]_vars PROVE TargetInv'
  OBVIOUS
<1>0. TypeOK /\ TargetInv /\ RequestInv
  BY DEF IInv
<1>a. Promoted(file) \subseteq Promoted(file)' /\ Promoted(file) \subseteq Versions
  BY <1>0, NextHistory DEF Promoted, TypeOK
<1> USE DEF TargetInv, CandidatePhases, TypeOK
<1>1. ASSUME NEW j \in Jobs, NEW r \in Requests, SkipKnownDuplicate(j, r) \/ ReceiveUpload(j, r) PROVE TargetInv'
  <2>1. CASE SkipKnownDuplicate(j, r)
    BY <1>0, <1>a, <2>1 DEF SkipKnownDuplicate, IsUpload
  <2>2. CASE ReceiveUpload(j, r)
    BY <1>0, <1>a, <2>2 DEF ReceiveUpload, IsUpload
  <2> QED BY <1>1, <2>1, <2>2
<1>2. ASSUME NEW j \in Jobs, NEW r \in Requests, ReceiveRollback(j, r) \/ ReceiveReload(j, r) PROVE TargetInv'
  BY <1>0, <1>a, <1>2 DEF ReceiveRollback, ReceiveReload, ReadTarget, IsUpload, Promoted
<1>3. ASSUME NEW j \in Jobs, Handle(j) PROVE TargetInv'
  BY <1>0, <1>a, <1>3 DEF Handle, ReadActive, CancelExisting, CreateJob, IsUpload
<1>4. ASSUME NEW j \in Jobs, Upload(j) PROVE TargetInv'
  BY <1>0, <1>a, <1>4 DEF Upload, FinishUpload, AbortUpload, FailUpload, EndUpload, IsUpload
<1>5. ASSUME NEW j \in Jobs, Begin(j) PROVE TargetInv'
  BY <1>0, <1>a, <1>5, NoneAssumption DEF Begin, Advance, IsUpload, IsDuplicate, SameAsCurrent
<1>6. ASSUME NEW j \in Jobs, Unpack(j) PROVE TargetInv'
  BY <1>0, <1>a, <1>6 DEF Unpack, Drop, Advance, IsUpload
<1>7. ASSUME NEW j \in Jobs, Verify(j) PROVE TargetInv'
  <2>1. req[j] \in Requests /\ IsUpload(j) /\ req' = req
    BY <1>0, <1>7 DEF Verify, Drop, Advance, RequestInv
  <2>2. req[j].package.version \in Versions
    BY <2>1, UploadHasPackage DEF IsUpload
  <2>3. /\ \A k \in Jobs \ {j} : pc'[k] = pc[k] /\ target'[k] = target[k]
        /\ pc'[j] # "final" => pc'[j] = "stage" /\ target'[j] = req[j].package.version
    BY <1>0, <1>7 DEF Verify, Drop, Advance
  <2> QED BY <1>0, <1>a, <2>1, <2>2, <2>3 DEF IsUpload
<1>8. ASSUME NEW j \in Jobs, Stage(j) PROVE TargetInv'
  BY <1>0, <1>a, <1>8 DEF Stage, Drop, Advance, IsUpload
<1>9. ASSUME NEW j \in Jobs, RunPhase(j), ~Unpack(j), ~Verify(j), ~Stage(j) PROVE TargetInv'
  BY <1>0, <1>a, <1>9 DEF RunPhase, Spawn, SmokePassed, SmokeFailed, SmokeCancelled,
     EnterPromoting, WriteState, Swap, Drain, Collect, Finalize, DropCandidate, Advance, IsUpload
<1>10. CASE StopAsync
  BY <1>0, <1>a, <1>10 DEF StopAsync, requestVars, IsUpload
<1>11. CASE Restart
  BY <1>0, <1>11 DEF Restart
<1>12. CASE UNCHANGED vars
  BY <1>0, <1>a, <1>12 DEF vars, requestVars, IsUpload
<1> QED
  BY <1>1, <1>2, <1>3, <1>4, <1>5, <1>6, <1>7, <1>8, <1>9, <1>10, <1>11, <1>12
  DEF Next, Arrive, RunPhase, AllHandled

LEMMA NextCreated == IInv /\ [Next]_vars => CreatedInv'
<1> SUFFICES ASSUME IInv, [Next]_vars PROVE CreatedInv'
  OBVIOUS
<1>0. TypeOK /\ CreatedInv
  BY DEF IInv
<1> USE NoneAssumption DEF CreatedInv, Uncreated, TypeOK
<1>1. ASSUME NEW j \in Jobs, NEW r \in Requests,
             SkipKnownDuplicate(j, r) \/ ReceiveUpload(j, r) \/ ReceiveRollback(j, r) \/ ReceiveReload(j, r)
      PROVE  CreatedInv'
  <2>1. /\ UNCHANGED <<seen, cancelled, active>> /\ pc[j] = "idle"
        /\ \E p \in Phases : pc' = [pc EXCEPT ![j] = p]
    BY <1>1 DEF SkipKnownDuplicate, ReceiveUpload, ReceiveRollback, ReceiveReload, ReadTarget
  <2> QED BY <1>0, <2>1
<1>2. ASSUME NEW j \in Jobs, ReadActive(j) PROVE CreatedInv'
  BY <1>0, <1>2 DEF ReadActive
<1>3. ASSUME NEW j \in Jobs, CancelExisting(j) PROVE CreatedInv'
  <2>1. pc[j] = "preempt" /\ seen[j] \in Jobs
    BY <1>3 DEF CancelExisting, IInv, RequestInv
  <2> QED BY <1>0, <1>3, <2>1 DEF CancelExisting
<1>4. ASSUME NEW j \in Jobs, CreateJob(j) PROVE CreatedInv'
  BY <1>0, <1>4 DEF CreateJob
<1>5. ASSUME NEW j \in Jobs, Upload(j) PROVE CreatedInv'
  BY <1>0, <1>5 DEF Upload, FinishUpload, AbortUpload, FailUpload, EndUpload
<1>6. ASSUME NEW j \in Jobs, Begin(j) PROVE CreatedInv'
  BY <1>0, <1>6 DEF Begin, Advance
<1>7. ASSUME NEW j \in Jobs, RunPhase(j) PROVE CreatedInv'
  <2>1. /\ UNCHANGED <<seen, cancelled>> /\ active' \in {active, None}
        /\ \E p \in LockPhases \cup {"over"} : pc' = [pc EXCEPT ![j] = p]
    BY <1>0, <1>7, RunPhasePhase DEF RunPhase, Unpack, Verify, Stage, Spawn, SmokePassed, SmokeFailed,
       SmokeCancelled, EnterPromoting, WriteState, Swap, Drain, Collect, Finalize, DropCandidate, Drop, Advance
  <2> QED BY <1>0, <2>1
<1>8. CASE StopAsync \/ UNCHANGED vars
  BY <1>0, <1>8 DEF StopAsync, vars, requestVars
<1>9. CASE Restart
  BY <1>0, <1>9 DEF Restart
<1> QED
  BY <1>1, <1>2, <1>3, <1>4, <1>5, <1>6, <1>7, <1>8, <1>9 DEF Next, Arrive, Handle, AllHandled

LEMMA NextSuccessor == IInv /\ [Next]_vars => PreemptedHasSuccessor'
<1> SUFFICES ASSUME IInv, [Next]_vars PROVE PreemptedHasSuccessor'
  OBVIOUS
<1>0. TypeOK /\ CreatedInv /\ PreemptedHasSuccessor
  BY DEF IInv
<1> USE NoneAssumption DEF PreemptedHasSuccessor, TypeOK
<1>1. ASSUME NEW j \in Jobs, NEW r \in Requests,
             SkipKnownDuplicate(j, r) \/ ReceiveUpload(j, r) \/ ReceiveRollback(j, r) \/ ReceiveReload(j, r)
      PROVE  PreemptedHasSuccessor'
  BY <1>0, <1>1, ZenonT(60) DEF SkipKnownDuplicate, ReceiveUpload, ReceiveRollback, ReceiveReload, ReadTarget
<1>2. ASSUME NEW j \in Jobs, ReadActive(j) PROVE PreemptedHasSuccessor'
  BY <1>0, <1>2 DEF ReadActive
<1>3. ASSUME NEW j \in Jobs, CancelExisting(j) PROVE PreemptedHasSuccessor'
  BY <1>0, <1>3 DEF CancelExisting
<1>4. ASSUME NEW j \in Jobs, CreateJob(j) PROVE PreemptedHasSuccessor'
  BY <1>0, <1>4 DEF CreateJob, CreatedInv, Uncreated
<1>5. ASSUME NEW j \in Jobs, Upload(j) PROVE PreemptedHasSuccessor'
  BY <1>0, <1>5 DEF Upload, FinishUpload, AbortUpload, FailUpload, EndUpload
<1>6. ASSUME NEW j \in Jobs, Begin(j) PROVE PreemptedHasSuccessor'
  BY <1>0, <1>6 DEF Begin, Advance
<1>7. ASSUME NEW j \in Jobs, RunPhase(j) PROVE PreemptedHasSuccessor'
  <2>1. /\ pc[j] \in LockPhases
        /\ UNCHANGED cancelled /\ active' \in {active, None}
        /\ \E p \in LockPhases \cup {"over"} : pc' = [pc EXCEPT ![j] = p]
    BY <1>0, <1>7, RunPhasePhase DEF RunPhase, Unpack, Verify, Stage, Spawn, SmokePassed, SmokeFailed,
       SmokeCancelled, EnterPromoting, WriteState, Swap, Drain, Collect, Finalize, DropCandidate, Drop, Advance
  <2> QED BY <1>0, <2>1
<1>8. CASE StopAsync \/ UNCHANGED vars
  BY <1>0, <1>8 DEF StopAsync, vars, requestVars
<1>9. CASE Restart
  BY <1>0, <1>9 DEF Restart
<1> QED
  BY <1>1, <1>2, <1>3, <1>4, <1>5, <1>6, <1>7, <1>8, <1>9 DEF Next, Arrive, Handle, AllHandled

-----------------------------------------------------------------------------
(* The inductive invariant and what follows from it *)

LEMMA InitIInv == Init => IInv
<1> SUFFICES ASSUME Init PROVE IInv
  OBVIOUS
<1>1. TypeOK
  BY InitType
<1>2. /\ LockInv /\ RequestInv /\ TargetInv /\ StateInv /\ PromotionInv /\ PayloadPresent
      /\ CreatedInv /\ PreemptedHasSuccessor
  BY NoneAssumption DEF Init, CreatedInv, PreemptedHasSuccessor, LockInv, RequestInv, TargetInv, StateInv, PromotionInv, PayloadPresent,
     IsTerminal
<1>3. CandidateInv
  BY DEF Init, CandidateInv
<1>4. \A v \in Pinned : file.history[v] # None
  <2> SUFFICES ASSUME NEW v \in Pinned PROVE file.history[v] # None
    OBVIOUS
  <2>1. Len(Installed) # 0
    BY DEF Init, InstalledState, NoState, Pinned
  <2>2. PICK i \in 1..Len(Installed) : Installed[i].version = v
    BY <2>1, InstalledAssumption DEF Init, InstalledState, Pinned
  <2>3. Installed[i] \in Packages /\ v \in Versions
    BY <2>2, InstalledAssumption, PackagesAssumption
  <2>4. \A p \in {Installed[k] : k \in 1..Len(Installed)} : p \in Packages
    BY InstalledAssumption
  <2>5. file.history[v] = CHOOSE p \in {Installed[k] : k \in 1..Len(Installed)} : p.version = v
    BY <2>1, <2>2, <2>3 DEF Init, InstalledState
  <2>6. file.history[v] \in Packages
    BY <2>2, <2>4, <2>5
  <2> QED BY <2>6, NoneAssumption
<1>5. file.current # None => file.package # None
  BY InstalledAssumption, NoneAssumption DEF Init, InstalledState, NoState
<1>6. SlotsOnDisk
  BY <1>4 DEF SlotsOnDisk, Init
<1>7. LiveInv
  BY <1>6 DEF LiveInv, SlotsOnDisk, Init, BootHost, Host, Promoted
<1> QED
  BY <1>1, <1>2, <1>3, <1>4, <1>5, <1>6, <1>7 DEF IInv, HistoryInv

LEMMA NextIInv == IInv /\ [Next]_vars => IInv'
  BY NextType, NextLock, NextRequest, NextTarget, NextState, NextHistory, NextSlots, NextCandidate,
     NextLive, NextPromotion, NextPayload, NextCreated, NextSuccessor DEF IInv

\* The inductive invariant, whatever jobs arrive and wherever they are cancelled, fail or are
\* cut off by a crash (FirmwareSupervisor.cs).
THEOREM Inductive == Spec => []IInv
  BY InitIInv, NextIInv, PTL DEF Spec

\* Every variable keeps its type, for any constants.
THEOREM TypeCorrect == Spec => []TypeOK
<1>1. IInv => TypeOK
  BY DEF IInv
<1> QED BY <1>1, Inductive, PTL

\* Only the job holding the staging lock runs the pipeline.
THEOREM Exclusion == Spec => []LockInv
<1>1. IInv => LockInv
  BY DEF IInv
<1> QED BY <1>1, Inductive, PTL

\* state.json never names a version that is not on disk.
THEOREM SlotsStayOnDisk == Spec => []SlotsOnDisk
<1>1. IInv => SlotsOnDisk
  BY DEF IInv
<1> QED BY <1>1, Inductive, PTL

\* No running gateway loses the directory it was booted from.
THEOREM GatewayDirStays == Spec => []GatewayDirIntact
<1>1. IInv => GatewayDirIntact
  BY DEF IInv, GatewayDirIntact, LiveInv, CandidateInv
<1> QED BY <1>1, Inductive, PTL

\* No candidate outlives the job that booted it, or shares a port with the live gateway.
THEOREM CandidateIsOwned == Spec => []CandidateOwned
<1>1. IInv => CandidateOwned
  <2> SUFFICES ASSUME IInv, cand # None PROVE CandidateOwned
    BY DEF CandidateOwned
  <2>1. PICK j \in Jobs : pc[j] \in CandidatePhases
    BY DEF IInv, CandidateInv
  <2>2. draining = None
    BY <2>1 DEF IInv, CandidateInv, LockInv
  <2> QED BY <2>1, <2>2 DEF IInv, CandidateInv, CandidateOwned
<1> QED BY <1>1, Inductive, PTL

\* A job's payload is there until the job has staged it.
THEOREM PayloadStays == Spec => []PayloadPresent
<1>1. IInv => PayloadPresent
  BY DEF IInv
<1> QED BY <1>1, Inductive, PTL

\* The directory of a promoted version is never replaced, and removed only once it is
\* neither current nor previous.
THEOREM PromotedDirsStable == Spec => PromotedDirStable
<1>1. IInv /\ [Next]_vars =>
        [\A v \in Promoted(file) : disk[v] # None /\ disk'[v] # disk[v] =>
           disk'[v] = None /\ v \notin Pinned]_vars
  BY PromotedDirStep DEF IInv, Promoted, TypeOK
<1> QED BY <1>1, Inductive, PTL DEF Spec, PromotedDirStable

\* A job that has ended keeps its terminal state.
THEOREM JobsNeverResurrect == Spec => NeverResurrects
<1>1. IInv /\ [Next]_vars => \A j \in Jobs : IsTerminal(state[j]) => state'[j] \in {state[j], "NoRecord"}
  <2> SUFFICES ASSUME IInv, [Next]_vars, NEW k \in Jobs, IsTerminal(state[k])
               PROVE  state'[k] \in {state[k], "NoRecord"}
    OBVIOUS
  <2>0. TypeOK /\ pc[k] \in {"collect", "final", "over"}
    BY DEF IInv, StateInv
  <2> USE DEF TypeOK
  <2>1. ASSUME NEW j \in Jobs, Arrive(j) PROVE state'[k] = state[k]
    BY <2>0, <2>1 DEF Arrive, SkipKnownDuplicate, ReceiveUpload, ReceiveRollback, ReceiveReload, ReadTarget
  <2>2. ASSUME NEW j \in Jobs, Handle(j) \/ Upload(j) PROVE state'[k] = state[k]
    BY <2>0, <2>2 DEF Handle, ReadActive, CancelExisting, CreateJob,
       Upload, FinishUpload, AbortUpload, FailUpload, EndUpload
  <2>3. ASSUME NEW j \in Jobs, Begin(j) PROVE state'[k] = state[k]
    BY <2>0, <2>3 DEF Begin, Advance
  <2>4. ASSUME NEW j \in Jobs, RunPhase(j) PROVE state'[k] = state[k]
    BY <2>0, <2>4, RunPhasePhase
  <2>5. CASE StopAsync \/ UNCHANGED vars
    BY <2>5 DEF StopAsync, vars, requestVars
  <2>6. CASE Restart
    BY <2>6 DEF Restart
  <2> QED
    BY <2>1, <2>2, <2>3, <2>4, <2>5, <2>6 DEF Next, AllHandled
<1> QED BY <1>1, Inductive, PTL DEF Spec, NeverResurrects

\* No job is cancelled in the active slot without a successor about to take the slot.
THEOREM PreemptionHasSuccessor == Spec => []PreemptedHasSuccessor
<1>1. IInv => PreemptedHasSuccessor
  BY DEF IInv
<1> QED BY <1>1, Inductive, PTL

\* A job cancelled before its smoke test is over never enters promotion.
THEOREM CancelledNeverPromotes == Spec => PreemptedNeverPromotes
<1>1. IInv /\ [Next]_vars => \A j \in Jobs : cancelled[j] /\ pc'[j] = "promote" => pc[j] = "promote"
  <2> SUFFICES ASSUME IInv, [Next]_vars, NEW k \in Jobs, cancelled[k], pc[k] # "promote"
               PROVE  pc'[k] # "promote"
    OBVIOUS
  <2>0. TypeOK
    BY DEF IInv
  <2> USE DEF TypeOK
  <2>1. ASSUME NEW j \in Jobs,
           Arrive(j) \/ Handle(j) \/ Upload(j) \/ Begin(j) \/ Unpack(j) \/ Verify(j) \/ Finalize(j)
        PROVE  pc'[k] # "promote"
    BY <2>0, <2>1, QuietStep DEF HostPhases
  <2>2. ASSUME NEW j \in Jobs, Stage(j) \/ Spawn(j) PROVE pc'[k] # "promote"
    BY <2>0, <2>2 DEF Stage, Spawn, Drop, Advance
  <2>3. ASSUME NEW j \in Jobs, SmokePassed(j) PROVE pc'[k] # "promote"
    BY <2>0, <2>3 DEF SmokePassed, DropCandidate, Advance
  <2>4. ASSUME NEW j \in Jobs, SmokeFailed(j) \/ SmokeCancelled(j) \/ EnterPromoting(j) \/ WriteState(j)
                               \/ Swap(j) \/ Drain(j) \/ Collect(j)
        PROVE  pc'[k] # "promote"
    BY <2>0, <2>4 DEF SmokeFailed, SmokeCancelled, EnterPromoting, WriteState, Swap, Drain, Collect,
       DropCandidate, Advance
  <2>5. CASE StopAsync \/ UNCHANGED vars
    BY <2>5 DEF StopAsync, vars, requestVars
  <2>6. CASE Restart
    BY <2>0, <2>6 DEF Restart
  <2> QED
    BY <2>1, <2>2, <2>3, <2>4, <2>5, <2>6 DEF Next, RunPhase, AllHandled
<1> QED BY <1>1, Inductive, PTL DEF Spec, PreemptedNeverPromotes

-----------------------------------------------------------------------------
(* The live gateway and state.json *)

IdleInv == \A j \in Jobs : pc[j] = "idle" => req[j] = None
CurrentInv == IdleInv /\ LiveIsCurrent

LEMMA InitCurrent == Init => CurrentInv
<1> SUFFICES ASSUME Init PROVE CurrentInv
  OBVIOUS
<1>1. file.current # None => disk[file.current] # None
  BY InitIInv DEF IInv, SlotsOnDisk, Pinned
<1>2. live.version = file.current
  BY <1>1 DEF Init, BootHost, Host
<1> QED BY <1>2 DEF Init, CurrentInv, IdleInv, LiveIsCurrent

LEMMA NextCurrent == IInv /\ CurrentInv /\ [Next]_vars => CurrentInv'
<1> SUFFICES ASSUME IInv, CurrentInv, [Next]_vars PROVE CurrentInv'
  OBVIOUS
<1> USE DEF CurrentInv, IdleInv, LiveIsCurrent, TypeOK, hostVars, diskVars
<1>0. TypeOK /\ LockInv /\ PromotionInv /\ CandidateInv /\ SlotsOnDisk
  BY DEF IInv
<1>1. ASSUME NEW j \in Jobs, Arrive(j) PROVE CurrentInv'
  <2>1. PICK r \in Requests, p \in {"check", "over"} :
          /\ pc[j] = "idle" /\ pc' = [pc EXCEPT ![j] = p] /\ req' = [req EXCEPT ![j] = r]
          /\ UNCHANGED <<live, file>>
    BY <1>1, ArrivePhase
  <2> QED BY <1>0, <2>1
<1>2. ASSUME NEW j \in Jobs, Handle(j) \/ Upload(j) PROVE CurrentInv'
  BY <1>0, <1>2 DEF Handle, ReadActive, CancelExisting, CreateJob,
     Upload, FinishUpload, AbortUpload, FailUpload, EndUpload
<1>3. ASSUME NEW j \in Jobs, Begin(j) PROVE CurrentInv'
  BY <1>0, <1>3, BeginPhase
<1>4. ASSUME NEW j \in Jobs, Unpack(j) \/ Verify(j) \/ Stage(j) \/ Spawn(j) PROVE CurrentInv'
  BY <1>0, <1>4, ZenonT(60) DEF Unpack, Verify, Stage, Spawn, Drop, Advance
<1>5. ASSUME NEW j \in Jobs,
             SmokePassed(j) \/ SmokeFailed(j) \/ SmokeCancelled(j) \/ EnterPromoting(j)
      PROVE  CurrentInv'
  BY <1>0, <1>5 DEF SmokePassed, SmokeFailed, SmokeCancelled, EnterPromoting, DropCandidate, Advance
<1>6. ASSUME NEW j \in Jobs, WriteState(j) PROVE CurrentInv'
  BY <1>0, <1>6 DEF WriteState, DropCandidate, Advance
<1>7. ASSUME NEW j \in Jobs, Swap(j) PROVE CurrentInv'
  <2>1. pc[j] = "swap" /\ pc' = [pc EXCEPT ![j] = "drain"] /\ live' = cand /\ UNCHANGED <<file, req>>
    BY <1>7 DEF Swap, Advance
  <2>2. cand.version = target[j] /\ req[j] \in Requests
    BY <1>0, <2>1 DEF CandidateInv, CandidatePhases, IInv, RequestInv
  <2>3. req[j].kind # "reload" => file.current = target[j]
    BY <1>0, <2>1 DEF PromotionInv
  <2>4. req[j] # None
    BY <2>2, RequestsAssumption, NoneAssumption
  <2> QED BY <1>0, <2>1, <2>2, <2>3, <2>4
<1>8. ASSUME NEW j \in Jobs, Drain(j) \/ Collect(j) \/ Finalize(j) PROVE CurrentInv'
  BY <1>0, <1>8 DEF Drain, Collect, Finalize, Advance
<1>9. CASE StopAsync \/ UNCHANGED vars
  BY <1>0, <1>9 DEF StopAsync, vars, requestVars
<1>10. CASE Restart
  <2>1. live'.version = file.current
    BY <1>0, <1>10 DEF Restart, BootHost, Host, SlotsOnDisk, Pinned
  <2> QED BY <1>0, <1>10, <2>1 DEF Restart
<1> QED
  BY <1>1, <1>2, <1>3, <1>4, <1>5, <1>6, <1>7, <1>8, <1>9, <1>10 DEF Next, RunPhase, AllHandled

\* As long as nobody reloads, the gateway that serves is the version state.json names,
\* except between the rename of state.json and the swap.
THEOREM LiveStaysCurrent == Spec => []LiveIsCurrent
<1>1. CurrentInv => LiveIsCurrent
  BY DEF CurrentInv
<1> QED BY <1>1, InitCurrent, NextCurrent, Inductive, PTL DEF Spec

-----------------------------------------------------------------------------
(* The refinement: every step of a request, job, gateway or crash is a step  *)
(* of FirmwareSlots or leaves its updates as they are.  IInv says what the   *)
(* lock holder works on; that is what makes a commit legal.                  *)

\* The refinement mapping of `status`.
Statuses == [j \in Jobs |-> Status(j)]
SlotVars == <<Statuses, file.current, file.previous, live.version, disk>>

\* A step of job j moves the status of j only.
LEMMA StatusStep ==
  ASSUME NEW j \in Jobs, NEW p, pc \in [Jobs -> Phases], pc' = [pc EXCEPT ![j] = p],
         \A k \in Jobs \ {j} : req'[k] = req[k]
  PROVE  Statuses' = [Statuses EXCEPT ![j] = Status(j)']
BY ZenonT(60)  DEF Statuses, Status

\* Requests, uploads and the phases before staging at most drop the update.
LEMMA QuietRefines ==
  ASSUME IInv, NEW j \in Jobs,
         Arrive(j) \/ Handle(j) \/ Upload(j) \/ Unpack(j) \/ Verify(j) \/ Finalize(j)
  PROVE  Slots!Drop(j) \/ UNCHANGED SlotVars
<1>0. TypeOK
  BY DEF IInv
<1>1. UNCHANGED <<live, file, disk>> /\ (\E p \in Phases : pc' = [pc EXCEPT ![j] = p])
      /\ \A k \in Jobs \ {j} : req'[k] = req[k]
  BY <1>0, QuietStep
<1>2. Statuses' = [Statuses EXCEPT ![j] = Status(j)']
  BY <1>0, <1>1, StatusStep DEF TypeOK
<1>3. Status(j)' = Status(j) \/ (Status(j) \in {"waiting", "active"} /\ Status(j)' = "ended")
  <2> USE <1>0 DEF TypeOK, Status
  <2>1. CASE Arrive(j)
    BY <2>1, ArrivePhase
  <2>2. CASE Handle(j)
    BY <2>2 DEF Handle, ReadActive, CancelExisting, CreateJob
  <2>3. CASE Upload(j)
    BY <2>3 DEF Upload, FinishUpload, AbortUpload, FailUpload, EndUpload
  <2>4. CASE Unpack(j)
    BY <2>4 DEF Unpack, Drop, Advance
  <2>5. CASE Verify(j)
    BY <2>5 DEF Verify, Drop, Advance
  <2>6. CASE Finalize(j)
    BY <2>6 DEF Finalize
  <2> QED BY <2>1, <2>2, <2>3, <2>4, <2>5, <2>6
<1> QED
  BY <1>1, <1>2, <1>3 DEF Slots!Drop, Slots!Become, Statuses, SlotVars

\* The lock is granted only when no other update is between its start and its end.
LEMMA BeginRefines ==
  ASSUME IInv, NEW j \in Jobs, Begin(j)
  PROVE  Slots!Begin(j) \/ Slots!Drop(j)
<1>0. TypeOK /\ LockInv
  BY DEF IInv
<1>1. UNCHANGED <<live, file, disk>>
  BY DEF Begin, hostVars
<1>2. PICK p \in {"unpack", "spawn", "final"} : pc' = [pc EXCEPT ![j] = p]
  BY BeginPhase
<1>3. pc[j] = "wait" /\ lock = None /\ UNCHANGED req
  BY BeginPhase
<1>4. Statuses' = [Statuses EXCEPT ![j] = Status(j)']
  BY <1>0, <1>2, <1>3, StatusStep DEF TypeOK
<1>5. \A k \in Jobs : Status(k) \in {"waiting", "ended"}
  BY <1>0, <1>3, NoneAssumption DEF LockInv, Status
<1>6. Status(j) = "waiting" /\ Status(j)' \in {"active", "ended"}
  BY <1>0, <1>2, <1>3 DEF Status, TypeOK
<1> QED
  BY <1>1, <1>4, <1>5, <1>6 DEF Slots!Begin, Slots!Drop, Slots!Become, Statuses

\* Staging never touches the directory of a version in use.
LEMMA StageRefines ==
  ASSUME IInv, NEW j \in Jobs, Stage(j)
  PROVE  Slots!Prepare(j) \/ Slots!Drop(j)
<1>0. TypeOK /\ SlotsOnDisk /\ LiveInv
  BY DEF IInv
<1>1. pc[j] = "stage" /\ UNCHANGED <<live, file, req>>
  BY DEF Stage, Drop, Advance, hostVars
<1>2. target[j] \in Versions /\ req[j].package \in Packages
  BY <1>1, UploadHasPackage DEF IInv, TargetInv, RequestInv, IsUpload
<1>3. PICK p \in {"spawn", "final"} : pc' = [pc EXCEPT ![j] = p]
  BY DEF Stage, Drop, Advance
<1>4. Statuses' = [Statuses EXCEPT ![j] = Status(j)']
  BY <1>0, <1>1, <1>3, StatusStep DEF TypeOK
<1>5. Status(j) = "active" /\ Status(j)' \in {"active", "ended"}
  BY <1>0, <1>1, <1>3 DEF Status, TypeOK
<1>6. CASE UNCHANGED disk /\ p = "final"
  <2>1. Status(j)' = "ended"
    BY <1>0, <1>1, <1>3, <1>6 DEF Status, TypeOK
  <2> QED BY <1>1, <1>4, <1>5, <1>6, <2>1 DEF Slots!Drop, Slots!Become, Statuses
<1>7. CASE MayStage(target[j]) /\ \E q \in Packages \cup {None} : disk' = [disk EXCEPT ![target[j]] = q]
  <2>1. target[j] \notin Slots!InUse
    BY <1>0, <1>2, <1>7, NoneAssumption DEF Slots!InUse, MayStage, SlotsOnDisk, Pinned, LiveInv, Promoted
  <2>2. Slots!Become(j, Status(j)')
    BY <1>4 DEF Slots!Become, Statuses
  <2> QED BY <1>1, <1>2, <1>5, <1>7, <2>1, <2>2 DEF Slots!Prepare, Statuses
<1>8. \/ UNCHANGED disk /\ p = "final"
      \/ MayStage(target[j]) /\ \E q \in Packages \cup {None} : disk' = [disk EXCEPT ![target[j]] = q]
  BY <1>0, <1>1, <1>2, <1>3 DEF Stage, Drop, Advance, TypeOK
<1> QED
  BY <1>6, <1>7, <1>8

\* The smoke test and everything after it.
LEMMA CandidateRefines ==
  ASSUME IInv, NEW j \in Jobs,
         \/ Spawn(j) \/ SmokePassed(j) \/ SmokeFailed(j) \/ SmokeCancelled(j)
         \/ EnterPromoting(j) \/ Drain(j)
  PROVE  Slots!Drop(j) \/ Slots!Reload(j) \/ UNCHANGED SlotVars
<1>0. TypeOK
  BY DEF IInv
<1>1. UNCHANGED <<live, file, disk, req>> /\ (\E p \in Phases : pc' = [pc EXCEPT ![j] = p])
  BY DEF Spawn, SmokePassed, SmokeFailed, SmokeCancelled, EnterPromoting, Drain, DropCandidate,
         Advance, hostVars, diskVars
<1>2. Statuses' = [Statuses EXCEPT ![j] = Status(j)']
  BY <1>0, <1>1, StatusStep DEF TypeOK
<1>3. \/ Status(j)' = Status(j)
      \/ Status(j) = "active" /\ Status(j)' \in {"ended", "reloading"}
  BY <1>0 DEF Spawn, SmokePassed, SmokeFailed, SmokeCancelled, EnterPromoting, Drain, DropCandidate,
              Advance, Status, TypeOK
<1> QED
  BY <1>1, <1>2, <1>3 DEF Slots!Drop, Slots!Reload, Slots!Become, Statuses, SlotVars

\* state.json is renamed in one step to a version whose directory is there.
LEMMA WriteRefines ==
  ASSUME IInv, NEW j \in Jobs, WriteState(j)
  PROVE  Slots!Commit(j) \/ Slots!Drop(j)
<1>0. TypeOK /\ PromotionInv /\ CandidateInv
  BY DEF IInv
<1>1. pc[j] = "write" /\ target[j] \in Versions
  BY WriteStep
<1>2. UNCHANGED <<live, disk, req>>
  BY DEF WriteState, DropCandidate, Advance, hostVars, diskVars
<1>3. \E p \in {"swap", "final"} : pc' = [pc EXCEPT ![j] = p]
  BY DEF WriteState, DropCandidate, Advance
<1>4. Statuses' = [Statuses EXCEPT ![j] = Status(j)']
  BY <1>0, <1>2, <1>3, StatusStep DEF TypeOK
<1>5. CASE UNCHANGED file /\ pc' = [pc EXCEPT ![j] = "final"]
  <2>1. Status(j) = "active" /\ Status(j)' = "ended"
    BY <1>0, <1>1, <1>5 DEF Status, TypeOK
  <2> QED BY <1>2, <1>4, <1>5, <2>1 DEF Slots!Drop, Slots!Become, Statuses
<1>6. CASE (\E p \in Packages : file' = Promote(target[j], p)) /\ pc' = [pc EXCEPT ![j] = "swap"]
  <2>1. Status(j) = "active" /\ Status(j)' = "committed"
    BY <1>0, <1>1, <1>2, <1>6 DEF Status, TypeOK, PromotionInv
  <2>2. disk[target[j]] # None
    BY <1>0, <1>1 DEF CandidateInv
  <2>3. /\ file'.current = target[j]
        /\ file'.previous = IF file'.current = file.current THEN file.previous ELSE file.current
    BY <1>6 DEF Promote
  <2> QED BY <1>1, <1>2, <1>4, <2>1, <2>2, <2>3
          DEF Slots!Commit, Slots!Become, Slots!OnDisk, Statuses
<1>7. \/ UNCHANGED file /\ pc' = [pc EXCEPT ![j] = "final"]
      \/ (\E p \in Packages : file' = Promote(target[j], p)) /\ pc' = [pc EXCEPT ![j] = "swap"]
  BY WriteStep
<1> QED
  BY <1>5, <1>6, <1>7

\* Traffic moves to what was committed, or reloaded.
LEMMA SwapRefines ==
  ASSUME IInv, NEW j \in Jobs, Swap(j)
  PROVE  Slots!Switch(j)
<1>0. TypeOK /\ PromotionInv /\ CandidateInv
  BY DEF IInv
<1>1. pc[j] = "swap" /\ pc' = [pc EXCEPT ![j] = "drain"] /\ live' = cand /\ UNCHANGED <<file, disk, req>>
  BY DEF Swap, Advance, diskVars
<1>2. Statuses' = [Statuses EXCEPT ![j] = "ended"]
  BY <1>0, <1>1, StatusStep DEF TypeOK, Status
<1>3. cand.version = target[j] /\ target[j] \in Versions /\ disk[target[j]] # None
  BY <1>0, <1>1 DEF CandidateInv, IInv, TargetInv
<1>4. CASE req[j].kind = "reload"
  <2>1. Status(j) = "reloading"
    BY <1>1, <1>4 DEF Status
  <2> QED BY <1>1, <1>2, <1>3, <2>1 DEF Slots!Switch, Slots!Become, Slots!OnDisk, Statuses
<1>5. CASE req[j].kind # "reload"
  <2>1. Status(j) = "committed" /\ file.current = target[j]
    BY <1>0, <1>1, <1>5 DEF Status, PromotionInv
  <2> QED BY <1>1, <1>2, <1>3, <2>1 DEF Slots!Switch, Slots!Become, Statuses
<1> QED
  BY <1>4, <1>5

\* When old versions are collected the promoted one is serving.
LEMMA CollectRefines ==
  ASSUME IInv, NEW j \in Jobs, Collect(j)
  PROVE  Slots!Collect
<1>0. TypeOK /\ PromotionInv /\ RequestInv
  BY DEF IInv
<1>1. UNCHANGED <<live, file, req>>
  BY DEF Collect, Advance, hostVars
<1>2. pc[j] = "collect" /\ pc' = [pc EXCEPT ![j] = "final"]
  BY <1>0, CollectStep
<1>3. Statuses' = Statuses
  <2>1. Statuses' = [Statuses EXCEPT ![j] = Status(j)'] /\ Status(j)' = Status(j)
    BY <1>0, <1>1, <1>2, StatusStep DEF TypeOK, Status
  <2> QED BY <2>1 DEF Statuses
<1>4. live.version = file.current
  BY <1>0, <1>2, RequestsAssumption DEF PromotionInv, RequestInv, IsUpload
<1>5. \A v \in Versions : disk'[v] # disk[v] => disk'[v] = None /\ v \notin Slots!InUse
  BY <1>0, <1>4, CollectStep DEF Slots!InUse, Pinned
<1>6. disk' \in [Versions -> Packages \cup {None}]
  BY <1>0 DEF Collect, TypeOK
<1> QED
  BY <1>1, <1>3, <1>5, <1>6 DEF Slots!Collect, Statuses

\* The boot after a crash finds the current version.
LEMMA RestartRefines ==
  ASSUME IInv, Restart
  PROVE  Slots!Crash
<1>0. TypeOK /\ SlotsOnDisk
  BY DEF IInv
<1>1. live'.version = file.current /\ UNCHANGED <<file, disk>>
  BY <1>0 DEF Restart, BootHost, Host, SlotsOnDisk, Pinned
<1>2. \A k \in Jobs : Status(k)' \in {"waiting", "ended"} /\ (Status(k)' = "waiting" => Status(k) = "waiting")
  BY <1>0 DEF Restart, Status, TypeOK
<1>3. Statuses' \in [Jobs -> {"waiting", "ended"}]
  BY <1>2 DEF Statuses
<1>4. \A k \in Jobs : Statuses'[k] = "waiting" => Statuses[k] = "waiting"
  BY <1>2 DEF Statuses
<1> QED
  BY <1>1, <1>3, <1>4 DEF Slots!Crash, Statuses

LEMMA InitRefines == Init => Slots!Init
<1> SUFFICES ASSUME Init PROVE Slots!Init
  OBVIOUS
<1>0. IInv
  BY InitIInv
<1>1. \A k \in Jobs : Status(k) = "waiting"
  BY DEF Init, Status
<1>2. live.version = file.current
  BY <1>0 DEF Init, BootHost, Host, IInv, SlotsOnDisk, Pinned
<1>3. file.current \in Slots!OnDisk \cup {None} /\ file.previous \in Slots!OnDisk \cup {None}
  BY <1>0 DEF IInv, TypeOK, SlotsOnDisk, Pinned, Slots!OnDisk
<1>4. disk \in [Versions -> Packages \cup {None}]
  BY <1>0 DEF IInv, TypeOK
<1> QED
  BY <1>1, <1>2, <1>3, <1>4 DEF Slots!Init, Statuses

LEMMA NextRefines == IInv /\ [Next]_vars => [Slots!Next]_SlotVars
<1> SUFFICES ASSUME IInv, [Next]_vars PROVE Slots!Next \/ UNCHANGED SlotVars
  OBVIOUS
<1> USE DEF Slots!Next
<1>1. ASSUME NEW j \in Jobs, Arrive(j) \/ Handle(j) \/ Upload(j) \/ Begin(j) \/ RunPhase(j)
      PROVE  Slots!Next \/ UNCHANGED SlotVars
  BY <1>1, QuietRefines, BeginRefines, StageRefines, CandidateRefines, WriteRefines, SwapRefines,
     CollectRefines DEF RunPhase
<1>2. CASE StopAsync
  BY <1>2 DEF StopAsync, requestVars, diskVars, SlotVars, Statuses, Status
<1>3. CASE Restart
  BY <1>3, RestartRefines
<1>4. CASE UNCHANGED vars
  BY <1>4 DEF vars, requestVars, hostVars, diskVars, SlotVars, Statuses, Status
<1> QED
  BY <1>1, <1>2, <1>3, <1>4 DEF Next, AllHandled

\* The firmware supervisor keeps what FirmwareSlots promises, for any number of
\* jobs, versions, failures and crashes.
THEOREM Implements == Spec => ImplementsSlots
<1>1. Init => Slots!Init
  BY InitRefines
<1>2. IInv /\ [Next]_vars => [Slots!Next]_(Slots!vars)
  BY NextRefines DEF SlotVars, Slots!vars, Statuses
<1> QED
  BY <1>1, <1>2, Inductive, PTL DEF Spec, ImplementsSlots, Slots!Spec
=============================================================================
