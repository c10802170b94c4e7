------------------------ MODULE MCFirmwareSupervisor ------------------------
EXTENDS FirmwareSupervisor, TLC

CONSTANTS v1, v2, v3, v4

MCVersions == {v1, v2, v3, v4}

\* v1 and v2 are installed; v3 is new, `rebuilt` carries v2's content under
\* another new version, `forged` other content under the old version v1.
p1      == [version |-> v1, content |-> "a"]
p2      == [version |-> v2, content |-> "b"]
p3      == [version |-> v3, content |-> "c"]
rebuilt == [version |-> v4, content |-> "b"]
forged  == [version |-> v1, content |-> "d"]
MCPackages == {p1, p2, p3, rebuilt, forged}
MCInstalled == <<p1, p2>>

Stage0(p, force, hinted) == [kind |-> "stage", package |-> p, force |-> force, hinted |-> hinted]
BeginRequest(p) == [kind |-> "begin", package |-> p, force |-> FALSE, hinted |-> FALSE]
Rollback == [kind |-> "rollback", package |-> None, force |-> FALSE, hinted |-> FALSE]
Reload   == [kind |-> "reload", package |-> None, force |-> FALSE, hinted |-> FALSE]

\* A new version, forged content under an old version number, a rebuild of what is
\* current with its hash as a hint, forced and not, rollback and reload.
MixedRequests ==
  {Stage0(p3, FALSE, FALSE), BeginRequest(forged), Rollback, Reload}
    \cup {Stage0(rebuilt, force, TRUE) : force \in BOOLEAN}

AllFaults == FaultKinds
LateFaults == FaultKinds \ {"upload"}
Symmetric == Permutations(Jobs)
=============================================================================
