---------------------------------- MODULE Deps ----------------------------------
(***************************************************************************)
(* The two stores the functions' dependencies come from: the managed       *)
(* packages of npm: and jsr: specifiers (compat/deps.ts), which `bun       *)
(* install` materialises under aliases, and the cache of https: modules    *)
(* (compat/remote.ts).  Both are directories that outlive the processes,   *)
(* the gateway and the build command, that use them.                       *)
(*                                                                         *)
(* A request is a record of a package's name, its range and a subpath.     *)
(* `bun install` is external: it reads package.json when it starts,        *)
(* refuses the whole of it for one package the registry does not have,     *)
(* leaves alone what looks installed unless it is forced, and extracts     *)
(* the rest one by one.  A kill takes a process and its children.          *)
(***************************************************************************)
EXTENDS Naturals, Sequences, FiniteSets

CONSTANTS
  Procs,
  Requests,            \* the package requests of the functions' sources
  Batches,             \* what one call of ensure asks for
  OnHost,              \* requests the host's own node_modules satisfies
  Refused,             \* aliases the registry does not have
  NoInstall,           \* where no install is
  Reload,              \* whether a process may run with 1TUBE_RELOAD_REMOTE
  MaxEnsures,          \* bound on the calls of ensure waiting in one process
  MaxKills             \* bound on the kills per run

\* One package and range, however many subpaths of it are asked for.
Alias(r) == <<r.name, r.range>>
Aliases == {Alias(r) : r \in Requests}

\* An install: what it has yet to extract, what it is extracting, whether the
\* registry will refuse it, and how it ended.
InstallType == [left : SUBSET Aliases, on : Aliases \cup {NoInstall}, refused : BOOLEAN, exit : {"no", "ok", "failed"}]

ASSUME DepsAssumption ==
  /\ Batches \subseteq SUBSET Requests /\ OnHost \subseteq Requests
  /\ Refused \subseteq Aliases /\ Reload \subseteq BOOLEAN
  /\ MaxEnsures \in Nat /\ MaxKills \in Nat
  /\ NoInstall \notin InstallType \cup Aliases

VARIABLES
  packageJson, marker, disk,   \* package.json, .1tube-installing, node_modules
  up, chain,                   \* per process: alive, calls of ensure in order
  child,                       \* bun install, per process awaited or blocking
  answer,                      \* per process: how its last call of ensure ended
  overlapped,                  \* an install began before another one was settled
  kills,
  bodyFile, metaFile,          \* the two cache files of one URL
  fetching, reload,            \* per process: its download of it, its flag
  clobbered                    \* a download has written over a complete entry, or
                               \* over one another process is writing

storeVars == <<packageJson, marker, disk>>
remoteVars == <<bodyFile, metaFile, fetching, clobbered>>
depsVars == <<storeVars, up, chain, child, answer, overlapped, kills, remoteVars, reload>>

\* An awaited install is spawned by ensure, a blocking one by resolveSync.
Kinds == {"awaited", "blocking"}
Slots == Procs \X Kinds

DepsInit ==
  /\ packageJson = {} /\ marker = FALSE /\ disk = [a \in Aliases |-> "absent"]
  /\ up = [p \in Procs |-> TRUE] /\ chain = [p \in Procs |-> <<>>]
  /\ child = [s \in Slots |-> NoInstall] /\ answer = [p \in Procs |-> "none"]
  /\ overlapped = FALSE /\ kills = 0
  /\ bodyFile = "absent" /\ metaFile = FALSE /\ fetching = [p \in Procs |-> "no"]
  /\ reload \in [Procs -> Reload] /\ clobbered = FALSE

Writing(p) == fetching[p] \in {"body", "written", "meta"}

\* A blocking install, like a write, holds the event loop.
Free(p) == up[p] /\ child[<<p, "blocking">>] = NoInstall /\ ~Writing(p)
Running(s) == child[s] # NoInstall /\ child[s].exit = "no"

-----------------------------------------------------------------------------
(* What the store is trusted with *)

Missing(reqs) == {r \in reqs : marker \/ Alias(r) \notin packageJson \/ disk[Alias(r)] = "absent"}

\* The nearest node_modules above the importer has a version in the range.
HostHas(r) == r \in OnHost

ToInstall(reqs) == {r \in Missing(reqs) : ~HostHas(r)}

-----------------------------------------------------------------------------
(* bun install *)

\* Entries are added to package.json and never taken out.
Listed(reqs) == packageJson \cup {Alias(r) : r \in reqs}

\* Mutant: a store an install was killed in is not repaired by force.
BeginInstallPlain(s, reqs) ==
  LET deps == Listed(reqs) IN
  /\ packageJson' = deps /\ marker' = TRUE
  /\ child' = [child EXCEPT ![s] = [left |-> {a \in deps : disk[a] = "absent"}, on |-> NoInstall,
                                    refused |-> deps \cap Refused # {}, exit |-> "no"]]
  /\ overlapped' = (overlapped \/ \E t \in Slots : child[t] # NoInstall)

\* addToManifest, beginInstall and the spawn, in one synchronous run.
BeginInstall(s, reqs) ==
  LET deps == Listed(reqs) IN
  /\ packageJson' = deps /\ marker' = TRUE
  /\ child' = [child EXCEPT ![s] = [left |-> {a \in deps : marker \/ disk[a] = "absent"}, on |-> NoInstall,
                                    refused |-> deps \cap Refused # {}, exit |-> "no"]]
  /\ overlapped' = (overlapped \/ \E t \in Slots : child[t] # NoInstall)

\* The child takes up a package, and has extracted it.
Extract(s) ==
  /\ Running(s) /\ ~child[s].refused
  /\ IF child[s].on = NoInstall
     THEN \E a \in child[s].left :
            /\ child' = [child EXCEPT ![s].on = a, ![s].left = @ \ {a}]
            /\ disk' = [disk EXCEPT ![a] = "partial"]
     ELSE /\ child' = [child EXCEPT ![s].on = NoInstall]
          /\ disk' = [disk EXCEPT ![child[s].on] =
                        IF \E t \in Slots \ {s} : Running(t) /\ child[t].on = child[s].on THEN "partial" ELSE "whole"]
  /\ UNCHANGED <<packageJson, marker, up, chain, answer, overlapped, kills, remoteVars, reload>>

\* It exits, with a failure at any point.
Exit(s) ==
  /\ Running(s)
  /\ \E code \in IF child[s].refused THEN {"failed"}
                 ELSE IF child[s].left = {} /\ child[s].on = NoInstall THEN {"ok", "failed"} ELSE {"failed"} :
       child' = [child EXCEPT ![s].exit = code]
  /\ UNCHANGED <<storeVars, up, chain, answer, overlapped, kills, remoteVars, reload>>

InstallDone(s) == marker' = (marker /\ child[s].exit # "ok")

-----------------------------------------------------------------------------
(* ensure: batched, one call of a process after the other *)

Ensure(p, reqs) ==
  /\ Free(p) /\ Len(chain[p]) < MaxEnsures
  /\ chain' = [chain EXCEPT ![p] = Append(@, reqs)]
  /\ UNCHANGED <<storeVars, up, child, answer, overlapped, kills, remoteVars, reload>>

\* Mutant: the failed call stays at the head of the chain.
SettleStuck(p, how) ==
  /\ chain' = [chain EXCEPT ![p] = IF how = "failed" THEN @ ELSE Tail(@)]
  /\ answer' = [answer EXCEPT ![p] = how]

\* The promise of the first call; the chain goes on after a failure.
Settle(p, how) ==
  /\ chain' = [chain EXCEPT ![p] = Tail(@)]
  /\ answer' = [answer EXCEPT ![p] = how]

StartEnsure(p) ==
  /\ Free(p) /\ chain[p] # <<>> /\ child[<<p, "awaited">>] = NoInstall
  /\ LET todo == ToInstall(Head(chain[p])) IN
     IF todo = {}
     THEN Settle(p, "ensured") /\ UNCHANGED <<storeVars, child, overlapped>>
     ELSE BeginInstall(<<p, "awaited">>, todo) /\ UNCHANGED <<disk, chain, answer>>
  /\ UNCHANGED <<up, kills, remoteVars, reload>>

\* Mutant: the exit code is not looked at.
OutcomeOk(s) == "ensured"

Outcome(s) == IF child[s].exit = "ok" THEN "ensured" ELSE "failed"

EndEnsure(p) ==
  LET s == <<p, "awaited">> IN
  /\ Free(p) /\ child[s] # NoInstall /\ child[s].exit # "no"
  /\ InstallDone(s) /\ Settle(p, Outcome(s))
  /\ child' = [child EXCEPT ![s] = NoInstall]
  /\ UNCHANGED <<packageJson, disk, up, overlapped, kills, remoteVars, reload>>

-----------------------------------------------------------------------------
(* resolveSync: the host first, then the store, with a blocking install *)

Resolve(p, r) ==
  /\ Free(p)
  /\ IF HostHas(r) \/ Missing({r}) = {}
     THEN UNCHANGED <<storeVars, child, overlapped>>
     ELSE BeginInstall(<<p, "blocking">>, {r}) /\ UNCHANGED disk
  /\ UNCHANGED <<up, chain, answer, kills, remoteVars, reload>>

EndResolve(p) ==
  LET s == <<p, "blocking">> IN
  /\ up[p] /\ child[s] # NoInstall /\ child[s].exit # "no"
  /\ InstallDone(s)
  /\ child' = [child EXCEPT ![s] = NoInstall]
  /\ UNCHANGED <<packageJson, disk, up, chain, answer, overlapped, kills, remoteVars, reload>>

-----------------------------------------------------------------------------
(* The cache of remote modules *)

Cached(p) == ~reload[p] /\ metaFile /\ bodyFile # "absent"

\* A load in flight is shared by everyone who asks again.
Load(p) ==
  /\ Free(p) /\ ~Cached(p) /\ fetching[p] = "no"
  /\ fetching' = [fetching EXCEPT ![p] = "fetching"]
  /\ UNCHANGED <<storeVars, up, chain, child, answer, overlapped, kills, bodyFile, metaFile, clobbered, reload>>

FetchFails(p) ==
  /\ Free(p) /\ fetching[p] = "fetching"
  /\ fetching' = [fetching EXCEPT ![p] = "no"]
  /\ UNCHANGED <<storeVars, up, chain, child, answer, overlapped, kills, bodyFile, metaFile, clobbered, reload>>

\* Truncate and write the body, then truncate and write the meta file.
Store(p) ==
  \/ /\ fetching[p] = "fetching" /\ Free(p) /\ fetching' = [fetching EXCEPT ![p] = "body"]
     /\ bodyFile' = "torn" /\ clobbered' = (clobbered \/ metaFile \/ \E q \in Procs : Writing(q)) /\ UNCHANGED metaFile
  \/ /\ fetching[p] = "body" /\ fetching' = [fetching EXCEPT ![p] = "written"]
     /\ bodyFile' = "whole" /\ UNCHANGED <<metaFile, clobbered>>
  \/ /\ fetching[p] = "written" /\ fetching' = [fetching EXCEPT ![p] = "meta"]
     /\ metaFile' = FALSE /\ UNCHANGED <<bodyFile, clobbered>>
  \/ /\ fetching[p] = "meta" /\ fetching' = [fetching EXCEPT ![p] = "no"]
     /\ metaFile' = TRUE /\ UNCHANGED <<bodyFile, clobbered>>

\* The module is returned also when a write fails, and the files stay as they are.
Download(p) ==
  /\ up[p]
  /\ \/ Store(p)
     \/ /\ Writing(p)
        /\ fetching' = [fetching EXCEPT ![p] = "no"] /\ UNCHANGED <<bodyFile, metaFile, clobbered>>
  /\ UNCHANGED <<storeVars, up, chain, child, answer, overlapped, kills, reload>>

-----------------------------------------------------------------------------
(* Processes *)

Kill(p) ==
  /\ up[p] /\ kills < MaxKills /\ kills' = kills + 1
  /\ up' = [up EXCEPT ![p] = FALSE] /\ chain' = [chain EXCEPT ![p] = <<>>]
  /\ child' = [s \in Slots |-> IF s[1] = p THEN NoInstall ELSE child[s]]
  /\ fetching' = [fetching EXCEPT ![p] = "no"] /\ answer' = [answer EXCEPT ![p] = "none"]
  /\ UNCHANGED <<storeVars, overlapped, bodyFile, metaFile, clobbered, reload>>

Start(p) ==
  /\ ~up[p] /\ up' = [up EXCEPT ![p] = TRUE]
  /\ \E flag \in Reload : reload' = [reload EXCEPT ![p] = flag]
  /\ UNCHANGED <<storeVars, chain, child, answer, overlapped, kills, remoteVars>>

DepsNext ==
  \/ \E s \in Slots : Extract(s) \/ Exit(s)
  \/ \E p \in Procs :
       \/ \E reqs \in Batches : Ensure(p, reqs)
       \/ \E r \in Requests : Resolve(p, r)
       \/ StartEnsure(p) \/ EndEnsure(p) \/ EndResolve(p)
       \/ Load(p) \/ FetchFails(p) \/ Download(p)
       \/ Kill(p) \/ Start(p)

DepsSpec == DepsInit /\ [][DepsNext]_depsVars

\* Installs end, the writes of a download are synchronous, and the event loop gets to
\* the promises that are settled.
Fairness ==
  /\ \A s \in Slots : WF_depsVars(Extract(s) \/ Exit(s))
  /\ \A p \in Procs :
       /\ SF_depsVars(StartEnsure(p)) /\ SF_depsVars(EndEnsure(p)) /\ WF_depsVars(EndResolve(p))
       /\ WF_depsVars(Download(p)) /\ WF_depsVars(Start(p))

FairSpec == DepsSpec /\ Fairness

-----------------------------------------------------------------------------
(* Properties *)

DepsTypeOK ==
  /\ packageJson \subseteq Aliases /\ marker \in BOOLEAN /\ disk \in [Aliases -> {"absent", "partial", "whole"}]
  /\ up \in [Procs -> BOOLEAN] /\ chain \in [Procs -> Seq(Batches)]
  /\ child \in [Slots -> InstallType \cup {NoInstall}]
  /\ \A p \in Procs : child[<<p, "awaited">>] # NoInstall => chain[p] # <<>>
  /\ answer \in [Procs -> {"none", "ensured", "failed"}]
  /\ overlapped \in BOOLEAN /\ kills \in 0..MaxKills
  /\ bodyFile \in {"absent", "torn", "whole"} /\ {metaFile, clobbered} \subseteq BOOLEAN
  /\ fetching \in [Procs -> {"no", "fetching", "body", "written", "meta"}] /\ reload \in [Procs -> BOOLEAN]

\* As long as no install began before another one was settled, what the store is trusted with is whole on
\* disk, whenever a process or an install was killed and whichever package was half
\* extracted (the marker and --force, deps.ts 199-216 and 240-251).
TrustedIsWhole == ~overlapped => \A r \in Requests : Missing({r}) = {} => disk[Alias(r)] = "whole"

\* ensure is fulfilled only when every request of the call is satisfied by the host or
\* is whole in the store (deps.ts 320-328), though the calls before it may have failed.
EnsuredMeansPresent ==
  [][\A p \in Procs :
       (chain[p] # <<>> /\ chain'[p] = Tail(chain[p]) /\ up'[p] /\ answer'[p] = "ensured" /\ ~overlapped)
         => \A r \in Head(chain[p]) : HostHas(r) \/ disk[Alias(r)] = "whole"]_depsVars

\* Everyone who waits for ensure gets an answer (the chain of deps.ts 320-328).
EnsureSettles == \A p \in Procs : Len(chain[p]) = MaxEnsures ~> Len(chain[p]) < MaxEnsures

\* A cached remote module is served only when its body is whole, if no download wrote
\* over a complete entry or over another process's: a kill or a failed write between the two files costs a
\* download, never a broken module (remote.ts 98-106 and 120-130).
CachedIsWhole == (~clobbered /\ \E p \in Procs : Cached(p)) => bodyFile = "whole"

\* Whatever the package store or the remote cache is trusted with is whole on disk.
CachesAreWhole == DepsTypeOK /\ TrustedIsWhole /\ CachedIsWhole
=============================================================================
