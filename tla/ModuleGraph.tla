------------------------------ MODULE ModuleGraph ------------------------------
(***************************************************************************)
(* From a saved file to the functions that run it, on the Bun backend: the *)
(* import map (compat/import-map.ts), the dependency graph the hot         *)
(* reloader asks which functions a file belongs to (backends/bun/          *)
(* dep-graph.ts), the loader that rewrites the imports of a source file    *)
(* (compat/plugin.ts), and the module the gateway shares between functions *)
(* (backends/bun/shared-runtime.ts).  And from a saved env file to the     *)
(* environment that functions read when they are evaluated (env-file.ts,   *)
(* env-hot-reloader.ts).                                                   *)
(*                                                                         *)
(* A path is a sequence of names, a specifier one that starts with ".",    *)
(* ".." or "" when it is path-like.  A save changes what stat() says of a  *)
(* file, and a broken file has no imports.  Dependencies are isolated      *)
(* (--isolate-deps); packages are the subject of Deps, claims that wait    *)
(* for a lane, draining and requests that of FunctionHost.  Functions are  *)
(* not added or removed, the shared module is not deleted, and nobody but  *)
(* the env reloader writes the environment.                                *)
(***************************************************************************)
EXTENDS Naturals, Sequences, FiniteSets, SequencesExt

CONSTANTS
  Functions, Shared,       \* module graphs: one per function, one of the gateway
  Entry,                   \* the file each of them starts from
  Imports,                 \* of each file: the sets of specifiers it may have
  Start,                   \* the files there are at first, and what they import
  Map,                     \* deno.json: [imports, scopes], keys to targets
  Deletable,               \* files that may be deleted
  Keys, EnvStart,          \* environment keys; which of them each env file holds at first,
                           \* a sequence in which later files win
  None,
  MaxEdits                 \* bound on saves and deletions

Files == DOMAIN Imports
Graphs == Functions \cup {Shared}
Callers == {"hmr", "env"}

\* A file on disk; an entry of a cache; the job of a graph.
SourceType == [rev : Nat, specs : UNION {Imports[x] : x \in Files}, ok : BOOLEAN]
CachedType == [rev : Nat, files : SUBSET Files]
JobType == [step : {"idle", "walk", "load"}, by : Callers \cup {None}, todo : SUBSET Files,
            reading : SUBSET (Files \X Nat), seen : SUBSET Files, got : [Files -> Nat], gen : Nat]

ASSUME ModuleGraphAssumption ==
  /\ Entry \in [Graphs -> Files] /\ DOMAIN Start \subseteq Files
  /\ \A x \in DOMAIN Start : Start[x] \in Imports[x]
  /\ Deletable \subseteq Files \ {Entry[g] : g \in Graphs}
  /\ MaxEdits \in Nat /\ EnvStart \in Seq(SUBSET Keys)
  /\ Shared \notin Functions /\ \A f \in Functions : Entry[f] # Entry[Shared]
ASSUME NoneAssumption ==
  /\ None \notin Files /\ None \notin Callers /\ None \notin SourceType /\ None \notin CachedType

VARIABLES
  source,            \* disk: [rev, specs, ok], or None
  edits,
  parsed,            \* dep-graph.ts, the parse cache: [rev, files], or None
  graph,             \* files the functions are reloaded for
  rewritten,         \* plugin.ts, the cache of rewritten sources: [rev, files], or None
  pending,           \* paths the watcher has reported
  phase, batch,      \* the flush of the hot reloader, and the paths it is about
  job,               \* of each graph: [step, by, todo, reading, seen, got, gen] of its reload
  again,             \* the reloader whose claim on a function waits for the job, or None
  loaded,            \* what runs: [revs, gen, env], revisions of its files, the generation
                     \* of the shared module it is bound to and the environment it saw
  failed, gen,       \* graphs whose last import failed; generation of the shared module
  dotenv,            \* env files: [there, lines], the value of each key, 0 for none
  env, owned,        \* process.env, 0 for what is not set; ownedKeys
  envPending, envBusy    \* the env reloader: an event has come, its flush is under way

sources == <<source, edits>>
caches == <<parsed, graph, rewritten>>
runs == <<loaded, failed, gen>>
envs == <<dotenv, env, owned, envPending, envBusy>>
vars == <<sources, caches, pending, phase, batch, job, again, runs, envs>>

-----------------------------------------------------------------------------
(* Specifiers *)

PathLike(spec) == spec[1] \in {".", "..", ""}

Relative(spec, file) ==
  IF spec[1] = "." THEN Front(file) \o Tail(spec)
  ELSE IF spec[1] = ".." THEN Front(Front(file)) \o Tail(spec)
  ELSE Tail(spec)

\* "lib/" is <<"lib", "">> and matches what lies below it.
Matches(key, spec) == Last(key) = "" /\ IsPrefix(Front(key), spec) /\ Len(spec) >= Len(key)
Longest(keys) == CHOOSE k \in keys : \A l \in keys : Len(l) <= Len(k)

\* Exact keys first, then the longest prefix.
applyMap(spec, map) ==
  LET prefixes == {k \in DOMAIN map : Matches(k, spec)} IN
  IF spec \in DOMAIN map THEN map[spec]
  ELSE IF prefixes = {} THEN None
  ELSE LET k == Longest(prefixes) IN Front(map[k]) \o SubSeq(spec, Len(k), Len(spec))

\* The most specific scope of the importing file, then the top level.
resolveImportMap(spec, file) ==
  LET scopes == {s \in DOMAIN Map.scopes : IsPrefix(s, file)}
      scoped == IF scopes = {} THEN None ELSE applyMap(spec, Map.scopes[Longest(scopes)]) IN
  IF scoped # None THEN scoped ELSE applyMap(spec, Map.imports)

\* The dependency graph maps what is not path-like; a bare package is a leaf.
classify(spec, file) == IF PathLike(spec) THEN Relative(spec, file) ELSE resolveImportMap(spec, file)

\* The loader maps every specifier.
rewriteTarget(spec, file) ==
  LET mapped == resolveImportMap(spec, file) IN
  IF mapped # None THEN mapped ELSE IF PathLike(spec) THEN Relative(spec, file) ELSE None

\* Files has every file that may be imported.  A map that renames a path-like specifier is
\* left out: the loader obeys it, the dependency graph does not.
ASSUME ImportsAssumption ==
  \A x \in Files : \A specs \in Imports[x] : \A spec \in specs :
    /\ classify(spec, x) \in Files \cup {None}
    /\ PathLike(spec) => resolveImportMap(spec, x) = None

Loads(x) == source[x] # None /\ source[x].ok

\* What the dependency graph, and what the loader, finds a file to import.
importsOf(file) == IF Loads(file) THEN {classify(spec, file) : spec \in source[file].specs} \ {None} ELSE {}
rewriteImports(file) == IF Loads(file) THEN {rewriteTarget(spec, file) : spec \in source[file].specs} \ {None} ELSE {}

tree == [x \in Files |-> importsOf(x)]

\* The files reached from one of them through the imports of some: the smallest set that
\* none of these imports leads out of.
Reached(imports, from, through) ==
  LET links == UNION {{x} \X imports[x] : x \in through}
      closed == {S \in SUBSET Files : from \in S /\ \A l \in links : l[1] \in S => l[2] \in S} IN
  {x \in Files : \A S \in closed : x \in S}

\* The graphs one would draw of the files on disk, and the files of its graph that a function
\* runs itself: those the shared file imports are evaluated with that.
Closure(g) == Reached(tree, Entry[g], Files)
Own(f) == Reached(tree, Entry[f], Files \ {Entry[Shared]}) \ {Entry[Shared]}

-----------------------------------------------------------------------------
(* The environment *)

\* What a file says of a key; 0 for nothing.
parseEnvFile(i, k) == IF dotenv[i].there THEN dotenv[i].lines[k] ELSE 0

\* Later files override earlier ones, and one that cannot be read is skipped.
merged(k) == LET is == {i \in DOMAIN dotenv : parseEnvFile(i, k) # 0} IN
  IF is = {} THEN 0 ELSE parseEnvFile(CHOOSE i \in is : \A j \in is : i >= j, k)

\* Mutant: a key that no file holds any more stays.
applyEnvFilesKeeping ==
  /\ env' = [k \in Keys |-> IF merged(k) # 0 THEN merged(k) ELSE env[k]]
  /\ owned' = {k \in Keys : merged(k) # 0}

\* Keys that no file holds any more go, unless no file could be read.
applyEnvFiles ==
  IF \E i \in DOMAIN dotenv : dotenv[i].there
  THEN /\ env' = [k \in Keys |-> IF merged(k) # 0 THEN merged(k) ELSE IF k \in owned THEN 0 ELSE env[k]]
       /\ owned' = {k \in Keys : merged(k) # 0}
  ELSE UNCHANGED <<env, owned>>

-----------------------------------------------------------------------------
Idle == [step |-> "idle", by |-> None, todo |-> {}, reading |-> {}, seen |-> {},
         got |-> [x \in Files |-> 0], gen |-> 0]

\* The gateway has booted: graphs are built and everything is loaded.
Init ==
  /\ source = [x \in Files |-> IF x \in DOMAIN Start THEN [rev |-> 1, specs |-> Start[x], ok |-> TRUE] ELSE None]
  /\ edits = 0
  /\ parsed = [x \in Files |-> None] /\ rewritten = [x \in Files |-> None]
  /\ graph = [g \in Functions |-> Closure(g)]
  /\ pending = {} /\ phase = "idle" /\ batch = {}
  /\ job = [g \in Graphs |-> Idle] /\ again = [f \in Functions |-> None]
  /\ gen = 1 /\ failed = {}
  /\ dotenv = [i \in DOMAIN EnvStart |-> [there |-> TRUE, lines |-> [k \in Keys |-> IF k \in EnvStart[i] THEN i ELSE 0]]]
  /\ env = [k \in Keys |-> merged(k)] /\ owned = {k \in Keys : merged(k) # 0}
  /\ envPending = FALSE /\ envBusy = FALSE
  /\ loaded = [g \in Graphs |->
       LET files == IF g = Shared THEN Closure(g) ELSE Own(g) IN
       [revs |-> [x \in Files |-> IF x \in files THEN 1 ELSE 0], gen |-> IF g # Shared /\ Entry[Shared] \in Closure(g) THEN 1 ELSE 0,
        env |-> env]]

Revision == edits + 2

Save(x) ==
  /\ edits < MaxEdits /\ edits' = edits + 1
  /\ \E specs \in Imports[x], ok \in BOOLEAN : source' = [source EXCEPT ![x] = [rev |-> Revision, specs |-> specs, ok |-> ok]]
  /\ pending' = pending \cup {x}
  /\ UNCHANGED <<caches, phase, batch, job, again, runs, envs>>

Delete(x) ==
  /\ edits < MaxEdits /\ x \in Deletable /\ source[x] # None
  /\ edits' = edits + 1 /\ source' = [source EXCEPT ![x] = None]
  /\ pending' = pending \cup {x}
  /\ UNCHANGED <<caches, phase, batch, job, again, runs, envs>>

\* An env file is written, or is gone for now as when an editor replaces it.
SaveEnv(i) ==
  /\ edits < MaxEdits /\ edits' = edits + 1
  /\ \/ \E value \in [Keys -> BOOLEAN] :
          dotenv' = [dotenv EXCEPT ![i] = [there |-> TRUE, lines |-> [k \in Keys |-> IF value[k] THEN Len(dotenv) + edits + 1 ELSE 0]]]
     \/ dotenv' = [dotenv EXCEPT ![i].there = FALSE]
  /\ envPending' = TRUE
  /\ UNCHANGED <<source, caches, pending, phase, batch, job, again, runs, env, owned, envBusy>>

-----------------------------------------------------------------------------
(* The flushes of the two reloaders *)

Loading(g) == [Idle EXCEPT !.step = "load", !.by = job[g].by, !.todo = {Entry[g]}]
Walking(g, c) == [Idle EXCEPT !.step = "walk", !.by = c, !.todo = {Entry[g]}, !.seen = {Entry[g]}]

\* Claims on functions: one that is being reloaded waits for its turn.
Claim(fs, c) ==
  /\ job' = [g \in Graphs |-> IF g \in fs /\ job[g].step = "idle" THEN Walking(g, c) ELSE job[g]]
  /\ again' = [f \in Functions |-> IF f \in fs /\ job[f].step # "idle" THEN c ELSE again[f]]

Served(c) == \A f \in Functions : job[f].by # c /\ again[f] # c

\* A shared module is evaluated again before the functions that import it.
Flush ==
  /\ phase = "idle" /\ pending # {} /\ pending' = {} /\ batch' = pending
  /\ IF Entry[Shared] \in pending
     THEN phase' = "shared" /\ job' = [job EXCEPT ![Shared] = Loading(Shared)]
     ELSE phase' = "affected" /\ UNCHANGED job
  /\ UNCHANGED <<sources, caches, again, runs, envs>>

SharedReloaded ==
  /\ phase = "shared" /\ job[Shared].step = "idle" /\ phase' = "affected"
  /\ UNCHANGED <<sources, caches, pending, batch, job, again, runs, envs>>

computeAffected(paths) == {f \in Functions : paths \cap (graph[f] \cup {Entry[f]}) # {}}

Affected ==
  /\ phase = "affected"
  /\ LET fs == computeAffected(batch) IN
     /\ Claim(fs, "hmr")
     /\ phase' = IF fs = {} THEN "idle" ELSE "reload"
  /\ UNCHANGED <<sources, caches, pending, batch, runs, envs>>

ReloadEnds ==
  /\ phase = "reload" /\ Served("hmr")
  /\ phase' = "idle" /\ UNCHANGED <<sources, caches, pending, batch, job, again, runs, envs>>

\* The env files are read again, and if that changed anything every function reloads.
EnvFlush ==
  /\ envPending /\ ~envBusy /\ envPending' = FALSE
  /\ applyEnvFiles
  /\ IF env' # env THEN envBusy' = TRUE /\ Claim(Functions, "env") ELSE UNCHANGED <<envBusy, job, again>>
  /\ UNCHANGED <<sources, caches, pending, phase, batch, runs, dotenv>>

EnvReloadEnds ==
  /\ envBusy /\ Served("env") /\ envBusy' = FALSE
  /\ UNCHANGED <<sources, caches, pending, phase, batch, job, again, runs, dotenv, env, owned, envPending>>

-----------------------------------------------------------------------------
(* Refresh of a function's graph *)

\* What the walk learns of x.
Learn(f, x, files) == [job EXCEPT ![f].todo = (@ \ {x}) \cup (files \ job[f].seen), ![f].seen = @ \cup files,
                                  ![f].reading = {r \in @ : r[1] # x}]

\* Mutant: whatever was parsed once is known.
KnownForGood(x) == parsed[x] # None

Known(x) == parsed[x] # None /\ parsed[x].rev = source[x].rev

\* parseFile stats first: a cached parse of this very file will do.
Stat(f, x) ==
  /\ job[f].step = "walk" /\ x \in job[f].todo
  /\ IF source[x] = None
     THEN parsed' = [parsed EXCEPT ![x] = None] /\ job' = Learn(f, x, {})
     ELSE /\ UNCHANGED parsed
          /\ IF Known(x) THEN job' = Learn(f, x, parsed[x].files)
             ELSE job' = [job EXCEPT ![f].todo = @ \ {x}, ![f].reading = @ \cup {<<x, source[x].rev>>}]
  /\ UNCHANGED <<sources, graph, rewritten, pending, phase, batch, again, runs, envs>>

CacheParse(x, rev, files) == parsed' = [parsed EXCEPT ![x] = [rev |-> rev, files |-> files]]

\* It reads later, and keeps what it read under what stat had said.
Read(f, x) ==
  /\ \E r \in job[f].reading :
       /\ r[1] = x
       /\ LET files == importsOf(x) IN CacheParse(x, r[2], files) /\ job' = Learn(f, x, files)
  /\ UNCHANGED <<sources, graph, rewritten, pending, phase, batch, again, runs, envs>>

Replace(f) == graph' = [graph EXCEPT ![f] = job[f].seen]

Refreshed(f) ==
  /\ job[f].step = "walk" /\ job[f].todo = {} /\ job[f].reading = {}
  /\ Replace(f) /\ job' = [job EXCEPT ![f] = Loading(f)]
  /\ UNCHANGED <<sources, parsed, rewritten, pending, phase, batch, again, runs, envs>>

-----------------------------------------------------------------------------
(* Import of a graph *)

\* Mutant: a source that was rewritten once is not read again.
loadRewrittenOnce(x) ==
  IF rewritten[x] # None THEN rewritten[x] ELSE [rev |-> source[x].rev, files |-> rewriteImports(x)]

loadRewritten(x) ==
  IF rewritten[x] # None /\ rewritten[x].rev = source[x].rev THEN rewritten[x]
  ELSE [rev |-> source[x].rev, files |-> rewriteImports(x)]

\* Imports of the shared file become imports of a stub that binds to what is loaded.
Stubbed(g, x) == g # Shared /\ x = Entry[Shared]

Load(g, x) ==
  /\ job[g].step = "load" /\ x \in job[g].todo /\ ~Stubbed(g, x)
  /\ Loads(x)
  /\ LET code == loadRewritten(x)
         got == [job[g].got EXCEPT ![x] = code.rev] IN
     /\ rewritten' = [rewritten EXCEPT ![x] = code]
     /\ job' = [job EXCEPT ![g].got = got, ![g].todo = {y \in @ \cup code.files : got[y] = 0}]
  /\ UNCHANGED <<sources, parsed, graph, pending, phase, batch, again, runs, envs>>

Bind(g, x) ==
  /\ job[g].step = "load" /\ x \in job[g].todo /\ Stubbed(g, x)
  /\ job' = [job EXCEPT ![g].gen = gen, ![g].todo = @ \ {x}]
  /\ UNCHANGED <<sources, caches, pending, phase, batch, again, runs, envs>>

\* The job of g is over, and a claim that waited for it goes on.
Over(g) ==
  LET next == IF g \in Functions THEN again[g] ELSE None IN
  /\ job' = [job EXCEPT ![g] = IF next = None THEN Idle ELSE Walking(g, next)]
  /\ again' = [f \in Functions |-> IF f = g THEN None ELSE again[f]]

\* A file is missing or does not parse: what ran before keeps running.
ImportFails(g, x) ==
  /\ job[g].step = "load" /\ x \in job[g].todo /\ ~Stubbed(g, x)
  /\ ~Loads(x)
  /\ failed' = failed \cup {g} /\ Over(g)
  /\ UNCHANGED <<sources, caches, pending, phase, batch, loaded, gen, envs>>

Imported(g) ==
  /\ job[g].step = "load" /\ job[g].todo = {}
  /\ loaded' = [loaded EXCEPT ![g] = [revs |-> job[g].got, gen |-> job[g].gen, env |-> env]]
  /\ failed' = failed \ {g} /\ Over(g)
  /\ gen' = IF g = Shared THEN gen + 1 ELSE gen
  /\ UNCHANGED <<sources, caches, pending, phase, batch, envs>>

Next ==
  \/ \E x \in Files : Save(x) \/ Delete(x)
  \/ \E i \in DOMAIN dotenv : SaveEnv(i)
  \/ Flush \/ SharedReloaded \/ Affected \/ ReloadEnds
  \/ EnvFlush \/ EnvReloadEnds
  \/ \E f \in Functions, x \in Files : Stat(f, x) \/ Read(f, x)
  \/ \E f \in Functions : Refreshed(f)
  \/ \E g \in Graphs, x \in Files : Load(g, x) \/ Bind(g, x) \/ ImportFails(g, x)
  \/ \E g \in Graphs : Imported(g)

Spec == Init /\ [][Next]_vars

-----------------------------------------------------------------------------
(* Properties *)

Values == 0..(Len(EnvStart) + MaxEdits)

\* No revision is newer than the edits so far, a walk or load in flight belongs to the flush
\* that waits for it, and the shared module is evaluated again at most once per save of it.
TypeOK ==
  /\ edits \in 0..MaxEdits /\ source \in [Files -> SourceType \cup {None}]
  /\ \A x \in Files : source[x] # None => source[x].rev \in 1..(edits + 1) /\ source[x].specs \in Imports[x]
  /\ parsed \in [Files -> CachedType \cup {None}] /\ rewritten \in [Files -> CachedType \cup {None}]
  /\ graph \in [Functions -> SUBSET Files] /\ pending \subseteq Files /\ batch \subseteq Files
  /\ phase \in {"idle", "shared", "affected", "reload"}
  /\ job \in [Graphs -> JobType] /\ again \in [Functions -> Callers \cup {None}]
  /\ \A f \in Functions : (job[f].by = "hmr" => phase = "reload") /\ (job[f].by = "env" => envBusy)
  /\ job[Shared].step # "idle" => phase = "shared"
  /\ loaded \in [Graphs -> [revs : [Files -> Nat], gen : Nat, env : [Keys -> Values]]]
  /\ failed \subseteq Graphs /\ gen \in 1..(MaxEdits + 1)
  /\ dotenv \in [DOMAIN EnvStart -> [there : BOOLEAN, lines : [Keys -> Values]]]
  /\ {envPending, envBusy} \subseteq BOOLEAN /\ owned \subseteq Keys /\ env \in [Keys -> Values]

\* What is cached of a file under its present stat is what the file imports, although
\* several walks parse it at once and it is saved between stat and read
\* (dep-graph.ts 173-204).
ParsedHonest ==
  \A x \in Files : (parsed[x] # None /\ source[x] # None /\ parsed[x].rev = source[x].rev)
                     => parsed[x].files = importsOf(x)

Quiet == phase = "idle" /\ pending = {}

\* "A file change maps to exactly the functions that transitively import it"
\* (dep-graph.ts 6-8): once the reloader is idle the graphs are those of the sources,
\* also of functions whose import failed.
GraphsExact == Quiet => \A f \in Functions : graph[f] = Closure(f)

\* The parse cache and the graphs tell what the sources import.
GraphsAreHonest == TypeOK /\ ParsedHonest /\ GraphsExact

Fine(g) == \A x \in Closure(g) : Loads(x)

\* Once it is idle every function whose files are all there runs their newest revisions,
\* whatever it failed on before (hot-reloader.ts 225-347, plugin.ts 285-298).
NewestRuns ==
  Quiet => \A f \in Functions : Fine(f) =>
    loaded[f].revs = [x \in Files |-> IF x \in Own(f) THEN source[x].rev ELSE 0]

EnvQuiet == ~envPending /\ ~envBusy

\* "Keys that disappeared from every watched file since the last apply are deleted so
\* secret rotations/removals take effect" (env-file.ts 143-147): once the env reloader is
\* idle, and while there is a file, the environment holds what the files say and nothing
\* they said before, and that is what every function has seen that can be loaded.
SecretsTakeEffect ==
  EnvQuiet => /\ (\E i \in DOMAIN dotenv : dotenv[i].there) => \A k \in Keys : env[k] = merged(k)
              /\ Quiet => \A f \in Functions : Fine(f) => loaded[f].env = env

\* All functions that import the shared module are bound to its newest evaluation, and
\* that is of its newest revision unless one of its own imports failed it
\* (hot-reloader.ts 241-258, shared-runtime.ts 90-139).
SharedIsOne ==
  Quiet => \A f \in Functions : (Fine(f) /\ Entry[Shared] \in Closure(f)) =>
    /\ loaded[f].gen = gen
    /\ (Shared \notin failed \/ importsOf(Entry[Shared]) = {}) =>
         loaded[Shared].revs[Entry[Shared]] = source[Entry[Shared]].rev

\* Once the reloader is idle the newest code runs, of functions and of the shared module.
NewestCodeRuns == NewestRuns /\ SharedIsOne

=============================================================================
