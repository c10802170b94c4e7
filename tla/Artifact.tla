------------------------------ MODULE Artifact ------------------------------
(*****************************************************************************)
(* The commands that turn a directory of functions into something to deploy: *)
(* `1tube build` (dist/ with its manifest), `1tube package` (a .1tube        *)
(* payload of dist/) and `1tube build --target vercel` (.vercel/output).     *)
(* (src/cli/build.ts, package.ts, vercel-build.ts, src/bundler/core.ts,      *)
(* src/firmware-content-hash.ts, src/backends/vercel/capture-config.ts)      *)
(*                                                                           *)
(* Developers edit sources and another terminal packages dist/ while a build *)
(* runs; a command may fail or be killed at any step and undoes nothing.  A  *)
(* source is its version number; a bundled module is the versions it was     *)
(* made of, and whether it was patched and minified yet.  Hashes are the     *)
(* bytes hashed.  `package --functions` is a build and then a package.  Left *)
(* out: shared modules of the gateway, the snapshot of the sources, source   *)
(* maps, deployment ids, sizes, the keys that envelopes are signed with.     *)
(*****************************************************************************)
EXTENDS Naturals, FiniteSets, Sequences, SequencesExt

CONSTANTS
  Functions,
  Declaring,     \* functions whose serve() call declares a time limit
  Targets,       \* what the project is built for: "workerd", "vercel"
  User, Marker,  \* a route of the frontend, a `handle` marker
  Torn,          \* a JSON file that is cut short
  None,
  MaxEdits, MaxBuilds, MaxPackages,
  MaxStops       \* bound: commands that fail or are killed

\* A bundled module, and a file of a bundle: a function's entry, or a chunk that is
\* named after what is in it; a .func directory.
Bodies == [fn : Functions \cup {None}, at : Nat, lib : Nat, split : BOOLEAN]
Paths == Functions \cup Bodies
FuncType == [modules : SUBSET [path : Paths, body : Bodies], limit : Nat \cup {None}]

ASSUME ConstantsAssumption ==
  /\ Declaring \subseteq Functions /\ Targets \subseteq {"workerd", "vercel"}
  /\ {MaxEdits, MaxBuilds, MaxPackages, MaxStops} \subseteq Nat
  /\ IsFiniteSet(Functions) /\ Functions \cap (Bodies \cup {User, Marker}) = {}
ASSUME NoneAssumption ==
  None \notin Nat \cup Functions \cup FuncType \cup (Functions \cup {None}) \X Nat \X (Nat \cup {None})

VARIABLES
  target,    \* the target of this project's builds
  src,       \* [function -> version of its directory, 0 without one]
  lib,       \* version of a module in _shared that every function imports
  dist,      \* dist/: JavaScript files and manifest.json
  output,    \* .vercel/output: .func directories, routes of config.json
  build,     \* the build command that runs
  package,   \* the package command that runs
  payloads,  \* the .1tube files written
  edits, builds, packages, stops,
  whole,     \* history: dist/ is as a build that ended left it
  hurt       \* history: functions a vercel build was stopped at

counters == <<edits, builds, packages, stops>>
vars == <<target, src, lib, dist, output, build, package, payloads, counters, whole, hurt>>

Present == {f \in Functions : src[f] # 0}
NoFiles == [p \in {} |-> None]
Over(new, old) == [p \in DOMAIN new \cup DOMAIN old |-> IF p \in DOMAIN new THEN new[p] ELSE old[p]]
NoRoutes == <<>>

-----------------------------------------------------------------------------
(* bundleAllChunked.  The entry functions/<name>.js is a proxy that imports the  *)
(* function's code, which esbuild puts in a chunk; a module that several of the  *)
(* bundled functions import becomes a chunk of its own.  A chunk is named after  *)
(* its content, the names of what it imports included; an entry is not.          *)

Code(f, at, of, split) == [fn |-> f, at |-> at, lib |-> of, split |-> split]
Lib(of) == Code(None, 0, of, FALSE)

\* The emitted files: [path -> what is in it].
Outputs(inputs) ==
  LET split == Cardinality(inputs) > 1
      code == [f \in inputs |-> Code(f, src[f], lib, split)]
      chunks == {code[f] : f \in inputs} \cup {Lib(l) : l \in IF split THEN {lib} ELSE {}} IN
  Over(code, [c \in chunks |-> c])

Chunks(outputs) == DOMAIN outputs \ Functions

\* The chunks a file with this content imports, by the file's path.
Imports(path, body) ==
  IF path \in Functions THEN {body} ELSE IF body.split THEN {Lib(body.lib)} ELSE {}

\* collectReachable
Reachable(f, outputs) ==
  LET direct == Imports(f, outputs[f]) IN {f} \cup direct \cup UNION {Imports(c, c) : c \in direct}

Raw(body) == [body |-> body, done |-> FALSE]
Done(body) == [body |-> body, done |-> TRUE]

-----------------------------------------------------------------------------
Idle == [pc |-> "idle", todo |-> {}, plan |-> {}]

Init ==
  /\ target \in Targets
  /\ src = [f \in Functions |-> 1] /\ lib = 1
  /\ dist = [files |-> NoFiles, manifest |-> None]
  /\ output = [funcs |-> [f \in Functions |-> None], routes |-> NoRoutes]
  /\ build = Idle /\ package = Idle
  /\ payloads = {}
  /\ edits = 0 /\ builds = 0 /\ packages = 0 /\ stops = 0
  /\ whole = FALSE /\ hurt = {}

\* A developer writes, adds or removes a function, or edits the shared module.
Edit ==
  /\ edits < MaxEdits /\ edits' = edits + 1
  /\ \/ \E f \in Functions :
          /\ src' \in {[src EXCEPT ![f] = v] : v \in {0, edits' + 1}} \ {src}
          /\ UNCHANGED lib
     \/ lib' = edits' + 1 /\ UNCHANGED src
  /\ UNCHANGED <<target, dist, output, build, package, payloads, builds, packages, stops, whole, hurt>>

-----------------------------------------------------------------------------
(* Builds of both targets *)

At(pc) == build.pc = pc /\ UNCHANGED <<target, src, lib, counters>>

\* What a step of a build leaves alone.
KeepsFiles == UNCHANGED <<dist, output, package, payloads, whole, hurt>>
KeepsDist == UNCHANGED <<dist, package, payloads, whole>>

\* A step that changes dist/.  A package command that runs meanwhile is overlapped.
ChangesDist ==
  /\ whole' = FALSE
  /\ package' = IF package.pc = "idle" THEN package ELSE [package EXCEPT !.alone = FALSE]
  /\ UNCHANGED <<output, payloads, hurt>>

\* The entry points, all of them or those of --only; without any the command fails.
Entries == ({Present} \cup {{f} : f \in Present}) \ {{}}

Starts(inputs) ==
  /\ build.pc = "idle" /\ builds < MaxBuilds /\ builds' = builds + 1
  /\ build' = [pc |-> "bundle", inputs |-> inputs, outputs |-> NoFiles,
               todo |-> {}, fn |-> None, json |-> None, declared |-> NoFiles]
  /\ UNCHANGED <<target, src, lib, edits, packages, stops>> /\ KeepsFiles

\* runBuild, which hands over to runVercelBuild for that target.
StartBuild == target = "workerd" /\ \E inputs \in Entries : Starts(inputs)
StartVercelBuild == target = "vercel" /\ \E inputs \in Entries : Starts(inputs)

\* The next phase of the build, with its work; the rest of this one.
To(pc, work) == [build EXCEPT !.pc = pc, !.todo = work]
After(xs, next) == IF build.todo \subseteq xs THEN next ELSE [build EXCEPT !.todo = @ \ xs]

\* prepareInputs, esbuild.build: reads every source before it writes.
Bundle ==
  /\ At("bundle") /\ build.inputs \subseteq Present
  /\ LET outputs == Outputs(build.inputs) IN
     build' = [To(IF target = "workerd" THEN "write" ELSE "capture", DOMAIN outputs)
                 EXCEPT !.outputs = outputs]
  /\ KeepsFiles

\* A function that cannot be bundled, a directory that is gone, a disk that is full, or
\* a kill: the command ends where it is.
StopBuild ==
  /\ build.pc # "idle" /\ stops < MaxStops /\ stops' = stops + 1
  /\ build' = Idle
  /\ hurt' = IF build.pc \in {"emit", "copy", "limit", "routes", "opened"} THEN hurt \cup build.inputs
             ELSE hurt
  /\ UNCHANGED <<target, src, lib, edits, builds, packages>> /\ KeepsDist /\ UNCHANGED output

-----------------------------------------------------------------------------
(* dist/ *)

\* The files that are handled at a time: an entry, or the chunks.
Group(p, of) == IF p \in Functions THEN {p} ELSE of \ Functions
Put(contents) == dist' = [dist EXCEPT !.files = Over(contents, @)]

\* esbuild writes its outputs.
WriteOutput(p) ==
  /\ At("write") /\ p \in build.todo
  /\ Put([q \in Group(p, build.todo) |-> Raw(build.outputs[q])])
  /\ build' = After(Group(p, build.todo), To("finish", DOMAIN build.outputs))
  /\ ChangesDist

\* patchOutputFile, minifyOutputFile: in place.  Last, the chunks' entries.
FinishOutput(p) ==
  /\ At("finish") /\ p \in build.todo
  /\ Put([q \in Group(p, build.todo) |-> Done(build.outputs[q])])
  /\ build' = After(Group(p, build.todo), [To("hash", build.inputs) EXCEPT !.json =
       [chunks |-> [c \in Chunks(build.outputs) |-> dist'.files[c]], fns |-> NoFiles]])
  /\ ChangesDist

FunctionEntry(f, hash) == [g \in {f} |->
  [hash |-> hash, modules |-> Reachable(f, build.outputs), limit |-> src[f]]]

\* Mutant: the bytes esbuild wrote are hashed.
HashRaw(f) ==
  /\ At("hash") /\ f \in build.todo /\ f \in Present
  /\ build' = [After({f}, To("manifest", {})) EXCEPT !.json.fns =
                 Over(FunctionEntry(f, Raw(build.outputs[f])), @)]
  /\ KeepsFiles

\* Per function: the bundle is read and hashed, its 1tube.json read.
HashFunction(f) ==
  /\ At("hash") /\ f \in build.todo /\ f \in Present
  /\ build' = [After({f}, To("manifest", {})) EXCEPT !.json.fns =
                 Over(FunctionEntry(f, dist.files[f]), @)]
  /\ KeepsFiles

OpenManifest ==
  /\ At("manifest")
  /\ dist' = [dist EXCEPT !.manifest = Torn]
  /\ build' = To("written", {})
  /\ ChangesDist

WriteManifest ==
  /\ At("written")
  /\ dist' = [dist EXCEPT !.manifest = build.json]
  /\ build' = Idle
  /\ whole' = TRUE
  /\ package' = IF package.pc = "idle" THEN package ELSE [package EXCEPT !.alone = FALSE]
  /\ UNCHANGED <<output, payloads, hurt>>

-----------------------------------------------------------------------------
(* packageDist.  It locks nothing: a build may run, or begin, meanwhile. *)

PackageAt(pc) ==
  package.pc = pc /\ UNCHANGED <<target, src, lib, dist, output, build, counters, whole, hurt>>
PackageFails == package' = Idle /\ UNCHANGED payloads

\* The manifest is read and parsed.
StartPackage ==
  /\ package.pc = "idle" /\ packages < MaxPackages /\ packages' = packages + 1
  /\ dist.manifest \notin {None, Torn}
  /\ package' = [pc |-> "plan", parsed |-> dist.manifest, alone |-> whole /\ build.pc = "idle",
                 plan |-> {}, files |-> NoFiles, manifest |-> None]
  /\ UNCHANGED <<target, src, lib, dist, output, build, payloads, edits, builds, stops, whole, hurt>>

\* collectDistFiles, first pass: all that functions/ and chunks/ hold, what the
\* manifest names among it.
Plan ==
  /\ PackageAt("plan")
  /\ IF DOMAIN package.parsed.fns \cup DOMAIN package.parsed.chunks \subseteq DOMAIN dist.files
     THEN /\ package' = [package EXCEPT !.pc = "json", !.plan = DOMAIN dist.files]
          /\ UNCHANGED payloads
     ELSE PackageFails

\* Second pass: the bytes, the manifest's first and the entries' before the chunks'.
ReadJson ==
  /\ PackageAt("json")
  /\ package' = [package EXCEPT !.pc = "read", !.manifest = dist.manifest]
  /\ UNCHANGED payloads

ReadFile(p) ==
  /\ PackageAt("read") /\ p \in package.plan
  /\ p \in Functions \/ package.plan \cap Functions = {}
  /\ LET ps == Group(p, package.plan) IN
     package' = [package EXCEPT !.plan = @ \ ps,
                                !.files = Over([q \in ps |-> dist.files[q]], @),
                                !.pc = IF package.plan \subseteq ps THEN "hash" ELSE @]
  /\ UNCHANGED payloads

\* Mutant: a module is its own text, what it imports is not followed.
FingerprintFlat(manifest, files) ==
  LET text(p) == [done |-> files[p].done, at |-> IF p \in Functions THEN None ELSE <<p.fn, p.at>>] IN
  [fns |-> [f \in DOMAIN manifest.fns |->
             <<manifest.fns[f].limit, {text(p) : p \in manifest.fns[f].modules}>>],
   chunks |-> {text(p) : p \in DOMAIN manifest.chunks}]

\* computeFirmwareContentFingerprint: a module's hash is over its text, with references
\* in place of the names of the chunks it imports, and over the hashes of those.
Fingerprint(manifest, files) ==
  LET text(p) == [done |-> files[p].done,
                  of |-> IF p \in Functions THEN None
                         ELSE <<p.fn, p.at, IF p.split THEN None ELSE p.lib>>]
      known == DOMAIN manifest.chunks \cup UNION {manifest.fns[f].modules : f \in DOMAIN manifest.fns}
      imports(p) == Imports(p, files[p].body) \cap known
      inner(p) == <<text(p), {<<text(q), {}>> : q \in imports(p)}>>
      hash(p) == <<text(p), {inner(q) : q \in imports(p)}>> IN
  [fns |-> [f \in DOMAIN manifest.fns |->
             <<manifest.fns[f].limit, {hash(p) : p \in manifest.fns[f].modules}>>],
   chunks |-> {hash(p) : p \in DOMAIN manifest.chunks}]

\* The hash of the manifest is that of the bytes that were read; the fingerprint is
\* computed over dist/ as it is now.  The signature is over both.
Envelope ==
  [manifest |-> package.manifest, content |-> Fingerprint(package.parsed, dist.files)]

\* The zip is made in memory; a kill may cut short what is written of it.
Payload(cut) == [envelope |-> Envelope, manifest |-> package.manifest, files |-> package.files,
                 alone |-> package.alone, cut |-> cut]

WritePayload ==
  /\ PackageAt("hash")
  /\ payloads' = payloads \cup {Payload(FALSE)}
  /\ package' = Idle

StopPackage ==
  /\ package.pc # "idle" /\ stops < MaxStops /\ stops' = stops + 1
  /\ package' = Idle
  /\ payloads' = IF package.pc = "hash" THEN payloads \cup {Payload(TRUE)} ELSE payloads
  /\ UNCHANGED <<target, src, lib, dist, output, build, edits, builds, packages, whole, hurt>>

\* A zip can be opened when its end is there,
readPayload(payload) == ~payload.cut

\* and its envelope is good when it is signed, and for this manifest.
verifyEnvelope(payload) == readPayload(payload) /\ payload.envelope.manifest = payload.manifest

\* A gateway that starts from the unpacked payload checks each bundle and chunk.
Verifies(payload) ==
  /\ verifyEnvelope(payload)
  /\ payload.manifest \notin {None, Torn}
  /\ \A f \in DOMAIN payload.manifest.fns :
       f \in DOMAIN payload.files /\ payload.files[f] = payload.manifest.fns[f].hash
  /\ \A c \in DOMAIN payload.manifest.chunks :
       c \in DOMAIN payload.files /\ payload.files[c] = payload.manifest.chunks[c]

-----------------------------------------------------------------------------
(* .vercel/output.  Bundles are made in a temporary directory of the build. *)

\* captureDeclaredServeConfigs: imports each entry point; one that throws is skipped.
Capture ==
  /\ At("capture")
  /\ \E loaded \in SUBSET (build.inputs \cap Present \cap Declaring) :
       build' = [To("emit", build.inputs) EXCEPT !.declared = [f \in loaded |-> src[f]]]
  /\ KeepsFiles

ChangesFunc(dir) == output' = [output EXCEPT !.funcs[build'.fn] = dir] /\ KeepsDist /\ UNCHANGED hurt

\* One function after the other: its directory is removed and made anew,
RemoveFunc(f) ==
  /\ At("emit") /\ f \in build.todo
  /\ build' = [build EXCEPT !.pc = "copy", !.fn = f]
  /\ ChangesFunc([modules |-> {}, limit |-> None])

\* the modules that it reaches are copied into it,
CopyModule ==
  /\ At("copy")
  /\ LET f == build.fn
         copied == {m.path : m \in output.funcs[f].modules}
         missing == Reachable(f, build.outputs) \ copied IN
     \E p \in missing :
       /\ build' = [build EXCEPT !.pc = IF missing = {p} THEN "limit" ELSE @]
       /\ ChangesFunc([output.funcs[f] EXCEPT !.modules =
                         @ \cup {[path |-> p, body |-> build.outputs[p]]}])

\* and its limit written: the one serve() declares, else that of its 1tube.json.
WriteLimit ==
  /\ At("limit")
  /\ build' = [After({build.fn}, To("routes", {})) EXCEPT
                 !.pc = IF @ = "limit" THEN "emit" ELSE @]
  /\ ChangesFunc([output.funcs[build.fn] EXCEPT !.limit =
       IF build.fn \in DOMAIN build.declared THEN build.declared[build.fn] ELSE src[build.fn]])

\* Mutant: routes are added to what is there.
MergedTwice(routes, names) == SetToSeq(names) \o routes

\* The routes that are not of these functions, in their order.
Kept(routes, names) ==
  LET kept == {i \in DOMAIN routes : routes[i] \notin names}
      nth(n) == CHOOSE i \in kept : Cardinality({j \in kept : j <= i}) = n IN
  [n \in 1..Cardinality(kept) |-> routes[nth(n)]]

\* Own routes of the functions that were built go, and come back before the first marker.
Merged(routes, names) ==
  LET kept == Kept(routes, names)
      markers == {i \in DOMAIN kept : kept[i] = Marker}
      at == IF markers = {} THEN Len(kept) + 1 ELSE Min(markers) IN
  SubSeq(kept, 1, at - 1) \o SetToSeq(names) \o SubSeq(kept, at, Len(kept))

\* mergeSubpathRoutes: config.json is read, which must parse, and opened for writing;
OpenRoutes ==
  /\ At("routes") /\ output.routes # Torn
  /\ build' = [To("opened", {}) EXCEPT !.json = Merged(output.routes, build.inputs)]
  /\ output' = [output EXCEPT !.routes = Torn]
  /\ KeepsDist /\ UNCHANGED hurt

\* written.
WriteRoutes ==
  /\ At("opened")
  /\ output' = [output EXCEPT !.routes = build.json]
  /\ build' = Idle
  /\ hurt' = hurt \ build.inputs
  /\ KeepsDist

\* `vercel build` of the frontend replaces .vercel/output.
FrontendBuild ==
  /\ target = "vercel" /\ build.pc = "idle" /\ builds < MaxBuilds /\ builds' = builds + 1
  /\ output' = [funcs |-> [f \in Functions |-> None], routes |-> <<User, Marker, User>>]
  /\ hurt' = {}
  /\ UNCHANGED <<target, src, lib, build, edits, packages, stops>> /\ KeepsDist

-----------------------------------------------------------------------------
Build ==
  \/ StartBuild \/ StartVercelBuild \/ Bundle \/ StopBuild
  \/ \E p \in build.todo : WriteOutput(p) \/ FinishOutput(p)
  \/ \E f \in Functions : HashFunction(f) \/ RemoveFunc(f)
  \/ OpenManifest \/ WriteManifest
  \/ Capture \/ CopyModule \/ WriteLimit \/ OpenRoutes \/ WriteRoutes
Package == StartPackage \/ Plan \/ ReadJson \/ (\E p \in package.plan : ReadFile(p)) \/ WritePayload \/ StopPackage
Next == Edit \/ FrontendBuild \/ Build \/ Package
Spec == Init /\ [][Next]_vars

-----------------------------------------------------------------------------
(* Type invariant *)

Versions == 1..(MaxEdits + 1)
BodyOK(body) == body \in Bodies /\ body.lib \in Versions /\ (body.fn # None => body.at \in Versions)

\* What is bundled is a version of a function that was there, in dist/ as in .func
\* directories, and a manifest names only chunks that some build of the project emitted.
TypeOK ==
  /\ target \in Targets
  /\ src \in [Functions -> 0..(MaxEdits + 1)] /\ lib \in Versions
  /\ \A p \in DOMAIN dist.files :
       BodyOK(dist.files[p].body) /\ (p \notin Functions => dist.files[p].body = p)
  /\ dist.manifest \in {None, Torn} \/ DOMAIN dist.manifest.fns \subseteq Functions
  /\ \A f \in Functions :
       output.funcs[f] # None => \A m \in output.funcs[f].modules : BodyOK(m.body)
  /\ output.routes # Torn => output.routes \in Seq(Functions \cup {User, Marker})
  /\ build.todo \subseteq Functions \cup DOMAIN dist.files \cup DOMAIN (IF build = Idle THEN NoFiles ELSE build.outputs)
  /\ hurt \subseteq Functions

(* Properties *)

\* A payload a gateway accepts is runnable, whatever ran while it was packaged: each
\* function comes with its entry and, patched, minified and of one build, every module
\* that is reached from it.  (packageDist, collectDistFiles; the hashes of buildOnce)
VerifiedIsWhole ==
  \A p \in payloads : Verifies(p) =>
    \A f \in DOMAIN p.manifest.fns :
      LET modules == p.manifest.fns[f].modules IN
      /\ f \in modules /\ modules \subseteq DOMAIN p.files
      /\ \A m \in modules : p.files[m].done /\ Imports(m, p.files[m].body) \subseteq modules

\* What was packaged with no build under way, after one that ended, is accepted by
\* gateways, also when builds before that one were killed half way.  (buildOnce's hashes and
\* the bytes that packageDist reads later)
AlonePackageVerifies == \A p \in payloads : p.alone /\ ~p.cut => Verifies(p)

\* A gateway accepts what is whole, and all that was packaged undisturbed.
VerificationIsRight == TypeOK /\ VerifiedIsWhole /\ AlonePackageVerifies

\* What a gateway would run of a payload.
Content(p) == [f \in DOMAIN p.manifest.fns |->
  <<p.manifest.fns[f].limit, p.files[f].body.at, p.files[f].body.lib>>]

\* The content hash by which the host skips an update names just what would run: payloads
\* of the same versions have the same hash, though they were built and packaged apart,
\* and payloads that differ in a function, its limit or the shared module do not.
\* (computeFirmwareContentFingerprint; FirmwareSupervisor.cs, the Skip decision)
FingerprintNamesContent ==
  \A p, q \in {r \in payloads : r.alone} :
    (p.envelope.content = q.envelope.content) <=> (Content(p) = Content(q))

\* Between builds, config.json routes the sub-paths of a function once, before any marker,
\* just if the function has a directory; that directory holds the entry and every module
\* reached from it and no other, and the frontend's routes are those it wrote.  A function
\* at which a build was stopped is excepted until it is built again.
\* (buildVercelOnce, mergeSubpathRoutes)
RoutesReachFunctions ==
  build.pc = "idle" /\ output.routes # Torn =>
    /\ LET theirs == {i \in DOMAIN output.routes : output.routes[i] \notin Functions} IN
       \/ theirs = {}
       \/ \E i, j, k \in theirs :
            /\ i < j /\ j < k /\ theirs = {i, j, k}
            /\ output.routes[i] = User /\ output.routes[j] = Marker /\ output.routes[k] = User
    /\ \A f \in Functions \ hurt :
         LET own == {i \in DOMAIN output.routes : output.routes[i] = f}
             func == output.funcs[f] IN
         /\ (func = None) <=> (own = {})
         /\ func # None =>
              /\ \A i \in own : own = {i} /\ \A j \in 1..i : output.routes[j] # Marker
              /\ func.limit # None
              /\ \E m \in func.modules : m.path = f /\ func.modules =
                   {[path |-> p, body |-> IF p = f THEN m.body ELSE p] :
                       p \in Reachable(f, [g \in {f} |-> m.body])}
=============================================================================
