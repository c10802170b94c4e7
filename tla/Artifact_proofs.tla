---------------------------- MODULE Artifact_proofs ----------------------------
(***************************************************************************)
(* Proofs about Artifact, for any finite set of functions and any numbers  *)
(* of edits, builds, packages and stops.  A build is followed from what it *)
(* read (BuildInv) over the files it has written (WroteInv) to a directory *)
(* that fits its manifest (WholeInv); a package command that nobody has    *)
(* overlapped has read just that (PackageInv), and so its payload is whole *)
(* and under the hash of its own files (PayloadInv).  For Vercel it is the *)
(* function's directory (EmitInv), and the routes, which a build merges    *)
(* into what the frontend's build left (RoutesInv).                        *)
(*                                                                         *)
(* And, in the second part, about the stores that bundles take their       *)
(* dependencies from, that is about Deps, for any packages, batches,       *)
(* processes and kills.                                                    *)
(***************************************************************************)
EXTENDS Artifact, Deps, FiniteSetTheorems, SequenceTheorems, WellFoundedInduction, TLAPS

\* What a bundle of these functions is: their code, and one version of the module they
\* share, which is a chunk of its own if there are several.
OneOf(body, f, of, split) == body \in Bodies /\ body.fn = f /\ body.lib = of /\ body.split = split
Shared(of, fs) == IF Cardinality(fs) > 1 THEN {Lib(of)} ELSE {}
Bundled(outputs, fs) == \E of \in Versions :
  /\ \A f \in fs : OneOf(outputs[f], f, of, Cardinality(fs) > 1) /\ outputs[f].at \in Versions
  /\ DOMAIN outputs = fs \cup {outputs[f] : f \in fs} \cup Shared(of, fs)
  /\ \A c \in DOMAIN outputs \ Functions : outputs[c] = c

\* A manifest some build has written: of every function it built the finished bundle, and
\* what is reached from it; and the finished chunks.
EntryOK(entry, f, of, fs) ==
  LET body == entry.hash.body IN
  /\ OneOf(body, f, of, Cardinality(fs) > 1)
  /\ entry.hash = Done(body) /\ entry.modules = {f, body} \cup Shared(of, fs)
IsManifest(m) == \E of \in Versions :
  LET fs == DOMAIN m.fns IN
  /\ fs \subseteq Functions
  /\ \A f \in fs : EntryOK(m.fns[f], f, of, fs)
  /\ m.chunks = [c \in {m.fns[f].hash.body : f \in fs} \cup Shared(of, fs) |-> Done(c)]
ManifestOrNot(m) == m \in {None, Torn} \/ IsManifest(m)

\* The files are those that the manifest names.
Matches(m, files) ==
  /\ \A f \in DOMAIN m.fns : f \in DOMAIN files /\ files[f] = m.fns[f].hash
  /\ \A c \in DOMAIN m.chunks : c \in DOMAIN files /\ files[c] = m.chunks[c]

DistPhases == {"write", "finish", "hash", "manifest", "written"}
OutputPhases == {"emit", "copy", "limit", "routes", "opened"}

\* Counters keep their bounds, and builds go through their phases.
CountInv == edits \in 0..MaxEdits /\ {builds, packages, stops} \subseteq Nat
B(pc, todo, fn, json, declared) ==
  [pc |-> pc, inputs |-> build.inputs, outputs |-> build.outputs, todo |-> todo, fn |-> fn, json |-> json, declared |-> declared]
BuildInv == build = Idle \/
  /\ build = B(build.pc, build.todo, build.fn, build.json, build.declared)
  /\ build.pc \in {"bundle", "capture"} \cup DistPhases \cup OutputPhases
  /\ build.inputs \in SUBSET Functions
  /\ build.pc = "bundle" => build.todo = {}
  /\ build.pc # "bundle" => Bundled(build.outputs, build.inputs)
  /\ build.pc = "capture" => build.todo \subseteq DOMAIN build.outputs
  /\ build.pc \in OutputPhases => build.declared = [f \in DOMAIN build.declared |-> build.declared[f]]
                                  /\ \A f \in DOMAIN build.declared : build.declared[f] \in Nat

\* How far a build has come with the files of dist/, and with its manifest.
Wrote(b, d) ==
  /\ d = [files |-> [p \in DOMAIN d.files |-> d.files[p]], manifest |-> d.manifest]
  /\ b.pc = "write" => b.todo \subseteq DOMAIN b.outputs
       /\ \A p \in DOMAIN b.outputs \ b.todo : p \in DOMAIN d.files
  /\ b.pc = "finish" => b.todo \subseteq DOMAIN b.outputs
       /\ \A p \in DOMAIN b.outputs : p \in DOMAIN d.files /\ (p \notin b.todo => d.files[p] = Done(b.outputs[p]))
  /\ b.pc \in {"hash", "manifest", "written"} =>
       /\ \A p \in DOMAIN b.outputs : p \in DOMAIN d.files /\ d.files[p] = Done(b.outputs[p])
       /\ b.todo \subseteq b.inputs /\ (b.pc # "hash" => b.todo = {})
       /\ b.json = [chunks |-> [c \in Chunks(b.outputs) |-> Done(c)], fns |-> [f \in b.inputs \ b.todo |-> b.json.fns[f]]]
       /\ \A f \in b.inputs \ b.todo : b.json.fns[f].hash = Done(b.outputs[f]) /\ b.json.fns[f].modules = Reachable(f, b.outputs)
WroteInv == Wrote(build, dist)

\* What a build that ended left fits its manifest.
Left(d, w) == ManifestOrNot(d.manifest) /\ (w => IsManifest(d.manifest) /\ Matches(d.manifest, d.files))
WholeInv == Left(dist, whole)

\* A package command that nobody has overlapped has read what is there.
Packing(pk, d, w) == pk = Idle \/
  /\ pk = [pc |-> pk.pc, parsed |-> pk.parsed, alone |-> pk.alone, plan |-> pk.plan,
           files |-> [p \in DOMAIN pk.files |-> pk.files[p]], manifest |-> pk.manifest]
  /\ pk.pc \in {"plan", "json", "read", "hash"} /\ pk.alone \in BOOLEAN
  /\ IsManifest(pk.parsed)
  /\ pk.pc \in {"read", "hash"} => ManifestOrNot(pk.manifest)
  /\ pk.alone =>
       /\ w /\ pk.parsed = d.manifest /\ d.manifest \notin {None, Torn}
       /\ pk.pc = "json" => pk.plan = DOMAIN d.files
       /\ pk.pc \in {"plan", "json"} => DOMAIN pk.files = {}
       /\ pk.pc \in {"read", "hash"} =>
            /\ pk.manifest = d.manifest /\ pk.plan \cup DOMAIN pk.files = DOMAIN d.files
            /\ \A p \in DOMAIN pk.files : pk.files[p] = d.files[p]
       /\ pk.pc = "hash" => pk.plan = {}
PackageInv == Packing(package, dist, whole)

\* So what it packs is whole and under the hash of just that.
Sealed(p) ==
  /\ ManifestOrNot(p.manifest) /\ p.alone \in BOOLEAN /\ p.cut \in BOOLEAN
  /\ p.alone => /\ IsManifest(p.manifest) /\ p.manifest \notin {None, Torn} /\ Matches(p.manifest, p.files)
                /\ p.envelope.manifest = p.manifest /\ p.envelope.content = Fingerprint(p.manifest, p.files)
PayloadInv == \A p \in payloads : Sealed(p)

\* The module files of a function's directory.
Copies(f, body, paths) == {[path |-> p, body |-> IF p = f THEN body ELSE p] : p \in paths}
Complete(f, func) ==
  /\ func \in FuncType /\ func.limit # None
  /\ \E m \in func.modules : m.path = f /\ func.modules = Copies(f, m.body, Reachable(f, [g \in {f} |-> m.body]))

\* How far a build has come with the directories.
Emits(b, funcs) == b.pc \in OutputPhases =>
  /\ b.todo \subseteq b.inputs /\ \A f \in b.inputs \ b.todo : Complete(f, funcs[f])
  /\ b.pc \in {"routes", "opened"} => b.todo = {}
  /\ b.pc \in {"copy", "limit"} =>
       LET f == b.fn
           all == Copies(f, b.outputs[f], Reachable(f, b.outputs)) IN
       /\ f \in b.todo /\ funcs[f] \in FuncType
       /\ funcs[f].modules \subseteq all /\ (b.pc = "limit" => funcs[f].modules = all)
EmitInv == Emits(build, output.funcs)

\* The frontend's routes are those it wrote, an own one comes once and before any marker, and
\* a function that has one has all of its modules and a limit.
Theirs(routes) == {i \in DOMAIN routes : routes[i] \notin Functions}
FrontOK(routes) ==
  \/ Theirs(routes) = {}
  \/ \E i, j, k \in Theirs(routes) :
       /\ i < j /\ j < k /\ Theirs(routes) = {i, j, k}
       /\ routes[i] = User /\ routes[j] = Marker /\ routes[k] = User
Own(routes, f) == {i \in DOMAIN routes : routes[i] = f}
RouteOK(routes, f) == \E i \in DOMAIN routes : Own(routes, f) = {i} /\ \A j \in 1..i : routes[j] # Marker
FuncOK(func, routes, f) == IF func = None THEN Own(routes, f) = {} ELSE RouteOK(routes, f) /\ Complete(f, func)
RoutesOK(funcs, routes, but) ==
  /\ routes \in Seq(Functions \cup {User, Marker}) /\ FrontOK(routes)
  /\ \A f \in Functions \ but : FuncOK(funcs[f], routes, f)
Busy(b) == IF b.pc \in OutputPhases THEN b.inputs ELSE {}
Routed(b, o, h) ==
  /\ o = [funcs |-> [f \in Functions |-> o.funcs[f]], routes |-> o.routes]
  /\ \A f \in Functions : o.funcs[f] \in FuncType \cup {None}
  /\ o.routes # Torn => RoutesOK(o.funcs, o.routes, h \cup Busy(b))
  /\ b.pc = "opened" => RoutesOK(o.funcs, b.json, h \ b.inputs)
RoutesInv == Routed(build, output, hurt)

IInv == TypeOK /\ CountInv /\ BuildInv /\ WroteInv /\ WholeInv /\ PackageInv /\ PayloadInv /\ EmitInv /\ RoutesInv

-----------------------------------------------------------------------------
(* Routes *)

Rank(K, i) == Cardinality({j \in K : j <= i})

\* A set of naturals that is not empty has a least element.
LEMMA Least ==
  ASSUME NEW S \in SUBSET Nat, S # {}
  PROVE  \E x \in S : \A y \in S : x <= y
<1>1. PICK x \in S : \A y \in S : ~(<<y, x>> \in OpToRel(<, Nat))
  BY WFMin, NatLessThanWellFounded
<1>2. \A y \in S : ~(y < x)
  BY <1>1 DEF OpToRel
<1> QED BY <1>2

\* The rank of an index grows by one at each member of the set.
LEMMA Ranks ==
  ASSUME NEW N \in Nat, NEW K \in SUBSET (1..N)
  PROVE  /\ IsFiniteSet(K) /\ Cardinality(K) \in Nat
         /\ \A i \in 0..N : Rank(K, i) \in 0..Cardinality(K)
         /\ Rank(K, 0) = 0 /\ Rank(K, N) = Cardinality(K)
         /\ \A i \in 1..N : Rank(K, i) = Rank(K, i - 1) + (IF i \in K THEN 1 ELSE 0)
         /\ \A i, j \in 0..N : i <= j => Rank(K, i) <= Rank(K, j)
         /\ \A i, j \in K : Rank(K, i) = Rank(K, j) => i = j
         /\ \A n \in 1..Cardinality(K) : \E i \in K : Rank(K, i) = n
<1> DEFINE upto(i) == {j \in K : j <= i}
<1>0. \A j \in K : j \in Nat /\ 1 <= j /\ j <= N
  OBVIOUS
<1>1. IsFiniteSet(K) /\ Cardinality(K) \in Nat
  <2>1. IsFiniteSet(1..N)
    BY FS_Interval
  <2> QED BY <2>1, FS_Subset, FS_CardinalityType
<1>2. ASSUME NEW i PROVE IsFiniteSet(upto(i)) /\ Cardinality(upto(i)) <= Cardinality(K) /\ Cardinality(upto(i)) \in Nat
  <2>1. upto(i) \in SUBSET K
    OBVIOUS
  <2> QED BY <1>1, <2>1, FS_Subset, FS_CardinalityType
<1>3. \A i \in 0..N : Rank(K, i) \in 0..Cardinality(K)
  BY <1>1, <1>2 DEF Rank
<1>4. Rank(K, 0) = 0 /\ Rank(K, N) = Cardinality(K)
  <2>0. \A j \in K : ~(j <= 0) /\ j <= N
    BY <1>0
  <2>1. upto(0) = {} /\ upto(N) = K
    BY <2>0
  <2> QED BY <2>1, FS_EmptySet DEF Rank
<1>5. ASSUME NEW i \in 1..N PROVE Rank(K, i) = Rank(K, i - 1) + (IF i \in K THEN 1 ELSE 0)
  <2>1. CASE i \in K
    <3>1. upto(i) = upto(i - 1) \cup {i} /\ i \notin upto(i - 1)
      <4>1. \A j \in K : j <= i <=> (j <= i - 1 \/ j = i)
        BY <1>0
      <4>2. ~(i <= i - 1)
        OBVIOUS
      <4> QED BY <2>1, <4>1, <4>2
    <3>2. Cardinality(upto(i - 1) \cup {i}) = Cardinality(upto(i - 1)) + 1
      BY <1>2, <3>1, FS_AddElement, ZenonT(60)
    <3> QED BY <2>1, <3>1, <3>2 DEF Rank
  <2>2. CASE i \notin K
    <3>1. upto(i) = upto(i - 1)
      <4>1. \A j \in K : j <= i <=> (j <= i - 1 \/ j = i)
        BY <1>0
      <4> QED BY <2>2, <4>1
    <3>2. Cardinality(upto(i - 1)) \in Nat
      BY <1>2
    <3> QED BY <2>2, <3>1, <3>2 DEF Rank
  <2> QED BY <2>1, <2>2
<1>6. ASSUME NEW i \in 0..N, NEW j \in 0..N, i <= j PROVE Rank(K, i) <= Rank(K, j)
  <2>1. \A k \in K : k <= i => k <= j
    BY <1>0, <1>6
  <2>2. upto(i) \in SUBSET upto(j)
    BY <2>1
  <2> QED BY <1>2, <2>2, FS_Subset DEF Rank
<1>7. ASSUME NEW i \in K, NEW j \in K, i < j PROVE Rank(K, i) < Rank(K, j)
  <2>1. i \in 0..N /\ j \in 1..N /\ j - 1 \in 0..N /\ i <= j - 1
    BY <1>7
  <2>2. Rank(K, i) <= Rank(K, j - 1) /\ Rank(K, j) = Rank(K, j - 1) + 1
    BY <1>5, <1>6, <2>1
  <2>3. Rank(K, i) \in Int /\ Rank(K, j - 1) \in Int
    BY <1>3, <2>1
  <2> QED BY <2>2, <2>3
<1>8. ASSUME NEW i \in K, NEW j \in K, Rank(K, i) = Rank(K, j) PROVE i = j
  <2>1. i \in Int /\ j \in Int /\ Rank(K, i) \in Int
    BY <1>3
  <2>2. ~(i < j) /\ ~(j < i)
    BY <1>7, <1>8, <2>1
  <2> QED BY <2>1, <2>2
<1>9. ASSUME NEW n \in 1..Cardinality(K) PROVE \E i \in K : Rank(K, i) = n
  <2> DEFINE S == {i \in 1..N : Rank(K, i) >= n}
  <2>1. N \in S
    <3>1. N # 0
      BY <1>1, <1>4
    <3> QED BY <1>1, <1>4, <3>1
  <2>0. S \in SUBSET Nat /\ S # {}
    BY <2>1
  <2>2. PICK i \in S : \A j \in S : i <= j
    <3> HIDE DEF S
    <3> QED BY <2>0, Least
  <2>3. i - 1 \in 0..N /\ Rank(K, i - 1) \in Nat /\ Rank(K, i) \in Nat /\ Rank(K, i) >= n
    BY <1>1, <1>3
  <2>4. Rank(K, i - 1) < n
    <3>1. CASE i = 1
      BY <1>4, <3>1
    <3>2. CASE i # 1
      BY <1>1, <2>2, <2>3, <3>2
    <3> QED BY <3>1, <3>2
  <2>5. Rank(K, i) = Rank(K, i - 1) + (IF i \in K THEN 1 ELSE 0)
    BY <1>5
  <2>6. i \in K /\ Rank(K, i) = n
    BY <1>1, <2>3, <2>4, <2>5
  <2> QED BY <2>6
<1> QED BY <1>1, <1>3, <1>4, <1>5, <1>6, <1>8, <1>9

\* What stays of the routes stays in its order.
KeptAt(routes, names) == {i \in DOMAIN routes : routes[i] \notin names}
Keeps(routes, names, e) ==
  LET K == KeptAt(routes, names)
      n == Cardinality(K) IN
  /\ n \in Nat /\ e \in [1..n -> K] /\ Kept(routes, names) = [k \in 1..n |-> routes[e[k]]]
  /\ \A k, l \in 1..n : k < l => e[k] < e[l]
  /\ \A i \in K : \E k \in 1..n : e[k] = i
LEMMA KeptOrder ==
  ASSUME NEW R, NEW routes \in Seq(R), NEW names
  PROVE  \E e : Keeps(routes, names, e)
<1> DEFINE K == KeptAt(routes, names)
           n == Cardinality(K)
           nth(k) == CHOOSE i \in K : Rank(K, i) = k
           e == [k \in 1..n |-> nth(k)]
<1>1. Len(routes) \in Nat /\ K \in SUBSET (1..Len(routes))
  BY DEF KeptAt
<1> HIDE DEF K
<1>2. /\ n \in Nat /\ \A i \in K : Rank(K, i) \in 1..n
      /\ \A i, j \in K : Rank(K, i) = Rank(K, j) => i = j
      /\ \A k \in 1..n : \E i \in K : Rank(K, i) = k
  <2>1. /\ n \in Nat /\ \A i \in 0..Len(routes) : Rank(K, i) \in 0..n
        /\ \A i \in 1..Len(routes) : Rank(K, i) = Rank(K, i - 1) + (IF i \in K THEN 1 ELSE 0)
    BY <1>1, Ranks
  <2>2. /\ \A i, j \in K : Rank(K, i) = Rank(K, j) => i = j
        /\ \A k \in 1..n : \E i \in K : Rank(K, i) = k
    BY <1>1, Ranks
  <2>3. ASSUME NEW i \in K PROVE Rank(K, i) \in 1..n
    <3>1. i \in 1..Len(routes) /\ i \in 0..Len(routes) /\ i - 1 \in 0..Len(routes)
      BY <1>1
    <3>2. Rank(K, i) \in 0..n /\ Rank(K, i - 1) \in 0..n /\ Rank(K, i) = Rank(K, i - 1) + 1
      BY <2>1, <3>1
    <3> QED BY <2>1, <3>2
  <2> QED BY <2>1, <2>2, <2>3
<1> HIDE DEF n
<1>3. \A k \in 1..n : nth(k) \in K /\ Rank(K, nth(k)) = k
  BY <1>2
<1> HIDE DEF nth
<1>4. e \in [1..n -> K]
  BY <1>3
<1>5. ASSUME NEW k \in 1..n, NEW l \in 1..n, k < l PROVE e[k] < e[l]
  <2>0. K \subseteq 0..Len(routes) /\ e[k] \in K /\ e[l] \in K
    BY <1>1, <1>4
  <2>1. e[k] \in 0..Len(routes) /\ e[l] \in 0..Len(routes) /\ Rank(K, e[k]) = k /\ Rank(K, e[l]) = l
    BY <1>3, <2>0
  <2>2. e[l] <= e[k] => Rank(K, e[l]) <= Rank(K, e[k])
    BY <1>1, <2>1, Ranks
  <2>3. e[k] \in Int /\ e[l] \in Int /\ k \in Int /\ l \in Int
    BY <1>1, <2>1
  <2> QED BY <1>5, <2>1, <2>2, <2>3
<1>6. ASSUME NEW i \in K PROVE \E k \in 1..n : e[k] = i
  <2>1. Rank(K, i) \in 1..n
    BY <1>2
  <2>2. e[Rank(K, i)] = i
    BY <1>2, <1>3, <2>1
  <2> QED BY <2>1, <2>2
<1>7. Kept(routes, names) = [k \in 1..n |-> routes[e[k]]]
  <2>1. Kept(routes, names) = [k \in 1..n |-> routes[nth(k)]]
    BY DEF Kept, K, KeptAt, n, nth, Rank
  <2> QED BY <2>1
<1>8. Keeps(routes, names, e)
  BY <1>2, <1>4, <1>5, <1>6, <1>7 DEF Keeps, K, n
<1> QED BY <1>8

\* A set as a sequence: each of its elements once.
LEMMA Listing ==
  ASSUME NEW S, IsFiniteSet(S)
  PROVE  LET c == Cardinality(S)
             s == SetToSeq(S) IN
         /\ c \in Nat /\ s \in [1..c -> S]
         /\ \A i, j \in 1..c : s[i] = s[j] => i = j
         /\ \A x \in S : \E i \in 1..c : s[i] = x
<1> DEFINE c == Cardinality(S)
           s == SetToSeq(S)
<1>1. c \in Nat /\ ExistsBijection(1..c, S)
  BY FS_CardinalityType
<1>2. PICK b : b \in [1..c -> S] /\ IsInjective(b)
  BY <1>1 DEF ExistsBijection, Bijection, Injection
<1>3. s \in [1..c -> S] /\ IsInjective(s)
  BY <1>2 DEF SetToSeq
<1>4. s \in Injection(1..c, S)
  BY <1>3 DEF Injection
<1>5. Cardinality(1..c) = c
  BY <1>1, FS_Interval
<1> HIDE DEF s, c
<1>6. s \in Surjection(1..c, S)
  BY <1>4, <1>5, FS_Injection DEF c
<1>7. /\ \A i, j \in 1..c : s[i] = s[j] => i = j
      /\ \A x \in S : \E i \in 1..c : s[i] = x
  BY <1>3, <1>6 DEF IsInjective, Surjection
<1> QED BY <1>1, <1>3, <1>7 DEF s, c

\* Merged routes: those that stay, up to the first marker, then the new ones, then the rest.
Merges(routes, names, e, at) ==
  LET n == Cardinality(KeptAt(routes, names))
      c == Cardinality(names)
      merged == Merged(routes, names) IN
  /\ n \in Nat /\ c \in Nat /\ at \in 1..(n + 1) /\ DOMAIN merged = 1..(n + c)
  /\ \A x \in 1..(n + c) : merged[x] = IF x < at THEN routes[e[x]] ELSE IF x < at + c THEN SetToSeq(names)[x - at + 1] ELSE routes[e[x - c]]
  /\ \A k \in 1..(at - 1) : routes[e[k]] # Marker
LEMMA MergeOrder ==
  ASSUME NEW R, NEW routes \in Seq(R), NEW names, IsFiniteSet(names)
  PROVE  /\ \E e, at : Keeps(routes, names, e) /\ Merges(routes, names, e, at)
         /\ Merged(routes, names) \in Seq(R \cup names)
<1> DEFINE n == Cardinality(KeptAt(routes, names))
           c == Cardinality(names)
           kept == Kept(routes, names)
           order == SetToSeq(names)
           markers == {i \in DOMAIN kept : kept[i] = Marker}
           at == IF markers = {} THEN Len(kept) + 1 ELSE Min(markers)
           T == R \cup names
<1>1. PICK e : Keeps(routes, names, e)
  BY KeptOrder
<1>2. /\ n \in Nat /\ kept = [k \in 1..n |-> routes[e[k]]]
      /\ \A k \in 1..n : e[k] \in DOMAIN routes
  BY <1>1 DEF Keeps, KeptAt
<1>3. c \in Nat /\ order \in [1..c -> names]
  BY Listing
<1>4. Merged(routes, names) = SubSeq(kept, 1, at - 1) \o order \o SubSeq(kept, at, Len(kept))
  BY DEF Merged
<1> HIDE DEF n, c, kept, order
<1>5. \A k \in 1..n : kept[k] \in T /\ kept[k] = routes[e[k]]
  BY <1>2
<1>6. kept \in Seq(T) /\ Len(kept) = n /\ DOMAIN kept = 1..n
  BY <1>2, <1>5
<1>7. order \in Seq(T) /\ Len(order) = c
  BY <1>3
<1>8. at \in 1..(n + 1) /\ \A k \in 1..(at - 1) : kept[k] # Marker
  <2>1. CASE markers = {}
    <3>1. at = n + 1
      BY <1>6, <2>1
    <3>2. \A k \in 1..n : kept[k] # Marker
      BY <1>6, <2>1
    <3> HIDE DEF at, markers
    <3> QED BY <1>2, <3>1, <3>2
  <2>2. CASE markers # {}
    <3>1. markers \in SUBSET Nat
      BY <1>6
    <3>2. \E x \in markers : \A y \in markers : x <= y
      <4> HIDE DEF markers
      <4> QED BY <2>2, <3>1, Least
    <3>3. at \in markers /\ \A y \in markers : at <= y
      BY <2>2, <3>2 DEF Min
    <3>4. at \in 1..n
      BY <1>6, <3>3
    <3> HIDE DEF at
    <3>5. \A k \in 1..(at - 1) : k \in 1..n /\ ~(at <= k)
      BY <1>2, <3>4
    <3> QED BY <1>2, <1>6, <3>3, <3>4, <3>5
  <2> QED BY <2>1, <2>2
<1> HIDE DEF at, T
<1> DEFINE front == SubSeq(kept, 1, at - 1)
           back == SubSeq(kept, at, Len(kept))
           merged == front \o order \o back
<1>9. front \in Seq(T) /\ Len(front) = at - 1 /\ \A k \in 1..(at - 1) : front[k] = kept[k]
  <2>1. at - 1 \in 0..n /\ \A k \in 1..(at - 1) : k \in 1..n
    BY <1>2, <1>8
  <2>2. \A k \in 1..(at - 1) : kept[k] \in T
    BY <1>5, <2>1
  <2> DEFINE m == at - 1
  <2> HIDE DEF m
  <2>3. m \in Int /\ 1 \in Int /\ \A k \in 1..m : kept[k] \in T
    <3>1. m \in 0..n
      BY <2>1 DEF m
    <3>2. m \in Int
      BY <1>2, <3>1
    <3>3. \A k \in 1..m : kept[k] \in T
      BY <2>2 DEF m
    <3> QED BY <3>2, <3>3
  <2>4. /\ SubSeq(kept, 1, m) \in Seq(T) /\ Len(SubSeq(kept, 1, m)) = (IF 1 <= m THEN m - 1 + 1 ELSE 0)
        /\ \A k \in 1..(m - 1 + 1) : SubSeq(kept, 1, m)[k] = kept[1 + k - 1]
    BY <2>3, SubSeqProperties
  <2>5. front = SubSeq(kept, 1, m)
    BY DEF m
  <2> HIDE DEF front
  <2>6. m \in Nat /\ m = at - 1 /\ m - 1 + 1 = m /\ \A k \in 1..m : 1 + k - 1 = k
    BY <1>2, <2>1 DEF m
  <2>7. Len(front) = m /\ \A k \in 1..m : front[k] = kept[k]
    BY <2>4, <2>5, <2>6
  <2> QED BY <2>4, <2>5, <2>6, <2>7
<1>10. back \in Seq(T) /\ Len(back) = n - at + 1 /\ \A k \in 1..(n - at + 1) : back[k] = kept[at + k - 1]
  <2>1. at \in Int /\ n \in Int /\ Len(kept) = n
    BY <1>2, <1>6, <1>8
  <2>0. \A k \in at..n : k \in 1..n
    BY <1>2, <1>8
  <2>2. \A k \in at..n : kept[k] \in T
    BY <1>5, <2>0
  <2>3. /\ back \in Seq(T) /\ Len(back) = (IF at <= n THEN n - at + 1 ELSE 0)
        /\ \A k \in 1..(n - at + 1) : back[k] = kept[at + k - 1]
    BY <2>1, <2>2, SubSeqProperties
  <2> HIDE DEF back
  <2> QED BY <1>2, <1>8, <2>1, <2>3
<1> HIDE DEF front, back
<1>11. /\ front \o order \in Seq(T) /\ Len(front \o order) = at - 1 + c
       /\ \A k \in 1..(at - 1 + c) : (front \o order)[k] = IF k <= at - 1 THEN front[k] ELSE order[k - (at - 1)]
  <2>1. /\ front \o order \in Seq(T) /\ Len(front \o order) = Len(front) + Len(order)
        /\ \A k \in 1..(Len(front) + Len(order)) : (front \o order)[k] = IF k <= Len(front) THEN front[k] ELSE order[k - Len(front)]
    BY <1>7, <1>9, ConcatProperties
  <2> QED BY <1>7, <1>9, <2>1
<1> DEFINE fresh == front \o order
<1> HIDE DEF fresh
<1>12. /\ merged \in Seq(T) /\ Len(merged) = (at - 1 + c) + (n - at + 1)
       /\ \A k \in 1..((at - 1 + c) + (n - at + 1)) :
            merged[k] = IF k <= at - 1 + c THEN (front \o order)[k] ELSE back[k - (at - 1 + c)]
  <2>0. fresh \in Seq(T) /\ Len(fresh) = at - 1 + c
    BY <1>11 DEF fresh
  <2>1. /\ fresh \o back \in Seq(T) /\ Len(fresh \o back) = Len(fresh) + Len(back)
        /\ \A k \in 1..(Len(fresh) + Len(back)) : (fresh \o back)[k] = IF k <= Len(fresh) THEN fresh[k] ELSE back[k - Len(fresh)]
    BY <1>10, <2>0, ConcatProperties
  <2>2. fresh = front \o order /\ merged = fresh \o back
    BY DEF fresh
  <2> HIDE DEF merged
  <2> QED BY <1>10, <2>0, <2>1, <2>2
<1>13. (at - 1 + c) + (n - at + 1) = n + c /\ at \in Int /\ n \in Int /\ c \in Int
  BY <1>2, <1>3, <1>8
<1> HIDE DEF merged
<1>14. DOMAIN merged = 1..(n + c)
  BY <1>12, <1>13
<1>15. ASSUME NEW x \in 1..(n + c) PROVE merged[x] = IF x < at THEN routes[e[x]] ELSE IF x < at + c THEN order[x - at + 1] ELSE routes[e[x - c]]
  <2>1. merged[x] = IF x <= at - 1 + c THEN (front \o order)[x] ELSE back[x - (at - 1 + c)]
    BY <1>12, <1>13
  <2>2. CASE x < at
    <3>1. x \in 1..(at - 1) /\ x \in 1..n /\ x \in 1..(at - 1 + c) /\ x <= at - 1 + c
      BY <1>2, <1>3, <1>8, <2>2
    <3> QED BY <1>5, <1>9, <1>11, <2>1, <2>2, <3>1
  <2>3. CASE ~(x < at) /\ x < at + c
    <3>1. x \in 1..(at - 1 + c) /\ x <= at - 1 + c /\ ~(x <= at - 1) /\ x - (at - 1) = x - at + 1
      BY <1>13, <2>3
    <3> QED BY <1>11, <2>1, <2>3, <3>1
  <2>4. CASE ~(x < at) /\ ~(x < at + c)
    <3>1. /\ ~(x <= at - 1 + c) /\ x - (at - 1 + c) \in 1..(n - at + 1)
          /\ at + (x - (at - 1 + c)) - 1 = x - c /\ x - c \in 1..n
      BY <1>8, <1>13, <2>4
    <3> QED BY <1>5, <1>10, <2>1, <2>4, <3>1
  <2> QED BY <2>2, <2>3, <2>4
<1>16. \A k \in 1..(at - 1) : routes[e[k]] # Marker
  <2>1. \A k \in 1..(at - 1) : k \in 1..n
    BY <1>2, <1>8
  <2> QED BY <1>5, <1>8, <2>1
<1>17. Merged(routes, names) = merged
  BY <1>4 DEF merged, front, back
<1>18. Merges(routes, names, e, at)
  BY <1>2, <1>3, <1>8, <1>14, <1>15, <1>16, <1>17 DEF Merges, n, c, order
<1> QED BY <1>1, <1>12, <1>17, <1>18 DEF T

\* Where the routes that stay are found afterwards.
Moved(routes, names, to) ==
  LET K == KeptAt(routes, names)
      merged == Merged(routes, names) IN
  /\ to \in [K -> DOMAIN merged] /\ \A i, j \in K : i < j => to[i] < to[j]
  /\ \A i \in K : merged[to[i]] = routes[i]
  /\ \A x \in DOMAIN merged : merged[x] \in names \/ \E i \in K : x = to[i]
LEMMA MovedOn ==
  ASSUME NEW R, NEW routes \in Seq(R), NEW names, IsFiniteSet(names)
  PROVE  \E to : Moved(routes, names, to)
<1> DEFINE K == KeptAt(routes, names)
           n == Cardinality(K)
           c == Cardinality(names)
           M == Merged(routes, names)
           order == SetToSeq(names)
<1>1. PICK e, at : Keeps(routes, names, e) /\ Merges(routes, names, e, at)
  BY MergeOrder
<1>2. order \in [1..c -> names]
  BY Listing
<1>3. /\ n \in Nat /\ c \in Nat /\ at \in 1..(n + 1) /\ DOMAIN M = 1..(n + c) /\ e \in [1..n -> K]
      /\ \A k, l \in 1..n : k < l => e[k] < e[l]
      /\ \A i \in K : \E k \in 1..n : e[k] = i
      /\ \A x \in 1..(n + c) : M[x] = IF x < at THEN routes[e[x]] ELSE IF x < at + c THEN order[x - at + 1] ELSE routes[e[x - c]]
  BY <1>1 DEF Keeps, Merges
<1>4. K \subseteq Nat
  BY DEF KeptAt
<1> HIDE DEF K, n, c, M, order
<1> DEFINE nr(i) == CHOOSE k \in 1..n : e[k] = i
           pos(k) == IF k < at THEN k ELSE k + c
           to == [i \in K |-> pos(nr(i))]
<1>5. \A i \in K : nr(i) \in 1..n /\ e[nr(i)] = i
  BY <1>3
<1> HIDE DEF nr
<1>6. \A k \in 1..n : /\ pos(k) \in 1..(n + c) /\ M[pos(k)] = routes[e[k]]
                      /\ \A l \in 1..n : k < l => pos(k) < pos(l)
  <2> SUFFICES ASSUME NEW k \in 1..n
               PROVE  /\ pos(k) \in 1..(n + c) /\ M[pos(k)] = routes[e[k]]
                      /\ \A l \in 1..n : k < l => pos(k) < pos(l)
    OBVIOUS
  <2>1. pos(k) \in 1..(n + c)
    BY <1>3
  <2>2. ASSUME NEW l \in 1..n, k < l PROVE pos(k) < pos(l)
    BY <1>3, <2>2
  <2>3. M[pos(k)] = routes[e[k]]
    <3>1. CASE k < at
      BY <1>3, <2>1, <3>1
    <3>2. CASE ~(k < at)
      <4>1. ~(k + c < at) /\ ~(k + c < at + c) /\ (k + c) - c = k
        BY <1>3, <3>2
      <4> QED BY <1>3, <2>1, <3>2, <4>1
    <3> QED BY <3>1, <3>2
  <2> QED BY <2>1, <2>2, <2>3
<1>7. to \in [K -> DOMAIN M] /\ \A i \in K : M[to[i]] = routes[i]
  BY <1>3, <1>5, <1>6
<1>8. ASSUME NEW i \in K, NEW j \in K, i < j PROVE to[i] < to[j]
  <2>1. nr(i) \in 1..n /\ nr(j) \in 1..n /\ e[nr(i)] = i /\ e[nr(j)] = j /\ i \in Nat /\ j \in Nat
    BY <1>4, <1>5
  <2>2. ~(nr(j) < nr(i)) /\ nr(i) # nr(j)
    BY <1>3, <1>8, <2>1
  <2>3. nr(i) < nr(j)
    BY <1>3, <2>1, <2>2
  <2> QED BY <1>6, <2>1, <2>3
<1>9. ASSUME NEW x \in DOMAIN M PROVE M[x] \in names \/ \E i \in K : x = to[i]
  <2>1. CASE x < at \/ ~(x < at + c)
    <3>1. PICK k \in 1..n : x = pos(k)
      <4>1. CASE x < at
        BY <1>3, <4>1
      <4>2. CASE ~(x < at + c)
        <5>1. x - c \in 1..n /\ ~(x - c < at) /\ (x - c) + c = x
          BY <1>3, <4>2
        <5> QED BY <5>1
      <4> QED BY <2>1, <4>1, <4>2
    <3>2. e[k] \in K /\ nr(e[k]) \in 1..n /\ e[nr(e[k])] = e[k]
      BY <1>3, <1>5
    <3>3. nr(e[k]) = k
      <4>a. e[k] \in Nat
        BY <1>4, <3>2
      <4>0. ~(e[k] < e[k])
        BY <4>a
      <4>1. ~(nr(e[k]) < k) /\ ~(k < nr(e[k]))
        BY <1>3, <3>2, <4>0
      <4>2. nr(e[k]) \in Int /\ k \in Int
        BY <3>2
      <4> QED BY <4>1, <4>2
    <3> QED BY <3>1, <3>2, <3>3
  <2>2. CASE ~(x < at) /\ x < at + c
    <3>1. x - at + 1 \in 1..c /\ x \in 1..(n + c)
      BY <1>3, <2>2
    <3> QED BY <1>2, <1>3, <2>2, <3>1
  <2> QED BY <2>1, <2>2
<1>10. Moved(routes, names, to)
  BY <1>7, <1>8, <1>9 DEF Moved, K, M
<1> QED BY <1>10

\* The new routes are there once, before any marker.
LEMMA NewRoutes ==
  ASSUME NEW R, NEW routes \in Seq(R), NEW names \in SUBSET Functions, NEW f \in names
  PROVE  RouteOK(Merged(routes, names), f)
<1> DEFINE K == KeptAt(routes, names)
           n == Cardinality(K)
           c == Cardinality(names)
           M == Merged(routes, names)
           order == SetToSeq(names)
<1>0. IsFiniteSet(names)
  BY ConstantsAssumption, FS_Subset
<1>1. PICK e, at : Keeps(routes, names, e) /\ Merges(routes, names, e, at)
  BY <1>0, MergeOrder
<1>2. /\ order \in [1..c -> names] /\ \A i, j \in 1..c : order[i] = order[j] => i = j
      /\ \A x \in names : \E i \in 1..c : order[i] = x
  BY <1>0, Listing
<1>3. /\ n \in Nat /\ c \in Nat /\ at \in 1..(n + 1) /\ DOMAIN M = 1..(n + c) /\ e \in [1..n -> K]
      /\ \A x \in 1..(n + c) : M[x] = IF x < at THEN routes[e[x]] ELSE IF x < at + c THEN order[x - at + 1] ELSE routes[e[x - c]]
      /\ \A k \in 1..(at - 1) : routes[e[k]] # Marker
  BY <1>1 DEF Keeps, Merges
<1>4. \A i \in K : routes[i] \notin names
  BY DEF KeptAt
<1> HIDE DEF K, n, c, M, order
<1>5. ASSUME NEW x \in 1..(n + c), M[x] \in names PROVE ~(x < at) /\ x < at + c
  <2>1. x < at => x \in 1..n
    BY <1>3
  <2>2. ~(x < at + c) => x - c \in 1..n /\ ~(x < at)
    BY <1>3
  <2>3. ~(x < at)
    <3> SUFFICES ASSUME x < at PROVE FALSE
      OBVIOUS
    <3>1. e[x] \in K /\ M[x] = routes[e[x]]
      BY <1>3, <2>1
    <3> QED BY <1>4, <1>5, <3>1
  <2>4. x < at + c
    <3> SUFFICES ASSUME ~(x < at + c) PROVE FALSE
      OBVIOUS
    <3>1. e[x - c] \in K /\ M[x] = routes[e[x - c]]
      BY <1>3, <2>2
    <3> QED BY <1>4, <1>5, <3>1
  <2> QED BY <2>3, <2>4
<1>6. PICK k \in 1..c : order[k] = f
  BY <1>2
<1> DEFINE i == at + k - 1
<1>7. i \in 1..(n + c) /\ ~(i < at) /\ i < at + c /\ i - at + 1 = k
  BY <1>3
<1>8. M[i] = f
  BY <1>3, <1>6, <1>7
<1>9. ASSUME NEW x \in 1..(n + c), M[x] = f PROVE x = i
  <2>1. ~(x < at) /\ x < at + c
    BY <1>5, <1>9
  <2>2. M[x] = order[x - at + 1] /\ x - at + 1 \in 1..c
    BY <1>3, <2>1
  <2>3. x - at + 1 = k
    BY <1>2, <1>6, <1>9, <2>2
  <2>4. x \in Int /\ at \in Int /\ k \in Int
    BY <1>3
  <2> QED BY <2>3, <2>4
<1>10. ASSUME NEW x \in 1..i PROVE M[x] # Marker
  <2>1. x \in 1..(n + c) /\ x < at + c
    BY <1>3, <1>7
  <2>2. CASE x < at
    <3>1. x \in 1..(at - 1) /\ M[x] = routes[e[x]]
      BY <1>3, <2>1, <2>2
    <3> QED BY <1>3, <3>1
  <2>3. CASE ~(x < at)
    <3>1. x - at + 1 \in 1..c /\ M[x] = order[x - at + 1]
      BY <1>3, <2>1, <2>3
    <3> QED BY <1>2, <3>1, ConstantsAssumption
  <2> QED BY <2>2, <2>3
<1> HIDE DEF i
<1>11. i \in DOMAIN M /\ Own(M, f) = {i}
  BY <1>3, <1>7, <1>8, <1>9 DEF Own
<1> QED BY <1>10, <1>11 DEF RouteOK, M

\* Of the others, each that was there once before any marker still is, and those that had none get none.
LEMMA OldRoutes ==
  ASSUME NEW R, NEW routes \in Seq(R), NEW names \in SUBSET Functions, NEW f \in Functions \ names
  PROVE  /\ Own(routes, f) = {} => Own(Merged(routes, names), f) = {}
         /\ RouteOK(routes, f) => RouteOK(Merged(routes, names), f)
<1> DEFINE K == KeptAt(routes, names)
           M == Merged(routes, names)
<1>0. IsFiniteSet(names)
  BY ConstantsAssumption, FS_Subset
<1>1. PICK to : Moved(routes, names, to)
  BY <1>0, MovedOn
<1>2. /\ to \in [K -> DOMAIN M] /\ \A i, j \in K : i < j => to[i] < to[j]
      /\ \A i \in K : M[to[i]] = routes[i]
      /\ \A x \in DOMAIN M : M[x] \in names \/ \E i \in K : x = to[i]
  BY <1>1 DEF Moved
<1>3. K \subseteq DOMAIN routes /\ DOMAIN routes = 1..Len(routes) /\ Len(routes) \in Nat
  BY DEF KeptAt
<1>4. M \in Seq(R \cup names)
  BY <1>0, MergeOrder
<1>5. DOMAIN M = 1..Len(M) /\ Len(M) \in Nat
  BY <1>4
<1>6. \A i \in DOMAIN routes : routes[i] \in {f, Marker} => i \in K
  BY ConstantsAssumption DEF KeptAt
<1> HIDE DEF K, M
<1>7. ASSUME NEW x \in DOMAIN M, M[x] \in {f, Marker} PROVE \E i \in K : x = to[i] /\ routes[i] = M[x]
  BY <1>2, <1>7, ConstantsAssumption
<1>8. Own(routes, f) = {} => Own(M, f) = {}
  BY <1>3, <1>7 DEF Own
<1>9. ASSUME RouteOK(routes, f) PROVE RouteOK(M, f)
  <2>1. PICK i \in DOMAIN routes : Own(routes, f) = {i} /\ \A j \in 1..i : routes[j] # Marker
    BY <1>9 DEF RouteOK
  <2>2. i \in K /\ routes[i] = f
    BY <1>6, <2>1 DEF Own
  <2>3. to[i] \in DOMAIN M /\ M[to[i]] = f
    BY <1>2, <2>2
  <2>4. Own(M, f) = {to[i]}
    BY <1>3, <1>7, <2>1, <2>3 DEF Own
  <2>5. ASSUME NEW x \in 1..to[i], M[x] = Marker PROVE FALSE
    <3>1. x \in DOMAIN M
      BY <1>5, <2>3
    <3>2. PICK j \in K : x = to[j] /\ routes[j] = Marker
      BY <1>7, <2>5, <3>1
    <3>3. i \in Nat /\ j \in Nat /\ j \in DOMAIN routes /\ 1 <= j /\ to[i] \in Nat /\ to[j] \in Nat /\ to[j] <= to[i]
      BY <1>3, <1>5, <2>2, <2>3, <2>5, <3>1, <3>2
    <3>4. ~(i < j)
      BY <1>2, <2>2, <3>2, <3>3
    <3>5. j \in 1..i
      BY <3>3, <3>4
    <3> QED BY <2>1, <3>2, <3>5
  <2> QED BY <2>3, <2>4, <2>5 DEF RouteOK
<1> QED BY <1>8, <1>9 DEF M

\* The frontend's routes stay as they are.
LEMMA TheirRoutes ==
  ASSUME NEW R, NEW routes \in Seq(R), NEW names \in SUBSET Functions, FrontOK(routes)
  PROVE  FrontOK(Merged(routes, names))
<1> DEFINE K == KeptAt(routes, names)
           M == Merged(routes, names)
<1>0. IsFiniteSet(names)
  BY ConstantsAssumption, FS_Subset
<1>1. PICK to : Moved(routes, names, to)
  BY <1>0, MovedOn
<1>2. /\ to \in [K -> DOMAIN M] /\ \A i, j \in K : i < j => to[i] < to[j]
      /\ \A i \in K : M[to[i]] = routes[i]
      /\ \A x \in DOMAIN M : M[x] \in names \/ \E i \in K : x = to[i]
  BY <1>1 DEF Moved
<1>3. Theirs(routes) \subseteq K /\ K \subseteq DOMAIN routes
  BY DEF Theirs, KeptAt
<1> HIDE DEF K, M
<1>4. \A x : x \in Theirs(M) <=> \E i \in Theirs(routes) : x = to[i]
  BY <1>2, <1>3 DEF Theirs
<1>5. CASE Theirs(routes) = {}
  BY <1>4, <1>5 DEF FrontOK, M
<1>6. CASE Theirs(routes) # {}
  <2>1. PICK i, j, k \in Theirs(routes) :
          /\ i < j /\ j < k /\ Theirs(routes) = {i, j, k}
          /\ routes[i] = User /\ routes[j] = Marker /\ routes[k] = User
    BY <1>6 DEF FrontOK
  <2>2. to[i] \in Theirs(M) /\ to[j] \in Theirs(M) /\ to[k] \in Theirs(M) /\ Theirs(M) = {to[i], to[j], to[k]}
    BY <1>4, <2>1
  <2>3. to[i] < to[j] /\ to[j] < to[k] /\ M[to[i]] = User /\ M[to[j]] = Marker /\ M[to[k]] = User
    BY <1>2, <1>3, <2>1
  <2> QED BY <2>2, <2>3 DEF FrontOK, M
<1> QED BY <1>5, <1>6

-----------------------------------------------------------------------------
(* Bundles *)

LEMMA NoneFacts == None \notin Functions /\ None \notin Nat
BY NoneAssumption

LEMMA LibIsBody ==
  ASSUME NEW of \in Versions
  PROVE  /\ Lib(of) \in Bodies /\ BodyOK(Lib(of)) /\ Lib(of) \notin Functions
         /\ Lib(of).fn = None /\ Lib(of).split = FALSE /\ Lib(of).lib = of
<1>1. Lib(of) = [fn |-> None, at |-> 0, lib |-> of, split |-> FALSE]
  BY DEF Lib, Code
<1>2. of \in Nat
  BY DEF Versions
<1>3. Lib(of) \in Bodies
  BY <1>1, <1>2 DEF Bodies
<1>4. Lib(of) \notin Functions
  BY <1>3, ConstantsAssumption
<1>5. Lib(of).fn = None /\ Lib(of).split = FALSE /\ Lib(of).lib = of
  BY <1>1
<1> QED BY <1>3, <1>4, <1>5 DEF BodyOK

\* The files of a bundle, and those that a function reaches.
BundledOf(outputs, fs, of) ==
  /\ \A f \in fs : OneOf(outputs[f], f, of, Cardinality(fs) > 1) /\ outputs[f].at \in Versions
  /\ DOMAIN outputs = fs \cup {outputs[f] : f \in fs} \cup Shared(of, fs)
  /\ \A c \in DOMAIN outputs \ Functions : outputs[c] = c
LEMMA BundleFiles ==
  ASSUME NEW fs \in SUBSET Functions, NEW of \in Versions, NEW outputs, BundledOf(outputs, fs, of)
  PROVE  /\ DOMAIN outputs \cap Functions = fs
         /\ DOMAIN outputs \ Functions = {outputs[f] : f \in fs} \cup Shared(of, fs)
         /\ \A p \in DOMAIN outputs : outputs[p] \in Bodies /\ BodyOK(outputs[p]) /\ p \in Paths
         /\ \A f \in fs : /\ Reachable(f, outputs) = {f, outputs[f]} \cup Shared(of, fs)
                          /\ Reachable(f, outputs) \subseteq DOMAIN outputs
                          /\ Reachable(f, [g \in {f} |-> outputs[f]]) = Reachable(f, outputs)
<1>1. Shared(of, fs) \subseteq {Lib(of)} /\ (Cardinality(fs) > 1 => Shared(of, fs) = {Lib(of)})
      /\ (~(Cardinality(fs) > 1) => Shared(of, fs) = {})
  BY DEF Shared
<1>2. \A f \in fs : outputs[f] \in Bodies /\ outputs[f] \notin Functions /\ BodyOK(outputs[f])
  BY ConstantsAssumption DEF BundledOf, OneOf, BodyOK
<1>l. Lib(of) \in Bodies /\ BodyOK(Lib(of)) /\ Lib(of) \notin Functions
  BY LibIsBody
<1>3. DOMAIN outputs \cap Functions = fs /\ DOMAIN outputs \ Functions = {outputs[f] : f \in fs} \cup Shared(of, fs)
  <2>1. DOMAIN outputs = fs \cup ({outputs[f] : f \in fs} \cup Shared(of, fs))
    BY DEF BundledOf
  <2>2. ({outputs[f] : f \in fs} \cup Shared(of, fs)) \cap Functions = {}
    BY <1>1, <1>2, <1>l
  <2> QED BY <2>1, <2>2
<1>4. ASSUME NEW p \in DOMAIN outputs PROVE outputs[p] \in Bodies /\ BodyOK(outputs[p]) /\ p \in Paths
  <2>1. CASE p \in fs
    BY <1>2, <2>1 DEF Paths
  <2>2. CASE p \notin fs
    <3>1. p \notin Functions /\ outputs[p] = p
      BY <1>3, <2>2 DEF BundledOf
    <3>2. p \in {outputs[f] : f \in fs} \cup Shared(of, fs)
      BY <1>3, <3>1
    <3>3. p \in Bodies /\ BodyOK(p)
      BY <1>1, <1>2, <1>l, <3>2
    <3> QED BY <3>1, <3>3 DEF Paths
  <2> QED BY <2>1, <2>2
<1>5. ASSUME NEW f \in fs
      PROVE  /\ Reachable(f, outputs) = {f, outputs[f]} \cup Shared(of, fs)
             /\ Reachable(f, outputs) \subseteq DOMAIN outputs
             /\ Reachable(f, [g \in {f} |-> outputs[f]]) = Reachable(f, outputs)
  <2> DEFINE b == outputs[f]
  <2>1. b \notin Functions /\ b.split = (Cardinality(fs) > 1) /\ b.lib = of /\ f \in Functions
    BY <1>2 DEF BundledOf, OneOf
  <2>2. Imports(f, b) = {b}
    BY <2>1 DEF Imports
  <2>3. Imports(b, b) = Shared(of, fs)
    BY <2>1 DEF Imports, Shared
  <2>4. Reachable(f, outputs) = {f, b} \cup Shared(of, fs)
    BY <2>2, <2>3 DEF Reachable
  <2>5. Reachable(f, [g \in {f} |-> b]) = {f, b} \cup Shared(of, fs)
    BY <2>2, <2>3 DEF Reachable
  <2> QED BY <2>4, <2>5 DEF BundledOf
<1> QED BY <1>3, <1>4, <1>5

LEMMA BundleOf ==
  ASSUME NEW fs \in SUBSET Functions, NEW outputs, Bundled(outputs, fs)
  PROVE  \E of \in Versions : BundledOf(outputs, fs, of)
BY DEF Bundled, BundledOf

\* esbuild makes a bundle of sources that are there.
LEMMA OutputsBundle ==
  ASSUME NEW fs \in SUBSET Functions, lib \in Versions, \A f \in fs : src[f] \in Versions
  PROVE  Bundled(Outputs(fs), fs)
<1> DEFINE split == Cardinality(fs) > 1
           code == [f \in fs |-> Code(f, src[f], lib, split)]
           chunks == {code[f] : f \in fs} \cup {Lib(l) : l \in IF split THEN {lib} ELSE {}}
           files == [c \in chunks |-> c]
           out == Outputs(fs)
<1>1. ASSUME NEW f \in fs PROVE OneOf(code[f], f, lib, split) /\ code[f].at \in Versions /\ code[f] \notin Functions
  <2>1. code[f] = [fn |-> f, at |-> src[f], lib |-> lib, split |-> split]
    BY DEF Code
  <2>2. src[f] \in Nat /\ lib \in Nat /\ split \in BOOLEAN /\ f \in Functions
    BY DEF Versions
  <2>3. code[f] \in Bodies
    <3> DEFINE c == code[f]
    <3> HIDE DEF split, c
    <3>1. c = [fn |-> f, at |-> src[f], lib |-> lib, split |-> split]
      BY <2>1 DEF c
    <3>2. c \in Bodies
      BY <2>2, <3>1 DEF Bodies
    <3> QED BY <3>2 DEF c
  <2>4. code[f] \notin Functions
    BY <2>3, ConstantsAssumption
  <2> QED BY <2>1, <2>3, <2>4 DEF OneOf
<1>2. {Lib(l) : l \in IF split THEN {lib} ELSE {}} = Shared(lib, fs)
  BY DEF Shared
<1>3. chunks \cap Functions = {}
  <2>1. {code[f] : f \in fs} \cap Functions = {}
    BY <1>1
  <2>2. Shared(lib, fs) \cap Functions = {}
    BY LibIsBody DEF Shared
  <2> HIDE DEF code, split
  <2>3. chunks = {code[f] : f \in fs} \cup Shared(lib, fs)
    BY <1>2
  <2> HIDE DEF chunks
  <2> QED BY <2>1, <2>2, <2>3
<1> HIDE DEF split
<1>4. out = Over(code, files)
  BY DEF Outputs, split
<1> HIDE DEF chunks
<1>5. DOMAIN out = fs \cup chunks /\ (\A f \in fs : out[f] = code[f]) /\ \A c \in chunks : out[c] = c
  <2>1. DOMAIN code = fs /\ DOMAIN files = chunks
    OBVIOUS
  <2> HIDE DEF code, files
  <2>2. out = [p \in fs \cup chunks |-> IF p \in fs THEN code[p] ELSE files[p]]
    BY <1>4, <2>1 DEF Over
  <2>3. DOMAIN out = fs \cup chunks /\ \A f \in fs : out[f] = code[f]
    BY <2>2
  <2>4. \A c \in chunks : out[c] = files[c] /\ files[c] = c
    BY <1>3, <2>2 DEF files
  <2> QED BY <2>3, <2>4
<1>6. chunks = {out[f] : f \in fs} \cup Shared(lib, fs)
  BY <1>2, <1>5 DEF chunks
<1> HIDE DEF code, files, out
<1>7. \A f \in fs : OneOf(out[f], f, lib, Cardinality(fs) > 1) /\ out[f].at \in Versions
  BY <1>1, <1>5 DEF split
<1>8. \A c \in DOMAIN out \ Functions : out[c] = c
  BY <1>5
<1> QED BY <1>5, <1>6, <1>7, <1>8 DEF Bundled, out

-----------------------------------------------------------------------------
(* The build command *)

LEMMA RunningBuild ==
  ASSUME BuildInv, build.pc # "idle"
  PROVE  /\ build = B(build.pc, build.todo, build.fn, build.json, build.declared)
         /\ build.inputs \in SUBSET Functions
BY DEF BuildInv, Idle

\* What a step makes of the command.
LEMMA Starting ==
  ASSUME NEW fs, Starts(fs)
  PROVE  build' = [pc |-> "bundle", inputs |-> fs, outputs |-> NoFiles, todo |-> {}, fn |-> None, json |-> None, declared |-> NoFiles]
BY DEF Starts

LEMMA Bundling ==
  ASSUME BuildInv, Bundle
  PROVE  build' = [pc |-> IF target = "workerd" THEN "write" ELSE "capture", inputs |-> build.inputs,
                   outputs |-> Outputs(build.inputs), todo |-> DOMAIN Outputs(build.inputs),
                   fn |-> build.fn, json |-> build.json, declared |-> build.declared]
<1>1. build = B(build.pc, build.todo, build.fn, build.json, build.declared)
  BY RunningBuild DEF Bundle, At
<1> QED BY <1>1 DEF Bundle, To, B

LEMMA Afterwards ==
  ASSUME BuildInv, build.pc # "idle", NEW xs, NEW next
  PROVE  After(xs, next) = IF build.todo \subseteq xs THEN next
                           ELSE B(build.pc, build.todo \ xs, build.fn, build.json, build.declared)
<1>1. build = B(build.pc, build.todo, build.fn, build.json, build.declared)
  BY RunningBuild
<1>2. [build EXCEPT !.todo = @ \ xs] = B(build.pc, build.todo \ xs, build.fn, build.json, build.declared)
  BY <1>1 DEF B
<1> QED BY <1>2 DEF After

LEMMA Turning ==
  ASSUME BuildInv, build.pc # "idle", NEW pc, NEW work
  PROVE  To(pc, work) = B(pc, work, build.fn, build.json, build.declared)
<1> DEFINE b == [build EXCEPT !.pc = pc]
<1>1. build = B(build.pc, build.todo, build.fn, build.json, build.declared)
  BY RunningBuild
<1>2. b = B(pc, build.todo, build.fn, build.json, build.declared)
  BY <1>1 DEF B
<1>3. To(pc, work) = [b EXCEPT !.todo = work]
  BY DEF To
<1> HIDE DEF b
<1> QED BY <1>2, <1>3 DEF B

LEMMA WritingOut ==
  ASSUME BuildInv, NEW p, WriteOutput(p)
  PROVE  LET g == Group(p, build.todo) IN
         build' = IF build.todo \subseteq g THEN B("finish", DOMAIN build.outputs, build.fn, build.json, build.declared)
                  ELSE B("write", build.todo \ g, build.fn, build.json, build.declared)
<1>1. build.pc = "write"
  BY DEF WriteOutput, At
<1> QED BY <1>1, Afterwards, Turning DEF WriteOutput

Chunked == [chunks |-> [c \in Chunks(build.outputs) |-> dist'.files[c]], fns |-> NoFiles]
LEMMA Finishing ==
  ASSUME BuildInv, NEW p, FinishOutput(p)
  PROVE  LET g == Group(p, build.todo) IN
         build' = IF build.todo \subseteq g THEN B("hash", build.inputs, build.fn, Chunked, build.declared)
                  ELSE B("finish", build.todo \ g, build.fn, build.json, build.declared)
<1>1. build.pc = "finish"
  BY DEF FinishOutput, At
<1>2. To("hash", build.inputs) = B("hash", build.inputs, build.fn, build.json, build.declared)
  BY <1>1, Turning
<1>3. [To("hash", build.inputs) EXCEPT !.json = Chunked] = B("hash", build.inputs, build.fn, Chunked, build.declared)
  BY <1>2 DEF B
<1>4. build' = After(Group(p, build.todo), [To("hash", build.inputs) EXCEPT !.json = Chunked])
  BY DEF FinishOutput, Chunked
<1> QED BY <1>1, <1>3, <1>4, Afterwards

Hashed(f) == [build.json EXCEPT !.fns = Over(FunctionEntry(f, dist.files[f]), @)]
LEMMA Hashing ==
  ASSUME BuildInv, NEW f, HashFunction(f)
  PROVE  build' = IF build.todo \subseteq {f} THEN B("manifest", {}, build.fn, Hashed(f), build.declared)
                  ELSE B("hash", build.todo \ {f}, build.fn, Hashed(f), build.declared)
<1> DEFINE b == After({f}, To("manifest", {}))
<1>1. build.pc = "hash"
  BY DEF HashFunction, At
<1>2. b = IF build.todo \subseteq {f} THEN B("manifest", {}, build.fn, build.json, build.declared)
          ELSE B("hash", build.todo \ {f}, build.fn, build.json, build.declared)
  BY <1>1, Afterwards, Turning
<1>3. build' = [b EXCEPT !.json.fns = Over(FunctionEntry(f, dist.files[f]), @)]
  BY DEF HashFunction
<1> HIDE DEF b
<1>4. CASE build.todo \subseteq {f}
  BY <1>2, <1>3, <1>4 DEF B, Hashed
<1>5. CASE ~(build.todo \subseteq {f})
  BY <1>2, <1>3, <1>5 DEF B, Hashed
<1> QED BY <1>4, <1>5

LEMMA Opening ==
  ASSUME BuildInv, OpenManifest
  PROVE  build' = B("written", {}, build.fn, build.json, build.declared)
BY Turning DEF OpenManifest, At

LEMMA Capturing ==
  ASSUME BuildInv, Capture
  PROVE  \E loaded \in SUBSET (build.inputs \cap Present \cap Declaring) :
           build' = B("emit", build.inputs, build.fn, build.json, [f \in loaded |-> src[f]])
<1>1. build.pc = "capture"
  BY DEF Capture, At
<1>2. PICK loaded \in SUBSET (build.inputs \cap Present \cap Declaring) :
        build' = [To("emit", build.inputs) EXCEPT !.declared = [f \in loaded |-> src[f]]]
  BY DEF Capture
<1>3. To("emit", build.inputs) = B("emit", build.inputs, build.fn, build.json, build.declared)
  BY <1>1, Turning
<1>4. build' = B("emit", build.inputs, build.fn, build.json, [f \in loaded |-> src[f]])
  BY <1>2, <1>3 DEF B
<1> QED BY <1>4

LEMMA Removing ==
  ASSUME BuildInv, NEW f, RemoveFunc(f)
  PROVE  build' = B("copy", build.todo, f, build.json, build.declared)
<1>1. build = B(build.pc, build.todo, build.fn, build.json, build.declared)
  BY RunningBuild DEF RemoveFunc, At
<1> QED BY <1>1 DEF RemoveFunc, B

Copied == {m.path : m \in output.funcs[build.fn].modules}
Lacking == Reachable(build.fn, build.outputs) \ Copied
LEMMA Copying ==
  ASSUME BuildInv, CopyModule
  PROVE  \E p \in Lacking :
           /\ build' = B(IF Lacking = {p} THEN "limit" ELSE "copy", build.todo, build.fn, build.json, build.declared)
           /\ ChangesFunc([output.funcs[build.fn] EXCEPT !.modules = @ \cup {[path |-> p, body |-> build.outputs[p]]}])
<1>1. build.pc = "copy" /\ build = B(build.pc, build.todo, build.fn, build.json, build.declared)
  BY RunningBuild DEF CopyModule, At
<1>2. PICK p \in Lacking :
        /\ build' = [build EXCEPT !.pc = IF Lacking = {p} THEN "limit" ELSE @]
        /\ ChangesFunc([output.funcs[build.fn] EXCEPT !.modules = @ \cup {[path |-> p, body |-> build.outputs[p]]}])
  BY DEF CopyModule, Lacking, Copied
<1>3. build' = B(IF Lacking = {p} THEN "limit" ELSE "copy", build.todo, build.fn, build.json, build.declared)
  BY <1>1, <1>2 DEF B
<1> QED BY <1>2, <1>3

LEMMA Limiting ==
  ASSUME BuildInv, WriteLimit
  PROVE  build' = IF build.todo \subseteq {build.fn} THEN B("routes", {}, build.fn, build.json, build.declared)
                  ELSE B("emit", build.todo \ {build.fn}, build.fn, build.json, build.declared)
<1> DEFINE b == After({build.fn}, To("routes", {}))
<1>1. build.pc = "limit"
  BY DEF WriteLimit, At
<1>2. b = IF build.todo \subseteq {build.fn} THEN B("routes", {}, build.fn, build.json, build.declared)
          ELSE B("limit", build.todo \ {build.fn}, build.fn, build.json, build.declared)
  BY <1>1, Afterwards, Turning
<1>3. build' = [b EXCEPT !.pc = IF @ = "limit" THEN "emit" ELSE @]
  BY DEF WriteLimit
<1> HIDE DEF b
<1>4. CASE build.todo \subseteq {build.fn}
  BY <1>2, <1>3, <1>4 DEF B
<1>5. CASE ~(build.todo \subseteq {build.fn})
  BY <1>2, <1>3, <1>5 DEF B
<1> QED BY <1>4, <1>5

LEMMA Routing ==
  ASSUME BuildInv, OpenRoutes
  PROVE  build' = B("opened", {}, build.fn, Merged(output.routes, build.inputs), build.declared)
<1>1. build.pc = "routes"
  BY DEF OpenRoutes, At
<1>2. To("opened", {}) = B("opened", {}, build.fn, build.json, build.declared)
  BY <1>1, Turning
<1> QED BY <1>2 DEF OpenRoutes, B

\* A command that these fields describe is one of the invariant.
LEMMA BuildMade ==
  ASSUME NEW pc \in {"bundle", "capture"} \cup DistPhases \cup OutputPhases, NEW fs \in SUBSET Functions,
         NEW outputs, NEW todo, NEW fn, NEW json, NEW declared,
         build' = [pc |-> pc, inputs |-> fs, outputs |-> outputs, todo |-> todo, fn |-> fn, json |-> json, declared |-> declared],
         pc = "bundle" => todo = {},
         pc # "bundle" => Bundled(outputs, fs),
         pc = "capture" => todo \subseteq DOMAIN outputs,
         pc \in OutputPhases => declared = [f \in DOMAIN declared |-> declared[f]] /\ \A f \in DOMAIN declared : declared[f] \in Nat
  PROVE  BuildInv'
<1>1. /\ build'.pc = pc /\ build'.inputs = fs /\ build'.outputs = outputs /\ build'.todo = todo
      /\ build'.fn = fn /\ build'.json = json /\ build'.declared = declared
  OBVIOUS
<1>2. build' = [pc |-> build'.pc, inputs |-> build'.inputs, outputs |-> build'.outputs, todo |-> build'.todo,
                fn |-> build'.fn, json |-> build'.json, declared |-> build'.declared]
  BY <1>1
<1>3. (pc # "bundle" => Bundled(outputs, fs)) => (build'.pc # "bundle" => Bundled(outputs, fs))
  BY <1>1
<1>4. (build'.pc # "bundle" => Bundled(build.outputs, build.inputs)') <=> (build'.pc # "bundle" => Bundled(outputs, fs))
  BY <1>1 DEF Bundled, OneOf, Shared
<1> QED BY <1>1, <1>2, <1>3, <1>4 DEF BuildInv, B

LEMMA BuildLeft ==
  ASSUME Edit \/ FrontendBuild \/ Package
  PROVE  build' = build
BY DEF Edit, FrontendBuild, Package, StartPackage, Plan, ReadJson, ReadFile, WritePayload, StopPackage, PackageAt

LEMMA BuildStep ==
  ASSUME TypeOK, BuildInv, Next
  PROVE  BuildInv'
<1>1. CASE Edit \/ FrontendBuild \/ Package
  BY <1>1, BuildLeft DEF BuildInv, B, Bundled, OneOf, Shared
<1>2. CASE StartBuild \/ StartVercelBuild
  <2>1. PICK fs \in Entries : Starts(fs)
    BY <1>2 DEF StartBuild, StartVercelBuild
  <2>2. fs \in SUBSET Functions
    BY DEF Entries, Present
  <2> QED BY <2>1, <2>2, Starting, BuildMade DEF DistPhases, OutputPhases
<1>3. CASE Bundle
  <2>1. build.pc = "bundle" /\ build.inputs \in SUBSET Functions /\ build.inputs \subseteq Present
    BY <1>3, RunningBuild DEF Bundle, At
  <2>2. lib \in Versions /\ \A f \in build.inputs : src[f] \in Versions
    BY <2>1 DEF TypeOK, Present, Versions, ConstantsAssumption
  <2>3. Bundled(Outputs(build.inputs), build.inputs)
    BY <2>1, <2>2, OutputsBundle
  <2> DEFINE pc == IF target = "workerd" THEN "write" ELSE "capture"
  <2>4. pc \in {"write", "capture"}
    OBVIOUS
  <2>5. build' = [pc |-> pc, inputs |-> build.inputs,
                   outputs |-> Outputs(build.inputs), todo |-> DOMAIN Outputs(build.inputs),
                   fn |-> build.fn, json |-> build.json, declared |-> build.declared]
    BY <1>3, Bundling
  <2> HIDE DEF pc
  <2> QED BY <2>1, <2>3, <2>4, <2>5, BuildMade DEF DistPhases, OutputPhases
<1>4. CASE StopBuild \/ WriteManifest \/ WriteRoutes
  BY <1>4 DEF StopBuild, WriteManifest, WriteRoutes, BuildInv
<1>5. ASSUME build.pc \in DistPhases \cup OutputPhases \cup {"capture"}
      PROVE  build.inputs \in SUBSET Functions /\ Bundled(build.outputs, build.inputs)
  BY <1>5, RunningBuild DEF BuildInv, DistPhases, OutputPhases, Idle
<1>6. ASSUME NEW pc \in DistPhases, NEW todo, NEW fn, NEW json, NEW declared,
             build.pc \in DistPhases, build' = B(pc, todo, fn, json, declared)
      PROVE  BuildInv'
  BY <1>5, <1>6, BuildMade DEF B, DistPhases, OutputPhases
<1>7. CASE \E p \in build.todo : WriteOutput(p)
  <2>1. PICK p \in build.todo : WriteOutput(p)
    BY <1>7
  <2>2. build.pc \in DistPhases
    BY <2>1 DEF WriteOutput, At, DistPhases
  <2>3. \/ build' = B("finish", DOMAIN build.outputs, build.fn, build.json, build.declared)
        \/ build' = B("write", build.todo \ Group(p, build.todo), build.fn, build.json, build.declared)
    BY <2>1, WritingOut
  <2>4. "finish" \in DistPhases /\ "write" \in DistPhases
    BY DEF DistPhases
  <2> QED BY <1>6, <2>2, <2>3, <2>4
<1>8. CASE \E p \in build.todo : FinishOutput(p)
  <2>1. PICK p \in build.todo : FinishOutput(p)
    BY <1>8
  <2>2. build.pc \in DistPhases
    BY <2>1 DEF FinishOutput, At, DistPhases
  <2>3. \/ build' = B("hash", build.inputs, build.fn, Chunked, build.declared)
        \/ build' = B("finish", build.todo \ Group(p, build.todo), build.fn, build.json, build.declared)
    BY <2>1, Finishing
  <2>4. "finish" \in DistPhases /\ "hash" \in DistPhases
    BY DEF DistPhases
  <2> QED BY <1>6, <2>2, <2>3, <2>4
<1>9. CASE \E f \in Functions : HashFunction(f)
  <2>1. PICK f \in Functions : HashFunction(f)
    BY <1>9
  <2>2. build.pc \in DistPhases
    BY <2>1 DEF HashFunction, At, DistPhases
  <2>3. \/ build' = B("manifest", {}, build.fn, Hashed(f), build.declared)
        \/ build' = B("hash", build.todo \ {f}, build.fn, Hashed(f), build.declared)
    BY <2>1, Hashing
  <2>4. "manifest" \in DistPhases /\ "hash" \in DistPhases
    BY DEF DistPhases
  <2> QED BY <1>6, <2>2, <2>3, <2>4
<1>10. CASE OpenManifest
  <2>1. build.pc \in DistPhases /\ "written" \in DistPhases
    BY <1>10 DEF OpenManifest, At, DistPhases
  <2> QED BY <1>6, <1>10, <2>1, Opening
<1>11. CASE Capture
  <2>1. build.pc = "capture" /\ build.inputs \in SUBSET Functions /\ Bundled(build.outputs, build.inputs)
    BY <1>5, <1>11 DEF Capture, At
  <2>2. PICK loaded \in SUBSET (build.inputs \cap Present \cap Declaring) :
          build' = B("emit", build.inputs, build.fn, build.json, [f \in loaded |-> src[f]])
    BY <1>11, Capturing
  <2>3. \A f \in loaded : src[f] \in Nat
    BY <2>1 DEF TypeOK
  <2> DEFINE d == [f \in loaded |-> src[f]]
  <2>4. d = [f \in DOMAIN d |-> d[f]] /\ \A f \in DOMAIN d : d[f] \in Nat
    BY <2>3
  <2> HIDE DEF d
  <2>5. build' = B("emit", build.inputs, build.fn, build.json, d)
    BY <2>2 DEF d
  <2> QED BY <2>1, <2>4, <2>5, BuildMade DEF B, DistPhases, OutputPhases
<1>12. ASSUME NEW pc \in OutputPhases, NEW todo, NEW fn, NEW json,
              build.pc \in OutputPhases, build' = B(pc, todo, fn, json, build.declared)
       PROVE  BuildInv'
  <2>1. build.declared = [f \in DOMAIN build.declared |-> build.declared[f]] /\ \A f \in DOMAIN build.declared : build.declared[f] \in Nat
    BY <1>12 DEF BuildInv, OutputPhases, Idle
  <2>2. build.inputs \in SUBSET Functions /\ Bundled(build.outputs, build.inputs)
    BY <1>5, <1>12
  <2> QED BY <1>12, <2>1, <2>2, BuildMade DEF B, OutputPhases
<1>13. CASE \E f \in Functions : RemoveFunc(f)
  <2>1. PICK f \in Functions : RemoveFunc(f)
    BY <1>13
  <2>2. build.pc \in OutputPhases /\ "copy" \in OutputPhases
    BY <2>1 DEF RemoveFunc, At, OutputPhases
  <2> QED BY <1>12, <2>1, <2>2, Removing
<1>14. CASE CopyModule
  <2>1. build.pc \in OutputPhases
    BY <1>14 DEF CopyModule, At, OutputPhases
  <2>2. \E pc \in {"limit", "copy"} : build' = B(pc, build.todo, build.fn, build.json, build.declared)
    BY <1>14, Copying
  <2>3. {"limit", "copy"} \subseteq OutputPhases
    BY DEF OutputPhases
  <2> QED BY <1>12, <2>1, <2>2, <2>3
<1>15. CASE WriteLimit
  <2>1. build.pc \in OutputPhases /\ "routes" \in OutputPhases /\ "emit" \in OutputPhases
    BY <1>15 DEF WriteLimit, At, OutputPhases
  <2> QED BY <1>12, <1>15, <2>1, Limiting
<1>16. CASE OpenRoutes
  <2>1. build.pc \in OutputPhases /\ "opened" \in OutputPhases
    BY <1>16 DEF OpenRoutes, At, OutputPhases
  <2> QED BY <1>12, <1>16, <2>1, Routing
<1> QED
  BY <1>1, <1>2, <1>3, <1>4, <1>7, <1>8, <1>9, <1>10, <1>11, <1>13, <1>14, <1>15, <1>16 DEF Next, Build


-----------------------------------------------------------------------------
(* dist/ *)

LEMMA Fields ==
  ASSUME NEW pc, NEW todo, NEW fn, NEW json, NEW declared, build' = B(pc, todo, fn, json, declared)
  PROVE  /\ build'.pc = pc /\ build'.todo = todo /\ build'.fn = fn /\ build'.json = json /\ build'.declared = declared
         /\ build'.inputs = build.inputs /\ build'.outputs = build.outputs
BY DEF B

LEMMA OverFacts ==
  ASSUME NEW new, NEW old
  PROVE  /\ DOMAIN Over(new, old) = DOMAIN new \cup DOMAIN old
         /\ \A p \in DOMAIN new : Over(new, old)[p] = new[p]
         /\ \A p \in DOMAIN old \ DOMAIN new : Over(new, old)[p] = old[p]
         /\ Over(new, old) = [p \in DOMAIN Over(new, old) |-> Over(new, old)[p]]
BY DEF Over

LEMMA Putting ==
  ASSUME WroteInv, NEW contents, Put(contents)
  PROVE  dist' = [files |-> Over(contents, dist.files), manifest |-> dist.manifest]
<1>1. dist = [files |-> dist.files, manifest |-> dist.manifest]
  BY DEF WroteInv, Wrote
<1> QED BY <1>1 DEF Put

LEMMA WroteNext == WroteInv' <=> Wrote(build', dist')
BY DEF WroteInv, Wrote, Done, Chunks, Reachable, Imports, Lib, Code

\* Steps that leave dist/, or its files, alone.
LEMMA DistLeft ==
  ASSUME Next, ~\E p \in build.todo : WriteOutput(p) \/ FinishOutput(p), ~OpenManifest, ~WriteManifest
  PROVE  UNCHANGED <<dist, whole>>
BY DEF Next, Edit, FrontendBuild, Package, StartPackage, Plan, ReadJson, ReadFile, WritePayload, StopPackage, PackageAt,
       Build, StartBuild, StartVercelBuild, Starts, Bundle, StopBuild, HashFunction, RemoveFunc, Capture, CopyModule,
       WriteLimit, OpenRoutes, WriteRoutes, KeepsFiles, KeepsDist, ChangesFunc

\* The files of a group are of the bundle.
LEMMA GroupFacts ==
  ASSUME NEW of, NEW p \in of
  PROVE  Group(p, of) \subseteq of /\ p \in Group(p, of)
BY DEF Group

LEMMA WriteStep ==
  ASSUME BuildInv, WroteInv, NEW p \in build.todo, WriteOutput(p)
  PROVE  WroteInv'
<1> DEFINE g == Group(p, build.todo)
           raw == [q \in g |-> Raw(build.outputs[q])]
<1>1. build.pc = "write" /\ Put(raw)
  BY DEF WriteOutput, At
<1>2. dist' = [files |-> Over(raw, dist.files), manifest |-> dist.manifest]
  BY <1>1, Putting
<1>3. build.todo \subseteq DOMAIN build.outputs /\ \A q \in DOMAIN build.outputs \ build.todo : q \in DOMAIN dist.files
  BY <1>1 DEF WroteInv, Wrote
<1>4. g \subseteq build.todo /\ DOMAIN raw = g
  BY GroupFacts
<1> HIDE DEF g, raw
<1>o. dist'.files = Over(raw, dist.files)
  BY <1>2
<1>5. DOMAIN dist'.files = g \cup DOMAIN dist.files /\ dist'.files = [q \in DOMAIN dist'.files |-> dist'.files[q]]
  <2>1. /\ DOMAIN Over(raw, dist.files) = DOMAIN raw \cup DOMAIN dist.files
        /\ Over(raw, dist.files) = [q \in DOMAIN Over(raw, dist.files) |-> Over(raw, dist.files)[q]]
    BY OverFacts
  <2> QED BY <1>o, <1>4, <2>1
<1>6. dist' = [files |-> [q \in DOMAIN dist'.files |-> dist'.files[q]], manifest |-> dist'.manifest]
  BY <1>2, <1>5
<1>7. CASE build.todo \subseteq g
  <2>1. build' = B("finish", DOMAIN build.outputs, build.fn, build.json, build.declared)
    BY <1>7, WritingOut DEF g
  <2>2. build'.pc = "finish" /\ build'.todo = DOMAIN build.outputs /\ build'.outputs = build.outputs
    BY <2>1, Fields
  <2>3. Wrote(build', dist')
    BY <1>3, <1>5, <1>6, <1>7, <2>2 DEF Wrote
  <2> QED BY <2>3, WroteNext
<1>8. CASE ~(build.todo \subseteq g)
  <2>1. build' = B("write", build.todo \ g, build.fn, build.json, build.declared)
    BY <1>8, WritingOut DEF g
  <2>2. build'.pc = "write" /\ build'.todo = build.todo \ g /\ build'.outputs = build.outputs
    BY <2>1, Fields
  <2>3. Wrote(build', dist')
    BY <1>3, <1>5, <1>6, <2>2 DEF Wrote
  <2> QED BY <2>3, WroteNext
<1> QED BY <1>7, <1>8

LEMMA FinishStep ==
  ASSUME BuildInv, WroteInv, NEW p \in build.todo, FinishOutput(p)
  PROVE  WroteInv'
<1> DEFINE g == Group(p, build.todo)
           done == [q \in g |-> Done(build.outputs[q])]
<1>1. build.pc = "finish" /\ Put(done)
  BY DEF FinishOutput, At
<1>2. dist' = [files |-> Over(done, dist.files), manifest |-> dist.manifest]
  BY <1>1, Putting
<1>3. /\ build.todo \subseteq DOMAIN build.outputs
      /\ \A q \in DOMAIN build.outputs : q \in DOMAIN dist.files /\ (q \notin build.todo => dist.files[q] = Done(build.outputs[q]))
  BY <1>1 DEF WroteInv, Wrote
<1>4. g \subseteq build.todo /\ DOMAIN done = g /\ \A q \in g : done[q] = Done(build.outputs[q])
  BY GroupFacts
<1> HIDE DEF g, done
<1>o. dist'.files = Over(done, dist.files)
  BY <1>2
<1>5. DOMAIN dist'.files = g \cup DOMAIN dist.files /\ dist'.files = [q \in DOMAIN dist'.files |-> dist'.files[q]]
  <2>1. /\ DOMAIN Over(done, dist.files) = DOMAIN done \cup DOMAIN dist.files
        /\ Over(done, dist.files) = [q \in DOMAIN Over(done, dist.files) |-> Over(done, dist.files)[q]]
    BY OverFacts
  <2> QED BY <1>o, <1>4, <2>1
<1>6. dist' = [files |-> [q \in DOMAIN dist'.files |-> dist'.files[q]], manifest |-> dist'.manifest]
  BY <1>2, <1>5
<1>a. /\ \A q \in DOMAIN done : Over(done, dist.files)[q] = done[q]
      /\ \A q \in DOMAIN dist.files \ DOMAIN done : Over(done, dist.files)[q] = dist.files[q]
  BY DEF Over
<1>7. \A q \in DOMAIN build.outputs : q \in DOMAIN dist'.files /\ (q \notin build.todo \ g => dist'.files[q] = Done(build.outputs[q]))
  <2> SUFFICES ASSUME NEW q \in DOMAIN build.outputs
               PROVE  q \in DOMAIN dist'.files /\ (q \notin build.todo \ g => dist'.files[q] = Done(build.outputs[q]))
    OBVIOUS
  <2>1. q \in DOMAIN dist'.files
    BY <1>3, <1>5
  <2>2. CASE q \in g
    <3>1. dist'.files[q] = done[q]
      BY <1>o, <1>a, <1>4, <2>2
    <3> QED BY <1>4, <2>1, <2>2, <3>1
  <2>3. CASE q \notin g
    <3>1. dist'.files[q] = dist.files[q]
      <4>1. q \in DOMAIN dist.files \ DOMAIN done
        BY <1>3, <1>4, <2>3
      <4>2. Over(done, dist.files)[q] = dist.files[q]
        BY <1>a, <4>1
      <4> QED BY <1>o, <4>2
    <3> QED BY <1>3, <2>1, <2>3, <3>1
  <2> QED BY <2>2, <2>3
<1>8. CASE build.todo \subseteq g
  <2>1. build' = B("hash", build.inputs, build.fn, Chunked, build.declared)
    BY <1>8, Finishing DEF g
  <2>2. build'.pc = "hash" /\ build'.todo = build.inputs /\ build'.outputs = build.outputs /\ build'.inputs = build.inputs /\ build'.json = Chunked
    BY <2>1, Fields
  <2>3. \A c \in Chunks(build.outputs) : dist'.files[c] = Done(c)
    <3>1. \A c \in DOMAIN build.outputs \ Functions : build.outputs[c] = c
      BY <1>1, RunningBuild DEF BuildInv, Bundled, Idle
    <3> QED BY <1>7, <1>8, <3>1 DEF Chunks
  <2>4. [c \in Chunks(build.outputs) |-> dist'.files[c]] = [c \in Chunks(build.outputs) |-> Done(c)]
    BY <2>3
  <2>5. build'.inputs \ build'.todo = {}
    BY <2>2
  <2>6. NoFiles = [f \in build'.inputs \ build'.todo |-> build'.json.fns[f]]
    BY <2>5 DEF NoFiles
  <2>7. build'.json = [chunks |-> [c \in Chunks(build'.outputs) |-> Done(c)], fns |-> [f \in build'.inputs \ build'.todo |-> build'.json.fns[f]]]
    BY <2>2, <2>4, <2>6 DEF Chunked
  <2>8. \A q \in DOMAIN build'.outputs : q \in DOMAIN dist'.files /\ dist'.files[q] = Done(build'.outputs[q])
    BY <1>7, <1>8, <2>2
  <2>9. Wrote(build', dist')
    BY <1>6, <2>2, <2>5, <2>7, <2>8 DEF Wrote
  <2> QED BY <2>9, WroteNext
<1>9. CASE ~(build.todo \subseteq g)
  <2>1. build' = B("finish", build.todo \ g, build.fn, build.json, build.declared)
    BY <1>9, Finishing DEF g
  <2>2. build'.pc = "finish" /\ build'.todo = build.todo \ g /\ build'.outputs = build.outputs
    BY <2>1, Fields
  <2>3. Wrote(build', dist')
    BY <1>3, <1>6, <1>7, <2>2 DEF Wrote
  <2> QED BY <2>3, WroteNext
<1> QED BY <1>8, <1>9

LEMMA HashStep ==
  ASSUME BuildInv, WroteInv, NEW f \in Functions, HashFunction(f)
  PROVE  WroteInv'
<1> DEFINE entry == [hash |-> dist.files[f], modules |-> Reachable(f, build.outputs), limit |-> src[f]]
           fns == Over([h \in {f} |-> entry], build.json.fns)
           done == build.inputs \ build.todo
           later == build.inputs \ (build.todo \ {f})
<1>1. build.pc = "hash" /\ f \in build.todo /\ dist' = dist
  BY DEF HashFunction, At, KeepsFiles
<1>2. /\ \A p \in DOMAIN build.outputs : p \in DOMAIN dist.files /\ dist.files[p] = Done(build.outputs[p])
      /\ build.todo \subseteq build.inputs
      /\ build.json = [chunks |-> [c \in Chunks(build.outputs) |-> Done(c)], fns |-> [h \in done |-> build.json.fns[h]]]
      /\ \A h \in done : build.json.fns[h].hash = Done(build.outputs[h]) /\ build.json.fns[h].modules = Reachable(h, build.outputs)
      /\ dist = [files |-> [p \in DOMAIN dist.files |-> dist.files[p]], manifest |-> dist.manifest]
  BY <1>1 DEF WroteInv, Wrote
<1>3. f \in build.inputs /\ f \in DOMAIN build.outputs
  BY <1>1, <1>2, RunningBuild DEF BuildInv, Bundled, Idle
<1>4. entry.hash = Done(build.outputs[f]) /\ entry.modules = Reachable(f, build.outputs)
  BY <1>2, <1>3
<1>5. DOMAIN build.json.fns = done
  BY <1>2
<1>6. Hashed(f) = [chunks |-> [c \in Chunks(build.outputs) |-> Done(c)], fns |-> fns]
  <2> DEFINE c == [x \in Chunks(build.outputs) |-> Done(x)]
             o == build.json.fns
  <2>1. build.json = [chunks |-> c, fns |-> o]
    BY <1>2
  <2>2. Hashed(f) = [build.json EXCEPT !.fns = Over([h \in {f} |-> entry], @)] /\ fns = Over([h \in {f} |-> entry], o)
    BY DEF Hashed, FunctionEntry
  <2> HIDE DEF c, o, entry, fns
  <2>3. Hashed(f) = [chunks |-> c, fns |-> fns]
    BY <2>1, <2>2
  <2> QED BY <2>3 DEF c
<1>7. later = done \cup {f} /\ f \notin done
  BY <1>1, <1>2
<1> HIDE DEF done, later
<1>8. /\ DOMAIN fns = later /\ fns[f] = entry /\ fns = [h \in DOMAIN fns |-> fns[h]]
      /\ \A h \in done : fns[h] = build.json.fns[h]
  <2>1. DOMAIN [h \in {f} |-> entry] = {f} /\ [h \in {f} |-> entry][f] = entry
    OBVIOUS
  <2> DEFINE new == [h \in {f} |-> entry]
             old == build.json.fns
  <2> HIDE DEF entry, new, old
  <2>2. DOMAIN new = {f} /\ new[f] = entry /\ DOMAIN old = done /\ fns = Over(new, old)
    BY <1>5, <2>1 DEF new, old
  <2>3. /\ DOMAIN Over(new, old) = DOMAIN new \cup DOMAIN old
        /\ \A p \in DOMAIN new : Over(new, old)[p] = new[p]
        /\ \A p \in DOMAIN old \ DOMAIN new : Over(new, old)[p] = old[p]
        /\ Over(new, old) = [p \in DOMAIN Over(new, old) |-> Over(new, old)[p]]
    BY OverFacts
  <2> HIDE DEF fns
  <2>4. DOMAIN fns = later /\ fns[f] = entry /\ fns = [h \in DOMAIN fns |-> fns[h]]
    BY <1>7, <2>2, <2>3
  <2>5. \A h \in done : fns[h] = old[h]
    BY <1>7, <2>2, <2>3
  <2> QED BY <2>4, <2>5 DEF old
<1>9. \A h \in later : fns[h].hash = Done(build.outputs[h]) /\ fns[h].modules = Reachable(h, build.outputs)
  <2>1. fns[f].hash = Done(build.outputs[f]) /\ fns[f].modules = Reachable(f, build.outputs)
    BY <1>4, <1>8
  <2> QED BY <1>2, <1>7, <1>8, <2>1
<1> HIDE DEF fns, entry
<1>10. PICK pc \in {"hash", "manifest"} : build' = B(pc, build.todo \ {f}, build.fn, Hashed(f), build.declared) /\ (pc # "hash" => build.todo \ {f} = {})
  <2>1. CASE build.todo \subseteq {f}
    <3>1. build.todo \ {f} = {}
      BY <2>1
    <3>2. build' = B("manifest", {}, build.fn, Hashed(f), build.declared)
      BY <2>1, Hashing
    <3> QED BY <3>1, <3>2
  <2>2. CASE ~(build.todo \subseteq {f})
    <3>1. build' = B("hash", build.todo \ {f}, build.fn, Hashed(f), build.declared)
      BY <2>2, Hashing
    <3> QED BY <3>1
  <2> QED BY <2>1, <2>2
<1>11. build'.pc = pc /\ build'.todo = build.todo \ {f} /\ build'.json = Hashed(f) /\ build'.inputs = build.inputs /\ build'.outputs = build.outputs
  BY <1>10, Fields
<1>12. build'.json.fns = fns /\ build'.inputs \ build'.todo = later
  BY <1>6, <1>11 DEF later
<1>13. build'.json = [chunks |-> [c \in Chunks(build'.outputs) |-> Done(c)], fns |-> [h \in build'.inputs \ build'.todo |-> build'.json.fns[h]]]
  BY <1>6, <1>8, <1>11, <1>12
<1>14. \A h \in build'.inputs \ build'.todo : build'.json.fns[h].hash = Done(build'.outputs[h]) /\ build'.json.fns[h].modules = Reachable(h, build'.outputs)
  BY <1>9, <1>11, <1>12
<1>15. build'.todo \subseteq build'.inputs /\ (build'.pc # "hash" => build'.todo = {})
  BY <1>2, <1>10, <1>11
<1>p. \A p \in DOMAIN build'.outputs : p \in DOMAIN dist'.files /\ dist'.files[p] = Done(build'.outputs[p])
  BY <1>1, <1>2, <1>11
<1>d. dist' = [files |-> [p \in DOMAIN dist'.files |-> dist'.files[p]], manifest |-> dist'.manifest]
  BY <1>1, <1>2
<1>16. Wrote(build', dist')
  BY <1>p, <1>d, <1>10, <1>11, <1>13, <1>14, <1>15 DEF Wrote
<1> QED BY <1>16, WroteNext

LEMMA WroteStep ==
  ASSUME TypeOK, BuildInv, WroteInv, Next
  PROVE  WroteInv'
<1>0. dist = [files |-> [p \in DOMAIN dist.files |-> dist.files[p]], manifest |-> dist.manifest]
  BY DEF WroteInv, Wrote
<1>1. CASE \E p \in build.todo : WriteOutput(p)
  BY <1>1, WriteStep
<1>2. CASE \E p \in build.todo : FinishOutput(p)
  BY <1>2, FinishStep
<1>3. CASE \E f \in Functions : HashFunction(f)
  BY <1>3, HashStep
<1>4. CASE OpenManifest
  <2>1. build.pc = "manifest" /\ dist' = [dist EXCEPT !.manifest = Torn]
    BY <1>4 DEF OpenManifest, At
  <2>2. dist' = [files |-> dist.files, manifest |-> Torn] /\ dist.files = [p \in DOMAIN dist.files |-> dist.files[p]]
    BY <1>0, <2>1
  <2>3. build' = B("written", {}, build.fn, build.json, build.declared) /\ build.todo = {}
    BY <1>4, <2>1, Opening DEF WroteInv, Wrote
  <2>4. build'.pc = "written" /\ build'.todo = build.todo /\ build'.json = build.json /\ build'.inputs = build.inputs /\ build'.outputs = build.outputs
    BY <2>3, Fields
  <2>5. Wrote(build', dist')
    BY <2>1, <2>2, <2>3, <2>4, ZenonT(60) DEF WroteInv, Wrote
  <2> QED BY <2>5, WroteNext
<1>5. CASE WriteManifest
  <2>1. dist' = [files |-> dist.files, manifest |-> build.json] /\ build' = Idle /\ dist.files = [p \in DOMAIN dist.files |-> dist.files[p]]
    BY <1>0, <1>5 DEF WriteManifest
  <2>2. Wrote(build', dist')
    BY <2>1 DEF Wrote, Idle
  <2> QED BY <2>2, WroteNext
<1> SUFFICES ASSUME ~\E p \in build.todo : WriteOutput(p) \/ FinishOutput(p), ~OpenManifest, ~WriteManifest, ~\E f \in Functions : HashFunction(f)
             PROVE  WroteInv'
  BY <1>1, <1>2, <1>3, <1>4, <1>5
<1>6. dist' = dist
  BY DistLeft
<1>7. ASSUME build'.pc \notin DistPhases PROVE WroteInv'
  <2>1. Wrote(build', dist')
    BY <1>0, <1>6, <1>7 DEF Wrote, DistPhases
  <2> QED BY <2>1, WroteNext
<1>8. CASE Edit \/ FrontendBuild \/ Package
  <2>1. Wrote(build', dist')
    BY <1>6, <1>8, BuildLeft DEF WroteInv
  <2> QED BY <2>1, WroteNext
<1>9. CASE StartBuild \/ StartVercelBuild
  <2>1. build'.pc = "bundle"
    BY <1>9, Starting DEF StartBuild, StartVercelBuild
  <2> QED BY <1>7, <2>1 DEF DistPhases
<1>10. CASE Bundle
  <2>1. build'.pc \in {"write", "capture"} /\ build'.todo = DOMAIN build'.outputs
    BY <1>10, Bundling
  <2>2. Wrote(build', dist')
    BY <1>0, <1>6, <2>1 DEF Wrote
  <2> QED BY <2>2, WroteNext
<1>11. CASE StopBuild \/ WriteRoutes
  <2>1. build'.pc = "idle"
    BY <1>11 DEF StopBuild, WriteRoutes, Idle
  <2> QED BY <1>7, <2>1 DEF DistPhases
<1>12. CASE Capture
  <2>1. build'.pc = "emit"
    BY <1>12, Capturing, Fields, ZenonT(60)
  <2> QED BY <1>7, <2>1 DEF DistPhases
<1>13. CASE \E f \in Functions : RemoveFunc(f)
  <2>1. build'.pc = "copy"
    BY <1>13, Removing, Fields
  <2> QED BY <1>7, <2>1 DEF DistPhases
<1>14. CASE CopyModule
  <2>1. \E pc \in {"limit", "copy"} : build' = B(pc, build.todo, build.fn, build.json, build.declared)
    BY <1>14, Copying
  <2>2. build'.pc \in {"limit", "copy"}
    BY <2>1, Fields
  <2> QED BY <1>7, <2>2 DEF DistPhases
<1>15. CASE WriteLimit
  <2>1. build'.pc \in {"routes", "emit"}
    BY <1>15, Limiting, Fields
  <2> QED BY <1>7, <2>1 DEF DistPhases
<1>16. CASE OpenRoutes
  <2>1. build'.pc = "opened"
    BY <1>16, Routing, Fields
  <2> QED BY <1>7, <2>1 DEF DistPhases
<1> QED
  BY <1>8, <1>9, <1>10, <1>11, <1>12, <1>13, <1>14, <1>15, <1>16 DEF Next, Build

\* A build that is about to write its manifest has written all that it names.
LEMMA JsonIsManifest ==
  ASSUME BuildInv, WroteInv, build.pc = "written"
  PROVE  IsManifest(build.json) /\ Matches(build.json, dist.files)
<1> DEFINE fs == build.inputs
           m == build.json
           outputs == build.outputs
<1>1. fs \in SUBSET Functions /\ Bundled(outputs, fs)
  BY RunningBuild DEF BuildInv, Idle
<1>2. PICK of \in Versions : BundledOf(outputs, fs, of)
  BY <1>1, BundleOf
<1>3. /\ \A p \in DOMAIN outputs : p \in DOMAIN dist.files /\ dist.files[p] = Done(outputs[p])
      /\ build.todo = {}
      /\ m = [chunks |-> [c \in Chunks(outputs) |-> Done(c)], fns |-> [f \in fs \ build.todo |-> m.fns[f]]]
      /\ \A f \in fs \ build.todo : m.fns[f].hash = Done(outputs[f]) /\ m.fns[f].modules = Reachable(f, outputs)
  BY DEF WroteInv, Wrote
<1>4. fs \ build.todo = fs
  BY <1>3
<1>5. m = [chunks |-> [c \in Chunks(outputs) |-> Done(c)], fns |-> [f \in fs |-> m.fns[f]]]
  BY <1>3, <1>4
<1>6. \A f \in fs : m.fns[f].hash = Done(outputs[f]) /\ m.fns[f].modules = {f, outputs[f]} \cup Shared(of, fs)
  <2> SUFFICES ASSUME NEW f \in fs PROVE m.fns[f].hash = Done(outputs[f]) /\ m.fns[f].modules = {f, outputs[f]} \cup Shared(of, fs)
    OBVIOUS
  <2> HIDE DEF fs, m, outputs
  <2>1. Reachable(f, outputs) = {f, outputs[f]} \cup Shared(of, fs)
    <3>1. \A g \in fs : /\ Reachable(g, outputs) = {g, outputs[g]} \cup Shared(of, fs)
                         /\ Reachable(g, outputs) \subseteq DOMAIN outputs
                         /\ Reachable(g, [h \in {g} |-> outputs[g]]) = Reachable(g, outputs)
      BY <1>1, <1>2, BundleFiles, Zenon
    <3> QED BY <3>1
  <2> QED BY <1>3, <1>4, <2>1
<1>7. \A f \in fs : OneOf(outputs[f], f, of, Cardinality(fs) > 1) /\ f \in DOMAIN outputs /\ f \in Functions
  BY <1>1, <1>2 DEF BundledOf
<1>8. Chunks(outputs) = {outputs[f] : f \in fs} \cup Shared(of, fs)
  BY <1>1, <1>2, BundleFiles DEF Chunks
<1>9. \A c \in Chunks(outputs) : c \in DOMAIN outputs /\ outputs[c] = c
  BY <1>2 DEF BundledOf, Chunks
<1> HIDE DEF fs, m, outputs
<1>10. DOMAIN m.fns = fs /\ m.chunks = [c \in Chunks(outputs) |-> Done(c)] /\ DOMAIN m.chunks = Chunks(outputs)
  BY <1>5
<1>11. \A f \in fs : m.fns[f].hash.body = outputs[f]
  <2>1. \A x : Done(x).body = x
    BY DEF Done
  <2> QED BY <1>6, <2>1
<1>12. \A f \in fs : EntryOK(m.fns[f], f, of, fs)
  BY <1>6, <1>7, <1>11 DEF EntryOK
<1>13. {m.fns[f].hash.body : f \in fs} = {outputs[f] : f \in fs}
  BY <1>11
<1>15. IsManifest(m)
  BY <1>1, <1>8, <1>10, <1>12, <1>13 DEF IsManifest
<1>16. Matches(m, dist.files)
  BY <1>3, <1>6, <1>7, <1>9, <1>10 DEF Matches
<1> QED BY <1>15, <1>16 DEF m

LEMMA WholeNext == WholeInv' <=> Left(dist', whole')
BY DEF WholeInv, Left, ManifestOrNot, IsManifest, EntryOK, OneOf, Shared, Matches, Done, Lib, Code

\* What the steps that change dist/ do.
LEMMA DistChanged ==
  ASSUME WroteInv, \/ \E p \in build.todo : WriteOutput(p) \/ FinishOutput(p)
                   \/ OpenManifest
  PROVE  /\ whole' = FALSE /\ dist'.manifest \in {dist.manifest, Torn}
         /\ package' = IF package.pc = "idle" THEN package ELSE [package EXCEPT !.alone = FALSE]
<1>1. ASSUME NEW contents, Put(contents) PROVE dist'.manifest = dist.manifest
  BY <1>1, Putting
<1>2. CASE \E p \in build.todo : WriteOutput(p) \/ FinishOutput(p)
  BY <1>1, <1>2 DEF WriteOutput, FinishOutput, ChangesDist
<1>3. CASE OpenManifest
  <2>1. dist'.manifest = Torn
    BY <1>3 DEF OpenManifest, WroteInv, Wrote
  <2> QED BY <1>3, <2>1 DEF OpenManifest, ChangesDist
<1> QED BY <1>2, <1>3

LEMMA WholeStep ==
  ASSUME BuildInv, WroteInv, WholeInv, Next
  PROVE  WholeInv'
<1>1. CASE \/ \E p \in build.todo : WriteOutput(p) \/ FinishOutput(p)
           \/ OpenManifest
  <2>1. Left(dist', whole')
    BY <1>1, DistChanged DEF WholeInv, Left, ManifestOrNot
  <2> QED BY <2>1, WholeNext
<1>2. CASE WriteManifest
  <2>1. dist = [files |-> dist.files, manifest |-> dist.manifest]
    BY DEF WroteInv, Wrote
  <2>2. dist'.files = dist.files /\ dist'.manifest = build.json /\ build.pc = "written"
    BY <1>2, <2>1 DEF WriteManifest, At
  <2>3. Left(dist', whole')
    BY <2>2, JsonIsManifest DEF Left, ManifestOrNot
  <2> QED BY <2>3, WholeNext
<1>3. CASE ~(\/ \E p \in build.todo : WriteOutput(p) \/ FinishOutput(p)
             \/ OpenManifest) /\ ~WriteManifest
  <2>1. Left(dist', whole')
    BY <1>3, DistLeft DEF WholeInv
  <2> QED BY <2>1, WholeNext
<1> QED BY <1>1, <1>2, <1>3

-----------------------------------------------------------------------------
(* The package command *)

LEMMA PackageNext == PackageInv' <=> Packing(package', dist', whole')
BY DEF PackageInv, Packing, ManifestOrNot, IsManifest, EntryOK, OneOf, Shared, Done, Lib, Code, Idle

LEMMA PackageLeft ==
  ASSUME Next, ~Package, ~\E p \in build.todo : WriteOutput(p) \/ FinishOutput(p), ~OpenManifest, ~WriteManifest
  PROVE  package' = package
BY DEF Next, Edit, FrontendBuild, Build, StartBuild, StartVercelBuild, Starts, Bundle, StopBuild, HashFunction, RemoveFunc,
       Capture, CopyModule, WriteLimit, OpenRoutes, WriteRoutes, KeepsFiles, KeepsDist, ChangesFunc

\* A command with these fields.
Command(pc, parsed, alone, plan, files, manifest) ==
  [pc |-> pc, parsed |-> parsed, alone |-> alone, plan |-> plan, files |-> files, manifest |-> manifest]
LEMMA Packs ==
  ASSUME NEW pc, NEW parsed, NEW alone, NEW plan, NEW files, NEW manifest,
         package' = Command(pc, parsed, alone, plan, files, manifest), files = [p \in DOMAIN files |-> files[p]]
  PROVE  /\ package'.pc = pc /\ package'.parsed = parsed /\ package'.alone = alone
         /\ package'.plan = plan /\ package'.files = files /\ package'.manifest = manifest
         /\ package' = [pc |-> package'.pc, parsed |-> package'.parsed, alone |-> package'.alone, plan |-> package'.plan,
                        files |-> [p \in DOMAIN package'.files |-> package'.files[p]], manifest |-> package'.manifest]
BY DEF Command

LEMMA Overlapped ==
  ASSUME PackageInv, package' = IF package.pc = "idle" THEN package ELSE [package EXCEPT !.alone = FALSE]
  PROVE  PackageInv'
<1>1. CASE package = Idle
  <2>1. package' = Idle
    BY <1>1 DEF Idle
  <2>2. Packing(package', dist', whole')
    BY <2>1 DEF Packing
  <2> QED BY <2>2, PackageNext
<1>2. CASE package # Idle
  <2>1. /\ package = [pc |-> package.pc, parsed |-> package.parsed, alone |-> package.alone, plan |-> package.plan,
                      files |-> [p \in DOMAIN package.files |-> package.files[p]], manifest |-> package.manifest]
        /\ package.pc \in {"plan", "json", "read", "hash"} /\ IsManifest(package.parsed)
        /\ package.pc \in {"read", "hash"} => ManifestOrNot(package.manifest)
    BY <1>2 DEF PackageInv, Packing
  <2>2. package' = [package EXCEPT !.alone = FALSE]
    BY <2>1
  <2>3. package = Command(package.pc, package.parsed, package.alone, package.plan, package.files, package.manifest)
        /\ package.files = [p \in DOMAIN package.files |-> package.files[p]]
    <3>1. package.files = [p \in DOMAIN package.files |-> package.files[p]]
      BY <2>1
    <3> QED BY <2>1, <3>1 DEF Command
  <2>4. package' = Command(package.pc, package.parsed, FALSE, package.plan, package.files, package.manifest)
    BY <2>2, <2>3 DEF Command
  <2>5. /\ package'.pc = package.pc /\ package'.parsed = package.parsed /\ package'.alone = FALSE /\ package'.manifest = package.manifest
        /\ package' = [pc |-> package'.pc, parsed |-> package'.parsed, alone |-> package'.alone, plan |-> package'.plan,
                       files |-> [p \in DOMAIN package'.files |-> package'.files[p]], manifest |-> package'.manifest]
    <3> DEFINE fields == package'.pc = package.pc /\ package'.parsed = package.parsed /\ package'.alone = FALSE /\ package'.manifest = package.manifest
    <3>1. fields /\ package'.plan = package.plan /\ package'.files = package.files
      BY <2>4 DEF Command
    <3>2. package' = [pc |-> package'.pc, parsed |-> package'.parsed, alone |-> package'.alone, plan |-> package'.plan, files |-> package'.files, manifest |-> package'.manifest]
      BY <2>4, <3>1 DEF Command
    <3>3. package'.files = [p \in DOMAIN package'.files |-> package'.files[p]]
      BY <2>3, <3>1
    <3> QED BY <3>1, <3>2, <3>3
  <2>6. Packing(package', dist', whole')
    BY <2>1, <2>5 DEF Packing
  <2> QED BY <2>6, PackageNext
<1> QED BY <1>1, <1>2

LEMMA PackageStep ==
  ASSUME WroteInv, WholeInv, PackageInv, Next
  PROVE  PackageInv'
<1>1. CASE \/ \E p \in build.todo : WriteOutput(p) \/ FinishOutput(p)
           \/ OpenManifest
  BY <1>1, DistChanged, Overlapped
<1>2. CASE WriteManifest
  BY <1>2, Overlapped DEF WriteManifest
<1>3. CASE ~Package /\ ~(\/ \E p \in build.todo : WriteOutput(p) \/ FinishOutput(p)
                         \/ OpenManifest) /\ ~WriteManifest
  <2>1. Packing(package', dist', whole')
    BY <1>3, DistLeft, PackageLeft DEF PackageInv
  <2> QED BY <2>1, PackageNext
<1>4. ASSUME package' = Idle PROVE PackageInv'
  <2>1. Packing(package', dist', whole')
    BY <1>4 DEF Packing
  <2> QED BY <2>1, PackageNext
<1>5. CASE StartPackage
  <2>1. /\ package' = [pc |-> "plan", parsed |-> dist.manifest, alone |-> whole /\ build.pc = "idle", plan |-> {}, files |-> NoFiles, manifest |-> None]
        /\ UNCHANGED <<dist, whole>> /\ dist.manifest \notin {None, Torn}
    BY <1>5 DEF StartPackage
  <2>2. IsManifest(dist.manifest)
    BY <2>1 DEF WholeInv, Left, ManifestOrNot
  <2>3. NoFiles = [p \in DOMAIN NoFiles |-> NoFiles[p]] /\ DOMAIN NoFiles = {}
    BY DEF NoFiles
  <2> DEFINE a == whole /\ build.pc = "idle"
  <2>4. a \in BOOLEAN /\ (a => whole)
    OBVIOUS
  <2> HIDE DEF a
  <2>5. package' = Command("plan", dist.manifest, a, {}, NoFiles, None)
    BY <2>1 DEF a, Command
  <2>6. /\ package'.pc = "plan" /\ package'.parsed = dist.manifest /\ package'.alone = a /\ package'.files = NoFiles
        /\ package' = [pc |-> package'.pc, parsed |-> package'.parsed, alone |-> package'.alone, plan |-> package'.plan,
                       files |-> [p \in DOMAIN package'.files |-> package'.files[p]], manifest |-> package'.manifest]
    BY <2>3, <2>5, Packs
  <2>7. Packing(package', dist', whole')
    BY <2>1, <2>2, <2>3, <2>4, <2>6 DEF Packing
  <2> QED BY <2>7, PackageNext
<1>6. ASSUME package.pc \in {"plan", "json", "read", "hash"}
      PROVE  /\ package = [pc |-> package.pc, parsed |-> package.parsed, alone |-> package.alone, plan |-> package.plan,
                           files |-> package.files, manifest |-> package.manifest]
             /\ package.files = [p \in DOMAIN package.files |-> package.files[p]]
             /\ package.alone \in BOOLEAN /\ IsManifest(package.parsed)
             /\ package.pc \in {"read", "hash"} => ManifestOrNot(package.manifest)
             /\ package.alone =>
                  /\ whole /\ package.parsed = dist.manifest /\ dist.manifest \notin {None, Torn}
                  /\ package.pc = "json" => package.plan = DOMAIN dist.files
                  /\ package.pc \in {"plan", "json"} => DOMAIN package.files = {}
                  /\ package.pc \in {"read", "hash"} =>
                       /\ package.manifest = dist.manifest /\ package.plan \cup DOMAIN package.files = DOMAIN dist.files
                       /\ \A p \in DOMAIN package.files : package.files[p] = dist.files[p]
  <2>1. package # Idle
    BY <1>6 DEF Idle
  <2>2. /\ package = [pc |-> package.pc, parsed |-> package.parsed, alone |-> package.alone, plan |-> package.plan,
                      files |-> [p \in DOMAIN package.files |-> package.files[p]], manifest |-> package.manifest]
    BY <2>1 DEF PackageInv, Packing
  <2>3. package.files = [p \in DOMAIN package.files |-> package.files[p]]
    BY <2>2
  <2> QED BY <2>1, <2>2, <2>3 DEF PackageInv, Packing
<1>7. CASE Plan
  <2>1. package.pc = "plan" /\ UNCHANGED <<dist, whole>>
    BY <1>7 DEF Plan, PackageAt
  <2>2. CASE package' = [package EXCEPT !.pc = "json", !.plan = DOMAIN dist.files]
    <3>1. package' = Command("json", package.parsed, package.alone, DOMAIN dist.files, package.files, package.manifest)
      <4> DEFINE pk == [package EXCEPT !.pc = "json"]
      <4>1. pk = Command("json", package.parsed, package.alone, package.plan, package.files, package.manifest)
        BY <1>6, <2>1 DEF Command
      <4>2. package' = [pk EXCEPT !.plan = DOMAIN dist.files]
        BY <2>2
      <4> HIDE DEF pk
      <4> QED BY <4>1, <4>2 DEF Command
    <3>2. /\ package'.pc = "json" /\ package'.parsed = package.parsed /\ package'.alone = package.alone
          /\ package'.plan = DOMAIN dist.files /\ package'.files = package.files
          /\ package' = [pc |-> package'.pc, parsed |-> package'.parsed, alone |-> package'.alone, plan |-> package'.plan,
                         files |-> [p \in DOMAIN package'.files |-> package'.files[p]], manifest |-> package'.manifest]
      BY <1>6, <2>1, <3>1, Packs
    <3>3. Packing(package', dist', whole')
      BY <1>6, <2>1, <3>2 DEF Packing
    <3> QED BY <3>3, PackageNext
  <2>3. package' = Idle \/ package' = [package EXCEPT !.pc = "json", !.plan = DOMAIN dist.files]
    BY <1>7 DEF Plan, PackageFails
  <2> QED BY <1>4, <2>2, <2>3
<1>8. CASE ReadJson
  <2>1. package.pc = "json" /\ UNCHANGED <<dist, whole>> /\ package' = [package EXCEPT !.pc = "read", !.manifest = dist.manifest]
    BY <1>8 DEF ReadJson, PackageAt
  <2>2. package' = Command("read", package.parsed, package.alone, package.plan, package.files, dist.manifest)
    <3> DEFINE pk == [package EXCEPT !.pc = "read"]
    <3>1. pk = Command("read", package.parsed, package.alone, package.plan, package.files, package.manifest)
      BY <1>6, <2>1 DEF Command
    <3>2. package' = [pk EXCEPT !.manifest = dist.manifest]
      BY <2>1
    <3> HIDE DEF pk
    <3> QED BY <3>1, <3>2 DEF Command
  <2>3. ManifestOrNot(dist.manifest)
    BY DEF WholeInv, Left
  <2>4. /\ package'.pc = "read" /\ package'.parsed = package.parsed /\ package'.alone = package.alone
        /\ package'.plan = package.plan /\ package'.files = package.files /\ package'.manifest = dist.manifest
        /\ package' = [pc |-> package'.pc, parsed |-> package'.parsed, alone |-> package'.alone, plan |-> package'.plan,
                       files |-> [p \in DOMAIN package'.files |-> package'.files[p]], manifest |-> package'.manifest]
    BY <1>6, <2>1, <2>2, Packs
  <2>5. Packing(package', dist', whole')
    BY <1>6, <2>1, <2>3, <2>4 DEF Packing
  <2> QED BY <2>5, PackageNext
<1>9. CASE \E p \in package.plan : ReadFile(p)
  <2>1. PICK p \in package.plan : ReadFile(p)
    BY <1>9
  <2> DEFINE ps == Group(p, package.plan)
             new == [q \in ps |-> dist.files[q]]
             files == Over(new, package.files)
             pc == IF package.plan \subseteq ps THEN "hash" ELSE package.pc
  <2>2. /\ package.pc = "read" /\ UNCHANGED <<dist, whole>>
        /\ package' = [package EXCEPT !.plan = @ \ ps, !.files = Over(new, @), !.pc = IF package.plan \subseteq ps THEN "hash" ELSE @]
    BY <2>1 DEF ReadFile, PackageAt
  <2>3. ps \subseteq package.plan /\ DOMAIN new = ps
    BY GroupFacts
  <2>4. package' = Command(pc, package.parsed, package.alone, package.plan \ ps, files, package.manifest)
    <3> DEFINE a == [package EXCEPT !.plan = @ \ ps]
               b == [a EXCEPT !.files = Over(new, @)]
    <3>1. a = Command(package.pc, package.parsed, package.alone, package.plan \ ps, package.files, package.manifest)
      BY <1>6, <2>2 DEF Command
    <3>2. package' = [[a EXCEPT !.files = Over(new, @)] EXCEPT !.pc = IF package.plan \subseteq ps THEN "hash" ELSE @]
      BY <2>2
    <3> HIDE DEF a, ps, new
    <3>3. b = Command(package.pc, package.parsed, package.alone, package.plan \ ps, files, package.manifest)
      BY <3>1 DEF Command
    <3> HIDE DEF b
    <3>4. package' = [b EXCEPT !.pc = IF package.plan \subseteq ps THEN "hash" ELSE @]
      BY <3>2 DEF b
    <3> HIDE DEF files
    <3> QED BY <3>3, <3>4 DEF Command
  <2>5. pc \in {"read", "hash"} /\ (pc = "hash" => package.plan \ ps = {})
    BY <2>2
  <2> HIDE DEF pc, ps
  <2>6. /\ DOMAIN files = ps \cup DOMAIN package.files /\ files = [q \in DOMAIN files |-> files[q]]
        /\ \A q \in ps : files[q] = dist.files[q]
        /\ \A q \in DOMAIN package.files \ ps : files[q] = package.files[q]
    <3>1. DOMAIN new = ps /\ \A q \in ps : new[q] = dist.files[q]
      OBVIOUS
    <3> HIDE DEF new
    <3> QED BY <3>1 DEF Over
  <2> HIDE DEF new, files
  <2>7. package.alone =>
          /\ package.manifest = dist.manifest /\ (package.plan \ ps) \cup DOMAIN files = DOMAIN dist.files
          /\ \A q \in DOMAIN files : files[q] = dist.files[q]
    <3> SUFFICES ASSUME package.alone
                 PROVE  /\ package.manifest = dist.manifest /\ (package.plan \ ps) \cup DOMAIN files = DOMAIN dist.files
                        /\ \A q \in DOMAIN files : files[q] = dist.files[q]
      OBVIOUS
    <3>1. /\ package.manifest = dist.manifest /\ package.plan \cup DOMAIN package.files = DOMAIN dist.files
          /\ \A q \in DOMAIN package.files : package.files[q] = dist.files[q]
      BY <1>6, <2>2
    <3> QED BY <2>3, <2>6, <3>1
  <2> DEFINE plan == package.plan \ ps
  <2>8. package' = Command(pc, package.parsed, package.alone, plan, files, package.manifest)
    BY <2>4
  <2>9. (pc = "hash" => plan = {}) /\ (package.alone => plan \cup DOMAIN files = DOMAIN dist.files)
    BY <2>5, <2>7
  <2> HIDE DEF plan
  <2>10. /\ package.alone \in BOOLEAN /\ IsManifest(package.parsed) /\ ManifestOrNot(package.manifest)
         /\ package.alone => whole /\ package.parsed = dist.manifest /\ dist.manifest \notin {None, Torn}
    BY <1>6, <2>2
  <2>11. /\ package'.pc = pc /\ package'.parsed = package.parsed /\ package'.alone = package.alone
         /\ package'.plan = plan /\ package'.files = files /\ package'.manifest = package.manifest
         /\ package' = [pc |-> package'.pc, parsed |-> package'.parsed, alone |-> package'.alone, plan |-> package'.plan,
                        files |-> [q \in DOMAIN package'.files |-> package'.files[q]], manifest |-> package'.manifest]
    BY <2>6, <2>8, Packs
  <2>12. Packing(package', dist', whole')
    BY <2>2, <2>5, <2>7, <2>9, <2>10, <2>11 DEF Packing
  <2> QED BY <2>12, PackageNext
<1>10. CASE WritePayload \/ StopPackage
  BY <1>4, <1>10 DEF WritePayload, StopPackage
<1> QED BY <1>1, <1>2, <1>3, <1>5, <1>7, <1>8, <1>9, <1>10 DEF Next, Package

LEMMA Sealing ==
  ASSUME WroteInv, WholeInv, PackageInv, package.pc = "hash", NEW cut \in BOOLEAN
  PROVE  Sealed(Payload(cut))
<1> DEFINE p == Payload(cut)
<1>1. p = [envelope |-> [manifest |-> package.manifest, content |-> Fingerprint(package.parsed, dist.files)],
           manifest |-> package.manifest, files |-> package.files, alone |-> package.alone, cut |-> cut]
  BY DEF Payload, Envelope
<1> HIDE DEF p
<1>2. /\ p.manifest = package.manifest /\ p.files = package.files /\ p.alone = package.alone /\ p.cut = cut
      /\ p.envelope.manifest = package.manifest /\ p.envelope.content = Fingerprint(package.parsed, dist.files)
  BY <1>1
<1>3. package # Idle
  BY DEF Idle
<1>4. /\ ManifestOrNot(package.manifest) /\ package.alone \in BOOLEAN
      /\ package = [pc |-> package.pc, parsed |-> package.parsed, alone |-> package.alone, plan |-> package.plan,
                    files |-> [q \in DOMAIN package.files |-> package.files[q]], manifest |-> package.manifest]
  BY <1>3 DEF PackageInv, Packing
<1>5. ASSUME package.alone PROVE /\ IsManifest(p.manifest) /\ p.manifest \notin {None, Torn} /\ Matches(p.manifest, p.files)
                                 /\ p.envelope.manifest = p.manifest /\ p.envelope.content = Fingerprint(p.manifest, p.files)
  <2>1. /\ whole /\ package.parsed = dist.manifest /\ dist.manifest \notin {None, Torn} /\ package.manifest = dist.manifest
        /\ DOMAIN package.files = DOMAIN dist.files /\ \A q \in DOMAIN package.files : package.files[q] = dist.files[q]
    BY <1>3, <1>5 DEF PackageInv, Packing
  <2>2. package.files = [q \in DOMAIN package.files |-> package.files[q]]
    BY <1>4
  <2>3. dist.files = [q \in DOMAIN dist.files |-> dist.files[q]]
    BY DEF WroteInv, Wrote
  <2>4. package.files = dist.files
    BY <2>1, <2>2, <2>3
  <2>5. IsManifest(dist.manifest) /\ Matches(dist.manifest, dist.files)
    BY <2>1 DEF WholeInv, Left
  <2> QED BY <1>2, <2>1, <2>4, <2>5
<1>6. Sealed(p)
  BY <1>2, <1>4, <1>5 DEF Sealed
<1> QED BY <1>6 DEF p

LEMMA PayloadStep ==
  ASSUME WroteInv, WholeInv, PackageInv, PayloadInv, Next
  PROVE  PayloadInv'
<1>1. payloads' = payloads \/ (package.pc = "hash" /\ \E cut \in BOOLEAN : payloads' = payloads \cup {Payload(cut)})
  BY DEF Next, Edit, FrontendBuild, Build, StartBuild, StartVercelBuild, Starts, Bundle, StopBuild, WriteOutput, FinishOutput,
         HashFunction, RemoveFunc, OpenManifest, WriteManifest, Capture, CopyModule, WriteLimit, OpenRoutes, WriteRoutes,
         KeepsFiles, KeepsDist, ChangesDist, ChangesFunc, Package, StartPackage, Plan, PackageFails, ReadJson, ReadFile,
         WritePayload, StopPackage, PackageAt
<1>2. \A p \in payloads' : Sealed(p)
  BY <1>1, Sealing DEF PayloadInv
<1> QED BY <1>2 DEF PayloadInv

-----------------------------------------------------------------------------
(* .vercel/output *)

LEMMA EmitNext == EmitInv' <=> Emits(build', output'.funcs)
BY DEF EmitInv, Emits, Complete, Copies, Reachable, Imports, Lib, Code, OutputPhases, FuncType, Bodies, Paths

LEMMA RoutesNext == RoutesInv' <=> Routed(build', output', hurt')
BY DEF RoutesInv, Routed, RoutesOK, FrontOK, Theirs, FuncOK, Own, RouteOK, Complete, Copies, Busy, Reachable, Imports, Lib, Code, OutputPhases, FuncType, Bodies, Paths

\* Steps that leave .vercel/output alone.
LEMMA OutputLeft ==
  ASSUME Next, ~FrontendBuild, ~(\E f \in Functions : RemoveFunc(f)), ~CopyModule, ~WriteLimit, ~OpenRoutes, ~WriteRoutes
  PROVE  output' = output /\ (hurt' = hurt \/ StopBuild)
BY DEF Next, Edit, Build, StartBuild, StartVercelBuild, Starts, Bundle, StopBuild, WriteOutput, FinishOutput, HashFunction,
       OpenManifest, WriteManifest, Capture, KeepsFiles, KeepsDist, ChangesDist, Package, StartPackage, Plan, ReadJson, ReadFile,
       WritePayload, StopPackage, PackageAt

\* What the steps before a build comes to the directories make of it.
LEMMA Before ==
  ASSUME BuildInv, Next, ~Edit, ~FrontendBuild, ~Package, ~StopBuild, ~Capture,
         ~(\E f \in Functions : RemoveFunc(f)), ~CopyModule, ~WriteLimit, ~OpenRoutes, ~WriteRoutes
  PROVE  build.pc \notin OutputPhases /\ build'.pc \notin OutputPhases
<1>1. CASE StartBuild \/ StartVercelBuild
  <2>1. build.pc = "idle" /\ build'.pc = "bundle"
    BY <1>1 DEF StartBuild, StartVercelBuild, Starts
  <2> QED BY <2>1 DEF OutputPhases
<1>2. CASE Bundle
  <2>1. build'.pc \in {"write", "capture"} /\ build.pc = "bundle"
    BY <1>2, Bundling DEF Bundle, At
  <2> QED BY <2>1 DEF OutputPhases
<1>3. CASE \E p \in build.todo : WriteOutput(p) \/ FinishOutput(p)
  <2>1. PICK p \in build.todo : WriteOutput(p) \/ FinishOutput(p)
    BY <1>3
  <2>2. build.pc \in {"write", "finish"}
    BY <2>1 DEF WriteOutput, FinishOutput, At
  <2>3. build'.pc \in {"write", "finish", "hash"}
    <3>1. \/ \E t : build' = B("finish", t, build.fn, build.json, build.declared)
          \/ \E t : build' = B("write", t, build.fn, build.json, build.declared)
          \/ \E t, j : build' = B("hash", t, build.fn, j, build.declared)
      BY <2>1, WritingOut, Finishing
    <3> QED BY <3>1 DEF B
  <2> QED BY <2>2, <2>3 DEF OutputPhases
<1>4. CASE \E f \in Functions : HashFunction(f)
  <2>1. PICK f \in Functions : HashFunction(f)
    BY <1>4
  <2>2. build.pc = "hash"
    BY <2>1 DEF HashFunction, At
  <2>3. build'.pc \in {"hash", "manifest"}
    <3>1. \/ \E t, j : build' = B("hash", t, build.fn, j, build.declared)
          \/ \E t, j : build' = B("manifest", t, build.fn, j, build.declared)
      BY <2>1, Hashing
    <3> QED BY <3>1 DEF B
  <2> QED BY <2>2, <2>3 DEF OutputPhases
<1>5. CASE OpenManifest
  <2>1. build.pc = "manifest" /\ build'.pc = "written"
    BY <1>5, Opening, Fields DEF OpenManifest, At
  <2> QED BY <2>1 DEF OutputPhases
<1>6. CASE WriteManifest
  BY <1>6 DEF WriteManifest, At, OutputPhases, Idle
<1> QED BY <1>1, <1>2, <1>3, <1>4, <1>5, <1>6 DEF Next, Build

\* A step that changes one directory.
LEMMA FuncChanged ==
  ASSUME RoutesInv, NEW dir, ChangesFunc(dir), build'.fn \in Functions
  PROVE  /\ output'.routes = output.routes /\ output'.funcs[build'.fn] = dir /\ hurt' = hurt
         /\ output' = [funcs |-> [f \in Functions |-> output'.funcs[f]], routes |-> output'.routes]
         /\ \A f \in Functions : f # build'.fn => output'.funcs[f] = output.funcs[f]
<1> DEFINE funcs == output.funcs
           routes == output.routes
           new == [funcs EXCEPT ![build'.fn] = dir]
<1>1. output = [funcs |-> funcs, routes |-> routes] /\ funcs = [f \in Functions |-> funcs[f]]
  <2>1. output = [funcs |-> [f \in Functions |-> output.funcs[f]], routes |-> output.routes]
    BY DEF RoutesInv, Routed
  <2>2. output.funcs = [f \in Functions |-> output.funcs[f]]
    BY <2>1
  <2> QED BY <2>1, <2>2
<1>2. output' = [output EXCEPT !.funcs[build'.fn] = dir] /\ hurt' = hurt
  BY DEF ChangesFunc
<1>3. output' = [funcs |-> [output.funcs EXCEPT ![build'.fn] = dir], routes |-> routes]
  <2> HIDE DEF funcs, routes
  <2>1. output.funcs = funcs
    BY DEF funcs
  <2> QED BY <1>1, <1>2, <2>1
<1> HIDE DEF funcs, routes
<1>4. output'.funcs = new /\ output'.routes = routes
  BY <1>3 DEF funcs
<1>5. DOMAIN funcs = Functions
  BY <1>1
<1>6. new = [f \in Functions |-> new[f]] /\ new[build'.fn] = dir /\ \A f \in Functions : f # build'.fn => new[f] = funcs[f]
  BY <1>5
<1> HIDE DEF new
<1>7. output' = [funcs |-> new, routes |-> routes]
  BY <1>3 DEF new, funcs
<1>8. output' = [funcs |-> [f \in Functions |-> output'.funcs[f]], routes |-> output'.routes]
  BY <1>4, <1>6, <1>7
<1> QED BY <1>2, <1>4, <1>6, <1>8 DEF funcs, routes

\* The function whose directory is made.
LEMMA Making ==
  ASSUME BuildInv, EmitInv, build.pc \in {"copy", "limit"}
  PROVE  LET f == build.fn
             all == Copies(f, build.outputs[f], Reachable(f, build.outputs)) IN
         /\ f \in build.todo /\ f \in build.inputs /\ f \in Functions /\ build.todo \subseteq build.inputs
         /\ output.funcs[f] \in FuncType
         /\ output.funcs[f].modules \subseteq all /\ (build.pc = "limit" => output.funcs[f].modules = all)
         /\ f \in Reachable(f, build.outputs)
         /\ Reachable(f, [g \in {f} |-> build.outputs[f]]) = Reachable(f, build.outputs)
         /\ \A p \in Reachable(f, build.outputs) : /\ p \in Paths /\ build.outputs[p] \in Bodies /\ BodyOK(build.outputs[p])
                                                   /\ build.outputs[p] = IF p = f THEN build.outputs[f] ELSE p
<1> DEFINE f == build.fn
           fs == build.inputs
           outputs == build.outputs
<1>1. fs \in SUBSET Functions /\ Bundled(outputs, fs)
  BY RunningBuild DEF BuildInv, Idle
<1>2. PICK of \in Versions : BundledOf(outputs, fs, of)
  BY <1>1, BundleOf
<1>3. build.pc \in OutputPhases
  BY DEF OutputPhases
<1>4. /\ f \in build.todo /\ build.todo \subseteq fs /\ output.funcs[f] \in FuncType
      /\ output.funcs[f].modules \subseteq Copies(f, outputs[f], Reachable(f, outputs))
      /\ build.pc = "limit" => output.funcs[f].modules = Copies(f, outputs[f], Reachable(f, outputs))
  BY <1>3 DEF EmitInv, Emits
<1> HIDE DEF f, fs, outputs
<1>5. /\ \A p \in DOMAIN outputs : outputs[p] \in Bodies /\ BodyOK(outputs[p]) /\ p \in Paths
      /\ DOMAIN outputs \cap Functions = fs
      /\ \A g \in fs : /\ Reachable(g, outputs) = {g, outputs[g]} \cup Shared(of, fs)
                       /\ Reachable(g, outputs) \subseteq DOMAIN outputs
                       /\ Reachable(g, [h \in {g} |-> outputs[g]]) = Reachable(g, outputs)
  <2>1. \A g \in fs : /\ Reachable(g, outputs) = {g, outputs[g]} \cup Shared(of, fs)
                      /\ Reachable(g, outputs) \subseteq DOMAIN outputs
                      /\ Reachable(g, [h \in {g} |-> outputs[g]]) = Reachable(g, outputs)
    BY <1>1, <1>2, BundleFiles, Zenon
  <2>2. /\ \A p \in DOMAIN outputs : outputs[p] \in Bodies /\ BodyOK(outputs[p]) /\ p \in Paths
        /\ DOMAIN outputs \cap Functions = fs
    BY <1>1, <1>2, BundleFiles, Zenon
  <2> QED BY <2>1, <2>2
<1>6. f \in fs /\ f \in Functions
  BY <1>1, <1>4
<1>7. f \in Reachable(f, outputs)
  BY <1>5, <1>6
<1>8. outputs[f] \notin Functions /\ outputs[f] \in DOMAIN outputs /\ \A c \in DOMAIN outputs \ Functions : outputs[c] = c
  <2>1. outputs[f] \in Bodies
    BY <1>2, <1>6 DEF BundledOf, OneOf
  <2> QED BY <1>2, <1>5, <1>6, <2>1, ConstantsAssumption DEF BundledOf
<1>9. ASSUME NEW p \in Reachable(f, outputs)
      PROVE  outputs[p] = IF p = f THEN outputs[f] ELSE p
  <2>1. CASE p = f
    BY <2>1
  <2>2. CASE p # f
    <3>1. p \in {outputs[f]} \cup Shared(of, fs) /\ p \in DOMAIN outputs
      BY <1>5, <1>6, <2>2
    <3>2. p \notin Functions
      <4>1. Shared(of, fs) \subseteq {Lib(of)}
        BY DEF Shared
      <4>2. Lib(of) \notin Functions
        BY LibIsBody
      <4> QED BY <1>8, <3>1, <4>1, <4>2
    <3> QED BY <1>8, <2>2, <3>1, <3>2
  <2> QED BY <2>1, <2>2
<1>10. \A p \in Reachable(f, outputs) : p \in Paths /\ outputs[p] \in Bodies /\ BodyOK(outputs[p])
  BY <1>5, <1>6
<1>11. Reachable(f, [g \in {f} |-> outputs[f]]) = Reachable(f, outputs)
  BY <1>5, <1>6
<1> QED BY <1>4, <1>6, <1>7, <1>9, <1>10, <1>11 DEF f, fs, outputs

\* What each step makes of the function's directory and the command.
LEMMA RemoveMakes ==
  ASSUME BuildInv, RoutesInv, EmitInv, NEW f \in Functions, RemoveFunc(f)
  PROVE  /\ build' = B("copy", build.todo, f, build.json, build.declared) /\ build.pc = "emit" /\ f \in build.todo
         /\ output'.funcs[f] = [modules |-> {}, limit |-> None]
         /\ ChangesFunc(output'.funcs[f]) /\ build'.fn = f
<1>1. build' = B("copy", build.todo, f, build.json, build.declared) /\ build.pc = "emit" /\ f \in build.todo
  BY Removing DEF RemoveFunc, At
<1>2. build'.fn = f
  BY <1>1, Fields
<1>3. ChangesFunc([modules |-> {}, limit |-> None])
  BY DEF RemoveFunc
<1> QED BY <1>1, <1>2, <1>3, FuncChanged

LEMMA CopyMakes ==
  ASSUME BuildInv, RoutesInv, EmitInv, CopyModule
  PROVE  LET f == build.fn
             all == Copies(f, build.outputs[f], Reachable(f, build.outputs)) IN
         /\ \E pc \in {"copy", "limit"} :
              /\ build' = B(pc, build.todo, build.fn, build.json, build.declared)
              /\ pc = "limit" => output'.funcs[f].modules = all
         /\ output'.funcs[f] \in FuncType /\ output'.funcs[f].modules \subseteq all
         /\ \A m \in output'.funcs[f].modules : m \in output.funcs[f].modules \/ BodyOK(m.body)
         /\ ChangesFunc(output'.funcs[f]) /\ build'.fn = f
<1> DEFINE f == build.fn
           outputs == build.outputs
           reached == Reachable(f, outputs)
           all == Copies(f, outputs[f], reached)
           func == output.funcs[f]
           PathsMade == {"copy", "limit"}
<1>1. build.pc = "copy"
  BY DEF CopyModule, At
<1>2. /\ f \in Functions /\ func \in FuncType /\ func.modules \subseteq all
      /\ \A p \in reached : /\ p \in Paths /\ outputs[p] \in Bodies /\ BodyOK(outputs[p])
                            /\ outputs[p] = IF p = f THEN outputs[f] ELSE p
  BY <1>1, Making
<1>3. PICK p \in Lacking :
        /\ build' = B(IF Lacking = {p} THEN "limit" ELSE "copy", build.todo, f, build.json, build.declared)
        /\ ChangesFunc([func EXCEPT !.modules = @ \cup {[path |-> p, body |-> outputs[p]]}])
  BY Copying
<1> DEFINE pc == IF Lacking = {p} THEN "limit" ELSE "copy"
           m0 == [path |-> p, body |-> outputs[p]]
           new == [func EXCEPT !.modules = @ \cup {m0}]
<1>4. build'.fn = f
  BY <1>3, Fields
<1>5. output'.funcs[f] = new
  BY <1>2, <1>3, <1>4, FuncChanged
<1>6. p \in reached /\ \A q \in reached \ Lacking : \E m \in func.modules : m.path = q
  BY DEF Lacking, Copied
<1>7. m0 \in all /\ m0 \in [path : Paths, body : Bodies] /\ m0.path = p /\ BodyOK(m0.body)
  BY <1>2, <1>6 DEF Copies
<1>8. new = [modules |-> func.modules \cup {m0}, limit |-> func.limit] /\ func.modules \subseteq [path : Paths, body : Bodies] /\ func.limit \in Nat \cup {None}
  <2> DEFINE mods == func.modules
             lim == func.limit
  <2> HIDE DEF func, m0
  <2>1. func = [modules |-> mods, limit |-> lim] /\ mods \subseteq [path : Paths, body : Bodies] /\ lim \in Nat \cup {None}
    BY <1>2 DEF FuncType
  <2> HIDE DEF mods, lim
  <2>2. new = [modules |-> mods \cup {m0}, limit |-> lim]
    BY <2>1
  <2> QED BY <2>1, <2>2 DEF mods, lim
<1> HIDE DEF new, func, m0
<1>9. new \in FuncType /\ new.modules = func.modules \cup {m0}
  BY <1>7, <1>8 DEF FuncType
<1>10. new.modules \subseteq all
  BY <1>2, <1>7, <1>9
<1>11. ASSUME Lacking = {p} PROVE new.modules = all
  <2> SUFFICES ASSUME NEW x \in all PROVE x \in new.modules
    BY <1>10
  <2>1. PICK q \in reached : x = [path |-> q, body |-> IF q = f THEN outputs[f] ELSE q]
    BY DEF Copies
  <2>2. CASE q = p
    <3>1. x = m0
      BY <1>2, <1>6, <2>1, <2>2 DEF m0
    <3> QED BY <1>9, <3>1
  <2>3. CASE q # p
    <3>1. PICK m \in func.modules : m.path = q
      BY <1>6, <1>11, <2>3
    <3>2. m = x
      BY <1>2, <2>1, <3>1 DEF Copies
    <3> QED BY <1>9, <3>1, <3>2
  <2> QED BY <2>2, <2>3
<1>12. \A m \in new.modules : m \in func.modules \/ BodyOK(m.body)
  BY <1>7, <1>9
<1>13. ChangesFunc(new)
  BY <1>3 DEF new, m0
<1>14. pc \in {"copy", "limit"} /\ (pc = "limit" => Lacking = {p}) /\ build' = B(pc, build.todo, f, build.json, build.declared)
  BY <1>3
<1> HIDE DEF pc, all, reached, f, outputs
<1>15. \E pc2 \in {"copy", "limit"} : build' = B(pc2, build.todo, f, build.json, build.declared) /\ (pc2 = "limit" => output'.funcs[f].modules = all)
  BY <1>5, <1>11, <1>14
<1> QED BY <1>4, <1>5, <1>9, <1>10, <1>12, <1>13, <1>15 DEF f, all, reached, outputs, func

LEMMA LimitMakes ==
  ASSUME TypeOK, BuildInv, RoutesInv, EmitInv, WriteLimit
  PROVE  LET f == build.fn IN
         /\ \E pc \in {"routes", "emit"} :
              /\ build' = B(pc, build.todo \ {f}, f, build.json, build.declared)
              /\ pc = "routes" => build.todo \ {f} = {}
         /\ Complete(f, output'.funcs[f]) /\ output'.funcs[f] \in FuncType
         /\ output'.funcs[f].modules = output.funcs[f].modules
         /\ ChangesFunc(output'.funcs[f]) /\ build'.fn = f
<1> DEFINE f == build.fn
           outputs == build.outputs
           reached == Reachable(f, outputs)
           all == Copies(f, outputs[f], reached)
           func == output.funcs[f]
           limit == IF f \in DOMAIN build.declared THEN build.declared[f] ELSE src[f]
           new == [func EXCEPT !.limit = limit]
<1>1. build.pc = "limit" /\ build.pc \in OutputPhases
  BY DEF WriteLimit, At, OutputPhases
<1>2. /\ f \in Functions /\ func \in FuncType /\ func.modules = all /\ f \in reached
      /\ Reachable(f, [g \in {f} |-> outputs[f]]) = reached
  BY <1>1, Making
<1>3. PICK pc \in {"routes", "emit"} : /\ build' = B(pc, build.todo \ {f}, f, build.json, build.declared)
                                       /\ pc = "routes" => build.todo \ {f} = {}
  <2>1. CASE build.todo \subseteq {f}
    <3>1. build.todo \ {f} = {}
      BY <2>1
    <3>2. build' = B("routes", {}, build.fn, build.json, build.declared)
      BY <2>1, Limiting
    <3> QED BY <3>1, <3>2
  <2>2. CASE ~(build.todo \subseteq {f})
    <3>1. build' = B("emit", build.todo \ {f}, f, build.json, build.declared)
      BY <2>2, Limiting
    <3> QED BY <3>1
  <2> QED BY <2>1, <2>2
<1>4. build'.fn = f
  BY <1>3, Fields
<1>5. ChangesFunc(new)
  BY DEF WriteLimit
<1>6. output'.funcs[f] = new
  BY <1>2, <1>4, <1>5, FuncChanged
<1>7. limit \in Nat
  <2>1. \A g \in DOMAIN build.declared : build.declared[g] \in Nat
    BY <1>1 DEF BuildInv, Idle
  <2>2. src[f] \in Nat
    BY <1>2 DEF TypeOK
  <2> QED BY <2>1, <2>2
<1> HIDE DEF limit
<1>8. new = [modules |-> func.modules, limit |-> limit] /\ func.modules \subseteq [path : Paths, body : Bodies]
  BY <1>2 DEF FuncType
<1> HIDE DEF new, func
<1>9. new \in FuncType /\ new.modules = func.modules /\ new.limit = limit /\ limit # None
  BY <1>7, <1>8, NoneFacts DEF FuncType
<1> DEFINE m == [path |-> f, body |-> outputs[f]]
<1>10. m \in new.modules /\ m.path = f /\ m.body = outputs[f]
  BY <1>2, <1>9 DEF Copies
<1> HIDE DEF m
<1>11. new.modules = Copies(f, m.body, Reachable(f, [g \in {f} |-> m.body]))
  BY <1>2, <1>9, <1>10
<1>12. Complete(f, new)
  BY <1>9, <1>10, <1>11 DEF Complete
<1> QED BY <1>3, <1>4, <1>5, <1>6, <1>9, <1>12 DEF func

LEMMA EmitStep ==
  ASSUME TypeOK, BuildInv, EmitInv, RoutesInv, Next
  PROVE  EmitInv'
<1>1. ASSUME build'.pc \notin OutputPhases PROVE EmitInv'
  <2>1. Emits(build', output'.funcs)
    BY <1>1 DEF Emits
  <2> QED BY <2>1, EmitNext
<1>2. CASE Edit \/ Package
  <2>1. output' = output
    BY <1>2 DEF Edit, Package, StartPackage, Plan, ReadJson, ReadFile, WritePayload, StopPackage, PackageAt
  <2>2. Emits(build', output'.funcs)
    BY <1>2, <2>1, BuildLeft DEF EmitInv
  <2> QED BY <2>2, EmitNext
<1>3. CASE FrontendBuild
  <2>1. build'.pc = "idle"
    BY <1>3 DEF FrontendBuild
  <2> QED BY <1>1, <2>1 DEF OutputPhases
<1>4. CASE StopBuild \/ WriteRoutes
  <2>1. build'.pc = "idle"
    BY <1>4 DEF StopBuild, WriteRoutes, Idle
  <2> QED BY <1>1, <2>1 DEF OutputPhases
<1>5. CASE Capture
  <2>1. build'.pc = "emit" /\ build'.todo = build.inputs /\ build'.inputs = build.inputs
    <3>1. \E d : build' = B("emit", build.inputs, build.fn, build.json, d)
      BY <1>5, Capturing
    <3> QED BY <3>1 DEF B
  <2>2. Emits(build', output'.funcs)
    BY <2>1 DEF Emits
  <2> QED BY <2>2, EmitNext
<1>6. CASE \E f \in Functions : RemoveFunc(f)
  <2>1. PICK f \in Functions : RemoveFunc(f)
    BY <1>6
  <2>2. /\ build' = B("copy", build.todo, f, build.json, build.declared) /\ build.pc = "emit" /\ f \in build.todo
        /\ output'.funcs[f] = [modules |-> {}, limit |-> None] /\ build'.fn = f
    BY <2>1, RemoveMakes
  <2>3. \A g \in Functions : g # f => output'.funcs[g] = output.funcs[g]
    BY <2>1, <2>2, RemoveMakes, FuncChanged
  <2>4. output'.funcs[f] \in FuncType /\ output'.funcs[f].modules = {}
    BY <2>2 DEF FuncType
  <2>5. build'.pc = "copy" /\ build'.todo = build.todo /\ build'.inputs = build.inputs
    BY <2>2, Fields
  <2>6. build.inputs \subseteq Functions /\ build.todo \subseteq build.inputs /\ \A g \in build.inputs \ build.todo : Complete(g, output.funcs[g])
    BY <2>2, RunningBuild DEF EmitInv, Emits, OutputPhases
  <2>7. \A g \in build'.inputs \ build'.todo : Complete(g, output'.funcs[g])
    BY <2>2, <2>3, <2>5, <2>6
  <2>8. Emits(build', output'.funcs)
    BY <2>2, <2>4, <2>5, <2>6, <2>7 DEF Emits
  <2> QED BY <2>8, EmitNext
<1>7. CASE CopyModule
  <2> DEFINE f == build.fn
             all == Copies(f, build.outputs[f], Reachable(f, build.outputs))
  <2>1. PICK pc \in {"copy", "limit"} :
          /\ build' = B(pc, build.todo, f, build.json, build.declared)
          /\ pc = "limit" => output'.funcs[f].modules = all
    BY <1>7, CopyMakes
  <2>2. output'.funcs[f] \in FuncType /\ output'.funcs[f].modules \subseteq all /\ ChangesFunc(output'.funcs[f]) /\ build'.fn = f
    BY <1>7, CopyMakes
  <2>3. build.pc = "copy" /\ build.pc \in OutputPhases
    BY <1>7 DEF CopyModule, At, OutputPhases
  <2>4. f \in build.todo /\ f \in Functions /\ build.inputs \subseteq Functions
    BY <2>3, Making, RunningBuild
  <2>5. \A g \in Functions : g # f => output'.funcs[g] = output.funcs[g]
    BY <2>2, <2>4, FuncChanged
  <2>6. build'.pc = pc /\ build'.todo = build.todo /\ build'.inputs = build.inputs /\ build'.outputs = build.outputs
    BY <2>1, Fields
  <2>7. build.todo \subseteq build.inputs /\ \A g \in build.inputs \ build.todo : Complete(g, output.funcs[g])
    BY <2>3 DEF EmitInv, Emits
  <2>8. \A g \in build'.inputs \ build'.todo : Complete(g, output'.funcs[g])
    BY <2>4, <2>5, <2>6, <2>7
  <2>9. all = Copies(build'.fn, build'.outputs[build'.fn], Reachable(build'.fn, build'.outputs))
    BY <2>2, <2>6
  <2> HIDE DEF all, f
  <2>10. Emits(build', output'.funcs)
    BY <2>1, <2>2, <2>4, <2>6, <2>7, <2>8, <2>9 DEF Emits
  <2> QED BY <2>10, EmitNext
<1>8. CASE WriteLimit
  <2> DEFINE f == build.fn
  <2>1. PICK pc \in {"routes", "emit"} : /\ build' = B(pc, build.todo \ {f}, f, build.json, build.declared)
                                         /\ pc = "routes" => build.todo \ {f} = {}
    BY <1>8, LimitMakes
  <2>2. Complete(f, output'.funcs[f]) /\ ChangesFunc(output'.funcs[f]) /\ build'.fn = f
    BY <1>8, LimitMakes
  <2>3. build.pc = "limit" /\ build.pc \in OutputPhases
    BY <1>8 DEF WriteLimit, At, OutputPhases
  <2>4. f \in build.todo /\ f \in Functions /\ build.inputs \subseteq Functions
    BY <2>3, Making, RunningBuild
  <2>5. \A g \in Functions : g # f => output'.funcs[g] = output.funcs[g]
    BY <2>2, <2>4, FuncChanged
  <2>6. build'.pc = pc /\ build'.todo = build.todo \ {f} /\ build'.inputs = build.inputs
    BY <2>1, Fields
  <2>7. build.todo \subseteq build.inputs /\ \A g \in build.inputs \ build.todo : Complete(g, output.funcs[g])
    BY <2>3 DEF EmitInv, Emits
  <2>8. \A g \in build'.inputs \ build'.todo : Complete(g, output'.funcs[g])
    BY <2>2, <2>4, <2>5, <2>6, <2>7
  <2> HIDE DEF f
  <2>9. Emits(build', output'.funcs)
    BY <2>1, <2>6, <2>7, <2>8 DEF Emits
  <2> QED BY <2>9, EmitNext
<1>9. CASE OpenRoutes
  <2>1. build' = B("opened", {}, build.fn, Merged(output.routes, build.inputs), build.declared)
    BY <1>9, Routing
  <2>2. build'.pc = "opened" /\ build'.todo = {} /\ build'.inputs = build.inputs
    BY <2>1, Fields
  <2>3. build.pc = "routes" /\ build.todo = {} /\ \A g \in build.inputs \ build.todo : Complete(g, output.funcs[g])
    BY <1>9 DEF OpenRoutes, At, EmitInv, Emits, OutputPhases
  <2>4. output'.funcs = output.funcs
    BY <1>9 DEF OpenRoutes, RoutesInv, Routed
  <2>5. Emits(build', output'.funcs)
    BY <2>2, <2>3, <2>4 DEF Emits
  <2> QED BY <2>5, EmitNext
<1>10. CASE ~Edit /\ ~FrontendBuild /\ ~Package /\ ~StopBuild /\ ~Capture /\ ~(\E f \in Functions : RemoveFunc(f))
            /\ ~CopyModule /\ ~WriteLimit /\ ~OpenRoutes /\ ~WriteRoutes
  BY <1>1, <1>10, Before
<1> QED BY <1>2, <1>3, <1>4, <1>5, <1>6, <1>7, <1>8, <1>9, <1>10

LEMMA FunctionsFinite == \A names \in SUBSET Functions : IsFiniteSet(names)
BY ConstantsAssumption, FS_Subset

\* A build's merged routes are right but for the functions at which others were stopped.
LEMMA MergedOK ==
  ASSUME NEW funcs, NEW routes, NEW names \in SUBSET Functions, NEW h, RoutesOK(funcs, routes, h \cup names),
         \A f \in names : Complete(f, funcs[f])
  PROVE  RoutesOK(funcs, Merged(routes, names), h \ names)
<1> DEFINE R == Functions \cup {User, Marker}
           M == Merged(routes, names)
<1>1. routes \in Seq(R) /\ FrontOK(routes) /\ \A f \in Functions \ (h \cup names) : FuncOK(funcs[f], routes, f)
  BY DEF RoutesOK
<1> HIDE DEF R
<1>2. M \in Seq(R \cup names)
  BY <1>1, FunctionsFinite, MergeOrder
<1>3. R \cup names = R
  BY DEF R
<1>4. FrontOK(M)
  BY <1>1, TheirRoutes
<1>5. ASSUME NEW f \in Functions \ (h \ names) PROVE FuncOK(funcs[f], M, f)
  <2>1. CASE f \in names
    <3>1. RouteOK(M, f)
      BY <1>1, <2>1, NewRoutes
    <3>2. Complete(f, funcs[f]) /\ funcs[f] # None
      BY <2>1, NoneAssumption DEF Complete
    <3> QED BY <3>1, <3>2 DEF FuncOK
  <2>2. CASE f \notin names
    <3>1. f \in Functions \ names /\ f \in Functions \ (h \cup names)
      BY <2>2
    <3>2. FuncOK(funcs[f], routes, f)
      BY <1>1, <3>1
    <3>3. (Own(routes, f) = {} => Own(M, f) = {}) /\ (RouteOK(routes, f) => RouteOK(M, f))
      BY <1>1, <3>1, OldRoutes
    <3> HIDE DEF M
    <3> QED BY <3>2, <3>3 DEF FuncOK
  <2> QED BY <2>1, <2>2
<1> QED BY <1>2, <1>3, <1>4, <1>5 DEF RoutesOK, R

LEMMA FrontendRoutes ==
  LET routes == <<User, Marker, User>> IN
  routes \in Seq(Functions \cup {User, Marker}) /\ FrontOK(routes) /\ \A f \in Functions : Own(routes, f) = {}
<1> DEFINE routes == <<User, Marker, User>>
<1>1. DOMAIN routes = 1..3 /\ routes[1] = User /\ routes[2] = Marker /\ routes[3] = User /\ routes \in Seq(Functions \cup {User, Marker})
  OBVIOUS
<1>2. User \notin Functions /\ Marker \notin Functions
  BY ConstantsAssumption
<1> HIDE DEF routes
<1>3. \A i \in DOMAIN routes : routes[i] \notin Functions /\ i \in {1, 2, 3}
  BY <1>1, <1>2
<1>4. Theirs(routes) = {1, 2, 3}
  BY <1>1, <1>3 DEF Theirs
<1>5. FrontOK(routes)
  BY <1>1, <1>4 DEF FrontOK
<1>6. \A f \in Functions : Own(routes, f) = {}
  BY <1>3 DEF Own
<1> QED BY <1>1, <1>5, <1>6 DEF routes

\* Steps that change one directory.
LEMMA OneDirectory ==
  ASSUME RoutesInv, NEW f \in Functions, ChangesFunc(output'.funcs[f]), build'.fn = f, output'.funcs[f] \in FuncType,
         build.pc \in OutputPhases, f \in build.inputs, NEW pc \in OutputPhases \ {"opened"}, NEW todo, NEW fn, NEW json,
         build' = B(pc, todo, fn, json, build.declared)
  PROVE  RoutesInv'
<1>1. /\ output'.routes = output.routes /\ hurt' = hurt
      /\ output' = [funcs |-> [g \in Functions |-> output'.funcs[g]], routes |-> output'.routes]
      /\ \A g \in Functions : g # f => output'.funcs[g] = output.funcs[g]
  BY FuncChanged
<1>2. build'.pc = pc /\ build'.inputs = build.inputs
  BY Fields
<1>3. Busy(build') = build.inputs /\ Busy(build) = build.inputs
  BY <1>2 DEF Busy
<1>4. \A g \in Functions : output'.funcs[g] \in FuncType \cup {None}
  BY <1>1 DEF RoutesInv, Routed
<1>5. RoutesOK(output.funcs, output.routes, hurt \cup build.inputs) => RoutesOK(output'.funcs, output.routes, hurt \cup build.inputs)
  BY <1>1 DEF RoutesOK
<1>6. output'.routes # Torn => RoutesOK(output'.funcs, output'.routes, hurt' \cup Busy(build'))
  BY <1>1, <1>3, <1>5 DEF RoutesInv, Routed
<1>7. Routed(build', output', hurt')
  BY <1>1, <1>2, <1>4, <1>6 DEF Routed
<1> QED BY <1>7, RoutesNext

LEMMA RoutesStep ==
  ASSUME TypeOK, BuildInv, EmitInv, RoutesInv, Next
  PROVE  RoutesInv'
<1>0. /\ output = [funcs |-> [f \in Functions |-> output.funcs[f]], routes |-> output.routes]
      /\ \A f \in Functions : output.funcs[f] \in FuncType \cup {None}
      /\ output.routes # Torn => RoutesOK(output.funcs, output.routes, hurt \cup Busy(build))
      /\ build.pc = "opened" => RoutesOK(output.funcs, build.json, hurt \ build.inputs)
  BY DEF RoutesInv, Routed
<1>1. ASSUME output' = output, build'.pc # "opened", hurt \cup Busy(build) \subseteq hurt' \cup Busy(build') PROVE RoutesInv'
  <2>1. RoutesOK(output.funcs, output.routes, hurt \cup Busy(build)) => RoutesOK(output.funcs, output.routes, hurt' \cup Busy(build'))
    BY <1>1 DEF RoutesOK
  <2>2. Routed(build', output', hurt')
    BY <1>0, <1>1, <2>1 DEF Routed
  <2> QED BY <2>2, RoutesNext
<1>2. CASE Edit \/ Package
  <2>1. output' = output /\ hurt' = hurt /\ build' = build
    BY <1>2, BuildLeft DEF Edit, Package, StartPackage, Plan, ReadJson, ReadFile, WritePayload, StopPackage, PackageAt
  <2>2. Routed(build', output', hurt')
    BY <2>1 DEF RoutesInv
  <2> QED BY <2>2, RoutesNext
<1>3. CASE FrontendBuild
  <2>1. output' = [funcs |-> [f \in Functions |-> None], routes |-> <<User, Marker, User>>] /\ hurt' = {} /\ build'.pc = "idle"
    BY <1>3 DEF FrontendBuild
  <2>2. output'.routes = <<User, Marker, User>> /\ output'.funcs = [f \in Functions |-> None]
    BY <2>1
  <2>3. \A f \in Functions : FuncOK(output'.funcs[f], output'.routes, f)
    BY <2>2, FrontendRoutes DEF FuncOK
  <2>4. RoutesOK(output'.funcs, output'.routes, hurt' \cup Busy(build'))
    BY <2>2, <2>3, FrontendRoutes DEF RoutesOK
  <2>5. output' = [funcs |-> [f \in Functions |-> output'.funcs[f]], routes |-> output'.routes]
    BY <2>1, <2>2
  <2>6. Routed(build', output', hurt')
    BY <2>1, <2>2, <2>4, <2>5 DEF Routed
  <2> QED BY <2>6, RoutesNext
<1>4. CASE StopBuild
  <2>1. build'.pc = "idle" /\ output' = output
    BY <1>4 DEF StopBuild, KeepsDist, Idle
  <2>2. Busy(build) \cup hurt \subseteq hurt'
    BY <1>4 DEF StopBuild, Busy, OutputPhases
  <2> QED BY <1>1, <2>1, <2>2
<1>5. CASE Capture
  <2>1. build.pc = "capture" /\ output' = output /\ hurt' = hurt
    BY <1>5 DEF Capture, At, KeepsFiles
  <2>2. build'.pc = "emit"
    <3>1. \E d : build' = B("emit", build.inputs, build.fn, build.json, d)
      BY <1>5, Capturing
    <3> QED BY <3>1 DEF B
  <2>3. Busy(build) = {}
    BY <2>1 DEF Busy, OutputPhases
  <2> QED BY <1>1, <2>1, <2>2, <2>3
<1>6. CASE \E f \in Functions : RemoveFunc(f)
  <2>1. PICK f \in Functions : RemoveFunc(f)
    BY <1>6
  <2>2. /\ build' = B("copy", build.todo, f, build.json, build.declared) /\ build.pc = "emit" /\ f \in build.todo
        /\ output'.funcs[f] = [modules |-> {}, limit |-> None] /\ ChangesFunc(output'.funcs[f]) /\ build'.fn = f
    BY <2>1, RemoveMakes
  <2>3. output'.funcs[f] \in FuncType /\ "copy" \in OutputPhases \ {"opened"} /\ build.pc \in OutputPhases
    BY <2>2 DEF FuncType, OutputPhases
  <2>4. f \in build.inputs
    BY <2>2, <2>3 DEF EmitInv, Emits
  <2> QED BY <2>2, <2>3, <2>4, OneDirectory
<1>7. CASE CopyModule
  <2> DEFINE f == build.fn
  <2>1. PICK pc \in {"copy", "limit"} : build' = B(pc, build.todo, f, build.json, build.declared)
    BY <1>7, CopyMakes
  <2>2. output'.funcs[f] \in FuncType /\ ChangesFunc(output'.funcs[f]) /\ build'.fn = f
    BY <1>7, CopyMakes
  <2>3. build.pc = "copy" /\ build.pc \in OutputPhases /\ pc \in OutputPhases \ {"opened"}
    BY <1>7 DEF CopyModule, At, OutputPhases
  <2>4. f \in build.inputs /\ f \in Functions
    BY <2>3, Making
  <2> QED BY <2>1, <2>2, <2>3, <2>4, OneDirectory
<1>8. CASE WriteLimit
  <2> DEFINE f == build.fn
  <2>1. PICK pc \in {"routes", "emit"} : build' = B(pc, build.todo \ {f}, f, build.json, build.declared)
    BY <1>8, LimitMakes
  <2>2. output'.funcs[f] \in FuncType /\ ChangesFunc(output'.funcs[f]) /\ build'.fn = f
    BY <1>8, LimitMakes
  <2>3. build.pc = "limit" /\ build.pc \in OutputPhases /\ pc \in OutputPhases \ {"opened"}
    BY <1>8 DEF WriteLimit, At, OutputPhases
  <2>4. f \in build.inputs /\ f \in Functions
    BY <2>3, Making
  <2> QED BY <2>1, <2>2, <2>3, <2>4, OneDirectory
<1>9. CASE OpenRoutes
  <2> DEFINE M == Merged(output.routes, build.inputs)
  <2>1. build' = B("opened", {}, build.fn, M, build.declared)
    BY <1>9, Routing
  <2>2. build'.pc = "opened" /\ build'.inputs = build.inputs /\ build'.json = M
    BY <2>1, Fields
  <2>3. build.pc = "routes" /\ build.pc \in OutputPhases /\ output.routes # Torn /\ hurt' = hurt
    BY <1>9 DEF OpenRoutes, At, OutputPhases
  <2>4. build.inputs \in SUBSET Functions /\ \A f \in build.inputs : Complete(f, output.funcs[f])
    BY <2>3, RunningBuild DEF EmitInv, Emits
  <2>5. RoutesOK(output.funcs, output.routes, hurt \cup build.inputs)
    BY <1>0, <2>3 DEF Busy
  <2>6. RoutesOK(output.funcs, M, hurt \ build.inputs)
    BY <2>4, <2>5, MergedOK
  <2>7. output'.funcs = output.funcs /\ output'.routes = Torn /\ output' = [funcs |-> [f \in Functions |-> output.funcs[f]], routes |-> Torn]
    <3> DEFINE funcs == [f \in Functions |-> output.funcs[f]]
    <3>1. output' = [output EXCEPT !.routes = Torn] /\ output = [funcs |-> funcs, routes |-> output.routes]
      BY <1>0, <1>9 DEF OpenRoutes
    <3> HIDE DEF funcs
    <3>2. output' = [funcs |-> funcs, routes |-> Torn] /\ output.funcs = funcs
      BY <3>1
    <3> QED BY <3>2 DEF funcs
  <2> HIDE DEF M
  <2>8. Routed(build', output', hurt')
    BY <1>0, <2>2, <2>3, <2>6, <2>7 DEF Routed
  <2> QED BY <2>8, RoutesNext
<1>10. CASE WriteRoutes
  <2>1. build.pc = "opened" /\ build' = Idle /\ hurt' = hurt \ build.inputs
    BY <1>10 DEF WriteRoutes, At
  <2>2. Busy(build') = {} /\ build'.pc = "idle"
    BY <2>1 DEF Busy, Idle, OutputPhases
  <2>3. output'.funcs = output.funcs /\ output'.routes = build.json /\ output' = [funcs |-> [f \in Functions |-> output.funcs[f]], routes |-> build.json]
    <3> DEFINE funcs == [f \in Functions |-> output.funcs[f]]
    <3>1. output' = [output EXCEPT !.routes = build.json] /\ output = [funcs |-> funcs, routes |-> output.routes]
      BY <1>0, <1>10 DEF WriteRoutes
    <3> HIDE DEF funcs
    <3>2. output' = [funcs |-> funcs, routes |-> build.json] /\ output.funcs = funcs
      BY <3>1
    <3> QED BY <3>2 DEF funcs
  <2>4. RoutesOK(output'.funcs, output'.routes, hurt' \cup Busy(build'))
    BY <1>0, <2>1, <2>2, <2>3
  <2>5. Routed(build', output', hurt')
    BY <1>0, <2>2, <2>3, <2>4 DEF Routed
  <2> QED BY <2>5, RoutesNext
<1>11. CASE ~Edit /\ ~FrontendBuild /\ ~Package /\ ~StopBuild /\ ~Capture /\ ~(\E f \in Functions : RemoveFunc(f))
            /\ ~CopyModule /\ ~WriteLimit /\ ~OpenRoutes /\ ~WriteRoutes
  <2>1. output' = output /\ hurt' = hurt
    BY <1>11, OutputLeft
  <2>2. build.pc \notin OutputPhases /\ build'.pc \notin OutputPhases
    BY <1>11, Before
  <2>3. Busy(build) = {} /\ Busy(build') = {} /\ build'.pc # "opened"
    BY <2>2 DEF Busy, OutputPhases
  <2> QED BY <1>1, <2>1, <2>3
<1> QED BY <1>2, <1>3, <1>4, <1>5, <1>6, <1>7, <1>8, <1>9, <1>10, <1>11

-----------------------------------------------------------------------------
(* The inductive invariant *)

LEMMA CountStep ==
  ASSUME CountInv, Next
  PROVE  CountInv'
<1>1. MaxEdits \in Nat
  BY ConstantsAssumption
<1>2. CASE Edit
  BY <1>1, <1>2 DEF Edit, CountInv
<1>3. CASE ~Edit
  <2>1. edits' = edits /\ builds' \in {builds, builds + 1} /\ packages' \in {packages, packages + 1} /\ stops' \in {stops, stops + 1}
    BY <1>3 DEF Next, FrontendBuild, Build, StartBuild, StartVercelBuild, Starts, Bundle, StopBuild, WriteOutput, FinishOutput,
       HashFunction, RemoveFunc, OpenManifest, WriteManifest, Capture, CopyModule, WriteLimit, OpenRoutes, WriteRoutes, At, counters,
       Package, StartPackage, Plan, ReadJson, ReadFile, WritePayload, StopPackage, PackageAt
  <2> QED BY <2>1 DEF CountInv
<1> QED BY <1>2, <1>3

\* What dist/ holds are versions of modules.
Held(files) == \A p \in DOMAIN files : BodyOK(files[p].body) /\ (p \notin Functions => files[p].body = p)
LEMMA HeldOver ==
  ASSUME NEW new, NEW old, Held(new), Held(old)
  PROVE  Held(Over(new, old))
BY DEF Held, Over

LEMMA BundleBodies ==
  ASSUME BuildInv, build.pc \in DistPhases \cup OutputPhases
  PROVE  \A p \in DOMAIN build.outputs : BodyOK(build.outputs[p]) /\ (p \notin Functions => build.outputs[p] = p)
<1> DEFINE fs == build.inputs
           outputs == build.outputs
<1>1. fs \in SUBSET Functions /\ Bundled(outputs, fs)
  BY RunningBuild DEF BuildInv, Idle, DistPhases, OutputPhases
<1>2. PICK of \in Versions : BundledOf(outputs, fs, of)
  BY <1>1, BundleOf
<1> HIDE DEF fs, outputs
<1>3. \A p \in DOMAIN outputs : outputs[p] \in Bodies /\ BodyOK(outputs[p]) /\ p \in Paths
  BY <1>1, <1>2, BundleFiles, Zenon
<1>4. \A c \in DOMAIN outputs \ Functions : outputs[c] = c
  BY <1>2 DEF BundledOf
<1> QED BY <1>3, <1>4 DEF outputs

LEMMA HeldStep ==
  ASSUME TypeOK, BuildInv, WroteInv, Next
  PROVE  Held(dist'.files)
<1>0. Held(dist.files)
  BY DEF Held, TypeOK
<1>1. CASE \E p \in build.todo : WriteOutput(p) \/ FinishOutput(p)
  <2>1. PICK p \in build.todo : WriteOutput(p) \/ FinishOutput(p)
    BY <1>1
  <2> DEFINE g == Group(p, build.todo)
             raw == [q \in g |-> Raw(build.outputs[q])]
             done == [q \in g |-> Done(build.outputs[q])]
  <2>2. build.pc \in {"write", "finish"} /\ build.pc \in DistPhases /\ (Put(raw) \/ Put(done))
    BY <2>1 DEF WriteOutput, FinishOutput, At, DistPhases
  <2>3. g \subseteq DOMAIN build.outputs
    BY <2>1, <2>2, GroupFacts DEF WroteInv, Wrote
  <2>4. \A q \in g : BodyOK(build.outputs[q]) /\ (q \notin Functions => build.outputs[q] = q)
    BY <2>2, <2>3, BundleBodies
  <2>5. Held(raw) /\ Held(done)
    <3>1. \A x : Raw(x).body = x /\ Done(x).body = x
      BY DEF Raw, Done
    <3> HIDE DEF g
    <3> QED BY <2>4, <3>1 DEF Held
  <2>6. dist'.files = Over(raw, dist.files) \/ dist'.files = Over(done, dist.files)
    <3> HIDE DEF raw, done
    <3>1. \A contents : Put(contents) => dist'.files = Over(contents, dist.files)
      BY Putting
    <3> QED BY <2>2, <3>1
  <2> HIDE DEF raw, done
  <2>7. Held(Over(raw, dist.files)) /\ Held(Over(done, dist.files))
    BY <1>0, <2>5, HeldOver
  <2> QED BY <2>6, <2>7
<1>2. CASE OpenManifest \/ WriteManifest
  <2>1. dist'.files = dist.files
    BY <1>2 DEF OpenManifest, WriteManifest, WroteInv, Wrote
  <2> QED BY <1>0, <2>1
<1>3. CASE ~(\E p \in build.todo : WriteOutput(p) \/ FinishOutput(p)) /\ ~OpenManifest /\ ~WriteManifest
  <2>1. dist' = dist
    BY <1>3, DistLeft
  <2> QED BY <1>0, <2>1
<1> QED BY <1>1, <1>2, <1>3

\* So do the .func directories.
Packed(funcs) == \A f \in Functions : funcs[f] # None => \A m \in funcs[f].modules : BodyOK(m.body)
LEMMA PackedStep ==
  ASSUME TypeOK, BuildInv, EmitInv, RoutesInv, Next
  PROVE  Packed(output'.funcs)
<1>0. Packed(output.funcs)
  BY DEF Packed, TypeOK
<1>f. \A f \in Functions : output.funcs[f] \in FuncType => output.funcs[f] # None
  BY NoneAssumption
<1>1. ASSUME NEW f \in Functions, ChangesFunc(output'.funcs[f]), build'.fn = f, \A m \in output'.funcs[f].modules : BodyOK(m.body)
      PROVE  Packed(output'.funcs)
  <2>1. \A g \in Functions : g # f => output'.funcs[g] = output.funcs[g]
    BY <1>1, FuncChanged
  <2> QED BY <1>0, <1>1, <2>1 DEF Packed
<1>2. CASE FrontendBuild
  <2>1. output'.funcs = [f \in Functions |-> None]
    BY <1>2 DEF FrontendBuild
  <2> QED BY <2>1 DEF Packed
<1>3. CASE \E f \in Functions : RemoveFunc(f)
  <2>1. PICK f \in Functions : RemoveFunc(f)
    BY <1>3
  <2>2. output'.funcs[f] = [modules |-> {}, limit |-> None] /\ ChangesFunc(output'.funcs[f]) /\ build'.fn = f
    BY <2>1, RemoveMakes
  <2>3. output'.funcs[f].modules = {}
    BY <2>2
  <2> QED BY <1>1, <2>2, <2>3
<1>4. CASE CopyModule
  <2> DEFINE f == build.fn
  <2>1. /\ \A m \in output'.funcs[f].modules : m \in output.funcs[f].modules \/ BodyOK(m.body)
        /\ ChangesFunc(output'.funcs[f]) /\ build'.fn = f
    BY <1>4, CopyMakes
  <2>2. f \in Functions /\ output.funcs[f] \in FuncType
    BY <1>4, Making DEF CopyModule, At
  <2>3. \A m \in output.funcs[f].modules : BodyOK(m.body)
    BY <1>0, <1>f, <2>2 DEF Packed
  <2> QED BY <1>1, <2>1, <2>2, <2>3
<1>5. CASE WriteLimit
  <2> DEFINE f == build.fn
  <2>1. output'.funcs[f].modules = output.funcs[f].modules /\ ChangesFunc(output'.funcs[f]) /\ build'.fn = f
    BY <1>5, LimitMakes
  <2>2. f \in Functions /\ output.funcs[f] \in FuncType
    BY <1>5, Making DEF WriteLimit, At
  <2>3. \A m \in output.funcs[f].modules : BodyOK(m.body)
    BY <1>0, <1>f, <2>2 DEF Packed
  <2> QED BY <1>1, <2>1, <2>2, <2>3
<1>6. CASE OpenRoutes \/ WriteRoutes
  <2>1. output'.funcs = output.funcs
    BY <1>6 DEF OpenRoutes, WriteRoutes, RoutesInv, Routed
  <2> QED BY <1>0, <2>1
<1>7. CASE ~FrontendBuild /\ ~(\E f \in Functions : RemoveFunc(f)) /\ ~CopyModule /\ ~WriteLimit /\ ~OpenRoutes /\ ~WriteRoutes
  <2>1. output' = output
    BY <1>7, OutputLeft
  <2> QED BY <1>0, <2>1
<1> QED BY <1>2, <1>3, <1>4, <1>5, <1>6, <1>7

\* Sources are versions.
LEMMA SourceStep ==
  ASSUME TypeOK, CountInv, Next
  PROVE  target' = target /\ src' \in [Functions -> 0..(MaxEdits + 1)] /\ lib' \in Versions
<1>1. MaxEdits \in Nat
  BY ConstantsAssumption
<1>2. CASE Edit
  <2>1. edits' = edits + 1 /\ edits < MaxEdits /\ edits \in 0..MaxEdits /\ target' = target
    BY <1>2 DEF Edit, CountInv
  <2>2. edits' + 1 \in 1..(MaxEdits + 1) /\ {0, edits' + 1} \subseteq 0..(MaxEdits + 1)
    BY <1>1, <2>1
  <2>3. src' \in [Functions -> 0..(MaxEdits + 1)]
    <3>1. CASE \E f \in Functions : src' \in {[src EXCEPT ![f] = v] : v \in {0, edits' + 1}} \ {src}
      <4>1. PICK f \in Functions, v \in {0, edits' + 1} : src' = [src EXCEPT ![f] = v]
        BY <3>1
      <4> QED BY <2>2, <4>1 DEF TypeOK
    <3>2. CASE src' = src
      BY <3>2 DEF TypeOK
    <3> QED BY <1>2, <3>1, <3>2 DEF Edit
  <2>4. lib' \in Versions
    BY <1>2, <2>2 DEF Edit, TypeOK, Versions
  <2> QED BY <2>1, <2>3, <2>4
<1>3. CASE ~Edit
  <2>1. target' = target /\ src' = src /\ lib' = lib
    BY <1>3 DEF Next, FrontendBuild, Build, StartBuild, StartVercelBuild, Starts, Bundle, StopBuild, WriteOutput, FinishOutput,
       HashFunction, RemoveFunc, OpenManifest, WriteManifest, Capture, CopyModule, WriteLimit, OpenRoutes, WriteRoutes, At,
       Package, StartPackage, Plan, ReadJson, ReadFile, WritePayload, StopPackage, PackageAt
  <2> QED BY <2>1 DEF TypeOK
<1> QED BY <1>2, <1>3

\* The work of a build is with files that are there, or with functions.
LEMMA WorkOK ==
  ASSUME NEW b, NEW d, NEW funcs, Wrote(b, d), Emits(b, funcs),
         b = Idle \/ (b.pc \in {"bundle", "capture"} \cup DistPhases \cup OutputPhases /\ b.inputs \in SUBSET Functions
                      /\ (b.pc = "bundle" => b.todo = {}) /\ (b.pc = "capture" => b.todo \subseteq DOMAIN b.outputs))
  PROVE  b.todo \subseteq Functions \cup DOMAIN d.files \cup DOMAIN (IF b = Idle THEN NoFiles ELSE b.outputs)
<1>1. CASE b = Idle
  BY <1>1 DEF Idle
<1>2. CASE b # Idle
  <2>1. CASE b.pc \in OutputPhases \cup {"hash", "manifest", "written"}
    BY <1>2, <2>1 DEF Wrote, Emits
  <2>2. CASE b.pc \in {"bundle", "capture", "write", "finish"}
    BY <1>2, <2>2 DEF Wrote
  <2> QED BY <1>2, <2>1, <2>2 DEF DistPhases
<1> QED BY <1>1, <1>2

LEMMA TypeStep ==
  ASSUME IInv, Next, BuildInv', WroteInv', WholeInv', EmitInv', RoutesInv'
  PROVE  TypeOK'
<1>1. target' \in Targets /\ src' \in [Functions -> 0..(MaxEdits + 1)] /\ lib' \in Versions
  BY SourceStep DEF IInv, TypeOK
<1>2. Held(dist'.files)
  BY HeldStep DEF IInv
<1>3. dist'.manifest \in {None, Torn} \/ DOMAIN dist'.manifest.fns \subseteq Functions
  BY WholeNext DEF Left, ManifestOrNot, IsManifest
<1>4. Packed(output'.funcs)
  BY PackedStep DEF IInv
<1>5. output'.routes # Torn => output'.routes \in Seq(Functions \cup {User, Marker})
  BY RoutesNext DEF Routed, RoutesOK
<1>6. hurt' \subseteq Functions
  <2>1. hurt' \in {hurt, {}, hurt \cup build.inputs, hurt \ build.inputs} /\ (hurt' # hurt /\ hurt' # {} => build.pc # "idle" \/ hurt' \subseteq hurt)
    BY DEF Next, Edit, FrontendBuild, Build, StartBuild, StartVercelBuild, Starts, Bundle, StopBuild, WriteOutput, FinishOutput,
       HashFunction, RemoveFunc, OpenManifest, WriteManifest, Capture, CopyModule, WriteLimit, OpenRoutes, WriteRoutes,
       KeepsFiles, KeepsDist, ChangesDist, ChangesFunc, Package, StartPackage, Plan, ReadJson, ReadFile, WritePayload, StopPackage, PackageAt
  <2>2. build.pc # "idle" => build.inputs \subseteq Functions
    BY RunningBuild DEF IInv
  <2>3. hurt \subseteq Functions
    BY DEF IInv, TypeOK
  <2> QED BY <2>1, <2>2, <2>3
<1>7. build'.todo \subseteq Functions \cup DOMAIN dist'.files \cup DOMAIN (IF build' = Idle THEN NoFiles ELSE build'.outputs)
  <2>1. build' = Idle \/ (build'.pc \in {"bundle", "capture"} \cup DistPhases \cup OutputPhases /\ build'.inputs \in SUBSET Functions
                          /\ (build'.pc = "bundle" => build'.todo = {}) /\ (build'.pc = "capture" => build'.todo \subseteq DOMAIN build'.outputs))
    BY DEF BuildInv, Idle, DistPhases, OutputPhases
  <2>2. Wrote(build', dist') /\ Emits(build', output'.funcs)
    BY WroteNext, EmitNext
  <2> QED BY <2>1, <2>2, WorkOK
<1> QED BY <1>1, <1>2, <1>3, <1>4, <1>5, <1>6, <1>7 DEF TypeOK, Held, Packed, NoFiles, Idle, BodyOK, Bodies, Versions

LEMMA InitInv ==
  ASSUME Init
  PROVE  IInv
<1>0. MaxEdits \in Nat /\ 1 \in Versions /\ 1 \in 0..(MaxEdits + 1)
  BY ConstantsAssumption DEF Versions
<1>1. build.pc = "idle" /\ build.todo = {} /\ build = Idle /\ package = Idle
  BY DEF Init, Idle
<1>2. /\ dist = [files |-> NoFiles, manifest |-> None] /\ dist.files = NoFiles /\ dist.manifest = None
      /\ DOMAIN NoFiles = {} /\ NoFiles = [p \in DOMAIN NoFiles |-> NoFiles[p]]
  BY DEF Init, NoFiles
<1>3. /\ output = [funcs |-> [f \in Functions |-> None], routes |-> <<>>] /\ output.routes = <<>>
      /\ output.funcs = [f \in Functions |-> None]
  BY DEF Init, NoRoutes
<1>4. <<>> \in Seq(Functions \cup {User, Marker}) /\ DOMAIN <<>> = {}
  OBVIOUS
<1>5. TypeOK
  BY <1>0, <1>1, <1>2, <1>3, <1>4 DEF Init, TypeOK
<1>6. CountInv
  BY <1>0, ConstantsAssumption DEF Init, CountInv
<1>7. BuildInv /\ PackageInv
  BY <1>1 DEF BuildInv, PackageInv, Packing
<1>8. WroteInv
  BY <1>1, <1>2 DEF WroteInv, Wrote
<1>9. WholeInv
  BY <1>2 DEF Init, WholeInv, Left, ManifestOrNot
<1>10. PayloadInv
  BY DEF Init, PayloadInv
<1>11. EmitInv
  BY <1>1 DEF EmitInv, Emits, OutputPhases
<1>12. RoutesInv
  <2>1. FrontOK(output.routes) /\ \A f \in Functions : FuncOK(output.funcs[f], output.routes, f)
    BY <1>3, <1>4 DEF FrontOK, Theirs, FuncOK, Own
  <2>2. RoutesOK(output.funcs, output.routes, hurt \cup Busy(build))
    BY <1>3, <1>4, <2>1 DEF RoutesOK
  <2> QED BY <1>1, <1>3, <2>2 DEF RoutesInv, Routed
<1> QED BY <1>5, <1>6, <1>7, <1>8, <1>9, <1>10, <1>11, <1>12 DEF IInv

LEMMA NextInv ==
  ASSUME IInv, [Next]_vars
  PROVE  IInv'
<1>1. CASE Next
  <2>1. BuildInv'
    BY <1>1, BuildStep DEF IInv
  <2>2. WroteInv'
    BY <1>1, WroteStep DEF IInv
  <2>3. WholeInv'
    BY <1>1, WholeStep DEF IInv
  <2>4. PackageInv'
    BY <1>1, PackageStep DEF IInv
  <2>5. PayloadInv'
    BY <1>1, PayloadStep DEF IInv
  <2>6. EmitInv'
    BY <1>1, EmitStep DEF IInv
  <2>7. RoutesInv'
    BY <1>1, RoutesStep DEF IInv
  <2>8. CountInv'
    BY <1>1, CountStep DEF IInv
  <2>9. TypeOK'
    BY <1>1, <2>1, <2>2, <2>3, <2>6, <2>7, TypeStep
  <2> QED BY <2>1, <2>2, <2>3, <2>4, <2>5, <2>6, <2>7, <2>8, <2>9 DEF IInv
<1>2. CASE UNCHANGED vars
  <2>1. /\ build' = build /\ dist' = dist /\ whole' = whole /\ package' = package /\ payloads' = payloads /\ output' = output
        /\ hurt' = hurt /\ target' = target /\ src' = src /\ lib' = lib
        /\ edits' = edits /\ builds' = builds /\ packages' = packages /\ stops' = stops
    BY <1>2 DEF vars, counters
  <2>2. BuildInv'
    BY <2>1 DEF IInv, BuildInv, B, Bundled, OneOf, Shared
  <2>3. WroteInv' /\ WholeInv' /\ PackageInv' /\ EmitInv' /\ RoutesInv'
    BY <2>1, WroteNext, WholeNext, PackageNext, EmitNext, RoutesNext DEF IInv, WroteInv, WholeInv, PackageInv, EmitInv, RoutesInv
  <2>4. PayloadInv' /\ CountInv'
    BY <2>1 DEF IInv, PayloadInv, CountInv
  <2>5. TypeOK'
    BY <2>1 DEF IInv, TypeOK
  <2> QED BY <2>2, <2>3, <2>4, <2>5 DEF IInv
<1> QED BY <1>1, <1>2

\* The inductive invariant holds in every reachable state.
THEOREM Inductive == Spec => []IInv
<1>1. Init => IInv
  BY InitInv
<1>2. IInv /\ [Next]_vars => IInv'
  BY NextInv
<1> QED BY <1>1, <1>2, PTL DEF Spec

-----------------------------------------------------------------------------
(* Payloads *)

\* What a manifest names, and files that match it.
Body(m, f) == m.fns[f].hash.body
Shaped(m, files, of) ==
  LET fs == DOMAIN m.fns IN
  /\ fs \subseteq Functions
  /\ \A f \in fs : /\ OneOf(Body(m, f), f, of, Cardinality(fs) > 1) /\ m.fns[f].modules = {f, Body(m, f)} \cup Shared(of, fs)
                   /\ f \in DOMAIN files /\ files[f] = Done(Body(m, f))
  /\ DOMAIN m.chunks = {Body(m, f) : f \in fs} \cup Shared(of, fs)
  /\ \A c \in DOMAIN m.chunks : c \notin Functions /\ c \in DOMAIN files /\ files[c] = Done(c)

LEMMA Shapes ==
  ASSUME NEW m, NEW files, IsManifest(m), Matches(m, files)
  PROVE  \E of \in Versions : Shaped(m, files, of)
<1> DEFINE fs == DOMAIN m.fns
<1>1. PICK of \in Versions :
        /\ fs \subseteq Functions
        /\ \A f \in fs : EntryOK(m.fns[f], f, of, fs)
        /\ m.chunks = [c \in {m.fns[f].hash.body : f \in fs} \cup Shared(of, fs) |-> Done(c)]
  BY DEF IsManifest
<1>2. \A f \in fs : /\ OneOf(Body(m, f), f, of, Cardinality(fs) > 1) /\ m.fns[f].modules = {f, Body(m, f)} \cup Shared(of, fs)
                    /\ m.fns[f].hash = Done(Body(m, f))
  BY <1>1 DEF EntryOK, Body
<1>3. DOMAIN m.chunks = {Body(m, f) : f \in fs} \cup Shared(of, fs) /\ \A c \in DOMAIN m.chunks : m.chunks[c] = Done(c)
  BY <1>1 DEF Body
<1>4. \A c \in DOMAIN m.chunks : c \notin Functions
  <2>1. \A f \in fs : Body(m, f) \notin Functions
    BY <1>2, ConstantsAssumption DEF OneOf
  <2>2. Shared(of, fs) \subseteq {Lib(of)} /\ Lib(of) \notin Functions
    BY LibIsBody DEF Shared
  <2> QED BY <1>3, <2>1, <2>2
<1>5. Shaped(m, files, of)
  BY <1>1, <1>2, <1>3, <1>4 DEF Shaped, Matches
<1> QED BY <1>5

\* A payload that a gateway accepts is whole.
LEMMA ShapedIsWhole ==
  ASSUME NEW m, NEW files, NEW of \in Versions, Shaped(m, files, of), NEW f \in DOMAIN m.fns
  PROVE  LET modules == m.fns[f].modules IN
         /\ f \in modules /\ modules \subseteq DOMAIN files
         /\ \A p \in modules : files[p].done /\ Imports(p, files[p].body) \subseteq modules
<1> DEFINE fs == DOMAIN m.fns
           b == Body(m, f)
           modules == m.fns[f].modules
<1>1. /\ f \in Functions /\ OneOf(b, f, of, Cardinality(fs) > 1) /\ modules = {f, b} \cup Shared(of, fs)
      /\ f \in DOMAIN files /\ files[f] = Done(b)
      /\ DOMAIN m.chunks = {Body(m, g) : g \in fs} \cup Shared(of, fs)
      /\ \A c \in DOMAIN m.chunks : c \notin Functions /\ c \in DOMAIN files /\ files[c] = Done(c)
  BY DEF Shaped
<1>2. b \in DOMAIN m.chunks /\ Shared(of, fs) \subseteq DOMAIN m.chunks
  BY <1>1
<1> HIDE DEF fs, b, modules
<1>3. \A x : Done(x).body = x /\ Done(x).done = TRUE
  BY DEF Done
<1>4. f \in modules /\ modules \subseteq DOMAIN files
  BY <1>1, <1>2
<1>5. Imports(f, b) = {b}
  BY <1>1 DEF Imports
<1>6. Imports(b, b) = Shared(of, fs)
  BY <1>1, <1>2 DEF Imports, Shared, OneOf
<1>7. \A c \in Shared(of, fs) : Imports(c, c) = {}
  <2>1. Shared(of, fs) \subseteq {Lib(of)}
    BY DEF Shared
  <2>2. Imports(Lib(of), Lib(of)) = {}
    BY LibIsBody DEF Imports
  <2> QED BY <2>1, <2>2
<1>8. ASSUME NEW p \in modules PROVE files[p].done /\ Imports(p, files[p].body) \subseteq modules
  <2>1. CASE p = f
    BY <1>1, <1>3, <1>5, <2>1
  <2>2. CASE p = b
    BY <1>1, <1>2, <1>3, <1>6, <2>2
  <2>3. CASE p \in Shared(of, fs)
    BY <1>1, <1>2, <1>3, <1>7, <2>3
  <2> QED BY <1>1, <2>1, <2>2, <2>3
<1> QED BY <1>4, <1>8 DEF modules

\* Whatever a gateway accepts is whole, and it accepts all that was packaged undisturbed.
THEOREM PayloadsVerify == Spec => []VerificationIsRight
<1>1. IInv => VerificationIsRight
  <2> SUFFICES ASSUME IInv PROVE VerificationIsRight
    OBVIOUS
  <2>1. ASSUME NEW p \in payloads, Verifies(p) PROVE Matches(p.manifest, p.files) /\ IsManifest(p.manifest)
    BY <2>1 DEF IInv, PayloadInv, Sealed, ManifestOrNot, Verifies, Matches
  <2>2. VerifiedIsWhole
    <3> SUFFICES ASSUME NEW p \in payloads, Verifies(p), NEW f \in DOMAIN p.manifest.fns
                 PROVE  LET modules == p.manifest.fns[f].modules IN
                        /\ f \in modules /\ modules \subseteq DOMAIN p.files
                        /\ \A m \in modules : p.files[m].done /\ Imports(m, p.files[m].body) \subseteq modules
      BY DEF VerifiedIsWhole
    <3>1. PICK of \in Versions : Shaped(p.manifest, p.files, of)
      BY <2>1, Shapes
    <3> QED BY <3>1, ShapedIsWhole
  <2>3. AlonePackageVerifies
    <3> SUFFICES ASSUME NEW p \in payloads, p.alone, ~p.cut PROVE Verifies(p)
      BY DEF AlonePackageVerifies
    <3>1. p.manifest \notin {None, Torn} /\ Matches(p.manifest, p.files) /\ p.envelope.manifest = p.manifest
      BY DEF IInv, PayloadInv, Sealed
    <3> QED BY <3>1 DEF Verifies, verifyEnvelope, readPayload, Matches
  <2> QED BY <2>2, <2>3 DEF VerificationIsRight, IInv
<1> QED BY <1>1, Inductive, PTL

-----------------------------------------------------------------------------
(* Fingerprints *)

Text(files, p) == [done |-> files[p].done,
                   of |-> IF p \in Functions THEN None ELSE <<p.fn, p.at, IF p.split THEN None ELSE p.lib>>]
Known(m) == DOMAIN m.chunks \cup UNION {m.fns[f].modules : f \in DOMAIN m.fns}
Linked(m, files, p) == Imports(p, files[p].body) \cap Known(m)
Inner(m, files, p) == <<Text(files, p), {<<Text(files, q), {}>> : q \in Linked(m, files, p)}>>
HashOf(m, files, p) == <<Text(files, p), {Inner(m, files, q) : q \in Linked(m, files, p)}>>
LEMMA Fingerprints ==
  ASSUME NEW m, NEW files
  PROVE  Fingerprint(m, files) =
           [fns |-> [f \in DOMAIN m.fns |-> <<m.fns[f].limit, {HashOf(m, files, p) : p \in m.fns[f].modules}>>],
            chunks |-> {HashOf(m, files, p) : p \in DOMAIN m.chunks}]
BY DEF Fingerprint, Text, Known, Linked, Inner, HashOf

\* What a module's own text is.
LEMMA Texts ==
  ASSUME NEW m, NEW files, NEW of \in Versions, Shaped(m, files, of), NEW f \in DOMAIN m.fns
  PROVE  LET b == Body(m, f)
             split == Cardinality(DOMAIN m.fns) > 1 IN
         /\ Text(files, f).of = None
         /\ Text(files, b).of = <<f, b.at, IF split THEN None ELSE of>>
         /\ \A c \in Shared(of, DOMAIN m.fns) : Text(files, c).of = <<None, 0, of>>
         /\ b.lib = of /\ b.at \in Nat /\ f \in Functions /\ b = [fn |-> f, at |-> b.at, lib |-> of, split |-> split]
<1> DEFINE b == Body(m, f)
           split == Cardinality(DOMAIN m.fns) > 1
<1>1. /\ f \in Functions /\ b \in Bodies /\ b.fn = f /\ b.lib = of /\ b.split = split /\ b \notin Functions
  <2>1. f \in Functions /\ OneOf(b, f, of, split)
    BY DEF Shaped
  <2> QED BY <2>1, ConstantsAssumption DEF OneOf
<1> HIDE DEF b, split
<1>2. b.at \in Nat /\ b = [fn |-> f, at |-> b.at, lib |-> of, split |-> split]
  <2>1. b.at \in Nat /\ b = [fn |-> b.fn, at |-> b.at, lib |-> b.lib, split |-> b.split]
    BY <1>1 DEF Bodies
  <2> DEFINE v == b.at
  <2>2. b.at = v /\ v \in Nat
    BY <2>1
  <2> HIDE DEF v
  <2>3. b = [fn |-> f, at |-> v, lib |-> of, split |-> split]
    BY <1>1, <2>1, <2>2
  <2> QED BY <2>2, <2>3
<1>3. Text(files, f).of = None
  BY <1>1 DEF Text
<1>4. Text(files, b).of = <<f, b.at, IF split THEN None ELSE of>>
  BY <1>1 DEF Text
<1>5. Text(files, Lib(of)).of = <<None, 0, of>>
  <2>1. Lib(of) \notin Functions /\ Lib(of).fn = None /\ Lib(of).split = FALSE /\ Lib(of).lib = of /\ Lib(of).at = 0
    BY LibIsBody DEF Lib, Code
  <2> QED BY <2>1 DEF Text
<1>6. Shared(of, DOMAIN m.fns) \subseteq {Lib(of)}
  BY DEF Shared
<1> QED BY <1>1, <1>2, <1>3, <1>4, <1>5, <1>6 DEF b, split

\* From equal hashes of a function's modules, equal versions of its code and of the shared module.
LEMMA HashesTell ==
  ASSUME NEW m, NEW files, NEW of \in Versions, Shaped(m, files, of),
         NEW n, NEW giles, NEW ov \in Versions, Shaped(n, giles, ov),
         DOMAIN m.fns = DOMAIN n.fns, NEW f \in DOMAIN m.fns,
         {HashOf(m, files, p) : p \in m.fns[f].modules} = {HashOf(n, giles, p) : p \in n.fns[f].modules}
  PROVE  Body(m, f).at = Body(n, f).at /\ of = ov
<1> DEFINE fs == DOMAIN m.fns
           split == Cardinality(fs) > 1
           b == Body(m, f)
           c == Body(n, f)
<1>1. /\ m.fns[f].modules = {f, b} \cup Shared(of, fs) /\ n.fns[f].modules = {f, c} \cup Shared(ov, fs)
      /\ (split => Shared(of, fs) = {Lib(of)}) /\ (~split => Shared(of, fs) = {})
  BY DEF Shaped, Shared
<1>2. ASSUME NEW p \in m.fns[f].modules PROVE \E q \in n.fns[f].modules : Text(files, p) = Text(giles, q)
  <2>1. PICK q \in n.fns[f].modules : HashOf(m, files, p) = HashOf(n, giles, q)
    OBVIOUS
  <2> QED BY <2>1 DEF HashOf
<1>3. /\ Text(files, b).of = <<f, b.at, IF split THEN None ELSE of>> /\ b.at \in Nat /\ f \in Functions
      /\ \A s \in Shared(of, fs) : Text(files, s).of = <<None, 0, of>>
  BY Texts
<1>4. /\ Text(giles, f).of = None /\ Text(giles, c).of = <<f, c.at, IF split THEN None ELSE ov>>
      /\ \A s \in Shared(ov, fs) : Text(giles, s).of = <<None, 0, ov>>
  BY Texts
<1>5. None \notin Functions /\ None \notin (Functions \cup {None}) \X Nat \X (Nat \cup {None}) /\ of \in Nat /\ 0 \in Nat
  BY NoneAssumption DEF Versions
<1> HIDE DEF fs, split, b, c
<1>6. b.at = c.at /\ (~split => of = ov)
  <2>1. PICK q \in n.fns[f].modules : Text(files, b) = Text(giles, q)
    BY <1>1, <1>2
  <2>2. Text(giles, q).of = <<f, b.at, IF split THEN None ELSE of>>
    BY <1>3, <2>1
  <2>3. q # f
    <3> SUFFICES ASSUME q = f PROVE FALSE
      OBVIOUS
    <3>1. None = <<f, b.at, IF split THEN None ELSE of>>
      BY <1>4, <2>2
    <3> DEFINE third == IF split THEN None ELSE of
    <3>2. third \in Nat \cup {None}
      BY <1>5
    <3> HIDE DEF third
    <3>3. <<f, b.at, third>> \in (Functions \cup {None}) \X Nat \X (Nat \cup {None})
      BY <1>3, <3>2
    <3> QED BY <1>5, <3>1, <3>3 DEF third
  <2>4. q \notin Shared(ov, fs)
    BY <1>3, <1>4, <1>5, <2>2
  <2>5. q = c
    BY <1>1, <2>3, <2>4
  <2>6. <<f, b.at, IF split THEN None ELSE of>> = <<f, c.at, IF split THEN None ELSE ov>>
    BY <1>4, <2>2, <2>5
  <2> QED BY <2>6
<1>7. split => of = ov
  <2> SUFFICES ASSUME split PROVE of = ov
    OBVIOUS
  <2>1. Lib(of) \in Shared(of, fs)
    BY <1>1
  <2>2. PICK q \in n.fns[f].modules : Text(files, Lib(of)) = Text(giles, q)
    BY <1>1, <1>2, <2>1
  <2>3. Text(giles, q).of = <<None, 0, of>>
    BY <1>3, <2>1, <2>2
  <2>4. q # f
    <3> SUFFICES ASSUME q = f PROVE FALSE
      OBVIOUS
    <3>1. None = <<None, 0, of>>
      BY <1>4, <2>3
    <3>2. <<None, 0, of>> \in (Functions \cup {None}) \X Nat \X (Nat \cup {None})
      BY <1>5
    <3> QED BY <1>5, <3>1, <3>2
  <2>5. q # c
    BY <1>3, <1>4, <1>5, <2>3
  <2>6. Text(giles, q).of = <<None, 0, ov>>
    BY <1>1, <1>4, <2>4, <2>5
  <2> QED BY <2>3, <2>6
<1> QED BY <1>6, <1>7 DEF b, c

\* From equal versions, the same fingerprint.
LEMMA SameVersions ==
  ASSUME NEW m, NEW files, NEW of \in Versions, Shaped(m, files, of),
         NEW n, NEW giles, NEW ov \in Versions, Shaped(n, giles, ov),
         DOMAIN m.fns = DOMAIN n.fns,
         \A f \in DOMAIN m.fns : m.fns[f].limit = n.fns[f].limit /\ Body(m, f).at = Body(n, f).at /\ Body(m, f).lib = Body(n, f).lib
  PROVE  Fingerprint(m, files) = Fingerprint(n, giles)
<1> DEFINE fs == DOMAIN m.fns
           K == Known(m)
<1>1. \A f \in fs : Body(m, f) = Body(n, f) /\ of = ov
  <2> SUFFICES ASSUME NEW f \in fs PROVE Body(m, f) = Body(n, f) /\ of = ov
    OBVIOUS
  <2> DEFINE b == Body(m, f)
             c == Body(n, f)
             split == Cardinality(fs) > 1
  <2>1. b.lib = of /\ b = [fn |-> f, at |-> b.at, lib |-> of, split |-> split]
    BY Texts
  <2>2. c.lib = ov /\ c = [fn |-> f, at |-> c.at, lib |-> ov, split |-> split]
    BY Texts
  <2>3. b.at = c.at /\ b.lib = c.lib
    OBVIOUS
  <2> HIDE DEF split, b, c
  <2>4. of = ov
    BY <2>1, <2>2, <2>3
  <2>5. [fn |-> f, at |-> b.at, lib |-> of, split |-> split] = [fn |-> f, at |-> c.at, lib |-> ov, split |-> split]
    BY <2>3, <2>4
  <2> QED BY <2>1, <2>2, <2>4, <2>5 DEF b, c
<1>2. Shared(of, fs) = Shared(ov, fs)
  <2>1. CASE fs = {}
    <3>1. Cardinality(fs) = 0
      BY <2>1, FS_EmptySet
    <3> QED BY <3>1 DEF Shared
  <2>2. CASE fs # {}
    BY <1>1, <2>2
  <2> QED BY <2>1, <2>2
<1>3. \A f \in fs : m.fns[f].modules = n.fns[f].modules
  <2> SUFFICES ASSUME NEW f \in fs PROVE m.fns[f].modules = n.fns[f].modules
    OBVIOUS
  <2>1. m.fns[f].modules = {f, Body(m, f)} \cup Shared(of, fs) /\ n.fns[f].modules = {f, Body(n, f)} \cup Shared(ov, fs)
    BY DEF Shaped
  <2> QED BY <1>1, <1>2, <2>1
<1>4. DOMAIN m.chunks = DOMAIN n.chunks
  <2>1. DOMAIN m.chunks = {Body(m, f) : f \in fs} \cup Shared(of, fs) /\ DOMAIN n.chunks = {Body(n, f) : f \in fs} \cup Shared(ov, fs)
    BY DEF Shaped
  <2>2. {Body(m, f) : f \in fs} = {Body(n, f) : f \in fs}
    BY <1>1
  <2> QED BY <1>2, <2>1, <2>2
<1>5. Known(n) = K
  <2>1. UNION {m.fns[f].modules : f \in fs} = UNION {n.fns[f].modules : f \in fs}
    BY <1>3
  <2> QED BY <1>4, <2>1 DEF Known
<1>6. \A p \in K : files[p] = giles[p]
  <2> SUFFICES ASSUME NEW p \in K PROVE files[p] = giles[p]
    OBVIOUS
  <2>1. p \in DOMAIN m.chunks \/ p \in fs
    <3>1. p \in DOMAIN m.chunks \/ \E f \in fs : p \in m.fns[f].modules
      BY DEF Known
    <3>2. \A f \in fs : m.fns[f].modules \subseteq DOMAIN m.chunks \cup fs
      BY DEF Shaped
    <3> QED BY <3>1, <3>2
  <2>2. CASE p \in fs
    BY <1>1, <2>2 DEF Shaped
  <2>3. CASE p \in DOMAIN m.chunks
    BY <1>4, <2>3 DEF Shaped
  <2> QED BY <2>1, <2>2, <2>3
<1>7. \A p \in K : Text(files, p) = Text(giles, p) /\ Linked(m, files, p) = Linked(n, giles, p) /\ Linked(m, files, p) \subseteq K
  BY <1>5, <1>6 DEF Text, Linked
<1> HIDE DEF K
<1>8. ASSUME NEW p \in K PROVE Inner(m, files, p) = Inner(n, giles, p)
  <2> DEFINE S == Linked(m, files, p)
  <2>1. S = Linked(n, giles, p) /\ S \subseteq K /\ Text(files, p) = Text(giles, p)
    BY <1>7
  <2> HIDE DEF S
  <2>2. {<<Text(files, q), {}>> : q \in S} = {<<Text(giles, q), {}>> : q \in S}
    BY <1>7, <2>1
  <2> QED BY <2>1, <2>2 DEF Inner, S
<1>9. ASSUME NEW p \in K PROVE HashOf(m, files, p) = HashOf(n, giles, p)
  <2> DEFINE S == Linked(m, files, p)
  <2>1. S = Linked(n, giles, p) /\ S \subseteq K /\ Text(files, p) = Text(giles, p)
    BY <1>7
  <2> HIDE DEF S
  <2>2. {Inner(m, files, q) : q \in S} = {Inner(n, giles, q) : q \in S}
    BY <1>8, <2>1
  <2> QED BY <2>1, <2>2 DEF HashOf, S
<1>10. \A f \in fs : m.fns[f].modules \subseteq K
  BY DEF K, Known
<1>11. DOMAIN m.chunks \subseteq K
  BY DEF K, Known
<1>12. {HashOf(m, files, p) : p \in DOMAIN m.chunks} = {HashOf(n, giles, p) : p \in DOMAIN n.chunks}
  BY <1>4, <1>9, <1>11
<1>13. ASSUME NEW f \in fs
       PROVE  <<m.fns[f].limit, {HashOf(m, files, p) : p \in m.fns[f].modules}>> = <<n.fns[f].limit, {HashOf(n, giles, p) : p \in n.fns[f].modules}>>
  <2>1. {HashOf(m, files, p) : p \in m.fns[f].modules} = {HashOf(n, giles, p) : p \in n.fns[f].modules}
    BY <1>3, <1>9, <1>10
  <2> QED BY <2>1
<1>14. [f \in fs |-> <<m.fns[f].limit, {HashOf(m, files, p) : p \in m.fns[f].modules}>>] =
       [f \in fs |-> <<n.fns[f].limit, {HashOf(n, giles, p) : p \in n.fns[f].modules}>>]
  BY <1>13
<1> QED BY <1>12, <1>14, Fingerprints

\* The hash by which the host skips an update names just what would run.
THEOREM HashNamesContent == Spec => []FingerprintNamesContent
<1>1. IInv => FingerprintNamesContent
  <2> SUFFICES ASSUME IInv, NEW p \in payloads, NEW q \in payloads, p.alone, q.alone
               PROVE  (p.envelope.content = q.envelope.content) <=> (Content(p) = Content(q))
    BY DEF FingerprintNamesContent
  <2> DEFINE m == p.manifest
             n == q.manifest
             files == p.files
             giles == q.files
  <2>1. /\ IsManifest(m) /\ Matches(m, files) /\ p.envelope.content = Fingerprint(m, files)
        /\ IsManifest(n) /\ Matches(n, giles) /\ q.envelope.content = Fingerprint(n, giles)
    BY DEF IInv, PayloadInv, Sealed
  <2>2. /\ Content(p) = [f \in DOMAIN m.fns |-> <<m.fns[f].limit, files[f].body.at, files[f].body.lib>>]
        /\ Content(q) = [f \in DOMAIN n.fns |-> <<n.fns[f].limit, giles[f].body.at, giles[f].body.lib>>]
    BY DEF Content
  <2> HIDE DEF m, n, files, giles
  <2>3. PICK of \in Versions : Shaped(m, files, of)
    BY <2>1, Shapes
  <2>4. PICK ov \in Versions : Shaped(n, giles, ov)
    BY <2>1, Shapes
  <2>5. (\A f \in DOMAIN m.fns : files[f].body = Body(m, f)) /\ (\A f \in DOMAIN n.fns : giles[f].body = Body(n, f))
    <3>1. \A x : Done(x).body = x
      BY DEF Done
    <3>2. (\A f \in DOMAIN m.fns : files[f] = Done(Body(m, f))) /\ (\A f \in DOMAIN n.fns : giles[f] = Done(Body(n, f)))
      BY <2>3, <2>4 DEF Shaped
    <3> QED BY <3>1, <3>2
  <2> DEFINE F(mm, ff) == [f \in DOMAIN mm.fns |-> <<mm.fns[f].limit, {HashOf(mm, ff, x) : x \in mm.fns[f].modules}>>]
  <2>6. ASSUME p.envelope.content = q.envelope.content PROVE Content(p) = Content(q)
    <3>1. Fingerprint(m, files).fns = Fingerprint(n, giles).fns
      BY <2>1, <2>6
    <3>2. F(m, files) = F(n, giles)
      <4>1. Fingerprint(m, files).fns = F(m, files) /\ Fingerprint(n, giles).fns = F(n, giles)
        BY Fingerprints
      <4> QED BY <3>1, <4>1
    <3>3. DOMAIN F(m, files) = DOMAIN m.fns /\ DOMAIN F(n, giles) = DOMAIN n.fns
      OBVIOUS
    <3>4. DOMAIN m.fns = DOMAIN n.fns
      BY <3>2, <3>3
    <3>5. ASSUME NEW f \in DOMAIN m.fns
          PROVE  <<m.fns[f].limit, files[f].body.at, files[f].body.lib>> = <<n.fns[f].limit, giles[f].body.at, giles[f].body.lib>>
      <4>1. /\ F(m, files)[f] = <<m.fns[f].limit, {HashOf(m, files, x) : x \in m.fns[f].modules}>>
            /\ F(n, giles)[f] = <<n.fns[f].limit, {HashOf(n, giles, x) : x \in n.fns[f].modules}>>
        BY <3>4
      <4> HIDE DEF F
      <4>2. <<m.fns[f].limit, {HashOf(m, files, x) : x \in m.fns[f].modules}>> = <<n.fns[f].limit, {HashOf(n, giles, x) : x \in n.fns[f].modules}>>
        BY <3>2, <4>1
      <4>3. /\ m.fns[f].limit = n.fns[f].limit
            /\ {HashOf(m, files, x) : x \in m.fns[f].modules} = {HashOf(n, giles, x) : x \in n.fns[f].modules}
        BY <4>2
      <4>4. Body(m, f).at = Body(n, f).at /\ of = ov
        BY <2>3, <2>4, <3>4, <4>3, HashesTell
      <4>5. Body(m, f).lib = of /\ Body(n, f).lib = ov
        BY <2>3, <2>4, <3>4, Texts
      <4> QED BY <2>5, <3>4, <4>3, <4>4, <4>5
    <3> QED BY <2>2, <3>4, <3>5
  <2>7. ASSUME Content(p) = Content(q) PROVE p.envelope.content = q.envelope.content
    <3>1. DOMAIN m.fns = DOMAIN n.fns
      BY <2>2, <2>7
    <3>2. ASSUME NEW f \in DOMAIN m.fns
          PROVE  m.fns[f].limit = n.fns[f].limit /\ Body(m, f).at = Body(n, f).at /\ Body(m, f).lib = Body(n, f).lib
      <4>1. Content(p)[f] = <<m.fns[f].limit, files[f].body.at, files[f].body.lib>> /\ Content(q)[f] = <<n.fns[f].limit, giles[f].body.at, giles[f].body.lib>>
        BY <2>2, <3>1
      <4>2. <<m.fns[f].limit, files[f].body.at, files[f].body.lib>> = <<n.fns[f].limit, giles[f].body.at, giles[f].body.lib>>
        BY <2>7, <4>1
      <4> QED BY <2>5, <3>1, <4>2
    <3>3. Fingerprint(m, files) = Fingerprint(n, giles)
      BY <2>3, <2>4, <3>1, <3>2, SameVersions
    <3> QED BY <2>1, <3>3
  <2> QED BY <2>6, <2>7
<1> QED BY <1>1, Inductive, PTL

-----------------------------------------------------------------------------
(* Routes *)

\* Between builds, routes lead to the functions that have a directory, and their directories are whole.
THEOREM RoutesLeadThere == Spec => []RoutesReachFunctions
<1>1. IInv => RoutesReachFunctions
  <2> SUFFICES ASSUME IInv, build.pc = "idle", output.routes # Torn PROVE RoutesReachFunctions
    BY DEF RoutesReachFunctions
  <2> DEFINE routes == output.routes
  <2>1. Busy(build) = {}
    BY DEF Busy, OutputPhases
  <2>2. FrontOK(routes) /\ \A f \in Functions \ hurt : FuncOK(output.funcs[f], routes, f)
    BY <2>1 DEF IInv, RoutesInv, Routed, RoutesOK
  <2>4. ASSUME NEW f \in Functions \ hurt
        PROVE  LET own == {i \in DOMAIN routes : routes[i] = f}
                   func == output.funcs[f] IN
               /\ (func = None) <=> (own = {})
               /\ func # None =>
                    /\ \A i \in own : own = {i} /\ \A j \in 1..i : routes[j] # Marker
                    /\ func.limit # None
                    /\ \E m \in func.modules : m.path = f /\ func.modules =
                         {[path |-> p, body |-> IF p = f THEN m.body ELSE p] :
                             p \in Reachable(f, [g \in {f} |-> m.body])}
    <3>1. CASE output.funcs[f] = None
      BY <2>2, <3>1 DEF FuncOK, Own
    <3>2. CASE output.funcs[f] # None
      <4>1. RouteOK(routes, f) /\ Complete(f, output.funcs[f])
        BY <2>2, <3>2 DEF FuncOK
      <4>2. PICK i \in DOMAIN routes : Own(routes, f) = {i} /\ \A j \in 1..i : routes[j] # Marker
        BY <4>1 DEF RouteOK
      <4> QED BY <3>2, <4>1, <4>2 DEF Own, Complete, Copies
    <3> QED BY <3>1, <3>2
  <2>5. LET theirs == {i \in DOMAIN routes : routes[i] \notin Functions} IN
        \/ theirs = {}
        \/ \E i, j, k \in theirs :
             /\ i < j /\ j < k /\ theirs = {i, j, k}
             /\ routes[i] = User /\ routes[j] = Marker /\ routes[k] = User
    BY <2>2 DEF FrontOK, Theirs
  <2> QED BY <2>4, <2>5 DEF RoutesReachFunctions
<1> QED BY <1>1, Inductive, PTL
-----------------------------------------------------------------------------
(***************************************************************************)
(* The stores of packages and of remote modules.  What the package store   *)
(* is trusted with is whole because of what the marker and the one install *)
(* under way say together (StoreInv); a cached module is, because of which *)
(* of its two files its writer has reached (RemoteInv).  Both hold as long *)
(* as no two writers met.                                                  *)
(***************************************************************************)

\* Only what package.json lists is ever extracted.
ListedInv ==
  /\ \A a \in Aliases : disk[a] # "absent" => a \in packageJson
  /\ \A s \in Slots : child[s] # NoInstall =>
       child[s].left \subseteq packageJson /\ child[s].on \in packageJson \cup {NoInstall}

\* An install is alone, its marker is set, and what it neither has to extract nor is
\* extracting is whole; without a marker nothing is half-extracted.
StoreInv == ~overlapped =>
  /\ \A s, t \in Slots : child[s] # NoInstall /\ child[t] # NoInstall => s = t
  /\ \A s \in Slots : child[s] # NoInstall =>
       /\ marker
       /\ child[s].exit = "ok" => child[s].left = {} /\ child[s].on = NoInstall
       /\ \A a \in packageJson : a \notin child[s].left /\ a # child[s].on => disk[a] = "whole"
  /\ ~marker => \A a \in packageJson : disk[a] # "partial"

\* A call that waits for its install has everything the host lacks in package.json.
AskedInv == \A p \in Procs :
  child[<<p, "awaited">>] # NoInstall => \A r \in Head(chain[p]) : HostHas(r) \/ Alias(r) \in packageJson

\* One writer at a time: a truncated body has no meta file, and the meta file is
\* written after the whole body.
RemoteInv == ~clobbered =>
  /\ \A p, q \in Procs : Writing(p) /\ Writing(q) => p = q
  /\ \A p \in Procs : fetching[p] \in {"written", "meta"} => bodyFile = "whole"
  /\ metaFile => bodyFile = "whole"

PackagesInv == DepsTypeOK /\ ListedInv /\ StoreInv /\ AskedInv /\ RemoteInv

-----------------------------------------------------------------------------
(* Types *)

LEMMA SlotOf ==
  ASSUME NEW p \in Procs
  PROVE  <<p, "awaited">> \in Slots /\ <<p, "blocking">> \in Slots
  BY DEF Slots, Kinds

LEMMA ListedTyped ==
  ASSUME NEW reqs \in SUBSET Requests
  PROVE  Listed(reqs) = packageJson \cup {Alias(r) : r \in reqs} /\ {Alias(r) : r \in reqs} \subseteq Aliases
  BY DEF Listed, Aliases

\* An install starts with everything that has to be extracted before it.
LEMMA Begun ==
  ASSUME DepsTypeOK, NEW s \in Slots, NEW reqs \in SUBSET Requests, BeginInstall(s, reqs)
  PROVE  /\ packageJson' = packageJson \cup {Alias(r) : r \in reqs} /\ packageJson' \subseteq Aliases /\ marker'
         /\ marker' \in BOOLEAN /\ overlapped' \in BOOLEAN
         /\ child' \in [Slots -> InstallType \cup {NoInstall}]
         /\ child'[s] # NoInstall /\ child'[s].on = NoInstall /\ child'[s].exit = "no"
         /\ child'[s].left = {a \in packageJson' : marker \/ disk[a] = "absent"}
         /\ \A t \in Slots \ {s} : child'[t] = child[t]
         /\ ~overlapped' => ~overlapped /\ \A t \in Slots : child[t] = NoInstall
<1> DEFINE left == {a \in Listed(reqs) : marker \/ disk[a] = "absent"}
           refused == (Listed(reqs) \cap Refused # {})
           new == [left |-> left, on |-> NoInstall, refused |-> refused, exit |-> "no"]
<1>1. packageJson' = Listed(reqs) /\ marker' = TRUE /\ child' = [child EXCEPT ![s] = new]
      /\ overlapped' = (overlapped \/ \E t \in Slots : child[t] # NoInstall)
  BY DEF BeginInstall
<1>2. packageJson' = packageJson \cup {Alias(r) : r \in reqs} /\ packageJson' \subseteq Aliases
  BY <1>1, ListedTyped DEF DepsTypeOK
<1>3. left \in SUBSET Aliases
  BY <1>1, <1>2
<1>4. refused \in BOOLEAN
  OBVIOUS
<1> HIDE DEF left, refused
<1>5. new \in InstallType /\ new.on = NoInstall /\ new.exit = "no" /\ new.left = left
  BY <1>3, <1>4 DEF InstallType
<1> HIDE DEF new
<1>6. child' \in [Slots -> InstallType \cup {NoInstall}] /\ child'[s] = new /\ \A t \in Slots \ {s} : child'[t] = child[t]
  BY <1>1, <1>5 DEF DepsTypeOK
<1>7. new # NoInstall
  BY <1>5, DepsAssumption
<1>8. left = {a \in packageJson' : marker \/ disk[a] = "absent"}
  BY <1>1 DEF left
<1>9. overlapped' \in BOOLEAN
  BY <1>1, Zenon DEF DepsTypeOK
<1> QED BY <1>1, <1>2, <1>5, <1>6, <1>7, <1>8, <1>9

\* What the steps of a running install do to it and to the disk.
LEMMA Extracted ==
  ASSUME DepsTypeOK, NEW s \in Slots, Extract(s)
  PROVE  /\ child' \in [Slots -> InstallType \cup {NoInstall}]
         /\ child[s] \in InstallType /\ child'[s] \in InstallType /\ child[s].exit = "no" /\ child'[s].exit = "no"
         /\ \A t \in Slots \ {s} : child'[t] = child[t]
         /\ \/ \E a \in child[s].left :
                 /\ child[s].on = NoInstall
                 /\ child'[s].left = child[s].left \ {a} /\ child'[s].on = a
                 /\ disk' = [disk EXCEPT ![a] = "partial"]
            \/ /\ child[s].on \in Aliases
               /\ child'[s].left = child[s].left /\ child'[s].on = NoInstall
               /\ disk' = [disk EXCEPT ![child[s].on] =
                    IF \E t \in Slots \ {s} : Running(t) /\ child[t].on = child[s].on THEN "partial" ELSE "whole"]
<1>1. child[s] \in InstallType /\ child[s].exit = "no" /\ child[s].left \subseteq Aliases
      /\ child[s].on \in Aliases \cup {NoInstall}
  BY DEF DepsTypeOK, Extract, Running, InstallType
<1>2. CASE child[s].on = NoInstall
  <2>1. PICK a \in child[s].left :
          child' = [child EXCEPT ![s].on = a, ![s].left = @ \ {a}] /\ disk' = [disk EXCEPT ![a] = "partial"]
    BY <1>2 DEF Extract
  <2>2. child'[s] = [child[s] EXCEPT !.on = a, !.left = child[s].left \ {a}]
        /\ \A t \in Slots \ {s} : child'[t] = child[t]
    BY <2>1 DEF DepsTypeOK
  <2>3. child'[s] \in InstallType /\ child'[s].exit = "no" /\ child'[s].left = child[s].left \ {a} /\ child'[s].on = a
    <3>1. a \in Aliases /\ child[s].left \ {a} \in SUBSET Aliases
      BY <1>1
    <3> DEFINE rest == child[s].left \ {a}
    <3>2. child'[s] = [child[s] EXCEPT !.on = a, !.left = rest] /\ rest \in SUBSET Aliases
      BY <2>2, <3>1
    <3> HIDE DEF rest
    <3>3. child'[s] \in InstallType /\ child'[s].exit = "no" /\ child'[s].left = rest /\ child'[s].on = a
      BY <1>1, <3>1, <3>2 DEF InstallType
    <3> QED BY <3>3 DEF rest
  <2>4. child' \in [Slots -> InstallType \cup {NoInstall}]
    BY <2>1, <2>2, <2>3 DEF DepsTypeOK
  <2> QED BY <1>1, <1>2, <2>1, <2>2, <2>3, <2>4
<1>3. CASE child[s].on # NoInstall
  <2>1. /\ child' = [child EXCEPT ![s].on = NoInstall]
        /\ disk' = [disk EXCEPT ![child[s].on] =
             IF \E t \in Slots \ {s} : Running(t) /\ child[t].on = child[s].on THEN "partial" ELSE "whole"]
    BY <1>3 DEF Extract
  <2>2. child'[s] = [child[s] EXCEPT !.on = NoInstall] /\ \A t \in Slots \ {s} : child'[t] = child[t]
    BY <2>1 DEF DepsTypeOK
  <2>3. child'[s] \in InstallType /\ child'[s].exit = "no" /\ child'[s].left = child[s].left /\ child'[s].on = NoInstall
    BY <1>1, <2>2 DEF InstallType
  <2>4. child' \in [Slots -> InstallType \cup {NoInstall}]
    BY <2>1, <2>2, <2>3 DEF DepsTypeOK
  <2> QED BY <1>1, <1>3, <2>1, <2>2, <2>3, <2>4
<1> QED BY <1>2, <1>3

LEMMA Exited ==
  ASSUME DepsTypeOK, NEW s \in Slots, Exit(s)
  PROVE  /\ child' \in [Slots -> InstallType \cup {NoInstall}]
         /\ child[s] # NoInstall /\ child'[s] # NoInstall
         /\ child'[s].left = child[s].left /\ child'[s].on = child[s].on
         /\ child'[s].exit = "ok" => child[s].left = {} /\ child[s].on = NoInstall
         /\ \A t \in Slots \ {s} : child'[t] = child[t]
<1>1. child[s] \in InstallType
  BY DEF DepsTypeOK, Exit, Running
<1>2. PICK code \in {"ok", "failed"} :
        child' = [child EXCEPT ![s].exit = code] /\ (code = "ok" => child[s].left = {} /\ child[s].on = NoInstall)
  BY DEF Exit
<1>3. child'[s] = [child[s] EXCEPT !.exit = code] /\ \A t \in Slots \ {s} : child'[t] = child[t]
  BY <1>2 DEF DepsTypeOK
<1>4. child'[s] \in InstallType /\ child'[s].left = child[s].left /\ child'[s].on = child[s].on /\ child'[s].exit = code
  BY <1>1, <1>3 DEF InstallType
<1> QED BY <1>1, <1>2, <1>3, <1>4, DepsAssumption DEF DepsTypeOK

\* The steps that concern the package store; all others leave it alone.
StoreSteps ==
  \/ \E s \in Slots : Extract(s) \/ Exit(s)
  \/ \E p \in Procs :
       \/ \E reqs \in SUBSET Requests :
            \/ reqs = ToInstall(Head(chain[p])) /\ StartEnsure(p) /\ reqs # {} /\ BeginInstall(<<p, "awaited">>, reqs)
            \/ (\E r \in Requests : reqs = {r} /\ Resolve(p, r)) /\ BeginInstall(<<p, "blocking">>, reqs)
       \/ EndEnsure(p) \/ EndResolve(p) \/ Kill(p)

LEMMA HeadOfChain ==
  ASSUME DepsTypeOK, NEW p \in Procs, chain[p] # <<>>
  PROVE  Head(chain[p]) \in SUBSET Requests /\ ToInstall(Head(chain[p])) \in SUBSET Requests
  BY DepsAssumption DEF DepsTypeOK, ToInstall, Missing

LEMMA Steps ==
  ASSUME DepsTypeOK, [DepsNext]_depsVars
  PROVE  StoreSteps \/ UNCHANGED <<storeVars, child, overlapped>>
<1>1. ASSUME NEW p \in Procs, StartEnsure(p) PROVE StoreSteps \/ UNCHANGED <<storeVars, child, overlapped>>
  BY <1>1, HeadOfChain DEF StartEnsure, StoreSteps
<1>2. ASSUME NEW p \in Procs, NEW r \in Requests, Resolve(p, r)
      PROVE  StoreSteps \/ UNCHANGED <<storeVars, child, overlapped>>
  BY <1>2 DEF Resolve, StoreSteps
<1>3. ASSUME NEW p \in Procs,
             \/ \E reqs \in Batches : Ensure(p, reqs)
             \/ Load(p) \/ FetchFails(p) \/ Download(p) \/ Start(p)
      PROVE  UNCHANGED <<storeVars, child, overlapped>>
  BY <1>3 DEF Ensure, Load, FetchFails, Download, Start
<1>4. CASE UNCHANGED depsVars
  BY <1>4 DEF depsVars
<1> QED BY <1>1, <1>2, <1>3, <1>4 DEF DepsNext, StoreSteps

LEMMA StoreTypes ==
  ASSUME DepsTypeOK, [DepsNext]_depsVars
  PROVE  /\ packageJson' \subseteq Aliases /\ marker' \in BOOLEAN /\ overlapped' \in BOOLEAN
         /\ disk' \in [Aliases -> {"absent", "partial", "whole"}]
         /\ child' \in [Slots -> InstallType \cup {NoInstall}]
<1> DEFINE Typed == /\ packageJson' \subseteq Aliases /\ marker' \in BOOLEAN /\ overlapped' \in BOOLEAN
                    /\ disk' \in [Aliases -> {"absent", "partial", "whole"}]
                    /\ child' \in [Slots -> InstallType \cup {NoInstall}]
<1>1. ASSUME NEW s \in Slots, Extract(s) PROVE Typed
  <2>1. disk' \in [Aliases -> {"absent", "partial", "whole"}]
    BY <1>1, Extracted, ZenonT(60) DEF DepsTypeOK, InstallType
  <2> QED BY <1>1, <2>1, Extracted DEF DepsTypeOK, Extract
<1>2. ASSUME NEW s \in Slots, Exit(s) PROVE Typed
  BY <1>2, Exited DEF DepsTypeOK, Exit, storeVars
<1>3. ASSUME NEW p \in Procs, NEW reqs \in SUBSET Requests, StartEnsure(p), BeginInstall(<<p, "awaited">>, reqs),
             ToInstall(Head(chain[p])) # {}
      PROVE  Typed
  BY <1>3, SlotOf, Begun DEF DepsTypeOK, StartEnsure
<1>4. ASSUME NEW p \in Procs, NEW r \in Requests, NEW reqs \in SUBSET Requests, Resolve(p, r),
             BeginInstall(<<p, "blocking">>, reqs)
      PROVE  Typed
  <2>1. disk' = disk
    BY <1>4 DEF Resolve, storeVars
  <2> QED BY <1>4, <2>1, SlotOf, Begun DEF DepsTypeOK
<1>5. ASSUME NEW p \in Procs, EndEnsure(p) \/ EndResolve(p) PROVE Typed
  <2>1. marker' \in BOOLEAN
    BY <1>5, Zenon DEF DepsTypeOK, EndEnsure, EndResolve, InstallDone
  <2> QED BY <1>5, <2>1, SlotOf DEF DepsTypeOK, EndEnsure, EndResolve
<1>6. ASSUME NEW p \in Procs, Kill(p) PROVE Typed
  BY <1>6 DEF DepsTypeOK, Kill, storeVars
<1>7. CASE UNCHANGED <<storeVars, child, overlapped>>
  BY <1>7 DEF DepsTypeOK, storeVars
<1> QED BY <1>1, <1>2, <1>3, <1>4, <1>5, <1>6, <1>7, Steps DEF StoreSteps

\* What a step does to the calls of ensure that wait in a process.
Awaited(p) == child[<<p, "awaited">>]

Stays(p) == chain'[p] = chain[p] /\ (Awaited(p)' # NoInstall => Awaited(p) # NoInstall)
Asked(p) == \E reqs \in Batches : chain'[p] = Append(chain[p], reqs) /\ Awaited(p)' = Awaited(p)
Satisfied(p) == StartEnsure(p) /\ ToInstall(Head(chain[p])) = {} /\ Settle(p, "ensured") /\ Awaited(p)' = NoInstall
Begins(p) ==
  /\ StartEnsure(p) /\ chain[p] # <<>> /\ chain'[p] = chain[p]
  /\ BeginInstall(<<p, "awaited">>, ToInstall(Head(chain[p])))
Ends(p) == EndEnsure(p) /\ Awaited(p)' = NoInstall
Killed(p) == chain'[p] = <<>> /\ Awaited(p)' = NoInstall /\ ~up'[p]

LEMMA ChainSteps ==
  ASSUME DepsTypeOK, [DepsNext]_depsVars, NEW p \in Procs
  PROVE  Stays(p) \/ Asked(p) \/ Satisfied(p) \/ Begins(p) \/ Ends(p) \/ Killed(p)
<1> DEFINE Some == Stays(p) \/ Asked(p) \/ Satisfied(p) \/ Begins(p) \/ Ends(p) \/ Killed(p)
<1>0. <<p, "awaited">> \in Slots
  BY SlotOf
<1>1. ASSUME NEW s \in Slots, Extract(s) \/ Exit(s) PROVE Stays(p)
  <2>1. chain' = chain
    BY <1>1 DEF Extract, Exit
  <2>2. child[s] # NoInstall /\ \A t \in Slots \ {s} : child'[t] = child[t]
    BY <1>1, Extracted, Exited, DepsAssumption
  <2> QED BY <1>0, <2>1, <2>2 DEF Stays, Awaited
<1>2. ASSUME NEW q \in Procs, NEW reqs \in Batches, Ensure(q, reqs) PROVE Some
  BY <1>2 DEF DepsTypeOK, Ensure, Stays, Asked, Awaited
<1>3. ASSUME NEW q \in Procs, NEW r \in Requests, Resolve(q, r) PROVE Stays(p)
  <2>1. CASE BeginInstall(<<q, "blocking">>, {r})
    <3>1. \A t \in Slots \ {<<q, "blocking">>} : child'[t] = child[t]
      BY <2>1, SlotOf, Begun, {r} \in SUBSET Requests
    <3> QED BY <1>0, <1>3, <3>1 DEF Resolve, Stays, Awaited
  <2> QED BY <1>3, <2>1 DEF Resolve, Stays, Awaited
<1>4. ASSUME NEW q \in Procs, StartEnsure(q) PROVE Some
  <2>1. CASE ToInstall(Head(chain[q])) = {}
    BY <1>4, <2>1 DEF DepsTypeOK, StartEnsure, Settle, Stays, Satisfied, Awaited
  <2>2. CASE ToInstall(Head(chain[q])) # {}
    <3>1. chain' = chain /\ BeginInstall(<<q, "awaited">>, ToInstall(Head(chain[q]))) /\ chain[q] # <<>>
      BY <1>4, <2>2 DEF StartEnsure
    <3>2. \A t \in Slots \ {<<q, "awaited">>} : child'[t] = child[t]
      BY <3>1, SlotOf, HeadOfChain, Begun
    <3> QED BY <1>0, <1>4, <3>1, <3>2 DEF Stays, Begins, Awaited
  <2> QED BY <2>1, <2>2
<1>5. ASSUME NEW q \in Procs, EndEnsure(q) PROVE Some
  BY <1>0, <1>5 DEF DepsTypeOK, EndEnsure, Settle, Stays, Ends, Awaited
<1>6. ASSUME NEW q \in Procs, EndResolve(q) PROVE Stays(p)
  BY <1>0, <1>6 DEF DepsTypeOK, EndResolve, Stays, Awaited
<1>7. ASSUME NEW q \in Procs, Load(q) \/ FetchFails(q) \/ Download(q) \/ Start(q) PROVE Stays(p)
  BY <1>7 DEF Load, FetchFails, Download, Start, Stays, Awaited
<1>8. ASSUME NEW q \in Procs, Kill(q) PROVE Some
  BY <1>0, <1>8 DEF DepsTypeOK, Kill, Stays, Killed, Awaited
<1>9. CASE UNCHANGED depsVars
  BY <1>9 DEF depsVars, Stays, Awaited
<1> QED BY <1>1, <1>2, <1>3, <1>4, <1>5, <1>6, <1>7, <1>8, <1>9 DEF DepsNext

ChainOK ==
  /\ up \in [Procs -> BOOLEAN] /\ chain \in [Procs -> Seq(Batches)]
  /\ answer \in [Procs -> {"none", "ensured", "failed"}] /\ kills \in 0..MaxKills

LEMMA ChainTypes ==
  ASSUME DepsTypeOK, [DepsNext]_depsVars
  PROVE  ChainOK' /\ \A p \in Procs : Awaited(p)' # NoInstall => chain'[p] # <<>>
<1>1. ChainOK'
  <2> USE DEF DepsTypeOK, ChainOK
  <2>1. ASSUME NEW s \in Slots, Extract(s) \/ Exit(s) PROVE ChainOK'
    BY <2>1 DEF Extract, Exit
  <2>2. ASSUME NEW q \in Procs, NEW reqs \in Batches, Ensure(q, reqs) PROVE ChainOK'
    BY <2>2 DEF Ensure
  <2>3. ASSUME NEW q \in Procs, NEW r \in Requests, Resolve(q, r) PROVE ChainOK'
    BY <2>3 DEF Resolve
  <2>4. ASSUME NEW q \in Procs, NEW how \in {"ensured", "failed"}, chain[q] # <<>>, Settle(q, how), UNCHANGED <<up, kills>>
        PROVE  ChainOK'
    BY <2>4 DEF Settle
  <2>5. ASSUME NEW q \in Procs, StartEnsure(q) PROVE ChainOK'
    <3>1. CASE UNCHANGED <<chain, answer>>
      BY <2>5, <3>1 DEF StartEnsure
    <3> QED BY <2>4, <2>5, <3>1 DEF StartEnsure
  <2>6. ASSUME NEW q \in Procs, EndEnsure(q) PROVE ChainOK'
    <3>1. chain[q] # <<>>
      BY <2>6 DEF EndEnsure
    <3> QED BY <2>4, <2>6, <3>1 DEF EndEnsure, Outcome
  <2>7. ASSUME NEW q \in Procs, EndResolve(q) PROVE ChainOK'
    BY <2>7 DEF EndResolve
  <2>8. ASSUME NEW q \in Procs, Load(q) \/ FetchFails(q) \/ Download(q) PROVE ChainOK'
    BY <2>8 DEF Load, FetchFails, Download
  <2>9. ASSUME NEW q \in Procs, Kill(q) \/ Start(q) PROVE ChainOK'
    <3>1. CASE Kill(q)
      <4>1. kills' \in 0..MaxKills
        BY <3>1, DepsAssumption DEF Kill
      <4> QED BY <3>1, <4>1 DEF Kill
    <3> QED BY <2>9, <3>1 DEF Start
  <2>10. CASE UNCHANGED depsVars
    BY <2>10 DEF depsVars
  <2> QED BY <2>1, <2>2, <2>3, <2>5, <2>6, <2>7, <2>8, <2>9, <2>10 DEF DepsNext
<1>2. ASSUME NEW p \in Procs, Awaited(p)' # NoInstall PROVE chain'[p] # <<>>
  <2>1. Stays(p) \/ Asked(p) \/ Begins(p)
    BY <1>2, ChainSteps DEF Satisfied, Ends, Killed
  <2>2. chain[p] \in Seq(Batches) /\ (Awaited(p) # NoInstall => chain[p] # <<>>)
    BY DEF DepsTypeOK, Awaited
  <2> QED BY <1>2, <2>1, <2>2 DEF Stays, Asked, Begins
<1> QED BY <1>1, <1>2

RemoteOK ==
  /\ bodyFile \in {"absent", "torn", "whole"} /\ metaFile \in BOOLEAN /\ clobbered \in BOOLEAN
  /\ fetching \in [Procs -> {"no", "fetching", "body", "written", "meta"}] /\ reload \in [Procs -> BOOLEAN]

\* The steps that concern the cache of remote modules.
LEMMA RemoteSteps ==
  ASSUME DepsTypeOK, [DepsNext]_depsVars
  PROVE  \/ UNCHANGED <<remoteVars>>
         \/ \E p \in Procs : Load(p) \/ FetchFails(p) \/ Download(p) \/ Kill(p)
<1>1. ASSUME NEW s \in Slots, Extract(s) \/ Exit(s) PROVE UNCHANGED remoteVars
  BY <1>1 DEF Extract, Exit
<1>2. ASSUME NEW q \in Procs, (\E reqs \in Batches : Ensure(q, reqs)) \/ (\E r \in Requests : Resolve(q, r)) \/ StartEnsure(q)
             \/ EndEnsure(q) \/ EndResolve(q) \/ Start(q)
      PROVE  UNCHANGED remoteVars
  BY <1>2 DEF Ensure, Resolve, StartEnsure, EndEnsure, EndResolve, Start
<1>3. CASE UNCHANGED depsVars
  BY <1>3 DEF depsVars
<1> QED BY <1>1, <1>2, <1>3 DEF DepsNext

LEMMA RemoteTypes ==
  ASSUME DepsTypeOK, [DepsNext]_depsVars
  PROVE  RemoteOK'
<1>0. RemoteOK
  BY Zenon DEF DepsTypeOK, RemoteOK
<1>1. reload' \in [Procs -> BOOLEAN]
  <2>1. ASSUME NEW q \in Procs, Start(q) PROVE reload' \in [Procs -> BOOLEAN]
    BY <1>0, <2>1, DepsAssumption DEF Start, RemoteOK
  <2>2. reload' = reload \/ \E q \in Procs : Start(q)
    BY DEF DepsNext, depsVars, Extract, Exit, Ensure, Resolve, StartEnsure,
           EndEnsure, EndResolve, Load, FetchFails, Download, Kill
  <2> QED BY <1>0, <2>1, <2>2 DEF RemoteOK
<1>2. ASSUME NEW p \in Procs, Load(p) \/ FetchFails(p) \/ Kill(p) PROVE RemoteOK'
  BY <1>0, <1>1, <1>2 DEF RemoteOK, Load, FetchFails, Kill
<1>3. ASSUME NEW p \in Procs, Download(p) PROVE RemoteOK'
  <2>1. metaFile' \in BOOLEAN /\ clobbered' \in BOOLEAN
    BY <1>0, <1>3, Zenon DEF Download, Store, RemoteOK
  <2>2. bodyFile' \in {"absent", "torn", "whole"} /\ fetching' \in [Procs -> {"no", "fetching", "body", "written", "meta"}]
    BY <1>0, <1>3 DEF Download, Store, RemoteOK
  <2> QED BY <1>1, <2>1, <2>2 DEF RemoteOK
<1> QED BY <1>0, <1>1, <1>2, <1>3, RemoteSteps DEF remoteVars, RemoteOK

LEMMA TypeSplit ==
  DepsTypeOK <=> /\ packageJson \subseteq Aliases /\ marker \in BOOLEAN /\ overlapped \in BOOLEAN
             /\ disk \in [Aliases -> {"absent", "partial", "whole"}]
             /\ child \in [Slots -> InstallType \cup {NoInstall}]
             /\ ChainOK /\ (\A p \in Procs : Awaited(p) # NoInstall => chain[p] # <<>>) /\ RemoteOK
  BY Zenon DEF DepsTypeOK, ChainOK, RemoteOK, Awaited

LEMMA InitType == DepsInit => DepsTypeOK
<1> SUFFICES ASSUME DepsInit PROVE DepsTypeOK
  OBVIOUS
<1>1. ChainOK
  BY DepsAssumption DEF DepsInit, ChainOK
<1>2. reload \in [Procs -> BOOLEAN]
  BY DepsAssumption DEF DepsInit
<1>3. RemoteOK
  BY <1>2 DEF DepsInit, RemoteOK
<1> QED BY <1>1, <1>3, SlotOf, TypeSplit DEF DepsInit, Awaited

LEMMA NextType == DepsTypeOK /\ [DepsNext]_depsVars => DepsTypeOK'
  BY StoreTypes, ChainTypes, RemoteTypes, Zenon DEF DepsTypeOK, ChainOK, RemoteOK, Awaited

-----------------------------------------------------------------------------
(* The package store *)

LEMMA InitPackages == DepsInit => ListedInv /\ StoreInv /\ AskedInv /\ RemoteInv
  BY SlotOf DEF DepsInit, ListedInv, StoreInv, AskedInv, RemoteInv, Writing

LEMMA NextListed ==
  ASSUME DepsTypeOK, ListedInv, [DepsNext]_depsVars
  PROVE  ListedInv'
<1>1. ASSUME NEW s \in Slots, Extract(s) PROVE ListedInv'
  <2>1. packageJson' = packageJson
    BY <1>1 DEF Extract
  <2>2. child[s] # NoInstall /\ child[s].left \subseteq Aliases
    BY <1>1, Extracted, DepsAssumption DEF InstallType
  <2>3. \A t \in Slots : child'[t] # NoInstall => child'[t].left \subseteq packageJson /\ child'[t].on \in packageJson \cup {NoInstall}
    BY <1>1, <2>2, Extracted DEF ListedInv
  <2>4. \E a \in packageJson : \E how \in {"partial", "whole"} : disk' = [disk EXCEPT ![a] = how]
    BY <1>1, <2>2, Extracted, DepsAssumption DEF ListedInv
  <2> QED BY <2>1, <2>3, <2>4 DEF DepsTypeOK, ListedInv
<1>2. ASSUME NEW s \in Slots, Exit(s) PROVE ListedInv'
  BY <1>2, Exited DEF ListedInv, Exit, storeVars
<1>3. ASSUME NEW s \in Slots, NEW reqs \in SUBSET Requests, BeginInstall(s, reqs), disk' = disk PROVE ListedInv'
  BY <1>3, Begun DEF ListedInv
<1>4. ASSUME NEW p \in Procs, EndEnsure(p) \/ EndResolve(p) PROVE ListedInv'
  BY <1>4, SlotOf, ZenonT(60) DEF DepsTypeOK, EndEnsure, EndResolve, ListedInv
<1>5. ASSUME NEW p \in Procs, Kill(p) PROVE ListedInv'
  BY <1>5 DEF Kill, ListedInv, storeVars
<1>6. CASE UNCHANGED <<storeVars, child, overlapped>>
  BY <1>6 DEF ListedInv, storeVars
<1>7. ASSUME NEW p \in Procs, StartEnsure(p), ToInstall(Head(chain[p])) # {} PROVE disk' = disk
  BY <1>7 DEF StartEnsure
<1>8. ASSUME NEW p \in Procs, NEW r \in Requests, Resolve(p, r) PROVE disk' = disk
  BY <1>8 DEF Resolve, storeVars
<1> QED BY <1>1, <1>2, <1>3, <1>4, <1>5, <1>6, <1>7, <1>8, SlotOf, Steps DEF StoreSteps

LEMMA NextStore ==
  ASSUME DepsTypeOK, ListedInv, StoreInv, [DepsNext]_depsVars
  PROVE  StoreInv'
<1>1. ASSUME NEW s \in Slots, Extract(s) PROVE StoreInv'
  <2> SUFFICES ASSUME ~overlapped PROVE StoreInv'
    BY <1>1 DEF Extract, StoreInv
  <2>1. packageJson' = packageJson /\ marker' = marker /\ overlapped' = overlapped
    BY <1>1 DEF Extract
  <2>2. /\ child[s] # NoInstall /\ child'[s] # NoInstall /\ child'[s].exit = "no"
        /\ \A t \in Slots \ {s} : child[t] = NoInstall /\ child'[t] = NoInstall
    BY <1>1, Extracted, DepsAssumption DEF StoreInv
  <2>3. ASSUME NEW a \in packageJson, a \notin child'[s].left, a # child'[s].on PROVE disk'[a] = "whole"
    <3>1. \A t \in Slots \ {s} : ~Running(t)
      BY <2>2 DEF Running
    <3>2. a \in Aliases /\ (a \notin child[s].left /\ a # child[s].on => disk[a] = "whole")
      BY <2>2 DEF StoreInv, DepsTypeOK
    <3>3. CASE child[s].on = NoInstall
      <4>1. PICK b \in child[s].left :
              child'[s].left = child[s].left \ {b} /\ child'[s].on = b /\ disk' = [disk EXCEPT ![b] = "partial"]
        BY <1>1, <3>3, Extracted, DepsAssumption
      <4> QED BY <2>3, <3>2, <3>3, <4>1, DepsAssumption DEF DepsTypeOK
    <3>4. CASE child[s].on # NoInstall
      <4>1. child'[s].left = child[s].left /\ disk' = [disk EXCEPT ![child[s].on] = "whole"]
        BY <1>1, <3>1, <3>4, Extracted
      <4> QED BY <2>3, <3>2, <4>1 DEF DepsTypeOK
    <3> QED BY <3>3, <3>4
  <2>4. marker
    BY <2>2 DEF StoreInv
  <2> QED BY <2>1, <2>2, <2>3, <2>4 DEF StoreInv
<1>2. ASSUME NEW s \in Slots, Exit(s) PROVE StoreInv'
  <2>1. UNCHANGED <<packageJson, marker, disk, overlapped>>
    BY <1>2 DEF Exit, storeVars
  <2>2. \A t \in Slots : child'[t] # NoInstall =>
          child[t] # NoInstall /\ child'[t].left = child[t].left /\ child'[t].on = child[t].on
    BY <1>2, Exited
  <2>3. \A t \in Slots : child'[t].exit = "ok" /\ t # s => child[t].exit = "ok"
    BY <1>2, Exited
  <2> QED BY <1>2, <2>1, <2>2, <2>3, Exited DEF StoreInv
<1>3. ASSUME NEW s \in Slots, NEW reqs \in SUBSET Requests, BeginInstall(s, reqs), disk' = disk PROVE StoreInv'
  <2> SUFFICES ASSUME ~overlapped' PROVE StoreInv'
    BY DEF StoreInv
  <2>1. /\ ~overlapped /\ marker' /\ child'[s] # NoInstall /\ child'[s].exit = "no"
        /\ child'[s].left = {a \in packageJson' : marker \/ disk[a] = "absent"}
        /\ \A t \in Slots \ {s} : child'[t] = NoInstall
    BY <1>3, Begun
  <2>2. ASSUME NEW a \in packageJson', a \notin child'[s].left PROVE disk'[a] = "whole"
    <3>1. a \in Aliases /\ ~marker /\ disk[a] # "absent"
      BY <1>3, <2>1, <2>2, Begun
    <3>2. a \in packageJson /\ disk[a] # "partial"
      BY <2>1, <3>1 DEF ListedInv, StoreInv
    <3> QED BY <1>3, <3>1, <3>2 DEF DepsTypeOK
  <2> QED BY <2>1, <2>2 DEF StoreInv
<1>4. ASSUME NEW p \in Procs, EndEnsure(p) \/ EndResolve(p) PROVE StoreInv'
  <2> SUFFICES ASSUME ~overlapped PROVE StoreInv'
    BY <1>4 DEF EndEnsure, EndResolve, StoreInv
  <2>1. PICK s \in Slots : /\ child[s] # NoInstall /\ child' = [child EXCEPT ![s] = NoInstall] /\ InstallDone(s)
                           /\ UNCHANGED <<packageJson, disk, overlapped>>
    BY <1>4, SlotOf DEF EndEnsure, EndResolve
  <2>2. \A t \in Slots : child'[t] = NoInstall
    BY <2>1 DEF DepsTypeOK, StoreInv
  <2>3. ~marker' => child[s].exit = "ok"
    BY <2>1 DEF InstallDone, StoreInv
  <2>4. ~marker' => \A a \in packageJson : disk[a] = "whole"
    BY <2>1, <2>3, DepsAssumption DEF StoreInv, DepsTypeOK
  <2> QED BY <2>1, <2>2, <2>4 DEF StoreInv
<1>5. ASSUME NEW p \in Procs, Kill(p) PROVE StoreInv'
  BY <1>5 DEF Kill, StoreInv, storeVars
<1>6. CASE UNCHANGED <<storeVars, child, overlapped>>
  BY <1>6 DEF StoreInv, storeVars
<1>7. ASSUME NEW p \in Procs, StartEnsure(p), ToInstall(Head(chain[p])) # {} PROVE disk' = disk
  BY <1>7 DEF StartEnsure
<1>8. ASSUME NEW p \in Procs, NEW r \in Requests, Resolve(p, r) PROVE disk' = disk
  BY <1>8 DEF Resolve, storeVars
<1> QED BY <1>1, <1>2, <1>3, <1>4, <1>5, <1>6, <1>7, <1>8, SlotOf, Steps DEF StoreSteps

LEMMA ManifestGrows ==
  ASSUME DepsTypeOK, [DepsNext]_depsVars
  PROVE  packageJson \subseteq packageJson'
<1>1. ASSUME NEW s \in Slots, Extract(s) \/ Exit(s) PROVE packageJson' = packageJson
  BY <1>1 DEF Extract, Exit, storeVars
<1>2. ASSUME NEW p \in Procs, EndEnsure(p) \/ EndResolve(p) \/ Kill(p) PROVE packageJson' = packageJson
  BY <1>2 DEF EndEnsure, EndResolve, Kill, storeVars
<1>3. ASSUME NEW s \in Slots, NEW reqs \in SUBSET Requests, BeginInstall(s, reqs) PROVE packageJson \subseteq packageJson'
  BY <1>3, Begun
<1> QED BY <1>1, <1>2, <1>3, SlotOf, Steps DEF StoreSteps, storeVars

LEMMA NextAsked ==
  ASSUME DepsTypeOK, AskedInv, [DepsNext]_depsVars
  PROVE  AskedInv'
<1> SUFFICES ASSUME NEW p \in Procs, Awaited(p)' # NoInstall, NEW r \in Head(chain'[p])
             PROVE  HostHas(r) \/ Alias(r) \in packageJson'
  BY DEF AskedInv, Awaited
<1>1. chain[p] \in Seq(Batches) /\ (Awaited(p) # NoInstall => chain[p] # <<>>)
  BY DEF DepsTypeOK, Awaited
<1>2. CASE Stays(p) \/ Asked(p)
  <2>1. Awaited(p) # NoInstall /\ Head(chain'[p]) = Head(chain[p])
    BY <1>1, <1>2 DEF Stays, Asked
  <2> QED BY <2>1, ManifestGrows DEF AskedInv, Awaited
<1>3. CASE Begins(p)
  <2> DEFINE todo == ToInstall(Head(chain[p]))
  <2>1. todo \in SUBSET Requests /\ chain'[p] = chain[p] /\ Head(chain[p]) \in SUBSET Requests
    BY <1>3, HeadOfChain DEF Begins
  <2>2. packageJson' = packageJson \cup {Alias(q) : q \in todo}
    BY <1>3, <2>1, SlotOf, Begun DEF Begins
  <2>3. r \in todo \/ HostHas(r) \/ Alias(r) \in packageJson
    BY <2>1 DEF ToInstall, Missing
  <2> HIDE DEF todo
  <2> QED BY <2>2, <2>3
<1> QED BY <1>2, <1>3, ChainSteps DEF Satisfied, Ends, Killed

-----------------------------------------------------------------------------
(* The cache of remote modules *)

LEMMA NextRemote ==
  ASSUME DepsTypeOK, RemoteInv, [DepsNext]_depsVars
  PROVE  RemoteInv'
<1> USE DEF Writing
<1>1. ASSUME NEW p \in Procs, Load(p) \/ FetchFails(p) \/ Kill(p) PROVE RemoteInv'
  BY <1>1 DEF DepsTypeOK, RemoteInv, Load, FetchFails, Kill
<1>2. ASSUME NEW p \in Procs, Download(p), ~Store(p) PROVE RemoteInv'
  <2>1. UNCHANGED <<bodyFile, metaFile, clobbered>> /\ fetching' = [fetching EXCEPT ![p] = "no"]
    BY <1>2 DEF Download
  <2> QED BY <2>1 DEF DepsTypeOK, RemoteInv
<1>3. ASSUME NEW p \in Procs, Store(p) PROVE RemoteInv'
  <2> SUFFICES ASSUME ~clobbered' PROVE RemoteInv'
    BY DEF RemoteInv
  <2>1. CASE fetching[p] = "fetching"
    <3>1. /\ ~clobbered /\ ~metaFile /\ metaFile' = metaFile
          /\ \A q \in Procs : fetching[q] \notin {"body", "written", "meta"}
          /\ fetching' = [fetching EXCEPT ![p] = "body"]
      BY <1>3, <2>1 DEF Store
    <3> QED BY <3>1 DEF DepsTypeOK, RemoteInv
  <2>2. CASE fetching[p] # "fetching"
    <3>1. ~clobbered /\ fetching[p] \in {"body", "written", "meta"}
      BY <1>3, <2>2 DEF Store
    <3>2. /\ \A q \in Procs \ {p} : fetching[q] \notin {"body", "written", "meta"}
          /\ fetching[p] \in {"written", "meta"} => bodyFile = "whole"
          /\ metaFile => bodyFile = "whole"
      BY <3>1 DEF RemoteInv
    <3>3. \/ fetching' = [fetching EXCEPT ![p] = "written"] /\ bodyFile' = "whole"
          \/ fetching[p] = "written" /\ fetching' = [fetching EXCEPT ![p] = "meta"] /\ ~metaFile' /\ bodyFile' = bodyFile
          \/ fetching[p] = "meta" /\ fetching' = [fetching EXCEPT ![p] = "no"] /\ bodyFile' = bodyFile
      BY <1>3, <2>2 DEF Store
    <3>4. \A q \in Procs \ {p} : fetching'[q] = fetching[q]
      BY <3>3 DEF DepsTypeOK
    <3>5. /\ fetching'[p] \in {"written", "meta"} => bodyFile' = "whole"
          /\ metaFile' => bodyFile' = "whole"
      BY <3>2, <3>3 DEF DepsTypeOK
    <3> QED BY <3>2, <3>4, <3>5 DEF RemoteInv
  <2> QED BY <2>1, <2>2
<1> QED BY <1>1, <1>2, <1>3, RemoteSteps DEF Download, remoteVars, RemoteInv

-----------------------------------------------------------------------------
(* The theorems *)

LEMMA InvImplies == PackagesInv => CachesAreWhole
<1> SUFFICES ASSUME PackagesInv PROVE CachesAreWhole
  OBVIOUS
<1>1. ASSUME ~overlapped, NEW r \in Requests, Missing({r}) = {} PROVE disk[Alias(r)] = "whole"
  <2>1. ~marker /\ Alias(r) \in packageJson /\ disk[Alias(r)] # "absent"
    BY <1>1 DEF Missing
  <2> QED BY <1>1, <2>1 DEF PackagesInv, DepsTypeOK, StoreInv
<1>2. CachedIsWhole
  BY DEF PackagesInv, RemoteInv, CachedIsWhole, Cached
<1> QED BY <1>1, <1>2 DEF PackagesInv, CachesAreWhole, TrustedIsWhole

\* The inductive invariant.
THEOREM PackagesInductive == DepsSpec => []PackagesInv
<1>1. DepsInit => PackagesInv
  BY InitType, InitPackages DEF PackagesInv
<1>2. PackagesInv /\ [DepsNext]_depsVars => PackagesInv'
  BY NextType, NextListed, NextStore, NextAsked, NextRemote DEF PackagesInv
<1> QED BY <1>1, <1>2, PTL DEF DepsSpec

\* What the package store is trusted with, and a cached remote module that is
\* served, are whole on disk, whatever failed or was killed before.
THEOREM NothingHalfWrittenIsTrusted == DepsSpec => []CachesAreWhole
<1> QED BY PackagesInductive, InvImplies, PTL

LEMMA TailIsShorter ==
  ASSUME NEW S, NEW q \in Seq(S), q # <<>>
  PROVE  Tail(q) # q /\ \A x \in S : Append(q, x) # Tail(q)
<1>1. PICK n \in Nat : n = Len(q) /\ n # 0
  OBVIOUS
<1>2. Len(Tail(q)) = n - 1 /\ \A x \in S : Len(Append(q, x)) = n + 1
  BY <1>1
<1>3. n - 1 # n /\ n - 1 # n + 1
  OBVIOUS
<1> QED BY <1>1, <1>2, <1>3

LEMMA StepEnsures ==
  ASSUME PackagesInv, [DepsNext]_depsVars, NEW p \in Procs, chain[p] # <<>>, chain'[p] = Tail(chain[p]), up'[p],
         answer'[p] = "ensured", ~overlapped, NEW r \in Head(chain[p])
  PROVE  HostHas(r) \/ disk[Alias(r)] = "whole"
<1>1. DepsTypeOK /\ CachesAreWhole /\ chain[p] \in Seq(Batches) /\ r \in Requests
  BY HeadOfChain, InvImplies DEF PackagesInv, DepsTypeOK
<1>2. ~Stays(p) /\ ~Asked(p) /\ ~Begins(p) /\ ~Killed(p)
  BY <1>1, TailIsShorter DEF Stays, Asked, Begins, Killed
<1>3. CASE Satisfied(p)
  <2>1. HostHas(r) \/ Missing({r}) = {}
    BY <1>3 DEF Satisfied, ToInstall, Missing
  <2> QED BY <1>1, <2>1 DEF CachesAreWhole, TrustedIsWhole
<1>4. CASE Ends(p)
  <2> DEFINE s == <<p, "awaited">>
  <2>1. s \in Slots /\ child[s] # NoInstall /\ Outcome(s) = "ensured"
    BY <1>1, <1>4, SlotOf DEF Ends, EndEnsure, Settle, DepsTypeOK
  <2>2. child[s].exit = "ok"
    BY <2>1 DEF Outcome
  <2>3. \A a \in packageJson : disk[a] = "whole"
    BY <2>1, <2>2, DepsAssumption DEF PackagesInv, StoreInv, DepsTypeOK
  <2> QED BY <2>1, <2>3 DEF PackagesInv, AskedInv
<1> QED BY <1>1, <1>2, <1>3, <1>4, ChainSteps

\* A call of ensure that is fulfilled finds every package it asked for with the host
\* or whole in the store.
THEOREM FulfilledMeansPresent == DepsSpec => EnsuredMeansPresent
<1>1. PackagesInv /\ [DepsNext]_depsVars => [\A p \in Procs :
       (chain[p] # <<>> /\ chain'[p] = Tail(chain[p]) /\ up'[p] /\ answer'[p] = "ensured" /\ ~overlapped)
         => \A r \in Head(chain[p]) : HostHas(r) \/ disk[Alias(r)] = "whole"]_depsVars
  BY StepEnsures
<1> QED BY <1>1, PackagesInductive, PTL DEF DepsSpec, EnsuredMeansPresent

=============================================================================
