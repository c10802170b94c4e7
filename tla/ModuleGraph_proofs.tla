-------------------------- MODULE ModuleGraph_proofs --------------------------
(***************************************************************************)
(* Proofs about ModuleGraph, for any functions, files, imports and import  *)
(* maps that do not rename path-like specifiers, and any number of edits.  *)
(* Whether a function is reloaded depends on the graph it has, which may   *)
(* be as old as the change; what runs depends on the graph it should have. *)
(* GraphOK says that a change that is yet to be looked at touches both or  *)
(* neither of them, so that no function is forgotten; WalkOK and LoadOK    *)
(* say what an unfinished reload is worth when files are saved under it.   *)
(***************************************************************************)
EXTENDS ModuleGraph, WellFoundedInduction, TLAPS

es == Entry[Shared]

\* Paths that are yet to be compared with the graphs, and graphs none of them belongs to.
Changed == pending \cup (IF phase \in {"shared", "affected"} THEN batch ELSE {})
Clean(f) == Changed \cap Closure(f) = {}

\* The files whose imports a walk knows, and those a load has evaluated.
Walked(f) == job[f].seen \ (job[f].todo \cup {r[1] : r \in job[f].reading})
Evaluated(f) == {x \in Files : job[f].got[x] # 0}

\* The hot reloader will walk f, or does.
Due(f) == again[f] = "hmr" \/ (job[f].by = "hmr" /\ job[f].step = "walk")

\* Each reloader has one claim on a function at most, and its flush waits for it.
ClaimOK(f) ==
  /\ job[f].step = "idle" <=> job[f].by = None
  /\ job[f].reading # {} => job[f].step = "walk"
  /\ again[f] # None => job[f].by # None /\ again[f] # job[f].by
  /\ (job[f].by = "hmr" \/ again[f] = "hmr") => phase = "reload"
  /\ (job[f].by = "env" \/ again[f] = "env") => envBusy

\* Changed paths that have f reloaded for its graph, or may yet.
Relevant(f) == pending \cup (IF phase \in {"shared", "affected"} /\ batch \cap graph[f] # {} THEN batch ELSE {})

\* A walk has seen what the files it knows import, and nothing but what it reaches through
\* them unless one of these has changed; and what leads a walk of the env reloader out of
\* the graph there is, the hot reloader will find in it.
WalkOK(f) == job[f].step = "walk" =>
  /\ Entry[f] \in job[f].seen /\ job[f].todo \cup {r[1] : r \in job[f].reading} \subseteq job[f].seen
  /\ again[f] # "hmr" =>
       /\ \A x \in Walked(f) \ Relevant(f) : importsOf(x) \subseteq job[f].seen
       /\ LET reached == Reached(tree, Entry[f], Walked(f) \ Changed) IN Changed \cap reached = {} => job[f].seen = reached
       /\ job[f].by = "env" /\ Changed \cap graph[f] = {} => job[f].seen \subseteq graph[f]

\* So has a graph everything its files import, and nothing that is not reached.
GraphOK(f) == ~Due(f) =>
  /\ Entry[f] \in graph[f] /\ \A x \in graph[f] \ Changed : importsOf(x) \subseteq graph[f]
  /\ LET reached == Reached(tree, Entry[f], graph[f] \ Changed) IN Changed \cap reached = {} => graph[f] = reached

\* A load has evaluated newest revisions, and has yet to do what is reached through them but
\* for the shared file, where it is bound to the newest evaluation.
LoadOK(f) == job[f].step = "load" /\ again[f] # "hmr" /\ Clean(f) =>
  LET reached == Reached(tree, Entry[f], Evaluated(f)) IN
  /\ Evaluated(f) \cup job[f].todo \subseteq reached /\ es \notin Evaluated(f)
  /\ reached \subseteq Evaluated(f) \cup job[f].todo \cup {es}
  /\ \A x \in Evaluated(f) : Loads(x) /\ job[f].got[x] = source[x].rev
  /\ es \in reached \ job[f].todo => job[f].gen = gen

\* What runs is the newest unless a change is on its way or a file is broken.
Newest(f) ==
  /\ loaded[f].revs = [x \in Files |-> IF x \in Own(f) THEN source[x].rev ELSE 0]
  /\ es \in Closure(f) => loaded[f].gen = gen
NewestOK(f) == job[f].by # "hmr" /\ again[f] # "hmr" /\ Clean(f) /\ Fine(f) => Newest(f)
SecretOK(f) == job[f].by = None /\ Clean(f) /\ Fine(f) => loaded[f].env = env

RunOK(f) == WalkOK(f) /\ GraphOK(f) /\ LoadOK(f) /\ NewestOK(f) /\ SecretOK(f)
FunctionsOK == \A f \in Functions : ClaimOK(f) /\ RunOK(f)

\* What the caches say of a file under its present revision is what it imports.
RewrittenHonest ==
  \A x \in Files : rewritten[x] # None /\ source[x] # None /\ rewritten[x].rev = source[x].rev
                     => rewritten[x].files = importsOf(x)
CacheInv ==
  /\ ParsedHonest /\ RewrittenHonest
  /\ \A x \in Files : /\ parsed[x] # None => parsed[x].rev <= edits + 1
                      /\ rewritten[x] # None => rewritten[x].rev <= edits + 1
  /\ \A f \in Functions : \A r \in job[f].reading : r[2] <= edits + 1

\* The shared file is evaluated before the functions that import it are looked for.
SharedInv ==
  /\ job[Shared].step # "walk" /\ (job[Shared].step # "idle" => phase = "shared")
  /\ phase = "shared" => es \in batch
  /\ job[Shared].step = "load" /\ es \notin pending =>
       \/ job[Shared].got[es] = 0 /\ job[Shared].todo = {es}
       \/ /\ job[Shared].got[es] # 0 /\ source[es] # None /\ job[Shared].got[es] = source[es].rev
          /\ importsOf(es) = {} => job[Shared].todo = {}
  /\ job[Shared].step # "load" /\ es \notin pending /\ Loads(es) /\ (Shared \notin failed \/ importsOf(es) = {}) =>
       loaded[Shared].revs[es] = source[es].rev
  /\ gen + (IF es \in pending THEN 1 ELSE 0) + (IF job[Shared].step = "load" THEN 1 ELSE 0) <= edits + 1

\* The environment is what the files say, and nobody else's.
EnvInv ==
  /\ ~envPending /\ (\E i \in DOMAIN dotenv : dotenv[i].there) => \A k \in Keys : env[k] = merged(k)
  /\ \A k \in Keys : env[k] # 0 => k \in owned

\* TypeOK but for what says when jobs run.
SourceOK ==
  source \in [Files -> SourceType \cup {None}] /\ \A x \in Files : source[x] # None => source[x].specs \in Imports[x]
EnvTypeOK ==
  /\ dotenv \in [DOMAIN EnvStart -> [there : BOOLEAN, lines : [Keys -> Values]]]
  /\ {envPending, envBusy} \subseteq BOOLEAN /\ owned \subseteq Keys /\ env \in [Keys -> Values]
DataOK ==
  /\ SourceOK /\ EnvTypeOK /\ edits \in 0..MaxEdits
  /\ \A x \in Files : source[x] # None => source[x].rev \in 1..(edits + 1)
  /\ parsed \in [Files -> CachedType \cup {None}] /\ rewritten \in [Files -> CachedType \cup {None}]
  /\ graph \in [Functions -> SUBSET Files] /\ pending \subseteq Files /\ batch \subseteq Files
  /\ phase \in {"idle", "shared", "affected", "reload"}
  /\ job \in [Graphs -> JobType] /\ again \in [Functions -> Callers \cup {None}]
  /\ loaded \in [Graphs -> [revs : [Files -> Nat], gen : Nat, env : [Keys -> Values]]]
  /\ failed \subseteq Graphs /\ gen \in Nat \ {0}

IInv == TypeOK /\ FunctionsOK /\ CacheInv /\ SharedInv /\ EnvInv

-----------------------------------------------------------------------------
(* What files reach *)

Trees == [Files -> SUBSET Files]

LEMMA ReachedFacts ==
  ASSUME NEW T \in Trees, NEW from \in Files, NEW D \in SUBSET Files
  PROVE  LET R == Reached(T, from, D) IN
         /\ R \subseteq Files /\ from \in R
         /\ \A x \in R \cap D : T[x] \subseteq R
         /\ \A S \in SUBSET Files : from \in S /\ (\A x \in S \cap D : T[x] \subseteq S) => R \subseteq S
<1> DEFINE L == UNION {{x} \X T[x] : x \in D}
           closed == {S \in SUBSET Files : from \in S /\ \A l \in L : l[1] \in S => l[2] \in S}
           R == {x \in Files : \A S \in closed : x \in S}
<1>1. \A S \in SUBSET Files : S \in closed <=> from \in S /\ \A x \in S \cap D : T[x] \subseteq S
  <2> SUFFICES ASSUME NEW S \in SUBSET Files
               PROVE  (\A l \in L : l[1] \in S => l[2] \in S) <=> \A x \in S \cap D : T[x] \subseteq S
    OBVIOUS
  <2>1. ASSUME \A l \in L : l[1] \in S => l[2] \in S, NEW x \in S \cap D, NEW y \in T[x] PROVE y \in S
    <3>1. <<x, y>> \in L
      OBVIOUS
    <3> QED BY <2>1, <3>1
  <2>2. ASSUME \A x \in S \cap D : T[x] \subseteq S, NEW l \in L, l[1] \in S PROVE l[2] \in S
    <3>1. PICK x \in D : l \in {x} \X T[x]
      OBVIOUS
    <3> QED BY <2>2, <3>1
  <2> QED BY <2>1, <2>2
<1> HIDE DEF L
<1>2. \A x \in R \cap D : T[x] \subseteq R
  BY <1>1 DEF Trees
<1>3. \A S \in closed : S \in SUBSET Files
  OBVIOUS
<1> HIDE DEF closed
<1>4. R = Reached(T, from, D)
  BY DEF Reached, closed, L
<1>5. R \subseteq Files /\ from \in R /\ \A S \in closed : R \subseteq S
  BY <1>1, <1>3
<1> HIDE DEF R
<1> QED BY <1>1, <1>2, <1>4, <1>5

\* Walking through more files reaches more.
LEMMA ReachedGrows ==
  ASSUME NEW T \in Trees, NEW from \in Files, NEW D \in SUBSET Files, NEW E \in SUBSET D
  PROVE  Reached(T, from, E) \subseteq Reached(T, from, D)
<1> DEFINE R == Reached(T, from, D)
<1>1. R \subseteq Files /\ from \in R /\ \A x \in R \cap E : T[x] \subseteq R
  BY ReachedFacts
<1> HIDE DEF R
<1>2. Reached(T, from, E) \subseteq R
  BY <1>1, ReachedFacts
<1> QED BY <1>2 DEF R

\* One more file that was reached already: its imports come in addition.
LEMMA ReachedNext ==
  ASSUME NEW T \in Trees, NEW from \in Files, NEW D \in SUBSET Files, NEW x \in Reached(T, from, D),
         D \subseteq Reached(T, from, D), NEW E, E = D \cup {x}
  PROVE  Reached(T, from, E) = Reached(T, from, D) \cup T[x]
<1> DEFINE R == Reached(T, from, D)
           Q == Reached(T, from, E)
<1>1. R \subseteq Files /\ from \in R /\ \A y \in R \cap D : T[y] \subseteq R
  BY ReachedFacts
<1>2. x \in Files /\ T[x] \subseteq Files /\ E \in SUBSET Files
  BY <1>1 DEF Trees
<1>3. R \subseteq Q
  <2>1. D \in SUBSET E
    OBVIOUS
  <2> QED BY <1>2, <2>1, ReachedGrows
<1>4. \A y \in Q \cap E : T[y] \subseteq Q
  BY <1>2, ReachedFacts
<1>5. \A S \in SUBSET Files : from \in S /\ (\A y \in S \cap E : T[y] \subseteq S) => Q \subseteq S
  BY <1>2, ReachedFacts
<1>6. x \in R /\ D \subseteq R
  OBVIOUS
<1> HIDE DEF R, Q
<1>7. T[x] \subseteq Q
  BY <1>3, <1>4, <1>6
<1>8. \A y \in (R \cup T[x]) \cap E : T[y] \subseteq R \cup T[x]
  BY <1>1, <1>6
<1>9. Q \subseteq R \cup T[x]
  BY <1>1, <1>2, <1>5, <1>8
<1> QED BY <1>3, <1>7, <1>9 DEF R, Q

\* All that is reached was walked through: nothing more is to be reached.
LEMMA ReachedAll ==
  ASSUME NEW T \in Trees, NEW from \in Files, NEW D \in SUBSET Files, Reached(T, from, D) \subseteq D
  PROVE  Reached(T, from, D) = Reached(T, from, Files)
<1> DEFINE R == Reached(T, from, D)
<1>1. R \in SUBSET Files /\ from \in R /\ \A x \in R \cap Files : T[x] \subseteq R
  BY ReachedFacts
<1> HIDE DEF R
<1>2. Reached(T, from, Files) \subseteq R
  BY <1>1, ReachedFacts
<1> QED BY <1>2, ReachedGrows DEF R

\* A file is reached first by a way that does not lead through it.
LEMMA ReachedFirst ==
  ASSUME NEW T \in Trees, NEW from \in Files, NEW x \in Reached(T, from, Files)
  PROVE  x \in Reached(T, from, Files \ {x})
<1> DEFINE R == Reached(T, from, Files \ {x})
<1>1. R \in SUBSET Files /\ from \in R /\ \A y \in R \cap (Files \ {x}) : T[y] \subseteq R
  BY ReachedFacts
<1> HIDE DEF R
<1>2. ASSUME x \notin R PROVE FALSE
  <2>1. Reached(T, from, Files) \subseteq R
    BY <1>1, <1>2, ReachedFacts
  <2> QED BY <1>2, <2>1
<1> QED BY <1>2 DEF R

\* A load that has evaluated all it reached but the shared file s.
LEMMA ReachedOwn ==
  ASSUME NEW T \in Trees, NEW from \in Files, NEW D \in SUBSET Files, NEW s, s \notin D,
         D \subseteq Reached(T, from, D), Reached(T, from, D) \subseteq D \cup {s}
  PROVE  /\ Reached(T, from, Files \ {s}) \ {s} = D
         /\ s \in Reached(T, from, Files) => s \in Reached(T, from, D)
<1> DEFINE R == Reached(T, from, D)
           Q == Reached(T, from, Files \ {s})
<1>1. R \in SUBSET Files /\ from \in R /\ \A y \in R \cap D : T[y] \subseteq R
  BY ReachedFacts
<1>2. R \subseteq Q
  BY ReachedGrows
<1>3. R \subseteq D \cup {s} /\ D \subseteq R
  OBVIOUS
<1>4. \A S \in SUBSET Files : from \in S /\ (\A y \in S \cap (Files \ {s}) : T[y] \subseteq S) => Q \subseteq S
  BY ReachedFacts
<1> HIDE DEF R, Q
<1>5. Q \subseteq R
  BY <1>1, <1>3, <1>4
<1>6. s \in Reached(T, from, Files) => s \in Q
  BY ReachedFacts, ReachedFirst DEF Q
<1> QED BY <1>2, <1>3, <1>5, <1>6 DEF R, Q

\* Two trees that agree but for x reach the same where x is not reached.
LEMMA ReachedSame ==
  ASSUME NEW T \in Trees, NEW U \in Trees, NEW from \in Files, NEW x, NEW D \in SUBSET Files,
         \A y \in D : y # x => T[y] = U[y],
         x \notin Reached(T, from, D) \/ x \notin Reached(U, from, D) \/ x \notin D
  PROVE  Reached(T, from, D) = Reached(U, from, D)
<1> DEFINE R == Reached(T, from, D)
           Q == Reached(U, from, D)
<1>1. /\ R \in SUBSET Files /\ from \in R /\ \A y \in R \cap D : T[y] \subseteq R
      /\ \A S \in SUBSET Files : from \in S /\ (\A y \in S \cap D : T[y] \subseteq S) => R \subseteq S
  BY ReachedFacts
<1>2. /\ Q \in SUBSET Files /\ from \in Q /\ \A y \in Q \cap D : U[y] \subseteq Q
      /\ \A S \in SUBSET Files : from \in S /\ (\A y \in S \cap D : U[y] \subseteq S) => Q \subseteq S
  BY ReachedFacts
<1> HIDE DEF R, Q
<1>3. CASE x \notin R
  <2>1. Q \subseteq R
    BY <1>1, <1>2, <1>3
  <2> QED BY <1>1, <1>2, <1>3, <2>1 DEF R, Q
<1>4. CASE x \notin Q
  <2>1. R \subseteq Q
    BY <1>1, <1>2, <1>4
  <2> QED BY <1>1, <1>2, <1>4, <2>1 DEF R, Q
<1>5. CASE x \notin D
  BY <1>1, <1>2, <1>5 DEF R, Q
<1> QED BY <1>3, <1>4, <1>5 DEF R, Q

-----------------------------------------------------------------------------
(* The files on disk *)

LEMMA ImportsTyped ==
  SourceOK => \A x \in Files : importsOf(x) \subseteq Files /\ rewriteImports(x) = importsOf(x)
<1> SUFFICES ASSUME SourceOK, NEW x \in Files
             PROVE  importsOf(x) \subseteq Files /\ rewriteImports(x) = importsOf(x)
  OBVIOUS
<1>1. CASE ~Loads(x)
  BY <1>1 DEF importsOf, rewriteImports
<1>2. CASE Loads(x)
  <2>1. source[x].specs \in Imports[x]
    BY <1>2 DEF SourceOK, Loads
  <2>2. \A spec \in source[x].specs : classify(spec, x) \in Files \cup {None} /\ rewriteTarget(spec, x) = classify(spec, x)
    BY <2>1, ImportsAssumption DEF classify, rewriteTarget
  <2> QED BY <1>2, <2>2 DEF importsOf, rewriteImports
<1> QED BY <1>1, <1>2

LEMMA TreeTyped == SourceOK => tree \in Trees
  BY ImportsTyped DEF tree, Trees

LEMMA EntryIsFile == (\A g \in Graphs : Entry[g] \in Files) /\ es \in Files /\ \A f \in Functions : Entry[f] \in Files /\ Entry[f] # es
  BY ModuleGraphAssumption DEF Graphs, es

LEMMA ClosureFacts ==
  ASSUME SourceOK, NEW g \in Graphs
  PROVE  Closure(g) \subseteq Files /\ Entry[g] \in Closure(g) /\ \A x \in Closure(g) : importsOf(x) \subseteq Closure(g)
<1>1. tree \in Trees /\ Entry[g] \in Files /\ Files \in SUBSET Files /\ \A x \in Files : tree[x] = importsOf(x)
  BY TreeTyped, EntryIsFile DEF tree
<1> QED BY <1>1, ReachedFacts DEF Closure

\* A walk with nothing to do has found the closure.
LEMMA WalkedAll ==
  ASSUME SourceOK, NEW g \in Graphs, NEW D \in SUBSET Files, D = Reached(tree, Entry[g], D)
  PROVE  D = Closure(g)
  BY TreeTyped, EntryIsFile, ReachedAll DEF Closure

\* What any walk reaches is in the closure.
LEMMA WalkedSome ==
  ASSUME SourceOK, NEW g \in Graphs, NEW D \in SUBSET Files
  PROVE  Reached(tree, Entry[g], D) \subseteq Closure(g)
  BY TreeTyped, EntryIsFile, ReachedGrows DEF Closure

LEMMA SameDisk ==
  ASSUME source' = source
  PROVE  /\ tree' = tree
         /\ \A x : Loads(x)' = Loads(x) /\ importsOf(x)' = importsOf(x)
         /\ \A g : Closure(g)' = Closure(g) /\ Own(g)' = Own(g) /\ Fine(g)' = Fine(g)
<1>1. \A x : Loads(x)' = Loads(x) /\ importsOf(x)' = importsOf(x)
  BY DEF Loads, importsOf
<1>2. tree' = tree
  BY <1>1 DEF tree
<1>3. \A g : Closure(g)' = Closure(g) /\ Own(g)' = Own(g)
  BY <1>2 DEF Closure, Own
<1>4. \A g : Fine(g)' = Fine(g)
  BY <1>1, <1>3 DEF Fine
<1> QED BY <1>1, <1>2, <1>3, <1>4

LEMMA EditOutside ==
  ASSUME SourceOK, SourceOK', NEW g \in Graphs, NEW x \in Files,
         \A y \in Files : y # x => source'[y] = source[y]
  PROVE  /\ tree \in Trees /\ tree' \in Trees /\ \A y \in Files : y # x => tree'[y] = tree[y] /\ Loads(y)' = Loads(y)
         /\ x \notin Closure(g) \/ x \notin Closure(g)' =>
              Closure(g)' = Closure(g) /\ Own(g)' = Own(g) /\ Fine(g)' = Fine(g) /\ x \notin Closure(g)
<1>1. \A y \in Files : y # x => Loads(y)' = Loads(y) /\ importsOf(y)' = importsOf(y)
  BY DEF Loads, importsOf
<1>2. tree \in Trees
  BY TreeTyped
<1>3. tree' \in Trees
  <2>1. (SourceOK => tree \in Trees)'
    BY TreeTyped, PTL
  <2> QED BY <2>1
<1>4. \A y \in Files : y # x => tree'[y] = tree[y]
  BY <1>1 DEF tree
<1>5. Entry[g] \in Files /\ es \in Files
  BY EntryIsFile
<1>6. ASSUME x \notin Closure(g) \/ x \notin Closure(g)'
      PROVE  Closure(g)' = Closure(g) /\ Own(g)' = Own(g) /\ Fine(g)' = Fine(g) /\ x \notin Closure(g)
  <2> DEFINE R(T, D) == Reached(T, Entry[g], D)
  <2>1. R(tree, Files) = R(tree', Files)
    BY <1>2, <1>3, <1>4, <1>5, <1>6, ReachedSame DEF Closure
  <2>2. Closure(g)' = Closure(g) /\ x \notin Closure(g) /\ Closure(g) \subseteq Files
    BY <2>1, <1>6, ClosureFacts DEF Closure
  <2>3. x \notin R(tree, Files \ {es})
    BY <2>2, <1>2, <1>5, ReachedGrows DEF Closure
  <2>4. R(tree, Files \ {es}) = R(tree', Files \ {es})
    BY <1>2, <1>3, <1>4, <1>5, <2>3, ReachedSame
  <2>5. Own(g)' = Own(g)
    BY <2>4 DEF Own, es
  <2>6. Fine(g)' = Fine(g)
    BY <1>1, <2>2 DEF Fine
  <2> QED BY <2>2, <2>5, <2>6
<1> QED BY <1>1, <1>2, <1>3, <1>4, <1>6

-----------------------------------------------------------------------------
(* Types *)

LEMMA TypeSplits == TypeOK => DataOK
  BY DEF TypeOK, DataOK, SourceOK, EnvTypeOK

LEMMA EnvFiles ==
  ASSUME dotenv \in [DOMAIN EnvStart -> [there : BOOLEAN, lines : [Keys -> Values]]]
  PROVE  Len(dotenv) = Len(EnvStart) /\ DOMAIN dotenv = 1..Len(EnvStart) /\ Len(EnvStart) \in Nat
<1>1. DOMAIN EnvStart = 1..Len(EnvStart) /\ Len(EnvStart) \in Nat
  BY ModuleGraphAssumption
<1>2. DOMAIN dotenv = 1..Len(EnvStart)
  BY <1>1
<1> DEFINE X == [there : BOOLEAN, lines : [Keys -> Values]]
<1>3. dotenv \in [1..Len(EnvStart) -> X]
  BY <1>1
<1> HIDE DEF X
<1>4. Len(dotenv) = Len(EnvStart)
  BY <1>1, <1>3
<1> QED BY <1>1, <1>2, <1>4

\* The latest of some env files.
LEMMA SomeLatest ==
  ASSUME NEW n \in Nat, NEW is \in SUBSET (1..n), is # {}
  PROVE  \E i \in is : \A j \in is : i >= j
<1> DEFINE S == {n - i : i \in is}
<1>1. S \subseteq Nat /\ S # {}
  <2>1. \A i \in is : n - i \in Nat
    OBVIOUS
  <2> QED BY <2>1
<1> HIDE DEF S
<1>2. PICK m \in S : \A k \in S : ~(<<k, m>> \in OpToRel(<, Nat))
  BY <1>1, WFMin, NatLessThanWellFounded
<1>3. \A k \in S : ~(k < m)
  BY <1>1, <1>2 DEF OpToRel
<1> USE DEF S
<1>4. PICK i \in is : m = n - i
  BY <1>2
<1>5. \A j \in is : ~(n - j < n - i)
  BY <1>3, <1>4
<1> QED BY <1>4, <1>5

LEMMA MergedTyped ==
  ASSUME dotenv \in [DOMAIN EnvStart -> [there : BOOLEAN, lines : [Keys -> Values]]], NEW k \in Keys
  PROVE  merged(k) \in Values
<1> DEFINE is == {i \in DOMAIN dotenv : parseEnvFile(i, k) # 0}
<1>0. 0 \in Values /\ \A i \in DOMAIN dotenv : parseEnvFile(i, k) \in Values
  BY ModuleGraphAssumption, EnvFiles DEF Values, parseEnvFile
<1>1. CASE is = {}
  BY <1>0, <1>1 DEF merged
<1>2. CASE is # {}
  <2>1. is \in SUBSET (1..Len(EnvStart))
    BY EnvFiles
  <2>2. \E i \in is : \A j \in is : i >= j
    BY <1>2, <2>1, EnvFiles, SomeLatest
  <2> DEFINE m == CHOOSE i \in is : \A j \in is : i >= j
  <2>3. m \in is
    BY <2>2
  <2>4. merged(k) = parseEnvFile(m, k)
    BY <1>2 DEF merged
  <2> HIDE DEF m
  <2> QED BY <1>0, <2>3, <2>4
<1> QED BY <1>1, <1>2

LEMMA JobShapes ==
  ASSUME NEW g \in Graphs
  PROVE  /\ Idle \in JobType /\ Idle.step = "idle" /\ Idle.by = None /\ Idle.reading = {}
         /\ \A c \in Callers :
              /\ Walking(g, c) \in JobType /\ Walking(g, c).step = "walk" /\ Walking(g, c).by = c
              /\ Walking(g, c).todo = {Entry[g]} /\ Walking(g, c).reading = {} /\ Walking(g, c).seen = {Entry[g]}
         /\ job[g] \in JobType =>
              /\ Loading(g) \in JobType /\ Loading(g).step = "load" /\ Loading(g).by = job[g].by
              /\ Loading(g).todo = {Entry[g]} /\ Loading(g).reading = {} /\ \A x \in Files : Loading(g).got[x] = 0
<1>1. Entry[g] \in Files
  BY EntryIsFile
<1>2. Idle \in JobType /\ Idle.step = "idle" /\ Idle.by = None /\ Idle.reading = {} /\ \A x \in Files : Idle.got[x] = 0
  BY DEF Idle, JobType
<1>3. \A c \in Callers :
        /\ Walking(g, c) \in JobType /\ Walking(g, c).step = "walk" /\ Walking(g, c).by = c
        /\ Walking(g, c).todo = {Entry[g]} /\ Walking(g, c).reading = {} /\ Walking(g, c).seen = {Entry[g]}
  BY <1>1, <1>2 DEF Walking, JobType
<1>4. job[g] \in JobType =>
        /\ Loading(g) \in JobType /\ Loading(g).step = "load" /\ Loading(g).by = job[g].by
        /\ Loading(g).todo = {Entry[g]} /\ Loading(g).reading = {} /\ \A x \in Files : Loading(g).got[x] = 0
  BY <1>1, <1>2 DEF Loading, JobType
<1> QED BY <1>2, <1>3, <1>4

LEMMA ClaimFacts ==
  ASSUME DataOK, NEW fs \in SUBSET Functions, NEW c \in Callers, Claim(fs, c)
  PROVE  /\ job' \in [Graphs -> JobType] /\ again' \in [Functions -> Callers \cup {None}] /\ job'[Shared] = job[Shared]
         /\ \A f \in Functions :
              /\ f \notin fs => job'[f] = job[f] /\ again'[f] = again[f]
              /\ f \in fs /\ job[f].step = "idle" => job'[f] = Walking(f, c) /\ again'[f] = again[f]
              /\ f \in fs /\ job[f].step # "idle" => job'[f] = job[f] /\ again'[f] = c
<1>1. \A g \in Graphs : g \in fs => Walking(g, c) \in JobType
  BY JobShapes
<1>2. Shared \in Graphs /\ Functions \subseteq Graphs /\ Shared \notin fs
  BY ModuleGraphAssumption DEF Graphs
<1>3. job' \in [Graphs -> JobType]
  BY <1>1 DEF Claim, DataOK
<1> QED BY <1>2, <1>3 DEF Claim, DataOK

LEMMA OverFacts ==
  ASSUME DataOK, NEW g \in Graphs, Over(g)
  PROVE  /\ job' \in [Graphs -> JobType] /\ again' \in [Functions -> Callers \cup {None}]
         /\ \A h \in Graphs : h # g => job'[h] = job[h]
         /\ \A f \in Functions : again'[f] = IF f = g THEN None ELSE again[f]
         /\ g = Shared => job'[g] = Idle
         /\ g \in Functions => job'[g] = IF again[g] = None THEN Idle ELSE Walking(g, again[g])
<1> DEFINE next == IF g \in Functions THEN again[g] ELSE None
           new == IF next = None THEN Idle ELSE Walking(g, next)
<1>1. job' = [job EXCEPT ![g] = new] /\ again' = [f \in Functions |-> IF f = g THEN None ELSE again[f]]
  BY DEF Over
<1>2. next \in Callers \cup {None} /\ Shared \notin Functions
  BY ModuleGraphAssumption DEF DataOK
<1>3. new \in JobType
  BY <1>2, JobShapes
<1>4. (g = Shared => new = Idle) /\ (g \in Functions => new = IF again[g] = None THEN Idle ELSE Walking(g, again[g]))
  BY <1>2
<1> HIDE DEF next, new
<1> QED BY <1>1, <1>3, <1>4 DEF DataOK

LEMMA LearnFacts ==
  ASSUME DataOK, NEW f \in Functions, NEW x \in Files, NEW files \in SUBSET Files, job' = Learn(f, x, files)
  PROVE  /\ job' \in [Graphs -> JobType] /\ \A g \in Graphs : g # f => job'[g] = job[g]
         /\ job'[f].step = job[f].step /\ job'[f].by = job[f].by /\ job'[f].got = job[f].got /\ job'[f].gen = job[f].gen
         /\ job'[f].todo = (job[f].todo \ {x}) \cup (files \ job[f].seen)
         /\ job'[f].seen = job[f].seen \cup files
         /\ job'[f].reading = {r \in job[f].reading : r[1] # x}
<1> DEFINE new == [job[f] EXCEPT !.todo = (job[f].todo \ {x}) \cup (files \ job[f].seen), !.seen = job[f].seen \cup files,
                                 !.reading = {r \in job[f].reading : r[1] # x}]
<1>1. f \in Graphs /\ job[f] \in JobType
  BY DEF DataOK, Graphs
<1>2. /\ new \in JobType /\ new.step = job[f].step /\ new.by = job[f].by /\ new.got = job[f].got /\ new.gen = job[f].gen
      /\ new.todo = (job[f].todo \ {x}) \cup (files \ job[f].seen) /\ new.seen = job[f].seen \cup files
      /\ new.reading = {r \in job[f].reading : r[1] # x}
  BY <1>1 DEF JobType
<1>3. job' = [job EXCEPT ![f] = new]
  BY <1>1 DEF Learn, DataOK
<1> HIDE DEF new
<1> QED BY <1>1, <1>2, <1>3 DEF DataOK

LEMMA CodeFacts ==
  ASSUME DataOK, RewrittenHonest, NEW x \in Files, Loads(x)
  PROVE  loadRewritten(x) \in CachedType /\ loadRewritten(x).rev = source[x].rev /\ loadRewritten(x).files = importsOf(x)
<1>1. source[x] # None /\ source[x].rev \in Nat /\ importsOf(x) \subseteq Files /\ rewriteImports(x) = importsOf(x)
  BY ImportsTyped DEF DataOK, Loads
<1>2. CASE rewritten[x] # None /\ rewritten[x].rev = source[x].rev
  <2>1. rewritten[x] \in CachedType /\ rewritten[x].files = importsOf(x)
    BY <1>1, <1>2 DEF DataOK, RewrittenHonest
  <2> QED BY <1>2, <2>1 DEF loadRewritten
<1>3. CASE ~(rewritten[x] # None /\ rewritten[x].rev = source[x].rev)
  <2>1. loadRewritten(x) = [rev |-> source[x].rev, files |-> importsOf(x)]
    BY <1>1, <1>3 DEF loadRewritten
  <2> QED BY <1>1, <2>1 DEF CachedType
<1> QED BY <1>2, <1>3

LEMMA LoadFacts ==
  ASSUME DataOK, RewrittenHonest, NEW g \in Graphs, NEW x \in Files, Load(g, x)
  PROVE  /\ job' \in [Graphs -> JobType] /\ \A h \in Graphs : h # g => job'[h] = job[h]
         /\ job'[g].step = "load" /\ job'[g].by = job[g].by /\ job'[g].gen = job[g].gen /\ job'[g].reading = job[g].reading
         /\ job'[g].got[x] = source[x].rev /\ \A y \in Files : y # x => job'[g].got[y] = job[g].got[y]
         /\ job'[g].todo = {y \in job[g].todo \cup importsOf(x) : job'[g].got[y] = 0}
         /\ rewritten' \in [Files -> CachedType \cup {None}] /\ \A y \in Files : y # x => rewritten'[y] = rewritten[y]
         /\ rewritten'[x].rev = source[x].rev /\ rewritten'[x].files = importsOf(x)
<1> DEFINE code == loadRewritten(x)
           got == [job[g].got EXCEPT ![x] = code.rev]
           new == [job[g] EXCEPT !.got = got, !.todo = {y \in job[g].todo \cup code.files : got[y] = 0}]
<1>1. code \in CachedType /\ code.rev = source[x].rev /\ code.files = importsOf(x)
  BY CodeFacts DEF Load
<1>2. job[g] \in JobType /\ job[g].step = "load"
  BY DEF DataOK, Load
<1>3. job' = [job EXCEPT ![g] = new] /\ rewritten' = [rewritten EXCEPT ![x] = code]
  BY <1>2 DEF Load, DataOK
<1> HIDE DEF code
<1>4. /\ got \in [Files -> Nat] /\ got[x] = source[x].rev /\ \A y \in Files : y # x => got[y] = job[g].got[y]
      /\ {y \in job[g].todo \cup code.files : got[y] = 0} \in SUBSET Files
  BY <1>1, <1>2 DEF JobType, CachedType
<1> HIDE DEF got
<1>5. /\ new \in JobType /\ new.step = "load" /\ new.by = job[g].by /\ new.gen = job[g].gen /\ new.reading = job[g].reading
      /\ new.got = got /\ new.todo = {y \in job[g].todo \cup code.files : got[y] = 0}
  BY <1>2, <1>4 DEF JobType
<1> HIDE DEF new
<1>6. job' \in [Graphs -> JobType] /\ job'[g] = new /\ \A h \in Graphs : h # g => job'[h] = job[h]
  BY <1>3, <1>5 DEF DataOK
<1>7. rewritten' \in [Files -> CachedType \cup {None}] /\ rewritten'[x] = code /\ \A y \in Files : y # x => rewritten'[y] = rewritten[y]
  BY <1>1, <1>3 DEF DataOK
<1> QED BY <1>1, <1>4, <1>5, <1>6, <1>7

LEMMA BindFacts ==
  ASSUME DataOK, NEW g \in Graphs, NEW x \in Files, Bind(g, x)
  PROVE  /\ job' \in [Graphs -> JobType] /\ \A h \in Graphs : h # g => job'[h] = job[h]
         /\ job'[g].step = "load" /\ job'[g].by = job[g].by /\ job'[g].got = job[g].got /\ job'[g].reading = job[g].reading
         /\ job'[g].gen = gen /\ job'[g].todo = job[g].todo \ {x}
<1> DEFINE new == [job[g] EXCEPT !.gen = gen, !.todo = job[g].todo \ {x}]
<1>1. job[g] \in JobType /\ job[g].step = "load" /\ gen \in Nat
  BY DEF DataOK, Bind
<1>2. job' = [job EXCEPT ![g] = new]
  BY <1>1 DEF Bind, DataOK
<1>3. /\ new \in JobType /\ new.step = "load" /\ new.by = job[g].by /\ new.got = job[g].got /\ new.reading = job[g].reading
      /\ new.gen = gen /\ new.todo = job[g].todo \ {x}
  BY <1>1 DEF JobType
<1> HIDE DEF new
<1> QED BY <1>2, <1>3 DEF DataOK

\* A walk gets to what it has to do: a file that is gone, one it knows, one it has to read.
LEMMA StatFacts ==
  ASSUME DataOK, ParsedHonest, NEW f \in Functions, NEW x \in Files, Stat(f, x)
  PROVE  /\ job' \in [Graphs -> JobType] /\ \A g \in Graphs : g # f => job'[g] = job[g]
         /\ job'[f].step = "walk" /\ job'[f].by = job[f].by
         /\ parsed' \in [Files -> CachedType \cup {None}] /\ \A y \in Files : parsed'[y] = parsed[y] \/ parsed'[y] = None
         /\ \/ job' = Learn(f, x, importsOf(x))
            \/ /\ job'[f].todo = job[f].todo \ {x} /\ job'[f].seen = job[f].seen /\ source[x] # None
               /\ job'[f].reading = job[f].reading \cup {<<x, source[x].rev>>}
<1>1. f \in Graphs /\ job[f] \in JobType /\ job[f].step = "walk" /\ importsOf(x) \subseteq Files
  BY ImportsTyped DEF DataOK, Stat, Graphs
<1>2. CASE source[x] = None
  <2>1. importsOf(x) = {} /\ job' = Learn(f, x, importsOf(x)) /\ parsed' = [parsed EXCEPT ![x] = None]
    BY <1>2 DEF Stat, importsOf, Loads
  <2> QED BY <1>1, <2>1, LearnFacts DEF DataOK
<1>3. CASE source[x] # None /\ Known(x)
  <2>1. importsOf(x) = parsed[x].files /\ parsed' = parsed
    BY <1>3 DEF Stat, Known, ParsedHonest
  <2>2. job' = Learn(f, x, importsOf(x))
    BY <1>3, <2>1 DEF Stat
  <2> QED BY <1>1, <2>1, <2>2, LearnFacts DEF DataOK
<1>4. CASE source[x] # None /\ ~Known(x)
  <2> DEFINE rs == job[f].reading \cup {<<x, source[x].rev>>}
             new == [job[f] EXCEPT !.todo = job[f].todo \ {x}, !.reading = rs]
  <2>1. job' = [job EXCEPT ![f] = new] /\ parsed' = parsed
    BY <1>1, <1>4 DEF Stat, DataOK
  <2>2. source[x].rev \in Nat
    BY <1>4 DEF DataOK
  <2>3. rs \in SUBSET (Files \X Nat)
    BY <1>1, <2>2 DEF JobType
  <2> HIDE DEF rs
  <2>4. /\ new \in JobType /\ new.step = job[f].step /\ new.by = job[f].by /\ new.todo = job[f].todo \ {x}
        /\ new.seen = job[f].seen /\ new.reading = rs
    BY <1>1, <2>3 DEF JobType
  <2> HIDE DEF new
  <2> QED BY <1>1, <1>4, <2>1, <2>4 DEF DataOK, rs
<1> QED BY <1>2, <1>3, <1>4

LEMMA ReadFacts ==
  ASSUME DataOK, NEW f \in Functions, NEW x \in Files, Read(f, x)
  PROVE  /\ job' \in [Graphs -> JobType] /\ \A g \in Graphs : g # f => job'[g] = job[g]
         /\ job' = Learn(f, x, importsOf(x))
         /\ \E r \in job[f].reading : /\ r[1] = x /\ r[2] \in Nat
                                      /\ parsed' \in [Files -> CachedType \cup {None}] /\ \A y \in Files : y # x => parsed'[y] = parsed[y]
                                      /\ parsed'[x].rev = r[2] /\ parsed'[x].files = importsOf(x)
<1>1. importsOf(x) \subseteq Files
  BY ImportsTyped DEF DataOK
<1>2. PICK r \in job[f].reading : r[1] = x /\ CacheParse(x, r[2], importsOf(x)) /\ job' = Learn(f, x, importsOf(x))
  BY DEF Read
<1>3. job[f] \in JobType
  BY DEF DataOK, Graphs
<1>4. r \in Files \X Nat
  BY <1>3 DEF JobType
<1>5. [rev |-> r[2], files |-> importsOf(x)] \in CachedType
  BY <1>1, <1>4 DEF CachedType
<1>6. /\ parsed' \in [Files -> CachedType \cup {None}] /\ \A y \in Files : y # x => parsed'[y] = parsed[y]
      /\ parsed'[x].rev = r[2] /\ parsed'[x].files = importsOf(x)
  BY <1>2, <1>5 DEF CacheParse, DataOK
<1> QED BY <1>1, <1>2, <1>4, <1>6, LearnFacts

LEMMA InitData == Init => DataOK
<1> SUFFICES ASSUME Init PROVE DataOK
  OBVIOUS
<1>1. \A x \in DOMAIN Start : x \in Files /\ Start[x] \in Imports[x]
  BY ModuleGraphAssumption
<1>2. \A x \in DOMAIN Start : [rev |-> 1, specs |-> Start[x], ok |-> TRUE] \in SourceType
  BY <1>1 DEF SourceType
<1>3. SourceOK /\ \A x \in Files : source[x] # None => source[x].rev = 1
  BY <1>1, <1>2 DEF Init, SourceOK
<1>4. \A g \in Graphs : Closure(g) \in SUBSET Files
  BY <1>3, ClosureFacts
<1>5. EnvTypeOK
  <2>1. DOMAIN EnvStart = 1..Len(EnvStart) /\ Len(EnvStart) \in Nat /\ MaxEdits \in Nat
    BY ModuleGraphAssumption
  <2>2. \A i \in DOMAIN EnvStart : i \in Values /\ 0 \in Values
    BY <2>1 DEF Values
  <2>3. dotenv \in [DOMAIN EnvStart -> [there : BOOLEAN, lines : [Keys -> Values]]]
    BY <2>2 DEF Init
  <2>4. \A k \in Keys : merged(k) \in Values
    BY <2>3, MergedTyped
  <2> QED BY <2>3, <2>4 DEF Init, EnvTypeOK
<1>6. edits = 0 /\ edits \in 0..MaxEdits
  BY ModuleGraphAssumption DEF Init
<1>7. loaded \in [Graphs -> [revs : [Files -> Nat], gen : Nat, env : [Keys -> Values]]]
  BY <1>5, ClosureFacts DEF Init, EnvTypeOK
<1>8. job \in [Graphs -> JobType]
  BY JobShapes DEF Init
<1>9. graph \in [Functions -> SUBSET Files]
  BY <1>4 DEF Init, Graphs
<1>10. \A x \in Files : source[x] # None => source[x].rev \in 1..(edits + 1)
  BY <1>3, <1>6
<1> QED BY <1>3, <1>5, <1>6, <1>7, <1>8, <1>9, <1>10 DEF Init, DataOK

LEMMA EditData ==
  ASSUME DataOK, NEW x \in Files, Save(x) \/ Delete(x)
  PROVE  DataOK' /\ edits' = edits + 1 /\ pending' = pending \cup {x} /\ (\A y \in Files : y # x => source'[y] = source[y])
         /\ (source'[x] # None => source'[x].rev = edits + 2)
         /\ UNCHANGED <<caches, phase, batch, job, again, runs, envs>>
<1>1. edits' = edits + 1 /\ edits' \in 0..MaxEdits /\ edits \in Nat
  BY ModuleGraphAssumption DEF DataOK, Save, Delete
<1>2. source' \in [Files -> SourceType \cup {None}] /\ (\A y \in Files : y # x => source'[y] = source[y])
      /\ (source'[x] # None => source'[x].rev = edits + 2 /\ source'[x].specs \in Imports[x])
  <2>1. CASE Save(x)
    <3>1. PICK specs \in Imports[x], ok \in BOOLEAN : source' = [source EXCEPT ![x] = [rev |-> Revision, specs |-> specs, ok |-> ok]]
      BY <2>1 DEF Save
    <3>2. [rev |-> Revision, specs |-> specs, ok |-> ok] \in SourceType
      BY <1>1 DEF Revision, SourceType
    <3> QED BY <3>1, <3>2 DEF DataOK, SourceOK, Revision
  <2>2. CASE Delete(x)
    BY <2>2 DEF Delete, DataOK, SourceOK
  <2> QED BY <2>1, <2>2
<1>3. SourceOK' /\ \A y \in Files : source'[y] # None => source'[y].rev \in 1..(edits' + 1)
  <2>1. \A y \in Files : source[y] # None => source[y].rev \in 1..(edits + 1) /\ source[y].specs \in Imports[y]
    BY DEF DataOK, SourceOK
  <2> QED BY <1>1, <1>2, <2>1 DEF SourceOK
<1>4. pending' = pending \cup {x} /\ UNCHANGED <<caches, phase, batch, job, again, runs, envs>>
  BY DEF Save, Delete
<1>5. EnvTypeOK'
  BY <1>4 DEF DataOK, EnvTypeOK, envs
<1> QED BY <1>1, <1>2, <1>3, <1>4, <1>5 DEF DataOK, caches, runs

LEMMA SaveEnvData ==
  ASSUME DataOK, NEW i \in DOMAIN dotenv, SaveEnv(i)
  PROVE  DataOK'
<1>1. edits' = edits + 1 /\ edits' \in 0..MaxEdits /\ edits \in Nat /\ MaxEdits \in Nat
  BY ModuleGraphAssumption DEF DataOK, SaveEnv
<1>2. EnvTypeOK /\ Len(dotenv) = Len(EnvStart) /\ Len(EnvStart) \in Nat /\ DOMAIN dotenv = DOMAIN EnvStart
  BY EnvFiles DEF DataOK, EnvTypeOK
<1>3. \A value \in [Keys -> BOOLEAN] : [k \in Keys |-> IF value[k] THEN Len(dotenv) + edits + 1 ELSE 0] \in [Keys -> Values]
  <2>1. Len(dotenv) + edits + 1 \in Values /\ 0 \in Values
    BY <1>1, <1>2 DEF Values
  <2> HIDE DEF Values
  <2> QED BY <2>1
<1>4. dotenv' \in [DOMAIN EnvStart -> [there : BOOLEAN, lines : [Keys -> Values]]]
  <2>1. ASSUME NEW value \in [Keys -> BOOLEAN],
               dotenv' = [dotenv EXCEPT ![i] = [there |-> TRUE, lines |-> [k \in Keys |-> IF value[k] THEN Len(dotenv) + edits + 1 ELSE 0]]]
        PROVE  dotenv' \in [DOMAIN EnvStart -> [there : BOOLEAN, lines : [Keys -> Values]]]
    <3> DEFINE lines == [k \in Keys |-> IF value[k] THEN Len(dotenv) + edits + 1 ELSE 0]
    <3>1. lines \in [Keys -> Values]
      BY <1>3
    <3> HIDE DEF lines
    <3>2. dotenv' = [dotenv EXCEPT ![i] = [there |-> TRUE, lines |-> lines]]
      BY <2>1 DEF lines
    <3> QED BY <1>2, <3>1, <3>2 DEF EnvTypeOK
  <2>2. ASSUME dotenv' = [dotenv EXCEPT ![i].there = FALSE]
        PROVE  dotenv' \in [DOMAIN EnvStart -> [there : BOOLEAN, lines : [Keys -> Values]]]
    BY <1>2, <2>2 DEF EnvTypeOK
  <2> QED BY <2>1, <2>2 DEF SaveEnv
<1>5. envPending' = TRUE /\ UNCHANGED <<source, caches, pending, phase, batch, job, again, runs, env, owned, envBusy>>
  BY DEF SaveEnv
<1>6. EnvTypeOK'
  BY <1>2, <1>4, <1>5 DEF EnvTypeOK
<1>7. SourceOK' /\ \A y \in Files : source'[y] # None => source'[y].rev \in 1..(edits' + 1)
  BY <1>1, <1>5 DEF DataOK, SourceOK
<1> QED BY <1>1, <1>5, <1>6, <1>7 DEF DataOK, caches, runs

\* The other steps leave the disk alone.
LEMMA DataFrame ==
  ASSUME DataOK, UNCHANGED <<sources, dotenv>>, {envPending', envBusy'} \subseteq BOOLEAN,
         owned' \subseteq Keys, env' \in [Keys -> Values]
  PROVE  SourceOK' /\ EnvTypeOK' /\ edits' \in 0..MaxEdits /\ \A x \in Files : source'[x] # None => source'[x].rev \in 1..(edits' + 1)
  BY DEF DataOK, SourceOK, EnvTypeOK, sources
LEMMA DiskFrame ==
  ASSUME DataOK, UNCHANGED <<sources, envs>>
  PROVE  SourceOK' /\ EnvTypeOK' /\ edits' \in 0..MaxEdits /\ \A x \in Files : source'[x] # None => source'[x].rev \in 1..(edits' + 1)
  BY DEF DataOK, SourceOK, EnvTypeOK, sources, envs

LEMMA FlushData ==
  ASSUME DataOK, Flush \/ SharedReloaded \/ ReloadEnds \/ Affected
  PROVE  DataOK'
<1>1. UNCHANGED <<sources, caches, runs, envs>> /\ pending' \subseteq Files /\ batch' \subseteq Files
      /\ phase' \in {"idle", "shared", "affected", "reload"}
  BY DEF Flush, SharedReloaded, ReloadEnds, Affected, DataOK
<1>2. job' \in [Graphs -> JobType] /\ again' \in [Functions -> Callers \cup {None}]
  <2>1. CASE Flush
    <3>1. Shared \in Graphs /\ Loading(Shared) \in JobType
      BY JobShapes DEF DataOK, Graphs
    <3> QED BY <2>1, <3>1 DEF Flush, DataOK
  <2>2. CASE Affected
    <3>1. computeAffected(batch) \in SUBSET Functions /\ "hmr" \in Callers
      BY DEF computeAffected, Callers
    <3> QED BY <2>2, <3>1, ClaimFacts DEF Affected
  <2> QED BY <2>1, <2>2 DEF SharedReloaded, ReloadEnds, DataOK
<1> QED BY <1>1, <1>2, DiskFrame DEF DataOK, caches, runs

LEMMA EnvData ==
  ASSUME DataOK, EnvFlush \/ EnvReloadEnds
  PROVE  DataOK'
<1>1. UNCHANGED <<sources, caches, pending, phase, batch, runs, dotenv>>
  BY DEF EnvFlush, EnvReloadEnds
<1>2. owned' \subseteq Keys /\ env' \in [Keys -> Values]
  <2>1. ASSUME applyEnvFiles PROVE owned' \subseteq Keys /\ env' \in [Keys -> Values]
    <3>1. EnvTypeOK /\ (\A k \in Keys : merged(k) \in Values) /\ 0 \in Values
      BY MergedTyped, ModuleGraphAssumption, EnvFiles DEF DataOK, EnvTypeOK, Values
    <3> QED BY <2>1, <3>1 DEF applyEnvFiles, EnvTypeOK
  <2> QED BY <2>1 DEF EnvFlush, EnvReloadEnds, DataOK, EnvTypeOK
<1>3. {envPending', envBusy'} \subseteq BOOLEAN
  BY DEF EnvFlush, EnvReloadEnds, DataOK, EnvTypeOK
<1>4. job' \in [Graphs -> JobType] /\ again' \in [Functions -> Callers \cup {None}]
  BY ClaimFacts DEF EnvFlush, EnvReloadEnds, DataOK, Callers
<1>5. SourceOK' /\ EnvTypeOK' /\ edits' \in 0..MaxEdits /\ \A x \in Files : source'[x] # None => source'[x].rev \in 1..(edits' + 1)
  BY <1>1, <1>2, <1>3, DataFrame
<1> QED BY <1>1, <1>4, <1>5 DEF DataOK, caches, runs

LEMMA JobData ==
  ASSUME DataOK, CacheInv, NEW g \in Graphs, NEW x \in Files,
         \/ g \in Functions /\ (Stat(g, x) \/ Read(g, x) \/ Refreshed(g))
         \/ Load(g, x) \/ Bind(g, x) \/ ImportFails(g, x) \/ Imported(g)
  PROVE  DataOK'
<1>1. UNCHANGED <<sources, pending, phase, batch, envs>>
  BY DEF Stat, Read, Refreshed, Load, Bind, ImportFails, Imported
<1>2. SourceOK' /\ EnvTypeOK' /\ edits' \in 0..MaxEdits /\ \A y \in Files : source'[y] # None => source'[y].rev \in 1..(edits' + 1)
  BY <1>1, DiskFrame
<1>3. job[g] \in JobType /\ ParsedHonest /\ RewrittenHonest
  BY DEF DataOK, CacheInv
<1>4. CASE g \in Functions /\ Stat(g, x)
  BY <1>1, <1>2, <1>3, <1>4, StatFacts DEF Stat, DataOK, runs
<1>5. CASE g \in Functions /\ Read(g, x)
  BY <1>1, <1>2, <1>3, <1>5, ReadFacts DEF Read, DataOK, runs
<1>6. CASE g \in Functions /\ Refreshed(g)
  <2>1. graph' = [graph EXCEPT ![g] = job[g].seen] /\ job' = [job EXCEPT ![g] = Loading(g)]
    BY <1>6 DEF Refreshed, Replace
  <2>2. job[g].seen \in SUBSET Files /\ Loading(g) \in JobType
    BY <1>3, JobShapes DEF JobType
  <2> QED BY <1>1, <1>2, <1>6, <2>1, <2>2 DEF Refreshed, DataOK, runs
<1>7. CASE Load(g, x)
  BY <1>1, <1>2, <1>3, <1>7, LoadFacts DEF Load, DataOK, runs
<1>8. CASE Bind(g, x)
  BY <1>1, <1>2, <1>8, BindFacts DEF Bind, DataOK, runs, caches
<1>9. CASE ImportFails(g, x)
  BY <1>1, <1>2, <1>9, OverFacts DEF ImportFails, DataOK, caches
<1>10. CASE Imported(g)
  <2>1. [revs |-> job[g].got, gen |-> job[g].gen, env |-> env] \in [revs : [Files -> Nat], gen : Nat, env : [Keys -> Values]]
    BY <1>3 DEF JobType, DataOK, EnvTypeOK
  <2>2. loaded' \in [Graphs -> [revs : [Files -> Nat], gen : Nat, env : [Keys -> Values]]]
    BY <1>10, <2>1 DEF Imported, DataOK
  <2>3. gen' \in Nat \ {0} /\ failed' \subseteq Graphs
    BY <1>10 DEF Imported, DataOK
  <2> QED BY <1>1, <1>2, <1>10, <2>2, <2>3, OverFacts DEF Imported, DataOK, caches
<1> QED BY <1>4, <1>5, <1>6, <1>7, <1>8, <1>9, <1>10

-----------------------------------------------------------------------------
(* The caches *)

LEMMA CacheFrame ==
  ASSUME CacheInv, UNCHANGED sources,
         \A x \in Files : parsed'[x] \in {parsed[x], None} \/ (parsed'[x].rev <= edits + 1 /\ parsed'[x].files = importsOf(x)),
         \A x \in Files : rewritten'[x] = rewritten[x] \/ (rewritten'[x].rev <= edits + 1 /\ rewritten'[x].files = importsOf(x)),
         \A f \in Functions : \A r \in job'[f].reading : r[2] <= edits + 1
  PROVE  CacheInv'
<1>1. source' = source /\ edits' = edits /\ Files' = Files /\ \A x \in Files : importsOf(x)' = importsOf(x)
  BY SameDisk DEF sources, Files
<1>2. ParsedHonest'
  BY <1>1 DEF CacheInv, ParsedHonest
<1>3. RewrittenHonest'
  BY <1>1 DEF CacheInv, RewrittenHonest
<1> QED BY <1>1, <1>2, <1>3 DEF CacheInv

LEMMA InitCache == Init => CacheInv
  BY JobShapes DEF Init, CacheInv, ParsedHonest, RewrittenHonest, Graphs

LEMMA EditCache ==
  ASSUME DataOK, CacheInv, NEW x \in Files, Save(x) \/ Delete(x)
  PROVE  CacheInv'
<1>1. /\ DataOK' /\ edits' = edits + 1 /\ (\A y \in Files : y # x => source'[y] = source[y])
      /\ source'[x] # None => source'[x].rev = edits + 2
      /\ UNCHANGED <<caches, job>>
  BY EditData DEF caches
<1>2. edits \in Nat /\ \A y \in Files : (parsed[y] # None => parsed[y].rev \in Nat /\ parsed[y].rev <= edits + 1)
                                         /\ (rewritten[y] # None => rewritten[y].rev \in Nat /\ rewritten[y].rev <= edits + 1)
  BY DEF DataOK, CacheInv, CachedType
<1>a. \A n \in Nat : n <= edits + 1 => n # edits + 2 /\ n <= edits' + 1
  BY <1>1, <1>2
<1>3. \A y \in Files : y # x => importsOf(y)' = importsOf(y)
  BY <1>1 DEF importsOf, Loads
<1>4. /\ parsed[x] # None /\ source'[x] # None => parsed[x].rev # source'[x].rev
      /\ rewritten[x] # None /\ source'[x] # None => rewritten[x].rev # source'[x].rev
  <2>1. source'[x] # None => source'[x].rev = edits + 2
    BY <1>1
  <2> QED BY <1>2, <1>a, <2>1
<1>5. ParsedHonest' /\ RewrittenHonest'
  BY <1>1, <1>3, <1>4 DEF CacheInv, ParsedHonest, RewrittenHonest, caches
<1>6. \A f \in Functions : \A r \in job[f].reading : r[2] \in Nat /\ r[2] <= edits + 1
  BY DEF DataOK, CacheInv, JobType, Graphs
<1>7. parsed' = parsed /\ rewritten' = rewritten /\ job' = job
  BY <1>1 DEF caches
<1>8. \A y \in Files : (parsed'[y] # None => parsed'[y].rev <= edits' + 1) /\ (rewritten'[y] # None => rewritten'[y].rev <= edits' + 1)
  BY <1>2, <1>a, <1>7
<1>9. \A f \in Functions : \A r \in job'[f].reading : r[2] <= edits' + 1
  BY <1>6, <1>a, <1>7
<1> QED BY <1>5, <1>8, <1>9 DEF CacheInv

LEMMA NextCache ==
  ASSUME DataOK, CacheInv, [Next]_vars
  PROVE  CacheInv'
<1>1. CASE \E x \in Files : Save(x) \/ Delete(x)
  BY <1>1, EditCache
<1>2. CASE \E i \in DOMAIN dotenv : SaveEnv(i)
  <2>1. edits' = edits + 1 /\ UNCHANGED <<source, parsed, rewritten, job>>
    BY <1>2 DEF SaveEnv, caches
  <2>2. \A x \in Files : importsOf(x)' = importsOf(x)
    BY <2>1, SameDisk
  <2>3. ParsedHonest' /\ RewrittenHonest'
    BY <2>1, <2>2 DEF CacheInv, ParsedHonest, RewrittenHonest
  <2>4. edits \in Nat /\ \A y \in Files : (parsed[y] # None => parsed[y].rev \in Nat) /\ (rewritten[y] # None => rewritten[y].rev \in Nat)
    BY DEF DataOK, CachedType
  <2>5. \A f \in Functions : \A r \in job[f].reading : r[2] \in Nat
    BY DEF DataOK, JobType, Graphs
  <2>6. \A n \in Nat : n <= edits + 1 => n <= edits' + 1
    BY <2>1, <2>4
  <2>7. \A y \in Files : (parsed[y] # None => parsed[y].rev <= edits' + 1) /\ (rewritten[y] # None => rewritten[y].rev <= edits' + 1)
    BY <2>4, <2>6 DEF CacheInv
  <2>8. \A f \in Functions : \A r \in job[f].reading : r[2] <= edits' + 1
    BY <2>5, <2>6 DEF CacheInv
  <2> QED BY <2>1, <2>3, <2>7, <2>8 DEF CacheInv
<1>3. CASE Flush \/ SharedReloaded \/ Affected \/ ReloadEnds \/ EnvFlush \/ EnvReloadEnds \/ UNCHANGED vars
  <2>1. UNCHANGED <<sources, parsed, rewritten>>
    BY <1>3 DEF Flush, SharedReloaded, Affected, ReloadEnds, EnvFlush, EnvReloadEnds, vars, caches
  <2>2. ASSUME NEW f \in Functions PROVE job'[f].reading \in {job[f].reading, {}}
    <3>1. f \in Graphs /\ f # Shared /\ computeAffected(batch) \in SUBSET Functions
      BY ModuleGraphAssumption DEF Graphs, computeAffected
    <3>2. CASE Flush
      BY <3>1, <3>2 DEF Flush, DataOK
    <3>3. ASSUME NEW fs \in SUBSET Functions, NEW c \in Callers, Claim(fs, c) PROVE job'[f].reading \in {job[f].reading, {}}
      <4>1. job'[f] \in {job[f], Walking(f, c)}
        BY <3>3, ClaimFacts
      <4> QED BY <3>1, <4>1, JobShapes
    <3>4. CASE Affected \/ EnvFlush
      BY <3>1, <3>3, <3>4 DEF Affected, EnvFlush, Callers
    <3>5. CASE SharedReloaded \/ ReloadEnds \/ EnvReloadEnds \/ UNCHANGED vars
      BY <3>5 DEF SharedReloaded, ReloadEnds, EnvReloadEnds, vars
    <3> QED BY <1>3, <3>2, <3>4, <3>5
  <2> QED BY <2>1, <2>2, CacheFrame DEF CacheInv
<1>4. ASSUME NEW f \in Functions, NEW x \in Files, Stat(f, x) \/ Read(f, x) PROVE CacheInv'
  <2>1. UNCHANGED <<sources, rewritten>>
    BY <1>4 DEF Stat, Read
  <2>2. ParsedHonest /\ \A h \in Functions : h \in Graphs
    BY DEF CacheInv, Graphs
  <2>3. CASE Stat(f, x)
    <3>1. \A y \in Files : parsed'[y] = parsed[y] \/ parsed'[y] = None
      BY <2>2, <2>3, StatFacts
    <3>2. \A h \in Functions : h # f => job'[h] = job[h]
      BY <2>2, <2>3, StatFacts
    <3>3. importsOf(x) \in SUBSET Files
      BY ImportsTyped DEF DataOK
    <3>4. job'[f].reading \subseteq job[f].reading \/ (source[x] # None /\ job'[f].reading = job[f].reading \cup {<<x, source[x].rev>>})
      BY <2>2, <2>3, <3>3, StatFacts, LearnFacts
    <3>5. source[x] # None => source[x].rev <= edits + 1
      BY DEF DataOK
    <3>6. \A h \in Functions : \A r \in job'[h].reading : r[2] <= edits + 1
      BY <3>2, <3>4, <3>5 DEF CacheInv
    <3> QED BY <2>1, <3>1, <3>6, CacheFrame
  <2>4. CASE Read(f, x)
    <3>1. importsOf(x) \in SUBSET Files /\ job' = Learn(f, x, importsOf(x))
      BY <2>4, ImportsTyped, ReadFacts DEF DataOK
    <3>2. \A h \in Functions : job'[h].reading \subseteq job[h].reading
      BY <2>2, <3>1, LearnFacts
    <3>3. \A y \in Files : parsed'[y] = parsed[y] \/ (parsed'[y].rev <= edits + 1 /\ parsed'[y].files = importsOf(y))
      BY <2>4, ReadFacts DEF CacheInv
    <3> QED BY <2>1, <3>2, <3>3, CacheFrame DEF CacheInv
  <2> QED BY <1>4, <2>3, <2>4
<1>5. ASSUME NEW f \in Functions, Refreshed(f) PROVE CacheInv'
  <2>1. UNCHANGED <<sources, parsed, rewritten>> /\ job' = [job EXCEPT ![f] = Loading(f)] /\ f \in Graphs
    BY <1>5 DEF Refreshed, Graphs
  <2>2. \A h \in Functions : job'[h].reading \in {job[h].reading, {}}
    BY <2>1, JobShapes DEF DataOK, Graphs
  <2> QED BY <2>1, <2>2, CacheFrame DEF CacheInv
<1>6. ASSUME NEW g \in Graphs, NEW x \in Files, Load(g, x) PROVE CacheInv'
  <2>1. RewrittenHonest /\ UNCHANGED <<sources, parsed>> /\ source[x] # None
    BY <1>6 DEF CacheInv, Load, Loads
  <2>2. source[x].rev <= edits + 1
    BY <2>1 DEF DataOK
  <2>3. \A y \in Files : rewritten'[y] = rewritten[y] \/ (rewritten'[y].rev <= edits + 1 /\ rewritten'[y].files = importsOf(y))
    BY <1>6, <2>1, <2>2, LoadFacts
  <2>4. \A h \in Functions : job'[h].reading = job[h].reading
    BY <1>6, <2>1, LoadFacts DEF Graphs
  <2> QED BY <2>1, <2>3, <2>4, CacheFrame DEF CacheInv
<1>7. ASSUME NEW g \in Graphs, NEW x \in Files, Bind(g, x) \/ ImportFails(g, x) \/ Imported(g) PROVE CacheInv'
  <2>1. UNCHANGED <<sources, parsed, rewritten>>
    BY <1>7 DEF Bind, ImportFails, Imported, caches
  <2>2. ASSUME NEW h \in Functions PROVE job'[h].reading \in {job[h].reading, {}}
    <3>1. h \in Graphs
      BY DEF Graphs
    <3>2. CASE Bind(g, x)
      BY <3>1, <3>2, BindFacts
    <3>3. ASSUME Over(g) PROVE job'[h].reading \in {job[h].reading, {}}
      <4>1. again[h] \in Callers \cup {None}
        BY DEF DataOK
      <4> QED BY <3>1, <3>3, <4>1, OverFacts, JobShapes
    <3> QED BY <1>7, <3>2, <3>3 DEF ImportFails, Imported
  <2> QED BY <2>1, <2>2, CacheFrame DEF CacheInv
<1>8. (\E x \in Files : TRUE) \/ ~\E g \in Graphs : Imported(g)
  BY ModuleGraphAssumption
<1> QED BY <1>1, <1>2, <1>3, <1>4, <1>5, <1>6, <1>7, <1>8 DEF Next

-----------------------------------------------------------------------------
(* The shared module *)

LEMMA Budget ==
  ASSUME NEW a \in Nat, NEW m \in Nat, NEW e \in Nat, a + m <= e + 1
  PROVE  a + m <= (e + 1) + 1
  OBVIOUS
LEMMA Spent ==
  ASSUME NEW a \in Nat, NEW b \in Nat, NEW m \in Nat, NEW e \in Nat, a + m + 1 <= e + 1, b <= a + 1
  PROVE  b + m <= e + 1
  OBVIOUS

LEMMA SharedFrame ==
  ASSUME DataOK, SharedInv, job'[Shared] = job[Shared], loaded'[Shared] = loaded[Shared], gen' = gen,
         Shared \in failed' <=> Shared \in failed, es \in pending' <=> es \in pending, source'[es] = source[es],
         edits' \in {edits, edits + 1}, batch' = batch \/ phase # "shared",
         phase' = phase \/ (phase' # "shared" /\ job[Shared].step = "idle")
  PROVE  SharedInv'
<1>1. Loads(es)' = Loads(es) /\ importsOf(es)' = importsOf(es)
  BY DEF Loads, importsOf, es
<1>2. gen \in Nat /\ edits \in Nat
  BY DEF DataOK
<1> DEFINE n == (IF es \in pending THEN 1 ELSE 0) + (IF job[Shared].step = "load" THEN 1 ELSE 0)
<1>3. gen + n <= edits + 1 /\ n \in Nat
  BY <1>2 DEF SharedInv
<1>a. n = (IF es \in pending' THEN 1 ELSE 0) + (IF job'[Shared].step = "load" THEN 1 ELSE 0)
  OBVIOUS
<1> HIDE DEF n
<1>4. gen' + n <= edits' + 1
  BY <1>2, <1>3, Budget
<1>5. gen' + (IF es \in pending' THEN 1 ELSE 0) + (IF job'[Shared].step = "load" THEN 1 ELSE 0) <= edits' + 1
  <2> DEFINE a == IF es \in pending' THEN 1 ELSE 0
             b == IF job'[Shared].step = "load" THEN 1 ELSE 0
  <2>1. a \in Nat /\ b \in Nat /\ n = a + b /\ gen' \in Nat
    BY <1>2, <1>a
  <2> HIDE DEF a, b
  <2>2. gen' + a + b <= edits' + 1
    BY <1>4, <2>1
  <2> QED BY <2>2 DEF a, b
<1> QED BY <1>1, <1>5 DEF SharedInv, es

LEMMA InitShared == Init => SharedInv
<1> SUFFICES ASSUME Init PROVE SharedInv
  OBVIOUS
<1>1. Shared \in Graphs /\ es \in Files /\ DataOK
  BY EntryIsFile, InitData DEF Graphs
<1>2. job[Shared].step = "idle"
  BY <1>1, JobShapes DEF Init
<1>3. es \in Closure(Shared)
  BY <1>1, ClosureFacts DEF DataOK, es
<1>4. loaded[Shared].revs[es] = 1
  BY <1>1, <1>3 DEF Init
<1>5. Loads(es) => source[es].rev = 1
  BY <1>1 DEF Init, Loads
<1> QED BY <1>2, <1>4, <1>5 DEF Init, SharedInv

LEMMA SharedGoesOn ==
  ASSUME DataOK, CacheInv, SharedInv, NEW x \in Files,
         Load(Shared, x) \/ ImportFails(Shared, x) \/ Imported(Shared)
  PROVE  SharedInv'
<1>1. /\ Shared \in Graphs /\ es \in Files /\ es \in {Entry[Shared]} /\ Shared \notin Functions
      /\ job[Shared].step = "load" /\ job[Shared] \in JobType /\ phase = "shared" /\ es \in batch
      /\ UNCHANGED <<sources, pending, phase, batch>>
  BY EntryIsFile, ModuleGraphAssumption DEF Graphs, Load, ImportFails, Imported, DataOK, SharedInv, es
<1>2. gen \in Nat /\ edits \in Nat /\ edits' = edits /\ source' = source /\ \A y : Loads(y)' = Loads(y) /\ importsOf(y)' = importsOf(y)
  BY <1>1, SameDisk DEF DataOK, sources
<1>3. CASE Load(Shared, x)
  <2>1. /\ RewrittenHonest /\ x \in job[Shared].todo /\ Loads(x) /\ source[x] # None
        /\ UNCHANGED <<loaded, failed, gen>>
    BY <1>3 DEF CacheInv, Load, runs, Loads
  <2>2. /\ job'[Shared].step = "load" /\ job'[Shared].got[x] = source[x].rev
        /\ \A y \in Files : y # x => job'[Shared].got[y] = job[Shared].got[y]
        /\ job'[Shared].todo = {y \in job[Shared].todo \cup importsOf(x) : job'[Shared].got[y] = 0}
    BY <1>1, <1>3, <2>1, LoadFacts
  <2>3. source[x].rev # 0
    BY <2>1 DEF DataOK
  <2>4. ASSUME es \notin pending
        PROVE  /\ job'[Shared].got[es] # 0 /\ source[es] # None /\ job'[Shared].got[es] = source[es].rev
               /\ importsOf(es) = {} => job'[Shared].todo = {}
    <3>1. CASE job[Shared].got[es] = 0 /\ job[Shared].todo = {es}
      <4>1. x = es
        BY <2>1, <3>1
      <4>2. job'[Shared].todo = {y \in {es} \cup importsOf(es) : job'[Shared].got[y] = 0} /\ job'[Shared].got[es] # 0
        BY <2>2, <2>3, <3>1, <4>1
      <4>3. importsOf(es) = {} => job'[Shared].todo = {}
        BY <4>2
      <4> QED BY <2>1, <2>2, <4>1, <4>2, <4>3
    <3>2. CASE /\ job[Shared].got[es] # 0 /\ source[es] # None /\ job[Shared].got[es] = source[es].rev
               /\ importsOf(es) = {} => job[Shared].todo = {}
      BY <1>1, <2>1, <2>2, <2>3, <3>2
    <3> QED BY <1>1, <2>4, <3>1, <3>2 DEF SharedInv
  <2>5. gen' + (IF es \in pending' THEN 1 ELSE 0) + (IF job'[Shared].step = "load" THEN 1 ELSE 0) <= edits' + 1
    BY <1>1, <1>2, <2>1, <2>2 DEF SharedInv
  <2> QED BY <1>1, <1>2, <2>2, <2>4, <2>5 DEF SharedInv, es
<1>4. ASSUME ImportFails(Shared, x) \/ Imported(Shared) PROVE SharedInv'
  <2>1. job'[Shared] = Idle /\ Idle.step = "idle"
    BY <1>1, <1>4, OverFacts, JobShapes DEF ImportFails, Imported
  <2>2. gen' <= gen + 1
    BY <1>2, <1>4 DEF ImportFails, Imported
  <2>3. gen + (IF es \in pending THEN 1 ELSE 0) + 1 <= edits + 1
    BY <1>1 DEF SharedInv
  <2>4. gen' \in Nat
    BY <1>2, <1>4 DEF ImportFails, Imported
  <2>5. gen' + (IF es \in pending' THEN 1 ELSE 0) + (IF job'[Shared].step = "load" THEN 1 ELSE 0) <= edits' + 1
    <3> DEFINE m == IF es \in pending THEN 1 ELSE 0
    <3>1. m \in Nat /\ m = (IF es \in pending' THEN 1 ELSE 0)
      BY <1>1
    <3>2. gen + m + 1 <= edits + 1
      BY <2>3
    <3> HIDE DEF m
    <3>3. gen' + m <= edits' + 1
      BY <1>2, <2>2, <2>4, <3>1, <3>2, Spent
    <3>4. (IF job'[Shared].step = "load" THEN 1 ELSE 0) = 0
      BY <2>1
    <3> QED BY <2>4, <3>1, <3>3, <3>4
  <2>6. ASSUME es \notin pending, Loads(es), Shared \notin failed' \/ importsOf(es) = {}
        PROVE  loaded'[Shared].revs[es] = source[es].rev
    <3>1. CASE ImportFails(Shared, x)
      <4>1. x \in job[Shared].todo /\ ~Loads(x) /\ Shared \in failed'
        BY <3>1 DEF ImportFails
      <4> QED BY <1>1, <2>6, <4>1 DEF SharedInv
    <3>2. CASE Imported(Shared)
      <4>1. job[Shared].todo = {} /\ loaded'[Shared].revs = job[Shared].got
        BY <1>1, <3>2 DEF Imported, DataOK
      <4> QED BY <1>1, <2>6, <4>1 DEF SharedInv
    <3> QED BY <1>4, <3>1, <3>2
  <2> QED BY <1>1, <1>2, <2>1, <2>5, <2>6 DEF SharedInv, es
<1> QED BY <1>3, <1>4

LEMMA NextShared ==
  ASSUME DataOK, CacheInv, SharedInv, [Next]_vars
  PROVE  SharedInv'
<1>0. Shared \in Graphs /\ es \in Files /\ Shared \notin Functions /\ \A f \in Functions : f \in Graphs /\ f # Shared
  BY EntryIsFile, ModuleGraphAssumption DEF Graphs
<1>1. ASSUME NEW x \in Files, Save(x) \/ Delete(x) PROVE SharedInv'
  <2>1. /\ edits' = edits + 1 /\ pending' = pending \cup {x} /\ (\A y \in Files : y # x => source'[y] = source[y])
        /\ UNCHANGED <<phase, batch, job, runs>>
    BY <1>1, EditData
  <2>2. CASE x # es
    <3>1. job' = job /\ loaded' = loaded /\ gen' = gen /\ failed' = failed /\ phase' = phase /\ batch' = batch
      BY <2>1 DEF runs
    <3> QED BY <1>0, <2>1, <2>2, <3>1, SharedFrame
  <2>3. CASE x = es
    <3>1. gen \in Nat /\ edits \in Nat /\ gen' = gen /\ es \in pending' /\ job' = job /\ phase' = phase /\ batch' = batch
      BY <2>1, <2>3 DEF DataOK, runs
    <3>2. gen + (IF job[Shared].step = "load" THEN 1 ELSE 0) <= edits + 1
      BY <3>1 DEF SharedInv
    <3>3. gen' + (IF es \in pending' THEN 1 ELSE 0) + (IF job'[Shared].step = "load" THEN 1 ELSE 0) <= edits' + 1
      BY <2>1, <3>1, <3>2
    <3> QED BY <3>1, <3>3 DEF SharedInv, es
  <2> QED BY <2>2, <2>3
<1>2. ASSUME NEW i \in DOMAIN dotenv, SaveEnv(i) PROVE SharedInv'
  BY <1>0, <1>2, SharedFrame DEF SaveEnv, runs
<1>3. CASE Flush
  <2>1. /\ phase = "idle" /\ pending' = {} /\ batch' = pending /\ UNCHANGED <<sources, runs>>
        /\ job[Shared].step # "load"
    BY <1>3 DEF Flush, SharedInv
  <2>2. gen \in Nat /\ edits \in Nat /\ edits' = edits /\ gen' = gen
    BY <2>1 DEF DataOK, sources, runs
  <2>3. CASE es \in pending
    <3>1. phase' = "shared" /\ job'[Shared] = Loading(Shared)
      BY <1>0, <1>3, <2>3 DEF Flush, es, DataOK
    <3>2. job'[Shared].step = "load" /\ job'[Shared].todo = {es} /\ job'[Shared].got[es] = 0
      BY <1>0, <3>1, JobShapes DEF DataOK, es
    <3>3. gen + 1 <= edits + 1
      BY <2>1, <2>2, <2>3 DEF SharedInv
    <3>4. gen' + (IF es \in pending' THEN 1 ELSE 0) + (IF job'[Shared].step = "load" THEN 1 ELSE 0) <= edits' + 1
      BY <2>1, <2>2, <3>2, <3>3
    <3> QED BY <2>1, <2>3, <3>1, <3>2, <3>4 DEF SharedInv, es
  <2>4. CASE es \notin pending
    <3>1. phase' # "shared" /\ job' = job /\ job[Shared].step = "idle" /\ source' = source /\ loaded' = loaded /\ failed' = failed
      BY <1>0, <1>3, <2>1, <2>4 DEF Flush, es, SharedInv, sources, runs
    <3> QED BY <2>1, <2>2, <2>4, <3>1, SharedFrame
  <2> QED BY <2>3, <2>4
<1>4. CASE SharedReloaded \/ ReloadEnds
  <2>1. job' = job /\ phase' # "shared" /\ job[Shared].step = "idle" /\ pending' = pending /\ batch' = batch
    BY <1>4 DEF SharedReloaded, ReloadEnds, SharedInv
  <2>2. edits' = edits /\ source' = source /\ loaded' = loaded /\ gen' = gen /\ failed' = failed
    BY <1>4 DEF SharedReloaded, ReloadEnds, sources, runs
  <2> QED BY <2>1, <2>2, SharedFrame
<1>5. CASE Affected
  <2>1. /\ phase = "affected" /\ phase' # "shared" /\ job[Shared].step = "idle"
        /\ UNCHANGED <<sources, pending, batch, runs>>
    BY <1>5 DEF Affected, SharedInv
  <2>2. job'[Shared] = job[Shared]
    BY <1>5, ClaimFacts DEF Affected, computeAffected, Callers
  <2> QED BY <2>1, <2>2, SharedFrame DEF sources, runs
<1>6. CASE EnvFlush \/ EnvReloadEnds
  <2>1. UNCHANGED <<sources, pending, phase, batch, runs>>
    BY <1>6 DEF EnvFlush, EnvReloadEnds
  <2>2. job'[Shared] = job[Shared]
    BY <1>6, ClaimFacts DEF EnvFlush, EnvReloadEnds, Callers
  <2> QED BY <2>1, <2>2, SharedFrame DEF sources, runs
<1>7. ASSUME NEW f \in Functions, NEW x \in Files, Stat(f, x) \/ Read(f, x) \/ Refreshed(f) PROVE SharedInv'
  <2>1. UNCHANGED <<sources, pending, phase, batch, runs>>
    BY <1>7 DEF Stat, Read, Refreshed
  <2>2. job'[Shared] = job[Shared]
    BY <1>0, <1>7, StatFacts, ReadFacts DEF CacheInv, Refreshed, DataOK
  <2> QED BY <2>1, <2>2, SharedFrame DEF sources, runs
<1>8. ASSUME NEW f \in Functions, NEW x \in Files, Load(f, x) \/ Bind(f, x) \/ ImportFails(f, x) \/ Imported(f) PROVE SharedInv'
  <2>1. UNCHANGED <<sources, pending, phase, batch, gen>>
    BY <1>0, <1>8 DEF Load, Bind, ImportFails, Imported, runs
  <2>2. job'[Shared] = job[Shared]
    BY <1>0, <1>8, LoadFacts, BindFacts, OverFacts DEF CacheInv, ImportFails, Imported
  <2>3. loaded'[Shared] = loaded[Shared] /\ (Shared \in failed' <=> Shared \in failed)
    BY <1>0, <1>8 DEF Load, Bind, ImportFails, Imported, runs, DataOK
  <2> QED BY <2>1, <2>2, <2>3, SharedFrame DEF sources
<1>9. ASSUME NEW g \in Graphs, NEW x \in Files, Load(g, x) \/ Bind(g, x) \/ ImportFails(g, x) \/ Imported(g) PROVE SharedInv'
  <2>1. CASE g = Shared
    BY <1>9, <2>1, SharedGoesOn DEF Bind, Stubbed
  <2>2. CASE g # Shared
    BY <1>8, <1>9, <2>2 DEF Graphs
  <2> QED BY <2>1, <2>2
<1>10. CASE UNCHANGED vars
  BY <1>10, SharedFrame DEF vars, sources, runs
<1> QED BY <1>0, <1>1, <1>2, <1>3, <1>4, <1>5, <1>6, <1>7, <1>9, <1>10 DEF Next

-----------------------------------------------------------------------------
(* The environment *)

LEMMA SameFiles ==
  ASSUME dotenv' = dotenv
  PROVE  \A k : merged(k)' = merged(k)
  BY DEF merged, parseEnvFile

LEMMA InitEnv == Init => EnvInv
  BY DEF Init, EnvInv

LEMMA NextEnv ==
  ASSUME DataOK, EnvInv, [Next]_vars
  PROVE  EnvInv'
<1>1. ASSUME NEW i \in DOMAIN dotenv, SaveEnv(i) PROVE EnvInv'
  BY <1>1 DEF SaveEnv, EnvInv
<1>2. CASE EnvFlush
  <2>1. dotenv' = dotenv /\ applyEnvFiles
    BY <1>2 DEF EnvFlush
  <2>2. \A k : merged(k)' = merged(k)
    BY <2>1, SameFiles
  <2>3. CASE \E i \in DOMAIN dotenv : dotenv[i].there
    <3>1. /\ env' = [k \in Keys |-> IF merged(k) # 0 THEN merged(k) ELSE IF k \in owned THEN 0 ELSE env[k]]
          /\ owned' = {k \in Keys : merged(k) # 0}
      BY <2>1, <2>3 DEF applyEnvFiles
    <3>2. \A k \in Keys : env'[k] = merged(k)
      BY <3>1 DEF EnvInv
    <3> QED BY <2>2, <3>1, <3>2 DEF EnvInv
  <2>4. CASE ~\E i \in DOMAIN dotenv : dotenv[i].there
    BY <2>1, <2>4 DEF applyEnvFiles, EnvInv
  <2> QED BY <2>3, <2>4
<1>3. ASSUME UNCHANGED <<dotenv, env, owned, envPending>> PROVE EnvInv'
  BY <1>3, SameFiles DEF EnvInv
<1>4. CASE EnvReloadEnds
  BY <1>3, <1>4 DEF EnvReloadEnds
<1>5. CASE \E x \in Files : Save(x) \/ Delete(x)
  BY <1>3, <1>5 DEF Save, Delete, envs
<1>6. CASE Flush \/ SharedReloaded \/ Affected \/ ReloadEnds \/ UNCHANGED vars
  BY <1>3, <1>6 DEF Flush, SharedReloaded, Affected, ReloadEnds, vars, envs
<1>7. ASSUME NEW f \in Functions, NEW x \in Files, Stat(f, x) \/ Read(f, x) \/ Refreshed(f) PROVE EnvInv'
  BY <1>3, <1>7 DEF Stat, Read, Refreshed, envs
<1>8. ASSUME NEW g \in Graphs, NEW x \in Files, Load(g, x) \/ Bind(g, x) \/ ImportFails(g, x) \/ Imported(g) PROVE EnvInv'
  BY <1>3, <1>8 DEF Load, Bind, ImportFails, Imported, envs
<1>9. \E x \in Files : TRUE
  BY EntryIsFile
<1> QED BY <1>1, <1>2, <1>4, <1>5, <1>6, <1>7, <1>8, <1>9 DEF Next

-----------------------------------------------------------------------------
(* The functions *)

\* Nothing that concerns f has changed, and nothing its walk knows falls out of sight.
LEMMA Unmoved ==
  ASSUME DataOK, NEW f \in Functions, RunOK(f), job'[f] = job[f], again'[f] = "hmr" <=> again[f] = "hmr", source' = source,
         graph'[f] = graph[f], gen' = gen \/ es \in Changed, loaded'[f] = loaded[f], env' = env \/ job[f].by # None, Changed' = Changed,
         job[f].step = "walk" /\ again[f] # "hmr" => Walked(f) \cap Relevant(f) \subseteq Relevant(f)'
  PROVE  RunOK(f)'
<1>1. /\ tree' = tree /\ \A x : Loads(x)' = Loads(x) /\ importsOf(x)' = importsOf(x)
      /\ \A g : Closure(g)' = Closure(g) /\ Own(g)' = Own(g) /\ Fine(g)' = Fine(g)
  BY SameDisk
<1>2. Walked(f)' = Walked(f) /\ Evaluated(f)' = Evaluated(f) /\ Due(f)' = Due(f)
  BY DEF Walked, Evaluated, Due, Files
<1>3. Clean(f)' = Clean(f)
  BY <1>1 DEF Clean
<1>4. WalkOK(f)'
  <2> DEFINE R(t, D) == Reached(t, Entry[f], D)
  <2>1. R(tree', Walked(f)' \ Changed') = R(tree, Walked(f) \ Changed)
    BY <1>1, <1>2
  <2>2. WalkOK(f)
    BY DEF RunOK
  <2> HIDE DEF R
  <2>3. Walked(f) \ Relevant(f)' \subseteq Walked(f) \ Relevant(f) \/ ~(job[f].step = "walk" /\ again[f] # "hmr")
    OBVIOUS
  <2> QED BY <1>1, <1>2, <2>1, <2>2, <2>3 DEF WalkOK, R
<1>5. GraphOK(f)'
  BY <1>1, <1>2 DEF RunOK, GraphOK
<1>6. Clean(f) /\ gen' # gen => es \notin Closure(f)
  BY DEF Clean
<1>7. LoadOK(f)'
  <2> SUFFICES ASSUME job[f].step = "load", again[f] # "hmr", Clean(f) PROVE LoadOK(f)'
    BY <1>3 DEF LoadOK
  <2> DEFINE R == Reached(tree, Entry[f], Evaluated(f))
  <2>1. /\ Evaluated(f) \cup job[f].todo \subseteq R /\ es \notin Evaluated(f)
        /\ R \subseteq Evaluated(f) \cup job[f].todo \cup {es}
        /\ \A x \in Evaluated(f) : Loads(x) /\ job[f].got[x] = source[x].rev
        /\ es \in R \ job[f].todo => job[f].gen = gen
    BY DEF RunOK, LoadOK
  <2>2. R \subseteq Closure(f)
    BY WalkedSome DEF DataOK, Graphs, Evaluated
  <2>3. Reached(tree, Entry[f], Evaluated(f))' = R
    BY <1>1, <1>2
  <2> HIDE DEF R
  <2>4. es \in R \ job[f].todo => job[f].gen = gen'
    BY <1>6, <2>1, <2>2
  <2> QED BY <1>1, <1>2, <2>1, <2>3, <2>4 DEF LoadOK, es
<1>8. NewestOK(f)' /\ SecretOK(f)'
  BY <1>1, <1>3, <1>6 DEF RunOK, NewestOK, Newest, SecretOK, es, Files
<1> QED BY <1>4, <1>5, <1>7, <1>8 DEF RunOK

LEMMA UnmovedPhase ==
  ASSUME DataOK, NEW f \in Functions, ClaimOK(f), RunOK(f), job'[f] = job[f], again'[f] = again[f], source' = source,
         graph'[f] = graph[f], gen' = gen \/ es \in Changed, loaded'[f] = loaded[f],
         UNCHANGED <<env, envBusy, pending, phase, batch>>
  PROVE  ClaimOK(f)' /\ RunOK(f)'
<1>1. Changed' = Changed /\ Relevant(f)' = Relevant(f)
  BY DEF Changed, Relevant
<1>2. RunOK(f)'
  BY <1>1, Unmoved
<1> QED BY <1>2 DEF ClaimOK

\* A file that is not reached may as well be walked through.
LEMMA ReachedWithout ==
  ASSUME NEW T \in Trees, NEW from \in Files, NEW D \in SUBSET Files, NEW x, x \notin Reached(T, from, D \ {x})
  PROVE  Reached(T, from, D) = Reached(T, from, D \ {x})
<1> DEFINE R == Reached(T, from, D \ {x})
<1>1. R \in SUBSET Files /\ from \in R /\ \A y \in R \cap (D \ {x}) : T[y] \subseteq R
  BY ReachedFacts
<1>2. R \subseteq Reached(T, from, D) /\ x \notin R
  BY ReachedGrows
<1>3. \A S \in SUBSET Files : from \in S /\ (\A y \in S \cap D : T[y] \subseteq S) => Reached(T, from, D) \subseteq S
  BY ReachedFacts
<1> HIDE DEF R
<1>4. Reached(T, from, D) \subseteq R
  BY <1>1, <1>2, <1>3
<1> QED BY <1>2, <1>4 DEF R

LEMMA EditReach ==
  ASSUME NEW T \in Trees, NEW U \in Trees, NEW from \in Files, NEW x \in Files, NEW D \in SUBSET Files, NEW E, E = D \ {x},
         \A y \in Files : y # x => U[y] = T[y]
  PROVE  /\ Reached(U, from, E) \subseteq Reached(T, from, D)
         /\ x \notin Reached(U, from, E) => Reached(U, from, E) = Reached(T, from, D)
<1>1. E \in SUBSET Files /\ E \in SUBSET D /\ x \notin E
  OBVIOUS
<1>2. \A y \in E : y # x => U[y] = T[y]
  BY <1>1
<1>3. Reached(U, from, E) = Reached(T, from, E)
  BY <1>1, <1>2, ReachedSame
<1>4. Reached(T, from, E) \subseteq Reached(T, from, D)
  BY <1>1, ReachedGrows
<1>5. x \notin Reached(T, from, E) => Reached(T, from, D) = Reached(T, from, E)
  BY ReachedWithout
<1> QED BY <1>3, <1>4, <1>5

LEMMA EditRun ==
  ASSUME DataOK, NEW f \in Functions, RunOK(f), NEW x \in Files, Save(x) \/ Delete(x)
  PROVE  RunOK(f)'
<1>1. /\ DataOK' /\ pending' = pending \cup {x} /\ (\A y \in Files : y # x => source'[y] = source[y])
      /\ job' = job /\ again' = again /\ graph' = graph /\ gen' = gen /\ loaded' = loaded /\ env' = env
      /\ phase' = phase /\ batch' = batch
  BY EditData DEF caches, runs, envs
<1>2. /\ Changed' = Changed \cup {x} /\ Relevant(f)' = Relevant(f) \cup {x} /\ Changed \subseteq Files
      /\ Relevant(f) \subseteq Changed
  BY <1>1 DEF Changed, Relevant, DataOK
<1>3. f \in Graphs /\ Entry[f] \in Files /\ job[f] \in JobType /\ graph[f] \in SUBSET Files
  BY EntryIsFile DEF Graphs, DataOK
<1>4. Walked(f)' = Walked(f) /\ Evaluated(f)' = Evaluated(f) /\ Due(f)' = Due(f)
      /\ Walked(f) \in SUBSET Files /\ Evaluated(f) \in SUBSET Files
  BY <1>1, <1>3 DEF Walked, Evaluated, Due, Files, JobType
<1>5. /\ tree \in Trees /\ tree' \in Trees /\ \A y \in Files : y # x => tree'[y] = tree[y] /\ Loads(y)' = Loads(y)
      /\ x \notin Closure(f) \/ x \notin Closure(f)' =>
           Closure(f)' = Closure(f) /\ Own(f)' = Own(f) /\ Fine(f)' = Fine(f) /\ x \notin Closure(f)
  BY <1>1, <1>3, EditOutside DEF DataOK
<1>6. \A y \in Files : y # x => importsOf(y)' = importsOf(y)
  BY <1>1 DEF importsOf, Loads
<1>7. Clean(f)' => Clean(f) /\ x \notin Closure(f) /\ Closure(f)' = Closure(f) /\ Own(f)' = Own(f) /\ Fine(f)' = Fine(f)
  BY <1>2, <1>5 DEF Clean
<1> DEFINE R(t, D) == Reached(t, Entry[f], D)
<1>8. \A D \in SUBSET Files : /\ R(tree', D \ Changed') \subseteq R(tree, D \ Changed)
                              /\ Changed' \cap R(tree', D \ Changed') = {} => R(tree', D \ Changed') = R(tree, D \ Changed)
  <2> SUFFICES ASSUME NEW D \in SUBSET Files
               PROVE  /\ R(tree', D \ Changed') \subseteq R(tree, D \ Changed)
                      /\ Changed' \cap R(tree', D \ Changed') = {} => R(tree', D \ Changed') = R(tree, D \ Changed)
    OBVIOUS
  <2>1. D \ Changed \in SUBSET Files /\ D \ Changed' = (D \ Changed) \ {x} /\ x \in Changed'
    BY <1>2
  <2>2. \A y \in Files : y # x => tree'[y] = tree[y]
    BY <1>5
  <2> QED BY <1>3, <1>5, <2>1, <2>2, EditReach
<1> HIDE DEF R
<1>9. WalkOK(f)'
  <2> SUFFICES ASSUME job[f].step = "walk" PROVE WalkOK(f)'
    BY <1>1 DEF WalkOK
  <2>1. ASSUME again[f] # "hmr"
        PROVE  /\ \A y \in Walked(f) \ Relevant(f)' : importsOf(y)' \subseteq job[f].seen
               /\ Changed' \cap R(tree', Walked(f) \ Changed') = {} => job[f].seen = R(tree', Walked(f) \ Changed')
               /\ job[f].by = "env" /\ Changed' \cap graph[f] = {} => job[f].seen \subseteq graph[f]
    <3>1. /\ \A y \in Walked(f) \ Relevant(f) : importsOf(y) \subseteq job[f].seen
          /\ Changed \cap R(tree, Walked(f) \ Changed) = {} => job[f].seen = R(tree, Walked(f) \ Changed)
          /\ job[f].by = "env" /\ Changed \cap graph[f] = {} => job[f].seen \subseteq graph[f]
      BY <2>1 DEF RunOK, WalkOK, R
    <3>2. \A y \in Walked(f) \ Relevant(f)' : importsOf(y)' \subseteq job[f].seen
      BY <1>2, <1>4, <1>6, <3>1
    <3>3. Changed' \cap R(tree', Walked(f) \ Changed') = {} => job[f].seen = R(tree', Walked(f) \ Changed')
      BY <1>2, <1>4, <1>8, <3>1
    <3> QED BY <1>2, <3>1, <3>2, <3>3
  <2> QED BY <1>1, <1>4, <2>1 DEF RunOK, WalkOK, R
<1>10. GraphOK(f)'
  <2> SUFFICES ASSUME ~Due(f)
               PROVE  /\ Entry[f] \in graph[f] /\ \A y \in graph[f] \ Changed' : importsOf(y)' \subseteq graph[f]
                      /\ Changed' \cap R(tree', graph[f] \ Changed') = {} => graph[f] = R(tree', graph[f] \ Changed')
    BY <1>1, <1>4 DEF GraphOK, R
  <2>1. /\ Entry[f] \in graph[f] /\ \A y \in graph[f] \ Changed : importsOf(y) \subseteq graph[f]
        /\ Changed \cap R(tree, graph[f] \ Changed) = {} => graph[f] = R(tree, graph[f] \ Changed)
    BY DEF RunOK, GraphOK, R
  <2> QED BY <1>2, <1>3, <1>6, <1>8, <2>1
<1>11. LoadOK(f)'
  <2> SUFFICES ASSUME job[f].step = "load", again[f] # "hmr", Clean(f)' PROVE LoadOK(f)'
    BY <1>1 DEF LoadOK
  <2>1. x \notin R(tree, Evaluated(f))
    BY <1>3, <1>4, <1>7, WalkedSome DEF DataOK, R
  <2>2. R(tree', Evaluated(f)) = R(tree, Evaluated(f))
    BY <1>3, <1>4, <1>5, <2>1, ReachedSame DEF R
  <2>3. /\ Evaluated(f) \cup job[f].todo \subseteq R(tree, Evaluated(f)) /\ es \notin Evaluated(f)
        /\ R(tree, Evaluated(f)) \subseteq Evaluated(f) \cup job[f].todo \cup {es}
        /\ \A y \in Evaluated(f) : Loads(y) /\ job[f].got[y] = source[y].rev
        /\ es \in R(tree, Evaluated(f)) \ job[f].todo => job[f].gen = gen
    BY <1>7 DEF RunOK, LoadOK, R
  <2>4. \A y \in Evaluated(f) : Loads(y)' /\ job[f].got[y] = source'[y].rev
    BY <1>1, <1>4, <1>5, <2>1, <2>3
  <2> QED BY <1>1, <1>4, <2>2, <2>3, <2>4 DEF LoadOK, R, es
<1>12. NewestOK(f)' /\ SecretOK(f)'
  <2> SUFFICES ASSUME Clean(f)', Fine(f)' PROVE NewestOK(f)' /\ SecretOK(f)'
    BY DEF NewestOK, SecretOK
  <2>1. NewestOK(f) /\ SecretOK(f) /\ Clean(f) /\ Fine(f)
    BY <1>7 DEF RunOK
  <2>2. \A y \in Own(f) : source'[y] = source[y]
    <3>1. Own(f) \subseteq Closure(f)
      BY <1>3, WalkedSome DEF Own, DataOK
    <3> QED BY <1>1, <1>3, <1>7, <3>1, ClosureFacts DEF DataOK
  <2>3. [y \in Files |-> IF y \in Own(f)' THEN source'[y].rev ELSE 0] = [y \in Files |-> IF y \in Own(f) THEN source[y].rev ELSE 0]
    BY <1>7, <2>2
  <2>4. Newest(f) => Newest(f)'
    BY <1>1, <1>7, <2>3 DEF Newest, Files, es
  <2> QED BY <1>1, <2>1, <2>4 DEF NewestOK, SecretOK
<1> QED BY <1>9, <1>10, <1>11, <1>12 DEF RunOK

LEMMA ReachedNothing ==
  ASSUME NEW T \in Trees, NEW from \in Files
  PROVE  Reached(T, from, {}) = {from}
<1>1. {} \in SUBSET Files /\ {from} \in SUBSET Files
  OBVIOUS
<1>2. from \in Reached(T, from, {}) /\ \A S \in SUBSET Files : from \in S /\ (\A x \in S \cap {} : T[x] \subseteq S) => Reached(T, from, {}) \subseteq S
  BY <1>1, ReachedFacts
<1> QED BY <1>1, <1>2

\* A reload begins with nothing but the entry.
LEMMA Started ==
  ASSUME DataOK', NEW f \in Functions, NEW c \in Callers, job'[f] = Walking(f, c), c = "env" => Entry[f] \in graph'[f]
  PROVE  WalkOK(f)'
<1>1. /\ f \in Graphs /\ Entry[f] \in Files /\ job'[f].seen = {Entry[f]} /\ job'[f].todo = {Entry[f]} /\ job'[f].reading = {}
      /\ job'[f].by = c
  BY EntryIsFile, JobShapes DEF Graphs
<1>2. Walked(f)' = {}
  BY <1>1 DEF Walked
<1>3. tree' \in Trees
  <2>1. (SourceOK => tree \in Trees)'
    BY TreeTyped, PTL
  <2> QED BY <2>1 DEF DataOK
<1>4. Reached(tree', Entry[f], Walked(f)' \ Changed') = {Entry[f]}
  BY <1>1, <1>2, <1>3, ReachedNothing
<1> QED BY <1>1, <1>2, <1>4 DEF WalkOK

LEMMA GraphReach ==
  ASSUME DataOK, NEW f \in Functions, ~Due(f), GraphOK(f)
  PROVE  Reached(tree, Entry[f], graph[f] \ Changed) \subseteq graph[f]
<1>1. f \in Graphs /\ Entry[f] \in Files /\ graph[f] \in SUBSET Files /\ tree \in Trees /\ \A x \in Files : tree[x] = importsOf(x)
  BY EntryIsFile, TreeTyped DEF Graphs, DataOK, tree
<1>2. Entry[f] \in graph[f] /\ \A x \in graph[f] \cap (graph[f] \ Changed) : tree[x] \subseteq graph[f]
  BY <1>1 DEF GraphOK
<1>3. graph[f] \ Changed \in SUBSET Files
  BY <1>1
<1> QED BY <1>1, <1>2, <1>3, ReachedFacts

\* A graph none of whose files has changed, or should have been in it, is right.
LEMMA GraphIsRight ==
  ASSUME DataOK, NEW f \in Functions, ~Due(f), GraphOK(f), Changed \cap graph[f] = {} \/ Clean(f)
  PROVE  graph[f] = Closure(f)
<1> DEFINE R == Reached(tree, Entry[f], graph[f] \ Changed)
<1>1. f \in Graphs /\ graph[f] \in SUBSET Files
  BY DEF Graphs, DataOK
<1>2. R \subseteq graph[f] /\ R \subseteq Closure(f)
  BY <1>1, GraphReach, WalkedSome DEF DataOK
<1>3. graph[f] = R /\ Changed \cap graph[f] = {}
  BY <1>2 DEF GraphOK, Clean
<1>4. graph[f] \ Changed = graph[f]
  BY <1>3
<1>5. graph[f] = Reached(tree, Entry[f], graph[f])
  BY <1>3, <1>4
<1> QED BY <1>1, <1>5, WalkedAll DEF DataOK

\* A flush that does not find f reloads it for nothing it runs.
LEMMA NotAffected ==
  ASSUME DataOK, NEW f \in Functions, ~Due(f), GraphOK(f), Changed \cap Closure(f) \subseteq batch, batch \cap graph[f] = {}
  PROVE  Clean(f)
<1> DEFINE R == Reached(tree, Entry[f], graph[f] \ Changed)
<1>1. f \in Graphs /\ graph[f] \in SUBSET Files
  BY DEF Graphs, DataOK
<1>2. R \subseteq graph[f] /\ R \subseteq Closure(f)
  BY <1>1, GraphReach, WalkedSome DEF DataOK
<1>3. graph[f] = R
  BY <1>2 DEF GraphOK
<1>4. graph[f] = Closure(f)
  BY <1>2, <1>3, GraphIsRight
<1> QED BY <1>4 DEF Clean

LEMMA AffectedOK ==
  ASSUME DataOK, DataOK', NEW f \in Functions, ClaimOK(f), RunOK(f), Affected
  PROVE  ClaimOK(f)' /\ RunOK(f)'
<1> DEFINE fs == computeAffected(batch)
           R(D) == Reached(tree, Entry[f], D)
<1>1. /\ phase = "affected" /\ fs \in SUBSET Functions /\ "hmr" \in Callers /\ Claim(fs, "hmr")
      /\ phase' = (IF fs = {} THEN "idle" ELSE "reload")
      /\ UNCHANGED <<sources, caches, pending, batch, runs, envs>>
  BY DEF Affected, computeAffected, Callers
<1>2. /\ job[f].by # "hmr" /\ again[f] # "hmr" /\ ~Due(f)
      /\ Changed = pending \cup batch /\ Changed' = pending /\ Relevant(f)' = pending
      /\ source' = source /\ graph' = graph /\ gen' = gen /\ loaded' = loaded /\ env' = env /\ envBusy' = envBusy
  BY <1>1 DEF ClaimOK, Due, Changed, Relevant, sources, caches, runs, envs
<1>3. f \in Graphs /\ graph[f] \in SUBSET Files /\ Entry[f] \in Files /\ tree \in Trees /\ job[f] \in JobType
      /\ \A x \in Files : tree[x] = importsOf(x)
  BY EntryIsFile, TreeTyped DEF Graphs, DataOK, tree
<1>4. /\ tree' = tree /\ \A x : Loads(x)' = Loads(x) /\ importsOf(x)' = importsOf(x)
      /\ Closure(f)' = Closure(f) /\ Own(f)' = Own(f) /\ Fine(f)' = Fine(f)
  BY <1>2, SameDisk
<1> HIDE DEF fs
<1>5. CASE f \in fs
  <2>1. CASE job[f].step = "idle"
    <3>1. job'[f] = Walking(f, "hmr") /\ again'[f] = None
      BY <1>1, <1>5, <2>1, ClaimFacts DEF ClaimOK, DataOK
    <3>2. job'[f].step = "walk" /\ job'[f].by = "hmr" /\ phase' = "reload"
      BY <1>1, <1>3, <1>5, <3>1, JobShapes
    <3>3. WalkOK(f)'
      BY <1>1, <3>1, Started DEF Callers
    <3> QED BY <3>1, <3>2, <3>3, NoneAssumption DEF ClaimOK, RunOK, GraphOK, Due, LoadOK, NewestOK, SecretOK, Callers
  <2>2. CASE job[f].step # "idle"
    <3>1. job'[f] = job[f] /\ again'[f] = "hmr" /\ phase' = "reload" /\ job[f].by # None
      BY <1>1, <1>5, <2>2, ClaimFacts DEF ClaimOK
    <3>2. WalkOK(f)'
      BY <3>1 DEF RunOK, WalkOK
    <3> QED BY <1>2, <3>1, <3>2, NoneAssumption DEF ClaimOK, RunOK, GraphOK, Due, LoadOK, NewestOK, SecretOK, Callers
  <2> QED BY <2>1, <2>2
<1>6. CASE f \notin fs
  <2>1. job'[f] = job[f] /\ again'[f] = again[f] /\ batch \cap graph[f] = {}
    BY <1>1, <1>6, ClaimFacts DEF fs, computeAffected
  <2>2. ClaimOK(f)'
    BY <1>2, <2>1 DEF ClaimOK
  <2>3. Clean(f)' => Clean(f)
    <3>1. Clean(f)' => Changed \cap Closure(f) \subseteq batch
      BY <1>2, <1>4 DEF Clean
    <3> QED BY <1>2, <2>1, <3>1, NotAffected DEF RunOK
  <2>4. R(graph[f] \ Changed) \subseteq graph[f] /\ graph[f] \ Changed' = graph[f] \ Changed
    BY <1>2, <2>1, GraphReach DEF RunOK
  <2>5. GraphOK(f)'
    <3>1. Due(f)' = Due(f)
      BY <2>1 DEF Due
    <3> QED BY <1>2, <1>4, <2>1, <2>4, <3>1 DEF RunOK, GraphOK
  <2>6. WalkOK(f)'
    <3> SUFFICES ASSUME job[f].step = "walk" PROVE WalkOK(f)'
      BY <2>1 DEF WalkOK
    <3> DEFINE W == Walked(f)
    <3>1. W \in SUBSET Files /\ Walked(f)' = W
      BY <1>3, <2>1 DEF Walked, JobType
    <3>2. /\ \A x \in W \ pending : importsOf(x) \subseteq job[f].seen
          /\ Changed \cap R(W \ Changed) = {} => job[f].seen = R(W \ Changed)
          /\ job[f].by = "env" /\ Changed \cap graph[f] = {} => job[f].seen \subseteq graph[f]
      BY <1>1, <1>2, <2>1 DEF RunOK, WalkOK, Relevant
    <3> HIDE DEF W, R
    <3>3. R(W \ pending) \subseteq R(graph[f] \ Changed)
      <4>1. /\ R(graph[f] \ Changed) \in SUBSET Files /\ Entry[f] \in R(graph[f] \ Changed)
            /\ \A x \in R(graph[f] \ Changed) \cap (graph[f] \ Changed) : tree[x] \subseteq R(graph[f] \ Changed)
        BY <1>3, ReachedFacts DEF R
      <4>2. \A x \in R(graph[f] \ Changed) \cap (W \ pending) : x \in graph[f] \ Changed
        BY <1>2, <2>1, <2>4
      <4>3. \A x \in R(graph[f] \ Changed) \cap (W \ pending) : tree[x] \subseteq R(graph[f] \ Changed)
        BY <4>1, <4>2
      <4>4. W \ pending \in SUBSET Files
        BY <3>1
      <4>5. \A S \in SUBSET Files : Entry[f] \in S /\ (\A x \in S \cap (W \ pending) : tree[x] \subseteq S) => R(W \ pending) \subseteq S
        BY <1>3, <4>4, ReachedFacts DEF R
      <4> QED BY <4>1, <4>3, <4>5
    <3>4. batch \cap R(W \ pending) = {}
      BY <2>1, <2>4, <3>3
    <3>5. R(W \ Changed) \subseteq R(W \ pending)
      <4>1. W \ Changed \in SUBSET (W \ pending) /\ W \ pending \in SUBSET Files
        BY <1>2, <3>1
      <4> QED BY <1>3, <4>1, ReachedGrows DEF R
    <3>6. R(W \ pending) \subseteq R(W \ Changed)
      <4>1. /\ R(W \ Changed) \in SUBSET Files /\ Entry[f] \in R(W \ Changed)
            /\ \A x \in R(W \ Changed) \cap (W \ Changed) : tree[x] \subseteq R(W \ Changed)
        BY <1>3, <3>1, ReachedFacts DEF R
      <4>2. \A x \in R(W \ Changed) \cap (W \ pending) : x \in W \ Changed
        BY <1>2, <3>4, <3>5
      <4>3. \A x \in R(W \ Changed) \cap (W \ pending) : tree[x] \subseteq R(W \ Changed)
        BY <4>1, <4>2
      <4>4. W \ pending \in SUBSET Files
        BY <3>1
      <4>5. \A S \in SUBSET Files : Entry[f] \in S /\ (\A x \in S \cap (W \ pending) : tree[x] \subseteq S) => R(W \ pending) \subseteq S
        BY <1>3, <4>4, ReachedFacts DEF R
      <4> QED BY <4>1, <4>3, <4>5
    <3>7. pending \cap R(W \ pending) = {} => job[f].seen = R(W \ pending)
      BY <1>2, <3>2, <3>4, <3>5, <3>6
    <3>8. pending \cap graph[f] = {} => Changed \cap graph[f] = {}
      BY <1>2, <2>1
    <3> QED BY <1>2, <1>4, <2>1, <3>1, <3>2, <3>7, <3>8 DEF RunOK, WalkOK, R
  <2>7. LoadOK(f)'
    <3>1. Evaluated(f)' = Evaluated(f)
      BY <2>1 DEF Evaluated, Files
    <3> QED BY <1>2, <1>4, <2>1, <2>3, <3>1 DEF RunOK, LoadOK, es
  <2>8. NewestOK(f)' /\ SecretOK(f)'
    BY <1>2, <1>4, <2>1, <2>3 DEF RunOK, NewestOK, Newest, SecretOK, es, Files
  <2> QED BY <2>2, <2>5, <2>6, <2>7, <2>8 DEF RunOK
<1> QED BY <1>5, <1>6

LEMMA FlushOK ==
  ASSUME DataOK, NEW f \in Functions, ClaimOK(f), RunOK(f), Flush
  PROVE  ClaimOK(f)' /\ RunOK(f)'
<1>1. /\ phase = "idle" /\ pending' = {} /\ batch' = pending /\ phase' \in {"shared", "affected"}
      /\ source' = source /\ graph' = graph /\ again' = again /\ gen' = gen /\ loaded' = loaded /\ env' = env /\ envBusy' = envBusy
  BY DEF Flush, sources, caches, runs, envs
<1>2. f \in Graphs /\ f # Shared /\ Shared \in Graphs /\ job[f] \in JobType
  BY ModuleGraphAssumption DEF Graphs, DataOK
<1>3. job'[f] = job[f]
  BY <1>2 DEF Flush, DataOK
<1>4. Changed = pending /\ Changed' = pending /\ Relevant(f) = pending
  BY <1>1 DEF Changed, Relevant
<1>5. ASSUME job[f].step = "walk", again[f] # "hmr" PROVE Walked(f) \cap Relevant(f) \subseteq Relevant(f)'
  <2>1. job[f].by = "env"
    BY <1>1, <1>2, <1>5 DEF ClaimOK, JobType, Callers
  <2>2. CASE pending \cap graph[f] = {}
    <3>1. job[f].seen \subseteq graph[f]
      BY <1>4, <1>5, <2>1, <2>2 DEF RunOK, WalkOK
    <3>2. Walked(f) \cap pending = {}
      BY <2>2, <3>1 DEF Walked
    <3> QED BY <1>4, <3>2
  <2>3. CASE pending \cap graph[f] # {}
    BY <1>1, <1>4, <2>3 DEF Relevant
  <2> QED BY <2>2, <2>3
<1>6. RunOK(f)'
  BY <1>1, <1>3, <1>4, <1>5, Unmoved
<1> QED BY <1>1, <1>3, <1>6 DEF ClaimOK

LEMMA EndsOK ==
  ASSUME DataOK, NEW f \in Functions, ClaimOK(f), RunOK(f), SharedReloaded \/ ReloadEnds \/ EnvReloadEnds
  PROVE  ClaimOK(f)' /\ RunOK(f)'
<1>1. /\ source' = source /\ graph' = graph /\ job' = job /\ again' = again /\ gen' = gen /\ loaded' = loaded /\ env' = env
      /\ pending' = pending /\ batch' = batch
  BY DEF SharedReloaded, ReloadEnds, EnvReloadEnds, sources, caches, runs, envs
<1>2. \/ phase = "shared" /\ phase' = "affected" /\ envBusy' = envBusy
      \/ phase = "reload" /\ phase' = "idle" /\ envBusy' = envBusy /\ Served("hmr")
      \/ phase' = phase /\ Served("env")
  BY DEF SharedReloaded, ReloadEnds, EnvReloadEnds, envs
<1>3. Changed' = Changed /\ Relevant(f)' = Relevant(f)
  BY <1>1, <1>2 DEF Changed, Relevant
<1>4. RunOK(f)'
  BY <1>1, <1>3, Unmoved
<1>5. ClaimOK(f)'
  BY <1>1, <1>2 DEF ClaimOK, Served
<1> QED BY <1>4, <1>5

LEMMA EnvFlushOK ==
  ASSUME DataOK, DataOK', NEW f \in Functions, ClaimOK(f), RunOK(f), EnvFlush
  PROVE  ClaimOK(f)' /\ RunOK(f)'
<1>1. /\ source' = source /\ graph' = graph /\ gen' = gen /\ loaded' = loaded
      /\ pending' = pending /\ batch' = batch /\ phase' = phase /\ ~envBusy
  BY DEF EnvFlush, sources, caches, runs
<1>2. CASE env' = env
  BY <1>1, <1>2, UnmovedPhase DEF EnvFlush
<1>3. CASE env' # env
  <2>1. envBusy' = TRUE /\ Claim(Functions, "env") /\ "env" \in Callers
    BY <1>3 DEF EnvFlush, Callers
  <2>2. job[f].by # "env" /\ again[f] # "env"
    BY <1>1 DEF ClaimOK
  <2>3. f \in Graphs /\ job[f] \in JobType /\ again[f] \in Callers \cup {None} /\ None \notin Callers
    BY NoneAssumption DEF Graphs, DataOK
  <2>4. Changed' = Changed /\ Relevant(f)' = Relevant(f)
    BY <1>1 DEF Changed, Relevant
  <2>5. CASE job[f].step = "idle"
    <3>1. job'[f] = Walking(f, "env") /\ again'[f] = None /\ again[f] = None /\ job[f].by = None
      BY <2>1, <2>5, ClaimFacts DEF ClaimOK
    <3>2. job'[f].step = "walk" /\ job'[f].by = "env" /\ ~Due(f) /\ ~Due(f)'
      BY <2>1, <2>3, <3>1, JobShapes DEF Due, Callers
    <3>3. Entry[f] \in graph[f]
      BY <3>2 DEF RunOK, GraphOK
    <3>4. WalkOK(f)'
      BY <1>1, <2>1, <3>1, <3>3, Started
    <3>5. /\ tree' = tree /\ \A x : Loads(x)' = Loads(x) /\ importsOf(x)' = importsOf(x)
          /\ Closure(f)' = Closure(f) /\ Own(f)' = Own(f) /\ Fine(f)' = Fine(f)
      BY <1>1, SameDisk
    <3>6. GraphOK(f)'
      BY <1>1, <2>4, <3>2, <3>5 DEF RunOK, GraphOK
    <3>7. NewestOK(f)'
      BY <1>1, <2>3, <2>4, <3>1, <3>2, <3>5 DEF RunOK, NewestOK, Newest, Clean, es, Files, Callers
    <3> QED BY <1>1, <2>1, <2>3, <3>1, <3>2, <3>4, <3>6, <3>7 DEF ClaimOK, RunOK, LoadOK, SecretOK, Callers
  <2>6. CASE job[f].step # "idle"
    <3>1. /\ job'[f] = job[f] /\ again'[f] = "env" /\ job[f].by # None
          /\ job[f].by = "hmr" /\ again[f] = None
      BY <2>1, <2>2, <2>3, <2>6, ClaimFacts DEF ClaimOK, JobType, Callers
    <3>2. RunOK(f)'
      BY <1>1, <2>3, <2>4, <3>1, Unmoved DEF Callers
    <3> QED BY <1>1, <2>1, <2>3, <3>1, <3>2 DEF ClaimOK, Callers
  <2> QED BY <2>5, <2>6
<1> QED BY <1>2, <1>3

LEMMA StillOK ==
  ASSUME DataOK, NEW f \in Functions, ClaimOK(f), RunOK(f), (\E i \in DOMAIN dotenv : SaveEnv(i)) \/ UNCHANGED vars
  PROVE  ClaimOK(f)' /\ RunOK(f)'
<1>1. /\ source' = source /\ graph' = graph /\ gen' = gen /\ loaded' = loaded /\ job' = job /\ again' = again
      /\ UNCHANGED <<env, envBusy, pending, phase, batch>>
  BY DEF SaveEnv, vars, sources, caches, runs, envs
<1> QED BY <1>1, UnmovedPhase

\* A step of another graph's reload.
LEMMA OthersOK ==
  ASSUME DataOK, CacheInv, SharedInv, NEW f \in Functions, ClaimOK(f), RunOK(f), NEW g \in Graphs, g # f, NEW x \in Files,
         \/ g \in Functions /\ (Stat(g, x) \/ Read(g, x) \/ Refreshed(g))
         \/ Load(g, x) \/ Bind(g, x) \/ ImportFails(g, x) \/ Imported(g)
  PROVE  ClaimOK(f)' /\ RunOK(f)'
<1>1. f \in Graphs /\ Shared \notin Functions /\ ParsedHonest /\ RewrittenHonest
  BY ModuleGraphAssumption DEF Graphs, CacheInv
<1>2. source' = source /\ UNCHANGED <<env, envBusy, pending, phase, batch>>
  BY DEF Stat, Read, Refreshed, Load, Bind, ImportFails, Imported, sources, envs
<1>3. job'[f] = job[f]
  BY <1>1, StatFacts, ReadFacts, LoadFacts, BindFacts, OverFacts DEF Refreshed, ImportFails, Imported, DataOK
<1>4. again'[f] = again[f]
  BY <1>1, OverFacts DEF Stat, Read, Refreshed, Load, Bind, ImportFails, Imported
<1>5. graph'[f] = graph[f] /\ loaded'[f] = loaded[f]
  BY <1>1 DEF Stat, Read, Refreshed, Replace, Load, Bind, ImportFails, Imported, runs, caches, DataOK
<1>6. gen' = gen \/ es \in Changed
  <2>1. CASE Imported(Shared) /\ g = Shared
    BY <2>1 DEF Imported, SharedInv, Changed
  <2>2. CASE Imported(g) /\ g # Shared
    BY <2>2 DEF Imported
  <2> QED BY <2>1, <2>2 DEF Stat, Read, Refreshed, Load, Bind, ImportFails, runs
<1> QED BY <1>2, <1>3, <1>4, <1>5, <1>6, UnmovedPhase

-----------------------------------------------------------------------------
(* The walk *)

\* Nothing that a graph or what runs is measured by.
Still == UNCHANGED <<source, gen, env, envBusy, pending, phase, batch>>

LEMMA StillFacts ==
  ASSUME Still, NEW f
  PROVE  /\ tree' = tree /\ Changed' = Changed /\ Clean(f)' = Clean(f) /\ Fine(f)' = Fine(f)
         /\ Closure(f)' = Closure(f) /\ Own(f)' = Own(f) /\ \A x : Loads(x)' = Loads(x) /\ importsOf(x)' = importsOf(x)
         /\ graph'[f] = graph[f] => Relevant(f)' = Relevant(f)
         /\ loaded'[f] = loaded[f] => Newest(f)' = Newest(f)
<1>1. /\ tree' = tree /\ Closure(f)' = Closure(f) /\ Own(f)' = Own(f) /\ Fine(f)' = Fine(f)
      /\ \A x : Loads(x)' = Loads(x) /\ importsOf(x)' = importsOf(x)
  BY SameDisk DEF Still
<1>2. Changed' = Changed
  BY DEF Still, Changed
<1>3. Clean(f)' = Clean(f)
  BY <1>1, <1>2 DEF Clean
<1>4. ASSUME loaded'[f] = loaded[f] PROVE Newest(f)' = Newest(f)
  BY <1>1, <1>4 DEF Still, Newest, Files, es
<1>5. ASSUME graph'[f] = graph[f] PROVE Relevant(f)' = Relevant(f)
  BY <1>5 DEF Still, Relevant
<1> QED BY <1>1, <1>2, <1>3, <1>4, <1>5

\* A walk that goes on leaves the rest as it was.
LEMMA WalkFrame ==
  ASSUME NEW f \in Functions, ClaimOK(f), RunOK(f), Still, again' = again, graph'[f] = graph[f], loaded'[f] = loaded[f],
         job[f].step = "walk", job'[f].step = "walk", job'[f].by = job[f].by, WalkOK(f)'
  PROVE  ClaimOK(f)' /\ RunOK(f)'
<1>1. ClaimOK(f)' /\ LoadOK(f)' /\ Due(f)' = Due(f)
  BY DEF ClaimOK, Still, LoadOK, Due
<1>2. /\ tree' = tree /\ Changed' = Changed /\ Clean(f)' = Clean(f) /\ Fine(f)' = Fine(f) /\ Newest(f)' = Newest(f)
      /\ \A x : importsOf(x)' = importsOf(x)
  BY StillFacts
<1>3. GraphOK(f)'
  BY <1>1, <1>2 DEF RunOK, GraphOK
<1>4. NewestOK(f)' /\ SecretOK(f)'
  BY <1>2 DEF RunOK, NewestOK, SecretOK, Still
<1> QED BY <1>1, <1>3, <1>4 DEF RunOK

LEMMA LearnOK ==
  ASSUME DataOK, NEW f \in Functions, ClaimOK(f), RunOK(f), NEW x \in Files, Still, again' = again, graph' = graph, loaded' = loaded,
         job[f].step = "walk", job' = Learn(f, x, importsOf(x)), x \in job[f].todo \/ \E r \in job[f].reading : r[1] = x
  PROVE  ClaimOK(f)' /\ RunOK(f)'
<1> DEFINE new == importsOf(x)
           R(D) == Reached(tree, Entry[f], D)
<1>1. f \in Graphs /\ Entry[f] \in Files /\ tree \in Trees /\ tree[x] = new /\ new \in SUBSET Files /\ job[f] \in JobType
  BY EntryIsFile, TreeTyped, ImportsTyped DEF Graphs, DataOK, tree
<1>2. /\ job'[f].step = "walk" /\ job'[f].by = job[f].by
      /\ job'[f].todo = (job[f].todo \ {x}) \cup (new \ job[f].seen) /\ job'[f].seen = job[f].seen \cup new
      /\ job'[f].reading = {r \in job[f].reading : r[1] # x}
  BY <1>1, LearnFacts
<1>3. /\ tree' = tree /\ Changed' = Changed /\ Relevant(f)' = Relevant(f) /\ \A y : importsOf(y)' = importsOf(y)
  BY StillFacts
<1>4. Entry[f] \in job[f].seen /\ job[f].todo \cup {r[1] : r \in job[f].reading} \subseteq job[f].seen
  BY DEF RunOK, WalkOK
<1>5. x \in job[f].seen
  BY <1>4
<1> HIDE DEF new
<1>6. {r[1] : r \in job'[f].reading} = {r[1] : r \in job[f].reading} \ {x}
  BY <1>2
<1>7. Walked(f)' = Walked(f) \cup {x}
  BY <1>2, <1>5, <1>6 DEF Walked
<1>8. Entry[f] \in job'[f].seen /\ job'[f].todo \cup {r[1] : r \in job'[f].reading} \subseteq job'[f].seen
  BY <1>2, <1>4, <1>6
<1>9. ASSUME again[f] # "hmr"
      PROVE  /\ \A y \in Walked(f)' \ Relevant(f) : importsOf(y) \subseteq job'[f].seen
             /\ Changed \cap R(Walked(f)' \ Changed) = {} => job'[f].seen = R(Walked(f)' \ Changed)
             /\ job[f].by = "env" /\ Changed \cap graph[f] = {} => job'[f].seen \subseteq graph[f]
  <2>1. /\ \A y \in Walked(f) \ Relevant(f) : importsOf(y) \subseteq job[f].seen
        /\ Changed \cap R(Walked(f) \ Changed) = {} => job[f].seen = R(Walked(f) \ Changed)
        /\ job[f].by = "env" /\ Changed \cap graph[f] = {} => job[f].seen \subseteq graph[f]
    BY <1>9 DEF RunOK, WalkOK
  <2>2. \A y \in Walked(f)' \ Relevant(f) : importsOf(y) \subseteq job'[f].seen
    BY <1>2, <1>7, <2>1 DEF new
  <2>3. ASSUME Changed \cap R(Walked(f)' \ Changed) = {} PROVE job'[f].seen = R(Walked(f)' \ Changed)
    <3>1. Walked(f) \subseteq job[f].seen /\ job[f].seen \in SUBSET Files
      BY <1>1 DEF Walked, JobType
    <3> DEFINE D == Walked(f) \ Changed
               E == Walked(f)' \ Changed
    <3>2. D \in SUBSET Files /\ E \in SUBSET Files /\ D \in SUBSET E
      BY <1>7, <3>1
    <3>3. R(D) \subseteq R(E)
      BY <1>1, <3>2, ReachedGrows
    <3>4. job[f].seen = R(D)
      BY <2>1, <2>3, <3>3
    <3>5. x \notin Changed
      BY <1>5, <2>3, <3>3, <3>4
    <3>6. E = D \cup {x} /\ x \in R(D) /\ D \subseteq R(D)
      BY <1>5, <1>7, <3>1, <3>4, <3>5
    <3> HIDE DEF D, E
    <3>7. R(E) = R(D) \cup tree[x]
      BY <1>1, <3>2, <3>6, ReachedNext
    <3>8. job'[f].seen = R(E)
      BY <1>1, <1>2, <3>4, <3>7
    <3> QED BY <3>8 DEF E
  <2>4. ASSUME job[f].by = "env", Changed \cap graph[f] = {} PROVE job'[f].seen \subseteq graph[f]
    <3>1. ~Due(f)
      BY <1>9, <2>4 DEF Due
    <3>2. new \subseteq graph[f]
      BY <1>5, <2>1, <2>4, <3>1 DEF RunOK, GraphOK, new
    <3> QED BY <1>2, <2>1, <2>4, <3>2
  <2> QED BY <2>2, <2>3, <2>4
<1>10. WalkOK(f)'
  BY <1>2, <1>3, <1>8, <1>9 DEF WalkOK
<1> QED BY <1>2, <1>10, WalkFrame

LEMMA WalkStepOK ==
  ASSUME DataOK, CacheInv, NEW f \in Functions, ClaimOK(f), RunOK(f), NEW x \in Files, Stat(f, x) \/ Read(f, x)
  PROVE  ClaimOK(f)' /\ RunOK(f)'
<1>1. Still /\ again' = again /\ graph' = graph /\ loaded' = loaded /\ ParsedHonest
  BY DEF Stat, Read, Still, CacheInv, sources, runs, envs
<1>2. f \in Graphs /\ job[f] \in JobType
  BY DEF Graphs, DataOK
<1>3. CASE Read(f, x)
  <2>1. job' = Learn(f, x, importsOf(x)) /\ \E r \in job[f].reading : r[1] = x
    BY <1>3 DEF Read
  <2>2. job[f].step = "walk"
    BY <2>1 DEF ClaimOK
  <2> QED BY <1>1, <2>1, <2>2, LearnOK
<1>4. CASE Stat(f, x)
  <2>1. job[f].step = "walk" /\ x \in job[f].todo
    BY <1>4 DEF Stat
  <2>2. CASE job' = Learn(f, x, importsOf(x))
    BY <1>1, <2>1, <2>2, LearnOK
  <2>3. CASE job' # Learn(f, x, importsOf(x))
    <3>1. /\ job'[f].step = "walk" /\ job'[f].by = job[f].by /\ job'[f].todo = job[f].todo \ {x} /\ job'[f].seen = job[f].seen
          /\ job'[f].reading = job[f].reading \cup {<<x, source[x].rev>>}
      BY <1>1, <1>4, <2>3, StatFacts
    <3>2. {r[1] : r \in job'[f].reading} = {r[1] : r \in job[f].reading} \cup {x}
      <4>1. <<x, source[x].rev>>[1] = x
        OBVIOUS
      <4> DEFINE v == <<x, source[x].rev>>
      <4> HIDE DEF v
      <4>2. job'[f].reading = job[f].reading \cup {v} /\ v[1] = x
        BY <3>1, <4>1 DEF v
      <4> QED BY <4>2
    <3>3. Walked(f)' = Walked(f) /\ job'[f].todo \cup {r[1] : r \in job'[f].reading} = job[f].todo \cup {r[1] : r \in job[f].reading}
      BY <2>1, <3>1, <3>2 DEF Walked
    <3>4. /\ tree' = tree /\ Changed' = Changed /\ Relevant(f)' = Relevant(f) /\ \A y : importsOf(y)' = importsOf(y)
      BY <1>1, StillFacts
    <3>5. WalkOK(f)'
      BY <1>1, <2>1, <3>1, <3>3, <3>4 DEF RunOK, WalkOK
    <3> QED BY <1>1, <2>1, <3>1, <3>5, WalkFrame
  <2> QED BY <2>2, <2>3
<1> QED BY <1>3, <1>4

-----------------------------------------------------------------------------
(* The load *)

LEMMA RefreshedOK ==
  ASSUME DataOK, NEW f \in Functions, ClaimOK(f), RunOK(f), Refreshed(f)
  PROVE  ClaimOK(f)' /\ RunOK(f)'
<1>1. /\ Still /\ again' = again /\ loaded' = loaded /\ job[f].step = "walk" /\ job[f].todo = {} /\ job[f].reading = {}
      /\ job' = [job EXCEPT ![f] = Loading(f)] /\ graph' = [graph EXCEPT ![f] = job[f].seen]
  BY DEF Refreshed, Replace, Still, sources, runs, envs
<1>2. f \in Graphs /\ Entry[f] \in Files /\ job[f] \in JobType /\ tree \in Trees
  BY EntryIsFile, TreeTyped DEF Graphs, DataOK
<1>3. /\ job'[f].step = "load" /\ job'[f].by = job[f].by /\ job'[f].todo = {Entry[f]} /\ job'[f].reading = {}
      /\ \A x \in Files : job'[f].got[x] = 0
  BY <1>1, <1>2, JobShapes DEF DataOK
<1>4. graph'[f] = job[f].seen
  BY <1>1, <1>2 DEF DataOK
<1>5. /\ tree' = tree /\ Changed' = Changed /\ Clean(f)' = Clean(f) /\ Fine(f)' = Fine(f) /\ Newest(f)' = Newest(f)
      /\ \A x : importsOf(x)' = importsOf(x)
  BY <1>1, StillFacts
<1>6. Walked(f) = job[f].seen
  BY <1>1 DEF Walked
<1>7. ClaimOK(f)'
  BY <1>1, <1>3 DEF ClaimOK, Still
<1>8. ASSUME again[f] # "hmr"
      PROVE  /\ Entry[f] \in job[f].seen /\ \A x \in job[f].seen \ Changed : importsOf(x) \subseteq job[f].seen
             /\ LET reached == Reached(tree, Entry[f], job[f].seen \ Changed) IN Changed \cap reached = {} => job[f].seen = reached
  <2>1. Relevant(f) \subseteq Changed
    BY DEF Relevant, Changed
  <2> QED BY <1>1, <1>6, <1>8, <2>1 DEF RunOK, WalkOK
<1>9. GraphOK(f)'
  BY <1>1, <1>4, <1>5, <1>8 DEF GraphOK, Due
<1>10. LoadOK(f)'
  <2>1. Evaluated(f)' = {}
    BY <1>3 DEF Evaluated, Files
  <2>2. Reached(tree', Entry[f], Evaluated(f)') = {Entry[f]}
    BY <1>2, <1>5, <2>1, ReachedNothing
  <2> QED BY <1>3, <2>1, <2>2 DEF LoadOK
<1>11. WalkOK(f)' /\ NewestOK(f)' /\ SecretOK(f)'
  BY <1>1, <1>3, <1>5 DEF RunOK, WalkOK, NewestOK, SecretOK, Still
<1> QED BY <1>7, <1>9, <1>10, <1>11 DEF RunOK

\* A load that goes on leaves the rest as it was.
LEMMA LoadFrame ==
  ASSUME NEW f \in Functions, ClaimOK(f), RunOK(f), Still, again' = again, graph'[f] = graph[f], loaded'[f] = loaded[f],
         job[f].step = "load", job'[f].step = "load", job'[f].by = job[f].by, job'[f].reading = job[f].reading, LoadOK(f)'
  PROVE  ClaimOK(f)' /\ RunOK(f)'
<1>1. ClaimOK(f)' /\ WalkOK(f)' /\ Due(f)' = Due(f)
  BY DEF ClaimOK, Still, WalkOK, Due
<1>2. /\ tree' = tree /\ Changed' = Changed /\ Clean(f)' = Clean(f) /\ Fine(f)' = Fine(f) /\ Newest(f)' = Newest(f)
      /\ \A x : importsOf(x)' = importsOf(x)
  BY StillFacts
<1>3. GraphOK(f)'
  BY <1>1, <1>2 DEF RunOK, GraphOK
<1>4. NewestOK(f)' /\ SecretOK(f)'
  BY <1>2 DEF RunOK, NewestOK, SecretOK, Still
<1> QED BY <1>1, <1>3, <1>4 DEF RunOK

LEMMA LoadStepOK ==
  ASSUME DataOK, CacheInv, NEW f \in Functions, ClaimOK(f), RunOK(f), NEW x \in Files, Load(f, x)
  PROVE  ClaimOK(f)' /\ RunOK(f)'
<1>1. /\ Still /\ again' = again /\ graph' = graph /\ loaded' = loaded /\ RewrittenHonest
      /\ job[f].step = "load" /\ x \in job[f].todo /\ Loads(x)
  BY DEF Load, Still, CacheInv, sources, runs, envs
<1>2. /\ f \in Graphs /\ Entry[f] \in Files /\ job[f] \in JobType /\ tree \in Trees /\ tree[x] = importsOf(x)
      /\ f # Shared /\ x # es
  BY EntryIsFile, TreeTyped, ModuleGraphAssumption DEF Graphs, DataOK, tree, Load, Stubbed, es
<1>3. /\ job'[f].step = "load" /\ job'[f].by = job[f].by /\ job'[f].gen = job[f].gen /\ job'[f].reading = job[f].reading
      /\ job'[f].got[x] = source[x].rev /\ \A y \in Files : y # x => job'[f].got[y] = job[f].got[y]
      /\ job'[f].todo = {y \in job[f].todo \cup importsOf(x) : job'[f].got[y] = 0}
  BY <1>1, <1>2, LoadFacts
<1>4. source[x].rev # 0
  BY <1>1 DEF DataOK, Loads
<1>5. Evaluated(f)' = Evaluated(f) \cup {x} /\ Evaluated(f) \in SUBSET Files
  BY <1>3, <1>4 DEF Evaluated, Files
<1>6. /\ tree' = tree /\ Clean(f)' = Clean(f) /\ gen' = gen /\ source' = source /\ \A y : Loads(y)' = Loads(y)
  BY <1>1, StillFacts DEF Still
<1>7. CASE again[f] # "hmr" /\ Clean(f)
  <2> DEFINE R(D) == Reached(tree, Entry[f], D)
             E == Evaluated(f) \cup {x}
  <2>1. /\ Evaluated(f) \cup job[f].todo \subseteq R(Evaluated(f)) /\ es \notin Evaluated(f)
        /\ R(Evaluated(f)) \subseteq Evaluated(f) \cup job[f].todo \cup {es}
        /\ \A y \in Evaluated(f) : Loads(y) /\ job[f].got[y] = source[y].rev
        /\ es \in R(Evaluated(f)) \ job[f].todo => job[f].gen = gen
    BY <1>1, <1>7 DEF RunOK, LoadOK
  <2>2. x \in R(Evaluated(f)) /\ Evaluated(f) \subseteq R(Evaluated(f)) /\ E = Evaluated(f) \cup {x}
    BY <1>1, <2>1
  <2> HIDE DEF E
  <2>3. R(E) = R(Evaluated(f)) \cup importsOf(x)
    BY <1>2, <1>5, <2>2, ReachedNext
  <2>4. E = Evaluated(f)' /\ R(E) \subseteq Files
    BY <1>2, <1>5, <2>2, ReachedFacts
  <2> HIDE DEF R
  <2>5. \A y \in Files : y \in E <=> job'[f].got[y] # 0
    BY <2>4 DEF Evaluated, Files
  <2>6. E \cup job'[f].todo \subseteq R(E) /\ es \notin E
    BY <1>2, <1>3, <2>1, <2>2, <2>3
  <2>7. R(E) \subseteq E \cup job'[f].todo \cup {es}
    BY <1>3, <2>1, <2>2, <2>3, <2>4, <2>5
  <2>8. \A y \in E : Loads(y) /\ job'[f].got[y] = source[y].rev
    BY <1>1, <1>3, <1>5, <2>1, <2>2
  <2>9. es \in R(E) \ job'[f].todo => job'[f].gen = gen
    BY <1>3, <2>1, <2>3, <2>4, <2>5, <2>6
  <2>10. LoadOK(f)'
    BY <1>6, <2>4, <2>6, <2>7, <2>8, <2>9 DEF LoadOK, R, es
  <2> QED BY <1>1, <1>3, <2>10, LoadFrame
<1>8. CASE ~(again[f] # "hmr" /\ Clean(f))
  <2>1. LoadOK(f)'
    BY <1>1, <1>6, <1>8 DEF LoadOK
  <2> QED BY <1>1, <1>3, <2>1, LoadFrame
<1> QED BY <1>7, <1>8

LEMMA BindOK ==
  ASSUME DataOK, NEW f \in Functions, ClaimOK(f), RunOK(f), NEW x \in Files, Bind(f, x)
  PROVE  ClaimOK(f)' /\ RunOK(f)'
<1>1. /\ Still /\ again' = again /\ graph' = graph /\ loaded' = loaded /\ job[f].step = "load" /\ x = es
  BY DEF Bind, Stubbed, Still, sources, caches, runs, envs, es
<1>2. /\ job'[f].step = "load" /\ job'[f].by = job[f].by /\ job'[f].got = job[f].got /\ job'[f].reading = job[f].reading
      /\ job'[f].gen = gen /\ job'[f].todo = job[f].todo \ {x}
  BY BindFacts DEF Graphs
<1>3. Evaluated(f)' = Evaluated(f)
  BY <1>2 DEF Evaluated, Files
<1>4. /\ tree' = tree /\ Clean(f)' = Clean(f) /\ gen' = gen /\ source' = source /\ \A y : Loads(y)' = Loads(y)
  BY <1>1, StillFacts DEF Still
<1>5. LoadOK(f)'
  BY <1>1, <1>2, <1>3, <1>4 DEF RunOK, LoadOK, es
<1> QED BY <1>1, <1>2, <1>5, LoadFrame

\* The end of a load: what runs from now on is the newest, or a file of f is broken.
LEMMA OverOK ==
  ASSUME DataOK, DataOK', NEW f \in Functions, ClaimOK(f), RunOK(f), Still, graph' = graph, job[f].step = "load", Over(f),
         Clean(f) /\ Fine(f) /\ again[f] # "hmr" => Newest(f)' /\ loaded'[f].env = env
  PROVE  ClaimOK(f)' /\ RunOK(f)'
<1>1. f \in Graphs /\ again[f] \in Callers \cup {None} /\ None \notin Callers
  BY NoneAssumption DEF Graphs, DataOK
<1>2. again'[f] = None /\ job'[f] = IF again[f] = None THEN Idle ELSE Walking(f, again[f])
  BY <1>1, OverFacts
<1>3. /\ tree' = tree /\ Changed' = Changed /\ Clean(f)' = Clean(f) /\ Fine(f)' = Fine(f)
      /\ \A x : importsOf(x)' = importsOf(x)
  BY StillFacts
<1>4. again[f] # "hmr" => ~Due(f)
  BY DEF Due
<1>5. CASE again[f] = None
  <2>1. job'[f].step = "idle" /\ job'[f].by = None /\ job'[f].reading = {}
    BY <1>1, <1>2, <1>5, JobShapes
  <2>2. GraphOK(f)'
    BY <1>1, <1>3, <1>4, <1>5 DEF RunOK, GraphOK, Callers
  <2>3. NewestOK(f)' /\ SecretOK(f)'
    BY <1>1, <1>3, <1>5 DEF NewestOK, SecretOK, Still, Callers
  <2> QED BY <1>1, <1>2, <2>1, <2>2, <2>3 DEF ClaimOK, RunOK, WalkOK, LoadOK, Callers
<1>6. CASE again[f] # None
  <2>1. job'[f] = Walking(f, again[f]) /\ job'[f].step = "walk" /\ job'[f].by = again[f]
    BY <1>1, <1>2, <1>6, JobShapes
  <2>2. again[f] = "env" => GraphOK(f) /\ Entry[f] \in graph[f]
    BY <1>4 DEF RunOK, GraphOK
  <2>3. WalkOK(f)'
    BY <1>1, <1>6, <2>1, <2>2, Started
  <2>4. GraphOK(f)'
    <3>1. CASE again[f] = "hmr"
      BY <2>1, <3>1 DEF GraphOK, Due
    <3>2. CASE again[f] = "env"
      BY <1>3, <1>4, <2>2, <3>2 DEF GraphOK
    <3> QED BY <1>1, <1>6, <3>1, <3>2 DEF Callers
  <2>5. NewestOK(f)' /\ SecretOK(f)' /\ LoadOK(f)'
    BY <1>1, <1>3, <1>6, <2>1 DEF NewestOK, SecretOK, LoadOK
  <2>6. ClaimOK(f)'
    BY <1>1, <1>2, <1>6, <2>1 DEF ClaimOK, Still, Callers
  <2> QED BY <2>3, <2>4, <2>5, <2>6 DEF RunOK
<1> QED BY <1>5, <1>6

LEMMA ImportFailsOK ==
  ASSUME DataOK, DataOK', NEW f \in Functions, ClaimOK(f), RunOK(f), NEW x \in Files, ImportFails(f, x)
  PROVE  ClaimOK(f)' /\ RunOK(f)'
<1>1. /\ Still /\ graph' = graph /\ job[f].step = "load" /\ Over(f)
      /\ x \in job[f].todo /\ ~Loads(x)
  BY DEF ImportFails, Still, sources, caches, envs
<1>2. ASSUME Clean(f), again[f] # "hmr" PROVE ~Fine(f)
  <2>1. x \in Reached(tree, Entry[f], Evaluated(f))
    BY <1>1, <1>2 DEF RunOK, LoadOK
  <2>2. x \in Closure(f)
    BY <2>1, WalkedSome DEF Graphs, Evaluated, DataOK
  <2> QED BY <1>1, <2>2 DEF Fine
<1> QED BY <1>1, <1>2, OverOK

LEMMA ImportedOK ==
  ASSUME DataOK, DataOK', NEW f \in Functions, ClaimOK(f), RunOK(f), Imported(f)
  PROVE  ClaimOK(f)' /\ RunOK(f)'
<1>1. /\ Still /\ graph' = graph /\ job[f].step = "load" /\ job[f].todo = {} /\ Over(f)
      /\ loaded' = [loaded EXCEPT ![f] = [revs |-> job[f].got, gen |-> job[f].gen, env |-> env]]
  BY ModuleGraphAssumption DEF Imported, Still, sources, caches, envs
<1>2. /\ f \in Graphs /\ Entry[f] \in Files /\ job[f].got \in [Files -> Nat] /\ tree \in Trees /\ Evaluated(f) \in SUBSET Files
  BY EntryIsFile, TreeTyped DEF Graphs, DataOK, JobType, Evaluated
<1>3. loaded'[f].revs = job[f].got /\ loaded'[f].gen = job[f].gen /\ loaded'[f].env = env
  BY <1>1, <1>2 DEF DataOK
<1>4. ASSUME Clean(f), again[f] # "hmr" PROVE Newest(f)'
  <2> DEFINE R == Reached(tree, Entry[f], Evaluated(f))
  <2>1. /\ Evaluated(f) \subseteq R /\ es \notin Evaluated(f) /\ R \subseteq Evaluated(f) \cup {es}
        /\ \A x \in Evaluated(f) : job[f].got[x] = source[x].rev
        /\ es \in R => job[f].gen = gen
    BY <1>1, <1>4 DEF RunOK, LoadOK
  <2>2. Own(f) = Evaluated(f) /\ (es \in Closure(f) => es \in R)
    BY <1>2, <2>1, ReachedOwn DEF Own, Closure, es
  <2>3. \A x \in Files : job[f].got[x] = IF x \in Own(f) THEN source[x].rev ELSE 0
    BY <2>1, <2>2 DEF Evaluated
  <2>4. job[f].got = [x \in Files |-> IF x \in Own(f) THEN source[x].rev ELSE 0]
    BY <1>2, <2>3
  <2>5. Own(f)' = Own(f) /\ Closure(f)' = Closure(f) /\ source' = source /\ gen' = gen
    BY <1>1, StillFacts DEF Still
  <2> QED BY <1>3, <2>1, <2>2, <2>4, <2>5 DEF Newest, Files, es
<1> QED BY <1>1, <1>3, <1>4, OverOK

\* A step of its own reload.
LEMMA OwnOK ==
  ASSUME DataOK, DataOK', CacheInv, NEW f \in Functions, ClaimOK(f), RunOK(f), NEW x \in Files,
         \/ Stat(f, x) \/ Read(f, x) \/ Refreshed(f)
         \/ Load(f, x) \/ Bind(f, x) \/ ImportFails(f, x) \/ Imported(f)
  PROVE  ClaimOK(f)' /\ RunOK(f)'
  BY WalkStepOK, RefreshedOK, LoadStepOK, BindOK, ImportFailsOK, ImportedOK

-----------------------------------------------------------------------------
(* All of it *)

LEMMA ReachedAgain ==
  ASSUME NEW T \in Trees, NEW from \in Files, NEW R, R = Reached(T, from, Files)
  PROVE  Reached(T, from, R) = R
<1> DEFINE Q == Reached(T, from, R)
<1>1. R \in SUBSET Files /\ Files \in SUBSET Files
  BY ReachedFacts
<1>2. Q \in SUBSET Files /\ Q \subseteq R
  BY <1>1, ReachedFacts, ReachedGrows
<1>3. from \in Q /\ \A x \in Q \cap R : T[x] \subseteq Q
  BY <1>1, ReachedFacts
<1> HIDE DEF Q
<1>4. \A x \in Q \cap Files : T[x] \subseteq Q
  BY <1>2, <1>3
<1>5. R \subseteq Q
  BY <1>1, <1>2, <1>3, <1>4, ReachedFacts
<1> QED BY <1>2, <1>5 DEF Q

LEMMA InitFunctions == Init => FunctionsOK
<1> SUFFICES ASSUME Init, NEW f \in Functions PROVE ClaimOK(f) /\ RunOK(f)
  BY DEF FunctionsOK
<1>1. /\ DataOK /\ f \in Graphs /\ f # Shared /\ Entry[f] \in Files /\ tree \in Trees /\ \A x \in Files : tree[x] = importsOf(x)
  BY InitData, EntryIsFile, TreeTyped, ModuleGraphAssumption DEF Graphs, DataOK, tree
<1>2. job[f] = Idle /\ again[f] = None /\ Changed = {} /\ graph[f] = Closure(f) /\ gen = 1
  BY <1>1 DEF Init, Changed
<1>3. job[f].step = "idle" /\ job[f].by = None /\ job[f].reading = {}
  BY <1>1, <1>2, JobShapes
<1>4. ClaimOK(f) /\ WalkOK(f) /\ LoadOK(f)
  BY <1>2, <1>3, NoneAssumption DEF ClaimOK, WalkOK, LoadOK, Callers
<1>5. GraphOK(f)
  <2>1. Entry[f] \in Closure(f) /\ \A x \in Closure(f) : importsOf(x) \subseteq Closure(f)
    BY <1>1, ClosureFacts DEF DataOK
  <2>2. Reached(tree, Entry[f], Closure(f)) = Closure(f)
    BY <1>1, ReachedAgain DEF Closure
  <2>3. graph[f] \ Changed = Closure(f)
    BY <1>2
  <2> QED BY <1>2, <2>1, <2>2, <2>3 DEF GraphOK
<1>6. loaded[f] = [revs |-> [x \in Files |-> IF x \in Own(f) THEN 1 ELSE 0], gen |-> IF es \in Closure(f) THEN 1 ELSE 0, env |-> env]
  BY <1>1 DEF Init, es
<1>7. NewestOK(f)
  <2> SUFFICES ASSUME Fine(f) PROVE Newest(f)
    BY DEF NewestOK
  <2>1. Own(f) \subseteq Closure(f)
    BY <1>1, WalkedSome DEF Own, DataOK
  <2>2. \A x \in Own(f) : x \in Files => source[x].rev = 1
    BY <2>1 DEF Init, Fine, Loads
  <2>3. [x \in Files |-> IF x \in Own(f) THEN source[x].rev ELSE 0] = [x \in Files |-> IF x \in Own(f) THEN 1 ELSE 0]
    BY <2>2
  <2> QED BY <1>2, <1>6, <2>3 DEF Newest
<1>8. SecretOK(f)
  BY <1>6 DEF SecretOK
<1> QED BY <1>4, <1>5, <1>7, <1>8 DEF RunOK

LEMMA FilesExist == (\E x \in Files : TRUE) /\ \A g \in Graphs : g \in Functions \/ g = Shared
  BY ModuleGraphAssumption, EntryIsFile DEF Graphs

LEMMA NextData == DataOK /\ CacheInv /\ [Next]_vars => DataOK'
<1> SUFFICES ASSUME DataOK, CacheInv, [Next]_vars PROVE DataOK'
  OBVIOUS
<1>1. CASE UNCHANGED vars
  BY <1>1 DEF vars, sources, caches, runs, envs, DataOK, SourceOK, EnvTypeOK
<1>2. CASE Next
  <2>1. \A f \in Functions : f \in Graphs
    BY DEF Graphs
  <2>2. PICK x \in Files : TRUE
    BY FilesExist
  <2> QED BY <1>2, <2>1, <2>2, EditData, SaveEnvData, FlushData, EnvData, JobData DEF Next
<1> QED BY <1>1, <1>2

LEMMA NextFunctions == DataOK /\ CacheInv /\ SharedInv /\ FunctionsOK /\ [Next]_vars => FunctionsOK'
<1> SUFFICES ASSUME DataOK, CacheInv, SharedInv, FunctionsOK, [Next]_vars, NEW f \in Functions
             PROVE  ClaimOK(f)' /\ RunOK(f)'
  BY DEF FunctionsOK
<1>1. DataOK' /\ ClaimOK(f) /\ RunOK(f) /\ f \in Graphs
  BY NextData DEF FunctionsOK, Graphs
<1>2. ASSUME NEW x \in Files, Save(x) \/ Delete(x) PROVE ClaimOK(f)' /\ RunOK(f)'
  <2>1. ClaimOK(f)'
    BY <1>1, <1>2, EditData DEF ClaimOK, envs
  <2> QED BY <1>1, <1>2, <2>1, EditRun
<1>3. CASE Flush
  BY <1>1, <1>3, FlushOK
<1>4. CASE SharedReloaded \/ ReloadEnds \/ EnvReloadEnds
  BY <1>1, <1>4, EndsOK
<1>5. CASE Affected
  BY <1>1, <1>5, AffectedOK
<1>6. CASE EnvFlush
  BY <1>1, <1>6, EnvFlushOK
<1>7. CASE (\E i \in DOMAIN dotenv : SaveEnv(i)) \/ UNCHANGED vars
  BY <1>1, <1>7, StillOK
<1>8. ASSUME NEW g \in Graphs, NEW x \in Files,
             \/ g \in Functions /\ (Stat(g, x) \/ Read(g, x) \/ Refreshed(g))
             \/ Load(g, x) \/ Bind(g, x) \/ ImportFails(g, x) \/ Imported(g)
      PROVE  ClaimOK(f)' /\ RunOK(f)'
  <2>1. CASE g = f
    BY <1>1, <1>8, <2>1, OwnOK
  <2>2. CASE g # f
    BY <1>1, <1>8, <2>2, OthersOK
  <2> QED BY <2>1, <2>2
<1>9. PICK x \in Files : TRUE
  BY FilesExist
<1>10. \A g \in Functions : g \in Graphs
  BY DEF Graphs
<1> QED BY <1>2, <1>3, <1>4, <1>5, <1>6, <1>7, <1>8, <1>9, <1>10 DEF Next

\* The types follow from the rest.
LEMMA Typed == DataOK /\ FunctionsOK /\ SharedInv => TypeOK
<1> SUFFICES ASSUME DataOK, FunctionsOK, SharedInv PROVE TypeOK
  OBVIOUS
<1>1. gen \in 1..(MaxEdits + 1)
  <2>1. gen \in Nat /\ gen # 0 /\ edits \in Nat /\ MaxEdits \in Nat /\ edits <= MaxEdits
    BY ModuleGraphAssumption DEF DataOK
  <2> DEFINE a == IF es \in pending THEN 1 ELSE 0
             b == IF job[Shared].step = "load" THEN 1 ELSE 0
  <2>2. gen + a + b <= edits + 1 /\ a \in Nat /\ b \in Nat
    BY DEF SharedInv
  <2> HIDE DEF a, b
  <2> QED BY <2>1, <2>2
<1>2. \A f \in Functions : (job[f].by = "hmr" => phase = "reload") /\ (job[f].by = "env" => envBusy)
  BY DEF FunctionsOK, ClaimOK
<1>3. job[Shared].step # "idle" => phase = "shared"
  BY DEF SharedInv
<1> QED BY <1>1, <1>2, <1>3 DEF TypeOK, DataOK, SourceOK, EnvTypeOK

LEMMA Initially == Init => IInv
<1> SUFFICES ASSUME Init PROVE IInv
  OBVIOUS
<1>1. DataOK /\ FunctionsOK /\ CacheInv /\ SharedInv /\ EnvInv
  BY InitData, InitFunctions, InitCache, InitShared, InitEnv
<1> QED BY <1>1, Typed DEF IInv

LEMMA NextIInv == IInv /\ [Next]_vars => IInv'
<1> SUFFICES ASSUME IInv, [Next]_vars PROVE IInv'
  OBVIOUS
<1>1. DataOK /\ FunctionsOK /\ CacheInv /\ SharedInv /\ EnvInv
  BY TypeSplits DEF IInv
<1>2. DataOK' /\ FunctionsOK' /\ CacheInv' /\ SharedInv' /\ EnvInv'
  BY <1>1, NextData, NextFunctions, NextCache, NextShared, NextEnv
<1>3. (DataOK /\ FunctionsOK /\ SharedInv => TypeOK)'
  BY Typed, PTL
<1> QED BY <1>2, <1>3 DEF IInv

\* The types, the claims on functions, the walks and loads under way and what the caches, the
\* graphs and the shared module are worth hold together in every reachable state.
THEOREM Inductive == Spec => []IInv
  BY Initially, NextIInv, PTL DEF Spec

\* Nothing is on its way once the reloader is idle.
LEMMA AtRest ==
  ASSUME IInv, Quiet, NEW f \in Functions
  PROVE  DataOK /\ Changed = {} /\ Clean(f) /\ job[f].by # "hmr" /\ again[f] # "hmr" /\ ~Due(f) /\ RunOK(f)
  BY TypeSplits DEF IInv, Quiet, FunctionsOK, ClaimOK, Changed, Clean, Due

\* For any files, imports and functions, and any number of saves: what is cached of a file
\* under its present stat is what it imports, and once the reloader is idle each function is
\* reloaded for exactly the files it reaches (dep-graph.ts 6-8, 173-204), although files
\* were saved while they were read, walks went on and graphs were compared.
THEOREM GraphsStayHonest == Spec => []GraphsAreHonest
<1>1. IInv => GraphsAreHonest
  <2> SUFFICES ASSUME IInv PROVE GraphsAreHonest
    OBVIOUS
  <2>1. ASSUME Quiet, NEW f \in Functions PROVE graph[f] = Closure(f)
    BY <2>1, AtRest, GraphIsRight DEF RunOK
  <2> QED BY <2>1 DEF IInv, CacheInv, GraphsAreHonest, GraphsExact
<1> QED BY <1>1, Inductive, PTL

\* Likewise, once it is idle a function whose files are all there runs their newest revisions,
\* bound to the one newest evaluation of the shared module, whatever failed before
\* (hot-reloader.ts 225-347, plugin.ts 285-298, shared-runtime.ts 90-139).
THEOREM NewestCodeStays == Spec => []NewestCodeRuns
<1>1. IInv => NewestCodeRuns
  <2> SUFFICES ASSUME IInv, Quiet, NEW f \in Functions, Fine(f)
               PROVE  /\ loaded[f].revs = [x \in Files |-> IF x \in Own(f) THEN source[x].rev ELSE 0]
                      /\ es \in Closure(f) =>
                           /\ loaded[f].gen = gen
                           /\ (Shared \notin failed \/ importsOf(es) = {}) => loaded[Shared].revs[es] = source[es].rev
    BY DEF NewestCodeRuns, NewestRuns, SharedIsOne, es
  <2>1. Newest(f)
    BY AtRest DEF RunOK, NewestOK
  <2>2. es \notin pending /\ job[Shared].step # "load"
    BY DEF IInv, SharedInv, Quiet
  <2>3. ASSUME es \in Closure(f), Shared \notin failed \/ importsOf(es) = {} PROVE loaded[Shared].revs[es] = source[es].rev
    <3>1. Loads(es)
      BY <2>3 DEF Fine
    <3> QED BY <2>2, <2>3, <3>1 DEF IInv, SharedInv
  <2> QED BY <2>1, <2>3 DEF Newest
<1> QED BY <1>1, Inductive, PTL

\* Likewise for the env files: once nothing is under way the environment holds what they say,
\* no key they have dropped, and every function that can be loaded has seen it
\* (env-file.ts 143-147, env-hot-reloader.ts).
THEOREM SecretsAlwaysTakeEffect == Spec => []SecretsTakeEffect
<1>1. IInv => SecretsTakeEffect
  <2> SUFFICES ASSUME IInv, EnvQuiet PROVE SecretsTakeEffect
    BY DEF SecretsTakeEffect
  <2>1. (\E i \in DOMAIN dotenv : dotenv[i].there) => \A k \in Keys : env[k] = merged(k)
    BY DEF IInv, EnvInv, EnvQuiet
  <2>2. ASSUME Quiet, NEW f \in Functions, Fine(f) PROVE loaded[f].env = env
    <3>1. Clean(f) /\ SecretOK(f) /\ job[f].by # "hmr" /\ DataOK
      BY <2>2, AtRest DEF RunOK
    <3>2. job[f].by # "env"
      BY DEF IInv, FunctionsOK, ClaimOK, EnvQuiet
    <3>3. job[f].by \in Callers \cup {None}
      BY <3>1 DEF DataOK, Graphs, JobType
    <3> QED BY <2>2, <3>1, <3>2, <3>3 DEF SecretOK, Callers
  <2> QED BY <2>1, <2>2 DEF SecretsTakeEffect
<1> QED BY <1>1, Inductive, PTL
=============================================================================
