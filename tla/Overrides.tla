----------------------------- MODULE Overrides -----------------------------
(***************************************************************************)
(* The runtime editor of a prebuilt gateway: operators patch functions of   *)
(* the firmware or add functions, the store keeps them on disk, and every    *)
(* boot and reload composes firmware and overrides into what workerd serves. *)
(* (src/backends/workerd/runtime-overrides.ts, the editor's part of          *)
(* backend.ts, prebuilt.ts and capnp.ts)                                     *)
(*                                                                         *)
(* An action is the code between two awaits.  The store has no lock: calls   *)
(* of several editor sessions and the composition of a reload interleave at  *)
(* every file operation.  A saved source is the number of its save; the      *)
(* index is the array in memory, whose order matters while it is iterated.   *)
(* Names are numbers, compared as localeCompare compares names.  Left out:   *)
(* paths, languages and the text of files; child processes (WorkerdBackend). *)
(***************************************************************************)
EXTENDS Naturals, FiniteSets, Sequences, SequencesExt

CONSTANTS
  Sessions,      \* editor sessions
  Names,         \* function names, a set of positive numbers
  Firmwares,     \* the sets of names that firmware versions contain
  None,          \* no value; also overrides.json cut short
  Faults,        \* what may fail
  MaxSaves,      \* bound: saves and creations
  MaxIncidents   \* bound: restarts of the gateway, reloads by its crash handler

FaultKinds == {"io", "bundle", "artifact"}
ASSUME ConstantsAssumption ==
  /\ Names \subseteq Nat \ {0}
  /\ Firmwares \subseteq (SUBSET Names) \ {{}}
  /\ Faults \subseteq FaultKinds
  /\ {MaxSaves, MaxIncidents} \subseteq Nat
  /\ None \notin Sessions \cup Nat \cup Seq([name : Names, origin : {"added", "patched"}, at : Nat])
  /\ "reload" \notin Sessions

VARIABLES
  base,       \* names in prebuiltManifest.functions
  index,      \* RuntimeOverrideStore.index.functions
  disk,       \* functions/<name>/: the save each file is from, 0 without one
  file,       \* overrides.json: the index it holds, or Torn
  writes,     \* writeFile calls on overrides.json that have not ended
  call,       \* the session's call
  reload,     \* the boot() in progress
  served,     \* the functions workerd serves: [name -> sources]
  up,         \* the gateway has booted
  saves, incidents,
  hurt,       \* history: names of which a call failed, was cut off, or met another
  raced       \* history: overrides.json was written by two at once, or a write failed

storeVars == <<index, disk, file, writes>>
bounds == <<saves, incidents>>
vars == <<base, storeVars, call, reload, served, up, bounds, hurt, raced>>

Files == {"index.ts", "1tube.json"}
Torn == None
Empty == [f \in Files |-> 0]

\* The sources of a function of the firmware.
Prebuilt == Empty

Entry(n, origin, at) == [name |-> n, origin |-> origin, at |-> at]
Has(n) == \E i \in DOMAIN index : index[i].name = n
Position(n) == CHOOSE i \in DOMAIN index : index[i].name = n
Of(n) == index[Position(n)]
\* filter(): a name is listed once.
Without(n) == IF Has(n) THEN RemoveAt(index, Position(n)) ELSE index
\* What overrides.json says of an index; compose computes the origins again.
Listed(s) == {<<s[i].name, s[i].at>> : i \in DOMAIN s}
\* The index by name.
Sortings == {s \in [DOMAIN index -> ToSet(index)] :
  ToSet(s) = ToSet(index) /\ \A i, j \in DOMAIN s : i < j => s[i].name < s[j].name}

Idle == [pc |-> "idle"]
NoReload == [pc |-> "none"]
Busy(n) == \E s \in Sessions : call[s].pc # "idle" /\ call[s].name = n

Init ==
  /\ base \in Firmwares
  /\ index = <<>>
  /\ disk = [n \in Names |-> Empty]
  /\ file = <<>>
  /\ writes = {}
  /\ call = [s \in Sessions |-> Idle]
  /\ reload = NoReload
  /\ served = [n \in base |-> Prebuilt]
  /\ up = TRUE
  /\ saves = 0 /\ incidents = 0
  /\ hurt = {} /\ raced = FALSE

-----------------------------------------------------------------------------
(* The array: compose iterates over the array it found.  Filtering makes a new  *)
(* array, sorting does not.                                                    *)

Composing == reload.pc = "compose"

\* this.index.functions = this.index.functions.filter(...); push(entry)
Replace(array) ==
  /\ index' = array
  /\ reload' = IF Composing /\ reload.list = None
               THEN [reload EXCEPT !.list = index] ELSE reload

-----------------------------------------------------------------------------
(* overrides.json *)

\* persist() after its ensureDir: sorts in place, and opens the file with O_TRUNC.
PersistBy(who) ==
  /\ index' \in Sortings
  /\ writes' = writes \cup {[by |-> who, text |-> index', alone |-> writes = {}]}
  /\ file' = Torn
  /\ raced' = (raced \/ writes # {})

\* The write ends.  Two at once each write from offset 0 of one file: what is left
\* is the later text, or the later text with a rest of the longer one behind it.
WrittenBy(who) ==
  \E w \in writes :
    /\ w.by = who
    /\ writes' = {[x EXCEPT !.alone = FALSE] : x \in writes \ {w}}
    /\ file' \in IF w.alone /\ writes = {w} THEN {w.text} ELSE {w.text, Torn}
    /\ UNCHANGED <<index, disk>>

-----------------------------------------------------------------------------
(* Editor sessions: backend.ts checks against the names it serves, the store     *)
(* against its index.                                                           *)

Start(s, op, n, pc, origin) ==
  /\ up /\ call[s].pc = "idle"
  /\ call' = [call EXCEPT ![s] =
       [pc |-> pc, op |-> op, name |-> n, origin |-> origin,
        at |-> IF saves' > saves THEN saves' ELSE 0, own |-> FALSE]]
  /\ hurt' = IF n # None /\ Busy(n) THEN hurt \cup {n} ELSE hurt
  /\ UNCHANGED <<base, storeVars, reload, served, up, incidents, raced>>

\* createEditableFunction, create: neither served, overridden nor in the firmware.
Create(s, n) ==
  /\ saves < MaxSaves /\ saves' = saves + 1
  /\ n \notin DOMAIN served /\ ~Has(n) /\ n \notin base
  /\ Start(s, "create", n, "remove", "added")

\* saveEditableSource, save: the "base names" are those served, an added function's
\* among them once a reload has served it.
Save(s, n) ==
  /\ saves < MaxSaves /\ saves' = saves + 1
  /\ n \in DOMAIN served \/ (Has(n) /\ Of(n).origin = "added")
  /\ Start(s, "save", n, "remove", IF n \in DOMAIN served THEN "patched" ELSE "added")

\* deleteEditableFunction, revertEditableFunction, of an override of that origin.
Drop(s, n, op, origin) ==
  /\ UNCHANGED saves
  /\ Has(n) /\ Of(n).origin = origin
  /\ Start(s, op, n, "remove", origin)

Delete(s, n) == Drop(s, n, "delete", "added")
Revert(s, n) == Drop(s, n, "revert", "patched")

\* Both again, without an override: nothing but the reload.
DropNothing(s) ==
  /\ UNCHANGED saves
  /\ \E n \in Names : ~Has(n)
  /\ Start(s, "none", None, "reload", None)

Writes(s) == call[s].op \in {"create", "save"}
GoOn(s, pc) == call' = [call EXCEPT ![s].pc = pc]
AfterCall == UNCHANGED <<base, served, up, bounds>>

\* Mutant: the files of a deleted function stay.
RemoveDirOfSaved(s) ==
  /\ call[s].pc = "remove"
  /\ disk' = IF Writes(s) THEN [disk EXCEPT ![call[s].name] = Empty] ELSE disk
  /\ GoOn(s, IF Writes(s) THEN "index.ts" ELSE "unlist")
  /\ UNCHANGED <<index, file, writes, reload, hurt, raced>> /\ AfterCall

\* removeDirIfExists
RemoveDir(s) ==
  /\ call[s].pc = "remove"
  /\ disk' = [disk EXCEPT ![call[s].name] = Empty]
  /\ GoOn(s, IF Writes(s) THEN "index.ts" ELSE "unlist")
  /\ UNCHANGED <<index, file, writes, reload, hurt, raced>> /\ AfterCall

\* writeFiles: the files one after the other, the manifest last.
WriteFile(s) ==
  /\ call[s].pc \in Files
  /\ disk' = [disk EXCEPT ![call[s].name][call[s].pc] = call[s].at]
  /\ GoOn(s, IF call[s].pc = "index.ts" THEN "1tube.json" ELSE "list")
  /\ UNCHANGED <<index, file, writes, reload, hurt, raced>> /\ AfterCall

\* upsertIndex, up to the await in persist().
Upsert(s) ==
  /\ call[s].pc = "list"
  /\ Replace(Append(Without(call[s].name), Entry(call[s].name, call[s].origin, call[s].at)))
  /\ GoOn(s, "persist")
  /\ UNCHANGED <<disk, file, writes, hurt, raced>> /\ AfterCall

\* deleteAdded, revert after the removal of the directory.
Unlist(s) ==
  /\ call[s].pc = "unlist"
  /\ Replace(Without(call[s].name))
  /\ GoOn(s, "persist")
  /\ UNCHANGED <<disk, file, writes, hurt, raced>> /\ AfterCall

Persist(s) ==
  /\ call[s].pc = "persist"
  /\ PersistBy(s)
  /\ GoOn(s, "written")
  /\ UNCHANGED <<disk, reload, hurt>> /\ AfterCall

Written(s) ==
  /\ call[s].pc = "written"
  /\ WrittenBy(s)
  /\ GoOn(s, "reload")
  /\ UNCHANGED <<reload, hurt, raced>> /\ AfterCall

\* A file operation fails: the call ends there, nothing is undone.
CallFails(s) ==
  /\ "io" \in Faults
  /\ call[s].pc \in {"written"} \cup Files
  /\ call' = [call EXCEPT ![s] = Idle]
  /\ writes' = {w \in writes : w.by # s}
  /\ hurt' = hurt \cup {call[s].name}
  /\ raced' = (raced \/ call[s].pc = "written")
  /\ UNCHANGED <<index, disk, file, reload>> /\ AfterCall

-----------------------------------------------------------------------------
(* Reloads *)

NewReload == [pc |-> "compose", i |-> 1, list |-> None, out |-> <<>>, next |-> <<>>]

\* doReload: starts one, or joins the one in flight.
Reload(s) ==
  /\ call[s].pc = "reload"
  /\ reload' = IF reload.pc = "none" THEN NewReload ELSE reload
  /\ call' = [call EXCEPT ![s].pc = "wait", ![s].own = reload.pc = "none"]
  /\ UNCHANGED <<storeVars, hurt, raced>> /\ AfterCall

\* The crash handler or a change of secrets reloads everything.
Recover ==
  /\ up /\ reload.pc = "none" /\ incidents < MaxIncidents
  /\ incidents' = incidents + 1
  /\ reload' = NewReload
  /\ UNCHANGED <<base, storeVars, call, served, up, saves, hurt, raced>>

\* The reload's promise settles; the sessions that wait for it return.
Settle ==
  /\ reload' = NoReload
  /\ call' = [s \in Sessions |-> IF call[s].pc = "wait" THEN Idle ELSE call[s]]

ReloadFails ==
  /\ Settle
  /\ UNCHANGED <<base, served, up, bounds, hurt>>

Iterated == IF reload.list = None THEN index ELSE reload.list

\* compose, one entry: a patch of a function that left the firmware becomes an added
\* function (the entry object, wherever it is listed); an entry point must exist.
ComposeEntry ==
  /\ Composing /\ reload.i <= Len(Iterated)
  /\ LET e == Iterated[reload.i]
         origin == IF e.name \in base THEN e.origin ELSE "added"
         flip(s) == [i \in DOMAIN s |-> IF <<s[i].name, s[i].at>> = <<e.name, e.at>>
                                        THEN [s[i] EXCEPT !.origin = origin] ELSE s[i]] IN
     /\ index' = flip(index)
     /\ UNCHANGED <<disk, file, writes, raced>>
     /\ IF disk[e.name]["index.ts"] = 0
        THEN ReloadFails
        ELSE /\ reload' = [reload EXCEPT !.i = @ + 1,
                  !.out = Append(@, [name |-> e.name, origin |-> origin,
                                     manifest |-> disk[e.name]["1tube.json"]])]
             /\ UNCHANGED <<call, hurt>> /\ AfterCall

\* compose: persist() after the loop.
ComposePersist ==
  /\ Composing /\ reload.i > Len(Iterated)
  /\ PersistBy("reload")
  /\ reload' = [reload EXCEPT !.pc = "written"]
  /\ UNCHANGED <<disk, call, hurt>> /\ AfterCall

ComposeWritten ==
  /\ reload.pc = "written"
  /\ WrittenBy("reload")
  /\ reload' = [reload EXCEPT !.pc = "bundle"]
  /\ UNCHANGED <<call, hurt, raced>> /\ AfterCall

OverlayNames == {reload.out[i].name : i \in DOMAIN reload.out}
Patched == {e \in OverlayNames : \E i \in DOMAIN reload.out :
              reload.out[i].name = e /\ reload.out[i].origin = "patched"}

\* Mutant: everything that is overridden in the index counts as patched.
UnpatchedByIndex == {n \in base : ~Has(n)}
Unpatched == base \ Patched

\* boot() in prebuilt mode, from the list of functions to the capnp config: at least
\* one function must be left from the firmware, and no name may be there twice.
Composable ==
  /\ Unpatched # {}
  /\ Cardinality(OverlayNames) = Len(reload.out)
  /\ OverlayNames \cap Unpatched = {}
  /\ \A n \in OverlayNames : disk[n]["index.ts"] # 0

\* Mutant: the limits and permissions of the firmware's manifest stay in force.
ManifestOfFirmware(n) == Prebuilt["1tube.json"]
ManifestOf(n) == reload.out[CHOOSE i \in DOMAIN reload.out : reload.out[i].name = n].manifest

Bundle ==
  /\ reload.pc = "bundle"
  /\ \/ /\ Composable
        /\ reload' = [reload EXCEPT !.pc = "swap", !.next =
             [n \in Unpatched \cup OverlayNames |->
                IF n \in OverlayNames
                THEN [f \in Files |-> IF f = "index.ts" THEN disk[n][f] ELSE ManifestOf(n)]
                ELSE Prebuilt]]
        /\ UNCHANGED <<call, hurt>> /\ AfterCall
     \/ (~Composable \/ "bundle" \in Faults) /\ ReloadFails
  /\ UNCHANGED <<storeVars, raced>>

\* The new child serves: the names and manifests are replaced.
Swap ==
  /\ reload.pc = "swap"
  /\ served' = reload.next /\ up' = TRUE
  /\ Settle
  /\ UNCHANGED <<base, storeVars, bounds, hurt, raced>>

-----------------------------------------------------------------------------
(* Restart: a crash at any point, an orderly restart, or one with other firmware *)

\* load(): an index that does not parse is ignored, and then overwritten.
Restart ==
  /\ incidents < MaxIncidents /\ incidents' = incidents + 1
  /\ base' \in Firmwares
  /\ index' = IF file = Torn THEN <<>> ELSE file
  /\ hurt' = IF file = Torn \/ raced THEN Names
             ELSE hurt \cup {n \in Names : \E s \in Sessions :
                               call[s].pc \notin {"idle", "reload", "wait"} /\ call[s].name = n}
  /\ raced' = FALSE
  /\ writes' = {[by |-> "reload", text |-> index', alone |-> TRUE]}
  /\ file' = Torn
  /\ call' = [s \in Sessions |-> Idle]
  /\ reload' = [NewReload EXCEPT !.pc = "load"]
  /\ up' = FALSE /\ served' = [n \in {} |-> Prebuilt]
  /\ UNCHANGED <<disk, saves>>

\* load(): persist() has ended. start() verifies every file of the artifact against its
\* hash before it boots, and boots nothing when one does not match.
Loaded ==
  /\ reload.pc = "load"
  /\ WrittenBy("reload")
  /\ \/ reload' = [reload EXCEPT !.pc = "compose"]
     \/ "artifact" \in Faults /\ reload' = NoReload
  /\ UNCHANGED <<call, hurt, raced>> /\ AfterCall

-----------------------------------------------------------------------------
SessionStep(s) ==
  \/ RemoveDir(s) \/ WriteFile(s) \/ Upsert(s) \/ Unlist(s)
  \/ Persist(s) \/ Written(s) \/ Reload(s)
ReloadStep == ComposeEntry \/ ComposePersist \/ ComposeWritten \/ Bundle \/ Swap \/ Loaded

Next ==
  \/ \E s \in Sessions, n \in Names : Create(s, n) \/ Save(s, n) \/ Delete(s, n) \/ Revert(s, n)
  \/ \E s \in Sessions : DropNothing(s) \/ SessionStep(s) \/ CallFails(s)
  \/ Recover
  \/ ReloadStep
  \/ Restart

Spec == Init /\ [][Next]_vars

-----------------------------------------------------------------------------
(* Properties *)

Entries == [name : Names, origin : {"added", "patched"}, at : 1..MaxSaves]

\* Shapes, and the index lists a name once: find() and filter() rely on it.
TypeOK ==
  /\ base \in Firmwares
  /\ index \in Seq(Entries)
  /\ \A i, j \in DOMAIN index : index[i].name = index[j].name => i = j
  /\ disk \in [Names -> [Files -> 0..MaxSaves]]
  /\ file = Torn \/ file \in Seq(Entries)
  /\ \A w \in writes : w.text \in Seq(Entries)
  /\ DOMAIN served \subseteq Names
  /\ hurt \subseteq Names

\* Whatever is patched, added or half written meanwhile, a gateway that is up serves
\* every function of its firmware, patched or not (boot, prebuilt mode).
FirmwareStaysServed == up => base \subseteq DOMAIN served

\* An override is on disk as its index entry says, both files from the same save, and
\* what is not listed has no files: between calls, unless a call on that name failed,
\* was cut off by a crash, or met another call on it, or a restart found an index
\* that was cut short or written by two at once.
StoreIsWhole ==
  \A n \in Names \ hurt : ~Busy(n) =>
    disk[n] = IF Has(n) THEN [f \in Files |-> Of(n).at] ELSE Empty

\* Once the writes have ended, overrides.json lists what the store lists, so that a
\* restart forgets nothing, unless writes overlapped or failed.
IndexIsDurable ==
  /\ writes = {} /\ ~raced
  /\ \A s \in Sessions : call[s].pc # "persist"
  => file # Torn /\ Listed(file) = Listed(index)

\* What is on disk is what the store lists: files, and index for the next boot.
StoreIsSound == TypeOK /\ StoreIsWhole /\ IndexIsDurable

\* When the reload a session started itself succeeds, the session finds its sources
\* and manifest served, its deletion gone or its reversion undone, whatever other
\* sessions did to other functions meanwhile.
OwnReloadServesIt ==
  [][\A s \in Sessions :
       call[s].pc = "wait" /\ call[s].own /\ served' # served /\ up /\ up' /\ call[s].name \notin hurt =>
         LET n == call[s].name IN
         CASE Writes(s) -> n \in DOMAIN served' /\ served'[n] = [f \in Files |-> call[s].at]
           [] call[s].op = "delete" -> n \notin DOMAIN served' \/ n \in base
           [] call[s].op = "none" -> TRUE
           [] call[s].op = "revert" -> n \in base => served'[n] = Prebuilt]_vars

=============================================================================
