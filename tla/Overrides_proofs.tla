---------------------------- MODULE Overrides_proofs ----------------------------
(***************************************************************************)
(* Proofs about Overrides for any sessions, names, firmwares and bounds:   *)
(* the functions of the firmware stay served, files and index belong       *)
(* together, and a reload that a session started serves what it saved.     *)
(***************************************************************************)
EXTENDS Overrides, FiniteSetTheorems, SequenceTheorems, TLAPS

EditType == [
  pc : {"remove", "index.ts", "1tube.json", "list", "unlist", "persist", "written", "reload", "wait"},
  op : {"create", "save", "delete", "revert"}, name : Names, origin : {"added", "patched"},
  at : 0 .. MaxSaves, own : BOOLEAN]
NothingType == [pc : {"reload", "wait"}, op : {"none"}, name : {None}, origin : {None}, at : {0}, own : BOOLEAN]
WriteType == [by : Sessions \cup {"reload"}, text : Seq(Entries), alone : BOOLEAN]
OutType == [name : Names, origin : {"added", "patched"}, manifest : 0 .. MaxSaves]
ServedType == UNION {[D -> [Files -> 0 .. MaxSaves]] : D \in SUBSET Names}
ReloadType == [pc : {"load", "compose", "written", "bundle", "swap"}, i : Nat \ {0},
               list : {None} \cup Seq(Entries), out : Seq(OutType), next : {<<>>} \cup ServedType]

Unique(t) == \A i, j \in DOMAIN t : t[i].name = t[j].name => i = j
NamesIn(t) == {t[i].name : i \in DOMAIN t}

\* The shapes, more exactly than TypeOK.
StoreInv ==
  /\ saves \in 0 .. MaxSaves /\ base \in Firmwares /\ hurt \subseteq Names /\ served \in ServedType
  /\ index \in Seq(Entries) /\ Unique(index)
  /\ disk \in [Names -> [Files -> 0 .. MaxSaves]]
  /\ file = Torn \/ (file \in Seq(Entries) /\ Unique(file))
  /\ \A w \in writes : w \in WriteType /\ Unique(w.text)

\* Calls take the steps of their operation, while the gateway is up, and wait for a reload.
CallInv ==
  /\ call \in [Sessions -> {Idle} \cup EditType \cup NothingType]
  /\ \A s \in Sessions :
       /\ call[s].pc # "idle" => up
       /\ call[s] \in EditType => IF Writes(s) THEN call[s].at # 0 /\ call[s].pc # "unlist"
                                               ELSE call[s].pc \notin Files \cup {"list"}
       /\ call[s].pc = "wait" => reload.pc \in {"compose", "written", "bundle", "swap"}

\* A composition goes through as many entries as it takes out of the index.
ReloadInv ==
  /\ reload = NoReload \/ reload \in ReloadType
  /\ reload # NoReload /\ reload.list # None => Unique(reload.list)
  /\ reload.pc = "load" => ~up
  /\ reload.pc \in {"load", "compose"} => Len(reload.out) + 1 = reload.i
  /\ reload.pc \in {"load", "compose"} => OverlayNames \subseteq NamesIn(Iterated)
  /\ reload.pc = "swap" => reload.next \in ServedType /\ base \subseteq DOMAIN reload.next

FirmwareInv == up => base \subseteq DOMAIN served

\* Both files of a name are from the save that an index lists, or are not there.
Settled(t, n) ==
  \/ disk[n] = Empty /\ n \notin NamesIn(t)
  \/ \E at \in 1 .. MaxSaves : <<n, at>> \in Listed(t) /\ disk[n] = [f \in Files |-> at]

\* What a call has done, unless its name is hurt.
AsFar(s) == LET n == call[s].name
                at == call[s].at IN
  /\ call[s].pc \in {"index.ts", "unlist"} => disk[n] = Empty
  /\ call[s].pc = "1tube.json" => disk[n] = [f \in Files |-> IF f = "index.ts" THEN at ELSE 0]
  /\ call[s].pc = "list" => disk[n] = [f \in Files |-> at]
  /\ call[s].pc \in {"persist", "written", "reload", "wait"} =>
       IF Writes(s) THEN <<n, at>> \in Listed(index) /\ disk[n] = [f \in Files |-> at]
                    ELSE n \notin NamesIn(index) /\ disk[n] = Empty

On(s, n) == call[s].pc # "idle" /\ call[s].name = n

WholeAt(n) ==
  /\ ~Busy(n) => Settled(index, n)
  /\ \A s \in Sessions : On(s, n) => AsFar(s) /\ \A t \in Sessions : On(t, n) => t = s

WholeInv == \A n \in Names \ hurt : WholeAt(n)

\* A text lists what the index lists, but for names whose calls have still to write it.
Matches(t) == \A n \in Names : (\A s \in Sessions : ~(call[s].pc = "persist" /\ call[s].name = n)) =>
  \A at \in Nat : <<n, at>> \in Listed(t) <=> <<n, at>> \in Listed(index)

DurableInv ==
  /\ \A w \in writes : IF w.by = "reload" THEN reload.pc \in {"load", "written"}
                                          ELSE call[w.by].pc = "written"
  /\ \A v, w \in writes : v.by = w.by => v = w
  /\ ~raced => /\ \A w \in writes : w.alone /\ writes = {w} /\ file = Torn /\ Matches(w.text)
               /\ writes = {} => file # Torn /\ Matches(file)

\* How far the reload has come with what the session that began it saved or removed.
Reached(s) == LET n == call[s].name
                  at == call[s].at IN
  IF Writes(s)
  THEN /\ reload.pc = "compose" => n \in NamesIn(Iterated)
       /\ \A i \in DOMAIN reload.out : reload.out[i].name = n => reload.out[i].manifest = at
       /\ reload.pc \in {"written", "bundle"} /\ Cardinality(OverlayNames) = Len(reload.out) => n \in OverlayNames
       /\ reload.pc = "swap" => n \in DOMAIN reload.next /\ reload.next[n] = [f \in Files |-> at]
  ELSE /\ reload.pc = "compose" => n \notin NamesIn(Iterated)
       /\ reload.pc \in {"written", "bundle"} => n \notin OverlayNames
       /\ reload.pc = "swap" => (n \in DOMAIN reload.next <=> n \in base) /\ (n \in base => reload.next[n] = Prebuilt)

OwnInv == \A s \in Sessions :
  call[s].pc = "wait" /\ call[s].own /\ call[s].op # "none" /\ call[s].name \notin hurt => Reached(s)

IInv == StoreInv /\ CallInv /\ ReloadInv /\ FirmwareInv /\ WholeInv /\ DurableInv /\ OwnInv

-----------------------------------------------------------------------------
(* Indexes *)

LEMMA EntryFacts ==
  ASSUME NEW t \in Seq(Entries)
  PROVE  /\ Len(t) \in Nat /\ DOMAIN t = 1 .. Len(t)
         /\ \A i \in DOMAIN t : /\ t[i] \in Entries /\ t[i].name \in Names /\ t[i].name \in Nat
                                /\ t[i].at \in 1 .. MaxSaves /\ t[i].at \in Nat
         /\ NamesIn(t) \subseteq Names
         /\ \A n \in Names : n \in NamesIn(t) <=> \E at \in 1 .. MaxSaves : <<n, at>> \in Listed(t)
<1>1. Len(t) \in Nat /\ DOMAIN t = 1 .. Len(t) /\ \A i \in DOMAIN t : t[i] \in Entries
  BY LenProperties
<1>2. \A e \in Entries : e.name \in Names /\ e.name \in Nat /\ e.at \in 1 .. MaxSaves /\ e.at \in Nat
  <2>1. Names \subseteq Nat /\ MaxSaves \in Nat
    BY ConstantsAssumption
  <2> SUFFICES ASSUME NEW e \in Entries
               PROVE  e.name \in Names /\ e.name \in Nat /\ e.at \in 1 .. MaxSaves /\ e.at \in Nat
    OBVIOUS
  <2>2. e.name \in Names /\ e.at \in 1 .. MaxSaves
    BY DEF Entries
  <2>3. e.name \in Nat
    BY <2>1, <2>2
  <2>4. e.at \in Nat
    BY <2>1, <2>2
  <2> QED
    BY <2>2, <2>3, <2>4
<1>3. NamesIn(t) \subseteq Names
  BY <1>1, <1>2 DEF NamesIn
<1>4. \A n \in Names : n \in NamesIn(t) <=> \E at \in 1 .. MaxSaves : <<n, at>> \in Listed(t)
  BY <1>1, <1>2 DEF NamesIn, Listed
<1> QED
  BY <1>1, <1>2, <1>3, <1>4

LEMMA ListedOnce ==
  ASSUME NEW t \in Seq(Entries), Unique(t), NEW n, NEW a, NEW b,
         <<n, a>> \in Listed(t), <<n, b>> \in Listed(t)
  PROVE  a = b
<1>1. PICK i \in DOMAIN t : <<n, a>> = <<t[i].name, t[i].at>>
  BY DEF Listed
<1>2. PICK j \in DOMAIN t : <<n, b>> = <<t[j].name, t[j].at>>
  BY DEF Listed
<1> QED
  BY <1>1, <1>2 DEF Unique

(* A sort keeps the entries. *)
LEMMA SortKeeps ==
  ASSUME index \in Seq(Entries), NEW t \in Sortings
  PROVE  /\ t \in Seq(Entries) /\ Unique(t) /\ Listed(t) = Listed(index) /\ NamesIn(t) = NamesIn(index)
         /\ Len(t) = Len(index)
<1>1. /\ t \in [DOMAIN index -> ToSet(index)] /\ ToSet(t) = ToSet(index)
      /\ \A i, j \in DOMAIN t : i < j => t[i].name < t[j].name
  BY DEF Sortings
<1>2. /\ DOMAIN index = 1 .. Len(index) /\ Len(index) \in Nat
      /\ \A i \in DOMAIN index : index[i] \in Entries
  BY EntryFacts
<1>3. \A i \in DOMAIN t : t[i] \in Entries
  BY <1>1, <1>2 DEF ToSet
<1>4. t \in [1 .. Len(index) -> Entries]
  BY <1>1, <1>2, <1>3
<1>5. t \in Seq(Entries) /\ Len(t) = Len(index) /\ DOMAIN t = 1 .. Len(index)
  BY <1>2, <1>4
<1>6. Unique(t)
  <2> SUFFICES ASSUME NEW i \in DOMAIN t, NEW j \in DOMAIN t, t[i].name = t[j].name
               PROVE  i = j
    BY DEF Unique
  <2>1. t[i].name \in Nat /\ i \in Nat /\ j \in Nat
    BY <1>5, EntryFacts
  <2>2. ~(i < j) /\ ~(j < i)
    BY <1>1, <2>1
  <2> QED
    BY <2>1, <2>2
<1>7. \A s : Listed(s) = {<<e.name, e.at>> : e \in ToSet(s)} /\ NamesIn(s) = {e.name : e \in ToSet(s)}
  BY DEF Listed, NamesIn, ToSet
<1> QED
  BY <1>1, <1>5, <1>6, <1>7

(* A removal takes out the entry of one name. *)
LEMMA RemovalKeeps ==
  ASSUME index \in Seq(Entries), Unique(index), NEW n \in Names
  PROVE  /\ Without(n) \in Seq(Entries) /\ Unique(Without(n)) /\ n \notin NamesIn(Without(n))
         /\ \A m : m # n => (m \in NamesIn(Without(n)) <=> m \in NamesIn(index))
         /\ \A m, at : m # n => (<<m, at>> \in Listed(Without(n)) <=> <<m, at>> \in Listed(index))
<1> DEFINE t == Without(n)
<1>1. DOMAIN index = 1 .. Len(index) /\ Len(index) \in Nat
  BY EntryFacts
<1>2. CASE Has(n)
  <2> DEFINE p == Position(n)
             len == Len(index)
             head == SubSeq(index, 1, p - 1)
             rest == SubSeq(index, p + 1, len)
  <2>1. p \in 1 .. len /\ index[p].name = n
    BY <1>1, <1>2 DEF Has, Position
  <2>2. t = head \o rest
    BY <1>2 DEF Without, RemoveAt
  <2> HIDE DEF p
  <2>3. /\ head \in Seq(Entries) /\ Len(head) = p - 1
        /\ \A i \in 1 .. p - 1 : head[i] = index[i]
    <3>1. p - 1 \in 1 - 1 .. len /\ p - 1 \in 0 .. len /\ 1 \in 1 .. len + 1
      BY <1>1, <2>1
    <3>2. \A i \in 1 .. p - 1 : 1 + i - 1 = i
      BY <2>1
    <3> QED
      BY <1>1, <2>1, <3>1, <3>2, SubSeqProperties
  <2>4. /\ rest \in Seq(Entries) /\ Len(rest) = len - p
        /\ \A i \in 1 .. len - p : rest[i] = index[p + i]
    <3>1. p + 1 \in 1 .. len + 1 /\ len \in (p + 1) - 1 .. len
      BY <1>1, <2>1
    <3>2. \A i \in 1 .. len - p : (p + 1) + i - 1 = p + i /\ i \in 1 .. len - (p + 1) + 1
      BY <1>1, <2>1
    <3>3. len - (p + 1) + 1 = len - p
      BY <1>1, <2>1
    <3> QED
      BY <1>1, <3>1, <3>2, <3>3, SubSeqProperties
  <2> HIDE DEF head, rest
  <2>5. /\ t \in Seq(Entries) /\ Len(t) = len - 1
        /\ \A i \in 1 .. len - 1 : t[i] = IF i < p THEN index[i] ELSE index[i + 1]
    <3>1. /\ t \in Seq(Entries) /\ Len(t) = Len(head) + Len(rest)
          /\ \A i \in 1 .. Len(head) + Len(rest) : t[i] = IF i <= Len(head) THEN head[i] ELSE rest[i - Len(head)]
      <4> DEFINE u == head \o rest
      <4>1. /\ u \in Seq(Entries) /\ Len(u) = Len(head) + Len(rest)
            /\ \A i \in 1 .. Len(head) + Len(rest) : u[i] = IF i <= Len(head) THEN head[i] ELSE rest[i - Len(head)]
        BY <2>3, <2>4, ConcatProperties
      <4>2. t = u
        BY <2>2
      <4> HIDE DEF u, t
      <4> QED
        BY <4>1, <4>2
    <3>2. Len(head) = p - 1 /\ Len(head) + Len(rest) = len - 1
      BY <1>1, <2>1, <2>3, <2>4
    <3>3. ASSUME NEW i \in 1 .. len - 1
          PROVE  t[i] = IF i < p THEN index[i] ELSE index[i + 1]
      <4>1. CASE i < p
        <5>1. i \in 1 .. p - 1 /\ i <= p - 1
          BY <2>1, <4>1
        <5> QED
          BY <2>3, <3>1, <3>2, <4>1, <5>1
      <4>2. CASE ~(i < p)
        <5>1. i - (p - 1) \in 1 .. len - p /\ ~(i <= p - 1) /\ p + (i - (p - 1)) = i + 1
          BY <1>1, <2>1, <4>2
        <5> QED
          BY <2>4, <3>1, <3>2, <4>2, <5>1
      <4> QED
        BY <4>1, <4>2
    <3> QED
      BY <3>1, <3>2, <3>3
  <2> HIDE DEF t
  <2>6. DOMAIN t = 1 .. len - 1
    BY <2>5, LenProperties
  <2>7. \A i \in DOMAIN t : \E k \in DOMAIN index : k # p /\ t[i] = index[k] /\ k = (IF i < p THEN i ELSE i + 1)
    BY <1>1, <2>1, <2>5, <2>6
  <2>8. \A k \in DOMAIN index : k # p => \E i \in DOMAIN t : t[i] = index[k]
    <3> SUFFICES ASSUME NEW k \in DOMAIN index, k # p
                 PROVE  \E i \in DOMAIN t : t[i] = index[k]
      OBVIOUS
    <3> DEFINE i == IF k < p THEN k ELSE k - 1
    <3>1. i \in 1 .. len - 1 /\ (IF i < p THEN i ELSE i + 1) = k
      BY <1>1, <2>1
    <3> QED
      BY <2>5, <2>6, <3>1
  <2>9. \A k \in DOMAIN index : k # p => index[k].name # n
    BY <1>1, <2>1 DEF Unique
  <2>10. Unique(t)
    <3> SUFFICES ASSUME NEW i \in DOMAIN t, NEW j \in DOMAIN t, t[i].name = t[j].name
                 PROVE  i = j
      BY DEF Unique
    <3>1. PICK k \in DOMAIN index : t[i] = index[k] /\ k = (IF i < p THEN i ELSE i + 1)
      BY <2>7
    <3>2. PICK l \in DOMAIN index : t[j] = index[l] /\ l = (IF j < p THEN j ELSE j + 1)
      BY <2>7
    <3>3. k = l
      BY <3>1, <3>2 DEF Unique
    <3> QED
      BY <2>1, <2>6, <3>1, <3>2, <3>3
  <2>11. n \notin NamesIn(t)
    BY <2>7, <2>9 DEF NamesIn
  <2>12. \A m : m # n => (m \in NamesIn(t) <=> m \in NamesIn(index))
    BY <2>1, <2>7, <2>8 DEF NamesIn
  <2>13. \A m, at : m # n => (<<m, at>> \in Listed(t) <=> <<m, at>> \in Listed(index))
    BY <2>1, <2>7, <2>8 DEF Listed
  <2> QED
    BY <2>5, <2>10, <2>11, <2>12, <2>13 DEF t
<1>3. CASE ~Has(n)
  BY <1>3 DEF Without, Has, NamesIn
<1> QED
  BY <1>2, <1>3

LEMMA AppendKeeps ==
  ASSUME NEW t \in Seq(Entries), Unique(t), NEW e \in Entries, e.name \notin NamesIn(t)
  PROVE  /\ Append(t, e) \in Seq(Entries) /\ Unique(Append(t, e))
         /\ Listed(Append(t, e)) = Listed(t) \cup {<<e.name, e.at>>}
         /\ NamesIn(Append(t, e)) = NamesIn(t) \cup {e.name}
<1> DEFINE u == Append(t, e)
           n == Len(t)
<1>1. /\ n \in Nat /\ DOMAIN t = 1 .. n /\ u \in Seq(Entries) /\ DOMAIN u = 1 .. n + 1
      /\ u[n + 1] = e /\ \A i \in 1 .. n : u[i] = t[i]
  BY AppendProperties, LenProperties
<1> HIDE DEF u, n
<1>2. \A i \in 1 .. n + 1 : i \in 1 .. n \/ i = n + 1
  BY <1>1
<1>3. \A i \in 1 .. n : i \in 1 .. n + 1 /\ n + 1 \in 1 .. n + 1 /\ i # n + 1
  BY <1>1
<1>4. Listed(u) = Listed(t) \cup {<<e.name, e.at>>}
  <2>1. \A x \in Listed(u) : x \in Listed(t) \cup {<<e.name, e.at>>}
    BY <1>1, <1>2 DEF Listed
  <2>2. \A x \in Listed(t) : x \in Listed(u)
    BY <1>1, <1>3 DEF Listed
  <2>3. <<e.name, e.at>> \in Listed(u)
    <3>1. n + 1 \in DOMAIN u
      BY <1>1
    <3> QED
      BY <1>1, <3>1 DEF Listed
  <2> QED
    BY <2>1, <2>2, <2>3
<1>5. NamesIn(u) = NamesIn(t) \cup {e.name}
  <2>1. \A x \in NamesIn(u) : x \in NamesIn(t) \cup {e.name}
    BY <1>1, <1>2 DEF NamesIn
  <2>2. \A x \in NamesIn(t) : x \in NamesIn(u)
    BY <1>1, <1>3 DEF NamesIn
  <2>3. e.name \in NamesIn(u)
    <3>1. n + 1 \in DOMAIN u
      BY <1>1
    <3> QED
      BY <1>1, <3>1 DEF NamesIn
  <2> QED
    BY <2>1, <2>2, <2>3
<1>6. Unique(u)
  BY <1>1, <1>2 DEF Unique, NamesIn
<1> QED
  BY <1>1, <1>4, <1>5, <1>6 DEF u

(* What a composition finds out of the order: it makes an added function of a patch. *)
LEMMA FlipKeeps ==
  ASSUME index \in Seq(Entries), Unique(index), NEW e, NEW o \in {"added", "patched"},
         NEW t, t = [i \in DOMAIN index |-> IF <<index[i].name, index[i].at>> = <<e.name, e.at>>
                                           THEN [index[i] EXCEPT !.origin = o] ELSE index[i]]
  PROVE  /\ t \in Seq(Entries) /\ Unique(t) /\ Listed(t) = Listed(index) /\ NamesIn(t) = NamesIn(index)
         /\ Len(t) = Len(index)
<1>1. /\ DOMAIN index = 1 .. Len(index) /\ Len(index) \in Nat
      /\ \A i \in DOMAIN index : index[i] \in Entries
  BY EntryFacts
<1>2. \A i \in DOMAIN index : t[i] \in Entries /\ t[i].name = index[i].name /\ t[i].at = index[i].at
  BY <1>1 DEF Entries
<1>3. t \in [1 .. Len(index) -> Entries]
  BY <1>1, <1>2
<1>4. t \in Seq(Entries) /\ Len(t) = Len(index) /\ DOMAIN t = DOMAIN index
  BY <1>1, <1>3
<1> QED
  BY <1>2, <1>4 DEF Unique, Listed, NamesIn

-----------------------------------------------------------------------------
(* Shapes *)

LEMMA ReloadIsTyped ==
  ASSUME ReloadInv, reload.pc # "none"
  PROVE  reload \in ReloadType
  BY DEF ReloadInv, NoReload

LEMMA IteratedFacts ==
  ASSUME StoreInv, ReloadInv, reload.pc # "none"
  PROVE  Iterated \in Seq(Entries) /\ Unique(Iterated)
<1>1. reload \in ReloadType /\ reload # NoReload
  BY ReloadIsTyped DEF NoReload
<1> QED
  BY <1>1 DEF Iterated, StoreInv, ReloadInv, ReloadType

(* A call that has still to do something to the store. *)
LEMMA EditAtWork ==
  ASSUME CallInv, NEW s \in Sessions, call[s].pc \notin {"idle", "reload", "wait"}
  PROVE  call[s] \in EditType /\ call[s].name \in Names
  BY DEF CallInv, Idle, EditType, NothingType

LEMMA PersistFacts ==
  ASSUME StoreInv, NEW who \in Sessions \cup {"reload"}, PersistBy(who)
  PROVE  /\ index' \in Seq(Entries) /\ Unique(index') /\ Listed(index') = Listed(index)
         /\ NamesIn(index') = NamesIn(index) /\ Len(index') = Len(index)
         /\ \A w \in writes' : w \in WriteType /\ Unique(w.text)
<1>1. /\ index' \in Seq(Entries) /\ Unique(index') /\ Listed(index') = Listed(index)
      /\ NamesIn(index') = NamesIn(index) /\ Len(index') = Len(index)
  BY SortKeeps DEF PersistBy, StoreInv
<1>3. \A b \in BOOLEAN : LET w == [by |-> who, text |-> index', alone |-> b] IN w \in WriteType /\ w.text = index'
  BY <1>1 DEF WriteType
<1>4. \A w \in writes' : w \in writes \/ \E b \in BOOLEAN : w = [by |-> who, text |-> index', alone |-> b]
  <2>1. CASE writes = {}
    <3>1. writes' = writes \cup {[by |-> who, text |-> index', alone |-> TRUE]}
      BY <2>1 DEF PersistBy
    <3> QED
      BY <3>1
  <2>2. CASE writes # {}
    <3>1. writes' = writes \cup {[by |-> who, text |-> index', alone |-> FALSE]}
      BY <2>2 DEF PersistBy
    <3> QED
      BY <3>1
  <2> QED
    BY <2>1, <2>2
<1> QED
  BY <1>1, <1>3, <1>4 DEF StoreInv

LEMMA WrittenFacts ==
  ASSUME StoreInv, NEW who, WrittenBy(who)
  PROVE  /\ \A w \in writes' : w \in WriteType /\ Unique(w.text)
         /\ file' = Torn \/ (file' \in Seq(Entries) /\ Unique(file'))
         /\ UNCHANGED <<index, disk>>
<1>1. PICK w \in writes :
        /\ w.by = who
        /\ writes' = {[x EXCEPT !.alone = FALSE] : x \in writes \ {w}}
        /\ file' \in IF w.alone /\ writes = {w} THEN {w.text} ELSE {w.text, Torn}
        /\ UNCHANGED <<index, disk>>
  BY DEF WrittenBy
<1>2. \A x \in writes' : \E y \in writes : x = [y EXCEPT !.alone = FALSE]
  BY <1>1
<1>3. \A y \in writes : y \in WriteType /\ Unique(y.text) /\ y.text \in Seq(Entries)
  BY DEF StoreInv, WriteType
<1>4. \A y \in writes : [y EXCEPT !.alone = FALSE] \in WriteType /\ [y EXCEPT !.alone = FALSE].text = y.text
  BY <1>3 DEF WriteType
<1>5. file' = Torn \/ file' = w.text
  BY <1>1
<1>6. \A x \in writes' : x \in WriteType /\ Unique(x.text)
  BY <1>2, <1>3, <1>4
<1> QED
  BY <1>1, <1>3, <1>5, <1>6

(* Sessions at work take steps; what a call is about does not change. *)
LEMMA GoOnFacts ==
  ASSUME CallInv, NEW s \in Sessions, call[s] \in EditType, NEW p, GoOn(s, p),
         p \in {"remove", "index.ts", "1tube.json", "list", "unlist", "persist", "written", "reload", "wait"}
  PROVE  /\ call'[s] = [call[s] EXCEPT !.pc = p] /\ call'[s] \in EditType /\ call'[s].pc = p
         /\ \A f \in {"op", "name", "origin", "at", "own"} : call'[s][f] = call[s][f]
         /\ \A t \in Sessions : t # s => call'[t] = call[t]
         /\ call' \in [Sessions -> {Idle} \cup EditType \cup NothingType]
<1>1. call \in [Sessions -> {Idle} \cup EditType \cup NothingType]
  BY DEF CallInv
<1>2. call'[s] = [call[s] EXCEPT !.pc = p] /\ \A t \in Sessions : t # s => call'[t] = call[t]
  BY <1>1 DEF GoOn
<1>3. call'[s] \in EditType /\ call'[s].pc = p
  BY <1>2 DEF EditType
<1>4. \A f \in {"op", "name", "origin", "at", "own"} : call'[s][f] = call[s][f]
  BY <1>2 DEF EditType
<1>5. call' \in [Sessions -> {Idle} \cup EditType \cup NothingType]
  BY <1>1, <1>2, <1>3 DEF GoOn
<1> QED
  BY <1>2, <1>3, <1>4, <1>5

-----------------------------------------------------------------------------
(* Calls *)

LEMMA NotNone == ASSUME NEW t \in Seq(Entries) PROVE t # None
<1> DEFINE Wide == [name : Names, origin : {"added", "patched"}, at : Nat]
<1>1. Entries \subseteq Wide
  <2> SUFFICES ASSUME NEW e \in Entries PROVE e \in Wide
    OBVIOUS
  <2>1. 1 .. MaxSaves \subseteq Nat
    BY ConstantsAssumption
  <2> QED
    BY <2>1 DEF Entries
<1>2. t \in Seq(Wide)
  <2>1. t \in [1 .. Len(t) -> Wide] /\ Len(t) \in Nat
    BY <1>1, LenProperties, ElementOfSeq
  <2> HIDE DEF Wide
  <2> QED
    BY <2>1
<1> QED
  BY <1>2, ConstantsAssumption

LEMMA SettleFacts ==
  ASSUME CallInv, Settle
  PROVE  /\ \A s \in Sessions : /\ call'[s].pc # "wait"
                                /\ call'[s] = Idle \/ call'[s] = call[s]
                                /\ call[s].pc # "wait" => call'[s] = call[s]
         /\ call' \in [Sessions -> {Idle} \cup EditType \cup NothingType]
         /\ reload' = NoReload
<1>1. call' = [s \in Sessions |-> IF call[s].pc = "wait" THEN Idle ELSE call[s]] /\ reload' = NoReload
  BY DEF Settle
<1> QED
  BY <1>1 DEF CallInv, Idle

(* A new array leaves a composition the one it found. *)
LEMMA ReplaceFacts ==
  ASSUME StoreInv, ReloadInv, NEW t \in Seq(Entries), Unique(t), Replace(t), reload.pc # "load"
  PROVE  /\ index' = t /\ reload'.pc = reload.pc
         /\ reload = NoReload => reload' = NoReload
         /\ reload # NoReload => /\ reload' \in ReloadType
                                 /\ reload'.list # None => Unique(reload'.list)
                                 /\ reload'.i = reload.i /\ reload'.out = reload.out /\ reload'.next = reload.next
         /\ reload.pc = "compose" => Iterated' = Iterated
<1>1. CASE reload.pc = "compose" /\ reload.list = None
  <2>1. reload \in ReloadType
    BY <1>1, ReloadIsTyped
  <2>2. index' = t /\ reload' = [reload EXCEPT !.list = index]
    BY <1>1 DEF Replace, Composing
  <2>3. index \in Seq(Entries) /\ Unique(index) /\ index # None
    BY NotNone DEF StoreInv
  <2>4. reload' \in ReloadType /\ reload'.list = index /\ reload'.i = reload.i
        /\ reload'.out = reload.out /\ reload'.next = reload.next /\ reload'.pc = reload.pc
    BY <2>1, <2>2, <2>3 DEF ReloadType
  <2>5. Iterated' = index /\ Iterated = index
    BY <1>1, <2>3, <2>4 DEF Iterated
  <2> QED
    BY <1>1, <2>2, <2>3, <2>4, <2>5 DEF NoReload
<1>2. CASE reload.pc = "compose" /\ reload.list # None
  <2>1. reload' = reload /\ index' = t
    BY <1>2 DEF Replace, Composing
  <2>2. Iterated' = Iterated
    BY <1>2, <2>1 DEF Iterated
  <2> QED
    BY <1>2, <2>1, <2>2, ReloadIsTyped DEF ReloadInv
<1>3. CASE reload.pc # "compose"
  <2>1. reload' = reload /\ index' = t
    BY <1>3 DEF Replace, Composing
  <2> QED
    BY <1>3, <2>1 DEF ReloadInv
<1> QED
  BY <1>1, <1>2, <1>3

(* What a call does to the array. *)
LEMMA UpsertFacts ==
  ASSUME StoreInv, CallInv, ReloadInv, NEW s \in Sessions, Upsert(s)
  PROVE  LET n == call[s].name IN
         /\ index' \in Seq(Entries) /\ Unique(index') /\ Replace(index') /\ reload.pc # "load"
         /\ NamesIn(index') = NamesIn(index) \cup {n}
         /\ <<n, call[s].at>> \in Listed(index') /\ call[s].at \in 1 .. MaxSaves
         /\ \A m, at : m # n => (<<m, at>> \in Listed(index') <=> <<m, at>> \in Listed(index))
<1>1. call[s] \in EditType /\ call[s].name \in Names
  BY EditAtWork DEF Upsert
<1> DEFINE n == call[s].name
           e == Entry(n, call[s].origin, call[s].at)
<1>2. index' = Append(Without(n), e)
  BY DEF Upsert, Replace
<1>3. call[s].at \in 0 .. MaxSaves /\ call[s].origin \in {"added", "patched"} /\ call[s].at # 0
  BY <1>1 DEF CallInv, EditType, Upsert
<1>4. call[s].at \in 1 .. MaxSaves
  BY <1>3, ConstantsAssumption
<1>5. e \in Entries /\ e.name = n /\ e.at = call[s].at
  BY <1>1, <1>3, <1>4 DEF Entry, Entries
<1>6. Replace(index')
  BY <1>2 DEF Upsert, Replace
<1>7. reload.pc # "load"
  BY DEF Upsert, CallInv, ReloadInv
<1> HIDE DEF n, e
<1>8. /\ Without(n) \in Seq(Entries) /\ Unique(Without(n)) /\ n \notin NamesIn(Without(n))
      /\ \A m : m # n => (m \in NamesIn(Without(n)) <=> m \in NamesIn(index))
      /\ \A m, at : m # n => (<<m, at>> \in Listed(Without(n)) <=> <<m, at>> \in Listed(index))
  BY <1>1, RemovalKeeps DEF StoreInv, n
<1>9. /\ index' \in Seq(Entries) /\ Unique(index')
      /\ Listed(index') = Listed(Without(n)) \cup {<<n, call[s].at>>}
      /\ NamesIn(index') = NamesIn(Without(n)) \cup {n}
  BY <1>2, <1>5, <1>8, AppendKeeps
<1>10. NamesIn(index') = NamesIn(index) \cup {n}
  BY <1>8, <1>9
<1>11. \A m, at : m # n => (<<m, at>> \in Listed(index') <=> <<m, at>> \in Listed(index))
  BY <1>8, <1>9
<1> QED
  BY <1>4, <1>6, <1>7, <1>9, <1>10, <1>11 DEF n

LEMMA UnlistFacts ==
  ASSUME StoreInv, CallInv, ReloadInv, NEW s \in Sessions, Unlist(s)
  PROVE  LET n == call[s].name IN
         /\ index' \in Seq(Entries) /\ Unique(index') /\ Replace(index') /\ reload.pc # "load"
         /\ n \notin NamesIn(index')
         /\ \A m : m # n => (m \in NamesIn(index') <=> m \in NamesIn(index))
         /\ \A m, at : m # n => (<<m, at>> \in Listed(index') <=> <<m, at>> \in Listed(index))
<1>1. call[s].name \in Names
  BY EditAtWork DEF Unlist
<1>2. index' = Without(call[s].name) /\ Replace(index')
  BY DEF Unlist, Replace
<1>3. reload.pc # "load"
  BY DEF Unlist, CallInv, ReloadInv
<1> QED
  BY <1>1, <1>2, <1>3, RemovalKeeps DEF StoreInv

(* The entry of a composition; the array keeps what it lists. *)
LEMMA EntryFound ==
  ASSUME StoreInv, ReloadInv, ComposeEntry
  PROVE  /\ index' \in Seq(Entries) /\ Unique(index') /\ Listed(index') = Listed(index)
         /\ NamesIn(index') = NamesIn(index) /\ Len(index') = Len(index)
<1> DEFINE e == Iterated[reload.i]
           o == IF e.name \in base THEN e.origin ELSE "added"
<1>1. reload \in ReloadType /\ reload.i \in 1 .. Len(Iterated)
  BY ReloadIsTyped, IteratedFacts, EntryFacts DEF ComposeEntry, Composing, ReloadType
<1>2. e \in Entries
  BY <1>1, IteratedFacts, EntryFacts DEF ComposeEntry, Composing
<1>3. o \in {"added", "patched"}
  BY <1>2 DEF Entries
<1>4. index' = [i \in DOMAIN index |-> IF <<index[i].name, index[i].at>> = <<e.name, e.at>>
                                       THEN [index[i] EXCEPT !.origin = o] ELSE index[i]]
  BY DEF ComposeEntry
<1> HIDE DEF e, o
<1> QED
  BY <1>3, <1>4, FlipKeeps, ZenonT(60) DEF StoreInv

LEMMA StartFacts ==
  ASSUME CallInv, StoreInv, NEW s \in Sessions, NEW op, NEW n, NEW p, NEW o, Start(s, op, n, p, o)
  PROVE  /\ up /\ call[s] = Idle
         /\ call'[s] = [pc |-> p, op |-> op, name |-> n, origin |-> o,
                        at |-> IF saves' > saves THEN saves' ELSE 0, own |-> FALSE]
         /\ \A t \in Sessions : t # s => call'[t] = call[t]
         /\ (call'[s] \in EditType \cup NothingType => call' \in [Sessions -> {Idle} \cup EditType \cup NothingType])
         /\ hurt' = (IF n # None /\ Busy(n) THEN hurt \cup {n} ELSE hurt)
         /\ UNCHANGED <<base, index, disk, file, writes, reload, served, up, incidents, raced>>
<1>1. call[s] = Idle
  BY DEF Start, CallInv, EditType, NothingType, Idle
<1> QED
  BY <1>1 DEF Start, CallInv, storeVars

LEMMA CreateSaveFacts ==
  ASSUME CallInv, StoreInv, NEW s \in Sessions, NEW n \in Names, Create(s, n) \/ Save(s, n)
  PROVE  /\ up /\ call[s] = Idle
         /\ call'[s] \in EditType /\ call'[s].pc = "remove" /\ call'[s].op \in {"create", "save"}
         /\ call'[s].name = n /\ call'[s].at # 0
         /\ \A t \in Sessions : t # s => call'[t] = call[t]
         /\ call' \in [Sessions -> {Idle} \cup EditType \cup NothingType]
         /\ hurt' = (IF Busy(n) THEN hurt \cup {n} ELSE hurt)
         /\ UNCHANGED <<base, index, disk, file, writes, reload, served, up, incidents, raced>>
<1>0. n # None
  BY ConstantsAssumption
<1>1. saves' = saves + 1 /\ saves < MaxSaves /\ saves \in 0 .. MaxSaves /\ MaxSaves \in Nat
  BY ConstantsAssumption DEF Create, Save, StoreInv
<1>2. saves' > saves /\ saves' \in 0 .. MaxSaves /\ saves' # 0
  BY <1>1
<1>3. PICK op \in {"create", "save"}, o \in {"added", "patched"} : Start(s, op, n, "remove", o)
  BY DEF Create, Save
<1>4. call'[s] = [pc |-> "remove", op |-> op, name |-> n, origin |-> o, at |-> saves', own |-> FALSE]
  BY <1>2, <1>3, StartFacts
<1>5. call'[s] \in EditType
  BY <1>2, <1>4 DEF EditType
<1> QED
  BY <1>0, <1>2, <1>3, <1>4, <1>5, StartFacts

LEMMA DropFacts ==
  ASSUME CallInv, StoreInv, NEW s \in Sessions, NEW n \in Names, Delete(s, n) \/ Revert(s, n)
  PROVE  /\ up /\ call[s] = Idle
         /\ call'[s] \in EditType /\ call'[s].pc = "remove" /\ call'[s].op \in {"delete", "revert"}
         /\ call'[s].name = n
         /\ \A t \in Sessions : t # s => call'[t] = call[t]
         /\ call' \in [Sessions -> {Idle} \cup EditType \cup NothingType]
         /\ hurt' = (IF Busy(n) THEN hurt \cup {n} ELSE hurt)
         /\ UNCHANGED <<base, index, disk, file, writes, reload, served, up, incidents, raced>>
<1>0. n # None
  BY ConstantsAssumption
<1>1. saves' = saves /\ saves \in Nat /\ 0 \in 0 .. MaxSaves
  BY ConstantsAssumption DEF Delete, Revert, Drop, StoreInv
<1>2. PICK op \in {"delete", "revert"}, o \in {"added", "patched"} : Start(s, op, n, "remove", o)
  BY DEF Delete, Revert, Drop
<1>3. call'[s] = [pc |-> "remove", op |-> op, name |-> n, origin |-> o, at |-> 0, own |-> FALSE]
  BY <1>1, <1>2, StartFacts
<1>4. call'[s] \in EditType
  BY <1>1, <1>3 DEF EditType
<1>5. /\ up /\ call[s] = Idle /\ \A t \in Sessions : t # s => call'[t] = call[t]
      /\ call' \in [Sessions -> {Idle} \cup EditType \cup NothingType]
      /\ hurt' = (IF Busy(n) THEN hurt \cup {n} ELSE hurt)
      /\ UNCHANGED <<base, index, disk, file, writes, reload, served, up, incidents, raced>>
  BY <1>0, <1>2, <1>4, StartFacts
<1>6. call'[s].pc = "remove" /\ call'[s].op \in {"delete", "revert"} /\ call'[s].name = n
  BY <1>3
<1> QED
  BY <1>4, <1>5, <1>6

LEMMA DropNothingFacts ==
  ASSUME CallInv, StoreInv, NEW s \in Sessions, DropNothing(s)
  PROVE  /\ up /\ call[s] = Idle
         /\ call'[s] \in NothingType /\ call'[s].pc = "reload" /\ call'[s].op = "none" /\ call'[s].name = None
         /\ \A t \in Sessions : t # s => call'[t] = call[t]
         /\ call' \in [Sessions -> {Idle} \cup EditType \cup NothingType]
         /\ UNCHANGED <<base, index, disk, file, writes, reload, served, up, incidents, raced, hurt>>
<1>1. saves' = saves /\ saves \in Nat
  BY ConstantsAssumption DEF DropNothing, StoreInv
<1>2. Start(s, "none", None, "reload", None)
  BY DEF DropNothing
<1>3. call'[s] = [pc |-> "reload", op |-> "none", name |-> None, origin |-> None, at |-> 0, own |-> FALSE]
  BY <1>1, <1>2, StartFacts
<1>4. call'[s] \in NothingType
  BY <1>3 DEF NothingType
<1>5. /\ up /\ call[s] = Idle /\ \A t \in Sessions : t # s => call'[t] = call[t]
      /\ call' \in [Sessions -> {Idle} \cup EditType \cup NothingType]
      /\ UNCHANGED <<base, index, disk, file, writes, reload, served, up, incidents, raced, hurt>>
  BY <1>2, <1>4, StartFacts
<1>6. call'[s].pc = "reload" /\ call'[s].op = "none" /\ call'[s].name = None
  BY <1>3
<1> QED
  BY <1>4, <1>5, <1>6

LEMMA StoreStep ==
  ASSUME IInv, [Next]_vars
  PROVE  StoreInv'
<1> StoreInv /\ CallInv /\ ReloadInv
  BY DEF IInv
<1>1. ASSUME NEW s \in Sessions, NEW n \in Names, Create(s, n) \/ Save(s, n)
      PROVE  StoreInv'
  <2>1. saves' = saves + 1 /\ saves < MaxSaves
    BY <1>1 DEF Create, Save
  <2>2. hurt' \subseteq Names /\ UNCHANGED <<base, index, disk, file, writes, served>>
    BY <1>1, CreateSaveFacts DEF StoreInv
  <2> QED
    BY <2>1, <2>2, ConstantsAssumption DEF StoreInv
<1>2. ASSUME NEW s \in Sessions, NEW n \in Names, Delete(s, n) \/ Revert(s, n)
      PROVE  StoreInv'
  <2>1. hurt' \subseteq hurt \cup {n} /\ UNCHANGED <<base, index, disk, file, writes, served, saves>>
    BY <1>2 DEF Delete, Revert, Drop, Start, storeVars
  <2> QED
    BY <2>1 DEF StoreInv
<1>3. ASSUME NEW s \in Sessions, DropNothing(s)
      PROVE  StoreInv'
  <2>1. UNCHANGED <<base, index, disk, file, writes, served, saves, hurt>>
    BY <1>3 DEF DropNothing, Start, storeVars
  <2> QED
    BY <2>1 DEF StoreInv
<1>4. ASSUME NEW s \in Sessions, RemoveDir(s) \/ WriteFile(s)
      PROVE  StoreInv'
  <2>1. call[s] \in EditType /\ call[s].name \in Names
    BY <1>4, EditAtWork DEF RemoveDir, WriteFile, Files
  <2>2. UNCHANGED <<base, index, file, writes, served, saves, hurt>>
    BY <1>4 DEF RemoveDir, WriteFile, AfterCall, bounds
  <2>3. disk' \in [Names -> [Files -> 0 .. MaxSaves]]
    <3>1. CASE RemoveDir(s)
      <4>1. Empty \in [Files -> 0 .. MaxSaves]
        BY ConstantsAssumption DEF Empty
      <4> QED
        BY <3>1, <4>1 DEF RemoveDir, StoreInv
    <3>2. CASE WriteFile(s)
      <4>1. call[s].at \in 0 .. MaxSaves
        BY <2>1 DEF EditType
      <4> QED
        BY <3>2, <4>1 DEF WriteFile, StoreInv
    <3> QED
      BY <1>4, <3>1, <3>2
  <2> QED
    BY <2>2, <2>3 DEF StoreInv
<1>5. ASSUME NEW s \in Sessions, Upsert(s) \/ Unlist(s)
      PROVE  StoreInv'
  <2>1. index' \in Seq(Entries) /\ Unique(index')
    BY <1>5, UpsertFacts, UnlistFacts
  <2>2. UNCHANGED <<base, disk, file, writes, served, saves, hurt>>
    BY <1>5 DEF Upsert, Unlist, AfterCall, bounds
  <2> QED
    BY <2>1, <2>2 DEF StoreInv
<1>6. ASSUME NEW s \in Sessions, Persist(s)
      PROVE  StoreInv'
  <2>1. PersistBy(s) /\ UNCHANGED <<base, disk, served, saves, hurt>>
    BY <1>6 DEF Persist, AfterCall, bounds
  <2> QED
    BY <2>1, PersistFacts DEF StoreInv, PersistBy
<1>7. ASSUME NEW s \in Sessions, Written(s)
      PROVE  StoreInv'
  <2>1. WrittenBy(s) /\ UNCHANGED <<base, served, saves, hurt>>
    BY <1>7 DEF Written, AfterCall, bounds
  <2> QED
    BY <2>1, WrittenFacts DEF StoreInv
<1>8. ASSUME NEW s \in Sessions, Reload(s)
      PROVE  StoreInv'
  <2>1. UNCHANGED <<base, index, disk, file, writes, served, saves, hurt>>
    BY <1>8 DEF Reload, AfterCall, bounds, storeVars
  <2> QED
    BY <2>1 DEF StoreInv
<1>9. ASSUME NEW s \in Sessions, CallFails(s)
      PROVE  StoreInv'
  <2>1. call[s].name \in Names
    BY <1>9, EditAtWork DEF CallFails, Files
  <2>2. hurt' = hurt \cup {call[s].name} /\ writes' \subseteq writes /\ UNCHANGED <<base, index, disk, file, served, saves>>
    BY <1>9 DEF CallFails, AfterCall, bounds
  <2> QED
    BY <2>1, <2>2 DEF StoreInv
<1>10. CASE Recover
  <2>1. UNCHANGED <<base, index, disk, file, writes, served, saves, hurt>>
    BY <1>10 DEF Recover, storeVars
  <2> QED
    BY <2>1 DEF StoreInv
<1>11. CASE ComposeEntry
  <2>1. index' \in Seq(Entries) /\ Unique(index')
    BY <1>11, EntryFound
  <2>2. UNCHANGED <<disk, file, writes, base, served, saves, hurt>>
    BY <1>11 DEF ComposeEntry, ReloadFails, AfterCall, bounds
  <2> QED
    BY <2>1, <2>2 DEF StoreInv
<1>12. CASE ComposePersist
  <2>1. PersistBy("reload") /\ UNCHANGED <<base, disk, served, saves, hurt>>
    BY <1>12 DEF ComposePersist, AfterCall, bounds
  <2> QED
    BY <2>1, PersistFacts DEF StoreInv, PersistBy
<1>13. CASE ComposeWritten \/ Loaded
  <2>1. WrittenBy("reload") /\ UNCHANGED <<base, served, saves, hurt>>
    BY <1>13 DEF ComposeWritten, Loaded, AfterCall, bounds
  <2> QED
    BY <2>1, WrittenFacts DEF StoreInv
<1>14. CASE Bundle
  <2>1. UNCHANGED <<base, index, disk, file, writes, served, saves, hurt>>
    BY <1>14 DEF Bundle, ReloadFails, AfterCall, bounds, storeVars
  <2> QED
    BY <2>1 DEF StoreInv
<1>15. CASE Swap
  <2>1. served' = reload.next /\ UNCHANGED <<base, index, disk, file, writes, saves, hurt>>
    BY <1>15 DEF Swap, bounds, storeVars
  <2>2. reload.next \in ServedType
    BY <1>15 DEF Swap, ReloadInv
  <2> QED
    BY <2>1, <2>2 DEF StoreInv
<1>16. CASE Restart
  <2>1. /\ base' \in Firmwares /\ index' = (IF file = Torn THEN <<>> ELSE file) /\ file' = Torn
        /\ writes' = {[by |-> "reload", text |-> index', alone |-> TRUE]}
        /\ served' = [n \in {} |-> Prebuilt] /\ UNCHANGED <<disk, saves>>
    BY <1>16 DEF Restart
  <2>2. hurt' \subseteq Names
    BY <1>16 DEF Restart, StoreInv
  <2>3. index' \in Seq(Entries) /\ Unique(index')
    BY <2>1, EmptySeq DEF StoreInv, Unique
  <2>4. served' \in ServedType
    <3>1. served' \in [{} -> [Files -> 0 .. MaxSaves]] /\ {} \in SUBSET Names
      BY <2>1
    <3> QED
      BY <3>1 DEF ServedType
  <2>5. \A w \in writes' : w \in WriteType /\ Unique(w.text)
    <3>1. \A w \in writes' : w = [by |-> "reload", text |-> index', alone |-> TRUE]
      BY <2>1
    <3> DEFINE first == [by |-> "reload", text |-> index', alone |-> TRUE]
    <3>2. first \in WriteType /\ first.text = index'
      BY <2>3 DEF WriteType
    <3> HIDE DEF first
    <3>3. Unique(first.text)
      BY <2>3, <3>2
    <3> QED
      BY <3>1, <3>2, <3>3 DEF first
  <2> QED
    BY <2>1, <2>2, <2>3, <2>4, <2>5 DEF StoreInv
<1>17. CASE UNCHANGED vars
  BY <1>17 DEF vars, storeVars, bounds, StoreInv
<1> QED
  BY <1>1, <1>2, <1>3, <1>4, <1>5, <1>6, <1>7, <1>8, <1>9, <1>10, <1>11, <1>12, <1>13, <1>14, <1>15, <1>16, <1>17 DEF Next, SessionStep, ReloadStep

LEMMA CallStep ==
  ASSUME IInv, [Next]_vars
  PROVE  CallInv'
<1> StoreInv /\ CallInv /\ ReloadInv
  BY DEF IInv
<1>1. ASSUME NEW s \in Sessions, NEW n \in Names, Create(s, n) \/ Save(s, n) \/ Delete(s, n) \/ Revert(s, n)
      PROVE  CallInv'
  <2>1. call'[s] \in EditType /\ call'[s].pc = "remove" /\ (Writes(s)' => call'[s].at # 0)
    BY <1>1, CreateSaveFacts, DropFacts DEF Writes
  <2>2. /\ up /\ \A t \in Sessions : t # s => call'[t] = call[t]
        /\ call' \in [Sessions -> {Idle} \cup EditType \cup NothingType]
        /\ UNCHANGED <<reload, up>>
    BY <1>1, CreateSaveFacts, DropFacts
  <2> QED
    BY <2>1, <2>2 DEF CallInv, Writes, Files
<1>2. ASSUME NEW s \in Sessions, DropNothing(s)
      PROVE  CallInv'
  <2>1. call'[s] \in NothingType /\ call'[s].pc = "reload"
    BY <1>2, DropNothingFacts
  <2>2. /\ up /\ \A t \in Sessions : t # s => call'[t] = call[t]
        /\ call' \in [Sessions -> {Idle} \cup EditType \cup NothingType]
        /\ UNCHANGED <<reload, up>>
    BY <1>2, DropNothingFacts
  <2>3. call'[s] \notin EditType
    BY <2>1 DEF EditType, NothingType
  <2> QED
    BY <2>1, <2>2, <2>3 DEF CallInv, Writes
<1>3. ASSUME NEW s \in Sessions, RemoveDir(s) \/ WriteFile(s) \/ Upsert(s) \/ Unlist(s) \/ Persist(s) \/ Written(s)
      PROVE  CallInv'
  <2>1. call[s] \in EditType /\ call[s].pc \notin {"idle", "reload", "wait"}
    BY <1>3, EditAtWork DEF RemoveDir, WriteFile, Upsert, Unlist, Persist, Written, Files
  <2>2. PICK p \in {"index.ts", "1tube.json", "list", "unlist", "persist", "written", "reload"} :
          GoOn(s, p) /\ IF Writes(s) THEN p # "unlist" ELSE p \notin Files \cup {"list"}
    BY <1>3, <2>1 DEF RemoveDir, WriteFile, Upsert, Unlist, Persist, Written, CallInv, Files
  <2>3. /\ call'[s] \in EditType /\ call'[s].pc = p
        /\ \A f \in {"op", "name", "origin", "at", "own"} : call'[s][f] = call[s][f]
        /\ \A t \in Sessions : t # s => call'[t] = call[t]
        /\ call' \in [Sessions -> {Idle} \cup EditType \cup NothingType]
    BY <2>1, <2>2, GoOnFacts
  <2>4. up /\ up' /\ (Writes(s)' <=> Writes(s)) /\ call'[s].at = call[s].at
    BY <1>3, <2>1, <2>3 DEF CallInv, Writes, RemoveDir, WriteFile, Upsert, Unlist, Persist, Written, AfterCall
  <2>5. reload'.pc = reload.pc
    BY <1>3, UpsertFacts, UnlistFacts, ReplaceFacts DEF RemoveDir, WriteFile, Persist, Written
  <2> QED
    BY <2>1, <2>2, <2>3, <2>4, <2>5 DEF CallInv, Writes
<1>4. ASSUME NEW s \in Sessions, Reload(s)
      PROVE  CallInv'
  <2>1. call[s] \in EditType \cup NothingType /\ up /\ up'
    BY <1>4 DEF Reload, CallInv, Idle, AfterCall
  <2> DEFINE own == reload.pc = "none"
  <2>2. call'[s] = [call[s] EXCEPT !.pc = "wait", !.own = own] /\ \A t \in Sessions : t # s => call'[t] = call[t]
    BY <1>4 DEF Reload, CallInv
  <2>3. own \in BOOLEAN
    OBVIOUS
  <2>4. reload'.pc \in {"compose", "written", "bundle", "swap"}
    <3>1. CASE reload.pc = "none"
      BY <1>4, <3>1 DEF Reload, NewReload
    <3>2. CASE reload.pc # "none"
      <4>1. reload \in ReloadType /\ reload.pc # "load"
        BY <2>1, <3>2, ReloadIsTyped DEF ReloadInv
      <4> QED
        BY <1>4, <3>2, <4>1 DEF Reload, ReloadType
    <3> QED
      BY <3>1, <3>2
  <2> HIDE DEF own
  <2>5. /\ call[s] \in EditType => /\ call'[s] \in EditType
                                   /\ call'[s].at = call[s].at /\ call'[s].op = call[s].op
        /\ call[s] \in NothingType => call'[s] \in NothingType /\ call'[s] \notin EditType
        /\ call'[s].pc = "wait"
    BY <2>1, <2>2, <2>3 DEF EditType, NothingType
  <2>6. call' \in [Sessions -> {Idle} \cup EditType \cup NothingType]
    BY <1>4, <2>1, <2>5 DEF Reload, CallInv
  <2>7. call[s] \in NothingType => call[s] \notin EditType
    BY DEF EditType, NothingType
  <2> QED
    BY <2>1, <2>2, <2>4, <2>5, <2>6, <2>7, ZenonT(60) DEF CallInv, Writes, Files
<1>5. ASSUME NEW s \in Sessions, CallFails(s)
      PROVE  CallInv'
  <2>1. call' = [call EXCEPT ![s] = Idle] /\ UNCHANGED <<reload, up>>
    BY <1>5 DEF CallFails, AfterCall
  <2>2. call'[s] = Idle /\ call' \in [Sessions -> {Idle} \cup EditType \cup NothingType]
        /\ \A t \in Sessions : t # s => call'[t] = call[t]
    BY <2>1 DEF CallInv
  <2>3. Idle \notin EditType /\ Idle.pc = "idle"
    BY DEF Idle, EditType
  <2> QED
    BY <2>1, <2>2, <2>3 DEF CallInv, Writes
<1>6. CASE Recover \/ ComposePersist \/ ComposeWritten
  <2>1. UNCHANGED <<call, up>>
    BY <1>6 DEF Recover, ComposePersist, ComposeWritten, AfterCall
  <2>2. reload'.pc \in {"compose", "written", "bundle", "swap"}
    BY <1>6, ReloadIsTyped DEF Recover, ComposePersist, ComposeWritten, NewReload, Composing, ReloadType
  <2> QED
    BY <2>1, <2>2 DEF CallInv, Writes
<1>7. CASE ComposeEntry \/ Bundle
  <2>1. CASE UNCHANGED <<call, up>> /\ reload'.pc \in {"compose", "swap"}
    BY <2>1 DEF CallInv, Writes
  <2>2. CASE Settle /\ UNCHANGED up
    BY <2>2, SettleFacts DEF CallInv, Writes, Idle, EditType
  <2> QED
    BY <1>7, <2>1, <2>2, ReloadIsTyped DEF ComposeEntry, Bundle, Composing, ReloadFails, AfterCall, ReloadType
<1>8. CASE Swap
  <2>1. Settle /\ up'
    BY <1>8 DEF Swap
  <2> QED
    BY <2>1, SettleFacts DEF CallInv, Writes, Idle, EditType
<1>9. CASE Loaded
  <2>1. ~up /\ UNCHANGED <<call, up>>
    BY <1>9 DEF Loaded, ReloadInv, AfterCall
  <2> QED
    BY <2>1 DEF CallInv, Writes
<1>10. CASE Restart
  <2>1. call' = [s \in Sessions |-> Idle]
    BY <1>10 DEF Restart
  <2> QED
    BY <2>1 DEF CallInv, Writes, Idle, EditType
<1>11. CASE UNCHANGED vars
  BY <1>11 DEF vars, CallInv, Writes
<1> QED
  BY <1>1, <1>2, <1>3, <1>4, <1>5, <1>6, <1>7, <1>8, <1>9, <1>10, <1>11 DEF Next, SessionStep, ReloadStep


-----------------------------------------------------------------------------
(* Reloads *)

LEMMA NewIsSound ==
  ASSUME reload' = NewReload
  PROVE  ReloadInv'
<1>1. <<>> \in Seq(OutType) /\ Len(<<>>) = 0
  BY EmptySeq
<1>2. /\ reload' \in ReloadType /\ reload'.pc = "compose" /\ reload'.list = None /\ reload'.out = <<>> /\ reload'.i = 1
  BY <1>1 DEF NewReload, ReloadType
<1>3. OverlayNames' = {}
  BY <1>2 DEF OverlayNames
<1> QED
  BY <1>1, <1>2, <1>3 DEF ReloadInv

(* What Bundle hands to Swap. *)
LEMMA OverlayFacts ==
  ASSUME reload \in ReloadType
  PROVE  /\ OverlayNames \subseteq Names
         /\ \A n \in OverlayNames : ManifestOf(n) \in 0 .. MaxSaves
<1>1. reload.out \in Seq(OutType)
  BY DEF ReloadType
<1>2. \A i \in DOMAIN reload.out : reload.out[i] \in OutType
  BY <1>1, ElementOfSeq, LenProperties
<1>3. \A i \in DOMAIN reload.out : reload.out[i].name \in Names /\ reload.out[i].manifest \in 0 .. MaxSaves
  BY <1>2 DEF OutType
<1> QED
  BY <1>3 DEF OverlayNames, ManifestOf

LEMMA NextIsSound ==
  ASSUME StoreInv, reload \in ReloadType
  PROVE  LET next == [n \in Unpatched \cup OverlayNames |->
                 IF n \in OverlayNames
                 THEN [f \in Files |-> IF f = "index.ts" THEN disk[n][f] ELSE ManifestOf(n)]
                 ELSE Prebuilt]
         IN  next \in ServedType /\ base \subseteq DOMAIN next
<1> DEFINE D == Unpatched \cup OverlayNames
           over(n) == [f \in Files |-> IF f = "index.ts" THEN disk[n][f] ELSE ManifestOf(n)]
           next == [n \in D |-> IF n \in OverlayNames THEN over(n) ELSE Prebuilt]
<1>1. D \subseteq Names
  BY OverlayFacts, ConstantsAssumption DEF Unpatched, StoreInv
<1>2. base \subseteq D
  BY DEF Unpatched, Patched
<1>3. \A n \in OverlayNames : over(n) \in [Files -> 0 .. MaxSaves]
  BY OverlayFacts DEF StoreInv, Files
<1>4. Prebuilt \in [Files -> 0 .. MaxSaves]
  BY ConstantsAssumption DEF Prebuilt, Empty
<1> HIDE DEF D, over
<1>5. next \in [D -> [Files -> 0 .. MaxSaves]]
  BY <1>3, <1>4
<1>6. next \in ServedType
  BY <1>1, <1>5 DEF ServedType
<1> QED
  BY <1>2, <1>6 DEF D, over

LEMMA OutGrows ==
  ASSUME NEW out \in Seq(OutType), NEW x \in OutType
  PROVE  /\ Append(out, x) \in Seq(OutType) /\ Len(Append(out, x)) = Len(out) + 1 /\ Len(out) \in Nat
         /\ \A i \in DOMAIN Append(out, x) : Append(out, x)[i] = x
              \/ (i \in DOMAIN out /\ Append(out, x)[i] = out[i])
         /\ \A i \in DOMAIN out : i \in DOMAIN Append(out, x) /\ Append(out, x)[i] = out[i]
         /\ Len(Append(out, x)) \in DOMAIN Append(out, x) /\ Append(out, x)[Len(Append(out, x))] = x
<1> DEFINE u == Append(out, x)
           n == Len(out)
<1>1. /\ n \in Nat /\ DOMAIN out = 1 .. n /\ u \in Seq(OutType) /\ Len(u) = n + 1 /\ DOMAIN u = 1 .. n + 1
      /\ u[n + 1] = x /\ \A i \in 1 .. n : u[i] = out[i]
  BY AppendProperties, LenProperties
<1> HIDE DEF u, n
<1>2. \A i \in 1 .. n + 1 : i \in 1 .. n \/ i = n + 1
  BY <1>1
<1>3. \A i \in 1 .. n : i \in 1 .. n + 1
  BY <1>1
<1>4. n + 1 \in 1 .. n + 1
  BY <1>1
<1>5. \A i \in DOMAIN u : u[i] = x \/ (i \in DOMAIN out /\ u[i] = out[i])
  <2> SUFFICES ASSUME NEW i \in 1 .. n + 1 PROVE u[i] = x \/ (i \in DOMAIN out /\ u[i] = out[i])
    BY <1>1
  <2>1. CASE i \in 1 .. n
    <3>1. i \in DOMAIN out /\ u[i] = out[i]
      BY <1>1, <2>1
    <3> QED
      BY <3>1
  <2>2. CASE i = n + 1
    <3>1. u[i] = x
      BY <1>1, <2>2
    <3> QED
      BY <3>1
  <2> QED
    BY <1>2, <2>1, <2>2
<1>6. \A i \in DOMAIN out : i \in DOMAIN u /\ u[i] = out[i]
  BY <1>1, <1>3
<1>7. Len(u) \in DOMAIN u /\ u[Len(u)] = x
  BY <1>1, <1>4
<1> QED
  BY <1>1, <1>5, <1>6, <1>7 DEF u, n

LEMMA ReloadInvStep ==
  ASSUME IInv, [Next]_vars
  PROVE  ReloadInv'
<1> StoreInv /\ CallInv /\ ReloadInv
  BY DEF IInv
<1>1. ASSUME NEW s \in Sessions, NEW n \in Names, Create(s, n) \/ Save(s, n) \/ Delete(s, n) \/ Revert(s, n)
      PROVE  ReloadInv'
  <2>1. UNCHANGED <<index, reload, up, base>>
    BY <1>1, CreateSaveFacts, DropFacts
  <2> QED
    BY <2>1 DEF ReloadInv, Iterated, OverlayNames
<1>2. ASSUME NEW s \in Sessions, DropNothing(s) \/ RemoveDir(s) \/ WriteFile(s) \/ Written(s) \/ CallFails(s)
      PROVE  ReloadInv'
  <2>1. UNCHANGED <<index, reload, up, base>>
    BY <1>2, DropNothingFacts DEF RemoveDir, WriteFile, Written, WrittenBy, CallFails, AfterCall
  <2> QED
    BY <2>1 DEF ReloadInv, Iterated, OverlayNames
<1>3. ASSUME NEW s \in Sessions, Upsert(s) \/ Unlist(s)
      PROVE  ReloadInv'
  <2>1. UNCHANGED <<up, base>> /\ reload.pc # "load"
        /\ index' \in Seq(Entries) /\ Unique(index') /\ Replace(index')
    BY <1>3, UpsertFacts, UnlistFacts DEF Upsert, Unlist, AfterCall
  <2>2. /\ reload'.pc = reload.pc
        /\ reload = NoReload => reload' = NoReload
        /\ reload # NoReload => /\ reload' \in ReloadType
                                /\ reload'.list # None => Unique(reload'.list)
                                /\ reload'.i = reload.i /\ reload'.out = reload.out /\ reload'.next = reload.next
        /\ reload.pc = "compose" => Iterated' = Iterated
    BY <2>1, ReplaceFacts
  <2>3. CASE reload = NoReload
    BY <2>2, <2>3 DEF ReloadInv, NoReload
  <2>4. CASE reload # NoReload
    BY <2>1, <2>2, <2>4 DEF ReloadInv, OverlayNames
  <2> QED
    BY <2>3, <2>4
<1>4. ASSUME NEW s \in Sessions, Persist(s)
      PROVE  ReloadInv'
  <2>1. PersistBy(s) /\ UNCHANGED <<reload, up, base>>
    BY <1>4 DEF Persist, AfterCall
  <2>2. NamesIn(index') = NamesIn(index)
    BY <2>1, PersistFacts
  <2> QED
    BY <2>1, <2>2 DEF ReloadInv, Iterated, OverlayNames
<1>5. ASSUME NEW s \in Sessions, Reload(s)
      PROVE  ReloadInv'
  <2>1. UNCHANGED <<index, up, base>> /\ reload' = IF reload.pc = "none" THEN NewReload ELSE reload
    BY <1>5 DEF Reload, AfterCall, storeVars
  <2>2. CASE reload.pc = "none"
    BY <2>1, <2>2, NewIsSound
  <2>3. CASE reload.pc # "none"
    BY <2>1, <2>3 DEF ReloadInv, Iterated, OverlayNames
  <2> QED
    BY <2>2, <2>3
<1>6. CASE Recover
  BY <1>6, NewIsSound DEF Recover
<1>7. CASE ComposeEntry
  <2>1. CASE reload' = NoReload
    BY <2>1 DEF ReloadInv, NoReload
  <2>2. CASE reload' # NoReload
    <3> DEFINE e == Iterated[reload.i]
    <3>1. reload \in ReloadType /\ reload.pc = "compose" /\ reload # NoReload /\ reload.i \in DOMAIN Iterated
      BY <1>7, ReloadIsTyped, IteratedFacts, EntryFacts DEF ComposeEntry, Composing, ReloadType, NoReload
    <3>2. e \in Entries /\ e.name \in Names /\ e.name \in NamesIn(Iterated)
      BY <3>1, IteratedFacts, EntryFacts DEF NamesIn
    <3> DEFINE x == [name |-> e.name, origin |-> IF e.name \in base THEN e.origin ELSE "added",
                     manifest |-> disk[e.name]["1tube.json"]]
    <3>3. reload' = [reload EXCEPT !.i = @ + 1, !.out = Append(@, x)] /\ UNCHANGED <<base, up>>
      BY <1>7, <2>2 DEF ComposeEntry, ReloadFails, Settle, AfterCall
    <3>4. x \in OutType /\ x.name = e.name
      <4>1. e.origin \in {"added", "patched"}
        BY <3>2 DEF Entries
      <4>2. disk[e.name]["1tube.json"] \in 0 .. MaxSaves
        BY <3>2 DEF StoreInv, Files
      <4> QED
        BY <3>2, <4>1, <4>2 DEF OutType
    <3>5. NamesIn(index') = NamesIn(index) /\ index' \in Seq(Entries)
      BY <1>7, EntryFound
    <3> HIDE DEF e, x
    <3>6. reload.out \in Seq(OutType) /\ reload.i \in Nat \ {0}
      BY <3>1 DEF ReloadType
    <3>7. /\ Append(reload.out, x) \in Seq(OutType) /\ Len(Append(reload.out, x)) = Len(reload.out) + 1
          /\ \A i \in DOMAIN Append(reload.out, x) : Append(reload.out, x)[i] = x
               \/ (i \in DOMAIN reload.out /\ Append(reload.out, x)[i] = reload.out[i])
      BY <3>4, <3>6, OutGrows
    <3>8. /\ reload' \in ReloadType /\ reload'.out = Append(reload.out, x) /\ reload'.i = reload.i + 1
          /\ reload'.pc = "compose" /\ reload'.list = reload.list
      <4> DEFINE out == Append(reload.out, x)
                 k == reload.i + 1
      <4>1. reload' = [reload EXCEPT !.i = k, !.out = out] /\ k \in Nat \ {0} /\ out \in Seq(OutType)
        BY <3>1, <3>3, <3>6, <3>7 DEF ReloadType
      <4> HIDE DEF out, k
      <4>2. reload' \in ReloadType /\ reload'.out = out /\ reload'.i = k /\ reload'.pc = "compose" /\ reload'.list = reload.list
        BY <3>1, <4>1 DEF ReloadType
      <4> QED
        BY <4>2 DEF out, k
    <3>9. OverlayNames' \subseteq OverlayNames \cup {e.name}
      BY <3>4, <3>7, <3>8 DEF OverlayNames
    <3>10. NamesIn(Iterated') = NamesIn(Iterated)
      BY <3>5, <3>8 DEF Iterated
    <3>11. OverlayNames' \subseteq NamesIn(Iterated')
      BY <3>1, <3>2, <3>9, <3>10 DEF ReloadInv
    <3>12. Len(reload'.out) + 1 = reload'.i
      <4>1. Len(reload.out) + 1 = reload.i /\ Len(reload.out) \in Nat
        BY <3>1, <3>6, LenProperties DEF ReloadInv
      <4> QED
        BY <3>7, <3>8, <4>1
    <3>13. reload'.list # None => Unique(reload'.list)
      BY <3>1, <3>8 DEF ReloadInv
    <3> QED
      BY <3>8, <3>11, <3>12, <3>13 DEF ReloadInv
  <2> QED
    BY <2>1, <2>2
<1>8. CASE ComposePersist \/ ComposeWritten
  <2>1. reload \in ReloadType /\ reload # NoReload
    BY <1>8, ReloadIsTyped DEF ComposePersist, ComposeWritten, Composing, NoReload
  <2>2. /\ reload' \in ReloadType /\ reload'.pc \in {"written", "bundle"} /\ reload'.list = reload.list
    BY <1>8, <2>1 DEF ComposePersist, ComposeWritten, ReloadType
  <2> QED
    BY <2>1, <2>2 DEF ReloadInv
<1>9. CASE Bundle
  <2>1. CASE reload' = NoReload
    BY <2>1 DEF ReloadInv, NoReload
  <2>2. CASE reload' # NoReload
    <3> DEFINE next == [n \in Unpatched \cup OverlayNames |->
                 IF n \in OverlayNames
                 THEN [f \in Files |-> IF f = "index.ts" THEN disk[n][f] ELSE ManifestOf(n)]
                 ELSE Prebuilt]
    <3>1. reload \in ReloadType /\ reload # NoReload
      BY <1>9, ReloadIsTyped DEF Bundle, NoReload
    <3>2. reload' = [reload EXCEPT !.pc = "swap", !.next = next] /\ UNCHANGED base
      BY <1>9, <2>2 DEF Bundle, ReloadFails, Settle, AfterCall
    <3>3. next \in ServedType /\ base \subseteq DOMAIN next
      BY <3>1, NextIsSound
    <3> HIDE DEF next
    <3>4. reload' \in ReloadType /\ reload'.pc = "swap" /\ reload'.next = next /\ reload'.list = reload.list
      BY <3>1, <3>2, <3>3 DEF ReloadType
    <3> QED
      BY <3>1, <3>2, <3>3, <3>4 DEF ReloadInv
  <2> QED
    BY <2>1, <2>2
<1>10. CASE Swap
  <2>1. reload' = NoReload
    BY <1>10 DEF Swap, Settle
  <2> QED
    BY <2>1 DEF ReloadInv, NoReload
<1>11. CASE Loaded
  <2>1. CASE reload' = NoReload
    BY <2>1 DEF ReloadInv, NoReload
  <2>2. CASE reload' # NoReload
    <3>1. reload \in ReloadType /\ reload # NoReload
      BY <1>11, ReloadIsTyped DEF Loaded, NoReload
    <3>2. reload' = [reload EXCEPT !.pc = "compose"] /\ UNCHANGED <<index, base, up>>
      BY <1>11, <2>2 DEF Loaded, WrittenBy, AfterCall
    <3>3. /\ reload' \in ReloadType /\ reload'.pc = "compose" /\ reload'.list = reload.list
          /\ reload'.out = reload.out /\ reload'.i = reload.i
      BY <3>1, <3>2 DEF ReloadType
    <3>4. Iterated' = Iterated /\ OverlayNames' = OverlayNames /\ reload.pc = "load"
      BY <1>11, <3>2, <3>3 DEF Iterated, OverlayNames, Loaded
    <3>5. reload'.list # None => Unique(reload'.list)
      BY <3>1, <3>3 DEF ReloadInv
    <3>6. Len(reload'.out) + 1 = reload'.i /\ OverlayNames' \subseteq NamesIn(Iterated)'
      BY <3>3, <3>4 DEF ReloadInv, NamesIn
    <3> QED
      BY <3>3, <3>5, <3>6 DEF ReloadInv
  <2> QED
    BY <2>1, <2>2
<1>12. CASE Restart
  <2>1. reload' = [NewReload EXCEPT !.pc = "load"] /\ ~up'
    BY <1>12 DEF Restart
  <2>2. <<>> \in Seq(OutType) /\ Len(<<>>) = 0
    BY EmptySeq
  <2>3. /\ reload' \in ReloadType /\ reload'.pc = "load" /\ reload'.list = None /\ reload'.out = <<>> /\ reload'.i = 1
    <3>1. reload' = [pc |-> "load", i |-> 1, list |-> None, out |-> <<>>, next |-> <<>>]
      BY <2>1 DEF NewReload
    <3>2. 1 \in Nat \ {0} /\ None \in {None} \cup Seq(Entries) /\ <<>> \in {<<>>} \cup ServedType
      OBVIOUS
    <3> QED
      BY <2>2, <3>1, <3>2 DEF ReloadType
  <2>4. OverlayNames' = {}
    BY <2>3 DEF OverlayNames
  <2> QED
    BY <2>1, <2>2, <2>3, <2>4 DEF ReloadInv
<1>13. CASE UNCHANGED vars
  BY <1>13 DEF vars, storeVars, ReloadInv, Iterated, OverlayNames
<1> QED
  BY <1>1, <1>2, <1>3, <1>4, <1>5, <1>6, <1>7, <1>8, <1>9, <1>10, <1>11, <1>12, <1>13 DEF Next, SessionStep, ReloadStep


LEMMA FirmwareStep ==
  ASSUME IInv, [Next]_vars
  PROVE  FirmwareInv'
<1>1. CASE Swap
  BY <1>1 DEF Swap, IInv, ReloadInv, FirmwareInv
<1>2. CASE Restart
  BY <1>2 DEF Restart, FirmwareInv
<1>3. CASE ~Swap /\ ~Restart
  <2>1. UNCHANGED <<base, served, up>>
    BY <1>3 DEF Next, SessionStep, ReloadStep, vars, storeVars, bounds, Create, Save, Delete, Revert, Drop, DropNothing,
      Start, RemoveDir, WriteFile, Upsert, Unlist, Persist, Written, Reload, CallFails, AfterCall, Recover,
      ComposeEntry, ComposePersist, ComposeWritten, Bundle, ReloadFails, Loaded
  <2> QED
    BY <2>1 DEF FirmwareInv, IInv
<1> QED
  BY <1>1, <1>2, <1>3

-----------------------------------------------------------------------------
(* Files and index *)

(* What a step leaves of a name. *)
KeptOf(n) == /\ disk'[n] = disk[n] /\ (n \in NamesIn(index') <=> n \in NamesIn(index))
             /\ \A at \in Nat : <<n, at>> \in Listed(index') <=> <<n, at>> \in Listed(index)

LEMMA EditOn ==
  ASSUME CallInv, NEW s \in Sessions, NEW n \in Names, On(s, n)
  PROVE  call[s] \in EditType /\ call[s].name = n /\ (Writes(s) => call[s].at \in 1 .. MaxSaves)
<1>1. n # None
  BY ConstantsAssumption
<1>2. call[s] \in EditType /\ call[s].name = n
  BY <1>1 DEF On, CallInv, Idle, NothingType
<1>3. Writes(s) => call[s].at # 0 /\ call[s].at \in 0 .. MaxSaves
  BY <1>2 DEF CallInv, EditType
<1>4. Writes(s) => call[s].at \in 1 .. MaxSaves
  BY <1>3, ConstantsAssumption
<1> QED
  BY <1>2, <1>4

LEMMA StepTo ==
  ASSUME CallInv, NEW s \in Sessions, call[s] \in EditType, NEW p, GoOn(s, p)
  PROVE  call'[s].pc = p
BY DEF CallInv, GoOn, EditType

(* A name that a step does not touch. *)
LEMMA Untouched ==
  ASSUME CallInv, NEW n \in Names, WholeAt(n), KeptOf(n),
         \A s \in Sessions : call'[s] = call[s] \/ (~On(s, n) /\ ~On(s, n)')
  PROVE  WholeAt(n)'
<1>1. \A s \in Sessions : On(s, n)' => On(s, n) /\ call'[s] = call[s]
  BY DEF On
<1>2. \A s \in Sessions : On(s, n) => On(s, n)' /\ call'[s] = call[s]
  BY DEF On
<1>3. ASSUME ~Busy(n)' PROVE Settled(index, n)'
  <2>1. ~Busy(n)
    BY <1>2, <1>3 DEF Busy, On
  <2>2. Settled(index, n)
    BY <2>1 DEF WholeAt
  <2>3. 1 .. MaxSaves \subseteq Nat
    BY ConstantsAssumption
  <2> QED
    BY <2>2, <2>3 DEF Settled, KeptOf
<1>4. ASSUME NEW s \in Sessions, On(s, n)'
      PROVE  AsFar(s)' /\ \A t \in Sessions : On(t, n)' => t = s
  <2>1. On(s, n) /\ call'[s] = call[s] /\ AsFar(s) /\ \A t \in Sessions : On(t, n) => t = s
    BY <1>1, <1>4 DEF WholeAt
  <2>2. call[s].name = n /\ (Writes(s) => call[s].at \in Nat)
    BY <2>1, EditOn, ConstantsAssumption
  <2>3. AsFar(s)'
    BY <2>1, <2>2 DEF AsFar, KeptOf, Writes
  <2> QED
    BY <1>1, <2>1, <2>3
<1> QED
  BY <1>3, <1>4 DEF WholeAt

(* The name of the session that takes the step. *)
LEMMA OneAtWork ==
  ASSUME WholeInv, NEW s \in Sessions, NEW n \in Names \ hurt, On(s, n), On(s, n)', AsFar(s)',
         \A t \in Sessions : t # s => call'[t] = call[t]
  PROVE  WholeAt(n)'
<1>1. \A t \in Sessions : On(t, n) => t = s
  BY DEF WholeInv, WholeAt
<1>2. \A t \in Sessions : On(t, n)' => t = s
  BY <1>1 DEF On
<1>3. Busy(n)'
  BY DEF Busy, On
<1> QED
  BY <1>2, <1>3 DEF WholeAt

(* Those that wait for a reload return when it settles. *)
LEMMA Settling ==
  ASSUME CallInv, WholeInv, NEW n \in Names \ hurt, KeptOf(n), Settle
  PROVE  WholeAt(n)'
<1>1. CASE \E s \in Sessions : On(s, n) /\ call[s].pc = "wait"
  <2>1. PICK s \in Sessions : On(s, n) /\ call[s].pc = "wait"
    BY <1>1
  <2>2. call'[s] = Idle /\ \A t \in Sessions : call'[t] = Idle \/ call'[t] = call[t]
    BY <2>1, SettleFacts
  <2>3. AsFar(s) /\ \A t \in Sessions : On(t, n) => t = s
    BY <2>1 DEF WholeInv, WholeAt
  <2>4. call[s].name = n /\ (Writes(s) => call[s].at \in 1 .. MaxSaves)
    BY <2>1, EditOn
  <2>5. \A t \in Sessions : ~On(t, n)'
    BY <2>2, <2>3 DEF On, Idle
  <2>6. Settled(index, n)'
    <3>1. CASE Writes(s)
      <4>1. <<n, call[s].at>> \in Listed(index) /\ disk[n] = [f \in Files |-> call[s].at]
        BY <2>1, <2>3, <2>4, <3>1 DEF AsFar
      <4>2. call[s].at \in 1 .. MaxSaves /\ call[s].at \in Nat
        BY <2>4, <3>1, ConstantsAssumption
      <4> QED
        BY <4>1, <4>2 DEF Settled, KeptOf
    <3>2. CASE ~Writes(s)
      BY <2>1, <2>3, <2>4, <3>2 DEF AsFar, Settled, KeptOf
    <3> QED
      BY <3>1, <3>2
  <2> QED
    BY <2>5, <2>6 DEF WholeAt
<1>2. CASE \A s \in Sessions : ~(On(s, n) /\ call[s].pc = "wait")
  <2>1. \A s \in Sessions : call'[s] = call[s] \/ (~On(s, n) /\ ~On(s, n)')
    BY <1>2, SettleFacts DEF On, Idle
  <2> QED
    BY <2>1, Untouched DEF WholeInv
<1> QED
  BY <1>1, <1>2


LEMMA WholeStep ==
  ASSUME IInv, [Next]_vars
  PROVE  WholeInv'
<1> StoreInv /\ CallInv /\ ReloadInv /\ WholeInv /\ DurableInv
  BY DEF IInv
<1>1. ASSUME NEW s \in Sessions, NEW n \in Names, Create(s, n) \/ Save(s, n) \/ Delete(s, n) \/ Revert(s, n)
      PROVE  WholeInv'
  <2>1. /\ call[s] = Idle /\ call'[s].pc = "remove" /\ call'[s].name = n
        /\ \A t \in Sessions : t # s => call'[t] = call[t]
        /\ hurt' = (IF Busy(n) THEN hurt \cup {n} ELSE hurt) /\ UNCHANGED <<index, disk>>
    BY <1>1, CreateSaveFacts, DropFacts
  <2>2. ASSUME NEW m \in Names \ hurt', m # n
        PROVE  WholeAt(m)'
    <3>1. \A t \in Sessions : call'[t] = call[t] \/ (~On(t, m) /\ ~On(t, m)')
      BY <2>1, <2>2 DEF On, Idle
    <3>2. WholeAt(m) /\ KeptOf(m)
      BY <2>1, <2>2 DEF WholeInv, KeptOf
    <3> QED
      BY <3>1, <3>2, Untouched
  <2>3. ASSUME n \notin hurt'
        PROVE  WholeAt(n)'
    <3>1. \A t \in Sessions : ~On(t, n)
      BY <2>1, <2>3 DEF Busy, On
    <3>2. \A t \in Sessions : On(t, n)' => t = s
      BY <2>1, <3>1 DEF On
    <3>3. Busy(n)' /\ AsFar(s)'
      BY <2>1 DEF Busy, AsFar
    <3> QED
      BY <3>2, <3>3 DEF WholeAt
  <2> QED
    BY <2>2, <2>3 DEF WholeInv
<1>2. ASSUME NEW s \in Sessions, DropNothing(s)
      PROVE  WholeInv'
  <2>1. /\ call[s] = Idle /\ call'[s].name = None /\ \A t \in Sessions : t # s => call'[t] = call[t]
        /\ UNCHANGED <<index, disk, hurt>>
    BY <1>2, DropNothingFacts
  <2>2. ASSUME NEW m \in Names \ hurt
        PROVE  WholeAt(m)'
    <3>1. \A t \in Sessions : call'[t] = call[t] \/ (~On(t, m) /\ ~On(t, m)')
      BY <2>1, ConstantsAssumption DEF On, Idle
    <3>2. WholeAt(m) /\ KeptOf(m)
      BY <2>1 DEF WholeInv, KeptOf
    <3> QED
      BY <3>1, <3>2, Untouched
  <2> QED
    BY <2>1, <2>2 DEF WholeInv
<1>3. ASSUME NEW s \in Sessions, RemoveDir(s) \/ WriteFile(s) \/ Upsert(s) \/ Unlist(s) \/ Persist(s) \/ Written(s)
      PROVE  WholeInv'
  <2>0. PICK n : n = call[s].name
    OBVIOUS
  <2>1. call[s] \in EditType /\ n \in Names /\ call[s].pc \notin {"idle", "reload", "wait"} /\ hurt' = hurt
    BY <1>3, <2>0, EditAtWork DEF RemoveDir, WriteFile, Upsert, Unlist, Persist, Written, Files, AfterCall
  <2>2. PICK p \in {"index.ts", "1tube.json", "list", "unlist", "persist", "written", "reload"} : GoOn(s, p)
    BY <1>3 DEF RemoveDir, WriteFile, Upsert, Unlist, Persist, Written, Files
  <2>3. /\ call'[s].pc = p /\ call'[s].name = n /\ call'[s].op = call[s].op /\ call'[s].at = call[s].at
        /\ \A t \in Sessions : t # s => call'[t] = call[t]
    BY <2>0, <2>1, <2>2, GoOnFacts
  <2>4. On(s, n) /\ On(s, n)'
    BY <2>0, <2>1, <2>3 DEF On
  <2>5. ASSUME NEW m \in Names, m # n
        PROVE  KeptOf(m)
    BY <1>3, <2>0, <2>5, UpsertFacts, UnlistFacts, PersistFacts
      DEF StoreInv, RemoveDir, WriteFile, Upsert, Unlist, Persist, Written, WrittenBy, KeptOf
  <2>6. ASSUME NEW m \in Names \ hurt', m # n
        PROVE  WholeAt(m)'
    <3>1. \A t \in Sessions : call'[t] = call[t] \/ (~On(t, m) /\ ~On(t, m)')
      BY <2>0, <2>3, <2>6 DEF On
    <3> QED
      BY <2>1, <2>5, <2>6, <3>1, Untouched DEF WholeInv
  <2>7. ASSUME n \notin hurt'
        PROVE  AsFar(s)'
    <3>1. AsFar(s) /\ (Writes(s)' <=> Writes(s))
      <4>1. AsFar(s)
        BY <2>1, <2>4, <2>7 DEF WholeInv, WholeAt
      <4>2. Writes(s)' <=> Writes(s)
        BY <2>3 DEF Writes
      <4> QED
        BY <4>1, <4>2
    <3>a. call[s].name = n /\ call'[s].name = n /\ call'[s].at = call[s].at
      BY <2>0, <2>3
    <3>b. \A q : GoOn(s, q) => call'[s].pc = q
      BY <2>1, StepTo
    <3>2. CASE RemoveDir(s)
      <4>1. disk'[n] = Empty /\ call'[s].pc \in {"index.ts", "unlist"}
        BY <2>1, <3>a, <3>b, <3>2 DEF RemoveDir, StoreInv
      <4> QED
        BY <3>a, <4>1 DEF AsFar
    <3>3. CASE WriteFile(s) /\ call[s].pc = "index.ts"
      <4>1. disk[n] = Empty /\ call'[s].pc = "1tube.json"
        BY <2>1, <3>a, <3>b, <3>1, <3>3 DEF WriteFile, AsFar
      <4>2. disk'[n] = [disk[n] EXCEPT !["index.ts"] = call[s].at]
        BY <2>1, <3>a, <3>3 DEF WriteFile, StoreInv
      <4>3. disk'[n] = [f \in Files |-> IF f = "index.ts" THEN call[s].at ELSE 0]
        BY <4>1, <4>2 DEF Empty, Files
      <4> QED
        BY <3>a, <4>1, <4>3 DEF AsFar
    <3>4. CASE WriteFile(s) /\ call[s].pc = "1tube.json"
      <4>1. disk[n] = [f \in Files |-> IF f = "index.ts" THEN call[s].at ELSE 0] /\ call'[s].pc = "list"
        BY <2>1, <3>a, <3>b, <3>1, <3>4 DEF WriteFile, AsFar
      <4>2. disk'[n] = [disk[n] EXCEPT !["1tube.json"] = call[s].at]
        BY <2>1, <3>a, <3>4 DEF WriteFile, StoreInv
      <4>3. disk'[n] = [f \in Files |-> call[s].at]
        BY <4>1, <4>2 DEF Files
      <4> QED
        BY <3>a, <4>1, <4>3 DEF AsFar
    <3>5. CASE Upsert(s)
      <4>1. Writes(s) /\ disk[n] = [f \in Files |-> call[s].at] /\ call'[s].pc = "persist" /\ disk' = disk
        BY <2>1, <3>a, <3>b, <3>1, <3>5 DEF Upsert, AsFar, CallInv
      <4>2. <<n, call[s].at>> \in Listed(index')
        BY <3>5, <3>a, UpsertFacts
      <4> QED
        BY <3>a, <3>1, <4>1, <4>2 DEF AsFar
    <3>6. CASE Unlist(s)
      <4>1. ~Writes(s) /\ disk[n] = Empty /\ call'[s].pc = "persist" /\ disk' = disk
        BY <2>1, <3>a, <3>b, <3>1, <3>6 DEF Unlist, AsFar, CallInv
      <4>2. n \notin NamesIn(index')
        BY <3>6, <3>a, UnlistFacts
      <4> QED
        BY <3>a, <3>1, <4>1, <4>2 DEF AsFar
    <3>7. CASE Persist(s) \/ Written(s)
      <4>1. Listed(index') = Listed(index) /\ NamesIn(index') = NamesIn(index) /\ disk' = disk
        BY <3>7, PersistFacts DEF Persist, Written, WrittenBy
      <4>2. call[s].pc \in {"persist", "written"} /\ call'[s].pc \in {"written", "reload"}
        BY <2>1, <3>b, <3>7 DEF Persist, Written
      <4> QED
        BY <3>a, <3>1, <4>1, <4>2 DEF AsFar
    <3> QED
      BY <1>3, <3>2, <3>3, <3>4, <3>5, <3>6, <3>7 DEF WriteFile, Files
  <2>8. ASSUME n \notin hurt'
        PROVE  WholeAt(n)'
    BY <2>1, <2>3, <2>4, <2>7, <2>8, OneAtWork
  <2> QED
    BY <2>6, <2>8 DEF WholeInv
<1>4. ASSUME NEW s \in Sessions, Reload(s)
      PROVE  WholeInv'
  <2>0. PICK n : n = call[s].name
    OBVIOUS
  <2>1. call[s] \in EditType \cup NothingType /\ UNCHANGED <<index, disk, hurt>> /\ call[s].pc = "reload"
    BY <1>4 DEF Reload, CallInv, Idle, AfterCall, storeVars
  <2>2. call' = [call EXCEPT ![s].pc = "wait", ![s].own = reload.pc = "none"]
    BY <1>4 DEF Reload
  <2>3. call \in [Sessions -> {Idle} \cup EditType \cup NothingType]
    BY DEF CallInv
  <2>4. /\ \A t \in Sessions : t # s => call'[t] = call[t]
        /\ call'[s].pc = "wait" /\ call'[s].name = n /\ call'[s].op = call[s].op /\ call'[s].at = call[s].at
    BY <2>0, <2>1, <2>2, <2>3 DEF EditType, NothingType
  <2>5. \A m \in Names : KeptOf(m)
    BY <2>1 DEF KeptOf
  <2>6. ASSUME NEW m \in Names \ hurt', m # n
        PROVE  WholeAt(m)'
    <3>1. \A t \in Sessions : call'[t] = call[t] \/ (~On(t, m) /\ ~On(t, m)')
      BY <2>0, <2>4, <2>6 DEF On
    <3> QED
      BY <2>1, <2>5, <2>6, <3>1, Untouched DEF WholeInv
  <2>7. ASSUME n \in Names \ hurt'
        PROVE  WholeAt(n)'
    <3>1. On(s, n) /\ On(s, n)'
      BY <2>0, <2>1, <2>4 DEF On
    <3>2. AsFar(s) /\ (Writes(s)' <=> Writes(s))
      BY <2>1, <2>4, <2>7, <3>1 DEF WholeInv, WholeAt, Writes
    <3>3. AsFar(s)'
      BY <2>0, <2>1, <2>4, <3>2 DEF AsFar
    <3> QED
      BY <2>1, <2>4, <2>7, <3>1, <3>3, OneAtWork
  <2> QED
    BY <2>6, <2>7 DEF WholeInv
<1>5. ASSUME NEW s \in Sessions, CallFails(s)
      PROVE  WholeInv'
  <2>1. /\ call' = [call EXCEPT ![s] = Idle] /\ UNCHANGED <<index, disk>> /\ hurt' = hurt \cup {call[s].name}
    BY <1>5 DEF CallFails, AfterCall
  <2>2. ASSUME NEW m \in Names \ hurt'
        PROVE  WholeAt(m)'
    <3>1. \A t \in Sessions : call'[t] = call[t] \/ (~On(t, m) /\ ~On(t, m)')
      BY <2>1, <2>2 DEF On, CallInv, Idle
    <3>2. WholeAt(m) /\ KeptOf(m)
      BY <2>1, <2>2 DEF WholeInv, KeptOf
    <3> QED
      BY <3>1, <3>2, Untouched
  <2> QED
    BY <2>2 DEF WholeInv
<1>6. CASE Recover \/ ComposePersist \/ ComposeWritten \/ Loaded
  <2>1. UNCHANGED <<call, hurt, disk>> /\ Listed(index') = Listed(index) /\ NamesIn(index') = NamesIn(index)
    BY <1>6, PersistFacts DEF Recover, ComposePersist, ComposeWritten, Loaded, WrittenBy, AfterCall, storeVars
  <2>2. \A n \in Names : KeptOf(n)
    BY <2>1 DEF KeptOf
  <2> QED
    BY <2>1, <2>2, Untouched DEF WholeInv
<1>7. CASE ComposeEntry \/ Bundle \/ Swap
  <2>1. UNCHANGED <<hurt, disk>> /\ (UNCHANGED call \/ Settle)
    BY <1>7 DEF ComposeEntry, Bundle, Swap, ReloadFails, AfterCall, storeVars
  <2>2. Listed(index') = Listed(index) /\ NamesIn(index') = NamesIn(index)
    BY <1>7, EntryFound DEF Bundle, Swap, storeVars
  <2>3. \A n \in Names : KeptOf(n)
    BY <2>1, <2>2 DEF KeptOf
  <2> QED
    BY <2>1, <2>3, Untouched, Settling DEF WholeInv
<1>8. CASE Restart
  <2>1. /\ index' = (IF file = Torn THEN <<>> ELSE file) /\ call' = [s \in Sessions |-> Idle] /\ disk' = disk
        /\ hurt' = (IF file = Torn \/ raced THEN Names
                    ELSE hurt \cup {n \in Names : \E s \in Sessions :
                                      call[s].pc \notin {"idle", "reload", "wait"} /\ call[s].name = n})
    BY <1>8 DEF Restart
  <2>2. ASSUME NEW n \in Names \ hurt'
        PROVE  WholeAt(n)'
    <3>1. /\ file # Torn /\ ~raced /\ n \notin hurt /\ index' = file
          /\ \A s \in Sessions : call[s].name = n => call[s].pc \in {"idle", "reload", "wait"}
      BY <2>1, <2>2
    <3>2. writes = {} /\ Matches(file)
      BY <3>1 DEF DurableInv
    <3>3. \A at \in Nat : <<n, at>> \in Listed(file) <=> <<n, at>> \in Listed(index)
      BY <3>1, <3>2 DEF Matches
    <3>4. file \in Seq(Entries) /\ index \in Seq(Entries)
      BY <3>1 DEF StoreInv
    <3>5. n \in NamesIn(file) <=> n \in NamesIn(index)
      <4>1. 1 .. MaxSaves \subseteq Nat
        BY ConstantsAssumption
      <4> QED
        BY <3>3, <3>4, <4>1, EntryFacts
    <3>6. Settled(index, n)
      <4>1. CASE ~Busy(n)
        BY <3>1, <4>1 DEF WholeInv, WholeAt
      <4>2. CASE Busy(n)
        <5>1. PICK s \in Sessions : On(s, n)
          BY <4>2 DEF Busy, On
        <5>2. AsFar(s) /\ call[s].name = n /\ call[s].pc \in {"reload", "wait"} /\ (Writes(s) => call[s].at \in 1 .. MaxSaves)
          BY <3>1, <5>1, EditOn DEF WholeInv, WholeAt, On
        <5> QED
          BY <5>2 DEF AsFar, Settled
      <4> QED
        BY <4>1, <4>2
    <3>7. Settled(index, n)'
      <4>1. 1 .. MaxSaves \subseteq Nat
        BY ConstantsAssumption
      <4> QED
        BY <2>1, <3>1, <3>3, <3>5, <3>6, <4>1 DEF Settled
    <3>8. \A s \in Sessions : ~On(s, n)'
      BY <2>1 DEF On, Idle
    <3> QED
      BY <3>7, <3>8 DEF WholeAt
  <2> QED
    BY <2>2 DEF WholeInv
<1>9. CASE UNCHANGED vars
  <2>1. UNCHANGED <<call, hurt, disk, index>>
    BY <1>9 DEF vars, storeVars
  <2>2. \A n \in Names : KeptOf(n)
    BY <2>1 DEF KeptOf
  <2> QED
    BY <2>1, <2>2, Untouched DEF WholeInv
<1> QED
  BY <1>1, <1>2, <1>3, <1>4, <1>5, <1>6, <1>7, <1>8, <1>9 DEF Next, SessionStep, ReloadStep

-----------------------------------------------------------------------------
(* overrides.json *)

(* What a text must list changes with the index, or with the calls that have still to write it. *)
MatchesStay == \A n \in Names : (\A s \in Sessions : ~(call'[s].pc = "persist" /\ call'[s].name = n)) =>
  /\ \A s \in Sessions : ~(call[s].pc = "persist" /\ call[s].name = n)
  /\ \A at \in Nat : <<n, at>> \in Listed(index') <=> <<n, at>> \in Listed(index)

LEMMA MatchesKept ==
  ASSUME NEW t, Matches(t), MatchesStay
  PROVE  Matches(t)'
BY DEF Matches, MatchesStay

LEMMA ByWhom == ASSUME StoreInv, NEW w \in writes PROVE w.by \in Sessions \cup {"reload"} /\ w.text # None
  BY NotNone DEF StoreInv, WriteType

(* No file operation on overrides.json begins or ends. *)
LEMMA DurableKept ==
  ASSUME StoreInv, DurableInv, MatchesStay, UNCHANGED <<writes, file>>, raced' <=> raced,
         \A s \in Sessions : call[s].pc = "written" => call'[s].pc = "written",
         reload.pc \in {"load", "written"} => reload'.pc = reload.pc
  PROVE  DurableInv'
<1>1. ASSUME NEW w \in writes
      PROVE  IF w.by = "reload" THEN reload'.pc \in {"load", "written"} ELSE call'[w.by].pc = "written"
  BY ByWhom DEF DurableInv
<1>2. ASSUME ~raced
      PROVE  /\ \A w \in writes : w.alone /\ writes = {w} /\ file = Torn /\ Matches(w.text)'
             /\ writes = {} => file # Torn /\ Matches(file)'
  BY <1>2, MatchesKept DEF DurableInv
<1>3. file' = file /\ writes' = writes /\ (raced' <=> raced)
  OBVIOUS
<1>4. ASSUME ~raced'
      PROVE  /\ \A w \in writes' : w.alone /\ writes' = {w} /\ file' = Torn /\ Matches(w.text)'
             /\ writes' = {} => file' # Torn /\ Matches(file)'
  <2>1. ~raced
    BY <1>4
  <2>2. Matches(file)' <=> \A n \in Names : (\A s \in Sessions : ~(call'[s].pc = "persist" /\ call'[s].name = n)) =>
                             \A at \in Nat : <<n, at>> \in Listed(file') <=> <<n, at>> \in Listed(index')
    BY DEF Matches
  <2> QED
    BY <1>2, <1>3, <2>1
<1> QED
  BY <1>1, <1>3, <1>4 DEF DurableInv

(* persist() begins to write what the index lists. *)
LEMMA DurablePersist ==
  ASSUME StoreInv, DurableInv, NEW who \in Sessions \cup {"reload"}, PersistBy(who),
         \A w \in writes : w.by # who,
         \A s \in Sessions : call[s].pc = "written" => call'[s].pc = "written",
         who = "reload" => reload'.pc \in {"load", "written"},
         who # "reload" => call'[who].pc = "written" /\ reload' = reload
  PROVE  DurableInv'
<1> DEFINE new == [by |-> who, text |-> index', alone |-> writes = {}]
<1>1. writes' = writes \cup {new} /\ file' = Torn /\ (raced' <=> (raced \/ writes # {}))
  BY DEF PersistBy
<1>2. new.by = who /\ new.text = index' /\ (new.alone <=> writes = {})
  BY Zenon
<1> HIDE DEF new
<1>3. ASSUME NEW w \in writes'
      PROVE  IF w.by = "reload" THEN reload'.pc \in {"load", "written"} ELSE call'[w.by].pc = "written"
  <2>1. CASE w = new
    BY <1>2, <2>1
  <2>2. CASE w \in writes
    BY <2>2, ByWhom DEF DurableInv
  <2> QED
    BY <1>1, <2>1, <2>2
<1>4. \A v, w \in writes' : v.by = w.by => v = w
  BY <1>1, <1>2 DEF DurableInv
<1>5. ASSUME ~raced'
      PROVE  /\ \A w \in writes' : w.alone /\ writes' = {w} /\ file' = Torn /\ Matches(w.text)'
             /\ writes' # {}
  <2>1. writes' = {new} /\ new.alone
    BY <1>1, <1>2, <1>5
  <2>2. ASSUME NEW t, t = index' PROVE Matches(t)'
    BY <2>2 DEF Matches
  <2>3. \A w \in writes' : w = new /\ w.text = index'
    BY <1>2, <2>1
  <2> QED
    BY <1>1, <2>1, <2>2, <2>3
<1> QED
  BY <1>3, <1>4, <1>5 DEF DurableInv

(* A write ends: what is left in the file is what it wrote, or there was another. *)
LEMMA DurableWritten ==
  ASSUME StoreInv, DurableInv, NEW who \in Sessions \cup {"reload"}, WrittenBy(who), raced' = raced, MatchesStay,
         \A s \in Sessions : s # who /\ call[s].pc = "written" => call'[s].pc = "written",
         who # "reload" => reload' = reload
  PROVE  DurableInv'
<1>1. PICK w \in writes :
        /\ w.by = who
        /\ writes' = {[x EXCEPT !.alone = FALSE] : x \in writes \ {w}}
        /\ file' \in IF w.alone /\ writes = {w} THEN {w.text} ELSE {w.text, Torn}
  BY DEF WrittenBy
<1>2. \A x \in writes' : \E y \in writes \ {w} : x = [y EXCEPT !.alone = FALSE]
  BY <1>1
<1>3. \A y \in writes : [y EXCEPT !.alone = FALSE].by = y.by
  BY DEF StoreInv, WriteType
<1>4. ASSUME NEW x \in writes'
      PROVE  IF x.by = "reload" THEN reload'.pc \in {"load", "written"} ELSE call'[x.by].pc = "written"
  <2>1. PICK y \in writes \ {w} : x = [y EXCEPT !.alone = FALSE]
    BY <1>2
  <2>2. x.by = y.by /\ y.by # who /\ y.by \in Sessions \cup {"reload"}
    BY <1>1, <1>3, <2>1, ByWhom DEF DurableInv
  <2> QED
    BY <2>2 DEF DurableInv
<1>5. ASSUME NEW u \in writes', NEW v \in writes', u.by = v.by
      PROVE  u = v
  <2>1. PICK y \in writes \ {w} : u = [y EXCEPT !.alone = FALSE]
    BY <1>2
  <2>2. PICK z \in writes \ {w} : v = [z EXCEPT !.alone = FALSE]
    BY <1>2
  <2>3. y.by = z.by
    BY <1>3, <1>5, <2>1, <2>2
  <2>4. y = z
    BY <2>3 DEF DurableInv
  <2> QED
    BY <2>1, <2>2, <2>4
<1>6. ASSUME ~raced'
      PROVE  writes' = {} /\ file' = w.text /\ file' # Torn /\ Matches(w.text)'
  <2>1. w.alone /\ writes = {w} /\ Matches(w.text)
    BY <1>1, <1>6 DEF DurableInv
  <2>2. writes' = {} /\ file' = w.text
    BY <1>1, <2>1
  <2> QED
    BY <2>1, <2>2, MatchesKept, ByWhom DEF Torn
<1>7. ASSUME ~raced'
      PROVE  Matches(file)'
  <2>1. file' = w.text /\ Matches(w.text)'
    BY <1>6, <1>7
  <2> QED
    BY <2>1 DEF Matches
<1> QED
  BY <1>4, <1>5, <1>6, <1>7 DEF DurableInv


LEMMA DurableStep ==
  ASSUME IInv, [Next]_vars
  PROVE  DurableInv'
<1> StoreInv /\ CallInv /\ ReloadInv /\ DurableInv
  BY DEF IInv
<1>1. ASSUME NEW s \in Sessions, NEW n \in Names, Create(s, n) \/ Save(s, n) \/ Delete(s, n) \/ Revert(s, n)
      PROVE  DurableInv'
  <2>1. /\ call[s] = Idle /\ call'[s].pc = "remove" /\ \A t \in Sessions : t # s => call'[t] = call[t]
        /\ UNCHANGED <<index, reload, writes, file, raced>>
    BY <1>1, CreateSaveFacts, DropFacts
  <2>2. MatchesStay
    BY <2>1 DEF MatchesStay, Idle
  <2> QED
    BY <2>1, <2>2, DurableKept DEF Idle
<1>2. ASSUME NEW s \in Sessions, DropNothing(s)
      PROVE  DurableInv'
  <2>1. /\ call[s] = Idle /\ call'[s].pc = "reload" /\ \A t \in Sessions : t # s => call'[t] = call[t]
        /\ UNCHANGED <<index, reload, writes, file, raced>>
    BY <1>2, DropNothingFacts
  <2>2. MatchesStay
    BY <2>1 DEF MatchesStay, Idle
  <2> QED
    BY <2>1, <2>2, DurableKept DEF Idle
<1>3. ASSUME NEW s \in Sessions, RemoveDir(s) \/ WriteFile(s)
      PROVE  DurableInv'
  <2>1. call[s] \in EditType /\ call[s].pc \in {"remove"} \cup Files /\ UNCHANGED <<index, reload, writes, file, raced>>
    BY <1>3, EditAtWork DEF RemoveDir, WriteFile, Files
  <2>2. PICK p \in {"index.ts", "1tube.json", "list", "unlist"} : GoOn(s, p)
    BY <1>3 DEF RemoveDir, WriteFile, Files
  <2>3. call'[s].pc = p /\ \A t \in Sessions : t # s => call'[t] = call[t]
    BY <2>1, <2>2, GoOnFacts
  <2>4. MatchesStay
    BY <2>1, <2>3 DEF MatchesStay, Files
  <2> QED
    BY <2>1, <2>3, <2>4, DurableKept DEF Files
<1>4. ASSUME NEW s \in Sessions, Upsert(s) \/ Unlist(s)
      PROVE  DurableInv'
  <2>0. PICK n : n = call[s].name
    OBVIOUS
  <2>1. /\ call[s] \in EditType /\ call[s].pc \in {"list", "unlist"}
        /\ UNCHANGED <<writes, file, raced>> /\ GoOn(s, "persist")
    BY <1>4, EditAtWork DEF Upsert, Unlist
  <2>2. call'[s].pc = "persist" /\ call'[s].name = n /\ \A t \in Sessions : t # s => call'[t] = call[t]
    BY <2>0, <2>1, GoOnFacts
  <2>3. \A m, at : m # n => (<<m, at>> \in Listed(index') <=> <<m, at>> \in Listed(index))
    BY <1>4, <2>0, UpsertFacts, UnlistFacts
  <2>4. MatchesStay
    BY <2>1, <2>2, <2>3 DEF MatchesStay
  <2>5. reload'.pc = reload.pc
    BY <1>4, UpsertFacts, UnlistFacts, ReplaceFacts
  <2> QED
    BY <2>1, <2>2, <2>4, <2>5, DurableKept
<1>5. ASSUME NEW s \in Sessions, Persist(s)
      PROVE  DurableInv'
  <2>1. call[s] \in EditType /\ call[s].pc = "persist" /\ GoOn(s, "written") /\ PersistBy(s) /\ reload' = reload /\ s # "reload"
    BY <1>5, EditAtWork, ConstantsAssumption DEF Persist
  <2>2. call'[s].pc = "written" /\ \A t \in Sessions : t # s => call'[t] = call[t]
    BY <2>1, GoOnFacts
  <2>3. \A w \in writes : w.by # s
    BY <2>1 DEF DurableInv
  <2> QED
    BY <2>1, <2>2, <2>3, DurablePersist
<1>6. ASSUME NEW s \in Sessions, Written(s)
      PROVE  DurableInv'
  <2>1. /\ call[s] \in EditType /\ call[s].pc = "written" /\ GoOn(s, "reload") /\ WrittenBy(s)
        /\ UNCHANGED <<reload, raced, index>>
    BY <1>6, EditAtWork DEF Written, WrittenBy
  <2>2. call'[s].pc = "reload" /\ \A t \in Sessions : t # s => call'[t] = call[t]
    BY <2>1, GoOnFacts
  <2>3. MatchesStay
    BY <2>1, <2>2 DEF MatchesStay
  <2> QED
    BY <2>1, <2>2, <2>3, DurableWritten
<1>7. ASSUME NEW s \in Sessions, Reload(s)
      PROVE  DurableInv'
  <2>1. call[s].pc = "reload" /\ UNCHANGED <<index, writes, file, raced>>
        /\ (reload.pc \in {"load", "written"} => reload'.pc = reload.pc)
    BY <1>7 DEF Reload, storeVars
  <2>2. call'[s].pc = "wait" /\ \A t \in Sessions : t # s => call'[t] = call[t]
    BY <1>7 DEF Reload, CallInv, Idle, EditType, NothingType
  <2>3. MatchesStay
    BY <2>1, <2>2 DEF MatchesStay
  <2> QED
    BY <2>1, <2>2, <2>3, DurableKept
<1>8. ASSUME NEW s \in Sessions, CallFails(s)
      PROVE  DurableInv'
  <2>1. /\ call[s].pc \in {"written"} \cup Files /\ call' = [call EXCEPT ![s] = Idle]
        /\ writes' = {w \in writes : w.by # s} /\ raced' = (raced \/ call[s].pc = "written")
        /\ UNCHANGED <<index, file, reload>>
    BY <1>8 DEF CallFails
  <2>2. call'[s].pc = "idle" /\ \A t \in Sessions : t # s => call'[t] = call[t]
    BY <2>1 DEF CallInv, Idle
  <2>3. MatchesStay
    BY <2>1, <2>2 DEF MatchesStay, Files
  <2>4. CASE call[s].pc # "written"
    <3>1. writes' = writes /\ (raced' <=> raced)
      BY <2>1, <2>4, ConstantsAssumption DEF DurableInv
    <3> QED
      BY <2>1, <2>2, <2>3, <2>4, <3>1, DurableKept
  <2>5. CASE call[s].pc = "written"
    <3>1. raced'
      BY <2>1, <2>5
    <3>2. ASSUME NEW w \in writes'
          PROVE  IF w.by = "reload" THEN reload'.pc \in {"load", "written"} ELSE call'[w.by].pc = "written"
      <4>1. w \in writes /\ w.by # s /\ w.by \in Sessions \cup {"reload"}
        BY <2>1, ByWhom
      <4> QED
        BY <2>1, <2>2, <4>1 DEF DurableInv
    <3>3. \A v, w \in writes' : v.by = w.by => v = w
      BY <2>1 DEF DurableInv
    <3> QED
      BY <3>1, <3>2, <3>3 DEF DurableInv
  <2> QED
    BY <2>4, <2>5
<1>9. CASE Recover
  <2>1. reload.pc = "none" /\ UNCHANGED <<call, index, writes, file, raced>>
    BY <1>9 DEF Recover, storeVars
  <2>2. MatchesStay
    BY <2>1 DEF MatchesStay
  <2> QED
    BY <2>1, <2>2, DurableKept
<1>10. CASE ComposeEntry \/ Bundle \/ Swap
  <2>1. reload.pc \in {"compose", "bundle", "swap"} /\ (UNCHANGED call \/ Settle) /\ UNCHANGED <<writes, file, raced>>
    BY <1>10 DEF ComposeEntry, Composing, Bundle, Swap, ReloadFails, AfterCall, storeVars
  <2>2. Listed(index') = Listed(index)
    BY <1>10, EntryFound DEF Bundle, Swap, storeVars
  <2>3. \A s \in Sessions : call[s].pc # "wait" => call'[s] = call[s]
    BY <2>1, SettleFacts
  <2>4. MatchesStay
    BY <2>2, <2>3 DEF MatchesStay
  <2> QED
    BY <2>1, <2>3, <2>4, DurableKept
<1>11. CASE ComposePersist
  <2>1. reload.pc = "compose" /\ PersistBy("reload") /\ UNCHANGED call
    BY <1>11 DEF ComposePersist, Composing
  <2>2. reload'.pc = "written"
    BY <1>11, <2>1, ReloadIsTyped DEF ComposePersist, ReloadType
  <2>3. \A w \in writes : w.by # "reload"
    BY <2>1 DEF DurableInv
  <2> QED
    BY <2>1, <2>2, <2>3, DurablePersist
<1>12. CASE ComposeWritten \/ Loaded
  <2>1. WrittenBy("reload") /\ UNCHANGED <<call, raced, index>>
    BY <1>12 DEF ComposeWritten, Loaded, WrittenBy, AfterCall
  <2>2. MatchesStay
    BY <2>1 DEF MatchesStay
  <2> QED
    BY <2>1, <2>2, DurableWritten
<1>13. CASE Restart
  <2> DEFINE new == [by |-> "reload", text |-> index', alone |-> TRUE]
  <2>1. writes' = {new} /\ file' = Torn /\ reload' = [NewReload EXCEPT !.pc = "load"]
    BY <1>13 DEF Restart
  <2>2. new.by = "reload" /\ new.text = index' /\ new.alone /\ reload'.pc = "load"
    BY <2>1 DEF NewReload
  <2> HIDE DEF new
  <2>3. ASSUME NEW t, t = index' PROVE Matches(t)'
    BY <2>3 DEF Matches
  <2>4. \A w \in writes' : w = new /\ w.text = index' /\ Matches(w.text)'
    BY <2>1, <2>2, <2>3
  <2> QED
    BY <2>1, <2>2, <2>4 DEF DurableInv
<1>14. CASE UNCHANGED vars
  <2>1. UNCHANGED <<call, index, writes, file, raced, reload>>
    BY <1>14 DEF vars, storeVars
  <2>2. MatchesStay
    BY <2>1 DEF MatchesStay
  <2> QED
    BY <2>1, <2>2, DurableKept
<1> QED
  BY <1>1, <1>2, <1>3, <1>4, <1>5, <1>6, <1>7, <1>8, <1>9, <1>10, <1>11, <1>12, <1>13, <1>14 DEF Next, SessionStep, ReloadStep

-----------------------------------------------------------------------------
(* A session and the reload it started *)

LEMMA NamesCounted ==
  ASSUME NEW t \in Seq(Entries)
  PROVE  IsFiniteSet(NamesIn(t)) /\ Cardinality(NamesIn(t)) \in Nat /\ Cardinality(NamesIn(t)) <= Len(t)
<1> DEFINE f == [i \in DOMAIN t |-> t[i].name]
           S == 1 .. Len(t)
<1>1. Len(t) \in Nat /\ DOMAIN t = S
  BY EntryFacts
<1>2. f \in Surjection(S, NamesIn(t))
  BY <1>1 DEF Surjection, NamesIn
<1> HIDE DEF f
<1>3. IsFiniteSet(S)
  BY <1>1, FS_Interval
<1>4. IsFiniteSet(NamesIn(t))
  BY <1>2, <1>3, FS_Surjection
<1>5. ExistsSurjection(S, NamesIn(t))
  BY <1>2 DEF ExistsSurjection
<1>6. Cardinality(NamesIn(t)) <= Len(t)
  BY <1>1, <1>5, FS_SurjCardinalityBound
<1> QED
  BY <1>4, <1>6, FS_CardinalityType

(* A composition that took out as many names as it went through entries took out every name. *)
LEMMA AllTakenOut ==
  ASSUME StoreInv, ReloadInv, reload.pc = "compose", reload.i > Len(Iterated), Cardinality(OverlayNames) = Len(reload.out)
  PROVE  OverlayNames = NamesIn(Iterated)
<1>1. Iterated \in Seq(Entries) /\ reload \in ReloadType
  BY IteratedFacts, ReloadIsTyped
<1>2. Len(reload.out) + 1 = reload.i /\ OverlayNames \subseteq NamesIn(Iterated)
  BY DEF ReloadInv
<1>3. Len(Iterated) \in Nat /\ reload.i \in Nat /\ Len(reload.out) \in Nat
  BY <1>1, LenProperties DEF ReloadType
<1>4. /\ IsFiniteSet(NamesIn(Iterated)) /\ Cardinality(NamesIn(Iterated)) \in Nat
      /\ Cardinality(NamesIn(Iterated)) <= Len(Iterated)
  BY <1>1, NamesCounted
<1>5. /\ Cardinality(OverlayNames) <= Cardinality(NamesIn(Iterated))
      /\ Cardinality(NamesIn(Iterated)) = Cardinality(OverlayNames) => NamesIn(Iterated) = OverlayNames
  BY <1>2, <1>4, FS_Subset
<1>6. Cardinality(NamesIn(Iterated)) <= Cardinality(OverlayNames)
  BY <1>2, <1>3, <1>4
<1>7. Cardinality(NamesIn(Iterated)) = Cardinality(OverlayNames)
  BY <1>3, <1>4, <1>5, <1>6
<1> QED
  BY <1>5, <1>7

Awaiting(s) == call[s].pc = "wait" /\ call[s].own /\ call[s].op # "none" /\ call[s].name \notin hurt

(* The files of a session that waits are as its call left them. *)
LEMMA AwaitingFacts ==
  ASSUME CallInv, WholeInv, NEW s \in Sessions, call[s].pc \in {"reload", "wait"}, call[s].op # "none", call[s].name \notin hurt
  PROVE  LET n == call[s].name IN
         /\ n \in Names /\ call[s] \in EditType
         /\ IF Writes(s) THEN <<n, call[s].at>> \in Listed(index) /\ disk[n] = [f \in Files |-> call[s].at]
                         ELSE n \notin NamesIn(index) /\ disk[n] = Empty
<1>1. call[s] \in EditType /\ call[s].name \in Names
  BY DEF CallInv, Idle, EditType, NothingType
<1>2. AsFar(s)
  BY <1>1 DEF WholeInv, WholeAt, On
<1> QED
  BY <1>1, <1>2 DEF AsFar

(* The reload stays where it is. *)
LEMMA OwnKept ==
  ASSUME OwnInv, hurt \subseteq hurt', \A s \in Sessions : call'[s].pc = "wait" => call'[s] = call[s],
         reload'.pc = reload.pc, reload'.out = reload.out, reload'.next = reload.next, base' = base,
         reload.pc = "compose" => NamesIn(Iterated)' = NamesIn(Iterated)
  PROVE  OwnInv'
<1> SUFFICES ASSUME NEW s \in Sessions, Awaiting(s)'
             PROVE  Reached(s)'
  BY DEF OwnInv, Awaiting
<1>1. call'[s] = call[s] /\ Awaiting(s)
  BY DEF Awaiting
<1>2. Reached(s)
  BY <1>1 DEF OwnInv, Awaiting
<1>3. OverlayNames' = OverlayNames
  BY DEF OverlayNames
<1> QED
  BY <1>1, <1>2, <1>3 DEF Reached, Writes

LEMMA NobodyWaits ==
  ASSUME \A s \in Sessions : call'[s].pc # "wait"
  PROVE  OwnInv'
BY DEF OwnInv


LEMMA OwnStep ==
  ASSUME IInv, [Next]_vars
  PROVE  OwnInv'
<1> StoreInv /\ CallInv /\ ReloadInv /\ WholeInv /\ OwnInv
  BY DEF IInv
<1>1. ASSUME NEW s \in Sessions, NEW n \in Names, Create(s, n) \/ Save(s, n) \/ Delete(s, n) \/ Revert(s, n)
      PROVE  OwnInv'
  <2>1. /\ call'[s].pc = "remove" /\ \A t \in Sessions : t # s => call'[t] = call[t]
        /\ UNCHANGED <<index, reload, base>> /\ hurt \subseteq hurt'
    BY <1>1, CreateSaveFacts, DropFacts
  <2> QED
    BY <2>1, OwnKept DEF Iterated, NamesIn
<1>2. ASSUME NEW s \in Sessions, DropNothing(s)
      PROVE  OwnInv'
  <2>1. /\ call'[s].pc = "reload" /\ \A t \in Sessions : t # s => call'[t] = call[t]
        /\ UNCHANGED <<index, reload, base, hurt>>
    BY <1>2, DropNothingFacts
  <2> QED
    BY <2>1, OwnKept DEF Iterated, NamesIn
<1>3. ASSUME NEW s \in Sessions, RemoveDir(s) \/ WriteFile(s) \/ Upsert(s) \/ Unlist(s) \/ Persist(s) \/ Written(s)
      PROVE  OwnInv'
  <2>1. call[s] \in EditType /\ call[s].pc \notin {"idle", "reload", "wait"} /\ UNCHANGED <<hurt, base>>
    BY <1>3, EditAtWork DEF RemoveDir, WriteFile, Upsert, Unlist, Persist, Written, Files, AfterCall
  <2>2. PICK p \in {"index.ts", "1tube.json", "list", "unlist", "persist", "written", "reload"} : GoOn(s, p)
    BY <1>3 DEF RemoveDir, WriteFile, Upsert, Unlist, Persist, Written, Files
  <2>3. call'[s].pc = p /\ \A t \in Sessions : t # s => call'[t] = call[t]
    BY <2>1, <2>2, GoOnFacts
  <2>4. CASE Upsert(s) \/ Unlist(s)
    <3>1. index' \in Seq(Entries) /\ Unique(index') /\ Replace(index') /\ reload.pc # "load"
      BY <2>4, UpsertFacts, UnlistFacts
    <3>2. /\ reload'.pc = reload.pc
          /\ reload = NoReload => reload' = NoReload
          /\ reload # NoReload => reload'.out = reload.out /\ reload'.next = reload.next
          /\ reload.pc = "compose" => Iterated' = Iterated
      BY <3>1, ReplaceFacts
    <3>3. reload.pc = "compose" => NamesIn(Iterated)' = NamesIn(Iterated)
      BY <3>2 DEF NamesIn
    <3>4. reload'.out = reload.out /\ reload'.next = reload.next
      <4>1. CASE reload = NoReload
        BY <3>2, <4>1
      <4>2. CASE reload # NoReload
        BY <3>2, <4>2
      <4> QED
        BY <4>1, <4>2
    <3> QED
      BY <2>1, <2>3, <3>2, <3>3, <3>4, OwnKept
  <2>5. CASE RemoveDir(s) \/ WriteFile(s) \/ Persist(s) \/ Written(s)
    <3>1. reload' = reload /\ NamesIn(index') = NamesIn(index)
      BY <2>5, PersistFacts DEF RemoveDir, WriteFile, Persist, Written, WrittenBy
    <3>2. NamesIn(Iterated)' = NamesIn(Iterated)
      BY <3>1 DEF Iterated, NamesIn
    <3> QED
      BY <2>1, <2>3, <3>1, <3>2, OwnKept
  <2> QED
    BY <1>3, <2>4, <2>5
<1>4. ASSUME NEW s \in Sessions, Reload(s)
      PROVE  OwnInv'
  <2>1. call[s].pc = "reload" /\ UNCHANGED <<index, disk, base, hurt>>
    BY <1>4 DEF Reload, AfterCall, storeVars
  <2>2. \A t \in Sessions : t # s => call'[t] = call[t]
    BY <1>4 DEF Reload, CallInv
  <2>3. CASE reload.pc # "none"
    <3>1. reload' = reload /\ ~call'[s].own
      BY <1>4, <2>3 DEF Reload, CallInv, Idle, EditType, NothingType
    <3> SUFFICES ASSUME NEW t \in Sessions, Awaiting(t)'
                 PROVE  Reached(t)'
      BY DEF OwnInv, Awaiting
    <3>2. call'[t] = call[t] /\ Awaiting(t)
      BY <2>1, <2>2, <3>1 DEF Awaiting
    <3>3. Reached(t) /\ OverlayNames' = OverlayNames /\ NamesIn(Iterated)' = NamesIn(Iterated)
      BY <2>1, <3>1, <3>2 DEF OwnInv, Awaiting, OverlayNames, NamesIn, Iterated
    <3> QED
      BY <2>1, <3>1, <3>2, <3>3 DEF Reached, Writes
  <2>4. CASE reload.pc = "none"
    <3>1. /\ reload' = NewReload
          /\ call'[s].name = call[s].name /\ call'[s].op = call[s].op /\ call'[s].at = call[s].at
      BY <1>4, <2>4 DEF Reload, CallInv, Idle, EditType, NothingType
    <3>2. \A t \in Sessions : call[t].pc # "wait"
      BY <2>4 DEF CallInv
    <3> SUFFICES ASSUME NEW t \in Sessions, Awaiting(t)'
                 PROVE  Reached(t)'
      BY DEF OwnInv, Awaiting
    <3>3. t = s
      BY <2>2, <3>2 DEF Awaiting
    <3>4. reload'.pc = "compose" /\ reload'.out = <<>> /\ reload'.list = None
      BY <3>1 DEF NewReload
    <3>5. Iterated' = index
      BY <2>1, <3>4 DEF Iterated
    <3>6. call[s].op # "none" /\ call[s].name \notin hurt
      BY <2>1, <3>1, <3>3 DEF Awaiting
    <3>7. /\ call[s].name \in Names
          /\ Writes(s) => <<call[s].name, call[s].at>> \in Listed(index)
          /\ ~Writes(s) => call[s].name \notin NamesIn(index)
      BY <2>1, <3>6, AwaitingFacts
    <3>8. Writes(s) => call[s].name \in NamesIn(index)
      BY <3>7 DEF Listed, NamesIn
    <3>9. NamesIn(Iterated)' = NamesIn(index) /\ (Writes(s)' <=> Writes(s))
      BY <3>1, <3>5 DEF NamesIn, Writes
    <3> QED
      BY <3>1, <3>3, <3>4, <3>7, <3>8, <3>9 DEF Reached
  <2> QED
    BY <2>3, <2>4
<1>5. ASSUME NEW s \in Sessions, CallFails(s)
      PROVE  OwnInv'
  <2>1. call' = [call EXCEPT ![s] = Idle] /\ UNCHANGED <<index, reload, base>> /\ hurt \subseteq hurt'
    BY <1>5 DEF CallFails, AfterCall
  <2>2. \A t \in Sessions : call'[t].pc = "wait" => call'[t] = call[t]
    BY <2>1 DEF CallInv, Idle
  <2>3. NamesIn(Iterated)' = NamesIn(Iterated)
    BY <2>1 DEF Iterated, NamesIn
  <2> QED
    BY <2>1, <2>2, <2>3, OwnKept
<1>6. CASE Recover \/ Loaded
  <2>1. reload.pc \in {"none", "load"} /\ UNCHANGED call
    BY <1>6 DEF Recover, Loaded, AfterCall
  <2> QED
    BY <2>1, NobodyWaits DEF CallInv
<1>7. CASE ComposeEntry
  <2>1. CASE Settle
    BY <2>1, SettleFacts, NobodyWaits
  <2>2. CASE ~Settle
    <3> DEFINE e == Iterated[reload.i]
               x == [name |-> e.name, origin |-> IF e.name \in base THEN e.origin ELSE "added",
                     manifest |-> disk[e.name]["1tube.json"]]
    <3>1. reload \in ReloadType /\ reload.pc = "compose" /\ reload.i \in DOMAIN Iterated
      BY <1>7, ReloadIsTyped, IteratedFacts, EntryFacts DEF ComposeEntry, Composing, ReloadType
    <3>2. reload' = [reload EXCEPT !.i = @ + 1, !.out = Append(@, x)] /\ UNCHANGED <<call, hurt, disk, base>>
      BY <1>7, <2>2 DEF ComposeEntry, ReloadFails, AfterCall
    <3>3. e \in Entries /\ e.name \in Names
      BY <3>1, IteratedFacts, EntryFacts
    <3>4. x \in OutType /\ x.name = e.name /\ x.manifest = disk[e.name]["1tube.json"]
      <4>1. e.origin \in {"added", "patched"}
        BY <3>3 DEF Entries
      <4>2. disk[e.name]["1tube.json"] \in 0 .. MaxSaves
        BY <3>3 DEF StoreInv, Files
      <4> QED
        BY <3>3, <4>1, <4>2 DEF OutType
    <3> HIDE DEF e, x
    <3>5. /\ reload'.pc = "compose" /\ reload'.list = reload.list /\ reload'.out = Append(reload.out, x)
          /\ reload.out \in Seq(OutType)
      BY <3>1, <3>2 DEF ReloadType
    <3>6. \A i \in DOMAIN reload'.out : reload'.out[i] = x \/ (i \in DOMAIN reload.out /\ reload'.out[i] = reload.out[i])
      BY <3>4, <3>5, OutGrows
    <3>7. NamesIn(Iterated)' = NamesIn(Iterated)
      BY <1>7, <3>5, EntryFound DEF Iterated, NamesIn
    <3> SUFFICES ASSUME NEW s \in Sessions, Awaiting(s)'
                 PROVE  Reached(s)'
      BY DEF OwnInv, Awaiting
    <3>8. Awaiting(s) /\ Reached(s) /\ (Writes(s)' <=> Writes(s)) /\ call'[s] = call[s]
      BY <3>2 DEF OwnInv, Awaiting, Writes
    <3>9. CASE Writes(s)
      <4>1. disk[call[s].name] = [f \in Files |-> call[s].at]
        BY <3>8, <3>9, AwaitingFacts DEF Awaiting
      <4>2. disk[call[s].name]["1tube.json"] = call[s].at
        BY <4>1 DEF Files
      <4>3. \A i \in DOMAIN reload'.out : reload'.out[i].name = call[s].name => reload'.out[i].manifest = call[s].at
        BY <3>4, <3>6, <3>8, <3>9, <4>2 DEF Reached
      <4> QED
        BY <3>1, <3>5, <3>7, <3>8, <3>9, <4>3 DEF Reached
    <3>10. CASE ~Writes(s)
      BY <3>1, <3>5, <3>7, <3>8, <3>10 DEF Reached
    <3> QED
      BY <3>9, <3>10
  <2> QED
    BY <2>1, <2>2
<1>8. CASE ComposePersist
  <2>1. reload.pc = "compose" /\ reload.i > Len(Iterated) /\ UNCHANGED <<call, hurt>> /\ reload' = [reload EXCEPT !.pc = "written"]
    BY <1>8 DEF ComposePersist, Composing
  <2>2. reload'.pc = "written" /\ reload'.out = reload.out
    BY <2>1, ReloadIsTyped DEF ReloadType
  <2>3. OverlayNames' = OverlayNames /\ OverlayNames \subseteq NamesIn(Iterated)
    BY <2>1, <2>2 DEF OverlayNames, ReloadInv
  <2> SUFFICES ASSUME NEW s \in Sessions, Awaiting(s)'
               PROVE  Reached(s)'
    BY DEF OwnInv, Awaiting
  <2>4. Awaiting(s) /\ Reached(s) /\ (Writes(s)' <=> Writes(s)) /\ call'[s] = call[s]
    BY <2>1 DEF OwnInv, Awaiting, Writes
  <2>5. CASE Writes(s)
    <3>1. Cardinality(OverlayNames) = Len(reload.out) => call[s].name \in OverlayNames
      BY <2>1, <2>4, <2>5, AllTakenOut DEF Reached
    <3>2. Cardinality(OverlayNames)' = Cardinality(OverlayNames)
      BY <2>3
    <3> QED
      BY <2>2, <2>3, <2>4, <2>5, <3>1, <3>2 DEF Reached
  <2>6. CASE ~Writes(s)
    BY <2>1, <2>2, <2>3, <2>4, <2>6 DEF Reached
  <2> QED
    BY <2>5, <2>6
<1>9. CASE ComposeWritten
  <2>1. reload.pc = "written" /\ UNCHANGED <<call, hurt>> /\ reload' = [reload EXCEPT !.pc = "bundle"]
    BY <1>9 DEF ComposeWritten
  <2>2. reload'.pc = "bundle" /\ reload'.out = reload.out
    BY <2>1, ReloadIsTyped DEF ReloadType
  <2>3. OverlayNames' = OverlayNames
    BY <2>2 DEF OverlayNames
  <2> SUFFICES ASSUME NEW s \in Sessions, Awaiting(s)'
               PROVE  Reached(s)'
    BY DEF OwnInv, Awaiting
  <2>4. Reached(s) /\ (Writes(s)' <=> Writes(s)) /\ call'[s] = call[s]
    BY <2>1 DEF OwnInv, Awaiting, Writes
  <2> QED
    BY <2>1, <2>2, <2>3, <2>4 DEF Reached
<1>10. CASE Bundle
  <2>1. CASE Settle
    BY <2>1, SettleFacts, NobodyWaits
  <2>2. CASE ~Settle
    <3> DEFINE over(n) == [f \in Files |-> IF f = "index.ts" THEN disk[n][f] ELSE ManifestOf(n)]
               next == [n \in Unpatched \cup OverlayNames |-> IF n \in OverlayNames THEN over(n) ELSE Prebuilt]
    <3>1. /\ reload.pc = "bundle" /\ Cardinality(OverlayNames) = Len(reload.out) /\ UNCHANGED <<call, hurt, base>>
          /\ reload' = [reload EXCEPT !.pc = "swap", !.next = next]
      BY <1>10, <2>2 DEF Bundle, Composable, ReloadFails, AfterCall
    <3> HIDE DEF over, next
    <3>2. reload'.pc = "swap" /\ reload'.out = reload.out /\ reload'.next = next
      BY <3>1, ReloadIsTyped DEF ReloadType
    <3> SUFFICES ASSUME NEW s \in Sessions, Awaiting(s)'
                 PROVE  Reached(s)'
      BY DEF OwnInv, Awaiting
    <3>3. Awaiting(s) /\ Reached(s) /\ (Writes(s)' <=> Writes(s)) /\ call'[s] = call[s]
      BY <3>1 DEF OwnInv, Awaiting, Writes
    <3>4. PICK n : n = call[s].name
      OBVIOUS
    <3>5. CASE Writes(s)
      <4>1. n \in OverlayNames
        BY <3>1, <3>3, <3>4, <3>5 DEF Reached
      <4>2. next[n] = over(n) /\ n \in DOMAIN next
        BY <4>1 DEF next
      <4>3. ManifestOf(n) = call[s].at
        BY <3>3, <3>4, <3>5, <4>1 DEF ManifestOf, OverlayNames, Reached
      <4>4. disk[n] = [f \in Files |-> call[s].at]
        BY <3>3, <3>4, <3>5, AwaitingFacts DEF Awaiting
      <4>5. over(n) = [f \in Files |-> call[s].at]
        BY <4>3, <4>4 DEF over
      <4>6. \A i \in DOMAIN reload'.out : reload'.out[i].name = n => reload'.out[i].manifest = call[s].at
        BY <3>2, <3>3, <3>4, <3>5 DEF Reached
      <4> QED
        BY <3>2, <3>3, <3>4, <3>5, <4>2, <4>5, <4>6 DEF Reached
    <3>6. CASE ~Writes(s)
      <4>1. n \notin OverlayNames
        BY <3>1, <3>3, <3>4, <3>6 DEF Reached
      <4>2. DOMAIN next = Unpatched \cup OverlayNames /\ (n \in Unpatched => next[n] = Prebuilt)
        BY <4>1 DEF next
      <4>3. n \in Unpatched <=> n \in base
        BY <4>1 DEF Unpatched, Patched
      <4> QED
        BY <3>1, <3>2, <3>3, <3>4, <3>6, <4>1, <4>2, <4>3 DEF Reached, Prebuilt, Empty
    <3> QED
      BY <3>5, <3>6
  <2> QED
    BY <2>1, <2>2
<1>11. CASE Swap
  BY <1>11, SettleFacts, NobodyWaits DEF Swap
<1>12. CASE Restart
  BY <1>12, NobodyWaits DEF Restart, Idle
<1>13. CASE UNCHANGED vars
  <2>1. UNCHANGED <<call, index, base, reload, hurt>>
    BY <1>13 DEF vars, storeVars
  <2> QED
    BY <2>1, OwnKept DEF Iterated, NamesIn
<1> QED
  BY <1>1, <1>2, <1>3, <1>4, <1>5, <1>6, <1>7, <1>8, <1>9, <1>10, <1>11, <1>12, <1>13 DEF Next, SessionStep, ReloadStep


-----------------------------------------------------------------------------

LEMMA Initially == ASSUME Init PROVE IInv
<1>1. /\ base \in Firmwares /\ index = <<>> /\ disk = [n \in Names |-> Empty] /\ file = <<>> /\ writes = {}
      /\ call = [s \in Sessions |-> Idle] /\ reload = NoReload /\ served = [n \in base |-> Prebuilt] /\ up
      /\ saves = 0 /\ hurt = {}
  BY DEF Init
<1>2. <<>> \in Seq(Entries) /\ DOMAIN <<>> = {} /\ <<>> # None
  <2>1. <<>> \in Seq(Entries)
    BY EmptySeq
  <2>2. <<>> # None
    BY <2>1, NotNone
  <2>3. DOMAIN <<>> = {}
    OBVIOUS
  <2> QED
    BY <2>1, <2>2, <2>3
<1>3. NamesIn(index) = {} /\ Listed(file) = Listed(index) /\ Unique(index) /\ Unique(file)
  BY <1>1, <1>2 DEF NamesIn, Unique
<1>4. Empty \in [Files -> 0 .. MaxSaves] /\ 0 \in 0 .. MaxSaves /\ base \subseteq Names
  BY <1>1, ConstantsAssumption DEF Empty
<1>5. served \in ServedType
  <2>1. served \in [base -> [Files -> 0 .. MaxSaves]] /\ base \in SUBSET Names
    BY <1>1, <1>4 DEF Prebuilt
  <2> QED
    BY <2>1 DEF ServedType
<1>6. StoreInv
  BY <1>1, <1>2, <1>3, <1>4, <1>5 DEF StoreInv
<1>7. CallInv
  BY <1>1 DEF CallInv, Idle, EditType
<1>8. ReloadInv /\ FirmwareInv
  BY <1>1 DEF ReloadInv, NoReload, FirmwareInv
<1>9. WholeInv
  BY <1>1, <1>3 DEF WholeInv, WholeAt, Settled, On, Idle
<1>10. DurableInv
  BY <1>1, <1>2, <1>3 DEF DurableInv, Matches, Torn
<1>11. OwnInv
  BY <1>1 DEF OwnInv, Idle
<1> QED
  BY <1>6, <1>7, <1>8, <1>9, <1>10, <1>11 DEF IInv

LEMMA EachStep == ASSUME IInv, [Next]_vars PROVE IInv'
  BY StoreStep, CallStep, ReloadInvStep, FirmwareStep, WholeStep, DurableStep, OwnStep DEF IInv

\* The inductive invariant: the index lists a name once, calls and reloads are where
\* their operation takes them, and files, index, overrides.json and the reload in
\* progress agree as far as each has come.
THEOREM Inductive == Spec => []IInv
<1>1. Init => IInv
  BY Initially
<1>2. IInv /\ [Next]_vars => IInv'
  BY EachStep
<1> QED
  BY <1>1, <1>2, PTL DEF Spec

LEMMA SoundStore == ASSUME IInv PROVE StoreIsSound
<1> StoreInv /\ CallInv /\ WholeInv /\ DurableInv
  BY DEF IInv
<1>1. TypeOK
  <2>1. \A w \in writes : w.text \in Seq(Entries)
    BY DEF StoreInv, WriteType
  <2>2. DOMAIN served \subseteq Names
    BY DEF StoreInv, ServedType
  <2> QED
    BY <2>1, <2>2 DEF TypeOK, StoreInv, Unique
<1>2. ASSUME NEW n \in Names \ hurt, ~Busy(n)
      PROVE  disk[n] = IF Has(n) THEN [f \in Files |-> Of(n).at] ELSE Empty
  <2>1. Settled(index, n)
    BY <1>2 DEF WholeInv, WholeAt
  <2>2. Has(n) <=> n \in NamesIn(index)
    BY DEF Has, NamesIn
  <2>3. ASSUME NEW at \in 1 .. MaxSaves, <<n, at>> \in Listed(index), disk[n] = [f \in Files |-> at]
        PROVE  Has(n) /\ Of(n).at = at
    <3>1. Has(n)
      BY <2>3 DEF Listed, Has
    <3>2. Position(n) \in DOMAIN index /\ index[Position(n)].name = n
      BY <3>1 DEF Has, Position
    <3>3. <<n, Of(n).at>> \in Listed(index)
      BY <3>2 DEF Of, Listed
    <3>4. index \in Seq(Entries) /\ Unique(index)
      BY DEF StoreInv
    <3> QED
      BY <2>3, <3>1, <3>3, <3>4, ListedOnce
  <2> QED
    BY <2>1, <2>2, <2>3 DEF Settled
<1>3. ASSUME writes = {}, ~raced, \A s \in Sessions : call[s].pc # "persist"
      PROVE  file # Torn /\ Listed(file) = Listed(index)
  <2>1. file # Torn /\ Matches(file)
    BY <1>3 DEF DurableInv
  <2>2. \A n \in Names, at \in Nat : <<n, at>> \in Listed(file) <=> <<n, at>> \in Listed(index)
    BY <1>3, <2>1 DEF Matches
  <2>3. file \in Seq(Entries) /\ index \in Seq(Entries)
    BY <2>1 DEF StoreInv
  <2>4. /\ \A x \in Listed(file) : \E n \in Names, at \in Nat : x = <<n, at>>
        /\ \A x \in Listed(index) : \E n \in Names, at \in Nat : x = <<n, at>>
    BY <2>3, EntryFacts DEF Listed
  <2> QED
    BY <2>1, <2>2, <2>4
<1> QED
  BY <1>1, <1>2, <1>3 DEF StoreIsSound, StoreIsWhole, IndexIsDurable

\* What is on disk is what the store lists, files and index, whatever calls, reloads and
\* crashes interleave, but for names a failure or a meeting of two calls has touched.
THEOREM StoreStaysSound == Spec => []StoreIsSound
<1>1. IInv => StoreIsSound
  BY SoundStore
<1> QED
  BY <1>1, Inductive, PTL

\* A gateway that is up serves every function of its firmware.
THEOREM FirmwareStays == Spec => []FirmwareStaysServed
<1>1. IInv => FirmwareStaysServed
  BY DEF IInv, FirmwareInv, FirmwareStaysServed
<1> QED
  BY <1>1, Inductive, PTL

\* A session whose own reload succeeds finds its sources and manifest served, its
\* deletion gone or its reversion undone.
THEOREM OwnReloadServes == Spec => OwnReloadServesIt
<1>1. ASSUME IInv, [Next]_vars, NEW s \in Sessions,
             call[s].pc = "wait" /\ call[s].own /\ served' # served /\ up /\ up' /\ call[s].name \notin hurt
      PROVE  LET n == call[s].name IN
             CASE Writes(s) -> n \in DOMAIN served' /\ served'[n] = [f \in Files |-> call[s].at]
               [] call[s].op = "delete" -> n \notin DOMAIN served' \/ n \in base
               [] call[s].op = "none" -> TRUE
               [] call[s].op = "revert" -> n \in base => served'[n] = Prebuilt
  <2>1. Swap
    BY <1>1 DEF Next, SessionStep, ReloadStep, vars, storeVars, bounds, Create, Save, Delete, Revert, Drop, DropNothing,
      Start, RemoveDir, WriteFile, Upsert, Unlist, Persist, Written, Reload, CallFails, AfterCall, Recover,
      ComposeEntry, ComposePersist, ComposeWritten, Bundle, ReloadFails, Loaded, Restart
  <2>2. served' = reload.next /\ reload.pc = "swap"
    BY <2>1 DEF Swap
  <2>3. call[s].op # "none" => Reached(s)
    BY <1>1 DEF IInv, OwnInv
  <2>4. call[s] \in EditType \cup NothingType
    BY <1>1 DEF IInv, CallInv, Idle
  <2>5. call[s].op \in {"create", "save", "delete", "revert", "none"}
    BY <2>4 DEF EditType, NothingType
  <2>6. CASE Writes(s)
    <3>1. call[s].name \in DOMAIN served' /\ served'[call[s].name] = [f \in Files |-> call[s].at]
      BY <2>2, <2>3, <2>6 DEF Reached, Writes
    <3> QED
      BY <2>6, <3>1 DEF Writes
  <2>7. CASE call[s].op = "delete"
    BY <2>2, <2>3, <2>7 DEF Reached, Writes
  <2>8. CASE call[s].op = "revert"
    BY <2>2, <2>3, <2>8 DEF Reached, Writes
  <2>9. CASE call[s].op = "none"
    BY <2>9 DEF Writes
  <2> QED
    BY <2>5, <2>6, <2>7, <2>8, <2>9 DEF Writes
<1>2. IInv /\ [Next]_vars =>
        [\A s \in Sessions :
           call[s].pc = "wait" /\ call[s].own /\ served' # served /\ up /\ up' /\ call[s].name \notin hurt =>
             LET n == call[s].name IN
             CASE Writes(s) -> n \in DOMAIN served' /\ served'[n] = [f \in Files |-> call[s].at]
               [] call[s].op = "delete" -> n \notin DOMAIN served' \/ n \in base
               [] call[s].op = "none" -> TRUE
               [] call[s].op = "revert" -> n \in base => served'[n] = Prebuilt]_vars
  BY <1>1
<1> QED
  BY <1>2, Inductive, PTL DEF Spec, OwnReloadServesIt
=============================================================================
