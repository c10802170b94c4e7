---------------------------- MODULE Lifecycle_proofs ----------------------------
(***************************************************************************)
(* Proofs about Lifecycle for any requests, sizes of the writer and        *)
(* faults: a shutdown takes nothing away that is in use, and readers of    *)
(* the logs miss nothing and read nothing twice.                           *)
(*                                                                         *)
(* And, in the second part, about the workerd children of the same         *)
(* gateway, that is about Watchdog and WorkerdProcess under it, for any    *)
(* children, ports, leftovers and order of events.  That the child which   *)
(* serves owns all its sockets rests on what a probe that was accepted     *)
(* once still says when the last one is delivered (ProbeInv), and that no  *)
(* child is lost on which child the reload in flight stands for.           *)
(***************************************************************************)
EXTENDS Lifecycle, Watchdog, FiniteSetTheorems, SequenceTheorems, TLAPS

RowType == [table : Tables, req : Nat, ts : Nat, id : Nat]
RequestType == [phase : {"new", "running", "done"}, ts : Nat, logged : BOOLEAN]
PagesType == [st : {"none", "open", "done"}, cursor : SUBSET RowType,
              got : Seq(SUBSET RowType), there : SUBSET RowType]

\* The shapes, more exactly than TypeOK; every row is in the table it is tagged with.
TableInv ==
  /\ lastId \in Nat /\ table \in [Tables -> SUBSET RowType]
  /\ \A t \in Tables : \A x \in table[t] : x.table = t

ShapeInv ==
  /\ now \in Nat /\ sync \in BOOLEAN /\ limit \in (Nat \ {0}) \X (Nat \ {0})
  /\ req \in [Requests -> RequestType] /\ queue \in Seq(RowType) /\ timer \in BOOLEAN

\* What a phase of the process says of its resources and of its requests.
PhaseInv ==
  /\ TypeOK
  /\ "server" \in held => pc = "up"
  /\ pc \in {"watchers", "serve", "up", "failed", "drain", "stopping"} => "backend" \in held
  /\ Alive /\ Running # {} => pc \in {"up", "drain"} \/ expired
  /\ pc \in {"logs", "backend", "watchers", "serve", "failed"} => \A r \in Requests : req[r].phase = "new"
  /\ pc = "logs" => "logs" \notin held
  /\ stopped => pc = "exited" /\ queue = <<>>

\* Where the row of a request that ended may be.
Accounted == table["invocations"] \cup dropped \cup failed \cup pruned \cup ToSet(queue)

AccountInv == "logs" \in held \/ stopped =>
  \A r \in Requests : req[r].phase = "done" => Row("invocations", r, req[r].ts) \in Accounted

\* No line has an id still to be given, nobody follows beyond the last one given.
TailInv ==
  /\ \A x \in table["logs"] : x.id \in 1 .. lastId
  /\ tail.after \in 0 .. lastId
  /\ TailMissesNothing

\* Between two pages: what was read ends at the cursor, what was there and was not read
\* comes after it.
Divides(c) ==
  /\ pages.cursor = {c} /\ c.table = reader
  /\ \A i \in DOMAIN pages.got : \A x \in pages.got[i] : x.table = reader /\ (x = c \/ Older(c, x))
  /\ \A x \in pages.there \ pruned :
       (x \in table[reader] /\ Older(x, c)) \/ \E i \in DOMAIN pages.got : x \in pages.got[i]

PagesInv ==
  /\ reader \in Tables \cup {"tail", "gone"} /\ pages \in PagesType
  /\ pages.st = "none" => pages = NoPages
  /\ pages.st = "open" => reader \in Tables /\ \E c \in RowType : Divides(c)
  /\ PagesAreExact

IInv == TableInv /\ ShapeInv /\ PhaseInv /\ AccountInv /\ TailInv /\ PagesInv

-----------------------------------------------------------------------------
(* Rows and batches *)

LEMMA RowIsTyped ==
  ASSUME NEW t \in Tables, NEW r \in Requests, NEW ts \in Nat
  PROVE  Row(t, r, ts) \in RowType /\ Row(t, r, ts).table = t
  BY LifecycleAssumption DEF Row, RowType, Tables

(* Lines of a batch are counted from 1 on. *)
LEMMA CountLines ==
  ASSUME NEW batch \in Seq(RowType), NEW lines \in SUBSET DOMAIN batch
  PROVE  /\ Cardinality(lines) \in Nat
         /\ \A i \in lines : Cardinality({j \in lines : j <= i}) \in 1 .. Cardinality(lines)
<1>1. IsFiniteSet(DOMAIN batch)
  BY FS_Interval, LenProperties
<1>2. IsFiniteSet(lines) /\ Cardinality(lines) \in Nat
  BY <1>1, FS_Subset, FS_CardinalityType
<1> SUFFICES ASSUME NEW i \in lines
             PROVE  Cardinality({j \in lines : j <= i}) \in 1 .. Cardinality(lines)
  BY <1>2
<1> DEFINE upto == {j \in lines : j <= i}
<1>3. IsFiniteSet(upto) /\ Cardinality(upto) <= Cardinality(lines) /\ Cardinality(upto) \in Nat
  BY <1>2, FS_Subset, FS_CardinalityType
<1>4. i \in upto
  BY LenProperties
<1>5. Cardinality(upto) # 0
  BY <1>3, <1>4, FS_EmptySet
<1> QED
  BY <1>2, <1>3, <1>5

(* What becomes of a batch: it is in the tables, its lines with new ids, or it failed. *)
LEMMA Wrote ==
  ASSUME TableInv, NEW batch \in Seq(RowType), Write(batch)
  PROVE  /\ TableInv' /\ lastId <= lastId' /\ failed \subseteq failed'
         /\ \A t \in Tables : table[t] \subseteq table'[t]
         /\ \A x \in table'["logs"] \ table["logs"] : x.id \in lastId + 1 .. lastId'
         /\ \A i \in DOMAIN batch : batch[i].table = "invocations" =>
              batch[i] \in table'["invocations"] \cup failed'
<1> DEFINE of(t) == {i \in DOMAIN batch : batch[i].table = t}
           new == Numbered(batch, of("logs"))
<1>1. CASE /\ table' = [table EXCEPT !["invocations"] = @ \cup {batch[i] : i \in of("invocations")},
                                     !["logs"] = @ \cup new]
           /\ lastId' = lastId + Cardinality(of("logs"))
           /\ UNCHANGED failed
  <2>1. Cardinality(of("logs")) \in Nat
        /\ \A i \in of("logs") : Cardinality({j \in of("logs") : j <= i}) \in 1 .. Cardinality(of("logs"))
    BY CountLines
  <2>2. \A i \in DOMAIN batch : batch[i] \in RowType
    OBVIOUS
  <2>3. \A x \in new : x \in RowType /\ x.table = "logs" /\ x.id \in lastId + 1 .. lastId'
    <3> SUFFICES ASSUME NEW i \in of("logs"),
                        NEW x, x = [batch[i] EXCEPT !.id = lastId + Cardinality({j \in of("logs") : j <= i})]
                 PROVE  x \in RowType /\ x.table = "logs" /\ x.id \in lastId + 1 .. lastId'
      BY DEF Numbered
    <3> DEFINE n == Cardinality({j \in of("logs") : j <= i})
    <3>1. n \in 1 .. Cardinality(of("logs"))
      BY <2>1
    <3>2. x = [batch[i] EXCEPT !.id = lastId + n]
      OBVIOUS
    <3> HIDE DEF n
    <3>3. lastId \in Nat /\ lastId' = lastId + Cardinality(of("logs"))
      BY <1>1 DEF TableInv
    <3>4. lastId + n \in lastId + 1 .. lastId' /\ lastId + n \in Nat
      BY <2>1, <3>1, <3>3
    <3>5. batch[i] \in RowType /\ batch[i].table = "logs"
      BY <2>2
    <3> QED
      BY <3>2, <3>4, <3>5 DEF RowType
  <2>4. DOMAIN table = Tables /\ "invocations" \in Tables /\ "logs" \in Tables /\ "invocations" # "logs"
    BY DEF TableInv, Tables
  <2> HIDE DEF new
  <2>5. /\ table'["invocations"] = table["invocations"] \cup {batch[i] : i \in of("invocations")}
        /\ table'["logs"] = table["logs"] \cup new
        /\ DOMAIN table' = Tables
    BY <1>1, <2>4
  <2>6. \A t \in Tables : table'[t] \in SUBSET RowType /\ \A x \in table'[t] : x.table = t
    BY <2>2, <2>3, <2>5 DEF TableInv, Tables
  <2>7. table' \in [Tables -> SUBSET RowType]
    <3>1. table' = [t \in Tables |-> table'[t]]
      BY <1>1, <2>4 DEF TableInv
    <3> QED
      BY <2>6, <3>1
  <2>8. lastId' \in Nat /\ lastId <= lastId'
    BY <1>1, <2>1 DEF TableInv
  <2>9. TableInv'
    BY <2>6, <2>7, <2>8 DEF TableInv
  <2>10. \A t \in Tables : table[t] \subseteq table'[t]
    BY <2>5 DEF Tables
  <2> QED
    BY <1>1, <2>3, <2>5, <2>8, <2>9, <2>10
<1>2. CASE /\ failed' = failed \cup ToSet(batch)
           /\ UNCHANGED <<table, lastId>>
  <2>1. TableInv' /\ lastId <= lastId'
    BY <1>2 DEF TableInv
  <2> QED
    BY <1>2, <2>1 DEF ToSet
<1> QED
  BY <1>1, <1>2 DEF Write

-----------------------------------------------------------------------------
(* The store *)

\* What a step may do to the store: ids grow, a row leaves a table only to be pruned, new
\* lines have new ids, and the row of a request is not forgotten.
StoreMoves ==
  /\ lastId <= lastId' /\ pruned \subseteq pruned'
  /\ \A t \in Tables : table[t] \subseteq table'[t] \cup pruned'
  /\ \A x \in table'["logs"] \ table["logs"] : x.id \in lastId + 1 .. lastId'
  /\ \A x \in Accounted : x.table = "invocations" => x \in Accounted'

\* TypeOK and ShapeInv of the queue.
QueueInv ==
  /\ queue \in Seq(RowType) /\ timer \in BOOLEAN
  /\ Len(queue) < limit[1] /\ Len(queue) <= limit[2] /\ (timer <=> queue # <<>>)

LEMMA StoreRests ==
  ASSUME TableInv, QueueInv, UNCHANGED <<limit, store>>
  PROVE  TableInv' /\ QueueInv' /\ StoreMoves
  BY DEF store, TableInv, QueueInv, StoreMoves, Accounted

LEMMA EmptyQueue ==
  ASSUME limit \in (Nat \ {0}) \X (Nat \ {0}), UNCHANGED limit, queue' = <<>>, timer' = FALSE
  PROVE  QueueInv'
<1>1. limit'[1] \in Nat \ {0} /\ limit'[2] \in Nat \ {0}
  OBVIOUS
<1>2. Len(<<>>) = 0 /\ <<>> \in Seq(RowType)
  BY EmptySeq
<1>3. Len(queue') < limit'[1] /\ Len(queue') <= limit'[2]
  BY <1>1, <1>2
<1>4. timer' \in BOOLEAN /\ (timer' <=> queue' # <<>>)
  OBVIOUS
<1> QED
  BY <1>2, <1>3, <1>4 DEF QueueInv

(* The queue is written: by its timer, or as the writer stops. *)
LEMMA QueueWritten ==
  ASSUME TableInv, QueueInv, limit \in (Nat \ {0}) \X (Nat \ {0}),
         Write(queue), queue' = <<>>, timer' = FALSE, UNCHANGED <<limit, dropped, pruned>>
  PROVE  TableInv' /\ QueueInv' /\ StoreMoves
<1>1. /\ TableInv' /\ lastId <= lastId' /\ failed \subseteq failed'
      /\ \A t \in Tables : table[t] \subseteq table'[t]
      /\ \A x \in table'["logs"] \ table["logs"] : x.id \in lastId + 1 .. lastId'
      /\ \A i \in DOMAIN queue : queue[i].table = "invocations" =>
           queue[i] \in table'["invocations"] \cup failed'
  BY Wrote DEF QueueInv
<1>2. QueueInv'
  BY EmptyQueue
<1>3. \A x \in Accounted : x.table = "invocations" => x \in Accounted'
  BY <1>1 DEF Accounted, ToSet, Tables
<1> QED
  BY <1>1, <1>2, <1>3 DEF StoreMoves

(* Rows are deleted. *)
LEMMA Removed ==
  ASSUME TableInv, NEW gone, Delete(gone), UNCHANGED <<lastId, queue, dropped, failed>>,
         \A t \in Tables : gone[t] \subseteq table[t]
  PROVE  TableInv' /\ StoreMoves
<1>1. \A t \in Tables : table'[t] = table[t] \ gone[t]
  BY DEF Delete
<1>2. pruned' = pruned \cup gone["invocations"] \cup gone["logs"]
  BY DEF Delete
<1>3. TableInv'
  BY <1>1 DEF Delete, TableInv
<1>4. \A t \in Tables : table[t] \subseteq table'[t] \cup pruned'
  BY <1>1, <1>2 DEF Tables
<1> QED
  BY <1>1, <1>2, <1>3, <1>4 DEF StoreMoves, Accounted, TableInv, Tables

LEMMA ChunkPruned ==
  ASSUME TableInv, PruneChunk, UNCHANGED <<lastId, queue, dropped, failed>>
  PROVE  TableInv' /\ StoreMoves
<1>1. PICK gone \in [Tables -> SUBSET (ToPrune("invocations") \cup ToPrune("logs"))] :
        Delete(gone) /\ \A t \in Tables : gone[t] \subseteq ToPrune(t)
  BY DEF PruneChunk
<1>2. \A t \in Tables : ToPrune(t) \subseteq table[t]
  BY DEF ToPrune, OverRows
<1> QED
  BY <1>1, <1>2, Removed

(* The queue is cut to its bound from its old end. *)
LEMMA CutKeepsTheEnd ==
  ASSUME NEW q \in Seq(RowType), limit \in (Nat \ {0}) \X (Nat \ {0})
  PROVE  Cut(q) \in Seq(RowType) /\ Len(Cut(q)) <= limit[2] /\ (q # <<>> => Cut(q) # <<>>)
<1>1. limit[2] \in Nat \ {0}
  OBVIOUS
<1>2. CASE Len(q) > limit[2]
  <2>1. Len(q) - limit[2] + 1 \in 1 .. Len(q) + 1 /\ Len(q) \in 0 .. Len(q)
    BY <1>1, <1>2, LenProperties
  <2> DEFINE c == SubSeq(q, Len(q) - limit[2] + 1, Len(q))
  <2>2. c \in Seq(RowType) /\ Len(c) = limit[2]
    BY <1>1, <1>2, <2>1, SubSeqProperties, LenProperties
  <2>3. Cut(q) = c
    BY <1>2 DEF Cut
  <2> QED
    BY <1>1, <2>2, <2>3, EmptySeq, SMTT(30)
<1>3. CASE ~(Len(q) > limit[2])
  BY <1>1, <1>3, LenProperties DEF Cut
<1> QED
  BY <1>2, <1>3

(* A row given to the writer is written, queued, dropped or failed. *)
LEMMA Enqueued ==
  ASSUME TableInv, QueueInv, limit \in (Nat \ {0}) \X (Nat \ {0}), UNCHANGED limit,
         NEW row \in RowType, Enqueue(row)
  PROVE  /\ TableInv' /\ QueueInv' /\ StoreMoves /\ stopped' = stopped
         /\ stopped => UNCHANGED queue
         /\ "logs" \in held /\ ~stopped /\ row.table = "invocations" => row \in Accounted'
<1>1. CASE "logs" \notin held \/ stopped
  <2>1. UNCHANGED store
    BY <1>1 DEF Enqueue
  <2> QED
    BY <1>1, <2>1, StoreRests DEF store
<1>2. CASE ~("logs" \notin held \/ stopped) /\ sync
  <2> DEFINE batch == <<row>>
  <2>1. Write(batch) /\ UNCHANGED <<queue, timer, stopped, pruning, dropped, pruned>>
    BY <1>2 DEF Enqueue
  <2>2. batch \in Seq(RowType) /\ 1 \in DOMAIN batch /\ batch[1] = row
    OBVIOUS
  <2> HIDE DEF batch
  <2>3. /\ TableInv' /\ lastId <= lastId' /\ failed \subseteq failed'
        /\ \A t \in Tables : table[t] \subseteq table'[t]
        /\ \A x \in table'["logs"] \ table["logs"] : x.id \in lastId + 1 .. lastId'
        /\ \A i \in DOMAIN batch : batch[i].table = "invocations" =>
             batch[i] \in table'["invocations"] \cup failed'
    BY <2>1, <2>2, Wrote
  <2>4. StoreMoves
    BY <2>1, <2>3 DEF StoreMoves, Accounted, Tables
  <2>5. QueueInv'
    BY <2>1 DEF QueueInv
  <2> QED
    BY <1>2, <2>1, <2>2, <2>3, <2>4, <2>5 DEF Accounted
<1>3. CASE ~("logs" \notin held \/ stopped) /\ ~sync
  <2> DEFINE all == Append(queue, row)
             q == Cut(all)
  <2>1. all \in Seq(RowType) /\ all # <<>> /\ ToSet(queue) \subseteq ToSet(all) /\ row \in ToSet(all)
    <3>1. /\ all \in Seq(RowType) /\ Len(all) = Len(queue) + 1 /\ all[Len(queue) + 1] = row
          /\ \A i \in 1 .. Len(queue) : all[i] = queue[i]
      BY AppendProperties DEF QueueInv
    <3> HIDE DEF all
    <3>2. DOMAIN queue = 1 .. Len(queue) /\ DOMAIN all = 1 .. Len(queue) + 1 /\ Len(queue) \in Nat
      BY <3>1, LenProperties DEF QueueInv
    <3> QED
      BY <3>1, <3>2, EmptySeq DEF ToSet
  <2>2. /\ dropped' = dropped \cup (ToSet(all) \ ToSet(q))
        /\ IF Len(q) >= limit[1]
           THEN Write(q) /\ queue' = <<>> /\ timer' = FALSE
           ELSE queue' = q /\ timer' = TRUE /\ UNCHANGED <<table, lastId, failed>>
        /\ UNCHANGED <<stopped, pruning, pruned>>
    BY <1>3 DEF Enqueue
  <2> HIDE DEF all
  <2>3. q \in Seq(RowType) /\ Len(q) <= limit[2] /\ q # <<>>
    BY <2>1, CutKeepsTheEnd
  <2> HIDE DEF q
  <2>4. CASE Len(q) >= limit[1]
    <3>1. Write(q) /\ queue' = <<>> /\ timer' = FALSE
      BY <2>2, <2>4
    <3>2. /\ TableInv' /\ lastId <= lastId' /\ failed \subseteq failed'
          /\ \A t \in Tables : table[t] \subseteq table'[t]
          /\ \A x \in table'["logs"] \ table["logs"] : x.id \in lastId + 1 .. lastId'
          /\ \A i \in DOMAIN q : q[i].table = "invocations" => q[i] \in table'["invocations"] \cup failed'
      BY <2>3, <3>1, Wrote
    <3>3. \A x \in ToSet(all) : x.table = "invocations" => x \in Accounted'
      BY <2>2, <3>2 DEF Accounted, ToSet
    <3>4. \A x \in Accounted : x.table = "invocations" => x \in Accounted'
      BY <2>1, <2>2, <3>2, <3>3 DEF Accounted, Tables
    <3>5. QueueInv'
      BY <3>1, EmptyQueue
    <3> QED
      BY <1>3, <2>1, <2>2, <3>2, <3>3, <3>4, <3>5 DEF StoreMoves
  <2>5. CASE ~(Len(q) >= limit[1])
    <3>1. queue' = q /\ timer' = TRUE /\ UNCHANGED <<table, lastId, failed>>
      BY <2>2, <2>5
    <3>2. TableInv'
      BY <3>1 DEF TableInv
    <3>3. QueueInv'
      <4>1. Len(q) \in Nat /\ limit[1] \in Nat
        BY <2>3, LenProperties
      <4> QED
        BY <2>3, <2>5, <3>1, <4>1 DEF QueueInv
    <3>4. ToSet(all) \subseteq Accounted'
      BY <2>2, <3>1 DEF Accounted
    <3>5. Accounted \subseteq Accounted'
      BY <2>1, <2>2, <3>1, <3>4 DEF Accounted
    <3> QED
      BY <1>3, <2>1, <2>2, <3>1, <3>2, <3>3, <3>4, <3>5 DEF StoreMoves, TableInv
  <2> QED
    BY <2>4, <2>5
<1> QED
  BY <1>1, <1>2, <1>3

(* Every step treats the store so. *)
LEMMA StoreStep ==
  ASSUME IInv, [Next]_vars
  PROVE  TableInv' /\ QueueInv' /\ StoreMoves
<1> QueueInv /\ TableInv /\ ShapeInv /\ limit \in (Nat \ {0}) \X (Nat \ {0})
  BY DEF IInv, ShapeInv, PhaseInv, TypeOK, QueueInv
<1>1. CASE OpenLogs
  <2>1. CASE Delete([t \in Tables |-> ToPrune(t)])
    <3>1. \A t \in Tables : ToPrune(t) \subseteq table[t]
      BY DEF ToPrune, OverRows
    <3>2. UNCHANGED <<limit, queue, timer, lastId, dropped, failed>>
      BY <1>1 DEF OpenLogs
    <3>3. TableInv' /\ StoreMoves
      BY <2>1, <3>1, <3>2, Removed
    <3> QED
      BY <3>2, <3>3 DEF QueueInv
  <2>2. CASE UNCHANGED <<table, pruned>>
    BY <1>1, <2>2, StoreRests DEF OpenLogs, store
  <2> QED
    BY <1>1, <2>1, <2>2 DEF OpenLogs
<1>2. CASE StartBackend
  BY <1>2, StoreRests DEF StartBackend, Boots, Exit
<1>3. CASE StartWatchers
  BY <1>3, StoreRests DEF StartWatchers, Boots
<1>4. CASE Serve
  BY <1>4, StoreRests DEF Serve, Boots
<1>5. CASE ServeFailed
  BY <1>5, StoreRests DEF ServeFailed, Exit
<1>6. CASE Killed
  BY <1>6, StoreRests DEF Killed, Exit
<1>7. CASE Signal
  BY <1>7, StoreRests DEF Signal
<1>8. CASE GraceEnds
  BY <1>8, StoreRests DEF GraceEnds
<1>9. CASE Drain
  BY <1>9, StoreRests DEF Drain
<1>10. CASE StopBackend
  BY <1>10, StoreRests DEF StopBackend
<1>11. CASE Close
  <2>1. CASE "logs" \in held
    BY <1>11, <2>1, QueueWritten DEF Close, StopWriter
  <2>2. CASE "logs" \notin held
    <3>1. UNCHANGED <<table, lastId, failed, queue, timer, limit, dropped, pruned>>
      BY <1>11, <2>2 DEF Close
    <3> QED
      BY <3>1 DEF TableInv, QueueInv, StoreMoves, Accounted
  <2> QED
    BY <2>1, <2>2
<1>12. ASSUME NEW r \in Requests, Start(r) PROVE TableInv' /\ QueueInv' /\ StoreMoves
  BY <1>12, StoreRests DEF Start
<1>13. ASSUME NEW r \in Requests, LogLine(r) PROVE TableInv' /\ QueueInv' /\ StoreMoves
  <2>1. now \in Nat /\ "logs" \in Tables
    BY DEF ShapeInv, RequestType, Tables
  <2>2. Row("logs", r, now) \in RowType
    BY <2>1, RowIsTyped
  <2> QED
    BY <1>13, <2>2, Enqueued DEF LogLine
<1>14. ASSUME NEW r \in Requests, Finish(r) PROVE TableInv' /\ QueueInv' /\ StoreMoves
  <2>1. req[r].ts \in Nat /\ "invocations" \in Tables
    BY DEF ShapeInv, RequestType, Tables
  <2>2. Row("invocations", r, req[r].ts) \in RowType
    BY <2>1, RowIsTyped
  <2> QED
    BY <1>14, <2>2, Enqueued DEF Finish
<1>15. CASE Flush
  BY <1>15, QueueWritten DEF Flush
<1>16. CASE PruneStart
  <2>1. UNCHANGED <<limit, queue, timer, lastId, dropped, failed>>
    BY <1>16 DEF PruneStart
  <2>2. TableInv' /\ StoreMoves
    BY <1>16, <2>1, ChunkPruned DEF PruneStart
  <2> QED
    BY <2>1, <2>2 DEF QueueInv
<1>17. CASE PruneStep
  <2>1. UNCHANGED <<limit, queue, timer, lastId, dropped, failed>>
    BY <1>17 DEF PruneStep
  <2>2. CASE stopped
    <3>1. UNCHANGED <<table, pruned>>
      BY <1>17, <2>2 DEF PruneStep
    <3> QED
      BY <2>1, <3>1 DEF TableInv, QueueInv, StoreMoves, Accounted
  <2>3. CASE ~stopped
    <3>1. TableInv' /\ StoreMoves
      BY <1>17, <2>1, <2>3, ChunkPruned DEF PruneStep
    <3> QED
      BY <2>1, <3>1 DEF QueueInv
  <2> QED
    BY <2>2, <2>3
<1>18. CASE Tick
  BY <1>18, StoreRests DEF Tick
<1>19. CASE Follow
  BY <1>19, StoreRests DEF Follow
<1>20. CASE QueryInvocations
  BY <1>20, StoreRests DEF QueryInvocations, NextPage
<1>21. CASE SearchLogs
  BY <1>21, StoreRests DEF SearchLogs, NextPage
<1>22. CASE UNCHANGED vars
  BY <1>22, StoreRests DEF vars
<1> QED
  BY <1>1, <1>2, <1>3, <1>4, <1>5, <1>6, <1>7, <1>8, <1>9, <1>10, <1>11, <1>12, <1>13, <1>14, <1>15, <1>16, <1>17, <1>18, <1>19, <1>20, <1>21, <1>22 DEF Next

-----------------------------------------------------------------------------
(* Phases and accounts *)

LEMMA ShapeStep ==
  ASSUME IInv, [Next]_vars, QueueInv'
  PROVE  ShapeInv'
<1> ShapeInv /\ DOMAIN req = Requests
  BY DEF IInv, ShapeInv
<1>1. CASE OpenLogs \/ StartBackend \/ StartWatchers \/ Serve \/ ServeFailed \/ Killed
  <2>1. UNCHANGED <<req, now, sync, limit>>
    BY <1>1 DEF OpenLogs, StartBackend, StartWatchers, Serve, Boots, ServeFailed, Killed, Exit
  <2> QED
    BY <2>1 DEF ShapeInv, QueueInv
<1>2. CASE Signal \/ GraceEnds \/ Drain \/ StopBackend \/ Close
  <2>1. UNCHANGED <<req, now, sync, limit>>
    BY <1>2 DEF Signal, GraceEnds, Drain, StopBackend, Close
  <2> QED
    BY <2>1 DEF ShapeInv, QueueInv
<1>3. ASSUME NEW r \in Requests, Start(r) \/ LogLine(r) \/ Finish(r)
      PROVE  ShapeInv'
  <2>1. req[r] \in RequestType /\ now \in Nat
    BY DEF ShapeInv
  <2>2. \E q \in RequestType : req' = [req EXCEPT ![r] = q]
    <3>1. CASE Start(r)
      <4> DEFINE q == [req[r] EXCEPT !.phase = "running", !.ts = now]
      <4>1. q \in RequestType
        BY <2>1 DEF RequestType
      <4>2. req' = [req EXCEPT ![r] = q]
        BY <3>1 DEF Start
      <4> QED
        BY <4>1, <4>2
    <3>2. CASE LogLine(r)
      <4> DEFINE q == [req[r] EXCEPT !.logged = TRUE]
      <4>1. q \in RequestType
        BY <2>1 DEF RequestType
      <4>2. req' = [req EXCEPT ![r] = q]
        BY <3>2 DEF LogLine
      <4> QED
        BY <4>1, <4>2
    <3>3. CASE Finish(r)
      <4> DEFINE q == [req[r] EXCEPT !.phase = "done"]
      <4>1. q \in RequestType
        BY <2>1 DEF RequestType
      <4>2. req' = [req EXCEPT ![r] = q]
        BY <3>3 DEF Finish
      <4> QED
        BY <4>1, <4>2
    <3> QED
      BY <1>3, <3>1, <3>2, <3>3
  <2>3. UNCHANGED <<now, sync, limit>>
    BY <1>3 DEF Start, LogLine, Finish
  <2> QED
    BY <2>2, <2>3 DEF ShapeInv, QueueInv
<1>4. CASE Flush \/ PruneStart \/ PruneStep \/ Follow \/ QueryInvocations \/ SearchLogs \/ UNCHANGED vars
  <2>1. UNCHANGED <<req, now, sync, limit>>
    BY <1>4 DEF Flush, PruneStart, PruneStep, Follow, QueryInvocations, SearchLogs, NextPage, vars
  <2> QED
    BY <2>1 DEF ShapeInv, QueueInv
<1>5. CASE Tick
  BY <1>5 DEF Tick, ShapeInv, QueueInv
<1> QED
  BY <1>1, <1>2, <1>3, <1>4, <1>5 DEF Next

LEMMA Stays ==
  ASSUME NEW row, Enqueue(row)
  PROVE  stopped' = stopped
  BY DEF Enqueue, store

(* Resources are taken and given back in the order of the phases. *)
LEMMA PhaseStep ==
  ASSUME IInv, [Next]_vars, QueueInv', ShapeInv'
  PROVE  PhaseInv'
<1> PhaseInv /\ ShapeInv
  BY DEF IInv
<1>1. CASE OpenLogs
  BY <1>1 DEF OpenLogs, PhaseInv, TypeOK, QueueInv, Alive, Running, store
<1>2. CASE StartBackend
  <2>1. CASE Boots("backend", "watchers", "backend")
    BY <2>1 DEF Boots, PhaseInv, TypeOK, QueueInv, Alive, Running, store
  <2>2. CASE Alive /\ pc = "backend" /\ Exit("config")
    BY <2>2 DEF Exit, PhaseInv, TypeOK, QueueInv, Alive, Running, store
  <2> QED
    BY <1>2, <2>1, <2>2 DEF StartBackend
<1>3. CASE StartWatchers
  BY <1>3 DEF StartWatchers, Boots, PhaseInv, TypeOK, QueueInv, Alive, Running, store
<1>4. CASE Serve
  <2>1. CASE Boots("serve", "up", "server")
    BY <2>1 DEF Boots, PhaseInv, TypeOK, QueueInv, Alive, Running, store
  <2>2. CASE Alive /\ pc = "serve" /\ pc' = "failed" /\ UNCHANGED <<held, exit, expired, req, limit, store>>
    BY <2>2 DEF PhaseInv, TypeOK, QueueInv, Alive, Running, store
  <2> QED
    BY <1>4, <2>1, <2>2 DEF Serve
<1>5. CASE ServeFailed
  BY <1>5 DEF ServeFailed, Exit, PhaseInv, TypeOK, QueueInv, Alive, Running, store
<1>6. CASE Killed
  BY <1>6 DEF Killed, Exit, PhaseInv, TypeOK, QueueInv, Alive, Running, store
<1>7. CASE Signal
  BY <1>7 DEF Signal, PhaseInv, TypeOK, QueueInv, Alive, Running, store
<1>8. CASE GraceEnds
  BY <1>8 DEF GraceEnds, PhaseInv, TypeOK, QueueInv, Alive, Running, store
<1>9. CASE Drain
  BY <1>9 DEF Drain, Drained, PhaseInv, TypeOK, QueueInv, Alive, Running, store
<1>10. CASE StopBackend
  BY <1>10 DEF StopBackend, PhaseInv, TypeOK, QueueInv, Alive, Running, store
<1>11. CASE Close
  BY <1>11 DEF Close, PhaseInv, TypeOK, QueueInv, Alive, Running, store
<1>12. ASSUME NEW r \in Requests, Start(r) PROVE PhaseInv'
  <2>1. pc = "up" /\ UNCHANGED <<pc, held, exit, limit, stopped>>
    BY <1>12 DEF Start, PhaseInv, store
  <2> QED
    BY <2>1 DEF PhaseInv, TypeOK, ShapeInv, QueueInv, RequestType, Alive
<1>13. ASSUME NEW r \in Requests, LogLine(r) PROVE PhaseInv'
  <2>1. Alive /\ r \in Running /\ UNCHANGED <<pc, held, exit, expired, limit>>
    BY <1>13 DEF LogLine
  <2>2. ~stopped /\ stopped' = stopped
    BY <1>13, <2>1, Stays DEF LogLine, PhaseInv, TypeOK
  <2>3. Running' \subseteq Running
    BY <1>13 DEF LogLine, Running, ShapeInv, RequestType
  <2>4. pc \notin {"logs", "backend", "watchers", "serve", "failed"}
    BY <2>1 DEF Running, PhaseInv
  <2>5. TypeOK'
    BY <2>1 DEF PhaseInv, TypeOK, ShapeInv, QueueInv, RequestType, Alive
  <2> QED
    BY <2>1, <2>2, <2>3, <2>4, <2>5 DEF PhaseInv, Alive
<1>14. ASSUME NEW r \in Requests, Finish(r) PROVE PhaseInv'
  <2>1. Alive /\ r \in Running /\ UNCHANGED <<pc, held, exit, expired, limit>>
    BY <1>14 DEF Finish
  <2>2. ~stopped /\ stopped' = stopped
    BY <1>14, <2>1, Stays DEF Finish, PhaseInv, TypeOK
  <2>3. Running' \subseteq Running
    BY <1>14 DEF Finish, Running, ShapeInv, RequestType
  <2>4. pc \notin {"logs", "backend", "watchers", "serve", "failed"}
    BY <2>1 DEF Running, PhaseInv
  <2>5. TypeOK'
    BY <2>1 DEF PhaseInv, TypeOK, ShapeInv, QueueInv, RequestType, Alive
  <2> QED
    BY <2>1, <2>2, <2>3, <2>4, <2>5 DEF PhaseInv, Alive
<1>15. CASE Flush
  BY <1>15 DEF Flush, PhaseInv, TypeOK, QueueInv, Alive, Running, store
<1>16. CASE PruneStart
  BY <1>16 DEF PruneStart, PhaseInv, TypeOK, QueueInv, Alive, Running, store
<1>17. CASE PruneStep
  BY <1>17 DEF PruneStep, PhaseInv, TypeOK, QueueInv, Alive, Running, store
<1>18. CASE Tick
  BY <1>18 DEF Tick, PhaseInv, TypeOK, QueueInv, Alive, Running, store
<1>19. CASE Follow
  BY <1>19 DEF Follow, PhaseInv, TypeOK, QueueInv, Alive, Running, store
<1>20. CASE QueryInvocations
  BY <1>20 DEF QueryInvocations, NextPage, PhaseInv, TypeOK, QueueInv, Alive, Running, store
<1>21. CASE SearchLogs
  BY <1>21 DEF SearchLogs, NextPage, PhaseInv, TypeOK, QueueInv, Alive, Running, store
<1>22. CASE UNCHANGED vars
  BY <1>22 DEF vars, store, PhaseInv, TypeOK, Alive, Running
<1> QED
  BY <1>1, <1>2, <1>3, <1>4, <1>5, <1>6, <1>7, <1>8, <1>9, <1>10, <1>11, <1>12, <1>13, <1>14, <1>15, <1>16, <1>17, <1>18, <1>19, <1>20, <1>21, <1>22 DEF Next


(* The row of a request that ended is written, queued, or known to be lost. *)
LEMMA AccountStep ==
  ASSUME IInv, [Next]_vars, StoreMoves
  PROVE  AccountInv'
<1> AccountInv /\ PhaseInv /\ ShapeInv /\ TableInv /\ DOMAIN req = Requests
  BY DEF IInv, ShapeInv
<1> QueueInv /\ limit \in (Nat \ {0}) \X (Nat \ {0})
  BY DEF ShapeInv, PhaseInv, TypeOK, QueueInv
<1>1. ASSUME NEW r \in Requests, "logs" \in held \/ stopped, req[r].phase = "done", req'[r].ts = req[r].ts
      PROVE  Row("invocations", r, req'[r].ts) \in Accounted'
  <2>1. Row("invocations", r, req[r].ts) \in Accounted
    BY <1>1 DEF AccountInv
  <2>2. Row("invocations", r, req[r].ts).table = "invocations"
    BY DEF Row
  <2> QED
    BY <1>1, <2>1, <2>2 DEF StoreMoves
<1>2. ASSUME UNCHANGED req, "logs" \in held' \/ stopped' => "logs" \in held \/ stopped
      PROVE  AccountInv'
  BY <1>1, <1>2 DEF AccountInv
<1>3. CASE OpenLogs
  <2>1. \A r \in Requests : req'[r].phase = "new"
    BY <1>3 DEF OpenLogs, PhaseInv
  <2> QED
    BY <2>1 DEF AccountInv
<1>4. CASE StartBackend \/ StartWatchers \/ Serve \/ ServeFailed \/ Killed
  <2>1. UNCHANGED <<req, stopped>> /\ ("logs" \in held' => "logs" \in held)
    BY <1>4 DEF StartBackend, StartWatchers, Serve, Boots, ServeFailed, Killed, Exit, store
  <2> QED
    BY <1>2, <2>1
<1>5. CASE Signal \/ GraceEnds \/ Drain \/ StopBackend
  <2>1. UNCHANGED <<req, stopped>> /\ ("logs" \in held' => "logs" \in held)
    BY <1>5 DEF Signal, GraceEnds, Drain, StopBackend, store
  <2> QED
    BY <1>2, <2>1
<1>6. CASE Close
  <2>1. UNCHANGED req /\ ("logs" \in held' \/ stopped' => "logs" \in held \/ stopped)
    BY <1>6 DEF Close
  <2> QED
    BY <1>2, <2>1
<1>7. ASSUME NEW r \in Requests, Start(r)
      PROVE  AccountInv'
  <2>1. UNCHANGED <<held, stopped>>
    BY <1>7 DEF Start, store
  <2>2. \A q \in Requests : req'[q].phase = "done" => req[q].phase = "done" /\ req'[q].ts = req[q].ts
    BY <1>7 DEF Start, ShapeInv, RequestType
  <2> QED
    BY <1>1, <2>1, <2>2 DEF AccountInv
<1>8. ASSUME NEW r \in Requests, LogLine(r)
      PROVE  AccountInv'
  <2>1. held' = held /\ stopped' = stopped
    BY <1>8, Stays DEF LogLine
  <2>2. \A q \in Requests : req'[q].phase = req[q].phase /\ req'[q].ts = req[q].ts
    BY <1>8 DEF LogLine, ShapeInv, RequestType
  <2> QED
    BY <1>1, <2>1, <2>2 DEF AccountInv
<1>9. ASSUME NEW r \in Requests, Finish(r)
      PROVE  AccountInv'
  <2> DEFINE row == Row("invocations", r, req[r].ts)
  <2>1. held' = held /\ stopped' = stopped /\ ~stopped
    BY <1>9, Stays DEF Finish, PhaseInv, TypeOK
  <2>2. \A q \in Requests : req'[q].ts = req[q].ts /\ (q # r => req'[q].phase = req[q].phase)
    BY <1>9 DEF Finish, ShapeInv, RequestType
  <2>3. req[r].ts \in Nat /\ "invocations" \in Tables
    BY DEF ShapeInv, RequestType, Tables
  <2>4. row \in RowType /\ row.table = "invocations"
    BY <2>3, RowIsTyped
  <2>5. Enqueue(row) /\ UNCHANGED limit
    BY <1>9 DEF Finish
  <2> HIDE DEF row
  <2>6. "logs" \in held => row \in Accounted'
    BY <2>1, <2>4, <2>5, Enqueued
  <2> USE DEF row
  <2>7. ASSUME NEW q \in Requests, "logs" \in held, req'[q].phase = "done"
        PROVE  Row("invocations", q, req'[q].ts) \in Accounted'
    <3>1. CASE q = r
      BY <2>2, <2>6, <2>7, <3>1
    <3>2. CASE q # r
      BY <1>1, <2>2, <2>7, <3>2
    <3> QED
      BY <3>1, <3>2
  <2> QED
    BY <2>1, <2>7 DEF AccountInv
<1>10. CASE Flush \/ PruneStart \/ PruneStep \/ Tick \/ Follow \/ QueryInvocations \/ SearchLogs \/ UNCHANGED vars
  <2>1. UNCHANGED <<req, held, stopped>>
    BY <1>10 DEF Flush, PruneStart, PruneStep, Tick, Follow, QueryInvocations, SearchLogs, NextPage, vars, store
  <2> QED
    BY <1>2, <2>1
<1> QED
  BY <1>3, <1>4, <1>5, <1>6, <1>7, <1>8, <1>9, <1>10 DEF Next

-----------------------------------------------------------------------------
(* Readers *)

(* The order of the rows of a table is strict. *)
LEMMA OlderIsAnOrder ==
  /\ \A x, y \in RowType : x.table = y.table /\ Older(x, y) => ~Older(y, x)
  /\ \A x, y, z \in RowType : x.table = y.table /\ y.table = z.table /\ Older(x, y) /\ Older(y, z) => Older(x, z)
  BY DEF Older, RowType

(* Only the client's own steps, and the signal, change what it knows. *)
LEMMA OthersLeaveReaders ==
  ASSUME [Next]_vars, ~Signal, ~Follow, ~QueryInvocations, ~SearchLogs
  PROVE  UNCHANGED client
<1>1. CASE OpenLogs \/ StartBackend \/ StartWatchers \/ Serve \/ ServeFailed \/ Killed
  BY <1>1 DEF OpenLogs, StartBackend, StartWatchers, Serve, Boots, ServeFailed, Killed, Exit
<1>2. CASE GraceEnds \/ Drain \/ StopBackend \/ Close
  BY <1>2 DEF GraceEnds, Drain, StopBackend, Close
<1>3. CASE \E r \in Requests : Start(r) \/ LogLine(r) \/ Finish(r)
  BY <1>3 DEF Start, LogLine, Finish
<1>4. CASE Flush \/ PruneStart \/ PruneStep \/ Tick \/ UNCHANGED vars
  BY <1>4 DEF Flush, PruneStart, PruneStep, Tick, vars
<1> QED
  BY <1>1, <1>2, <1>3, <1>4 DEF Next

(* A line that is written later has an id nobody has gone past. *)
LEMMA TailStep ==
  ASSUME IInv, [Next]_vars, StoreMoves, TableInv'
  PROVE  TailInv'
<1> TailInv /\ TableInv
  BY DEF IInv
<1>1. lastId \in Nat /\ lastId' \in Nat /\ lastId <= lastId'
  BY DEF TableInv, StoreMoves
<1>2. \A x \in table'["logs"] : x \in table["logs"] \/ x.id \in lastId + 1 .. lastId'
  BY DEF StoreMoves
<1>3. \A x \in table'["logs"] : x.id \in 1 .. lastId'
  BY <1>1, <1>2 DEF TailInv
<1>4. CASE UNCHANGED tail
  <2>1. tail'.after \in 0 .. lastId'
    BY <1>1, <1>4 DEF TailInv
  <2>2. \A x \in table'["logs"] : x.id <= tail'.after => x \in table["logs"]
    BY <1>1, <1>2, <1>4 DEF TailInv
  <2> QED
    BY <1>3, <1>4, <2>1, <2>2 DEF TailInv, TailMissesNothing
<1>5. CASE Signal
  <2>1. tail'.after = 0
    BY <1>5 DEF Signal, NoTail
  <2> QED
    BY <1>1, <1>3, <2>1 DEF TailInv, TailMissesNothing
<1>6. CASE Follow
  <2>1. PICK items \in SUBSET table["logs"], last \in table["logs"] :
          /\ LogsSince(tail.after, items) /\ last \in items
          /\ tail' = [after |-> last.id, seen |-> tail.seen \cup items]
    BY <1>6 DEF Follow
  <2>2. UNCHANGED <<table, lastId>>
    BY <1>6 DEF Follow, store
  <2>3. tail'.after = last.id /\ tail'.seen = tail.seen \cup items
    BY <2>1
  <2>4. \A x \in table["logs"] : x \in RowType /\ x.table = "logs" /\ x.id \in 1 .. lastId
    BY DEF TableInv, TailInv, Tables
  <2>5. ASSUME NEW x \in table["logs"], x.id <= last.id
        PROVE  x \in tail.seen \cup items
    <3>1. CASE x.id <= tail.after
      BY <3>1 DEF TailInv, TailMissesNothing
    <3>2. CASE ~(x.id <= tail.after)
      <4>1. x.id > tail.after
        BY <2>4, <3>2 DEF TailInv
      <4>2. x \in items \/ Older(last, x)
        BY <2>1, <4>1 DEF LogsSince
      <4>3. ~Older(last, x)
        BY <2>4, <2>5 DEF Older
      <4> QED
        BY <4>2, <4>3
    <3> QED
      BY <3>1, <3>2
  <2> QED
    BY <1>1, <1>3, <2>2, <2>3, <2>4, <2>5 DEF TailInv, TailMissesNothing
<1>7. CASE QueryInvocations \/ SearchLogs
  <2>1. UNCHANGED tail
    BY <1>7 DEF QueryInvocations, SearchLogs, NextPage
  <2> QED
    BY <1>4, <2>1
<1> QED
  BY <1>4, <1>5, <1>6, <1>7, OthersLeaveReaders DEF client

(* A page ends at the next cursor, and holds all that came after the last one if there is
   none. *)
LEMMA PageRead ==
  ASSUME TableInv, PagesInv, NEW t \in Tables, NextPage(t), UNCHANGED pruned
  PROVE  PagesInv'
<1> DEFINE rest == Rest(t, pages.cursor)
<1>1. PICK items \in SUBSET rest, cursor \in SUBSET rest :
        /\ Page(rest, items) /\ NextCursor(rest, items, cursor)
        /\ pages' = [st |-> IF cursor = {} THEN "done" ELSE "open",
                     cursor |-> cursor,
                     got |-> Append(pages.got, items),
                     there |-> IF pages.st = "none" THEN table[t] ELSE pages.there]
  BY DEF NextPage
<1>2. reader = t /\ pages.st # "done" /\ UNCHANGED <<reader, table>>
  BY DEF NextPage, store
<1>3. rest \subseteq table[t] /\ \A x \in table[t] : x \in RowType /\ x.table = t
  BY DEF Rest, TableInv
<1>4. /\ pages.st \in {"none", "open"} /\ pages.cursor \in SUBSET RowType
      /\ pages.got \in Seq(SUBSET RowType) /\ pages.there \in SUBSET RowType
  BY <1>2 DEF PagesInv, PagesType
<1> DEFINE got == Append(pages.got, items)
           there == IF pages.st = "none" THEN table[t] ELSE pages.there
           n == Len(pages.got)
<1>5. /\ n \in Nat /\ DOMAIN pages.got = 1 .. n /\ DOMAIN got = 1 .. n + 1
      /\ got \in Seq(SUBSET RowType) /\ got[n + 1] = items
      /\ \A i \in 1 .. n : got[i] = pages.got[i]
  <2>1. items \in SUBSET RowType
    BY <1>3
  <2> QED
    BY <1>4, <2>1, AppendProperties, LenProperties
<1>6. /\ pages'.st = (IF cursor = {} THEN "done" ELSE "open")
      /\ pages'.cursor = cursor /\ pages'.got = got /\ pages'.there = there
  BY <1>1
<1>7. pages' \in PagesType
  <2>1. cursor \in SUBSET RowType /\ there \in SUBSET RowType
    BY <1>3, <1>4
  <2> HIDE DEF got, there
  <2> QED
    BY <1>1, <1>5, <2>1 DEF PagesType, got, there
<1> HIDE DEF got, there, n, rest
\* What was read before is newer than the rest; what is not read yet is in the rest.
<1>8. \A i \in 1 .. n : \A x \in pages.got[i] : x.table = t /\ x \in RowType /\ \A y \in rest : Older(y, x)
  <2> SUFFICES ASSUME NEW i \in 1 .. n, NEW x \in pages.got[i]
               PROVE  x.table = t /\ x \in RowType /\ \A y \in rest : Older(y, x)
    OBVIOUS
  <2>1. x \in RowType
    BY <1>4, <1>5
  <2>2. pages.st = "open"
    <3>1. pages.st = "none" => n = 0
      BY EmptySeq DEF PagesInv, NoPages, n
    <3> QED
      BY <1>4, <3>1
  <2>3. PICK c \in RowType : Divides(c)
    BY <2>2 DEF PagesInv
  <2>4. c.table = t /\ pages.cursor = {c}
    BY <1>2, <2>3 DEF Divides
  <2>5. x.table = t /\ (x = c \/ Older(c, x))
    BY <1>2, <1>5, <2>3 DEF Divides
  <2>6. ASSUME NEW y \in rest
        PROVE  Older(y, x)
    <3>1. Older(y, c) /\ y \in RowType /\ y.table = t
      BY <1>3, <2>4 DEF rest, Rest
    <3> QED
      BY <2>1, <2>4, <2>5, <3>1, OlderIsAnOrder
  <2> QED
    BY <2>1, <2>5, <2>6
<1>9. \A x \in there \ pruned : x \in rest \/ \E i \in 1 .. n : x \in pages.got[i]
  <2>1. CASE pages.st = "none"
    BY <2>1 DEF PagesInv, NoPages, Rest, rest, there
  <2>2. CASE pages.st = "open"
    <3>1. PICK c \in RowType : Divides(c)
      BY <2>2 DEF PagesInv
    <3> QED
      BY <1>2, <1>5, <2>2, <3>1 DEF Divides, Rest, rest, there
  <2> QED
    BY <1>4, <2>1, <2>2
<1>10. \A i, j \in DOMAIN got : i # j => got[i] \cap got[j] = {}
  <2>1. \A i, j \in 1 .. n : i # j => got[i] \cap got[j] = {}
    BY <1>5 DEF PagesInv, PagesAreExact
  <2>2. \A i \in 1 .. n : got[i] \cap items = {}
    BY <1>3, <1>5, <1>8, OlderIsAnOrder
  <2> QED
    BY <1>5, <2>1, <2>2
<1>11. pages'.st = "done" => pages'.there \ pruned \subseteq UNION ToSet(pages'.got)
  <2> SUFFICES ASSUME cursor = {}, NEW x \in there \ pruned
               PROVE  x \in UNION ToSet(got)
    BY <1>6
  <2>1. items = rest
    BY <1>1 DEF NextCursor, Page, FirstRows
  <2> QED
    BY <1>5, <1>9, <2>1 DEF ToSet
<1>12. ASSUME cursor # {}
       PROVE  \E c \in RowType : Divides(c)'
  <2>1. PICK last \in items : cursor = {last} /\ \A x \in items \ {last} : Older(last, x)
    BY <1>1, <1>12 DEF NextCursor
  <2>2. last \in RowType /\ last.table = t /\ last \in rest
    BY <1>3, <2>1
  <2>3. \A i \in DOMAIN got : \A x \in got[i] : x.table = t /\ (x = last \/ Older(last, x))
    BY <1>3, <1>5, <1>8, <2>1, <2>2
  <2>4. ASSUME NEW x \in there \ pruned
        PROVE  (x \in table[t] /\ Older(x, last)) \/ \E i \in DOMAIN got : x \in got[i]
    <3>1. CASE x \in rest \ items
      BY <1>1, <1>3, <2>1, <3>1 DEF Page
    <3>2. CASE ~(x \in rest \ items)
      BY <1>5, <1>9, <3>2
    <3> QED
      BY <3>1, <3>2
  <2>5. Divides(last)'
    BY <1>2, <1>6, <2>1, <2>2, <2>3, <2>4 DEF Divides
  <2> QED
    BY <2>2, <2>5
<1> QED
  BY <1>2, <1>6, <1>7, <1>10, <1>11, <1>12 DEF PagesInv, PagesAreExact

LEMMA PagesStep ==
  ASSUME IInv, [Next]_vars, StoreMoves, TableInv'
  PROVE  PagesInv'
<1> PagesInv /\ TableInv
  BY DEF IInv
<1>1. CASE UNCHANGED <<reader, pages>>
  <2>1. ASSUME NEW c \in RowType, Divides(c), reader \in Tables
        PROVE  Divides(c)'
    BY <1>1, <2>1 DEF Divides, StoreMoves
  <2>2. PagesAreExact'
    BY <1>1 DEF PagesInv, PagesAreExact, StoreMoves
  <2> QED
    BY <1>1, <2>1, <2>2 DEF PagesInv
<1>2. CASE Signal
  <2>1. reader' = "gone" /\ pages' = NoPages
    BY <1>2 DEF Signal
  <2>2. NoPages \in PagesType
    BY EmptySeq DEF NoPages, PagesType
  <2>3. PagesAreExact'
    BY <2>1, EmptySeq DEF PagesAreExact, NoPages
  <2> QED
    BY <2>1, <2>2, <2>3 DEF PagesInv, NoPages
<1>3. CASE Follow
  BY <1>1, <1>3 DEF Follow
<1>4. CASE QueryInvocations
  <2>1. NextPage("invocations") /\ "invocations" \in Tables /\ UNCHANGED pruned
    BY <1>4 DEF QueryInvocations, NextPage, Tables, store
  <2> QED
    BY <2>1, PageRead
<1>5. CASE SearchLogs
  <2>1. NextPage("logs") /\ "logs" \in Tables /\ UNCHANGED pruned
    BY <1>5 DEF SearchLogs, NextPage, Tables, store
  <2> QED
    BY <2>1, PageRead
<1> QED
  BY <1>1, <1>2, <1>3, <1>4, <1>5, OthersLeaveReaders DEF client

-----------------------------------------------------------------------------
(* The invariant and what follows from it *)

LEMMA Initially == Init => IInv
<1> SUFFICES ASSUME Init
             PROVE  IInv
  OBVIOUS
<1>1. PICK old \in OldRows :
        /\ table = [t \in Tables |->
             {[Row(t, old[i][1], old[i][2]) EXCEPT !.id = IF t = "logs" THEN i ELSE @] : i \in DOMAIN old}]
        /\ lastId = Len(old)
  BY DEF Init
<1>2. /\ Len(old) \in Nat /\ DOMAIN old = 1 .. Len(old)
      /\ \A i \in DOMAIN old : old[i][1] \in Nat /\ old[i][2] \in Nat
  <2>1. old \in Seq((Nat \ Requests) \X Nat)
    BY LifecycleAssumption
  <2> QED
    BY <2>1, LenProperties
<1>3. \A t \in Tables : \A x \in table[t] :
        x \in RowType /\ x.table = t /\ (t = "logs" => x.id \in 1 .. lastId)
  <2> SUFFICES ASSUME NEW t \in Tables, NEW i \in DOMAIN old, NEW x,
                      x = [Row(t, old[i][1], old[i][2]) EXCEPT !.id = IF t = "logs" THEN i ELSE @]
               PROVE  x \in RowType /\ x.table = t /\ (t = "logs" => x.id \in 1 .. lastId)
    BY <1>1
  <2> DEFINE row == Row(t, old[i][1], old[i][2])
             new == IF t = "logs" THEN i ELSE row.id
  <2>1. row \in RowType /\ row.table = t
    BY <1>2 DEF Row, RowType, Tables
  <2>2. x = [row EXCEPT !.id = new] /\ i \in 1 .. lastId
    BY <1>1, <1>2
  <2>3. new \in Nat /\ (t = "logs" => new \in 1 .. lastId)
    BY <1>1, <1>2, <2>1, <2>2 DEF RowType
  <2> HIDE DEF row, new
  <2> QED
    BY <2>1, <2>2, <2>3 DEF RowType
<1>4. TableInv
  <2>1. table = [t \in Tables |-> table[t]]
    BY <1>1
  <2>2. table \in [Tables -> SUBSET RowType]
    <3> DEFINE f == [t \in Tables |-> table[t]]
    <3>1. \A t \in Tables : table[t] \in SUBSET RowType
      BY <1>3
    <3>2. f \in [Tables -> SUBSET RowType]
      BY <3>1
    <3> QED
      BY <2>1, <3>2
  <2> QED
    BY <1>1, <1>2, <1>3, <2>2 DEF TableInv
<1>5. now \in Nat /\ req \in [Requests -> RequestType] /\ \A r \in Requests : req[r].phase = "new"
  BY LifecycleAssumption DEF Init, RequestType
<1>6. sync \in BOOLEAN /\ limit \in (Nat \ {0}) \X (Nat \ {0}) /\ limit[1] \in Nat \ {0} /\ limit[2] \in Nat \ {0}
  <2>1. PICK w \in Writers : sync = w[1] /\ limit = <<w[2], w[3]>>
    BY DEF Init
  <2>2. w[1] \in BOOLEAN /\ w[2] \in Nat \ {0} /\ w[3] \in Nat \ {0}
    BY LifecycleAssumption
  <2> QED
    BY <2>1, <2>2
<1>7. queue = <<>> /\ queue \in Seq(RowType) /\ Len(queue) = 0 /\ timer = FALSE
  BY EmptySeq DEF Init
<1>8. ShapeInv
  BY <1>5, <1>6, <1>7 DEF ShapeInv
<1>9. TypeOK
  <2>1. /\ pc = "logs" /\ held = {} /\ exit = "no"
    BY DEF Init
  <2> QED
    BY <1>5, <1>6, <1>7, <2>1 DEF TypeOK, Alive
<1>10. PhaseInv
  BY <1>5, <1>9 DEF Init, PhaseInv, Running
<1>11. AccountInv
  BY <1>5 DEF AccountInv
<1>12. TailInv
  <2>1. tail.after = 0
    BY DEF Init, NoTail
  <2>2. lastId \in Nat
    BY <1>1, <1>2
  <2>3. \A x \in table["logs"] : x.id \in 1 .. lastId
    BY <1>3 DEF Tables
  <2> QED
    BY <2>1, <2>2, <2>3 DEF TailInv, TailMissesNothing
<1>13. PagesInv
  <2>1. reader \in Tables \cup {"tail", "gone"} /\ pages = NoPages
    BY DEF Init
  <2>2. NoPages \in PagesType
    BY EmptySeq DEF NoPages, PagesType
  <2> QED
    BY <2>1, <2>2 DEF PagesInv, PagesAreExact, NoPages
<1> QED
  BY <1>4, <1>8, <1>10, <1>11, <1>12, <1>13 DEF IInv

LEMMA NextIInv == IInv /\ [Next]_vars => IInv'
<1> SUFFICES ASSUME IInv, [Next]_vars
             PROVE  IInv'
  OBVIOUS
<1>1. TableInv' /\ QueueInv' /\ StoreMoves
  BY StoreStep
<1>2. ShapeInv'
  BY <1>1, ShapeStep
<1>3. PhaseInv'
  BY <1>1, <1>2, PhaseStep
<1>4. AccountInv' /\ TailInv' /\ PagesInv'
  BY <1>1, AccountStep, TailStep, PagesStep
<1> QED
  BY <1>1, <1>2, <1>3, <1>4 DEF IInv

(* The inductive invariant: shapes, phases, accounts and readers are as described above,
   whatever fails in the boot, whenever the signal comes and however the writer batches,
   drops and prunes. *)
THEOREM Inductive == Spec => []IInv
<1>1. Init => IInv
  BY Initially
<1> QED
  BY <1>1, NextIInv, PTL DEF Spec

(* A shutdown (server.ts 2530-2646) takes nothing away that is in use: the backend stays
   until the last request is done or the grace is over, and the row of every request that
   ended was written, or is known to be dropped, failed or pruned, when the process ends
   in order. *)
THEOREM ShutdownStaysOrderly == Spec => []ShutdownIsOrderly
<1>1. IInv => BackendOutlivesRequests
  BY DEF IInv, PhaseInv, BackendOutlivesRequests
<1>2. IInv => RowsAccountedFor
  <2> SUFFICES ASSUME IInv, stopped, NEW r \in Requests, req[r].phase = "done"
               PROVE  Row("invocations", r, req[r].ts) \in table["invocations"] \cup dropped \cup failed \cup pruned
    BY DEF RowsAccountedFor
  <2>1. Row("invocations", r, req[r].ts) \in Accounted
    BY DEF IInv, AccountInv
  <2>2. ToSet(queue) = {}
    BY EmptySeq DEF IInv, PhaseInv, ToSet
  <2> QED
    BY <2>1, <2>2 DEF Accounted
<1>3. IInv => ShutdownIsOrderly
  BY <1>1, <1>2 DEF IInv, PhaseInv, ShutdownIsOrderly
<1> QED
  BY <1>3, Inductive, PTL

(* Clients of the log endpoints (logs/query.ts, logs/api.ts) miss nothing and read nothing
   twice: who follows the lines by their ids, and who pages through a table by the last row
   of a page, however many rows are written and pruned meanwhile. *)
THEOREM ReadersStayExact == Spec => []ReadersMissNothing
<1>1. IInv => ReadersMissNothing
  BY DEF IInv, TailInv, PagesInv, ReadersMissNothing
<1> QED
  BY <1>1, Inductive, PTL

-----------------------------------------------------------------------------
(* The workerd children and the watchdog *)

\* Which child a reload is about, if it is about one already.
BootInv == boot # None =>
  /\ boot.phase = "preflight" <=> boot.child = None
  /\ boot.phase = "probing" => boot.child # current

\* A process that is not buried yet is the child that serves or the reload's.
Tracked == \A c \in Children : os[c] # "none" => c = current \/ (boot # None /\ c = boot.child)

\* Since the preflight only the new child listens on the ports of its slot, and as
\* long as it runs it still has those on which a connection was accepted.
ProbeInv ==
  /\ InPhase("preflight") => \A p \in Ports : boot.probe[p] = "idle"
  /\ InPhase("probing") =>
       /\ \A p \in Ports : owner[<<nextSlot, p>>] \in {None, boot.child}
       /\ os[boot.child] = "running" =>
            \A p \in Ports : boot.probe[p] \in {"accepted", "ok"} => owner[<<nextSlot, p>>] = boot.child

ChildrenInv == WatchdogTypeOK /\ BootInv /\ Tracked /\ ProbeInv /\ NoStolenTraffic

-----------------------------------------------------------------------------
(* Types *)

\* The initial child, and the one a reload spawns.
LEMMA SomeChild == (CHOOSE c \in Children : TRUE) \in Children
  BY ChildrenAssumption

LEMMA SpawnedIsBuried ==
  ASSUME WatchdogTypeOK, BootInv, Tracked, InPhase("preflight")
  PROVE  LET c == CHOOSE c \in Children \ {current} : os[c] = "none"
         IN  c \in Children \ {current} /\ os[c] = "none"
<1>1. \A c \in Children \ {current} : os[c] = "none"
  BY ProcessAssumption DEF BootInv, Tracked, InPhase
<1>2. \E c \in Children \ {current} : os[c] = "none"
  BY <1>1, ChildrenAssumption
<1> QED BY <1>2

LEMMA ChildrenSteps ==
  ASSUME [WatchdogNext]_watchdogVars
  PROVE  \/ Proc(ProcNext)
         \/ UNCHANGED procVars
         \/ DoReload /\ UNCHANGED <<cleanup, os, owner, current, slot, wired, stopRequested, crashes>>
  BY DEF WatchdogNext, Grows, Sample, Read, ReadNothing, ReadUnder, ReadOver, Recycle, QuietEnds, watchdogVars, procVars

LEMMA NewReloadTyped == NewReload \in BootType
  BY DEF NewReload, BootType

LEMMA AwaitTyped ==
  ASSUME NEW s \in {"killing", "draining"}, NEW c \in Children
  PROVE  Await(s, c) \in BootType /\ Await(s, c).phase = s /\ Await(s, c).child = c
  BY DEF Await, NewReload, BootType

LEMMA BootTyped == \A b \in BootType : b # None
  BY ProcessAssumption

LEMMA InitChildrenType == WatchdogInit => WatchdogTypeOK
<1> SUFFICES ASSUME WatchdogInit PROVE WatchdogTypeOK
  OBVIOUS
<1>1. current \in Children /\ os \in [Children -> {"none", "running", "dead"}] /\ wired \subseteq Children
  BY SomeChild DEF WatchdogInit, ProcInit
<1>2. owner \in [Sockets -> Children \cup Leftovers \cup {None}]
  BY SomeChild DEF WatchdogInit, ProcInit, Sockets
<1>3. crashes \in 0..(MAX_CRASHES + 1) /\ streak \in 0..(Hysteresis - 1)
  BY ProcessAssumption, WatchdogAssumption DEF WatchdogInit, ProcInit
<1>4. /\ cleanup \in Cleanups /\ prebuilt \in Modes /\ slot = 0 /\ stopRequested = {} /\ boot = None
      /\ over = {} /\ sampling = "no" /\ pid = None
  BY DEF WatchdogInit, ProcInit
<1>5. quiet \in BOOLEAN
  BY Zenon DEF WatchdogInit
<1> QED BY <1>1, <1>2, <1>3, <1>4, <1>5 DEF WatchdogTypeOK

\* The part of WatchdogTypeOK the process manager's steps concern.
ProcTypeOK ==
  /\ cleanup \in Cleanups
  /\ os \in [Children -> {"none", "running", "dead"}]
  /\ owner \in [Sockets -> Children \cup Leftovers \cup {None}]
  /\ current \in Children \cup {None} /\ slot \in 0..1
  /\ wired \subseteq Children /\ stopRequested \subseteq Children
  /\ crashes \in 0..(MAX_CRASHES + 1)
  /\ boot \in {None} \cup BootType

LEMMA KillTyped ==
  ASSUME ProcTypeOK, NEW victims, Kill(victims)
  PROVE  /\ os' \in [Children -> {"none", "running", "dead"}]
         /\ owner' \in [Sockets -> Children \cup Leftovers \cup {None}]
         /\ \A c \in Children : os'[c] = IF c \in victims /\ os[c] = "running" THEN "dead" ELSE os[c]
         /\ \A k \in Sockets : owner'[k] = IF owner[k] \in victims THEN None ELSE owner[k]
  BY DEF ProcTypeOK, Kill

LEMMA ProcTypes ==
  ASSUME WatchdogTypeOK, BootInv, Tracked, ProcNext
  PROVE  ProcTypeOK'
<1>0. ProcTypeOK
  BY DEF WatchdogTypeOK, ProcTypeOK
<1> USE DEF ProcTypeOK
<1>1. CASE Ask
  BY <1>0, <1>1, NewReloadTyped DEF Ask, DoReload
<1>2. CASE Preflight
  <2>1. CASE Spawn
    <3> DEFINE c == CHOOSE c \in Children \ {current} : os[c] = "none"
    <3>1. c \in Children
      BY <1>2, SpawnedIsBuried DEF Preflight
    <3>2. os' = [os EXCEPT ![c] = "running"] /\ boot' = [boot EXCEPT !.phase = "probing", !.child = c]
          /\ UNCHANGED owner
      BY <2>1 DEF Spawn
    <3>3. boot \in BootType
      BY <1>0, <1>2 DEF Preflight, InPhase
    <3> HIDE DEF c
    <3> QED BY <1>0, <1>2, <3>1, <3>2, <3>3 DEF Preflight, BootType
  <2>2. ASSUME NEW tool \in {"owner", "name"}, CleanUp(tool) PROVE ProcTypeOK'
    <3>1. boot \in BootType
      BY <1>0, <1>2 DEF Preflight, InPhase
    <3>2. boot' \in BootType
      BY <2>2, <3>1 DEF CleanUp, BootType
    <3> QED BY <1>0, <1>2, <2>2, <3>2, KillTyped DEF Preflight, CleanUp
  <2>3. CASE boot' = None /\ UNCHANGED <<os, owner>>
    BY <1>0, <1>2, <2>3 DEF Preflight
  <2> QED BY <1>0, <1>2, <2>1, <2>2, <2>3, ProcessAssumption DEF Preflight
<1>3. ASSUME NEW p \in Ports, Listen(p) PROVE ProcTypeOK'
  <2>1. boot.child \in Children
    BY <1>0, <1>3 DEF Listen, InPhase, BootInv, BootType
  <2> QED BY <1>0, <1>3, <2>1, KillTyped DEF Listen
<1>4. CASE Deadline
  BY <1>0, <1>4 DEF Deadline, InPhase, BootType
<1>5. ASSUME NEW p \in Ports, Connect(p) \/ Refused(p) PROVE ProcTypeOK'
  <2>1. boot \in BootType /\ boot.child \in Children
    BY <1>0, <1>5 DEF Connect, Refused, InPhase, BootInv, BootType
  <2>2. CASE StartFails
    BY <1>0, <1>5, <2>1, <2>2, KillTyped, AwaitTyped DEF StartFails, Connect, Refused
  <2>3. CASE ~StartFails
    <3>1. boot' \in BootType
      BY <1>5, <2>1, <2>3 DEF Connect, Refused, BootType
    <3> QED BY <1>0, <1>5, <2>3, <3>1 DEF Connect, Refused
  <2> QED BY <2>2, <2>3
<1>6. ASSUME NEW p \in Ports, Connected(p) PROVE ProcTypeOK'
  <2>1. boot \in BootType /\ boot.child \in Children
    BY <1>0, <1>6 DEF Connected, InPhase, BootInv, BootType
  <2>2. CASE Swap
    BY <1>0, <1>6, <2>1, <2>2, AwaitTyped DEF Swap, Connected, nextSlot
  <2>3. CASE ~Swap
    <3>1. boot' \in BootType
      BY <1>6, <2>1, <2>3 DEF Connected, BootType
    <3> QED BY <1>0, <1>6, <2>3, <3>1 DEF Connected
  <2> QED BY <2>2, <2>3
<1>7. ASSUME NEW x, Dies(x) PROVE ProcTypeOK'
  BY <1>0, <1>7, KillTyped DEF Dies
<1>8. ASSUME NEW c \in Children, ExitEvent(c) PROVE ProcTypeOK'
  <2>1. boot' \in {None} \cup BootType
    BY <1>0, <1>8, NewReloadTyped, ZenonT(60) DEF ExitEvent, DoReload, BootType
  <2>2. current' \in Children \cup {None} /\ crashes' \in 0..(MAX_CRASHES + 1)
    BY <1>0, <1>8, ProcessAssumption DEF ExitEvent, Crashed, CountCrash
  <2> QED BY <1>0, <1>8, <2>1, <2>2 DEF ExitEvent
<1> QED
  BY <1>1, <1>2, <1>3, <1>4, <1>5, <1>6, <1>7, <1>8 DEF ProcNext, StartStep, Terminates

LEMMA NextChildrenType == ChildrenInv /\ [WatchdogNext]_watchdogVars => WatchdogTypeOK'
<1> SUFFICES ASSUME ChildrenInv, [WatchdogNext]_watchdogVars PROVE WatchdogTypeOK'
  OBVIOUS
<1>0. WatchdogTypeOK /\ ProcTypeOK
  BY DEF ChildrenInv, WatchdogTypeOK, ProcTypeOK
<1>1. ProcTypeOK'
  <2>1. CASE Proc(ProcNext)
    BY <2>1, ProcTypes DEF ChildrenInv, Proc
  <2>2. CASE UNCHANGED procVars
    BY <1>0, <2>2 DEF procVars, ProcTypeOK
  <2>3. CASE DoReload /\ UNCHANGED <<cleanup, os, owner, current, slot, wired, stopRequested, crashes>>
    BY <1>0, <2>3, NewReloadTyped DEF DoReload, ProcTypeOK
  <2> QED BY <2>1, <2>2, <2>3, ChildrenSteps
<1>2. /\ prebuilt' = prebuilt /\ over' \subseteq RunningChildren'
      /\ sampling' \in {"no", "reading", "reloading"} /\ pid' \in Children \cup {None}
      /\ streak' \in 0..(Hysteresis - 1)
  <2> USE DEF WatchdogTypeOK, RunningChildren, procVars, wdVars
  <2>1. CASE Proc(ProcNext)
    BY <1>0, <2>1 DEF Proc
  <2>2. ASSUME NEW c \in Children, Grows(c)
        PROVE  over' \subseteq RunningChildren' /\ UNCHANGED <<prebuilt, sampling, pid, streak, quiet>>
    BY <1>0, <2>2 DEF Grows
  <2>3. CASE Sample \/ QuietEnds
    BY <1>0, <2>3, WatchdogAssumption DEF Sample, QuietEnds
  <2>4. CASE ReadNothing \/ ReadUnder
    BY <1>0, <2>4, WatchdogAssumption DEF ReadNothing, ReadUnder
  <2>5. CASE ReadOver
    BY <1>0, <2>5, WatchdogAssumption DEF ReadOver, Trips, Recycle
  <2>6. CASE UNCHANGED watchdogVars
    BY <1>0, <2>6 DEF watchdogVars
  <2> QED BY <1>0, <2>1, <2>2, <2>3, <2>4, <2>5, <2>6 DEF WatchdogNext, Read
<1>3. quiet' \in BOOLEAN
  <2>1. quiet' \in {quiet, TRUE, FALSE}
    BY Zenon DEF WatchdogNext, Proc, Grows, Sample, Read, ReadNothing, ReadUnder, ReadOver, Recycle, QuietEnds,
       watchdogVars, wdVars
  <2> QED BY <1>0, <2>1, Zenon DEF WatchdogTypeOK
<1> QED BY <1>0, <1>1, <1>2, <1>3 DEF WatchdogTypeOK, ProcTypeOK

-----------------------------------------------------------------------------
(* The children a reload is about, and the sockets *)

ProcInv == BootInv /\ Tracked /\ ProbeInv /\ NoStolenTraffic

LEMMA InitProc == WatchdogInit => ProcInv
<1> SUFFICES ASSUME WatchdogInit PROVE ProcInv
  OBVIOUS
<1> DEFINE c == CHOOSE d \in Children : TRUE
<1>1. /\ boot = None /\ slot = 0 /\ current = c
      /\ os = [d \in Children |-> IF d = c THEN "running" ELSE "none"]
      /\ \E left \in Leftovers \cup {None}, ps \in SUBSET Ports :
            owner = [k \in Sockets |-> IF k[1] = 0 THEN c ELSE IF k[2] \in ps THEN left ELSE None]
  BY DEF WatchdogInit, ProcInit
<1> HIDE DEF c
<1>2. \A p \in Ports : owner[<<slot, p>>] = current
  BY <1>1 DEF Sockets
<1> QED BY <1>1, <1>2 DEF ProcInv, BootInv, Tracked, ProbeInv, NoStolenTraffic, InPhase

LEMMA NextProc ==
  ASSUME ChildrenInv, ProcNext, ProcTypeOK'
  PROVE  ProcInv'
<1> USE DEF ProcInv, InPhase
<1>0. ProcTypeOK /\ ProcInv /\ BootInv
  BY DEF ChildrenInv, WatchdogTypeOK, ProcTypeOK
<1>s. slot \in 0..1 /\ nextSlot \in 0..1 /\ nextSlot # slot /\ \A s \in 0..1, p \in Ports : <<s, p>> \in Sockets
  BY <1>0 DEF ProcTypeOK, nextSlot, Sockets
<1>b. boot # None => boot \in BootType /\ (boot.phase # "preflight" => boot.child \in Children)
  BY <1>0 DEF ProcTypeOK, BootInv, BootType
<1>k. ASSUME NEW victims, Kill(victims), UNCHANGED <<current, slot, boot>> PROVE ProcInv'
  <2>1. /\ \A c \in Children : os'[c] = IF c \in victims /\ os[c] = "running" THEN "dead" ELSE os[c]
        /\ \A k \in Sockets : owner'[k] = IF owner[k] \in victims THEN None ELSE owner[k]
    BY <1>0, <1>k, KillTyped
  <2>2. BootInv' /\ Tracked'
    BY <1>0, <1>b, <1>k, <2>1 DEF BootInv, Tracked
  <2>3. ProbeInv'
    BY <1>0, <1>s, <1>b, <1>k, <2>1 DEF ProbeInv, nextSlot
  <2>4. NoStolenTraffic'
    BY <1>0, <1>s, <1>k, <2>1 DEF NoStolenTraffic, ProcTypeOK
  <2> QED BY <2>2, <2>3, <2>4
<1>n. NewReload \in BootType /\ NewReload # None /\ NewReload.phase = "preflight" /\ NewReload.child = None
      /\ \A p \in Ports : NewReload.probe[p] = "idle"
  BY NewReloadTyped, BootTyped DEF NewReload
<1>1. CASE Ask
  BY <1>0, <1>1, <1>n DEF Ask, DoReload, BootInv, Tracked, ProbeInv, NoStolenTraffic
<1>2. CASE Preflight
  <2>0. /\ boot # None /\ boot \in BootType /\ boot.phase = "preflight" /\ boot.child = None
        /\ \A p \in Ports : boot.probe[p] = "idle"
        /\ UNCHANGED <<current, slot>>
    BY <1>0, <1>2, <1>b DEF Preflight, BootInv, ProbeInv
  <2>1. CASE Conflicts = {} /\ Spawn
    <3> DEFINE c == CHOOSE c \in Children \ {current} : os[c] = "none"
    <3>1. c \in Children \ {current} /\ os[c] = "none"
      BY <1>0, <1>2, SpawnedIsBuried DEF Preflight, ChildrenInv
    <3>2. os' = [os EXCEPT ![c] = "running"] /\ boot' = [boot EXCEPT !.phase = "probing", !.child = c]
          /\ UNCHANGED owner
      BY <2>1 DEF Spawn
    <3> HIDE DEF c
    <3>3. boot'.phase = "probing" /\ boot'.child = c /\ boot'.probe = boot.probe
      BY <2>0, <3>2 DEF BootType
    <3>4. c # None /\ os' \in [Children -> {"none", "running", "dead"}]
      BY <1>0, <3>1, <3>2, ProcessAssumption DEF ProcTypeOK
    <3>5. \A p \in Ports : owner[<<nextSlot, p>>] = None
      BY <2>1 DEF Conflicts
    <3>a. boot' # None
      <4>1. boot' \in BootType
        BY <2>0, <3>1, <3>2 DEF BootType
      <4> QED BY <4>1, BootTyped
    <3>b. \A d \in Children : os'[d] = IF d = c THEN "running" ELSE os[d]
      BY <1>0, <3>2 DEF ProcTypeOK
    <3>c. BootInv'
      BY <2>0, <3>1, <3>3, <3>4, <3>a, <3>b DEF BootInv
    <3>d. Tracked'
      BY <1>0, <2>0, <3>1, <3>3, <3>4, <3>a, <3>b, ProcessAssumption DEF Tracked
    <3>6. BootInv' /\ Tracked'
      BY <3>c, <3>d
    <3>7. ProbeInv' /\ NoStolenTraffic'
      BY <1>0, <2>0, <3>1, <3>2, <3>3, <3>5 DEF ProbeInv, NoStolenTraffic, ProcTypeOK, nextSlot
    <3> QED BY <3>6, <3>7
  <2>2. ASSUME NEW tool \in {"owner", "name"}, CleanUp(tool) PROVE ProcInv'
    <3>1. /\ boot' # None /\ boot'.phase = boot.phase /\ boot'.child = boot.child /\ boot'.probe = boot.probe
      <4>1. boot' \in BootType
        BY <2>0, <2>2 DEF CleanUp, BootType
      <4> QED BY <2>0, <2>2, <4>1, BootTyped DEF CleanUp, BootType
    <3>2. PICK victims : Kill(victims)
      BY <2>2 DEF CleanUp
    <3>3. /\ \A d \in Children : os'[d] = IF d \in victims /\ os[d] = "running" THEN "dead" ELSE os[d]
          /\ \A k \in Sockets : owner'[k] = IF owner[k] \in victims THEN None ELSE owner[k]
      BY <1>0, <3>2, KillTyped
    <3>4. BootInv' /\ Tracked' /\ ProbeInv'
      BY <1>0, <2>0, <3>1, <3>3 DEF BootInv, Tracked, ProbeInv
    <3>5. NoStolenTraffic'
      BY <1>0, <1>s, <2>0, <3>3 DEF NoStolenTraffic, ProcTypeOK
    <3> QED BY <3>4, <3>5
  <2>3. CASE boot' = None /\ UNCHANGED <<os, owner>>
    BY <1>0, <2>0, <2>3, ProcessAssumption DEF BootInv, Tracked, ProbeInv, NoStolenTraffic, ProcTypeOK
  <2> QED BY <1>2, <2>1, <2>2, <2>3, ProcessAssumption, <1>0 DEF Preflight, ProcTypeOK
<1>3. ASSUME NEW p \in Ports, Listen(p) PROVE ProcInv'
  <2>1. CASE Kill({boot.child})
    BY <1>3, <1>k, <2>1 DEF Listen
  <2>2. CASE owner[<<nextSlot, p>>] = None /\ owner' = [owner EXCEPT ![<<nextSlot, p>>] = boot.child] /\ UNCHANGED os
    <3>1. \A s \in 0..1, q \in Ports :
            owner'[<<s, q>>] = IF s = nextSlot /\ q = p THEN boot.child ELSE owner[<<s, q>>]
      BY <1>0, <1>s, <2>2 DEF ProcTypeOK
    <3>2. UNCHANGED <<current, slot, boot, os>>
      BY <1>3, <2>2 DEF Listen
    <3>3. BootInv' /\ Tracked' /\ ProbeInv'
      BY <1>0, <1>s, <3>1, <3>2 DEF BootInv, Tracked, ProbeInv, nextSlot
    <3>4. NoStolenTraffic'
      BY <1>0, <1>s, <3>1, <3>2 DEF NoStolenTraffic
    <3> QED BY <3>3, <3>4
  <2> QED BY <1>3, <2>1, <2>2 DEF Listen
<1>4. CASE Deadline
  <2>1. /\ boot' # None /\ boot'.phase = boot.phase /\ boot'.child = boot.child /\ boot'.probe = boot.probe
        /\ UNCHANGED <<current, slot, os, owner>> /\ boot # None
    <3>1. boot' \in BootType
      BY <1>4, <1>b DEF Deadline, BootType
    <3> QED BY <1>4, <1>b, <3>1, BootTyped DEF Deadline, BootType
  <2> QED BY <1>0, <2>1 DEF BootInv, Tracked, ProbeInv, NoStolenTraffic, nextSlot
<1>f. ASSUME InPhase("probing"), StartFails, UNCHANGED <<current, slot>> PROVE ProcInv'
  <2>1. boot.child \in Children
    BY <1>b, <1>f
  <2>2. /\ \A d \in Children : os'[d] = IF d = boot.child /\ os[d] = "running" THEN "dead" ELSE os[d]
        /\ \A k \in Sockets : owner'[k] = IF owner[k] = boot.child THEN None ELSE owner[k]
    BY <1>0, <1>f, KillTyped DEF StartFails
  <2>3. \/ os[boot.child] = "none" /\ boot' = None
        \/ boot' # None /\ boot'.phase = "killing" /\ boot'.child = boot.child
    BY <1>f, <2>1, AwaitTyped, BootTyped DEF StartFails
  <2>4. BootInv' /\ Tracked' /\ ProbeInv'
    BY <1>0, <1>f, <2>1, <2>2, <2>3, ProcessAssumption DEF BootInv, Tracked, ProbeInv
  <2>5. NoStolenTraffic'
    BY <1>0, <1>s, <1>f, <2>2 DEF NoStolenTraffic, BootInv, ProcTypeOK
  <2> QED BY <2>4, <2>5
<1>5. ASSUME NEW p \in Ports, Connect(p) \/ Refused(p) PROVE ProcInv'
  <2>1. CASE StartFails
    BY <1>5, <1>f, <2>1 DEF Connect, Refused
  <2>2. CASE ~StartFails
    <3>1. /\ boot # None /\ boot.phase = "probing" /\ boot \in BootType
          /\ boot' = [boot EXCEPT !.probe[p] = boot'.probe[p]]
          /\ boot'.probe[p] \in {"accepted", "refused", "idle"}
          /\ boot'.probe[p] = "accepted" => owner[<<nextSlot, p>>] # None
          /\ UNCHANGED <<os, owner, current, slot>>
      BY <1>5, <1>b, <2>2 DEF Connect, Refused, BootType
    <3>2. /\ boot' # None /\ boot'.phase = boot.phase /\ boot'.child = boot.child
          /\ \A q \in Ports \ {p} : boot'.probe[q] = boot.probe[q]
      <4>1. boot' \in BootType
        BY <3>1 DEF BootType
      <4> QED BY <3>1, <4>1, BootTyped DEF BootType
    <3> QED BY <1>0, <3>1, <3>2 DEF BootInv, Tracked, ProbeInv, NoStolenTraffic, nextSlot
  <2> QED BY <2>1, <2>2
<1>6. ASSUME NEW p \in Ports, Connected(p) PROVE ProcInv'
  <2>0. boot # None /\ boot.phase = "probing" /\ boot \in BootType /\ boot.child \in Children
        /\ boot.probe[p] = "accepted" /\ UNCHANGED <<os, owner>>
    BY <1>6, <1>b DEF Connected
  <2>1. CASE Swap /\ \A q \in Ports \ {p} : boot.probe[q] = "ok"
    <3>1. current' = boot.child /\ slot' = nextSlot
      BY <2>1 DEF Swap
    <3>2. os[boot.child] = "running" => \A q \in Ports : owner[<<nextSlot, q>>] = boot.child
      BY <1>0, <2>0, <2>1 DEF ProbeInv
    <3>3. NoStolenTraffic'
      BY <2>0, <3>1, <3>2 DEF NoStolenTraffic
    <3>4. \/ (current = None \/ os[current] = "none") /\ boot' = None
          \/ /\ current \in Children /\ boot' # None
             /\ boot'.phase = "draining" /\ boot'.child = current
      BY <1>0, <2>1, AwaitTyped, BootTyped DEF Swap, ProcTypeOK
    <3>5. BootInv' /\ Tracked' /\ ProbeInv'
      BY <1>0, <2>0, <3>1, <3>4, ProcessAssumption DEF BootInv, Tracked, ProbeInv
    <3> QED BY <3>3, <3>5
  <2>2. CASE boot' = [boot EXCEPT !.probe[p] = "ok"] /\ UNCHANGED <<current, slot>>
    <3>1. /\ boot' # None /\ boot'.phase = boot.phase /\ boot'.child = boot.child
          /\ \A q \in Ports \ {p} : boot'.probe[q] = boot.probe[q]
      <4>1. boot' \in BootType
        BY <2>0, <2>2 DEF BootType
      <4> QED BY <2>0, <2>2, <4>1, BootTyped DEF BootType
    <3> QED BY <1>0, <2>0, <2>2, <3>1 DEF BootInv, Tracked, ProbeInv, NoStolenTraffic, nextSlot
  <2> QED BY <1>6, <2>1, <2>2 DEF Connected
<1>7. ASSUME NEW x, Dies(x) PROVE ProcInv'
  BY <1>7, <1>k DEF Dies
<1>8. ASSUME NEW c \in Children, ExitEvent(c) PROVE ProcInv'
  <2>0. /\ os[c] = "dead" /\ os' = [os EXCEPT ![c] = "none"] /\ UNCHANGED <<owner, slot>>
        /\ current' = current \/ (current = c /\ current' = None)
    BY <1>8 DEF ExitEvent, Crashed
  <2>1. CASE boot # None /\ boot.child = c /\ boot.phase = "probing"
    <3>1. boot' = [boot EXCEPT !.aborted = TRUE]
      BY <1>8, <2>1 DEF ExitEvent
    <3>2. /\ boot' # None /\ boot'.phase = boot.phase /\ boot'.child = boot.child /\ boot'.probe = boot.probe
      <4>1. boot' \in BootType
        BY <1>b, <2>1, <3>1 DEF BootType
      <4> QED BY <1>b, <2>1, <3>1, <4>1, BootTyped DEF BootType
    <3> QED BY <1>0, <2>0, <2>1, <3>2 DEF BootInv, Tracked, ProbeInv, NoStolenTraffic, ProcTypeOK, nextSlot
  <2>2. CASE boot # None /\ boot.child = c /\ boot.phase # "probing"
    <3>1. boot' = None
      BY <1>8, <2>2 DEF ExitEvent
    <3> QED BY <1>0, <2>0, <2>2, <3>1 DEF BootInv, Tracked, ProbeInv, NoStolenTraffic, ProcTypeOK, nextSlot
  <2>3. CASE ~(boot # None /\ boot.child = c)
    <3>1. boot' = boot \/ (boot = None /\ boot' = NewReload)
      BY <1>8, <2>3 DEF ExitEvent, DoReload
    <3>2. BootInv' /\ Tracked' /\ ProbeInv'
      BY <1>0, <1>n, <1>b, <2>0, <2>3, <3>1, ProcessAssumption DEF BootInv, Tracked, ProbeInv, ProcTypeOK, nextSlot
    <3>3. NoStolenTraffic'
      BY <1>0, <2>0 DEF NoStolenTraffic, ProcTypeOK
    <3> QED BY <3>2, <3>3
  <2> QED BY <2>1, <2>2, <2>3
<1> QED
  BY <1>1, <1>2, <1>3, <1>4, <1>5, <1>6, <1>7, <1>8 DEF ProcNext, StartStep, Terminates

-----------------------------------------------------------------------------
(* Theorems *)

LEMMA NextChildrenInv == ChildrenInv /\ [WatchdogNext]_watchdogVars => ChildrenInv'
<1> SUFFICES ASSUME ChildrenInv, [WatchdogNext]_watchdogVars PROVE ChildrenInv'
  OBVIOUS
<1>0. WatchdogTypeOK' /\ ProcTypeOK' /\ ProcInv
  BY NextChildrenType DEF ChildrenInv, WatchdogTypeOK, ProcTypeOK, ProcInv
<1>1. ProcInv'
  <2>1. CASE Proc(ProcNext)
    BY <1>0, <2>1, NextProc DEF Proc
  <2>2. CASE UNCHANGED procVars
    BY <1>0, <2>2 DEF procVars, ProcInv, BootInv, Tracked, ProbeInv, NoStolenTraffic, InPhase, nextSlot
  <2>3. CASE DoReload /\ UNCHANGED <<cleanup, os, owner, current, slot, wired, stopRequested, crashes>>
    <3>1. /\ NewReload # None /\ NewReload.phase = "preflight" /\ NewReload.child = None
          /\ \A p \in Ports : NewReload.probe[p] = "idle"
      BY NewReloadTyped, BootTyped DEF NewReload
    <3> QED BY <1>0, <2>3, <3>1 DEF DoReload, ProcInv, BootInv, Tracked, ProbeInv, NoStolenTraffic, InPhase, nextSlot
  <2> QED BY <2>1, <2>2, <2>3, ChildrenSteps
<1> QED BY <1>0, <1>1 DEF ChildrenInv, ProcInv

\* The inductive invariant of a child's life and of the watchdog, in whatever order the events
\* are delivered (process.ts, watchdog.ts).
THEOREM ChildrenInductive == WatchdogSpec => []ChildrenInv
<1>1. WatchdogInit => ChildrenInv
  BY InitChildrenType, InitProc DEF ChildrenInv, ProcInv
<1> QED BY <1>1, NextChildrenInv, PTL DEF WatchdogSpec

\* While the child that new requests go to runs, it alone listens on all its sockets.
THEOREM TrafficIsNeverStolen == WatchdogSpec => []NoStolenTraffic
<1>1. ChildrenInv => NoStolenTraffic
  BY DEF ChildrenInv
<1> QED BY <1>1, ChildrenInductive, PTL

\* Every running child is the one that serves or the one the reload in flight is about.
THEOREM ChildrenStayAccountedFor == WatchdogSpec => []ChildrenAccountedFor
<1>1. ChildrenInv => ChildrenAccountedFor
  BY DEF ChildrenInv, Tracked, ChildrenAccountedFor, NoChildIsLost, RunningChildren
<1> QED BY <1>1, ChildrenInductive, PTL
=============================================================================
