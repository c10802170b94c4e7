------------------------------- MODULE Lifecycle -------------------------------
(***************************************************************************)
(* The life of a gateway process (server.ts 955-1660 and 2455-2650): the   *)
(* steps of its boot, what each acquires, the phases of its shutdown, and  *)
(* the store of invocation rows and console lines that lives with it:      *)
(* its writer batches, drops and prunes (logs/writer.ts, logs/db.ts), a    *)
(* client pages through it and follows it (logs/query.ts, logs/api.ts).    *)
(*                                                                         *)
(* A request is a number used once, the order of the numbers is that of    *)
(* the ids of requests of one millisecond; it may log one line.  Time is a *)
(* counter.  A client pages through the rows or follows the lines; filters *)
(* only select among them and are left out.  What the backends do on start *)
(* and stop is their modules' subject.  A chunk of a prune is any part of  *)
(* what is to go.  Tables are sets of rows, ordered by time and id as the  *)
(* queries order them.                                                     *)
(***************************************************************************)
EXTENDS Integers, Sequences, FiniteSets, SequencesExt

CONSTANTS
  Requests,
  OldRows,             \* what earlier processes may have left: sequences of requests with times
  Writers,             \* triples: synchronous (flushIntervalMs = 0), flushThreshold, maxQueue
  Retention, MaxRows,
  Limit,               \* rows a reader asks for
  Faults,              \* what may fail: "logs", "backend", "port", "disk", "stop"
  StartTime, MaxTime

ASSUME LifecycleAssumption ==
  /\ {Retention, MaxRows, Limit, StartTime, MaxTime} \subseteq Nat /\ MaxRows > 0 /\ Limit > 0
  /\ Writers \subseteq BOOLEAN \X (Nat \ {0}) \X (Nat \ {0})
  /\ Requests \subseteq Nat /\ OldRows \subseteq Seq((Nat \ Requests) \X Nat)
  /\ \A old \in OldRows : \A i, j \in DOMAIN old : old[i][1] = old[j][1] => i = j
  /\ Faults \subseteq {"logs", "backend", "port", "disk", "stop"}

Tables == {"invocations", "logs"}

VARIABLES
  pc,          \* step of the boot or phase of the shutdown
  held,        \* resources of the process: "logs", "backend", "watchers", "server"
  exit,        \* why the process ended
  expired,     \* shutdownGraceMs is over
  req, now,
  sync, limit, queue, timer, stopped,     \* the writer
  table, pruning,                         \* the database
  lastId,                                 \* sqlite_sequence of the lines
  dropped, failed, pruned,                \* rows that were not kept
  reader,      \* what the client of the logs API does: "tail", a table, or it is gone
  tail,        \* lines it follows: [after, seen]
  pages        \* pages it read: [st, cursor, got, there], the last the rows there were at first

store == <<queue, timer, stopped, table, pruning, lastId, dropped, failed, pruned>>
client == <<reader, tail, pages>>
vars == <<pc, held, exit, expired, req, now, sync, limit, store, client>>

\* The id of an invocation is its request's, that of a line is given by the database.
Row(t, r, ts) == [table |-> t, req |-> r, ts |-> ts, id |-> IF t = "logs" THEN 0 ELSE r]

NoTail == [after |-> 0, seen |-> {}]
NoPages == [st |-> "none", cursor |-> {}, got |-> <<>>, there |-> {}]

Init ==
  /\ pc = "logs" /\ held = {} /\ exit = "no" /\ expired = FALSE
  /\ req = [r \in Requests |-> [phase |-> "new", ts |-> 0, logged |-> FALSE]] /\ now = StartTime
  /\ \E w \in Writers : sync = w[1] /\ limit = <<w[2], w[3]>>
  /\ queue = <<>> /\ timer = FALSE /\ stopped = FALSE /\ pruning = FALSE
  /\ \E old \in OldRows :
       /\ table = [t \in Tables |->
            {[Row(t, old[i][1], old[i][2]) EXCEPT !.id = IF t = "logs" THEN i ELSE @] : i \in DOMAIN old}]
       /\ lastId = Len(old)
  /\ reader \in Tables \cup {"tail"} /\ tail = NoTail /\ pages = NoPages
  /\ dropped = {} /\ failed = {} /\ pruned = {}

Alive == exit = "no"

-----------------------------------------------------------------------------
(* The writer *)

\* AUTOINCREMENT: ids of lines that are gone are not given again.
Numbered(batch, lines) ==
  {[batch[i] EXCEPT !.id = lastId + Cardinality({j \in lines : j <= i})] : i \in lines}

\* One transaction: all of the batch, or none of it.
Write(batch) ==
  LET of(t) == {i \in DOMAIN batch : batch[i].table = t} IN
  \/ /\ table' = [table EXCEPT !["invocations"] = @ \cup {batch[i] : i \in of("invocations")},
                              !["logs"] = @ \cup Numbered(batch, of("logs"))]
     /\ lastId' = lastId + Cardinality(of("logs"))
     /\ UNCHANGED failed
  \/ /\ "disk" \in Faults
     /\ failed' = failed \cup ToSet(batch)
     /\ UNCHANGED <<table, lastId>>

Cut(q) == IF Len(q) > limit[2] THEN SubSeq(q, Len(q) - limit[2] + 1, Len(q)) ELSE q

\* Without a store there is no sink.
Enqueue(row) ==
  IF "logs" \notin held \/ stopped THEN UNCHANGED store
  ELSE IF sync THEN Write(<<row>>) /\ UNCHANGED <<queue, timer, stopped, pruning, dropped, pruned>>
  ELSE LET all == Append(queue, row)
           q == Cut(all) IN
       /\ dropped' = dropped \cup (ToSet(all) \ ToSet(q))
       /\ IF Len(q) >= limit[1]
          THEN Write(q) /\ queue' = <<>> /\ timer' = FALSE
          ELSE queue' = q /\ timer' = TRUE /\ UNCHANGED <<table, lastId, failed>>
       /\ UNCHANGED <<stopped, pruning, pruned>>

\* flushNow, by its timer.
Flush ==
  /\ Alive /\ timer /\ timer' = FALSE
  /\ Write(queue) /\ queue' = <<>>
  /\ UNCHANGED <<pc, held, exit, expired, req, now, sync, limit, stopped, pruning, dropped, pruned, client>>

\* Rows beyond the newest MaxRows: lines by their ids, invocations by their times.
OverRows(t) ==
  {x \in table[t] :
     Cardinality({y \in table[t] : IF t = "logs" THEN y.id > x.id ELSE y.ts > x.ts}) >= MaxRows}

ToPrune(t) == OverRows(t) \cup {x \in table[t] : Retention > 0 /\ x.ts < now - Retention}

Delete(gone) ==
  /\ table' = [t \in Tables |-> table[t] \ gone[t]]
  /\ pruned' = pruned \cup gone["invocations"] \cup gone["logs"]

\* One chunk; the pass goes on until nothing is left.
PruneChunk ==
  LET some == {t \in Tables : ToPrune(t) # {}} IN
  /\ pruning' = (some # {})
  /\ \E gone \in [Tables -> SUBSET (ToPrune("invocations") \cup ToPrune("logs"))] :
       /\ \A t \in Tables : gone[t] \subseteq ToPrune(t) /\ (t \in some => gone[t] # {})
       /\ Delete(gone)

\* The interval fires; a pass that still runs is left alone.
PruneStart ==
  /\ Alive /\ "logs" \in held /\ ~stopped /\ ~pruning
  /\ PruneChunk
  /\ UNCHANGED <<pc, held, exit, expired, req, now, sync, limit, queue, timer, stopped, lastId, dropped, failed, client>>

\* The event loop gets back to the pass, which a stop of the writer ends.
PruneStep ==
  /\ Alive /\ pruning
  /\ IF stopped THEN pruning' = FALSE /\ UNCHANGED <<table, pruned>> ELSE PruneChunk
  /\ UNCHANGED <<pc, held, exit, expired, req, now, sync, limit, queue, timer, stopped, lastId, dropped, failed, client>>

-----------------------------------------------------------------------------
(* Boot *)

Boots(step, next, resource) ==
  /\ Alive /\ pc = step /\ pc' = next
  /\ held' = held \cup {resource}
  /\ UNCHANGED <<exit, expired, req, now, sync, limit, store, client>>

\* The store opens and is pruned to the end, or the gateway goes on without it.
OpenLogs ==
  /\ Alive /\ pc = "logs" /\ pc' = "backend"
  /\ \/ held' = held \cup {"logs"} /\ Delete([t \in Tables |-> ToPrune(t)])
     \/ "logs" \in Faults /\ UNCHANGED <<held, table, pruned>>
  /\ UNCHANGED <<exit, expired, req, now, sync, limit, queue, timer, stopped, pruning, lastId, dropped, failed, client>>

Exit(why) ==
  /\ exit' = why /\ pc' = "exited"
  /\ UNCHANGED <<held, expired, req, now, sync, limit, store, client>>

StartBackend == Boots("backend", "watchers", "backend") \/ (Alive /\ pc = "backend" /\ "backend" \in Faults /\ Exit("config"))

StartWatchers == Boots("watchers", "serve", "watchers")

\* Bun.serve.  When it throws, shutdown() is called above the declaration of the flag it
\* tests, so that it rejects at once, and a timer ends the process.
Serve ==
  \/ Boots("serve", "up", "server")
  \/ /\ Alive /\ pc = "serve" /\ "port" \in Faults /\ pc' = "failed"
     /\ UNCHANGED <<held, exit, expired, req, now, sync, limit, store, client>>

ServeFailed == Alive /\ pc = "failed" /\ Exit("server-error")

\* The handlers of signals are installed last.
Killed == Alive /\ pc \in {"logs", "backend", "watchers", "serve", "failed"} /\ Exit("killed")

-----------------------------------------------------------------------------
(* Shutdown *)

\* A first signal; later ones find shuttingDown set.
Signal ==
  /\ Alive /\ pc = "up" /\ pc' = "drain"
  /\ held' = held \ {"watchers", "server"}
  /\ reader' = "gone" /\ tail' = NoTail /\ pages' = NoPages
  /\ UNCHANGED <<exit, expired, req, now, sync, limit, store>>

GraceEnds ==
  /\ Alive /\ pc = "drain" /\ ~expired /\ expired' = TRUE
  /\ UNCHANGED <<pc, held, exit, req, now, sync, limit, store, client>>

Running == {r \in Requests : req[r].phase = "running"}

Drained == Running = {} \/ expired

Drain ==
  /\ Alive /\ pc = "drain" /\ Drained /\ pc' = "stopping"
  /\ UNCHANGED <<held, exit, expired, req, now, sync, limit, store, client>>

\* Mutant: a backend that does not come down is waited for.
StopBackendWaits ==
  /\ Alive /\ pc = "stopping" /\ "stop" \notin Faults /\ pc' = "closing"
  /\ held' = held \ {"backend"}
  /\ UNCHANGED <<exit, expired, req, now, sync, limit, store, client>>

\* The backend stops, or is abandoned.
StopBackend ==
  /\ Alive /\ pc = "stopping" /\ pc' = "closing"
  /\ \/ held' = held \ {"backend"}
     \/ "stop" \in Faults /\ UNCHANGED held
  /\ UNCHANGED <<exit, expired, req, now, sync, limit, store, client>>

\* Mutant: the writer stops its timers and forgets its queue.
StopWriterIdle == queue' = <<>> /\ UNCHANGED <<table, lastId, failed>>

StopWriter == Write(queue) /\ queue' = <<>>

Close ==
  /\ Alive /\ pc = "closing" /\ pc' = "exited" /\ exit' = "shutdown"
  /\ held' = held \ {"logs"}
  /\ IF "logs" \in held
     THEN StopWriter /\ stopped' = TRUE /\ timer' = FALSE
     ELSE UNCHANGED <<table, lastId, failed, queue, stopped, timer>>
  /\ UNCHANGED <<expired, req, now, sync, limit, pruning, dropped, pruned, client>>

-----------------------------------------------------------------------------
(* Requests *)

Start(r) ==
  /\ Alive /\ "server" \in held /\ req[r].phase = "new"
  /\ req' = [req EXCEPT ![r].phase = "running", ![r].ts = now]
  /\ UNCHANGED <<pc, held, exit, expired, now, sync, limit, store, client>>

LogLine(r) ==
  /\ Alive /\ r \in Running /\ ~req[r].logged
  /\ req' = [req EXCEPT ![r].logged = TRUE]
  /\ Enqueue(Row("logs", r, now))
  /\ UNCHANGED <<pc, held, exit, expired, now, sync, limit, client>>

\* The row carries the time at which the request came.
Finish(r) ==
  /\ Alive /\ r \in Running
  /\ req' = [req EXCEPT ![r].phase = "done"]
  /\ Enqueue(Row("invocations", r, req[r].ts))
  /\ UNCHANGED <<pc, held, exit, expired, now, sync, limit, client>>

Tick ==
  /\ Alive /\ now < MaxTime /\ now' = now + 1
  /\ UNCHANGED <<pc, held, exit, expired, req, sync, limit, store, client>>

-----------------------------------------------------------------------------
(* Readers: requests to the gateway itself *)

Queried == Alive /\ {"server", "logs"} \subseteq held

\* LIMIT.
FirstRows(items, rows) ==
  /\ items \subseteq rows
  /\ IF Cardinality(rows) <= Limit THEN items = rows ELSE Cardinality(items) = Limit

\* The cursor is the last row of a page: of lines by id, of invocations by time and id.
Older(x, c) == IF x.table = "logs" THEN x.id < c.id ELSE x.ts < c.ts \/ (x.ts = c.ts /\ x.id < c.id)

\* The lines after the last one it has, oldest first.
LogsSince(after, items) ==
  LET rest == {x \in table["logs"] : x.id > after} IN
  FirstRows(items, rest) /\ \A x \in items, y \in rest \ items : Older(x, y)

Follow ==
  /\ Queried /\ reader = "tail"
  /\ \E items \in SUBSET table["logs"], last \in table["logs"] :
       /\ LogsSince(tail.after, items) /\ last \in items /\ \A x \in items \ {last} : Older(x, last)
       /\ tail' = [after |-> last.id, seen |-> tail.seen \cup items]
  /\ UNCHANGED <<pc, held, exit, expired, req, now, sync, limit, store, reader, pages>>

\* Mutant: the cursor is a time.
RestByTime(t, cursor) == {x \in table[t] : \A c \in cursor : x.ts < c.ts}

\* What comes after the cursor.
Rest(t, cursor) == {x \in table[t] : \A c \in cursor : Older(x, c)}

\* queryInvocations and searchLogs: newest first.
Page(rest, items) == FirstRows(items, rest) /\ \A x \in items, y \in rest \ items : Older(y, x)

\* The next cursor is the last row of the page; none is returned when there are no more.
NextCursor(rest, items, cursor) ==
  IF Cardinality(rest) <= Limit THEN cursor = {}
  ELSE \E last \in items : cursor = {last} /\ \A x \in items \ {last} : Older(last, x)

NextPage(t) ==
  LET rest == Rest(t, pages.cursor) IN
  /\ Queried /\ reader = t /\ pages.st # "done"
  /\ \E items \in SUBSET rest, cursor \in SUBSET rest :
       /\ Page(rest, items) /\ NextCursor(rest, items, cursor)
       /\ pages' = [st |-> IF cursor = {} THEN "done" ELSE "open",
                    cursor |-> cursor,
                    got |-> Append(pages.got, items),
                    there |-> IF pages.st = "none" THEN table[t] ELSE pages.there]
  /\ UNCHANGED <<pc, held, exit, expired, req, now, sync, limit, store, reader, tail>>

QueryInvocations == NextPage("invocations")
SearchLogs == NextPage("logs")

Next ==
  \/ OpenLogs \/ StartBackend \/ StartWatchers \/ Serve \/ ServeFailed \/ Killed
  \/ Signal \/ GraceEnds \/ Drain \/ StopBackend \/ Close
  \/ \E r \in Requests : Start(r) \/ LogLine(r) \/ Finish(r)
  \/ Flush \/ PruneStart \/ PruneStep \/ Tick
  \/ Follow \/ QueryInvocations \/ SearchLogs

Spec == Init /\ [][Next]_vars

\* Timers fire and awaited calls return; requests may never end, nobody has to signal.
FairSpec == Spec /\ WF_vars(ServeFailed) /\ WF_vars(GraceEnds) /\ WF_vars(Drain) /\ WF_vars(StopBackend)
  /\ WF_vars(Close) /\ WF_vars(Flush) /\ WF_vars(PruneStep)

-----------------------------------------------------------------------------
TypeOK ==
  /\ pc \in {"logs", "backend", "watchers", "serve", "up", "failed", "drain", "stopping", "closing", "exited"}
  /\ held \subseteq {"logs", "backend", "watchers", "server"}
  /\ exit \in {"no", "config", "killed", "server-error", "shutdown"} /\ (Alive <=> pc # "exited")
  /\ Len(queue) < limit[1] /\ Len(queue) <= limit[2] /\ (timer <=> queue # <<>>)
  /\ \A r \in Requests : req[r].phase \in {"new", "running", "done"}

(* While requests are answered the backend is there: it is torn down when the last one
   is done, or when the grace is over. *)
BackendOutlivesRequests == Alive /\ ~expired /\ Running # {} => "backend" \in held

(* An orderly exit leaves no row behind in memory: what became of the row of every
   request that ended is known, however the end of the process and its flush fell. *)
RowsAccountedFor ==
  exit = "shutdown" /\ stopped => \A r \in Requests : req[r].phase = "done" =>
    Row("invocations", r, req[r].ts) \in table["invocations"] \cup dropped \cup failed \cup pruned

(* A shutdown takes nothing away that is still in use: neither the backend from requests
   nor the store from rows. *)
ShutdownIsOrderly == TypeOK /\ BackendOutlivesRequests /\ RowsAccountedFor

(* Who follows the lines misses none: a line it has gone past, and not seen, is gone, in
   whatever batches lines were written and however many were pruned before. *)
TailMissesNothing == \A x \in table["logs"] : x.id <= tail.after => x \in tail.seen

(* Who pages through the rows gets none twice and all that were there from the
   first page to the last, though rows of the same and of earlier times are written, and
   old ones pruned, between two pages. *)
PagesAreExact ==
  /\ \A i, j \in DOMAIN pages.got : i # j => pages.got[i] \cap pages.got[j] = {}
  /\ pages.st = "done" => pages.there \ pruned \subseteq UNION ToSet(pages.got)

(* Clients of the log endpoints miss nothing and read nothing twice. *)
ReadersMissNothing == TailMissesNothing /\ PagesAreExact

(* A signal ends the process, whatever its requests and its backend do, and so does a
   port that is taken. *)
ShutdownEnds == pc \in {"drain", "failed"} ~> ~Alive
=============================================================================
