-------------------------------- MODULE Gateway --------------------------------
(***************************************************************************)
(* The gateway's request path (server.ts 1660-2260): the middlewares in    *)
(* their order, the token buckets (gateway/rate-limit.ts), the cache of    *)
(* verified tokens (gateway/auth.ts), the body watchdog, the dispatch to   *)
(* either backend with its timeout, and the circuit breaker                *)
(* (supervisor.ts), with functions reloaded, removed and added meanwhile.  *)
(*                                                                         *)
(* A request is an identifier used once, and its record keeps what became  *)
(* of it.  Time is a counter; every delay is a number of its ticks.        *)
(* Simplifications: one rpm for all functions; the secret does not change; *)
(* what happens in the backend is an outcome; warm-up is FunctionHost's    *)
(* subject, here it only answers 503; counters for /metrics are left out.  *)
(***************************************************************************)
EXTENDS Naturals, Sequences, FiniteSets, SequencesExt

CONSTANTS
  Functions, Public, Requests,
  Clients,               \* socket addresses
  Tokens, ExpiresAt,     \* bearer tokens, each of its own user, and when they expire
  Backends,              \* subset of {"bun", "workerd"}
  Rpm, TicksPerToken, MaxBuckets,
  CacheSize,
  ErrorWindow, ErrorLimit,   \* recycle.errorWindow, and errorRate as a number of errors
  Cooldown,
  MaxTime, MaxEvents,        \* bounds on the clock, and on reloads and leaked rejections
  None

ASSUME GatewayAssumption ==
  /\ {Rpm, TicksPerToken, MaxBuckets, CacheSize, ErrorWindow, ErrorLimit, Cooldown, MaxTime, MaxEvents} \subseteq Nat
  /\ 0 \notin {TicksPerToken, MaxBuckets, CacheSize, ErrorWindow, ErrorLimit}
  /\ ErrorLimit <= ErrorWindow /\ Public \subseteq Functions
  /\ ExpiresAt \in [Tokens -> Nat] /\ Backends \subseteq {"bun", "workerd"}
  /\ None \notin Functions \cup Clients \cup Tokens /\ Clients \cap Tokens = {}

VARIABLES
  backend, now,
  known,         \* function -> version of its live code, 0: not known (registry.has, workerdNames)
  manifests,     \* the functions whose manifest the supervisor has
  window,        \* per function the recent outcomes [req, code, error]
  openedAt,      \* breakerOpenedAt; None: closed
  buckets,       \* token buckets in insertion order: [key, tokens, last, since, granted]
  verified,      \* verifyCache, least recently used first
  req, events

supervisor == <<manifests, window, openedAt>>
vars == <<backend, now, known, supervisor, buckets, verified, req, events>>

New == [phase |-> "new", fn |-> None, client |-> None, token |-> None, at |-> 0, probe |-> "missing",
        body |-> FALSE, code |-> 0, cause |-> None, status |-> 0, kind |-> None]

Init ==
  /\ backend \in Backends /\ now = 0
  /\ known = [f \in Functions |-> 1] /\ manifests = Functions
  /\ window = [f \in Functions |-> <<>>] /\ openedAt = [f \in Functions |-> None]
  /\ buckets = <<>> /\ verified = <<>>
  /\ req = [r \in Requests |-> New] /\ events = 0

Set(r, phase) == req' = [req EXCEPT ![r].phase = phase]

\* The answer, and the kind of error the invocation row gets.
Done(q, status, kind) ==
  [New EXCEPT !.phase = "done", !.fn = q.fn, !.code = q.code, !.cause = q.cause, !.status = status, !.kind = kind]

Answer(r, status, kind) == req' = [req EXCEPT ![r] = Done(@, status, kind)]

-----------------------------------------------------------------------------
(* The supervisor *)

\* admit(): refuse while the breaker is open; after the cool-down close it on an empty window.
Open(f) == f \in manifests /\ openedAt[f] # None /\ now - openedAt[f] < Cooldown

Admitted(f) ==
  LET halfOpen == f \in manifests /\ openedAt[f] # None IN
  /\ openedAt' = IF halfOpen THEN [openedAt EXCEPT ![f] = None] ELSE openedAt
  /\ window' = IF halfOpen THEN [window EXCEPT ![f] = <<>>] ELSE window

Slid(w) == IF Len(w) > ErrorWindow THEN Tail(w) ELSE w

Errors(w) == Cardinality({i \in DOMAIN w : w[i].error})

\* Mutant: the breaker trips before its window is full.
RecordEarly(f, r, code, error) ==
  LET w == Slid(Append(window[f], [req |-> r, code |-> code, error |-> error])) IN
  IF f \in manifests
  THEN /\ window' = [window EXCEPT ![f] = w]
       /\ openedAt' = IF openedAt[f] = None /\ error THEN [openedAt EXCEPT ![f] = now] ELSE openedAt
  ELSE UNCHANGED <<window, openedAt>>

Record(f, r, code, error) ==
  LET w == Slid(Append(window[f], [req |-> r, code |-> code, error |-> error])) IN
  IF f \in manifests
  THEN /\ window' = [window EXCEPT ![f] = w]
       /\ openedAt' = IF openedAt[f] = None /\ Len(w) >= ErrorWindow /\ Errors(w) >= ErrorLimit
                      THEN [openedAt EXCEPT ![f] = now] ELSE openedAt
  ELSE UNCHANGED <<window, openedAt>>

-----------------------------------------------------------------------------
(* The middlewares: unknown names, body size, the token probe, the limiter *)

\* verifyCache.delete: a token is in the cache once.
Uncached(t) == RemoveAt(verified, CHOOSE i \in DOMAIN verified : verified[i] = t)

\* What a lookup leaves: an expired token is dropped, one that is found becomes the newest.
CacheGet(t) == IF t \notin ToSet(verified) THEN verified
               ELSE IF ExpiresAt[t] <= now THEN Uncached(t) ELSE Append(Uncached(t), t)

Hit(t) == t \in ToSet(verified) /\ ExpiresAt[t] > now

\* A request for a known function, within the body limit; its token is looked up in the
\* cache, or its signature is being verified.
Arrive(r, f, client, token, body) ==
  /\ req[r].phase = "new"
  /\ LET q == [New EXCEPT !.fn = f, !.client = client, !.token = token, !.at = now, !.body = body] IN
     IF known[f] = 0
     THEN /\ req' = [req EXCEPT ![r] = Done(q, 404, None)]
          /\ UNCHANGED verified
     ELSE \/ /\ body
             /\ req' = [req EXCEPT ![r] = Done(q, 413, None)]
             /\ UNCHANGED verified
          \/ /\ token = None
             /\ req' = [req EXCEPT ![r] = [q EXCEPT !.phase = "limit"]]
             /\ UNCHANGED verified
          \/ /\ token # None
             /\ verified' = CacheGet(token)
             /\ req' = [req EXCEPT ![r] = IF Hit(token) THEN [q EXCEPT !.phase = "limit", !.probe = "ok"]
                                          ELSE [q EXCEPT !.phase = "verify"]]
  /\ UNCHANGED <<backend, now, known, supervisor, buckets, events>>

\* The oldest token makes room; one that is still there keeps its place.
CacheSet(t) == LET kept == IF Len(verified) >= CacheSize THEN Tail(verified) ELSE verified IN
  IF t \in ToSet(kept) THEN kept ELSE Append(kept, t)

\* The signature holds or not; expiry is judged by the time the probe began.
Verified(r) ==
  LET t == req[r].token IN
  /\ req[r].phase = "verify"
  /\ \/ /\ ExpiresAt[t] > req[r].at
        /\ verified' = CacheSet(t)
        /\ req' = [req EXCEPT ![r].phase = "limit", ![r].probe = "ok"]
     \/ /\ req' = [req EXCEPT ![r].phase = "limit", ![r].probe = "invalid"]
        /\ UNCHANGED verified
  /\ UNCHANGED <<backend, now, known, supervisor, buckets, events>>

Key(r) == <<IF req[r].probe = "ok" THEN req[r].token ELSE req[r].client, req[r].fn>>

\* Whole tokens only; the clock restarts when there was one.
Refilled(b) ==
  LET refill == (now - b.last) \div TicksPerToken IN
  IF refill = 0 THEN b
  ELSE [b EXCEPT !.tokens = IF @ + refill > Rpm THEN Rpm ELSE @ + refill, !.last = now]

\* getOrCreateBucket: a new bucket is full and may push out the oldest one.
WithBucket(k) ==
  LET mine == {i \in DOMAIN buckets : buckets[i].key = k} IN
  IF mine # {} THEN [i \in DOMAIN buckets |-> IF i \in mine THEN Refilled(buckets[i]) ELSE buckets[i]]
  ELSE Append(IF Len(buckets) >= MaxBuckets THEN Tail(buckets) ELSE buckets,
              [key |-> k, tokens |-> Rpm, last |-> now, since |-> now, granted |-> <<>>])

\* Mutant: the token is looked at, not taken.
TakenNone(b) == [b EXCEPT !.granted = Append(@, now)]

Taken(b) == [b EXCEPT !.tokens = @ - 1, !.granted = Append(@, now)]

Limit(r) ==
  /\ req[r].phase = "limit"
  /\ IF Rpm = 0 THEN Set(r, "admit") /\ UNCHANGED buckets
     ELSE LET bs == WithBucket(Key(r))
              i == CHOOSE j \in DOMAIN bs : bs[j].key = Key(r) IN
          IF bs[i].tokens = 0 THEN Answer(r, 429, None) /\ buckets' = bs
          ELSE Set(r, "admit") /\ buckets' = [bs EXCEPT ![i] = Taken(@)]
  /\ UNCHANGED <<backend, now, known, supervisor, verified, events>>

-----------------------------------------------------------------------------
(* Dispatch *)

\* bun: the function is warming up or did not load.
NotUp(r) ==
  /\ req[r].phase = "admit" /\ backend = "bun"
  /\ \E kind \in {None, "boot"} : Answer(r, 503, kind)
  /\ UNCHANGED <<backend, now, known, supervisor, buckets, verified, events>>

\* The breaker first: a refusal costs the backend nothing.
Refused(r) == Open(req[r].fn) /\ Answer(r, 503, "breaker") /\ UNCHANGED <<window, openedAt>>

Forward(r) == req' = [req EXCEPT ![r].phase = "run", ![r].code = known[req[r].fn]]

\* A request without a valid token to a function that needs one: the bun backend's
\* dispatch answers; workerd's own wrapper does, as an ordinary response.
Unauthorized(r) == req[r].fn \notin Public /\ req[r].probe # "ok"

AdmitBun(r) ==
  LET f == req[r].fn IN
  /\ req[r].phase = "admit" /\ backend = "bun"
  /\ \/ known[f] = 0 /\ Answer(r, 404, None) /\ UNCHANGED <<window, openedAt>>
     \/ known[f] # 0 /\ Refused(r)
     \/ /\ known[f] # 0 /\ ~Open(f) /\ Admitted(f)
        /\ IF Unauthorized(r) THEN Answer(r, 401, None) ELSE Forward(r)
  /\ UNCHANGED <<backend, now, known, manifests, buckets, verified, events>>

\* A function that has gone since the fast-fail has no manifest and no route: the
\* backend throws, and nothing is recorded.
AdmitWorkerd(r) ==
  LET f == req[r].fn IN
  /\ req[r].phase = "admit" /\ backend = "workerd"
  /\ \/ Refused(r)
     \/ /\ ~Open(f) /\ Admitted(f)
        /\ IF known[f] = 0 THEN Answer(r, 500, "unhandled") ELSE Forward(r)
  /\ UNCHANGED <<backend, now, known, manifests, buckets, verified, events>>

Runs(r) == req[r].phase = "run" /\ req[r].cause = None

\* Mutant: only requests with a body get timers.
AbortUploads(r, cause) ==
  /\ Runs(r) /\ req[r].body
  /\ req' = [req EXCEPT ![r].cause = cause]
  /\ UNCHANGED <<backend, now, known, supervisor, buckets, verified, events>>

\* The function's timer fires, the upload stalls, the client goes away: the request's
\* signal is aborted.  Only a request with a body has a watchdog.
Abort(r, cause) ==
  /\ Runs(r) /\ cause \in {"timeout", "stall", "client"} /\ (cause = "stall" => req[r].body)
  /\ req' = [req EXCEPT ![r].cause = cause]
  /\ UNCHANGED <<backend, now, known, supervisor, buckets, verified, events>>

\* The catch of the dispatch.
CaughtBun(r) ==
  CASE req[r].cause = "timeout" -> <<504, "timeout">>
    [] req[r].cause = "stall"   -> <<408, "body_timeout">>
    [] OTHER                    -> <<500, "unhandled">>

\* The workerd backend catches first and answers itself.
CaughtWorkerd == <<502, None>>

Caught(r) == IF backend = "bun" THEN CaughtBun(r) ELSE CaughtWorkerd

\* The dispatch is over; its outcome is recorded.
End(r, status, kind, error) ==
  /\ Answer(r, status, kind)
  /\ Record(req[r].fn, r, req[r].code, error)
  /\ UNCHANGED <<backend, now, known, manifests, buckets, verified, events>>

Respond(r) == Runs(r) /\ \E status \in {200, 500} : End(r, status, None, status = 500)

Fail(r) == req[r].phase = "run" /\ End(r, Caught(r)[1], Caught(r)[2], TRUE)

-----------------------------------------------------------------------------
(* What goes on around the requests *)

Event == events < MaxEvents /\ events' = events + 1

Forget(f) ==
  /\ manifests' = manifests \ {f}
  /\ window' = [window EXCEPT ![f] = <<>>] /\ openedAt' = [openedAt EXCEPT ![f] = None]

\* The function is gone: forget() drops all of its state.
RemoveFunction(f) ==
  /\ Event /\ known[f] # 0
  /\ known' = [known EXCEPT ![f] = 0]
  /\ Forget(f)
  /\ UNCHANGED <<backend, now, buckets, verified, req>>

\* Its code is replaced, or it is there again, or its reload failed: the bun host resets
\* the breaker, the workerd bridge only sets the manifest again.
Load(f) ==
  /\ Event
  /\ \/ known' = [known EXCEPT ![f] = events + 2] /\ manifests' = manifests \cup {f}
     \/ backend = "bun" /\ UNCHANGED <<known, manifests>>
  /\ IF backend = "bun"
     THEN window' = [window EXCEPT ![f] = <<>>] /\ openedAt' = [openedAt EXCEPT ![f] = None]
     ELSE UNCHANGED <<window, openedAt>>
  /\ UNCHANGED <<backend, now, buckets, verified, req>>

\* A rejection that nobody handled is attributed to the function that leaked it.
Leak(f) ==
  /\ Event /\ backend = "bun" /\ \E r \in Requests : req[r].fn = f /\ req[r].code # 0
  /\ Record(f, None, known[f], TRUE)
  /\ UNCHANGED <<backend, now, known, manifests, buckets, verified, req>>

Tick ==
  /\ now < MaxTime /\ now' = now + 1
  /\ UNCHANGED <<backend, known, supervisor, buckets, verified, req, events>>

Next ==
  \/ \E r \in Requests :
       \/ \E f \in Functions, c \in Clients, t \in Tokens \cup {None}, b \in BOOLEAN : Arrive(r, f, c, t, b)
       \/ Verified(r) \/ Limit(r) \/ NotUp(r) \/ AdmitBun(r) \/ AdmitWorkerd(r) \/ Respond(r) \/ Fail(r)
       \/ \E cause \in {"timeout", "stall", "client"} : Abort(r, cause)
  \/ \E f \in Functions : RemoveFunction(f) \/ Load(f) \/ Leak(f)
  \/ Tick

Spec == Init /\ [][Next]_vars

\* Code runs, promises settle, and the timer of a function fires: timeoutMs is not 0.
FairSpec == Spec /\ \A r \in Requests :
  WF_vars(Verified(r)) /\ WF_vars(Limit(r)) /\ WF_vars(AdmitBun(r) \/ AdmitWorkerd(r)) /\ WF_vars(Abort(r, "timeout"))
  /\ WF_vars(req[r].cause # None /\ Fail(r))

-----------------------------------------------------------------------------
TypeOK ==
  /\ backend \in Backends /\ now \in 0..MaxTime /\ events \in 0..MaxEvents
  /\ known \in [Functions -> 0..(MaxEvents + 1)] /\ manifests \subseteq Functions
  /\ openedAt \in [Functions -> 0..MaxTime \cup {None}]
  /\ \A f \in Functions : Len(window[f]) <= ErrorWindow
  /\ Len(buckets) <= MaxBuckets /\ \A i \in DOMAIN buckets : buckets[i].tokens \in 0..Rpm
  /\ IsInjective(verified) /\ Len(verified) <= CacheSize
  /\ \A r \in Requests : req[r].phase \in {"new", "verify", "limit", "admit", "run", "done"}

(* Bursts, pauses and refills in whole tokens: in any stretch of time a bucket grants
   no more than it holds and what may flow in meanwhile. *)
RateBound ==
  \A n \in DOMAIN buckets : LET g == buckets[n].granted IN
    \A i, j \in DOMAIN g :
      i <= j => j - i + 1 <= Rpm + (g[j] - g[i] + TicksPerToken - 1) \div TicksPerToken

(* Cached or verified, a token is accepted only if it had not expired when its request
   came, whatever other requests do to the cache while it is being verified. *)
AcceptedTokensAreLive ==
  \A r \in Requests : req[r].probe = "ok" => ExpiresAt[req[r].token] > req[r].at

(* Who gets past the limiter and the token check does so by the rules. *)
AdmittedByTheRules == TypeOK /\ RateBound /\ AcceptedTokensAreLive

(* The breaker trips on a full window of outcomes, each of a request that reached the
   function and counted once, or leaked by it: its own refusals do not keep it open. *)
BreakerTripsOnFailures ==
  [][\A f \in Functions : openedAt[f] = None /\ openedAt'[f] # None =>
       LET w == window'[f] IN
       /\ Len(w) = ErrorWindow /\ Errors(w) >= ErrorLimit
       /\ \A i \in DOMAIN w : w[i].req # None =>
            /\ req'[w[i].req].code # 0
            /\ \A j \in DOMAIN w : j # i => w[j].req # w[i].req]_vars

(* Every request is answered, whatever its function and its client do. *)
AllAnswered == \A r \in Requests : req[r].phase # "new" ~> req[r].phase = "done"
=============================================================================
