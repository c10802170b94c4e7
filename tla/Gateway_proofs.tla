----------------------------- MODULE Gateway_proofs -----------------------------
(***************************************************************************)
(* Proofs about Gateway for any clients, functions, requests and sizes:    *)
(* who gets past the limiter and the token check does so by the rules, and *)
(* the breaker trips on failures of the function alone.  The heart of the  *)
(* first is an account kept per bucket (Balanced): the tokens it holds and  *)
(* those it gave since any earlier grant are covered by its size and by     *)
(* what flowed in meanwhile.                                                *)
(***************************************************************************)
EXTENDS Gateway, SequenceTheorems, TLAPS

Phases == {"new", "verify", "limit", "admit", "run", "done"}
Causes == {"timeout", "stall", "client"}
Kinds == {"boot", "breaker", "unhandled", "timeout", "body_timeout"}
RequestType ==
  [phase : Phases, fn : Functions \cup {None}, client : Clients \cup {None}, token : Tokens \cup {None},
   at : Nat, probe : {"missing", "ok", "invalid"}, body : BOOLEAN, code : Nat, cause : Causes \cup {None},
   status : Nat, kind : Kinds \cup {None}]
OutcomeType == [req : Requests \cup {None}, code : Nat, error : BOOLEAN]
Keys == (Tokens \cup Clients) \X Functions
BucketType == [key : Keys, tokens : Nat, last : Nat, since : Nat, granted : Seq(Nat)]

\* The shapes, more exactly than TypeOK.
ShapeInv ==
  /\ backend \in {"bun", "workerd"} /\ now \in Nat /\ events \in Nat /\ known \in [Functions -> Nat]
  /\ window \in [Functions -> Seq(OutcomeType)] /\ buckets \in Seq(BucketType)
  /\ verified \in Seq(Tokens) /\ req \in [Requests -> RequestType]

\* Where a request is tells what is known of it; a token is accepted while it is alive.
Sound(q) ==
  /\ q.phase # "new" => q.fn \in Functions
  /\ q.phase \in {"verify", "limit", "admit", "run"} => q.client \in Clients
  /\ q.phase = "verify" \/ q.probe = "ok" => q.token \in Tokens
  /\ q.probe = "ok" => ExpiresAt[q.token] > q.at
  /\ q.phase = "run" => q.code # 0

RequestInv == \A r \in Requests : Sound(req[r])

\* Who is in a window has ended, ran some code, and is there once.
WindowInv == \A f \in Functions : \A i \in DOMAIN window[f] : window[f][i].req # None =>
  /\ window[f][i].req \in Requests
  /\ req[window[f][i].req].phase = "done" /\ req[window[f][i].req].code # 0
  /\ \A j \in DOMAIN window[f] : j # i => window[f][j].req # window[f][i].req

\* Whole tokens of x ticks, rounded up.
Ceil(x) == (x + TicksPerToken - 1) \div TicksPerToken

\* The account of a bucket: what it holds and what it gave from its i-th grant on.  Until
\* its first refill after that grant this is at most its size, and that refill comes of a
\* time that began less than one token before the grant.
Balanced(b, at) ==
  /\ b.tokens <= Rpm /\ b.last <= at
  /\ \A i \in DOMAIN b.granted : LET given == b.tokens + (Len(b.granted) - i + 1) IN
       /\ b.granted[i] <= at
       /\ b.last <= b.granted[i] => b.granted[i] - b.last < TicksPerToken /\ given <= Rpm
       /\ b.last > b.granted[i] => given <= Rpm + Ceil(b.last - b.granted[i])

Bounded(b) == \A i, j \in DOMAIN b.granted : i <= j =>
  /\ b.granted[i] <= b.granted[j]
  /\ j - i + 1 <= Rpm + Ceil(b.granted[j] - b.granted[i])

BucketInv == \A n \in DOMAIN buckets : Balanced(buckets[n], now) /\ Bounded(buckets[n])

IInv == TypeOK /\ ShapeInv /\ RequestInv /\ WindowInv /\ BucketInv

-----------------------------------------------------------------------------
(* Division *)

LEMMA Sizes ==
  /\ Rpm \in Nat /\ TicksPerToken \in Nat \ {0} /\ MaxBuckets \in Nat \ {0} /\ CacheSize \in Nat \ {0}
  /\ ErrorWindow \in Nat \ {0} /\ ErrorLimit \in Nat \ {0} /\ Cooldown \in Nat /\ MaxTime \in Nat /\ MaxEvents \in Nat
  BY GatewayAssumption

LEMMA DivIs ==
  ASSUME NEW x \in Nat
  PROVE  LET q == x \div TicksPerToken IN
         q \in Nat /\ q * TicksPerToken <= x /\ x < q * TicksPerToken + TicksPerToken
  BY Sizes

LEMMA Cancel ==
  ASSUME NEW a \in Int, NEW b \in Int, a * TicksPerToken < b * TicksPerToken + TicksPerToken
  PROVE  a <= b
<1> SUFFICES ASSUME a >= b + 1 PROVE FALSE
  OBVIOUS
<1>1. a * TicksPerToken >= (b + 1) * TicksPerToken
  BY Sizes
<1>2. (b + 1) * TicksPerToken = b * TicksPerToken + TicksPerToken
  BY Sizes
<1> QED
  BY <1>1, <1>2, Sizes

LEMMA DivMono ==
  ASSUME NEW x \in Nat, NEW y \in Nat, x <= y
  PROVE  x \div TicksPerToken <= y \div TicksPerToken
<1> DEFINE p == x \div TicksPerToken
           q == y \div TicksPerToken
<1>1. p \in Nat /\ p * TicksPerToken <= x
  BY DivIs
<1>2. q \in Nat /\ y < q * TicksPerToken + TicksPerToken
  BY DivIs
<1> HIDE DEF p, q
<1>3. p * TicksPerToken \in Int /\ q * TicksPerToken \in Int
  BY <1>1, <1>2, Sizes
<1>4. p * TicksPerToken < q * TicksPerToken + TicksPerToken
  BY <1>1, <1>2, <1>3, Sizes
<1>5. p <= q
  BY <1>1, <1>2, <1>4, Cancel
<1> QED
  BY <1>5 DEF p, q

LEMMA DivSum ==
  ASSUME NEW x \in Nat, NEW y \in Nat
  PROVE  x \div TicksPerToken + y \div TicksPerToken <= (x + y) \div TicksPerToken
<1> DEFINE p == x \div TicksPerToken
           q == y \div TicksPerToken
           s == (x + y) \div TicksPerToken
<1>1. p \in Nat /\ p * TicksPerToken <= x
  BY DivIs
<1>2. q \in Nat /\ q * TicksPerToken <= y
  BY DivIs
<1>3. s \in Nat /\ x + y < s * TicksPerToken + TicksPerToken
  BY DivIs
<1> HIDE DEF p, q, s
<1>4. (p + q) * TicksPerToken = p * TicksPerToken + q * TicksPerToken
  BY <1>1, <1>2, Sizes
<1>5. p * TicksPerToken \in Int /\ q * TicksPerToken \in Int /\ s * TicksPerToken \in Int
  BY <1>1, <1>2, <1>3, Sizes
<1>6. (p + q) * TicksPerToken < s * TicksPerToken + TicksPerToken
  BY <1>1, <1>2, <1>3, <1>4, <1>5, Sizes
<1>7. p + q <= s
  BY <1>1, <1>2, <1>3, <1>6, Cancel
<1> QED
  BY <1>7 DEF p, q, s

\* What flows in during y ticks comes on top of x ticks rounded up, or, if its clock started
\* less than a token earlier, is y ticks rounded up.
LEMMA Inflow ==
  /\ \A x \in Nat : Ceil(x) \in Nat
  /\ \A x, y \in Nat : x <= y => Ceil(x) <= Ceil(y)
  /\ \A x, y \in Nat : Ceil(x) + (y \div TicksPerToken) <= Ceil(x + y)
  /\ \A d, y \in Nat : d < TicksPerToken => (y + d) \div TicksPerToken <= Ceil(y)
<1>1. ASSUME NEW x \in Nat
      PROVE  Ceil(x) \in Nat
  BY DivIs, Sizes DEF Ceil
<1>2. ASSUME NEW x \in Nat, NEW y \in Nat, x <= y
      PROVE  Ceil(x) <= Ceil(y)
  <2>1. x + TicksPerToken - 1 \in Nat /\ y + TicksPerToken - 1 \in Nat /\ x + TicksPerToken - 1 <= y + TicksPerToken - 1
    BY <1>2, Sizes
  <2> QED
    BY <2>1, DivMono DEF Ceil
<1>3. ASSUME NEW x \in Nat, NEW y \in Nat
      PROVE  Ceil(x) + (y \div TicksPerToken) <= Ceil(x + y)
  <2>1. x + TicksPerToken - 1 \in Nat /\ (x + TicksPerToken - 1) + y = x + y + TicksPerToken - 1
    BY Sizes
  <2> QED
    BY <2>1, DivSum DEF Ceil
<1>4. ASSUME NEW d \in Nat, NEW y \in Nat, d < TicksPerToken
      PROVE  (y + d) \div TicksPerToken <= Ceil(y)
  <2>1. y + d \in Nat /\ y + TicksPerToken - 1 \in Nat /\ y + d <= y + TicksPerToken - 1
    BY <1>4, Sizes
  <2> QED
    BY <2>1, DivMono DEF Ceil
<1> QED
  BY <1>1, <1>2, <1>3, <1>4

-----------------------------------------------------------------------------
(* Buckets *)

LEMMA BucketFields ==
  ASSUME NEW b \in BucketType
  PROVE  /\ b.tokens \in Nat /\ b.last \in Nat /\ b.granted \in Seq(Nat) /\ Len(b.granted) \in Nat
         /\ DOMAIN b.granted = 1..Len(b.granted) /\ \A i \in DOMAIN b.granted : b.granted[i] \in Nat
  BY DEF BucketType

\* A refill keeps the account: it adds what has flowed in, and no more than fits.
LEMMA RefilledBalanced ==
  ASSUME NEW b \in BucketType, now \in Nat, Balanced(b, now)
  PROVE  LET c == Refilled(b) IN
         /\ c \in BucketType /\ c.key = b.key /\ c.granted = b.granted
         /\ Balanced(c, now) /\ now - c.last < TicksPerToken
<1> DEFINE refill == (now - b.last) \div TicksPerToken
           c == Refilled(b)
           tokens == IF b.tokens + refill > Rpm THEN Rpm ELSE b.tokens + refill
<1>1. b.tokens \in Nat /\ b.last \in Nat /\ b.last <= now /\ b.tokens <= Rpm /\ now - b.last \in Nat
  BY BucketFields DEF Balanced
<1>2. /\ refill \in Nat
      /\ refill = 0 => now - b.last < TicksPerToken
  <2>1. LET q == refill IN
        q \in Nat /\ q * TicksPerToken <= now - b.last /\ now - b.last < q * TicksPerToken + TicksPerToken
    BY <1>1, DivIs
  <2> HIDE DEF refill
  <2>2. refill = 0 => refill * TicksPerToken = 0
    BY Sizes
  <2> QED
    BY <2>1, <2>2, <1>1, Sizes
<1>3. refill = 0 => c = b
  BY DEF Refilled
<1>4. refill # 0 => c = [b EXCEPT !.tokens = tokens, !.last = now]
  BY DEF Refilled
<1>5. CASE refill = 0
  BY <1>2, <1>3, <1>5
<1>6. CASE refill # 0
  <2>1. refill \in Nat \ {0}
    BY <1>2, <1>6
  <2>2. tokens \in Nat /\ tokens <= Rpm /\ tokens <= b.tokens + refill
    <3> HIDE DEF refill
    <3> QED
      BY <2>1, <1>1, Sizes
  <2> DEFINE e == [b EXCEPT !.tokens = tokens, !.last = now]
  <2>3. \A i \in DOMAIN b.granted : b.granted[i] < now =>
          tokens + (Len(b.granted) - i + 1) <= Rpm + Ceil(now - b.granted[i])
    <3> SUFFICES ASSUME NEW i \in DOMAIN b.granted, b.granted[i] < now
                 PROVE  tokens + (Len(b.granted) - i + 1) <= Rpm + Ceil(now - b.granted[i])
      OBVIOUS
    <3> DEFINE g == b.granted[i]
               k == Len(b.granted) - i + 1
    <3>1. g \in Nat /\ k \in Nat /\ now - g \in Nat
      BY BucketFields
    <3>2. Ceil(now - g) \in Nat
      BY <3>1, Inflow
    <3>3. CASE b.last <= g
      <4>1. g - b.last \in Nat /\ g - b.last < TicksPerToken /\ b.tokens + k <= Rpm
        BY <3>3, <3>1, <1>1, SMTT(30) DEF Balanced
      <4>2. (now - g) + (g - b.last) = now - b.last
        BY <3>1, <1>1
      <4>3. refill <= Ceil(now - g)
        BY <4>1, <4>2, <3>1, Inflow
      <4> HIDE DEF refill, tokens, g, k
      <4>5. tokens + k <= Rpm + Ceil(now - g)
        BY <4>1, <4>3, <3>1, <3>2, <2>1, <2>2, <1>1, Sizes
      <4> QED
        BY <4>5 DEF g, k
    <3>4. CASE b.last > g
      <4>1. b.last - g \in Nat /\ b.tokens + k <= Rpm + Ceil(b.last - g)
        BY <3>4, <3>1, <1>1, SMTT(30) DEF Balanced
      <4>2. (b.last - g) + (now - b.last) = now - g
        BY <3>1, <1>1
      <4>3. Ceil(b.last - g) + refill <= Ceil(now - g)
        BY <4>1, <4>2, <1>1, Inflow
      <4>4. Ceil(b.last - g) \in Nat
        BY <4>1, Inflow
      <4> HIDE DEF refill, tokens, g, k
      <4>5. tokens + k <= Rpm + Ceil(now - g)
        BY <4>1, <4>3, <4>4, <3>1, <3>2, <2>1, <2>2, <1>1, Sizes
      <4> QED
        BY <4>5 DEF g, k
    <3> QED
      BY <3>1, <3>3, <3>4, <1>1
  <2>4. \A i \in DOMAIN b.granted : b.granted[i] \in Nat /\ b.granted[i] <= now
    BY BucketFields DEF Balanced
  <2>5. \A i \in DOMAIN b.granted : b.granted[i] = now => tokens + (Len(b.granted) - i + 1) <= Rpm
    <3> SUFFICES ASSUME NEW i \in DOMAIN b.granted, b.granted[i] = now
                 PROVE  tokens + (Len(b.granted) - i + 1) <= Rpm
      OBVIOUS
    <3>1. now - b.last < TicksPerToken
      BY <1>1 DEF Balanced
    <3>2. refill <= 0
      <4>1. LET q == refill IN q \in Nat /\ q * TicksPerToken <= now - b.last
        BY <1>1, DivIs
      <4> HIDE DEF refill
      <4>2. refill * TicksPerToken < 0 * TicksPerToken + TicksPerToken
        BY <4>1, <3>1, <1>1, Sizes
      <4> QED
        BY <4>1, <4>2, Cancel
    <3> HIDE DEF refill
    <3> QED
      BY <3>2, <2>1
  <2> HIDE DEF refill, tokens
  <2>6. e \in BucketType /\ e.tokens = tokens /\ e.last = now /\ e.granted = b.granted /\ e.key = b.key
    BY <2>2 DEF BucketType
  <2> HIDE DEF e
  <2>7. Balanced(e, now)
    BY <2>2, <2>3, <2>4, <2>5, <2>6, Sizes DEF Balanced
  <2>8. now - e.last < TicksPerToken
    BY <2>6, Sizes
  <2> QED
    BY <2>6, <2>7, <2>8, <1>4, <1>6 DEF e
<1> QED
  BY <1>5, <1>6

\* A grant keeps the account, and is within the bound because the account is.
LEMMA TakenBalanced ==
  ASSUME NEW b \in BucketType, now \in Nat, Balanced(b, now), Bounded(b),
         now - b.last < TicksPerToken, b.tokens # 0
  PROVE  LET c == Taken(b) IN c \in BucketType /\ c.key = b.key /\ Balanced(c, now) /\ Bounded(c)
<1> DEFINE n == Len(b.granted)
           c == Taken(b)
<1>1. b.tokens \in Nat \ {0} /\ b.last \in Nat /\ n \in Nat /\ b.last <= now /\ b.tokens <= Rpm
  BY BucketFields DEF Balanced
<1>2. c \in BucketType /\ c.key = b.key /\ c.tokens = b.tokens - 1 /\ c.last = b.last
  <2> DEFINE tokens == b.tokens - 1
             granted == Append(b.granted, now)
  <2>1. tokens \in Nat /\ granted \in Seq(Nat)
    BY <1>1, BucketFields, AppendProperties
  <2>2. c = [b EXCEPT !.tokens = tokens, !.granted = granted]
    BY DEF Taken
  <2> HIDE DEF tokens, granted
  <2>3. c \in BucketType /\ c.key = b.key /\ c.tokens = tokens /\ c.last = b.last
    BY <2>1, <2>2 DEF BucketType
  <2> QED
    BY <2>3 DEF tokens
<1>3. /\ c.granted = Append(b.granted, now) /\ Len(c.granted) = n + 1 /\ DOMAIN c.granted = 1..(n + 1)
      /\ c.granted[n + 1] = now /\ \A i \in 1..n : c.granted[i] = b.granted[i]
  <2>1. c.granted = Append(b.granted, now) /\ b.granted \in Seq(Nat)
    BY BucketFields DEF BucketType, Taken
  <2> HIDE DEF c
  <2> QED
    BY <2>1, AppendProperties
<1>4. DOMAIN b.granted = 1..n /\ \A i \in 1..n : b.granted[i] \in Nat /\ b.granted[i] <= now
  BY BucketFields DEF Balanced
<1> HIDE DEF c
<1>5. Balanced(c, now)
  <2> SUFFICES ASSUME NEW i \in 1..(n + 1)
               PROVE  LET given == c.tokens + (Len(c.granted) - i + 1) IN
                      /\ c.granted[i] <= now
                      /\ c.last <= c.granted[i] => c.granted[i] - c.last < TicksPerToken /\ given <= Rpm
                      /\ c.last > c.granted[i] => given <= Rpm + Ceil(c.last - c.granted[i])
    <3>1. c.tokens <= Rpm /\ c.last <= now /\ DOMAIN c.granted = 1..(n + 1)
      BY <1>1, <1>2, <1>3, Sizes
    <3> QED
      BY <3>1 DEF Balanced
  <2>1. CASE i \in 1..n
    <3>1. c.tokens + (Len(c.granted) - i + 1) = b.tokens + (n - i + 1)
      BY <1>1, <1>2, <1>3
    <3> QED
      BY <3>1, <2>1, <1>2, <1>3, <1>4 DEF Balanced
  <2>2. CASE i = n + 1
    <3>1. c.tokens + (Len(c.granted) - i + 1) = b.tokens
      BY <2>2, <1>1, <1>2, <1>3
    <3> QED
      BY <3>1, <2>2, <1>1, <1>2, <1>3
  <2> QED
    BY <2>1, <2>2, <1>1
<1>6. Bounded(c)
  <2> SUFFICES ASSUME NEW i \in 1..(n + 1), NEW j \in 1..(n + 1), i <= j
               PROVE  /\ c.granted[i] <= c.granted[j]
                      /\ j - i + 1 <= Rpm + Ceil(c.granted[j] - c.granted[i])
    BY <1>3 DEF Bounded
  <2>1. CASE j \in 1..n
    <3>1. i \in 1..n
      BY <2>1, <1>1
    <3> QED
      BY <3>1, <2>1, <1>3, <1>4 DEF Bounded
  <2>2. CASE j = n + 1 /\ i \in 1..n
    <3> DEFINE g == b.granted[i]
    <3>1. c.granted[i] = g /\ c.granted[j] = now /\ g \in Nat /\ g <= now /\ now - g \in Nat
      BY <2>2, <1>3, <1>4
    <3>2. Ceil(now - g) \in Nat
      BY <3>1, Inflow
    <3>3. CASE b.last <= g
      <4>1. b.tokens + (n - i + 1) <= Rpm
        BY <3>3, <2>2, <1>4 DEF Balanced
      <4> QED
        BY <4>1, <3>1, <3>2, <2>2, <1>1, Sizes
    <3>4. CASE b.last > g
      <4>1. b.tokens + (n - i + 1) <= Rpm + Ceil(b.last - g)
        BY <3>4, <2>2, <1>4 DEF Balanced
      <4>2. b.last - g \in Nat /\ b.last - g <= now - g
        BY <3>4, <3>1, <1>1
      <4>3. Ceil(b.last - g) <= Ceil(now - g) /\ Ceil(b.last - g) \in Nat
        BY <4>2, <3>1, Inflow
      <4> QED
        BY <4>1, <4>3, <3>1, <3>2, <2>2, <1>1, Sizes, SMTT(30)
    <3> QED
      BY <3>1, <3>3, <3>4, <1>1
  <2>3. CASE j = n + 1 /\ i = n + 1
    <3>1. c.granted[j] - c.granted[i] = 0 /\ Ceil(0) \in Nat
      BY <2>3, <1>3, Inflow
    <3> QED
      BY <3>1, <2>3, <1>1, <1>3, Sizes
  <2> QED
    BY <2>1, <2>2, <2>3, <1>1
<1> QED
  BY <1>2, <1>5, <1>6 DEF c

\* What getOrCreateBucket leaves: every account is kept, and the bucket asked for is there
\* and has just been refilled.
LEMMA WithBucketBalanced ==
  ASSUME TypeOK, ShapeInv, BucketInv, NEW k \in Keys
  PROVE  LET bs == WithBucket(k) IN
         /\ bs \in Seq(BucketType) /\ Len(bs) <= MaxBuckets
         /\ \A n \in DOMAIN bs : Balanced(bs[n], now) /\ Bounded(bs[n])
         /\ \A n \in DOMAIN bs : bs[n].key = k => now - bs[n].last < TicksPerToken
         /\ \E n \in DOMAIN bs : bs[n].key = k
<1> DEFINE mine == {i \in DOMAIN buckets : buckets[i].key = k}
           bs == WithBucket(k)
<1>1. /\ buckets \in Seq(BucketType) /\ now \in Nat /\ Len(buckets) <= MaxBuckets
      /\ Len(buckets) \in Nat /\ DOMAIN buckets = 1..Len(buckets)
  BY DEF TypeOK, ShapeInv
<1>2. \A i \in 1..Len(buckets) : /\ buckets[i] \in BucketType /\ Balanced(buckets[i], now) /\ Bounded(buckets[i])
  BY <1>1 DEF BucketInv
<1>3. \A i \in 1..Len(buckets) : LET c == Refilled(buckets[i]) IN
        /\ c \in BucketType /\ c.key = buckets[i].key /\ Balanced(c, now) /\ Bounded(c)
        /\ now - c.last < TicksPerToken
  <2> SUFFICES ASSUME NEW i \in 1..Len(buckets)
               PROVE  LET c == Refilled(buckets[i]) IN
                      /\ c \in BucketType /\ c.key = buckets[i].key /\ Balanced(c, now) /\ Bounded(c)
                      /\ now - c.last < TicksPerToken
    OBVIOUS
  <2>1. LET c == Refilled(buckets[i]) IN
        /\ c \in BucketType /\ c.key = buckets[i].key /\ c.granted = buckets[i].granted
        /\ Balanced(c, now) /\ now - c.last < TicksPerToken
    BY <1>1, <1>2, RefilledBalanced
  <2>2. Bounded(Refilled(buckets[i]))
    BY <2>1, <1>2 DEF Bounded
  <2> QED
    BY <2>1, <2>2
<1>4. CASE mine # {}
  <2>1. bs = [i \in 1..Len(buckets) |-> IF i \in mine THEN Refilled(buckets[i]) ELSE buckets[i]]
    BY <1>1, <1>4 DEF WithBucket
  <2>2. \A i \in 1..Len(buckets) : bs[i] = IF buckets[i].key = k THEN Refilled(buckets[i]) ELSE buckets[i]
    BY <2>1, <1>1
  <2>3. bs \in Seq(BucketType) /\ Len(bs) = Len(buckets) /\ DOMAIN bs = 1..Len(buckets)
    <3>1. \A i \in 1..Len(buckets) : (IF i \in mine THEN Refilled(buckets[i]) ELSE buckets[i]) \in BucketType
      BY <1>2, <1>3
    <3> HIDE DEF mine
    <3>2. [i \in 1..Len(buckets) |-> IF i \in mine THEN Refilled(buckets[i]) ELSE buckets[i]] \in Seq(BucketType)
      BY <3>1, <1>1, IsASeq
    <3> QED
      BY <3>2, <2>1, <1>1, LenProperties
  <2>4. PICK m \in 1..Len(buckets) : buckets[m].key = k
    BY <1>1, <1>4
  <2> HIDE DEF bs
  <2>5. \A n \in 1..Len(buckets) : Balanced(bs[n], now) /\ Bounded(bs[n])
    BY <2>2, <1>2, <1>3
  <2>6. \A n \in 1..Len(buckets) : bs[n].key = k => now - bs[n].last < TicksPerToken
    BY <2>2, <1>2, <1>3
  <2>7. bs[m].key = k
    BY <2>2, <2>4, <1>3
  <2> QED
    BY <2>3, <2>4, <2>5, <2>6, <2>7, <1>1 DEF bs
<1>5. CASE mine = {}
  <2> DEFINE fresh == [key |-> k, tokens |-> Rpm, last |-> now, since |-> now, granted |-> <<>>]
             kept == IF Len(buckets) >= MaxBuckets THEN Tail(buckets) ELSE buckets
  <2>1. bs = Append(kept, fresh)
    BY <1>5 DEF WithBucket
  <2>2. fresh \in BucketType /\ fresh.key = k /\ fresh.last = now /\ Balanced(fresh, now) /\ Bounded(fresh)
    <3>1. fresh \in BucketType /\ fresh.tokens = Rpm /\ fresh.last = now /\ fresh.granted = <<>>
      BY <1>1, Sizes DEF BucketType
    <3> HIDE DEF fresh
    <3>2. Balanced(fresh, now) /\ Bounded(fresh)
      BY <3>1, <1>1, Sizes DEF Balanced, Bounded
    <3> QED
      BY <3>1, <3>2 DEF fresh
  <2>3. /\ kept \in Seq(BucketType) /\ Len(kept) \in Nat /\ Len(kept) + 1 <= MaxBuckets
        /\ \A i \in 1..Len(kept) : \E j \in 1..Len(buckets) : kept[i] = buckets[j]
    <3>1. CASE Len(buckets) >= MaxBuckets
      <4>1. buckets # <<>> /\ kept = Tail(buckets)
        BY <3>1, <1>1, Sizes
      <4>2. /\ kept \in Seq(BucketType) /\ Len(kept) = Len(buckets) - 1
            /\ \A i \in 1..Len(kept) : kept[i] = buckets[i + 1]
        BY <4>1, <1>1, HeadTailProperties
      <4> HIDE DEF kept
      <4>3. ASSUME NEW i \in 1..Len(kept)
            PROVE  i + 1 \in 1..Len(buckets) /\ kept[i] = buckets[i + 1]
        BY <4>2, <1>1
      <4> QED
        BY <4>2, <4>3, <1>1, Sizes
    <3>2. CASE ~(Len(buckets) >= MaxBuckets)
      BY <3>2, <1>1, Sizes
    <3> QED
      BY <3>1, <3>2
  <2>4. \A i \in 1..Len(kept) : kept[i].key # k /\ Balanced(kept[i], now) /\ Bounded(kept[i])
    <3> HIDE DEF kept
    <3> SUFFICES ASSUME NEW i \in 1..Len(kept)
                 PROVE  kept[i].key # k /\ Balanced(kept[i], now) /\ Bounded(kept[i])
      OBVIOUS
    <3>1. PICK j \in 1..Len(buckets) : kept[i] = buckets[j]
      BY <2>3
    <3>2. buckets[j].key # k
      BY <1>5, <1>1
    <3> QED
      BY <3>1, <3>2, <1>2
  <2> HIDE DEF kept, fresh, bs, mine
  <2>5. /\ bs \in Seq(BucketType) /\ Len(bs) = Len(kept) + 1 /\ DOMAIN bs = 1..(Len(kept) + 1)
        /\ bs[Len(kept) + 1] = fresh /\ \A i \in 1..Len(kept) : bs[i] = kept[i]
    BY <2>1, <2>2, <2>3, AppendProperties
  <2>6. \A n \in 1..(Len(kept) + 1) : n \in 1..Len(kept) \/ n = Len(kept) + 1
    BY <2>3
  <2>7. \A n \in DOMAIN bs : Balanced(bs[n], now) /\ Bounded(bs[n])
    BY <2>2, <2>4, <2>5, <2>6
  <2>8. \A n \in DOMAIN bs : bs[n].key = k => now - bs[n].last < TicksPerToken
    BY <2>2, <2>4, <2>5, <2>6, <1>1, Sizes
  <2>9. Len(kept) + 1 \in DOMAIN bs /\ bs[Len(kept) + 1].key = k
    BY <2>2, <2>3, <2>5
  <2> QED
    BY <2>3, <2>5, <2>7, <2>8, <2>9 DEF bs
<1> QED
  BY <1>4, <1>5

-----------------------------------------------------------------------------
(* The cache of verified tokens *)

LEMMA Removed ==
  ASSUME NEW S, NEW s \in Seq(S), NEW i \in 1..Len(s)
  PROVE  /\ RemoveAt(s, i) \in Seq(S) /\ Len(RemoveAt(s, i)) = Len(s) - 1
         /\ \A j \in 1..(Len(s) - 1) : RemoveAt(s, i)[j] = IF j < i THEN s[j] ELSE s[j + 1]
<1> DEFINE a == SubSeq(s, 1, i - 1)
           b == SubSeq(s, i + 1, Len(s))
<1>1. a \in Seq(S) /\ Len(a) = i - 1 /\ \A j \in 1..(i - 1) : a[j] = s[j]
  OBVIOUS
<1>2. b \in Seq(S) /\ Len(b) = Len(s) - i /\ \A j \in 1..(Len(s) - i) : b[j] = s[i + j]
  OBVIOUS
<1>3. RemoveAt(s, i) = a \o b
  BY DEF RemoveAt
<1> HIDE DEF a, b
<1>4. \A j \in 1..(Len(s) - 1) : (a \o b)[j] = IF j < i THEN s[j] ELSE s[j + 1]
  <2> SUFFICES ASSUME NEW j \in 1..(Len(s) - 1)
               PROVE  (a \o b)[j] = IF j < i THEN s[j] ELSE s[j + 1]
    OBVIOUS
  <2>1. CASE j < i
    BY <1>1, <1>2, <2>1
  <2>2. CASE j >= i
    <3>1. (a \o b)[j] = b[j - (i - 1)]
      BY <1>1, <1>2, <2>2
    <3>2. j - (i - 1) \in 1..(Len(s) - i) /\ i + (j - (i - 1)) = j + 1
      BY <2>2
    <3> QED
      BY <1>2, <3>1, <3>2, <2>2
  <2>3. j < i \/ j >= i
    OBVIOUS
  <2> QED
    BY <2>1, <2>2, <2>3
<1>5. a \o b \in Seq(S) /\ Len(a \o b) = Len(s) - 1
  <2>1. a \o b \in Seq(S) /\ Len(a \o b) = Len(a) + Len(b)
    BY <1>1, <1>2, ConcatProperties
  <2>2. Len(s) \in Nat /\ i \in Nat
    OBVIOUS
  <2> QED
    BY <2>1, <2>2, <1>1, <1>2
<1> QED
  BY <1>3, <1>4, <1>5

\* Once in the cache, and not more than fit: what a lookup and an insertion leave.
LEMMA CacheStays ==
  ASSUME TypeOK, ShapeInv, NEW t \in Tokens
  PROVE  /\ CacheGet(t) \in Seq(Tokens) /\ IsInjective(CacheGet(t)) /\ Len(CacheGet(t)) <= CacheSize
         /\ CacheSet(t) \in Seq(Tokens) /\ IsInjective(CacheSet(t)) /\ Len(CacheSet(t)) <= CacheSize
<1>1. /\ verified \in Seq(Tokens) /\ IsInjective(verified) /\ Len(verified) <= CacheSize
      /\ Len(verified) \in Nat /\ DOMAIN verified = 1..Len(verified)
  BY DEF TypeOK, ShapeInv
<1>2. ASSUME NEW s \in Seq(Tokens), IsInjective(s), t \notin ToSet(s)
      PROVE  /\ Append(s, t) \in Seq(Tokens) /\ IsInjective(Append(s, t)) /\ Len(Append(s, t)) = Len(s) + 1
  BY <1>2, AppendProperties DEF IsInjective, ToSet
<1>3. CacheGet(t) \in Seq(Tokens) /\ IsInjective(CacheGet(t)) /\ Len(CacheGet(t)) <= CacheSize
  <2>1. CASE t \notin ToSet(verified)
    BY <2>1, <1>1 DEF CacheGet
  <2>2. CASE t \in ToSet(verified)
    <3> DEFINE i == CHOOSE j \in DOMAIN verified : verified[j] = t
               u == Uncached(t)
    <3>1. i \in 1..Len(verified) /\ verified[i] = t
      BY <2>2, <1>1 DEF ToSet
    <3>2. u = RemoveAt(verified, i)
      BY DEF Uncached
    <3> HIDE DEF i
    <3>3. /\ u \in Seq(Tokens) /\ Len(u) = Len(verified) - 1
          /\ \A j \in 1..(Len(verified) - 1) : u[j] = IF j < i THEN verified[j] ELSE verified[j + 1]
      BY <3>1, <3>2, <1>1, Removed
    <3> HIDE DEF u
    <3>4. DOMAIN u = 1..(Len(verified) - 1) /\ \A j \in DOMAIN u : j \in 1..Len(verified) /\ j + 1 \in 1..Len(verified)
      BY <3>3, <3>1, <1>1
    <3>5. IsInjective(u)
      BY <3>1, <3>3, <3>4, <1>1 DEF IsInjective
    <3>6. t \notin ToSet(u)
      <4> SUFFICES ASSUME NEW j \in DOMAIN u, u[j] = t
                   PROVE  FALSE
        BY DEF ToSet
      <4>1. CASE j < i
        BY <4>1, <3>1, <3>3, <3>4, <1>1 DEF IsInjective
      <4>2. CASE ~(j < i)
        BY <4>2, <3>1, <3>3, <3>4, <1>1 DEF IsInjective
      <4> QED
        BY <4>1, <4>2
    <3>7. CacheGet(t) = u \/ CacheGet(t) = Append(u, t)
      BY <2>2 DEF CacheGet, u
    <3>8. Append(u, t) \in Seq(Tokens) /\ IsInjective(Append(u, t)) /\ Len(Append(u, t)) = Len(u) + 1
      BY <3>3, <3>5, <3>6, <1>2
    <3>9. Len(Append(u, t)) = Len(verified) /\ Len(u) <= Len(verified)
      BY <3>3, <3>8, <1>1
    <3>10. Len(u) <= CacheSize /\ Len(Append(u, t)) <= CacheSize
      BY <3>3, <3>9, <1>1, Sizes
    <3>11. CASE CacheGet(t) = u
      BY <3>11, <3>3, <3>5, <3>10, Zenon
    <3>12. CASE CacheGet(t) = Append(u, t)
      BY <3>12, <3>8, <3>10, Zenon
    <3> QED
      BY <3>7, <3>11, <3>12
  <2> QED
    BY <2>1, <2>2
<1>4. CacheSet(t) \in Seq(Tokens) /\ IsInjective(CacheSet(t)) /\ Len(CacheSet(t)) <= CacheSize
  <2> DEFINE kept == IF Len(verified) >= CacheSize THEN Tail(verified) ELSE verified
  <2>1. kept \in Seq(Tokens) /\ IsInjective(kept) /\ Len(kept) \in Nat /\ Len(kept) + 1 <= CacheSize
    <3>1. CASE Len(verified) >= CacheSize
      <4>1. verified # <<>> /\ kept = Tail(verified)
        BY <3>1, <1>1, Sizes
      <4>2. /\ kept \in Seq(Tokens) /\ Len(kept) = Len(verified) - 1
            /\ \A i \in 1..Len(kept) : kept[i] = verified[i + 1]
        BY <4>1, <1>1, HeadTailProperties
      <4> HIDE DEF kept
      <4>3. IsInjective(kept)
        <5> SUFFICES ASSUME NEW i \in 1..Len(kept), NEW j \in 1..Len(kept), kept[i] = kept[j]
                     PROVE  i = j
          BY <4>2 DEF IsInjective
        <5>1. i + 1 \in DOMAIN verified /\ j + 1 \in DOMAIN verified /\ verified[i + 1] = verified[j + 1]
          BY <4>2, <1>1
        <5>2. i + 1 = j + 1
          BY <5>1, <1>1 DEF IsInjective
        <5> QED
          BY <5>2
      <4> QED
        BY <4>2, <4>3, <1>1, Sizes
    <3>2. CASE ~(Len(verified) >= CacheSize)
      BY <3>2, <1>1, Sizes
    <3> QED
      BY <3>1, <3>2
  <2>2. CacheSet(t) = IF t \in ToSet(kept) THEN kept ELSE Append(kept, t)
    BY DEF CacheSet
  <2> HIDE DEF kept
  <2> QED
    BY <2>1, <2>2, <1>2, Sizes
<1> QED
  BY <1>3, <1>4

-----------------------------------------------------------------------------
(* Requests *)

LEMMA Initially ==
  ASSUME Init
  PROVE  IInv
<1> USE DEF Init
<1>1. New \in RequestType /\ New.phase = "new" /\ New.probe = "missing"
  BY DEF New, RequestType, Phases
<1>2. ShapeInv
  <2>1. req \in [Requests -> RequestType]
    <3>1. req = [r \in Requests |-> New]
      OBVIOUS
    <3> HIDE DEF Init
    <3> QED
      BY <3>1, <1>1
  <2> QED
    BY <2>1, GatewayAssumption DEF ShapeInv
<1>3. TypeOK
  <2>1. \A r \in Requests : req[r].phase = "new"
    BY <1>1
  <2>2. IsInjective(verified) /\ Len(verified) <= CacheSize /\ Len(buckets) <= MaxBuckets
    BY Sizes DEF IsInjective
  <2> QED
    BY <2>1, <2>2, Sizes DEF TypeOK
<1>4. RequestInv
  <2>1. \A r \in Requests : req[r] = New
    OBVIOUS
  <2>2. Sound(New)
    BY <1>1 DEF Sound
  <2> QED
    BY <2>1, <2>2 DEF RequestInv
<1>5. WindowInv /\ BucketInv
  BY DEF WindowInv, BucketInv
<1> QED
  BY <1>2, <1>3, <1>4, <1>5 DEF IInv

LEMMA DoneIs ==
  ASSUME NEW q \in RequestType, q.fn \in Functions, NEW status \in Nat, NEW kind \in Kinds \cup {None}
  PROVE  LET d == Done(q, status, kind) IN
         d \in RequestType /\ Sound(d) /\ d.phase = "done" /\ d.code = q.code
<1> DEFINE d == Done(q, status, kind)
           fn == q.fn
           code == q.code
           cause == q.cause
<1>1. fn \in Functions /\ code \in Nat /\ cause \in Causes \cup {None}
  BY DEF RequestType
<1>2. d = [New EXCEPT !.phase = "done", !.fn = fn, !.code = code, !.cause = cause, !.status = status, !.kind = kind]
  BY DEF Done
<1> HIDE DEF fn, code, cause
<1>3. d = [phase |-> "done", fn |-> fn, client |-> None, token |-> None, at |-> 0, probe |-> "missing",
           body |-> FALSE, code |-> code, cause |-> cause, status |-> status, kind |-> kind]
  BY <1>2 DEF New
<1>4. /\ d \in RequestType /\ d.phase = "done" /\ d.fn = fn /\ d.code = code /\ d.probe = "missing"
  BY <1>1, <1>3 DEF RequestType, Phases
<1> HIDE DEF d
<1>5. Sound(d)
  BY <1>1, <1>4 DEF Sound
<1> QED
  BY <1>4, <1>5 DEF d, code

\* What a step may do to the requests: change one that is not done yet into a sound one.
Moves == \E r \in Requests, q \in RequestType :
  Sound(q) /\ req[r].phase # "done" /\ req' = [req EXCEPT ![r] = q]

LEMMA AnswerMoves ==
  ASSUME ShapeInv, RequestInv, NEW r \in Requests, req[r].phase \notin {"new", "done"},
         NEW status \in Nat, NEW kind \in Kinds \cup {None}, Answer(r, status, kind)
  PROVE  Moves
<1>1. req[r] \in RequestType /\ req[r].fn \in Functions
  BY DEF ShapeInv, RequestInv, Sound
<1>2. Done(req[r], status, kind) \in RequestType /\ Sound(Done(req[r], status, kind))
  BY <1>1, DoneIs
<1>3. req' = [req EXCEPT ![r] = Done(req[r], status, kind)]
  BY DEF Answer
<1> QED
  BY <1>2, <1>3 DEF Moves

LEMMA ArriveMoves ==
  ASSUME ShapeInv, RequestInv, NEW r \in Requests, NEW f \in Functions, NEW c \in Clients,
         NEW t \in Tokens \cup {None}, NEW b \in BOOLEAN, Arrive(r, f, c, t, b)
  PROVE  Moves /\ (UNCHANGED verified \/ \E u \in Tokens : verified' = CacheGet(u))
<1> DEFINE q == [New EXCEPT !.fn = f, !.client = c, !.token = t, !.at = now, !.body = b]
<1>1. req[r].phase = "new" /\ now \in Nat
  BY DEF Arrive, ShapeInv
<1>2. /\ q \in RequestType /\ q.phase = "new" /\ q.fn = f /\ q.client = c /\ q.token = t /\ q.at = now
      /\ q.probe = "missing"
  BY <1>1 DEF New, RequestType, Phases
<1> DEFINE limit == [q EXCEPT !.phase = "limit"]
           ok == [q EXCEPT !.phase = "limit", !.probe = "ok"]
           verify == [q EXCEPT !.phase = "verify"]
<1>3. \/ \E status \in {404, 413} : req' = [req EXCEPT ![r] = Done(q, status, None)] /\ UNCHANGED verified
      \/ req' = [req EXCEPT ![r] = limit] /\ UNCHANGED verified
      \/ /\ t # None /\ verified' = CacheGet(t)
         /\ req' = [req EXCEPT ![r] = IF Hit(t) THEN ok ELSE verify]
  BY DEF Arrive
<1> HIDE DEF q
<1>4. ASSUME NEW status \in {404, 413}
      PROVE  Done(q, status, None) \in RequestType /\ Sound(Done(q, status, None))
  BY <1>2, DoneIs
<1>5. limit \in RequestType /\ Sound(limit)
  <2>1. /\ limit \in RequestType /\ limit.phase = "limit" /\ limit.probe = "missing" /\ limit.fn = f
        /\ limit.client = c
    BY <1>2 DEF RequestType, Phases
  <2> QED
    BY <2>1 DEF Sound
<1>6. ASSUME t # None, Hit(t)
      PROVE  ok \in RequestType /\ Sound(ok)
  <2>1. t \in Tokens /\ ExpiresAt[t] > now
    BY <1>6 DEF Hit
  <2>2. /\ ok \in RequestType /\ ok.phase = "limit" /\ ok.probe = "ok" /\ ok.fn = f /\ ok.client = c
        /\ ok.token = t /\ ok.at = now
    BY <1>2 DEF RequestType, Phases
  <2> HIDE DEF ok
  <2> QED
    BY <2>1, <2>2 DEF Sound
<1>7. ASSUME t # None
      PROVE  verify \in RequestType /\ Sound(verify)
  <2>1. /\ verify \in RequestType /\ verify.phase = "verify" /\ verify.probe = "missing" /\ verify.fn = f
        /\ verify.client = c /\ verify.token = t
    BY <1>2 DEF RequestType, Phases
  <2> HIDE DEF verify
  <2> QED
    BY <2>1, <1>7 DEF Sound
<1> HIDE DEF limit, ok, verify
<1>8. Moves
  <2>1. CASE \E status \in {404, 413} : req' = [req EXCEPT ![r] = Done(q, status, None)]
    BY <2>1, <1>1, <1>4, ZenonT(60) DEF Moves
  <2>2. CASE req' = [req EXCEPT ![r] = limit]
    BY <2>2, <1>1, <1>5 DEF Moves
  <2>3. CASE t # None /\ Hit(t) /\ req' = [req EXCEPT ![r] = ok]
    BY <2>3, <1>1, <1>6 DEF Moves
  <2>4. CASE t # None /\ req' = [req EXCEPT ![r] = verify]
    BY <2>4, <1>1, <1>7 DEF Moves
  <2> QED
    BY <2>1, <2>2, <2>3, <2>4, <1>3
<1> QED
  BY <1>3, <1>8

LEMMA VerifiedMoves ==
  ASSUME ShapeInv, RequestInv, NEW r \in Requests, Verified(r)
  PROVE  Moves /\ (UNCHANGED verified \/ \E t \in Tokens : verified' = CacheSet(t))
<1> DEFINE q == req[r]
           ok == [q EXCEPT !.phase = "limit", !.probe = "ok"]
           invalid == [q EXCEPT !.phase = "limit", !.probe = "invalid"]
<1>1. q \in RequestType /\ q.phase = "verify" /\ q.token \in Tokens /\ q.fn \in Functions /\ q.client \in Clients
  BY DEF ShapeInv, RequestInv, Sound, Verified
<1>2. \/ ExpiresAt[q.token] > q.at /\ verified' = CacheSet(q.token) /\ req' = [req EXCEPT ![r] = ok]
      \/ req' = [req EXCEPT ![r] = invalid] /\ UNCHANGED verified
  <2>1. req \in [Requests -> RequestType]
    BY DEF ShapeInv
  <2> QED
    BY <2>1 DEF Verified
<1> HIDE DEF q
<1>3. /\ ok \in RequestType /\ ok.phase = "limit" /\ ok.token = q.token /\ ok.fn = q.fn /\ ok.client = q.client
      /\ ok.at = q.at
      /\ invalid \in RequestType /\ invalid.phase = "limit" /\ invalid.probe = "invalid" /\ invalid.fn = q.fn
      /\ invalid.client = q.client
  BY <1>1 DEF RequestType, Phases
<1> HIDE DEF ok, invalid
<1>4. (ExpiresAt[q.token] > q.at => Sound(ok)) /\ Sound(invalid)
  BY <1>1, <1>3 DEF Sound
<1>5. req[r].phase # "done"
  BY <1>1 DEF q
<1> QED
  BY <1>1, <1>2, <1>3, <1>4, <1>5 DEF Moves

LEMMA SetMoves ==
  ASSUME ShapeInv, RequestInv, NEW r \in Requests, req[r].phase = "limit", Set(r, "admit")
  PROVE  Moves
<1> DEFINE q == [req[r] EXCEPT !.phase = "admit"]
<1>1. req[r] \in RequestType /\ Sound(req[r]) /\ req \in [Requests -> RequestType]
  BY DEF ShapeInv, RequestInv
<1>2. /\ q \in RequestType /\ q.phase = "admit" /\ q.fn = req[r].fn /\ q.client = req[r].client
      /\ q.token = req[r].token /\ q.probe = req[r].probe /\ q.at = req[r].at
  BY <1>1 DEF RequestType, Phases
<1>3. req' = [req EXCEPT ![r] = q]
  BY <1>1 DEF Set
<1> HIDE DEF q
<1>4. Sound(q)
  BY <1>1, <1>2 DEF Sound
<1> QED
  BY <1>2, <1>3, <1>4 DEF Moves

LEMMA ForwardMoves ==
  ASSUME ShapeInv, RequestInv, NEW r \in Requests, req[r].phase = "admit", known[req[r].fn] # 0, Forward(r)
  PROVE  Moves
<1> DEFINE code == known[req[r].fn]
           q == [req[r] EXCEPT !.phase = "run", !.code = code]
<1>1. req[r] \in RequestType /\ Sound(req[r]) /\ req \in [Requests -> RequestType] /\ req[r].fn \in Functions
  BY DEF ShapeInv, RequestInv, Sound
<1>2. code \in Nat \ {0}
  BY <1>1 DEF ShapeInv
<1>3. req' = [req EXCEPT ![r] = q]
  BY <1>1 DEF Forward
<1> HIDE DEF code
<1>4. /\ q \in RequestType /\ q.phase = "run" /\ q.fn = req[r].fn /\ q.client = req[r].client
      /\ q.token = req[r].token /\ q.probe = req[r].probe /\ q.at = req[r].at /\ q.code # 0
  BY <1>1, <1>2 DEF RequestType, Phases
<1> HIDE DEF q
<1>5. Sound(q)
  BY <1>1, <1>4 DEF Sound
<1> QED
  BY <1>3, <1>4, <1>5 DEF Moves

LEMMA AbortMoves ==
  ASSUME ShapeInv, RequestInv, NEW r \in Requests, NEW cause \in Causes, Abort(r, cause)
  PROVE  Moves
<1> DEFINE q == [req[r] EXCEPT !.cause = cause]
<1>1. /\ req[r] \in RequestType /\ Sound(req[r]) /\ req \in [Requests -> RequestType] /\ req[r].phase = "run"
  BY DEF ShapeInv, RequestInv, Abort, Runs
<1>2. /\ q \in RequestType /\ q.phase = "run" /\ q.fn = req[r].fn /\ q.client = req[r].client
      /\ q.token = req[r].token /\ q.probe = req[r].probe /\ q.at = req[r].at /\ q.code = req[r].code
  BY <1>1 DEF RequestType, Phases
<1>3. req' = [req EXCEPT ![r] = q]
  BY <1>1 DEF Abort
<1> HIDE DEF q
<1>4. Sound(q)
  BY <1>1, <1>2 DEF Sound
<1> QED
  BY <1>1, <1>2, <1>3, <1>4 DEF Moves

LEMMA EndMoves ==
  ASSUME ShapeInv, RequestInv, NEW r \in Requests, Respond(r) \/ Fail(r)
  PROVE  /\ Moves /\ req[r].phase = "run" /\ req[r].code # 0 /\ req'[r].phase = "done" /\ req'[r].code # 0
         /\ \E error \in BOOLEAN : Record(req[r].fn, r, req[r].code, error)
<1>1. /\ req[r].phase = "run" /\ req[r] \in RequestType /\ req[r].fn \in Functions /\ req[r].code # 0
      /\ req \in [Requests -> RequestType]
  BY DEF ShapeInv, RequestInv, Sound, Respond, Fail, Runs
<1>2. Caught(r)[1] \in Nat /\ Caught(r)[2] \in Kinds \cup {None}
  <2>1. Caught(r) \in {<<504, "timeout">>, <<408, "body_timeout">>, <<500, "unhandled">>, <<502, None>>}
    BY DEF Caught, CaughtBun, CaughtWorkerd
  <2> QED
    BY <2>1 DEF Kinds
<1>3. \E status \in Nat, kind \in Kinds \cup {None}, error \in BOOLEAN :
        Answer(r, status, kind) /\ Record(req[r].fn, r, req[r].code, error)
  <2>1. CASE Respond(r)
    <3>1. PICK status \in {200, 500} : End(r, status, None, status = 500)
      BY <2>1 DEF Respond
    <3> DEFINE error == (status = 500)
    <3>2. Answer(r, status, None) /\ Record(req[r].fn, r, req[r].code, error)
      BY <3>1 DEF End
    <3>3. error \in BOOLEAN /\ status \in Nat /\ None \in Kinds \cup {None}
      OBVIOUS
    <3> HIDE DEF error
    <3>4. \E e \in BOOLEAN : Record(req[r].fn, r, req[r].code, e)
      BY <3>2, <3>3, Zenon
    <3> QED
      BY <3>2, <3>3, <3>4, Zenon
  <2>2. CASE Fail(r)
    BY <2>2, <1>2 DEF Fail, End
  <2> QED
    BY <2>1, <2>2
<1>4. PICK status \in Nat, kind \in Kinds \cup {None}, error \in BOOLEAN :
        Answer(r, status, kind) /\ Record(req[r].fn, r, req[r].code, error)
  BY <1>3
<1>5. Moves
  BY <1>1, <1>4, AnswerMoves
<1>6. Done(req[r], status, kind).phase = "done" /\ Done(req[r], status, kind).code = req[r].code
  BY <1>1, <1>4, DoneIs
<1>7. req' = [req EXCEPT ![r] = Done(req[r], status, kind)]
  BY <1>4 DEF Answer
<1> QED
  BY <1>1, <1>4, <1>5, <1>6, <1>7

LEMMA RequestsMove ==
  ASSUME IInv, Next
  PROVE  Moves \/ UNCHANGED req
<1>1. ShapeInv /\ RequestInv /\ WindowInv
  BY DEF IInv
<1>2. ASSUME NEW r \in Requests, NEW f \in Functions, NEW c \in Clients, NEW t \in Tokens \cup {None}, NEW b \in BOOLEAN,
             Arrive(r, f, c, t, b)
      PROVE  Moves
  BY <1>1, <1>2, ArriveMoves
<1>3. ASSUME NEW r \in Requests, Verified(r)
      PROVE  Moves
  BY <1>1, <1>3, VerifiedMoves
<1>4. ASSUME NEW r \in Requests, Limit(r)
      PROVE  Moves
  <2>1. req[r].phase = "limit" /\ (Set(r, "admit") \/ Answer(r, 429, None))
    BY <1>4 DEF Limit
  <2>2. 429 \in Nat /\ None \in Kinds \cup {None} /\ req[r].phase \notin {"new", "done"}
    BY <2>1
  <2> QED
    BY <1>1, <2>1, <2>2, SetMoves, AnswerMoves
<1>5. ASSUME NEW r \in Requests, NotUp(r)
      PROVE  Moves
  <2>1. req[r].phase = "admit" /\ (Answer(r, 503, None) \/ Answer(r, 503, "boot"))
    BY <1>5 DEF NotUp
  <2>2. 503 \in Nat /\ {None, "boot"} \subseteq Kinds \cup {None} /\ req[r].phase \notin {"new", "done"}
    BY <2>1 DEF Kinds
  <2> QED
    BY <1>1, <2>1, <2>2, AnswerMoves
<1>6. ASSUME NEW r \in Requests, AdmitBun(r)
      PROVE  Moves
  <2>1. /\ req[r].phase = "admit"
        /\ \/ Answer(r, 404, None) \/ Answer(r, 503, "breaker") \/ Answer(r, 401, None)
           \/ known[req[r].fn] # 0 /\ Forward(r)
    BY <1>6 DEF AdmitBun, Refused
  <2>2. {404, 503, 401} \subseteq Nat /\ {None, "breaker"} \subseteq Kinds \cup {None} /\ req[r].phase \notin {"new", "done"}
    BY <2>1 DEF Kinds
  <2> QED
    BY <1>1, <2>1, <2>2, AnswerMoves, ForwardMoves
<1>7. ASSUME NEW r \in Requests, AdmitWorkerd(r)
      PROVE  Moves
  <2>1. /\ req[r].phase = "admit"
        /\ Answer(r, 503, "breaker") \/ Answer(r, 500, "unhandled") \/ (known[req[r].fn] # 0 /\ Forward(r))
    BY <1>7 DEF AdmitWorkerd, Refused
  <2>2. {500, 503} \subseteq Nat /\ {"unhandled", "breaker"} \subseteq Kinds \cup {None} /\ req[r].phase \notin {"new", "done"}
    BY <2>1 DEF Kinds
  <2> QED
    BY <1>1, <2>1, <2>2, AnswerMoves, ForwardMoves
<1>8. ASSUME NEW r \in Requests, Respond(r) \/ Fail(r)
      PROVE  Moves
  BY <1>1, <1>8, EndMoves
<1>9. ASSUME NEW r \in Requests, NEW cause \in Causes, Abort(r, cause)
      PROVE  Moves
  BY <1>1, <1>9, AbortMoves
<1>10. ASSUME NEW f \in Functions, RemoveFunction(f) \/ Load(f) \/ Leak(f)
       PROVE  UNCHANGED req
  BY <1>10 DEF RemoveFunction, Load, Leak
<1>11. Tick => UNCHANGED req
  BY DEF Tick
<1> QED
  BY <1>2, <1>3, <1>4, <1>5, <1>6, <1>7, <1>8, <1>9, <1>10, <1>11 DEF Next, Causes

\* A request that has ended stays as it is, and every other one stays sound.
LEMMA RequestStep ==
  ASSUME IInv, [Next]_vars
  PROVE  /\ req' \in [Requests -> RequestType] /\ RequestInv'
         /\ \A r \in Requests : req[r].phase = "done" => req'[r] = req[r]
<1>1. req \in [Requests -> RequestType] /\ RequestInv
  BY DEF IInv, ShapeInv
<1>2. CASE UNCHANGED req
  BY <1>1, <1>2 DEF RequestInv, Sound
<1>3. CASE Moves
  <2>1. PICK r \in Requests, q \in RequestType : Sound(q) /\ req[r].phase # "done" /\ req' = [req EXCEPT ![r] = q]
    BY <1>3 DEF Moves
  <2>2. \A x \in Requests : req'[x] = IF x = r THEN q ELSE req[x]
    BY <2>1, <1>1
  <2>3. \A x \in Requests : Sound(req'[x])
    BY <2>1, <2>2, <1>1, Zenon DEF RequestInv
  <2>4. RequestInv'
    BY <2>3 DEF RequestInv, Sound
  <2> QED
    BY <2>1, <2>2, <2>4, <1>1
<1>4. CASE UNCHANGED vars
  BY <1>2, <1>4 DEF vars
<1> QED
  BY <1>2, <1>3, <1>4, RequestsMove

-----------------------------------------------------------------------------
(* The cache and the buckets *)

LEMMA CacheStep ==
  ASSUME IInv, [Next]_vars
  PROVE  verified' \in Seq(Tokens) /\ IsInjective(verified)' /\ Len(verified') <= CacheSize
<1>1. ShapeInv /\ RequestInv /\ TypeOK
  BY DEF IInv
<1>2. UNCHANGED verified \/ \E t \in Tokens : verified' = CacheGet(t) \/ verified' = CacheSet(t)
  <2>1. ASSUME NEW r \in Requests, NEW f \in Functions, NEW c \in Clients, NEW t \in Tokens \cup {None},
               NEW b \in BOOLEAN, Arrive(r, f, c, t, b)
        PROVE  UNCHANGED verified \/ \E u \in Tokens : verified' = CacheGet(u)
    BY <1>1, <2>1, ArriveMoves
  <2>2. ASSUME NEW r \in Requests, Verified(r)
        PROVE  UNCHANGED verified \/ \E t \in Tokens : verified' = CacheSet(t)
    BY <1>1, <2>2, VerifiedMoves
  <2>3. ASSUME NEW r \in Requests, Limit(r) \/ NotUp(r) \/ AdmitBun(r) \/ AdmitWorkerd(r) \/ Respond(r) \/ Fail(r)
        PROVE  UNCHANGED verified
    BY <2>3 DEF Limit, NotUp, AdmitBun, AdmitWorkerd, Respond, Fail, End
  <2>4. ASSUME NEW r \in Requests, NEW cause \in Causes, Abort(r, cause)
        PROVE  UNCHANGED verified
    BY <2>4 DEF Abort
  <2>5. ASSUME NEW f \in Functions, RemoveFunction(f) \/ Load(f) \/ Leak(f)
        PROVE  UNCHANGED verified
    BY <2>5 DEF RemoveFunction, Load, Leak
  <2>6. Tick \/ UNCHANGED vars => UNCHANGED verified
    BY DEF Tick, vars
  <2> QED
    BY <2>1, <2>2, <2>3, <2>4, <2>5, <2>6 DEF Next, Causes
<1>3. CASE UNCHANGED verified
  BY <1>1, <1>3 DEF ShapeInv, TypeOK, IsInjective
<1>4. ASSUME NEW t \in Tokens, verified' = CacheGet(t) \/ verified' = CacheSet(t)
      PROVE  verified' \in Seq(Tokens) /\ IsInjective(verified)' /\ Len(verified') <= CacheSize
  <2>1. verified' \in Seq(Tokens) /\ IsInjective(verified') /\ Len(verified') <= CacheSize
    BY <1>1, <1>4, CacheStays, Zenon
  <2> QED
    BY <2>1 DEF IsInjective
<1> QED
  BY <1>2, <1>3, <1>4

\* What a step leaves of the buckets, at the time of the step.
LEMMA LimitStep ==
  ASSUME IInv, NEW r \in Requests, Limit(r)
  PROVE  /\ buckets' \in Seq(BucketType) /\ Len(buckets') <= MaxBuckets
         /\ \A n \in DOMAIN buckets' : Balanced(buckets'[n], now) /\ Bounded(buckets'[n])
<1>1. /\ ShapeInv /\ TypeOK /\ BucketInv /\ buckets \in Seq(BucketType) /\ Len(buckets) <= MaxBuckets
      /\ req[r] \in RequestType /\ Sound(req[r]) /\ req[r].phase = "limit" /\ now \in Nat
  BY DEF IInv, ShapeInv, TypeOK, RequestInv, Limit
<1>2. CASE Rpm = 0
  <2>1. UNCHANGED buckets
    BY <1>2 DEF Limit
  <2> QED
    BY <2>1, <1>1 DEF BucketInv
<1>3. CASE Rpm # 0
  <2>1. Key(r) \in Keys
    BY <1>1 DEF Sound, Key, Keys
  <2> DEFINE k == Key(r)
             bs == WithBucket(k)
             i == CHOOSE j \in DOMAIN bs : bs[j].key = k
  <2>2. buckets' = IF bs[i].tokens = 0 THEN bs ELSE [bs EXCEPT ![i] = Taken(bs[i])]
    BY <1>3 DEF Limit
  <2> HIDE DEF k
  <2>3. /\ bs \in Seq(BucketType) /\ Len(bs) <= MaxBuckets
        /\ \A n \in DOMAIN bs : Balanced(bs[n], now) /\ Bounded(bs[n])
        /\ \A n \in DOMAIN bs : bs[n].key = k => now - bs[n].last < TicksPerToken
        /\ \E n \in DOMAIN bs : bs[n].key = k
    BY <1>1, <2>1, WithBucketBalanced DEF k
  <2> HIDE DEF bs
  <2>4. i \in DOMAIN bs /\ bs[i].key = k
    BY <2>3
  <2> HIDE DEF i
  <2>5. CASE bs[i].tokens = 0
    BY <2>2, <2>3, <2>5
  <2>6. CASE bs[i].tokens # 0
    <3> DEFINE c == Taken(bs[i])
    <3>1. bs[i] \in BucketType
      BY <2>3, <2>4
    <3>2. c \in BucketType /\ Balanced(c, now) /\ Bounded(c)
      BY <1>1, <2>3, <2>4, <2>6, <3>1, TakenBalanced
    <3>3. buckets' = [bs EXCEPT ![i] = c]
      BY <2>2, <2>6
    <3> HIDE DEF c
    <3>4. i \in 1..Len(bs) /\ DOMAIN bs = 1..Len(bs)
      BY <2>3, <2>4
    <3>5. /\ buckets' \in Seq(BucketType) /\ Len(buckets') = Len(bs) /\ DOMAIN buckets' = DOMAIN bs
          /\ \A n \in DOMAIN bs : buckets'[n] = IF n = i THEN c ELSE bs[n]
      BY <2>3, <3>2, <3>3, <3>4, ExceptSeq
    <3> QED
      BY <2>3, <3>2, <3>5
  <2> QED
    BY <2>5, <2>6
<1> QED
  BY <1>2, <1>3

LEMMA BucketStep ==
  ASSUME IInv, [Next]_vars
  PROVE  buckets' \in Seq(BucketType) /\ Len(buckets') <= MaxBuckets /\ now' \in Nat /\ BucketInv'
<1>1. /\ buckets \in Seq(BucketType) /\ Len(buckets) <= MaxBuckets /\ now \in Nat
      /\ \A n \in DOMAIN buckets : Balanced(buckets[n], now) /\ Bounded(buckets[n])
  BY DEF IInv, ShapeInv, TypeOK, BucketInv
<1>2. ASSUME NEW r \in Requests, Limit(r)
      PROVE  /\ buckets' \in Seq(BucketType) /\ Len(buckets') <= MaxBuckets /\ now' = now
             /\ \A n \in DOMAIN buckets' : Balanced(buckets'[n], now) /\ Bounded(buckets'[n])
  <2>1. now' = now
    BY <1>2 DEF Limit
  <2> QED
    BY <2>1, <1>2, LimitStep
<1>3. (\E r \in Requests : Limit(r)) \/ UNCHANGED buckets
  <2>1. ASSUME NEW r \in Requests, NEW f \in Functions, NEW c \in Clients, NEW t \in Tokens \cup {None},
               NEW b \in BOOLEAN, Arrive(r, f, c, t, b)
        PROVE  UNCHANGED buckets
    BY <2>1 DEF Arrive
  <2>2. ASSUME NEW r \in Requests, Verified(r) \/ NotUp(r) \/ AdmitBun(r) \/ AdmitWorkerd(r) \/ Respond(r) \/ Fail(r)
        PROVE  UNCHANGED buckets
    BY <2>2 DEF Verified, NotUp, AdmitBun, AdmitWorkerd, Respond, Fail, End
  <2>3. ASSUME NEW r \in Requests, NEW cause \in Causes, Abort(r, cause)
        PROVE  UNCHANGED buckets
    BY <2>3 DEF Abort
  <2>4. ASSUME NEW f \in Functions, RemoveFunction(f) \/ Load(f) \/ Leak(f)
        PROVE  UNCHANGED buckets
    BY <2>4 DEF RemoveFunction, Load, Leak
  <2>5. Tick \/ UNCHANGED vars => UNCHANGED buckets
    BY DEF Tick, vars
  <2> QED
    BY <2>1, <2>2, <2>3, <2>4, <2>5 DEF Next, Causes
<1>4. now' = now \/ (now' = now + 1 /\ now' <= MaxTime)
  <2>1. ASSUME NEW r \in Requests, NEW f \in Functions, NEW c \in Clients, NEW t \in Tokens \cup {None},
               NEW b \in BOOLEAN, Arrive(r, f, c, t, b)
        PROVE  now' = now
    BY <2>1 DEF Arrive
  <2>2. ASSUME NEW r \in Requests,
               Verified(r) \/ Limit(r) \/ NotUp(r) \/ AdmitBun(r) \/ AdmitWorkerd(r) \/ Respond(r) \/ Fail(r)
        PROVE  now' = now
    BY <2>2 DEF Verified, Limit, NotUp, AdmitBun, AdmitWorkerd, Respond, Fail, End
  <2>3. ASSUME NEW r \in Requests, NEW cause \in Causes, Abort(r, cause)
        PROVE  now' = now
    BY <2>3 DEF Abort
  <2>4. ASSUME NEW f \in Functions, RemoveFunction(f) \/ Load(f) \/ Leak(f)
        PROVE  now' = now
    BY <2>4 DEF RemoveFunction, Load, Leak
  <2>5. Tick \/ UNCHANGED vars => now' = now \/ (now' = now + 1 /\ now' <= MaxTime)
    BY <1>1, Sizes DEF Tick, vars
  <2> QED
    BY <2>1, <2>2, <2>3, <2>4, <2>5 DEF Next, Causes
<1>5. /\ buckets' \in Seq(BucketType) /\ Len(buckets') <= MaxBuckets
      /\ \A n \in DOMAIN buckets' : Balanced(buckets'[n], now) /\ Bounded(buckets'[n])
  BY <1>1, <1>2, <1>3
<1>6. now' \in Nat /\ now <= now'
  BY <1>1, <1>4
<1>7. ASSUME NEW n \in DOMAIN buckets'
      PROVE  Balanced(buckets'[n], now') /\ Bounded(buckets'[n])
  <2> DEFINE b == buckets'[n]
  <2>1. b \in BucketType /\ Balanced(b, now) /\ Bounded(b)
    BY <1>5
  <2> HIDE DEF b
  <2>2. b.last \in Nat /\ \A i \in DOMAIN b.granted : b.granted[i] \in Nat
    BY <2>1, BucketFields
  <2>3. Balanced(b, now')
    BY <1>1, <1>6, <2>1, <2>2 DEF Balanced
  <2> QED
    BY <2>1, <2>3 DEF b
<1>8. BucketInv'
  BY <1>7 DEF BucketInv, Balanced, Bounded
<1> QED
  BY <1>5, <1>6, <1>8

-----------------------------------------------------------------------------
(* The breaker *)

LEMMA SlidIs ==
  ASSUME NEW w \in Seq(OutcomeType), Len(w) <= ErrorWindow, NEW o \in OutcomeType
  PROVE  LET v == Slid(Append(w, o)) IN
         /\ v \in Seq(OutcomeType) /\ Len(v) \in Nat \ {0} /\ Len(v) <= ErrorWindow /\ v[Len(v)] = o
         /\ \E d \in {0, 1} : \A i \in 1..(Len(v) - 1) : i + d \in DOMAIN w /\ v[i] = w[i + d]
<1> DEFINE a == Append(w, o)
           v == Slid(a)
<1>1. /\ a \in Seq(OutcomeType) /\ Len(a) = Len(w) + 1 /\ a[Len(w) + 1] = o /\ Len(w) \in Nat
      /\ \A i \in 1..Len(w) : a[i] = w[i]
  BY AppendProperties
<1>2. DOMAIN w = 1..Len(w)
  OBVIOUS
<1> HIDE DEF a
<1>3. CASE Len(a) > ErrorWindow
  <2>1. v = Tail(a) /\ a # <<>> /\ Len(w) = ErrorWindow
    BY <1>3, <1>1, Sizes DEF Slid
  <2>2. v \in Seq(OutcomeType) /\ Len(v) = Len(w) /\ \A i \in 1..Len(v) : v[i] = a[i + 1]
    BY <2>1, <1>1, HeadTailProperties
  <2> HIDE DEF v
  <2>3. Len(v) \in 1..Len(v) /\ v[Len(v)] = o
    BY <2>1, <2>2, <1>1, Sizes
  <2>4. \A i \in 1..(Len(v) - 1) : i + 1 \in DOMAIN w /\ v[i] = w[i + 1]
    BY <2>2, <1>1, <1>2
  <2> QED
    BY <2>1, <2>2, <2>3, <2>4, Sizes DEF v, a
<1>4. CASE ~(Len(a) > ErrorWindow)
  <2>1. v = a
    BY <1>4 DEF Slid
  <2> HIDE DEF v
  <2>2. \A i \in 1..(Len(v) - 1) : i + 0 \in DOMAIN w /\ v[i] = w[i + 0]
    BY <2>1, <1>1, <1>2
  <2> QED
    BY <2>1, <2>2, <1>1, <1>4, Sizes DEF v, a
<1> QED
  BY <1>3, <1>4

\* A breaker that trips does so on a full window of enough errors.
Trips == \A f \in Functions : openedAt[f] = None /\ openedAt'[f] # None =>
  Len(window'[f]) >= ErrorWindow /\ Errors(window'[f]) >= ErrorLimit

\* What TypeOK and ShapeInv say of the supervisor.
SupervisorTyped ==
  /\ window \in [Functions -> Seq(OutcomeType)] /\ \A f \in Functions : Len(window[f]) <= ErrorWindow
  /\ openedAt \in [Functions -> 0..MaxTime \cup {None}]

LEMMA ClearKeeps ==
  ASSUME IInv, NEW f \in Functions,
         window' = [window EXCEPT ![f] = <<>>] \/ UNCHANGED window,
         openedAt' = [openedAt EXCEPT ![f] = None] \/ UNCHANGED openedAt,
         \A r \in Requests : req[r].phase = "done" => req'[r] = req[r]
  PROVE  SupervisorTyped' /\ WindowInv' /\ Trips
<1>1. /\ window \in [Functions -> Seq(OutcomeType)] /\ openedAt \in [Functions -> 0..MaxTime \cup {None}]
      /\ \A g \in Functions : Len(window[g]) <= ErrorWindow
  BY DEF IInv, TypeOK, ShapeInv
<1>2. \A g \in Functions : window'[g] = window[g] \/ window'[g] = <<>>
  BY <1>1
<1>3. \A g \in Functions : openedAt'[g] = openedAt[g] \/ openedAt'[g] = None
  BY <1>1
<1>4. window' \in [Functions -> Seq(OutcomeType)] /\ openedAt' \in [Functions -> 0..MaxTime \cup {None}]
  <2>1. <<>> \in Seq(OutcomeType) /\ None \in 0..MaxTime \cup {None}
    OBVIOUS
  <2>2. window' \in [Functions -> Seq(OutcomeType)]
    BY <2>1, <1>1
  <2>3. openedAt' \in [Functions -> 0..MaxTime \cup {None}]
    BY <2>1, <1>1
  <2> QED
    BY <2>2, <2>3
<1>5. WindowInv'
  BY <1>2 DEF IInv, WindowInv
<1>6. SupervisorTyped'
  BY <1>1, <1>2, <1>4, Sizes DEF SupervisorTyped
<1> QED
  BY <1>3, <1>5, <1>6 DEF Trips

LEMMA RecordKeeps ==
  ASSUME IInv, NEW f \in Functions, NEW r \in Requests \cup {None}, NEW code \in Nat, NEW error \in BOOLEAN,
         Record(f, r, code, error),
         \A x \in Requests : req[x].phase = "done" => req'[x] = req[x],
         r # None => req[r].phase # "done" /\ req'[r].phase = "done" /\ req'[r].code # 0
  PROVE  SupervisorTyped' /\ WindowInv' /\ Trips
<1>1. /\ window \in [Functions -> Seq(OutcomeType)] /\ openedAt \in [Functions -> 0..MaxTime \cup {None}]
      /\ \A g \in Functions : Len(window[g]) <= ErrorWindow
      /\ now \in 0..MaxTime
  BY DEF IInv, TypeOK, ShapeInv
<1>2. CASE f \notin manifests
  <2>1. UNCHANGED <<window, openedAt>>
    BY <1>2 DEF Record
  <2> QED
    BY <2>1, ClearKeeps
<1>3. CASE f \in manifests
  <2> DEFINE o == [req |-> r, code |-> code, error |-> error]
             v == Slid(Append(window[f], o))
  <2>1. o \in OutcomeType /\ o.req = r
    BY DEF OutcomeType
  <2>2. /\ window' = [window EXCEPT ![f] = v]
        /\ \/ /\ openedAt' = [openedAt EXCEPT ![f] = now]
              /\ Len(v) >= ErrorWindow /\ Errors(v) >= ErrorLimit
           \/ UNCHANGED openedAt
    BY <1>3 DEF Record
  <2> HIDE DEF o
  <2>3. /\ v \in Seq(OutcomeType) /\ Len(v) \in Nat \ {0} /\ Len(v) <= ErrorWindow /\ v[Len(v)] = o
        /\ \E d \in {0, 1} : \A i \in 1..(Len(v) - 1) : i + d \in DOMAIN window[f] /\ v[i] = window[f][i + d]
    <3>1. window[f] \in Seq(OutcomeType) /\ Len(window[f]) <= ErrorWindow
      BY <1>1
    <3> QED
      BY <2>1, <3>1, SlidIs
  <2> HIDE DEF v
  <2>4. PICK d \in {0, 1} : \A i \in 1..(Len(v) - 1) : i + d \in DOMAIN window[f] /\ v[i] = window[f][i + d]
    BY <2>3
  <2>5. \A g \in Functions : window'[g] = IF g = f THEN v ELSE window[g]
    BY <2>2, <1>1
  <2>6. SupervisorTyped'
    <3>1. window' \in [Functions -> Seq(OutcomeType)] /\ openedAt' \in [Functions -> 0..MaxTime \cup {None}]
      BY <2>2, <2>3, <1>1
    <3>2. \A g \in Functions : Len(window'[g]) <= ErrorWindow
      BY <2>3, <2>5, <1>1
    <3> QED
      BY <3>1, <3>2 DEF SupervisorTyped
  <2>7. Trips
    <3> SUFFICES ASSUME NEW g \in Functions, openedAt[g] = None, openedAt'[g] # None
                 PROVE  Len(window'[g]) >= ErrorWindow /\ Errors(window'[g]) >= ErrorLimit
      BY DEF Trips
    <3>1. g = f /\ Len(v) >= ErrorWindow /\ Errors(v) >= ErrorLimit
      BY <2>2, <1>1
    <3>2. window'[g] = v
      BY <3>1, <2>5
    <3> QED
      BY <3>1, <3>2
  <2>8. WindowInv'
    <3>1. \A g \in Functions : \A i \in DOMAIN window[g] : window[g][i].req # None =>
            /\ window[g][i].req \in Requests
            /\ req[window[g][i].req].phase = "done"
            /\ req'[window[g][i].req].phase = "done" /\ req'[window[g][i].req].code # 0
            /\ \A j \in DOMAIN window[g] : j # i => window[g][j].req # window[g][i].req
      BY DEF IInv, WindowInv
    <3>2. ASSUME NEW g \in Functions, NEW i \in DOMAIN window'[g], window'[g][i].req # None
          PROVE  /\ window'[g][i].req \in Requests
                 /\ req'[window'[g][i].req].phase = "done" /\ req'[window'[g][i].req].code # 0
                 /\ \A j \in DOMAIN window'[g] : j # i => window'[g][j].req # window'[g][i].req
      <4>1. CASE g # f
        BY <4>1, <3>1, <3>2, <2>5
      <4>2. CASE g = f
        <5>1. window'[g] = v /\ DOMAIN v = 1..Len(v)
          BY <4>2, <2>3, <2>5
        <5>2. \A k \in 1..Len(v) : k = Len(v) \/ k \in 1..(Len(v) - 1)
          BY <2>3
        <5>3. \A k \in 1..(Len(v) - 1) : v[k].req # None =>
                /\ v[k].req \in Requests /\ req[v[k].req].phase = "done"
                /\ req'[v[k].req].phase = "done" /\ req'[v[k].req].code # 0
          BY <2>4, <3>1
        <5>4. \A k, l \in 1..(Len(v) - 1) : k # l /\ v[k].req # None => v[l].req # v[k].req
          <6> SUFFICES ASSUME NEW k \in 1..(Len(v) - 1), NEW l \in 1..(Len(v) - 1), k # l, v[k].req # None
                       PROVE  v[l].req # v[k].req
            OBVIOUS
          <6>1. /\ k + d \in DOMAIN window[f] /\ l + d \in DOMAIN window[f] /\ k + d # l + d
                /\ v[k] = window[f][k + d] /\ v[l] = window[f][l + d]
            BY <2>3, <2>4
          <6> QED
            BY <6>1, <3>1
        <5>5. v[Len(v)].req = r
          BY <2>1, <2>3
        <5>6. r # None => \A k \in 1..(Len(v) - 1) : v[k].req # r
          BY <5>3
        <5>7. i \in 1..Len(v) /\ v[i].req # None
          BY <5>1, <3>2
        <5>8. CASE i = Len(v)
          BY <5>1, <5>2, <5>5, <5>6, <5>7, <5>8
        <5>9. CASE i \in 1..(Len(v) - 1)
          <6>1. \A j \in 1..Len(v) : j # i => v[j].req # v[i].req
            <7> SUFFICES ASSUME NEW j \in 1..Len(v), j # i
                         PROVE  v[j].req # v[i].req
              OBVIOUS
            <7>1. CASE j = Len(v)
              BY <7>1, <5>5, <5>6, <5>7, <5>9
            <7>2. CASE j \in 1..(Len(v) - 1)
              BY <7>2, <5>4, <5>7, <5>9
            <7> QED
              BY <7>1, <7>2, <5>2
          <6> QED
            BY <6>1, <5>1, <5>3, <5>7, <5>9
        <5> QED
          BY <5>2, <5>7, <5>8, <5>9
      <4> QED
        BY <4>1, <4>2
    <3> QED
      BY <3>2 DEF WindowInv
  <2> QED
    BY <2>6, <2>7, <2>8
<1> QED
  BY <1>2, <1>3

LEMMA BreakerStep ==
  ASSUME IInv, [Next]_vars
  PROVE  SupervisorTyped' /\ WindowInv' /\ Trips
<1>1. /\ ShapeInv /\ TypeOK /\ RequestInv
      /\ \A r \in Requests : req[r].phase = "done" => req'[r] = req[r]
  BY RequestStep DEF IInv
<1>2. ASSUME UNCHANGED <<window, openedAt>>
      PROVE  SupervisorTyped' /\ WindowInv' /\ Trips
  <2>1. /\ window \in [Functions -> Seq(OutcomeType)] /\ openedAt \in [Functions -> 0..MaxTime \cup {None}]
        /\ \A g \in Functions : Len(window[g]) <= ErrorWindow
    BY <1>1 DEF TypeOK, ShapeInv
  <2> QED
    BY <1>1, <1>2, <2>1 DEF SupervisorTyped, Trips, IInv, WindowInv
<1>3. ASSUME NEW f \in Functions, Admitted(f)
      PROVE  SupervisorTyped' /\ WindowInv' /\ Trips
  BY <1>1, <1>3, ClearKeeps DEF Admitted
<1>4. ASSUME NEW r \in Requests, NEW f \in Functions, NEW c \in Clients, NEW t \in Tokens \cup {None}, NEW b \in BOOLEAN,
             Arrive(r, f, c, t, b)
      PROVE  SupervisorTyped' /\ WindowInv' /\ Trips
  BY <1>2, <1>4 DEF Arrive, supervisor
<1>5. ASSUME NEW r \in Requests, Verified(r) \/ Limit(r) \/ NotUp(r)
      PROVE  SupervisorTyped' /\ WindowInv' /\ Trips
  BY <1>2, <1>5 DEF Verified, Limit, NotUp, supervisor
<1>6. ASSUME NEW r \in Requests, AdmitBun(r) \/ AdmitWorkerd(r)
      PROVE  SupervisorTyped' /\ WindowInv' /\ Trips
  <2>1. req[r].fn \in Functions
    BY <1>1, <1>6 DEF RequestInv, Sound, AdmitBun, AdmitWorkerd
  <2>2. Admitted(req[r].fn) \/ UNCHANGED <<window, openedAt>>
    BY <1>6 DEF AdmitBun, AdmitWorkerd, Refused
  <2> QED
    BY <2>1, <2>2, <1>2, <1>3
<1>7. ASSUME NEW r \in Requests, Respond(r) \/ Fail(r)
      PROVE  SupervisorTyped' /\ WindowInv' /\ Trips
  <2>1. /\ req[r].phase = "run" /\ req'[r].phase = "done" /\ req'[r].code # 0
        /\ \E error \in BOOLEAN : Record(req[r].fn, r, req[r].code, error)
    BY <1>1, <1>7, EndMoves
  <2>2. req[r].fn \in Functions /\ req[r].code \in Nat
    BY <1>1, <2>1 DEF ShapeInv, RequestInv, Sound, RequestType
  <2>3. PICK error \in BOOLEAN : Record(req[r].fn, r, req[r].code, error)
    BY <2>1
  <2>4. r \in Requests \cup {None} /\ req[r].phase # "done"
    BY <2>1
  <2> QED
    BY <2>1, <2>2, <2>3, <2>4, <1>1, RecordKeeps
<1>8. ASSUME NEW r \in Requests, NEW cause \in Causes, Abort(r, cause)
      PROVE  SupervisorTyped' /\ WindowInv' /\ Trips
  BY <1>2, <1>8 DEF Abort, supervisor
<1>9. ASSUME NEW f \in Functions, RemoveFunction(f) \/ Load(f)
      PROVE  SupervisorTyped' /\ WindowInv' /\ Trips
  <2>1. \/ window' = [window EXCEPT ![f] = <<>>] /\ openedAt' = [openedAt EXCEPT ![f] = None]
        \/ UNCHANGED <<window, openedAt>>
    BY <1>9 DEF RemoveFunction, Load, Forget
  <2> QED
    BY <2>1, <1>1, ClearKeeps
<1>10. ASSUME NEW f \in Functions, Leak(f)
       PROVE  SupervisorTyped' /\ WindowInv' /\ Trips
  <2>1. Record(f, None, known[f], TRUE) /\ known[f] \in Nat /\ TRUE \in BOOLEAN /\ None \in Requests \cup {None}
    BY <1>1, <1>10 DEF Leak, ShapeInv
  <2> QED
    BY <2>1, <1>1, RecordKeeps
<1>11. ASSUME Tick \/ UNCHANGED vars
       PROVE  SupervisorTyped' /\ WindowInv' /\ Trips
  BY <1>2, <1>11 DEF Tick, vars, supervisor
<1> QED
  BY <1>4, <1>5, <1>6, <1>7, <1>8, <1>9, <1>10, <1>11 DEF Next, Causes

\* The variables that are only counted or set.
LEMMA CounterStep ==
  ASSUME IInv, [Next]_vars
  PROVE  /\ backend' = backend /\ now' \in 0..MaxTime /\ events' \in 0..MaxEvents
         /\ known' \in [Functions -> 0..(MaxEvents + 1)] /\ manifests' \subseteq Functions
<1>1. TypeOK /\ now \in 0..MaxTime /\ events \in 0..MaxEvents
  BY DEF IInv, TypeOK
<1>2. ASSUME UNCHANGED <<backend, now, events, known, manifests>>
      PROVE  /\ backend' = backend /\ now' \in 0..MaxTime /\ events' \in 0..MaxEvents
             /\ known' \in [Functions -> 0..(MaxEvents + 1)] /\ manifests' \subseteq Functions
  BY <1>1, <1>2 DEF TypeOK
<1>3. ASSUME NEW r \in Requests, NEW f \in Functions, NEW c \in Clients, NEW t \in Tokens \cup {None}, NEW b \in BOOLEAN,
             Arrive(r, f, c, t, b)
      PROVE  UNCHANGED <<backend, now, events, known, manifests>>
  BY <1>3 DEF Arrive, supervisor
<1>4. ASSUME NEW r \in Requests,
             Verified(r) \/ Limit(r) \/ NotUp(r) \/ AdmitBun(r) \/ AdmitWorkerd(r) \/ Respond(r) \/ Fail(r)
      PROVE  UNCHANGED <<backend, now, events, known, manifests>>
  BY <1>4 DEF Verified, Limit, NotUp, AdmitBun, AdmitWorkerd, Respond, Fail, End, supervisor
<1>5. ASSUME NEW r \in Requests, NEW cause \in Causes, Abort(r, cause)
      PROVE  UNCHANGED <<backend, now, events, known, manifests>>
  BY <1>5 DEF Abort, supervisor
<1>6. ASSUME NEW f \in Functions, RemoveFunction(f) \/ Load(f) \/ Leak(f)
      PROVE  /\ backend' = backend /\ now' = now /\ events' \in 0..MaxEvents
             /\ known' \in [Functions -> 0..(MaxEvents + 1)] /\ manifests' \subseteq Functions
  <2>1. events' = events + 1 /\ events < MaxEvents /\ backend' = backend /\ now' = now
    BY <1>6 DEF RemoveFunction, Load, Leak, Event
  <2>2. events' \in 0..MaxEvents /\ events + 2 \in 0..(MaxEvents + 1) /\ 0 \in 0..(MaxEvents + 1)
    BY <2>1, <1>1, Sizes
  <2>3. known' = [known EXCEPT ![f] = 0] \/ known' = [known EXCEPT ![f] = events + 2] \/ known' = known
    BY <1>6 DEF RemoveFunction, Load, Leak
  <2>4. manifests' \subseteq manifests \cup {f}
    BY <1>6 DEF RemoveFunction, Load, Leak, Forget
  <2>5. known \in [Functions -> 0..(MaxEvents + 1)] /\ manifests \subseteq Functions
    BY <1>1 DEF TypeOK
  <2>6. known' \in [Functions -> 0..(MaxEvents + 1)]
    BY <2>2, <2>3, <2>5
  <2> QED
    BY <2>1, <2>2, <2>4, <2>5, <2>6
<1>7. ASSUME Tick
      PROVE  UNCHANGED <<backend, events, known, manifests>> /\ now' \in 0..MaxTime
  BY <1>1, <1>7, Sizes DEF Tick, supervisor
<1>8. UNCHANGED vars => UNCHANGED <<backend, now, events, known, manifests>>
  BY DEF vars, supervisor
<1>9. \/ UNCHANGED <<backend, now, events, known, manifests>>
      \/ \E f \in Functions : RemoveFunction(f) \/ Load(f) \/ Leak(f)
      \/ Tick
  BY <1>3, <1>4, <1>5, <1>8 DEF Next, Causes
<1>10. known \in [Functions -> 0..(MaxEvents + 1)] /\ manifests \subseteq Functions
  BY <1>1 DEF TypeOK
<1> QED
  BY <1>1, <1>2, <1>6, <1>7, <1>9, <1>10

-----------------------------------------------------------------------------
(* The theorems *)

LEMMA NextIInv ==
  ASSUME IInv, [Next]_vars
  PROVE  IInv'
<1>1. /\ req' \in [Requests -> RequestType] /\ RequestInv'
      /\ verified' \in Seq(Tokens) /\ IsInjective(verified)' /\ Len(verified') <= CacheSize
      /\ buckets' \in Seq(BucketType) /\ Len(buckets') <= MaxBuckets /\ now' \in Nat /\ BucketInv'
      /\ SupervisorTyped' /\ WindowInv'
      /\ backend' = backend /\ now' \in 0..MaxTime /\ events' \in 0..MaxEvents
      /\ known' \in [Functions -> 0..(MaxEvents + 1)] /\ manifests' \subseteq Functions
  BY RequestStep, CacheStep, BucketStep, BreakerStep, CounterStep
<1>2. ShapeInv'
  <2>1. backend' \in {"bun", "workerd"} /\ events' \in Nat
    BY <1>1, Sizes DEF IInv, ShapeInv
  <2>2. known' \in [Functions -> Nat]
    BY <1>1
  <2> QED
    BY <1>1, <2>1, <2>2 DEF ShapeInv, SupervisorTyped
<1>3. TypeOK'
  <2>1. \A n \in DOMAIN buckets' : buckets'[n].tokens \in 0..Rpm
    <3>1. ASSUME NEW n \in DOMAIN buckets'
          PROVE  buckets'[n].tokens \in 0..Rpm
      <4>1. buckets'[n] \in BucketType /\ buckets'[n].tokens <= Rpm
        BY <1>1 DEF BucketInv, Balanced
      <4> QED
        BY <4>1, Sizes DEF BucketType
    <3> QED
      BY <3>1
  <2>2. \A r \in Requests : req'[r].phase \in {"new", "verify", "limit", "admit", "run", "done"}
    BY <1>1 DEF RequestType, Phases
  <2>3. backend' \in Backends
    BY <1>1 DEF IInv, TypeOK
  <2> QED
    BY <1>1, <2>1, <2>2, <2>3 DEF TypeOK, SupervisorTyped
<1> QED
  BY <1>1, <1>2, <1>3 DEF IInv

\* The types, what is known of a request where it is, the windows of the breakers and the
\* accounts of the buckets hold together in every reachable state.
THEOREM Inductive == Spec => []IInv
<1>1. Init => IInv
  BY Initially
<1> QED
  BY <1>1, NextIInv, PTL DEF Spec

\* For any number of clients, tokens, functions, buckets and requests: in any stretch of
\* time a bucket grants no more than it holds and what flows in meanwhile, and a token is
\* accepted only if it had not expired when its request came (rate-limit.ts, auth.ts).
THEOREM OnlyByTheRules == Spec => []AdmittedByTheRules
<1>1. IInv => AdmittedByTheRules
  <2> SUFFICES ASSUME IInv
               PROVE  AdmittedByTheRules
    OBVIOUS
  <2>1. RateBound
    <3>1. \A n \in DOMAIN buckets : Bounded(buckets[n])
      BY DEF IInv, BucketInv
    <3> QED
      BY <3>1 DEF RateBound, Bounded, Ceil
  <2>2. AcceptedTokensAreLive
    BY DEF IInv, RequestInv, Sound, AcceptedTokensAreLive
  <2> QED
    BY <2>1, <2>2 DEF IInv, AdmittedByTheRules
<1> QED
  BY <1>1, Inductive, PTL

\* For any window and rate: a breaker trips only on a full window, with at least the errors
\* that its rate asks for, each outcome in it of another request that reached the function,
\* or of a rejection it leaked (supervisor.ts, record; whatever is reloaded or removed).
THEOREM TripsOnFailures == Spec => BreakerTripsOnFailures
<1>1. IInv /\ [Next]_vars => [\A f \in Functions : openedAt[f] = None /\ openedAt'[f] # None =>
       LET w == window'[f] IN
       /\ Len(w) = ErrorWindow /\ Errors(w) >= ErrorLimit
       /\ \A i \in DOMAIN w : w[i].req # None =>
            /\ req'[w[i].req].code # 0
            /\ \A j \in DOMAIN w : j # i => w[j].req # w[i].req]_vars
  <2> SUFFICES ASSUME IInv, [Next]_vars, NEW f \in Functions, openedAt[f] = None, openedAt'[f] # None
               PROVE  /\ Len(window'[f]) = ErrorWindow /\ Errors(window'[f]) >= ErrorLimit
                      /\ \A i \in DOMAIN window'[f] : window'[f][i].req # None =>
                           /\ req'[window'[f][i].req].code # 0
                           /\ \A j \in DOMAIN window'[f] : j # i => window'[f][j].req # window'[f][i].req
    OBVIOUS
  <2>1. SupervisorTyped' /\ WindowInv' /\ Trips
    BY BreakerStep
  <2>2. Len(window'[f]) >= ErrorWindow /\ Errors(window'[f]) >= ErrorLimit
    BY <2>1 DEF Trips
  <2>3. window'[f] \in Seq(OutcomeType) /\ Len(window'[f]) <= ErrorWindow
    BY <2>1 DEF SupervisorTyped
  <2>4. Len(window'[f]) = ErrorWindow
    BY <2>2, <2>3, Sizes
  <2> QED
    BY <2>1, <2>2, <2>4 DEF WindowInv
<1> QED
  BY <1>1, Inductive, PTL DEF Spec, BreakerTripsOnFailures

=============================================================================
