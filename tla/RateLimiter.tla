----------------------------- MODULE RateLimiter ------------------------------
(***************************************************************************)
(* security/rate_limit.py as SecurityMiddleware drives it: one check per   *)
(* request, on the event loop, so a check is one step.  A bucket is made   *)
(* at a client's first request and refilled lazily, when it is next asked; *)
(* once the map is over MapLimit, a check drops the buckets that nobody    *)
(* has asked for Ttl ticks.                                                *)
(*                                                                         *)
(* Tokens are floats in the code; here they are whole units, of which one  *)
(* request costs Unit and Rate come back per tick.                         *)
(***************************************************************************)
EXTENDS Integers, FiniteSets

CONSTANTS
    Keys,      \* clients (host:port of the TCP peer)
    Rate,      \* units that come back per tick
    Unit,      \* units one request costs
    Burst,     \* requests a full bucket pays for
    Ttl,       \* ticks after which an idle bucket may go
    MapLimit,  \* map size above which a check sweeps (1024)
    Second,    \* ticks per second, the grain of the Retry-After header
    MaxClock   \* bound: ticks of a behaviour

Capacity == Burst * Unit

(* The last conjunct is about the values an operator gives, which no code  *)
(* checks: an idle bucket is full again before it may be dropped.  With    *)
(* the defaults (10 per second, burst 20, 300 seconds) it holds by far.    *)
ASSUME RateLimiterAssumption ==
    /\ Rate \in Nat \ {0}
    /\ Unit \in Nat \ {0}
    /\ Burst \in Nat \ {0}
    /\ Ttl \in Nat
    /\ MapLimit \in Nat
    /\ Second \in Nat \ {0}
    /\ MaxClock \in Nat
    /\ Capacity <= Ttl * Rate

VARIABLES
    clock,    \* time.monotonic(), in ticks
    tracked,  \* the keys of _buckets
    bucket,   \* their buckets, with the time of the last check
    passed,   \* requests admitted so far, per client
    answer,   \* the answer of this tick's last request, if any
    promise   \* when the last refused request of a client was told to retry

vars == <<clock, tracked, bucket, passed, answer, promise>>

Least(a, b) == IF a <= b THEN a ELSE b

NoAnswer == <<>>
Answer(k, allowed) == <<k, allowed>>
NoPromise == -1

(* TokenBucket.__init__: a new bucket is full.                             *)
NewBucket == [tokens |-> Capacity, refilled |-> clock, access |-> clock]

(* What stands in for the bucket of a client that has none.                *)
NoBucket == [tokens |-> Capacity, refilled |-> 0, access |-> 0]

(* Deviations: the elapsed time is added twice by not moving last_refill;  *)
(* the bucket overflows.                                                   *)
RefillInPlace(b) ==
    [b EXCEPT !.tokens = Least(Capacity, @ + (clock - b.refilled) * Rate)]
RefillUncapped(b) ==
    [b EXCEPT !.tokens = @ + (clock - b.refilled) * Rate, !.refilled = clock]

(* _refill_locked.                                                         *)
Refill(b) ==
    [b EXCEPT !.tokens = Least(Capacity, @ + (clock - b.refilled) * Rate),
              !.refilled = clock]

(* The bucket a check works on.                                            *)
Found(k) == IF k \in tracked THEN bucket[k] ELSE NewBucket

(* Deviations: a sweep that forgets the age; one that waits too long.      *)
SweepAll(keys, table) ==
    IF Cardinality(keys) <= MapLimit THEN keys
    ELSE {k \in keys : table[k].access = clock}
SweepLate(keys, table) ==
    IF Cardinality(keys) <= MapLimit + 1 THEN keys
    ELSE {k \in keys : clock - table[k].access <= Ttl}

(* _evict_stale_locked: the keys that stay.                                *)
Sweep(keys, table) ==
    IF Cardinality(keys) <= MapLimit THEN keys
    ELSE {k \in keys : clock - table[k].access <= Ttl}

(* The bucket of k becomes b, its access time is now, and the map is swept. *)
Store(k, b) ==
    LET table == [bucket EXCEPT ![k] = [b EXCEPT !.access = clock]]
        kept  == Sweep(tracked \cup {k}, table)
    IN  /\ tracked' = kept
        /\ bucket' = [q \in Keys |-> IF q \in kept THEN table[q] ELSE NoBucket]

(* Deviation: the header is rounded down.                                  *)
RetryAfterFloor(tokens) == ((Unit - tokens) \div (Rate * Second)) * Second

(* The Retry-After header, int(deficit / rate) + 1 seconds, in ticks.      *)
RetryAfter(tokens) == ((Unit - tokens) \div (Rate * Second) + 1) * Second

-------------------------------------------------------------------------------
Init ==
    /\ clock = 0
    /\ tracked = {}
    /\ bucket = [k \in Keys |-> NoBucket]
    /\ passed = [k \in Keys |-> 0]
    /\ answer = NoAnswer
    /\ promise = [k \in Keys |-> NoPromise]

Tick ==
    /\ clock < MaxClock
    /\ clock' = clock + 1
    /\ answer' = NoAnswer
    /\ UNCHANGED <<tracked, bucket, passed, promise>>

(* check() answers (True, 0.0) and the request goes on to the application. *)
Admit(k) ==
    LET b == Refill(Found(k)) IN
    /\ b.tokens >= Unit
    /\ Store(k, [b EXCEPT !.tokens = @ - Unit])
    /\ passed' = [passed EXCEPT ![k] = @ + 1]
    /\ answer' = Answer(k, TRUE)
    /\ promise' = [promise EXCEPT ![k] = NoPromise]
    /\ UNCHANGED clock

(* check() answers (False, retry_after) and the client gets a 429.         *)
Refuse(k) ==
    LET b == Refill(Found(k)) IN
    /\ b.tokens < Unit
    /\ Store(k, b)
    /\ answer' = Answer(k, FALSE)
    /\ promise' = [promise EXCEPT ![k] = clock + RetryAfter(b.tokens)]
    /\ UNCHANGED <<clock, passed>>

Next == Tick \/ \E k \in Keys : Admit(k) \/ Refuse(k)

Spec == Init /\ [][Next]_vars

-------------------------------------------------------------------------------
(* Properties.                                                             *)

(* Every variable keeps its shape.                                         *)
TypeOK ==
    /\ clock \in 0..MaxClock
    /\ tracked \subseteq Keys
    /\ bucket \in [Keys -> [tokens : 0..Capacity,
                            refilled : 0..MaxClock, access : 0..MaxClock]]
    /\ passed \in [Keys -> Nat]
    /\ answer \in {NoAnswer} \cup (Keys \X BOOLEAN)
    /\ promise \in [Keys -> Nat \cup {NoPromise}]

(* The tokens a client would be found to have now.                         *)
Level(k) ==
    IF k \in tracked
    THEN Least(Capacity, bucket[k].tokens + (clock - bucket[k].refilled) * Rate)
    ELSE Capacity

(* Neither the lazy refill nor the sweep of idle buckets can be noticed:   *)
(* the limiter answers as if every client had a bucket of its own for ever. *)
Policy == INSTANCE RatePolicy WITH level <- [k \in Keys |-> Level(k)]
PolicySpec == Policy!Spec

(* Over any stretch of time a client is admitted at most what its bucket   *)
(* holds at the start plus what comes back meanwhile: no step gives more   *)
(* than the clock pays for ("bounding the long-term rate").                *)
NeverAhead ==
    [][\A k \in Keys :
          passed'[k] * Unit + Level(k)'
             <= passed[k] * Unit + Level(k) + (clock' - clock) * Rate]_vars

(* A client that was refused and waits as long as Retry-After told it to,  *)
(* sending nothing that is admitted meanwhile, finds a token.              *)
RetryHonest ==
    \A k \in Keys :
        promise[k] # NoPromise /\ clock >= promise[k] => Level(k) >= Unit

(* The map does not grow without bound: when it is over its limit, all its *)
(* keys were asked for within Ttl of the latest check.                     *)
SweptWhenFull ==
    Cardinality(tracked) > MapLimit =>
        \A k, q \in tracked : bucket[q].access - bucket[k].access <= Ttl
===============================================================================
