-------------------------- MODULE RateLimiterProofs ---------------------------
(***************************************************************************)
(* Theorems about RateLimiter, for every set of clients, rate, burst, map  *)
(* limit and ttl that RateLimiterAssumption admits: the lazily refilled,   *)
(* swept map of buckets implements RatePolicy, and admissions never run    *)
(* ahead of the clock.                                                     *)
(***************************************************************************)
EXTENDS RateLimiter, FiniteSetTheorems, TLAPS

Bucket == [tokens : 0..Capacity, refilled : 0..MaxClock, access : 0..MaxClock]

(* A tracked bucket was refilled by the check that last asked for it.      *)
LimiterInv ==
    /\ TypeOK
    /\ \A k \in tracked :
          bucket[k].refilled = bucket[k].access /\ bucket[k].access <= clock

-------------------------------------------------------------------------------
(* Arithmetic.                                                             *)

LEMMA CapacityType == Capacity \in Nat \ {0} /\ Unit <= Capacity
  BY RateLimiterAssumption DEF Capacity

LEMMA LeastNat ==
    ASSUME NEW a \in Nat, NEW b \in Nat
    PROVE  Least(a, b) \in 0..a
  BY DEF Least

LEMMA ProductMonotone ==
    ASSUME NEW a \in Nat, NEW b \in Nat, NEW c \in Nat, a <= b
    PROVE  a * c <= b * c
  OBVIOUS

LEMMA ProductNat ==
    ASSUME NEW a \in Nat, NEW b \in Nat
    PROVE  a * b \in Nat
  OBVIOUS

(* What a bucket of these tokens, refilled that long ago, comes to.        *)
LEMMA RefillType ==
    ASSUME NEW tokens \in 0..Capacity, NEW elapsed \in Nat
    PROVE  Least(Capacity, tokens + elapsed * Rate) \in 0..Capacity
<1>1. elapsed * Rate \in Nat
  BY RateLimiterAssumption, ProductNat
<1>2. tokens + elapsed * Rate \in Nat
  BY <1>1, CapacityType
<1>3. QED
  BY <1>2, CapacityType, LeastNat

(* A bucket idle for longer than Ttl is full.                              *)
LEMMA IdleIsFull ==
    ASSUME NEW tokens \in 0..Capacity, NEW elapsed \in Nat, elapsed > Ttl
    PROVE  Least(Capacity, tokens + elapsed * Rate) = Capacity
<1>1. Ttl * Rate <= elapsed * Rate
  BY RateLimiterAssumption, ProductMonotone
<1>2. elapsed * Rate \in Nat /\ Ttl * Rate \in Nat
  BY RateLimiterAssumption, ProductNat
<1>3. tokens + elapsed * Rate >= Capacity
  BY <1>1, <1>2, RateLimiterAssumption, CapacityType
<1>4. QED
  BY <1>2, <1>3, CapacityType DEF Least

-------------------------------------------------------------------------------
(* One check.                                                              *)

LEMMA Times == ASSUME LimiterInv PROVE clock \in Nat /\ clock \in 0..MaxClock
  BY RateLimiterAssumption DEF LimiterInv, TypeOK

(* Level is what a refill would find, and it is a number of tokens.        *)
LEMMA LevelType ==
    ASSUME LimiterInv, NEW k \in Keys
    PROVE  Level(k) \in 0..Capacity
<1>1. CASE k \in tracked
  <2>1. bucket[k].tokens \in 0..Capacity /\ clock - bucket[k].refilled \in Nat
    BY <1>1, RateLimiterAssumption DEF LimiterInv, TypeOK
  <2>2. QED
    BY <1>1, <2>1, RefillType DEF Level
<1>2. CASE k \notin tracked
  BY <1>2, CapacityType DEF Level
<1>3. QED
  BY <1>1, <1>2

LEMMA RefillFound ==
    ASSUME LimiterInv, NEW k \in Keys
    PROVE  /\ Refill(Found(k)) \in Bucket
           /\ Refill(Found(k)).tokens = Level(k)
           /\ Refill(Found(k)).refilled = clock
<1> USE RateLimiterAssumption, CapacityType
<1>1. clock \in 0..MaxClock /\ Level(k) \in 0..Capacity
  BY Times, LevelType
<1>2. CASE k \in tracked
  <2>1. bucket[k] \in Bucket
    BY DEF LimiterInv, TypeOK, Bucket
  <2>2. Refill(bucket[k]).tokens = Level(k)
    BY <1>2, <2>1 DEF Refill, Level, Bucket
  <2>3. Refill(bucket[k]) \in Bucket /\ Refill(bucket[k]).refilled = clock
    BY <1>1, <2>1, <2>2 DEF Refill, Bucket
  <2>4. QED
    BY <1>2, <2>2, <2>3 DEF Found
<1>3. CASE k \notin tracked
  <2>1. (clock - clock) * Rate = 0
    BY <1>1
  <2>2. Refill(NewBucket) = [tokens |-> Capacity, refilled |-> clock,
                             access |-> clock]
    <3>1. Least(Capacity, Capacity + (clock - clock) * Rate) = Capacity
      BY <1>1, <2>1 DEF Least
    <3>2. /\ NewBucket.tokens = Capacity
          /\ NewBucket.refilled = clock
          /\ NewBucket = [tokens |-> Capacity, refilled |-> clock,
                          access |-> clock]
      BY DEF NewBucket
    <3>3. QED
      BY <3>1, <3>2 DEF Refill
  <2>3. QED
    BY <1>1, <1>3, <2>2 DEF Found, Level, Bucket
<1>4. QED
  BY <1>2, <1>3

(* Storing the bucket b of k touches nobody else's tokens, whatever the    *)
(* sweep drops.                                                            *)
LEMMA StoreEffect ==
    ASSUME LimiterInv, NEW k \in Keys, NEW b \in Bucket, b.refilled = clock,
           Store(k, b), clock' = clock
    PROVE  /\ tracked' \subseteq Keys /\ bucket' \in [Keys -> Bucket]
           /\ \A q \in tracked' : bucket'[q].refilled = bucket'[q].access
                                  /\ bucket'[q].access <= clock
           /\ Level(k)' = b.tokens
           /\ \A q \in Keys \ {k} : Level(q)' = Level(q)
<1> USE RateLimiterAssumption, CapacityType
<1> DEFINE table == [bucket EXCEPT ![k] = [b EXCEPT !.access = clock]]
<1>0. clock \in 0..MaxClock /\ bucket \in [Keys -> Bucket] /\ tracked \subseteq Keys
  BY Times DEF LimiterInv, TypeOK, Bucket
<1>1. /\ table \in [Keys -> Bucket]
      /\ table[k] = [b EXCEPT !.access = clock]
      /\ \A q \in Keys \ {k} : table[q] = bucket[q]
  BY <1>0 DEF Bucket
<1>2. /\ tracked' = Sweep(tracked \cup {k}, table)
      /\ bucket' = [q \in Keys |-> IF q \in tracked' THEN table[q] ELSE NoBucket]
  BY DEF Store
<1>3. /\ tracked' \subseteq tracked \cup {k}
      /\ k \in tracked'
      /\ \A q \in tracked \ tracked' : clock - table[q].access > Ttl
  <2>1. table[k].access = clock
    BY <1>1 DEF Bucket
  <2>2. \A q \in tracked \cup {k} : table[q].access \in 0..MaxClock
    BY <1>0, <1>1 DEF Bucket
  <2> HIDE DEF table
  <2>3. QED
    BY <1>0, <1>2, <2>1, <2>2 DEF Sweep
<1>4. NoBucket \in Bucket
  BY DEF NoBucket, Bucket
<1> HIDE DEF table
<1>5. tracked' \subseteq Keys /\ bucket' \in [Keys -> Bucket]
  BY <1>0, <1>1, <1>2, <1>3, <1>4
<1>6. ASSUME NEW q \in tracked'
      PROVE  bucket'[q].refilled = bucket'[q].access /\ bucket'[q].access <= clock
  <2>1. bucket'[q] = table[q]
    BY <1>0, <1>2, <1>3
  <2>2. QED
    BY <1>0, <1>1, <1>3, <2>1 DEF LimiterInv, Bucket
<1>7. Level(k)' = b.tokens
  <2>1. bucket'[k].tokens = b.tokens /\ bucket'[k].refilled = clock
    BY <1>0, <1>1, <1>2, <1>3 DEF Bucket
  <2>2. b.tokens \in 0..Capacity /\ (clock - clock) * Rate = 0
    BY <1>0 DEF Bucket
  <2>3. QED
    BY <1>3, <2>1, <2>2 DEF Level, Least
<1>8. ASSUME NEW q \in Keys \ {k} PROVE Level(q)' = Level(q)
  <2>1. CASE q \in tracked'
    <3>1. q \in tracked /\ bucket'[q] = bucket[q]
      BY <1>1, <1>2, <1>3, <2>1
    <3>2. QED
      BY <2>1, <3>1 DEF Level
  <2>2. CASE q \in tracked \ tracked'
    <3>1. clock - bucket[q].refilled > Ttl /\ bucket[q] \in Bucket
      BY <1>0, <1>1, <1>3, <2>2 DEF LimiterInv
    <3>2. clock - bucket[q].refilled \in Nat /\ bucket[q].tokens \in 0..Capacity
      BY <1>0, <2>2, <3>1 DEF LimiterInv, Bucket
    <3>3. Level(q) = Capacity
      BY <2>2, <3>1, <3>2, IdleIsFull DEF Level
    <3>4. QED
      BY <2>2, <3>3 DEF Level
  <2>3. CASE q \notin tracked
    BY <1>3, <2>3 DEF Level
  <2>4. QED
    BY <2>1, <2>2, <2>3
<1>9. QED
  BY <1>5, <1>6, <1>7, <1>8

(* The clock moves: every bucket gains Rate, up to its capacity.           *)
LEMMA TickEffect ==
    ASSUME LimiterInv, Tick, NEW k \in Keys
    PROVE  Level(k)' = Least(Capacity, Level(k) + Rate)
<1> USE RateLimiterAssumption, CapacityType
<1>1. clock' = clock + 1 /\ UNCHANGED <<tracked, bucket>> /\ clock \in Nat
  BY Times DEF Tick
<1>2. CASE k \in tracked
  <2> DEFINE tokens == bucket[k].tokens
             elapsed == clock - bucket[k].refilled
  <2>1. tokens \in 0..Capacity /\ elapsed \in Nat
    BY <1>1, <1>2 DEF LimiterInv, TypeOK
  <2>2. /\ Level(k) = Least(Capacity, tokens + elapsed * Rate)
        /\ Level(k)' = Least(Capacity, tokens + (elapsed + 1) * Rate)
    <3>1. bucket[k].refilled \in 0..MaxClock
      BY DEF LimiterInv, TypeOK
    <3>2. clock' - bucket'[k].refilled = elapsed + 1 /\ bucket'[k].tokens = tokens
      BY <1>1, <3>1
    <3>3. /\ Level(k) = Least(Capacity, tokens + elapsed * Rate)
          /\ Level(k)' = Least(Capacity, bucket'[k].tokens
                                + (clock' - bucket'[k].refilled) * Rate)
      BY <1>1, <1>2 DEF Level
    <3> HIDE DEF elapsed, tokens
    <3>4. QED
      BY <3>2, <3>3
  <2> HIDE DEF tokens, elapsed
  <2>3. (elapsed + 1) * Rate = elapsed * Rate + Rate /\ elapsed * Rate \in Nat
    BY <2>1, ProductNat
  <2>4. QED
    BY <2>1, <2>2, <2>3 DEF Least
<1>3. CASE k \notin tracked
  BY <1>1, <1>3 DEF Level, Least
<1>4. QED
  BY <1>2, <1>3

(* A check of k leaves the tokens it found, less Unit if it admits; nobody *)
(* else's change.                                                          *)
LEMMA AdmitEffect ==
    ASSUME LimiterInv, NEW k \in Keys, Admit(k)
    PROVE  /\ tracked' \subseteq Keys /\ bucket' \in [Keys -> Bucket]
           /\ \A q \in tracked' : bucket'[q].refilled = bucket'[q].access
                                  /\ bucket'[q].access <= clock
           /\ Level(k) >= Unit /\ Level(k)' = Level(k) - Unit
           /\ \A q \in Keys \ {k} : Level(q)' = Level(q)
<1> DEFINE b == Refill(Found(k))
           c == [b EXCEPT !.tokens = @ - Unit]
<1>1. b \in Bucket /\ b.tokens = Level(k) /\ b.refilled = clock
  BY RefillFound
<1>2. Level(k) >= Unit /\ Store(k, c) /\ clock' = clock
  BY <1>1 DEF Admit
<1> HIDE DEF b
<1>3. c \in Bucket /\ c.tokens = Level(k) - Unit /\ c.refilled = clock
  BY <1>1, <1>2, RateLimiterAssumption, CapacityType DEF Bucket
<1> HIDE DEF c
<1>4. QED
  BY <1>2, <1>3, StoreEffect

LEMMA RefuseEffect ==
    ASSUME LimiterInv, NEW k \in Keys, Refuse(k)
    PROVE  /\ tracked' \subseteq Keys /\ bucket' \in [Keys -> Bucket]
           /\ \A q \in tracked' : bucket'[q].refilled = bucket'[q].access
                                  /\ bucket'[q].access <= clock
           /\ Level(k) < Unit
           /\ promise' = [promise EXCEPT ![k] = clock + RetryAfter(Level(k))]
           /\ \A q \in Keys : Level(q)' = Level(q)
<1> DEFINE b == Refill(Found(k))
<1>1. b \in Bucket /\ b.tokens = Level(k) /\ b.refilled = clock
  BY RefillFound
<1>2. /\ Level(k) < Unit /\ Store(k, b) /\ clock' = clock
      /\ promise' = [promise EXCEPT ![k] = clock + RetryAfter(Level(k))]
  BY <1>1 DEF Refuse
<1> HIDE DEF b
<1>3. /\ tracked' \subseteq Keys /\ bucket' \in [Keys -> Bucket]
      /\ \A q \in tracked' : bucket'[q].refilled = bucket'[q].access
                             /\ bucket'[q].access <= clock
      /\ Level(k)' = b.tokens
      /\ \A q \in Keys \ {k} : Level(q)' = Level(q)
  BY <1>1, <1>2, StoreEffect
<1>4. QED
  BY <1>1, <1>2, <1>3

(* The header is a whole number of seconds, at least one.                  *)
LEMMA RetryAfterType ==
    ASSUME NEW tokens \in Nat, tokens < Unit
    PROVE  RetryAfter(tokens) \in Nat
<1> DEFINE deficit == Unit - tokens
           grain == Rate * Second
<1>1. deficit \in Nat /\ grain \in Nat \ {0}
  BY RateLimiterAssumption
<1>2. deficit \div grain \in Nat
  <2> HIDE DEF deficit, grain
  <2>1. QED
    BY <1>1
<1>3. (deficit \div grain + 1) * Second \in Nat
  BY <1>2, RateLimiterAssumption, ProductNat
<1>4. QED
  BY <1>3 DEF RetryAfter

-------------------------------------------------------------------------------
(* The invariant.                                                          *)

LEMMA LimiterInit == Init => LimiterInv
  BY RateLimiterAssumption, CapacityType
     DEF Init, LimiterInv, TypeOK, NoBucket, NoPromise

LEMMA LimiterStep == LimiterInv /\ [Next]_vars => LimiterInv'
<1> SUFFICES ASSUME LimiterInv, [Next]_vars PROVE LimiterInv'
  OBVIOUS
<1>1. CASE Tick
  BY <1>1, RateLimiterAssumption DEF Tick, LimiterInv, TypeOK
<1>2. ASSUME NEW k \in Keys, Admit(k) PROVE LimiterInv'
  <2>1. /\ clock' = clock /\ answer' = <<k, TRUE>>
        /\ passed' \in [Keys -> Nat]
        /\ promise' \in [Keys -> Nat \cup {NoPromise}]
    BY <1>2 DEF Admit, LimiterInv, TypeOK, Answer
  <2>2. QED
    BY <1>2, <2>1, AdmitEffect DEF LimiterInv, TypeOK, Bucket
<1>3. ASSUME NEW k \in Keys, Refuse(k) PROVE LimiterInv'
  <2>1. clock' = clock /\ answer' = <<k, FALSE>> /\ passed' = passed
    BY <1>3 DEF Refuse, Answer
  <2>2. clock + RetryAfter(Level(k)) \in Nat
    <3>1. Level(k) \in Nat /\ Level(k) < Unit /\ clock \in Nat
      BY <1>3, RefuseEffect, LevelType, CapacityType, Times
    <3>2. QED
      BY <3>1, RetryAfterType
  <2>3. promise' \in [Keys -> Nat \cup {NoPromise}]
    BY <1>3, <2>2, RefuseEffect DEF LimiterInv, TypeOK
  <2>4. QED
    BY <1>3, <2>1, <2>3, RefuseEffect DEF LimiterInv, TypeOK, Bucket
<1>4. CASE UNCHANGED vars
  BY <1>4 DEF vars, LimiterInv, TypeOK
<1>5. QED
  BY <1>1, <1>2, <1>3, <1>4 DEF Next

LEMMA Invariant == Spec => []LimiterInv
  BY LimiterInit, LimiterStep, PTL DEF Spec

(* Every reachable state is well typed: no bucket overflows or goes below  *)
(* zero.                                                                   *)
THEOREM TypeCorrect == Spec => []TypeOK
<1>1. LimiterInv => TypeOK
  BY DEF LimiterInv
<1>2. QED
  BY <1>1, Invariant, PTL

(* No client is ever admitted more than its bucket and the clock pay for.  *)
THEOREM AdmissionsBounded == Spec => NeverAhead
<1> DEFINE Bounded ==
      \A k \in Keys :
          passed'[k] * Unit + Level(k)'
             <= passed[k] * Unit + Level(k) + (clock' - clock) * Rate
<1>1. ASSUME LimiterInv, [Next]_vars PROVE [Bounded]_vars
  <2> USE RateLimiterAssumption
  <2>0. /\ \A k \in Keys : Level(k) \in Nat /\ passed[k] \in Nat
        /\ clock \in Nat /\ (clock - clock) * Rate = 0
        /\ \A k \in Keys : passed[k] * Unit \in Nat
    BY <1>1, LevelType, CapacityType, Times, ProductNat DEF LimiterInv, TypeOK
  <2>1. CASE Tick
    <3>1. /\ passed' = passed /\ (clock' - clock) * Rate = Rate
      BY <2>0, <2>1 DEF Tick
    <3>2. \A k \in Keys : Level(k)' <= Level(k) + Rate /\ Level(k)' \in Nat
      BY <1>1, <2>0, <2>1, TickEffect, CapacityType DEF Least
    <3>3. QED
      BY <2>0, <3>1, <3>2
  <2>2. ASSUME NEW k \in Keys, Admit(k) PROVE Bounded
    <3>1. /\ clock' = clock /\ Level(k)' = Level(k) - Unit
          /\ \A q \in Keys \ {k} : Level(q)' = Level(q) /\ passed'[q] = passed[q]
          /\ passed'[k] = passed[k] + 1
      BY <1>1, <2>2, AdmitEffect DEF Admit, LimiterInv, TypeOK
    <3>2. (passed[k] + 1) * Unit = passed[k] * Unit + Unit
      BY <2>0
    <3>3. QED
      BY <2>0, <3>1, <3>2
  <2>3. ASSUME NEW k \in Keys, Refuse(k) PROVE Bounded
    <3>1. /\ clock' = clock /\ passed' = passed
          /\ \A q \in Keys : Level(q)' = Level(q)
      BY <1>1, <2>3, RefuseEffect DEF Refuse
    <3>2. QED
      BY <2>0, <3>1
  <2>4. QED
    BY <1>1, <2>1, <2>2, <2>3 DEF Next
<1>2. QED
  BY <1>1, Invariant, PTL DEF Spec, NeverAhead

(* The limiter, with its lazy refills and its sweeps, does what RatePolicy *)
(* promises.                                                               *)
THEOREM Implements == Spec => PolicySpec
<1>1. Init => Policy!Init
  BY DEF Init, Policy!Init, Level, Capacity, Policy!Capacity, NoAnswer,
     Policy!NoAnswer
<1>2. ASSUME LimiterInv, [Next]_vars
      PROVE  [Policy!Next]_<<clock, [k \in Keys |-> Level(k)], passed, answer>>
  <2> DEFINE level == [k \in Keys |-> Level(k)]
  <2> USE DEF Policy!Capacity, Capacity, Policy!Least, Least,
          Policy!NoAnswer, NoAnswer, Policy!Answer, Answer
  <2>1. CASE Tick
    <3>1. level' = [k \in Keys |-> Least(Capacity, level[k] + Rate)]
      BY <1>2, <2>1, TickEffect
    <3>2. Policy!Tick
      BY <2>1, <3>1 DEF Tick, Policy!Tick
    <3>3. QED
      BY <3>2 DEF Policy!Next
  <2>2. ASSUME NEW k \in Keys, Admit(k) PROVE Policy!Admit(k)
    <3>1. level' = [level EXCEPT ![k] = @ - Unit]
      BY <1>2, <2>2, AdmitEffect
    <3>2. level[k] >= Unit
      BY <1>2, <2>2, AdmitEffect
    <3>3. QED
      BY <2>2, <3>1, <3>2 DEF Admit, Policy!Admit
  <2>3. ASSUME NEW k \in Keys, Refuse(k) PROVE Policy!Refuse(k)
    <3>1. level' = level /\ level[k] < Unit
      BY <1>2, <2>3, RefuseEffect
    <3>2. QED
      BY <2>3, <3>1 DEF Refuse, Policy!Refuse
  <2>4. CASE UNCHANGED vars
    BY <2>4 DEF vars, Level
  <2>5. QED
    BY <1>2, <2>1, <2>2, <2>3, <2>4 DEF Next, Policy!Next
<1>3. QED
  BY <1>1, <1>2, Invariant, PTL DEF Spec, PolicySpec, Policy!Spec

-------------------------------------------------------------------------------
(* RetryHonest.                                                            *)

(* What a refused client lacks comes back by the time it was told.         *)
RetryInv ==
    \A k \in Keys :
        promise[k] # NoPromise =>
            /\ promise[k] >= clock => Level(k) + (promise[k] - clock) * Rate >= Unit
            /\ promise[k] <= clock => Level(k) >= Unit

LEMMA DivisionBound ==
    ASSUME NEW d \in Nat, NEW g \in Nat \ {0}
    PROVE  d <= (d \div g + 1) * g /\ d \div g \in Nat
<1> DEFINE q == d \div g
<1>1. q \in Int
  OBVIOUS
<1>2. q >= 0
  BY SMTT(60)
<1>3. d < g * q + g
  BY SMTT(60)
<1> HIDE DEF q
<1>4. (q + 1) * g = g * q + g /\ g * q \in Nat
  BY <1>1, <1>2, ProductNat
<1>5. QED
  BY <1>1, <1>2, <1>3, <1>4 DEF q

LEMMA HeaderCovers ==
    ASSUME NEW tokens \in Nat, tokens < Unit
    PROVE  tokens + RetryAfter(tokens) * Rate >= Unit
<1> DEFINE deficit == Unit - tokens
           grain == Rate * Second
           wholes == deficit \div grain
<1>1. deficit \in Nat /\ grain \in Nat \ {0}
  BY RateLimiterAssumption
<1>2. deficit <= (wholes + 1) * grain /\ wholes \in Nat
  <2> HIDE DEF deficit, grain
  <2>1. QED
    BY <1>1, DivisionBound
<1>3. (wholes + 1) * Second * Rate = (wholes + 1) * grain
  <2> HIDE DEF wholes
  <2>1. QED
    BY <1>2, RateLimiterAssumption
<1>4. RetryAfter(tokens) * Rate = (wholes + 1) * grain
  BY <1>3 DEF RetryAfter
<1>5. (wholes + 1) * grain \in Nat
  <2> HIDE DEF wholes, grain
  <2>1. QED
    BY <1>1, <1>2, ProductNat
<1> HIDE DEF wholes, grain
<1>6. QED
  BY <1>2, <1>4, <1>5, RateLimiterAssumption

LEMMA RetryStep == LimiterInv /\ RetryInv /\ [Next]_vars => RetryInv'
<1> SUFFICES ASSUME LimiterInv, RetryInv, [Next]_vars,
                    NEW k \in Keys, promise'[k] # NoPromise
             PROVE  /\ promise'[k] >= clock'
                       => Level(k)' + (promise'[k] - clock') * Rate >= Unit
                    /\ promise'[k] <= clock' => Level(k)' >= Unit
  BY DEF RetryInv
<1> USE RateLimiterAssumption, CapacityType
<1>0. /\ clock \in Nat /\ Level(k) \in Nat
      /\ promise \in [Keys -> Nat \cup {NoPromise}]
  BY Times, LevelType DEF LimiterInv, TypeOK
<1>1. CASE Tick
  <2>1. /\ clock' = clock + 1 /\ promise' = promise
        /\ Level(k)' = Least(Capacity, Level(k) + Rate)
    BY <1>1, TickEffect DEF Tick
  <2>2. promise[k] \in Nat
    BY <1>0, <2>1
  <2>3. CASE promise[k] <= clock
    <3>1. Level(k) >= Unit
      BY <2>1, <2>3 DEF RetryInv
    <3>2. QED
      BY <1>0, <2>1, <2>2, <2>3, <3>1 DEF Least
  <2>4. CASE promise[k] > clock
    <3> DEFINE left == promise[k] - clock - 1
    <3>1. left \in Nat /\ promise[k] - clock = left + 1
      BY <1>0, <2>2, <2>4
    <3>2. Level(k) + (left + 1) * Rate >= Unit
      BY <1>0, <2>1, <2>2, <2>4, <3>1 DEF RetryInv
    <3>3. promise'[k] - clock' = left
      BY <1>0, <2>1, <2>2
    <3> HIDE DEF left
    <3>4. (left + 1) * Rate = left * Rate + Rate /\ left * Rate \in Nat
      BY <3>1, ProductNat
    <3>5. Level(k)' + left * Rate >= Unit
      BY <1>0, <2>1, <3>2, <3>4 DEF Least
    <3>6. promise'[k] <= clock' => left = 0
      BY <1>0, <2>1, <2>2, <3>1
    <3>7. left = 0 => left * Rate = 0
      OBVIOUS
    <3>8. Level(k)' \in Nat
      BY <1>0, <2>1 DEF Least
    <3>9. QED
      BY <3>3, <3>5, <3>6, <3>7, <3>8
  <2>5. QED
    BY <1>0, <2>2, <2>3, <2>4
<1>2. ASSUME NEW q \in Keys, Admit(q)
      PROVE  UNCHANGED <<clock, Level(k)>> /\ promise'[k] = promise[k]
  <2>1. q # k /\ promise'[k] = promise[k] /\ clock' = clock
    BY <1>0, <1>2 DEF Admit
  <2>2. QED
    BY <1>2, <2>1, AdmitEffect
<1>3. ASSUME NEW q \in Keys \ {k}, Refuse(q)
      PROVE  UNCHANGED <<clock, Level(k)>> /\ promise'[k] = promise[k]
  BY <1>0, <1>3, RefuseEffect DEF Refuse
<1>4. CASE Refuse(k)
  <2> DEFINE wait == RetryAfter(Level(k))
  <2>1. /\ clock' = clock /\ Level(k)' = Level(k) /\ Level(k) < Unit
        /\ promise'[k] = clock + wait
    BY <1>0, <1>4, RefuseEffect DEF Refuse
  <2>2. wait \in Nat /\ Level(k) + wait * Rate >= Unit
    BY <1>0, <2>1, RetryAfterType, HeaderCovers
  <2> HIDE DEF wait
  <2>3. promise'[k] - clock' = wait
    BY <1>0, <2>1, <2>2
  <2>4. wait # 0
    <3>1. 0 * Rate = 0
      OBVIOUS
    <3>2. QED
      BY <1>0, <2>1, <2>2, <3>1
  <2>5. QED
    BY <1>0, <2>1, <2>2, <2>3, <2>4
<1>5. CASE UNCHANGED vars
  BY <1>5 DEF vars, Level, RetryInv
<1>6. ASSUME UNCHANGED <<clock, Level(k)>>, promise'[k] = promise[k]
      PROVE  /\ promise'[k] >= clock'
                => Level(k)' + (promise'[k] - clock') * Rate >= Unit
             /\ promise'[k] <= clock' => Level(k)' >= Unit
  BY <1>6 DEF RetryInv
<1>7. QED
  BY <1>1, <1>2, <1>3, <1>4, <1>5, <1>6 DEF Next

(* The Retry-After header is never too early.                              *)
THEOREM RetryTrue == Spec => []RetryHonest
<1>1. Init => RetryInv
  BY DEF Init, RetryInv
<1>2. LimiterInv /\ RetryInv => RetryHonest
  BY DEF RetryInv, RetryHonest, LimiterInv, TypeOK
<1>3. QED
  BY <1>1, <1>2, RetryStep, Invariant, PTL DEF Spec

-------------------------------------------------------------------------------
(* SweptWhenFull.                                                          *)

(* The map of buckets is finite, if there are infinitely many clients, so   *)
(* that its size can be compared with the limit.                           *)
SweepInv == IsFiniteSet(tracked) /\ SweptWhenFull

LEMMA StoreSweeps ==
    ASSUME LimiterInv, SweepInv, NEW k \in Keys, NEW b, Store(k, b),
           LimiterInv', clock' = clock
    PROVE  SweepInv'
<1> DEFINE table == [bucket EXCEPT ![k] = [b EXCEPT !.access = clock]]
           asked == tracked \cup {k}
<1>1. /\ tracked' = Sweep(asked, table)
      /\ bucket' = [q \in Keys |-> IF q \in tracked' THEN table[q] ELSE NoBucket]
      /\ tracked' \subseteq Keys
  BY DEF Store, LimiterInv, TypeOK
<1>2. IsFiniteSet(asked) /\ Cardinality(asked) \in Nat
  BY FS_AddElement, FS_CardinalityType DEF SweepInv
<1> HIDE DEF table, asked
<1>3. tracked' \subseteq asked
  BY <1>1 DEF Sweep
<1>4. IsFiniteSet(tracked')
  BY <1>2, <1>3, FS_Subset
<1>5. CASE Cardinality(asked) <= MapLimit
  <2>1. Cardinality(tracked') <= MapLimit
    BY <1>1, <1>5 DEF Sweep
  <2>2. QED
    BY <1>2, <1>4, <2>1, FS_CardinalityType, RateLimiterAssumption
       DEF SweepInv, SweptWhenFull
<1>6. CASE ~(Cardinality(asked) <= MapLimit)
  <2>1. \A q \in tracked' : clock - bucket'[q].access <= Ttl
    BY <1>1, <1>6 DEF Sweep
  <2>2. \A q \in tracked' : bucket'[q].access <= clock /\ bucket'[q].access \in Nat
    BY DEF LimiterInv, TypeOK
  <2>3. \A q, r \in tracked' : bucket'[r].access - bucket'[q].access <= Ttl
    BY <2>1, <2>2, Times, RateLimiterAssumption
  <2>4. QED
    BY <1>4, <2>3 DEF SweepInv, SweptWhenFull
<1>7. QED
  BY <1>5, <1>6

(* The map does not grow without bound: whenever it holds more than its    *)
(* limit, every client in it asked within Ttl of any other.                *)
THEOREM Swept == Spec => []SweptWhenFull
<1>1. Init => SweepInv
  BY FS_EmptySet, RateLimiterAssumption DEF Init, SweepInv, SweptWhenFull
<1>2. LimiterInv /\ LimiterInv' /\ SweepInv /\ [Next]_vars => SweepInv'
  <2> SUFFICES ASSUME LimiterInv, LimiterInv', SweepInv, [Next]_vars
               PROVE  SweepInv'
    OBVIOUS
  <2>1. CASE UNCHANGED <<tracked, bucket>>
    BY <2>1 DEF SweepInv, SweptWhenFull
  <2>2. ASSUME NEW k \in Keys, NEW b, Store(k, b), clock' = clock
        PROVE  SweepInv'
    BY <2>2, StoreSweeps
  <2>3. QED
    BY <2>1, <2>2 DEF Next, Tick, Admit, Refuse, vars
<1>3. QED
  BY <1>1, <1>2, Invariant, PTL DEF Spec, SweepInv
===============================================================================
