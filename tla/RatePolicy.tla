------------------------------ MODULE RatePolicy ------------------------------
(***************************************************************************)
(* What firm_bot promises of its rate limit, without saying how buckets    *)
(* are stored: every client has one bucket for ever, which fills at Rate   *)
(* up to Capacity; a request is admitted exactly when the bucket holds the *)
(* price of one request, and admitting it takes that price.                *)
(*                                                                         *)
(* Tokens are counted in units: a request costs Unit, Rate units come back *)
(* per tick of the clock.  So rate is Rate / Unit requests per tick.       *)
(***************************************************************************)
EXTENDS Integers

CONSTANTS
    Keys,      \* clients
    Rate,      \* units that come back per tick
    Unit,      \* units one request costs
    Burst,     \* requests a full bucket pays for
    MaxClock   \* bound: ticks of a behaviour

Capacity == Burst * Unit

VARIABLES
    clock,    \* time, in ticks
    level,    \* units in each client's bucket
    passed,   \* requests admitted so far, per client
    answer    \* the answer of this tick's last request, if any

NoAnswer == <<>>
Answer(k, allowed) == <<k, allowed>>

Least(a, b) == IF a <= b THEN a ELSE b

Init ==
    /\ clock = 0
    /\ level = [k \in Keys |-> Capacity]
    /\ passed = [k \in Keys |-> 0]
    /\ answer = NoAnswer

Tick ==
    /\ clock < MaxClock
    /\ clock' = clock + 1
    /\ level' = [k \in Keys |-> Least(Capacity, level[k] + Rate)]
    /\ answer' = NoAnswer
    /\ UNCHANGED passed

Admit(k) ==
    /\ level[k] >= Unit
    /\ level' = [level EXCEPT ![k] = @ - Unit]
    /\ passed' = [passed EXCEPT ![k] = @ + 1]
    /\ answer' = Answer(k, TRUE)
    /\ UNCHANGED clock

Refuse(k) ==
    /\ level[k] < Unit
    /\ answer' = Answer(k, FALSE)
    /\ UNCHANGED <<clock, level, passed>>

Next == Tick \/ \E k \in Keys : Admit(k) \/ Refuse(k)

Spec == Init /\ [][Next]_<<clock, level, passed, answer>>
===============================================================================
