------------------------------- MODULE AuditLog -------------------------------
(***************************************************************************)
(* One firm's audit log, written by one API worker (api/app.py,            *)
(* _schedule_audit and _audit_record; audit_log.py).                       *)
(*                                                                         *)
(* The event loop answers queries.  For each it makes a task that takes a  *)
(* slot of a semaphore and hands the write to the thread pool; when the    *)
(* semaphore is locked it writes the record itself.  A write takes its     *)
(* timestamp first and then appends one line.  GET audit-log prunes the    *)
(* file on the event loop: it reads it all, then opens it for writing,     *)
(* which empties it, then writes back the lines it kept, then reads it     *)
(* again for the answer; the threads go on appending meanwhile.  A prune   *)
(* that fails in the middle is caught, and the answer read all the same.   *)
(*                                                                         *)
(* A record is the number of its query in the order of the answers.  The   *)
(* loop starts tasks, the semaphore wakes waiters and the pool takes jobs  *)
(* first in first out, which here is lowest number first.                  *)
(***************************************************************************)
EXTENDS Integers, Sequences, FiniteSets, Functions

CONSTANTS
    NumQueries,  \* bound: queries of a behaviour
    Slots,       \* the semaphore's initial value (64)
    Threads,     \* threads of the event loop's default executor
    Retention,   \* ticks a record is kept for (90 days; 0 would be for ever)
    MaxClock,    \* bound: ticks of a behaviour
    MaxFaults    \* bound: crashes, shutdowns and failed writes of either kind

ASSUME AuditLogAssumption ==
    /\ NumQueries \in Nat
    /\ Slots \in Nat \ {0}
    /\ Threads \in Nat \ {0}
    /\ Retention \in Nat \ {0}
    /\ MaxClock \in Nat
    /\ MaxFaults \in Nat

VARIABLES
    asked,    \* queries answered so far
    stage,    \* how far the background task of each query is
    value,    \* _AUDIT_SEMAPHORE._value
    loop,     \* what the event loop is busy with, and for which query
    kept,     \* the lines a prune has decided to keep
    stamp,    \* the timestamp of each record
    file,     \* the lines of audit-log.jsonl that can be read
    half,     \* whether it ends in half a line
    written,  \* the records that were appended at some time
    exposed,  \* those that were appended mid-prune
    cost,     \* the records that a crash, a shutdown or a full disk took
    clock,
    faults

log == <<file, half, written, exposed, cost>>
vars == <<asked, stage, value, loop, kept, stamp, log, clock, faults>>

Queries == 1..NumQueries
None == 0

(* "writing": in a thread, stamped; "written": the thread is done, the     *)
(* task is not; "lost": the process ended before a thread took the job.    *)
Stages == {"none", "task", "waiting", "queued", "writing", "written", "done",
           "lost"}

LoopStates == {"idle", "sync", "pruning", "emptied", "reading", "down"}

At(s) == {q \in Queries : stage[q] = s}

(* q is the one to be served next of those at stage s.                     *)
First(s, q) == q \in At(s) /\ \A r \in At(s) : q <= r

Move(q, s) == stage' = [stage EXCEPT ![q] = s]
Idle == [at |-> "idle", query |-> None]

(* Semaphore.locked().                                                     *)
Locked == value = 0 \/ At("waiting") # {}

(* ts < cutoff, where the cutoff is now less the retention.                *)
Expired(q) == clock - stamp[q] > Retention

Init ==
    /\ asked = 0
    /\ stage = [q \in Queries |-> "none"]
    /\ value = Slots
    /\ loop = Idle
    /\ kept = <<>>
    /\ stamp = [q \in Queries |-> 0]
    /\ file = <<>>
    /\ half = FALSE
    /\ written = {}
    /\ exposed = {}
    /\ cost = {}
    /\ clock = 0
    /\ faults = 0

Fault == faults < MaxFaults /\ faults' = faults + 1

-------------------------------------------------------------------------------
(* _schedule_audit, on the event loop.                                     *)

(* A slot is free: a task is made, to be started on a later turn.          *)
ScheduleTask ==
    /\ loop = Idle
    /\ asked < NumQueries
    /\ ~Locked
    /\ asked' = asked + 1
    /\ Move(asked + 1, "task")
    /\ UNCHANGED <<value, loop, kept, stamp, log, clock, faults>>

(* Deviation: the return after the synchronous write is missing.           *)
WriteSyncFallsThrough ==
    /\ loop = Idle
    /\ asked < NumQueries
    /\ Locked
    /\ asked' = asked + 1
    /\ loop' = [at |-> "sync", query |-> asked + 1]
    /\ stamp' = [stamp EXCEPT ![asked + 1] = clock]
    /\ Move(asked + 1, "task")
    /\ UNCHANGED <<value, kept, log, clock, faults>>

(* The semaphore is locked: the loop starts to write the record itself.    *)
WriteSync ==
    /\ loop = Idle
    /\ asked < NumQueries
    /\ Locked
    /\ asked' = asked + 1
    /\ loop' = [at |-> "sync", query |-> asked + 1]
    /\ stamp' = [stamp EXCEPT ![asked + 1] = clock]
    /\ UNCHANGED <<stage, value, kept, log, clock, faults>>

(* append_record: one write in append mode; behind half a line it makes    *)
(* one line with it, which no reader can parse.                            *)
Log(q) ==
    /\ IF half THEN cost' = cost \cup {q} /\ UNCHANGED <<file, written>>
       ELSE /\ file' = Append(file, q)
            /\ written' = written \cup {q}
            /\ UNCHANGED cost
    /\ half' = FALSE
    /\ exposed' = IF loop.at \in {"pruning", "emptied"}
                  THEN exposed \cup {q} ELSE exposed

AppendSync ==
    /\ loop.at = "sync"
    /\ Log(loop.query)
    /\ loop' = Idle
    /\ UNCHANGED <<asked, stage, value, kept, stamp, clock, faults>>

-------------------------------------------------------------------------------
(* The background task, _runner.                                           *)

(* It enters the semaphore and submits its job, or waits for a slot.       *)
StartTask(q) ==
    /\ loop = Idle
    /\ First("task", q)
    /\ IF Locked
       THEN Move(q, "waiting") /\ UNCHANGED value
       ELSE Move(q, "queued") /\ value' = value - 1
    /\ UNCHANGED <<asked, loop, kept, stamp, log, clock, faults>>

(* A thread of the pool takes the job; _audit_record reads the clock.      *)
StartWrite(q) ==
    /\ First("queued", q)
    /\ Cardinality(At("writing")) < Threads
    /\ Move(q, "writing")
    /\ stamp' = [stamp EXCEPT ![q] = clock]
    /\ UNCHANGED <<asked, value, loop, kept, log, clock, faults>>

AppendLine(q) ==
    /\ q \in At("writing")
    /\ Log(q)
    /\ Move(q, "written")
    /\ UNCHANGED <<asked, value, loop, kept, stamp, clock, faults>>

(* Deviations: the slot is handed to a waiter and given back as well; it   *)
(* is given back and nobody is woken.                                      *)
ReleaseTwice(q) ==
    /\ loop = Idle
    /\ q \in At("written")
    /\ value' = value + 1
    /\ stage' = [r \in Queries |-> IF r = q THEN "done"
                                   ELSE IF First("waiting", r) THEN "queued"
                                   ELSE stage[r]]
    /\ UNCHANGED <<asked, loop, kept, stamp, log, clock, faults>>

ReleaseSilently(q) ==
    /\ loop = Idle
    /\ q \in At("written")
    /\ value' = value + 1
    /\ Move(q, "done")
    /\ UNCHANGED <<asked, loop, kept, stamp, log, clock, faults>>

(* The task leaves the semaphore: the first waiter gets the slot.          *)
Release(q) ==
    /\ loop = Idle
    /\ q \in At("written")
    /\ value' = IF At("waiting") = {} THEN value + 1 ELSE value
    /\ stage' = [r \in Queries |-> IF r = q THEN "done"
                                   ELSE IF First("waiting", r) THEN "queued"
                                   ELSE stage[r]]
    /\ UNCHANGED <<asked, loop, kept, stamp, log, clock, faults>>

-------------------------------------------------------------------------------
(* GET audit-log, on the event loop: prune_older_than, then read_audit_log; *)
(* there is a file to prune once something was written.  Either skips what *)
(* it cannot parse.                                                        *)

(* The lines of the file that are of S, in its order.                      *)
LinesOf(S) ==
    LET f[n \in 0..Len(file)] ==
            IF n = 0 THEN <<>>
            ELSE IF file[n] \in S THEN Append(f[n - 1], file[n]) ELSE f[n - 1]
    IN  f[Len(file)]

PruneRead ==
    /\ loop = Idle
    /\ written # {} \/ half
    /\ kept' = LinesOf({q \in Queries : ~Expired(q)})
    /\ loop' = [Idle EXCEPT !.at = "pruning"]
    /\ UNCHANGED <<asked, stage, value, stamp, log, clock, faults>>

PruneEmpty ==
    /\ loop.at = "pruning"
    /\ file' = <<>>
    /\ half' = FALSE
    /\ loop' = [Idle EXCEPT !.at = "emptied"]
    /\ UNCHANGED <<asked, stage, value, kept, stamp, written, exposed, cost,
                   clock, faults>>

(* The kept lines are written from offset 0, over the lines that were      *)
(* appended since the file was emptied: over the first n of those, the     *)
(* last of them cut in half, or over all that there is.                    *)
PruneWrite ==
    /\ loop.at = "emptied"
    /\ \E n \in IF kept = <<>> \/ file = <<>> THEN {0} ELSE DOMAIN file :
          /\ file' = kept \o SubSeq(file, n + 1, Len(file))
          /\ half' \in IF kept # <<>> /\ n = Len(file) THEN {FALSE, half} ELSE {half}
    /\ kept' = <<>>
    /\ loop' = [Idle EXCEPT !.at = "reading"]
    /\ UNCHANGED <<asked, stage, value, stamp, written, exposed, cost, clock, faults>>

(* The disk fills up after the file was emptied: write_text raises with    *)
(* the first j of the kept lines written and perhaps part of the next,     *)
(* over the first n lines there were; the handler logs it and reads on.    *)
PruneWriteFails ==
    /\ Fault
    /\ loop.at = "emptied"
    /\ \E j \in 0..(Len(kept) - 1), n \in 0..Len(file) :
          /\ j > 0 /\ file # <<>> => n > 0
          /\ file' = SubSeq(kept, 1, j) \o SubSeq(file, n + 1, Len(file))
          /\ half' \in IF n < Len(file) THEN {half}
                       ELSE IF j = 0 THEN {half, TRUE} ELSE BOOLEAN
          /\ cost' = cost \cup Range(SubSeq(kept, j + 1, Len(kept)))
    /\ kept' = <<>>
    /\ loop' = [Idle EXCEPT !.at = "reading"]
    /\ UNCHANGED <<asked, stage, value, stamp, written, exposed, clock>>

(* Deviation: the upper bound is left out of the window.                   *)
ListedUpTo(since, until) ==
    LinesOf({q \in Queries : stamp[q] \in since..(until - 1)})

(* read_audit_log: the records of a window, in the order of the file.      *)
Listed(since, until) == LinesOf({q \in Queries : stamp[q] \in since..until})

(* The answer.                                                             *)
Read ==
    /\ loop.at = "reading"
    /\ loop' = Idle
    /\ UNCHANGED <<asked, stage, value, kept, stamp, log, clock, faults>>

-------------------------------------------------------------------------------
Tick ==
    /\ clock < MaxClock
    /\ clock' = clock + 1
    /\ UNCHANGED <<asked, stage, value, loop, kept, stamp, log, faults>>

(* The disk is full: _audit_record logs the exception and returns.  What   *)
(* was written of the line by then stays.                                  *)
WriteFails(q) ==
    /\ Fault
    /\ \/ q \in At("writing") /\ Move(q, "written") /\ UNCHANGED loop
       \/ loop = [at |-> "sync", query |-> q] /\ loop' = Idle /\ UNCHANGED stage
    /\ half' \in {half, TRUE}
    /\ cost' = cost \cup {q}
    /\ UNCHANGED <<asked, value, kept, stamp, file, written, exposed, clock>>

(* What is left of the tasks when the loop ends: a job that no thread has  *)
(* taken is cancelled with its task.                                       *)
Cancelled(q, running) ==
    CASE stage[q] \in {"task", "waiting", "queued"} \cup running -> "lost"
      [] stage[q] = "written" -> "done"
      [] OTHER -> stage[q]

Lost(running) == {q \in Queries : Cancelled(q, running) = "lost"}

(* A shutdown between two handlers; the threads finish what they write.    *)
Shutdown ==
    /\ Fault
    /\ loop = Idle
    /\ loop' = [Idle EXCEPT !.at = "down"]
    /\ stage' = [q \in Queries |-> Cancelled(q, {})]
    /\ cost' = cost \cup Lost({})
    /\ UNCHANGED <<asked, value, kept, stamp, file, half, written, exposed, clock>>

Restart ==
    /\ loop.at = "down"
    /\ At("writing") = {}
    /\ loop' = Idle
    /\ value' = Slots
    /\ stage' = [q \in Queries |-> Cancelled(q, {})]
    /\ UNCHANGED <<asked, kept, stamp, log, clock, faults>>

(* The process dies, and another takes its place.                          *)
Crash ==
    /\ Fault
    /\ loop' = Idle
    /\ value' = Slots
    /\ stage' = [q \in Queries |-> Cancelled(q, {"writing"})]
    /\ kept' = <<>>
    /\ cost' = cost \cup Lost({"writing"}) \cup ({loop.query} \ {None})
                    \cup (IF loop.at = "emptied" THEN Range(kept) ELSE {})
    /\ UNCHANGED <<asked, stamp, file, half, written, exposed, clock>>

-------------------------------------------------------------------------------
LoopTurn == AppendSync \/ PruneEmpty \/ PruneWrite \/ Read \/ Restart
Serve(q) == StartTask(q) \/ Release(q)
Thread(q) == StartWrite(q) \/ AppendLine(q)

Next ==
    \/ ScheduleTask \/ WriteSync \/ PruneRead \/ LoopTurn
    \/ \E q \in Queries : Serve(q) \/ Thread(q) \/ WriteFails(q)
    \/ Tick \/ Shutdown \/ Crash \/ PruneWriteFails

Spec == Init /\ [][Next]_vars

(* The loop's ready queue and the pool's job queue are first in first out: *)
(* a callback or a job that is ready is run, however many requests come    *)
(* between (hence strong fairness: a prune or a synchronous write disables *)
(* the loop's other steps for a while).                                    *)
Fairness ==
    /\ WF_vars(LoopTurn)
    /\ \A q \in Queries : SF_vars(Serve(q)) /\ WF_vars(Thread(q))

FairSpec == Spec /\ Fairness
-------------------------------------------------------------------------------
(* Properties.                                                             *)

(* Every variable keeps its shape; the semaphore never has more slots than *)
(* it was made with.                                                       *)
TypeOK ==
    /\ asked \in 0..NumQueries
    /\ stage \in [Queries -> Stages]
    /\ value \in 0..Slots
    /\ loop \in [at : LoopStates, query : Queries \cup {None}]
    /\ kept \in Seq(Queries)
    /\ stamp \in [Queries -> 0..MaxClock]
    /\ file \in Seq(Queries)
    /\ half \in BOOLEAN
    /\ written \cup exposed \cup cost \subseteq Queries
    /\ clock \in 0..MaxClock
    /\ faults \in 0..MaxFaults

(* The tasks that hold a slot of the semaphore.                            *)
Holders == At("queued") \cup At("writing") \cup At("written")

(* No more writes are handed to the pool than the semaphore has slots, nor *)
(* does it count a slot as free that one of them holds, through hand-overs *)
(* to waiters, shutdowns and restarts.                                     *)
WritersBounded ==
    Cardinality(Holders) + (IF loop.at = "down" THEN 0 ELSE value) <= Slots

(* However the synchronous fallback, the background task and a prune meet, *)
(* no record is in the log twice.                                          *)
WrittenOnce == \A i, j \in DOMAIN file : file[i] = file[j] => i = j

WithinRetention(q) == clock <= stamp[q] + Retention

(* A prune drops no record that is within its retention, but for those     *)
(* appended while it runs and those it still has to write back when the    *)
(* process dies or the disk fills up; and the answer to GET audit-log has, *)
(* for whatever window, all that the file should have and nothing that is  *)
(* outside of it.                                                          *)
PruneKeepsSettled ==
    /\ \A q \in written \ (exposed \cup cost) :
          WithinRetention(q) => q \in Range(file) \/ q \in Range(kept)
    /\ loop.at = "reading" =>
          \A since, until \in 0..clock : \A q \in written \ (exposed \cup cost) :
              WithinRetention(q) =>
                  (q \in Range(Listed(since, until)) <=> stamp[q] \in since..until)

(* "we never silently drop audit records": the record of every answered    *)
(* query is appended in the end, by a thread or by the loop, but for those *)
(* that a crash, a shutdown or a full disk took - of a full disk the one   *)
(* that was being written and one that then continues its half line.       *)
EventuallyRecorded == \A q \in Queries : (q <= asked) ~> (q \in written \cup cost)

(* The same promise, of the file: when no prune is under way, the records  *)
(* that were appended and are within their retention are in it.  It does   *)
(* not hold: a thread appends between a prune's read and its truncation    *)
(* (README).                                                               *)
NothingDropped ==
    loop = Idle =>
        \A q \in written : WithinRetention(q) => q \in Range(file)
===============================================================================
