---------------------------- MODULE AuditLogProofs ----------------------------
(***************************************************************************)
(* Theorems about AuditLog, for every number of queries, slots, threads,   *)
(* ticks and faults.                                                       *)
(*                                                                         *)
(*   SlotsInv   the count and the tasks that hold a slot   SlotsSuffice     *)
(*   FreshInv   who is still to write which record         Singly           *)
(*   FileInv    what the file has and a prune holds of it  Settles          *)
(*                                                                         *)
(* LinesOf is a recursive function: LinesType is shown by induction over    *)
(* the lines, as a set of naturals that holds each successor of its own.    *)
(***************************************************************************)
EXTENDS AuditLog, FiniteSetTheorems, SequenceTheorems, WellFoundedInduction,
        TLAPS

(* The count is at most the number of slots that no task holds.  Once the  *)
(* loop has ended nobody counts, but the tasks that are left only go.      *)
SlotsInv ==
    /\ asked \in 0..NumQueries
    /\ stage \in [Queries -> Stages]
    /\ value \in 0..Slots
    /\ \A q \in Queries : q > asked => stage[q] = "none"
    /\ IF loop.at = "down"
       THEN Cardinality(Holders) <= Slots
       ELSE value + Cardinality(Holders) <= Slots

LEMMA HoldersFinite ==
    /\ IsFiniteSet(Holders)
    /\ Cardinality(Holders) \in Nat
<1>1. IsFiniteSet(Queries)
  BY AuditLogAssumption, FS_Interval DEF Queries
<1>2. Holders \subseteq Queries
  BY DEF Holders, At
<1>3. IsFiniteSet(Holders)
  BY <1>1, <1>2, FS_Subset
<1>4. QED
  BY <1>3, FS_CardinalityType

(* A step that keeps the holders keeps what is counted.                    *)
LEMMA Fewer ==
    ASSUME NEW S, S \subseteq Holders
    PROVE  Cardinality(S) <= Cardinality(Holders)
  BY HoldersFinite, FS_Subset

LEMMA OneMore ==
    ASSUME NEW q, q \notin Holders
    PROVE  Cardinality(Holders \cup {q}) = Cardinality(Holders) + 1
  BY HoldersFinite, FS_AddElement

LEMMA OneLess ==
    ASSUME NEW q, q \in Holders
    PROVE  Cardinality(Holders \ {q}) = Cardinality(Holders) - 1
  BY HoldersFinite, FS_RemoveElement

LEMMA NoHolders == Cardinality({}) = 0
  BY FS_EmptySet

-------------------------------------------------------------------------------
LEMMA InitSlots == Init => SlotsInv
<1> SUFFICES ASSUME Init PROVE SlotsInv
  OBVIOUS
<1>1. Holders = {}
  BY DEF Init, Holders, At
<1>2. Cardinality(Holders) = 0
  BY <1>1, NoHolders
<1>3. QED
  BY <1>2, AuditLogAssumption DEF Init, SlotsInv, Stages, Idle

LEMMA NextSlots == SlotsInv /\ [Next]_vars => SlotsInv'
<1> SUFFICES ASSUME SlotsInv, [Next]_vars PROVE SlotsInv'
  OBVIOUS
<1> USE AuditLogAssumption
<1>1. CASE ScheduleTask
  <2>1. asked + 1 \in Queries /\ stage[asked + 1] = "none"
    BY <1>1 DEF ScheduleTask, SlotsInv, Queries
  <2>2. Holders' = Holders
    BY <1>1, <2>1 DEF ScheduleTask, SlotsInv, Move, Holders, At, Stages
  <2>3. QED
    BY <1>1, <2>1, <2>2 DEF ScheduleTask, SlotsInv, Move, Stages, Queries, Idle
<1>2. CASE WriteSync
  <2>1. Holders' = Holders
    BY <1>2 DEF WriteSync, Holders, At
  <2>2. QED
    BY <1>2, <2>1 DEF WriteSync, SlotsInv, Idle, Queries
<1>3. CASE AppendSync \/ PruneRead \/ PruneEmpty \/ PruneWrite \/ PruneWriteFails
           \/ Read \/ Tick
  <2>1. /\ UNCHANGED <<asked, stage, value>>
        /\ loop.at # "down" /\ loop'.at # "down"
        \/ UNCHANGED <<asked, stage, value, loop>>
    <3>1. CASE AppendSync \/ PruneRead \/ PruneEmpty
      BY <3>1 DEF AppendSync, PruneRead, PruneEmpty, Idle
    <3>2. CASE PruneWrite \/ PruneWriteFails
      BY <3>2 DEF PruneWrite, PruneWriteFails, Idle
    <3>3. CASE Read \/ Tick
      BY <3>3 DEF Read, Tick, Idle
    <3>4. QED
      BY <1>3, <3>1, <3>2, <3>3
  <2>2. Holders' = Holders
    BY <2>1 DEF Holders, At
  <2>3. QED
    BY <2>1, <2>2 DEF SlotsInv
<1>4. ASSUME NEW q \in Queries, StartTask(q) PROVE SlotsInv'
  <2>1. stage[q] = "task" /\ q <= asked
    BY <1>4 DEF StartTask, First, At, SlotsInv, Queries
  <2>2. CASE Locked
    <3>1. Holders' = Holders
      BY <1>4, <2>1, <2>2 DEF StartTask, SlotsInv, Move, Holders, At, Stages
    <3>2. QED
      BY <1>4, <2>1, <2>2, <3>1
         DEF StartTask, SlotsInv, Move, Stages, Queries, Idle
  <2>3. CASE ~Locked
    <3>1. Holders' = Holders \cup {q} /\ q \notin Holders
      BY <1>4, <2>1, <2>3 DEF StartTask, SlotsInv, Move, Holders, At, Stages
    <3>2. Cardinality(Holders)' = Cardinality(Holders) + 1
      BY <3>1, OneMore
    <3>3. value > 0
      BY <2>3 DEF Locked, SlotsInv
    <3>4. loop.at # "down" /\ loop' = loop /\ value' = value - 1
      BY <1>4, <2>3 DEF StartTask, Idle
    <3>5. value' + Cardinality(Holders)' <= Slots /\ value' \in 0..Slots
      BY <3>2, <3>3, <3>4, HoldersFinite DEF SlotsInv
    <3>6. /\ stage' \in [Queries -> Stages] /\ asked' = asked
          /\ \A r \in Queries : r > asked => stage'[r] = "none"
      BY <1>4, <2>1, <2>3 DEF StartTask, SlotsInv, Move, Stages, Queries
    <3>7. QED
      BY <3>4, <3>5, <3>6 DEF SlotsInv
  <2>4. QED
    BY <2>2, <2>3
<1>5. ASSUME NEW q \in Queries, Thread(q) \/ WriteFails(q) PROVE SlotsInv'
  <2>1. UNCHANGED <<asked, value>>
    BY <1>5 DEF Thread, StartWrite, AppendLine, WriteFails
  <2>2. CASE UNCHANGED stage
    <3>1. Holders' = Holders
      BY <2>2 DEF Holders, At
    <3>2. \/ loop' = loop
          \/ loop.at # "down" /\ loop' = [at |-> "idle", query |-> None]
      <4>1. CASE Thread(q)
        BY <4>1 DEF Thread, StartWrite, AppendLine
      <4>2. CASE WriteFails(q)
        BY <4>2 DEF WriteFails, Idle
      <4>3. QED
        BY <1>5, <4>1, <4>2
    <3>3. QED
      BY <2>1, <2>2, <3>1, <3>2 DEF SlotsInv
  <2>3. CASE ~UNCHANGED stage
    <3>1. \E s \in {"writing", "written"} : stage' = [stage EXCEPT ![q] = s]
      <4>1. CASE Thread(q)
        BY <4>1, <2>3 DEF Thread, StartWrite, AppendLine, Move
      <4>2. CASE WriteFails(q)
        BY <4>2, <2>3 DEF WriteFails, Move
      <4>3. QED
        BY <1>5, <4>1, <4>2
    <3>2. stage[q] \in {"queued", "writing"} /\ loop' = loop
      BY <1>5, <2>3 DEF Thread, StartWrite, AppendLine, WriteFails, First, At
    <3>3. Holders' = Holders
      BY <3>1, <3>2 DEF SlotsInv, Holders, At, Stages
    <3>4. QED
      BY <2>1, <3>1, <3>2, <3>3 DEF SlotsInv, Stages, Queries
  <2>4. QED
    BY <2>2, <2>3
<1>6. ASSUME NEW q \in Queries, Release(q) PROVE SlotsInv'
  <2>1. /\ stage[q] = "written" /\ q \in Holders
        /\ loop.at # "down" /\ UNCHANGED <<asked, loop>>
    BY <1>6 DEF Release, At, Holders, Idle
  <2>2. /\ stage' \in [Queries -> Stages]
        /\ \A r \in Queries : r > asked => stage'[r] = "none"
    BY <1>6, <2>1 DEF Release, SlotsInv, First, At, Stages, Queries
  <2>3. CASE At("waiting") = {}
    <3>1. Holders' = Holders \ {q} /\ value' = value + 1
      BY <1>6, <2>1, <2>3 DEF Release, SlotsInv, First, Holders, At, Stages
    <3>2. Cardinality(Holders)' = Cardinality(Holders) - 1
      BY <2>1, <3>1, OneLess
    <3>3. Cardinality(Holders) # 0
      BY <2>1, HoldersFinite, FS_EmptySet
    <3>4. value' \in 0..Slots /\ value' + Cardinality(Holders)' <= Slots
      BY <2>1, <3>1, <3>2, <3>3, HoldersFinite DEF SlotsInv
    <3>5. QED
      BY <2>1, <2>2, <3>4 DEF SlotsInv
  <2>4. ASSUME NEW w \in Queries, First("waiting", w) PROVE SlotsInv'
    <3>1. At("waiting") # {} /\ w \notin Holders \ {q} /\ w # q
      BY <2>1, <2>4 DEF First, At, Holders
    <3>2. \A r \in Queries : First("waiting", r) <=> r = w
      BY <2>4 DEF First, At, Queries
    <3>3. Holders' = (Holders \ {q}) \cup {w} /\ value' = value
      BY <1>6, <2>1, <3>1, <3>2 DEF Release, SlotsInv, Holders, At, Stages
    <3>4. /\ IsFiniteSet(Holders \ {q})
          /\ Cardinality(Holders \ {q}) = Cardinality(Holders) - 1
      BY <2>1, HoldersFinite, FS_RemoveElement
    <3>5. Cardinality((Holders \ {q}) \cup {w})
             = Cardinality(Holders \ {q}) + 1
      BY <3>1, <3>4, FS_AddElement
    <3>6. Cardinality(Holders)' = Cardinality(Holders)
      BY <3>3, <3>4, <3>5, HoldersFinite
    <3>7. QED
      BY <2>1, <2>2, <3>3, <3>6 DEF SlotsInv
  <2>5. CASE At("waiting") # {} /\ ~ \E w \in Queries : First("waiting", w)
    <3>1. Holders' = Holders \ {q} /\ value' = value
      BY <1>6, <2>1, <2>5 DEF Release, SlotsInv, Holders, At, Stages
    <3>2. Cardinality(Holders)' = Cardinality(Holders) - 1
      BY <2>1, <3>1, OneLess
    <3>3. QED
      BY <2>1, <2>2, <3>1, <3>2, HoldersFinite DEF SlotsInv
  <2>6. QED
    BY <2>3, <2>4, <2>5
<1>7. CASE Shutdown
  <2>1. /\ stage' \in [Queries -> Stages]
        /\ \A r \in Queries : stage[r] = "none" => stage'[r] = "none"
        /\ Holders' \subseteq Holders
    BY <1>7 DEF Shutdown, Cancelled, SlotsInv, Stages, Holders, At
  <2>2. Cardinality(Holders)' <= Cardinality(Holders)
    BY <2>1, Fewer
  <2>3. Cardinality(Holders) <= Slots
    BY <1>7, HoldersFinite DEF Shutdown, SlotsInv, Idle
  <2>4. Cardinality(Holders)' <= Slots
    BY <2>1, <2>2, <2>3, HoldersFinite, FS_Subset, FS_CardinalityType
  <2>5. QED
    BY <1>7, <2>1, <2>4 DEF Shutdown, SlotsInv, Idle
<1>8. CASE Restart \/ Crash
  <2>1. /\ stage' \in [Queries -> Stages]
        /\ \A r \in Queries : stage[r] = "none" => stage'[r] = "none"
        /\ Holders' = {}
    BY <1>8 DEF Restart, Crash, Cancelled, SlotsInv, Stages, Holders, At
  <2>2. Cardinality(Holders)' = 0
    BY <2>1, NoHolders
  <2>3. QED
    BY <1>8, <2>1, <2>2 DEF Restart, Crash, SlotsInv, Idle
<1>9. CASE UNCHANGED vars
  <2>1. Holders' = Holders
    BY <1>9 DEF vars, Holders, At
  <2>2. QED
    BY <1>9, <2>1 DEF vars, SlotsInv
<1>10. QED
  BY <1>1, <1>2, <1>3, <1>4, <1>5, <1>6, <1>7, <1>8, <1>9
     DEF Next, LoopTurn, Serve

-------------------------------------------------------------------------------
(* The pool is never handed more writes than the semaphore has slots,      *)
(* whatever order answers, tasks, threads, prunes, failures, shutdowns and *)
(* crashes come in.                                                        *)
THEOREM SlotsSuffice == Spec => []WritersBounded
<1>1. SlotsInv => WritersBounded
  BY HoldersFinite, AuditLogAssumption DEF SlotsInv, WritersBounded
<1>2. QED
  BY InitSlots, NextSlots, <1>1, PTL DEF Spec

-------------------------------------------------------------------------------
(* The lines of the file.                                                  *)

(* A set of naturals that holds 0 and each successor of its own is Nat.    *)
LEMMA Induction ==
    ASSUME NEW S \in SUBSET Nat, 0 \in S, \A n \in S : n + 1 \in S
    PROVE  S = Nat
<1> SUFFICES ASSUME NEW n \in Nat \ S PROVE FALSE
  OBVIOUS
<1> DEFINE R == {p \in Nat \X Nat : p[1] < p[2]}
<1>1. OpToRel(<, Nat) = R
  BY DEF OpToRel
<1>2. IsWellFoundedOn(R, Nat)
  BY <1>1, NatLessThanWellFounded
<1>3. PICK m \in Nat \ S : \A k \in Nat \ S : <<k, m>> \notin R
  <2>1. Nat \ S \in SUBSET Nat
    OBVIOUS
  <2>2. QED
    BY <1>2, <2>1, WFMin
<1>4. m # 0 /\ m - 1 \in Nat /\ <<m - 1, m>> \in R
  BY <1>3
<1>5. m - 1 \in S
  BY <1>3, <1>4
<1>6. QED
  BY <1>3, <1>4, <1>5

(* No line is in s twice.                                                  *)
Once(s) == \A i, j \in DOMAIN s : s[i] = s[j] => i = j

LEMMA Appended ==
    ASSUME NEW s \in Seq(Queries), NEW q \in Queries
    PROVE  /\ Append(s, q) \in Seq(Queries)
           /\ Range(Append(s, q)) = Range(s) \cup {q}
           /\ Once(s) /\ q \notin Range(s) => Once(Append(s, q))
<1> DEFINE t == Append(s, q)
           n == Len(s)
<1>1. /\ n \in Nat /\ DOMAIN s = 1..n
      /\ t \in Seq(Queries) /\ DOMAIN t = 1..(n + 1) /\ t[n + 1] = q
      /\ \A i \in 1..n : t[i] = s[i]
  OBVIOUS
<1> HIDE DEF t, n
<1>2. Range(t) = Range(s) \cup {q}
  <2>1. \A x \in Range(t) : x \in Range(s) \/ x = q
    <3> SUFFICES ASSUME NEW i \in 1..(n + 1) PROVE t[i] \in Range(s) \/ t[i] = q
      BY <1>1 DEF Range
    <3>1. i \in 1..n \/ i = n + 1
      BY <1>1
    <3>2. QED
      BY <1>1, <3>1 DEF Range
  <2>2. \A x \in Range(s) : x \in Range(t)
    <3> SUFFICES ASSUME NEW i \in 1..n PROVE s[i] \in Range(t)
      BY <1>1 DEF Range
    <3>1. i \in 1..(n + 1)
      BY <1>1
    <3>2. QED
      BY <1>1, <3>1 DEF Range
  <2>3. n + 1 \in 1..(n + 1)
    BY <1>1
  <2>4. q \in Range(t)
    BY <1>1, <2>3 DEF Range
  <2>5. QED
    BY <2>1, <2>2, <2>4
<1>3. ASSUME Once(s), q \notin Range(s) PROVE Once(t)
  <2> SUFFICES ASSUME NEW i \in 1..(n + 1), NEW j \in 1..(n + 1), t[i] = t[j]
               PROVE  i = j
    BY <1>1 DEF Once
  <2>1. \A k \in 1..(n + 1) : k \in 1..n \/ k = n + 1
    BY <1>1
  <2>2. \A k \in 1..n : s[k] # q
    BY <1>1, <1>3 DEF Range
  <2>3. QED
    BY <1>1, <1>3, <2>1, <2>2 DEF Once
<1>4. QED
  BY <1>1, <1>2, <1>3 DEF t

(* The kept lines and what stays of the file behind them.                  *)
LEMMA Joined ==
    ASSUME NEW s \in Seq(Queries), NEW t \in Seq(Queries), NEW n \in 0..Len(t)
    PROVE  LET u == s \o SubSeq(t, n + 1, Len(t))
           IN  /\ u \in Seq(Queries)
               /\ Range(s) \subseteq Range(u) /\ Range(u) \subseteq Range(s) \cup Range(t)
               /\ Once(s) /\ Once(t) /\ Range(s) \cap Range(t) = {} => Once(u)
<1> DEFINE m == Len(s)
           r == SubSeq(t, n + 1, Len(t))
           k == Len(r)
           u == s \o r
<1>1. /\ m \in Nat /\ DOMAIN s = 1..m /\ Len(t) \in Nat /\ n \in Nat /\ n <= Len(t)
      /\ DOMAIN t = 1..Len(t)
  OBVIOUS
<1>2. /\ r \in Seq(Queries) /\ k = Len(t) - n /\ k \in Nat
      /\ \A i \in 1..k : r[i] = t[n + i] /\ n + i \in DOMAIN t
  <2>1. n + 1 \in 1..(Len(t) + 1) /\ Len(t) \in ((n + 1) - 1)..Len(t)
    BY <1>1
  <2>2. /\ r \in Seq(Queries) /\ k = Len(t) - (n + 1) + 1
        /\ \A i \in 1..(Len(t) - (n + 1) + 1) : r[i] = t[(n + 1) + i - 1]
    BY <2>1, SubSeqProperties
  <2> HIDE DEF r, k
  <2>3. k = Len(t) - n /\ k \in Nat
    BY <1>1, <2>2
  <2>4. ASSUME NEW i \in 1..k PROVE r[i] = t[n + i] /\ n + i \in DOMAIN t
    <3>1. i \in 1..(Len(t) - (n + 1) + 1) /\ (n + 1) + i - 1 = n + i /\ n + i \in 1..Len(t)
      BY <1>1, <2>3
    <3>2. r[i] = t[(n + 1) + i - 1]
      BY <2>2, <3>1
    <3>3. QED
      BY <1>1, <3>1, <3>2
  <2>5. QED
    BY <2>2, <2>3, <2>4
<1> HIDE DEF r
<1>3. /\ u \in Seq(Queries) /\ DOMAIN u = 1..(m + k)
      /\ \A i \in 1..m : u[i] = s[i]
      /\ \A i \in 1..(m + k) : i \notin 1..m => u[i] = r[i - m]
  <2>1. /\ u \in Seq(Queries) /\ Len(u) = m + k
        /\ \A i \in 1..(m + k) : u[i] = IF i <= m THEN s[i] ELSE r[i - m]
    BY <1>2, ConcatProperties
  <2> HIDE DEF u, m, k
  <2>2. DOMAIN u = 1..(m + k)
    BY <2>1
  <2>3. \A i \in 1..m : i \in 1..(m + k) /\ i <= m
    BY <1>1, <1>2
  <2>4. \A i \in 1..(m + k) : i \notin 1..m => ~(i <= m)
    BY <1>1, <1>2
  <2>5. QED
    BY <2>1, <2>2, <2>3, <2>4
<1> HIDE DEF u, m, k
<1>4. ASSUME NEW i \in 1..(m + k), i \notin 1..m
      PROVE  u[i] = t[n + (i - m)] /\ n + (i - m) \in DOMAIN t /\ i - m \in Int
  <2>1. i - m \in 1..k
    BY <1>1, <1>2, <1>4
  <2> DEFINE j == i - m
  <2>2. u[i] = r[j]
    BY <1>3, <1>4
  <2>3. j \in 1..k /\ j \in Int
    BY <1>2, <2>1
  <2> HIDE DEF j
  <2>4. u[i] = t[n + j] /\ n + j \in DOMAIN t
    BY <1>2, <2>2, <2>3
  <2>5. QED
    BY <2>3, <2>4 DEF j
<1>5. Range(s) \subseteq Range(u)
  <2> SUFFICES ASSUME NEW i \in 1..m PROVE s[i] \in Range(u)
    BY <1>1 DEF Range
  <2>1. i \in 1..(m + k)
    BY <1>1, <1>2
  <2>2. QED
    BY <1>3, <2>1 DEF Range
<1>6. Range(u) \subseteq Range(s) \cup Range(t)
  <2> SUFFICES ASSUME NEW i \in 1..(m + k) PROVE u[i] \in Range(s) \cup Range(t)
    BY <1>3 DEF Range
  <2>1. CASE i \in 1..m
    BY <1>1, <1>3, <2>1 DEF Range
  <2>2. CASE i \notin 1..m
    BY <1>4, <2>2 DEF Range
  <2>3. QED
    BY <2>1, <2>2
<1>7. ASSUME Once(s), Once(t), Range(s) \cap Range(t) = {} PROVE Once(u)
  <2> SUFFICES ASSUME NEW i \in 1..(m + k), NEW j \in 1..(m + k), u[i] = u[j]
               PROVE  i = j
    BY <1>3 DEF Once
  <2>1. \A x \in DOMAIN s, y \in DOMAIN t : s[x] # t[y]
    BY <1>7 DEF Range
  <2>2. CASE i \in 1..m /\ j \in 1..m
    BY <1>1, <1>3, <1>7, <2>2 DEF Once
  <2>3. CASE i \notin 1..m /\ j \notin 1..m
    <3>1. n + (i - m) = n + (j - m)
      BY <1>4, <1>7, <2>3 DEF Once
    <3>2. QED
      BY <1>1, <1>4, <2>3, <3>1
  <2>4. CASE ~(i \in 1..m <=> j \in 1..m)
    BY <1>1, <1>3, <1>4, <2>1, <2>4
  <2>5. QED
    BY <2>2, <2>3, <2>4
<1>8. QED
  BY <1>3, <1>5, <1>6, <1>7 DEF u, r

(* The lines of S are those, each as often as in the file.                 *)
LEMMA LinesType ==
    ASSUME file \in Seq(Queries), NEW S
    PROVE  /\ LinesOf(S) \in Seq(Queries)
           /\ Range(LinesOf(S)) = Range(file) \cap S
           /\ Once(file) => Once(LinesOf(S))
<1> DEFINE l == Len(file)
           g(h, n) == IF n = 0 THEN <<>>
                      ELSE IF file[n] \in S THEN Append(h[n - 1], file[n]) ELSE h[n - 1]
           Built == {n \in Nat : n <= l => \E h \in [0..n -> Seq(Queries)] :
                                              h = [m \in 0..n |-> g(h, m)]}
<1>0. l \in Nat /\ DOMAIN file = 1..l /\ \A i \in 1..l : file[i] \in Queries
  OBVIOUS
<1>00. <<>> \in Seq(Queries)
  OBVIOUS
<1> HIDE DEF l
<1>1. 0 \in Built
  <2> DEFINE h == [m \in 0..0 |-> <<>>]
  <2>1. h \in [0..0 -> Seq(Queries)]
    BY <1>00
  <2>2. h = [m \in 0..0 |-> g(h, m)]
    OBVIOUS
  <2>3. QED
    BY <2>1, <2>2
<1>2. ASSUME NEW n \in Built PROVE n + 1 \in Built
  <2>00. n + 1 \in Nat
    OBVIOUS
  <2> SUFFICES ASSUME n + 1 <= l
               PROVE  \E h \in [0..(n + 1) -> Seq(Queries)] :
                         h = [m \in 0..(n + 1) |-> g(h, m)]
    BY <2>00
  <2>0. n \in Nat /\ n <= l /\ n + 1 \in 1..l
    BY <1>0
  <2>1. PICK h \in [0..n -> Seq(Queries)] : h = [m \in 0..n |-> g(h, m)]
    BY <2>0
  <2> DEFINE top == IF file[n + 1] \in S THEN Append(h[n], file[n + 1]) ELSE h[n]
             k == [m \in 0..(n + 1) |-> IF m = n + 1 THEN top ELSE h[m]]
  <2>2. top \in Seq(Queries)
    <3>1. h[n] \in Seq(Queries) /\ file[n + 1] \in Queries
      BY <1>0, <2>0, <2>1
    <3>2. QED
      BY <3>1
  <2>3. k \in [0..(n + 1) -> Seq(Queries)]
    <3> HIDE DEF top
    <3>1. QED
      BY <2>0, <2>2
  <2>4. ASSUME NEW m \in 0..(n + 1) PROVE k[m] = g(k, m)
    <3>1. CASE m = n + 1
      <4>1. m # 0 /\ m - 1 = n /\ n \in 0..(n + 1) /\ n # n + 1
        BY <2>0, <3>1
      <4>2. k[m - 1] = h[n] /\ k[m] = top
        BY <3>1, <4>1
      <4>3. QED
        BY <3>1, <4>1, <4>2
    <3>2. CASE m # n + 1
      <4>1. /\ m \in 0..n /\ k[m] = h[m]
            /\ m # 0 => /\ m - 1 \in 0..(n + 1) /\ m - 1 # n + 1
        BY <2>0, <3>2
      <4>2. m # 0 => k[m - 1] = h[m - 1]
        BY <4>1
      <4>3. h[m] = g(h, m)
        BY <2>1, <4>1
      <4> HIDE DEF k
      <4>4. QED
        BY <4>1, <4>2, <4>3
    <3>3. QED
      BY <3>1, <3>2
  <2>5. k = [m \in 0..(n + 1) |-> g(k, m)]
    BY <2>4
  <2> HIDE DEF k
  <2>6. QED
    BY <2>3, <2>5
<1>3. Built = Nat
  <2> HIDE DEF Built
  <2>1. Built \in SUBSET Nat
    BY DEF Built
  <2>2. QED
    BY <1>1, <1>2, <2>1, Induction
<1>4. \E h : h = [n \in 0..l |-> g(h, n)]
  <2>1. l \in Built
    BY <1>0, <1>3
  <2>2. l <= l
    BY <1>0
  <2>3. QED
    BY <2>1, <2>2
<1> DEFINE f == CHOOSE f : f = [n \in 0..l |-> g(f, n)]
<1>5. f = [n \in 0..l |-> g(f, n)]
  BY <1>4
<1>6. LinesOf(S) = f[l]
  BY DEF LinesOf, l
<1> HIDE DEF f
<1> DEFINE Good(n) == /\ f[n] \in Seq(Queries)
                      /\ Range(f[n]) = {file[i] : i \in 1..n} \cap S
                      /\ Once(file) => Once(f[n])
           Agreed == {n \in Nat : n <= l => Good(n)}
<1>7. 0 \in Agreed
  <2>1. f[0] = <<>>
    BY <1>0, <1>5
  <2>2. Range(<<>>) = {} /\ Once(<<>>) /\ 1..0 = {}
    BY DEF Range, Once
  <2>3. QED
    BY <1>00, <2>1, <2>2
<1>8. ASSUME NEW n \in Agreed PROVE n + 1 \in Agreed
  <2> SUFFICES ASSUME n + 1 <= l PROVE Good(n + 1)
    OBVIOUS
  <2>1. n \in Nat /\ n <= l /\ n + 1 \in 1..l /\ n + 1 \in 0..l
    BY <1>0
  <2>2. Good(n)
    BY <2>1
  <2>3. f[n + 1] = IF file[n + 1] \in S THEN Append(f[n], file[n + 1]) ELSE f[n]
    <3>1. f[n + 1] = g(f, n + 1)
      BY <1>5, <2>1
    <3>2. n + 1 # 0 /\ (n + 1) - 1 = n
      BY <2>1
    <3>3. QED
      BY <3>1, <3>2
  <2>4. {file[i] : i \in 1..(n + 1)} = {file[i] : i \in 1..n} \cup {file[n + 1]}
    <3>1. 1..(n + 1) = 1..n \cup {n + 1}
      BY <2>1
    <3>2. QED
      BY <3>1
  <2>5. ASSUME Once(file) PROVE file[n + 1] \notin {file[i] : i \in 1..n}
    <3> SUFFICES ASSUME NEW i \in 1..n, file[i] = file[n + 1] PROVE FALSE
      OBVIOUS
    <3>1. i \in 1..l /\ i # n + 1
      BY <1>0, <2>1
    <3>2. QED
      BY <1>0, <2>1, <2>5, <3>1 DEF Once
  <2>6. file[n + 1] \in Queries
    BY <1>0, <2>1
  <2>7. CASE file[n + 1] \in S
    <3>1. f[n + 1] = Append(f[n], file[n + 1])
      BY <2>3, <2>7
    <3>2. Range(f[n + 1]) = Range(f[n]) \cup {file[n + 1]} /\ f[n + 1] \in Seq(Queries)
      BY <2>2, <2>6, <3>1, Appended
    <3>3. Once(file) => Once(f[n + 1])
      <4>1. Once(file) => file[n + 1] \notin Range(f[n])
        BY <2>2, <2>5
      <4>2. QED
        BY <2>2, <2>6, <3>1, <4>1, Appended
    <3>4. QED
      BY <2>2, <2>4, <2>7, <3>2, <3>3
  <2>8. CASE file[n + 1] \notin S
    BY <2>2, <2>3, <2>4, <2>8
  <2>9. QED
    BY <2>7, <2>8
<1>9. Agreed = Nat
  <2> HIDE DEF Agreed
  <2>1. Agreed \in SUBSET Nat
    BY DEF Agreed
  <2>2. QED
    BY <1>7, <1>8, <2>1, Induction
<1>10. Good(l)
  <2>1. l \in Agreed
    <3> HIDE DEF Agreed
    <3>1. QED
      BY <1>0, <1>9
  <2>2. l <= l
    BY <1>0
  <2>3. QED
    BY <2>1, <2>2
<1>11. Range(file) = {file[i] : i \in 1..l}
  BY <1>0 DEF Range
<1>12. QED
  BY <1>6, <1>10, <1>11

-------------------------------------------------------------------------------
(* The log.                                                                *)

(* Every variable that the semaphore has nothing to do with.               *)
TypeInv ==
    /\ loop \in [at : LoopStates, query : Queries \cup {None}]
    /\ kept \in Seq(Queries) /\ file \in Seq(Queries) /\ half \in BOOLEAN
    /\ stamp \in [Queries -> 0..MaxClock] /\ clock \in 0..MaxClock
    /\ written \cup exposed \cup cost \subseteq Queries
    /\ faults \in 0..MaxFaults

(* The record of q is still to be written.                                 *)
Yet(q) ==
    \/ q > asked \/ loop.query = q
    \/ stage[q] \in {"task", "waiting", "queued", "writing"}

(* One actor writes a record, once: the loop one that has no task.         *)
FreshInv ==
    /\ loop.query # None <=> loop.at = "sync"
    /\ loop.at = "sync" => stage[loop.query] = "none" /\ loop.query <= asked
    /\ \A q \in Queries : Yet(q) => q \notin written

Settled(q) == q \in written \ (exposed \cup cost) /\ WithinRetention(q)

(* What a prune keeps: it has read every settled record; once the file is  *)
(* empty, what is in the file was appended since.                          *)
FileInv ==
    /\ Range(file) \cup Range(kept) \subseteq written
    /\ Once(file) /\ Once(kept)
    /\ loop.at \notin {"pruning", "emptied"} => kept = <<>>
    /\ loop.at = "pruning" => /\ Range(kept) \subseteq Range(file)
                              /\ \A q \in Queries : Settled(q) => q \in Range(kept)
    /\ loop.at = "emptied" => /\ Range(kept) \cap Range(file) = {}
                              /\ Range(file) \subseteq exposed
    /\ \A q \in Queries : Settled(q) => q \in Range(file) \cup Range(kept)

LogInv == SlotsInv /\ TypeInv /\ FreshInv /\ FileInv

LEMMA NoLines == Range(<<>>) = {} /\ Once(<<>>)
  BY DEF Range, Once

(* The file and what a prune holds of it stay, and no record that has been *)
(* written gets another timestamp.                                         *)
LEMMA FileSame ==
    ASSUME TypeInv, FileInv, UNCHANGED <<file, kept, written, exposed>>,
           cost \subseteq cost',
           clock' \in Nat, clock <= clock',
           \A q \in written : stamp'[q] = stamp[q],
           loop'.at = loop.at
              \/ {loop.at, loop'.at} \cap {"pruning", "emptied"} = {}
    PROVE  FileInv'
<1>1. \A q \in Queries : Settled(q)' => Settled(q)
  <2> SUFFICES ASSUME NEW q \in Queries, Settled(q)' PROVE Settled(q)
    OBVIOUS
  <2>1. q \in written \ (exposed \cup cost) /\ clock' <= stamp[q] + Retention
    BY DEF Settled, WithinRetention
  <2>2. clock \in Nat /\ stamp[q] \in Nat
    BY DEF TypeInv
  <2>3. clock <= stamp[q] + Retention
    BY <2>1, <2>2, AuditLogAssumption
  <2>4. QED
    BY <2>1, <2>3 DEF Settled, WithinRetention
<1>2. QED
  BY <1>1 DEF FileInv

(* A record is appended, or is lost behind half a line.                    *)
LEMMA LogFile ==
    ASSUME TypeInv, FileInv, NEW q \in Queries, q \notin written, Log(q),
           UNCHANGED <<kept, stamp, clock>>, loop'.at = loop.at \/
              {loop.at, loop'.at} \cap {"pruning", "emptied"} = {}
    PROVE  /\ FileInv' /\ file' \in Seq(Queries) /\ half' \in BOOLEAN
           /\ written' \cup exposed' \cup cost' \subseteq Queries
           /\ written' \subseteq written \cup {q}
<1> DEFINE prunes == loop.at \in {"pruning", "emptied"}
<1>1. exposed' = IF prunes THEN exposed \cup {q} ELSE exposed
  BY DEF Log
<1>2. half' = FALSE
  BY DEF Log
<1>3. CASE half
  <2>1. UNCHANGED <<file, written>> /\ cost' = cost \cup {q}
    BY <1>3 DEF Log
  <2>2. \A r \in Queries : Settled(r)' => Settled(r)
    BY <1>1, <2>1 DEF Settled, WithinRetention
  <2>3. FileInv'
    BY <1>1, <2>1, <2>2 DEF FileInv
  <2>4. QED
    BY <1>1, <1>2, <2>1, <2>3 DEF TypeInv
<1>4. CASE ~half
  <2>1. file' = Append(file, q) /\ written' = written \cup {q} /\ UNCHANGED cost
    BY <1>4 DEF Log
  <2>2. q \notin Range(file)
    BY DEF FileInv
  <2>3. /\ file' \in Seq(Queries) /\ Range(file') = Range(file) \cup {q}
        /\ Once(file')
    BY <2>1, <2>2, Appended DEF TypeInv, FileInv
  <2>4. \A r \in Queries : Settled(r)' => Settled(r) \/ (r = q /\ ~prunes)
    BY <1>1, <2>1 DEF Settled, WithinRetention
  <2>5. q \notin Range(kept)
    BY DEF FileInv
  <2>6. /\ Range(file') \cup Range(kept') \subseteq written' /\ Once(kept')
        /\ loop'.at \notin {"pruning", "emptied"} => kept' = <<>>
        /\ loop'.at = "pruning" =>
              /\ Range(kept') \subseteq Range(file')
              /\ \A r \in Queries : Settled(r)' => r \in Range(kept')
    BY <2>1, <2>3, <2>4 DEF FileInv
  <2>7. loop'.at = "emptied" => /\ Range(kept') \cap Range(file') = {}
                                /\ Range(file') \subseteq exposed'
    BY <1>1, <2>3, <2>5 DEF FileInv
  <2>8. \A r \in Queries : Settled(r)' => r \in Range(file') \cup Range(kept')
    BY <2>3, <2>4 DEF FileInv
  <2>9. FileInv'
    BY <2>3, <2>6, <2>7, <2>8 DEF FileInv
  <2>10. QED
    BY <1>1, <1>2, <2>1, <2>3, <2>9 DEF TypeInv
<1>5. QED
  BY <1>3, <1>4 DEF TypeInv

(* A step of tasks: what is to be written after it was so before.          *)
LEMMA FreshSame ==
    ASSUME FreshInv, UNCHANGED <<loop, written>>, asked <= asked',
           loop.at = "sync" => stage'[loop.query] = stage[loop.query] /\ asked' = asked,
           \A q \in Queries : Yet(q)' => Yet(q)
    PROVE  FreshInv'
  BY DEF FreshInv

-------------------------------------------------------------------------------
LEMMA InitLog == Init => LogInv
<1> SUFFICES ASSUME Init PROVE LogInv
  OBVIOUS
<1>1. SlotsInv
  BY InitSlots
<1>2. /\ loop \in [at : LoopStates, query : Queries \cup {None}]
      /\ loop.at = "idle" /\ loop.query = None
  BY DEF Init, Idle, LoopStates
<1>3. kept \in Seq(Queries) /\ file \in Seq(Queries)
  BY DEF Init
<1>4. /\ half \in BOOLEAN /\ written \cup exposed \cup cost \subseteq Queries
      /\ stamp = [q \in Queries |-> 0] /\ clock = 0 /\ faults = 0
  BY DEF Init
<1>5. stamp \in [Queries -> 0..MaxClock] /\ clock \in 0..MaxClock /\ faults \in 0..MaxFaults
  BY <1>4, AuditLogAssumption
<1>6. TypeInv
  BY <1>2, <1>3, <1>4, <1>5 DEF TypeInv
<1>7. FreshInv
  BY <1>2 DEF Init, FreshInv
<1>8. FileInv
  BY <1>2, NoLines DEF Init, FileInv, Settled
<1>9. QED
  BY <1>1, <1>6, <1>7, <1>8 DEF LogInv

(* A query that has been answered, and one that the loop is writing.       *)
LEMMA Answered ==
    ASSUME LogInv
    PROVE  /\ \A q \in Queries : stage[q] # "none" => q <= asked
           /\ \A q \in Queries : loop.query = q => stage[q] = "none" /\ q <= asked
           /\ asked \in Nat /\ Queries \subseteq Nat /\ None \notin Queries
<1>1. asked \in Nat /\ Queries \subseteq Nat /\ None \notin Queries
  BY DEF LogInv, SlotsInv, Queries, None
<1>2. \A q \in Queries : q <= asked \/ q > asked
  BY <1>1
<1>3. QED
  BY <1>1, <1>2 DEF LogInv, SlotsInv, FreshInv

LEMMA AskLog ==
    ASSUME LogInv, ScheduleTask \/ WriteSync
    PROVE  TypeInv' /\ FreshInv' /\ FileInv'
<1> DEFINE a == asked + 1
<1>1. /\ a \in Queries /\ stage[a] = "none" /\ asked' = a /\ loop = Idle
      /\ UNCHANGED <<kept, file, half, written, exposed, cost, clock, faults>>
      /\ \A q \in Queries : q > a => q > asked
      /\ Yet(a) /\ ~(a <= asked)
  <2>1. /\ asked < NumQueries /\ asked' = a /\ loop = Idle
        /\ UNCHANGED <<kept, file, half, written, exposed, cost, clock, faults>>
    BY DEF ScheduleTask, WriteSync, log
  <2>2. asked \in Nat /\ NumQueries \in Nat
    BY AuditLogAssumption DEF LogInv, SlotsInv
  <2>3. a \in Queries /\ a > asked /\ ~(a <= asked)
    BY <2>1, <2>2 DEF Queries
  <2>4. \A q \in Queries : q > a => q > asked
    BY <2>2 DEF Queries
  <2>5. stage[a] = "none"
    BY <2>3 DEF LogInv, SlotsInv
  <2>6. QED
    BY <2>1, <2>3, <2>4, <2>5 DEF Yet
<1>2. a \notin written
  BY <1>1 DEF LogInv, FreshInv
<1> HIDE DEF a
<1>3. CASE ScheduleTask
  <2>1. /\ stage' = [stage EXCEPT ![a] = "task"] /\ UNCHANGED <<loop, stamp>>
    BY <1>3 DEF ScheduleTask, Move, a
  <2>2. TypeInv'
    BY <1>1, <2>1 DEF LogInv, TypeInv
  <2>3. FreshInv'
    <3>1. \A q \in Queries : Yet(q)' => Yet(q)
      BY <1>1, <2>1 DEF Yet, LogInv, SlotsInv
    <3>2. loop.at # "sync"
      BY <1>1 DEF Idle
    <3>3. QED
      BY <1>1, <2>1, <3>1, <3>2 DEF LogInv, FreshInv
  <2>4. FileInv'
    BY <1>1, <2>1, FileSame DEF LogInv, TypeInv
  <2>5. QED
    BY <2>2, <2>3, <2>4
<1>4. CASE WriteSync
  <2>1. /\ loop' = [at |-> "sync", query |-> a] /\ UNCHANGED stage
        /\ stamp' = [stamp EXCEPT ![a] = clock]
    BY <1>4 DEF WriteSync, a
  <2>2. TypeInv'
    BY <1>1, <2>1 DEF LogInv, TypeInv, LoopStates
  <2>3. FreshInv'
    <3>1. /\ loop'.query = a /\ loop'.at = "sync" /\ a # None /\ a <= asked'
      BY <1>1, <2>1, Answered DEF LogInv, SlotsInv
    <3>2. \A q \in Queries : Yet(q)' => Yet(q)
      BY <1>1, <2>1, <3>1 DEF Yet
    <3>3. QED
      BY <1>1, <2>1, <3>1, <3>2 DEF LogInv, FreshInv
  <2>4. FileInv'
    <3>1. \A q \in written : stamp'[q] = stamp[q]
      BY <1>2, <2>1 DEF LogInv, TypeInv
    <3>2. QED
      BY <1>1, <2>1, <3>1, FileSame DEF LogInv, TypeInv, Idle
  <2>5. QED
    BY <2>2, <2>3, <2>4
<1>5. QED
  BY <1>3, <1>4

LEMMA AppendSyncLog ==
    ASSUME LogInv, AppendSync
    PROVE  TypeInv' /\ FreshInv' /\ FileInv'
<1> DEFINE q == loop.query
<1>1. /\ loop.at = "sync" /\ Log(q) /\ loop' = Idle
      /\ UNCHANGED <<asked, stage, kept, stamp, clock, faults>>
  BY DEF AppendSync
<1>2. q \in Queries /\ q \notin written
  BY <1>1 DEF LogInv, TypeInv, FreshInv, Yet
<1>3. stage[q] = "none" /\ q <= asked
  BY <1>1 DEF LogInv, FreshInv
<1>4. /\ FileInv' /\ file' \in Seq(Queries) /\ half' \in BOOLEAN
      /\ written' \cup exposed' \cup cost' \subseteq Queries
      /\ written' \subseteq written \cup {q}
  <2> HIDE DEF q
  <2>1. QED
    BY <1>1, <1>2, LogFile DEF LogInv, Idle
<1>5. TypeInv'
  BY <1>1, <1>4 DEF LogInv, TypeInv, Idle, LoopStates
<1>6. \A r \in Queries : Yet(r)' => Yet(r) /\ r # q
  BY <1>1, <1>3, Answered DEF Yet, Idle
<1>7. FreshInv'
  BY <1>1, <1>4, <1>6 DEF LogInv, FreshInv, Idle
<1>8. QED
  BY <1>4, <1>5, <1>7

LEMMA TaskLog ==
    ASSUME LogInv, NEW q \in Queries, StartTask(q) \/ Release(q)
    PROVE  TypeInv' /\ FreshInv' /\ FileInv'
<1>1. /\ UNCHANGED <<asked, loop, kept, stamp, clock, faults, file, half, written,
                     exposed, cost>>
      /\ loop = Idle
  BY DEF StartTask, Release, log
<1>2. TypeInv'
  BY <1>1 DEF LogInv, TypeInv
<1>3. FileInv'
  BY <1>1, FileSame DEF LogInv, TypeInv
<1>4. \A r \in Queries : Yet(r)' => Yet(r)
  <2>1. CASE StartTask(q)
    BY <1>1, <2>1 DEF StartTask, First, At, Move, Yet, LogInv, SlotsInv
  <2>2. CASE Release(q)
    BY <1>1, <2>2 DEF Release, First, At, Yet
  <2>3. QED
    BY <2>1, <2>2
<1>5. FreshInv'
  BY <1>1, <1>4 DEF LogInv, FreshInv, Idle
<1>6. QED
  BY <1>2, <1>3, <1>5

LEMMA ThreadLog ==
    ASSUME LogInv, NEW q \in Queries, Thread(q)
    PROVE  TypeInv' /\ FreshInv' /\ FileInv'
<1>1. CASE StartWrite(q)
  <2>1. /\ stage[q] = "queued" /\ stage' = [stage EXCEPT ![q] = "writing"]
        /\ stamp' = [stamp EXCEPT ![q] = clock]
        /\ UNCHANGED <<asked, loop, kept, clock, faults, file, half, written, exposed,
                       cost>>
    BY <1>1 DEF StartWrite, First, At, Move, log
  <2>2. q \notin written /\ loop.query # q
    BY <2>1, Answered DEF LogInv, FreshInv, Yet
  <2>3. TypeInv'
    BY <2>1 DEF LogInv, TypeInv
  <2>4. FileInv'
    <3>1. \A r \in written : stamp'[r] = stamp[r]
      BY <2>1, <2>2 DEF LogInv, TypeInv
    <3>2. QED
      BY <2>1, <3>1, FileSame DEF LogInv, TypeInv
  <2>5. \A r \in Queries : Yet(r)' => Yet(r)
    BY <2>1 DEF Yet, LogInv, SlotsInv
  <2>6. \A r \in Queries : r # q => stage'[r] = stage[r]
    BY <2>1 DEF LogInv, SlotsInv
  <2>7. loop.at = "sync" => stage'[loop.query] = stage[loop.query]
    BY <2>2, <2>6 DEF LogInv, FreshInv, TypeInv
  <2>8. FreshInv'
    BY <2>1, <2>5, <2>7 DEF LogInv, FreshInv
  <2>9. QED
    BY <2>3, <2>4, <2>8
<1>2. CASE AppendLine(q)
  <2>1. /\ stage[q] = "writing" /\ stage' = [stage EXCEPT ![q] = "written"] /\ Log(q)
        /\ UNCHANGED <<asked, loop, kept, stamp, clock, faults>>
    BY <1>2 DEF AppendLine, At, Move
  <2>2. q \notin written /\ loop.query # q /\ q <= asked
    BY <2>1, Answered DEF LogInv, FreshInv, Yet
  <2>3. /\ FileInv' /\ file' \in Seq(Queries) /\ half' \in BOOLEAN
        /\ written' \cup exposed' \cup cost' \subseteq Queries
        /\ written' \subseteq written \cup {q}
    BY <2>1, <2>2, LogFile DEF LogInv
  <2>4. TypeInv'
    BY <2>1, <2>3 DEF LogInv, TypeInv
  <2>5. \A r \in Queries : Yet(r)' => Yet(r) /\ r # q
    BY <2>1, <2>2, Answered DEF Yet, LogInv, SlotsInv
  <2>6. \A r \in Queries : r # q => stage'[r] = stage[r]
    BY <2>1 DEF LogInv, SlotsInv
  <2>7. loop.at = "sync" => stage'[loop.query] = stage[loop.query]
    BY <2>2, <2>6 DEF LogInv, FreshInv, TypeInv
  <2>8. FreshInv'
    BY <2>1, <2>3, <2>5, <2>7 DEF LogInv, FreshInv
  <2>9. QED
    BY <2>3, <2>4, <2>8
<1>3. QED
  BY <1>1, <1>2 DEF Thread

LEMMA WriteFailsLog ==
    ASSUME LogInv, NEW q \in Queries, WriteFails(q)
    PROVE  TypeInv' /\ FreshInv' /\ FileInv'
<1>1. /\ half' \in BOOLEAN /\ cost' = cost \cup {q} /\ faults' \in 0..MaxFaults
      /\ UNCHANGED <<asked, kept, stamp, file, written, exposed, clock>>
  <2>1. faults' \in 0..MaxFaults
    BY AuditLogAssumption DEF WriteFails, Fault, LogInv, TypeInv
  <2>2. half' \in BOOLEAN
    BY DEF WriteFails, LogInv, TypeInv
  <2>3. QED
    BY <2>1, <2>2 DEF WriteFails
<1>2. \/ stage[q] = "writing" /\ stage' = [stage EXCEPT ![q] = "written"] /\ UNCHANGED loop
      \/ loop.at = "sync" /\ loop.query = q /\ loop' = Idle /\ UNCHANGED stage
  BY DEF WriteFails, At, Move
<1>3. TypeInv'
  BY <1>1, <1>2 DEF LogInv, TypeInv, Idle, LoopStates
<1>4. FileInv'
  BY <1>1, <1>2, FileSame DEF LogInv, TypeInv, Idle
<1>5. \A r \in Queries : Yet(r)' => Yet(r)
  BY <1>1, <1>2, Answered DEF Yet, LogInv, SlotsInv, Idle
<1>6. loop'.at = "sync" => /\ loop' = loop /\ loop.query # q
                           /\ stage'[loop.query] = stage[loop.query]
  <2>1. CASE stage[q] = "writing" /\ stage' = [stage EXCEPT ![q] = "written"]
             /\ UNCHANGED loop
    <3>1. loop.query # q
      BY <2>1, Answered
    <3>2. \A r \in Queries : r # q => stage'[r] = stage[r]
      BY <2>1 DEF LogInv, SlotsInv
    <3>3. QED
      BY <2>1, <3>1, <3>2 DEF LogInv, FreshInv, TypeInv
  <2>2. CASE loop' = Idle
    BY <2>2 DEF Idle
  <2>3. QED
    BY <1>2, <2>1, <2>2
<1>7. loop'.query # None <=> loop'.at = "sync"
  BY <1>2 DEF LogInv, FreshInv, Idle
<1>8. FreshInv'
  BY <1>1, <1>5, <1>6, <1>7 DEF LogInv, FreshInv
<1>9. QED
  BY <1>3, <1>4, <1>8

(* The loop turns to another thing than a write of its own.                *)
LEMMA TurnFresh ==
    ASSUME LogInv, UNCHANGED <<asked, stage, written>>, loop.at # "sync",
           loop'.query = None, loop'.at # "sync"
    PROVE  FreshInv'
<1>1. \A q \in Queries : Yet(q)' => Yet(q)
  BY Answered DEF Yet
<1>2. QED
  BY <1>1 DEF LogInv, FreshInv

LEMMA PruneReadLog ==
    ASSUME LogInv, PruneRead
    PROVE  TypeInv' /\ FreshInv' /\ FileInv'
<1> DEFINE S == {q \in Queries : ~Expired(q)}
<1>1. /\ loop = Idle /\ kept' = LinesOf(S) /\ loop' = [Idle EXCEPT !.at = "pruning"]
      /\ UNCHANGED <<asked, stage, stamp, file, half, written, exposed, cost, clock, faults>>
  BY DEF PruneRead, log
<1>2. /\ kept' \in Seq(Queries) /\ Range(kept') = Range(file) \cap S /\ Once(kept')
  BY <1>1, LinesType DEF LogInv, TypeInv, FileInv
<1>3. loop'.at = "pruning" /\ loop'.query = None /\ loop' \in [at : LoopStates, query : Queries \cup {None}]
  BY <1>1 DEF Idle, LoopStates
<1>4. TypeInv'
  BY <1>1, <1>2, <1>3 DEF LogInv, TypeInv
<1>5. FreshInv'
  BY <1>1, <1>3, TurnFresh DEF Idle
<1>6. ASSUME NEW q \in Queries, Settled(q)'
      PROVE  q \in Range(file) /\ q \in S
  <2>1. Settled(q)
    BY <1>1, <1>6 DEF Settled, WithinRetention
  <2>2. kept = <<>>
    BY <1>1 DEF LogInv, FileInv, Idle
  <2>3. q \in Range(file)
    BY <2>1, <2>2, NoLines DEF LogInv, FileInv
  <2>4. clock <= stamp[q] + Retention
    BY <2>1 DEF Settled, WithinRetention
  <2>5. clock \in Nat /\ stamp[q] \in Nat /\ Retention \in Nat
    BY AuditLogAssumption DEF LogInv, TypeInv
  <2>6. ~Expired(q)
    BY <2>4, <2>5 DEF Expired
  <2>7. QED
    BY <2>3, <2>6
<1> HIDE DEF S
<1>7. FileInv'
  BY <1>1, <1>2, <1>3, <1>6 DEF LogInv, FileInv
<1>8. QED
  BY <1>4, <1>5, <1>7

LEMMA PruneEmptyLog ==
    ASSUME LogInv, PruneEmpty
    PROVE  TypeInv' /\ FreshInv' /\ FileInv'
<1>1. /\ loop.at = "pruning" /\ file' = <<>> /\ half' = FALSE
      /\ loop' = [Idle EXCEPT !.at = "emptied"]
      /\ UNCHANGED <<asked, stage, kept, stamp, written, exposed, cost, clock, faults>>
  BY DEF PruneEmpty
<1>2. loop'.at = "emptied" /\ loop'.query = None /\ loop' \in [at : LoopStates, query : Queries \cup {None}]
  BY <1>1 DEF Idle, LoopStates
<1>3. file' \in Seq(Queries)
  BY <1>1
<1>4. TypeInv'
  BY <1>1, <1>2, <1>3 DEF LogInv, TypeInv
<1>5. FreshInv'
  BY <1>1, <1>2, TurnFresh
<1>6. \A q \in Queries : Settled(q)' => Settled(q)
  BY <1>1 DEF Settled, WithinRetention
<1>7. FileInv'
  BY <1>1, <1>2, <1>6, NoLines DEF LogInv, FileInv
<1>8. QED
  BY <1>4, <1>5, <1>7

LEMMA PruneWriteLog ==
    ASSUME LogInv, PruneWrite
    PROVE  TypeInv' /\ FreshInv' /\ FileInv'
<1>1. /\ loop.at = "emptied" /\ kept' = <<>> /\ loop' = [Idle EXCEPT !.at = "reading"]
      /\ UNCHANGED <<asked, stage, stamp, written, exposed, cost, clock, faults>>
  BY DEF PruneWrite
<1>2. PICK n \in IF kept = <<>> \/ file = <<>> THEN {0} ELSE DOMAIN file :
         /\ file' = kept \o SubSeq(file, n + 1, Len(file))
         /\ half' \in IF kept # <<>> /\ n = Len(file) THEN {FALSE, half} ELSE {half}
  BY DEF PruneWrite
<1>3. kept \in Seq(Queries) /\ file \in Seq(Queries)
  BY DEF LogInv, TypeInv
<1>4. n \in 0..Len(file)
  BY <1>2, <1>3
<1>5. /\ file' \in Seq(Queries) /\ Range(kept) \subseteq Range(file')
      /\ Range(file') \subseteq Range(kept) \cup Range(file) /\ Once(file')
  <2>1. Once(kept) /\ Once(file) /\ Range(kept) \cap Range(file) = {}
    BY <1>1 DEF LogInv, FileInv
  <2>2. QED
    BY <1>2, <1>3, <1>4, <2>1, Joined
<1>6. loop'.at = "reading" /\ loop'.query = None /\ loop' \in [at : LoopStates, query : Queries \cup {None}]
  BY <1>1 DEF Idle, LoopStates
<1>7. half' \in BOOLEAN
  BY <1>2 DEF LogInv, TypeInv
<1>8. kept' \in Seq(Queries)
  BY <1>1
<1>9. TypeInv'
  BY <1>1, <1>5, <1>6, <1>7, <1>8 DEF LogInv, TypeInv
<1>10. FreshInv'
  BY <1>1, <1>6, TurnFresh
<1>11. ASSUME NEW q \in Queries, Settled(q)' PROVE q \in Range(file')
  <2>1. Settled(q)
    BY <1>1, <1>11 DEF Settled, WithinRetention
  <2>2. q \in Range(kept)
    BY <1>1, <2>1 DEF LogInv, FileInv, Settled
  <2>3. QED
    BY <1>5, <2>2
<1>12. FileInv'
  BY <1>1, <1>5, <1>6, <1>11, NoLines DEF LogInv, FileInv
<1>13. QED
  BY <1>9, <1>10, <1>12

(* The first j of the kept lines: each of them or one of the others.       *)
LEMMA Split ==
    ASSUME NEW s \in Seq(Queries), NEW j \in 0..(Len(s) - 1), Once(s)
    PROVE  /\ SubSeq(s, 1, j) \in Seq(Queries) /\ Once(SubSeq(s, 1, j))
           /\ Range(SubSeq(s, 1, j)) \subseteq Range(s)
           /\ Range(s) \subseteq
                 Range(SubSeq(s, 1, j)) \cup Range(SubSeq(s, j + 1, Len(s)))
           /\ Range(SubSeq(s, j + 1, Len(s))) \subseteq Range(s)
<1> DEFINE a == SubSeq(s, 1, j)
           b == SubSeq(s, j + 1, Len(s))
<1>1. j \in Nat /\ Len(s) \in Nat /\ j < Len(s) /\ DOMAIN s = 1..Len(s)
  OBVIOUS
<1>2. /\ a \in Seq(Queries) /\ DOMAIN a = 1..j
      /\ \A i \in 1..j : a[i] = s[i]
  <2>1. 1 \in 1..(Len(s) + 1) /\ j \in (1 - 1)..Len(s) /\ j - 1 + 1 = j
    BY <1>1
  <2>2. a \in Seq(Queries) /\ Len(a) = j /\ \A i \in 1..j : a[i] = s[1 + i - 1]
    BY <2>1, SubSeqProperties
  <2> HIDE DEF a
  <2>3. DOMAIN a = 1..j /\ \A i \in 1..j : 1 + i - 1 = i
    BY <2>2
  <2>4. QED
    BY <2>2, <2>3
<1>3. /\ DOMAIN b = 1..(Len(s) - j)
      /\ \A i \in 1..(Len(s) - j) : b[i] = s[i + j]
  <2>1. /\ j + 1 \in 1..(Len(s) + 1) /\ Len(s) \in ((j + 1) - 1)..Len(s)
        /\ Len(s) - (j + 1) + 1 = Len(s) - j
    BY <1>1
  <2>2. /\ b \in Seq(Queries) /\ Len(b) = Len(s) - j
        /\ \A i \in 1..(Len(s) - j) : b[i] = s[(j + 1) + i - 1]
    BY <2>1, SubSeqProperties
  <2> HIDE DEF b
  <2>3. DOMAIN b = 1..(Len(s) - j) /\ \A i \in 1..(Len(s) - j) : (j + 1) + i - 1 = i + j
    BY <1>1, <2>2
  <2>4. QED
    BY <2>2, <2>3
<1> HIDE DEF a, b
<1>4. Once(a)
  BY <1>1, <1>2 DEF Once
<1>5. Range(a) \subseteq Range(s)
  BY <1>1, <1>2 DEF Range
<1>6. Range(b) \subseteq Range(s)
  <2>1. \A i \in 1..(Len(s) - j) : i + j \in 1..Len(s)
    BY <1>1
  <2>2. QED
    BY <1>1, <1>3, <2>1 DEF Range
<1>7. ASSUME NEW i \in 1..Len(s) PROVE s[i] \in Range(a) \cup Range(b)
  <2>1. CASE i <= j
    <3>1. i \in 1..j
      BY <1>1, <2>1
    <3>2. QED
      BY <1>2, <3>1 DEF Range
  <2>2. CASE ~(i <= j)
    <3>1. i - j \in 1..(Len(s) - j) /\ (i - j) + j = i
      BY <1>1, <2>2
    <3>2. b[i - j] = s[i]
      BY <1>3, <3>1
    <3>3. QED
      BY <1>3, <3>1, <3>2 DEF Range
  <2>3. QED
    BY <2>1, <2>2
<1>8. Range(s) \subseteq Range(a) \cup Range(b)
  BY <1>1, <1>7 DEF Range
<1>9. QED
  BY <1>2, <1>4, <1>5, <1>6, <1>8 DEF a, b

LEMMA PruneWriteFailsLog ==
    ASSUME LogInv, PruneWriteFails
    PROVE  TypeInv' /\ FreshInv' /\ FileInv'
<1>1. /\ loop.at = "emptied" /\ kept' = <<>> /\ loop' = [Idle EXCEPT !.at = "reading"]
      /\ UNCHANGED <<asked, stage, stamp, written, exposed, clock>>
      /\ faults < MaxFaults /\ faults' = faults + 1
  BY DEF PruneWriteFails, Fault
<1>2. PICK j \in 0..(Len(kept) - 1), n \in 0..Len(file) :
         /\ file' = SubSeq(kept, 1, j) \o SubSeq(file, n + 1, Len(file))
         /\ half' \in IF n < Len(file) THEN {half}
                      ELSE IF j = 0 THEN {half, TRUE} ELSE BOOLEAN
         /\ cost' = cost \cup Range(SubSeq(kept, j + 1, Len(kept)))
  BY DEF PruneWriteFails
<1> DEFINE a == SubSeq(kept, 1, j)
           b == SubSeq(kept, j + 1, Len(kept))
<1>3. kept \in Seq(Queries) /\ file \in Seq(Queries)
  BY DEF LogInv, TypeInv
<1>4. Once(kept) /\ Once(file) /\ Range(kept) \cap Range(file) = {}
  BY <1>1 DEF LogInv, FileInv
<1>5. /\ a \in Seq(Queries) /\ Once(a) /\ Range(a) \subseteq Range(kept)
      /\ Range(kept) \subseteq Range(a) \cup Range(b) /\ Range(b) \subseteq Range(kept)
  BY <1>3, <1>4, Split
<1>6. cost' = cost \cup Range(b)
  BY <1>2
<1> HIDE DEF b
<1>7. /\ file' \in Seq(Queries) /\ Range(a) \subseteq Range(file')
      /\ Range(file') \subseteq Range(a) \cup Range(file) /\ Once(file')
  <2>1. file' = a \o SubSeq(file, n + 1, Len(file))
    BY <1>2
  <2> HIDE DEF a
  <2>2. Range(a) \cap Range(file) = {}
    BY <1>4, <1>5
  <2>3. QED
    BY <1>3, <1>4, <1>5, <2>1, <2>2, Joined
<1> HIDE DEF a
<1>8. loop'.at = "reading" /\ loop'.query = None /\ loop' \in [at : LoopStates, query : Queries \cup {None}]
  BY <1>1 DEF Idle, LoopStates
<1>9. half' \in BOOLEAN
  BY <1>2 DEF LogInv, TypeInv
<1>10. faults' \in 0..MaxFaults
  BY <1>1, AuditLogAssumption DEF LogInv, TypeInv
<1>11. kept' \in Seq(Queries) /\ cost' \subseteq Queries
  <2>1. Range(kept) \subseteq Queries
    BY DEF LogInv, FileInv, TypeInv
  <2>2. QED
    BY <1>1, <1>5, <1>6, <2>1 DEF LogInv, TypeInv
<1>12. TypeInv'
  BY <1>1, <1>7, <1>8, <1>9, <1>10, <1>11 DEF LogInv, TypeInv
<1>13. FreshInv'
  BY <1>1, <1>8, TurnFresh
<1>14. ASSUME NEW q \in Queries, Settled(q)' PROVE q \in Range(file')
  <2>1. Settled(q) /\ q \notin Range(b)
    BY <1>1, <1>6, <1>14 DEF Settled, WithinRetention
  <2>2. q \in Range(kept)
    BY <1>1, <2>1 DEF LogInv, FileInv, Settled
  <2>3. QED
    BY <1>5, <1>7, <2>1, <2>2
<1>15. FileInv'
  <2>1. Range(file') \cup Range(kept') \subseteq written'
    BY <1>1, <1>5, <1>7, NoLines DEF LogInv, FileInv
  <2>2. QED
    BY <1>1, <1>7, <1>8, <1>14, <2>1, NoLines DEF FileInv
<1>16. QED
  BY <1>12, <1>13, <1>15

LEMMA TurnLog ==
    ASSUME LogInv, Read \/ Tick \/ UNCHANGED vars
    PROVE  TypeInv' /\ FreshInv' /\ FileInv'
<1>1. UNCHANGED <<asked, stage, kept, stamp, file, half, written, exposed, cost, faults>>
  BY DEF Read, Tick, vars, log
<1>2. clock' \in 0..MaxClock /\ clock <= clock' /\ clock' \in Nat
  BY AuditLogAssumption DEF Read, Tick, vars, LogInv, TypeInv
<1>3. UNCHANGED loop \/ (loop.at = "reading" /\ loop' = Idle)
  BY DEF Read, Tick, vars
<1>4. TypeInv'
  BY <1>1, <1>2, <1>3 DEF LogInv, TypeInv, Idle, LoopStates
<1>5. FileInv'
  BY <1>1, <1>2, <1>3, FileSame DEF LogInv, Idle
<1>6. FreshInv'
  <2>1. CASE UNCHANGED loop
    BY <1>1, <2>1 DEF LogInv, FreshInv, Yet
  <2>2. CASE loop.at = "reading" /\ loop' = Idle
    BY <1>1, <2>2, TurnFresh DEF Idle
  <2>3. QED
    BY <1>3, <2>1, <2>2
<1>7. QED
  BY <1>4, <1>5, <1>6

(* The process ends: what is to be written then was so before.             *)
LEMMA CancelledYet ==
    ASSUME LogInv, NEW running \in {{}, {"writing"}}, UNCHANGED <<asked, written>>,
           stage' = [q \in Queries |-> Cancelled(q, running)], loop'.query = None,
           loop'.at # "sync"
    PROVE  FreshInv'
<1>1. ASSUME NEW q \in Queries, Yet(q)' PROVE Yet(q)
  <2>1. q > asked \/ Cancelled(q, running) \in {"task", "waiting", "queued", "writing"}
    BY <1>1, Answered DEF Yet
  <2>2. Cancelled(q, running) \in {"lost", "done", stage[q]}
    BY DEF Cancelled
  <2>3. QED
    BY <2>1, <2>2 DEF Yet
<1>2. QED
  BY <1>1 DEF LogInv, FreshInv

LEMMA ShutdownLog ==
    ASSUME LogInv, Shutdown \/ Restart
    PROVE  TypeInv' /\ FreshInv' /\ FileInv'
<1>1. /\ UNCHANGED <<asked, kept, stamp, file, half, written, exposed, clock>>
      /\ stage' = [q \in Queries |-> Cancelled(q, {})]
  BY DEF Shutdown, Restart, log
<1>2. /\ loop.at \in {"idle", "down"} /\ loop'.at \in {"idle", "down"} /\ loop'.query = None
      /\ loop' \in [at : LoopStates, query : Queries \cup {None}]
  BY DEF Shutdown, Restart, Idle, LoopStates
<1>3. cost' \subseteq Queries /\ cost \subseteq cost' /\ faults' \in 0..MaxFaults
  BY AuditLogAssumption DEF Shutdown, Restart, log, Fault, Lost, LogInv, TypeInv
<1>4. TypeInv'
  BY <1>1, <1>2, <1>3 DEF LogInv, TypeInv
<1>5. FileInv'
  BY <1>1, <1>2, <1>3, FileSame DEF LogInv, TypeInv
<1>6. FreshInv'
  BY <1>1, <1>2, CancelledYet
<1>7. QED
  BY <1>4, <1>5, <1>6

LEMMA CrashLog ==
    ASSUME LogInv, Crash
    PROVE  TypeInv' /\ FreshInv' /\ FileInv'
<1>1. /\ UNCHANGED <<asked, stamp, file, half, written, exposed, clock>> /\ loop' = Idle
      /\ stage' = [q \in Queries |-> Cancelled(q, {"writing"})] /\ kept' = <<>>
      /\ cost \subseteq cost'
      /\ loop.at = "emptied" => Range(kept) \subseteq cost'
  BY DEF Crash
<1>2. /\ loop'.at = "idle" /\ loop'.query = None
      /\ loop' \in [at : LoopStates, query : Queries \cup {None}]
  BY <1>1 DEF Idle, LoopStates
<1>3. faults' \in 0..MaxFaults
  BY AuditLogAssumption DEF Crash, Fault, LogInv, TypeInv
<1>4. Range(kept) \subseteq Queries
  BY DEF LogInv, FileInv, TypeInv
<1>5. cost' \subseteq Queries
  BY <1>4 DEF Crash, Lost, LogInv, TypeInv
<1>6. kept' \in Seq(Queries)
  BY <1>1
<1>7. TypeInv'
  BY <1>1, <1>2, <1>3, <1>5, <1>6 DEF LogInv, TypeInv
<1>8. FreshInv'
  BY <1>1, <1>2, CancelledYet
<1>9. ASSUME NEW q \in Queries, Settled(q)' PROVE q \in Range(file)
  <2>1. Settled(q) /\ (loop.at = "emptied" => q \notin Range(kept))
    BY <1>1, <1>9 DEF Settled, WithinRetention
  <2>2. q \in Range(file) \cup Range(kept)
    BY <2>1 DEF LogInv, FileInv
  <2>3. CASE loop.at = "emptied"
    BY <2>1, <2>2, <2>3
  <2>4. CASE loop.at = "pruning"
    BY <2>2, <2>4 DEF LogInv, FileInv
  <2>5. CASE loop.at \notin {"pruning", "emptied"}
    BY <2>2, <2>5, NoLines DEF LogInv, FileInv
  <2>6. QED
    BY <2>3, <2>4, <2>5
<1>10. FileInv'
  BY <1>1, <1>2, <1>9, NoLines DEF LogInv, FileInv
<1>11. QED
  BY <1>7, <1>8, <1>10

LEMMA NextLog == LogInv /\ [Next]_vars => LogInv'
<1> SUFFICES ASSUME LogInv, [Next]_vars PROVE LogInv'
  OBVIOUS
<1>1. SlotsInv'
  BY NextSlots DEF LogInv
<1>2. TypeInv' /\ FreshInv' /\ FileInv'
  BY AskLog, AppendSyncLog, TaskLog, ThreadLog, WriteFailsLog, PruneReadLog,
     PruneEmptyLog, PruneWriteLog, PruneWriteFailsLog, TurnLog, ShutdownLog, CrashLog
     DEF Next, LoopTurn, Serve
<1>3. QED
  BY <1>1, <1>2 DEF LogInv

-------------------------------------------------------------------------------
(* Every variable keeps its shape, and the semaphore never counts more     *)
(* slots than it was made with.                                            *)
THEOREM TypeCorrect == Spec => []TypeOK
<1>1. LogInv => TypeOK
  BY DEF LogInv, SlotsInv, TypeInv, TypeOK
<1>2. QED
  BY InitLog, NextLog, <1>1, PTL DEF Spec

(* No record is in the log twice, however the fallback, the tasks and a    *)
(* prune that writes the file anew meet.                                   *)
THEOREM Singly == Spec => []WrittenOnce
<1>1. LogInv => WrittenOnce
  BY DEF LogInv, FileInv, Once, WrittenOnce
<1>2. QED
  BY InitLog, NextLog, <1>1, PTL DEF Spec

(* A prune drops no settled record within its retention, and the answer to *)
(* GET audit-log has just the settled ones of its window.                  *)
THEOREM Settles == Spec => []PruneKeepsSettled
<1>1. LogInv => PruneKeepsSettled
  <2> SUFFICES ASSUME LogInv PROVE PruneKeepsSettled
    OBVIOUS
  <2>1. ASSUME NEW q \in written \ (exposed \cup cost), WithinRetention(q)
        PROVE  q \in Queries /\ q \in Range(file) \cup Range(kept)
    BY <2>1 DEF LogInv, TypeInv, FileInv, Settled
  <2>2. ASSUME loop.at = "reading", NEW since \in 0..clock, NEW until \in 0..clock,
               NEW q \in written \ (exposed \cup cost), WithinRetention(q)
        PROVE  q \in Range(Listed(since, until)) <=> stamp[q] \in since..until
    <3>1. q \in Queries /\ q \in Range(file)
      <4>1. kept = <<>>
        BY <2>2 DEF LogInv, FileInv
      <4>2. QED
        BY <2>1, <2>2, <4>1, NoLines
    <3>2. Range(Listed(since, until))
             = Range(file) \cap {r \in Queries : stamp[r] \in since..until}
      BY LinesType DEF Listed, LogInv, TypeInv
    <3>3. QED
      BY <3>1, <3>2
  <2>3. QED
    BY <2>1, <2>2 DEF PruneKeepsSettled
<1>2. QED
  BY InitLog, NextLog, <1>1, PTL DEF Spec
===============================================================================
