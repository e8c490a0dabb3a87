----------------------------- MODULE UploadProofs -----------------------------
(***************************************************************************)
(* Theorems about Upload, for any clients, folders, names and number of     *)
(* faults.  Tidy holds of any number of workers; Stays and Means of one, as *)
(* the code promises no more: two workers may both find a name free and     *)
(* write the same file.                                                    *)
(*                                                                         *)
(*   AskInv     each client that waits has one live request   Tidy          *)
(*   SourceInv  what is empty or in half, and whose it is      Tidy          *)
(*   AloneInv   what the one worker finds at its next step     Stays         *)
(*   ToldInv    what a client was told is stored               Means         *)
(*                                                                         *)
(* Each needs those above it.                                              *)
(***************************************************************************)
EXTENDS Upload, TLAPS

Errors == {"none", "raw", "ValidationError", "AuthError", "NotFoundError",
           "RateLimitError", "ServerError", "Conflict", "FirmBotError"}
Handlers == {Free} \cup [step : Steps, of : Request]
Stored == [state : {"absent", "blank", "part", "whole", "mixed"},
           by : Clients \cup {Nobody}]
Pcs == {"ready", "waiting", "raised", "done"}

Idle(w) == Doing(w, "free")
Ingests(w) == Doing(w, "ingest")
Of(w) == handler[w].of

(* A request is of its client's folder, and a client waits for a live one.  *)
Asked(r) ==
    /\ r.pos \in 1..(Len(folder[r.client]) + 1)
    /\ r.live => pc[r.client] = "waiting" /\ r.pos = pos[r.client]

(* Where a client is in its folder; a conflict is about a file of it.      *)
Placed(c) ==
    /\ pos[c] <= Len(folder[c]) + (IF pc[c] = "done" THEN 2 ELSE 1)
    /\ pc[c] = "raised" /\ error[c] = "Conflict" => pos[c] <= Len(folder[c])

Awaits(c) ==
    \/ \E r \in inbox : r.client = c /\ r.live
    \/ \E w \in Workers : Of(w).client = c /\ Of(w).live

(* Requests and their clients: a client that waits has one live request,   *)
(* in the inbox or in a handler.                                           *)
AskInv ==
    /\ folder \in [Clients -> Folders] /\ pc \in [Clients -> Pcs]
    /\ pos \in [Clients -> Nat \ {0}] /\ error \in [Clients -> Errors]
    /\ inbox \subseteq Request /\ handler \in [Workers -> Handlers]
    /\ \A r \in inbox : Asked(r)
    /\ \A w \in Workers : ~Idle(w) =>
          /\ Asked(Of(w))
          /\ Ingests(w) <=> Of(w).pos > Len(folder[Sender(w)])
    /\ \A c \in Clients : Placed(c) /\ (pc[c] = "waiting" => Awaits(c))
    /\ \A r \in inbox, w \in Workers :
          r.live /\ Of(w).live => r.client # Of(w).client
    /\ \A v, w \in Workers :
          Of(v).live /\ Of(w).live /\ Of(v).client = Of(w).client => v = w

(* What is empty is at a handler that has opened it.                       *)
Opened(w, n) ==
    (Doing(w, "copy") \/ Doing(w, "stat") \/ Doing(w, "unlink")) /\ Name(w) = n

SourceInv ==
    /\ source \in [Names -> Stored] /\ stored \subseteq Clients \X Names
    /\ removed \cup torn \subseteq Names /\ faults \in 0..MaxFaults
    /\ \A n \in Names :
          /\ source[n].state = "part" => n \in torn
          /\ source[n].state = "blank" /\ n \notin torn =>
                \E w \in Workers : Opened(w, n)

(* With one worker a handler finds the file as it left it, or removed.     *)
Held(w) ==
    ~Idle(w) /\ ~Ingests(w) =>
        /\ Doing(w, "open") => source[Name(w)] = Absent
        /\ Doing(w, "copy") \/ Doing(w, "unlink") =>
              source[Name(w)] \in {Absent, File("blank", Sender(w))}
        /\ Doing(w, "stat") =>
              source[Name(w)] \in {Absent, File("blank", Sender(w)), Whole(Sender(w))}

(* What is stored is whole, or was removed.                                *)
Keeps ==
    \A c \in Clients, n \in Names :
        <<c, n>> \in stored => n \in removed \/ source[n] = Whole(c)

AloneInv == (\A w \in Workers : Held(w)) /\ Keeps

(* What a client has been told is stored.                                  *)
ToldInv ==
    /\ found \in [Clients -> [Names -> Stored]]
    /\ \A c \in Clients : \A i \in DOMAIN folder[c] :
          i < pos[c] => <<c, folder[c][i].name>> \in stored
    /\ \A c \in Clients : pc[c] = "done" => pos[c] > Len(folder[c])
    /\ IngestMeansAll
-------------------------------------------------------------------------------
(* Requests.                                                               *)

LEMMA FolderType ==
    ASSUME AskInv, NEW c \in Clients
    PROVE  /\ folder[c] \in Seq(Entry) /\ Len(folder[c]) \in Nat
           /\ pos[c] \in Nat \ {0} /\ pc[c] \in Pcs
  BY UploadAssumption DEF AskInv

LEMMA Handled ==
    ASSUME AskInv, NEW w \in Workers, ~Idle(w)
    PROVE  /\ handler[w] \in [step : Steps, of : Request]
           /\ Of(w) \in Request /\ Sender(w) \in Clients /\ Sender(w) = Of(w).client
           /\ Asked(Of(w))
           /\ ~Ingests(w) => /\ Of(w).pos \in DOMAIN folder[Sender(w)]
                             /\ File_(w) \in Entry /\ Name(w) \in Names
<1>1. handler[w] \in [step : Steps, of : Request]
  BY DEF AskInv, Handlers, Idle, Doing, Free
<1>2. Of(w) \in Request /\ Sender(w) \in Clients /\ Sender(w) = Of(w).client
  BY <1>1 DEF Of, Sender, Request
<1>3. Asked(Of(w)) /\ (Ingests(w) <=> Of(w).pos > Len(folder[Sender(w)]))
  BY DEF AskInv
<1>4. folder[Sender(w)] \in Seq(Entry) /\ Len(folder[Sender(w)]) \in Nat
  BY <1>2, FolderType
<1>5. ASSUME ~Ingests(w)
      PROVE  /\ Of(w).pos \in DOMAIN folder[Sender(w)]
             /\ File_(w) \in Entry /\ Name(w) \in Names
  <2>1. Of(w).pos \in 1..Len(folder[Sender(w)])
    BY <1>2, <1>3, <1>4, <1>5 DEF Asked
  <2>2. File_(w) \in Entry
    BY <1>4, <2>1 DEF File_, Of, Sender
  <2>3. QED
    BY <1>4, <2>1, <2>2 DEF Name, Entry
<1>6. QED
  BY <1>1, <1>2, <1>3, <1>5

LEMMA LiveBusy ==
    ASSUME AskInv, NEW w \in Workers, Of(w).live
    PROVE  ~Idle(w) /\ Of(w).client \in Clients
<1>1. handler[w] # Free
  BY DEF Of, Free
<1>2. handler[w] \in [step : Steps, of : Request]
  BY <1>1 DEF AskInv, Handlers
<1>3. QED
  BY <1>2 DEF Idle, Doing, Steps, Of, Request

(* The client c stops waiting.                                             *)
Leaves(c) ==
    /\ pc' \in [Clients -> Pcs] /\ pos' \in [Clients -> Nat \ {0}]
    /\ error' \in [Clients -> Errors]
    /\ pc'[c] # "waiting" /\ UNCHANGED folder
    /\ Placed(c)'
    /\ \A d \in Clients \ {c} : UNCHANGED <<pc[d], pos[d], error[d]>>

LEMMA RaiseLeaves ==
    ASSUME AskInv, NEW c \in Clients, NEW e \in Errors, Raise(c, e), UNCHANGED folder,
           pc[c] # "done", e = "Conflict" => pos[c] <= Len(folder[c])
    PROVE  Leaves(c)
<1>1. /\ pc' = [pc EXCEPT ![c] = "raised"] /\ error' = [error EXCEPT ![c] = e]
      /\ pos' = pos
  BY DEF Raise
<1>2. /\ pc' \in [Clients -> Pcs] /\ error' \in [Clients -> Errors]
      /\ pos' \in [Clients -> Nat \ {0}]
  BY <1>1 DEF AskInv, Pcs
<1>3. pc'[c] = "raised" /\ error'[c] = e /\ pos'[c] = pos[c]
  BY <1>1 DEF AskInv
<1>4. \A d \in Clients \ {c} : UNCHANGED <<pc[d], pos[d], error[d]>>
  BY <1>1 DEF AskInv
<1>5. pos[c] <= Len(folder[c]) + 1
  BY DEF AskInv, Placed
<1>6. Placed(c)'
  BY <1>3, <1>5 DEF Placed
<1>7. QED
  BY <1>2, <1>3, <1>4, <1>6 DEF Leaves

LEMMA GotLeaves ==
    ASSUME AskInv, NEW c \in Clients, NEW status \in {200, 400, 404, 409, 429, 500, 503},
           Got(c, status), UNCHANGED folder, pc[c] = "waiting",
           status = 409 => pos[c] <= Len(folder[c])
    PROVE  Leaves(c)
<1>1. CASE status # 200
  <2>1. ErrorOf(status) \in Errors /\ (ErrorOf(status) = "Conflict" => status = 409)
    BY DEF ErrorOf, Errors
  <2>2. Raise(c, ErrorOf(status))
    BY <1>1 DEF Got
  <2>3. QED
    BY <2>1, <2>2, RaiseLeaves
<1>2. CASE status = 200
  <2>1. /\ pos' = [pos EXCEPT ![c] = pos[c] + 1]
        /\ pc' = [pc EXCEPT ![c] = IF pos[c] > Len(folder[c]) THEN "done" ELSE "ready"]
        /\ error' = error
    BY <1>2 DEF Got
  <2>2. /\ pc' \in [Clients -> Pcs] /\ error' \in [Clients -> Errors]
        /\ pos' \in [Clients -> Nat \ {0}]
    BY <2>1 DEF AskInv, Pcs
  <2>3. /\ pc'[c] = (IF pos[c] > Len(folder[c]) THEN "done" ELSE "ready")
        /\ pos'[c] = pos[c] + 1
    BY <2>1 DEF AskInv
  <2>4. pos[c] <= Len(folder[c]) + 1
    BY DEF AskInv, Placed
  <2>5. Placed(c)'
    <3> DEFINE n == Len(folder[c])
               m == pos[c]
    <3>1. n \in Nat /\ m \in Nat
      BY FolderType
    <3>2. Len(folder'[c]) = n
      OBVIOUS
    <3>3. /\ pc'[c] \in {"done", "ready"} /\ (pc'[c] = "ready" => m <= n)
          /\ pos'[c] = m + 1 /\ m <= n + 1
      BY <2>3, <2>4, <3>1
    <3> HIDE DEF n, m
    <3>4. pos'[c] <= n + (IF pc'[c] = "done" THEN 2 ELSE 1)
      BY <3>1, <3>3
    <3>5. QED
      BY <3>2, <3>3, <3>4 DEF Placed
  <2>6. \A d \in Clients \ {c} : UNCHANGED <<pc[d], pos[d], error[d]>>
    BY <2>1 DEF AskInv
  <2>7. QED
    BY <2>2, <2>3, <2>5, <2>6 DEF Leaves
<1>3. QED
  BY <1>1, <1>2

(* What holds of the requests once the one live request of c is gone: that  *)
(* of an inbox, or of a handler, or one whose client has given up.         *)
LEMMA LeavesAsk ==
    ASSUME AskInv, NEW c \in Clients, Leaves(c),
           inbox' \subseteq Request, handler' \in [Workers -> Handlers],
           \A r \in inbox' : r \in inbox \/ (~r.live /\ Asked(r)),
           \A r \in inbox : r.live /\ r.client # c => r \in inbox',
           \A r \in inbox' : r.live => r.client # c,
           \A w \in Workers :
              \/ handler'[w] = handler[w] /\ (Of(w).live => Of(w).client # c)
              \/ handler'[w] = Free /\ (Of(w).live => Of(w).client = c)
              \/ /\ ~Idle(w) /\ Of(w).client = c
                 /\ handler'[w] = [handler[w] EXCEPT !.of = Dead(Of(w))]
    PROVE  AskInv'
<1>1. ASSUME NEW r \in Request, Asked(r), r.live => r.client # c
      PROVE  Asked(r)'
  BY <1>1 DEF Asked, Leaves, Request
<1>2. ASSUME NEW w \in Workers
      PROVE  /\ Of(w)'.live => /\ handler'[w] = handler[w] /\ Of(w)' = Of(w)
                               /\ Of(w).live /\ Of(w).client # c
             /\ ~Idle(w)' => /\ ~Idle(w) /\ (Ingests(w)' <=> Ingests(w))
                             /\ Of(w)'.pos = Of(w).pos /\ Of(w)'.client = Of(w).client
                             /\ Asked(Of(w))'
  <2>1. CASE handler'[w] = handler[w] /\ (Of(w).live => Of(w).client # c)
    <3>1. ~Idle(w) => Asked(Of(w)) /\ Of(w) \in Request
      BY Handled
    <3>2. Of(w)' = Of(w) /\ (Idle(w)' <=> Idle(w)) /\ (Ingests(w)' <=> Ingests(w))
      BY <2>1 DEF Of, Idle, Ingests, Doing
    <3>3. ~Idle(w) => Asked(Of(w))'
      BY <1>1, <2>1, <3>1, <3>2 DEF Asked
    <3>4. QED
      BY <2>1, <3>2, <3>3
  <2>2. CASE handler'[w] = Free
    BY <2>2 DEF Of, Free, Idle, Doing
  <2>3. CASE /\ ~Idle(w) /\ Of(w).client = c
             /\ handler'[w] = [handler[w] EXCEPT !.of = Dead(Of(w))]
    <3>1. /\ handler[w] \in [step : Steps, of : Request]
          /\ Of(w) \in Request /\ Asked(Of(w))
      BY <2>3, Handled
    <3>2. /\ handler'[w].step = handler[w].step /\ handler'[w].of = Dead(Of(w))
          /\ Dead(Of(w)).pos = Of(w).pos /\ Dead(Of(w)).client = Of(w).client
          /\ ~Dead(Of(w)).live
      BY <2>3, <3>1 DEF Dead, Request
    <3>3. Asked(Of(w))'
      BY <3>1, <3>2 DEF Asked, Of, Leaves
    <3>4. QED
      BY <2>3, <3>2, <3>3 DEF Of, Idle, Ingests, Doing
  <2>4. QED
    BY <2>1, <2>2, <2>3
<1>3. \A r \in inbox' : Asked(r)'
  <2> SUFFICES ASSUME NEW r \in inbox' PROVE Asked(r)'
    OBVIOUS
  <2>1. r \in Request /\ Asked(r) /\ (r.live => r.client # c)
    BY DEF AskInv
  <2>2. QED
    BY <1>1, <2>1
<1>4. ASSUME NEW w \in Workers, ~Idle(w)'
      PROVE  Asked(Of(w))' /\ (Ingests(w)' <=> Of(w)'.pos > Len(folder'[Sender(w)']))
  <2>1. Ingests(w) <=> Of(w).pos > Len(folder[Sender(w)])
    BY <1>2, <1>4 DEF AskInv
  <2>2. QED
    BY <1>2, <1>4, <2>1 DEF Sender, Of, Leaves
<1>5. ASSUME NEW d \in Clients
      PROVE  Placed(d)' /\ (pc'[d] = "waiting" => Awaits(d)')
  <2>1. CASE d = c
    BY <2>1 DEF Leaves
  <2>2. CASE d # c
    <3>1. Placed(d)'
      BY <2>2 DEF AskInv, Leaves, Placed
    <3>2. ASSUME pc'[d] = "waiting" PROVE Awaits(d)'
      <4>1. Awaits(d)
        BY <2>2, <3>2 DEF AskInv, Leaves
      <4>2. CASE \E r \in inbox : r.client = d /\ r.live
        BY <2>2, <4>2 DEF Awaits
      <4>3. CASE \E w \in Workers : Of(w).client = d /\ Of(w).live
        <5>1. PICK w \in Workers : Of(w).client = d /\ Of(w).live
          BY <4>3
        <5>2. handler'[w] = handler[w]
          BY <2>2, <5>1
        <5>3. QED
          BY <5>1, <5>2 DEF Awaits, Of
      <4>4. QED
        BY <4>1, <4>2, <4>3 DEF Awaits
    <3>3. QED
      BY <3>1, <3>2
  <2>3. QED
    BY <2>1, <2>2
<1>6. \A r \in inbox', w \in Workers : r.live /\ Of(w)'.live => r.client # Of(w)'.client
  BY <1>2 DEF AskInv
<1>7. \A v, w \in Workers :
         Of(v)'.live /\ Of(w)'.live /\ Of(v)'.client = Of(w)'.client => v = w
  BY <1>2 DEF AskInv
<1>8. folder' \in [Clients -> Folders] /\ pc' \in [Clients -> Pcs]
      /\ pos' \in [Clients -> Nat \ {0}] /\ error' \in [Clients -> Errors]
  BY DEF Leaves, AskInv
<1>9. QED
  BY <1>3, <1>4, <1>5, <1>6, <1>7, <1>8 DEF AskInv

LEMMA AskStays ==
    ASSUME AskInv, UNCHANGED <<folder, pc, pos, error, inbox, handler>>
    PROVE  AskInv'
  BY DEF AskInv, Asked, Placed, Awaits, Of, Idle, Ingests, Sender, Doing

(* A handler ends: its client waits no more, or waited no more before.     *)
LEMMA EndAsk ==
    ASSUME AskInv, NEW w \in Workers, ~Idle(w), handler' = [handler EXCEPT ![w] = Free],
           UNCHANGED <<folder, inbox>>,
           IF Of(w).live THEN Leaves(Sender(w)) ELSE UNCHANGED <<pc, pos, error>>
    PROVE  AskInv'
<1>1. /\ Of(w) \in Request /\ Sender(w) \in Clients /\ Sender(w) = Of(w).client
      /\ Asked(Of(w))
  BY Handled
<1>2. handler' \in [Workers -> Handlers]
  BY DEF AskInv, Handlers
<1>3. CASE Of(w).live
  <2>1. Leaves(Sender(w))
    BY <1>3
  <2>2. \A r \in inbox : r.live => r.client # Sender(w)
    BY <1>1, <1>3 DEF AskInv
  <2>3. \A v \in Workers \ {w} :
           handler'[v] = handler[v] /\ (Of(v).live => Of(v).client # Sender(w))
    BY <1>1, <1>2, <1>3 DEF AskInv
  <2>4. handler'[w] = Free
    BY <1>2 DEF AskInv
  <2>5. inbox \subseteq Request
    BY DEF AskInv
  <2>6. QED
    BY <1>1, <1>2, <2>1, <2>2, <2>3, <2>4, <2>5, LeavesAsk
<1>4. CASE ~Of(w).live
  <2>1. UNCHANGED <<pc, pos, error>>
    BY <1>4
  <2>2. ASSUME NEW v \in Workers
        PROVE  /\ Of(v)'.live => Of(v)' = Of(v) /\ Of(v).live
               /\ ~Idle(v)' => handler'[v] = handler[v] /\ ~Idle(v)
               /\ Of(v).live => Of(v)' = Of(v)
    BY <1>2, <1>4 DEF AskInv, Of, Idle, Doing, Free
  <2>3. \A r : Asked(r) => Asked(r)'
    BY <2>1 DEF Asked
  <2>4. \A v \in Workers : ~Idle(v)' =>
           Asked(Of(v))' /\ (Ingests(v)' <=> Of(v)'.pos > Len(folder'[Sender(v)']))
    BY <2>2, <2>3 DEF AskInv, Of, Ingests, Sender, Doing
  <2>5. ASSUME NEW c \in Clients
        PROVE  Placed(c)' /\ (pc'[c] = "waiting" => Awaits(c)')
    <3>1. Placed(c) /\ (pc[c] = "waiting" => Awaits(c))
      BY DEF AskInv
    <3>2. Placed(c)'
      BY <2>1, <3>1 DEF Placed
    <3>3. Awaits(c) => Awaits(c)'
      BY <2>2 DEF Awaits
    <3>4. QED
      BY <2>1, <3>1, <3>2, <3>3
  <2>6. /\ folder' \in [Clients -> Folders] /\ pc' \in [Clients -> Pcs]
        /\ pos' \in [Clients -> Nat \ {0}] /\ error' \in [Clients -> Errors]
        /\ inbox' \subseteq Request /\ \A r \in inbox' : Asked(r)'
    BY <2>1, <2>3 DEF AskInv
  <2>7. \A r \in inbox', v \in Workers : r.live /\ Of(v)'.live => r.client # Of(v)'.client
    BY <2>2 DEF AskInv
  <2>8. \A v, u \in Workers :
           Of(v)'.live /\ Of(u)'.live /\ Of(v)'.client = Of(u)'.client => v = u
    BY <2>2 DEF AskInv
  <2>9. QED
    BY <1>2, <2>4, <2>5, <2>6, <2>7, <2>8 DEF AskInv
<1>5. QED
  BY <1>3, <1>4

(* A handler answers and returns.                                          *)
LEMMA AnswerAsk ==
    ASSUME AskInv, NEW w \in Workers, ~Idle(w),
           NEW status \in {200, 400, 404, 409, 429, 500, 503},
           status = 409 => ~Ingests(w), Answer(w, status),
           UNCHANGED <<folder, inbox>>
    PROVE  AskInv'
<1>1. /\ Of(w) \in Request /\ Sender(w) \in Clients /\ Sender(w) = Of(w).client
      /\ Asked(Of(w))
  BY Handled
<1>2. handler' = [handler EXCEPT ![w] = Free]
  BY DEF Answer
<1>3. ASSUME Of(w).live PROVE Leaves(Sender(w))
  <2>1. Got(Sender(w), status) /\ pc[Sender(w)] = "waiting" /\ Of(w).pos = pos[Sender(w)]
    BY <1>1, <1>3 DEF Answer, Of, Asked
  <2>2. status = 409 => pos[Sender(w)] <= Len(folder[Sender(w)])
    BY <1>1, <2>1, Handled
  <2>3. QED
    BY <1>1, <2>1, <2>2, GotLeaves
<1>4. ~Of(w).live => UNCHANGED <<pc, pos, error>>
  BY DEF Answer, Of
<1>5. QED
  BY <1>2, <1>3, <1>4, EndAsk

(* A handler goes on with its request.                                     *)
LEMMA GotoAsk ==
    ASSUME AskInv, NEW w \in Workers, ~Idle(w), ~Ingests(w),
           NEW step \in Steps \ {"ingest"}, Goto(w, step),
           UNCHANGED <<folder, pc, pos, error, inbox>>
    PROVE  AskInv'
<1>1. handler[w] \in [step : Steps, of : Request]
  BY Handled
<1>2. /\ handler' \in [Workers -> Handlers]
      /\ handler'[w].of = handler[w].of /\ handler'[w].step = step
      /\ \A v \in Workers \ {w} : handler'[v] = handler[v]
  BY <1>1 DEF AskInv, Goto, Handlers
<1>3. \A v \in Workers : /\ Of(v)' = Of(v) /\ (Idle(v)' <=> Idle(v))
                          /\ (Ingests(v)' <=> Ingests(v))
  BY <1>2 DEF Of, Idle, Ingests, Doing, Steps
<1>4. \A r : Asked(r) => Asked(r)'
  BY DEF Asked
<1>5. \A v \in Workers : ~Idle(v)' =>
         Asked(Of(v))' /\ (Ingests(v)' <=> Of(v)'.pos > Len(folder'[Sender(v)']))
  BY <1>3, <1>4 DEF AskInv, Of, Sender
<1>6. \A c \in Clients : Placed(c)' /\ (pc'[c] = "waiting" => Awaits(c)')
  BY <1>3 DEF AskInv, Placed, Awaits
<1>7. /\ \A r \in inbox', v \in Workers : r.live /\ Of(v)'.live => r.client # Of(v)'.client
      /\ \A v, u \in Workers :
           Of(v)'.live /\ Of(u)'.live /\ Of(v)'.client = Of(u)'.client => v = u
  BY <1>3 DEF AskInv
<1>8. QED
  BY <1>2, <1>4, <1>5, <1>6, <1>7 DEF AskInv

(* A client that waits for nothing moves on.                               *)
LEMMA FreeAsk ==
    ASSUME AskInv, NEW c \in Clients, pc[c] # "waiting", Leaves(c),
           UNCHANGED <<inbox, handler>>
    PROVE  AskInv'
<1>1. \A r \in inbox : r.live => r.client # c
  BY DEF AskInv, Asked
<1>2. \A w \in Workers : Of(w).live => Of(w).client # c
  BY LiveBusy DEF AskInv, Asked
<1>3. inbox' \subseteq Request /\ handler' \in [Workers -> Handlers]
  BY DEF AskInv
<1>4. QED
  BY <1>1, <1>2, <1>3, LeavesAsk

LEMMA SendAsk ==
    ASSUME AskInv, NEW c \in Clients, Send(c)
    PROVE  AskInv'
<1> DEFINE q == [client |-> c, pos |-> pos[c], live |-> TRUE]
<1>1. /\ pc[c] = "ready" /\ inbox' = inbox \cup {q}
      /\ pc' = [pc EXCEPT ![c] = "waiting"]
      /\ UNCHANGED <<folder, pos, error, handler>>
  BY DEF Send
<1>2. /\ pc' \in [Clients -> Pcs] /\ pc'[c] = "waiting"
      /\ \A d \in Clients \ {c} : pc'[d] = pc[d]
  BY <1>1 DEF AskInv, Pcs
<1>3. /\ folder[c] \in Seq(Entry) /\ Len(folder[c]) \in Nat /\ pos[c] \in Nat \ {0}
      /\ pos[c] <= Len(folder[c]) + 1
  BY <1>1, FolderType DEF AskInv, Placed
<1>4. q \in Request /\ Asked(q)'
  BY <1>1, <1>2, <1>3 DEF Request, Asked
<1>5. \A r \in inbox : r.live => r.client # c
  BY <1>1 DEF AskInv, Asked
<1>6. \A w \in Workers : Of(w).live => Of(w).client # c
  BY <1>1, LiveBusy DEF AskInv, Asked
<1>7. \A r \in Request : Asked(r) => Asked(r)'
  BY <1>1, <1>2 DEF Asked, Request
<1>8. \A w \in Workers : /\ Of(w)' = Of(w) /\ (Idle(w)' <=> Idle(w))
                          /\ (Ingests(w)' <=> Ingests(w))
  BY <1>1 DEF Of, Idle, Ingests, Doing
<1>9. /\ inbox' \subseteq Request /\ \A r \in inbox' : Asked(r)'
  BY <1>1, <1>4, <1>7 DEF AskInv
<1>10. \A w \in Workers : ~Idle(w)' =>
         Asked(Of(w))' /\ (Ingests(w)' <=> Of(w)'.pos > Len(folder'[Sender(w)']))
  BY <1>1, <1>7, <1>8, Handled DEF AskInv, Of, Sender
<1>11. ASSUME NEW d \in Clients
       PROVE  Placed(d)' /\ (pc'[d] = "waiting" => Awaits(d)')
  <2>1. CASE d = c
    <3>1. q \in inbox' /\ q.client = c /\ q.live
      BY <1>1
    <3>2. QED
      BY <1>1, <1>2, <1>3, <2>1, <3>1 DEF Placed, Awaits
  <2>2. CASE d # c
    BY <1>1, <1>2, <1>8, <2>2 DEF AskInv, Placed, Awaits
  <2>3. QED
    BY <2>1, <2>2
<1>12. /\ \A r \in inbox', w \in Workers : r.live /\ Of(w)'.live => r.client # Of(w)'.client
       /\ \A v, w \in Workers :
            Of(v)'.live /\ Of(w)'.live /\ Of(v)'.client = Of(w)'.client => v = w
  BY <1>1, <1>6, <1>8 DEF AskInv
<1>13. QED
  BY <1>1, <1>2, <1>9, <1>10, <1>11, <1>12 DEF AskInv

LEMMA CallAgainAsk ==
    ASSUME AskInv, NEW c \in Clients, CallAgain(c)
    PROVE  AskInv'
<1>1. /\ pc' = [pc EXCEPT ![c] = "ready"] /\ pos' = [pos EXCEPT ![c] = 1]
      /\ pc[c] = "raised" /\ UNCHANGED <<folder, error, inbox, handler>>
  BY DEF CallAgain, server
<1>2. Len(folder[c]) \in Nat
  BY FolderType
<1>3. pc'[c] = "ready" /\ pos'[c] = 1 /\ Placed(c)'
  BY <1>1, <1>2 DEF AskInv, Placed
<1>4. Leaves(c)
  BY <1>1, <1>3 DEF AskInv, Leaves, Pcs
<1>5. QED
  BY <1>1, <1>4, FreeAsk

LEMMA ClearAsk ==
    ASSUME AskInv, NEW c \in Clients, Clear(c)
    PROVE  AskInv'
<1>1. /\ error' = [error EXCEPT ![c] = "none"] /\ pc[c] = "raised"
      /\ UNCHANGED <<folder, pc, pos, inbox, handler>>
  BY DEF Clear
<1>2. Placed(c)'
  BY <1>1 DEF AskInv, Placed
<1>3. Leaves(c)
  BY <1>1, <1>2 DEF AskInv, Leaves, Errors
<1>4. QED
  BY <1>1, <1>3, FreeAsk

LEMMA GiveUpAsk ==
    ASSUME AskInv, NEW c \in Clients, GiveUp(c)
    PROVE  AskInv'
<1>1. Raise(c, "FirmBotError") /\ UNCHANGED folder /\ pc[c] \in {"ready", "waiting"}
  BY DEF GiveUp
<1>2. Leaves(c)
  BY <1>1, RaiseLeaves DEF Errors
<1>3. CASE pc[c] = "ready"
  BY <1>2, <1>3, FreeAsk DEF GiveUp
<1>4. CASE pc[c] = "waiting"
  <2>1. /\ inbox' = {IF r.client = c THEN Dead(r) ELSE r : r \in inbox}
        /\ handler' = [w \in Workers |->
                          IF handler[w].of.client = c
                          THEN [handler[w] EXCEPT !.of = Dead(@)]
                          ELSE handler[w]]
    BY <1>4 DEF GiveUp
  <2>2. ASSUME NEW w \in Workers
        PROVE  /\ handler'[w] \in Handlers
               /\ \/ handler'[w] = handler[w] /\ (Of(w).live => Of(w).client # c)
                  \/ /\ ~Idle(w) /\ Of(w).client = c
                     /\ handler'[w] = [handler[w] EXCEPT !.of = Dead(Of(w))]
    <3>1. CASE Of(w).client = c
      <4>1. handler[w] # Free
        BY <3>1, UploadAssumption DEF Of, Free
      <4>2. /\ handler[w] \in [step : Steps, of : Request] /\ Of(w) \in Request
            /\ ~Idle(w)
        BY <4>1 DEF AskInv, Handlers, Idle, Doing, Steps, Of
      <4>3. handler'[w] = [handler[w] EXCEPT !.of = Dead(Of(w))]
        BY <2>1, <3>1 DEF Of
      <4>4. Dead(Of(w)) \in Request
        BY <4>2 DEF Dead, Request
      <4>5. QED
        BY <3>1, <4>2, <4>3, <4>4 DEF Handlers
    <3>2. CASE Of(w).client # c
      BY <2>1, <3>2 DEF Of, AskInv
    <3>3. QED
      BY <3>1, <3>2
  <2>3. handler' \in [Workers -> Handlers]
    BY <2>1, <2>2
  <2>4. ASSUME NEW r \in inbox, r.client = c
        PROVE  Dead(r) \in Request /\ ~Dead(r).live /\ Asked(Dead(r))
    BY <2>4 DEF AskInv, Asked, Dead, Request
  <2>5. \A r \in inbox' : \/ r \in inbox /\ r.client # c
                          \/ r \in Request /\ ~r.live /\ Asked(r)
    BY <2>1, <2>4
  <2>6. inbox \subseteq Request
    BY DEF AskInv
  <2>7. \A r \in inbox : r.client # c => r \in inbox'
    BY <2>1
  <2>8. QED
    BY <1>2, <2>2, <2>3, <2>5, <2>6, <2>7, LeavesAsk
<1>5. QED
  BY <1>1, <1>3, <1>4

LEMMA AcceptAsk ==
    ASSUME AskInv, NEW w \in Workers, NEW r \in inbox, Accept(w, r)
    PROVE  AskInv'
<1> DEFINE h == [of |-> r, step |-> IF r.pos > Len(folder[r.client])
                                    THEN "ingest" ELSE "exists"]
<1>1. /\ inbox' = inbox \ {r} /\ handler' = [handler EXCEPT ![w] = h]
      /\ UNCHANGED <<folder, pc, pos, error>> /\ Idle(w)
  BY DEF Accept, Idle
<1>2. r \in Request /\ Asked(r)
  BY DEF AskInv
<1>3. h \in Handlers /\ h.step \in {"ingest", "exists"} /\ h.of = r
      /\ (h.step = "ingest" <=> r.pos > Len(folder[r.client]))
  BY <1>2 DEF Handlers, Steps
<1> HIDE DEF h
<1>4. /\ handler' \in [Workers -> Handlers] /\ handler'[w] = h
      /\ \A v \in Workers \ {w} : handler'[v] = handler[v]
  BY <1>1, <1>3 DEF AskInv
<1>5. /\ Of(w)' = r /\ ~Idle(w)' /\ (Ingests(w)' <=> r.pos > Len(folder[r.client]))
      /\ Sender(w)' = r.client
  BY <1>3, <1>4 DEF Of, Idle, Ingests, Doing, Sender
<1>6. \A v \in Workers \ {w} : /\ Of(v)' = Of(v) /\ (Idle(v)' <=> Idle(v))
                               /\ (Ingests(v)' <=> Ingests(v)) /\ Sender(v)' = Sender(v)
  BY <1>4 DEF Of, Idle, Ingests, Doing, Sender
<1>7. \A q : Asked(q) => Asked(q)'
  BY <1>1 DEF Asked
<1>8. inbox' \subseteq Request /\ \A q \in inbox' : Asked(q)'
  BY <1>1, <1>7 DEF AskInv
<1>9. ASSUME NEW v \in Workers, ~Idle(v)'
      PROVE  Asked(Of(v))' /\ (Ingests(v)' <=> Of(v)'.pos > Len(folder'[Sender(v)']))
  <2>1. CASE v = w
    <3>1. Asked(r)'
      BY <1>2, <1>7
    <3>2. QED
      BY <1>1, <1>5, <2>1, <3>1 DEF Asked
  <2>2. CASE v # w
    <3>1. Asked(Of(v)) /\ (Ingests(v) <=> Of(v).pos > Len(folder[Sender(v)]))
      BY <1>6, <1>9, <2>2 DEF AskInv
    <3>2. Asked(Of(v))'
      BY <1>1, <1>6, <2>2, <3>1 DEF Asked
    <3>3. QED
      BY <1>1, <1>6, <2>2, <3>1, <3>2
  <2>3. QED
    BY <2>1, <2>2
<1>10. ~Of(w).live
  BY LiveBusy, <1>1
<1>11. ASSUME NEW c \in Clients
       PROVE  Placed(c)' /\ (pc'[c] = "waiting" => Awaits(c)')
  <2>1. Placed(c)'
    BY <1>1 DEF AskInv, Placed
  <2>2. ASSUME pc'[c] = "waiting" PROVE Awaits(c)'
    <3>1. Awaits(c)
      BY <1>1, <2>2 DEF AskInv
    <3>2. CASE \E q \in inbox : q.client = c /\ q.live
      BY <1>1, <1>5, <3>2 DEF Awaits
    <3>3. CASE \E v \in Workers : Of(v).client = c /\ Of(v).live
      BY <1>6, <1>10, <3>3 DEF Awaits
    <3>4. QED
      BY <3>1, <3>2, <3>3 DEF Awaits
  <2>3. QED
    BY <2>1, <2>2
<1>12. ASSUME NEW q \in inbox', NEW v \in Workers, q.live, Of(v)'.live
       PROVE  q.client # Of(v)'.client
  <2>1. CASE v = w
    <3>1. q \in inbox /\ q # r /\ q \in Request
      BY <1>1, <1>8
    <3>2. Asked(q) /\ Asked(r)
      BY <3>1 DEF AskInv
    <3>3. q.client = r.client /\ r.live => q.pos = r.pos
      BY <1>12, <3>2 DEF Asked
    <3>4. q.client = r.client /\ r.live => q = r
      BY <1>2, <1>12, <3>1, <3>3 DEF Request
    <3>5. QED
      BY <1>5, <1>12, <2>1, <3>1, <3>4
  <2>2. CASE v # w
    BY <1>1, <1>6, <1>12, <2>2 DEF AskInv
  <2>3. QED
    BY <2>1, <2>2
<1>13. ASSUME NEW v \in Workers, NEW u \in Workers,
              Of(v)'.live, Of(u)'.live, Of(v)'.client = Of(u)'.client
       PROVE  v = u
  BY <1>1, <1>5, <1>6, <1>13 DEF AskInv
<1>14. folder' \in [Clients -> Folders] /\ pc' \in [Clients -> Pcs]
       /\ pos' \in [Clients -> Nat \ {0}] /\ error' \in [Clients -> Errors]
  BY <1>1 DEF AskInv
<1>15. QED
  BY <1>4, <1>8, <1>9, <1>11, <1>12, <1>13, <1>14 DEF AskInv

LEMMA RefuseAsk ==
    ASSUME AskInv, NEW r \in inbox, NEW status \in {404, 429}, Refuse(r, status)
    PROVE  AskInv'
<1>1. r \in Request /\ Asked(r) /\ r.client \in Clients
  BY DEF AskInv, Request
<1>2. inbox' = inbox \ {r} /\ UNCHANGED <<folder, handler>>
  BY DEF Refuse
<1>3. inbox' \subseteq Request /\ handler' \in [Workers -> Handlers]
  BY <1>2 DEF AskInv
<1>4. CASE r.live
  <2>1. Got(r.client, status) /\ pc[r.client] = "waiting"
    BY <1>1, <1>4 DEF Refuse, Asked
  <2>2. Leaves(r.client)
    BY <1>1, <1>2, <2>1, GotLeaves
  <2>3. \A w \in Workers : handler'[w] = handler[w]
                           /\ (Of(w).live => Of(w).client # r.client)
    BY <1>2, <1>4 DEF AskInv
  <2>4. ASSUME NEW q \in inbox', q.live PROVE q.client # r.client
    <3>1. q \in Request /\ q # r /\ Asked(q)
      BY <1>2 DEF AskInv
    <3>2. q.client = r.client => q.pos = r.pos
      BY <1>1, <1>4, <2>4, <3>1 DEF Asked
    <3>3. QED
      BY <1>1, <1>4, <2>4, <3>1, <3>2 DEF Request
  <2>5. QED
    BY <1>1, <1>2, <1>3, <2>2, <2>3, <2>4, LeavesAsk
<1>5. CASE ~r.live
  <2>1. UNCHANGED <<folder, handler, pc, pos, error>>
    BY <1>2, <1>5 DEF Refuse
  <2>2. \A w \in Workers : /\ Of(w)' = Of(w) /\ (Idle(w)' <=> Idle(w))
                            /\ (Ingests(w)' <=> Ingests(w)) /\ Sender(w)' = Sender(w)
    BY <2>1 DEF Of, Idle, Ingests, Doing, Sender
  <2>3. \A q : Asked(q) => Asked(q)'
    BY <2>1 DEF Asked
  <2>4. \A c \in Clients : Placed(c)' /\ (pc'[c] = "waiting" => Awaits(c)')
    BY <1>2, <1>5, <2>1, <2>2 DEF AskInv, Placed, Awaits
  <2>5. \A w \in Workers : ~Idle(w)' =>
           Asked(Of(w))' /\ (Ingests(w)' <=> Of(w)'.pos > Len(folder'[Sender(w)']))
    BY <2>1, <2>2, <2>3 DEF AskInv
  <2>6. \A q \in inbox' : Asked(q)'
    BY <1>2, <2>3 DEF AskInv
  <2>7. /\ \A q \in inbox', w \in Workers : q.live /\ Of(w)'.live => q.client # Of(w)'.client
        /\ \A v, w \in Workers :
             Of(v)'.live /\ Of(w)'.live /\ Of(v)'.client = Of(w)'.client => v = w
    BY <1>2, <2>2 DEF AskInv
  <2>8. folder' \in [Clients -> Folders] /\ pc' \in [Clients -> Pcs]
        /\ pos' \in [Clients -> Nat \ {0}] /\ error' \in [Clients -> Errors]
    BY <2>1 DEF AskInv
  <2>9. QED
    BY <1>3, <2>4, <2>5, <2>6, <2>7, <2>8 DEF AskInv
<1>6. QED
  BY <1>4, <1>5

LEMMA CrashAsk ==
    ASSUME AskInv, NEW w \in Workers, Crash(w)
    PROVE  AskInv'
<1>1. ~Idle(w) /\ handler' = [handler EXCEPT ![w] = Free] /\ UNCHANGED <<folder, inbox>>
  BY DEF Crash, Idle
<1>2. Sender(w) \in Clients /\ Sender(w) = Of(w).client /\ Asked(Of(w))
  BY <1>1, Handled
<1>3. ASSUME Of(w).live PROVE Leaves(Sender(w))
  <2>1. Raise(Sender(w), "raw") /\ pc[Sender(w)] = "waiting"
    BY <1>2, <1>3 DEF Crash, Of, Asked
  <2>2. QED
    BY <1>1, <1>2, <2>1, RaiseLeaves DEF Errors
<1>4. ~Of(w).live => UNCHANGED <<pc, pos, error>>
  BY DEF Crash, Of
<1>5. QED
  BY <1>1, <1>3, <1>4, EndAsk

LEMMA HandleAsk ==
    ASSUME AskInv, NEW w \in Workers, Handle(w)
    PROVE  AskInv'
<1>1. CASE CheckExists(w)
  <2>1. ~Idle(w) /\ ~Ingests(w) /\ UNCHANGED <<folder, inbox>>
    BY <1>1 DEF CheckExists, Idle, Ingests, Doing
  <2>2. \/ \E status \in {400, 409} : Answer(w, status)
        \/ Goto(w, "open") /\ UNCHANGED <<pc, pos, error>>
    BY <1>1 DEF CheckExists
  <2>3. QED
    BY <2>1, <2>2, AnswerAsk, GotoAsk DEF Steps
<1>2. CASE Open(w)
  BY <1>2, GotoAsk DEF Open, Idle, Ingests, Doing, Steps
<1>3. CASE Copy(w)
  BY <1>3, GotoAsk DEF Copy, Idle, Ingests, Doing, Steps
<1>4. CASE Stat(w)
  <2>1. ~Idle(w) /\ ~Ingests(w) /\ UNCHANGED <<folder, inbox>>
    BY <1>4 DEF Stat, Idle, Ingests, Doing
  <2>2. \/ \E status \in {200, 500} : Answer(w, status)
        \/ Goto(w, "unlink") /\ UNCHANGED <<pc, pos, error>>
    BY <1>4 DEF Stat
  <2>3. QED
    BY <2>1, <2>2, AnswerAsk, GotoAsk DEF Steps
<1>5. CASE Unlink(w)
  BY <1>5, AnswerAsk DEF Unlink, Idle, Ingests, Doing
<1>6. CASE RunIngest(w) \/ IngestRaises(w)
  BY <1>6, AnswerAsk DEF RunIngest, IngestRaises, Idle, Ingests, Doing
<1>7. QED
  BY <1>1, <1>2, <1>3, <1>4, <1>5, <1>6 DEF Handle

LEMMA FailsAsk == ASSUME AskInv, NEW w \in Workers, IngestFails(w) PROVE AskInv'
  BY AnswerAsk DEF IngestFails, Idle, Ingests, Doing

LEMMA AskInit == Init => AskInv
<1> SUFFICES ASSUME Init PROVE AskInv
  OBVIOUS
<1>1. /\ folder \in [Clients -> Folders] /\ pc \in [Clients -> Pcs]
      /\ pos \in [Clients -> Nat \ {0}] /\ error \in [Clients -> Errors]
      /\ inbox = {} /\ handler \in [Workers -> Handlers]
  BY DEF Init, Pcs, Errors, Handlers
<1>2. \A w \in Workers : Idle(w) /\ ~Of(w).live
  BY DEF Init, Idle, Doing, Of, Free
<1>3. ASSUME NEW c \in Clients PROVE Placed(c) /\ pc[c] # "waiting"
  <2>1. Len(folder[c]) \in Nat
    BY <1>1, UploadAssumption
  <2>2. pc[c] = "ready" /\ pos[c] = 1
    BY DEF Init
  <2>3. QED
    BY <2>1, <2>2 DEF Placed
<1>4. QED
  BY <1>1, <1>2, <1>3 DEF AskInv

LEMMA AskStep == AskInv /\ [Next]_vars => AskInv'
<1> SUFFICES ASSUME AskInv, [Next]_vars PROVE AskInv'
  OBVIOUS
<1>1. CASE UNCHANGED vars
  BY <1>1, AskStays DEF vars
<1>2. CASE \E c \in Clients : Caller(c) \/ GiveUp(c)
  BY <1>2, SendAsk, CallAgainAsk, ClearAsk, GiveUpAsk DEF Caller
<1>3. CASE \E w \in Workers : Handle(w) \/ IngestFails(w) \/ Crash(w)
  BY <1>3, HandleAsk, FailsAsk, CrashAsk
<1>4. CASE \E w \in Workers, r \in inbox : Accept(w, r)
  BY <1>4, AcceptAsk
<1>5. CASE \E r \in inbox, status \in {404, 429} : Refuse(r, status)
  BY <1>5, RefuseAsk
<1>6. QED
  BY <1>1, <1>2, <1>3, <1>4, <1>5 DEF Next
-------------------------------------------------------------------------------
(* The files.                                                              *)

(* What changes of source/ and of the handlers, for SourceInv to hold on.  *)
LEMMA SourceKept ==
    ASSUME SourceInv, UNCHANGED stored \/ stored' \subseteq Clients \X Names,
           source' \in [Names -> Stored],
           removed' \subseteq Names, torn' \subseteq Names, torn \subseteq torn',
           UNCHANGED faults \/ Fault,
           \A n \in Names :
              /\ source'[n].state = "part" => source[n].state = "part" \/ n \in torn'
              /\ source'[n].state = "blank" =>
                    \/ n \in torn'
                    \/ \E w \in Workers : Opened(w, n)'
                    \/ /\ source[n].state = "blank"
                       /\ \A w \in Workers : Opened(w, n) => Opened(w, n)'
    PROVE  SourceInv'
<1>1. faults' \in 0..MaxFaults
  BY UploadAssumption DEF SourceInv, Fault
<1>2. \A n \in Names : source'[n].state = "part" => n \in torn'
  BY DEF SourceInv
<1>3. ASSUME NEW n \in Names, source'[n].state = "blank", n \notin torn'
      PROVE  \E w \in Workers : Opened(w, n)'
  BY <1>3 DEF SourceInv
<1>4. stored' \subseteq Clients \X Names /\ removed' \cup torn' \subseteq Names
  BY DEF SourceInv
<1>5. QED
  BY <1>1, <1>2, <1>3, <1>4 DEF SourceInv

(* A step in which no handler moves, or moves on with what it opened.      *)
LEMMA SourceSame ==
    ASSUME SourceInv, UNCHANGED <<source, folder, stored, removed, torn>>,
           UNCHANGED faults \/ Fault,
           \A w \in Workers : /\ handler'[w].of.client = handler[w].of.client
                              /\ handler'[w].of.pos = handler[w].of.pos
                              /\ handler'[w].step = handler[w].step
    PROVE  SourceInv'
<1>1. \A w \in Workers, n \in Names : Opened(w, n) => Opened(w, n)'
  BY DEF Opened, Doing, Name, File_
<1>2. QED
  BY <1>1, SourceKept DEF SourceInv

(* A handler's step leaves the others where they are.                      *)
LEMMA Others ==
    ASSUME AskInv, NEW w \in Workers, NEW h, handler' = [handler EXCEPT ![w] = h],
           UNCHANGED folder, NEW v \in Workers \ {w}, NEW n
    PROVE  Opened(v, n)' <=> Opened(v, n)
<1>1. handler'[v] = handler[v]
  BY DEF AskInv
<1>2. QED
  BY <1>1 DEF Opened, Doing, Name, File_

(* The handler w goes on at its file.                                      *)
LEMMA Onward ==
    ASSUME AskInv, NEW w \in Workers, ~Idle(w), NEW step \in Steps, Goto(w, step),
           UNCHANGED folder
    PROVE  /\ handler' = [handler EXCEPT ![w] = [@ EXCEPT !.step = step]]
           /\ Doing(w, step)' /\ Name(w)' = Name(w) /\ Sender(w)' = Sender(w)
           /\ ~Idle(w)' /\ (Ingests(w)' <=> step = "ingest")
<1>1. handler[w] \in [step : Steps, of : Request]
  BY Handled
<1>2. handler' = [handler EXCEPT ![w] = [@ EXCEPT !.step = step]]
  BY DEF Goto, AskInv
<1>3. handler'[w] = [handler[w] EXCEPT !.step = step]
  BY <1>2 DEF AskInv
<1>4. handler'[w].step = step /\ handler'[w].of = handler[w].of
  BY <1>1, <1>3
<1>5. QED
  BY <1>2, <1>4 DEF Doing, Name, File_, Sender, Idle, Ingests, Steps

(* A client that gives up does not stop its handler.                       *)
LEMMA GivenUp ==
    ASSUME AskInv, NEW c \in Clients, GiveUp(c), NEW w \in Workers
    PROVE  /\ handler'[w].of.client = handler[w].of.client
           /\ handler'[w].of.pos = handler[w].of.pos
           /\ handler'[w].step = handler[w].step
<1>1. CASE pc[c] = "ready"
  BY <1>1 DEF GiveUp
<1>2. CASE pc[c] = "waiting" /\ handler[w].of.client = c
  <2>1. handler[w] # Free
    BY <1>2, UploadAssumption DEF Free
  <2>2. handler[w] \in [step : Steps, of : Request]
    BY <2>1 DEF AskInv, Handlers
  <2>3. handler'[w] = [handler[w] EXCEPT !.of = Dead(@)]
    BY <1>2 DEF GiveUp
  <2>4. QED
    BY <2>2, <2>3 DEF Dead, Request
<1>3. CASE pc[c] = "waiting" /\ handler[w].of.client # c
  BY <1>3 DEF GiveUp
<1>4. QED
  BY <1>1, <1>2, <1>3 DEF GiveUp

LEMMA ClientSource ==
    ASSUME AskInv, SourceInv, NEW c \in Clients, Caller(c) \/ GiveUp(c)
    PROVE  SourceInv'
<1>1. CASE Send(c)
  BY <1>1, SourceSame DEF Send
<1>2. CASE CallAgain(c)
  BY <1>2, SourceSame DEF CallAgain, server
<1>3. CASE Clear(c)
  <2> DEFINE m == folder[c][pos[c]].name
  <2>1. folder[c] \in Seq(Entry) /\ pos[c] \in 1..Len(folder[c])
    BY <1>3, FolderType DEF Clear, AskInv, Placed
  <2>2. m \in Names
    <3>1. folder[c][pos[c]] \in Entry
      BY <2>1
    <3>2. QED
      BY <3>1 DEF Entry
  <2> HIDE DEF m
  <2>3. /\ source' = [source EXCEPT ![m] = Absent] /\ removed' = removed \cup {m}
        /\ UNCHANGED <<folder, handler, stored, torn, faults>>
    BY <1>3 DEF Clear, m
  <2>4. Absent \in Stored
    BY DEF Absent, File, Stored
  <2>5. source' \in [Names -> Stored]
    BY <2>2, <2>3, <2>4 DEF SourceInv
  <2>6. \A n \in Names : source'[n] = source[n] \/ source'[n] = Absent
    BY <2>3 DEF SourceInv
  <2>7. \A w \in Workers, n \in Names : Opened(w, n) => Opened(w, n)'
    BY <2>3 DEF Opened, Doing, Name, File_
  <2>8. QED
    BY <2>2, <2>3, <2>5, <2>6, <2>7, SourceKept DEF SourceInv, Absent, File
<1>4. CASE GiveUp(c)
  <2>1. \A w \in Workers : /\ handler'[w].of.client = handler[w].of.client
                           /\ handler'[w].of.pos = handler[w].of.pos
                           /\ handler'[w].step = handler[w].step
    BY <1>4, GivenUp
  <2>2. UNCHANGED <<source, folder, stored, removed, torn>> /\ Fault
    BY <1>4 DEF GiveUp
  <2>3. QED
    BY <2>1, <2>2, SourceSame
<1>5. QED
  BY <1>1, <1>2, <1>3, <1>4 DEF Caller

LEMMA AcceptSource ==
    ASSUME AskInv, SourceInv, NEW w \in Workers, NEW r \in inbox, Accept(w, r)
    PROVE  SourceInv'
<1>1. PICK h : handler' = [handler EXCEPT ![w] = h]
  BY DEF Accept
<1>2. /\ Idle(w) /\ UNCHANGED <<source, folder, stored, removed, torn, faults>>
  BY DEF Accept, Idle
<1>3. \A n : ~Opened(w, n)
  BY <1>2 DEF Idle, Opened, Doing
<1>4. \A v \in Workers, n \in Names : Opened(v, n) => Opened(v, n)'
  BY <1>1, <1>2, <1>3, Others
<1>5. QED
  BY <1>2, <1>4, SourceKept DEF SourceInv

(* A handler that has opened nothing moves.                                *)
LEMMA UnopenedSource ==
    ASSUME AskInv, SourceInv, NEW w \in Workers, NEW h,
           handler' = [handler EXCEPT ![w] = h], \A n \in Names : ~Opened(w, n),
           UNCHANGED <<source, folder, stored, removed, torn>>, UNCHANGED faults \/ Fault
    PROVE  SourceInv'
<1>1. \A v \in Workers, n \in Names : Opened(v, n) => Opened(v, n)'
  BY Others
<1>2. QED
  BY <1>1, SourceKept DEF SourceInv

LEMMA HandleSource ==
    ASSUME AskInv, SourceInv, NEW w \in Workers, Handle(w)
    PROVE  SourceInv'
<1>1. CASE CheckExists(w)
  <2>1. ~Idle(w) /\ \A n : ~Opened(w, n)
    BY <1>1 DEF CheckExists, Idle, Opened, Doing
  <2>2. \E h : handler' = [handler EXCEPT ![w] = h]
    <3>1. \/ \E status : Answer(w, status)
          \/ Goto(w, "open")
      BY <1>1 DEF CheckExists
    <3>2. QED
      BY <3>1 DEF Answer, Goto
  <2>3. QED
    BY <1>1, <2>1, <2>2, UnopenedSource DEF CheckExists
<1>2. CASE RunIngest(w) \/ IngestRaises(w)
  BY <1>2, UnopenedSource DEF RunIngest, IngestRaises, Answer, Opened, Doing
<1>3. ASSUME ~Idle(w), ~Ingests(w)
      PROVE  /\ Name(w) \in Names /\ Sender(w) \in Clients
             /\ \A state \in {"absent", "blank", "part", "whole", "mixed"} :
                   File(state, Sender(w)) \in Stored
             /\ Absent \in Stored
  BY <1>3, Handled DEF File, Stored, Absent
<1>4. CASE Open(w)
  <2>1. ~Idle(w) /\ ~Ingests(w)
    BY <1>4 DEF Open, Idle, Ingests, Doing
  <2>2. /\ source' = [source EXCEPT ![Name(w)] = File("blank", Sender(w))]
        /\ Goto(w, "copy") /\ UNCHANGED <<folder, stored, removed, torn, faults>>
    BY <1>4 DEF Open
  <2>3. source' \in [Names -> Stored]
    BY <1>3, <2>1, <2>2 DEF SourceInv
  <2>4. (\A n : Opened(w, n)' <=> n = Name(w)) /\ handler' = [handler EXCEPT ![w] = [@ EXCEPT !.step = "copy"]]
    BY <2>1, <2>2, Onward DEF Opened, Steps
  <2>5. \A n \in Names \ {Name(w)} : source'[n] = source[n] /\ ~Opened(w, n)
    BY <2>2 DEF SourceInv, Opened
  <2>6. \A v \in Workers \ {w}, n \in Names : Opened(v, n) => Opened(v, n)'
    BY <2>2, <2>4, Others
  <2>7. source'[Name(w)].state # "part"
    BY <1>3, <2>1, <2>2 DEF SourceInv, File
  <2>8. ASSUME NEW n \in Names
        PROVE  /\ source'[n].state = "part" => source[n].state = "part" \/ n \in torn'
               /\ source'[n].state = "blank" =>
                     \/ n \in torn'
                     \/ \E v \in Workers : Opened(v, n)'
                     \/ /\ source[n].state = "blank"
                        /\ \A v \in Workers : Opened(v, n) => Opened(v, n)'
    BY <2>4, <2>5, <2>6, <2>7
  <2>9. QED
    BY <2>2, <2>3, <2>8, SourceKept DEF SourceInv
<1>5. CASE Copy(w)
  <2>1. ~Idle(w) /\ ~Ingests(w) /\ Opened(w, Name(w))
    BY <1>5 DEF Copy, Idle, Ingests, Doing, Opened
  <2>2. PICK f \in {source[Name(w)], Whole(Sender(w)), File("mixed", Sender(w))} :
           source' = [source EXCEPT ![Name(w)] = f]
    BY <1>5 DEF Copy
  <2>3. Goto(w, "stat") /\ UNCHANGED <<folder, stored, removed, torn, faults>>
    BY <1>5 DEF Copy
  <2>4. source' \in [Names -> Stored]
    BY <1>3, <2>1, <2>2 DEF SourceInv, Whole
  <2>5. /\ \A n : Opened(w, n)' <=> n = Name(w)
        /\ handler' = [handler EXCEPT ![w] = [@ EXCEPT !.step = "stat"]]
    BY <2>1, <2>3, Onward DEF Opened, Steps
  <2>6. \A n \in Names : source'[n].state \in {"part", "blank"} => source'[n] = source[n]
    BY <1>3, <2>1, <2>2 DEF SourceInv, Whole, File
  <2>7. \A n \in Names \ {Name(w)} : ~Opened(w, n)
    BY DEF Opened
  <2>8. \A v \in Workers, n \in Names : Opened(v, n) => Opened(v, n)'
    BY <2>3, <2>5, <2>7, Others
  <2>9. QED
    BY <2>3, <2>4, <2>6, <2>8, SourceKept DEF SourceInv
<1>6. CASE Stat(w)
  <2>1. ~Idle(w) /\ ~Ingests(w) /\ UNCHANGED <<source, folder, removed, torn, faults>>
    BY <1>6 DEF Stat, Idle, Ingests, Doing
  <2>2. stored' \subseteq Clients \X Names
    <3>1. stored' \in {stored, stored \cup {<<Sender(w), Name(w)>>}}
      BY <1>6 DEF Stat
    <3>2. QED
      BY <1>3, <2>1, <3>1 DEF SourceInv
  <2>3. \A n \in Names \ {Name(w)} : ~Opened(w, n)
    BY DEF Opened
  <2>4. CASE Goto(w, "unlink")
    <3>1. /\ \A n : Opened(w, n)' <=> n = Name(w)
          /\ handler' = [handler EXCEPT ![w] = [@ EXCEPT !.step = "unlink"]]
      BY <2>1, <2>4, Onward DEF Opened, Steps
    <3>2. \A v \in Workers, n \in Names : Opened(v, n) => Opened(v, n)'
      BY <2>1, <2>3, <3>1, Others
    <3>3. QED
      BY <2>1, <2>2, <3>2, SourceKept DEF SourceInv
  <2>5. CASE source[Name(w)].state # "blank" /\ handler' = [handler EXCEPT ![w] = Free]
    <3>1. \A v \in Workers \ {w}, n \in Names : Opened(v, n) => Opened(v, n)'
      BY <2>1, <2>5, Others
    <3>2. \A v \in Workers, n \in Names :
             source[n].state = "blank" => (Opened(v, n) => Opened(v, n)')
      BY <2>3, <2>5, <3>1
    <3>3. QED
      BY <2>1, <2>2, <3>2, SourceKept DEF SourceInv
  <2>6. Goto(w, "unlink") \/
        (source[Name(w)].state # "blank" /\ handler' = [handler EXCEPT ![w] = Free])
    BY <1>6 DEF Stat, Answer, Absent, File
  <2>7. QED
    BY <2>4, <2>5, <2>6
<1>7. CASE Unlink(w)
  <2>1. /\ ~Idle(w) /\ ~Ingests(w) /\ UNCHANGED <<folder, stored, removed, torn, faults>>
        /\ source' = [source EXCEPT ![Name(w)] = Absent]
        /\ handler' = [handler EXCEPT ![w] = Free]
    BY <1>7 DEF Unlink, Answer, Idle, Ingests, Doing
  <2>2. /\ source' \in [Names -> Stored] /\ source'[Name(w)] = Absent
        /\ \A n \in Names \ {Name(w)} : source'[n] = source[n]
    BY <1>3, <2>1 DEF SourceInv
  <2>3. \A n \in Names \ {Name(w)} : ~Opened(w, n)
    BY DEF Opened
  <2>4. \A v \in Workers \ {w}, n \in Names : Opened(v, n) => Opened(v, n)'
    BY <2>1, Others
  <2>5. \A n \in Names : source'[n].state \in {"part", "blank"} =>
           /\ source'[n] = source[n]
           /\ \A v \in Workers : Opened(v, n) => Opened(v, n)'
    BY <2>2, <2>3, <2>4 DEF Absent, File
  <2>6. QED
    BY <2>1, <2>2, <2>5, SourceKept DEF SourceInv
<1>8. QED
  BY <1>1, <1>2, <1>4, <1>5, <1>6, <1>7 DEF Handle

LEMMA FailsSource ==
    ASSUME AskInv, SourceInv, NEW w \in Workers, IngestFails(w)
    PROVE  SourceInv'
<1>1. handler' = [handler EXCEPT ![w] = Free] /\ \A n \in Names : ~Opened(w, n)
  BY DEF IngestFails, Answer, Opened, Doing
<1>2. UNCHANGED <<source, folder, stored, removed, torn>> /\ Fault
  BY DEF IngestFails
<1>3. QED
  BY <1>1, <1>2, UnopenedSource

LEMMA CrashSource ==
    ASSUME AskInv, SourceInv, NEW w \in Workers, Crash(w)
    PROVE  SourceInv'
<1>1. /\ ~Idle(w) /\ Fault /\ handler' = [handler EXCEPT ![w] = Free]
      /\ UNCHANGED <<folder, stored, removed>>
  BY DEF Crash, Idle
<1>2. \A v \in Workers \ {w}, n \in Names : Opened(v, n) => Opened(v, n)'
  BY <1>1, Others
<1>3. CASE Ingests(w)
  <2>1. UNCHANGED <<source, torn>> /\ \A n : ~Opened(w, n)
    BY <1>3 DEF Crash, Ingests, Doing, Opened
  <2>2. QED
    BY <1>1, <1>2, <2>1, SourceKept DEF SourceInv
<1>4. CASE ~Ingests(w)
  <2>1. Name(w) \in Names /\ Sender(w) \in Clients
    BY <1>1, <1>4, Handled
  <2>2. torn' = torn \cup {Name(w)}
    BY <1>4 DEF Crash, Ingests
  <2>3. /\ source' \in [Names -> Stored]
        /\ \A n \in Names \ {Name(w)} : source'[n] = source[n]
    <3>1. source' = source \/ \E f \in {source[Name(w)], File("part", Sender(w))} :
                                 source' = [source EXCEPT ![Name(w)] = f]
      BY DEF Crash
    <3>2. File("part", Sender(w)) \in Stored
      BY <2>1 DEF File, Stored
    <3>3. QED
      BY <2>1, <3>1, <3>2 DEF SourceInv
  <2>4. \A n \in Names \ {Name(w)} : ~Opened(w, n)
    BY DEF Opened
  <2>5. \A n \in Names \ {Name(w)}, v \in Workers : Opened(v, n) => Opened(v, n)'
    BY <1>2, <2>4
  <2>6. torn' \subseteq Names /\ Name(w) \in torn'
    BY <2>1, <2>2 DEF SourceInv
  <2>7. ASSUME NEW n \in Names
        PROVE  /\ source'[n].state = "part" => source[n].state = "part" \/ n \in torn'
               /\ source'[n].state = "blank" =>
                     \/ n \in torn'
                     \/ /\ source[n].state = "blank"
                        /\ \A v \in Workers : Opened(v, n) => Opened(v, n)'
    BY <2>3, <2>5, <2>6
  <2>8. QED
    BY <1>1, <2>2, <2>3, <2>6, <2>7, SourceKept DEF SourceInv
<1>5. QED
  BY <1>3, <1>4

LEMMA SourceInit == Init => SourceInv
<1> SUFFICES ASSUME Init PROVE SourceInv
  OBVIOUS
<1>1. Absent \in Stored /\ Absent.state = "absent"
  BY DEF Absent, File, Stored
<1>2. source = [n \in Names |-> Absent]
  BY DEF Init
<1>3. QED
  BY <1>1, <1>2, UploadAssumption DEF Init, SourceInv

LEMMA SourceStep == AskInv /\ SourceInv /\ [Next]_vars => SourceInv'
<1> SUFFICES ASSUME AskInv, SourceInv, [Next]_vars PROVE SourceInv'
  OBVIOUS
<1>1. CASE UNCHANGED vars
  BY <1>1, SourceSame DEF vars
<1>2. CASE \E c \in Clients : Caller(c) \/ GiveUp(c)
  BY <1>2, ClientSource
<1>3. CASE \E w \in Workers : Handle(w) \/ IngestFails(w) \/ Crash(w)
  BY <1>3, HandleSource, FailsSource, CrashSource
<1>4. CASE \E w \in Workers, r \in inbox : Accept(w, r)
  BY <1>4, AcceptSource
<1>5. CASE \E r \in inbox, status \in {404, 429} : Refuse(r, status)
  BY <1>5, SourceSame DEF Refuse
<1>6. QED
  BY <1>1, <1>2, <1>3, <1>4, <1>5 DEF Next

LEMMA Shown == AskInv /\ SourceInv => TypeOK /\ NoStub
<1> SUFFICES ASSUME AskInv, SourceInv PROVE TypeOK /\ NoStub
  OBVIOUS
<1>1. ASSUME NEW c \in Clients
      PROVE  pc[c] = "waiting" <=> Awaits(c)
  <2>1. pc[c] = "waiting" => Awaits(c)
    BY DEF AskInv
  <2>2. ASSUME NEW r \in inbox, r.client = c, r.live PROVE pc[c] = "waiting"
    BY <2>2 DEF AskInv, Asked
  <2>3. ASSUME NEW w \in Workers, Of(w).client = c, Of(w).live PROVE pc[c] = "waiting"
    <3>1. ~Idle(w)
      BY <2>3, LiveBusy
    <3>2. QED
      BY <2>3, <3>1 DEF AskInv, Asked
  <2>4. QED
    BY <2>1, <2>2, <2>3 DEF Awaits
<1>2. TypeOK
  BY <1>1 DEF TypeOK, AskInv, SourceInv, Awaits, Of, Pcs, Handlers, Stored
<1>3. NoStub
  BY DEF NoStub, SourceInv, Opened, Doing
<1>4. QED
  BY <1>2, <1>3

(* Whatever the number of workers: a client waits exactly as long as its   *)
(* request is in the inbox or in a handler, and a file that is empty or    *)
(* half-written is one a handler is at, or that a crash has cut.           *)
THEOREM Tidy == Spec => [](TypeOK /\ NoStub)
<1>1. Init => AskInv /\ SourceInv
  BY AskInit, SourceInit
<1>2. AskInv /\ SourceInv /\ [Next]_vars => (AskInv /\ SourceInv)'
  BY AskStep, SourceStep
<1>3. QED
  BY <1>1, <1>2, Shown, PTL DEF Spec
-------------------------------------------------------------------------------
(* One worker.                                                             *)

Alone == \A v, w \in Workers : v = w

(* A file that is not whole may change: no upload was told it is stored.   *)
LEMMA KeepsStays ==
    ASSUME Keeps, UNCHANGED stored, removed \subseteq removed',
           \A n \in Names : \/ source'[n] = source[n] \/ n \in removed'
                            \/ source[n].state # "whole"
    PROVE  Keeps'
  BY DEF Keeps, Whole, File

LEMMA AloneSame ==
    ASSUME AloneInv, UNCHANGED <<source, folder, stored, removed>>,
           \A w \in Workers : /\ handler'[w].of.client = handler[w].of.client
                              /\ handler'[w].of.pos = handler[w].of.pos
                              /\ handler'[w].step = handler[w].step
    PROVE  AloneInv'
  BY DEF AloneInv, Held, Keeps, Idle, Ingests, Doing, Name, File_, Sender, Absent, File,
         Whole

(* The handler returns.                                                    *)
LEMMA AloneFree ==
    ASSUME Alone, AskInv, AloneInv, NEW w \in Workers,
           handler' = [handler EXCEPT ![w] = Free], Keeps'
    PROVE  AloneInv'
<1>1. Idle(w)'
  BY DEF AskInv, Idle, Doing, Free
<1>2. Held(w)'
  BY <1>1 DEF Held
<1>3. QED
  BY <1>2 DEF AloneInv, Alone

(* The handler goes on, the file as the next step expects it.              *)
LEMMA AloneOnward ==
    ASSUME Alone, AskInv, AloneInv, NEW w \in Workers, ~Idle(w), UNCHANGED folder,
           NEW step \in Steps, Goto(w, step), Keeps',
           step = "open" => source'[Name(w)] = Absent,
           step \in {"copy", "unlink"} =>
              source'[Name(w)] \in {Absent, File("blank", Sender(w))},
           step = "stat" =>
              source'[Name(w)] \in {Absent, File("blank", Sender(w)), Whole(Sender(w))}
    PROVE  AloneInv'
<1>1. Doing(w, step)' /\ Name(w)' = Name(w) /\ Sender(w)' = Sender(w)
  BY Onward
<1>2. Held(w)'
  BY <1>1 DEF Held, Doing, Absent, File, Whole
<1>3. QED
  BY <1>2 DEF AloneInv, Alone

LEMMA ClientAlone ==
    ASSUME Alone, AskInv, SourceInv, AloneInv, NEW c \in Clients, Caller(c) \/ GiveUp(c)
    PROVE  AloneInv'
<1>1. CASE Send(c)
  BY <1>1, AloneSame DEF Send
<1>2. CASE CallAgain(c)
  BY <1>2, AloneSame DEF CallAgain, server
<1>3. CASE Clear(c)
  <2> DEFINE m == folder[c][pos[c]].name
  <2>1. /\ source' = [source EXCEPT ![m] = Absent] /\ removed' = removed \cup {m}
        /\ UNCHANGED <<folder, handler, stored>>
    BY <1>3 DEF Clear
  <2> HIDE DEF m
  <2>2. \A n \in Names : source'[n] = source[n] \/ (source'[n] = Absent /\ n \in removed')
    BY <2>1 DEF SourceInv
  <2>3. Keeps'
    BY <2>1, <2>2, KeepsStays DEF AloneInv
  <2>4. ASSUME NEW w \in Workers PROVE Held(w)'
    <3>1. CASE ~Idle(w) /\ ~Ingests(w)
      <4>1. Name(w) \in Names
        BY <3>1, Handled
      <4>2. source'[Name(w)] = source[Name(w)] \/ source'[Name(w)] = Absent
        BY <2>2, <4>1
      <4>3. QED
        BY <2>1, <3>1, <4>2 DEF AloneInv, Held, Idle, Ingests, Doing, Name, File_, Sender,
              Absent, File, Whole
    <3>2. CASE Idle(w) \/ Ingests(w)
      BY <2>1, <3>2 DEF Held, Idle, Ingests, Doing
    <3>3. QED
      BY <3>1, <3>2
  <2>5. QED
    BY <2>3, <2>4 DEF AloneInv
<1>4. CASE GiveUp(c)
  <2>1. \A w \in Workers : /\ handler'[w].of.client = handler[w].of.client
                           /\ handler'[w].of.pos = handler[w].of.pos
                           /\ handler'[w].step = handler[w].step
    BY <1>4, GivenUp
  <2>2. UNCHANGED <<source, folder, stored, removed>>
    BY <1>4 DEF GiveUp
  <2>3. QED
    BY <2>1, <2>2, AloneSame
<1>5. QED
  BY <1>1, <1>2, <1>3, <1>4 DEF Caller

LEMMA AcceptAlone ==
    ASSUME Alone, AskInv, AloneInv, NEW w \in Workers, NEW r \in inbox, Accept(w, r)
    PROVE  AloneInv'
<1>1. handler'[w].step \in {"ingest", "exists"}
  BY DEF Accept, AskInv
<1>2. Held(w)'
  BY <1>1 DEF Held, Doing
<1>3. Keeps'
  BY KeepsStays DEF Accept, AloneInv
<1>4. QED
  BY <1>2, <1>3 DEF AloneInv, Alone

LEMMA HandleAlone ==
    ASSUME Alone, AskInv, SourceInv, AloneInv, NEW w \in Workers, Handle(w)
    PROVE  AloneInv'
<1>1. ~Idle(w) /\ Held(w)
  BY DEF Handle, CheckExists, Open, Copy, Stat, Unlink, RunIngest, IngestRaises, Idle,
         Doing, AloneInv
<1>2. ASSUME ~Ingests(w)
      PROVE  /\ Name(w) \in Names /\ Sender(w) \in Clients
             /\ \A f : source' = [source EXCEPT ![Name(w)] = f] =>
                          /\ source'[Name(w)] = f
                          /\ \A n \in Names \ {Name(w)} : source'[n] = source[n]
  BY <1>1, <1>2, Handled DEF SourceInv
<1>3. CASE CheckExists(w)
  <2>1. UNCHANGED <<source, folder, stored, removed>> /\ ~Ingests(w)
    BY <1>3 DEF CheckExists, Ingests, Doing
  <2>2. Keeps'
    BY <2>1, KeepsStays DEF AloneInv
  <2>3. \/ handler' = [handler EXCEPT ![w] = Free]
        \/ Goto(w, "open") /\ source[Name(w)] = Absent
    BY <1>3 DEF CheckExists, Answer
  <2>4. QED
    BY <1>1, <2>1, <2>2, <2>3, AloneFree, AloneOnward DEF Steps
<1>4. CASE Open(w)
  <2>1. ~Ingests(w) /\ source[Name(w)] = Absent
    BY <1>1, <1>4 DEF Open, Held, Ingests, Doing
  <2>2. /\ source' = [source EXCEPT ![Name(w)] = File("blank", Sender(w))]
        /\ Goto(w, "copy") /\ UNCHANGED <<folder, stored, removed>>
    BY <1>4 DEF Open
  <2>3. Keeps'
    BY <1>2, <2>1, <2>2, KeepsStays DEF AloneInv, Absent, File
  <2>4. QED
    BY <1>1, <1>2, <2>1, <2>2, <2>3, AloneOnward DEF Steps
<1>5. CASE Copy(w)
  <2>1. ~Ingests(w) /\ source[Name(w)] \in {Absent, File("blank", Sender(w))}
    BY <1>1, <1>5 DEF Copy, Held, Ingests, Doing
  <2>2. PICK f \in {source[Name(w)], Whole(Sender(w))} :
           /\ source' = [source EXCEPT ![Name(w)] = f]
           /\ source[Name(w)] = Absent => f = Absent
    BY <1>5, <2>1 DEF Copy, Absent, File
  <2>3. Goto(w, "stat") /\ UNCHANGED <<folder, stored, removed>>
    BY <1>5 DEF Copy
  <2>4. Keeps'
    BY <1>2, <2>1, <2>2, <2>3, KeepsStays DEF AloneInv, Absent, File
  <2>5. source'[Name(w)] \in {Absent, File("blank", Sender(w)), Whole(Sender(w))}
    BY <1>2, <2>1, <2>2
  <2>6. QED
    BY <1>1, <2>3, <2>4, <2>5, AloneOnward DEF Steps
<1>6. CASE Stat(w)
  <2>1. /\ ~Ingests(w) /\ UNCHANGED <<source, folder, removed>>
        /\ source[Name(w)] \in {Absent, File("blank", Sender(w)), Whole(Sender(w))}
    BY <1>1, <1>6 DEF Stat, Held, Ingests, Doing
  <2>2. CASE source[Name(w)] = Absent
    <3>1. handler' = [handler EXCEPT ![w] = Free] /\ UNCHANGED stored
      BY <1>6, <2>2 DEF Stat, Answer, Absent, File
    <3>2. QED
      BY <2>1, <3>1, KeepsStays, AloneFree DEF AloneInv
  <2>3. CASE source[Name(w)] = File("blank", Sender(w))
    <3>1. Goto(w, "unlink") /\ UNCHANGED stored
      BY <1>6, <2>3 DEF Stat, Absent, File
    <3>2. Keeps'
      BY <2>1, <3>1, KeepsStays DEF AloneInv
    <3>3. QED
      BY <1>1, <2>1, <2>3, <3>1, <3>2, AloneOnward DEF Steps
  <2>4. CASE source[Name(w)] = Whole(Sender(w))
    <3>1. /\ handler' = [handler EXCEPT ![w] = Free]
          /\ stored' = stored \cup {<<Sender(w), Name(w)>>}
      BY <1>6, <2>4 DEF Stat, Answer, Absent, Whole, File
    <3>2. Keeps'
      BY <2>1, <2>4, <3>1 DEF AloneInv, Keeps, Whole, File
    <3>3. QED
      BY <3>1, <3>2, AloneFree
  <2>5. QED
    BY <2>1, <2>2, <2>3, <2>4
<1>7. CASE Unlink(w)
  <2>1. ~Ingests(w) /\ source[Name(w)] \in {Absent, File("blank", Sender(w))}
    BY <1>1, <1>7 DEF Unlink, Held, Ingests, Doing
  <2>2. /\ source' = [source EXCEPT ![Name(w)] = Absent]
        /\ handler' = [handler EXCEPT ![w] = Free] /\ UNCHANGED <<stored, removed>>
    BY <1>7 DEF Unlink, Answer
  <2>3. Keeps'
    BY <1>2, <2>1, <2>2, KeepsStays DEF AloneInv, Absent, File
  <2>4. QED
    BY <2>2, <2>3, AloneFree
<1>8. CASE RunIngest(w) \/ IngestRaises(w)
  BY <1>8, KeepsStays, AloneFree DEF RunIngest, IngestRaises, Answer, AloneInv
<1>9. QED
  BY <1>3, <1>4, <1>5, <1>6, <1>7, <1>8 DEF Handle

LEMMA FailsAlone ==
    ASSUME Alone, AskInv, AloneInv, NEW w \in Workers, IngestFails(w)
    PROVE  AloneInv'
  BY KeepsStays, AloneFree DEF IngestFails, Answer, AloneInv

LEMMA CrashAlone ==
    ASSUME Alone, AskInv, SourceInv, AloneInv, NEW w \in Workers, Crash(w)
    PROVE  AloneInv'
<1>1. /\ ~Idle(w) /\ Held(w) /\ handler' = [handler EXCEPT ![w] = Free]
      /\ UNCHANGED <<stored, removed>>
  BY DEF Crash, Idle, AloneInv
<1>2. CASE UNCHANGED source
  BY <1>1, <1>2, KeepsStays, AloneFree DEF AloneInv
<1>3. CASE Doing(w, "copy") /\ \E f : source' = [source EXCEPT ![Name(w)] = f]
  <2>1. /\ source[Name(w)] \in {Absent, File("blank", Sender(w))}
        /\ \A n \in Names \ {Name(w)} : source'[n] = source[n]
    BY <1>1, <1>3 DEF Held, Idle, Ingests, Doing, SourceInv
  <2>2. Keeps'
    BY <1>1, <2>1, KeepsStays DEF AloneInv, Absent, File
  <2>3. QED
    BY <1>1, <2>2, AloneFree
<1>4. QED
  BY <1>2, <1>3 DEF Crash

LEMMA AloneInit == Init => AloneInv
<1> SUFFICES ASSUME Init PROVE AloneInv
  OBVIOUS
<1>1. \A w \in Workers : Idle(w)
  BY DEF Init, Idle, Doing, Free
<1>2. QED
  BY <1>1 DEF Init, AloneInv, Held, Keeps

LEMMA AloneStep ==
    ASSUME Alone PROVE AskInv /\ SourceInv /\ AloneInv /\ [Next]_vars => AloneInv'
<1> SUFFICES ASSUME AskInv, SourceInv, AloneInv, [Next]_vars PROVE AloneInv'
  OBVIOUS
<1>1. CASE UNCHANGED vars
  BY <1>1, AloneSame DEF vars
<1>2. CASE \E c \in Clients : Caller(c) \/ GiveUp(c)
  BY <1>2, ClientAlone
<1>3. CASE \E w \in Workers : Handle(w) \/ IngestFails(w) \/ Crash(w)
  BY <1>3, HandleAlone, FailsAlone, CrashAlone
<1>4. CASE \E w \in Workers, r \in inbox : Accept(w, r)
  BY <1>4, AcceptAlone
<1>5. CASE \E r \in inbox, status \in {404, 429} : Refuse(r, status)
  BY <1>5, AloneSame DEF Refuse
<1>6. QED
  BY <1>1, <1>2, <1>3, <1>4, <1>5 DEF Next

(* With one worker, "upload = create": a file that an upload found stored  *)
(* stays, whole, until the operator removes it, whatever requests clients  *)
(* that gave up have left behind and whenever the worker dies.             *)
THEOREM Stays == ASSUME Alone PROVE Spec => []StoredStays
<1>1. Init => AskInv /\ SourceInv /\ AloneInv
  BY AskInit, SourceInit, AloneInit
<1>2. AskInv /\ SourceInv /\ AloneInv /\ [Next]_vars => (AskInv /\ SourceInv /\ AloneInv)'
  BY AskStep, SourceStep, AloneStep
<1>3. AskInv /\ SourceInv /\ AloneInv => StoredStays
  BY Shown DEF StoredStays, AloneInv, Keeps
<1>4. QED
  BY <1>1, <1>2, <1>3, PTL DEF Spec
-------------------------------------------------------------------------------
(* What the client is told.                                                *)

Told(c) ==
    \A i \in DOMAIN folder[c] : i < pos[c] => <<c, folder[c][i].name>> \in stored

(* A client moves on once what it sent is stored, and is done with what    *)
(* source/ is then.                                                        *)
LEMMA ToldKept ==
    ASSUME AskInv, ToldInv, Keeps', UNCHANGED folder,
           found' \in [Clients -> [Names -> Stored]],
           stored \subseteq stored', removed \subseteq removed',
           pos' \in [Clients -> Nat \ {0}],
           \A c \in Clients :
              /\ \/ pos'[c] <= pos[c]
                 \/ /\ pos'[c] = pos[c] + 1
                    /\ pos[c] \in DOMAIN folder[c] =>
                          <<c, folder[c][pos[c]].name>> \in stored'
              /\ pc'[c] = "done" =>
                    /\ pos'[c] > Len(folder[c])
                    /\ found'[c] = source' \/ (pc[c] = "done" /\ found'[c] = found[c])
    PROVE  ToldInv'
<1>1. ASSUME NEW c \in Clients PROVE Told(c)'
  <2> SUFFICES ASSUME NEW i \in DOMAIN folder[c], i < pos'[c]
               PROVE  <<c, folder[c][i].name>> \in stored'
    BY DEF Told
  <2>1. pos[c] \in Nat /\ pos'[c] \in Nat /\ i \in Nat
    BY FolderType
  <2>2. CASE i < pos[c]
    BY <2>2 DEF ToldInv
  <2>3. CASE i >= pos[c]
    <3> DEFINE p == pos[c]
               q == pos'[c]
    <3>1. q <= p \/ q = p + 1
      OBVIOUS
    <3>2. p \in Nat /\ q \in Nat /\ i \in Nat /\ i < q /\ i >= p
      BY <2>1, <2>3
    <3> HIDE DEF p, q
    <3>3. i = p /\ q = p + 1 /\ ~(q <= p)
      BY <3>1, <3>2
    <3>4. QED
      BY <3>3 DEF p, q
  <2>4. QED
    BY <2>1, <2>2, <2>3
<1>2. ASSUME NEW c \in Clients, pc'[c] = "done", NEW i \in DOMAIN folder[c]
      PROVE  folder[c][i].name \in removed' \/ found'[c][folder[c][i].name] = Whole(c)
  <2>1. CASE pc[c] = "done" /\ found'[c] = found[c]
    BY <2>1 DEF ToldInv, IngestMeansAll
  <2>2. CASE found'[c] = source'
    <3>1. /\ folder[c] \in Seq(Entry) /\ i \in 1..Len(folder[c]) /\ Len(folder[c]) \in Nat
          /\ pos'[c] \in Nat
      BY FolderType
    <3>2. folder[c][i] \in Entry
      BY <3>1
    <3>3. folder[c][i].name \in Names
      BY <3>2 DEF Entry
    <3>4. i < pos'[c]
      <4> DEFINE n == Len(folder[c])
                 q == pos'[c]
      <4>1. q > n /\ n \in Nat /\ q \in Nat /\ i \in 1..n
        BY <1>2, <3>1
      <4> HIDE DEF n, q
      <4>2. i < q
        BY <4>1
      <4>3. QED
        BY <4>2 DEF q
    <3>5. <<c, folder[c][i].name>> \in stored'
      BY <1>1, <3>4 DEF Told
    <3>6. QED
      BY <2>2, <3>3, <3>5 DEF Keeps, Whole, File
  <2>3. QED
    BY <1>2, <2>1, <2>2
<1>3. IngestMeansAll'
  BY <1>2 DEF IngestMeansAll, Whole, File
<1>4. QED
  BY <1>1, <1>3 DEF ToldInv, Told

(* A step in which no client gets a success.                               *)
LEMMA ToldQuiet ==
    ASSUME AskInv, AskInv', ToldInv, AloneInv', UNCHANGED <<folder, found>>,
           stored \subseteq stored', removed \subseteq removed',
           \A c \in Clients : /\ pos'[c] = pos[c] \/ pos'[c] = 1
                              /\ pc'[c] = "done" => pc[c] = "done" /\ pos'[c] = pos[c]
    PROVE  ToldInv'
<1>1. \A c \in Clients : pos'[c] <= pos[c]
  BY FolderType
<1>2. pos' \in [Clients -> Nat \ {0}]
  BY DEF AskInv
<1>3. \A c \in Clients : pc'[c] = "done" => pos'[c] > Len(folder[c])
  BY DEF ToldInv
<1>4. QED
  BY <1>1, <1>2, <1>3, ToldKept DEF ToldInv, AloneInv

LEMMA RaiseTold ==
    ASSUME AskInv, NEW d, NEW e, Raise(d, e), NEW c \in Clients
    PROVE  pos'[c] = pos[c] /\ (pc'[c] = "done" => pc[c] = "done" /\ pos'[c] = pos[c])
  BY DEF Raise, AskInv

LEMMA ClientTold ==
    ASSUME AskInv, AskInv', ToldInv, AloneInv', NEW c \in Clients, Caller(c) \/ GiveUp(c)
    PROVE  ToldInv'
<1>1. CASE Send(c)
  BY <1>1, ToldQuiet DEF Send, AskInv
<1>2. CASE CallAgain(c)
  <2>1. /\ pc' = [pc EXCEPT ![c] = "ready"] /\ pos' = [pos EXCEPT ![c] = 1]
        /\ UNCHANGED <<folder, found, stored, removed>>
    BY <1>2 DEF CallAgain, server
  <2>2. \A d \in Clients : /\ pos'[d] = pos[d] \/ pos'[d] = 1
                           /\ pc'[d] = "done" => pc[d] = "done" /\ pos'[d] = pos[d]
    BY <2>1 DEF AskInv
  <2>3. QED
    BY <2>1, <2>2, ToldQuiet
<1>3. CASE Clear(c)
  BY <1>3, ToldQuiet DEF Clear
<1>4. CASE GiveUp(c)
  BY <1>4, RaiseTold, ToldQuiet DEF GiveUp
<1>5. QED
  BY <1>1, <1>2, <1>3, <1>4 DEF Caller

LEMMA RefuseTold ==
    ASSUME AskInv, AskInv', ToldInv, AloneInv', NEW r \in inbox,
           NEW status \in {404, 429}, Refuse(r, status)
    PROVE  ToldInv'
<1>1. (\E e : Raise(r.client, e)) \/ UNCHANGED <<pc, pos, error>>
  BY DEF Refuse, Got
<1>2. UNCHANGED <<folder, found, stored, removed>>
  BY DEF Refuse
<1>3. QED
  BY <1>1, <1>2, RaiseTold, ToldQuiet

LEMMA HandleTold ==
    ASSUME AskInv, AskInv', SourceInv, ToldInv, AloneInv', NEW w \in Workers, Handle(w)
    PROVE  ToldInv'
<1>1. ASSUME NEW status, status # 200, Answer(w, status) PROVE
        \A c \in Clients : /\ pos'[c] = pos[c]
                           /\ pc'[c] = "done" => pc[c] = "done" /\ pos'[c] = pos[c]
  BY <1>1, RaiseTold DEF Answer, Got
<1>2. ASSUME ~Idle(w), Of(w).live, Answer(w, 200)
      PROVE  /\ Sender(w) \in Clients /\ Of(w).pos = pos[Sender(w)]
             /\ pos' = [pos EXCEPT ![Sender(w)] = pos[Sender(w)] + 1]
             /\ pc' = [pc EXCEPT ![Sender(w)] =
                          IF pos[Sender(w)] > Len(folder[Sender(w)]) THEN "done"
                          ELSE "ready"]
             /\ Ingests(w) <=> pos[Sender(w)] > Len(folder[Sender(w)])
  <2>1. Sender(w) \in Clients /\ Of(w).pos = pos[Sender(w)]
    BY <1>2, Handled DEF Asked
  <2>2. Got(Sender(w), 200)
    BY <1>2 DEF Answer, Of
  <2>3. QED
    BY <1>2, <2>1, <2>2 DEF Got, AskInv
<1>3. CASE CheckExists(w)
  <2>1. UNCHANGED <<folder, found, stored, removed>>
    BY <1>3 DEF CheckExists
  <2>2. (\E status \in {400, 409} : Answer(w, status)) \/ UNCHANGED <<pc, pos>>
    BY <1>3 DEF CheckExists
  <2>3. QED
    BY <1>1, <2>1, <2>2, ToldQuiet
<1>4. CASE Open(w)
  BY <1>4, ToldQuiet DEF Open
<1>5. CASE Copy(w)
  BY <1>5, ToldQuiet DEF Copy
<1>6. CASE Unlink(w)
  BY <1>1, <1>6, ToldQuiet DEF Unlink
<1>7. CASE Stat(w)
  <2>1. UNCHANGED <<folder, found, removed>> /\ stored \subseteq stored'
    BY <1>7 DEF Stat
  <2>2. CASE UNCHANGED <<pc, pos>> \/ Answer(w, 500)
    BY <1>1, <2>1, <2>2, ToldQuiet
  <2>3. CASE /\ Answer(w, 200) /\ Of(w).live
             /\ stored' = stored \cup {<<Sender(w), Name(w)>>}
    <3> DEFINE c == Sender(w)
    <3>1. ~Idle(w) /\ ~Ingests(w)
      BY <1>7 DEF Stat, Idle, Ingests, Doing
    <3>2. /\ c \in Clients /\ Of(w).pos = pos[c] /\ pos' = [pos EXCEPT ![c] = pos[c] + 1]
          /\ pc' = [pc EXCEPT ![c] = "ready"]
      BY <1>2, <2>3, <3>1
    <3>3. Name(w) = folder[c][pos[c]].name
      BY <3>2 DEF Name, File_, Of, Sender
    <3>4. <<c, folder[c][pos[c]].name>> \in stored'
      BY <2>3, <3>3
    <3> HIDE DEF c
    <3>5. pos' \in [Clients -> Nat \ {0}]
      BY DEF AskInv
    <3>6. \A d \in Clients \ {c} : pos'[d] = pos[d] /\ pc'[d] = pc[d]
      BY <3>2 DEF AskInv
    <3>7. pos'[c] = pos[c] + 1 /\ pc'[c] = "ready"
      BY <3>2 DEF AskInv
    <3>8. ASSUME NEW d \in Clients
          PROVE  /\ \/ pos'[d] <= pos[d]
                    \/ /\ pos'[d] = pos[d] + 1
                       /\ pos[d] \in DOMAIN folder[d] =>
                             <<d, folder[d][pos[d]].name>> \in stored'
                 /\ pc'[d] = "done" =>
                       pos'[d] > Len(folder[d]) /\ pc[d] = "done" /\ found'[d] = found[d]
      <4>1. CASE d = c
        BY <3>4, <3>7, <4>1
      <4>2. CASE d # c
        <5>1. pos[d] \in Nat
          BY FolderType
        <5>2. QED
          BY <2>1, <3>6, <4>2, <5>1 DEF ToldInv
      <4>3. QED
        BY <4>1, <4>2
    <3>9. QED
      BY <2>1, <3>5, <3>8, ToldKept DEF ToldInv, AloneInv
  <2>4. \/ UNCHANGED <<pc, pos>> \/ Answer(w, 500)
        \/ Answer(w, 200) /\ Of(w).live /\ stored' = stored \cup {<<Sender(w), Name(w)>>}
    BY <1>7 DEF Stat, Answer, Of
  <2>5. QED
    BY <2>2, <2>3, <2>4
<1>8. CASE RunIngest(w)
  <2> DEFINE c == Sender(w)
  <2>1. /\ ~Idle(w) /\ Ingests(w) /\ Answer(w, 200)
        /\ found' = [found EXCEPT ![c] = source]
        /\ UNCHANGED <<source, folder, stored, removed>>
    BY <1>8 DEF RunIngest, Idle, Ingests, Doing
  <2>2. c \in Clients
    BY <2>1, Handled
  <2>3. pos' \in [Clients -> Nat \ {0}] /\ \A d \in Clients : pos[d] \in Nat
    BY DEF AskInv
  <2>4. CASE Of(w).live
    <3>1. /\ pos' = [pos EXCEPT ![c] = pos[c] + 1] /\ pc' = [pc EXCEPT ![c] = "done"]
          /\ pos[c] > Len(folder[c])
      BY <1>2, <2>1, <2>4
    <3> HIDE DEF c
    <3>2. /\ pos'[c] = pos[c] + 1 /\ pc'[c] = "done" /\ found'[c] = source'
          /\ \A d \in Clients \ {c} :
                pos'[d] = pos[d] /\ pc'[d] = pc[d] /\ found'[d] = found[d]
      BY <2>1, <2>2, <3>1 DEF AskInv, ToldInv
    <3>3. Len(folder[c]) \in Nat /\ pos[c] \notin DOMAIN folder[c]
      BY <2>2, <3>1, FolderType
    <3>4. ASSUME NEW d \in Clients
          PROVE  /\ \/ pos'[d] <= pos[d]
                    \/ /\ pos'[d] = pos[d] + 1
                       /\ pos[d] \in DOMAIN folder[d] =>
                             <<d, folder[d][pos[d]].name>> \in stored'
                 /\ pc'[d] = "done" =>
                       /\ pos'[d] > Len(folder[d])
                       /\ found'[d] = source' \/ (pc[d] = "done" /\ found'[d] = found[d])
      <4>1. CASE d = c
        BY <2>3, <3>1, <3>2, <3>3, <4>1
      <4>2. CASE d # c
        BY <2>3, <3>2, <4>2 DEF ToldInv
      <4>3. QED
        BY <4>1, <4>2
    <3>5. found' \in [Clients -> [Names -> Stored]]
      BY <2>1 DEF ToldInv, SourceInv
    <3>6. QED
      BY <2>1, <2>3, <3>4, <3>5, ToldKept DEF AloneInv
  <2>5. CASE ~Of(w).live
    <3>1. UNCHANGED <<pc, pos>>
      BY <2>1, <2>5 DEF Answer, Of
    <3> HIDE DEF c
    <3>2. ASSUME NEW d \in Clients
          PROVE  /\ pos'[d] <= pos[d]
                 /\ pc'[d] = "done" =>
                       /\ pos'[d] > Len(folder[d])
                       /\ found'[d] = source' \/ (pc[d] = "done" /\ found'[d] = found[d])
      BY <2>1, <2>3, <3>1 DEF ToldInv
    <3>3. found' \in [Clients -> [Names -> Stored]]
      BY <2>1 DEF ToldInv, SourceInv
    <3>4. QED
      BY <2>1, <2>3, <3>2, <3>3, ToldKept DEF AloneInv
  <2>6. QED
    BY <2>4, <2>5
<1>9. CASE IngestRaises(w)
  BY <1>1, <1>9, ToldQuiet DEF IngestRaises
<1>10. QED
  BY <1>3, <1>4, <1>5, <1>6, <1>7, <1>8, <1>9 DEF Handle

LEMMA FailsTold ==
    ASSUME AskInv, AskInv', ToldInv, AloneInv', NEW w \in Workers, IngestFails(w)
    PROVE  ToldInv'
<1>1. ASSUME NEW status, status # 200, Answer(w, status)
      PROVE  \/ UNCHANGED <<pc, pos>> \/ \E e : Raise(Sender(w), e)
  BY <1>1 DEF Answer, Got
<1>2. \E status \in {500, 503} : Answer(w, status)
  BY DEF IngestFails
<1>3. (\E e : Raise(Sender(w), e)) \/ UNCHANGED <<pc, pos>>
  BY <1>1, <1>2
<1>4. UNCHANGED <<folder, found, stored, removed>>
  BY DEF IngestFails
<1>5. QED
  BY <1>3, <1>4, RaiseTold, ToldQuiet

LEMMA CrashTold ==
    ASSUME AskInv, AskInv', ToldInv, AloneInv', NEW w \in Workers, Crash(w)
    PROVE  ToldInv'
<1>1. (\E e : Raise(Sender(w), e)) \/ UNCHANGED <<pc, pos, error>>
  BY DEF Crash
<1>2. UNCHANGED <<folder, found, stored, removed>>
  BY DEF Crash
<1>3. QED
  BY <1>1, <1>2, RaiseTold, ToldQuiet

LEMMA ToldInit == Init => ToldInv
<1> SUFFICES ASSUME Init PROVE ToldInv
  OBVIOUS
<1>1. Absent \in Stored
  BY DEF Absent, File, Stored
<1>2. found \in [Clients -> [Names -> Stored]]
  BY <1>1 DEF Init
<1>3. \A c \in Clients : pos[c] = 1 /\ pc[c] = "ready"
  BY DEF Init
<1>4. ASSUME NEW c \in Clients PROVE DOMAIN folder[c] \subseteq Nat \ {0}
  <2>1. folder[c] \in Seq(Entry)
    BY UploadAssumption DEF Init
  <2>2. QED
    BY <2>1
<1>5. QED
  BY <1>2, <1>3, <1>4 DEF ToldInv, IngestMeansAll

LEMMA ToldStep ==
    ASSUME Alone
    PROVE  AskInv /\ SourceInv /\ AloneInv /\ ToldInv /\ [Next]_vars => ToldInv'
<1> SUFFICES ASSUME AskInv, SourceInv, AloneInv, ToldInv, [Next]_vars PROVE ToldInv'
  OBVIOUS
<1>1. AskInv' /\ AloneInv'
  BY AskStep, AloneStep
<1>2. CASE UNCHANGED vars
  BY <1>1, <1>2, ToldQuiet DEF vars
<1>3. CASE \E c \in Clients : Caller(c) \/ GiveUp(c)
  BY <1>1, <1>3, ClientTold
<1>4. CASE \E w \in Workers : Handle(w) \/ IngestFails(w) \/ Crash(w)
  BY <1>1, <1>4, HandleTold, FailsTold, CrashTold
<1>5. CASE \E w \in Workers, r \in inbox : Accept(w, r)
  BY <1>1, <1>5, ToldQuiet DEF Accept
<1>6. CASE \E r \in inbox, status \in {404, 429} : Refuse(r, status)
  BY <1>1, <1>6, RefuseTold
<1>7. QED
  BY <1>2, <1>3, <1>4, <1>5, <1>6 DEF Next

(* With one worker, an ingest() that returns has had every file of the     *)
(* folder stored, and the run it asked for found them all, with this       *)
(* client's content: no file was skipped by a retry, taken for another     *)
(* client's, or left in half.                                              *)
THEOREM Means == ASSUME Alone PROVE Spec => []IngestMeansAll
<1>1. Init => AskInv /\ SourceInv /\ AloneInv /\ ToldInv
  BY AskInit, SourceInit, AloneInit, ToldInit
<1>2. AskInv /\ SourceInv /\ AloneInv /\ ToldInv /\ [Next]_vars
         => (AskInv /\ SourceInv /\ AloneInv /\ ToldInv)'
  BY AskStep, SourceStep, AloneStep, ToldStep
<1>3. ToldInv => IngestMeansAll
  BY DEF ToldInv
<1>4. QED
  BY <1>1, <1>2, <1>3, PTL DEF Spec
===============================================================================
