-------------------------------- MODULE Upload --------------------------------
(***************************************************************************)
(* Uploads into a firm's source/ directory, from the Python SDK's          *)
(* ingest() down to the files on disk.                                     *)
(*                                                                         *)
(* A client (firm_bot_sdk/client.py) uploads every file of a folder, in    *)
(* order, and then asks for an ingest; any answer but 2xx and any network  *)
(* failure raises, and the caller may call again.  A worker (api/app.py,   *)
(* upload) has the whole body before the handler starts and does not await *)
(* in it, so a worker runs one handler at a time; workers interleave, and  *)
(* a client that gave up does not stop the handler of its request.         *)
(*                                                                         *)
(* A client uploads one content per name; "empty" files have no byte, and  *)
(* "hidden" ones a name with a leading dot.  What the ingest run does with *)
(* source/ is module Ingest's subject: here it is what the run finds and   *)
(* what it answers.                                                        *)
(***************************************************************************)
EXTENDS Integers, Sequences, FiniteSets

CONSTANTS
    Names,       \* file names
    Clients,     \* processes that call the SDK
    Workers,     \* API worker processes
    Folders,     \* the folders a client may be given
    Poison,      \* names whose content dispatch raises on, or whose chunks
                 \* the store refuses (Ingest: Raising, Doubled)
    MaxFaults,   \* bound: refusals, time-outs, lost connections and crashes
    Nobody       \* no client

Kinds == {"text", "empty", "hidden"}
Entry == [name : Names, kind : Kinds]

ASSUME UploadAssumption ==
    /\ Folders \subseteq Seq(Entry)
    /\ Poison \subseteq Names
    /\ MaxFaults \in Nat
    /\ Nobody \notin Clients

VARIABLES
    source,   \* the files of source/
    folder,   \* the folder each client was given
    pc,       \* where each client's ingest() is
    pos,      \* the file it is at; one past the last: the ingest
    error,    \* what its last call raised
    inbox,    \* requests that no worker has taken
    handler,  \* what each worker is doing
    stored,   \* <<client, name>> of the uploads the handler found stored
    found,    \* source/ as the ingest of each client found it
    removed,  \* names the operator has removed since
    torn,     \* names whose copy a crash has cut
    faults

vars == <<source, folder, pc, pos, error, inbox, handler, stored, found,
          removed, torn, faults>>
server == <<source, inbox, handler, stored, removed, torn>>

File(state, by) == [state |-> state, by |-> by]
Absent == File("absent", Nobody)
Whole(c) == File("whole", c)

(* live: the client still waits for the answer.                            *)
Request == [client : Clients, pos : Nat, live : BOOLEAN]
Steps == {"exists", "open", "copy", "stat", "unlink", "ingest"}
Free == [step |-> "free", of |-> [client |-> Nobody, pos |-> 0, live |-> FALSE]]

(* Deviation: a conflict is one more of the request's own errors.          *)
ErrorOfMapped(status) ==
    CASE status \in {400, 409, 422} -> "ValidationError"
      [] status = 404 -> "NotFoundError"
      [] status = 429 -> "RateLimitError"
      [] status \in 500..599 -> "ServerError"
      [] OTHER -> "FirmBotError"

(* _STATUS_MAP and _raise_for_status; 409 is left to the base class.       *)
ErrorOf(status) ==
    CASE status \in {400, 422} -> "ValidationError"
      [] status \in {401, 403} -> "AuthError"
      [] status = 404 -> "NotFoundError"
      [] status = 429 -> "RateLimitError"
      [] status \in 500..599 -> "ServerError"
      [] status = 409 -> "Conflict"
      [] OTHER -> "FirmBotError"

Init ==
    /\ source = [n \in Names |-> Absent]
    /\ folder \in [Clients -> Folders]
    /\ pc = [c \in Clients |-> "ready"]
    /\ pos = [c \in Clients |-> 1]
    /\ error = [c \in Clients |-> "none"]
    /\ inbox = {}
    /\ handler = [w \in Workers |-> Free]
    /\ stored = {}
    /\ found = [c \in Clients |-> source]
    /\ removed = {}
    /\ torn = {}
    /\ faults = 0

Fault == faults < MaxFaults /\ faults' = faults + 1

-------------------------------------------------------------------------------
(* The client.                                                             *)

Send(c) ==
    /\ pc[c] = "ready"
    /\ inbox' = inbox \cup {[client |-> c, pos |-> pos[c], live |-> TRUE]}
    /\ pc' = [pc EXCEPT ![c] = "waiting"]
    /\ UNCHANGED <<source, folder, pos, error, handler, stored, found, removed,
                   torn, faults>>

Raise(c, e) ==
    /\ pc' = [pc EXCEPT ![c] = "raised"]
    /\ error' = [error EXCEPT ![c] = e]
    /\ UNCHANGED pos

(* Deviation: a conflict is taken for a file that was uploaded before.     *)
GotLenient(c, status) ==
    IF status \notin {200, 409} THEN Raise(c, ErrorOf(status))
    ELSE /\ pos' = [pos EXCEPT ![c] = @ + 1]
         /\ pc' = [pc EXCEPT ![c] = IF pos[c] > Len(folder[c]) THEN "done"
                                    ELSE "ready"]
         /\ UNCHANGED error

(* The answer to the request c waits for: on to the next file, or raise.   *)
Got(c, status) ==
    IF status # 200 THEN Raise(c, ErrorOf(status))
    ELSE /\ pos' = [pos EXCEPT ![c] = @ + 1]
         /\ pc' = [pc EXCEPT ![c] = IF pos[c] > Len(folder[c]) THEN "done"
                                    ELSE "ready"]
         /\ UNCHANGED error

Dead(r) == [r EXCEPT !.live = FALSE]

(* urlopen fails to connect, or 60 seconds go by: the request may be        *)
(* handled all the same.                                                   *)
GiveUp(c) ==
    /\ Fault
    /\ \/ pc[c] = "ready" /\ UNCHANGED <<inbox, handler>>
       \/ /\ pc[c] = "waiting"
          /\ inbox' = {IF r.client = c THEN Dead(r) ELSE r : r \in inbox}
          /\ handler' = [w \in Workers |->
                            IF handler[w].of.client = c
                            THEN [handler[w] EXCEPT !.of = Dead(@)]
                            ELSE handler[w]]
    /\ Raise(c, "FirmBotError")
    /\ UNCHANGED <<source, folder, stored, found, removed, torn>>

(* The caller calls ingest() again; a conflict it has the operator clear.   *)
CallAgain(c) ==
    /\ pc[c] = "raised"
    /\ error[c] # "Conflict"
    /\ pc' = [pc EXCEPT ![c] = "ready"]
    /\ pos' = [pos EXCEPT ![c] = 1]
    /\ UNCHANGED <<folder, server, error, found, faults>>

(* "to replace, the operator deletes first"                                *)
Clear(c) ==
    /\ pc[c] = "raised"
    /\ error[c] = "Conflict"
    /\ LET n == folder[c][pos[c]].name
       IN source' = [source EXCEPT ![n] = Absent] /\ removed' = removed \cup {n}
    /\ error' = [error EXCEPT ![c] = "none"]
    /\ UNCHANGED <<folder, pc, pos, inbox, handler, stored, found, torn, faults>>

-------------------------------------------------------------------------------
(* The worker.                                                             *)

Doing(w, step) == handler[w].step = step
Goto(w, step) == handler' = [handler EXCEPT ![w].step = step]
File_(w) == folder[handler[w].of.client][handler[w].of.pos]
Name(w) == File_(w).name
Sender(w) == handler[w].of.client

(* The handler returns; a client that gave up does not hear of it.         *)
Answer(w, status) ==
    /\ handler' = [handler EXCEPT ![w] = Free]
    /\ IF handler[w].of.live THEN Got(Sender(w), status)
       ELSE UNCHANGED <<pc, pos, error>>

(* A request reaches a handler.  A name with a leading dot is answered 400 *)
(* before anything is touched.                                             *)
Accept(w, r) ==
    /\ Doing(w, "free")
    /\ r \in inbox
    /\ inbox' = inbox \ {r}
    /\ handler' = [handler EXCEPT ![w] =
                      [of |-> r, step |-> IF r.pos > Len(folder[r.client])
                                          THEN "ingest" ELSE "exists"]]
    /\ UNCHANGED <<source, folder, pc, pos, error, stored, found, removed, torn,
                   faults>>

(* The middleware refuses it (module Gateway), or the firm is unknown.     *)
Refuse(r, status) ==
    /\ r \in inbox
    /\ Fault
    /\ inbox' = inbox \ {r}
    /\ IF r.live THEN Got(r.client, status) ELSE UNCHANGED <<pc, pos, error>>
    /\ UNCHANGED <<source, folder, handler, stored, found, removed, torn>>

(* Deviation: no check that the file exists.                               *)
CheckExistsNot(w) ==
    /\ Doing(w, "exists")
    /\ IF File_(w).kind = "hidden" THEN Answer(w, 400)
       ELSE Goto(w, "open") /\ UNCHANGED <<pc, pos, error>>
    /\ UNCHANGED <<source, folder, inbox, stored, found, removed, torn, faults>>

CheckExists(w) ==
    /\ Doing(w, "exists")
    /\ CASE File_(w).kind = "hidden" -> Answer(w, 400)
         [] File_(w).kind # "hidden" /\ source[Name(w)] # Absent -> Answer(w, 409)
         [] OTHER -> Goto(w, "open") /\ UNCHANGED <<pc, pos, error>>
    /\ UNCHANGED <<source, folder, inbox, stored, found, removed, torn, faults>>

(* open("wb") makes the file, or empties it.                               *)
Open(w) ==
    /\ Doing(w, "open")
    /\ source' = [source EXCEPT ![Name(w)] = File("blank", Sender(w))]
    /\ Goto(w, "copy")
    /\ UNCHANGED <<folder, pc, pos, error, inbox, stored, found, removed, torn,
                   faults>>

(* The bytes go to the file that was opened: to none in source/ when it    *)
(* was removed since, and over another handler's if both have it open.     *)
Copy(w) ==
    /\ Doing(w, "copy")
    /\ source' \in
         {[source EXCEPT ![Name(w)] = f] :
            f \in IF source[Name(w)] = Absent \/ File_(w).kind = "empty"
                  THEN {source[Name(w)]}
                  ELSE {Whole(Sender(w))}
                       \cup IF source[Name(w)].state = "blank" THEN {}
                            ELSE {File("mixed", Sender(w))}}
    /\ Goto(w, "stat")
    /\ UNCHANGED <<folder, pc, pos, error, inbox, stored, found, removed, torn,
                   faults>>

(* The file is gone: stat raises, 500.                                     *)
Stat(w) ==
    /\ Doing(w, "stat")
    /\ CASE source[Name(w)] = Absent -> Answer(w, 500) /\ UNCHANGED stored
         [] source[Name(w)].state = "blank" ->
                Goto(w, "unlink") /\ UNCHANGED <<pc, pos, error, stored>>
         [] OTHER -> /\ Answer(w, 200)
                     /\ stored' = stored \cup {<<Sender(w), Name(w)>>}
    /\ UNCHANGED <<source, folder, inbox, found, removed, torn, faults>>

Unlink(w) ==
    /\ Doing(w, "unlink")
    /\ source' = [source EXCEPT ![Name(w)] = Absent]
    /\ Answer(w, 400)
    /\ UNCHANGED <<folder, inbox, stored, found, removed, torn, faults>>

(* The ingest run comes to an end if it can read all it finds.  It awaits   *)
(* nothing while it holds the firm's lock, and the lock is the worker's    *)
(* own: it never finds it taken, and never answers 409.                    *)
RunIngest(w) ==
    /\ Doing(w, "ingest")
    /\ \A n \in Poison : source[n].state # "whole"
    /\ found' = [found EXCEPT ![Sender(w)] = source]
    /\ Answer(w, 200)
    /\ UNCHANGED <<source, folder, inbox, stored, removed, torn, faults>>

(* dispatch or the upsert raises, and no one catches it.  A file in half   *)
(* may be one that they raise on.                                          *)
Breaks(n) ==
    \/ n \in Poison /\ source[n].state = "whole"
    \/ source[n].state \in {"part", "mixed"}

IngestRaises(w) ==
    /\ Doing(w, "ingest")
    /\ \E n \in Names : Breaks(n)
    /\ Answer(w, 500)
    /\ UNCHANGED <<source, folder, inbox, stored, found, removed, torn, faults>>

(* The embedder is not available, or the store cannot be written.          *)
IngestFails(w) ==
    /\ Doing(w, "ingest")
    /\ Fault
    /\ \E status \in {500, 503} : Answer(w, status)
    /\ UNCHANGED <<source, folder, inbox, stored, found, removed, torn>>

(* The worker dies; a copy is cut anywhere.  The connection is closed with *)
(* no answer, which urllib reports as an exception the SDK does not catch. *)
Crash(w) ==
    /\ ~Doing(w, "free")
    /\ Fault
    /\ handler' = [handler EXCEPT ![w] = Free]
    /\ IF Doing(w, "copy") /\ source[Name(w)] # Absent
       THEN source' \in {[source EXCEPT ![Name(w)] = f] :
                           f \in {source[Name(w)], File("part", Sender(w))}}
       ELSE UNCHANGED source
    /\ torn' = IF Doing(w, "ingest") THEN torn ELSE torn \cup {Name(w)}
    /\ IF handler[w].of.live THEN Raise(Sender(w), "raw")
       ELSE UNCHANGED <<pc, pos, error>>
    /\ UNCHANGED <<folder, inbox, stored, found, removed>>

-------------------------------------------------------------------------------
Caller(c) == Send(c) \/ CallAgain(c) \/ Clear(c)

Handle(w) ==
    \/ CheckExists(w) \/ Open(w) \/ Copy(w) \/ Stat(w) \/ Unlink(w)
    \/ RunIngest(w) \/ IngestRaises(w)

Next ==
    \/ \E c \in Clients : Caller(c) \/ GiveUp(c)
    \/ \E w \in Workers : Handle(w) \/ IngestFails(w) \/ Crash(w)
    \/ \E w \in Workers, r \in inbox : Accept(w, r)
    \/ \E r \in inbox, status \in {404, 429} : Refuse(r, status)

Spec == Init /\ [][Next]_vars

(* A handler that has started runs, a worker takes every connection in the *)
(* end, and the caller repeats a call that raised.                         *)
Fairness ==
    /\ \A c \in Clients : WF_vars(Caller(c))
    /\ \A w \in Workers : WF_vars(Handle(w))
    /\ \A c \in Clients :
          SF_vars(\E w \in Workers, r \in inbox :
                     r.client = c /\ r.live /\ Accept(w, r))

FairSpec == Spec /\ Fairness
-------------------------------------------------------------------------------
(* Properties.                                                             *)

(* Every variable keeps its shape, and a client waits exactly as long as   *)
(* its one live request is in the inbox or in a handler.                   *)
TypeOK ==
    /\ source \in [Names -> [state : {"absent", "blank", "part", "whole", "mixed"},
                             by : Clients \cup {Nobody}]]
    /\ pc \in [Clients -> {"ready", "waiting", "raised", "done"}]
    /\ pos \in [Clients -> Nat \ {0}]
    /\ inbox \subseteq Request
    /\ handler \in [Workers -> {Free} \cup [step : Steps, of : Request]]
    /\ stored \subseteq Clients \X Names
    /\ removed \cup torn \subseteq Names
    /\ faults \in 0..MaxFaults
    /\ \A c \in Clients :
          pc[c] = "waiting" <=>
             \/ \E r \in inbox : r.client = c /\ r.live
             \/ \E w \in Workers : handler[w].of.client = c /\ handler[w].of.live

(* A file that is empty or half-written belongs to a handler that is at it, *)
(* unless a crash cut the copy: a refused empty file leaves no stub.       *)
NoStub ==
    \A n \in Names :
        source[n].state \in {"blank", "part"} /\ n \notin torn =>
            \E w \in Workers : ~Doing(w, "free") /\ ~Doing(w, "ingest")
                               /\ Name(w) = n

(* The API contract "upload = create": with one worker, a file that an     *)
(* upload found stored stays, whole, until the operator removes it, however *)
(* late requests of clients that gave up, other clients and crashes meet;  *)
(* and nothing else is stored but what a handler is at.                    *)
StoredStays ==
    /\ TypeOK
    /\ NoStub
    /\ \A c \in Clients, n \in Names :
          <<c, n>> \in stored => n \in removed \/ source[n] = Whole(c)

(* When the SDK's ingest() returns, the run it asked for has found every   *)
(* file of the folder with this client's content: none was refused, lost,  *)
(* overwritten or left in half (but for what the operator removed).        *)
IngestMeansAll ==
    \A c \in Clients : pc[c] = "done" =>
        \A i \in DOMAIN folder[c] :
            folder[c][i].name \in removed
            \/ found[c][folder[c][i].name] = Whole(c)

(* A folder of files that have text, under names of their own.             *)
Uploadable(c) ==
    \A i \in DOMAIN folder[c] :
        /\ folder[c][i].kind = "text"
        /\ \A d \in Clients : \A j \in DOMAIN folder[d] :
              folder[d][j].name = folder[c][i].name => <<d, j>> = <<c, i>>

(* Nothing stays in source/ that the ingest raises on.                     *)
Readable == \A n \in Poison : source[n] = Absent

(* A caller that repeats ingest() and has every conflict cleared gets      *)
(* through in the end, whatever other clients upload, unless one of them   *)
(* leaves a file there that the ingest raises on: a lost answer, an        *)
(* embedder that is gone for a while or a crash leaves nothing that more   *)
(* than that would be needed to repair.  (Such a file ends the ingests of  *)
(* all callers with a 500 until the operator removes it; and two callers   *)
(* that share a name can clear each other's files for ever.)               *)
EventuallyIngested ==
    \A c \in Clients : Uploadable(c) /\ <>[]Readable => <>(pc[c] = "done")

===============================================================================
