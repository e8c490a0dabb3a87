-------------------------------- MODULE Watcher -------------------------------
(***************************************************************************)
(* `firm-bot watch` (watcher.py) beside the other processes that index the *)
(* firm: module Ingest with a reindexer whose runs begin where the         *)
(* handler of file system events begins them.                              *)
(*                                                                         *)
(* watchdog's thread calls the handler with one event after the other, and *)
(* the run is part of the call.  Events of directories and of hidden files *)
(* are ignored, so none is made of them here.                              *)
(***************************************************************************)
EXTENDS Ingest

CONSTANTS
    Observer,    \* the process of the watcher
    MaxEvents    \* bound: events that wait; one more makes no difference

ASSUME WatcherAssumption ==
    /\ Observer \in Reindexers
    /\ MaxEvents \in Nat \ {0}

VARIABLES
    timer,    \* _timer is set
    events    \* events that wait for the handler

watching == <<timer, events>>

WatchInit == Init /\ timer = FALSE /\ events = 0

(* inotify tells of every change of a file; the opening of one that a run   *)
(* reads is an event as well, and changes no more than the timer does.     *)
Notified == events' = IF events < MaxEvents THEN events + 1 ELSE events

Touched(f) == Operator(f) /\ Notified /\ UNCHANGED timer

(* The first event begins a run; later ones move a timer nobody reads.     *)
OnAnyEvent ==
    /\ pc[Observer] = "idle"
    /\ events > 0
    /\ events' = events - 1
    /\ timer' = TRUE
    /\ IF timer THEN UNCHANGED vars ELSE Start(Observer)

(* The handler dies with its process, and is made anew with the next one.  *)
Killed(p) ==
    /\ Crash(p)
    /\ IF p = Observer THEN timer' = FALSE /\ events' = 0 ELSE UNCHANGED watching

Works(p) ==
    \/ p # Observer /\ Start(p) /\ UNCHANGED watching
    \/ (Advance(p) \/ EmbedFails(p)) /\ UNCHANGED watching
    \/ Killed(p)

WatchNext ==
    \/ \E f \in Files : Touched(f)
    \/ OnAnyEvent
    \/ \E p \in Procs : Works(p)

WatchSpec == WatchInit /\ [][WatchNext]_<<vars, watching>>

(* As in Ingest, and watchdog's thread takes what is in its queue.         *)
WatchFairSpec ==
    /\ WatchSpec
    /\ WF_<<vars, watching>>(OnAnyEvent)
    /\ \A p \in Procs :
          /\ WF_<<vars, watching>>(Advance(p) /\ UNCHANGED watching)
          /\ WF_<<vars, watching>>(p # Observer /\ Start(p) /\ UNCHANGED watching)
===============================================================================
