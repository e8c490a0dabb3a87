------------------------------- MODULE MCWatcher ------------------------------
(* Instances of Watcher for TLC.                                           *)
EXTENDS Watcher

(* What the file holds in turn: a run that reads an old content late puts  *)
(* its chunk back over the new one's.  The upsert raises on the second of  *)
(* four contents, and the last one yields no text.                         *)
TwoContents == <<1, 2>>
ThreeContents == <<1, 2, 1, 0>>
===============================================================================
