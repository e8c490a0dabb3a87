------------------------------- MODULE MCIngest -------------------------------
(* Instances of Ingest for TLC.                                            *)
EXTENDS Ingest

(* Content 1 has two chunks and content 4 one, so that a tail is left      *)
(* behind; between them are one that dispatch raises on and one that the   *)
(* upsert raises on.                                                       *)
ShrinkingChunks == <<2, 1, 2, 1>>
===============================================================================
