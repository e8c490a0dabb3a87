------------------------------- MODULE MCUpload -------------------------------
(* Instances of Upload for TLC.                                            *)
EXTENDS Upload

CONSTANTS a, b, locked, dot

E(n, k) == [name |-> n, kind |-> k]

(* Two good files; one name twice; a file that is refused and one that is  *)
(* not; one good file; one that the ingest raises on; a hidden file.       *)
SomeFolders ==
    {<<E(a, "text"), E(b, "text")>>, <<E(b, "text"), E(b, "text")>>,
     <<E(b, "text"), E(a, "empty")>>, <<E(a, "text")>>,
     <<E(locked, "text")>>, <<E(dot, "hidden")>>}
===============================================================================
