------------------------------ MODULE MCDocuments -----------------------------
(* Instances of Documents for TLC.                                         *)
EXTENDS Documents

Words(alphabet, n) == UNION {[1..k -> alphabet] : k \in 0..n}
Of(kind, alphabet, n) == {[kind |-> kind, items |-> w] : w \in Words(alphabet, n)}

(* Every file of up to five items, of each kind.                           *)
SomeFiles ==
    Of("pdf", {"text", "scan", "blank", "broken"}, 5)
        \cup [kind : {"pdf"}, items : {<<"locked">>}]
        \cup Of("docx", {"head", "para", "blank"}, 5)
        \cup Of("mbox", {"none", "bad", "id"}, 4)
        \cup [kind : {"eml"}, items : {<<"none">>, <<"bad">>}]
        \cup Of("TX", {"mark", "q", "a", "blank"}, 6)
        \cup Of("PL", {"num", "line", "blank"}, 6)
===============================================================================
