------------------------------- MODULE MCGateway ------------------------------
(* Instances of Gateway for TLC.                                           *)
EXTENDS Gateway

Request(method, origin, firm, key, reads, chunks) ==
    [method |-> method, origin |-> origin, exempt |-> FALSE, firm |-> firm,
     key |-> key, reads |-> reads, chunks |-> chunks]

(* A body of the cap in two chunks, one that crosses it with its second     *)
(* chunk and has a third, one that the handler does not read (ingest), and *)
(* requests for each answer of the gates.                                  *)
SomeRequests == {
    Request("POST", "listed", TRUE, "good", TRUE, <<1, 1>>),
    Request("POST", "other", TRUE, "bad", TRUE, <<1, 2, 1>>),
    Request("POST", "listed", FALSE, "good", TRUE, <<3>>),
    Request("POST", "listed", TRUE, "good", FALSE, <<3>>),
    Request("GET", "listed", TRUE, "none", FALSE, <<3>>),
    Request("OPTIONS", "listed", FALSE, "none", FALSE, <<>>),
    [Request("GET", "none", FALSE, "none", FALSE, <<>>) EXCEPT !.exempt = TRUE]}

SomeSetups == {
    [auth |-> FALSE, api |-> TRUE, origins |-> "list"],
    [auth |-> TRUE, api |-> TRUE, origins |-> "any"],
    [auth |-> FALSE, api |-> FALSE, origins |-> "list"],
    [auth |-> FALSE, api |-> FALSE, origins |-> "empty"]}
===============================================================================
