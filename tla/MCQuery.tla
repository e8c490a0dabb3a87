------------------------------- MODULE MCQuery -------------------------------
(* Instances of Slack for TLC.                                             *)
EXTENDS Slack

CONSTANTS a, b, c

Ask(blank, guard) == [blank |-> blank, guard |-> guard]

(* A question from Slack, one without the guard, two in bulk of which one  *)
(* is empty, too many in bulk, a stream, a command, and evaluations.       *)
SomeJobs ==
    {[kind |-> "slack", items |-> <<Ask(FALSE, TRUE)>>],
     [kind |-> "single", items |-> <<Ask(FALSE, FALSE)>>],
     [kind |-> "bulk", items |-> <<Ask(TRUE, TRUE), Ask(FALSE, TRUE)>>],
     [kind |-> "bulk", items |-> <<Ask(FALSE, FALSE), Ask(FALSE, FALSE)>>],
     [kind |-> "bulk", items |-> [i \in 1..(MaxBulk + 1) |-> Ask(FALSE, FALSE)]],
     [kind |-> "stream", items |-> <<Ask(FALSE, FALSE)>>],
     [kind |-> "cli", items |-> <<Ask(FALSE, TRUE)>>],
     [kind |-> "eval", items |-> <<Ask(FALSE, TRUE), Ask(FALSE, TRUE)>>],
     [kind |-> "cli_eval", items |-> <<>>],
     [kind |-> "harness", items |-> <<Ask(FALSE, TRUE)>>]}

(* Two files, and one of them again.                                       *)
SomeCorpora == {<<a, b>>, <<c>>}

x == "letter"
s == "space"
n == "line"

(* Texts that are cut before a paragraph, a line, a space, or nowhere.     *)
SomeAnswers ==
    {<<x>>, <<x, x, x, x>>, <<x, x, s, x, x, x, x>>, <<s, s, x, x, x, n, x>>,
     <<x, n, n, x, s, x>>, <<n, x, n, n, n, x, x, x, x, x>>}
===============================================================================
