-------------------------------- MODULE Slack --------------------------------
(***************************************************************************)
(* The Slack adapter (integrations/slack) in front of a firm's API: module *)
(* Query with jobs that a Slack event begins.                              *)
(*                                                                         *)
(* handle_message ignores an event, answers that the channel has no firm,  *)
(* or sends the question to POST query and waits; its messages go to the   *)
(* wiring layer, which posts them.  It may give up before the API is done: *)
(* the API goes on with the query, and does not know.                      *)
(*                                                                         *)
(* A text is a sequence of letters, spaces and line ends; escaping and the *)
(* form of a citation are left out.  A message is the span of the text     *)
(* from its first to its last character.                                   *)
(***************************************************************************)
EXTENDS Query

CONSTANTS
    Answers,   \* the texts a model may write
    SlackLimit \* characters of a message (3000)

ASSUME SlackAssumption ==
    /\ Answers \subseteq Seq({"letter", "space", "line"}) \ {<<>>}
    /\ SlackLimit \in Nat \ {0}

VARIABLES
    bot,    \* where the handler is with the event that began a job
    text,   \* what it has to say
    posted  \* its messages, in order

slack == <<bot, text, posted>>

FromSlack(p) == Kind(p) = "slack"

SlackInit ==
    /\ Init
    /\ bot = [p \in Procs |-> "handling"]
    /\ text = [p \in Procs |-> <<>>]
    /\ posted = [p \in Procs |-> <<>>]

-------------------------------------------------------------------------------
(* _split_text.                                                            *)

Within(t, i) == i..(i + SlackLimit - 1)

(* The places before which the first SlackLimit characters from i may be   *)
(* cut: before an empty line, else before a line end, else before a space. *)
Breaks(t, i) ==
    LET lines == {j \in Within(t, i) : t[j] = "line"}
        paragraphs == {j \in lines : j + 1 \in lines}
    IN  CASE paragraphs # {} -> paragraphs
          [] paragraphs = {} /\ lines # {} -> lines
          [] OTHER -> {j \in Within(t, i) : t[j] = "space"}

Span(from, to) == [from |-> from, to |-> to]

(* Deviation: the character at a hard cut goes like a separator.           *)
AfterHardCutSkips(i) == i + SlackLimit + 1

AfterHardCut(i) == i + SlackLimit

(* Where the part that starts at i ends and the next one starts.  Without  *)
(* a place past i it is cut at the limit; otherwise what is white at the   *)
(* end of the part goes, and so do the line ends before the next.          *)
Divided(t, i) ==
    LET at == Max(Breaks(t, i) \cup {i})
        letters == {j \in i..(at - 1) : t[j] = "letter"}
    IN  IF at = i
        THEN [part |-> Span(i, i + SlackLimit - 1), next |-> AfterHardCut(i)]
        ELSE [part |-> Span(i, Max(letters \cup {i - 1})),
              next |-> Min({j \in at..Len(t) : t[j] # "line"} \cup {Len(t) + 1})]

Split(t) ==
    LET from[i \in 1..(Len(t) + 1)] ==
            IF Len(t) - i + 1 <= SlackLimit
            THEN IF i > Len(t) THEN <<>> ELSE <<Span(i, Len(t))>>
            ELSE <<Divided(t, i).part>> \o from[Divided(t, i).next]
    IN  from[1]

(* format_answer: a header, the answer, and the sources behind an empty    *)
(* line.                                                                   *)
Text(header, answer, cited) ==
    (IF header THEN <<"letter", "line">> ELSE <<>>) \o answer
        \o (IF cited THEN <<"line", "line", "letter", "space", "letter">> ELSE <<>>)

-------------------------------------------------------------------------------
(* handle_message.                                                         *)

Says(p, t) ==
    /\ bot' = [bot EXCEPT ![p] = "replied"]
    /\ text' = [text EXCEPT ![p] = t]
    /\ posted' = [posted EXCEPT ![p] = Split(t)]

Error == <<"letter">>

(* A message of a bot, an edit, no text; no firm; no API.                  *)
NotAsked(p) ==
    /\ FromSlack(p)
    /\ stage[p] = "start"
    /\ Goto(p, "done")
    /\ \/ UNCHANGED faults /\ UNCHANGED <<text, posted>>
                           /\ bot' = [bot EXCEPT ![p] = "replied"]
       \/ UNCHANGED faults /\ Says(p, Error)
       \/ Fault /\ Says(p, Error)
    /\ UNCHANGED <<store, job, opened, work, results, frames, audit>>

(* An answer, or one line about an error.  (A firm that has chunks has     *)
(* hits, so there is an answer.)                                           *)
Replies(p) ==
    /\ FromSlack(p)
    /\ stage[p] = "done" /\ bot[p] = "handling"
    /\ IF results[p][1].status \notin {"200", "nohits"} THEN Says(p, Error)
       ELSE \E answer \in Answers, header, cited \in BOOLEAN :
                Says(p, Text(header, answer, cited))
    /\ UNCHANGED vars

(* The API does not answer in time: TimeoutError, which handle_message     *)
(* does not catch.                                                         *)
TimesOut(p) ==
    /\ FromSlack(p)
    /\ stage[p] \notin {"start", "done"} /\ bot[p] = "handling"
    /\ Fault
    /\ bot' = [bot EXCEPT ![p] = "raised"]
    /\ UNCHANGED <<text, posted, store, job, stage, opened, work, results, frames,
                   audit>>

Handles(p) == NotAsked(p) \/ Replies(p)

SlackNext ==
    \/ Next /\ UNCHANGED slack
    \/ \E p \in Procs : Handles(p) \/ TimesOut(p)

SlackSpec == SlackInit /\ [][SlackNext]_<<vars, slack>>

(* As in Query, and the handler, which only waits for the API, goes on.    *)
SlackFairSpec ==
    /\ SlackSpec
    /\ \A p \in Procs :
          /\ WF_<<vars, slack>>((Retrieve(p) \/ Generate(p)) /\ UNCHANGED slack)
          /\ WF_<<vars, slack>>(Handles(p))

-------------------------------------------------------------------------------
(* Properties.                                                             *)

(* What the handler has to say reaches the channel: every letter in just   *)
(* one message, in their order, and no message is longer than Slack takes, *)
(* wherever the spaces and the lines of an answer are (_split_text).       *)
Replied ==
    \A p \in Procs :
        /\ bot[p] = "raised" => posted[p] = <<>>
        /\ \A k \in DOMAIN posted[p] :
              posted[p][k].to - posted[p][k].from < SlackLimit
        /\ \A i \in DOMAIN text[p] : text[p][i] = "letter" =>
              Cardinality({k \in DOMAIN posted[p] :
                              i \in posted[p][k].from..posted[p][k].to}) = 1
        /\ \A j, k \in DOMAIN posted[p] :
              j < k => posted[p][j].to < posted[p][k].from

(* Every job ends, and every event of Slack is replied to, or its handler  *)
(* raises, whatever fails in between.                                      *)
EventuallyAnswered ==
    \A p \in Procs : <>(stage[p] = "done" /\ (FromSlack(p) => bot[p] # "handling"))
===============================================================================
