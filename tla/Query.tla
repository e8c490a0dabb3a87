-------------------------------- MODULE Query --------------------------------
(***************************************************************************)
(* Questions to a firm, from the store to the answer: api/app.py           *)
(* (_do_query behind query and query_bulk, query_stream, run_eval), cli.py *)
(* (_cmd_query, _cmd_eval) and eval/harness.py, with answer/*.py.          *)
(*                                                                         *)
(* A job is one request or command: one question, or the items of a bulk   *)
(* query or of an evaluation, answered in order (no coroutine awaits inside *)
(* _do_query, so the tasks of a bulk query run one after the other).  Jobs *)
(* of different processes interleave, with each other and with a process   *)
(* that indexes: it writes the chunks to Chroma, then bm25.pkl, then       *)
(* meta.pkl, each truncated first.  A store reads the two pickles one after *)
(* the other, when it is first asked; it is opened for every item, but an   *)
(* evaluation opens one for all of its cases.                              *)
(*                                                                         *)
(* The models are external: an answer cites something or not, the judge    *)
(* writes what it likes, either may fail, and a cross-encoder orders as it *)
(* likes.                                                                  *)
(***************************************************************************)
EXTENDS Retrieval

CONSTANTS
    Jobs,          \* what may be asked: [kind, items]
    Procs,         \* processes that answer
    Corpora,       \* the chunks an indexing run may save, in order
    Suspicious,    \* ids of chunks whose text an injection pattern matches
    InjectionScan, \* FIRM_BOT_INJECTION_FILTER
    MaxBulk,       \* the most items of a bulk query (100)
    MaxSaves,      \* bound: indexing runs
    MaxTokens,     \* bound: tokens of a streamed answer
    MaxFaults      \* bound: failures of a model, crashes of the indexer

(* The endpoints (one also for the Slack adapter), the two commands, and   *)
(* the harness of eval/.                                                   *)
Kinds == {"single", "slack", "bulk", "stream", "eval", "cli", "cli_eval", "harness"}
Evals == {"eval", "cli_eval", "harness"}
Item == [blank : BOOLEAN, guard : BOOLEAN]

ASSUME QueryAssumption ==
    /\ Jobs \subseteq [kind : Kinds, items : Seq(Item)]
    /\ \A j \in Jobs : j.kind \notin Evals \cup {"bulk"} => Len(j.items) = 1
    /\ Corpora \subseteq {s \in Seq(Ids) : IsInjective(s)}
    /\ Suspicious \subseteq Ids
    /\ InjectionScan \in BOOLEAN
    /\ {MaxBulk, MaxSaves, MaxTokens, MaxFaults} \subseteq Nat

VARIABLES
    chroma,   \* ids of the chunks in Chroma
    index,    \* bm25.pkl
    meta,     \* meta.pkl
    saver,    \* the indexing process
    cut,      \* a crash has left the pickles of two runs, or half of one
    job,      \* what each process answers
    stage,    \* where it is with the current item
    opened,   \* the pickles its store has loaded; an empty one is read again
    work,     \* what it knows of the current item
    results,  \* of the items it is done with
    frames,   \* events of a stream
    audit,    \* audit records handed to _schedule_audit
    saves, faults

store == <<chroma, index, meta, saver, cut, saves>>
vars == <<store, job, stage, opened, work, results, frames, audit, faults>>

Pickle(torn, ids) == [torn |-> torn, ids |-> ids]
Torn == Pickle(TRUE, <<>>)

Stages == {"start", "open", "index", "meta", "dense", "fetch", "answer", "tokens",
           "judge", "finish", "done"}

(* quiet: no write and no crash came between its two pickles.              *)
Unread == [corpus |-> <<>>, meta |-> <<>>, quiet |-> FALSE]

(* What _parse_verdict makes of the judge's text: whether it has issues,   *)
(* and its summary, which is any string the judge has put there ("other"), *)
(* the empty one too; "ok" of nothing at all, "needs_review" of prose.     *)
Summaries == {"ok", "needs_review", "", "other"}
Verdicts == [ran : {TRUE}, issues : BOOLEAN, summary : Summaries]
NoVerdict == [ran |-> FALSE, issues |-> FALSE, summary |-> "ok"]

Fresh == [order |-> <<>>, named |-> <<>>,
          dense |-> <<>>, hits |-> <<>>, texts |-> {}, cited |-> FALSE,
          verdict |-> NoVerdict]

Init ==
    /\ chroma = {}
    /\ index = Pickle(FALSE, <<>>)
    /\ meta = Pickle(FALSE, <<>>)
    /\ saver = [step |-> "idle", ids |-> <<>>]
    /\ cut = FALSE
    /\ job \in [Procs -> Jobs]
    /\ stage = [p \in Procs |-> "start"]
    /\ opened = [p \in Procs |-> Unread]
    /\ work = [p \in Procs |-> Fresh]
    /\ results = [p \in Procs |-> <<>>]
    /\ frames = [p \in Procs |-> <<>>]
    /\ audit = <<>>
    /\ saves = 0
    /\ faults = 0

Fault == faults < MaxFaults /\ faults' = faults + 1

Kind(p) == job[p].kind
Current(p) == job[p].items[Len(results[p]) + 1]
Scanned(p) == Kind(p) \in {"single", "slack", "bulk"}
API(p) == Scanned(p) \/ Kind(p) = "stream"
Goto(p, s) == stage' = [stage EXCEPT ![p] = s]

(* The store goes with the item, but in an evaluation.                     *)
Kept(p) == IF Kind(p) \in Evals THEN opened ELSE [opened EXCEPT ![p] = Unread]

-------------------------------------------------------------------------------
(* The end of an item.                                                     *)

Result(status, confidence, summary, suspected) ==
    [status |-> status, confidence |-> confidence, summary |-> summary,
     suspected |-> suspected]
Failure(status) == Result(status, 0, "none", 0)

Answered(p, r) ==
    /\ results' = [results EXCEPT ![p] = Append(@, r)]
    /\ Goto(p, IF Len(results[p]) + 1 = Len(job[p].items) THEN "done" ELSE "open")
    /\ work' = [work EXCEPT ![p] = Fresh]
    /\ opened' = Kept(p)

(* Deviation: an exception of one item leaves asyncio.gather.              *)
FailWhole(p, status) ==
    /\ results' = [results EXCEPT ![p] = Append(@, Failure(status))]
    /\ Goto(p, "done")
    /\ work' = [work EXCEPT ![p] = Fresh]
    /\ opened' = Kept(p)
    /\ UNCHANGED <<frames, audit>>

(* Deviation: an item that failed is tried again.                          *)
FailRetries(p, status) ==
    IF Kind(p) # "bulk" THEN FailWhole(p, status)
    ELSE /\ Goto(p, "open")
         /\ work' = [work EXCEPT ![p] = Fresh]
         /\ opened' = Kept(p)
         /\ UNCHANGED <<results, frames, audit>>

(* _run_one keeps the failure of an item of a bulk query; anywhere else an *)
(* exception ends the job, and what it answered so far is not returned.    *)
Fail(p, status) ==
    IF Kind(p) = "bulk" THEN Answered(p, Failure(status)) /\ UNCHANGED <<frames, audit>>
    ELSE FailWhole(p, status)

(* In hundredths: 40 for a citation, 40 for a guard without issues, and 4  *)
(* for each of the first five hits.                                        *)
Confidence(cited, verdict, n) ==
    (IF cited THEN 40 ELSE 0)
        + (IF verdict.ran /\ ~verdict.issues THEN 40 ELSE 0)
        + (IF 4 * n < 20 THEN 4 * n ELSE 20)

(* The summary that is recorded, for a response that has this one: an      *)
(* empty one as "ok".                                                      *)
Recorded(judged, summary) ==
    CASE ~judged -> "skipped"
      [] judged /\ summary = "" -> "ok"
      [] OTHER -> summary

(* scan_hits: the hits with a text that a pattern matches.                 *)
Suspected(p) ==
    IF InjectionScan /\ Scanned(p)
    THEN Cardinality(ToSet(work[p].hits) \cap work[p].texts \cap Suspicious) ELSE 0

-------------------------------------------------------------------------------
(* Retrieval.                                                              *)

(* Nothing to do, and too much: query_bulk answers an empty list and       *)
(* refuses a long one, an evaluation of no case has no row.                *)
Start(p) ==
    /\ stage[p] = "start"
    /\ IF job[p].items = <<>>
       THEN Goto(p, "done") /\ UNCHANGED <<opened, work, results, frames, audit>>
       ELSE IF Kind(p) = "bulk" /\ Len(job[p].items) > MaxBulk
       THEN FailWhole(p, "400")
       ELSE Goto(p, "open") /\ UNCHANGED <<opened, work, results, frames, audit>>
    /\ UNCHANGED <<store, job, faults>>

(* The early refusals, in the code's order: an empty question, a firm      *)
(* without chunks; an evaluation looks at neither.                         *)
Open(p) ==
    /\ stage[p] = "open"
    /\ IF API(p) /\ Current(p).blank THEN Fail(p, "400")
       ELSE IF Kind(p) \notin Evals /\ chroma = {} THEN Fail(p, "409")
       ELSE Goto(p, "index") /\ UNCHANGED <<opened, work, results, frames, audit>>
    /\ UNCHANGED <<store, job, faults>>

(* get_embedder keeps a model that has been loaded, and only that: an item  *)
(* that was answered, or failed later, has left it there for the next.     *)
Loaded(p) ==
    \E i \in DOMAIN results[p] : results[p][i].status \notin {"400", "409", "503"}

(* _safe_get_embedder: the model does not load (the command line loads it  *)
(* before it looks at the chunks).                                         *)
EmbedderFails(p) ==
    /\ stage[p] = IF Kind(p) = "cli" THEN "open" ELSE "index"
    /\ ~Loaded(p)
    /\ Fault
    /\ Fail(p, "503")
    /\ UNCHANGED <<store, job>>

(* store.bm25(): a half-written pickle does not load.                      *)
LoadIndex(p) ==
    /\ stage[p] = "index"
    /\ IF opened[p].corpus # <<>>
       THEN Goto(p, "meta") /\ UNCHANGED <<opened, work, results, frames, audit>>
       ELSE IF index.torn THEN Fail(p, "500")
       ELSE /\ Goto(p, "meta")
            /\ opened' = [opened EXCEPT
                   ![p].corpus = index.ids,
                   ![p].quiet = /\ saver.step \in {"idle", "upsert"} /\ ~cut
                                /\ opened[p].meta = <<>>]
            /\ UNCHANGED <<work, results, frames, audit>>
    /\ UNCHANGED <<store, job, faults>>

(* store.bm25_meta() and _bm25_with_chunks: the ids of the best positions  *)
(* of the corpus are read from meta.pkl, which may be of another run.      *)
LoadMeta(p) ==
    /\ stage[p] = "meta"
    /\ \E ids \in {IF opened[p].meta # <<>> THEN opened[p].meta ELSE meta.ids} :
          IF opened[p].meta = <<>> /\ meta.torn THEN Fail(p, "500")
          ELSE \E order \in IF ids = <<>> THEN {<<>>}
                            ELSE Rankings(DOMAIN opened[p].corpus, Pool) :
                 IF \E i \in DOMAIN order : order[i] > Len(ids) THEN Fail(p, "500")
                 ELSE /\ Goto(p, "dense")
                      /\ opened' = [opened EXCEPT ![p].meta = ids]
                      /\ work' = [work EXCEPT
                             ![p].order = order,
                             ![p].named = [i \in DOMAIN order |-> ids[order[i]]]]
                      /\ UNCHANGED <<results, frames, audit>>
    /\ UNCHANGED <<store, job, faults>>

(* dense_search: every chunk has a distance.                               *)
Dense(p) ==
    /\ stage[p] = "dense"
    /\ Goto(p, "fetch")
    /\ \E s \in FullRankings(chroma, Pool) :
          work' = [work EXCEPT ![p] = [Fresh EXCEPT !.named = work[p].named, !.dense = s]]
    /\ opened' = Kept(p)
    /\ UNCHANGED <<store, job, results, frames, audit, faults>>

(* chroma.get: one call for all hits; an unknown id is not in the answer.  *)
Texts(fused) == ToSet(fused) \cap chroma

(* The rest of hybrid_search: fuse, fetch the texts, re-order; the command *)
(* line and the evaluation have no cross-encoder.  Without a hit there is  *)
(* nothing to ask the model, except in a stream, which starts here.        *)
Fetch(p) ==
    /\ stage[p] = "fetch"
    /\ \E fused \in {Fused(work[p].named, work[p].dense)} :
           IF fused = <<>> /\ Kind(p) # "stream"
           THEN Answered(p, Result("nohits", 0, "ok", 0)) /\ UNCHANGED frames
           ELSE /\ \E hits \in IF API(p) THEN Reranked(fused) ELSE {fused} :
                      work' = [work EXCEPT ![p] = [Fresh EXCEPT
                                  !.hits = hits, !.texts = Texts(fused)]]
                /\ Goto(p, IF Kind(p) = "stream" THEN "tokens" ELSE "answer")
                /\ frames' = IF Kind(p) = "stream"
                             THEN [frames EXCEPT ![p] = <<"meta">>] ELSE frames
                /\ UNCHANGED <<opened, results>>
    /\ UNCHANGED <<store, job, audit, faults>>

-------------------------------------------------------------------------------
(* The models.                                                             *)

Guarded(p) == Kind(p) \in Evals \/ Current(p).guard

Answer(p) ==
    /\ stage[p] = "answer"
    /\ \E cited \in BOOLEAN : work' = [work EXCEPT ![p].cited = cited]
    /\ Goto(p, IF Guarded(p) THEN "judge" ELSE "finish")
    /\ UNCHANGED <<store, job, opened, results, frames, audit, faults>>

(* The cross-encoder does not load; the encoder raises; Ollama refuses,    *)
(* times out or goes away.                                                 *)
ModelFails(p) ==
    /\ stage[p] \in {"dense", "answer", "judge"} \cup (IF API(p) THEN {"index"} ELSE {})
    /\ Fault
    /\ Fail(p, "500")
    /\ UNCHANGED <<store, job>>

(* verify_citations and _parse_verdict.                                    *)
Judge(p) ==
    /\ stage[p] = "judge"
    /\ \E v \in Verdicts : work' = [work EXCEPT ![p].verdict = v]
    /\ Goto(p, "finish")
    /\ UNCHANGED <<store, job, opened, results, frames, audit, faults>>

(* JSON whose "issues" is a number: iterating over it raises.              *)
JudgeOdd(p) ==
    /\ stage[p] = "judge"
    /\ Fail(p, "500")
    /\ UNCHANGED <<store, job, faults>>

(* _audit_record.                                                          *)
Record(p, r) == [proc |-> p, item |-> Len(results[p]) + 1,
                 summary |-> Recorded(work[p].verdict.ran, r.summary),
                 confidence |-> r.confidence, suspected |-> r.suspected]

ResponseOf(p) ==
    LET w == work[p]
    IN  Result("200", Confidence(w.cited, w.verdict, Len(w.hits)), w.verdict.summary,
               Suspected(p))

(* Deviation: the record is made before the guard's verdict is in.         *)
FinishEarly(p) ==
    /\ stage[p] = "finish"
    /\ Scanned(p)
    /\ audit' = Append(audit, [Record(p, ResponseOf(p)) EXCEPT
                   !.confidence = Confidence(work[p].cited, NoVerdict, Len(work[p].hits))])
    /\ Answered(p, ResponseOf(p))
    /\ UNCHANGED <<store, job, frames, faults>>

(* The response of _do_query, and its audit record.                        *)
Finish(p) ==
    /\ stage[p] = "finish"
    /\ Scanned(p)
    /\ audit' = Append(audit, Record(p, ResponseOf(p)))
    /\ Answered(p, ResponseOf(p))
    /\ UNCHANGED <<store, job, frames, faults>>

(* The command line prints an answer and the guard's issues, and keeps no  *)
(* record.                                                                 *)
FinishCommand(p) ==
    /\ stage[p] = "finish"
    /\ Kind(p) = "cli"
    /\ Answered(p, Result("200", 0, work[p].verdict.summary, 0))
    /\ UNCHANGED <<store, job, frames, audit, faults>>

(* A case passes with half of its sources and of its keywords, and without *)
(* an issue.                                                               *)
Row(p, covered) ==
    Result(IF covered /\ ~work[p].verdict.issues THEN "pass" ELSE "fail", 0, "ok", 0)

FinishRow(p) ==
    /\ stage[p] = "finish"
    /\ Kind(p) \in Evals
    /\ \E covered \in BOOLEAN : Answered(p, Row(p, covered))
    /\ UNCHANGED <<store, job, frames, audit, faults>>

Frame(p, f) == frames' = [frames EXCEPT ![p] = Append(@, f)]

(* event_iter: a frame for each delta, then one that ends the stream.      *)
Token(p) ==
    /\ stage[p] = "tokens"
    /\ Len(frames[p]) <= MaxTokens
    /\ Frame(p, "token")
    /\ UNCHANGED <<store, job, stage, opened, work, results, audit, faults>>

StreamFails(p) ==
    /\ stage[p] = "tokens"
    /\ Fault
    /\ Frame(p, "error")
    /\ Answered(p, Failure("error"))
    /\ UNCHANGED <<store, job, audit>>

StreamDone(p) ==
    /\ stage[p] = "tokens"
    /\ Frame(p, "done")
    /\ Answered(p, Result("200", 0, "ok", 0))
    /\ UNCHANGED <<store, job, audit, faults>>

(* The client goes away: the generator is closed at its yield.             *)
StreamCloses(p) ==
    /\ stage[p] = "tokens"
    /\ Fault
    /\ Answered(p, Failure("closed"))
    /\ UNCHANGED <<store, job, frames, audit>>

-------------------------------------------------------------------------------
(* The indexing process: upsert_chunks, then save_bm25.                    *)

readers == <<job, stage, work, results, frames, audit>>

(* A write that the two reads of a store may straddle.                     *)
Disturb ==
    opened' = [p \in Procs |-> [opened[p] EXCEPT !.quiet = @ /\ opened[p].meta # <<>>]]

SaverStarts ==
    /\ saver.step = "idle"
    /\ saves < MaxSaves
    /\ saves' = saves + 1
    /\ \E ids \in Corpora : saver' = [step |-> "upsert", ids |-> ids]
    /\ UNCHANGED <<chroma, index, meta, cut, readers, opened, faults>>

SaverUpserts ==
    /\ saver.step = "upsert"
    /\ chroma' = chroma \cup ToSet(saver.ids)
    /\ saver' = [saver EXCEPT !.step = "index"]
    /\ UNCHANGED <<index, meta, cut, saves, readers, opened, faults>>

(* open("wb") truncates; the dump fills.                                   *)
SaverOpensIndex ==
    /\ saver.step = "index"
    /\ index' = Torn
    /\ saver' = [saver EXCEPT !.step = "index_open"]
    /\ Disturb
    /\ UNCHANGED <<chroma, meta, cut, saves, readers, faults>>

SaverDumpsIndex ==
    /\ saver.step = "index_open"
    /\ index' = Pickle(FALSE, saver.ids)
    /\ saver' = [saver EXCEPT !.step = "meta"]
    /\ Disturb
    /\ UNCHANGED <<chroma, meta, cut, saves, readers, faults>>

SaverOpensMeta ==
    /\ saver.step = "meta"
    /\ meta' = Torn
    /\ saver' = [saver EXCEPT !.step = "meta_open"]
    /\ Disturb
    /\ UNCHANGED <<chroma, index, cut, saves, readers, faults>>

(* Deviation: the metadata are sorted, the corpus is not.                  *)
SaverDumpsMetaSorted ==
    /\ saver.step = "meta_open"
    /\ meta' = Pickle(FALSE, Reverse(saver.ids))
    /\ cut' = FALSE
    /\ saver' = [saver EXCEPT !.step = "idle"]
    /\ Disturb
    /\ UNCHANGED <<chroma, index, saves, readers, faults>>

SaverDumpsMeta ==
    /\ saver.step = "meta_open"
    /\ meta' = Pickle(FALSE, saver.ids)
    /\ cut' = FALSE
    /\ saver' = [saver EXCEPT !.step = "idle"]
    /\ Disturb
    /\ UNCHANGED <<chroma, index, saves, readers, faults>>

SaverCrashes ==
    /\ saver.step # "idle"
    /\ Fault
    /\ cut' = (cut \/ saver.step \in {"index_open", "meta", "meta_open"})
    /\ saver' = [saver EXCEPT !.step = "idle"]
    /\ UNCHANGED <<chroma, index, meta, saves, readers, opened>>

-------------------------------------------------------------------------------

Retrieve(p) ==
    \/ Start(p) \/ Open(p) \/ EmbedderFails(p) \/ LoadIndex(p) \/ LoadMeta(p)
    \/ Dense(p) \/ Fetch(p)
Generate(p) ==
    \/ Answer(p) \/ ModelFails(p) \/ Judge(p) \/ JudgeOdd(p) \/ Finish(p)
    \/ FinishCommand(p) \/ FinishRow(p) \/ Token(p) \/ StreamFails(p) \/ StreamDone(p) \/ StreamCloses(p)
Save ==
    \/ SaverStarts \/ SaverUpserts \/ SaverOpensIndex \/ SaverDumpsIndex
    \/ SaverOpensMeta \/ SaverDumpsMeta \/ SaverCrashes

Next == Save \/ \E p \in Procs : Retrieve(p) \/ Generate(p)

-------------------------------------------------------------------------------
(* Properties.                                                             *)

(* Every variable keeps its shape, and no record or answer claims more     *)
(* than a whole of confidence.                                             *)
TypeOK ==
    /\ chroma \subseteq Ids
    /\ {index.torn, meta.torn, cut} \subseteq BOOLEAN
    /\ {index.ids, meta.ids, saver.ids} \subseteq Corpora \cup {<<>>}
    /\ job \in [Procs -> Jobs]
    /\ stage \in [Procs -> Stages]
    /\ \A p \in Procs :
          /\ {opened[p].corpus, opened[p].meta} \subseteq Corpora \cup {<<>>}
          /\ Len(work[p].hits) <= K /\ ToSet(work[p].hits) \subseteq Ids
          /\ Len(results[p]) <= Len(job[p].items)
          /\ stage[p] \notin {"start", "done"} => Len(results[p]) < Len(job[p].items)
    /\ \A i \in DOMAIN audit : audit[i].confidence \in 0..100

(* The corpus and the metadata a query reads are of one run, and the id at *)
(* each place is that of the chunk that was scored there, in every case of *)
(* an evaluation too, unless an indexing process wrote between the store's *)
(* two reads or crashed between its two writes (store.py, save_bm25;       *)
(* hybrid.py, _bm25_with_chunks).                                          *)
RightChunk ==
    \A p \in Procs :
        (stage[p] = "dense" /\ opened[p].quiet) =>
            work[p].named = [i \in DOMAIN work[p].named |->
                                opened[p].corpus[work[p].order[i]]]

(* Nothing goes to the model without its text, from whichever list it came *)
(* and whatever is indexed meanwhile (hybrid_search fills in "").          *)
TextFound(p) == ToSet(work[p].hits) \subseteq work[p].texts

(* Fusion never puts a chunk before one that both lists place better, and  *)
(* never cuts the better one.                                              *)
FusionFair(p) ==
    LET w == work[p]
        fused == Fused(w.named, w.dense)
    IN  \A x, y \in ToSet(w.named) \cup ToSet(w.dense) :
            (Dominates(w.named, w.dense, x, y) /\ Place(fused, y) # 0) =>
                Place(fused, x) \in 1..(Place(fused, y) - 1)

(* The cross-encoder "does not introduce new chunks - it only re-orders"   *)
(* (hybrid_search), and it loses none.                                     *)
RerankOnlyReorders(p) ==
    LET fused == Fused(work[p].named, work[p].dense)
    IN  \A hits \in Reranked(fused) :
            Len(hits) = Len(fused) /\ ToSet(hits) = ToSet(fused)

(* What becomes of the two lists on the way to the model is as above, also *)
(* when an indexing process writes or dies between any two reads.          *)
RetrievalSound ==
    \A p \in Procs :
        /\ TextFound(p)
        /\ stage[p] = "fetch" => FusionFair(p) /\ RerankOnlyReorders(p)

(* Each answer of _do_query that rests on hits has one audit record, and    *)
(* no item has two or one for a failure.  The record says of the item what *)
(* the response said, whatever the judge wrote: its confidence, what is    *)
(* suspected, and its summary, which is "skipped" for just the questions   *)
(* that did without the guard and never empty.                             *)
AuditMatches ==
    \A p \in Procs : \A i \in DOMAIN results[p] :
        LET records == {n \in DOMAIN audit : audit[n].proc = p /\ audit[n].item = i}
            r == results[p][i]
        IN  /\ Cardinality(records) <= 1
            /\ Scanned(p) /\ r.status = "200" => records # {}
            /\ \A n \in records :
                  /\ r.status = "200"
                  /\ audit[n].confidence = r.confidence
                  /\ audit[n].suspected = r.suspected
                  /\ audit[n].summary = Recorded(job[p].items[i].guard, r.summary)

(* "every query logged": whatever the API has answered without an error is *)
(* in the audit log.  It does not hold (README): a stream leaves no        *)
(* record, and neither does an answer without hits.                        *)
EveryAnswerLogged ==
    \A p \in Procs : \A i \in DOMAIN results[p] :
        API(p) /\ results[p][i].status \in {"200", "nohits"} =>
            \E n \in DOMAIN audit : audit[n].proc = p /\ audit[n].item = i

(* A bulk query answers each of its items, whichever of them fail: "one    *)
(* malformed question can't kill the whole request" (query_bulk).          *)
BatchWhole(p) ==
    (Kind(p) = "bulk" /\ stage[p] = "done" /\ Len(job[p].items) <= MaxBulk) =>
        Len(results[p]) = Len(job[p].items)

(* A stream has its hits first, and one frame that ends it, last: it never *)
(* just stops, unless the client has left.                                 *)
StreamFramed(p) ==
    /\ \A i \in DOMAIN frames[p] :
          /\ (frames[p][i] = "meta") <=> i = 1
          /\ frames[p][i] \in {"done", "error"} =>
                i = Len(frames[p]) /\ stage[p] = "done"
    /\ stage[p] = "done" /\ frames[p] # <<>> =>
          \/ Last(frames[p]) \in {"done", "error"}
          \/ Last(results[p]).status = "closed"

(* Whatever fails on the way, a client can tell what it got: each item of a *)
(* bulk query has its answer, and a stream its ending.                     *)
AnswersWhole == TypeOK /\ \A p \in Procs : BatchWhole(p) /\ StreamFramed(p)
===============================================================================
