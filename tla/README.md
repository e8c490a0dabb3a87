# A formal model of firm-bot

firm-bot is a self-hosted question-answering service over the documents of a
law firm's clients: a FastAPI application and a command line that ingest files
into a per-firm index on disk (Chroma, two BM25 pickles, a manifest), answer
questions from it, and keep an audit log. This directory holds TLA+ modules of
the system, TLC configurations that model-check them, and theorems that TLAPS
proves about them. Paths below are relative to the repository.

- [Inventory](#inventory): the system's parts, their state and their hazards
- [Modules](#modules): which module models what, and how
- [Runs](#runs): what TLC checks, in which bounds, under which fairness
- [Disagreements](#disagreements): where the code and a promise part ways
- [Proofs](#proofs): what is proved, from what, along which argument
- [Limits](#limits): what is only model-checked, what is not modelled, and why
- [Plan](#plan): what could come next

## Inventory

| Part | State | Operations | Talks to | Module |
|---|---|---|---|---|
| Ingest pipeline and store (`firm_bot/api/app.py` `_do_ingest`, `store.py`, `cli.py` `_ingest_source_dir`) | per firm: `source/`, the Chroma collection, `bm25.pkl`, `meta.pkl`, `indexed_files.json` | incremental ingest (API), full ingest (CLI, watcher) | the operator's file system, the encoder, retrieval | `Ingest` |
| Watcher (`watcher.py`) | a timer, the queue of events | decides when a full ingest runs | the file system's events, the store | `Watcher` |
| Extractors (`ingest/`) and the litigation pack (`packs/litigation/`) | the dispatch function | file to documents; register, unregister | ingest calls `dispatch` once per file | `Documents` |
| Chunker (`chunk.py`) | none between calls | sections, windows, merge | ingest, after `dispatch` | `Chunker` |
| Retrieval (`retrieve/`) | none | BM25, dense, reciprocal rank fusion, rerank | the pickles and the collection | `Retrieval` |
| Query, bulk query, stream, evaluation, `firm-bot query`, `answer/` | one request's | retrieve, generate, judge, audit | the index, the LLM, the audit log | `Query` |
| Slack adapter (`integrations/slack/`) | one event's | ask the API, split the reply | the query API | `Slack` |
| Upload (`upload`) and the SDK's `ingest()` | `source/` | exists check, copy, removal of empty files; upload a folder and ingest it | ingest finds what it writes | `Upload` |
| Middleware (`security/middleware.py`, `security/api_key.py`, `observability/`) | one request's, the counters, the buckets | reject, pass on, count, cut a body | the ASGI server, every handler | `Gateway` |
| Rate limiter (`security/rate_limit.py`) | a map from client to token bucket | `check`, sweep of idle buckets | the middleware | `RateLimiter`, `RatePolicy` |
| Audit log (`audit_log.py`, `_schedule_audit`) | `audit-log.jsonl`, a semaphore, tasks, pool threads | schedule, append, prune, read a window | the query handlers, the thread pool | `AuditLog` |
| Firm creation (`create_firm`, `update_config`, `_get_store`, `cli.py` `_cmd_firm`) | a directory per slug, `.lock`, `config.yaml`, three subdirectories | create, open, patch | every handler that takes a slug opens (and makes) its directory | `FirmSetup` |
| Root configuration, boot, firm configuration (`config.py`, `lifespan`, `ollama_setup.py`, `cli.py`) | `config.yaml`, a firm's `config.yaml` and its backup | load, save, `ensure_api_key`, pull, `config`, `migrate`, `pack`, `demo` | every process at start | `Startup` |
| Query vector cache, redaction, audit export, web UI, offline evaluation, marketing scripts | none that another part depends on | | | none |

What is hard about it:

- **Interleaving of processes.** Nothing but files coordinates `uvicorn
  --workers N`, the CLI and the watcher. `_INGEST_LOCKS` is per process, and no
  handler awaits while it holds one, so inside a process a run is sequential
  (the 409 `ingest_in_progress` cannot be reached: the loop never runs a second
  request while the lock is held) and between processes there is no exclusion at
  all.
- **Crashes between writes.** An ingest changes four artefacts one after the
  other; `write_text` and `open("wb")` empty a file before they fill it.
- **Check and use apart.** A file is hashed and then read again; `locked()` is
  asked when a task is made and the slot is taken when it first runs; `exists()`
  is asked before `mkdir` and before `open`; a query reads two pickles and a
  collection one after the other; a prune rewrites a file from what it read
  earlier; a command writes back a configuration that it loaded earlier.
- **Threads and tasks.** Audit records are appended by pool threads while the
  loop prunes the same file; requests interleave wherever they await.
- **Retries and late answers.** An SDK caller repeats an upload whose answer was
  lost; a Slack handler gives up on a query that goes on.
- **Partial failure.** A creation is rolled back while other requests make the
  same directory; one file makes an ingest raise and every file with it; one item
  of a bulk query fails; a stream breaks after its status was sent; a disk is
  full in the middle of a line, or of a prune's rewrite.
- **Numbers.** A bucket refilled lazily, a header rounded to whole seconds, an
  overlap larger than half a window, parts smaller than the minimum, a body that
  ends on the limit, a message cut at its first character.

What makes each part correct: the index never hides a document that is in
`source/`, and never names a text it does not have (ingest, retrieval); the
documents of a file have all of its text, ids of their own and the right place
to be cited at (extractors, chunker); every question is answered whole and
recorded as it was answered (query, Slack, audit log); what is uploaded stays
(upload); one response per request, within the limits (middleware, rate
limiter); a slug is created once and its creation stands, and a setting is not
lost for good (firm creation, configuration). `PROJECT.json` lists every hazard
at its line, with the properties that would catch it going wrong.

## Modules

Each component has a module with its state as variables, one action per step of
the code between which another actor can act, and its properties at the end.
Definitions keep the names of the code where they can. Definitions under a
comment that begins *Deviation* are no part of any specification: they are
plausible bugs (a dropped guard, a missing reset, an off-by-one), each of which
is put in the place of the definition after it to see that a property notices.
An `MC` module gives TLC the values that a `.cfg` cannot write.

Composition is by `EXTENDS`: `Watcher` extends `Ingest`, `Documents` extends
`Chunker`, and `Slack` extends `Query`, which extends `Retrieval`. `RateLimiter`
instantiates `RatePolicy`, which it refines. `ConfigProofs` extends `Startup` and
`FirmSetup` side by side, which is why the names of `FirmSetup` that would meet
one of `Startup` are its own (`SetupInit`, `SetupNext`, `Workers`, `at`, `job`).

### Ingest

One firm's index, the processes that write it and the operator who edits
`source/`. A *worker* is an API process running `POST /ingest` (`StartIngest` …
`WriteManifest` follow `_do_ingest` line by line); a *reindexer* is the CLI or
the watcher, the same pipeline without the manifest.

| State | Code |
|---|---|
| `source`, `latest` | the content of each file of `source/`, and the newest it ever had |
| `chroma` | the collection: chunks with the version they came from |
| `bm25`, `meta`, `manifest` | the files, with `torn` from the truncation to the write |
| `pc`, `run` | the step a process is at; `manifest`, `new_manifest`, `files`, `file_hash`, `all_chunks` |
| `faults` | crashes and encode failures so far (bound) |

`HashFile` and `Extract` are two steps, as `hash_file` and `dispatch` read the
file twice; `Outcomes` is what is left when two processes write one file at
once. A content is a version, its hash is the version; `ChunkCount` says how
many chunks it has, `Unreadable` which contents yield no document, `Raising` on
which `dispatch` raises (`ExtractRaises`: it is in no `try`, so the run ends
there and what it has extracted is lost), and `Doubled` which contents have two
chunks of one id, so that Chroma refuses the whole batch (`UpsertRaises`).

### Watcher

`on_any_event` before a reindexer of `Ingest`: watchdog's queue of `events`, the
`timer`, and `OnAnyEvent`, which begins a run only while no timer is set. Every
edit of the operator is an event. `IngestProofs` shows that it implements
`Ingest`.

### Documents, Chunker

`Documents` is the path from a file to documents: `Dispatch` (with the pack's
extractors behind it after `Register`), `ReadPage` with OCR and its cap,
`ReadParagraph`, `ReadMessage`, `ReadLine`, `ReadPleading`, and `EmitBlock` for a
pleading's groups. A file is its kind and its items (pages, paragraphs, messages,
lines); a document is the set of its items' positions, the key of its id and the
item its citation names. A message of a mailbox is read without its body, as in
the code; `Raises` says which files `dispatch` raises on (an encrypted PDF, an
e-mail that cannot be parsed).

`Chunker` is `chunk_documents` on one document: `TakeSection`
(`_split_into_sections`), `KeepShort` and `CutPart` (`_split_long_section`, one
window a step), `HoldTiny`, `MergePart`, `EndSection` (`_merge_tiny_in_section`).
A document is a string of letters, spaces and line breaks; where headings and
sentences begin is part of it, in every way the regular expressions could find
them, with one white space between sentences. A chunk is the set of the spans it
was joined from.

### Retrieval, Query

`Retrieval` is `hybrid_search` from two rankings on: `Score` and `Fused` with
exact sums (the reciprocal ranks over a common denominator), the cut to `K`, and
`Reranked`, any order of the head that a cross-encoder may give.

`Query` is what surrounds it. A job is a request or a command of one of eight
kinds (`query`, the same asked by Slack, bulk, stream, three evaluations, the
command line), its items answered in order; the stages of an item are `Start`,
`Open`, `LoadIndex`, `LoadMeta`, `Dense`, `Fetch`, `Answer`, `Judge` and one of
the `Finish` actions, or `Token`s and `StreamDone`. `opened` is what the store of
an item has loaded; evaluations keep it from case to case (`Kept`), the others
open a store per question. Beside them the `Saver…` actions index: the collection,
then `bm25.pkl`, then `meta.pkl`, with a crash anywhere. `Fail` says what a
failure becomes: an entry of a bulk response, an `error` frame, or the end of the
job. `audit` is what is handed to `_schedule_audit`, where `AuditLog` begins; a
stream and a question without hits never get there. The judge's summary is any
text of its own (`Summaries`), the empty one among them, which the response keeps
and the record has as "ok" (`Recorded`). The LLM, the judge, the embedder and the
cross-encoder are external: any answer of the kinds the code tells apart, any
ranking, or a failure.

### Slack

`handle_message` in front of a `Query` job: `NotAsked` (ignored events, no firm,
no API), `Replies`, `TimesOut`. `Split` is `_split_text`, as the spans of the
text that become messages.

### Upload

SDK callers with a folder each (`Send`, `Got`, `Raise`, `GiveUp`, `CallAgain`,
`Clear`), a set of requests in flight, and workers whose handler is at one of the
steps `CheckExists`, `Open`, `Copy`, `Stat`, `Unlink`, `RunIngest`. An ingest may
also answer 500, because a file of `Poison` is in `source/` (`IngestRaises`), or
503, because the encoder fails (`IngestFails`). A request
whose client gave up stays in flight, no longer `live`. A file of `source/` is
absent, blank, part, whole or mixed, with the client whose content it is.
`stored`, `found`, `removed` and `torn` are history.

### Gateway

Connections on one event loop, in four set-ups of the service: with or without
`APIKeyAuthMiddleware`, with the API (and `ObservabilityMiddleware`) or another
ASGI application inside, and three lists of origins. `Authenticate`,
`RateLimit`, `Preflight`, `Observe`, `Receive` (with the limited receive),
`BodyRead`, `Handle`, `Stream`, `TooLarge` and the three `App…` actions follow a
request in and its response out; `got` is what the application was given of the
body, `seen` what the limit has counted. Only a handler that declares a body
(`reads`) is given one by FastAPI; an ingest or a GET is handled at once. The
set-up with authentication in front of the API is one the middleware is written
for; `app.py` never arrives at it (see Disagreements).

### RateLimiter, RatePolicy

`RateLimiter` is `check()` with its map of buckets, the lazy refill and the sweep;
a check is one step, since it runs on the event loop under locks. `RatePolicy` is
what is promised: one everlasting bucket per client that fills with the clock.
`RateLimiter` implements it with `level <- [k \in Keys |-> Level(k)]`, the tokens
a client would be found to have. Tokens are whole units, one request costs `Unit`
of them.

### AuditLog

`_schedule_audit` with its semaphore, tasks, waiters, the pool's threads and the
synchronous fallback; `append_record`; GET as `prune_older_than` (read, truncate,
write, the last of which may fail: `PruneWriteFails`) and `read_audit_log`
(`Listed`); shutdowns, restarts, crashes and a full disk, which may leave `half` a
line, or nothing of the file that a prune has truncated. `stage` is how far a
query's background task is, `loop` what the event loop is busy with, `value` the
semaphore's count. `asyncio.Semaphore`, the loop's ready queue and the executor's
queue are external. `written`, `exposed` and `cost` are history: what was ever
appended, what was appended or held in memory during a prune, and what a fault
took.

### FirmSetup

The directory of one slug and the requests on it: `post` (create_firm with its
rollback), `cli` (`firm-bot firm create`), `get` (anything that opens a store)
and `patch`. `created`, `owner` and `mixed` are history.

### Startup

The two configuration files of a data directory. The API process boots
(`LoadRoot`, `Probe`, `Pulled` or `PullFails`, `NewKey`, `WriteKey`), by `uvicorn`
or by `firm-bot serve`, which loads and saves the root file first; a command
loads and saves it too, then works on the firm: `config`, `migrate` with its
backup, `demo` with and without `--reset`. `pack` is `apply_to_firm`, which no
command calls: a script does, and it loads no root file. `edited`, `persisted`,
`wanted`, `excused` and `harmed` are history: what the operator last meant, and
what has happened that may have undone it.

## Runs

| Run | Question | Instance |
|---|---|---|
| `ingest_single` | Does one worker keep the manifest truthful and index what stays, across edits, a crash or an encode failure? | 2 files, 4 contents each (the first of 2 chunks and the last of 1, so a tail is left behind), `dispatch` raises on the second, the upsert on the third, 1 fault |
| `ingest_watched` | And the command line and the watcher on one firm? | 1 file, 4 contents that may come back, the second with two chunks of one id, the last unreadable, 2 faults, 2 waiting events |
| `rate_limiter` | Can the lazy, swept map be told from one bucket per client? | 3 clients, sweep from the 2nd key on, 7 ticks; 2/3 request per tick, burst 2 |
| `audit` | Are records written once, writes bounded, prunes harmless to settled records, windows right, and is every record written in the end? | 3 queries, 2 slots, 2 threads, retention 1, 2 ticks, 1 fault (a crash, a shutdown, or a disk that is full for an append or for a prune) |
| `firm_race` | Is a slug created once, and does the creation stand? | 3 processes, all four kinds of request, 1 failed save, 1 crash |
| `documents` | Is text lost, doubled, mixed or cited wrongly between file and chunk, and do ids collide? | every PDF and Word file of up to 5 items, mailbox of up to 4, transcript and pleading of up to 6; every plain document of up to 9 characters, windows of 7, overlap 4, minimum 3 |
| `query` | Is what goes to the model, the client, the log and Slack what it should be, while another process indexes? | one job of ten, up to 3 items; two corpora, 2 indexing runs, k = 2, cross-encoder on the first hit; 1 fault; six answers of up to 10 characters, messages of 3 |
| `upload_retry` | Does what is stored stay, does an ingest that returns mean all of it, and does a caller that repeats get through? | 2 callers with any of six folders, one with a file that `dispatch` raises on, 1 worker, 1 fault |
| `startup` | Which settings, keys and prompts survive boots, commands and a crash, and does the API come up? | the server, one command process that runs any sequence of the commands, 1 edit, 1 prompt, 2 keys, 1 fault |
| `gateway` | One response, no byte past the limit, counted once under its own id, over in the end? | 2 connections, seven requests with bodies on and past the limit of 2, one of which no handler reads, four set-ups, burst 1 |
| `startup_key`, `watcher_once` | one promise each, which TLC refutes | the smallest instance that does |

What the properties say, and why:

- `BM25Grounded`: a keyword hit is looked up in Chroma by id; every id in either
  pickle is there, at any moment, with any number of processes.
- `ManifestTruthful`: a file that the next ingest would skip has all of its
  chunks in Chroma. The manifest is saved last and from hashes taken first;
  this is what that order is for.
- `EventuallyIndexed`: a readable file that is left alone gets to Chroma and
  stays, once no file of `source/` makes the runs raise (`NoPoison`; while one
  does, nothing new is indexed at all). It holds for one worker, and for the
  command line beside the watcher, since full runs ignore the manifest and so
  repair what a race spoilt; it fails for the watcher alone and for two workers.
- `TextKept`, `CitedRight`, `IdsDistinct`: each piece of a file that was read is
  in one document, in order, a scanned page missing only past the OCR cap and of a
  mailbox's messages only the bodies; a document's citation names the heading,
  marker or paragraph where it begins; no document replaces another of its file.
- `Lossless`, `SectionsDistinct`, `NoSliver`, `Terminates`: every letter is in a
  chunk; no chunk has text of two sections; a chunk of tiny parts only is its
  section's one chunk; the window loop ends.
- `RightChunk`: the id at each place of the keyword list is that of the chunk
  that was scored there, unless an indexing process wrote between the store's
  two reads or crashed between its two writes. `RetrievalSound`: no hit goes to
  the model without its text, whatever is indexed meanwhile; fusion never puts a
  chunk before one that both lists place better; the cross-encoder only reorders.
- `AuditMatches`, `AnswersWhole`: each answer that rests on hits and is given by
  `query`, Slack's query or an item of a bulk query has one audit record that says
  what the response says (with "ok" for a summary the judge left empty), and
  neither a failure nor an answer without hits has one; each item of a bulk query
  has its entry, a stream its hits first, and it does not end without a `done` or
  `error` frame unless the client has left.
- `Replied`, `EventuallyAnswered`: every letter of a reply is in one message,
  in order, within Slack's limit; every job ends and every event is replied to,
  or its handler raises.
- `StoredStays`, `IngestMeansAll`, `EventuallyIngested`: with one worker a file
  that was found stored stays whole, and nothing half-written stays without a
  crash; when the SDK's `ingest()` returns, the run has found the whole folder; a
  caller that repeats and clears conflicts gets through, once no file that
  `dispatch` raises on, its own or another caller's, is in `source/`.
- `RootKept`, `Recoverable`, `ServesAnyway`: the operator's setting is lost only
  to a boot of the API or to an overlap, a persisted key only to an overlap; the
  firm's prompt is in its file or in the backup through any cut of a migrate; the
  API is up in the end whatever the model server and the disk do.
- `OneResponse`, `CapHeld`, `Accounted`, `EventuallyOver`: one response, whole
  when the request is done, readable for just the allowed origins; no application
  is given more than the limit and a refused request is not read; a request to a
  firm is counted once and logged under its own id; every request is answered or
  its connection closed.
- `PolicySpec`, `NeverAhead`, `RetryHonest`, `SweptWhenFull`: the refinement;
  no step admits what the clock has not paid for; a client that waits as long as
  `Retry-After` said finds a token; over its limit, the map holds only buckets
  asked for within the ttl.
- `WritersBounded`, `WrittenOnce`, `PruneKeepsSettled`, `EventuallyRecorded`: the
  semaphore bounds the writes through hand-overs and restarts; no record is
  written twice; a prune drops nothing within its retention but what it raced with
  or what a fault of its own took (a crash or a full disk between the truncation
  and the end of the write), and GET returns its window; every answered query is
  recorded but for what a fault took.
- `CreatedOnce`, `CreationStands`: at most one 201 per slug, and what it stood
  for is not rolled back by a request that failed or came late. When neither the
  CLI nor a PATCH took part the config is the creator's, whole.

**Bounds.** They are the constants `Max…` of the modules and the sizes of the
sets. Two files are enough for one run to skip one and extract the other; two
contents for a hash and an extraction to differ; a smaller content for a stale
tail; one equal to the first for an old chunk to come back; and a content of each
kind that ends a run. Two slots
with three queries fill the semaphore and force the synchronous write or a waiter.
Seven ticks let a bucket empty, fill, go idle past the ttl and be swept. Three
processes let one create, one come late and one open the slug in the middle of a
rollback. Nine characters with windows of seven give two sections, several windows
whose overlap is over half of one, cuts at sentences and at spaces, and tiny parts
at either end. Six lines with three per chunk flush twice and carry a marker over.
Two corpora of two chunks and one make the pickles of two runs differ in length
and in what each place holds; two indexing runs meet every pair of reads, and
three chunks with k = 2 make fusion cut one, out of lists of which either may be
the shorter. One fault at a time is what the properties speak of; `ingest_watched`
has two. Where a theorem covers a property, the bound does not matter.

**Fairness.** `Ingest`, `Watcher`: a run that was started goes on, ingest keeps
being requested (`docs/` tells the operator to run it after dropping files), and
watchdog's thread takes what is in its queue; crashes, failures and the operator
have none. `AuditLog`: a callback that is ready is run by the loop and a job in
the pool's queue by a thread, both queues being first in first out; strong for
the loop's steps on a query, since prunes and synchronous writes keep disabling
them, and none for queries, prunes and faults. `Documents`, `Query`, `Slack`: a
function runs until it returns; the indexing process need not go on. `Upload`: a
handler that has started runs, a caller repeats a call that raised, and a worker
takes each waiting request in the end (strong, since it may be busy with others).
`Startup`: what has begun goes on and the supervisor starts a server that is
down; Ollama need not answer. `Gateway`: the loop gives each task its turn;
clients need not send. The other runs check safety only and use specifications
without fairness.

The largest runs are `firm_race` (4.8 million states), `documents` (1.6 million) and
`ingest_single` (1.3 million); none takes much more than two minutes on two workers.

**Deadlock** is checked except in `audit` (the bounded queries may all be answered
or lost with nothing in the log to prune), `documents` (functions return),
`query` and `upload_retry` (every job is answered, every caller is done), and
`watcher_once` (the operator has no contents left and no event waits).

**Symmetry** is used in `rate_limiter` only (the clients; the run has safety and
action properties and no liveness).

## Disagreements

Two runs are expected to fail, each for one promise of the repository:

- `startup_key` (`KeyOnce`): the comment on `require_api_key` says the boot
  persists the key "so subsequent boots don't rotate". The API's `RootConfig` is
  built without reading `config.yaml`, so each boot generates a key and saves it,
  with the defaults of everything else, over the file.
- `watcher_once` (`EventuallyIndexed`): the watcher's docstring says the pipeline
  is re-run when files change. The timer that the first event sets is never
  cleared.

Promises that the modules refute, too; each was seen by TLC as an invariant or a
property of the instance given:

| Promise | Refuted | Instance |
|---|---|---|
| Parallel ingests by several uvicorn workers are "safe" (`firm_bot/api/app.py`, docstring of `ingest`) | `Ingest.EventuallyIndexed`: the slower worker upserts an older content after the faster one saved the newer hash, and nothing repairs it | `Workers = {w1, w2}`, `NumFiles = 1` |
| Deleted documents "are garbage-collected from the index on the next run" (`WHITEPAPER.md:277`) | `Ingest.DeletedCollected`: nothing deletes from the collection, and the manifest entry stays | `Workers = {w1}` |
| `save_bm25` rebuilds "over the current chunk set" (`firm_bot/store.py:183`) | `Ingest.BM25Complete`: after an incremental ingest, keyword search knows only the files that changed | `Workers = {w1}` |
| A hash in the manifest means the file is indexed | `Ingest.ManifestTruthful`, when a file is changed between `hash_file` and `dispatch` and then put back | `AllowRestore = TRUE` |
| "we never silently drop audit records" (`firm_bot/api/app.py`) | `AuditLog.NothingDropped`: a record appended by a thread between a prune's read and its truncation is gone; and so is the whole file when the disk is full after the truncation, an error that GET logs and goes on from | `Threads = 1`, no fault; or one |
| A failed creation leaves no "phantom firm" (`firm_bot/api/app.py:334`) | `FirmSetup.NoPhantom`: when the save fails after `write_text` has opened the file, `rmdir` fails and the slug answers 409 from then on | one `post`, one failed save |
| A message becomes a document of its headers and its body (`firm_bot/ingest/eml.py:7-9`) | `Documents.BodiesKept`: `mailbox.mbox` yields messages without `get_body` and `get_content`, so no message of a mailbox has its body in the index (an `.eml` has) | the instance of `documents` |
| "Each successful query" writes a record (`firm_bot/audit_log.py:3`), "every query logged" (`firm_bot/api/app.py:1283`, `README.md:182`) | `Query.EveryAnswerLogged`: `_do_query` returns before its audit call when nothing was retrieved, and the stream has none | the instance of `query` |
| A body over the cap is answered with 413 (`firm_bot/security/middleware.py:15-17`, `SECURITY.md:54-57` and `107-108`, `README.md:763`, `WHITEPAPER.md:211` and `646`) | `Gateway.TooLargeSaid`: the exception is raised inside `receive()` while FastAPI parses the body, and FastAPI makes a 400 of it; only another ASGI application lets the middleware send its 413, and a request whose body no handler reads is answered as if it had none | the instance of `gateway` |
| `apply_to_firm` does not overwrite a prompt unless the firm has the pack's marker (`firm_bot/packs/litigation/__init__.py:102-104`) | `Startup.PackSpares`: without the marker any prompt is overwritten, with it a prompt is kept | the instance of `startup` |
| The ids of the keyword list are those of the chunks that were scored | `Query.RightChunk` without `quiet`: a run that writes between the two reads, or dies between the two writes, until the next run | the instance of `query` |

Seen while modelling:

- The API never asks for a key. `_get_root` (`api/app.py:77-82`) does not read
  `config.yaml`, so `root.api_keys` is empty at `app.py:134` and
  `APIKeyAuthMiddleware` is never added, though the lifespan's docstring
  (`app.py:45-51`) says that it is and that it reads the keys at request time.
- One file that `dispatch` raises on (an encrypted PDF, `ingest/pdf.py:73`; an
  unparsable e-mail), or a mailbox with two messages of one id, which Chroma
  refuses, makes every ingest of the firm answer 500 until it is taken away, and
  nothing of its neighbours is indexed meanwhile.
- `audit_log.py:15` and `README.md:189` list four values of `guard_summary`; the
  code writes whatever word the judge answered (`answer/guard.py:236`), and "ok"
  for none where the response has the empty string (`app.py:923`, `1024`).
- The docstring of the stream says that `done` carries "any guard issues"; no
  guard runs there and the list is always empty.
- `handle_message` says errors are "never raised to the caller"; a time-out while
  the answer is read is a `TimeoutError`, which is no `URLError`, and is raised
  (`TimesOut`). `_split_text` yields an empty message when what is left begins
  with two spaces, and may cut the line of sources in two.
- `append_record` is called "atomic-ish via temp+rename" (`audit_log.py:120`) and
  is a plain append; after a full disk the next record joins the half line and is
  unreadable, too. Records may be appended in another order than the queries were
  answered in, which a comment rules out; a burst within one turn of the loop makes
  more tasks than the semaphore has slots.
- `embed_cache.py` says the vector cache is in insertion order and used by
  `_do_query`: a hit moves an entry to the end, and only `query_stream` uses it.
- `answer/prompt.py` says the instruction-defence suffix is outside the
  truncation budget; it is truncated with the rest.
- `_compute_confidence` "returns 0.0 when nothing was cited and no guard ran";
  hits alone add 0.04 each.
- An evaluation looks up the ids of the pickles it loaded for its first case in
  the collection as it is now; the API opens a store per question.
- `RootConfig.from_env`, `RootConfig.validate` and `bm25_search` are called by
  nothing, and `processed/` is read by nothing.
- The pack's extractors are behind `dispatch` of the module `ingest.common`, which
  `app.py` has imported by name before, and `walk_source_dir` leaves `.txt` files
  out: they do not reach the index. A pleading's `para_end` is its `para_start`
  when its last line has no number.
- Messages of a mailbox without a Message-ID share one id, as do two copies of one
  message (`IdsDistinct` excepts both).
- Only the API's ingest redacts.
- `README.md` has the rate limit per IP where the key is `host:port`.
  `firm_bot/chunk.py` says the overlap is biased to a sentence boundary, which is
  not done, and `min_chunk_size` of the configuration is not passed on.
- The page reads `activeFirm` again after an `await` in `handleFiles`,
  `saveSettings`, `streamQuery` and `selectFirm`: what was begun for one firm may
  end in another that was picked meanwhile.

## Proofs

TLAPS checks every proof to the last leaf, and every invariant and every safety
property about steps that a passing run checks is the statement of one. The
assumptions are the named `ASSUME`s of the modules. Most say that a constant has
its type. The others are

- for the rate limiter, that an idle bucket is full again before it may be swept
  (`Capacity <= Ttl * Rate`, true of the defaults by far and checked by no code);
- for queries, that only a bulk request or an evaluation asks more than one
  question, and that no id comes twice in an index;
- for files, that an e-mail is one message, and that a file of each kind consists
  of that kind's items (`ItemsOf`).

| Module | Theorem | Says |
|---|---|---|
| `IngestProofs` | `TypeCorrect`, `Grounded` | `TypeOK` and `BM25Grounded`, for any files, processes, contents and faults |
| | `Truthful` | `ManifestTruthful`, for one worker and no restored contents |
| | `Reindexes`, `WatchGrounded` | the watcher implements `Ingest`; `BM25Grounded` beside it |
| `DocumentsProofs` | `TypeCorrect`, `NothingLost`, `SectionsApart`, `NoSlivers` | of `Chunker`: `TypeOK`, `Lossless`, `SectionsDistinct`, `NoSliver`, for any document, window, overlap and minimum |
| | `Chunks`, `DocumentsLossless`, `DocumentsSections`, `DocumentsSlivers` | the composition implements `Chunker` and keeps its promises |
| | `IdsApart`, `TextStays`, `CitesRight` | `IdsDistinct`, `TextKept`, `CitedRight`, for any files, OCR cap and group sizes |
| `QueryProofs` | `Matched`, `Grounded` | `RightChunk`, `RetrievalSound`, for any processes, pools, weights and indexing runs beside them |
| | `Complete`, `Audited` | `AnswersWhole`, `AuditMatches`, for any jobs and faults |
| | `Posted` | `Replied`, for any answer and message limit |
| `UploadProofs` | `Tidy` | `TypeOK` and `NoStub` (nothing empty stays behind without a crash or a failed copy), for any workers |
| | `Stays`, `Means` | `StoredStays` and `IngestMeansAll`, for any callers and folders on one worker |
| `AuditLogProofs` | `SlotsSuffice`, `TypeCorrect` | `WritersBounded`, `TypeOK` |
| | `Singly`, `Settles` | `WrittenOnce`, `PruneKeepsSettled`, for any queries, slots, threads, retention and faults |
| `ConfigProofs` | `Keeps`, `Recovers` | `RootKept`, `Recoverable`, for any commands, edits, prompts, keys and faults |
| | `TypeCorrect`, `Once`, `Stands` | of `FirmSetup`: `SetupTypeOK`, `CreatedOnce`, `CreationStands`, for any processes, failed saves and crashes |
| `RateLimiterProofs` | `TypeCorrect`, `AdmissionsBounded`, `Implements` | `TypeOK`, `NeverAhead`, the refinement of `RatePolicy` |
| | `RetryTrue`, `Swept` | `RetryHonest`, `SweptWhenFull` |
| `GatewayProofs` | `Responds`, `LimitHolds`, `Observed` | `OneResponse`, `CapHeld`, `Accounted`, for any connections, requests, limit and set-ups |

The inductive invariants, and why they are needed:

- `GroundedInv`: `BM25Grounded` says nothing of a run that is about to write a
  pickle; the invariant adds that from its upsert on, a run's chunks are in
  Chroma by id. No ingest removes an id, so other processes cannot spoil it;
  `demo init --reset`, which removes the whole store, is left out.
- `ManifestInv`: with one indexer a content that is not the newest never comes
  back, so only the entries for the newest content matter. Each of the three
  tables a run goes through (the manifest, what it loaded, what it will save)
  names the newest content of a file only if its chunks are in Chroma or in the
  batch still to be upserted (`Backed`), and the batch has no older chunk of that
  file to put over them (`OnlyNewest`).
- The watcher needs none of its own: each of its steps is a step of `Ingest` or
  leaves `Ingest`'s variables alone, and the invariants carry over. The same
  holds of `Documents` and `Chunker`.
- `ChunkInv` = `TypeOK /\ KeptInv /\ ApartInv`: a letter of the text taken so
  far is in a chunk, in a part that is still to be merged, in the tiny parts held
  back, or in the section at or after the cursor; and the spans of the section's
  parts, held-back parts and chunks all begin within the section, which has no
  heading inside.
- `SliverInv`: while a section is merged its chunks come last and each of them
  has a part that is not tiny. So what is held back at the end either finds such a
  chunk just before it or makes the only one of the section.
- `IdsInv`: the keys of the documents so far are all below the next page or
  section number (`NumbersInv`), and a message is one document with its own
  Message-ID (`MessagesInv`).
- `FileInv` of `Documents`: what was read is in a document or waits for one, and
  what waits comes after all of them (`PlaceInv`); the cap has been used on the
  scanned pages before (`PagesInv`); the last heading or marker is the current
  mark or opens what waits (`MarksInv`); a pleading's paragraphs are in order and
  only the first group can lack a number (`GroupsInv`). The last two are what a
  citation rests on: it names the mark of the moment the document is emitted,
  several items after the one where the document began.
- `KnownInv` and `AgreeInv` of `Query`: ids are in Chroma before they are in a
  pickle, so whatever a store has read of either pickle has a text when it is
  looked up; and between two saves the pickles agree, so a store that no indexing
  step came between has read two that do.
- `ShapeInv`, `WholeInv`, `AuditInv`: a job has an outcome for every item before
  the current one and none after it; a stream that has begun is not over, and no
  other job has frames; a record belongs to one answered item and says what its
  answer says, an empty summary recorded as "ok", and every answer that needs one
  has one already.
- `DeliveredInv`: a channel has the parts of one text, or nothing yet. `Split`
  is a recursive function: what it returns is an induction over the length of
  the text.
- `AskInv` and `SourceInv` of `Upload`: a caller that waits has one live request,
  in the inbox or in a handler, and the answers of requests it has given up reach
  nobody; an empty file is one that a handler has open or a fault has left.
  `AloneInv`: one worker finds the file it works on as it left it, or removed, so
  nothing that is stored is ever written again. `ToldInv`: a caller's position in
  its folder is past files that are stored only. With two workers `StoredStays`
  is false: both may find the name free.
- `LogInv` of `AuditLog`: `SlotsInv`, the semaphore's count and the tasks that hold
  a slot add up to no more than the slots as long as the loop runs, and once it
  has ended the holders only become fewer; `FreshInv`, one actor at most has yet
  to write a record, and it is not written; `FileInv`, a prune has read every
  settled record, and while the file is empty for it, what is appended is exposed
  and so disjoint from what it keeps; a write that fails adds what it kept to what
  faults took. `LinesOf` filters the file by a recursive
  function; the induction its lemmas need, like that of `Split`, is written as a
  least counterexample (`WFMin`), since the library's induction theorems cannot
  be instantiated.
- `RootInv`: `config.yaml` is as the operator left it unless it is emptied, and so
  is each copy in memory that was loaded since it last changed; a copy that was
  not is marked as outdated, and writing it back is the overlap that `RootKept`
  excuses.
- `FirmInv`: as long as nothing has harmed the firm, one command at most works on
  it, what that command has in memory is right for its step (`Sound`), and an
  empty file is one it is saving or one whose prompt is in the backup (`Whole`).
  That is why `migrate` can be cut anywhere and begun again.
- `OnceInv`: at most one POST is past `mkdir`; while there is one the directory
  exists and nobody has succeeded. So the only request that ever removes the
  directory is one whose own creation failed and before which none succeeded.
  `StandsInv` adds that, without the CLI and PATCH, that one POST is the only
  writer of the config and finds it as it left it.
- `LimiterInv`, `RetryInv` and `SweepInv`: a tracked bucket was refilled by the
  check that last asked for it, so one that is swept has been idle for the ttl and
  is full, which is what a new one would be; `Level` then moves as the policy's
  bucket does. A promise of `Retry-After` stays within what the clock will pay
  for. The map stays finite, for infinitely many clients too, so that its size
  can be compared with the limit.
- `GatewayInv`: what stage a request is at says what was read of it and sent for
  it (`StageInv`): nothing before the application, nothing of the API's before
  its handler returns, nothing by a gate after it. So a 413 begins a response
  only where none was begun, and what the application has been given is what the
  limit has counted. Connections touch only their own part (`Only`), so one
  lemma about a step of a connection serves all of them.

## Limits

Only model-checked: what must eventually happen (`EventuallyIndexed`,
`EventuallyRecorded`, `Terminates`, `EventuallyIngested`, `EventuallyAnswered`,
`ServesAnyway`, `EventuallyOver`), since reasoning under fairness and about
`ENABLED` is out of the prover's reach. What TLAPS proves has no bound, but says
nothing of progress: a system that never moved would satisfy it too.

Not modelled, and why:

- two files of one name in different subdirectories (they share a manifest
  entry): the model names files by their key;
- the query vector cache (its value is a function of its key), `processed/`
  (nothing reads it), histograms and timings (nothing reads them back);
- redaction, the formats of the audit export, of answers and of Slack messages,
  prompts and their truncation, the guard's and the injection detector's regular
  expressions, the parsers of PDF, e-mail and Word files, the signature of a Slack
  request: functions of text without state, modelled by their outcomes where a
  property needs them;
- the copy of the samples by `demo init` (a file that exists is skipped, so a copy
  that a crash has cut stays cut), and what `demo init --reset` does to a store in
  use: it removes the directory, collection and pickles and all, under whatever
  process indexes or answers (`Startup` has what it does to the configuration);
- a model server whose list has entries of another form than Ollama's:
  `is_model_pulled` goes through them outside its `try` (`ollama_setup.py:61-72`),
  and the boot would fail; `ServesAnyway` takes them as well-formed;
- the division by zero inside `rank_bm25` when no chunk has a token, which ends a
  run after the upsert as a crash there does;
- floating point: tokens and scores are whole units, and `int(chunk_size * 0.7)`
  is `(7 * ChunkSize) \div 10`;
- the LLM, the encoder and Chroma beyond what the code uses of them;
- the web pages, the offline evaluation and the marketing scripts.

Hash collisions, and file systems on which `mkdir`, `open(…, "a")` of one line or
`os.walk` of one directory are not single steps, are assumed away (but for the
line that a full disk cuts).

## Plan

What would add most to this, in this order:

1. Abstract specifications of what more parts promise, and theorems that the
   modules implement them: an append-only log that `AuditLog` without prunes
   implements; a set of created slugs that `FirmSetup` implements; one store per
   firm that only grows, which `Ingest` implements for its readers.
2. `Upload` composed with `Ingest`'s `source`, so that a file that is half copied
   is hashed and extracted; several files under one manifest key.
3. Lost updates between PATCH requests, and the script of the web page, which
   reads the picked firm again after its awaits.
