-------------------------------- MODULE Ingest --------------------------------
(***************************************************************************)
(* One firm's index on disk and the processes that rebuild it.             *)
(*                                                                         *)
(* firm_bot keeps four artefacts for a firm: the Chroma collection, the    *)
(* two BM25 pickles (bm25.pkl, meta.pkl) and indexed_files.json, the       *)
(* manifest of content hashes that lets the next ingest skip what it has   *)
(* already indexed.  Two kinds of process write them:                      *)
(*                                                                         *)
(*   - Workers run POST /v1/firms/{slug}/ingest (api/app.py, _do_ingest),  *)
(*     the incremental pipeline that reads and writes the manifest.  The   *)
(*     handler has no await once it holds its lock, so inside one worker   *)
(*     a run is never interleaved with another: a worker is a sequential   *)
(*     process here.  Different workers, or a worker and the file system,  *)
(*     interleave freely.                                                  *)
(*   - Reindexers run `firm-bot ingest` (cli.py, _ingest_source_dir) or    *)
(*     the watcher's _run (watcher.py): the same pipeline without the      *)
(*     manifest.                                                           *)
(*                                                                         *)
(* Meanwhile the operator edits, deletes and restores files of source/.    *)
(* `firm-bot demo init --reset` removes the directory of a firm, its       *)
(* collection included, while the other processes go on; it is left out.   *)
(*                                                                         *)
(* A file's content is a version number, and its SHA-256 is that number    *)
(* (hashes of different contents are taken to differ).  A chunk is a file, *)
(* an index and the version its text was extracted from; the first two     *)
(* are its chunk_id.                                                       *)
(***************************************************************************)
EXTENDS Integers

CONSTANTS
    NumFiles,      \* source/ has at most this many files, named in walk order
    Workers,       \* API worker processes
    Reindexers,    \* CLI and watcher processes
    MaxVersion,    \* bound: contents an operator gives one file
    MaxFaults,     \* bound: crashes and encode failures in a behaviour
    ChunkCount,    \* chunks that a content is split into (0: no text in it)
    Unreadable,    \* contents for which dispatch returns no document
    Raising,       \* contents for which dispatch raises (an encrypted PDF)
    Doubled,       \* contents of which two chunks have one id (an mbox that
                   \* holds a message twice)
    AllowRestore   \* whether the operator may put an old content back

Files == 1..NumFiles
Versions == 1..MaxVersion
Procs == Workers \cup Reindexers
Absent == 0                      \* no such file, or no manifest entry

ASSUME IngestAssumption ==
    /\ NumFiles \in Nat
    /\ MaxVersion \in Nat
    /\ MaxFaults \in Nat
    /\ ChunkCount \in [Versions -> Nat]
    /\ Unreadable \cup Raising \cup Doubled \subseteq Versions
    /\ Unreadable \cap Raising = {}
    /\ AllowRestore \in BOOLEAN
    /\ Workers \cap Reindexers = {}

VARIABLES
    source,    \* content of each file of source/
    latest,    \* newest content each file ever had
    chroma,    \* the chunks of the Chroma collection
    bm25,      \* bm25.pkl
    meta,      \* meta.pkl
    manifest,  \* indexed_files.json
    pc,        \* where each process is in its run
    run,       \* the local variables of each process's run
    faults     \* crashes and encode failures so far

vars == <<source, latest, chroma, bm25, meta, manifest, pc, run, faults>>
disk == <<chroma, bm25, meta, manifest>>

Stages == {"idle", "list", "hash", "extract", "embed", "upsert", "bm25",
           "bm25_open", "meta", "meta_open", "manifest", "manifest_open"}

(* The stages of a run whose chunks are in Chroma already.                 *)
Upserted == {"bm25", "bm25_open", "meta", "meta_open",
             "manifest", "manifest_open"}

-------------------------------------------------------------------------------
(* Chunks.                                                                 *)

Chunk == [file : Files, index : Nat, version : Versions]

ChunksOf(f, v) ==
    {[file |-> f, index |-> i, version |-> v] : i \in 0..ChunkCount[v] - 1}

Id(c) == <<c.file, c.index>>
Ids(chunks) == {Id(c) : c \in chunks}

(* Deviation: Collection.add, which ignores an id it holds already.        *)
UpsertAdds(db, batch) == db \cup {c \in batch : Id(c) \notin Ids(db)}

(* Collection.upsert: a chunk replaces the one with its id; ids that are   *)
(* not in the batch stay as they are.                                      *)
Upsert(db, batch) == {c \in db : Id(c) \notin Ids(batch)} \cup batch

-------------------------------------------------------------------------------
(* Files that open("w") truncates and then writes.  A file is torn from    *)
(* the truncation to the write, and for good if the writer dies between.   *)

NoHash == [f \in Files |-> Absent]
TornIndex == [torn |-> TRUE, chunks |-> {}]
TornManifest == [torn |-> TRUE, hash |-> NoHash]
Index(chunks) == [torn |-> FALSE, chunks |-> chunks]
Manifest(hash) == [torn |-> FALSE, hash |-> hash]

(* The writer finds the file as its own truncation left it, or another     *)
(* writer has put bytes there since: then the two overlap, and what is     *)
(* left is the last writer's text or nothing a reader can parse.           *)
Outcomes(file, written, torn) ==
    IF file.torn THEN {written} ELSE {written, torn}

-------------------------------------------------------------------------------
NoRun == [loaded |-> NoHash, fresh |-> NoHash, todo |-> {},
          hash |-> Absent, chunks |-> {}]

Init ==
    /\ source = [f \in Files |-> Absent]
    /\ latest = [f \in Files |-> Absent]
    /\ chroma = {}
    /\ bm25 = Index({})
    /\ meta = Index({})
    /\ manifest = Manifest(NoHash)
    /\ pc = [p \in Procs |-> "idle"]
    /\ run = [p \in Procs |-> NoRun]
    /\ faults = 0

Goto(p, stage) == pc' = [pc EXCEPT ![p] = stage]

(* The run is over: its locals go.                                         *)
Finish(p) ==
    /\ Goto(p, "idle")
    /\ run' = [run EXCEPT ![p] = NoRun]

(* The next file of sorted(files).                                         *)
Current(p, f) ==
    /\ f \in run[p].todo
    /\ \A g \in run[p].todo : f <= g

(* A worker hashes a file before it extracts it, a reindexer does not.     *)
PerFile(p) == IF p \in Workers THEN "hash" ELSE "extract"

-------------------------------------------------------------------------------
(* The operator's file system.                                             *)

(* A file is created, or saved with a content it never had.                *)
EditFile(f) ==
    /\ latest[f] < MaxVersion
    /\ latest' = [latest EXCEPT ![f] = @ + 1]
    /\ source' = [source EXCEPT ![f] = latest[f] + 1]

DeleteFile(f) ==
    /\ source[f] # Absent
    /\ source' = [source EXCEPT ![f] = Absent]
    /\ UNCHANGED latest

(* An old content comes back: an undo, a copy from a backup.               *)
RestoreFile(f) ==
    /\ AllowRestore
    /\ \E v \in 1..latest[f] :
          /\ v # source[f]
          /\ source' = [source EXCEPT ![f] = v]
    /\ UNCHANGED latest

Operator(f) ==
    /\ EditFile(f) \/ DeleteFile(f) \/ RestoreFile(f)
    /\ UNCHANGED <<disk, pc, run, faults>>

-------------------------------------------------------------------------------
(* A run, step by step.                                                    *)

(* Without force a run starts from the manifest; a torn one reads as {}.   *)
Loaded(force) == IF force THEN NoHash ELSE manifest.hash

StartIngest(p, force) ==
    /\ p \in Workers
    /\ run' = [run EXCEPT ![p].loaded = Loaded(force),
                          ![p].fresh = Loaded(force)]

StartReindex(p) ==
    /\ p \in Reindexers
    /\ UNCHANGED run

Start(p) ==
    /\ pc[p] = "idle"
    /\ StartReindex(p) \/ \E force \in BOOLEAN : StartIngest(p, force)
    /\ Goto(p, "list")
    /\ UNCHANGED <<source, latest, disk, faults>>

(* os.walk reads the directory once, before the first file is opened.      *)
ListSource(p) ==
    /\ pc[p] = "list"
    /\ run' = [run EXCEPT ![p].todo = {f \in Files : source[f] # Absent}]
    /\ Goto(p, PerFile(p))
    /\ UNCHANGED <<source, latest, disk, faults>>

(* The hash is the manifest's: the file is skipped.                        *)
SkipFile(p, f) ==
    /\ pc[p] = "hash"
    /\ Current(p, f)
    /\ source[f] # Absent
    /\ source[f] = run[p].loaded[f]
    /\ run' = [run EXCEPT ![p].todo = @ \ {f},
                          ![p].fresh[f] = source[f]]
    /\ UNCHANGED <<source, latest, disk, pc, faults>>

HashFile(p, f) ==
    /\ pc[p] = "hash"
    /\ Current(p, f)
    /\ source[f] # Absent
    /\ source[f] # run[p].loaded[f]
    /\ run' = [run EXCEPT ![p].hash = source[f]]
    /\ Goto(p, "extract")
    /\ UNCHANGED <<source, latest, disk, faults>>

(* The file is gone since it was listed: hash_file raises, the run ends.   *)
HashMissing(p, f) ==
    /\ pc[p] = "hash"
    /\ Current(p, f)
    /\ source[f] = Absent
    /\ Finish(p)
    /\ UNCHANGED <<source, latest, disk, faults>>

(* dispatch opens the file again: its content may be newer than the hash.  *)
Extract(p, f) ==
    /\ pc[p] = "extract"
    /\ Current(p, f)
    /\ source[f] \notin Unreadable \cup Raising \cup {Absent}
    /\ run' = [run EXCEPT ![p].todo = @ \ {f},
                          ![p].hash = Absent,
                          ![p].fresh[f] = run[p].hash,
                          ![p].chunks = @ \cup ChunksOf(f, source[f])]
    /\ Goto(p, PerFile(p))
    /\ UNCHANGED <<source, latest, disk, faults>>

(* No documents: files_failed is counted, the file's old entry stays.      *)
ExtractNothing(p, f) ==
    /\ pc[p] = "extract"
    /\ Current(p, f)
    /\ source[f] \in Unreadable \cup {Absent}
    /\ run' = [run EXCEPT ![p].todo = @ \ {f}, ![p].hash = Absent]
    /\ Goto(p, PerFile(p))
    /\ UNCHANGED <<source, latest, disk, faults>>

(* dispatch is in no try: the run is over, the answer is a 500, and what   *)
(* was extracted of the other files goes with it.                          *)
ExtractRaises(p, f) ==
    /\ pc[p] = "extract"
    /\ Current(p, f)
    /\ source[f] \in Raising
    /\ Finish(p)
    /\ UNCHANGED <<source, latest, disk, faults>>

(* The walk found nothing to index: a worker still saves the manifest.     *)
NothingToIndex(p) ==
    /\ pc[p] = PerFile(p)
    /\ run[p].todo = {}
    /\ run[p].chunks = {}
    /\ IF p \in Workers
       THEN Goto(p, "manifest") /\ UNCHANGED run
       ELSE Finish(p)
    /\ UNCHANGED <<source, latest, disk, faults>>

(* Deviation: the keyword index is written before the chunks are embedded. *)
WalkDoneIndexes(p) ==
    /\ pc[p] = PerFile(p)
    /\ run[p].todo = {}
    /\ run[p].chunks # {}
    /\ bm25' = Index(run[p].chunks)
    /\ Goto(p, "embed")
    /\ UNCHANGED <<source, latest, chroma, meta, manifest, run, faults>>

WalkDone(p) ==
    /\ pc[p] = PerFile(p)
    /\ run[p].todo = {}
    /\ run[p].chunks # {}
    /\ Goto(p, "embed")
    /\ UNCHANGED <<source, latest, disk, run, faults>>

Embed(p) ==
    /\ pc[p] = "embed"
    /\ Goto(p, "upsert")
    /\ UNCHANGED <<source, latest, disk, run, faults>>

(* Deviations: the handler is left with its error, so that the firm's lock *)
(* is never released; the manifest is saved although the encoder raised.   *)
EmbedFailsStuck(p) ==
    /\ pc[p] = "embed"
    /\ faults < MaxFaults
    /\ faults' = faults + 1
    /\ Goto(p, "failed")
    /\ UNCHANGED <<source, latest, disk, run>>

EmbedFailsSaves(p) ==
    /\ pc[p] = "embed"
    /\ faults < MaxFaults
    /\ faults' = faults + 1
    /\ Goto(p, "manifest")
    /\ UNCHANGED <<source, latest, disk, run>>

(* The encoder raises: 503, and nothing of this run is kept.               *)
EmbedFails(p) ==
    /\ pc[p] = "embed"
    /\ faults < MaxFaults
    /\ faults' = faults + 1
    /\ Finish(p)
    /\ UNCHANGED <<source, latest, disk>>

HasTwins(p) == \E c \in run[p].chunks : c.version \in Doubled

UpsertChunks(p) ==
    /\ pc[p] = "upsert"
    /\ ~HasTwins(p)
    /\ chroma' = Upsert(chroma, run[p].chunks)
    /\ Goto(p, "bm25")
    /\ UNCHANGED <<source, latest, bm25, meta, manifest, run, faults>>

(* Chroma refuses a batch that has an id twice, all of it, and the run is  *)
(* over.                                                                   *)
UpsertRaises(p) ==
    /\ pc[p] = "upsert"
    /\ HasTwins(p)
    /\ Finish(p)
    /\ UNCHANGED <<source, latest, disk, faults>>

OpenBm25(p) ==
    /\ pc[p] = "bm25"
    /\ bm25' = TornIndex
    /\ Goto(p, "bm25_open")
    /\ UNCHANGED <<source, latest, chroma, meta, manifest, run, faults>>

(* The corpus is this run's chunks and nothing else.                       *)
WriteBm25(p) ==
    /\ pc[p] = "bm25_open"
    /\ bm25' \in Outcomes(bm25, Index(run[p].chunks), TornIndex)
    /\ Goto(p, "meta")
    /\ UNCHANGED <<source, latest, chroma, meta, manifest, run, faults>>

OpenMeta(p) ==
    /\ pc[p] = "meta"
    /\ meta' = TornIndex
    /\ Goto(p, "meta_open")
    /\ UNCHANGED <<source, latest, chroma, bm25, manifest, run, faults>>

WriteMeta(p) ==
    /\ pc[p] = "meta_open"
    /\ meta' \in Outcomes(meta, Index(run[p].chunks), TornIndex)
    /\ IF p \in Workers
       THEN Goto(p, "manifest") /\ UNCHANGED run
       ELSE Finish(p)
    /\ UNCHANGED <<source, latest, chroma, bm25, manifest, faults>>

OpenManifest(p) ==
    /\ pc[p] = "manifest"
    /\ manifest' = TornManifest
    /\ Goto(p, "manifest_open")
    /\ UNCHANGED <<source, latest, chroma, bm25, meta, run, faults>>

WriteManifest(p) ==
    /\ pc[p] = "manifest_open"
    /\ manifest' \in Outcomes(manifest, Manifest(run[p].fresh), TornManifest)
    /\ Finish(p)
    /\ UNCHANGED <<source, latest, chroma, bm25, meta, faults>>

(* The process dies; the disk keeps what it had written.                   *)
Crash(p) ==
    /\ pc[p] # "idle"
    /\ faults < MaxFaults
    /\ faults' = faults + 1
    /\ Finish(p)
    /\ UNCHANGED <<source, latest, disk>>

-------------------------------------------------------------------------------
PerFileStep(p, f) ==
    \/ SkipFile(p, f) \/ HashFile(p, f) \/ HashMissing(p, f)
    \/ Extract(p, f) \/ ExtractNothing(p, f) \/ ExtractRaises(p, f)

IndexStep(p) ==
    \/ UpsertChunks(p)
    \/ OpenBm25(p) \/ WriteBm25(p)
    \/ OpenMeta(p) \/ WriteMeta(p)
    \/ OpenManifest(p) \/ WriteManifest(p)

(* What a process does of its own once its run has started.                *)
Advance(p) ==
    \/ ListSource(p)
    \/ \E f \in Files : PerFileStep(p, f)
    \/ NothingToIndex(p) \/ WalkDone(p) \/ Embed(p) \/ UpsertRaises(p)
    \/ IndexStep(p)

Fault(p) == EmbedFails(p) \/ Crash(p)

Next ==
    \/ \E f \in Files : Operator(f)
    \/ \E p \in Procs : Start(p) \/ Advance(p) \/ Fault(p)

Spec == Init /\ [][Next]_vars

(* A run that has started is executed, and ingest keeps being requested:   *)
(* the operator runs it after dropping files, as the documentation asks.   *)
Fairness == \A p \in Procs : WF_vars(Advance(p)) /\ WF_vars(Start(p))

FairSpec == Spec /\ Fairness
-------------------------------------------------------------------------------
(* Properties.                                                             *)

(* Every variable keeps its shape.                                         *)
TypeOK ==
    /\ source \in [Files -> Versions \cup {Absent}]
    /\ latest \in [Files -> Versions \cup {Absent}]
    /\ chroma \subseteq Chunk
    /\ bm25 \in [torn : BOOLEAN, chunks : SUBSET Chunk]
    /\ meta \in [torn : BOOLEAN, chunks : SUBSET Chunk]
    /\ manifest \in [torn : BOOLEAN, hash : [Files -> Versions \cup {Absent}]]
    /\ pc \in [Procs -> Stages]
    /\ run \in [Procs -> [loaded : [Files -> Versions \cup {Absent}],
                          fresh : [Files -> Versions \cup {Absent}],
                          todo : SUBSET Files,
                          hash : Versions \cup {Absent},
                          chunks : SUBSET Chunk]]
    /\ faults \in 0..MaxFaults

(* A keyword hit is looked up in Chroma by its id (hybrid_search, the      *)
(* chroma.get of the fused ids): an id in either pickle is in Chroma, so   *)
(* no hit comes back with an empty text.  upsert_chunks runs before        *)
(* save_bm25 and no process here deletes from Chroma, so this holds with   *)
(* any number of processes and across crashes.                             *)
BM25Grounded == Ids(bm25.chunks) \cup Ids(meta.chunks) \subseteq Ids(chroma)

(* When the manifest says that a file's present content is indexed, so     *)
(* that the next ingest will skip it, Chroma holds all of its chunks: no   *)
(* crash, encode failure or edit during a run makes _do_ingest skip a file *)
(* whose chunks are missing.                                               *)
ManifestTruthful ==
    \A f \in Files :
        source[f] # Absent /\ manifest.hash[f] = source[f]
            => ChunksOf(f, source[f]) \subseteq chroma

(* No file makes every run end in the middle (README).                     *)
NoPoison == \A f \in Files : source[f] \notin Raising \cup Doubled

(* Once the operator leaves a readable file alone, has taken away what     *)
(* dispatch or the upsert raises on, and ingest keeps being requested, the *)
(* file's chunks get to Chroma and stay: a failed run, a crash, a          *)
(* half-written manifest or a poison file of earlier does not lose it.     *)
EventuallyIndexed ==
    \A f \in Files, v \in Versions \ Unreadable :
        <>[](source[f] = v /\ NoPoison) => <>[](ChunksOf(f, v) \subseteq chroma)

(* WHITEPAPER.md says deleted documents are garbage-collected from the     *)
(* index on the next run: a file that stays deleted, while ingest keeps    *)
(* running, has no chunk left in Chroma in the end.  It does not hold:     *)
(* nothing deletes from Chroma (README).                                   *)
DeletedCollected ==
    \A f \in Files :
        <>[](source[f] = Absent) => <>[](\A c \in chroma : c.file # f)

(* save_bm25 says it rebuilds the index over the current chunk set, and    *)
(* docs/operations.md shows chroma_chunks equal to bm25_chunks: when no    *)
(* run is in progress, the BM25 corpus holds every chunk Chroma holds.  It *)
(* does not hold: save_bm25 gets the chunks of the changed files (README). *)
BM25Complete ==
    (\A p \in Procs : pc[p] = "idle") => Ids(chroma) \subseteq Ids(bm25.chunks)
===============================================================================
