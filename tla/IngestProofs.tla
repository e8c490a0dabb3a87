----------------------------- MODULE IngestProofs -----------------------------
(***************************************************************************)
(* Theorems about Ingest.  Type correctness and BM25Grounded hold for any  *)
(* number of files, processes, versions and faults.  ManifestTruthful      *)
(* holds when one process ingests the firm and no old content comes back   *)
(* (SingleIndexer).  Neither half of that hypothesis can go: of two        *)
(* workers the slower one may upsert an old content last, and a file that  *)
(* is put back between hash_file and dispatch is named by a hash whose     *)
(* content was never extracted.                                            *)
(*                                                                         *)
(* And about Watcher: a firm with a watcher is a firm of module Ingest, so *)
(* what is shown of all behaviours of Ingest holds with the watcher too.   *)
(***************************************************************************)
EXTENDS Watcher, TLAPS

(* BM25Grounded strengthened: what a run is about to write to the pickles  *)
(* is in Chroma.                                                           *)
GroundedInv ==
    /\ BM25Grounded
    /\ \A p \in Procs :
          pc[p] \in Upserted => Ids(run[p].chunks) \subseteq Ids(chroma)

(* One process ingests, and every content of a file is a new one.          *)
SingleIndexer ==
    /\ Reindexers = {}
    /\ \A p, q \in Workers : p = q
    /\ ~AllowRestore

(* The chunks of f's newest content.                                       *)
Newest(f) == ChunksOf(f, latest[f])

(* A table of hashes never runs ahead of the contents.                     *)
NotAhead(table) == \A f \in Files : table[f] <= latest[f]

(* The run p holds no chunk of f but those of f's newest content.          *)
OnlyNewest(p, f) ==
    \A c \in run[p].chunks : c.file = f => c.version = latest[f]

(* A table that p will act on: where it names the newest content, that     *)
(* content's chunks are in Chroma or in the batch p will upsert, and the   *)
(* batch will not put older ones over them.                                *)
Backed(p, table) ==
    \A f \in Files :
        latest[f] # Absent /\ table[f] = latest[f]
            => Newest(f) \subseteq chroma \cup run[p].chunks /\ OnlyNewest(p, f)

RunInv(p) ==
    /\ NotAhead(run[p].loaded) /\ Backed(p, run[p].loaded)
    /\ NotAhead(run[p].fresh) /\ Backed(p, run[p].fresh)
    /\ \A f \in Files : manifest.hash[f] = latest[f] => latest[f] = Absent \/ OnlyNewest(p, f)
    /\ \A f \in run[p].todo : \A c \in run[p].chunks : c.file # f
    /\ \A f \in Files : pc[p] = "extract" /\ Current(p, f) => run[p].hash <= latest[f]
    /\ pc[p] \in {"idle", "list"} => run[p].chunks = {} /\ run[p].todo = {}
    /\ pc[p] \in Upserted => run[p].chunks \subseteq chroma

(* The inductive strengthening of ManifestTruthful.                        *)
ManifestInv ==
    /\ \A f \in Files : source[f] \in {Absent, latest[f]}
    /\ NotAhead(manifest.hash)
    /\ \A f \in Files :
          latest[f] # Absent /\ manifest.hash[f] = latest[f] => Newest(f) \subseteq chroma
    /\ \A p \in Procs : RunInv(p)
-------------------------------------------------------------------------------
(* Type correctness.                                                       *)

Hash == [Files -> Versions \cup {Absent}]
Run == [loaded : Hash, fresh : Hash, todo : SUBSET Files,
        hash : Versions \cup {Absent}, chunks : SUBSET Chunk]

LEMMA ChunksOfType ==
    ASSUME NEW f \in Files, NEW v \in Versions
    PROVE  ChunksOf(f, v) \subseteq Chunk
  BY IngestAssumption DEF ChunksOf, Chunk

LEMMA UpsertType ==
    ASSUME NEW db \in SUBSET Chunk, NEW batch \in SUBSET Chunk
    PROVE  Upsert(db, batch) \subseteq Chunk
  BY DEF Upsert

LEMMA NoRunType == NoRun \in Run
  BY DEF NoRun, NoHash, Run, Hash, Absent

(* Ending a run or moving to a stage keeps the process variables typed.    *)
LEMMA FinishType ==
    ASSUME TypeOK, NEW p \in Procs, Finish(p)
    PROVE  pc' \in [Procs -> Stages] /\ run' \in [Procs -> Run]
  BY NoRunType DEF TypeOK, Finish, Goto, Stages, Run, Hash

LEMMA GotoType ==
    ASSUME TypeOK, NEW p \in Procs, NEW stage \in Stages, Goto(p, stage)
    PROVE  pc' \in [Procs -> Stages]
  BY DEF TypeOK, Goto

LEMMA TypeStep == TypeOK /\ [Next]_vars => TypeOK'
<1> SUFFICES ASSUME TypeOK, [Next]_vars PROVE TypeOK'
  OBVIOUS
<1> USE IngestAssumption
<1>1. run \in [Procs -> Run] /\ pc \in [Procs -> Stages]
  BY DEF TypeOK, Run, Hash
<1>2. ASSUME NEW f \in Files, Operator(f) PROVE TypeOK'
  <2>1. CASE EditFile(f)
    <3>1. latest[f] + 1 \in Versions
      BY <2>1 DEF EditFile, TypeOK, Versions, Absent
    <3>2. QED
      BY <1>2, <2>1, <3>1 DEF TypeOK, Operator, EditFile, disk
  <2>2. CASE DeleteFile(f)
    BY <1>2, <2>2 DEF TypeOK, Operator, DeleteFile, disk
  <2>3. CASE RestoreFile(f)
    <3>1. PICK v \in 1..latest[f] : source' = [source EXCEPT ![f] = v]
      BY <2>3 DEF RestoreFile
    <3>2. latest[f] \in 0..MaxVersion
      BY DEF TypeOK, Versions, Absent
    <3>3. v \in Versions
      BY <3>1, <3>2 DEF Versions
    <3>4. QED
      BY <1>2, <2>3, <3>1, <3>3 DEF TypeOK, Operator, RestoreFile, disk
  <2>4. QED
    BY <1>2, <2>1, <2>2, <2>3 DEF Operator
<1>3. ASSUME NEW p \in Procs, Start(p) PROVE TypeOK'
  <2>1. \A force \in BOOLEAN : Loaded(force) \in Hash
    BY DEF Loaded, NoHash, Hash, TypeOK, Absent
  <2>2. run' \in [Procs -> Run]
    BY <1>1, <1>3, <2>1 DEF Start, StartReindex, StartIngest, Run
  <2>3. pc' \in [Procs -> Stages]
    BY <1>3, GotoType DEF Start, Stages
  <2>4. QED
    BY <1>3, <2>2, <2>3 DEF TypeOK, Start, disk, Run, Hash
<1>4. ASSUME NEW p \in Procs, ListSource(p) PROVE TypeOK'
  <2>1. run' \in [Procs -> Run]
    BY <1>1, <1>4 DEF ListSource, Run
  <2>2. pc' \in [Procs -> Stages]
    BY <1>4, GotoType DEF ListSource, PerFile, Stages
  <2>3. QED
    BY <1>4, <2>1, <2>2 DEF TypeOK, ListSource, disk, Run, Hash
<1>5. ASSUME NEW p \in Procs, NEW f \in Files, PerFileStep(p, f) PROVE TypeOK'
  <2>1. CASE SkipFile(p, f)
    <3>0. [run[p].fresh EXCEPT ![f] = source[f]] \in Hash
      BY <1>1 DEF TypeOK, Run, Hash
    <3>1. run' \in [Procs -> Run]
      BY <1>1, <2>1, <3>0 DEF SkipFile, Run
    <3>2. QED
      BY <2>1, <3>1 DEF TypeOK, SkipFile, disk, Run, Hash
  <2>2. CASE HashFile(p, f)
    <3>0. source[f] \in Versions \cup {Absent}
      BY DEF TypeOK
    <3>1. run' \in [Procs -> Run]
      BY <1>1, <2>2, <3>0 DEF HashFile, Run
    <3>2. pc' \in [Procs -> Stages]
      BY <2>2, GotoType DEF HashFile, Stages
    <3>3. QED
      BY <2>2, <3>1, <3>2 DEF TypeOK, HashFile, disk, Run, Hash
  <2>3. CASE HashMissing(p, f)
    BY <2>3, FinishType DEF TypeOK, HashMissing, disk, Run, Hash
  <2>4. CASE Extract(p, f)
    <3>1. source[f] \in Versions
      BY <2>4 DEF Extract, TypeOK
    <3>2. run[p].chunks \cup ChunksOf(f, source[f]) \subseteq Chunk
      BY <1>1, <3>1, ChunksOfType DEF Run
    <3>0. [run[p].fresh EXCEPT ![f] = run[p].hash] \in Hash
      BY <1>1 DEF Run, Hash
    <3>3. run' \in [Procs -> Run]
      <4>1. run' = [run EXCEPT ![p] =
                      [run[p] EXCEPT !.todo = @ \ {f},
                                     !.hash = Absent,
                                     !.fresh = [@ EXCEPT ![f] = run[p].hash],
                                     !.chunks = @ \cup ChunksOf(f, source[f])]]
        BY <2>4 DEF Extract
      <4>2. QED
        BY <1>1, <3>0, <3>2, <4>1 DEF Run
    <3>4. pc' \in [Procs -> Stages]
      BY <2>4, GotoType DEF Extract, PerFile, Stages
    <3>5. QED
      BY <2>4, <3>3, <3>4 DEF TypeOK, Extract, disk, Run, Hash
  <2>5. CASE ExtractNothing(p, f)
    <3>1. run' \in [Procs -> Run]
      BY <1>1, <2>5 DEF ExtractNothing, Run
    <3>2. pc' \in [Procs -> Stages]
      BY <2>5, GotoType DEF ExtractNothing, PerFile, Stages
    <3>3. QED
      BY <2>5, <3>1, <3>2 DEF TypeOK, ExtractNothing, disk, Run, Hash
  <2>6. CASE ExtractRaises(p, f)
    BY <2>6, FinishType DEF TypeOK, ExtractRaises, disk, Run, Hash
  <2>7. QED
    BY <1>5, <2>1, <2>2, <2>3, <2>4, <2>5, <2>6 DEF PerFileStep
<1>6. ASSUME NEW p \in Procs,
             NothingToIndex(p) \/ WalkDone(p) \/ Embed(p) \/ UpsertRaises(p)
      PROVE  TypeOK'
  <2>1. pc' \in [Procs -> Stages] /\ run' \in [Procs -> Run]
    BY <1>1, <1>6, FinishType, GotoType
       DEF NothingToIndex, WalkDone, Embed, UpsertRaises, Stages
  <2>2. QED
    BY <1>6, <2>1
       DEF TypeOK, NothingToIndex, WalkDone, Embed, UpsertRaises, disk, Run, Hash
<1>7. ASSUME NEW p \in Procs, IndexStep(p) PROVE TypeOK'
  <2> DEFINE IndexFile == [torn : BOOLEAN, chunks : SUBSET Chunk]
  <2> DEFINE ManifestFile == [torn : BOOLEAN, hash : Hash]
  <2>0. /\ run[p].chunks \subseteq Chunk
        /\ Index(run[p].chunks) \in IndexFile /\ TornIndex \in IndexFile
        /\ Manifest(run[p].fresh) \in ManifestFile /\ TornManifest \in ManifestFile
    BY <1>1 DEF Run, Hash, Index, TornIndex, Manifest, TornManifest, NoHash, Absent
  <2>1. CASE UpsertChunks(p)
    <3>1. chroma' \subseteq Chunk
      BY <2>0, <2>1, UpsertType DEF UpsertChunks, TypeOK
    <3>2. QED
      BY <2>1, <3>1, GotoType DEF TypeOK, UpsertChunks, Stages
  <2>2. CASE OpenBm25(p)
    BY <2>0, <2>2, GotoType DEF TypeOK, OpenBm25, Stages
  <2>3. CASE WriteBm25(p)
    <3>1. bm25' \in IndexFile
      BY <2>0, <2>3 DEF WriteBm25, Outcomes
    <3>2. QED
      BY <2>3, <3>1, GotoType DEF TypeOK, WriteBm25, Stages
  <2>4. CASE OpenMeta(p)
    BY <2>0, <2>4, GotoType DEF TypeOK, OpenMeta, Stages
  <2>5. CASE WriteMeta(p)
    <3>1. meta' \in IndexFile
      BY <2>0, <2>5 DEF WriteMeta, Outcomes
    <3>2. pc' \in [Procs -> Stages] /\ run' \in [Procs -> Run]
      BY <1>1, <2>5, FinishType, GotoType DEF WriteMeta, Stages
    <3>3. QED
      BY <2>5, <3>1, <3>2 DEF TypeOK, WriteMeta, Run, Hash
  <2>6. CASE OpenManifest(p)
    BY <2>0, <2>6, GotoType DEF TypeOK, OpenManifest, Stages, Hash
  <2>7. CASE WriteManifest(p)
    <3>1. manifest' \in ManifestFile
      BY <2>0, <2>7 DEF WriteManifest, Outcomes
    <3>2. QED
      BY <2>7, <3>1, FinishType DEF TypeOK, WriteManifest, Run, Hash
  <2>8. QED
    BY <1>7, <2>1, <2>2, <2>3, <2>4, <2>5, <2>6, <2>7 DEF IndexStep
<1>8. ASSUME NEW p \in Procs, Fault(p) PROVE TypeOK'
  <2>1. faults' \in 0..MaxFaults
    BY <1>8 DEF TypeOK, Fault, EmbedFails, Crash
  <2>2. QED
    BY <1>8, <2>1, FinishType
       DEF TypeOK, Fault, EmbedFails, Crash, disk, Run, Hash
<1>9. CASE UNCHANGED vars
  BY <1>9 DEF TypeOK, vars
<1>10. QED
  BY <1>2, <1>3, <1>4, <1>5, <1>6, <1>7, <1>8, <1>9
     DEF Next, Advance

(* Every reachable state is well typed.                                    *)
THEOREM TypeCorrect == Spec => []TypeOK
<1>1. Init => TypeOK
  <2> SUFFICES ASSUME Init PROVE TypeOK
    OBVIOUS
  <2>1. NoHash \in Hash
    BY DEF NoHash, Hash, Absent
  <2>2. run \in [Procs -> Run] /\ pc \in [Procs -> Stages]
    BY NoRunType DEF Init, Stages
  <2>3. QED
    BY <2>1, <2>2, IngestAssumption
       DEF Init, TypeOK, Index, Manifest, Run, Hash, Absent
<1>2. QED
  BY <1>1, TypeStep, PTL DEF Spec
-------------------------------------------------------------------------------
(* BM25Grounded.                                                           *)

LEMMA UpsertIds ==
    ASSUME NEW db, NEW batch
    PROVE  Ids(Upsert(db, batch)) = Ids(db) \cup Ids(batch)
  BY DEF Upsert, Ids

(* Before a run reaches its index files, it disturbs nothing here: only    *)
(* an empty batch may enter the stages after the upsert.                   *)
LEMMA GroundedQuiet ==
    ASSUME TypeOK, GroundedInv, NEW p \in Procs,
           UNCHANGED <<chroma, bm25, meta>>,
           \A q \in Procs \ {p} : pc'[q] = pc[q] /\ run'[q] = run[q],
           pc'[p] \in Upserted => run'[p].chunks = {}
    PROVE  GroundedInv'
<1>1. BM25Grounded'
  BY DEF GroundedInv, BM25Grounded, Ids
<1>2. ASSUME NEW q \in Procs, pc'[q] \in Upserted
      PROVE  Ids(run'[q].chunks) \subseteq Ids(chroma')
  BY <1>2 DEF GroundedInv, Ids
<1>3. QED
  BY <1>1, <1>2 DEF GroundedInv

LEMMA GroundedStep == TypeOK /\ GroundedInv /\ [Next]_vars => GroundedInv'
<1> SUFFICES ASSUME TypeOK, GroundedInv, [Next]_vars PROVE GroundedInv'
  OBVIOUS
<1>1. run \in [Procs -> Run] /\ pc \in [Procs -> Stages]
  BY DEF TypeOK, Run, Hash
<1>2. ASSUME NEW f \in Files, Operator(f) PROVE GroundedInv'
  BY <1>2 DEF Operator, EditFile, DeleteFile, RestoreFile, disk,
              GroundedInv, BM25Grounded
<1>3. ASSUME NEW p \in Procs, Start(p) PROVE GroundedInv'
  <2>1. pc'[p] \notin Upserted
    BY <1>1, <1>3 DEF Start, StartIngest, StartReindex, Goto, Upserted
  <2>2. /\ UNCHANGED <<chroma, bm25, meta>>
        /\ \A q \in Procs \ {p} : pc'[q] = pc[q] /\ run'[q] = run[q]
    BY <1>1, <1>3 DEF Start, StartIngest, StartReindex, Goto, disk
  <2>3. QED
    BY <2>1, <2>2, GroundedQuiet
<1>4. ASSUME NEW p \in Procs, Fault(p) PROVE GroundedInv'
  <2>1. /\ UNCHANGED <<chroma, bm25, meta>>
        /\ \A q \in Procs \ {p} : pc'[q] = pc[q] /\ run'[q] = run[q]
        /\ pc'[p] \notin Upserted
    BY <1>1, <1>4 DEF Fault, EmbedFails, Crash, Finish, Goto, disk, Upserted
  <2>2. QED
    BY <2>1, GroundedQuiet
<1>5. ASSUME NEW p \in Procs, NEW f \in Files, PerFileStep(p, f)
      PROVE  GroundedInv'
  <2>1. /\ UNCHANGED <<chroma, bm25, meta>>
        /\ \A q \in Procs \ {p} : pc'[q] = pc[q] /\ run'[q] = run[q]
        /\ pc'[p] \notin Upserted
    BY <1>1, <1>5 DEF PerFileStep, SkipFile, HashFile, HashMissing, Extract,
       ExtractNothing, ExtractRaises, PerFile, Finish, Goto, disk, Upserted
  <2>2. QED
    BY <2>1, GroundedQuiet
<1>6. ASSUME NEW p \in Procs,
             \/ ListSource(p) \/ NothingToIndex(p) \/ WalkDone(p) \/ Embed(p)
             \/ UpsertRaises(p)
      PROVE  GroundedInv'
  <2>1. /\ UNCHANGED <<chroma, bm25, meta>>
        /\ \A q \in Procs \ {p} : pc'[q] = pc[q] /\ run'[q] = run[q]
        /\ pc'[p] \in Upserted => run'[p].chunks = {}
    BY <1>1, <1>6 DEF ListSource, NothingToIndex, WalkDone, Embed, UpsertRaises,
       PerFile, Finish, Goto, disk, Upserted
  <2>2. QED
    BY <2>1, GroundedQuiet
<1>7. ASSUME NEW p \in Procs, UpsertChunks(p) PROVE GroundedInv'
  <2>1. Ids(chroma') = Ids(chroma) \cup Ids(run[p].chunks)
    BY <1>7, UpsertIds DEF UpsertChunks
  <2>2. BM25Grounded'
    BY <1>7, <2>1 DEF UpsertChunks, GroundedInv, BM25Grounded
  <2>3. ASSUME NEW q \in Procs, pc'[q] \in Upserted
        PROVE  Ids(run'[q].chunks) \subseteq Ids(chroma')
    BY <1>1, <1>7, <2>1, <2>3 DEF UpsertChunks, Goto, GroundedInv
  <2>4. QED
    BY <2>2, <2>3 DEF GroundedInv
<1>8. ASSUME NEW p \in Procs, IndexStep(p), ~UpsertChunks(p)
      PROVE  GroundedInv'
  <2>1. pc[p] \in Upserted /\ chroma' = chroma
    BY <1>8 DEF IndexStep, OpenBm25, WriteBm25, OpenMeta, WriteMeta,
       OpenManifest, WriteManifest, Upserted
  <2>2. Ids(run[p].chunks) \subseteq Ids(chroma)
    BY <2>1 DEF GroundedInv
  <2>3. /\ bm25'.chunks \in {bm25.chunks, run[p].chunks, {}}
        /\ meta'.chunks \in {meta.chunks, run[p].chunks, {}}
    BY <1>8 DEF IndexStep, OpenBm25, WriteBm25, OpenMeta, WriteMeta,
       OpenManifest, WriteManifest, Outcomes, Index, TornIndex
  <2>4. Ids({}) = {}
    BY DEF Ids
  <2>5. BM25Grounded'
    BY <2>1, <2>2, <2>3, <2>4 DEF GroundedInv, BM25Grounded
  <2>6. ASSUME NEW q \in Procs, pc'[q] \in Upserted
        PROVE  run'[q] = run[q] /\ pc[q] \in Upserted
    BY <1>1, <1>8, <2>1, <2>6 DEF IndexStep, OpenBm25, WriteBm25, OpenMeta,
       WriteMeta, OpenManifest, WriteManifest, Finish, Goto, Upserted
  <2>7. QED
    BY <2>1, <2>5, <2>6 DEF GroundedInv
<1>9. CASE UNCHANGED vars
  BY <1>9 DEF vars, GroundedInv, BM25Grounded
<1>10. QED
  BY <1>2, <1>3, <1>4, <1>5, <1>6, <1>7, <1>8, <1>9 DEF Next, Advance, IndexStep

(* Whatever the processes do and wherever they die, a keyword hit names a  *)
(* chunk that Chroma holds.                                                *)
THEOREM Grounded == Spec => []BM25Grounded
<1>1. Init => GroundedInv
  BY DEF Init, GroundedInv, BM25Grounded, Index, Ids, Upserted
<1>2. GroundedInv => BM25Grounded
  BY DEF GroundedInv
<1>3. QED
  BY <1>1, <1>2, GroundedStep, TypeCorrect, PTL DEF Spec
-------------------------------------------------------------------------------
(* ManifestTruthful, for a single indexer.                                 *)

LEMMA ChunksOfFile ==
    ASSUME NEW f, NEW v, NEW c \in ChunksOf(f, v)
    PROVE  c.file = f /\ c.version = v
  BY DEF ChunksOf

(* Upserting a batch that holds no older chunk of f loses none of the      *)
(* chunks of f's content v, and adds those of the batch.                   *)
LEMMA UpsertKeeps ==
    ASSUME NEW db \in SUBSET Chunk, NEW batch \in SUBSET Chunk,
           NEW f \in Files, NEW v \in Versions,
           \A c \in batch : c.file = f => c.version = v,
           ChunksOf(f, v) \subseteq db \cup batch
    PROVE  ChunksOf(f, v) \subseteq Upsert(db, batch)
<1> SUFFICES ASSUME NEW c \in ChunksOf(f, v), c \notin batch
             PROVE  c \in db /\ Id(c) \notin Ids(batch)
  BY DEF Upsert
<1>1. c \in db /\ c \in Chunk /\ c.file = f /\ c.version = v
  BY ChunksOfFile
<1>2. ASSUME NEW d \in batch, Id(d) = Id(c) PROVE FALSE
  <2>1. d \in Chunk /\ d.file = c.file /\ d.index = c.index
    BY <1>2 DEF Id
  <2>2. d.version = c.version
    BY <1>1, <2>1
  <2>3. d = c
    BY <1>1, <2>1, <2>2 DEF Chunk
  <2>4. QED
    BY <2>3
<1>3. QED
  BY <1>1, <1>2 DEF Ids

(* A step of the one indexer p that leaves what p reads alone.             *)
LEMMA RunOnly ==
    ASSUME SingleIndexer, ManifestInv, NEW p \in Procs,
           UNCHANGED <<source, latest, chroma, manifest>>, RunInv(p)'
    PROVE  ManifestInv'
<1>1. \A q \in Procs : q = p
  BY DEF SingleIndexer, Procs
<1>2. QED
  BY <1>1 DEF ManifestInv, NotAhead, Newest

(* A run that ends holds nothing.                                          *)
LEMMA RunOver ==
    ASSUME TypeOK, NEW p \in Procs, Finish(p), latest' = latest
    PROVE  RunInv(p)'
<1>1. run'[p] = NoRun /\ pc'[p] = "idle"
  BY DEF Finish, Goto, TypeOK
<1>2. \A f \in Files : NoHash[f] = Absent /\ latest[f] \in Nat
  BY DEF NoHash, TypeOK, Versions, Absent
<1>3. QED
  BY <1>1, <1>2 DEF RunInv, NotAhead, Backed, OnlyNewest, NoRun, Current,
     Upserted, Absent

LEMMA ManifestOperator ==
    ASSUME TypeOK, SingleIndexer, ManifestInv, NEW f \in Files, Operator(f)
    PROVE  ManifestInv'
<1>1. CASE EditFile(f)
  <2>1. /\ latest'[f] = latest[f] + 1
        /\ \A g \in Files \ {f} : latest'[g] = latest[g]
        /\ \A g \in Files : latest[g] \in Nat /\ latest'[g] \in Nat
    BY <1>1 DEF EditFile, TypeOK, Versions, Absent
  <2>2. UNCHANGED <<chroma, manifest, pc, run>>
    BY <1>1 DEF Operator, EditFile, disk
  <2>3. \A g \in Files : source'[g] \in {Absent, latest'[g]}
    BY <1>1, <2>1 DEF EditFile, TypeOK, ManifestInv
  <2>4. ASSUME NEW table \in Hash, NotAhead(table)
        PROVE  /\ \A g \in Files : table[g] <= latest'[g]
               /\ \A g \in Files : table[g] = latest'[g] => g # f
    BY <2>1, <2>4 DEF NotAhead, Hash, Versions, Absent
  <2>5. manifest.hash \in Hash /\ NotAhead(manifest.hash)
    BY DEF TypeOK, Hash, ManifestInv
  <2>6. \A g \in Files : latest'[g] # Absent /\ manifest'.hash[g] = latest'[g]
            => Newest(g)' \subseteq chroma'
    BY <2>1, <2>2, <2>4, <2>5 DEF ManifestInv, Newest
  <2>7. ASSUME NEW p \in Procs PROVE RunInv(p)'
    <3>1. run[p] \in Run /\ RunInv(p)
      BY DEF TypeOK, Run, Hash, ManifestInv
    <3>2. ASSUME NEW table \in Hash, NotAhead(table), Backed(p, table)
          PROVE  Backed(p, table)'
      BY <2>1, <2>2, <2>4, <3>2 DEF Backed, Newest, OnlyNewest
    <3>3. \A g \in Files : manifest'.hash[g] = latest'[g]
              => latest'[g] = Absent \/ OnlyNewest(p, g)'
      BY <2>1, <2>2, <2>4, <2>5, <3>1 DEF RunInv, OnlyNewest
    <3>4. \A g \in Files : pc[p] = "extract" /\ Current(p, g)
              => run[p].hash <= latest'[g]
      BY <2>1, <3>1 DEF RunInv, Run, Versions, Absent
    <3>5. NotAhead(run[p].loaded)' /\ NotAhead(run[p].fresh)'
      BY <2>2, <2>4, <3>1 DEF RunInv, Run, NotAhead
    <3>6. Backed(p, run[p].loaded)' /\ Backed(p, run[p].fresh)'
      BY <2>2, <3>1, <3>2 DEF RunInv, Run, Backed
    <3>7. QED
      BY <2>2, <3>1, <3>3, <3>4, <3>5, <3>6 DEF RunInv, Current
  <2>8. QED
    BY <2>2, <2>3, <2>4, <2>5, <2>6, <2>7 DEF ManifestInv, NotAhead
<1>2. CASE DeleteFile(f)
  <2>1. /\ \A g \in Files : source'[g] \in {Absent, source[g]}
        /\ UNCHANGED <<latest, chroma, manifest, pc, run>>
    BY <1>2 DEF Operator, DeleteFile, TypeOK, disk
  <2>2. QED
    BY <2>1 DEF ManifestInv, RunInv, NotAhead, Backed, OnlyNewest, Newest,
       Current
<1>3. CASE RestoreFile(f)
  BY <1>3 DEF RestoreFile, SingleIndexer
<1>4. QED
  BY <1>1, <1>2, <1>3 DEF Operator

LEMMA ManifestStart ==
    ASSUME TypeOK, SingleIndexer, ManifestInv, NEW p \in Procs, Start(p)
    PROVE  ManifestInv'
<1>0. p \in Workers /\ RunInv(p) /\ run \in [Procs -> Run]
  BY DEF SingleIndexer, Procs, ManifestInv, TypeOK, Run, Hash
<1>1. PICK force \in BOOLEAN : StartIngest(p, force)
  BY <1>0 DEF Start, StartReindex, SingleIndexer
<1>2. /\ UNCHANGED <<source, latest, chroma, manifest>>
      /\ pc[p] = "idle" /\ pc'[p] = "list"
      /\ run'[p].loaded = Loaded(force) /\ run'[p].fresh = Loaded(force)
      /\ run'[p].chunks = run[p].chunks /\ run'[p].todo = run[p].todo
  <2>1. /\ UNCHANGED <<source, latest, disk>>
        /\ pc[p] = "idle" /\ Goto(p, "list")
    BY DEF Start
  <2>2. pc'[p] = "list"
    BY <2>1 DEF Goto, TypeOK
  <2> QED
    BY <1>0, <1>1, <2>1, <2>2 DEF StartIngest, disk, Run
<1>3. run[p].chunks = {} /\ run[p].todo = {}
  BY <1>0, <1>2 DEF RunInv
<1>4. \A f \in Files : Loaded(force)[f] \in {manifest.hash[f], Absent}
  BY DEF Loaded, NoHash
<1>5. \A f \in Files : latest[f] \in Nat
  BY DEF TypeOK, Versions, Absent
<1>6. NotAhead(run[p].loaded)' /\ NotAhead(run[p].fresh)'
  BY <1>2, <1>4, <1>5 DEF NotAhead, ManifestInv, Absent
<1>7. Backed(p, run[p].loaded)' /\ Backed(p, run[p].fresh)'
  BY <1>2, <1>3, <1>4 DEF Backed, OnlyNewest, Newest, ManifestInv
<1>8. RunInv(p)'
  BY <1>2, <1>3, <1>6, <1>7 DEF RunInv, OnlyNewest, Current, Upserted, NotAhead, Backed
<1>9. QED
  BY <1>2, <1>8, RunOnly

LEMMA ManifestFile ==
    ASSUME TypeOK, SingleIndexer, ManifestInv,
           NEW p \in Procs, NEW f \in Files, PerFileStep(p, f)
    PROVE  ManifestInv'
<1>0. /\ p \in Workers /\ RunInv(p) /\ run[p] \in Run
      /\ source[f] \in {Absent, latest[f]}
      /\ \A g \in Files : latest[g] \in Nat
      /\ UNCHANGED <<source, latest, chroma, manifest>>
  BY DEF SingleIndexer, Procs, ManifestInv, TypeOK, Run, Hash, Versions, Absent,
     PerFileStep, SkipFile, HashFile, HashMissing, Extract, ExtractNothing,
     ExtractRaises, disk
<1>1. CASE SkipFile(p, f)
  <2>1. /\ pc' = pc /\ pc[p] = "hash"
        /\ run'[p].loaded = run[p].loaded
        /\ run'[p].fresh = [run[p].fresh EXCEPT ![f] = source[f]]
        /\ run'[p].chunks = run[p].chunks
        /\ run'[p].todo = run[p].todo \ {f}
        /\ source[f] = latest[f] /\ run[p].loaded[f] = latest[f]
    BY <1>0, <1>1 DEF SkipFile, TypeOK, Run
  <2>2. \A g \in Files : run'[p].fresh[g] \in {run[p].fresh[g], run[p].loaded[g]}
    BY <1>0, <2>1 DEF Run, Hash
  <2>3. NotAhead(run[p].fresh)'
    BY <1>0, <2>2 DEF NotAhead, RunInv
  <2>4. Backed(p, run[p].fresh)'
    BY <1>0, <2>1, <2>2 DEF Backed, OnlyNewest, Newest, RunInv
  <2>5. NotAhead(run[p].loaded)' /\ Backed(p, run[p].loaded)'
    BY <1>0, <2>1 DEF Backed, OnlyNewest, Newest, NotAhead, RunInv
  <2>6. RunInv(p)'
    BY <1>0, <2>1, <2>3, <2>4, <2>5
       DEF RunInv, OnlyNewest, Upserted, NotAhead, Backed
  <2>7. QED
    BY <1>0, <2>6, RunOnly
<1>2. CASE HashFile(p, f)
  <2>1. /\ pc'[p] = "extract"
        /\ run'[p].loaded = run[p].loaded /\ run'[p].fresh = run[p].fresh
        /\ run'[p].chunks = run[p].chunks /\ run'[p].todo = run[p].todo
        /\ run'[p].hash = latest[f] /\ Current(p, f)
    BY <1>0, <1>2 DEF HashFile, Goto, TypeOK, Run
  <2>2. \A g \in Files : Current(p, g)' => g = f
    BY <2>1 DEF Current, Files
  <2>3. RunInv(p)'
    BY <1>0, <2>1, <2>2
       DEF RunInv, OnlyNewest, Newest, Upserted, NotAhead, Backed
  <2>4. QED
    BY <1>0, <2>3, RunOnly
<1>3. CASE HashMissing(p, f)
  BY <1>0, <1>3, RunOver, RunOnly DEF HashMissing
<1>4. CASE Extract(p, f)
  <2>1. /\ pc[p] = "extract" /\ pc'[p] = "hash" /\ Current(p, f)
        /\ run'[p].loaded = run[p].loaded
        /\ run'[p].fresh = [run[p].fresh EXCEPT ![f] = run[p].hash]
        /\ run'[p].chunks = run[p].chunks \cup ChunksOf(f, latest[f])
        /\ run'[p].todo = run[p].todo \ {f}
    BY <1>0, <1>4 DEF Extract, Goto, PerFile, TypeOK, Run
  <2>2. /\ run[p].hash <= latest[f]
        /\ \A c \in run[p].chunks : c.file # f
    BY <1>0, <2>1 DEF RunInv, Current
  <2>3. \A g \in Files : OnlyNewest(p, g) => OnlyNewest(p, g)'
    BY <1>0, <2>1, ChunksOfFile DEF OnlyNewest
  <2>4. OnlyNewest(p, f)'
    BY <1>0, <2>1, <2>2, ChunksOfFile DEF OnlyNewest
  <2>5. NotAhead(run[p].fresh)' /\ NotAhead(run[p].loaded)'
    BY <1>0, <2>1, <2>2 DEF NotAhead, RunInv, Run, Hash
  <2>6. Backed(p, run[p].loaded)'
    BY <1>0, <2>1, <2>3 DEF Backed, Newest, RunInv
  <2>7. Backed(p, run[p].fresh)'
    <3>1. \A g \in Files \ {f} : run'[p].fresh[g] = run[p].fresh[g]
      BY <1>0, <2>1 DEF Run, Hash
    <3>2. Newest(f)' \subseteq run'[p].chunks
      BY <1>0, <2>1 DEF Newest
    <3>3. QED
      BY <1>0, <2>1, <2>3, <2>4, <3>1, <3>2 DEF Backed, Newest, RunInv
  <2>8. \A g \in run'[p].todo : \A c \in run'[p].chunks : c.file # g
    BY <1>0, <2>1, ChunksOfFile DEF RunInv
  <2>9. RunInv(p)'
    BY <1>0, <2>1, <2>3, <2>5, <2>6, <2>7, <2>8
       DEF RunInv, Upserted, NotAhead, Backed
  <2>10. QED
    BY <1>0, <2>9, RunOnly
<1>5. CASE ExtractNothing(p, f)
  <2>1. /\ pc'[p] = "hash"
        /\ run'[p].loaded = run[p].loaded /\ run'[p].fresh = run[p].fresh
        /\ run'[p].chunks = run[p].chunks /\ run'[p].todo = run[p].todo \ {f}
    BY <1>0, <1>5 DEF ExtractNothing, Goto, PerFile, TypeOK, Run
  <2>2. RunInv(p)'
    BY <1>0, <2>1 DEF RunInv, OnlyNewest, Newest, Upserted, NotAhead, Backed
  <2>3. QED
    BY <1>0, <2>2, RunOnly
<1>6. CASE ExtractRaises(p, f)
  BY <1>0, <1>6, RunOver, RunOnly DEF ExtractRaises
<1>7. QED
  BY <1>1, <1>2, <1>3, <1>4, <1>5, <1>6 DEF PerFileStep

LEMMA ManifestQuiet ==
    ASSUME TypeOK, SingleIndexer, ManifestInv, NEW p \in Procs,
           \/ ListSource(p) \/ NothingToIndex(p) \/ WalkDone(p) \/ Embed(p)
           \/ UpsertRaises(p) \/ Fault(p)
    PROVE  ManifestInv'
<1>0. /\ p \in Workers /\ RunInv(p) /\ run[p] \in Run
      /\ UNCHANGED <<source, latest, chroma, manifest>>
  BY DEF SingleIndexer, Procs, ManifestInv, TypeOK, Run, Hash, disk,
     ListSource, NothingToIndex, WalkDone, Embed, UpsertRaises, Fault, EmbedFails,
     Crash
<1>1. CASE ListSource(p)
  <2>1. /\ pc'[p] = "hash" /\ run'[p].chunks = {}
        /\ run'[p].loaded = run[p].loaded /\ run'[p].fresh = run[p].fresh
    BY <1>0, <1>1 DEF ListSource, PerFile, Goto, TypeOK, Run, RunInv
  <2>2. run[p].chunks = {}
    BY <1>0, <1>1 DEF ListSource, RunInv
  <2>3. RunInv(p)'
    BY <1>0, <2>1, <2>2 DEF RunInv, OnlyNewest, Newest, Upserted, NotAhead, Backed
  <2>4. QED
    BY <1>0, <2>3, RunOnly
<1>2. CASE NothingToIndex(p) \/ WalkDone(p) \/ Embed(p)
  <2>1. /\ run' = run /\ pc'[p] \in {"manifest", "embed", "upsert"}
        /\ pc'[p] = "manifest" => run[p].chunks = {}
    BY <1>0, <1>2 DEF NothingToIndex, WalkDone, Embed, Goto, TypeOK
  <2>2. RunInv(p)'
    BY <1>0, <2>1 DEF RunInv, OnlyNewest, Newest, Upserted, NotAhead, Backed
  <2>3. QED
    BY <1>0, <2>2, RunOnly
<1>3. CASE UpsertRaises(p) \/ Fault(p)
  BY <1>0, <1>3, RunOver, RunOnly DEF UpsertRaises, Fault, EmbedFails, Crash
<1>4. QED
  BY <1>1, <1>2, <1>3

LEMMA ManifestIndexStep ==
    ASSUME TypeOK, SingleIndexer, ManifestInv, NEW p \in Procs, IndexStep(p)
    PROVE  ManifestInv'
<1>0. /\ p \in Workers /\ RunInv(p) /\ run[p] \in Run
      /\ UNCHANGED <<source, latest>>
      /\ \A q \in Procs : q = p
      /\ \A f \in Files : latest[f] \in Versions \cup {Absent}
  BY DEF SingleIndexer, Procs, ManifestInv, TypeOK, Run, Hash,
     IndexStep, UpsertChunks, OpenBm25, WriteBm25, OpenMeta, WriteMeta,
     OpenManifest, WriteManifest
<1>1. CASE UpsertChunks(p)
  <2>1. /\ chroma' = Upsert(chroma, run[p].chunks) /\ pc'[p] = "bm25"
        /\ UNCHANGED <<manifest, run>>
    BY <1>0, <1>1 DEF UpsertChunks, Goto, TypeOK
  <2>2. chroma \in SUBSET Chunk /\ run[p].chunks \in SUBSET Chunk
    BY <1>0 DEF TypeOK, Run
  <2>3. ASSUME NEW f \in Files, latest[f] # Absent, OnlyNewest(p, f),
               Newest(f) \subseteq chroma \cup run[p].chunks
        PROVE  Newest(f) \subseteq chroma'
    BY <1>0, <2>1, <2>2, <2>3, UpsertKeeps DEF OnlyNewest, Newest
  <2>4. \A f \in Files : latest[f] # Absent /\ manifest.hash[f] = latest[f]
            => Newest(f) \subseteq chroma'
    BY <1>0, <2>3 DEF ManifestInv, RunInv
  <2>5. run[p].chunks \subseteq chroma'
    BY <2>1 DEF Upsert
  <2>6. Backed(p, run[p].loaded)' /\ Backed(p, run[p].fresh)'
    BY <1>0, <2>1, <2>3 DEF RunInv, Backed, Newest, OnlyNewest
  <2>7. RunInv(p)'
    BY <1>0, <2>1, <2>5, <2>6 DEF RunInv, OnlyNewest, Upserted, NotAhead, Current
  <2>8. QED
    BY <1>0, <2>1, <2>4, <2>7 DEF ManifestInv, NotAhead, Newest
<1>2. CASE OpenBm25(p) \/ WriteBm25(p) \/ OpenMeta(p) \/ (WriteMeta(p) /\ p \in Workers)
  <2>1. /\ UNCHANGED <<chroma, manifest, run>>
        /\ pc[p] \in Upserted
        /\ pc'[p] \in {"bm25_open", "meta", "meta_open", "manifest"}
    BY <1>0, <1>2 DEF OpenBm25, WriteBm25, OpenMeta, WriteMeta, Goto, TypeOK,
       Upserted
  <2>2. RunInv(p)'
    BY <1>0, <2>1 DEF RunInv, OnlyNewest, Newest, NotAhead, Backed, Upserted
  <2>3. QED
    BY <1>0, <2>1, <2>2, RunOnly
<1>3. CASE OpenManifest(p)
  <2>1. /\ UNCHANGED <<chroma, run>> /\ manifest' = TornManifest
        /\ pc[p] \in Upserted /\ pc'[p] = "manifest_open"
    BY <1>0, <1>3 DEF OpenManifest, Goto, TypeOK, Upserted
  <2>2. \A f \in Files : manifest'.hash[f] = Absent
    BY <2>1 DEF TornManifest, NoHash
  <2>3. RunInv(p)'
    BY <1>0, <2>1, <2>2 DEF RunInv, OnlyNewest, Newest, NotAhead, Backed, Upserted
  <2>4. QED
    BY <1>0, <2>1, <2>2, <2>3 DEF ManifestInv, NotAhead, Newest, Versions, Absent
<1>4. CASE WriteManifest(p)
  <2>1. /\ chroma' = chroma /\ Finish(p) /\ pc[p] \in Upserted
        /\ manifest'.hash \in {run[p].fresh, NoHash}
    BY <1>4 DEF WriteManifest, Outcomes, Manifest, TornManifest, Upserted
  <2>2. run[p].chunks \subseteq chroma
    BY <1>0, <2>1 DEF RunInv
  <2>3. \A f \in Files : latest[f] # Absent /\ manifest'.hash[f] = latest[f]
            => Newest(f) \subseteq chroma
    BY <1>0, <2>1, <2>2 DEF RunInv, Backed, NoHash
  <2>4. \A f \in Files : manifest'.hash[f] <= latest[f]
    BY <1>0, <2>1 DEF RunInv, NotAhead, NoHash, Versions, Absent
  <2>5. RunInv(p)'
    BY <1>0, <2>1, RunOver
  <2>6. QED
    BY <1>0, <2>1, <2>3, <2>4, <2>5 DEF ManifestInv, NotAhead, Newest
<1>5. QED
  BY <1>0, <1>1, <1>2, <1>3, <1>4 DEF IndexStep

LEMMA ManifestStep ==
    SingleIndexer /\ TypeOK /\ ManifestInv /\ [Next]_vars => ManifestInv'
<1> SUFFICES ASSUME SingleIndexer, TypeOK, ManifestInv, [Next]_vars
             PROVE  ManifestInv'
  OBVIOUS
<1>1. CASE Next
  BY <1>1, ManifestOperator, ManifestStart, ManifestFile, ManifestQuiet,
     ManifestIndexStep DEF Next, Advance
<1>2. CASE UNCHANGED vars
  BY <1>2 DEF vars, ManifestInv, RunInv, NotAhead, Backed, OnlyNewest, Newest,
     Current
<1>3. QED
  BY <1>1, <1>2

LEMMA ManifestInit == Init => ManifestInv
<1> SUFFICES ASSUME Init PROVE ManifestInv
  OBVIOUS
<1>1. ASSUME NEW p \in Procs PROVE RunInv(p)
  BY DEF Init, RunInv, NotAhead, Backed, OnlyNewest, NoRun, NoHash, Manifest,
     Absent, Current, Upserted
<1>2. QED
  BY <1>1 DEF Init, ManifestInv, NotAhead, Manifest, NoHash, Absent

(* With one ingesting process and no old content coming back, a file that  *)
(* the next ingest would skip has all its chunks in Chroma: whatever the   *)
(* edits, the crashes, the encode failures and the files that dispatch or  *)
(* the upsert raises on.                                                   *)
THEOREM Truthful ==
    ASSUME SingleIndexer
    PROVE  Spec => []ManifestTruthful
<1>1. TypeOK /\ ManifestInv => ManifestTruthful
  BY DEF ManifestInv, ManifestTruthful, Newest, TypeOK
<1>2. TypeOK /\ ManifestInv /\ [Next]_vars => ManifestInv'
  BY ManifestStep
<1>3. QED
  BY <1>1, <1>2, ManifestInit, TypeCorrect, PTL DEF Spec

-------------------------------------------------------------------------------
(* The watcher.                                                            *)

(* One step of the watcher and its surroundings, seen without the timer    *)
(* and the events.                                                         *)
LEMMA WatchStep == [WatchNext]_<<vars, watching>> => [Next]_vars
<1>1. SUFFICES ASSUME WatchNext PROVE [Next]_vars
  BY DEF vars, watching
<1>2. CASE \E f \in Files : Touched(f)
  BY <1>2 DEF Touched, Next
<1>3. CASE OnAnyEvent
  <2>1. Observer \in Procs
    BY WatcherAssumption DEF Procs
  <2>2. CASE timer
    BY <1>3, <2>2 DEF OnAnyEvent
  <2>3. CASE ~timer
    BY <1>3, <2>1, <2>3 DEF OnAnyEvent, Next
  <2> QED
    BY <2>2, <2>3
<1>4. ASSUME NEW p \in Procs, Works(p) PROVE Next
  BY <1>4 DEF Works, Killed, Fault, Next
<1> QED
  BY <1>1, <1>2, <1>3, <1>4 DEF WatchNext

(* The watcher implements the reindexer of module Ingest: its events and   *)
(* its timer decide when a run begins, and nothing that a run does         *)
(* (watcher.py, _on_any_event and _run; cli.py, _ingest_source_dir).       *)
THEOREM Reindexes == WatchSpec => Spec
<1>1. WatchInit => Init
  BY DEF WatchInit
<1> QED
  BY <1>1, WatchStep, PTL DEF WatchSpec, Spec

(* With a watcher, too, every id in a BM25 pickle is in Chroma, for any    *)
(* number of files, processes, contents, events and faults.                *)
THEOREM WatchGrounded == WatchSpec => []BM25Grounded
BY Reindexes, Grounded
===============================================================================
