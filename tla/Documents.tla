------------------------------- MODULE Documents ------------------------------
(***************************************************************************)
(* From a file of source/ to the documents that are chunked (chunk.py,     *)
(* module Chunker): the extractors of ingest/ and, for .txt files, those   *)
(* of the litigation pack, which register() puts behind dispatch.          *)
(*                                                                         *)
(* A file is its kind and its items in order:                              *)
(*   pdf        pages: "text" (enough words), or what OCR makes of them:   *)
(*              "scan" (enough words), "blank" (too few), "broken" (raises)*)
(*              - or "locked": pages that need a password                 *)
(*   docx       paragraphs: "head", "para", "blank"                        *)
(*   eml, mbox  messages: "none" (without a Message-ID), "bad" (reading it *)
(*              raises), any other value is its Message-ID                 *)
(*   TX         lines of a transcript: "mark" ([page:line]), "q", "a",     *)
(*              "blank"                                                    *)
(*   PL         lines of a pleading: "num" (opens a paragraph), "line",    *)
(*              "blank"                                                    *)
(* A document is the set of its items' positions; its key is what is       *)
(* hashed with the path into its id; its mark is the item its citation     *)
(* names: a heading, a page:line marker, or a numbered paragraph; its text *)
(* is the "whole" of its items, or their "headers" only.                   *)
(*                                                                         *)
(* One behaviour reads one file: a "plain" one is a document that Chunker   *)
(* takes apart.                                                            *)
(***************************************************************************)
EXTENDS Chunker, FiniteSets

CONSTANTS
    Files,           \* the files that are read, but for the plain ones
    MaxOcrPages,     \* MAX_OCR_PAGES
    LinesPerChunk,   \* lines_per_chunk
    ParasPerChunk    \* paragraphs_per_chunk

Kinds == {"pdf", "docx", "eml", "mbox", "TX", "PL"}
Plain == [kind |-> "plain", items |-> <<>>]

(* What a file of this kind is made of.                                    *)
ItemsOf(kind) ==
    CASE kind = "pdf" -> {"text", "scan", "blank", "broken", "locked"}
      [] kind = "docx" -> {"head", "para", "blank"}
      [] kind = "TX" -> {"mark", "q", "a", "blank"}
      [] kind = "PL" -> {"num", "line", "blank"}
      [] OTHER -> STRING

ASSUME DocumentsAssumption ==
    /\ Files \subseteq [kind : Kinds, items : Seq(STRING)]
    /\ \A f \in Files : f.items \in Seq(ItemsOf(f.kind))
    /\ \A f \in Files : f.kind = "eml" => Len(f.items) = 1
    /\ \A f \in Files :
          f.kind = "pdf" => f.items = <<"locked">> \/ \A i \in DOMAIN f.items : f.items[i] # "locked"
    /\ MaxOcrPages \in Nat
    /\ LinesPerChunk \in Nat \ {0}
    /\ ParasPerChunk \in Nat \ {0}

VARIABLES
    file,      \* the file
    dispatch,  \* ingest.common.dispatch: "base" or "pack"
    original,  \* _original_dispatch: what register() found there
    step,      \* "wire", "read", "emit" the groups of a pleading, "done", or
               \* "raised"
    at,        \* the item that is read next
    held,      \* items that wait for the end of their document
    mark,      \* the last heading, marker or numbered paragraph
    keys,      \* sections so far, opened or given to a document
    used,      \* pages given to OCR
    groups,    \* the preface and the paragraphs of a pleading
    docs       \* the documents

wiring == <<dispatch, original>>
reading == <<at, held, mark, keys, used, groups, docs>>
dvars == <<file, wiring, step, reading>>

(* Of a file that is not plain Chunker sees nothing here.                  *)
DocumentsInit ==
    /\ Init
    /\ file \in {Plain} \cup (IF doc.length = 0 THEN Files ELSE {})
    /\ dispatch = "base"
    /\ original = <<>>
    /\ step = IF file = Plain THEN "done" ELSE "wire"
    /\ at = 1
    /\ held = {}
    /\ mark = 0
    /\ keys = 0
    /\ used = 0
    /\ groups = <<>>
    /\ docs = <<>>

Item(i) == file.items[i]
Blank(items) == \A i \in items : Item(i) = "blank"
Kept(items) == {i \in items : Item(i) # "blank"}
First(items) == CHOOSE i \in items : \A j \in items : i <= j

Document(key, items, cites, text) ==
    [key |-> key, items |-> items, mark |-> cites, text |-> text]
Emit(d) == docs' = Append(docs, d)

(* The loop over the items of a file of this kind.                         *)
Reading(kind) == step = "read" /\ file.kind = kind
Next1 == at' = at + 1
AtEnd == at > Len(file.items)
Done(result) == step' = result /\ at' = at

-------------------------------------------------------------------------------
(* The dispatch table.                                                     *)

Register ==
    /\ step = "wire" /\ original = <<>>
    /\ original' = Append(original, dispatch)
    /\ dispatch' = "pack"
    /\ UNCHANGED <<file, step, reading>>

Unregister ==
    /\ step = "wire" /\ original # <<>>
    /\ dispatch' = original[Len(original)]
    /\ original' = SubSeq(original, 1, Len(original) - 1)
    /\ UNCHANGED <<file, step, reading>>

(* dispatch, and _pack_dispatch for what it gives up; a .txt file without   *)
(* the pack has no document.                                               *)
Dispatch ==
    /\ step = "wire"
    /\ step' = IF file.kind \in {"TX", "PL"} /\ dispatch = "base" THEN "done"
               ELSE "read"
    /\ UNCHANGED <<file, wiring, reading>>

-------------------------------------------------------------------------------
(* extract_pdf.                                                            *)

(* Deviation: a page that OCR fails on uses up the cap as well.            *)
OcrUses(item) == item # "text"

(* ocr_used counts the pages that OCR has read, whatever it found.         *)
Ocr(item) == item \in {"scan", "blank"}

ReadPage ==
    /\ Reading("pdf") /\ ~AtEnd /\ Item(at) # "locked"
    /\ Next1
    /\ IF Item(at) = "text" \/ (Item(at) = "scan" /\ used < MaxOcrPages)
       THEN Emit(Document(at, {at}, at, "whole")) ELSE UNCHANGED docs
    /\ used' = IF Ocr(Item(at)) /\ used < MaxOcrPages THEN used + 1 ELSE used
    /\ UNCHANGED <<file, wiring, step, held, mark, keys, groups>>

-------------------------------------------------------------------------------
(* extract_docx.                                                           *)

(* Deviation: a section without text leaves its number to the next.        *)
FlushReuses ==
    /\ IF Blank(held) THEN UNCHANGED <<docs, keys>>
       ELSE Emit(Document(keys, Kept(held), mark, "whole")) /\ keys' = keys
    /\ held' = {}

(* _flush: the section's paragraphs, under the heading before them.         *)
Flush ==
    /\ IF Blank(held) THEN UNCHANGED docs
       ELSE Emit(Document(keys, Kept(held), mark, "whole"))
    /\ keys' = keys + 1
    /\ held' = {}

ReadParagraph ==
    /\ Reading("docx")
    /\ IF AtEnd THEN Flush /\ Done("done") /\ UNCHANGED mark
       ELSE /\ Next1
            /\ UNCHANGED step
            /\ IF Item(at) = "head" THEN Flush /\ mark' = at
               ELSE held' = held \cup {at} /\ UNCHANGED <<docs, keys, mark>>
    /\ UNCHANGED <<file, wiring, used, groups>>

-------------------------------------------------------------------------------
(* extract_eml and extract_mbox.                                            *)

(* A message that cannot be read costs an mbox that message.  The messages *)
(* of mailbox.mbox have neither get_body nor get_content: of those only    *)
(* the headers become text.                                                *)
ReadMessage ==
    /\ \/ Reading("mbox") /\ ~AtEnd
       \/ Reading("eml") /\ ~AtEnd /\ Item(at) # "bad"
    /\ Next1
    /\ IF Item(at) = "bad" THEN UNCHANGED docs
       ELSE Emit(Document(Item(at), {at}, at,
                          IF file.kind = "mbox" THEN "headers" ELSE "whole"))
    /\ UNCHANGED <<file, wiring, step, held, mark, keys, used, groups>>

(* Nothing around dispatch catches what an .eml or a PDF that needs a      *)
(* password raises: the ingest ends (Ingest, ExtractRaises).               *)
Raises ==
    /\ \/ Reading("eml") /\ ~AtEnd /\ Item(at) = "bad"
       \/ Reading("pdf") /\ ~AtEnd /\ Item(at) = "locked"
    /\ Done("raised")
    /\ UNCHANGED <<file, wiring, held, mark, keys, used, groups, docs>>

-------------------------------------------------------------------------------
(* chunk_transcript and extract_transcript.                                *)

(* A marker always begins a chunk, any other line if the cap is reached.   *)
Boundary == Item(at) = "mark" \/ Cardinality(held) >= LinesPerChunk

(* Deviation: the page is that of the first marker.                        *)
PageFirst(items) ==
    IF mark = 0 /\ Item(First(items)) = "mark" THEN First(items) ELSE mark

(* The page:line of a chunk: the marker it opens with, or the one before.  *)
Page(items) == IF Item(First(items)) = "mark" THEN First(items) ELSE mark

FlushLines ==
    /\ IF Blank(held) THEN UNCHANGED <<docs, keys, mark>>
       ELSE /\ Emit(Document(keys, Kept(held), Page(Kept(held)), "whole"))
            /\ mark' = Page(Kept(held))
            /\ keys' = keys + 1
    /\ held' = IF AtEnd THEN {} ELSE {at}

ReadLine ==
    /\ Reading("TX")
    /\ IF AtEnd THEN FlushLines /\ Done("done")
       ELSE /\ Next1
            /\ UNCHANGED step
            /\ IF held # {} /\ Boundary THEN FlushLines
               ELSE held' = held \cup {at} /\ UNCHANGED <<docs, keys, mark>>
    /\ UNCHANGED <<file, wiring, used, groups>>

-------------------------------------------------------------------------------
(* chunk_pleading and extract_pleading.                                    *)

Opens(items) == Item(First(items)) = "num"

(* Lines before the first number are the preface, the others go to the     *)
(* paragraph they follow.                                                  *)
ReadPleading ==
    /\ Reading("PL")
    /\ LET ends == AtEnd \/ Item(at) = "num"
       IN  /\ groups' = IF ends /\ held # {} THEN Append(groups, held) ELSE groups
           /\ held' = IF AtEnd THEN {} ELSE IF ends THEN {at} ELSE held \cup {at}
    /\ IF AtEnd THEN Done("emit") ELSE Next1 /\ UNCHANGED step
    /\ UNCHANGED <<file, wiring, mark, keys, used, docs>>

(* The preface by itself, or the next paragraphs_per_chunk paragraphs.     *)
Block ==
    IF ~Opens(groups[1]) THEN <<groups[1]>>
    ELSE SubSeq(groups, 1, Least(ParasPerChunk, Len(groups)))

(* para_start is the number of the first paragraph, 0 for the preface.     *)
EmitBlock ==
    /\ step = "emit" /\ groups # <<>>
    /\ LET lines == UNION {Block[i] : i \in DOMAIN Block}
       IN  /\ IF Blank(lines) THEN UNCHANGED <<docs, keys>>
              ELSE /\ Emit(Document(keys, Kept(lines),
                                    IF Opens(Kept(lines)) THEN First(lines) ELSE 0, "whole"))
                   /\ keys' = keys + 1
    /\ groups' = SubSeq(groups, Len(Block) + 1, Len(groups))
    /\ UNCHANGED <<file, wiring, step, at, held, mark, used>>

(* The extractor returns.                                                  *)
Return ==
    /\ \/ step = "read" /\ file.kind \in {"pdf", "eml", "mbox"} /\ AtEnd
       \/ step = "emit" /\ groups = <<>>
    /\ Done("done")
    /\ UNCHANGED <<file, wiring, held, mark, keys, used, groups, docs>>

-------------------------------------------------------------------------------
Extract ==
    \/ Register \/ Unregister \/ Dispatch
    \/ ReadPage \/ ReadParagraph \/ ReadMessage \/ Raises
    \/ ReadLine \/ ReadPleading \/ EmitBlock \/ Return

DocumentsNext ==
    \/ Extract /\ UNCHANGED vars
    \/ Next /\ UNCHANGED dvars

DocumentsSpec == DocumentsInit /\ [][DocumentsNext]_<<vars, dvars>>

(* The extractors and chunk_documents are functions: they run until they    *)
(* return.                                                                 *)
DocumentsFairSpec ==
    /\ DocumentsSpec
    /\ WF_<<vars, dvars>>(Next /\ UNCHANGED dvars)
-------------------------------------------------------------------------------
(* Every variable keeps its shape, and following the originals from the     *)
(* dispatch table leads to the base, never in a circle.                    *)
DocumentsTypeOK ==
    /\ TypeOK
    /\ file.kind \in Kinds \cup {"plain"}
    /\ <<dispatch, original>> \in {<<"base", <<>>>>, <<"pack", <<"base">>>>}
    /\ step \in {"wire", "read", "emit", "done", "raised"}
    /\ at \in 1..Len(file.items) + 1
    /\ held \subseteq 1..at - 1
    /\ mark \in 0..at - 1
    /\ keys \in 0..at
    /\ used \in 0..MaxOcrPages
    /\ \A i \in DOMAIN groups : groups[i] \subseteq 1..at - 1
    /\ \A i \in DOMAIN docs : docs[i].items \subseteq 1..at - 1

HasText(i) ==
    CASE file.kind = "pdf" -> Item(i) = "text"
      [] file.kind = "docx" -> Item(i) = "para"
      [] file.kind \in {"eml", "mbox"} -> Item(i) # "bad"
      [] OTHER -> Item(i) # "blank"

Homes(i) == {d \in DOMAIN docs : i \in docs[d].items}
WasRead == step = "done" /\ (file.kind \in {"TX", "PL"} => dispatch = "pack")

InOrder ==
    \A c, d \in DOMAIN docs :
        c < d => \A i \in docs[c].items, j \in docs[d].items : i < j

(* A scanned page that is in no document.                                  *)
Missing(i) == Item(i) = "scan" /\ Homes(i) = {}

(* Every piece of text of a file that was read is in one document and one   *)
(* only, in the order of the file, and is all there but for the bodies of  *)
(* an mbox's messages (BodiesKept); a scanned page that is missing comes   *)
(* after MAX_OCR_PAGES pages that OCR has read (ingest/pdf.py, docx.py,    *)
(* eml.py; packs/litigation/chunker.py).                                   *)
TextKept ==
    /\ DocumentsTypeOK
    /\ InOrder
    /\ file.kind # "mbox" => \A d \in DOMAIN docs : docs[d].text = "whole"
    /\ WasRead => \A i \in DOMAIN file.items :
          /\ HasText(i) => Cardinality(Homes(i)) = 1
          /\ file.kind = "pdf" /\ Missing(i) =>
                Cardinality({j \in 1..i - 1 : Item(j) \in {"scan", "blank"}})
                    >= MaxOcrPages

(* "Each message becomes one Document ... The text is composed as Subject:  *)
(* ... <body>": no message is without its body.  It does not hold          *)
(* (README): an mbox's messages all are.                                   *)
BodiesKept == \A d \in DOMAIN docs : docs[d].text = "whole"

(* "the chunker never lets a single chunk run past this many lines"; a      *)
(* pleading's chunk has at most so many paragraphs, all of each, and the   *)
(* preface is with none of them (packs/litigation/chunker.py).             *)
Bounded(d) ==
    LET items == docs[d].items
        nums == {i \in items : Item(i) = "num"}
    IN  /\ file.kind = "TX" => Cardinality(items) <= LinesPerChunk
        /\ file.kind = "PL" =>
              /\ Cardinality(nums) <= ParasPerChunk
              /\ nums # {} => Opens(items)
              /\ \A c \in DOMAIN docs : c > d => Opens(docs[c].items)

(* What the citation of d names is the last heading, or page:line marker,   *)
(* at or before its first item; for a pleading its first numbered          *)
(* paragraph (docx.py, heading; packs/litigation/extractor.py, page,       *)
(* para_start).                                                            *)
NamesPlace(d) ==
    LET first == First(docs[d].items)
        Marks == {i \in 1..first : Item(i) \in {"head", "mark"}}
    IN  CASE file.kind \in {"docx", "TX"} ->
               IF Marks = {} THEN docs[d].mark = 0
               ELSE docs[d].mark \in Marks /\ \A i \in Marks : i <= docs[d].mark
          [] file.kind = "PL" ->
               docs[d].mark = IF Item(first) = "num" THEN first ELSE 0
          [] OTHER -> TRUE

(* A citation leads to the passage: it names the place where the document   *)
(* begins, and the document does not run far past it, through every        *)
(* carry-over of a heading, a marker or a paragraph.                       *)
CitedRight == \A d \in DOMAIN docs : NamesPlace(d) /\ Bounded(d)

(* The documents of a file have different ids, so that none replaces        *)
(* another in the index; those of an mbox if its messages have a           *)
(* Message-ID each, all different (ingest/common.py, stable_doc_id).       *)
IdsDistinct ==
    \A c, d \in DOMAIN docs :
        c # d /\ docs[c].key = docs[d].key =>
            file.kind = "mbox" /\ \E i \in docs[c].items, j \in docs[d].items :
                                      i # j /\ Item(i) = Item(j)
===============================================================================
