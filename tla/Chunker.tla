-------------------------------- MODULE Chunker -------------------------------
(***************************************************************************)
(* chunk.py: how the text of one document becomes chunks.  The text is cut *)
(* into sections at its headings; a section that is too long is cut into   *)
(* overlapping parts, at the end of a sentence or at a space if there is   *)
(* one late enough in the window; parts that are too small are merged into *)
(* a neighbour of the same section.                                        *)
(*                                                                         *)
(* A character is a letter (anything that strip keeps), a space or a line  *)
(* break.  A span is the stretch of text at the positions from..to-1, and  *)
(* a chunk is the set of the spans that were joined to make it, with the   *)
(* number of its section.  Where the regular expressions find a heading or *)
(* the begin of a sentence is part of the document.                        *)
(***************************************************************************)
EXTENDS Integers, Sequences

CONSTANTS
    MaxLength,   \* bound: characters of a document
    ChunkSize,   \* chunk_size (1200)
    Overlap,     \* overlap (200)
    MinSize      \* min_size (120)

ASSUME ChunkerAssumption ==
    /\ MaxLength \in Nat
    /\ ChunkSize \in Nat \ {0}
    /\ Overlap \in Nat
    /\ MinSize \in Nat

VARIABLES
    doc,      \* the document
    phase,    \* what is being done: taking a section, splitting or merging it
    next,     \* where the next section begins
    section,  \* the span of the section in hand
    number,   \* how many sections were taken so far
    cursor,   \* where the next part of the section begins
    parts,    \* the parts of the section
    taken,    \* how many of them were merged so far
    buf,      \* the tiny ones of these, waiting for what follows
    out       \* the chunks

vars == <<doc, phase, next, section, number, cursor, parts, taken, buf, out>>

Positions == 0..MaxLength
Span == [from : Positions, to : Positions]
Chunk == [section : Nat, spans : SUBSET Span]

Stretch(a, b) == [from |-> a, to |-> b]
Size(s) == s.to - s.from
Inside(i, s) == s.from <= i /\ i < s.to

Least(a, b) == IF a <= b THEN a ELSE b
Largest(a, b) == IF a <= b THEN b ELSE a

(* A document of n characters c, in which sentences begin after a full     *)
(* stop and a white space, and headings on a new line.                     *)
SentenceStarts(n, c) ==
    {i \in 2..n - 1 : c[i - 2] = "letter" /\ c[i - 1] # "letter"
                                          /\ c[i] = "letter"}
LineStarts(n, c) ==
    {i \in 0..n - 1 : /\ c[i] = "letter"
                      /\ i # 0 => c[i - 1] = "newline"}

Letter(i) == doc.char[i] = "letter"
HasLetter(a, b) == \E i \in a..b - 1 : Letter(i)

Init ==
    /\ \E n \in Positions :
       \E c \in [0..n - 1 -> {"letter", "space", "newline"}] :
       \E s \in SUBSET SentenceStarts(n, c), h \in SUBSET LineStarts(n, c) :
          doc = [length |-> n, char |-> c, sentences |-> s, headings |-> h]
    /\ phase = IF HasLetter(0, doc.length) THEN "section" ELSE "done"
    /\ next = 0
    /\ section = Stretch(0, 0)
    /\ number = 0
    /\ cursor = 0
    /\ parts = <<>>
    /\ taken = 0
    /\ buf = {}
    /\ out = <<>>

(* s is the span a..b-1 without the white space at its ends.               *)
Stripped(s, a, b) ==
    /\ a <= s.from /\ s.from <= s.to /\ s.to <= b
    /\ \A i \in a..b - 1 : Letter(i) => Inside(i, s)
    /\ IF s.from = s.to THEN s.from = a ELSE Letter(s.from) /\ Letter(s.to - 1)

-------------------------------------------------------------------------------
(* _split_into_sections.                                                   *)

(* The section that begins at a ends before the next heading.              *)
EndsAt(b, a) ==
    /\ b \in doc.headings \cup {doc.length}
    /\ a < b
    /\ \A h \in doc.headings : a < h => b <= h

(* A document without headings is one section as it stands; the sections   *)
(* of others are stripped, and dropped if nothing is left.                 *)
TakeSection ==
    /\ phase = "section"
    /\ next < doc.length
    /\ \E b \in Positions :
          /\ EndsAt(b, next)
          /\ next' = b
          /\ \E s \in Span :
                /\ IF doc.headings \subseteq {0} THEN s = Stretch(0, doc.length)
                   ELSE Stripped(s, next, b)
                /\ section' = s
                /\ cursor' = s.from
                /\ phase' = IF s.from = s.to THEN "section" ELSE "split"
    /\ number' = number + 1
    /\ parts' = <<>>
    /\ UNCHANGED <<doc, taken, buf, out>>

Finish ==
    /\ phase = "section"
    /\ next = doc.length
    /\ phase' = "done"
    /\ UNCHANGED <<doc, next, section, number, cursor, parts, taken, buf, out>>

-------------------------------------------------------------------------------
(* _split_long_section.                                                    *)

KeepShort ==
    /\ phase = "split"
    /\ Size(section) <= ChunkSize
    /\ parts' = <<section>>
    /\ phase' = "merge"
    /\ UNCHANGED <<doc, next, section, number, cursor, taken, buf, out>>

(* Where the window that begins at the cursor may be cut: at a sentence    *)
(* whose begin, with the full stop before it, is in the last 30 percent of *)
(* the window.                                                             *)
Window == Least(cursor + ChunkSize, section.to)
SentenceCuts ==
    {b \in doc.sentences : cursor + (7 * ChunkSize) \div 10 <= b - 2 /\ b < Window}
SpaceCuts ==
    {b \in cursor + ChunkSize \div 2 + 1..Window - 1 : doc.char[b] = "space"}

IsLast(b, cuts) == b \in cuts /\ \A c \in cuts : c <= b

(* The last sentence, or else the last space in the second half.           *)
CutAt(b) ==
    IF Window = section.to \/ SentenceCuts \cup SpaceCuts = {} THEN b = Window
    ELSE IsLast(b, IF SentenceCuts # {} THEN SentenceCuts ELSE SpaceCuts)

(* Deviation: no progress is made when the overlap reaches back to the     *)
(* begin of the window.                                                    *)
AdvanceBack(b) == b - Overlap

(* The next window overlaps this one, and the cursor moves.                *)
Advance(b) == Largest(b - Overlap, cursor + 1)

CutPart ==
    /\ phase = "split"
    /\ Size(section) > ChunkSize
    /\ cursor < section.to
    /\ \E b \in Positions :
          /\ CutAt(b)
          /\ \E s \in Span :
                /\ Stripped(s, cursor, b)
                /\ parts' = IF s.from = s.to THEN parts ELSE Append(parts, s)
          /\ IF b >= section.to
             THEN phase' = "merge" /\ UNCHANGED cursor
             ELSE cursor' = Advance(b) /\ UNCHANGED phase
    /\ UNCHANGED <<doc, next, section, number, taken, buf, out>>

-------------------------------------------------------------------------------
(* _merge_tiny_in_section.                                                 *)

Tiny(s) == Size(s) < MinSize

HoldTiny ==
    /\ phase = "merge"
    /\ taken < Len(parts)
    /\ Tiny(parts[taken + 1])
    /\ buf' = buf \cup {parts[taken + 1]}
    /\ taken' = taken + 1
    /\ UNCHANGED <<doc, phase, next, section, number, cursor, parts, out>>

NewChunk(spans) == [section |-> number, spans |-> spans]

(* A part that is large enough is a chunk, with the tiny ones before it.   *)
MergePart ==
    /\ phase = "merge"
    /\ taken < Len(parts)
    /\ ~Tiny(parts[taken + 1])
    /\ out' = Append(out, NewChunk(buf \cup {parts[taken + 1]}))
    /\ buf' = {}
    /\ taken' = taken + 1
    /\ UNCHANGED <<doc, phase, next, section, number, cursor, parts>>

(* Deviation: any section has.                                             *)
HasChunkAnywhere == out # <<>>

(* This section has given a chunk already.                                 *)
HasChunk == out # <<>> /\ out[Len(out)].section = number

(* Deviations: the tiny parts at the end wait for the next section, or are *)
(* a chunk always.                                                         *)
EndSectionKeeps ==
    /\ phase = "merge"
    /\ taken = Len(parts)
    /\ IF buf # {} /\ HasChunk
       THEN /\ out' = [out EXCEPT ![Len(out)].spans = @ \cup buf]
            /\ buf' = {}
       ELSE UNCHANGED <<out, buf>>
    /\ taken' = 0
    /\ phase' = "section"
    /\ UNCHANGED <<doc, next, section, number, cursor, parts>>

EndSectionAppends ==
    /\ phase = "merge"
    /\ taken = Len(parts)
    /\ out' = IF buf = {} THEN out ELSE Append(out, NewChunk(buf))
    /\ buf' = {}
    /\ taken' = 0
    /\ phase' = "section"
    /\ UNCHANGED <<doc, next, section, number, cursor, parts>>

(* The tiny parts at the end go to the section's last chunk, if any.       *)
EndSection ==
    /\ phase = "merge"
    /\ taken = Len(parts)
    /\ out' = IF buf = {} THEN out
              ELSE IF HasChunk THEN [out EXCEPT ![Len(out)].spans = @ \cup buf]
              ELSE Append(out, NewChunk(buf))
    /\ buf' = {}
    /\ taken' = 0
    /\ phase' = "section"
    /\ UNCHANGED <<doc, next, section, number, cursor, parts>>

-------------------------------------------------------------------------------
Next ==
    \/ TakeSection \/ Finish
    \/ KeepShort \/ CutPart
    \/ HoldTiny \/ MergePart \/ EndSection

Spec == Init /\ [][Next]_vars

(* chunk_documents is a function: it runs until it returns.                *)
FairSpec == Spec /\ WF_vars(Next)
-------------------------------------------------------------------------------
(* Properties.                                                             *)

(* Every variable keeps its shape.                                         *)
TypeOK ==
    /\ doc.length \in Positions
    /\ doc.sentences \subseteq 2..doc.length - 1
    /\ doc.headings \subseteq 0..doc.length - 1
    /\ phase \in {"section", "split", "merge", "done"}
    /\ next \in 0..doc.length
    /\ section \in Span /\ section.to <= doc.length
    /\ number \in Nat
    /\ cursor \in section.from..section.to
    /\ parts \in Seq(Span)
    /\ taken \in 0..Len(parts)
    /\ buf \subseteq Span
    /\ out \in Seq(Chunk)

(* i is in a chunk.                                                        *)
Chunked(i) == \E k \in DOMAIN out : \E s \in out[k].spans : Inside(i, s)

(* No text is lost: every letter of the document is in a chunk, wherever   *)
(* the headings, the sentences and the spaces are, however large the       *)
(* overlap, and whatever is merged.                                        *)
Lossless ==
    phase = "done" => \A i \in 0..doc.length - 1 : Letter(i) => Chunked(i)

(* "Article II must NOT be merged into Article I": no chunk has text of    *)
(* two sections, tiny parts left over at the end of one included.          *)
SectionsDistinct ==
    \A k \in DOMAIN out, h \in doc.headings :
        \A s, t \in out[k].spans : s.from < h => t.from < h

(* Tiny parts are merged "so the retriever doesn't fragment trivial        *)
(* passages": a chunk of tiny parts only is the one chunk of its section.  *)
NoSliver ==
    phase = "done" =>
        \A j, k \in DOMAIN out :
            (\A s \in out[k].spans : Tiny(s)) /\ out[j].section = out[k].section
                => j = k

(* The loop over the windows ends, also when the overlap is as large as a  *)
(* window, which RootConfig.validate allows almost.                        *)
Terminates == <>(phase = "done")
===============================================================================
