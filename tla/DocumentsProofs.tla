---------------------------- MODULE DocumentsProofs ---------------------------
(***************************************************************************)
(* Theorems about Chunker, for documents of any length and structure, any  *)
(* chunk size, overlap and minimum: no letter is lost on the way from the  *)
(* document to the chunks, no chunk has text of two sections, and tiny     *)
(* parts are merged.                                                       *)
(*                                                                         *)
(* And about Documents, for files of any length and any caps: what is      *)
(* shown of chunk_documents holds of it behind the extractors, the         *)
(* documents of a file have different ids, every piece of its text is in   *)
(* one of them, and each is cited by the place where it begins.            *)
(***************************************************************************)
EXTENDS Documents, FiniteSetTheorems, SequenceTheorems,
        WellFoundedInduction, TLAPS

(* Somewhere a letter that was not lost may be.                            *)
InParts(i) == \E k \in taken + 1..Len(parts) : Inside(i, parts[k])
InBuf(i) == \E s \in buf : Inside(i, s)

(* What became of the letters of the text that was taken so far.           *)
KeptInv ==
    /\ phase # "merge" => taken = 0 /\ buf = {}
    /\ phase = "split" => cursor < section.to
    /\ \A i \in 0..next - 1 :
          Letter(i) =>
             CASE phase = "split" ->
                    Chunked(i) \/ (Inside(i, section) /\ (i < cursor => InParts(i)))
               [] phase = "merge" -> Chunked(i) \/ InParts(i) \/ InBuf(i)
               [] OTHER -> Chunked(i)
    /\ phase = "done" /\ (\E i \in 0..doc.length - 1 : Letter(i)) =>
          next = doc.length

(* The section in hand has no heading within.                              *)
InHand == phase \in {"split", "merge"}
Within(s) == section.from <= s.from /\ s.from < section.to

(* The spans of its parts and of the chunks that have its number are its   *)
(* own, and it is the last one that was numbered.                          *)
ApartInv ==
    /\ InHand => /\ \A h \in doc.headings : h <= section.from \/ section.to <= h
                 /\ \A k \in DOMAIN parts : Within(parts[k])
                 /\ \A s \in buf : Within(s)
                 /\ \A k \in DOMAIN out : out[k].section = number =>
                        \A s \in out[k].spans : Within(s)
    /\ \A k \in DOMAIN out : out[k].section <= number
    /\ SectionsDistinct

ChunkInv == TypeOK /\ KeptInv /\ ApartInv

LEMMA InitChunk == Init => ChunkInv
<1> SUFFICES ASSUME Init PROVE ChunkInv
  OBVIOUS
<1> USE DEF Init
<1>1. TypeOK
  <2>1. \E n \in Positions : \E c, s, h :
          /\ s \subseteq SentenceStarts(n, c) /\ h \subseteq LineStarts(n, c)
          /\ doc = [length |-> n, char |-> c, sentences |-> s, headings |-> h]
    OBVIOUS
  <2>2. /\ doc.length \in Positions
        /\ doc.sentences \subseteq 2..doc.length - 1
        /\ doc.headings \subseteq 0..doc.length - 1
    BY <2>1 DEF SentenceStarts, LineStarts
  <2>3. section \in Span /\ section.from = 0 /\ section.to = 0
    BY ChunkerAssumption DEF Stretch, Span, Positions
  <2>4. QED
    BY <2>2, <2>3, ChunkerAssumption DEF TypeOK, Positions
<1>2. KeptInv
  BY <1>1 DEF KeptInv, HasLetter, TypeOK, Positions
<1>3. ApartInv
  BY DEF ApartInv, InHand, SectionsDistinct
<1>4. QED
  BY <1>1, <1>2, <1>3 DEF ChunkInv

-------------------------------------------------------------------------------
(* What the types of the sequences say of their elements.                  *)
LEMMA Shapes ==
    ASSUME TypeOK
    PROVE  /\ DOMAIN parts = 1..Len(parts) /\ Len(parts) \in Nat
           /\ \A k \in DOMAIN parts : /\ parts[k] \in Span
                                     /\ parts[k].from \in Nat
                                     /\ parts[k].to \in Nat
           /\ DOMAIN out = 1..Len(out) /\ Len(out) \in Nat
           /\ \A k \in DOMAIN out : /\ out[k] \in Chunk
                                   /\ out[k].section \in Nat
                                   /\ out[k].spans \subseteq Span
           /\ number \in Nat /\ taken \in Nat /\ taken <= Len(parts)
<1>1. parts \in Seq(Span) /\ out \in Seq(Chunk) /\ taken \in 0..Len(parts)
  BY DEF TypeOK
<1>2. /\ DOMAIN parts = 1..Len(parts) /\ Len(parts) \in Nat
      /\ \A k \in DOMAIN parts : parts[k] \in Span
  BY <1>1
<1>3. /\ DOMAIN out = 1..Len(out) /\ Len(out) \in Nat
      /\ \A k \in DOMAIN out : out[k] \in Chunk
  BY <1>1
<1>4. \A s \in Span : s.from \in Nat /\ s.to \in Nat
  BY ChunkerAssumption DEF Span, Positions
<1>5. \A c \in Chunk : c.section \in Nat /\ c.spans \subseteq Span
  BY DEF Chunk
<1>6. QED
  BY <1>1, <1>2, <1>3, <1>4, <1>5 DEF TypeOK

LEMMA TakeSectionChunk == ChunkInv /\ TakeSection => ChunkInv'
<1> SUFFICES ASSUME ChunkInv, TakeSection PROVE ChunkInv'
  OBVIOUS
<1> USE DEF Positions
<1>1. PICK b \in Positions : 
        /\ EndsAt(b, next)
        /\ next' = b
        /\ \E s \in Span :
              /\ IF doc.headings \subseteq {0} THEN s = Stretch(0, doc.length)
                 ELSE Stripped(s, next, b)
              /\ section' = s
              /\ cursor' = s.from
              /\ phase' = IF s.from = s.to THEN "section" ELSE "split"
  BY DEF TakeSection
<1>2. /\ section' \in Span /\ cursor' = section'.from
      /\ phase' = IF section'.from = section'.to THEN "section" ELSE "split"
      /\ IF doc.headings \subseteq {0} THEN section' = Stretch(0, doc.length)
         ELSE Stripped(section', next, b)
  BY <1>1
<1>3. /\ b \in Nat /\ next \in Nat /\ next < b /\ b <= doc.length
      /\ doc.length \in Nat /\ doc.length <= MaxLength
  BY <1>1, ChunkerAssumption DEF EndsAt, ChunkInv, TypeOK
<1>4. /\ section'.from \in Nat /\ section'.to \in Nat
      /\ section'.from <= section'.to /\ section'.to <= doc.length
  <2>1. CASE doc.headings \subseteq {0}
    BY <1>2, <1>3, <2>1 DEF Stretch
  <2>2. CASE ~(doc.headings \subseteq {0})
    BY <1>2, <1>3, <2>2, ChunkerAssumption DEF Stripped, Span
  <2>3. QED
    BY <2>1, <2>2
<1>5. UNCHANGED <<doc, taken, buf, out>> /\ number' = number + 1 /\ parts' = <<>>
  BY DEF TakeSection
<1>6. TypeOK'
  BY <1>1, <1>2, <1>3, <1>4, <1>5 DEF TakeSection, ChunkInv, TypeOK, KeptInv
<1>7. \A i \in next..b - 1 : Letter(i) => Inside(i, section')
  BY <1>2, <1>3 DEF Stripped, Stretch, Inside
<1>8. KeptInv'
  <2>1. taken' = 0 /\ buf' = {} /\ phase = "section"
    BY <1>5 DEF TakeSection, ChunkInv, KeptInv
  <2>2. \A i : Letter(i)' = Letter(i) /\ Chunked(i)' = Chunked(i)
    BY <1>5 DEF Letter, Chunked
  <2>3. \A i \in 0..next - 1 : Letter(i) => Chunked(i)
    BY <2>1 DEF ChunkInv, KeptInv
  <2>4. CASE phase' = "section"
    <3>1. \A i \in next..b - 1 : ~Letter(i)
      BY <1>2, <1>4, <1>7, <2>4 DEF Inside
    <3>2. \A i \in 0..b - 1 : Letter(i) => Chunked(i)
      BY <1>3, <2>3, <3>1
    <3>3. QED
      BY <1>1, <2>1, <2>2, <2>4, <3>2 DEF KeptInv
  <2>5. CASE phase' = "split"
    <3>1. cursor' < section'.to
      BY <1>2, <1>4, <2>5
    <3>2. \A i \in 0..b - 1 :
             Letter(i) => Chunked(i) \/ (Inside(i, section') /\ ~(i < cursor'))
      BY <1>2, <1>3, <1>4, <1>7, <2>3 DEF Inside
    <3>3. \A i : Inside(i, section)' = Inside(i, section')
      BY DEF Inside
    <3>4. QED
      BY <1>1, <2>1, <2>2, <2>5, <3>1, <3>2, <3>3 DEF KeptInv
  <2>6. QED
    BY <1>2, <2>4, <2>5
<1>9. ApartInv'
  <2>1. \A h \in doc.headings : h <= section'.from \/ section'.to <= h
    <3>1. CASE doc.headings \subseteq {0}
      BY <1>4, <3>1
    <3>2. CASE ~(doc.headings \subseteq {0})
      BY <1>1, <1>2, <1>3, <1>4, <3>2 DEF EndsAt, Stripped, ChunkInv, TypeOK
    <3>3. QED
      BY <3>1, <3>2
  <2>2. \A k \in DOMAIN out : out[k].section <= number
    BY DEF ChunkInv, ApartInv
  <2>3. \A k \in DOMAIN out' :
           out'[k].section <= number' /\ out'[k].section # number'
    BY <1>5, <2>2, Shapes DEF ChunkInv
  <2>4. SectionsDistinct'
    BY <1>5 DEF ChunkInv, ApartInv, SectionsDistinct
  <2>5. buf' = {} /\ DOMAIN parts' = {}
    BY <1>5 DEF TakeSection, ChunkInv, KeptInv
  <2>6. QED
    BY <1>5, <2>1, <2>3, <2>4, <2>5 DEF ApartInv, InHand
<1>10. QED
  BY <1>6, <1>8, <1>9 DEF ChunkInv

(* A step that leaves the document, the section and the chunks alone.      *)
LEMMA FinishChunk == ChunkInv /\ Finish => ChunkInv'
<1> SUFFICES ASSUME ChunkInv, Finish PROVE ChunkInv'
  OBVIOUS
<1>1. /\ phase = "section" /\ next = doc.length /\ phase' = "done"
      /\ UNCHANGED <<doc, next, section, number, cursor, parts, taken, buf, out>>
  BY DEF Finish
<1>2. TypeOK'
  BY <1>1 DEF ChunkInv, TypeOK
<1>3. KeptInv'
  BY <1>1 DEF ChunkInv, KeptInv, Letter, Chunked
<1>4. ApartInv'
  BY <1>1 DEF ChunkInv, ApartInv, InHand, SectionsDistinct
<1>5. QED
  BY <1>2, <1>3, <1>4 DEF ChunkInv

(* The parts of a section make up the section.                             *)
LEMMA KeepShortChunk == ChunkInv /\ KeepShort => ChunkInv'
<1> SUFFICES ASSUME ChunkInv, KeepShort PROVE ChunkInv'
  OBVIOUS
<1>1. /\ phase = "split" /\ phase' = "merge" /\ parts' = <<section>>
      /\ UNCHANGED <<doc, next, section, number, cursor, taken, buf, out>>
  BY DEF KeepShort
<1>2. taken = 0 /\ buf = {} /\ cursor < section.to
  BY <1>1 DEF ChunkInv, KeptInv
<1>3. TypeOK'
  BY <1>1, <1>2 DEF ChunkInv, TypeOK
<1>4. \A i : Inside(i, section) => InParts(i)'
  <2>1. Len(parts') = 1 /\ parts'[1] = section /\ taken' = 0
    BY <1>1, <1>2
  <2>2. QED
    BY <2>1, <1>1 DEF InParts, Inside
<1>5. KeptInv'
  <2>1. \A i \in 0..next - 1 : Letter(i) => Chunked(i) \/ Inside(i, section)
    BY <1>1 DEF ChunkInv, KeptInv
  <2>2. \A i : Letter(i)' = Letter(i) /\ Chunked(i)' = Chunked(i)
    BY <1>1 DEF Letter, Chunked
  <2>3. \A i \in 0..next' - 1 : Letter(i)' => Chunked(i)' \/ InParts(i)'
    BY <1>1, <1>4, <2>1, <2>2
  <2>4. QED
    BY <1>1, <1>2, <2>3 DEF KeptInv
<1>6. ApartInv'
  <2>1. section.from \in Nat /\ section.to \in Nat /\ section.from < section.to
    BY <1>2, ChunkerAssumption DEF ChunkInv, TypeOK, Span, Positions
  <2>2. DOMAIN parts' = {1} /\ parts'[1] = section
    BY <1>1
  <2>3. \A k \in DOMAIN parts' : /\ section'.from <= parts'[k].from
                                  /\ parts'[k].from < section'.to
    BY <1>1, <2>1, <2>2
  <2>4. QED
    BY <1>1, <1>2, <2>3 DEF ChunkInv, ApartInv, InHand, Within, SectionsDistinct
<1>7. QED
  BY <1>3, <1>5, <1>6 DEF ChunkInv

(* A cut is within the window, and the cursor moves past where it was but  *)
(* not past the cut.                                                       *)
LEMMA CutInside ==
    ASSUME NEW b \in Nat, CutAt(b), cursor \in Nat, section.to \in Nat,
           cursor < section.to
    PROVE  /\ cursor < b /\ b <= section.to
           /\ Advance(b) \in Nat /\ cursor < Advance(b) /\ Advance(b) <= b
<1>1. /\ cursor < Window /\ Window <= section.to /\ Window \in Nat
  BY ChunkerAssumption DEF Window, Least
<1>2. (7 * ChunkSize) \div 10 \in Nat /\ ChunkSize \div 2 \in Nat
  BY ChunkerAssumption
<1>3. \A c \in SentenceCuts \cup SpaceCuts : c \in Int => cursor < c /\ c < Window
  BY <1>1, <1>2 DEF SentenceCuts, SpaceCuts
<1>4. cursor < b /\ b <= Window
  BY <1>1, <1>3 DEF CutAt, IsLast
<1>5. QED
  BY <1>1, <1>4, ChunkerAssumption DEF Advance, Largest

LEMMA CutPartChunk == ChunkInv /\ CutPart => ChunkInv'
<1> SUFFICES ASSUME ChunkInv, CutPart PROVE ChunkInv'
  OBVIOUS
<1>1. /\ phase = "split" /\ cursor < section.to
      /\ UNCHANGED <<doc, next, section, number, taken, buf, out>>
  BY DEF CutPart
<1>2. PICK b \in Positions :
        /\ CutAt(b)
        /\ \E s \in Span :
              /\ Stripped(s, cursor, b)
              /\ parts' = IF s.from = s.to THEN parts ELSE Append(parts, s)
        /\ IF b >= section.to
           THEN phase' = "merge" /\ UNCHANGED cursor
           ELSE cursor' = Advance(b) /\ UNCHANGED phase
  BY DEF CutPart
<1>3. PICK s \in Span :
        /\ Stripped(s, cursor, b)
        /\ parts' = IF s.from = s.to THEN parts ELSE Append(parts, s)
  BY <1>2
<1>4. /\ b \in Nat /\ s.from \in Nat /\ s.to \in Nat
      /\ section.from \in Nat /\ section.to \in Nat
      /\ cursor \in Nat /\ section.from <= cursor
      /\ taken = 0 /\ buf = {}
  BY <1>1, ChunkerAssumption
     DEF ChunkInv, TypeOK, KeptInv, Span, Positions
<1>5. /\ cursor < b /\ b <= section.to
      /\ Advance(b) \in Nat /\ cursor < Advance(b) /\ Advance(b) <= b
  BY <1>1, <1>2, <1>4, CutInside
<1> USE Shapes
<1>6. parts \in Seq(Span)
  BY DEF ChunkInv, TypeOK
<1>7. /\ parts' \in Seq(Span) /\ Len(parts) <= Len(parts')
      /\ \A k \in 1..Len(parts) : parts'[k] = parts[k]
  BY <1>3, <1>6
<1>8. \A i \in cursor..b - 1 :
         Letter(i) => \E k \in 1..Len(parts') : Inside(i, parts'[k])
  <2> SUFFICES ASSUME NEW i \in cursor..b - 1, Letter(i)
               PROVE  \E k \in 1..Len(parts') : Inside(i, parts'[k])
    OBVIOUS
  <2>1. Inside(i, s)
    BY <1>3 DEF Stripped
  <2>2. s.from # s.to
    BY <1>4, <2>1 DEF Inside
  <2>3. Len(parts') \in 1..Len(parts') /\ parts'[Len(parts')] = s
    BY <1>3, <1>6, <2>2
  <2>4. QED
    BY <2>1, <2>3
<1>9. TypeOK'
  <2>1. cursor' \in section'.from..section'.to
    BY <1>1, <1>2, <1>4, <1>5 DEF ChunkInv, TypeOK
  <2>2. phase' \in {"split", "merge"}
    BY <1>1, <1>2
  <2>3. taken' \in 0..Len(parts')
    BY <1>1, <1>4, <1>7
  <2>4. QED
    BY <1>1, <1>7, <2>1, <2>2, <2>3 DEF ChunkInv, TypeOK
<1>10. KeptInv'
  <2>1. \A i : /\ Letter(i)' = Letter(i) /\ Chunked(i)' = Chunked(i)
               /\ Inside(i, section)' = Inside(i, section)
    BY <1>1 DEF Letter, Chunked, Inside
  <2>2. \A i : InParts(i)' <=> \E k \in 1..Len(parts') : Inside(i, parts'[k])
    BY <1>1, <1>4 DEF InParts, Inside
  <2>3. \A i : InParts(i) => InParts(i)'
    <3> SUFFICES ASSUME NEW i, InParts(i) PROVE InParts(i)'
      OBVIOUS
    <3>1. PICK k \in 1..Len(parts) : Inside(i, parts[k])
      BY <1>4 DEF InParts
    <3>2. Len(parts) \in Nat /\ Len(parts') \in Nat
      BY <1>6, <1>7
    <3>3. k \in 1..Len(parts') /\ Inside(i, parts'[k])
      BY <1>7, <3>1, <3>2
    <3>4. QED
      BY <2>2, <3>3
  <2>4. \A i \in 0..next - 1 :
           Letter(i) =>
              Chunked(i) \/ (Inside(i, section) /\ (i < cursor => InParts(i)))
    BY <1>1 DEF ChunkInv, KeptInv
  <2>5. \A i \in 0..next - 1 :
           Letter(i) =>
              Chunked(i) \/ (Inside(i, section) /\ (i < b => InParts(i)'))
    BY <1>4, <1>8, <2>2, <2>3, <2>4
  <2>6. CASE b >= section.to
    <3>1. phase' = "merge"
      BY <1>2, <2>6
    <3>2. \A i \in 0..next' - 1 : Letter(i)' => Chunked(i)' \/ InParts(i)'
      BY <1>1, <1>4, <2>1, <2>5, <2>6 DEF Inside
    <3>3. QED
      BY <3>1, <3>2 DEF KeptInv
  <2>7. CASE ~(b >= section.to)
    <3>1. phase' = "split" /\ cursor' = Advance(b)
      BY <1>1, <1>2, <2>7
    <3>2. cursor' < section'.to /\ taken' = 0 /\ buf' = {}
      BY <1>1, <1>4, <1>5, <2>7, <3>1
    <3>3. \A i \in 0..next' - 1 :
             Letter(i)' => Chunked(i)' \/ (Inside(i, section)'
                                            /\ (i < cursor' => InParts(i)'))
      BY <1>1, <1>4, <1>5, <2>1, <2>5, <3>1
    <3>4. QED
      BY <3>1, <3>2, <3>3 DEF KeptInv
  <2>8. QED
    BY <2>6, <2>7
<1>11. ApartInv'
  <2>1. \A k \in 1..Len(parts') : \/ k \in 1..Len(parts) /\ parts'[k] = parts[k]
                                  \/ s.from # s.to /\ parts'[k] = s
    BY <1>3, <1>6
  <2>2. s.from # s.to => section.from <= s.from /\ s.from < section.to
    BY <1>3, <1>4, <1>5 DEF Stripped
  <2>3. \A k \in 1..Len(parts) : Within(parts[k])
    BY <1>1 DEF ChunkInv, ApartInv, InHand
  <2>4. \A k \in DOMAIN parts' : /\ section'.from <= parts'[k].from
                                  /\ parts'[k].from < section'.to
    BY <1>1, <1>7, <2>1, <2>2, <2>3 DEF Within
  <2>5. phase' \in {"split", "merge"} /\ InHand
    BY <1>1, <1>2 DEF InHand
  <2>6. QED
    BY <1>1, <1>4, <2>4, <2>5 DEF ChunkInv, ApartInv, Within, SectionsDistinct
<1>12. QED
  BY <1>9, <1>10, <1>11 DEF ChunkInv

-------------------------------------------------------------------------------
(* Merging.                                                                *)

LEMMA HoldTinyChunk == ChunkInv /\ HoldTiny => ChunkInv'
<1> SUFFICES ASSUME ChunkInv, HoldTiny PROVE ChunkInv'
  OBVIOUS
<1> USE Shapes
<1> DEFINE c == parts[taken + 1]
<1>1. /\ phase = "merge" /\ taken < Len(parts)
      /\ buf' = buf \cup {c} /\ taken' = taken + 1
      /\ UNCHANGED <<doc, phase, next, section, number, cursor, parts, out>>
  BY DEF HoldTiny
<1>2. taken + 1 \in DOMAIN parts /\ c \in Span /\ taken \in Nat
  BY <1>1 DEF ChunkInv
<1> HIDE DEF c
<1>3. TypeOK'
  BY <1>1, <1>2 DEF ChunkInv, TypeOK
<1>4. KeptInv'
  <2>1. \A i : Letter(i)' = Letter(i) /\ Chunked(i)' = Chunked(i)
    BY <1>1 DEF Letter, Chunked
  <2>2. \A i : InBuf(i)' <=> InBuf(i) \/ Inside(i, c)
    BY <1>1 DEF InBuf, Inside
  <2>3. \A i : InParts(i) => InParts(i)' \/ Inside(i, c)
    BY <1>1, <1>2 DEF InParts, Inside, c, ChunkInv
  <2>4. \A i \in 0..next - 1 : Letter(i) => Chunked(i) \/ InParts(i) \/ InBuf(i)
    BY <1>1 DEF ChunkInv, KeptInv
  <2>5. \A i \in 0..next' - 1 :
           Letter(i)' => Chunked(i)' \/ InParts(i)' \/ InBuf(i)'
    BY <1>1, <2>1, <2>2, <2>3, <2>4
  <2>6. QED
    BY <1>1, <2>5 DEF KeptInv
<1>5. ApartInv'
  <2>1. Within(c)
    BY <1>1, <1>2 DEF ChunkInv, ApartInv, InHand, c
  <2>2. QED
    BY <1>1, <2>1 DEF ChunkInv, ApartInv, InHand, Within, SectionsDistinct
<1>6. QED
  BY <1>3, <1>4, <1>5 DEF ChunkInv

LEMMA MergePartChunk == ChunkInv /\ MergePart => ChunkInv'
<1> SUFFICES ASSUME ChunkInv, MergePart PROVE ChunkInv'
  OBVIOUS
<1> USE Shapes
<1> DEFINE c == parts[taken + 1]
           new == [section |-> number, spans |-> buf \cup {c}]
<1>1. /\ phase = "merge" /\ taken < Len(parts)
      /\ out' = Append(out, new) /\ buf' = {} /\ taken' = taken + 1
      /\ UNCHANGED <<doc, phase, next, section, number, cursor, parts>>
  BY DEF MergePart, NewChunk
<1>2. taken + 1 \in DOMAIN parts /\ c \in Span /\ taken \in Nat
  BY <1>1 DEF ChunkInv
<1> HIDE DEF c
<1>3. new \in Chunk /\ new.section = number /\ new.spans = buf \cup {c}
  BY <1>2 DEF ChunkInv, TypeOK, Chunk
<1> HIDE DEF new
<1>4. out \in Seq(Chunk)
  BY DEF ChunkInv, TypeOK
<1>5. /\ out' \in Seq(Chunk) /\ DOMAIN out' = 1..Len(out) + 1
      /\ \A k \in DOMAIN out : k \in DOMAIN out' /\ out'[k] = out[k]
      /\ out'[Len(out) + 1] = new
      /\ \A k \in DOMAIN out' : k \in DOMAIN out \/ k = Len(out) + 1
      /\ Len(out) + 1 \in DOMAIN out'
  BY <1>1, <1>3, <1>4
<1>6. TypeOK'
  BY <1>1, <1>2, <1>5 DEF ChunkInv, TypeOK
<1>7. KeptInv'
  <2>1. \A i : Letter(i)' = Letter(i)
    BY <1>1 DEF Letter
  <2>2. \A i : Chunked(i) \/ InBuf(i) \/ Inside(i, c) => Chunked(i)'
    <3> SUFFICES ASSUME NEW i, Chunked(i) \/ InBuf(i) \/ Inside(i, c)
                 PROVE  Chunked(i)'
      OBVIOUS
    <3>1. CASE Chunked(i)
      <4>1. PICK k \in DOMAIN out : \E s \in out[k].spans : Inside(i, s)
        BY <3>1 DEF Chunked
      <4>2. k \in DOMAIN out' /\ out'[k] = out[k]
        BY <1>5
      <4>3. QED
        BY <4>1, <4>2 DEF Chunked, Inside
    <3>2. CASE InBuf(i) \/ Inside(i, c)
      <4>1. \E s \in out'[Len(out) + 1].spans : Inside(i, s)
        BY <1>3, <1>5, <3>2 DEF InBuf
      <4>2. QED
        BY <1>5, <4>1 DEF Chunked, Inside
    <3>3. QED
      BY <3>1, <3>2
  <2>3. \A i : InParts(i) => InParts(i)' \/ Inside(i, c)
    BY <1>1, <1>2 DEF InParts, Inside, c, ChunkInv
  <2>4. \A i \in 0..next - 1 : Letter(i) => Chunked(i) \/ InParts(i) \/ InBuf(i)
    BY <1>1 DEF ChunkInv, KeptInv
  <2>5. \A i \in 0..next' - 1 : Letter(i)' => Chunked(i)' \/ InParts(i)'
    BY <1>1, <2>1, <2>2, <2>3, <2>4
  <2>6. QED
    BY <1>1, <2>5 DEF KeptInv
<1>8. ApartInv'
  <2>1. Within(c) /\ \A s \in new.spans : Within(s)
    BY <1>1, <1>2, <1>3 DEF ChunkInv, ApartInv, InHand, c
  <2>2. \A s \in new.spans : s.from \in Nat
    BY <1>2, <1>3, ChunkerAssumption DEF ChunkInv, TypeOK, Span, Positions
  <2>3. \A h \in doc.headings : \A s, t \in new.spans : s.from < h => t.from < h
    <3>1. \A h \in doc.headings : h \in Int /\ (h <= section.from \/ section.to <= h)
      BY <1>1 DEF ChunkInv, TypeOK, ApartInv, InHand
    <3>2. section.from \in Nat /\ section.to \in Nat
      BY ChunkerAssumption DEF ChunkInv, TypeOK, Span, Positions
    <3>3. QED
      BY <2>1, <2>2, <3>1, <3>2 DEF Within
  <2>4. SectionsDistinct'
    <3>1. \A k \in DOMAIN out, h \in doc.headings :
             \A s, t \in out[k].spans : s.from < h => t.from < h
      BY DEF ChunkInv, ApartInv, SectionsDistinct
    <3>2. \A k \in DOMAIN out', h \in doc.headings :
             \A s, t \in out'[k].spans : s.from < h => t.from < h
      BY <1>5, <2>3, <3>1
    <3>3. QED
      BY <1>1, <3>2 DEF SectionsDistinct
  <2>5. \A k \in DOMAIN out' : /\ out'[k].section <= number
                               /\ out'[k].section = number =>
                                    \A s \in out'[k].spans : Within(s)
    BY <1>1, <1>3, <1>5, <2>1 DEF ChunkInv, ApartInv, InHand
  <2>6. \A k \in DOMAIN parts : Within(parts[k])
    BY <1>1 DEF ChunkInv, ApartInv, InHand
  <2>7. InHand
    BY <1>1 DEF InHand
  <2>8. QED
    BY <1>1, <2>4, <2>5, <2>6, <2>7 DEF ChunkInv, ApartInv, InHand, Within
<1>9. QED
  BY <1>6, <1>7, <1>8 DEF ChunkInv

(* At the end of a section the chunks are the old ones, and chunks of the  *)
(* section in hand that have what was held back.                           *)
LEMMA EndSectionOut ==
    ASSUME ChunkInv, EndSection
    PROVE  /\ out' \in Seq(Chunk)
           /\ \A k \in DOMAIN out : /\ k \in DOMAIN out'
                                   /\ out[k].spans \subseteq out'[k].spans
           /\ \A k \in DOMAIN out' :
                 \/ k \in DOMAIN out /\ out'[k] = out[k]
                 \/ /\ out'[k].section = number
                    /\ \A s \in out'[k].spans : Within(s)
           /\ \A s \in buf : \E k \in DOMAIN out' : s \in out'[k].spans
<1> USE Shapes
<1>1. /\ phase = "merge"
      /\ out' = IF buf = {} THEN out
                ELSE IF HasChunk THEN [out EXCEPT ![Len(out)].spans = @ \cup buf]
                ELSE Append(out, [section |-> number, spans |-> buf])
  BY DEF EndSection, NewChunk
<1>2. out \in Seq(Chunk) /\ buf \subseteq Span /\ number \in Nat
  BY DEF ChunkInv, TypeOK
<1>3. \A s \in buf : Within(s)
  BY <1>1 DEF ChunkInv, ApartInv, InHand
<1>4. CASE buf = {}
  BY <1>1, <1>2, <1>4
<1>5. CASE buf # {} /\ HasChunk
  <2> DEFINE last == Len(out)
             big == [out[last] EXCEPT !.spans = @ \cup buf]
  <2>1. last \in DOMAIN out /\ out[last].section = number
    BY <1>2, <1>5 DEF HasChunk
  <2>2. out[last] \in Chunk
    BY <1>2, <2>1
  <2>3. out' = [out EXCEPT ![last] = big]
    BY <1>1, <1>5
  <2>4. big \in Chunk /\ big.section = number
        /\ big.spans = out[last].spans \cup buf
    <3>1. \A c \in Chunk : [c EXCEPT !.spans = @ \cup buf] \in Chunk
      BY <1>2 DEF Chunk
    <3>2. \A c \in Chunk : /\ [c EXCEPT !.spans = @ \cup buf].section = c.section
                           /\ [c EXCEPT !.spans = @ \cup buf].spans
                                = c.spans \cup buf
      BY DEF Chunk
    <3>3. QED
      BY <2>1, <2>2, <3>1, <3>2
  <2>5. \A s \in big.spans : Within(s)
    BY <1>1, <1>3, <2>1, <2>4 DEF ChunkInv, ApartInv, InHand
  <2> HIDE DEF big
  <2>6. out' \in Seq(Chunk) /\ DOMAIN out' = DOMAIN out /\ out'[last] = big
        /\ \A k \in DOMAIN out : k # last => out'[k] = out[k]
    BY <1>2, <2>1, <2>3, <2>4
  <2>7. QED
    BY <2>1, <2>4, <2>5, <2>6
<1>6. CASE buf # {} /\ ~HasChunk
  <2> DEFINE new == [section |-> number, spans |-> buf]
  <2>1. out' = Append(out, new)
    BY <1>1, <1>6
  <2>2. new \in Chunk /\ new.section = number /\ new.spans = buf
    BY <1>2 DEF Chunk
  <2> HIDE DEF new
  <2>3. /\ out' \in Seq(Chunk)
        /\ \A k \in DOMAIN out : k \in DOMAIN out' /\ out'[k] = out[k]
        /\ out'[Len(out) + 1] = new /\ Len(out) + 1 \in DOMAIN out'
        /\ \A k \in DOMAIN out' : k \in DOMAIN out \/ k = Len(out) + 1
    BY <1>2, <2>1, <2>2
  <2>4. QED
    BY <1>3, <2>2, <2>3
<1>7. QED
  BY <1>4, <1>5, <1>6

LEMMA EndSectionChunk == ChunkInv /\ EndSection => ChunkInv'
<1> SUFFICES ASSUME ChunkInv, EndSection PROVE ChunkInv'
  OBVIOUS
<1> USE Shapes
<1>1. /\ phase = "merge" /\ taken = Len(parts)
      /\ buf' = {} /\ taken' = 0 /\ phase' = "section"
      /\ UNCHANGED <<doc, next, section, number, cursor, parts>>
  BY DEF EndSection
<1>2. /\ out' \in Seq(Chunk)
      /\ \A k \in DOMAIN out : /\ k \in DOMAIN out'
                              /\ out[k].spans \subseteq out'[k].spans
      /\ \A k \in DOMAIN out' :
            \/ k \in DOMAIN out /\ out'[k] = out[k]
            \/ /\ out'[k].section = number
               /\ \A s \in out'[k].spans : Within(s)
      /\ \A s \in buf : \E k \in DOMAIN out' : s \in out'[k].spans
  BY EndSectionOut
<1>3. Len(parts) \in Nat
  BY DEF ChunkInv
<1>4. TypeOK'
  BY <1>1, <1>2, <1>3 DEF ChunkInv, TypeOK
<1>5. KeptInv'
  <2>1. \A i : Letter(i)' = Letter(i)
    BY <1>1 DEF Letter
  <2>2. \A i : ~InParts(i)
    BY <1>1, <1>3 DEF InParts
  <2>3. \A i : Chunked(i) => Chunked(i)'
    BY <1>2 DEF Chunked, Inside
  <2>4. \A i : InBuf(i) => Chunked(i)'
    BY <1>2 DEF InBuf, Chunked, Inside
  <2>5. \A i \in 0..next - 1 : Letter(i) => Chunked(i) \/ InParts(i) \/ InBuf(i)
    BY <1>1 DEF ChunkInv, KeptInv
  <2>6. \A i \in 0..next' - 1 : Letter(i)' => Chunked(i)'
    BY <1>1, <2>1, <2>2, <2>3, <2>4, <2>5
  <2>7. QED
    BY <1>1, <2>6 DEF KeptInv
<1>6. ApartInv'
  <2>1. \A k \in DOMAIN out' : out'[k].section <= number'
    BY <1>1, <1>2 DEF ChunkInv, ApartInv
  <2>2. \A h \in doc.headings : h \in Int /\ (h <= section.from \/ section.to <= h)
    BY <1>1 DEF ChunkInv, TypeOK, ApartInv, InHand
  <2>3. section.from \in Nat /\ section.to \in Nat
    BY ChunkerAssumption DEF ChunkInv, TypeOK, Span, Positions
  <2>4. \A k \in DOMAIN out' : \A s \in out'[k].spans : s.from \in Nat
    <3>1. \A k \in DOMAIN out' : out'[k] \in Chunk
      BY <1>2
    <3>2. \A c \in Chunk : c.spans \subseteq Span
      BY DEF Chunk
    <3>3. \A s \in Span : s.from \in Nat
      BY ChunkerAssumption DEF Span, Positions
    <3>4. QED
      BY <3>1, <3>2, <3>3
  <2>5. \A k \in DOMAIN out', h \in doc.headings :
           \A s, t \in out'[k].spans : s.from < h => t.from < h
    <3> SUFFICES ASSUME NEW k \in DOMAIN out', NEW h \in doc.headings,
                        NEW s \in out'[k].spans, NEW t \in out'[k].spans,
                        s.from < h
                 PROVE  t.from < h
      OBVIOUS
    <3>1. CASE k \in DOMAIN out /\ out'[k] = out[k]
      BY <3>1 DEF ChunkInv, ApartInv, SectionsDistinct
    <3>2. CASE \A u \in out'[k].spans : Within(u)
      BY <2>2, <2>3, <2>4, <3>2 DEF Within
    <3>3. QED
      BY <1>2, <3>1, <3>2
  <2>6. SectionsDistinct'
    BY <1>1, <2>5 DEF SectionsDistinct
  <2>7. QED
    BY <1>1, <2>1, <2>6 DEF ApartInv, InHand
<1>7. QED
  BY <1>4, <1>5, <1>6 DEF ChunkInv

-------------------------------------------------------------------------------
LEMMA StutterChunk == ChunkInv /\ UNCHANGED vars => ChunkInv'
BY DEF ChunkInv, TypeOK, KeptInv, ApartInv, InHand, Within, InParts, InBuf,
       Inside, Letter, Chunked, SectionsDistinct, vars

LEMMA ChunkInvariant == Spec => []ChunkInv
<1>1. ChunkInv /\ [Next]_vars => ChunkInv'
  <2> SUFFICES ASSUME ChunkInv, [Next]_vars PROVE ChunkInv'
    OBVIOUS
  <2>1. CASE TakeSection
    BY <2>1, TakeSectionChunk
  <2>2. CASE Finish
    BY <2>2, FinishChunk
  <2>3. CASE KeepShort
    BY <2>3, KeepShortChunk
  <2>4. CASE CutPart
    BY <2>4, CutPartChunk
  <2>5. CASE HoldTiny
    BY <2>5, HoldTinyChunk
  <2>6. CASE MergePart
    BY <2>6, MergePartChunk
  <2>7. CASE EndSection
    BY <2>7, EndSectionChunk
  <2>8. CASE UNCHANGED vars
    BY <2>8, StutterChunk
  <2>9. QED
    BY <2>1, <2>2, <2>3, <2>4, <2>5, <2>6, <2>7, <2>8 DEF Next
<1>2. QED
  BY InitChunk, <1>1, PTL DEF Spec

(* Every variable keeps its shape: the cursor is in the section it cuts,   *)
(* and the merge never reads past the parts (chunk.py:96-231).             *)
THEOREM TypeCorrect == Spec => []TypeOK
<1>1. ChunkInv => TypeOK
  BY DEF ChunkInv
<1>2. QED
  BY ChunkInvariant, <1>1, PTL

(* No letter is lost: when chunk_documents returns, every letter of the    *)
(* document is in a chunk.                                                 *)
THEOREM NothingLost == Spec => []Lossless
<1>1. ChunkInv => Lossless
  BY DEF ChunkInv, KeptInv, Lossless
<1>2. QED
  BY ChunkInvariant, <1>1, PTL

(* No chunk has text of two sections, however tiny the last parts are.     *)
THEOREM SectionsApart == Spec => []SectionsDistinct
<1>1. ChunkInv => SectionsDistinct
  BY DEF ChunkInv, ApartInv
<1>2. QED
  BY ChunkInvariant, <1>1, PTL

-------------------------------------------------------------------------------
(* NoSliver.                                                               *)

AllTiny(k) == \A s \in out[k].spans : Tiny(s)

(* While a section is in hand its chunks come last and each has a part     *)
(* that is not tiny, so that what is left over at the end finds one of     *)
(* them there or makes the only one.                                       *)
SliverInv ==
    /\ InHand => \A k \in DOMAIN out :
                    out[k].section = number => ~AllTiny(k) /\ HasChunk
    /\ \A j, k \in DOMAIN out :
          AllTiny(k) /\ out[j].section = out[k].section => j = k

(* A step that leaves the chunks and the section in hand alone.            *)
LEMMA SameSliver ==
    ASSUME SliverInv, UNCHANGED <<out, number>>, InHand' => InHand
    PROVE  SliverInv'
<1>1. \A k : AllTiny(k)' = AllTiny(k)
  BY DEF AllTiny, Tiny, Size
<1>2. HasChunk' = HasChunk
  BY DEF HasChunk
<1>3. QED
  BY <1>1, <1>2 DEF SliverInv

LEMMA TakeSectionSliver ==
    ASSUME ChunkInv, SliverInv, TakeSection
    PROVE  SliverInv'
<1> USE Shapes
<1>1. UNCHANGED out /\ number' = number + 1
  BY DEF TakeSection
<1>2. \A k \in DOMAIN out : out[k].section # number'
  BY <1>1 DEF ChunkInv, ApartInv
<1>3. \A k : AllTiny(k)' = AllTiny(k)
  BY <1>1 DEF AllTiny, Tiny, Size
<1>4. QED
  BY <1>1, <1>2, <1>3 DEF SliverInv

(* The chunk that is added has a part that is not tiny.                    *)
LEMMA MergePartSliver ==
    ASSUME ChunkInv, SliverInv, MergePart
    PROVE  SliverInv'
<1> USE Shapes
<1> DEFINE c == parts[taken + 1]
           new == [section |-> number, spans |-> buf \cup {c}]
<1>1. /\ phase = "merge" /\ ~Tiny(c) /\ out' = Append(out, new)
      /\ UNCHANGED <<phase, number>>
  BY DEF MergePart, NewChunk
<1>2. c \in Span
  BY DEF MergePart, ChunkInv
<1>3. c \in new.spans /\ new.section = number /\ new \in Chunk
  BY <1>2 DEF ChunkInv, TypeOK, Chunk
<1> HIDE DEF c, new
<1>4. out \in Seq(Chunk)
  BY DEF ChunkInv, TypeOK
<1>5. /\ \A k \in DOMAIN out : k \in DOMAIN out' /\ out'[k] = out[k]
      /\ Len(out') = Len(out) + 1 /\ out'[Len(out')] = new /\ out' # <<>>
      /\ \A k \in DOMAIN out' : k \in DOMAIN out \/ k = Len(out')
  BY <1>1, <1>3, <1>4
<1>6. HasChunk'
  BY <1>1, <1>3, <1>5 DEF HasChunk
<1>7. \A k \in DOMAIN out : AllTiny(k)' = AllTiny(k)
  BY <1>5 DEF AllTiny, Tiny, Size
<1>8. \A k \in DOMAIN out' : k = Len(out') => ~AllTiny(k)'
  BY <1>1, <1>3, <1>5 DEF AllTiny, Tiny, Size
<1>9. \A k \in DOMAIN out : out[k].section = number => ~AllTiny(k)
  BY <1>1 DEF SliverInv, InHand
<1>10. \A k \in DOMAIN out' : out'[k].section = number => ~AllTiny(k)'
  BY <1>5, <1>7, <1>8, <1>9
<1>11. ASSUME NEW j \in DOMAIN out', NEW k \in DOMAIN out',
              AllTiny(k)', out'[j].section = out'[k].section
       PROVE  j = k
  <2>1. k \in DOMAIN out /\ AllTiny(k) /\ out'[k].section # number
    BY <1>5, <1>7, <1>8, <1>10, <1>11
  <2>2. j \in DOMAIN out
    BY <1>3, <1>5, <1>11, <2>1
  <2>3. QED
    BY <1>5, <1>11, <2>1, <2>2 DEF SliverInv
<1>12. QED
  BY <1>1, <1>6, <1>10, <1>11 DEF SliverInv

(* What is left over goes to a chunk that is not all tiny, or is the only  *)
(* chunk of the section.                                                   *)
LEMMA EndSectionSliver ==
    ASSUME ChunkInv, SliverInv, EndSection
    PROVE  SliverInv'
<1> USE Shapes
<1>1. /\ phase = "merge" /\ phase' = "section" /\ UNCHANGED number
      /\ out' = IF buf = {} THEN out
                ELSE IF HasChunk THEN [out EXCEPT ![Len(out)].spans = @ \cup buf]
                ELSE Append(out, [section |-> number, spans |-> buf])
  BY DEF EndSection, NewChunk
<1>2. ~InHand'
  BY <1>1 DEF InHand
<1>3. out \in Seq(Chunk) /\ buf \subseteq Span /\ number \in Nat
  BY DEF ChunkInv, TypeOK
<1>4. \A k \in DOMAIN out : out[k].section = number => ~AllTiny(k) /\ HasChunk
  BY <1>1 DEF SliverInv, InHand
<1>5. \A j, k \in DOMAIN out :
         AllTiny(k) /\ out[j].section = out[k].section => j = k
  BY DEF SliverInv
<1>6. CASE buf = {}
  BY <1>1, <1>2, <1>6, SameSliver
<1>7. CASE buf # {} /\ HasChunk
  <2> DEFINE last == Len(out)
             big == [out[last] EXCEPT !.spans = @ \cup buf]
  <2>1. last \in DOMAIN out /\ out[last].section = number
    BY <1>3, <1>7 DEF HasChunk
  <2>2. out[last] \in Chunk
    BY <1>3, <2>1
  <2>3. big.section = number /\ out[last].spans \subseteq big.spans
    BY <2>1, <2>2 DEF Chunk
  <2>4. out' = [out EXCEPT ![last] = big]
    BY <1>1, <1>7
  <2> HIDE DEF big
  <2>5. /\ DOMAIN out' = DOMAIN out /\ out'[last] = big
        /\ \A k \in DOMAIN out : k # last => out'[k] = out[k]
        /\ \A k \in DOMAIN out : out'[k].section = out[k].section
    BY <1>3, <2>1, <2>3, <2>4
  <2>6. \A k \in DOMAIN out : AllTiny(k)' => AllTiny(k)
    BY <2>1, <2>3, <2>5 DEF AllTiny, Tiny, Size
  <2>7. QED
    BY <1>2, <1>5, <2>5, <2>6 DEF SliverInv
<1>8. CASE buf # {} /\ ~HasChunk
  <2> DEFINE new == [section |-> number, spans |-> buf]
  <2>1. out' = Append(out, new)
    BY <1>1, <1>8
  <2>2. new \in Chunk /\ new.section = number
    BY <1>3 DEF Chunk
  <2> HIDE DEF new
  <2>3. /\ \A k \in DOMAIN out : k \in DOMAIN out' /\ out'[k] = out[k]
        /\ out'[Len(out')] = new
        /\ \A k \in DOMAIN out' : k \in DOMAIN out \/ k = Len(out')
    BY <1>3, <2>1, <2>2
  <2>4. \A k \in DOMAIN out : out[k].section # number
    BY <1>4, <1>8
  <2>5. \A k \in DOMAIN out : AllTiny(k)' = AllTiny(k)
    BY <2>3 DEF AllTiny, Tiny, Size
  <2>6. QED
    BY <1>2, <1>5, <2>2, <2>3, <2>4, <2>5 DEF SliverInv
<1>9. QED
  BY <1>6, <1>7, <1>8

LEMMA SliverInvariant == Spec => []SliverInv
<1>1. Init => SliverInv
  BY DEF Init, SliverInv, InHand
<1>2. ChunkInv /\ SliverInv /\ [Next]_vars => SliverInv'
  <2> SUFFICES ASSUME ChunkInv, SliverInv, [Next]_vars PROVE SliverInv'
    OBVIOUS
  <2>1. CASE TakeSection
    BY <2>1, TakeSectionSliver
  <2>2. CASE MergePart
    BY <2>2, MergePartSliver
  <2>3. CASE EndSection
    BY <2>3, EndSectionSliver
  <2>4. CASE Finish \/ KeepShort \/ CutPart \/ HoldTiny \/ UNCHANGED vars
    <3>1. UNCHANGED <<out, number>> /\ (InHand' => InHand)
      BY <2>4 DEF Finish, KeepShort, CutPart, HoldTiny, InHand, vars
    <3>2. QED
      BY <3>1, SameSliver
  <2>5. QED
    BY <2>1, <2>2, <2>3, <2>4 DEF Next
<1>3. QED
  BY <1>1, <1>2, ChunkInvariant, PTL DEF Spec

(* Tiny parts are merged: a chunk of tiny parts only is the one chunk of   *)
(* its section (chunk.py, _merge_tiny_in_section).                         *)
THEOREM NoSlivers == Spec => []NoSliver
<1>1. SliverInv => NoSliver
  BY DEF SliverInv, NoSliver, AllTiny
<1>2. QED
  BY SliverInvariant, <1>1, PTL

-------------------------------------------------------------------------------
(* Behind the extractors.                                                  *)

(* Chunker and the extractors do not disturb each other.                   *)
LEMMA ChunkStep == [DocumentsNext]_<<vars, dvars>> => [Next]_vars
BY DEF DocumentsNext, vars

(* A document that comes from an extractor is chunked as module Chunker    *)
(* says (pipeline: dispatch, then chunk_documents).                        *)
THEOREM Chunks == DocumentsSpec => Spec
<1>1. DocumentsInit => Init
  BY DEF DocumentsInit
<1> QED
  BY <1>1, ChunkStep, PTL DEF DocumentsSpec, Spec

(* Behind the extractors, too, no letter of a document is lost.            *)
THEOREM DocumentsLossless == DocumentsSpec => []Lossless
BY Chunks, NothingLost

(* Behind the extractors, too, no chunk has text of two sections.          *)
THEOREM DocumentsSections == DocumentsSpec => []SectionsDistinct
BY Chunks, SectionsApart

(* Behind the extractors, too, tiny parts are merged.                      *)
THEOREM DocumentsSlivers == DocumentsSpec => []NoSliver
BY Chunks, NoSlivers
-------------------------------------------------------------------------------
(* IdsDistinct.                                                            *)

IsSequence(s) == \E S : s \in Seq(S)

(* The extractors that number their documents, and the number that the     *)
(* next document gets.                                                     *)
Numbered == file.kind \in {"pdf", "docx", "TX", "PL"}
NextKey == IF file.kind = "pdf" THEN at ELSE keys

(* Numbers are used up in order.                                           *)
NumbersInv ==
    Numbered =>
        /\ \A d \in DOMAIN docs : docs[d].key \in Nat /\ docs[d].key < NextKey
        /\ \A c, d \in DOMAIN docs : c # d => docs[c].key # docs[d].key

(* A message is a document by itself, and has the id of its Message-ID.    *)
MessagesInv ==
    file.kind \in {"eml", "mbox"} =>
        /\ Len(docs) < at /\ at <= Len(file.items) + 1
        /\ \A d \in DOMAIN docs :
              \E i \in 1..at - 1 : docs[d].items = {i} /\ docs[d].key = Item(i)
        /\ \A c, d \in DOMAIN docs : c # d => docs[c].items # docs[d].items

IdsInv ==
    /\ at \in Nat \ {0} /\ keys \in Nat
    /\ IsSequence(docs)
    /\ file = Plain \/ file \in Files
    /\ file = Plain => docs = <<>> /\ step = "done"
    /\ step = "emit" => file.kind = "PL"
    /\ NumbersInv
    /\ MessagesInv

LEMMA Appended ==
    ASSUME NEW s, IsSequence(s), NEW e
    PROVE  /\ IsSequence(Append(s, e))
           /\ Len(s) \in Nat /\ DOMAIN s = 1..Len(s)
           /\ Len(Append(s, e)) = Len(s) + 1
           /\ DOMAIN Append(s, e) = 1..Len(s) + 1
           /\ \A i \in DOMAIN s : Append(s, e)[i] = s[i]
           /\ Append(s, e)[Len(s) + 1] = e
<1>1. PICK S : s \in Seq(S)
  BY DEF IsSequence
<1>2. s \in Seq(S \cup {e})
  BY <1>1
<1>3. Append(s, e) \in Seq(S \cup {e})
  BY <1>2
<1> QED
  BY <1>2, <1>3 DEF IsSequence

LEMMA MessageFile ==
    ASSUME file = Plain \/ file \in Files, file.kind \in {"eml", "mbox"}
    PROVE  /\ Len(file.items) \in Nat
           /\ file.kind = "eml" => Len(file.items) = 1
BY DocumentsAssumption DEF Plain, Kinds

(* A step that adds no document.                                           *)
LEMMA NothingEmitted ==
    ASSUME IdsInv, UNCHANGED <<file, docs>>,
           at' \in {at, at + 1}, keys' \in {keys, keys + 1},
           file.kind \in {"eml", "mbox"} => at' = at \/ ~AtEnd,
           file = Plain => step' = "done",
           step' = "emit" => file.kind = "PL"
    PROVE  IdsInv'
<1>1. NumbersInv'
  BY DEF IdsInv, NumbersInv, Numbered, NextKey
<1>2. MessagesInv'
  <2>1. SUFFICES ASSUME file.kind \in {"eml", "mbox"} PROVE MessagesInv'
    BY DEF MessagesInv
  <2>2. Len(docs) \in Nat /\ Len(file.items) \in Nat
    BY <2>1, Appended, MessageFile DEF IdsInv
  <2>3. at \in Nat /\ at' \in Nat /\ at <= at' /\ at' <= Len(file.items) + 1
    BY <2>1, <2>2 DEF IdsInv, MessagesInv, AtEnd
  <2>4. /\ Len(docs) < at
        /\ \A d \in DOMAIN docs :
              \E i \in 1..at - 1 : docs[d].items = {i} /\ docs[d].key = Item(i)
        /\ \A c, d \in DOMAIN docs : c # d => docs[c].items # docs[d].items
    BY <2>1 DEF IdsInv, MessagesInv
  <2>5. ASSUME NEW d \in DOMAIN docs
        PROVE \E i \in 1..at' - 1 : docs'[d].items = {i} /\ docs'[d].key = Item(i)'
    <3>1. PICK i \in 1..at - 1 : docs[d].items = {i} /\ docs[d].key = Item(i)
      BY <2>4
    <3>2. docs'[d].items = {i} /\ docs'[d].key = Item(i)'
      BY <3>1 DEF Item
    <3>3. ASSUME NEW m \in Nat, NEW n \in Nat, m <= n, i \in 1..m - 1
          PROVE  i \in 1..n - 1
      BY <3>3
    <3>4. i \in 1..at' - 1
      BY <3>3, <2>3
    <3> QED
      BY <3>2, <3>4
  <2>6. Len(docs') < at' /\ at' <= Len(file'.items) + 1
    BY <2>2, <2>3, <2>4
  <2>7. DOMAIN docs' = DOMAIN docs
    OBVIOUS
  <2>8. \A c, d \in DOMAIN docs' : c # d => docs'[c].items # docs'[d].items
    BY <2>4
  <2> QED
    BY <2>5, <2>6, <2>7, <2>8, Zenon DEF MessagesInv
<1> QED
  BY <1>1, <1>2 DEF IdsInv, IsSequence

(* A numbered document gets the number that is next, which is then used.   *)
LEMMA NumberEmitted ==
    ASSUME IdsInv, Numbered, UNCHANGED file,
           NEW items, NEW cites, Emit(Document(NextKey, items, cites, "whole")),
           at' \in {at, at + 1}, keys' \in {keys, keys + 1},
           NextKey' = NextKey + 1,
           step' = "emit" => file.kind = "PL"
    PROVE  IdsInv'
<1> DEFINE d0 == Document(NextKey, items, cites, "whole")
<1>1. /\ docs' = Append(docs, d0)
      /\ d0.key = NextKey
      /\ NextKey \in Nat
  BY DEF Emit, Document, NextKey, IdsInv
<1>2. /\ IsSequence(docs')
      /\ Len(docs) \in Nat /\ DOMAIN docs = 1..Len(docs)
      /\ DOMAIN docs' = 1..Len(docs) + 1
      /\ \A i \in DOMAIN docs : docs'[i] = docs[i]
      /\ docs'[Len(docs) + 1] = d0
  BY <1>1, Appended DEF IdsInv
<1>3. NumbersInv'
  BY <1>1, <1>2 DEF IdsInv, NumbersInv, Numbered
<1>4. file.kind \notin {"eml", "mbox"} /\ file # Plain
  BY DEF Numbered, Plain
<1>5. MessagesInv'
  BY <1>4 DEF MessagesInv
<1>6. at' \in Nat \ {0} /\ keys' \in Nat
  BY DEF IdsInv
<1> QED
  BY <1>2, <1>3, <1>4, <1>5, <1>6 DEF IdsInv

LEMMA MessageIds == IdsInv /\ ReadMessage => IdsInv'
<1> SUFFICES ASSUME IdsInv, ReadMessage PROVE IdsInv'
  OBVIOUS
<1> DEFINE text == IF file.kind = "mbox" THEN "headers" ELSE "whole"
<1> HIDE DEF text
<1>1. CASE UNCHANGED docs
  BY <1>1, NothingEmitted DEF ReadMessage, Reading, Next1, IdsInv
<1>2. CASE Emit(Document(Item(at), {at}, at, text))
  <2> DEFINE d0 == Document(Item(at), {at}, at, text)
  <2>1. docs' = Append(docs, d0) /\ d0.key = Item(at) /\ d0.items = {at}
    BY <1>2 DEF Emit, Document
  <2>2. /\ IsSequence(docs')
        /\ Len(docs) \in Nat /\ DOMAIN docs = 1..Len(docs)
        /\ Len(docs') = Len(docs) + 1
        /\ DOMAIN docs' = 1..Len(docs) + 1
        /\ \A i \in DOMAIN docs : docs'[i] = docs[i]
        /\ docs'[Len(docs) + 1] = d0
    BY <2>1, Appended DEF IdsInv
  <2>3. /\ file' = file /\ at' = at + 1 /\ keys' = keys /\ step' = step
        /\ at \in Nat \ {0}
        /\ file.kind \in {"eml", "mbox"}
    BY DEF ReadMessage, Reading, Next1, IdsInv
  <2>4. /\ Len(docs) < at
        /\ \A d \in DOMAIN docs :
              \E i \in 1..at - 1 : docs[d].items = {i} /\ docs[d].key = Item(i)
        /\ \A c, d \in DOMAIN docs : c # d => docs[c].items # docs[d].items
    BY <2>3 DEF IdsInv, MessagesInv
  <2>5. Len(docs') < at' /\ at' <= Len(file.items) + 1
    <3>1. at <= Len(file.items) /\ Len(file.items) \in Nat
      BY <2>3, MessageFile DEF ReadMessage, AtEnd, IdsInv
    <3> QED
      BY <3>1, <2>2, <2>3, <2>4
  <2>6. ASSUME NEW d \in DOMAIN docs'
        PROVE \E i \in 1..at' - 1 : docs'[d].items = {i} /\ docs'[d].key = Item(i)'
    <3>1. CASE d \in DOMAIN docs
      <4>1. PICK i \in 1..at - 1 : docs[d].items = {i} /\ docs[d].key = Item(i)
        BY <3>1, <2>4
      <4>2. docs'[d].items = {i} /\ docs'[d].key = Item(i)'
        BY <3>1, <4>1, <2>2, <2>3 DEF Item
      <4>3. i \in 1..at' - 1
        BY <2>3
      <4> QED
        BY <4>2, <4>3
    <3>2. CASE d = Len(docs) + 1
      <4>1. PICK i \in Nat : i = at
        BY <2>3
      <4>2. docs'[d].items = {i} /\ docs'[d].key = Item(i)'
        BY <4>1, <3>2, <2>1, <2>2, <2>3 DEF Item
      <4>3. i \in 1..at' - 1
        BY <4>1, <2>3
      <4> QED
        BY <4>2, <4>3
    <3> QED
      BY <3>1, <3>2, <2>2
  <2>7. ASSUME NEW c \in DOMAIN docs', NEW d \in DOMAIN docs', c # d
        PROVE docs'[c].items # docs'[d].items
    <3>1. ASSUME NEW e \in DOMAIN docs PROVE docs[e].items # {at}
      <4>1. PICK i \in 1..at - 1 : docs[e].items = {i}
        BY <2>4
      <4>2. i # at
        BY <2>3
      <4> QED
        BY <4>1, <4>2
    <3>2. docs'[Len(docs) + 1].items = {at}
      BY <2>1, <2>2
    <3>3. CASE c \in DOMAIN docs /\ d \in DOMAIN docs
      BY <3>3, <2>2, <2>4, <2>7
    <3>4. CASE c \in DOMAIN docs /\ d = Len(docs) + 1
      BY <3>4, <2>2, <3>1, <3>2
    <3>5. CASE d \in DOMAIN docs /\ c = Len(docs) + 1
      BY <3>5, <2>2, <3>1, <3>2
    <3> QED
      BY <2>2, <2>7, <3>3, <3>4, <3>5
  <2>8. MessagesInv'
    BY <2>3, <2>5, <2>6, <2>7 DEF MessagesInv
  <2> QED
    BY <2>2, <2>3, <2>8 DEF IdsInv, NumbersInv, Numbered, Plain
<1> QED
  BY <1>1, <1>2 DEF ReadMessage, text

LEMMA ExtractIds == IdsInv /\ Extract => IdsInv'
<1> SUFFICES ASSUME IdsInv, Extract PROVE IdsInv'
  OBVIOUS
<1> USE DEF Reading, Next1, Done
<1>1. CASE Register \/ Unregister \/ Dispatch
  BY <1>1, NothingEmitted DEF Register, Unregister, Dispatch, reading, IdsInv
<1>2. CASE ReadPage
  <2>1. CASE UNCHANGED docs
    BY <1>2, <2>1, NothingEmitted DEF ReadPage, IdsInv
  <2>2. CASE Emit(Document(at, {at}, at, "whole"))
    <3>1. Numbered /\ NextKey = at /\ NextKey' = NextKey + 1
      BY <1>2 DEF ReadPage, Numbered, NextKey
    <3> QED
      BY <1>2, <2>2, <3>1, NumberEmitted DEF ReadPage, IdsInv
  <2> QED
    BY <1>2, <2>1, <2>2 DEF ReadPage
<1>3. CASE ReadParagraph
  <2>1. CASE UNCHANGED docs
    BY <1>3, <2>1, NothingEmitted DEF ReadParagraph, Flush, IdsInv, Plain
  <2>2. CASE docs' # docs
    <3>1. Emit(Document(keys, Kept(held), mark, "whole")) /\ keys' = keys + 1
      BY <1>3, <2>2 DEF ReadParagraph, Flush
    <3>2. Numbered /\ NextKey = keys /\ NextKey' = NextKey + 1
      BY <1>3, <3>1 DEF ReadParagraph, Numbered, NextKey
    <3> QED
      BY <1>3, <3>1, <3>2, NumberEmitted DEF ReadParagraph, IdsInv
  <2> QED
    BY <2>1, <2>2
<1>4. CASE ReadMessage
  BY <1>4, MessageIds
<1>5. CASE Raises \/ ReadPleading \/ Return
  BY <1>5, NothingEmitted DEF Raises, ReadPleading, Return, IdsInv, Plain
<1>6. CASE ReadLine
  <2>1. CASE UNCHANGED docs
    BY <1>6, <2>1, NothingEmitted DEF ReadLine, FlushLines, IdsInv, Plain
  <2>2. CASE docs' # docs
    <3>1. /\ Emit(Document(keys, Kept(held), Page(Kept(held)), "whole"))
          /\ keys' = keys + 1
      BY <1>6, <2>2 DEF ReadLine, FlushLines
    <3>2. Numbered /\ NextKey = keys /\ NextKey' = NextKey + 1
      BY <1>6, <3>1 DEF ReadLine, Numbered, NextKey
    <3> QED
      BY <1>6, <3>1, <3>2, NumberEmitted DEF ReadLine, IdsInv
  <2> QED
    BY <2>1, <2>2
<1>7. CASE EmitBlock
  <2> DEFINE lines == UNION {Block[i] : i \in DOMAIN Block}
             cites == IF Opens(Kept(lines)) THEN First(lines) ELSE 0
  <2>1. CASE UNCHANGED <<docs, keys>>
    BY <1>7, <2>1, NothingEmitted DEF EmitBlock, IdsInv, Plain
  <2>2. CASE Emit(Document(keys, Kept(lines), cites, "whole")) /\ keys' = keys + 1
    <3>1. Numbered /\ NextKey = keys /\ NextKey' = NextKey + 1
      BY <1>7, <2>2 DEF EmitBlock, Numbered, NextKey, IdsInv
    <3> QED
      BY <1>7, <2>2, <3>1, NumberEmitted DEF EmitBlock, IdsInv
  <2> QED
    BY <1>7, <2>1, <2>2 DEF EmitBlock
<1> QED
  BY <1>1, <1>2, <1>3, <1>4, <1>5, <1>6, <1>7 DEF Extract

LEMMA InitIds == DocumentsInit => IdsInv
<1> SUFFICES ASSUME DocumentsInit PROVE IdsInv
  OBVIOUS
<1>1. IsSequence(docs)
  BY DEF DocumentsInit, IsSequence
<1> QED
  BY <1>1 DEF DocumentsInit, IdsInv, NumbersInv, MessagesInv

LEMMA NextIds == IdsInv /\ [DocumentsNext]_<<vars, dvars>> => IdsInv'
<1> SUFFICES ASSUME IdsInv, [DocumentsNext]_<<vars, dvars>> PROVE IdsInv'
  OBVIOUS
<1>1. CASE UNCHANGED dvars
  BY <1>1, NothingEmitted DEF dvars, reading, IdsInv
<1>2. CASE Extract
  BY <1>2, ExtractIds
<1> QED
  BY <1>1, <1>2 DEF DocumentsNext

LEMMA IdsInvariant == DocumentsSpec => []IdsInv
BY InitIds, NextIds, PTL DEF DocumentsSpec

(* The documents of a file have different ids, whatever the extractor and  *)
(* however many pages, sections, lines or paragraphs the file has; those   *)
(* of an mbox if its messages have Message-IDs of their own.               *)
THEOREM IdsApart == DocumentsSpec => []IdsDistinct
<1>1. IdsInv => IdsDistinct
  <2> SUFFICES ASSUME IdsInv, NEW c \in DOMAIN docs, NEW d \in DOMAIN docs,
                      c # d, docs[c].key = docs[d].key
               PROVE  file.kind = "mbox" /\ \E i \in docs[c].items, j \in docs[d].items :
                                               i # j /\ Item(i) = Item(j)
    BY DEF IdsDistinct
  <2>1. file \in Files /\ file.kind \in Kinds
    BY DocumentsAssumption DEF IdsInv
  <2>2. ~Numbered
    BY DEF IdsInv, NumbersInv
  <2>3. file.kind = "mbox"
    <3>1. CASE file.kind = "eml"
      <4>1. Len(docs) \in Nat /\ DOMAIN docs = 1..Len(docs) /\ Len(docs) <= 1
        <5>1. Len(docs) \in Nat /\ DOMAIN docs = 1..Len(docs)
          BY Appended DEF IdsInv
        <5>2. Len(file.items) = 1
          BY <3>1, MessageFile DEF IdsInv
        <5>3. Len(docs) < at /\ at <= Len(file.items) + 1 /\ at \in Nat
          BY <3>1 DEF IdsInv, MessagesInv
        <5> QED
          BY <5>1, <5>2, <5>3
      <4>2. c = 1 /\ d = 1
        BY <4>1
      <4> QED
        BY <4>2
    <3> QED
      BY <2>1, <2>2, <3>1 DEF Numbered, Kinds
  <2>4. \E i \in docs[c].items, j \in docs[d].items : i # j /\ Item(i) = Item(j)
    <3>1. /\ \A e \in DOMAIN docs :
                \E i \in 1..at - 1 : docs[e].items = {i} /\ docs[e].key = Item(i)
          /\ docs[c].items # docs[d].items
      BY <2>3 DEF IdsInv, MessagesInv
    <3>2. PICK i \in 1..at - 1 : docs[c].items = {i} /\ docs[c].key = Item(i)
      BY <3>1
    <3>3. PICK j \in 1..at - 1 : docs[d].items = {j} /\ docs[d].key = Item(j)
      BY <3>1
    <3>4. i # j /\ Item(i) = Item(j) /\ i \in docs[c].items /\ j \in docs[d].items
      BY <3>1, <3>2, <3>3
    <3> QED
      BY <3>4
  <2> QED
    BY <2>3, <2>4
<1> QED
  BY IdsInvariant, <1>1, PTL
-------------------------------------------------------------------------------
(* TextKept and CitedRight.                                                *)

Below(S, T) == \A i \in S, j \in T : i < j
Grouped(i) == \E g \in DOMAIN groups : i \in groups[g]
IsHead(i) == Item(i) \in {"head", "mark"}

(* How far the file is read, in each step.                                 *)
ReadInv ==
    /\ at <= Len(file.items) + 1
    /\ \/ dispatch = "base" /\ original = <<>>
       \/ dispatch = "pack" /\ original = <<"base">>
    /\ step \in {"wire", "read", "emit", "done", "raised"}
    /\ step = "wire" => /\ at = 1 /\ docs = <<>>
                        /\ mark = 0 /\ keys = 0 /\ used = 0
    /\ WasRead => at = Len(file.items) + 1 /\ held = {} /\ groups = <<>>
    /\ held \subseteq 1..at - 1
    /\ mark \in 0..at - 1
    /\ keys <= at /\ (step = "read" => keys < at)
    /\ used \in 0..MaxOcrPages

(* What was read is in a document, or waits for it; the documents are in   *)
(* order, and what waits comes after them.                                 *)
PlaceInv ==
    /\ \A d \in DOMAIN docs : /\ docs[d].items \subseteq 1..at - 1
                              /\ docs[d].items # {}
                              /\ Below(docs[d].items, held)
    /\ InOrder
    /\ \A i \in 1..at - 1 :
          HasText(i) => i \in held \/ Grouped(i) \/ Homes(i) # {}

(* A scanned page is missing only if the cap was used up before it.        *)
Scanned(n) == {j \in 1..n - 1 : Item(j) \in {"scan", "blank"}}
PagesInv ==
    /\ file.kind \in {"pdf", "eml", "mbox"} => held = {}
    /\ file.kind = "pdf" =>
          /\ used <= Cardinality(Scanned(at))
          /\ \A i \in 1..at - 1 :
                Missing(i) => Cardinality(Scanned(i)) >= MaxOcrPages

(* The last heading or marker is the mark, or opens what waits: a heading  *)
(* of a Word file never waits.                                             *)
MarksInv ==
    file.kind \in {"docx", "TX"} =>
        /\ mark # 0 => IsHead(mark)
        /\ \A i \in 1..at - 1 : IsHead(i) => i <= mark \/ i \in held
        /\ \A i \in held : mark < i
        /\ \A i \in held : IsHead(i) =>
              file.kind = "TX" /\ \A j \in held : i <= j
        /\ file.kind = "TX" => Cardinality(held) <= LinesPerChunk

(* Lines of a pleading of which at most the first is numbered.             *)
Paragraph(S) ==
    /\ S # {}
    /\ \A i \in S : Item(i) = "num" => \A j \in S : i <= j

(* The paragraphs of a pleading are in order, and only the first of them   *)
(* may be a preface, as long as there is no document.                      *)
GroupsInv ==
    /\ file.kind # "PL" => groups = <<>>
    /\ file.kind = "PL" =>
          /\ groups \in Seq(SUBSET (1..at - 1))
          /\ step \in {"wire", "read"} => docs = <<>> /\ keys = 0
          /\ step = "read" /\ held = {} => groups = <<>>
          /\ step \notin {"wire", "read"} => held = {}
          /\ step = "wire" => groups = <<>>
          /\ step = "emit" => at = Len(file.items) + 1
          /\ keys + Len(groups) + (IF held = {} THEN 0 ELSE 1) < at
          /\ \A g \in DOMAIN groups :
                /\ Paragraph(groups[g])
                /\ Below(groups[g], held)
                /\ g # 1 \/ docs # <<>> => Opens(groups[g])
                /\ \A h \in DOMAIN groups : g < h => Below(groups[g], groups[h])
                /\ \A d \in DOMAIN docs : Below(docs[d].items, groups[g])
          /\ held # {} => /\ Paragraph(held)
                          /\ groups # <<>> => Opens(held)

FileInv == ReadInv /\ PlaceInv /\ PagesInv /\ MarksInv /\ GroupsInv /\ CitedRight

-------------------------------------------------------------------------------
(* The file, and the first of some of its items.                           *)

LEMMA FileShape ==
    ASSUME IdsInv
    PROVE  /\ Len(file.items) \in Nat
           /\ file.kind \in Kinds \cup {"plain"}
           /\ file = Plain <=> file.kind = "plain"
           /\ file = Plain => Len(file.items) = 0
           /\ \A i \in 1..Len(file.items) :
                 file.kind # "plain" => Item(i) \in ItemsOf(file.kind)
<1>1. CASE file = Plain
  BY <1>1 DEF Plain
<1>2. CASE file \in Files
  <2>1. /\ file.kind \in Kinds
        /\ file.items \in Seq(ItemsOf(file.kind))
    BY <1>2, DocumentsAssumption
  <2>2. file.kind # "plain" /\ file # Plain
    BY <2>1 DEF Kinds, Plain
  <2> DEFINE S == ItemsOf(file.kind)
             s == file.items
  <2>3. s \in Seq(S)
    BY <2>1
  <2> HIDE DEF S, s
  <2>4. Len(s) \in Nat /\ \A i \in 1..Len(s) : s[i] \in S
    BY <2>3
  <2>5. QED
    BY <2>1, <2>2, <2>4 DEF S, s, Item
<1>3. QED
  BY <1>1, <1>2 DEF IdsInv

LEMMA FirstOf ==
    ASSUME NEW S \in SUBSET Nat, S # {}
    PROVE  First(S) \in S /\ \A j \in S : First(S) <= j
<1> DEFINE R == {p \in Nat \X Nat : p[1] < p[2]}
<1>1. OpToRel(<, Nat) = R
  BY DEF OpToRel
<1>2. IsWellFoundedOn(R, Nat)
  BY <1>1, NatLessThanWellFounded
<1>3. PICK i \in S : \A j \in S : <<j, i>> \notin R
  BY <1>2, WFMin
<1>4. \A j \in S : i <= j
  <2>1. SUFFICES ASSUME NEW j \in S PROVE i <= j
    OBVIOUS
  <2>2. i \in Nat /\ j \in Nat /\ <<j, i>> \notin R
    BY <1>3
  <2>3. QED
    BY <2>2
<1>5. QED
  BY <1>4 DEF First

LEMMA FirstIs ==
    ASSUME NEW S \in SUBSET Nat, NEW i \in S, \A j \in S : i <= j
    PROVE  First(S) = i
<1>1. First(S) \in S /\ First(S) <= i
  BY FirstOf
<1>2. First(S) \in Nat /\ i \in Nat /\ i <= First(S)
  BY <1>1
<1>3. QED
  BY <1>1, <1>2

LEMMA KeptOf ==
    ASSUME NEW S
    PROVE  /\ Kept(S) \subseteq S
           /\ \A i \in S : i \in Kept(S) <=> Item(i) # "blank"
           /\ Blank(S) <=> Kept(S) = {}
BY DEF Kept, Blank

-------------------------------------------------------------------------------
(* Adding a document.                                                      *)

(* What the citation names is right for these items.                       *)
Names(items, m) ==
    LET first == First(items)
        Marks == {i \in 1..first : Item(i) \in {"head", "mark"}}
    IN  CASE file.kind \in {"docx", "TX"} ->
               IF Marks = {} THEN m = 0
               ELSE m \in Marks /\ \A i \in Marks : i <= m
          [] file.kind = "PL" -> m = IF Item(first) = "num" THEN first ELSE 0
          [] OTHER -> TRUE

Numbers(items) == {i \in items : Item(i) = "num"}
Limited(items) ==
    /\ file.kind = "TX" => Cardinality(items) <= LinesPerChunk
    /\ file.kind = "PL" =>
          /\ Cardinality(Numbers(items)) <= ParasPerChunk
          /\ Numbers(items) # {} => Opens(items)
          /\ docs # <<>> => Opens(items)

LEMMA Placed ==
    ASSUME IdsInv, PlaceInv, CitedRight, UNCHANGED file,
           NEW key, NEW items \in SUBSET Nat, NEW cites, NEW text, items # {},
           Emit(Document(key, items, cites, text)),
           \A d \in DOMAIN docs : Below(docs[d].items, items),
           Names(items, cites), Limited(items)
    PROVE  /\ \A d \in DOMAIN docs' : \/ d \in DOMAIN docs /\ docs'[d] = docs[d]
                                     \/ docs'[d].items = items
           /\ \A i : Homes(i) # {} \/ i \in items => Homes(i)' # {}
           /\ docs' # <<>>
           /\ InOrder'
           /\ CitedRight'
<1> DEFINE d0 == Document(key, items, cites, text)
           n == Len(docs) + 1
<1>1. /\ docs' = Append(docs, d0)
      /\ d0.items = items /\ d0.mark = cites
  BY DEF Emit, Document
<1> HIDE DEF d0
<1>2. /\ Len(docs) \in Nat /\ DOMAIN docs = 1..Len(docs)
      /\ DOMAIN docs' = 1..Len(docs) + 1
      /\ \A d \in DOMAIN docs : docs'[d] = docs[d]
      /\ docs'[Len(docs) + 1] = d0
  BY <1>1, Appended DEF IdsInv
<1>3. \A d \in DOMAIN docs' : d \in DOMAIN docs \/ d = n
  BY <1>2
<1>4. n \in DOMAIN docs' /\ docs'[n].items = items /\ docs'[n].mark = cites
  BY <1>1, <1>2
<1>5. \A d \in DOMAIN docs : d \in DOMAIN docs' /\ docs'[d] = docs[d] /\ d < n
  BY <1>2
<1>6. n \in Nat /\ DOMAIN docs' \subseteq Nat
  BY <1>2
<1> HIDE DEF n
<1>7. docs' # <<>>
  BY <1>4
<1>8. \A d \in DOMAIN docs' : \/ d \in DOMAIN docs /\ docs'[d] = docs[d]
                             \/ docs'[d].items = items
  BY <1>3, <1>4, <1>5
<1>9. \A i : Homes(i) # {} \/ i \in items => Homes(i)' # {}
  <2>1. \A i : Homes(i)' = {d \in DOMAIN docs' : i \in docs'[d].items}
    BY DEF Homes
  <2>2. \A i : Homes(i) = {d \in DOMAIN docs : i \in docs[d].items}
    BY DEF Homes
  <2>3. QED
    BY <2>1, <2>2, <1>4, <1>5
<1>10. InOrder'
  <2>1. ASSUME NEW c \in DOMAIN docs', NEW d \in DOMAIN docs', c < d
        PROVE  Below(docs'[c].items, docs'[d].items)
    <3>1. c \in DOMAIN docs
      BY <1>3, <1>5, <1>6, <2>1
    <3>2. CASE d = n
      BY <1>4, <1>5, <3>1, <3>2
    <3>3. CASE d \in DOMAIN docs
      BY <1>5, <2>1, <3>1, <3>3 DEF PlaceInv, InOrder, Below
    <3>4. QED
      BY <1>3, <3>2, <3>3
  <2>2. QED
    BY <2>1 DEF InOrder, Below
<1>11. \A d \in DOMAIN docs' : Names(docs'[d].items, docs'[d].mark)
  BY <1>3, <1>4, <1>5 DEF CitedRight, NamesPlace, Names
<1>12. ASSUME NEW d \in DOMAIN docs'
       PROVE  /\ file.kind = "TX" => Cardinality(docs'[d].items) <= LinesPerChunk
              /\ file.kind = "PL" =>
                    /\ Cardinality(Numbers(docs'[d].items)) <= ParasPerChunk
                    /\ Numbers(docs'[d].items) # {} => Opens(docs'[d].items)
                    /\ \A c \in DOMAIN docs' : c > d => Opens(docs'[c].items)
  <2>1. CASE d = n
    <3>1. \A c \in DOMAIN docs' : ~(c > n)
      BY <1>3, <1>5, <1>6
    <3>2. QED
      BY <1>4, <2>1, <3>1 DEF Limited
  <2>2. CASE d \in DOMAIN docs
    <3>1. /\ file.kind = "TX" => Cardinality(docs[d].items) <= LinesPerChunk
          /\ file.kind = "PL" =>
                /\ Cardinality(Numbers(docs[d].items)) <= ParasPerChunk
                /\ Numbers(docs[d].items) # {} => Opens(docs[d].items)
                /\ \A c \in DOMAIN docs : c > d => Opens(docs[c].items)
      BY <2>2 DEF CitedRight, Bounded, Numbers
    <3>2. docs # <<>>
      BY <2>2
    <3>3. file.kind = "PL" => Opens(items)
      BY <3>2 DEF Limited
    <3>4. QED
      BY <1>3, <1>4, <1>5, <2>2, <3>1, <3>3
  <2>3. QED
    BY <1>3, <2>1, <2>2
<1>13. CitedRight'
  <2>1. \A d \in DOMAIN docs' : NamesPlace(d)'
    BY <1>11 DEF NamesPlace, Names, Item
  <2>2. \A d \in DOMAIN docs' : Bounded(d)'
    BY <1>12 DEF Bounded, Numbers, Opens, Item
  <2>3. QED
    BY <2>1, <2>2 DEF CitedRight
<1>14. QED
  BY <1>7, <1>8, <1>9, <1>10, <1>13

-------------------------------------------------------------------------------
(* Steps that read nothing.                                                *)

LEMMA NothingRead ==
    ASSUME FileInv, UNCHANGED <<file, reading>>, ReadInv', GroupsInv'
    PROVE  FileInv'
<1> USE DEF reading
<1>1. \A i : Item(i)' = Item(i)
  BY DEF Item
<1>2. PlaceInv'
  BY DEF FileInv, PlaceInv, Below, InOrder, HasText, Item, Grouped, Homes
<1>3. PagesInv'
  BY DEF FileInv, PagesInv, Scanned, Missing, Homes, Item
<1>4. MarksInv'
  BY DEF FileInv, MarksInv, IsHead, Item
<1>5. CitedRight'
  BY DEF FileInv, CitedRight, NamesPlace, Bounded, Opens, Item
<1>6. QED
  BY <1>2, <1>3, <1>4, <1>5 DEF FileInv

LEMMA UnreadFile ==
    ASSUME IdsInv, FileInv,
           Register \/ Unregister \/ Dispatch \/ Raises \/ Return
    PROVE  FileInv'
<1> USE DEF FileInv
<1>1. UNCHANGED <<file, reading>>
  BY DEF Register, Unregister, Dispatch, Raises, Return, Done, reading
<1>2. /\ Len(file.items) \in Nat
      /\ file.kind \in Kinds \cup {"plain"}
      /\ file = Plain <=> file.kind = "plain"
      /\ file = Plain => step = "done"
      /\ at \in Nat
  BY FileShape DEF IdsInv
<1>3. ReadInv'
  <2>1. CASE Register
    <3>1. dispatch' = "pack" /\ original' = <<"base">> /\ UNCHANGED <<file, step, reading>>
      BY <2>1 DEF Register, ReadInv
    <3>2. step = "wire"
      BY <2>1 DEF Register
    <3>3. QED
      BY <3>1, <3>2 DEF ReadInv, reading, WasRead
  <2>2. CASE Unregister
    <3>1. original = <<"base">> /\ step = "wire"
      BY <2>2 DEF Unregister, ReadInv
    <3>2. dispatch' = "base" /\ original' = <<>> /\ UNCHANGED <<file, step, reading>>
      BY <2>2, <3>1 DEF Unregister
    <3>3. QED
      BY <3>1, <3>2 DEF ReadInv, reading, WasRead
  <2>3. CASE Dispatch
    BY <1>2, <2>3 DEF ReadInv, Dispatch, reading, wiring, WasRead
  <2>4. CASE Raises
    BY <1>2, <2>4 DEF ReadInv, Raises, Done, Reading, wiring, WasRead
  <2>5. CASE Return
    <3>1. at = Len(file.items) + 1 /\ held = {} /\ groups = <<>>
      BY <1>2, <2>5 DEF Return, AtEnd, ReadInv, PagesInv, GroupsInv, IdsInv
    <3>2. QED
      BY <1>2, <2>5, <3>1 DEF ReadInv, Return, Done, Reading, wiring, WasRead
  <2>6. QED
    BY <2>1, <2>2, <2>3, <2>4, <2>5
<1>4. file.kind = "PL" => GroupsInv'
  <2>1. SUFFICES ASSUME file.kind = "PL" PROVE GroupsInv'
    OBVIOUS
  <2>2. /\ step \in {"wire", "read"} /\ step' # "emit" => held = {}
        /\ step' \in {"wire", "read"} => step = "wire"
        /\ step' = "emit" => FALSE
        /\ step' = "wire" => step = "wire"
    BY <2>1 DEF Register, Unregister, Dispatch, Raises, Return, Done,
                Reading, ReadInv
  <2>3. \A S : /\ Opens(S)' <=> Opens(S)
               /\ Paragraph(S)' <=> Paragraph(S)
    BY <1>1 DEF Opens, Paragraph, Item
  <2>4. QED
    BY <1>1, <2>1, <2>2, <2>3 DEF GroupsInv, reading, Below, Opens, Paragraph, Item
<1>5. GroupsInv'
  BY <1>1, <1>4 DEF GroupsInv, reading
<1>6. QED
  BY <1>1, <1>3, <1>5, NothingRead

-------------------------------------------------------------------------------
(* Pages and messages.                                                     *)

(* The items that were scanned up to here.                                 *)
LEMMA ScannedCount ==
    ASSUME NEW n \in Nat \ {0}
    PROVE  /\ Cardinality(Scanned(n)) \in Nat
           /\ Cardinality(Scanned(n + 1)) =
                Cardinality(Scanned(n))
                    + (IF Item(n) \in {"scan", "blank"} THEN 1 ELSE 0)
<1>1. IsFiniteSet(1..n - 1)
  BY FS_Interval
<1>2. Scanned(n) \in SUBSET (1..n - 1)
  BY DEF Scanned
<1>3. IsFiniteSet(Scanned(n))
  BY <1>1, <1>2, FS_Subset
<1>4. Cardinality(Scanned(n)) \in Nat
  BY <1>3, FS_CardinalityType
<1>5. n \notin Scanned(n)
  BY DEF Scanned
<1>6. CASE Item(n) \in {"scan", "blank"}
  <2>1. Scanned(n + 1) = Scanned(n) \cup {n}
    BY <1>6 DEF Scanned
  <2>2. Cardinality(Scanned(n) \cup {n}) = Cardinality(Scanned(n)) + 1
    BY <1>3, <1>5, FS_AddElement
  <2>3. QED
    BY <1>4, <1>6, <2>1, <2>2
<1>7. CASE Item(n) \notin {"scan", "blank"}
  <2>1. Scanned(n + 1) = Scanned(n)
    BY <1>7 DEF Scanned
  <2>2. QED
    BY <1>4, <1>7, <2>1
<1>8. QED
  BY <1>4, <1>6, <1>7

(* A page or a message is a document by itself, or adds none.              *)
LEMMA SingleFile ==
    ASSUME IdsInv, FileInv, file.kind \in {"pdf", "eml", "mbox"},
           ~AtEnd, step = "read", Next1, UNCHANGED <<file, wiring, step, held, mark, keys, groups>>,
           NEW p, p = at, NEW key, NEW text,
           UNCHANGED docs \/ Emit(Document(key, {p}, p, text)),
           HasText(p) => ~UNCHANGED docs,
           used' \in 0..MaxOcrPages
    PROVE  /\ ReadInv' /\ PlaceInv' /\ MarksInv' /\ GroupsInv' /\ CitedRight'
           /\ \A i : Homes(i) # {} => Homes(i)' # {}
           /\ ~UNCHANGED docs => Homes(p)' # {}
<1> USE DEF FileInv
<1>1. /\ p \in Nat \ {0} /\ at = p /\ at' = p + 1
      /\ p <= Len(file.items) /\ Len(file.items) \in Nat
  BY FileShape DEF IdsInv, AtEnd, Next1
<1>2. held = {} /\ groups = <<>> /\ held' = {} /\ groups' = <<>>
  BY DEF PagesInv, GroupsInv
<1>3. ReadInv'
  <2>1. /\ at' <= Len(file'.items) + 1 /\ mark' \in 0..at' - 1
        /\ keys' <= at' /\ keys' < at'
    BY <1>1 DEF ReadInv, IdsInv
  <2>2. UNCHANGED <<dispatch, original, step>> /\ step' = "read"
    BY DEF wiring
  <2>3. QED
    BY <1>2, <2>1, <2>2 DEF ReadInv, WasRead
<1>4. MarksInv' /\ GroupsInv'
  BY DEF MarksInv, GroupsInv
<1>5. /\ CitedRight'
      /\ \A i : Homes(i) # {} => Homes(i)' # {}
      /\ ~UNCHANGED docs => Homes(p)' # {}
      /\ InOrder'
      /\ \A d \in DOMAIN docs' : \/ d \in DOMAIN docs /\ docs'[d] = docs[d]
                                \/ docs'[d].items = {p}
  <2>1. CASE UNCHANGED docs
    BY <2>1 DEF CitedRight, NamesPlace, Bounded, Opens, Item, Homes, InOrder, PlaceInv
  <2>2. CASE Emit(Document(key, {p}, p, text))
    <3> DEFINE S == {p}
    <3>1. S \in SUBSET Nat /\ S # {} /\ p \in S
      BY <1>1
    <3>2. \A d \in DOMAIN docs : Below(docs[d].items, S)
      BY <1>1 DEF PlaceInv, Below
    <3>3. Names(S, p) /\ Limited(S)
      BY DEF Names, Limited
    <3> HIDE DEF S
    <3>4. Emit(Document(key, S, p, text))
      BY <2>2 DEF S
    <3>5. /\ CitedRight'
          /\ \A i : Homes(i) # {} \/ i \in S => Homes(i)' # {}
          /\ InOrder'
          /\ \A d \in DOMAIN docs' : \/ d \in DOMAIN docs /\ docs'[d] = docs[d]
                                    \/ docs'[d].items = S
      BY <3>1, <3>2, <3>3, <3>4, Placed
    <3>6. Homes(p)' # {}
      BY <3>1, <3>5
    <3>7. QED
      BY <3>5, <3>6 DEF S
  <2>3. QED
    BY <2>1, <2>2
<1>6. PlaceInv'
  <2>1. ASSUME NEW d \in DOMAIN docs'
        PROVE  docs'[d].items \subseteq 1..p /\ docs'[d].items # {}
    <3>1. \A S : S \subseteq 1..p - 1 => S \subseteq 1..p
      BY <1>1
    <3>2. {p} \subseteq 1..p
      BY <1>1
    <3>3. CASE d \in DOMAIN docs /\ docs'[d] = docs[d]
      BY <1>1, <3>1, <3>3 DEF PlaceInv
    <3>4. CASE docs'[d].items = {p}
      BY <3>2, <3>4
    <3>5. QED
      BY <1>5, <3>3, <3>4
  <2>2. \A i \in 1..p - 1 : HasText(i) => Homes(i) # {}
    BY <1>2 DEF PlaceInv, Grouped
  <2>3. \A i : HasText(i)' <=> HasText(i)
    BY DEF HasText, Item
  <2>4. \A i \in 1..p : i \in 1..p - 1 \/ i = p
    BY <1>1
  <2>5. \A i : i = p /\ HasText(i) => Homes(i)' # {}
    BY <1>5
  <2>6. \A i \in 1..p : HasText(i)' => Homes(i)' # {}
    BY <1>5, <2>2, <2>3, <2>4, <2>5
  <2>7. QED
    BY <1>1, <1>2, <1>5, <2>1, <2>6 DEF PlaceInv, Below
<1>7. QED
  BY <1>3, <1>4, <1>5, <1>6

LEMMA PageFile ==
    ASSUME IdsInv, FileInv, ReadPage
    PROVE  FileInv'
<1> USE DEF FileInv
<1>1. PICK p : p = at
  OBVIOUS
<1>2. /\ file.kind = "pdf" /\ step = "read" /\ ~AtEnd /\ Next1
      /\ UNCHANGED <<file, wiring, step, held, mark, keys, groups>>
      /\ IF Item(p) = "text" \/ (Item(p) = "scan" /\ used < MaxOcrPages)
         THEN Emit(Document(p, {p}, p, "whole")) ELSE UNCHANGED docs
      /\ used' = IF Ocr(Item(p)) /\ used < MaxOcrPages THEN used + 1 ELSE used
  BY <1>1 DEF ReadPage, Reading
<1>3. p \in Nat \ {0} /\ at' = p + 1 /\ used \in Nat /\ used <= MaxOcrPages
      /\ MaxOcrPages \in Nat
  BY <1>1, DocumentsAssumption DEF IdsInv, ReadPage, Next1, ReadInv
<1>4. HasText(p) <=> Item(p) = "text"
  BY <1>2 DEF HasText
<1>5. Emit(Document(p, {p}, p, "whole")) => ~UNCHANGED docs
  <2>1. SUFFICES ASSUME Emit(Document(p, {p}, p, "whole")) PROVE docs' # docs
    OBVIOUS
  <2>2. Len(docs') = Len(docs) + 1 /\ Len(docs) \in Nat
    BY <2>1, Appended DEF Emit, IdsInv
  <2>3. QED
    BY <2>2
<1>6. /\ ReadInv' /\ PlaceInv' /\ MarksInv' /\ GroupsInv' /\ CitedRight'
      /\ \A i : Homes(i) # {} => Homes(i)' # {}
      /\ ~UNCHANGED docs => Homes(p)' # {}
  <2>1. used' \in 0..MaxOcrPages
    BY <1>2, <1>3
  <2>2. file.kind \in {"pdf", "eml", "mbox"}
    BY <1>2
  <2>3. UNCHANGED docs \/ Emit(Document(p, {p}, p, "whole"))
    BY <1>2
  <2>4. HasText(p) => ~UNCHANGED docs
    BY <1>2, <1>4, <1>5
  <2>5. QED
    BY <1>1, <1>2, <2>1, <2>2, <2>3, <2>4, SingleFile
<1>7. /\ used <= Cardinality(Scanned(p)) /\ held = {}
      /\ \A i \in 1..p - 1 : Missing(i) => Cardinality(Scanned(i)) >= MaxOcrPages
  BY <1>1, <1>2 DEF PagesInv
<1>8. /\ Cardinality(Scanned(p)) \in Nat
      /\ Cardinality(Scanned(p + 1)) =
           Cardinality(Scanned(p)) + (IF Item(p) \in {"scan", "blank"} THEN 1 ELSE 0)
  BY <1>3, ScannedCount
<1>9. used' <= Cardinality(Scanned(p + 1))
  BY <1>2, <1>3, <1>7, <1>8 DEF Ocr
<1>10. ASSUME NEW i \in 1..p, Item(i) = "scan", Homes(i)' = {}
       PROVE  Cardinality(Scanned(i)) >= MaxOcrPages
  <2>1. CASE i = p
    <3>1. UNCHANGED docs
      BY <1>6, <1>10, <2>1
    <3>2. ~(used < MaxOcrPages)
      BY <1>2, <1>5, <1>10, <2>1, <3>1
    <3>3. QED
      BY <1>3, <1>7, <1>8, <2>1, <3>2
  <2>2. CASE i # p
    BY <1>3, <1>6, <1>7, <1>10, <2>2 DEF Missing
  <2>3. QED
    BY <2>1, <2>2
<1>11. PagesInv'
  <2>1. \A i : Scanned(i)' = Scanned(i) /\ Item(i)' = Item(i)
    BY <1>2 DEF Scanned, Item
  <2>2. \A i : i = at' => Scanned(i) = Scanned(p + 1)
    BY <1>3
  <2>3. Scanned(at)' = Scanned(p + 1)
    BY <1>2, <1>3 DEF Scanned, Item
  <2>4. \A i \in 1..p : Missing(i)' => Cardinality(Scanned(i))' >= MaxOcrPages
    BY <1>10, <2>1 DEF Missing
  <2>5. QED
    BY <1>2, <1>3, <1>7, <1>9, <2>3, <2>4 DEF PagesInv
<1>12. QED
  BY <1>6, <1>11

LEMMA MessageFileInv ==
    ASSUME IdsInv, FileInv, ReadMessage
    PROVE  FileInv'
<1> USE DEF FileInv
<1> DEFINE text == IF file.kind = "mbox" THEN "headers" ELSE "whole"
<1> HIDE DEF text
<1>1. PICK p : p = at
  OBVIOUS
<1>2. /\ file.kind \in {"eml", "mbox"} /\ step = "read" /\ ~AtEnd /\ Next1
      /\ UNCHANGED <<file, wiring, step, held, mark, keys, used, groups>>
      /\ IF Item(p) = "bad" THEN UNCHANGED docs ELSE Emit(Document(Item(p), {p}, p, text))
  BY <1>1 DEF ReadMessage, Reading, text
<1>3. HasText(p) <=> Item(p) # "bad"
  BY <1>2 DEF HasText
<1>4. Emit(Document(Item(p), {p}, p, text)) => ~UNCHANGED docs
  <2>1. SUFFICES ASSUME Emit(Document(Item(p), {p}, p, text)) PROVE docs' # docs
    OBVIOUS
  <2>2. Len(docs') = Len(docs) + 1 /\ Len(docs) \in Nat
    BY <2>1, Appended DEF Emit, IdsInv
  <2>3. QED
    BY <2>2
<1>5. ReadInv' /\ PlaceInv' /\ MarksInv' /\ GroupsInv' /\ CitedRight'
  <2> DEFINE key == Item(p)
  <2>1. used' \in 0..MaxOcrPages /\ UNCHANGED <<file, wiring, step, held, mark, keys, groups>>
    BY <1>2 DEF ReadInv
  <2>2. file.kind \in {"pdf", "eml", "mbox"}
    BY <1>2
  <2>3. UNCHANGED docs \/ Emit(Document(key, {p}, p, text))
    BY <1>2
  <2>4. HasText(p) => ~UNCHANGED docs
    BY <1>2, <1>3, <1>4
  <2> HIDE DEF key
  <2>5. QED
    BY <1>1, <1>2, <2>1, <2>2, <2>3, <2>4, SingleFile
<1>6. PagesInv'
  BY <1>2 DEF PagesInv
<1>7. QED
  BY <1>5, <1>6

-------------------------------------------------------------------------------
(* Sections and transcripts.                                               *)

(* What waits becomes a document that is cited by the last heading or      *)
(* marker, or has no text and is dropped.                                  *)
LEMMA Flushed ==
    ASSUME IdsInv, FileInv, UNCHANGED file, file.kind \in {"docx", "TX"},
           NEW p, p = at, NEW key, NEW m,
           Kept(held) # {} =>
              m = IF IsHead(First(Kept(held))) THEN First(Kept(held)) ELSE mark,
           IF Blank(held) THEN UNCHANGED docs ELSE Emit(Document(key, Kept(held), m, "whole"))
    PROVE  /\ InOrder' /\ CitedRight'
           /\ \A d \in DOMAIN docs' : /\ docs'[d].items \subseteq 1..p - 1
                                      /\ docs'[d].items # {}
           /\ \A i \in 1..p - 1 : HasText(i) => Homes(i)' # {}
<1> USE DEF FileInv
<1>1. p \in Nat \ {0} /\ held \subseteq 1..p - 1 /\ held \subseteq Nat
  BY DEF ReadInv, IdsInv
<1>2. groups = <<>>
  BY DEF GroupsInv
<1>3. \A i \in 1..p - 1 : HasText(i) => i \in held \/ Homes(i) # {}
  BY <1>2 DEF PlaceInv, Grouped
<1>4. \A i : HasText(i) => Item(i) # "blank"
  BY DEF HasText
<1> DEFINE K == Kept(held)
<1>5. /\ K \subseteq held /\ K \in SUBSET Nat
      /\ \A i \in held : i \in K <=> Item(i) # "blank"
      /\ Blank(held) <=> K = {}
  BY <1>1, KeptOf
<1>6. CASE K = {}
  <2>1. UNCHANGED docs
    BY <1>5, <1>6
  <2>2. \A i : Homes(i)' = Homes(i)
    BY <2>1 DEF Homes
  <2>3. \A i \in 1..p - 1 : HasText(i) => Homes(i)' # {}
    BY <1>3, <1>4, <1>5, <1>6, <2>2
  <2>4. CitedRight'
    BY <2>1 DEF CitedRight, NamesPlace, Bounded, Opens, Item
  <2>5. InOrder'
    BY <2>1 DEF PlaceInv, InOrder
  <2>6. QED
    BY <2>1, <2>3, <2>4, <2>5 DEF PlaceInv
<1>7. CASE K # {}
  <2> DEFINE f == First(K)
  <2>1. f \in K /\ \A j \in K : f <= j
    BY <1>5, <1>7, FirstOf
  <2>2. f \in held /\ f \in 1..p - 1 /\ f \in Nat
    BY <1>1, <1>5, <2>1
  <2>3. m = IF IsHead(f) THEN f ELSE mark
    BY <1>7
  <2>4. mark \in Nat /\ mark < f /\ (mark # 0 => IsHead(mark))
    BY <2>2 DEF MarksInv, ReadInv
  <2>5. \A i \in 1..f : IsHead(i) => i <= mark \/ i \in held
    BY <1>1, <2>2 DEF MarksInv
  <2>6. \A i \in held : IsHead(i) => i \in K /\ \A j \in held : i <= j
    BY <1>5 DEF MarksInv, IsHead
  <2>7. IsHead(f) => \A i \in 1..f : i <= f
    BY <2>2
  <2>8. ~IsHead(f) => \A i \in 1..f : IsHead(i) => i <= mark
    <3> SUFFICES ASSUME ~IsHead(f), NEW i \in 1..f, IsHead(i), i \in held
                 PROVE  FALSE
      BY <2>5
    <3>1. i <= f /\ f <= i
      BY <2>1, <2>2, <2>6
    <3>2. i = f
      BY <2>2, <3>1
    <3>3. QED
      BY <3>2
  <2> HIDE DEF f
  <2>9. Names(K, m)
    <3> DEFINE Marks == {i \in 1..f : Item(i) \in {"head", "mark"}}
    <3>1. \A i : i \in Marks <=> i \in 1..f /\ IsHead(i)
      BY DEF IsHead
    <3>2. IF Marks = {} THEN m = 0 ELSE m \in Marks /\ \A i \in Marks : i <= m
      <4> HIDE DEF Marks
      <4>1. CASE IsHead(f)
        BY <2>2, <2>3, <2>7, <3>1, <4>1
      <4>2. CASE ~IsHead(f) /\ mark = 0
        <5>1. Marks = {}
          BY <2>8, <3>1, <4>2
        <5>2. QED
          BY <2>3, <4>2, <5>1
      <4>3. CASE ~IsHead(f) /\ mark # 0
        BY <2>2, <2>3, <2>4, <2>8, <3>1, <4>3
      <4>4. QED
        BY <4>1, <4>2, <4>3
    <3>3. QED
      BY <3>2 DEF Names, f
  <2>10. Limited(K)
    <3>1. IsFiniteSet(1..p - 1)
      BY <1>1, FS_Interval
    <3>2. IsFiniteSet(held)
      BY <1>1, <3>1, FS_Subset
    <3>3. Cardinality(K) <= Cardinality(held)
      BY <1>5, <3>2, FS_Subset
    <3>4. Cardinality(K) \in Nat /\ Cardinality(held) \in Nat
      BY <1>5, <3>2, FS_Subset, FS_CardinalityType
    <3>5. file.kind = "TX" => Cardinality(K) <= LinesPerChunk
      BY <3>3, <3>4, DocumentsAssumption DEF MarksInv
    <3>6. QED
      BY <3>5 DEF Limited
  <2>11. \A d \in DOMAIN docs : Below(docs[d].items, K)
    BY <1>5 DEF PlaceInv, Below
  <2>12. Emit(Document(key, K, m, "whole"))
    BY <1>5, <1>7
  <2> HIDE DEF K
  <2>13. /\ \A d \in DOMAIN docs' : \/ d \in DOMAIN docs /\ docs'[d] = docs[d]
                                    \/ docs'[d].items = K
         /\ \A i : Homes(i) # {} \/ i \in K => Homes(i)' # {}
         /\ InOrder' /\ CitedRight'
    BY <1>5, <1>7, <2>9, <2>10, <2>11, <2>12, Placed
  <2>14. \A i \in 1..p - 1 : HasText(i) => Homes(i)' # {}
    BY <1>3, <1>4, <1>5, <2>13
  <2>15. K \subseteq 1..p - 1
    BY <1>1, <1>5
  <2>16. \A d \in DOMAIN docs : /\ docs[d].items \subseteq 1..p - 1
                                /\ docs[d].items # {}
    BY DEF PlaceInv
  <2>17. \A d \in DOMAIN docs' : /\ docs'[d].items \subseteq 1..p - 1
                                 /\ docs'[d].items # {}
    BY <1>7, <2>13, <2>15, <2>16
  <2>18. QED
    BY <2>13, <2>14, <2>17
<1>8. QED
  BY <1>6, <1>7

(* When what waits is cited, every heading or marker so far is behind.     *)
LEMMA HeadsPassed ==
    ASSUME IdsInv, FileInv, file.kind \in {"docx", "TX"}, NEW p, p = at,
           NEW m, m = IF Kept(held) # {} /\ IsHead(First(Kept(held)))
                      THEN First(Kept(held)) ELSE mark
    PROVE  /\ m \in 0..p - 1
           /\ m # 0 => IsHead(m)
           /\ \A i \in 1..p - 1 : IsHead(i) => i <= m
<1> USE DEF FileInv
<1> DEFINE K == Kept(held)
           f == First(K)
<1>1. p \in Nat \ {0} /\ held \subseteq 1..p - 1 /\ held \subseteq Nat
      /\ mark \in 0..p - 1
  BY DEF ReadInv, IdsInv
<1>2. /\ K \subseteq held /\ K \in SUBSET Nat
      /\ \A i \in held : i \in K <=> Item(i) # "blank"
  BY <1>1, KeptOf
<1>3. K # {} => f \in K /\ \A j \in K : f <= j
  BY <1>2, FirstOf
<1>4. m = IF K # {} /\ IsHead(f) THEN f ELSE mark
  OBVIOUS
<1> HIDE DEF f, K
<1>5. /\ mark # 0 => IsHead(mark)
      /\ \A i \in 1..p - 1 : IsHead(i) => i <= mark \/ i \in held
      /\ \A i \in held : mark < i
      /\ \A i \in held : IsHead(i) => \A j \in held : i <= j
  BY DEF MarksInv
<1>6. \A i \in held : IsHead(i) => i \in K
  BY <1>2 DEF IsHead
<1>7. m \in 0..p - 1 /\ (m # 0 => IsHead(m)) /\ mark <= m
  <2>1. CASE K # {} /\ IsHead(f)
    <3>1. m = f /\ f \in held /\ mark < f
      BY <1>2, <1>3, <1>4, <1>5, <2>1
    <3>2. f \in 1..p - 1
      BY <1>1, <3>1
    <3>3. QED
      BY <1>1, <2>1, <3>1, <3>2
  <2>2. CASE ~(K # {} /\ IsHead(f))
    <3>1. m = mark
      BY <1>4, <2>2
    <3>2. QED
      BY <1>1, <1>5, <3>1
  <2>3. QED
    BY <2>1, <2>2
<1>8. ASSUME NEW i \in 1..p - 1, IsHead(i) PROVE i <= m
  <2>1. CASE i <= mark
    BY <1>1, <1>7, <2>1
  <2>2. CASE i \in held
    <3>1. i \in K /\ f \in held /\ f <= i /\ i <= f
      BY <1>2, <1>3, <1>5, <1>6, <1>8, <2>2
    <3>2. f \in Nat /\ i \in Nat
      BY <1>1, <3>1, <2>2
    <3>3. i = f
      BY <3>1, <3>2
    <3>4. m = i
      BY <1>4, <1>8, <3>1, <3>3
    <3>5. QED
      BY <3>2, <3>4
  <2>3. QED
    BY <1>5, <1>8, <2>1, <2>2
<1>9. QED
  BY <1>7, <1>8

(* An item that is put to those that wait.                                 *)
LEMMA Waits ==
    ASSUME IdsInv, FileInv, file.kind \in {"docx", "TX"}, ~AtEnd,
           NEW p, p = at, at' = p + 1, held' = held \cup {p},
           UNCHANGED <<file, wiring, mark, keys, used, groups, docs>>,
           step = "read", UNCHANGED step,
           IsHead(p) => file.kind = "TX" /\ held = {},
           file.kind = "TX" => held = {} \/ Cardinality(held) < LinesPerChunk
    PROVE  FileInv'
<1> USE DEF FileInv
<1>1. /\ p \in Nat \ {0} /\ held \subseteq 1..p - 1 /\ mark \in 0..p - 1
      /\ p <= Len(file.items) /\ Len(file.items) \in Nat
      /\ keys \in Nat /\ keys < p
  BY FileShape DEF ReadInv, IdsInv, AtEnd
<1>2. held' \subseteq 1..p
  BY <1>1
<1>3. ReadInv'
  BY <1>1, <1>2 DEF ReadInv, WasRead, wiring
<1>4. \A i : /\ Item(i)' = Item(i) /\ (HasText(i)' <=> HasText(i))
             /\ Homes(i)' = Homes(i) /\ (IsHead(i)' <=> IsHead(i))
             /\ (Grouped(i)' <=> Grouped(i))
  BY DEF Item, HasText, Homes, IsHead, Grouped
<1>5. PlaceInv'
  <2>1. \A d \in DOMAIN docs : docs[d].items \subseteq 1..p - 1
    BY DEF PlaceInv
  <2>2. \A d \in DOMAIN docs : /\ docs[d].items \subseteq 1..p
                               /\ docs[d].items # {}
                               /\ \A i \in docs[d].items, j \in held' : i < j
    BY <1>1, <2>1 DEF PlaceInv, Below
  <2>3. InOrder'
    BY DEF PlaceInv, InOrder
  <2>4. \A i \in 1..p : i \in 1..p - 1 \/ i = p
    BY <1>1
  <2>5. \A i \in 1..p : HasText(i) => i \in held' \/ Grouped(i) \/ Homes(i) # {}
    BY <2>4 DEF PlaceInv
  <2>6. \A i \in 1..p : HasText(i)' => i \in held' \/ Grouped(i)' \/ Homes(i)' # {}
    BY <1>4, <2>5
  <2>7. at' - 1 = p
    BY <1>1
  <2>8. QED
    BY <2>2, <2>3, <2>6, <2>7 DEF PlaceInv, Below
<1>6. MarksInv'
  <2>1. /\ mark # 0 => IsHead(mark)
        /\ \A i \in 1..p - 1 : IsHead(i) => i <= mark \/ i \in held
        /\ \A i \in held : mark < i
        /\ \A i \in held : IsHead(i) =>
              file.kind = "TX" /\ \A j \in held : i <= j
    BY DEF MarksInv
  <2>2. mark' # 0 => IsHead(mark)'
    BY <2>1 DEF IsHead, Item
  <2>3. \A i \in 1..p : IsHead(i) => i <= mark \/ i \in held'
    <3>1. \A i \in 1..p : i \in 1..p - 1 \/ i = p
      BY <1>1
    <3>2. QED
      BY <2>1, <3>1
  <2>4. \A i \in held' : mark < i
    BY <1>1, <2>1
  <2>5. \A i \in held' : IsHead(i) => file.kind = "TX" /\ \A j \in held' : i <= j
    BY <1>1, <2>1
  <2>6. file.kind = "TX" => Cardinality(held') <= LinesPerChunk
    <3>1. SUFFICES ASSUME file.kind = "TX"
                   PROVE  Cardinality(held \cup {p}) <= LinesPerChunk
      OBVIOUS
    <3>2. LinesPerChunk \in Nat /\ 1 <= LinesPerChunk
      BY DocumentsAssumption
    <3>3. CASE held = {}
      <4>1. held \cup {p} = {p}
        BY <3>3
      <4>2. Cardinality({p}) = 1
        BY FS_Singleton
      <4>3. QED
        BY <3>2, <4>1, <4>2
    <3>4. CASE Cardinality(held) < LinesPerChunk
      <4>1. IsFiniteSet(1..p - 1)
        BY <1>1, FS_Interval
      <4>2. IsFiniteSet(held)
        BY <1>1, <4>1, FS_Subset
      <4>3. p \notin held
        BY <1>1
      <4>4. Cardinality(held) \in Nat
        BY <4>2, FS_CardinalityType
      <4>5. Cardinality(held \cup {p}) = Cardinality(held) + 1
        BY <4>2, <4>3, FS_AddElement
      <4>6. QED
        BY <3>2, <3>4, <4>4, <4>5
    <3>5. QED
      BY <3>1, <3>3, <3>4
  <2>7. at' - 1 = p
    BY <1>1
  <2>8. QED
    BY <1>4, <2>2, <2>3, <2>4, <2>5, <2>6, <2>7 DEF MarksInv
<1>7. PagesInv' /\ GroupsInv'
  BY DEF PagesInv, GroupsInv
<1>8. CitedRight'
  BY DEF CitedRight, NamesPlace, Bounded, Opens, Item
<1>9. QED
  BY <1>3, <1>5, <1>6, <1>7, <1>8

(* An item with which a new document begins, or the end.                   *)
LEMMA Cuts ==
    ASSUME IdsInv, FileInv, file.kind \in {"docx", "TX"},
           NEW p, p = at, NEW key, NEW m,
           Kept(held) # {} =>
              m = IF IsHead(First(Kept(held))) THEN First(Kept(held)) ELSE mark,
           IF Blank(held) THEN UNCHANGED docs ELSE Emit(Document(key, Kept(held), m, "whole")),
           UNCHANGED <<file, wiring, used, groups>>,
           step = "read", keys' \in {keys, keys + 1},
           mark' \in 0..at' - 1,
           mark' # 0 => IsHead(mark'),
           \A i \in 1..p - 1 : IsHead(i) => i <= mark',
           \/ AtEnd /\ at' = p /\ step' = "done" /\ held' = {}
           \/ /\ ~AtEnd /\ at' = p + 1 /\ step' = "read"
              /\ \/ held' = {p} /\ file.kind = "TX" /\ mark' < p
                 \/ held' = {} /\ ~HasText(p) /\ (IsHead(p) => mark' = p)
    PROVE  FileInv'
<1> USE DEF FileInv
<1>1. /\ p \in Nat \ {0} /\ held \subseteq 1..p - 1
      /\ Len(file.items) \in Nat /\ p <= Len(file.items) + 1
      /\ AtEnd <=> p = Len(file.items) + 1
      /\ keys \in Nat /\ keys < p /\ groups = <<>>
  BY FileShape DEF ReadInv, IdsInv, AtEnd, GroupsInv
<1>2. /\ held' \subseteq 1..at' - 1 /\ held' \subseteq {p}
      /\ at' \in {p, p + 1}
      /\ at' = p + 1 /\ HasText(p) => held' = {p}
  BY <1>1
<1>3. \A i \in 1..at' - 1 : i \in 1..p - 1 \/ (i = p /\ at' = p + 1)
  <2>1. CASE at' = p
    BY <2>1
  <2>2. CASE at' = p + 1
    BY <1>1, <2>2
  <2>3. QED
    BY <1>2, <2>1, <2>2
<1>4. ReadInv'
  <2>1. at' <= Len(file'.items) + 1 /\ keys' <= at' /\ (step' = "read" => keys' < at')
    BY <1>1
  <2>2. UNCHANGED <<dispatch, original>> /\ step' \in {"read", "done"}
    BY DEF wiring
  <2>3. WasRead' => at' = Len(file'.items) + 1 /\ held' = {} /\ groups' = <<>>
    BY <1>1 DEF WasRead
  <2>4. QED
    BY <1>2, <2>1, <2>2, <2>3 DEF ReadInv
<1>5. /\ InOrder' /\ CitedRight'
      /\ \A d \in DOMAIN docs' : /\ docs'[d].items \subseteq 1..p - 1
                                 /\ docs'[d].items # {}
      /\ \A i \in 1..p - 1 : HasText(i) => Homes(i)' # {}
  BY Flushed
<1>6. PlaceInv'
  <2>1. \A d \in DOMAIN docs' : /\ docs'[d].items \subseteq 1..at' - 1
                                /\ docs'[d].items # {}
                                /\ \A i \in docs'[d].items, j \in held' : i < j
    <3>1. \A i \in 1..p - 1 : i \in 1..at' - 1 /\ i < p
      <4> HIDE DEF FileInv
      <4>1. p \in Nat \ {0} /\ at' \in {p, p + 1}
        BY <1>1, <1>2
      <4>2. QED
        BY <4>1
    <3>2. \A j \in held' : j = p
      BY <1>2
    <3>3. QED
      BY <1>5, <3>1, <3>2
  <2>2. \A i : HasText(i)' <=> HasText(i)
    BY DEF HasText, Item
  <2>3. \A i \in 1..at' - 1 : HasText(i)' => i \in held' \/ Homes(i)' # {}
    BY <1>2, <1>3, <1>5, <2>2
  <2>4. QED
    BY <1>5, <2>1, <2>3 DEF PlaceInv, Below
<1>7. MarksInv'
  <2>1. mark' # 0 => IsHead(mark)'
    BY DEF IsHead, Item
  <2>2. \A i : IsHead(i)' <=> IsHead(i)
    BY DEF IsHead, Item
  <2>3. \A i \in 1..at' - 1 : IsHead(i) => i <= mark' \/ i \in held'
    BY <1>1, <1>3
  <2>4. \A i \in held' : mark' < i
    BY <1>2
  <2>5. \A i \in held' : file.kind = "TX" /\ \A j \in held' : i <= j
    BY <1>1, <1>2
  <2>6. file.kind = "TX" => Cardinality(held') <= LinesPerChunk
    <3>1. held' = {} \/ held' = {p}
      BY <1>2
    <3>2. Cardinality({}) = 0 /\ Cardinality({p}) = 1
      BY FS_EmptySet, FS_Singleton
    <3>3. LinesPerChunk \in Nat /\ 1 <= LinesPerChunk
      BY DocumentsAssumption
    <3>4. CASE held' = {}
      BY <3>2, <3>3, <3>4
    <3>5. CASE held' = {p}
      BY <3>2, <3>3, <3>5
    <3>6. QED
      BY <3>1, <3>4, <3>5
  <2>7. QED
    BY <2>1, <2>2, <2>3, <2>4, <2>5, <2>6 DEF MarksInv
<1>8. PagesInv' /\ GroupsInv'
  BY <1>1 DEF PagesInv, GroupsInv
<1>9. QED
  BY <1>4, <1>5, <1>6, <1>7, <1>8

LEMMA ParagraphFile ==
    ASSUME IdsInv, FileInv, ReadParagraph
    PROVE  FileInv'
<1> USE DEF FileInv
<1>1. PICK p : p = at
  OBVIOUS
<1>2. /\ file.kind = "docx" /\ step = "read"
      /\ IF AtEnd THEN Flush /\ Done("done") /\ UNCHANGED mark
         ELSE /\ Next1
              /\ UNCHANGED step
              /\ IF Item(p) = "head" THEN Flush /\ mark' = p
                 ELSE held' = held \cup {p} /\ UNCHANGED <<docs, keys, mark>>
      /\ UNCHANGED <<file, wiring, used, groups>>
  BY <1>1 DEF ReadParagraph, Reading
<1>3. /\ p \in Nat \ {0} /\ held \subseteq 1..p - 1 /\ mark \in 0..p - 1
      /\ p <= Len(file.items) \/ AtEnd
      /\ Len(file.items) \in Nat
  BY <1>1, FileShape DEF IdsInv, ReadInv, AtEnd
<1>4. \A i \in 1..Len(file.items) : IsHead(i) <=> Item(i) = "head"
  BY <1>2, FileShape DEF ItemsOf, IsHead
<1>5. \A i \in held : ~IsHead(i)
  BY <1>2 DEF MarksInv
<1>6. Kept(held) # {} => First(Kept(held)) \in held
  <2>1. held \subseteq Nat
    BY <1>3
  <2>2. Kept(held) \subseteq held /\ Kept(held) \in SUBSET Nat
    BY <2>1, KeptOf
  <2>3. QED
    BY <2>2, FirstOf
<1>7. /\ mark # 0 => IsHead(mark)
      /\ \A i \in 1..p - 1 : IsHead(i) => i <= mark
  BY <1>1, <1>2, <1>5 DEF MarksInv
<1>8. CASE ~AtEnd /\ Item(p) # "head"
  <2>1. p \in 1..Len(file.items)
    BY <1>3, <1>8
  <2>2. ~IsHead(p)
    BY <1>4, <1>8, <2>1
  <2>3. at' = p + 1 /\ held' = held \cup {p}
        /\ UNCHANGED <<file, wiring, mark, keys, used, groups, docs>>
        /\ UNCHANGED step
    BY <1>1, <1>2, <1>8 DEF Next1
  <2>4. QED
    BY <1>1, <1>2, <1>8, <2>2, <2>3, Waits
<1>9. CASE AtEnd \/ Item(p) = "head"
  <2> DEFINE key == keys
             m == mark
  <2>1. Kept(held) # {} =>
           m = IF IsHead(First(Kept(held))) THEN First(Kept(held)) ELSE mark
    BY <1>5, <1>6
  <2>2. IF Blank(held) THEN UNCHANGED docs ELSE Emit(Document(key, Kept(held), m, "whole"))
    BY <1>2, <1>9 DEF Flush
  <2>3. keys' \in {keys, keys + 1} /\ held' = {}
    BY <1>2, <1>9 DEF Flush
  <2>4. CASE AtEnd
    <3>1. at' = p /\ step' = "done" /\ mark' = mark
      BY <1>1, <1>2, <2>4 DEF Done
    <3>2. /\ mark' \in 0..at' - 1 /\ (mark' # 0 => IsHead(mark'))
          /\ \A i \in 1..p - 1 : IsHead(i) => i <= mark'
      BY <1>3, <1>7, <3>1
    <3> HIDE DEF key, m
    <3>3. QED
      BY <1>1, <1>2, <2>1, <2>2, <2>3, <2>4, <3>1, <3>2, Cuts
  <2>5. CASE ~AtEnd
    <3>1. Item(p) = "head" /\ p \in 1..Len(file.items)
      BY <1>3, <1>9, <2>5
    <3>2. IsHead(p) /\ ~HasText(p)
      BY <1>2, <1>4, <3>1 DEF HasText
    <3>3. at' = p + 1 /\ step' = "read" /\ mark' = p
      BY <1>1, <1>2, <2>5, <3>1 DEF Next1
    <3>4. /\ mark' \in 0..at' - 1 /\ (mark' # 0 => IsHead(mark'))
          /\ \A i \in 1..p - 1 : IsHead(i) => i <= mark'
      BY <1>3, <3>2, <3>3
    <3> HIDE DEF key, m
    <3>5. QED
      BY <1>1, <1>2, <2>1, <2>2, <2>3, <2>5, <3>2, <3>3, <3>4, Cuts
  <2>6. QED
    BY <2>4, <2>5
<1>10. QED
  BY <1>8, <1>9

LEMMA LineFile ==
    ASSUME IdsInv, FileInv, ReadLine
    PROVE  FileInv'
<1> USE DEF FileInv
<1>1. PICK p : p = at
  OBVIOUS
<1>2. /\ file.kind = "TX" /\ step = "read"
      /\ UNCHANGED <<file, wiring, used, groups>>
  BY DEF ReadLine, Reading
<1>3. /\ p \in Nat \ {0} /\ held \subseteq 1..p - 1 /\ mark \in 0..p - 1
      /\ p <= Len(file.items) \/ AtEnd
      /\ Len(file.items) \in Nat
  BY <1>1, FileShape DEF IdsInv, ReadInv, AtEnd
<1>4. \A i \in 1..Len(file.items) : IsHead(i) <=> Item(i) = "mark"
  BY <1>2, FileShape DEF ItemsOf, IsHead
<1> DEFINE K == Kept(held)
           m == IF K # {} /\ IsHead(First(K)) THEN First(K) ELSE mark
<1>5. CASE ~AtEnd /\ ~(held # {} /\ Boundary)
  <2>1. p \in 1..Len(file.items)
    BY <1>3, <1>5
  <2>2. IsHead(p) => file.kind = "TX" /\ held = {}
    BY <1>1, <1>2, <1>4, <1>5, <2>1 DEF Boundary
  <2>3. held = {} \/ Cardinality(held) < LinesPerChunk
    <3>1. IsFiniteSet(1..p - 1)
      BY <1>3, FS_Interval
    <3>2. IsFiniteSet(held)
      BY <1>3, <3>1, FS_Subset
    <3>3. Cardinality(held) \in Nat
      BY <3>2, FS_CardinalityType
    <3>4. QED
      BY <1>5, <3>3, DocumentsAssumption DEF Boundary
  <2>4. at' = p + 1 /\ held' = held \cup {p}
        /\ UNCHANGED <<file, wiring, mark, keys, used, groups, docs>>
        /\ UNCHANGED step
    BY <1>1, <1>2, <1>5 DEF ReadLine, Next1
  <2>5. QED
    BY <1>1, <1>2, <1>5, <2>2, <2>3, <2>4, Waits
<1>6. CASE AtEnd \/ (held # {} /\ Boundary)
  <2>1. /\ IF Blank(held) THEN UNCHANGED <<docs, keys, mark>>
           ELSE /\ Emit(Document(keys, K, Page(K), "whole"))
                /\ mark' = Page(K)
                /\ keys' = keys + 1
        /\ held' = IF AtEnd THEN {} ELSE {p}
        /\ IF AtEnd THEN step' = "done" /\ at' = p ELSE step' = "read" /\ at' = p + 1
    BY <1>1, <1>2, <1>6 DEF ReadLine, FlushLines, Done, Next1
  <2>2. held \subseteq Nat
    BY <1>3
  <2>3. /\ K \subseteq held /\ K \in SUBSET Nat /\ (Blank(held) <=> K = {})
    BY <2>2, KeptOf
  <2>4. K # {} => m = Page(K)
    <3>1. SUFFICES ASSUME K # {} PROVE m = Page(K)
      OBVIOUS
    <3>2. First(K) \in held
      BY <2>3, <3>1, FirstOf
    <3>3. First(K) \in 1..Len(file.items)
      <4>1. p <= Len(file.items) + 1
        BY <1>1 DEF ReadInv
      <4>2. First(K) \in 1..p - 1
        BY <1>3, <3>2
      <4>3. QED
        BY <1>3, <4>1, <4>2
    <3>4. IsHead(First(K)) <=> Item(First(K)) = "mark"
      BY <1>4, <3>3
    <3>5. QED
      BY <3>1, <3>4 DEF Page
  <2>5. mark' = m
    BY <2>1, <2>3, <2>4
  <2>6. m \in 0..p - 1 /\ (m # 0 => IsHead(m))
        /\ \A i \in 1..p - 1 : IsHead(i) => i <= m
    <3> DEFINE n == m
    <3>1. n = IF Kept(held) # {} /\ IsHead(First(Kept(held)))
              THEN First(Kept(held)) ELSE mark
      OBVIOUS
    <3> HIDE DEF n, m, K
    <3>2. n \in 0..p - 1 /\ (n # 0 => IsHead(n))
          /\ \A i \in 1..p - 1 : IsHead(i) => i <= n
      BY <1>1, <1>2, <3>1, HeadsPassed
    <3>3. QED
      BY <3>2 DEF n
  <2> DEFINE key == keys
  <2>7. IF Blank(held) THEN UNCHANGED docs ELSE Emit(Document(key, Kept(held), m, "whole"))
    BY <2>1, <2>3, <2>4
  <2>8. Kept(held) # {} =>
           m = IF IsHead(First(Kept(held))) THEN First(Kept(held)) ELSE mark
    OBVIOUS
  <2>9. keys' \in {keys, keys + 1} /\ at' \in {p, p + 1}
    BY <2>1
  <2> HIDE DEF key, m, K
  <2>10. /\ mark' \in 0..at' - 1 /\ (mark' # 0 => IsHead(mark'))
         /\ \A i \in 1..p - 1 : IsHead(i) => i <= mark'
         /\ mark' < p
    <3>1. mark' \in 0..p - 1 /\ mark' < p
      BY <1>3, <2>5, <2>6
    <3>2. mark' \in 0..at' - 1
      <4>1. CASE at' = p
        BY <3>1, <4>1
      <4>2. CASE at' = p + 1
        BY <1>3, <3>1, <4>2
      <4>3. QED
        BY <2>9, <4>1, <4>2
    <3>3. /\ mark' # 0 => IsHead(mark')
          /\ \A i \in 1..p - 1 : IsHead(i) => i <= mark'
      BY <2>5, <2>6, Zenon
    <3>4. QED
      BY <3>1, <3>2, <3>3
  <2>11. \/ AtEnd /\ at' = p /\ step' = "done" /\ held' = {}
         \/ /\ ~AtEnd /\ at' = p + 1 /\ step' = "read"
            /\ held' = {p} /\ file.kind = "TX" /\ mark' < p
    BY <1>2, <2>1, <2>10
  <2>12. QED
    BY <1>1, <1>2, <2>7, <2>8, <2>9, <2>10, <2>11, Cuts
<1>7. QED
  BY <1>5, <1>6

-------------------------------------------------------------------------------
(* Pleadings.                                                              *)

(* What is closed goes behind the paragraphs there are.                    *)
LEMMA GroupAdded ==
    ASSUME NEW n \in Nat, groups \in Seq(SUBSET (1..n)),
           NEW S \in SUBSET (1..n), groups' = Append(groups, S)
    PROVE  /\ Len(groups) \in Nat /\ DOMAIN groups = 1..Len(groups)
           /\ groups' \in Seq(SUBSET (1..n)) /\ groups' # <<>>
           /\ Len(groups') = Len(groups) + 1
           /\ DOMAIN groups' = 1..Len(groups) + 1
           /\ \A g \in DOMAIN groups : g \in DOMAIN groups' /\ groups'[g] = groups[g]
           /\ groups'[Len(groups) + 1] = S
<1> DEFINE T == SUBSET (1..n)
<1>1. groups \in Seq(T) /\ S \in T
  OBVIOUS
<1> HIDE DEF T
<1>2. /\ Len(groups) \in Nat /\ DOMAIN groups = 1..Len(groups)
      /\ groups' \in Seq(T) /\ groups' # <<>>
      /\ Len(groups') = Len(groups) + 1
      /\ DOMAIN groups' = 1..Len(groups) + 1
      /\ \A g \in DOMAIN groups : g \in DOMAIN groups' /\ groups'[g] = groups[g]
      /\ groups'[Len(groups) + 1] = S
  BY <1>1
<1>3. QED
  BY <1>2 DEF T

LEMMA GroupShape ==
    ASSUME NEW n \in Nat, groups \in Seq(SUBSET (1..n))
    PROVE  /\ Len(groups) \in Nat /\ DOMAIN groups = 1..Len(groups)
           /\ \A g \in DOMAIN groups : groups[g] \subseteq 1..n
           /\ groups = <<>> <=> Len(groups) = 0
           /\ groups \in Seq(SUBSET (1..n + 1))
<1> DEFINE T == SUBSET (1..n)
           U == SUBSET (1..n + 1)
<1>1. groups \in Seq(T) /\ T \subseteq U
  <2>1. 1..n \subseteq 1..n + 1
    OBVIOUS
  <2>2. QED
    BY <2>1
<1>2. \A S \in T : S \subseteq 1..n
  OBVIOUS
<1> HIDE DEF T, U
<1>3. /\ Len(groups) \in Nat /\ DOMAIN groups = 1..Len(groups)
      /\ \A g \in DOMAIN groups : groups[g] \in T
      /\ groups = <<>> <=> Len(groups) = 0
      /\ groups \in Seq(U)
  BY <1>1
<1>4. QED
  BY <1>2, <1>3 DEF U

(* The line is taken up: what waited is closed, or waits with it.          *)
LEMMA PleadingGroups ==
    ASSUME IdsInv, FileInv, ReadPleading, NEW p, p = at
    PROVE  /\ groups' \in Seq(SUBSET (1..p - 1))
           /\ \A g \in DOMAIN groups' :
                 \/ g \in DOMAIN groups /\ groups'[g] = groups[g]
                 \/ /\ g = Len(groups) + 1 /\ groups'[g] = held
                    /\ held # {} /\ held' \subseteq {p}
           /\ \A i : i \in held => i \in held' \/ Grouped(i)'
           /\ \A i : Grouped(i) => Grouped(i)'
           /\ Len(groups') + (IF held' = {} THEN 0 ELSE 1) < at'
           /\ held' \subseteq 1..at' - 1
<1> USE DEF FileInv
<1>1. /\ file.kind = "PL" /\ step = "read" /\ p \in Nat \ {0} /\ p - 1 \in Nat
      /\ held \subseteq 1..p - 1
      /\ p <= Len(file.items) \/ AtEnd
      /\ Len(file.items) \in Nat
  BY FileShape DEF ReadPleading, Reading, ReadInv, IdsInv, AtEnd
<1>2. /\ groups \in Seq(SUBSET (1..p - 1))
      /\ keys = 0
      /\ Len(groups) + (IF held = {} THEN 0 ELSE 1) < p
  <2>1. Len(groups) \in Nat
    BY <1>1, GroupShape DEF GroupsInv
  <2>2. QED
    BY <1>1, <2>1 DEF GroupsInv
<1>3. /\ Len(groups) \in Nat /\ DOMAIN groups = 1..Len(groups)
      /\ \A g \in DOMAIN groups : groups[g] \subseteq 1..p - 1
  BY <1>1, <1>2, GroupShape
<1>4. /\ groups' = IF (AtEnd \/ Item(p) = "num") /\ held # {}
                   THEN Append(groups, held) ELSE groups
      /\ held' = IF AtEnd THEN {} ELSE IF Item(p) = "num" THEN {p} ELSE held \cup {p}
      /\ at' = IF AtEnd THEN p ELSE p + 1
  BY DEF ReadPleading, Done, Next1
<1>5. held' \subseteq 1..at' - 1
  <2>1. CASE AtEnd
    BY <1>4, <2>1
  <2>2. CASE ~AtEnd
    <3>1. at' - 1 = p /\ held' \subseteq held \cup {p}
      BY <1>1, <1>4, <2>2
    <3>2. held \cup {p} \subseteq 1..p
      BY <1>1
    <3>3. QED
      BY <3>1, <3>2
  <2>3. QED
    BY <2>1, <2>2
<1>6. CASE (AtEnd \/ Item(p) = "num") /\ held # {}
  <2>1. groups' = Append(groups, held) /\ held' \subseteq {p}
    BY <1>4, <1>6
  <2>2. /\ groups' \in Seq(SUBSET (1..p - 1))
        /\ Len(groups') = Len(groups) + 1
        /\ DOMAIN groups' = 1..Len(groups) + 1
        /\ \A g \in DOMAIN groups : g \in DOMAIN groups' /\ groups'[g] = groups[g]
        /\ groups'[Len(groups) + 1] = held
    BY <1>1, <1>2, <2>1, GroupAdded
  <2>3. Len(groups) + 1 \in DOMAIN groups'
    BY <1>3, <2>2
  <2>4. /\ \A i : i \in held => Grouped(i)'
        /\ \A i : Grouped(i) => Grouped(i)'
    BY <2>2, <2>3 DEF Grouped
  <2>5. Len(groups') + (IF held' = {} THEN 0 ELSE 1) < at'
    <3> DEFINE k == Len(groups)
    <3>1. k \in Nat /\ k + 1 < p /\ Len(groups') = k + 1
      BY <1>2, <1>3, <1>6, <2>2
    <3>2. \/ at' = p /\ held' = {}
          \/ at' = p + 1
      BY <1>4
    <3> DEFINE w == IF held' = {} THEN 0 ELSE 1
    <3>3. w \in {0, 1} /\ (held' = {} => w = 0)
      OBVIOUS
    <3> HIDE DEF k, w
    <3>4. k + 1 + w < at'
      BY <1>1, <3>1, <3>2, <3>3
    <3>5. QED
      BY <3>1, <3>4 DEF w
  <2>6. QED
    BY <1>3, <1>5, <1>6, <2>1, <2>2, <2>4, <2>5
<1>7. CASE ~((AtEnd \/ Item(p) = "num") /\ held # {})
  <2>1. groups' = groups
    BY <1>4, <1>7
  <2>2. \A i : i \in held => i \in held'
    BY <1>4, <1>7
  <2>3. Len(groups') + (IF held' = {} THEN 0 ELSE 1) < at'
    <3> DEFINE k == Len(groups)
           w == IF held' = {} THEN 0 ELSE 1
    <3>1. k \in Nat /\ Len(groups') = k
      BY <1>3, <2>1
    <3>2. k < p
      <4>1. CASE held = {}
        BY <1>2, <4>1
      <4>2. CASE held # {}
        BY <1>1, <1>2, <3>1, <4>2
      <4>3. QED
        BY <4>1, <4>2
    <3>3. \/ at' = p /\ held' = {}
          \/ at' = p + 1
      BY <1>4
    <3>4. w \in {0, 1} /\ (held' = {} => w = 0)
      OBVIOUS
    <3> HIDE DEF k, w
    <3>5. k + w < at'
      BY <1>1, <3>1, <3>2, <3>3, <3>4
    <3>6. QED
      BY <3>1, <3>5 DEF w
  <2>4. QED
    BY <1>2, <1>5, <2>1, <2>2, <2>3 DEF Grouped
<1>8. QED
  BY <1>6, <1>7

LEMMA PleadingFile ==
    ASSUME IdsInv, FileInv, ReadPleading
    PROVE  FileInv'
<1> USE DEF FileInv
<1>1. PICK p : p = at
  OBVIOUS
<1>2. /\ file.kind = "PL" /\ step = "read" /\ p \in Nat \ {0} /\ p - 1 \in Nat
      /\ held \subseteq 1..p - 1
      /\ p <= Len(file.items) \/ AtEnd
      /\ Len(file.items) \in Nat /\ p <= Len(file.items) + 1
      /\ AtEnd <=> p = Len(file.items) + 1
      /\ docs = <<>> /\ keys = 0
  BY <1>1, FileShape DEF ReadPleading, Reading, ReadInv, IdsInv, AtEnd, GroupsInv
<1>3. /\ held' = IF AtEnd THEN {} ELSE IF Item(p) = "num" THEN {p} ELSE held \cup {p}
      /\ at' = IF AtEnd THEN p ELSE p + 1
      /\ step' = IF AtEnd THEN "emit" ELSE "read"
      /\ UNCHANGED <<file, wiring, mark, keys, used, docs>>
  BY <1>1, <1>2 DEF ReadPleading, Done, Next1
<1>4. /\ groups' \in Seq(SUBSET (1..p - 1))
      /\ \A g \in DOMAIN groups' :
            \/ g \in DOMAIN groups /\ groups'[g] = groups[g]
            \/ /\ g = Len(groups) + 1 /\ groups'[g] = held
               /\ held # {} /\ held' \subseteq {p}
      /\ \A i : i \in held => i \in held' \/ Grouped(i)'
      /\ \A i : Grouped(i) => Grouped(i)'
      /\ Len(groups') + (IF held' = {} THEN 0 ELSE 1) < at'
      /\ held' \subseteq 1..at' - 1
  BY <1>1, PleadingGroups
<1>5. /\ groups \in Seq(SUBSET (1..p - 1))
      /\ step = "read" /\ held = {} => groups = <<>>
      /\ \A g \in DOMAIN groups :
            /\ Paragraph(groups[g])
            /\ Below(groups[g], held)
            /\ g # 1 => Opens(groups[g])
            /\ \A h \in DOMAIN groups : g < h => Below(groups[g], groups[h])
      /\ held # {} => /\ Paragraph(held)
                      /\ groups # <<>> => Opens(held)
  BY <1>1, <1>2 DEF GroupsInv
<1>6. /\ Len(groups) \in Nat /\ DOMAIN groups = 1..Len(groups)
      /\ \A g \in DOMAIN groups : groups[g] \subseteq 1..p - 1
      /\ groups = <<>> <=> Len(groups) = 0
  BY <1>2, <1>5, GroupShape
<1>7. ReadInv'
  <2>1. /\ at' <= Len(file'.items) + 1 /\ mark' \in 0..at' - 1
        /\ keys' <= at' /\ (step' = "read" => keys' < at')
    <3>1. CASE AtEnd
      BY <1>1, <1>2, <1>3, <3>1 DEF ReadInv
    <3>2. CASE ~AtEnd
      BY <1>1, <1>2, <1>3, <3>2 DEF ReadInv
    <3>3. QED
      BY <3>1, <3>2
  <2>2. UNCHANGED <<dispatch, original>> /\ step' \in {"read", "emit"}
    BY <1>3 DEF wiring
  <2>3. QED
    BY <1>3, <1>4, <2>1, <2>2 DEF ReadInv, WasRead
<1>8. PlaceInv'
  <2>1. \A i \in 1..at' - 1 : i \in 1..p - 1 \/ i \in held'
    <3>1. CASE AtEnd
      BY <1>3, <3>1
    <3>2. CASE ~AtEnd
      BY <1>2, <1>3, <3>2
    <3>3. QED
      BY <3>1, <3>2
  <2>2. \A i \in 1..p - 1 : HasText(i) => i \in held \/ Grouped(i)
    BY <1>1, <1>2 DEF PlaceInv, Homes
  <2>3. \A i : HasText(i)' <=> HasText(i)
    BY <1>3 DEF HasText, Item
  <2>4. \A i \in 1..at' - 1 : HasText(i)' => i \in held' \/ Grouped(i)'
    BY <1>4, <2>1, <2>2, <2>3
  <2>5. DOMAIN docs' = {}
    BY <1>2, <1>3
  <2>6. QED
    BY <2>4, <2>5 DEF PlaceInv, InOrder
<1>9. PagesInv' /\ MarksInv' /\ CitedRight'
  <2>1. DOMAIN docs' = {}
    BY <1>2, <1>3
  <2>2. QED
    BY <1>2, <1>3, <2>1 DEF PagesInv, MarksInv, CitedRight
<1>10. \A S : (Paragraph(S)' <=> Paragraph(S)) /\ (Opens(S)' <=> Opens(S))
  BY <1>3 DEF Paragraph, Opens, Item
<1>11. held' # {} => Paragraph(held') /\ (groups' # <<>> => Opens(held'))
  <2>1. SUFFICES ASSUME held' # {}
                 PROVE  Paragraph(held') /\ (groups' # <<>> => Opens(held'))
    OBVIOUS
  <2>2. ~AtEnd
    BY <1>3, <2>1
  <2>3. CASE Item(p) = "num" \/ held = {}
    <3>1. held' = {p}
      BY <1>3, <2>2, <2>3
    <3>2. First({p}) = p
      BY <1>2, FirstIs
    <3>3. Paragraph({p})
      BY <1>2 DEF Paragraph
    <3>4. Item(p) = "num" => Opens({p})
      BY <3>2 DEF Opens
    <3>5. Item(p) # "num" => groups' = <<>>
      <4>1. SUFFICES ASSUME Item(p) # "num" PROVE groups' = <<>>
        OBVIOUS
      <4>2. held = {} /\ groups = <<>>
        BY <1>2, <1>5, <2>3, <4>1
      <4>3. DOMAIN groups' = {}
        BY <1>4, <1>6, <4>2
      <4>4. QED
        <5>1. Len(groups') \in Nat /\ DOMAIN groups' = 1..Len(groups')
          <6> DEFINE T == SUBSET (1..p - 1)
          <6>1. groups' \in Seq(T)
            BY <1>4
          <6> HIDE DEF T
          <6>2. QED
            BY <6>1
        <5>2. Len(groups') = 0
          BY <4>3, <5>1
        <5>3. QED
          <6> DEFINE T == SUBSET (1..p - 1)
          <6>1. groups' \in Seq(T)
            BY <1>4
          <6> HIDE DEF T
          <6>2. QED
            BY <5>2, <6>1, EmptySeq
    <3>6. QED
      BY <3>1, <3>3, <3>4, <3>5
  <2>4. CASE Item(p) # "num" /\ held # {}
    <3>1. held' = held \cup {p} /\ Paragraph(held)
      BY <1>3, <1>5, <2>2, <2>4
    <3>2. \A i \in held : i < p /\ i \in Nat
      BY <1>2
    <3>3. Paragraph(held \cup {p})
      BY <2>4, <3>1, <3>2, <1>2 DEF Paragraph
    <3>4. groups' # <<>> => groups # <<>>
      BY <2>2, <2>4, <1>1 DEF ReadPleading
    <3>5. First(held \cup {p}) = First(held)
      <4>1. held \in SUBSET Nat /\ held \cup {p} \in SUBSET Nat
        BY <1>2, <3>2
      <4>2. First(held) \in held /\ \A j \in held : First(held) <= j
        BY <2>4, <4>1, FirstOf
      <4>3. \A j \in held \cup {p} : First(held) <= j
        <5>1. First(held) \in Nat /\ First(held) < p
          BY <3>2, <4>2
        <5>2. QED
          BY <1>2, <4>2, <5>1
      <4>4. QED
        BY <4>1, <4>2, <4>3, FirstIs
    <3>6. QED
      BY <1>5, <2>4, <3>1, <3>3, <3>4, <3>5 DEF Opens
  <2>5. QED
    BY <2>3, <2>4
<1>12. ASSUME NEW g \in DOMAIN groups'
       PROVE  /\ Paragraph(groups'[g])
              /\ \A i \in groups'[g], j \in held' : i < j
              /\ g # 1 => Opens(groups'[g])
              /\ \A h \in DOMAIN groups' :
                    g < h => \A i \in groups'[g], j \in groups'[h] : i < j
  <2>1. CASE g = Len(groups) + 1 /\ groups'[g] = held /\ held # {} /\ held' \subseteq {p}
    <3>1. \A h \in DOMAIN groups' : ~(g < h)
      BY <1>4, <1>6, <2>1
    <3>2. \A i \in held, j \in held' : i < j
      BY <1>2, <2>1
    <3>3. g # 1 => groups # <<>>
      BY <1>6, <2>1
    <3>4. QED
      BY <1>5, <2>1, <3>1, <3>2, <3>3
  <2>2. CASE g \in DOMAIN groups /\ groups'[g] = groups[g]
    <3>1. \A i \in groups[g] : i < p
      BY <1>2, <1>6, <2>2
    <3>2. \A i \in groups[g], j \in held' : i < j
      <4>1. held' \subseteq held \cup {p}
        BY <1>3
      <4>2. QED
        BY <1>5, <2>2, <3>1, <4>1 DEF Below
    <3>3. ASSUME NEW h \in DOMAIN groups', g < h
          PROVE  \A i \in groups[g], j \in groups'[h] : i < j
      <4>1. CASE h \in DOMAIN groups /\ groups'[h] = groups[h]
        BY <1>5, <2>2, <3>3, <4>1 DEF Below
      <4>2. CASE groups'[h] = held
        BY <1>5, <2>2, <4>2 DEF Below
      <4>3. QED
        BY <1>4, <4>1, <4>2
    <3>4. QED
      BY <1>5, <2>2, <3>2, <3>3
  <2>3. QED
    BY <1>4, <2>1, <2>2
<1>13. GroupsInv'
  <2>1. groups' \in Seq(SUBSET (1..at' - 1))
    <3>1. CASE AtEnd
      BY <1>3, <1>4, <3>1
    <3>2. CASE ~AtEnd
      <4> DEFINE T == SUBSET (1..p - 1)
                 U == SUBSET (1..p)
      <4>1. T \subseteq U
        BY <1>2
      <4>2. groups' \in Seq(T)
        BY <1>4
      <4> HIDE DEF T, U
      <4>3. groups' \in Seq(U)
        BY <4>1, <4>2
      <4>4. at' - 1 = p
        BY <1>2, <1>3, <3>2
      <4>5. QED
        BY <4>3, <4>4 DEF U
    <3>3. QED
      BY <3>1, <3>2
  <2>2. step' = "read" /\ held' = {} => groups' = <<>>
    BY <1>3
  <2>3. keys' + Len(groups') + (IF held' = {} THEN 0 ELSE 1) < at'
    <3>1. Len(groups') \in Nat
      <4> DEFINE T == SUBSET (1..p - 1)
      <4>1. groups' \in Seq(T)
        BY <1>4
      <4> HIDE DEF T
      <4>2. QED
        BY <4>1
    <3>2. keys' = 0
      BY <1>2, <1>3
    <3>3. QED
      BY <1>4, <3>1, <3>2
  <2>4. docs' = <<>> /\ keys' = 0 /\ step' \in {"read", "emit"}
        /\ (step' = "emit" => held' = {} /\ at' = Len(file'.items) + 1)
    BY <1>2, <1>3
  <2>5. QED
    BY <1>2, <1>3, <1>11, <1>12, <2>1, <2>2, <2>3, <2>4
       DEF GroupsInv, Paragraph, Opens, Item, Below
<1>14. QED
  BY <1>7, <1>8, <1>9, <1>13

(* The block that is taken from the paragraphs, and what it leaves.        *)
LEMMA BlockShape ==
    ASSUME NEW n \in Nat, groups \in Seq(SUBSET (1..n)), groups # <<>>,
           NEW b, b = Len(Block)
    PROVE  /\ b \in Nat /\ 1 <= b /\ b <= Len(groups) /\ b <= ParasPerChunk
           /\ DOMAIN Block = 1..b
           /\ \A i \in 1..b : Block[i] = groups[i]
           /\ ~Opens(groups[1]) => b = 1
           /\ SubSeq(groups, b + 1, Len(groups)) \in Seq(SUBSET (1..n))
           /\ Len(SubSeq(groups, b + 1, Len(groups))) = Len(groups) - b
           /\ \A j \in 1..Len(groups) - b :
                 SubSeq(groups, b + 1, Len(groups))[j] = groups[b + j]
<1> DEFINE T == SUBSET (1..n)
<1>1. groups \in Seq(T)
  OBVIOUS
<1> HIDE DEF T
<1>2. /\ Len(groups) \in Nat /\ 1 <= Len(groups)
      /\ \A i \in 1..Len(groups) : groups[i] \in T
  BY <1>1
<1>3. ParasPerChunk \in Nat /\ 1 <= ParasPerChunk
  BY DocumentsAssumption
<1>4. /\ b \in Nat /\ 1 <= b /\ b <= Len(groups) /\ b <= ParasPerChunk
      /\ DOMAIN Block = 1..b
      /\ \A i \in 1..b : Block[i] = groups[i]
      /\ ~Opens(groups[1]) => b = 1
  <2>1. CASE ~Opens(groups[1])
    <3>1. Block = <<groups[1]>>
      BY <2>1 DEF Block
    <3>2. Len(Block) = 1 /\ DOMAIN Block = 1..1 /\ Block[1] = groups[1]
      BY <3>1
    <3>3. QED
      BY <1>2, <1>3, <3>2
  <2>2. CASE Opens(groups[1])
    <3> DEFINE m == Least(ParasPerChunk, Len(groups))
    <3>1. m \in Nat /\ 1 <= m /\ m <= Len(groups) /\ m <= ParasPerChunk
      BY <1>2, <1>3 DEF Least
    <3>2. Block = SubSeq(groups, 1, m)
      BY <2>2 DEF Block
    <3> HIDE DEF m
    <3>3. \A i \in 1..m : groups[i] \in T
      BY <1>2, <3>1
    <3>4. /\ SubSeq(groups, 1, m) \in Seq(T)
          /\ Len(SubSeq(groups, 1, m)) = m
          /\ \A i \in 1..m : SubSeq(groups, 1, m)[i] = groups[i]
      BY <3>1, <3>3, SubSeqProperties
    <3>5. QED
      BY <2>2, <3>1, <3>2, <3>4
  <2>3. QED
    BY <2>1, <2>2
<1>5. /\ SubSeq(groups, b + 1, Len(groups)) \in Seq(T)
      /\ Len(SubSeq(groups, b + 1, Len(groups))) = Len(groups) - b
      /\ \A j \in 1..Len(groups) - b :
            SubSeq(groups, b + 1, Len(groups))[j] = groups[b + j]
  <2> DEFINE k == Len(groups)
             r == SubSeq(groups, b + 1, k)
  <2>1. k \in Nat /\ \A i \in b + 1..k : groups[i] \in T
    BY <1>2, <1>4
  <2>2. b + 1 \in Int /\ k \in Int /\ b \in Nat /\ b <= k
    BY <1>2, <1>4
  <2> HIDE DEF k
  <2>3. /\ r \in Seq(T)
        /\ Len(r) = IF b + 1 <= k THEN k - (b + 1) + 1 ELSE 0
        /\ \A i \in 1..k - (b + 1) + 1 : r[i] = groups[b + 1 + i - 1]
    BY <2>1, <2>2, SubSeqProperties
  <2> HIDE DEF r
  <2>4. Len(r) = k - b
    BY <2>1, <2>2, <2>3
  <2>5. \A j \in 1..k - b : j \in 1..k - (b + 1) + 1 /\ b + 1 + j - 1 = b + j
    BY <2>1, <2>2
  <2>6. QED
    BY <2>3, <2>4, <2>5 DEF k, r
<1>6. QED
  BY <1>4, <1>5 DEF T

(* The document of a block is cited by its first paragraph, and has no     *)
(* more of them than it may.                                               *)
LEMMA BlockCited ==
    ASSUME IdsInv, FileInv, file.kind = "PL", groups # <<>>,
           NEW p, p = at, NEW b, b = Len(Block),
           NEW lines, lines = UNION {Block[i] : i \in DOMAIN Block},
           NEW m, m = IF Opens(Kept(lines)) THEN First(lines) ELSE 0,
           Kept(lines) # {}
    PROVE  Names(Kept(lines), m) /\ Limited(Kept(lines))
<1> USE DEF FileInv
<1> DEFINE K == Kept(lines)
<1>1. p - 1 \in Nat /\ groups \in Seq(SUBSET (1..p - 1))
  BY DEF IdsInv, GroupsInv
<1>2. /\ b \in Nat /\ 1 <= b /\ b <= Len(groups) /\ b <= ParasPerChunk
      /\ DOMAIN Block = 1..b
      /\ \A i \in 1..b : Block[i] = groups[i]
      /\ ~Opens(groups[1]) => b = 1
  BY <1>1, BlockShape
<1>3. /\ Len(groups) \in Nat /\ DOMAIN groups = 1..Len(groups)
      /\ \A g \in DOMAIN groups : groups[g] \subseteq 1..p - 1
  BY <1>1, GroupShape
<1>4. \A i : i \in lines <=> \E g \in 1..b : i \in groups[g]
  BY <1>2
<1>5. \A g \in 1..b : /\ g \in DOMAIN groups
                      /\ groups[g] \in SUBSET Nat /\ groups[g] # {}
                      /\ \A i \in groups[g] :
                            Item(i) = "num" => \A j \in groups[g] : i <= j
                      /\ g # 1 => Below(groups[1], groups[g])
  <2> TAKE g \in 1..b
  <2>1. g \in DOMAIN groups /\ 1 \in DOMAIN groups
    BY <1>2, <1>3
  <2>2. groups[g] \in SUBSET Nat
    BY <1>3, <2>1
  <2>3. g # 1 => 1 < g
    BY <1>2
  <2>4. QED
    BY <2>1, <2>2, <2>3 DEF GroupsInv, Paragraph
<1>6. lines \in SUBSET Nat
  BY <1>4, <1>5
<1>7. /\ K \subseteq lines /\ K \in SUBSET Nat
      /\ \A i \in lines : i \in K <=> Item(i) # "blank"
  BY <1>6, KeptOf
<1>8. 1 \in 1..b
  BY <1>2
<1>9. CASE Opens(groups[1])
  <2> DEFINE f == First(groups[1])
  <2>1. f \in groups[1] /\ \A j \in groups[1] : f <= j
    BY <1>5, <1>8, FirstOf
  <2>2. Item(f) = "num"
    BY <1>9 DEF Opens
  <2> HIDE DEF f
  <2>3. f \in lines /\ f \in K /\ f \in Nat
    BY <1>4, <1>6, <1>7, <1>8, <2>1, <2>2
  <2>4. \A j \in lines : f <= j
    <3> SUFFICES ASSUME NEW j \in lines PROVE f <= j
      OBVIOUS
    <3>1. PICK g \in 1..b : j \in groups[g]
      BY <1>4
    <3>2. CASE g = 1
      BY <2>1, <3>1, <3>2
    <3>3. CASE g # 1
      <4>1. f < j
        BY <1>5, <2>1, <3>1, <3>3 DEF Below
      <4>2. j \in Nat
        BY <1>6
      <4>3. QED
        BY <2>3, <4>1, <4>2
    <3>4. QED
      BY <3>2, <3>3
  <2>5. First(lines) = f
    BY <1>6, <2>3, <2>4, FirstIs
  <2>6. First(K) = f
    <3>1. \A j \in K : f <= j
      BY <1>7, <2>4
    <3> HIDE DEF K
    <3>2. QED
      BY <1>7, <2>3, <3>1, FirstIs
  <2>7. Opens(K) /\ m = f
    BY <2>2, <2>5, <2>6 DEF Opens
  <2>8. Names(K, m)
    BY <2>2, <2>6, <2>7 DEF Names
  <2>9. Cardinality(Numbers(K)) <= ParasPerChunk
    <3> DEFINE h == [g \in 1..b |-> First(groups[g])]
               T == {h[g] : g \in 1..b}
    <3>1. h \in Surjection(1..b, T)
      BY DEF Surjection
    <3>2. IsFiniteSet(1..b) /\ Cardinality(1..b) = b
      <4>1. /\ IsFiniteSet(1..b)
            /\ Cardinality(1..b) = IF 1 > b THEN 0 ELSE b - 1 + 1
        <5>1. 1 \in Int /\ b \in Int
          BY <1>2
        <5>2. QED
          BY <5>1, FS_Interval, Zenon
      <4>2. (IF 1 > b THEN 0 ELSE b - 1 + 1) = b
        BY <1>2
      <4>3. QED
        BY <4>1, <4>2
    <3>3. Numbers(K) \subseteq T
      <4> SUFFICES ASSUME NEW i \in K, Item(i) = "num" PROVE i \in T
        BY DEF Numbers
      <4>1. PICK g \in 1..b : i \in groups[g]
        BY <1>4, <1>7
      <4>2. First(groups[g]) = i
        BY <1>5, <4>1, FirstIs
      <4>3. QED
        BY <4>2
    <3> HIDE DEF h, T
    <3>4. IsFiniteSet(T) /\ Cardinality(T) <= b
      BY <3>1, <3>2, FS_Surjection
    <3>5. IsFiniteSet(Numbers(K)) /\ Cardinality(Numbers(K)) <= Cardinality(T)
      BY <3>3, <3>4, FS_Subset
    <3>6. Cardinality(Numbers(K)) \in Nat /\ Cardinality(T) \in Nat
      BY <3>4, <3>5, FS_CardinalityType
    <3>7. QED
      BY <1>2, <3>4, <3>5, <3>6, DocumentsAssumption
  <2>10. QED
    BY <2>7, <2>8, <2>9 DEF Limited
<1>10. CASE ~Opens(groups[1])
  <2>1. \A i \in groups[1] : Item(i) # "num"
    <3> SUFFICES ASSUME NEW i \in groups[1], Item(i) = "num" PROVE FALSE
      OBVIOUS
    <3>1. First(groups[1]) = i
      BY <1>5, <1>8, FirstIs
    <3>2. QED
      BY <1>10, <3>1 DEF Opens
  <2>2. \A i \in K : Item(i) # "num"
    BY <1>2, <1>4, <1>7, <1>10, <2>1
  <2>3. First(K) \in K
    BY <1>7, FirstOf
  <2>4. ~Opens(K) /\ m = 0
    BY <2>2, <2>3 DEF Opens
  <2>5. Names(K, m)
    BY <2>2, <2>3, <2>4 DEF Names
  <2>6. Numbers(K) = {}
    BY <2>2 DEF Numbers
  <2>7. Cardinality(Numbers(K)) <= ParasPerChunk
    <3>1. Cardinality(Numbers(K)) = 0
      BY <2>6, FS_EmptySet
    <3>2. 0 <= ParasPerChunk
      BY DocumentsAssumption
    <3>3. QED
      BY <3>1, <3>2
  <2>8. docs = <<>>
    BY <1>5, <1>8, <1>10 DEF GroupsInv
  <2>9. QED
    BY <2>5, <2>6, <2>7, <2>8 DEF Limited
<1>11. QED
  BY <1>9, <1>10

LEMMA BlockFile ==
    ASSUME IdsInv, FileInv, EmitBlock
    PROVE  FileInv'
<1> USE DEF FileInv
<1>1. PICK p : p = at
  OBVIOUS
<1>2. PICK b : b = Len(Block)
  OBVIOUS
<1>3. PICK lines : lines = UNION {Block[i] : i \in DOMAIN Block}
  OBVIOUS
<1>4. PICK m : m = IF Opens(Kept(lines)) THEN First(lines) ELSE 0
  OBVIOUS
<1>5. PICK key : key = keys
  OBVIOUS
<1> DEFINE K == Kept(lines)
<1>6. /\ step = "emit" /\ groups # <<>> /\ file.kind = "PL"
      /\ IF Blank(lines) THEN UNCHANGED <<docs, keys>>
         ELSE /\ Emit(Document(key, K, IF Opens(K) THEN First(lines) ELSE 0, "whole"))
              /\ keys' = keys + 1
      /\ groups' = SubSeq(groups, b + 1, Len(groups))
      /\ UNCHANGED <<file, wiring, step, at, held, mark, used>>
  BY <1>2, <1>3, <1>5 DEF EmitBlock, IdsInv
<1>7. /\ p \in Nat \ {0} /\ p - 1 \in Nat
      /\ groups \in Seq(SUBSET (1..p - 1)) /\ held = {}
      /\ p = Len(file.items) + 1
      /\ keys \in Nat /\ keys + Len(groups) < p
  <2>1. /\ p \in Nat \ {0} /\ p - 1 \in Nat /\ keys \in Nat
        /\ groups \in Seq(SUBSET (1..p - 1)) /\ held = {}
        /\ p = Len(file.items) + 1
        /\ keys + Len(groups) + 0 < p
    BY <1>1, <1>6 DEF IdsInv, GroupsInv
  <2>2. Len(groups) \in Nat
    BY <2>1, GroupShape
  <2>3. QED
    BY <2>1, <2>2
<1>8. /\ b \in Nat /\ 1 <= b /\ b <= Len(groups)
      /\ DOMAIN Block = 1..b
      /\ \A i \in 1..b : Block[i] = groups[i]
      /\ groups' \in Seq(SUBSET (1..p - 1))
      /\ Len(groups') = Len(groups) - b
      /\ \A j \in 1..Len(groups) - b : groups'[j] = groups[b + j]
  BY <1>2, <1>6, <1>7, BlockShape
<1>9. /\ Len(groups) \in Nat /\ DOMAIN groups = 1..Len(groups)
      /\ \A g \in DOMAIN groups : groups[g] \subseteq 1..p - 1
  BY <1>7, GroupShape
<1>10. \A g \in DOMAIN groups :
          /\ Paragraph(groups[g])
          /\ g # 1 \/ docs # <<>> => Opens(groups[g])
          /\ \A h \in DOMAIN groups : g < h => Below(groups[g], groups[h])
          /\ \A d \in DOMAIN docs : Below(docs[d].items, groups[g])
  BY <1>6 DEF GroupsInv
<1>11. \A i : i \in lines <=> \E g \in 1..b : i \in groups[g]
  BY <1>3, <1>8
<1>12. 1..b \subseteq DOMAIN groups
  BY <1>8, <1>9
<1>13. lines \subseteq 1..p - 1 /\ lines \in SUBSET Nat
  BY <1>9, <1>11, <1>12
<1>14. /\ K \subseteq lines /\ K \in SUBSET Nat
       /\ \A i \in lines : i \in K <=> Item(i) # "blank"
       /\ Blank(lines) <=> K = {}
  BY <1>13, KeptOf
<1>15. \A d \in DOMAIN docs : Below(docs[d].items, K)
  BY <1>10, <1>11, <1>12, <1>14 DEF Below
<1>16. DOMAIN groups' = 1..Len(groups) - b
  <2> DEFINE T == SUBSET (1..p - 1)
  <2>1. groups' \in Seq(T)
    BY <1>8
  <2> HIDE DEF T
  <2>2. DOMAIN groups' = 1..Len(groups')
    BY <2>1
  <2>3. QED
    BY <1>8, <2>2
<1>17. \A g \in DOMAIN groups' :
          /\ b + g \in DOMAIN groups /\ groups'[g] = groups[b + g]
          /\ b + g # 1 /\ g \in Nat /\ \A c \in 1..b : c < b + g
  <2> TAKE g \in DOMAIN groups'
  <2>1. g \in Nat /\ 1 <= g /\ b + g <= Len(groups) /\ b + g \in Nat
    BY <1>8, <1>9, <1>16
  <2>2. b + g \in DOMAIN groups
    BY <1>8, <1>9, <2>1
  <2>3. groups'[g] = groups[b + g]
    BY <1>8, <1>16
  <2>4. QED
    BY <1>8, <2>1, <2>2, <2>3
<1>18. \A i : Grouped(i) => i \in lines \/ Grouped(i)'
  <2> SUFFICES ASSUME NEW i, NEW g \in DOMAIN groups, i \in groups[g]
               PROVE  i \in lines \/ Grouped(i)'
    BY DEF Grouped
  <2>1. CASE g <= b
    <3>1. g \in 1..b
      BY <1>8, <1>9, <2>1
    <3>2. QED
      BY <1>11, <3>1
  <2>2. CASE ~(g <= b)
    <3>1. g - b \in 1..Len(groups) - b /\ b + (g - b) = g
      BY <1>8, <1>9, <2>2
    <3>2. groups'[g - b] = groups[g]
      BY <1>8, <3>1
    <3>3. g - b \in DOMAIN groups'
      BY <1>16, <3>1
    <3>4. QED
      BY <3>2, <3>3 DEF Grouped
  <2>3. QED
    BY <2>1, <2>2
<1>19. /\ \A d \in DOMAIN docs' :
             \/ d \in DOMAIN docs /\ docs'[d] = docs[d]
             \/ docs'[d].items = K /\ K # {}
       /\ \A i : Homes(i) # {} \/ i \in K => Homes(i)' # {}
       /\ InOrder' /\ CitedRight'
  <2>1. CASE K = {}
    <3>1. UNCHANGED docs
      BY <1>6, <1>14, <2>1
    <3>2. CitedRight'
      BY <1>6, <3>1 DEF CitedRight, NamesPlace, Bounded, Opens, Item
    <3>3. InOrder'
      BY <3>1 DEF PlaceInv, InOrder
    <3>4. \A i : Homes(i)' = Homes(i)
      BY <3>1 DEF Homes
    <3>5. QED
      BY <2>1, <3>1, <3>2, <3>3, <3>4
  <2>2. CASE K # {}
    <3>1. Names(K, m) /\ Limited(K)
      BY <1>1, <1>2, <1>3, <1>4, <1>6, <2>2, BlockCited
    <3>2. Emit(Document(key, K, m, "whole"))
      BY <1>4, <1>6, <1>14, <2>2
    <3> HIDE DEF K
    <3>3. QED
      BY <1>6, <1>14, <1>15, <2>2, <3>1, <3>2, Placed
  <2>3. QED
    BY <2>1, <2>2
<1>20. keys' \in Nat /\ keys' + Len(groups') < p /\ keys' <= p
  <2> DEFINE k == Len(groups)
  <2>1. keys' \in {keys, keys + 1}
    BY <1>6
  <2>2. k \in Nat /\ keys + k < p /\ Len(groups') = k - b /\ b <= k
    BY <1>7, <1>8, <1>9
  <2> HIDE DEF k
  <2>3. QED
    BY <1>7, <1>8, <2>1, <2>2
<1>21. ReadInv'
  BY <1>1, <1>6, <1>7, <1>20 DEF ReadInv, WasRead, wiring
<1>22. PlaceInv'
  <2>1. \A d \in DOMAIN docs' : /\ docs'[d].items \subseteq 1..p - 1
                                /\ docs'[d].items # {}
    BY <1>1, <1>13, <1>14, <1>19 DEF PlaceInv
  <2>2. \A i \in 1..p - 1 : HasText(i) => Grouped(i) \/ Homes(i) # {}
    BY <1>1, <1>7 DEF PlaceInv
  <2>3. \A i : HasText(i) => Item(i) # "blank"
    BY <1>6 DEF HasText
  <2>4. \A i : HasText(i)' <=> HasText(i)
    BY <1>6 DEF HasText, Item
  <2>5. \A i \in 1..p - 1 : HasText(i)' => Grouped(i)' \/ Homes(i)' # {}
    BY <1>14, <1>18, <1>19, <2>2, <2>3, <2>4
  <2>6. QED
    BY <1>1, <1>6, <1>7, <1>19, <2>1, <2>5 DEF PlaceInv, Below
<1>23. GroupsInv'
  <2>1. ASSUME NEW g \in DOMAIN groups'
        PROVE  /\ Paragraph(groups'[g])
               /\ Opens(groups'[g])
               /\ \A h \in DOMAIN groups' :
                     g < h => \A i \in groups'[g], j \in groups'[h] : i < j
               /\ \A d \in DOMAIN docs' :
                     \A i \in docs'[d].items, j \in groups'[g] : i < j
    <3>1. /\ b + g \in DOMAIN groups /\ groups'[g] = groups[b + g] /\ b + g # 1
          /\ \A c \in 1..b : c < b + g
      BY <1>17
    <3>2. Paragraph(groups'[g]) /\ Opens(groups'[g])
      BY <1>10, <3>1
    <3>3. ASSUME NEW h \in DOMAIN groups', g < h
          PROVE  \A i \in groups'[g], j \in groups'[h] : i < j
      <4>1. b + h \in DOMAIN groups /\ groups'[h] = groups[b + h] /\ b + g < b + h
        BY <1>8, <1>17, <3>3
      <4>2. QED
        BY <1>10, <3>1, <4>1 DEF Below
    <3>4. ASSUME NEW i \in K, NEW j \in groups'[g] PROVE i < j
      <4>1. PICK c \in 1..b : i \in groups[c]
        BY <1>11, <1>14
      <4>2. Below(groups[c], groups[b + g])
        BY <1>10, <1>12, <3>1
      <4>3. QED
        BY <3>1, <4>1, <4>2 DEF Below
    <3>5. ASSUME NEW d \in DOMAIN docs'
          PROVE  \A i \in docs'[d].items, j \in groups'[g] : i < j
      <4>1. CASE d \in DOMAIN docs /\ docs'[d] = docs[d]
        BY <1>10, <3>1, <4>1 DEF Below
      <4>2. CASE docs'[d].items = K
        BY <3>4, <4>2
      <4>3. QED
        BY <1>19, <4>1, <4>2
    <3>6. QED
      BY <3>2, <3>3, <3>5
  <2>2. /\ groups' \in Seq(SUBSET (1..at' - 1)) /\ held' = {} /\ step' = "emit"
        /\ at' = Len(file'.items) + 1 /\ file'.kind = "PL"
    BY <1>1, <1>6, <1>7, <1>8
  <2>3. keys' + Len(groups') + 0 < at'
    <3> DEFINE k == Len(groups')
    <3>1. k \in Nat
      BY <1>8, <1>9
    <3>2. keys' \in Nat /\ keys' + k < p /\ at' = p
      BY <1>1, <1>6, <1>20
    <3> HIDE DEF k
    <3>3. keys' + k + 0 < at'
      BY <3>1, <3>2
    <3>4. QED
      BY <3>3 DEF k
  <2>4. QED
    BY <1>6, <2>1, <2>2, <2>3 DEF GroupsInv, Paragraph, Opens, Item, Below
<1>24. PagesInv' /\ MarksInv'
  BY <1>6 DEF PagesInv, MarksInv
<1>25. QED
  BY <1>19, <1>21, <1>22, <1>23, <1>24

-------------------------------------------------------------------------------
LEMMA InitFile == DocumentsInit => FileInv
<1> SUFFICES ASSUME DocumentsInit PROVE FileInv
  OBVIOUS
<1>1. /\ at = 1 /\ held = {} /\ mark = 0 /\ keys = 0 /\ used = 0
      /\ groups = <<>> /\ docs = <<>> /\ dispatch = "base" /\ original = <<>>
      /\ step = IF file = Plain THEN "done" ELSE "wire"
  BY DEF DocumentsInit
<1>2. Len(file.items) \in Nat /\ (file = Plain => Len(file.items) = 0)
  BY InitIds, FileShape
<1>3. ReadInv
  BY <1>1, <1>2, DocumentsAssumption DEF ReadInv, WasRead
<1>4. PlaceInv
  BY <1>1 DEF PlaceInv, InOrder
<1>5. PagesInv
  <2>1. Cardinality(Scanned(1)) \in Nat
    BY ScannedCount
  <2>2. QED
    BY <1>1, <2>1 DEF PagesInv
<1>6. MarksInv
  BY <1>1, FS_EmptySet, DocumentsAssumption DEF MarksInv
<1>7. GroupsInv
  BY <1>1 DEF GroupsInv
<1>8. CitedRight
  BY <1>1 DEF CitedRight
<1>9. QED
  BY <1>3, <1>4, <1>5, <1>6, <1>7, <1>8 DEF FileInv

LEMMA FileInvariant == DocumentsSpec => []FileInv
<1>1. IdsInv /\ FileInv /\ [DocumentsNext]_<<vars, dvars>> => FileInv'
  <2> SUFFICES ASSUME IdsInv, FileInv, [DocumentsNext]_<<vars, dvars>>
               PROVE  FileInv'
    OBVIOUS
  <2>1. CASE UNCHANGED dvars
    <3>1. UNCHANGED <<file, reading>>
      BY <2>1 DEF dvars
    <3>2. ReadInv'
      BY <2>1 DEF dvars, wiring, reading, FileInv, ReadInv, WasRead
    <3>3. GroupsInv'
      BY <2>1 DEF dvars, wiring, reading, FileInv, GroupsInv, Paragraph,
                  Below, Opens, Item
    <3>4. QED
      BY <3>1, <3>2, <3>3, NothingRead
  <2>2. CASE Extract
    <3>1. CASE ReadPage
      BY <3>1, PageFile
    <3>2. CASE ReadParagraph
      BY <3>2, ParagraphFile
    <3>3. CASE ReadMessage
      BY <3>3, MessageFileInv
    <3>4. CASE ReadLine
      BY <3>4, LineFile
    <3>5. CASE ReadPleading
      BY <3>5, PleadingFile
    <3>6. CASE EmitBlock
      BY <3>6, BlockFile
    <3>7. CASE Register \/ Unregister \/ Dispatch \/ Raises \/ Return
      BY <3>7, UnreadFile
    <3>8. QED
      BY <2>2, <3>1, <3>2, <3>3, <3>4, <3>5, <3>6, <3>7 DEF Extract
  <2>3. QED
    BY <2>1, <2>2 DEF DocumentsNext
<1>2. QED
  BY InitFile, IdsInvariant, <1>1, PTL DEF DocumentsSpec

(* What is in a document is in one only.                                   *)
LEMMA OneHome ==
    ASSUME IdsInv, FileInv, NEW i, Homes(i) # {}
    PROVE  Cardinality(Homes(i)) = 1
<1>1. DOMAIN docs \subseteq Nat
  <2>1. Len(docs) \in Nat /\ DOMAIN docs = 1..Len(docs)
    BY Appended DEF IdsInv
  <2>2. QED
    BY <2>1
<1>2. \A d \in DOMAIN docs : docs[d].items \subseteq Nat
  BY DEF FileInv, PlaceInv, IdsInv
<1>3. PICK d \in DOMAIN docs : i \in docs[d].items
  BY DEF Homes
<1>4. ASSUME NEW c \in DOMAIN docs, i \in docs[c].items PROVE c = d
  <2>1. i \in Nat
    BY <1>2, <1>3
  <2>2. ~(c < d) /\ ~(d < c)
    BY <1>3, <1>4, <2>1 DEF FileInv, PlaceInv, InOrder
  <2>3. QED
    BY <1>1, <2>2
<1>5. Homes(i) = {d}
  BY <1>3, <1>4 DEF Homes
<1>6. QED
  BY <1>5, FS_Singleton

(* The texts: all whole, but for an mbox's.                                *)
WholeInv == file.kind # "mbox" => \A d \in DOMAIN docs : docs[d].text = "whole"

LEMMA Emitted ==
    ASSUME IdsInv, WholeInv, UNCHANGED file, NEW key, NEW items, NEW cites,
           Emit(Document(key, items, cites, "whole"))
    PROVE  WholeInv'
<1> DEFINE d0 == Document(key, items, cites, "whole")
<1>1. docs' = Append(docs, d0) /\ d0.text = "whole"
  BY DEF Emit, Document
<1> HIDE DEF d0
<1>2. /\ DOMAIN docs = 1..Len(docs) /\ DOMAIN docs' = 1..Len(docs) + 1
      /\ Len(docs) \in Nat
      /\ \A d \in DOMAIN docs : docs'[d] = docs[d]
      /\ docs'[Len(docs) + 1] = d0
  BY <1>1, Appended DEF IdsInv
<1>3. \A d \in DOMAIN docs' : d \in DOMAIN docs \/ d = Len(docs) + 1
  BY <1>2
<1>4. QED
  BY <1>1, <1>2, <1>3 DEF WholeInv

LEMMA WholeInvariant == DocumentsSpec => []WholeInv
<1>1. DocumentsInit => WholeInv
  BY DEF DocumentsInit, WholeInv
<1>2. IdsInv /\ WholeInv /\ [DocumentsNext]_<<vars, dvars>> => WholeInv'
  <2> SUFFICES ASSUME IdsInv, WholeInv, [DocumentsNext]_<<vars, dvars>>
               PROVE  WholeInv'
    OBVIOUS
  <2>1. CASE UNCHANGED <<file, docs>>
    BY <2>1 DEF WholeInv
  <2>2. CASE ReadPage
    BY <2>1, <2>2, Emitted DEF ReadPage
  <2>3. CASE ReadParagraph
    <3>1. UNCHANGED file /\ (UNCHANGED docs \/ Flush)
      BY <2>3 DEF ReadParagraph
    <3>2. QED
      BY <2>1, <3>1, Emitted DEF Flush
  <2>4. CASE ReadMessage
    <3>1. CASE file.kind = "mbox"
      BY <2>4, <3>1 DEF ReadMessage, WholeInv
    <3>2. CASE file.kind # "mbox"
      BY <2>1, <2>4, <3>2, Emitted DEF ReadMessage
    <3>3. QED
      BY <3>1, <3>2
  <2>5. CASE ReadLine
    <3>1. UNCHANGED file /\ (UNCHANGED docs \/ FlushLines)
      BY <2>5 DEF ReadLine
    <3>2. QED
      BY <2>1, <3>1, Emitted DEF FlushLines
  <2>6. CASE EmitBlock
    BY <2>1, <2>6, Emitted DEF EmitBlock
  <2>7. CASE \/ Register \/ Unregister \/ Dispatch \/ Raises
             \/ ReadPleading \/ Return \/ UNCHANGED dvars
    BY <2>1, <2>7 DEF Register, Unregister, Dispatch, Raises, ReadPleading, Return,
                      reading, dvars
  <2>8. QED
    BY <2>2, <2>3, <2>4, <2>5, <2>6, <2>7 DEF DocumentsNext, Extract, dvars
<1>3. QED
  BY <1>1, <1>2, IdsInvariant, PTL DEF DocumentsSpec

(* Every piece of text of a file that was read is in one document and one  *)
(* only, in the order of the file, all of it but for the bodies of an      *)
(* mbox's messages, and a scanned page is missing only                     *)
(* after MAX_OCR_PAGES pages that OCR has read: for every extractor and    *)
(* files of any length (ingest/pdf.py, docx.py, eml.py;                    *)
(* packs/litigation/chunker.py).                                           *)
THEOREM TextStays == DocumentsSpec => []TextKept
<1>1. TypeOK /\ IdsInv /\ FileInv /\ WholeInv => TextKept
  <2> SUFFICES ASSUME TypeOK, IdsInv, FileInv, WholeInv PROVE TextKept
    OBVIOUS
  <2> USE DEF FileInv
  <2>1. /\ Len(file.items) \in Nat /\ file.kind \in Kinds \cup {"plain"}
        /\ at \in Nat \ {0} /\ keys \in Nat
    BY FileShape DEF IdsInv
  <2>2. \A g \in DOMAIN groups : groups[g] \subseteq 1..at - 1
    <3>1. CASE groups = <<>>
      BY <3>1
    <3>2. CASE file.kind = "PL"
      <4>1. at - 1 \in Nat /\ groups \in Seq(SUBSET (1..at - 1))
        BY <2>1, <3>2 DEF GroupsInv
      <4>2. QED
        BY <4>1, GroupShape
    <3>3. QED
      BY <3>1, <3>2 DEF GroupsInv
  <2>3. DocumentsTypeOK
    BY <2>1, <2>2 DEF DocumentsTypeOK, ReadInv, PlaceInv
  <2>4. WasRead => at = Len(file.items) + 1 /\ held = {} /\ groups = <<>>
    BY DEF ReadInv
  <2>5. ASSUME WasRead, NEW i \in DOMAIN file.items
        PROVE  /\ HasText(i) => Cardinality(Homes(i)) = 1
               /\ file.kind = "pdf" /\ Missing(i) =>
                     Cardinality({j \in 1..i - 1 : Item(j) \in {"scan", "blank"}})
                         >= MaxOcrPages
    <3>1. i \in 1..at - 1
      <4>1. DOMAIN file.items = 1..Len(file.items)
        <5>1. CASE file = Plain
          BY <5>1 DEF Plain
        <5>2. CASE file \in Files
          <6> DEFINE s == file.items
          <6>1. s \in Seq(STRING)
            BY <5>2, DocumentsAssumption
          <6> HIDE DEF s
          <6>2. DOMAIN s = 1..Len(s)
            BY <6>1
          <6>3. QED
            BY <6>2 DEF s
        <5>3. QED
          BY <5>1, <5>2 DEF IdsInv
      <4>2. QED
        BY <2>1, <2>4, <2>5, <4>1
    <3>2. HasText(i) => Homes(i) # {}
      BY <2>4, <2>5, <3>1 DEF PlaceInv, Grouped
    <3>3. file.kind = "pdf" /\ Missing(i) => Cardinality(Scanned(i)) >= MaxOcrPages
      BY <3>1 DEF PagesInv
    <3>4. QED
      BY <3>2, <3>3, OneHome DEF Scanned
  <2>6. QED
    BY <2>3, <2>5 DEF TextKept, PlaceInv, WholeInv
<1>2. DocumentsSpec => []TypeOK
  BY Chunks, TypeCorrect
<1>3. QED
  BY <1>1, <1>2, IdsInvariant, FileInvariant, WholeInvariant, PTL

(* A citation names the place where its document begins, and no document   *)
(* runs past its bounds, for files of any length (ingest/docx.py;          *)
(* packs/litigation/chunker.py, extractor.py).                             *)
THEOREM CitesRight == DocumentsSpec => []CitedRight
<1>1. FileInv => CitedRight
  BY DEF FileInv
<1>2. QED
  BY FileInvariant, <1>1, PTL
===============================================================================
