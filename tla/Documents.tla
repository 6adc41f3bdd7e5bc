------------------------------ MODULE Documents ------------------------------
(***************************************************************************)
(* What ingest does with a document before it is stored: a markdown text   *)
(* becomes sections that name the lines they come from (_parse_markdown),  *)
(* and the content of a section becomes chunks (chunk_sections).           *)
(*                                                                         *)
(* A document is [type, size, lines]: its lines (or the pages of a PDF) are *)
(* names of headings, "text" or "blank"; type is "MARKDOWN", "PDF" or the   *)
(* name of what cannot be read ("binary", "encrypted", "other").  The      *)
(* content of a section is a sequence of characters: "x" a letter, "o" the *)
(* full stop of Chinese, a dot, a space or a line break.  Positions count   *)
(* from 0, as in the code: content[i] is text[i+1].                         *)
(***************************************************************************)
EXTENDS Naturals, Sequences, FiniteSets, FiniteSetsExt, SequencesExt, Ranking

IsHeading(line) == line \notin {"text", "blank"}

\* Mutant: the section claims the line that ended it.
MutFlush(lines, acc, end) ==
  LET content == {n \in acc.body : lines[n] = "text"}
  IN IF content = {} THEN acc.sections
     ELSE Append(acc.sections, [title |-> acc.heading, first |-> acc.from,
                                last |-> Max({acc.from, end + 1}), content |-> content])

\* flush: a section with nothing but blank lines is left out.
Flush(lines, acc, end) ==
  LET content == {n \in acc.body : lines[n] = "text"}
  IN IF content = {} THEN acc.sections
     ELSE Append(acc.sections, [title |-> acc.heading, first |-> acc.from,
                                last |-> Max({acc.from, end}), content |-> content])

\* _parse_markdown: the loop over the lines.
ParseMarkdown(lines) ==
  LET step(acc, n) ==
        IF IsHeading(lines[n])
        THEN [sections |-> Flush(lines, acc, n - 1), heading |-> lines[n], from |-> n, body |-> {}]
        ELSE [acc EXCEPT !.body = @ \cup {n}]
      end == FoldLeftDomain(step, [sections |-> <<>>, heading |-> "default", from |-> 1, body |-> {}], lines)
  IN Flush(lines, end, Len(lines))

\* _parse_pdf: a section for each page that has text.
ParsePdf(pages) ==
  LET numbers == Ranked({i \in DOMAIN pages : pages[i] # "blank"}, LAMBDA i, j : i < j)
  IN [j \in DOMAIN numbers |-> [title |-> "page", first |-> numbers[j], last |-> numbers[j],
                                content |-> {numbers[j]}]]

\* parse_document, with the limits on bytes and pages.
ParseDocument(doc, limits) ==
  LET sections == IF doc.type = "MARKDOWN" THEN ParseMarkdown(doc.lines) ELSE ParsePdf(doc.lines)
      error == CASE doc.size = 0 -> "parse"
                 [] doc.size > 0 /\ doc.type \in {"MARKDOWN", "binary"} /\ doc.size > limits.markdown -> "limit"
                 [] doc.size > 0 /\ doc.type \in {"PDF", "encrypted"} /\ doc.size > limits.pdf -> "limit"
                 [] OTHER -> IF doc.type \in {"binary", "encrypted", "other"} THEN "parse"
                             ELSE IF doc.type = "PDF" /\ Len(doc.lines) > limits.pages THEN "limit"
                             ELSE IF sections = <<>> THEN "parse" ELSE "none"
  IN [error |-> error, sections |-> IF error = "none" THEN sections ELSE <<>>]

----------------------------------------------------------------------------

Blank(char) == char \in {" ", "\n"}

\* rfind of a line break, of a full stop or of a dot and a space in content[start:end],
\* or -1; one more than that here.
Boundary(text, start, end) ==
  LET found == {i \in start..(end - 1) :
                  \/ text[i + 1] \in {"\n", "o"}
                  \/ i + 1 < end /\ text[i + 1] = "." /\ text[i + 2] = " "}
  IN IF found = {} THEN 0 ELSE Max(found) + 1

\* Mutant: a chunk may end at its first boundary.
MutChunkEnd(text, start, max) ==
  LET end == Min({Len(text), start + max})
      boundary == Boundary(text, start, end)
  IN IF end < Len(text) /\ boundary > start + 1 THEN boundary ELSE end

\* A chunk ends after a boundary in its second half, if there is one.
ChunkEnd(text, start, max) ==
  LET end == Min({Len(text), start + max})
      boundary == Boundary(text, start, end)
  IN IF end < Len(text) /\ boundary > start + max \div 2 + 1 THEN boundary ELSE end

\* The ranges the loop goes through, <<start, end>> for content[start:end].
Ranges(text, max, overlap) ==
  LET from[start \in 0..Len(text)] ==
        LET end == ChunkEnd(text, start, max)
        IN IF end >= Len(text) THEN <<<<start, end>>>>
           ELSE <<<<start, end>>>> \o from[Max({start + 1, end - overlap})]
  IN from[0]

\* strip: the positions of a range without blanks at its ends.
Strip(text, range) ==
  LET letters == {i \in range[1]..(range[2] - 1) : ~Blank(text[i + 1])}
  IN IF letters = {} THEN {} ELSE Min(letters)..Max(letters)

\* chunk_sections for one section: the positions each chunk holds, its number being
\* its ordinal; a range of blanks is no chunk.
Chunks(text, max, overlap) ==
  LET ranges == Ranges(text, max, overlap)
      kept == Ranked({i \in DOMAIN ranges : Strip(text, ranges[i]) # {}}, LAMBDA i, j : i < j)
  IN [k \in DOMAIN kept |-> Strip(text, ranges[kept[k]])]
=============================================================================
