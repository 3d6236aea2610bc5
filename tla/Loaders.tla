------------------------------- MODULE Loaders -------------------------------
(***************************************************************************)
(* The document loaders of ingestion: a stored file becomes the units the  *)
(* chunker works on.  A text file is one unit, a PDF gives one unit per    *)
(* page with text, and Markdown one per section, which starts at an ATX    *)
(* heading and is labelled with it.  One action is one pass of a loop.     *)
(*                                                                         *)
(* A part of a source is a line of Markdown, with the title HEADING_RE     *)
(* finds in it or NoTitle, or a page of a PDF, or the whole of a text      *)
(* file.  Lines that a section collects are consecutive, so current_lines  *)
(* is the range of parts from sectionStart to the line before the next.    *)
(***************************************************************************)
EXTENDS Integers, Sequences

CONSTANTS
    Sources,     \* records [format, intact, parts]; a part is [text, title]
    NoTitle,     \* label of what has neither heading nor page number
    WhiteSpace   \* characters that strip() removes

ASSUME SourcesAssumption ==
    \A s \in Sources :
       /\ s.format \in {"txt", "md", "pdf"} /\ s.intact \in BOOLEAN
       /\ Len(s.parts) \in Nat
       /\ s.format = "txt" => Len(s.parts) = 1
\* A heading has text.
ASSUME HeadingAssumption ==
    \A s \in Sources : \A i \in 1 .. Len(s.parts) :
       s.parts[i].title # NoTitle =>
          \E j \in 1 .. Len(s.parts[i].text) : s.parts[i].text[j] \notin WhiteSpace

VARIABLES
    source,        \* the file
    loadPc,        \* "open", "lines", "pages", then "loaded" or "refused"
    next,          \* the part read next
    sectionStart,  \* first of current_lines
    heading,       \* current_heading
    loaded         \* units: [first, last, label]

loadVars == <<source, loadPc, next, sectionStart, heading, loaded>>

LoadInit ==
    /\ source \in Sources
    /\ loadPc = "open"
    /\ next = 1 /\ sectionStart = 1
    /\ heading = NoTitle
    /\ loaded = <<>>

-----------------------------------------------------------------------------
(* Pure parts *)

PartCount == Len(source.parts)
Title(i) == source.parts[i].title
BlankPart(i) == \A j \in 1 .. Len(source.parts[i].text) : source.parts[i].text[j] \in WhiteSpace
BlankParts(m, n) == \A i \in m .. n : BlankPart(i)

\* Parts m to n become a unit, unless there is no text in them.
AddUnit(m, n, label) ==
    loaded' = IF BlankParts(m, n) THEN loaded
              ELSE Append(loaded, [first |-> m, last |-> n, label |-> label])

\* Mutated form of Flush: the section is closed under the heading that ends it.
FlushUnderNext == AddUnit(sectionStart, next - 1, IF next <= PartCount THEN Title(next) ELSE heading)

\* Mutated form of Flush: the section before a heading is forgotten.
ForgetSection == UNCHANGED loaded

\* flush of the Markdown loader.
Flush == AddUnit(sectionStart, next - 1, heading)

\* Mutated form of HasText: an empty file is loaded.
AnyFile == TRUE

HasText == ~BlankParts(1, PartCount)

-----------------------------------------------------------------------------
(* Text and Markdown: not UTF-8, binary data or no useful text is refused   *)

OpenText ==
    /\ loadPc = "open"
    /\ source.format \in {"txt", "md"}
    /\ IF ~source.intact \/ ~HasText
         THEN loadPc' = "refused" /\ UNCHANGED loaded
         ELSE IF source.format = "md"
                THEN loadPc' = "lines" /\ UNCHANGED loaded
                ELSE /\ loadPc' = "loaded"
                     /\ loaded' = <<[first |-> 1, last |-> 1, label |-> NoTitle]>>
    /\ UNCHANGED <<source, next, sectionStart, heading>>

HeadingLine ==
    /\ loadPc = "lines"
    /\ next <= PartCount
    /\ Title(next) # NoTitle
    /\ Flush
    /\ sectionStart' = next
    /\ heading' = Title(next)
    /\ next' = next + 1
    /\ UNCHANGED <<source, loadPc>>

OtherLine ==
    /\ loadPc = "lines"
    /\ next <= PartCount
    /\ Title(next) = NoTitle
    /\ next' = next + 1
    /\ UNCHANGED <<source, loadPc, sectionStart, heading, loaded>>

LastSection ==
    /\ loadPc = "lines"
    /\ next > PartCount
    /\ Flush
    /\ loadPc' = "loaded"
    /\ UNCHANGED <<source, next, sectionStart, heading>>

-----------------------------------------------------------------------------
(* PDF *)

\* A reader that fails, or an encrypted file.
OpenPdf ==
    /\ loadPc = "open"
    /\ source.format = "pdf"
    /\ \/ ~source.intact /\ loadPc' = "refused"
       \/ loadPc' = "pages"
    /\ UNCHANGED <<source, next, sectionStart, heading, loaded>>

Page ==
    /\ loadPc = "pages"
    /\ next <= PartCount
    /\ AddUnit(next, next, next)
    /\ next' = next + 1
    /\ UNCHANGED <<source, loadPc, sectionStart, heading>>

\* extract_text raises: the pages read so far are dropped with the document.
PageFails ==
    /\ loadPc = "pages"
    /\ next <= PartCount
    /\ ~source.intact
    /\ loadPc' = "refused"
    /\ UNCHANGED <<source, next, sectionStart, heading, loaded>>

LastPage ==
    /\ loadPc = "pages"
    /\ next > PartCount
    /\ loadPc' = IF loaded = <<>> THEN "refused" ELSE "loaded"
    /\ UNCHANGED <<source, next, sectionStart, heading, loaded>>

LoadStep == OpenText \/ HeadingLine \/ OtherLine \/ LastSection
            \/ OpenPdf \/ Page \/ PageFails \/ LastPage
LoadSpec == LoadInit /\ [][LoadStep]_loadVars

-----------------------------------------------------------------------------
(* Properties                                                               *)

\* Every variable has its type.
LoadTypeOK ==
    /\ source.format \in {"txt", "md", "pdf"} /\ source.intact \in BOOLEAN
    /\ loadPc \in {"open", "lines", "pages", "loaded", "refused"}
    /\ next \in 1 .. PartCount + 1
    /\ sectionStart \in 1 .. next
    /\ loaded \in Seq([first : 1 .. PartCount, last : 1 .. PartCount,
                       label : {NoTitle} \cup {Title(i) : i \in 1 .. PartCount}
                               \cup 1 .. PartCount])

\* The heading a part stands under: the last one at or above it.
Under(i, title) ==
    \/ /\ title = NoTitle
       /\ \A j \in 1 .. i : Title(j) = NoTitle
    \/ \E j \in 1 .. i : /\ Title(j) = title /\ title # NoTitle
                         /\ \A h \in j + 1 .. i : Title(h) = NoTitle

\* The label that citations of a part must show.
RightLabel(i, label) ==
    CASE source.format = "txt" -> label = NoTitle
      [] source.format = "md" -> Under(i, label)
      [] source.format = "pdf" -> label = i

\* A document that is loaded has a unit, every part of it with text is in one unit,
\* and every part of a unit stands under the heading, or on the page, that the unit
\* is labelled with.
LoadedWhole ==
    loadPc = "loaded" =>
       /\ loaded # <<>>
       /\ \A i \in 1 .. PartCount :
             BlankPart(i) \/ \E k \in 1 .. Len(loaded) : i \in loaded[k].first .. loaded[k].last
       /\ \A k, l \in 1 .. Len(loaded) : k < l => loaded[k].last < loaded[l].first
       /\ \A k \in 1 .. Len(loaded) : \A i \in loaded[k].first .. loaded[k].last :
             RightLabel(i, loaded[k].label)
=============================================================================
