------------------------------- MODULE Chunking -------------------------------
(***************************************************************************)
(* The chunker of ingestion: RecursiveCharacterChunker.chunk goes through  *)
(* the units of a document, and _split cuts a unit into overlapping        *)
(* pieces, at the last separator of the second half of its window when     *)
(* there is one.  One action is one pass of the loop in _split.            *)
(*                                                                         *)
(* Offsets count from 0 as in the code: a piece is [start, end), and the   *)
(* character at offset i is text[i + 1].                                   *)
(***************************************************************************)
EXTENDS Integers, Sequences

CONSTANTS
    Characters,  \* what the separators and strip() tell apart
    Inputs,      \* documents: sequences of units, each a sequence of characters
    Settings,    \* pairs of chunk_size and chunk_overlap the constructor accepts
    Blanks,      \* characters that strip() removes
    Separators   \* SEPARATORS, in the order they are tried

ASSUME SettingsAssumption ==
    Settings \subseteq {s \in [size : Nat \ {0}, overlap : Nat] : s.overlap < s.size}
ASSUME InputsAssumption == Inputs \subseteq Seq(Seq(Characters))
\* "\n\n", "\n", ". ", " ": none is longer than a later one by more than a character.
ASSUME SeparatorsAssumption ==
    /\ Separators \in Seq(Seq(Characters) \ {<<>>})
    /\ \A j, k \in 1 .. Len(Separators) :
          j < k => Len(Separators[j]) <= Len(Separators[k]) + 1

VARIABLES
    units,           \* the document
    size, overlap,   \* chunk_size, chunk_overlap
    unit,            \* unit being split
    start,           \* start of the next window in it
    end,             \* end of the last window cut in it, 0 before
    chunks           \* chunks so far, in order

vars == <<units, size, overlap, unit, start, end, chunks>>
document == <<units, size, overlap>>

Init ==
    /\ units \in Inputs
    /\ \E s \in Settings : size = s.size /\ overlap = s.overlap
    /\ unit = 1 /\ start = 0 /\ end = 0
    /\ chunks = <<>>

-----------------------------------------------------------------------------
(* Pure parts *)

Larger(m, n) == IF m >= n THEN m ELSE n
Smaller(m, n) == IF m <= n THEN m ELSE n

Text == units[unit]
Length == Len(Text)
IsBlank(i) == Text[i + 1] \in Blanks

WindowEnd == Smaller(start + size, Length)

-----------------------------------------------------------------------------
(* Mutated forms of definitions below: plausible bugs of this code.         *)

\* Separators are searched in the whole window.
FloorAtStart == start

SearchFloor == start + Larger(1, size \div 2)

\* The search is not bounded by the window.
MatchesToTheEnd(separator) ==
    {b \in SearchFloor .. Length - Len(separator) :
        \A i \in 1 .. Len(separator) : Text[b + i] = separator[i]}
\* The overlap may put the next window where this one began.
MayStayPut(e) == Larger(e - overlap, start)
\* The overlap is added, not subtracted.
SkipAhead(e) == Larger(e + overlap, start + 1)

-----------------------------------------------------------------------------

\* Where rfind can find a separator: wholly between the floor and the window's end.
Matches(separator) ==
    {b \in SearchFloor .. WindowEnd - Len(separator) :
        \A i \in 1 .. Len(separator) : Text[b + i] = separator[i]}

\* The last occurrence of the first separator that occurs.
IsBreak(e) ==
    \E k \in 1 .. Len(Separators) :
        /\ \A j \in 1 .. k - 1 : Matches(Separators[j]) = {}
        /\ \E b \in Matches(Separators[k]) :
              /\ \A c \in Matches(Separators[k]) : c <= b
              /\ e = b + Len(Separators[k])

NoBreak == \A k \in 1 .. Len(Separators) : Matches(Separators[k]) = {}

\* e is where the window from start ends.
IsCut(e) ==
    IF WindowEnd = Length \/ NoBreak THEN e = WindowEnd ELSE IsBreak(e)

\* [s, t) is [start, e) without the blanks at its ends.
IsStripped(s, t, e) ==
    /\ start <= s /\ s < t /\ t <= e
    /\ ~IsBlank(s) /\ ~IsBlank(t - 1)
    /\ \A i \in start .. e - 1 : IsBlank(i) \/ (s <= i /\ i < t)

NextStart(e) == Larger(e - overlap, start + 1)

\* Blank windows give no chunk.
AddPiece(e) ==
    \/ /\ \A i \in start .. e - 1 : IsBlank(i)
       /\ UNCHANGED chunks
    \/ \E s \in start .. e - 1, t \in start + 1 .. e :
          /\ IsStripped(s, t, e)
          /\ chunks' = Append(chunks, [unit |-> unit, start |-> s, end |-> t])

-----------------------------------------------------------------------------

Splitting == unit <= Len(units) /\ start < Length

\* A window that does not reach the end of the unit.
Cut ==
    /\ Splitting
    /\ \E e \in start + 1 .. Length - 1 :
          /\ IsCut(e)
          /\ AddPiece(e)
          /\ end' = e
          /\ start' = NextStart(e)
    /\ UNCHANGED <<document, unit>>

NextUnit == unit' = unit + 1 /\ start' = 0 /\ end' = 0

\* The window that does.
LastCut ==
    /\ Splitting
    /\ IsCut(Length)
    /\ AddPiece(Length)
    /\ NextUnit
    /\ UNCHANGED document

\* The loop is not entered for an empty unit.
EmptyUnit ==
    /\ unit <= Len(units)
    /\ ~(start < Length)
    /\ NextUnit
    /\ UNCHANGED <<document, chunks>>

Done == unit > Len(units)
Finished == Done /\ UNCHANGED vars

Next == Cut \/ LastCut \/ EmptyUnit \/ Finished
Spec == Init /\ [][Next]_vars

-----------------------------------------------------------------------------
(* Properties                                                               *)

\* Every variable has its type, and a window begins inside what is left.
TypeOK ==
    /\ units \in Inputs
    /\ [size |-> size, overlap |-> overlap] \in Settings
    /\ unit \in 1 .. Len(units) + 1
    /\ start \in Nat /\ end \in Nat
    /\ ~Done => start <= end /\ (end < Length \/ end = 0)
    /\ chunks \in Seq([unit : Nat, start : Nat, end : Nat])

\* Offsets of a unit below which splitting is over.
SplitUpTo(u) == IF u < unit THEN Len(units[u]) ELSE IF u = unit THEN end ELSE 0

\* No text is lost between windows: every character that is not blank, up to where
\* splitting has come, is in a chunk of its unit.
NothingLost ==
    \A u \in 1 .. Len(units) : \A i \in 0 .. SplitUpTo(u) - 1 :
        \/ units[u][i + 1] \in Blanks
        \/ \E k \in 1 .. Len(chunks) :
              chunks[k].unit = u /\ chunks[k].start <= i /\ i < chunks[k].end

\* A chunk lies in its unit, is not empty, is no longer than chunk_size, and neither
\* begins nor ends with a blank: its offsets are those of its stripped text.
ChunksFit ==
    \A k \in 1 .. Len(chunks) :
        LET c == chunks[k]
        IN  /\ c.unit \in 1 .. Len(units)
            /\ c.start < c.end /\ c.end <= Len(units[c.unit])
            /\ c.end - c.start <= size
            /\ units[c.unit][c.start + 1] \notin Blanks
            /\ units[c.unit][c.end] \notin Blanks

\* The window from the second of two starts never ends before the window from the
\* first, whichever separators cut them; with an overlap of at most half the size it
\* ends later, so that no window repeats a part of the one before.
EndsInOrder ==
    [][unit' = unit /\ end' # 0 =>
          IF 2 * overlap <= size THEN end' > end ELSE end' >= end]_vars

=============================================================================
