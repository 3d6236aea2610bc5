---------------------------- MODULE PipelineProofs ----------------------------
(***************************************************************************)
(* Proofs about the way of a document's text, for every set of files,      *)
(* every accepted chunk size and every batch size: first what the loaders, *)
(* the chunker and the embedding client do alone, then the pipeline that   *)
(* is composed of them.                                                    *)
(***************************************************************************)
EXTENDS TextPipeline, ListProofs

Units == [first : 1 .. PartCount, last : 1 .. PartCount,
          label : {NoTitle} \cup {Title(i) : i \in 1 .. PartCount} \cup 1 .. PartCount]

\* The parts up to n that have text are in a unit.
Covered(n) ==
    \A i \in 1 .. n :
       BlankPart(i) \/ \E k \in 1 .. Len(loaded) : i \in loaded[k].first .. loaded[k].last

\* Every unit ends before part n.
UnitsBelow(n) == \A k \in 1 .. Len(loaded) : loaded[k].last < n

InOrder == \A k, l \in 1 .. Len(loaded) : k < l => loaded[k].last < loaded[l].first

Labelled ==
    \A k \in 1 .. Len(loaded) : \A i \in loaded[k].first .. loaded[k].last :
       RightLabel(i, loaded[k].label)

\* No unit is blank.
UnitsHaveText ==
    \A k \in 1 .. Len(loaded) : \E i \in loaded[k].first .. loaded[k].last : ~BlankPart(i)

\* current_heading is the heading current_lines begin with, or there was none yet.
HeadingOfSection ==
    /\ \A h \in sectionStart + 1 .. next - 1 : Title(h) = NoTitle
    /\ \/ /\ heading = NoTitle /\ sectionStart = 1
          /\ \A h \in 1 .. next - 1 : Title(h) = NoTitle
       \/ heading # NoTitle /\ sectionStart < next /\ Title(sectionStart) = heading

\* While a loader is at work: what it has read is in the units, but for the section
\* or the page that it is at.
LoadInv ==
    /\ LoadTypeOK /\ source \in Sources
    /\ InOrder /\ Labelled /\ UnitsHaveText
    /\ loadPc = "open" => /\ next = 1 /\ sectionStart = 1 /\ heading = NoTitle
                          /\ loaded = <<>>
    /\ loadPc = "lines" => /\ source.format = "md" /\ HasText /\ HeadingOfSection
                           /\ Covered(sectionStart - 1) /\ UnitsBelow(sectionStart)
    /\ loadPc = "pages" => /\ source.format = "pdf"
                           /\ Covered(next - 1) /\ UnitsBelow(next)
    /\ loadPc = "loaded" => loaded # <<>> /\ Covered(PartCount)

LEMMA LoadInvInit == LoadInit => LoadInv
BY SourcesAssumption
   DEF LoadInit, LoadInv, LoadTypeOK, InOrder, Labelled, UnitsHaveText, PartCount

-----------------------------------------------------------------------------

\* Adding parts m to n after everything before m.
LEMMA AddUnitKeeps ==
  ASSUME source \in Sources, loaded \in Seq(Units), UNCHANGED source,
         InOrder, Labelled, UnitsHaveText,
         NEW m \in 1 .. PartCount + 1, NEW n \in 0 .. PartCount, NEW label,
         label \in {NoTitle} \cup {Title(i) : i \in 1 .. PartCount} \cup 1 .. PartCount,
         AddUnit(m, n, label), Covered(m - 1), UnitsBelow(m), m <= n + 1,
         \A i \in m .. n : RightLabel(i, label)
  PROVE  /\ loaded' \in Seq(Units)' /\ InOrder' /\ Labelled' /\ UnitsHaveText'
         /\ Covered(n)' /\ UnitsBelow(n + 1)'
<1>1. PartCount \in Nat
  BY SourcesAssumption DEF PartCount
<1>2. Units' = Units
  BY DEF Units, PartCount, Title
<1>3. \A i : BlankPart(i)' = BlankPart(i) /\ \A l : RightLabel(i, l)' = RightLabel(i, l)
  BY DEF BlankPart, RightLabel, Under, Title
<1>6. ASSUME NEW k \in 1 .. Len(loaded)
      PROVE  loaded[k].last \in 1 .. PartCount /\ loaded[k].last < m
  <2>1. loaded[k] \in Units
    OBVIOUS
  <2> QED
    BY <2>1 DEF Units, UnitsBelow
<1>4. CASE BlankParts(m, n)
  <2>1. loaded' = loaded
    BY <1>4 DEF AddUnit
  <2>2. Covered(n)'
    <3>1. \A i \in 1 .. n : i \in 1 .. m - 1 \/ i \in m .. n
      BY <1>1
    <3>2. Covered(n)
      BY <1>4, <3>1 DEF Covered, BlankParts
    <3> QED
      BY <1>3, <2>1, <3>2 DEF Covered
  <2>3. UnitsBelow(n + 1)'
    BY <1>1, <1>6, <2>1 DEF UnitsBelow
  <2>4. InOrder' /\ Labelled' /\ UnitsHaveText'
    <3>1. InOrder' /\ Labelled'
      BY <1>3, <2>1 DEF InOrder, Labelled
    <3>2. UnitsHaveText'
      BY <1>3, <2>1 DEF UnitsHaveText
    <3> QED
      BY <3>1, <3>2
  <2> QED
    BY <1>2, <2>1, <2>2, <2>3, <2>4
<1>5. CASE ~BlankParts(m, n)
  <2> DEFINE new == [first |-> m, last |-> n, label |-> label]
  <2>1. loaded' = Append(loaded, new)
    BY <1>5 DEF AddUnit
  <2>2. m \in 1 .. n
    BY <1>1, <1>5 DEF BlankParts
  <2>3. new \in Units
    BY <1>1, <2>2 DEF Units
  <2>4. /\ Len(loaded') = Len(loaded) + 1 /\ loaded'[Len(loaded) + 1] = new
        /\ \A k \in 1 .. Len(loaded) : loaded'[k] = loaded[k] /\ loaded[k] \in Units
        /\ Len(loaded) \in Nat
    BY <2>1, <2>3
  <2>5. loaded' \in Seq(Units)'
    BY <1>2, <2>1, <2>3
  <2>6. Covered(n)'
    <3> SUFFICES ASSUME NEW i \in 1 .. n, ~BlankPart(i)
                 PROVE  \E k \in 1 .. Len(loaded') : i \in loaded'[k].first .. loaded'[k].last
      BY <1>3 DEF Covered
    <3>1. CASE i < m
      <4>1. PICK k \in 1 .. Len(loaded) : i \in loaded[k].first .. loaded[k].last
        BY <1>1, <3>1 DEF Covered
      <4> QED
        BY <2>4, <4>1
    <3>2. CASE i >= m
      BY <2>2, <2>4, <3>2
    <3> QED
      BY <1>1, <3>1, <3>2
  <2>7. UnitsBelow(n + 1)'
    <3> SUFFICES ASSUME NEW k \in 1 .. Len(loaded') PROVE loaded'[k].last < n + 1
      BY DEF UnitsBelow
    <3>1. CASE k \in 1 .. Len(loaded)
      BY <1>1, <1>6, <2>2, <2>4, <3>1
    <3>2. CASE k = Len(loaded) + 1
      BY <1>1, <2>4, <3>2
    <3> QED
      BY <2>4, <3>1, <3>2
  <2>8. InOrder'
    <3> SUFFICES ASSUME NEW k \in 1 .. Len(loaded'), NEW l \in 1 .. Len(loaded'), k < l
                 PROVE  loaded'[k].last < loaded'[l].first
      BY DEF InOrder
    <3>1. k \in 1 .. Len(loaded)
      BY <2>4
    <3>2. CASE l \in 1 .. Len(loaded)
      BY <2>4, <3>1, <3>2 DEF InOrder
    <3>3. CASE l = Len(loaded) + 1
      BY <2>4, <3>1, <3>3 DEF UnitsBelow
    <3> QED
      BY <2>4, <3>2, <3>3
  <2>9. Labelled'
    <3> SUFFICES ASSUME NEW k \in 1 .. Len(loaded'),
                        NEW i \in loaded'[k].first .. loaded'[k].last
                 PROVE  RightLabel(i, loaded'[k].label)
      BY <1>3 DEF Labelled
    <3>1. CASE k \in 1 .. Len(loaded)
      BY <2>4, <3>1 DEF Labelled
    <3>2. CASE k = Len(loaded) + 1
      BY <2>4, <3>2
    <3> QED
      BY <2>4, <3>1, <3>2
  <2>10. UnitsHaveText'
    <3>1. \E i \in m .. n : ~BlankPart(i)
      BY <1>5 DEF BlankParts
    <3> SUFFICES ASSUME NEW k \in 1 .. Len(loaded')
                 PROVE  \E i \in loaded'[k].first .. loaded'[k].last : ~BlankPart(i)
      BY <1>3 DEF UnitsHaveText
    <3>2. CASE k \in 1 .. Len(loaded)
      BY <2>4, <3>2 DEF UnitsHaveText
    <3>3. CASE k = Len(loaded) + 1
      BY <2>4, <3>1, <3>3
    <3> QED
      BY <2>4, <3>2, <3>3
  <2> QED
    BY <2>5, <2>6, <2>7, <2>8, <2>9, <2>10
<1> QED
  BY <1>4, <1>5

\* Every line of the section stands under current_heading.
LEMMA SectionIsUnderHeading ==
  ASSUME LoadInv, loadPc = "lines", NEW i \in sectionStart .. next - 1
  PROVE  RightLabel(i, heading)
<1>1. PartCount \in Nat
  BY SourcesAssumption DEF PartCount, LoadInv
<1>2. sectionStart \in 1 .. next /\ next \in 1 .. PartCount + 1
  BY DEF LoadInv, LoadTypeOK
<1>3. HeadingOfSection /\ source.format = "md"
  BY DEF LoadInv
<1>4. Under(i, heading)
  <2>1. CASE heading = NoTitle
    BY <1>1, <1>2, <1>3, <2>1 DEF HeadingOfSection, Under
  <2>2. CASE heading # NoTitle
    <3>1. sectionStart \in 1 .. i /\ \A h \in sectionStart + 1 .. i : Title(h) = NoTitle
      BY <1>1, <1>2, <1>3, <2>2 DEF HeadingOfSection
    <3> QED
      BY <1>3, <2>2, <3>1 DEF HeadingOfSection, Under
  <2> QED
    BY <2>1, <2>2
<1> QED
  BY <1>3, <1>4 DEF RightLabel

\* A section that ends joins the units.
LEMMA FlushKeeps ==
  ASSUME LoadInv, loadPc = "lines", Flush, UNCHANGED source, NEW n, n = next
  PROVE  /\ loaded' \in Seq(Units)' /\ InOrder' /\ Labelled' /\ UnitsHaveText'
         /\ Covered(n - 1)' /\ UnitsBelow(n)'
<1>1. PartCount \in Nat
  BY SourcesAssumption DEF PartCount, LoadInv
<1>2. /\ sectionStart \in 1 .. next /\ next \in 1 .. PartCount + 1
      /\ loaded \in Seq(Units) /\ HeadingOfSection
  BY DEF LoadInv, LoadTypeOK, Units
<1>3. heading \in {NoTitle} \cup {Title(i) : i \in 1 .. PartCount}
  BY <1>1, <1>2 DEF HeadingOfSection
<1>4. n - 1 \in 0 .. PartCount /\ sectionStart \in 1 .. PartCount + 1
      /\ sectionStart <= (n - 1) + 1 /\ (n - 1) + 1 = n
  BY <1>1, <1>2
<1>5. \A i \in sectionStart .. n - 1 : RightLabel(i, heading)
  BY SectionIsUnderHeading
<1>6. AddUnit(sectionStart, n - 1, heading)
  BY DEF Flush
<1>7. /\ source \in Sources /\ InOrder /\ Labelled /\ UnitsHaveText
      /\ Covered(sectionStart - 1) /\ UnitsBelow(sectionStart)
  BY DEF LoadInv
<1>8. /\ loaded' \in Seq(Units)' /\ InOrder' /\ Labelled' /\ UnitsHaveText'
      /\ Covered(n - 1)' /\ UnitsBelow((n - 1) + 1)'
  BY <1>2, <1>3, <1>4, <1>5, <1>6, <1>7, AddUnitKeeps
<1> QED
  BY <1>4, <1>8

-----------------------------------------------------------------------------

\* A step that neither changes the file nor adds a unit.
LEMMA SameUnits ==
  ASSUME UNCHANGED <<source, loaded>>
  PROVE  /\ InOrder' = InOrder /\ Labelled' = Labelled /\ UnitsHaveText' = UnitsHaveText
         /\ \A n : Covered(n)' = Covered(n) /\ UnitsBelow(n)' = UnitsBelow(n)
BY DEF InOrder, Labelled, UnitsHaveText, Covered, UnitsBelow, BlankPart, RightLabel, Under, Title

\* The file stays what it is.
LEMMA SameSource ==
  ASSUME UNCHANGED source
  PROVE  /\ PartCount' = PartCount /\ HasText' = HasText /\ Units' = Units
         /\ \A i : Title(i)' = Title(i)
BY DEF PartCount, HasText, BlankParts, BlankPart, Title, Units

LEMMA LoadTyped ==
  ASSUME LoadInv
  PROVE  /\ PartCount \in Nat /\ next \in 1 .. PartCount + 1 /\ sectionStart \in 1 .. next
         /\ loaded \in Seq(Units)
         /\ source.format \in {"txt", "md", "pdf"} /\ source.intact \in BOOLEAN
BY SourcesAssumption DEF LoadInv, LoadTypeOK, PartCount, Units

LEMMA TypedLoad ==
  ASSUME source' \in Sources, loadPc' \in {"open", "lines", "pages", "loaded", "refused"},
         next' \in 1 .. PartCount' + 1, sectionStart' \in 1 .. next', loaded' \in Seq(Units)'
  PROVE  LoadTypeOK'
BY SourcesAssumption DEF LoadTypeOK, Units

LEMMA LoadInvText ==
  ASSUME LoadInv, OpenText PROVE LoadInv'
<1>1. /\ UNCHANGED <<source, next, sectionStart, heading>> /\ source \in Sources
      /\ next = 1 /\ sectionStart = 1 /\ heading = NoTitle /\ loaded = <<>>
  BY DEF OpenText, LoadInv
<1>2. PartCount \in Nat /\ PartCount' = PartCount
  BY <1>1, LoadTyped, SameSource
<1>3. CASE loadPc' = "refused" /\ UNCHANGED loaded
  BY <1>1, <1>2, <1>3, SameUnits, SameSource, LoadTyped, TypedLoad DEF LoadInv
<1>4. CASE HasText /\ source.format = "md" /\ loadPc' = "lines" /\ UNCHANGED loaded
  <2>1. HeadingOfSection' /\ Covered(sectionStart - 1)' /\ UnitsBelow(sectionStart)'
    BY <1>1, <1>4 DEF HeadingOfSection, Covered, UnitsBelow
  <2> QED
    BY <1>1, <1>2, <1>4, <2>1, SameUnits, SameSource, LoadTyped, TypedLoad DEF LoadInv
<1>5. CASE /\ HasText /\ source.format = "txt" /\ loadPc' = "loaded"
           /\ loaded' = <<[first |-> 1, last |-> 1, label |-> NoTitle]>>
  <2>1. PartCount = 1
    BY <1>1, <1>5, SourcesAssumption DEF PartCount
  <2>2. loaded' \in Seq(Units)'
    BY <1>1, <1>5, <2>1, SameSource DEF Units
  <2>3. Len(loaded') = 1 /\ loaded'[1] = [first |-> 1, last |-> 1, label |-> NoTitle]
    BY <1>5
  <2>4. InOrder' /\ Covered(PartCount)' /\ loaded' # <<>>
    BY <1>2, <2>1, <2>3 DEF InOrder, Covered
  <2>6. UnitsHaveText'
    <3>1. ~BlankPart(1)
      BY <1>5, <2>1 DEF HasText, BlankParts
    <3>2. ~BlankPart(1)'
      BY <1>1, <3>1 DEF BlankPart
    <3> QED
      BY <2>3, <3>2 DEF UnitsHaveText
  <2>5. Labelled'
    BY <1>1, <1>5, <2>3 DEF Labelled, RightLabel
  <2> QED
    BY <1>1, <1>2, <1>5, <2>2, <2>4, <2>5, <2>6, LoadTyped, TypedLoad DEF LoadInv
<1> QED
  BY <1>3, <1>4, <1>5 DEF OpenText

LEMMA LoadInvHeading ==
  ASSUME LoadInv, HeadingLine PROVE LoadInv'
<1> DEFINE n == next
<1>1. /\ loadPc = "lines" /\ next <= PartCount /\ Title(next) # NoTitle /\ Flush
      /\ sectionStart' = next /\ heading' = Title(next) /\ next' = next + 1
      /\ UNCHANGED <<source, loadPc>> /\ source \in Sources
      /\ source.format = "md" /\ HasText
  BY DEF HeadingLine, LoadInv
<1>2. PICK m : m = next
  OBVIOUS
<1>3. /\ loaded' \in Seq(Units)' /\ InOrder' /\ Labelled' /\ UnitsHaveText'
      /\ Covered(m - 1)' /\ UnitsBelow(m)'
  BY <1>1, <1>2, FlushKeeps
<1>4. Covered(sectionStart - 1)' /\ UnitsBelow(sectionStart)'
  BY <1>1, <1>2, <1>3 DEF Covered, UnitsBelow
<1>5. next' \in 1 .. PartCount' + 1 /\ sectionStart' \in 1 .. next'
  BY <1>1, LoadTyped, SameSource
<1>6. HeadingOfSection'
  <2>1. Title(sectionStart)' = heading'
    BY <1>1, SameSource DEF Title
  <2>2. sectionStart' < next' /\ sectionStart' + 1 .. next' - 1 = {}
    BY <1>1, LoadTyped
  <2> QED
    BY <1>1, <2>1, <2>2 DEF HeadingOfSection
<1> QED
  BY <1>1, <1>3, <1>4, <1>5, <1>6, SameSource, TypedLoad DEF LoadInv

LEMMA LoadInvOther ==
  ASSUME LoadInv, OtherLine PROVE LoadInv'
<1>1. /\ loadPc = "lines" /\ next <= PartCount /\ Title(next) = NoTitle /\ next' = next + 1
      /\ UNCHANGED <<source, loadPc, sectionStart, heading, loaded>> /\ source \in Sources
      /\ source.format = "md" /\ HasText /\ HeadingOfSection
  BY DEF OtherLine, LoadInv
<1>2. next' \in 1 .. PartCount' + 1 /\ sectionStart' \in 1 .. next'
  BY <1>1, LoadTyped, SameSource
<1>3. HeadingOfSection'
  BY <1>1, LoadTyped, SameSource DEF HeadingOfSection, Title
<1>4. Covered(sectionStart - 1)' /\ UnitsBelow(sectionStart)'
  BY <1>1 DEF LoadInv, Covered, UnitsBelow, BlankPart
<1>5. InOrder' /\ Labelled' /\ UnitsHaveText' /\ loaded' \in Seq(Units)'
  BY <1>1, SameUnits, SameSource, LoadTyped DEF LoadInv
<1> QED
  BY <1>1, <1>2, <1>3, <1>4, <1>5, SameSource, TypedLoad DEF LoadInv

LEMMA LoadInvLastSection ==
  ASSUME LoadInv, LastSection PROVE LoadInv'
<1>1. /\ loadPc = "lines" /\ next > PartCount /\ Flush /\ loadPc' = "loaded"
      /\ UNCHANGED <<source, next, sectionStart, heading>> /\ source \in Sources /\ HasText
  BY DEF LastSection, LoadInv
<1>2. PICK m : m = next
  OBVIOUS
<1>3. /\ loaded' \in Seq(Units)' /\ InOrder' /\ Labelled' /\ UnitsHaveText'
      /\ Covered(m - 1)'
  BY <1>1, <1>2, FlushKeeps
<1>4. m - 1 = PartCount
  BY <1>1, <1>2, LoadTyped
<1>5. HasText' /\ Covered(PartCount)'
  BY <1>1, <1>3, <1>4, SameSource DEF Covered
<1>6. loaded' # <<>>
  BY <1>5 DEF Covered, HasText, BlankParts
<1> QED
  BY <1>1, <1>3, <1>5, <1>6, LoadTyped, SameSource, TypedLoad DEF LoadInv

LEMMA LoadInvPages ==
  ASSUME LoadInv, OpenPdf \/ PageFails \/ LastPage PROVE LoadInv'
<1>1. UNCHANGED <<source, next, sectionStart, heading, loaded>> /\ source \in Sources
  BY DEF OpenPdf, PageFails, LastPage, LoadInv
<1>2. /\ InOrder' /\ Labelled' /\ UnitsHaveText' /\ loaded' \in Seq(Units)'
      /\ next' \in 1 .. PartCount' + 1 /\ sectionStart' \in 1 .. next'
  BY <1>1, LoadTyped, SameUnits, SameSource DEF LoadInv
<1>3. CASE loadPc' = "refused"
  BY <1>1, <1>2, <1>3, TypedLoad DEF LoadInv
<1>4. CASE OpenPdf /\ loadPc' = "pages"
  <2>1. source.format = "pdf" /\ next = 1 /\ loaded = <<>>
    BY <1>4 DEF OpenPdf, LoadInv
  <2>2. Covered(next - 1)' /\ UnitsBelow(next)'
    BY <1>1, <2>1 DEF Covered, UnitsBelow
  <2> QED
    BY <1>1, <1>2, <1>4, <2>1, <2>2, TypedLoad DEF LoadInv
<1>5. CASE LastPage /\ loadPc' = "loaded"
  <2>1. loaded # <<>> /\ next > PartCount /\ Covered(next - 1)
    BY <1>5 DEF LastPage, LoadInv
  <2>2. next - 1 = PartCount
    BY <2>1, LoadTyped
  <2>3. Covered(PartCount)'
    BY <1>1, <2>1, <2>2, SameSource DEF Covered, BlankPart
  <2> QED
    BY <1>1, <1>2, <1>5, <2>1, <2>3, TypedLoad DEF LoadInv
<1> QED
  BY <1>3, <1>4, <1>5 DEF OpenPdf, PageFails, LastPage

LEMMA LoadInvPage ==
  ASSUME LoadInv, Page PROVE LoadInv'
<1>1. /\ loadPc = "pages" /\ next <= PartCount /\ AddUnit(next, next, next)
      /\ next' = next + 1 /\ UNCHANGED <<source, loadPc, sectionStart, heading>>
      /\ source \in Sources /\ source.format = "pdf"
      /\ InOrder /\ Labelled /\ UnitsHaveText /\ Covered(next - 1) /\ UnitsBelow(next)
  BY DEF Page, LoadInv
<1>2. PICK m : m = next
  OBVIOUS
<1>3. m \in 1 .. PartCount + 1 /\ m \in 0 .. PartCount /\ m \in 1 .. PartCount /\ m <= m + 1
  BY <1>1, <1>2, LoadTyped
<1>4. \A i \in m .. m : RightLabel(i, m)
  BY <1>1, <1>3 DEF RightLabel
<1>5. /\ loaded' \in Seq(Units)' /\ InOrder' /\ Labelled' /\ UnitsHaveText'
      /\ Covered(m)' /\ UnitsBelow(m + 1)'
  BY <1>1, <1>2, <1>3, <1>4, LoadTyped, AddUnitKeeps
<1>6. next' - 1 = m /\ next' = m + 1
  BY <1>1, <1>2, LoadTyped
<1>7. Covered(next - 1)' /\ UnitsBelow(next)'
  BY <1>5, <1>6 DEF Covered, UnitsBelow
<1>8. next' \in 1 .. PartCount' + 1 /\ sectionStart' \in 1 .. next'
  BY <1>1, LoadTyped, SameSource
<1> QED
  BY <1>1, <1>5, <1>7, <1>8, TypedLoad DEF LoadInv

LEMMA LoadInvNext == LoadInv /\ [LoadStep]_loadVars => LoadInv'
<1> SUFFICES ASSUME LoadInv, [LoadStep]_loadVars PROVE LoadInv'
  OBVIOUS
<1>1. CASE UNCHANGED loadVars
  <2>1. UNCHANGED <<source, loadPc, next, sectionStart, heading, loaded>>
    BY <1>1 DEF loadVars
  <2>2. LoadTypeOK' /\ InOrder' /\ Labelled' /\ UnitsHaveText'
    BY <2>1, SameUnits, SameSource, LoadTyped, TypedLoad DEF LoadInv, LoadTypeOK
  <2>3. /\ HeadingOfSection' = HeadingOfSection
        /\ Covered(sectionStart - 1)' = Covered(sectionStart - 1)
        /\ UnitsBelow(sectionStart)' = UnitsBelow(sectionStart)
    BY <2>1 DEF HeadingOfSection, Covered, UnitsBelow, BlankPart, Title
  <2>4. /\ Covered(next - 1)' = Covered(next - 1) /\ UnitsBelow(next)' = UnitsBelow(next)
        /\ Covered(PartCount)' = Covered(PartCount)
    BY <2>1 DEF Covered, UnitsBelow, BlankPart, PartCount
  <2> QED
    BY <2>1, <2>2, <2>3, <2>4, SameSource DEF LoadInv
<1> QED
  BY <1>1, LoadInvText, LoadInvHeading, LoadInvOther, LoadInvLastSection, LoadInvPages, LoadInvPage
     DEF LoadStep

LEMMA LoadInvCorrect == LoadSpec => []LoadInv
BY LoadInvInit, LoadInvNext, PTL DEF LoadSpec

\* Whatever the file holds, the loader's variables have their types.
THEOREM LoaderTypeCorrect == LoadSpec => []LoadTypeOK
<1>1. LoadInv => LoadTypeOK
  BY DEF LoadInv
<1> QED
  BY <1>1, LoadInvCorrect, PTL

\* A file that is accepted is loaded whole: a unit at least, every part with text in
\* one, and each under the heading or the page number it stands under.
THEOREM AcceptedIsLoadedWhole == LoadSpec => []LoadedWhole
<1>1. LoadInv => LoadedWhole
  BY DEF LoadInv, LoadedWhole, Covered, InOrder, Labelled
<1> QED
  BY <1>1, LoadInvCorrect, PTL

-----------------------------------------------------------------------------
(* Facts about one cut *)

\* TypeOK, whatever the document is: in the pipeline a loader made it.
SplitTypeOK ==
    /\ units \in Seq(Seq(Characters))
    /\ [size |-> size, overlap |-> overlap] \in Settings
    /\ unit \in 1 .. Len(units) + 1
    /\ start \in Nat /\ end \in Nat
    /\ ~Done => start <= end /\ (end < Length \/ end = 0)
    /\ chunks \in Seq([unit : Nat, start : Nat, end : Nat])

\* A document that is being split, with its types spelled out.
LEMMA Types ==
  ASSUME SplitTypeOK, Splitting
  PROVE  /\ unit \in 1 .. Len(units) /\ units \in Seq(Seq(Characters))
         /\ Text \in Seq(Characters) /\ Length \in Nat
         /\ start \in Nat /\ start < Length
         /\ size \in Nat \ {0} /\ overlap \in Nat /\ overlap < size
         /\ WindowEnd \in start + 1 .. Length
         /\ WindowEnd <= start + size
         /\ SearchFloor \in Nat /\ SearchFloor > start
<1>1. /\ unit \in 1 .. Len(units) /\ units \in Seq(Seq(Characters))
      /\ start \in Nat /\ start < Length
  BY DEF SplitTypeOK, Splitting, Length, Text
<1>2. Text \in Seq(Characters) /\ Length \in Nat
  BY <1>1 DEF Text, Length
<1>3. size \in Nat \ {0} /\ overlap \in Nat /\ overlap < size
  BY SettingsAssumption DEF SplitTypeOK
<1>4. WindowEnd \in start + 1 .. Length /\ WindowEnd <= start + size
  BY <1>1, <1>2, <1>3 DEF WindowEnd, Smaller
<1>5. SearchFloor \in Nat /\ SearchFloor > start
  BY <1>1, <1>3 DEF SearchFloor, Larger
<1> QED
  BY <1>1, <1>2, <1>3, <1>4, <1>5

LEMMA SeparatorLengths ==
  /\ Len(Separators) \in Nat
  /\ \A k \in 1 .. Len(Separators) : Len(Separators[k]) \in Nat \ {0}
<1>1. \A s \in Seq(Characters) : s # <<>> => Len(s) \in Nat \ {0}
  OBVIOUS
<1> QED
  BY <1>1, SeparatorsAssumption DEF SeparatorsAssumption

\* A window ends after its start and no later than its limit.
LEMMA CutInWindow ==
  ASSUME SplitTypeOK, Splitting, NEW e, IsCut(e)
  PROVE  e \in start + 1 .. WindowEnd
<1>1. CASE WindowEnd = Length \/ NoBreak
  BY <1>1, Types DEF IsCut
<1>2. CASE ~(WindowEnd = Length \/ NoBreak)
  <2>1. PICK k \in 1 .. Len(Separators) : \E b \in Matches(Separators[k]) :
                e = b + Len(Separators[k])
    BY <1>2 DEF IsCut, IsBreak
  <2>2. PICK b \in Matches(Separators[k]) : e = b + Len(Separators[k])
    BY <2>1
  <2>3. b \in SearchFloor .. WindowEnd - Len(Separators[k])
    BY <2>2 DEF Matches
  <2>4. Len(Separators[k]) \in Nat \ {0}
    BY SeparatorLengths
  <2>5. start \in Nat /\ SearchFloor \in Nat /\ SearchFloor > start /\ WindowEnd \in Nat
    BY Types
  <2> QED
    BY <2>2, <2>3, <2>4, <2>5
<1> QED
  BY <1>1, <1>2

\* Where the next window begins: later, and not after the end of this one.
LEMMA NextStartInWindow ==
  ASSUME SplitTypeOK, Splitting, NEW e \in start + 1 .. Length
  PROVE  NextStart(e) \in start + 1 .. e
BY Types DEF NextStart, Larger

\* What AddPiece does, whatever it adds.
LEMMA AddPieceType ==
  ASSUME SplitTypeOK, Splitting, NEW e \in start + 1 .. Length, AddPiece(e)
  PROVE  chunks' \in Seq([unit : Nat, start : Nat, end : Nat])
<1> USE DEF SplitTypeOK
<1>1. CASE UNCHANGED chunks
  BY <1>1
<1>2. ASSUME NEW s \in start .. e - 1, NEW t \in start + 1 .. e,
             chunks' = Append(chunks, [unit |-> unit, start |-> s, end |-> t])
      PROVE  chunks' \in Seq([unit : Nat, start : Nat, end : Nat])
  <2>1. [unit |-> unit, start |-> s, end |-> t] \in [unit : Nat, start : Nat, end : Nat]
    BY Types
  <2> QED
    BY <1>2, <2>1
<1> QED
  BY <1>1, <1>2 DEF AddPiece

-----------------------------------------------------------------------------
(* Type correctness                                                         *)

LEMMA TypeInit == Init => SplitTypeOK
<1> SUFFICES ASSUME Init PROVE SplitTypeOK
  OBVIOUS
<1>1. units \in Seq(Seq(Characters))
  BY InputsAssumption DEF Init
<1>2. PICK s \in Settings : size = s.size /\ overlap = s.overlap
  BY DEF Init
<1>3. s = [size |-> size, overlap |-> overlap]
  BY <1>2, SettingsAssumption
<1> QED
  BY <1>1, <1>2, <1>3 DEF Init, SplitTypeOK, Done, Length, Text

LEMMA TypeStep == SplitTypeOK /\ [Next]_vars => SplitTypeOK'
<1> SUFFICES ASSUME SplitTypeOK, [Next]_vars PROVE SplitTypeOK'
  OBVIOUS
<1>1. CASE Cut
  <2>1. PICK e \in start + 1 .. Length - 1 :
            /\ AddPiece(e) /\ end' = e /\ start' = NextStart(e)
    BY <1>1 DEF Cut
  <2>2. Splitting /\ UNCHANGED <<document, unit>>
    BY <1>1 DEF Cut
  <2>3. e \in start + 1 .. Length
    BY <2>1, <2>2, Types
  <2>4. chunks' \in Seq([unit : Nat, start : Nat, end : Nat])
    BY <2>1, <2>2, <2>3, AddPieceType
  <2>5. start' \in start + 1 .. e
    BY <2>1, <2>2, <2>3, NextStartInWindow
  <2>6. Length' = Length
    BY <2>2 DEF document, Length, Text
  <2>7. ~Done' => start' <= end' /\ (end' < Length' \/ end' = 0)
    BY <2>1, <2>2, <2>5, <2>6, Types
  <2>8. units' = units /\ size' = size /\ overlap' = overlap /\ unit' = unit
    BY <2>2 DEF document
  <2>9. start' \in Nat /\ end' \in Nat
    BY <2>1, <2>5, <2>2, Types
  <2> QED
    BY <2>4, <2>7, <2>8, <2>9 DEF SplitTypeOK
<1>2. CASE LastCut
  <2>1. Splitting /\ AddPiece(Length) /\ NextUnit /\ UNCHANGED document
    BY <1>2 DEF LastCut
  <2>2. Length \in start + 1 .. Length
    BY <2>1, Types
  <2>3. chunks' \in Seq([unit : Nat, start : Nat, end : Nat])
    BY <2>1, <2>2, AddPieceType
  <2> QED
    BY <2>1, <2>3, Types DEF SplitTypeOK, NextUnit, document, Done, Splitting
<1>3. CASE EmptyUnit
  <2>1. units \in Seq(Seq(Characters))
    BY DEF SplitTypeOK
  <2> QED
    BY <1>3, <2>1 DEF EmptyUnit, SplitTypeOK, NextUnit, document, Done
<1>4. CASE UNCHANGED vars
  BY <1>4 DEF vars, SplitTypeOK, Done, Length, Text
<1> QED
  BY <1>1, <1>2, <1>3, <1>4 DEF Next, Finished

\* The chunker keeps its types and never begins a window past what it has cut.
THEOREM TypeCorrect == Spec => []TypeOK
<1>1. Init => TypeOK
  BY TypeInit DEF Init, TypeOK, SplitTypeOK
<1>2. TypeOK => SplitTypeOK
  BY InputsAssumption DEF TypeOK, SplitTypeOK
<1>3. TypeOK /\ [Next]_vars => TypeOK'
  <2>1. [Next]_vars => units' = units
    BY DEF Next, Cut, LastCut, EmptyUnit, Finished, document, vars
  <2> QED
    BY <1>2, <2>1, TypeStep DEF TypeOK, SplitTypeOK
<1> QED
  BY <1>1, <1>3, PTL DEF Spec

LEMMA SplitTypeCorrect == Spec => []SplitTypeOK
<1>1. TypeOK => SplitTypeOK
  BY InputsAssumption DEF TypeOK, SplitTypeOK
<1> QED
  BY <1>1, TypeCorrect, PTL

-----------------------------------------------------------------------------
(* No text is lost                                                          *)

LEMMA AddPieceCovers ==
  ASSUME SplitTypeOK, Splitting, NEW e \in start + 1 .. Length, AddPiece(e)
  PROVE  /\ Len(chunks') \in Nat /\ Len(chunks') >= Len(chunks)
         /\ \A k \in 1 .. Len(chunks) : chunks'[k] = chunks[k]
         /\ \A i \in start .. e - 1 :
               \/ IsBlank(i)
               \/ \E k \in 1 .. Len(chunks') :
                     chunks'[k].unit = unit /\ chunks'[k].start <= i /\ i < chunks'[k].end
<1>1. chunks \in Seq([unit : Nat, start : Nat, end : Nat])
  BY DEF SplitTypeOK
<1>2. CASE (\A i \in start .. e - 1 : IsBlank(i)) /\ UNCHANGED chunks
  BY <1>1, <1>2
<1>3. ASSUME NEW s \in start .. e - 1, NEW t \in start + 1 .. e, IsStripped(s, t, e),
             chunks' = Append(chunks, [unit |-> unit, start |-> s, end |-> t])
      PROVE  /\ Len(chunks') \in Nat /\ Len(chunks') >= Len(chunks)
             /\ \A k \in 1 .. Len(chunks) : chunks'[k] = chunks[k]
             /\ \A i \in start .. e - 1 :
                   \/ IsBlank(i)
                   \/ \E k \in 1 .. Len(chunks') :
                         chunks'[k].unit = unit /\ chunks'[k].start <= i /\ i < chunks'[k].end
  <2> DEFINE new == Len(chunks) + 1
  <2>1. /\ Len(chunks) \in Nat /\ Len(chunks') = new
        /\ \A k \in 1 .. Len(chunks) : chunks'[k] = chunks[k]
        /\ chunks'[new] = [unit |-> unit, start |-> s, end |-> t]
    BY <1>1, <1>3
  <2>2. \A i \in start .. e - 1 : IsBlank(i) \/ (s <= i /\ i < t)
    BY <1>3 DEF IsStripped
  <2>3. new \in 1 .. Len(chunks')
    BY <2>1
  <2> QED
    BY <2>1, <2>2, <2>3
<1> QED
  BY <1>2, <1>3 DEF AddPiece

\* One step of the splitting loses nothing.
LEMMA LosslessStep ==
  ASSUME SplitTypeOK, SplitTypeOK', NothingLost, [Next]_vars
  PROVE  NothingLost'
<1> DEFINE Held(u, i) == \/ units[u][i + 1] \in Blanks
                         \/ \E k \in 1 .. Len(chunks) :
                               chunks[k].unit = u /\ chunks[k].start <= i /\ i < chunks[k].end
<1>1. ASSUME NEW e \in start + 1 .. Length, Splitting, AddPiece(e), UNCHANGED document,
             \A u \in 1 .. Len(units) :
                SplitUpTo(u)' = IF u = unit THEN e ELSE SplitUpTo(u)
      PROVE  NothingLost'
  <2> SUFFICES ASSUME NEW u \in 1 .. Len(units), NEW i \in 0 .. SplitUpTo(u)' - 1
               PROVE  Held(u, i)'
    BY <1>1 DEF NothingLost, document
  <2>1. units' = units
    BY <1>1 DEF document
  <2>2. CASE i \in 0 .. SplitUpTo(u) - 1
    <3>1. Held(u, i)
      BY <2>2 DEF NothingLost
    <3>2. Len(chunks) \in Nat
      BY DEF SplitTypeOK
    <3> QED
      BY <3>1, <3>2, <2>1, <1>1, AddPieceCovers
  <2>3. CASE i \notin 0 .. SplitUpTo(u) - 1
    <3>1. u = unit /\ i \in end .. e - 1
      <4>1. u = unit
        BY <2>3, <1>1
      <4>2. SplitUpTo(u) = end
        BY <4>1, Types, <1>1 DEF SplitUpTo
      <4>3. end \in Nat /\ e \in Int /\ SplitUpTo(u)' = e
        <5>1. end \in Nat
          BY DEF SplitTypeOK
        <5>2. e \in Int
          BY <1>1, Types
        <5> QED
          BY <1>1, <4>1, <5>1, <5>2
      <4> QED
        BY <4>1, <4>2, <4>3, <2>3
    <3>2. start <= end
      <4>1. unit \in 1 .. Len(units) /\ Len(units) \in Nat
        BY <1>1, Types
      <4> QED
        BY <4>1 DEF SplitTypeOK, Done
    <3>3. i \in start .. e - 1
      BY <3>1, <3>2, <1>1, Types DEF SplitTypeOK
    <3> QED
      BY <3>1, <3>3, <2>1, <1>1, AddPieceCovers DEF IsBlank, Text
  <2> QED
    BY <2>2, <2>3
<1>2. CASE Cut
  <2>1. PICK e \in start + 1 .. Length - 1 : AddPiece(e) /\ end' = e
    BY <1>2 DEF Cut
  <2>2. Splitting /\ UNCHANGED <<document, unit>>
    BY <1>2 DEF Cut
  <2>3. e \in start + 1 .. Length
    BY <2>1, <2>2, Types
  <2>4. \A u \in 1 .. Len(units) : SplitUpTo(u)' = IF u = unit THEN e ELSE SplitUpTo(u)
    BY <2>1, <2>2, Types DEF SplitUpTo, document
  <2> QED
    BY <2>1, <2>2, <2>3, <2>4, <1>1
<1>3. CASE LastCut
  <2>1. Splitting /\ AddPiece(Length) /\ NextUnit /\ UNCHANGED document
    BY <1>3 DEF LastCut
  <2>2. Length \in start + 1 .. Length
    BY <2>1, Types
  <2>3. \A u \in 1 .. Len(units) :
           SplitUpTo(u)' = IF u = unit THEN Length ELSE SplitUpTo(u)
    BY <2>1, Types DEF SplitUpTo, document, NextUnit, Length, Text
  <2> QED
    BY <2>1, <2>2, <2>3, <1>1
<1>4. CASE EmptyUnit
  <2>1. /\ unit <= Len(units) /\ unit' = unit + 1 /\ end' = 0
        /\ units' = units /\ chunks' = chunks /\ ~(start < Length)
    BY <1>4 DEF EmptyUnit, NextUnit, document
  <2>2. units \in Seq(Seq(Characters)) /\ unit \in 1 .. Len(units)
    BY <2>1 DEF SplitTypeOK
  <2>3. Length \in Nat
    BY <2>2 DEF Length, Text
  <2>4. end = 0 /\ Length = 0
    BY <2>1, <2>3 DEF SplitTypeOK, Done
  <2>5. \A u \in 1 .. Len(units) : SplitUpTo(u)' = SplitUpTo(u)
    BY <2>1, <2>2, <2>4 DEF SplitUpTo, Length, Text
  <2> QED
    BY <2>1, <2>5 DEF NothingLost
<1>5. CASE UNCHANGED vars
  BY <1>5 DEF vars, NothingLost, SplitUpTo
<1> QED
  BY <1>2, <1>3, <1>4, <1>5 DEF Next, Finished

\* Every character that is not blank ends up in a chunk: the overlap keeps the next
\* window from beginning after the end of this one.
THEOREM Lossless == Spec => []NothingLost
<1>1. Init => NothingLost
  <2> SUFFICES ASSUME Init, NEW u \in 1 .. Len(units), NEW i \in 0 .. SplitUpTo(u) - 1
               PROVE  FALSE
    BY DEF NothingLost
  <2> QED
    BY DEF Init, SplitUpTo
<1> QED
  BY <1>1, LosslessStep, SplitTypeCorrect, PTL DEF Spec

-----------------------------------------------------------------------------
(* Chunks fit                                                               *)

LEMMA FittingStep ==
  ASSUME SplitTypeOK, ChunksFit, [Next]_vars
  PROVE  ChunksFit'
<1> DEFINE Fits(c) == /\ c.unit \in 1 .. Len(units)
                      /\ c.start < c.end /\ c.end <= Len(units[c.unit])
                      /\ c.end - c.start <= size
                      /\ units[c.unit][c.start + 1] \notin Blanks
                      /\ units[c.unit][c.end] \notin Blanks
<1>1. ASSUME NEW e, Splitting, IsCut(e), AddPiece(e), UNCHANGED document
      PROVE  ChunksFit'
  <2>1. /\ chunks \in Seq([unit : Nat, start : Nat, end : Nat])
        /\ units' = units /\ size' = size
    BY <1>1 DEF SplitTypeOK, document
  <2>2. CASE UNCHANGED chunks
    BY <2>1, <2>2 DEF ChunksFit
  <2>3. ASSUME NEW s \in start .. e - 1, NEW t \in start + 1 .. e, IsStripped(s, t, e),
               chunks' = Append(chunks, [unit |-> unit, start |-> s, end |-> t])
        PROVE  ChunksFit'
    <3> DEFINE piece == [unit |-> unit, start |-> s, end |-> t]
    <3>1. e \in start + 1 .. WindowEnd
      BY <1>1, CutInWindow
    <3>2. /\ s \in Nat /\ t \in Nat /\ s < t /\ t <= Length /\ t - s <= size
          /\ unit \in 1 .. Len(units)
      <4>1. /\ unit \in 1 .. Len(units) /\ start \in Nat /\ Length \in Nat /\ size \in Nat
            /\ WindowEnd \in start + 1 .. Length /\ WindowEnd <= start + size
        BY <1>1, Types
      <4>2. s < t
        BY <2>3 DEF IsStripped
      <4>3. s \in start .. e - 1 /\ t \in start + 1 .. e
        OBVIOUS
      <4> QED
        BY ONLY <3>1, <4>1, <4>2, <4>3
    <3>3. Text[s + 1] \notin Blanks /\ Text[t] \notin Blanks
      BY <3>2, <2>3 DEF IsStripped, IsBlank
    <3>4. Fits(piece)
      BY <3>2, <3>3 DEF Length, Text
    <3>5. \A k \in 1 .. Len(chunks') :
             chunks'[k] = piece \/ (k \in 1 .. Len(chunks) /\ chunks'[k] = chunks[k])
      BY <2>1, <2>3
    <3> QED
      BY <3>4, <3>5, <2>1 DEF ChunksFit
  <2> QED
    BY <1>1, <2>2, <2>3 DEF AddPiece
<1>2. CASE Cut
  <2>1. PICK e \in start + 1 .. Length - 1 : IsCut(e) /\ AddPiece(e)
    BY <1>2 DEF Cut
  <2> QED
    BY <2>1, <1>2, <1>1 DEF Cut
<1>3. CASE LastCut
  BY <1>3, <1>1 DEF LastCut
<1>4. CASE EmptyUnit \/ UNCHANGED vars
  BY <1>4 DEF EmptyUnit, vars, document, ChunksFit
<1> QED
  BY <1>2, <1>3, <1>4 DEF Next, Finished

\* A chunk is a stripped part of its window, and a window is no longer than size.
THEOREM Fitting == Spec => []ChunksFit
<1>1. Init => ChunksFit
  BY DEF Init, ChunksFit
<1> QED
  BY <1>1, FittingStep, SplitTypeCorrect, PTL DEF Spec

-----------------------------------------------------------------------------
(* Windows end in order                                                     *)

\* Every cut that is possible next ends no earlier than the last one, and later
\* when the overlap is at most half the size.
OrderInv ==
    Splitting /\ end # 0 =>
        \A e \in Nat : IsCut(e) => e >= end /\ (2 * overlap <= size => e > end)

\* The heart of it: the windows before and after a step share their text, so a
\* separator found in the later one either ends behind the earlier window, or was
\* seen there and came after the one chosen.
LEMMA NextCutNotBefore ==
  ASSUME SplitTypeOK, Splitting, SplitTypeOK', Splitting',
         NEW first \in start + 1 .. Length - 1, IsCut(first),
         start' = NextStart(first), UNCHANGED <<document, unit>>,
         NEW e \in Nat, IsCut(e)'
  PROVE  e >= first /\ (2 * overlap <= size => e > first)
<1>1. /\ Length' = Length /\ Text' = Text /\ size' = size /\ overlap' = overlap
  BY DEF document, Length, Text
<1>2. /\ start \in Nat /\ Length \in Nat /\ first < Length /\ first \in Nat
      /\ size \in Nat \ {0} /\ overlap \in Nat /\ overlap < size
      /\ WindowEnd \in Nat /\ WindowEnd <= start + size /\ SearchFloor \in Nat
  BY Types
<1>3. first <= WindowEnd
  BY CutInWindow, <1>2
<1>4. start' \in Nat /\ start' >= first - overlap /\ start' > start
  BY <1>2 DEF NextStart, Larger
<1>5. /\ WindowEnd' \in Nat /\ WindowEnd' >= WindowEnd /\ WindowEnd' > first
      /\ SearchFloor' \in Nat /\ SearchFloor' > SearchFloor
      /\ 2 * overlap <= size => SearchFloor' >= first
  BY <1>1, <1>2, <1>4 DEF WindowEnd, Smaller, SearchFloor, Larger
<1>6. CASE WindowEnd' = Length' \/ NoBreak'
  BY <1>6, <1>5 DEF IsCut
<1>7. CASE ~(WindowEnd' = Length' \/ NoBreak')
  <2> DEFINE M(k) == Matches(Separators[k])
             L(k) == Len(Separators[k])
  <2>1. PICK k \in 1 .. Len(Separators) :
            /\ \A j \in 1 .. k - 1 : M(j)' = {}
            /\ \E b \in M(k)' : (\A c \in M(k)' : c <= b) /\ e = b + L(k)
    BY <1>7 DEF IsCut, IsBreak
  <2>2. PICK b \in M(k)' : (\A c \in M(k)' : c <= b) /\ e = b + L(k)
    BY <2>1
  <2>3. Len(Separators) \in Nat /\ L(k) \in Nat \ {0}
    BY SeparatorLengths
  <2>4. /\ b \in Nat /\ b >= SearchFloor' /\ e <= WindowEnd'
        /\ \A i \in 1 .. L(k) : Text[b + i] = Separators[k][i]
    BY <2>2, <2>3, <1>1, <1>5 DEF Matches
  <2>5. 2 * overlap <= size => e > first
    <3>1. e = b + L(k)
      BY <2>2
    <3> QED
      BY ONLY <3>1, <2>3, <2>4, <1>2, <1>5
  <2>6. CASE e > WindowEnd
    BY <2>6, <2>5, <1>2, <1>3
  <2>7. CASE ~(e > WindowEnd)
    <3>1. b \in M(k)
      <4>1. b + L(k) <= WindowEnd /\ b >= SearchFloor
        <5>1. e = b + L(k)
          BY <2>2
        <5> QED
          BY ONLY <5>1, <2>7, <2>3, <2>4, <1>2, <1>5
      <4>2. b \in SearchFloor .. WindowEnd - L(k)
        BY <4>1, <2>3, <2>4, <1>2
      <4> QED
        BY <4>2, <2>4 DEF Matches
    <3>2. IsBreak(first)
      <4>1. CASE WindowEnd = Length \/ NoBreak
        BY <4>1, <3>1, <1>2 DEF IsCut, NoBreak
      <4> QED
        BY <4>1 DEF IsCut
    <3>3. PICK k0 \in 1 .. Len(Separators) :
              /\ \A j \in 1 .. k0 - 1 : M(j) = {}
              /\ \E b0 \in M(k0) : (\A c \in M(k0) : c <= b0) /\ first = b0 + L(k0)
      BY <3>2 DEF IsBreak
    <3>4. PICK b0 \in M(k0) : (\A c \in M(k0) : c <= b0) /\ first = b0 + L(k0)
      BY <3>3
    <3>5. L(k0) \in Nat \ {0}
      BY SeparatorLengths
    <3>6. /\ b0 \in Nat /\ b0 + L(k0) <= WindowEnd
          /\ \A i \in 1 .. L(k0) : Text[b0 + i] = Separators[k0][i]
      BY <3>4, <3>5, <1>2 DEF Matches
    <3>7. b0 >= SearchFloor' => b0 \in M(k0)'
      BY <3>5, <3>6, <1>1, <1>2, <1>5 DEF Matches
    <3>8. k0 <= k
      BY <3>1, <3>3, <2>3
    <3>9. CASE k0 = k
      <4>1. b <= b0
        BY <3>9, <3>1, <3>4
      <4>2. b0 >= SearchFloor'
        BY <4>1, <2>4, <3>6, <1>5
      <4>3. b0 <= b
        BY <4>2, <3>7, <3>9, <2>2
      <4> QED
        <5>1. e = b + L(k) /\ first = b0 + L(k)
          BY <2>2, <3>4, <3>9
        <5>2. b = b0
          BY ONLY <4>1, <4>3, <2>4, <3>6
        <5>3. e = first
          BY ONLY <5>1, <5>2
        <5> QED
          BY <5>3, <2>5, <1>2
    <3>10. CASE k0 < k
      <4>1. b0 < SearchFloor'
        <5>1. k0 \in 1 .. k - 1
          BY <3>10, <2>3
        <5>2. M(k0)' = {}
          BY <5>1, <2>1
        <5>3. ~(b0 >= SearchFloor')
          BY <5>2, <3>7
        <5> QED
          BY <5>3, <3>6, <1>5
      <4>2. L(k0) <= L(k) + 1
        BY <3>10, SeparatorsAssumption
      <4> QED
        <5>1. e = b + L(k) /\ first = b0 + L(k0)
          BY <2>2, <3>4
        <5>2. /\ b \in Nat /\ b0 \in Nat /\ L(k) \in Nat /\ L(k0) \in Nat
              /\ SearchFloor' \in Nat /\ b >= SearchFloor'
          BY ONLY <2>3, <2>4, <3>5, <3>6, <1>5
        <5>3. e >= first
          BY ONLY <4>1, <4>2, <5>1, <5>2
        <5> QED
          BY ONLY <5>3, <2>5
    <3> QED
      BY <3>8, <3>9, <3>10, <2>3
  <2> QED
    BY <2>6, <2>7
<1> QED
  BY <1>6, <1>7

LEMMA OrderStep ==
  ASSUME SplitTypeOK, SplitTypeOK', OrderInv, [Next]_vars
  PROVE  OrderInv'
<1>1. CASE Cut
  <2>1. PICK e \in start + 1 .. Length - 1 :
            IsCut(e) /\ end' = e /\ start' = NextStart(e)
    BY <1>1 DEF Cut
  <2>2. Splitting /\ UNCHANGED <<document, unit>>
    BY <1>1 DEF Cut
  <2> SUFFICES ASSUME Splitting', NEW f \in Nat, IsCut(f)'
               PROVE  f >= end' /\ (2 * overlap' <= size' => f > end')
    BY DEF OrderInv
  <2>3. f >= e /\ (2 * overlap <= size => f > e)
    BY <2>1, <2>2, NextCutNotBefore
  <2> QED
    BY <2>1, <2>2, <2>3 DEF document
<1>2. CASE LastCut \/ EmptyUnit
  BY <1>2 DEF LastCut, EmptyUnit, NextUnit, OrderInv
<1>3. CASE UNCHANGED vars
  <2>1. /\ Text' = Text /\ Length' = Length /\ WindowEnd' = WindowEnd
        /\ SearchFloor' = SearchFloor /\ Splitting' = Splitting
        /\ end' = end /\ size' = size /\ overlap' = overlap
    BY <1>3 DEF vars, Splitting, Length, Text, WindowEnd, SearchFloor
  <2>2. \A separator : Matches(separator)' = Matches(separator)
    BY <2>1 DEF Matches
  <2>3. \A e \in Nat : IsCut(e)' = IsCut(e)
    BY <2>1, <2>2 DEF IsCut, NoBreak, IsBreak
  <2> QED
    BY <2>1, <2>3 DEF OrderInv
<1> QED
  BY <1>1, <1>2, <1>3 DEF Next, Finished

LEMMA CutAfterLast ==
  ASSUME SplitTypeOK, OrderInv, Next, vars' # vars, unit' = unit, end' # 0
  PROVE  IF 2 * overlap <= size THEN end' > end ELSE end' >= end
<1>1. unit \in Nat
  BY DEF SplitTypeOK
<1>2. Cut
  BY <1>1 DEF Next, LastCut, EmptyUnit, NextUnit, Finished
<1>3. PICK e \in start + 1 .. Length - 1 : IsCut(e) /\ end' = e
  BY <1>2 DEF Cut
<1>4. Splitting
  BY <1>2 DEF Cut
<1>5. e \in Nat /\ e > 0 /\ end \in Nat
  BY <1>3, <1>4, Types DEF SplitTypeOK
<1> QED
  BY <1>3, <1>4, <1>5 DEF OrderInv

\* Windows end in the order in which they begin, for every setting and every list
\* of separators like the one of the code.
THEOREM CutsInOrder == Spec => EndsInOrder
<1>1. Init => OrderInv
  BY DEF Init, OrderInv
<1>2. ASSUME SplitTypeOK, OrderInv, [Next]_vars
      PROVE  [unit' = unit /\ end' # 0 =>
                IF 2 * overlap <= size THEN end' > end ELSE end' >= end]_vars
  BY <1>2, CutAfterLast
<1> QED
  BY <1>1, <1>2, OrderStep, SplitTypeCorrect, PTL DEF Spec, EndsInOrder

-----------------------------------------------------------------------------
(* The embedding of n texts *)

EmbedNext(n) == \E blank \in BOOLEAN : EmbedStep(n, blank)

\* Where the texts with vectors end: at batchStart, or at n after the last batch.
Embedded(n) == IF batchStart < n THEN batchStart ELSE n

\* The inductive invariant: vectors of the texts before batchStart, in their order
\* and of one dimension, at every pass of the loop.
EmbedInv(n) ==
    /\ EmbedTypeOK
    /\ Len(vectors) = Embedded(n)
    /\ \A i \in 1 .. Len(vectors) : vectors[i].of = i /\ vectors[i].dim = vectors[1].dim
    /\ embedPc \in {"build", "indexed"} => batchStart >= n
    /\ embedPc = "indexed" => Indexable

\* An answer that is accepted continues the vectors: it has one vector for each text
\* of its batch, of the dimension of those before.
LEMMA BatchKeepsOrder ==
    ASSUME NEW n \in Nat, EmbedInv(n), EmbedBatch(n)
    PROVE  EmbedInv(n)'
<1>1. embedPc = "embed" /\ batchStart < n /\ embedPc' = embedPc /\ batchStart' = batchStart + BatchSize
  BY DEF EmbedBatch
<1> DEFINE Row(answer, i) == [of |-> batchStart + i, dim |-> answer[i][1], quality |-> answer[i][2]]
<1>2. PICK answer \in Answers(n) :
         Accepted(answer, n) /\ vectors' = vectors \o [i \in 1 .. Len(answer) |-> Row(answer, i)]
  BY DEF EmbedBatch
<1> DEFINE rows == [i \in 1 .. Len(answer) |-> Row(answer, i)]
<1>3. batchStart \in Nat /\ BatchSize \in Nat \ {0} /\ vectors \in Seq([of : Nat, dim : Dimensions, quality : Qualities])
  BY BatchAssumption DEF EmbedInv, EmbedTypeOK
<1>4. BatchLength(n) \in Nat /\ BatchLength(n) > 0
      /\ BatchLength(n) = IF batchStart + BatchSize < n THEN BatchSize ELSE n - batchStart
  BY <1>1, <1>3 DEF BatchLength, BatchEnd
<1>5. PICK m \in 0 .. BatchLength(n) + 1 : answer \in [1 .. m -> Dimensions \X Qualities]
  BY <1>2 DEF Answers
<1>6. Len(answer) = m
  <2>1. m \in Nat
    BY <1>4, <1>5
  <2>2. answer \in Seq(Dimensions \X Qualities)
    BY <1>5, <2>1
  <2> QED
    BY <1>5, <2>1, <2>2, LenProperties
<1>7. m = BatchLength(n)
  BY <1>2, <1>6 DEF Accepted
<1>8. rows \in Seq([of : Nat, dim : Dimensions, quality : Qualities]) /\ Len(rows) = m
      /\ \A i \in 1 .. m : rows[i] = Row(answer, i)
  <2>1. \A i \in 1 .. m : answer[i] \in Dimensions \X Qualities
    BY <1>5
  <2>2. \A i \in 1 .. m : Row(answer, i) \in [of : Nat, dim : Dimensions, quality : Qualities]
    BY <2>1, <1>3, <1>4, <1>7
  <2>3. rows \in [1 .. m -> [of : Nat, dim : Dimensions, quality : Qualities]]
    BY <2>2, <1>6
  <2>4. rows \in Seq([of : Nat, dim : Dimensions, quality : Qualities])
    BY <2>3, <1>4, <1>7
  <2>5. DOMAIN rows = 1 .. m /\ \A i \in 1 .. m : rows[i] = Row(answer, i)
    BY <1>6
  <2>6. Len(rows) = m
    <3> HIDE DEF rows
    <3> QED
      BY <2>4, <2>5, <1>4, <1>7, LenProperties
  <2> QED
    BY <2>4, <2>5, <2>6
<1> DEFINE l == Len(vectors)
<1>9. l = batchStart
  BY <1>1 DEF EmbedInv, Embedded
<1>10. /\ vectors' \in Seq([of : Nat, dim : Dimensions, quality : Qualities])
       /\ Len(vectors') = l + m
       /\ \A i \in 1 .. l + m : vectors'[i] = IF i <= l THEN vectors[i] ELSE rows[i - l]
  <2> HIDE DEF rows
  <2>1. vectors' = vectors \o rows
    BY <1>2 DEF rows
  <2> QED
    BY <2>1, <1>3, <1>8, ConcatProperties
<1> HIDE DEF rows, l
<1>11. \A i \in 1 .. l + m : vectors'[i].of = i
  <2> SUFFICES ASSUME NEW i \in 1 .. l + m PROVE vectors'[i].of = i
    OBVIOUS
  <2>1. CASE i <= l
    BY <2>1, <1>10, <1>9, <1>3 DEF EmbedInv, l
  <2>2. CASE i > l
    <3>1. i - l \in 1 .. m /\ batchStart + (i - l) = i
      BY <2>2, <1>9, <1>3, <1>4, <1>7
    <3>2. vectors'[i] = rows[i - l]
      BY <2>2, <1>9, <1>3, <1>10
    <3>3. rows[i - l] = Row(answer, i - l)
      BY <3>1, <1>8
    <3> QED
      BY <3>1, <3>2, <3>3
  <2> QED
    BY <2>1, <2>2, <1>9, <1>3
<1>12. \A i \in 1 .. l + m : vectors'[i].dim = vectors'[1].dim
  <2>1. \A i, j \in 1 .. m : answer[i][1] = answer[j][1]
    BY <1>2, <1>6 DEF Accepted, SameDimension
  <2>2. \A i \in 1 .. l, j \in 1 .. m : vectors[i].dim = answer[j][1]
    BY <1>2, <1>6 DEF Accepted, SameDimension, l
  <2>3. \A i \in 1 .. l : vectors[i].dim = vectors[1].dim
    BY DEF EmbedInv, l
  <2>4. \A i \in 1 .. l + m : i <= l => vectors'[i].dim = vectors[i].dim
    BY <1>10
  <2>5. ASSUME NEW i \in 1 .. l + m, i > l
        PROVE  i - l \in 1 .. m /\ vectors'[i].dim = answer[i - l][1]
    <3>1. i - l \in 1 .. m
      BY <2>5, <1>9, <1>3, <1>4, <1>7
    <3>2. vectors'[i] = rows[i - l]
      BY <2>5, <1>9, <1>3, <1>10
    <3>3. rows[i - l] = Row(answer, i - l)
      BY <3>1, <1>8
    <3> QED
      BY <3>1, <3>2, <3>3
  <2>6. 1 \in 1 .. m /\ 1 \in 1 .. l + m /\ l \in Nat /\ m \in Nat
    BY <1>4, <1>7, <1>9, <1>3
  <2> SUFFICES ASSUME NEW i \in 1 .. l + m PROVE vectors'[i].dim = vectors'[1].dim
    OBVIOUS
  <2>7. CASE l = 0
    <3>1. vectors'[i].dim = answer[i - l][1] /\ i - l \in 1 .. m /\ vectors'[1].dim = answer[1 - l][1] /\ 1 - l \in 1 .. m
      BY <2>5, <2>6, <2>7
    <3> QED
      BY <3>1, <2>1
  <2>8. CASE l > 0
    <3>1. vectors'[1].dim = vectors[1].dim /\ 1 \in 1 .. l
      BY <2>4, <2>6, <2>8
    <3>2. CASE i <= l
      BY <3>1, <3>2, <2>3, <2>4, <2>6
    <3>3. CASE i > l
      BY <3>1, <3>3, <2>2, <2>5
    <3> QED
      BY <3>2, <3>3, <2>6
  <2> QED
    BY <2>6, <2>7, <2>8
<1>13. l + m = IF batchStart' < n THEN batchStart' ELSE n
  BY <1>1, <1>3, <1>4, <1>7, <1>9
<1> QED
  BY <1>1, <1>3, <1>10, <1>11, <1>12, <1>13 DEF EmbedInv, EmbedTypeOK, Embedded

\* An index is built of usable vectors of one dimension only.
LEMMA EmbedInvPreserved ==
    ASSUME NEW n \in Nat, EmbedInv(n), [EmbedNext(n)]_embedVars
    PROVE  EmbedInv(n)'
<1>1. CASE UNCHANGED embedVars
  BY <1>1 DEF EmbedInv, EmbedTypeOK, Embedded, Indexable, embedVars
<1>2. ASSUME NEW blank \in BOOLEAN, EmbedStart(blank)
      PROVE  EmbedInv(n)'
  BY <1>2 DEF EmbedStart, EmbedInv, EmbedTypeOK, Embedded
<1>3. CASE EmbedBatch(n)
  BY <1>3, BatchKeepsOrder
<1>4. CASE EmbedFails(n)
  BY <1>4 DEF EmbedFails, EmbedInv, EmbedTypeOK, Embedded
<1>5. CASE EmbedEnd(n)
  BY <1>5 DEF EmbedEnd, EmbedInv, EmbedTypeOK, Embedded
<1>6. CASE BuildIndex
  BY <1>6 DEF BuildIndex, EmbedInv, EmbedTypeOK, Embedded, Indexable
<1> QED
  BY <1>1, <1>2, <1>3, <1>4, <1>5, <1>6 DEF EmbedNext, EmbedStep

LEMMA EmbedInvGivesRows ==
    ASSUME NEW n \in Nat, EmbedInv(n)
    PROVE  RowsMatchTexts(n)
<1>1. ASSUME embedPc \in {"build", "indexed"} PROVE Len(vectors) = n
  BY <1>1 DEF EmbedInv, EmbedTypeOK, Embedded
<1>2. ASSUME embedPc = "indexed" PROVE n > 0
  <2>1. Len(vectors) = n /\ vectors # <<>>
    BY <1>1, <1>2 DEF EmbedInv, Indexable
  <2>2. vectors \in Seq([of : Nat, dim : Dimensions, quality : Qualities])
    BY DEF EmbedInv, EmbedTypeOK
  <2> QED
    BY <2>1, <2>2, EmptySeq
<1> QED
  BY <1>1, <1>2 DEF EmbedInv, RowsMatchTexts, Indexable

-----------------------------------------------------------------------------
(* The text of a unit: its parts, one after the other                       *)

\* FlattenSeq computes what a loop that appends does.
LEMMA FlattenIs ==
  ASSUME NEW X, NEW n \in Nat, NEW list \in [1 .. n -> Seq(X)],
         NEW f \in [0 .. n -> Seq(X)], f[0] = <<>>,
         \A i \in 1 .. n : f[i] = f[i - 1] \o list[i]
  PROVE  FlattenSeq(list) = f[n]
<1> DEFINE Pass(g, i) == IF i = 1 THEN list[i] ELSE g[i - 1] \o list[i]
           Solves(g) == g = [i \in 1 .. Len(list) |-> Pass(g, i)]
<1>1. list \in Seq(Seq(X)) /\ Len(list) = n
  BY ListOf
<1>2. CASE n = 0
  <2>1. list = <<>>
    BY <1>1, <1>2, EmptySeq
  <2> QED
    BY <1>1, <1>2, <2>1 DEF FlattenSeq
<1>3. CASE n # 0
  <2>1. \E g : Solves(g)
    <3> DEFINE h == [i \in 1 .. n |-> f[i]]
    <3>1. \A i \in 1 .. n : h[i] = Pass(h, i)
      <4> SUFFICES ASSUME NEW i \in 1 .. n PROVE h[i] = Pass(h, i)
        OBVIOUS
      <4>1. CASE i = 1
        <5>1. f[1] = f[0] \o list[1]
          <6>1. 1 \in 1 .. n /\ 1 - 1 = 0
            BY <4>1
          <6> QED
            BY <6>1
        <5>2. list[1] \in Seq(X)
          BY <4>1
        <5>3. <<>> \o list[1] = list[1]
          BY <5>2, ConcatEmptySeq
        <5> QED
          BY <4>1, <5>1, <5>3
      <4>2. CASE i # 1
        <5>1. i - 1 \in 1 .. n
          BY <4>2
        <5> QED
          BY <4>2, <5>1
      <4> QED
        BY <4>1, <4>2
    <3>2. Solves(h)
      <4> HIDE DEF Pass
      <4> QED
        BY <1>1, <3>1
    <3> QED
      BY <3>2
  <2>2. PICK g : g = CHOOSE flatten : Solves(flatten)
    OBVIOUS
  <2>3. Solves(g)
    <3> HIDE DEF Solves
    <3> QED
      BY <2>1, <2>2
  <2>4. FlattenSeq(list) = g[n]
    BY <1>1, <1>3, <2>2 DEF FlattenSeq
  <2>5. \A i \in 1 .. n : g[i] = Pass(g, i)
    <3> HIDE DEF Pass
    <3> QED
      BY <1>1, <2>3
  <2> DEFINE P == {i \in Nat : i + 1 <= n => g[i + 1] = f[i + 1]}
  <2>6. 0 \in P
    <3>1. 1 \in 1 .. n /\ list[1] \in Seq(X) /\ 1 - 1 = 0
      BY <1>3
    <3>2. f[1] = f[0] \o list[1]
      BY <3>1
    <3>3. f[1] = list[1]
      BY <3>1, <3>2, ConcatEmptySeq
    <3>4. g[1] = list[1]
      BY <2>5, <3>1
    <3> QED
      BY <3>3, <3>4
  <2>7. ASSUME NEW i \in Nat, i \in P PROVE i + 1 \in P
    <3> SUFFICES ASSUME (i + 1) + 1 <= n PROVE g[(i + 1) + 1] = f[(i + 1) + 1]
      OBVIOUS
    <3>1. /\ (i + 1) + 1 \in 1 .. n /\ (i + 1) + 1 # 1 /\ ((i + 1) + 1) - 1 = i + 1
          /\ i + 1 <= n
      OBVIOUS
    <3>2. g[(i + 1) + 1] = g[i + 1] \o list[(i + 1) + 1]
      BY <2>5, <3>1
    <3>3. f[(i + 1) + 1] = f[i + 1] \o list[(i + 1) + 1]
      BY <3>1
    <3>4. g[i + 1] = f[i + 1]
      BY <2>7, <3>1
    <3> QED
      BY <3>2, <3>3, <3>4
  <2>8. Nat \subseteq P
    <3> HIDE DEF P
    <3> QED
      BY <2>6, <2>7, SetInduction
  <2>9. n - 1 \in Nat /\ (n - 1) + 1 = n
    BY <1>3
  <2>10. n - 1 \in P
    BY <2>8, <2>9
  <2> QED
    BY <2>4, <2>9, <2>10
<1> QED
  BY <1>2, <1>3

\* The texts of parts m to n grow with n by one part each.
LEMMA PartsTextGrows ==
  ASSUME source \in Sources, NEW m \in 1 .. PartCount + 1
  PROVE  \E f \in [0 .. PartCount + 1 - m -> Seq(Characters)] :
            /\ f[0] = <<>>
            /\ \A i \in 1 .. PartCount + 1 - m : f[i] = f[i - 1] \o source.parts[m + i - 1].text
            /\ \A n \in 0 .. PartCount + 1 - m : PartsText(m, m + n - 1) = f[n]
<1> DEFINE Part(i) == source.parts[m + i - 1].text
<1>1. PICK last : last = PartCount + 1 - m
  OBVIOUS
<1>2. PartCount \in Nat /\ last \in Nat
  BY <1>1, SourcesAssumption DEF PartCount
<1>3. \A i \in 1 .. last : Part(i) \in Seq(Characters)
  <2>1. \A i \in 1 .. last : m + i - 1 \in 1 .. PartCount
    BY <1>1, <1>2
  <2> QED
    BY <2>1, TextAssumption DEF PartCount
<1> DEFINE step == [i \in Nat |-> [t \in Seq(Characters) |->
                       IF i < last THEN t \o Part(i + 1) ELSE t]]
<1>4. step \in [Nat -> [Seq(Characters) -> Seq(Characters)]]
  <2> SUFFICES ASSUME NEW i \in Nat, NEW t \in Seq(Characters), i < last
               PROVE  t \o Part(i + 1) \in Seq(Characters)
    OBVIOUS
  <2>1. Part(i + 1) \in Seq(Characters)
    <3>1. i + 1 \in 1 .. last
      BY <1>2
    <3> QED
      BY <1>3, <3>1
  <2> HIDE DEF Part
  <2> QED
    BY <2>1
<1>5. Runs(Seq(Characters), <<>>, step, last) # {}
  <2>1. <<>> \in Seq(Characters)
    OBVIOUS
  <2> HIDE DEF step
  <2> QED
    BY <1>2, <1>4, <2>1, RunExists
<1>6. PICK f : f \in Runs(Seq(Characters), <<>>, step, last)
  BY <1>5
<1>7. /\ f \in [0 .. last -> Seq(Characters)] /\ f[0] = <<>>
      /\ \A i \in 0 .. last - 1 : f[i + 1] = step[i][f[i]]
  BY <1>6 DEF Runs
<1>8. ASSUME NEW i \in 1 .. last PROVE f[i] = f[i - 1] \o Part(i)
  <2>1. /\ i - 1 \in 0 .. last - 1 /\ (i - 1) + 1 = i /\ i - 1 \in Nat /\ i - 1 < last
        /\ i - 1 \in 0 .. last
    BY <1>2
  <2>2. f[i] = step[i - 1][f[i - 1]] /\ f[i - 1] \in Seq(Characters)
    BY <1>7, <2>1
  <2> HIDE DEF Part
  <2> QED
    BY <2>1, <2>2
<1>9. ASSUME NEW n \in 0 .. last PROVE PartsText(m, m + n - 1) = f[n]
  <2>1. n \in Nat /\ (m + n - 1) - m + 1 = n /\ \A i \in 1 .. n : i \in 1 .. last
    BY <1>2
  <2> DEFINE list == [i \in 1 .. n |-> Part(i)]
             g == [i \in 0 .. n |-> f[i]]
  <2>2. PartsText(m, m + n - 1) = FlattenSeq(list)
    BY <2>1 DEF PartsText
  <2>3. list \in [1 .. n -> Seq(Characters)] /\ \A i \in 1 .. n : list[i] = Part(i)
    BY <1>3, <2>1
  <2>4. g \in [0 .. n -> Seq(Characters)] /\ g[0] = <<>> /\ g[n] = f[n]
    <3>1. \A i \in 0 .. n : i \in 0 .. last
      BY <1>2, <2>1
    <3>2. \A i \in 0 .. n : f[i] \in Seq(Characters)
      BY <1>7, <3>1
    <3>3. 0 \in 0 .. n /\ n \in 0 .. n
      BY <2>1
    <3> QED
      BY <1>7, <3>2, <3>3
  <2>5. \A i \in 1 .. n : g[i] = g[i - 1] \o list[i]
    <3> SUFFICES ASSUME NEW i \in 1 .. n PROVE g[i] = g[i - 1] \o list[i]
      OBVIOUS
    <3>1. i \in 1 .. last /\ i - 1 \in 0 .. n /\ i \in 0 .. n
      BY <2>1
    <3> HIDE DEF Part
    <3> QED
      BY <1>8, <2>3, <3>1
  <2>6. FlattenSeq(list) = g[n]
    <3> HIDE DEF list, g
    <3> QED
      BY <2>1, <2>3, <2>4, <2>5, FlattenIs
  <2> QED
    BY <2>2, <2>4, <2>6
<1> QED
  BY <1>1, <1>7, <1>8, <1>9

\* The characters of a part are found in its unit where OffsetIn says.
LEMMA PartInUnit ==
  ASSUME source \in Sources, NEW m \in 1 .. PartCount, NEW n \in m .. PartCount,
         NEW i \in m .. n, NEW j \in 1 .. Len(source.parts[i].text)
  PROVE  /\ PartsText(m, n) \in Seq(Characters)
         /\ Len(PartsText(m, i - 1)) \in Nat
         /\ Len(PartsText(m, i - 1)) + j \in 1 .. Len(PartsText(m, n))
         /\ PartsText(m, n)[Len(PartsText(m, i - 1)) + j] = source.parts[i].text[j]
<1>1. PartCount \in Nat
  BY SourcesAssumption DEF PartCount
<1>2. PICK last : last = PartCount + 1 - m
  OBVIOUS
<1>3. PICK f \in [0 .. last -> Seq(Characters)] :
            /\ f[0] = <<>>
            /\ \A q \in 1 .. last : f[q] = f[q - 1] \o source.parts[m + q - 1].text
            /\ \A q \in 0 .. last : PartsText(m, m + q - 1) = f[q]
  <2>1. m \in 1 .. PartCount + 1
    BY <1>1
  <2> QED
    BY <1>2, <2>1, PartsTextGrows
<1>4. PICK p : p = i - m
  OBVIOUS
<1>5. /\ p \in Nat /\ p + 1 \in 1 .. last /\ p \in 0 .. last /\ last \in Nat
      /\ m + (p + 1) - 1 = i /\ m + p - 1 = i - 1 /\ (p + 1) - 1 = p /\ i \in 1 .. PartCount
  BY <1>1, <1>2, <1>4
<1>6. PICK offset : offset = Len(f[p])
  OBVIOUS
<1>7. offset \in Nat /\ f[p] \in Seq(Characters)
  BY <1>5, <1>6
<1>8. PICK text : text = source.parts[i].text
  OBVIOUS
<1>9. text \in Seq(Characters) /\ j \in 1 .. Len(text)
  BY <1>5, <1>8, TextAssumption DEF PartCount
<1> DEFINE Holds(t) == t \in Seq(Characters) /\ offset + j \in 1 .. Len(t) /\ t[offset + j] = text[j]
           P == {d \in Nat : p + 1 + d <= last => Holds(f[p + 1 + d])}
<1>10. 0 \in P
  <2>1. f[p + 1] = f[p] \o text
    BY <1>3, <1>5, <1>8
  <2>2. Holds(f[p] \o text)
    <3>1. /\ f[p] \o text \in Seq(Characters) /\ Len(f[p] \o text) = offset + Len(text)
          /\ \A k \in 1 .. offset + Len(text) :
                (f[p] \o text)[k] = IF k <= offset THEN f[p][k] ELSE text[k - offset]
      BY <1>6, <1>7, <1>9, ConcatProperties
    <3>2. Len(text) \in Nat
      BY <1>9
    <3>3. offset + j \in 1 .. offset + Len(text) /\ ~(offset + j <= offset)
          /\ (offset + j) - offset = j
      BY <1>7, <1>9, <3>2
    <3> QED
      BY <3>1, <3>3
  <2>3. p + 1 + 0 = p + 1
    BY <1>5
  <2> QED
    BY <2>1, <2>2, <2>3
<1>11. ASSUME NEW d \in Nat, d \in P PROVE d + 1 \in P
  <2> SUFFICES ASSUME p + 1 + (d + 1) <= last PROVE Holds(f[p + 1 + (d + 1)])
    OBVIOUS
  <2>1. PICK q : q = p + 1 + d
    OBVIOUS
  <2>2. /\ q \in Nat /\ q + 1 \in 1 .. last /\ q <= last /\ q \in 0 .. last
        /\ (q + 1) - 1 = q /\ p + 1 + (d + 1) = q + 1 /\ m + (q + 1) - 1 \in 1 .. PartCount
    BY <1>1, <1>2, <1>5, <2>1
  <2>3. PICK more : more = source.parts[m + (q + 1) - 1].text
    OBVIOUS
  <2>4. more \in Seq(Characters)
    BY <2>2, <2>3, TextAssumption DEF PartCount
  <2>5. f[q + 1] = f[q] \o more
    BY <1>3, <2>2, <2>3
  <2>6. Holds(f[q])
    BY <1>11, <2>1, <2>2
  <2>7. PICK t : t = f[q]
    OBVIOUS
  <2>8. Holds(t)
    BY <2>6, <2>7
  <2>9. Holds(t \o more)
    BY <1>7, <1>9, <2>4, <2>8, ConcatProperties
  <2> QED
    BY <2>2, <2>5, <2>7, <2>9
<1>12. Nat \subseteq P
  <2> HIDE DEF P
  <2> QED
    BY <1>10, <1>11, SetInduction
<1>13. /\ n - i \in Nat /\ p + 1 + (n - i) <= last /\ m + (p + 1 + (n - i)) - 1 = n
       /\ p + 1 + (n - i) \in 0 .. last
  BY <1>1, <1>2, <1>4, <1>5
<1>14. Holds(f[p + 1 + (n - i)])
  BY <1>12, <1>13
<1>15. PartsText(m, n) = f[p + 1 + (n - i)]
  BY <1>3, <1>13
<1>16. PartsText(m, i - 1) = f[p]
  BY <1>3, <1>5
<1> QED
  BY <1>6, <1>7, <1>8, <1>14, <1>15, <1>16

-----------------------------------------------------------------------------

\* The pipeline hands over in order: embedding does not begin before all chunks are
\* made, and chunks are not made before the loader is done.
PipelineInv ==
    /\ LoadInv
    /\ chunks \in Seq([unit : Nat, start : Int, end : Int])
    /\ unit \in Nat /\ Len(units) \in Nat
    /\ embedPc = "idle" => batchStart = 0 /\ vectors = <<>>
    /\ embedPc # "idle" => loadPc = "loaded" /\ Done
    /\ EmbedInv(Len(chunks))

LEMMA PipelineInvInit == PipelineInit => PipelineInv
<1> SUFFICES ASSUME PipelineInit PROVE PipelineInv
  OBVIOUS
<1>1. LoadInv
  BY LoadInvInit DEF PipelineInit
<1>2. chunks = <<>> /\ units = <<>> /\ unit = 1
  BY DEF PipelineInit
<1>3. embedPc = "idle" /\ batchStart = 0 /\ vectors = <<>>
  BY DEF PipelineInit, EmbedInit
<1> QED
  BY <1>1, <1>2, <1>3 DEF PipelineInv, EmbedInv, EmbedTypeOK, Embedded

\* Whatever happens to the chunks before embedding begins, it begins with no vector.
LEMMA IdleEmbedInv ==
    ASSUME embedPc = "idle", batchStart = 0, vectors = <<>>, UNCHANGED embedVars,
           Len(chunks') \in Nat
    PROVE  EmbedInv(Len(chunks))'
BY DEF EmbedInv, EmbedTypeOK, Embedded, embedVars

\* The units are as many as the loader made.
LEMMA UnitTextsLength ==
    ASSUME NEW S, NEW list \in Seq(S)
    PROVE  Len(UnitTexts(list)) = Len(list)
<1> DEFINE texts == [k \in 1 .. Len(list) |-> PartsText(list[k].first, list[k].last)]
           T == {PartsText(list[k].first, list[k].last) : k \in 1 .. Len(list)}
<1>1. Len(list) \in Nat
  OBVIOUS
<1>2. texts \in [1 .. Len(list) -> T]
  OBVIOUS
<1>3. texts \in Seq(T) /\ DOMAIN texts = 1 .. Len(list)
  BY <1>1, <1>2
<1> QED
  <2> HIDE DEF texts
  <2>1. Len(texts) = Len(list)
    BY <1>1, <1>3, LenProperties
  <2> QED
    BY <2>1 DEF UnitTexts, texts

LEMMA PipelineInvPreserved ==
    ASSUME PipelineInv, [PipelineNext]_pipelineVars
    PROVE  PipelineInv'
<1>1. CASE Load
  <2>1. LoadStep /\ UNCHANGED <<unit, chunks, embedVars>>
        /\ units' = IF loadPc' = "loaded" THEN UnitTexts(loaded') ELSE <<>>
    BY <1>1 DEF Load
  <2>2. LoadInv'
    BY <2>1, LoadInvNext DEF PipelineInv
  <2>3. Len(units') \in Nat
    <3>1. \E S : loaded' \in Seq(S)
      BY <2>2 DEF LoadInv, LoadTypeOK
    <3> QED
      BY <2>1, <3>1, UnitTextsLength
  <2>4. embedPc = "idle" /\ embedPc' = "idle"
    BY <2>1 DEF PipelineInv, LoadStep, OpenText, HeadingLine, OtherLine, LastSection,
                OpenPdf, Page, PageFails, LastPage, embedVars
  <2>5. EmbedInv(Len(chunks))'
    BY <2>1, <2>4, IdleEmbedInv DEF PipelineInv
  <2> QED
    BY <2>1, <2>2, <2>3, <2>4, <2>5 DEF PipelineInv, embedVars
<1>2. CASE Chunk
  <2>1. loadPc = "loaded" /\ UNCHANGED <<loadVars, embedVars>> /\ (Cut \/ LastCut \/ EmptyUnit)
    BY <1>2 DEF Chunk
  <2>2. LoadInv'
    BY <2>1, LoadInvNext DEF PipelineInv
  <2>3. ~Done /\ UNCHANGED units
    BY <2>1 DEF PipelineInv, Cut, LastCut, EmptyUnit, Splitting, Done, document
  <2>4. embedPc = "idle" /\ embedPc' = "idle"
    BY <2>1, <2>3 DEF PipelineInv, embedVars
  <2>5. unit' \in Nat
    BY <2>1 DEF PipelineInv, Cut, LastCut, EmptyUnit, NextUnit
  <2>6. chunks' \in Seq([unit : Nat, start : Int, end : Int])
    <3>1. ASSUME NEW e, AddPiece(e) PROVE chunks' \in Seq([unit : Nat, start : Int, end : Int])
      <4>1. CASE UNCHANGED chunks
        BY <4>1 DEF PipelineInv
      <4>2. ASSUME NEW s \in start .. e - 1, NEW t \in start + 1 .. e,
                   chunks' = Append(chunks, [unit |-> unit, start |-> s, end |-> t])
            PROVE  chunks' \in Seq([unit : Nat, start : Int, end : Int])
        <5>1. [unit |-> unit, start |-> s, end |-> t] \in [unit : Nat, start : Int, end : Int]
          BY DEF PipelineInv
        <5> QED
          BY <4>2, <5>1, AppendProperties DEF PipelineInv
      <4> QED
        BY <3>1, <4>1, <4>2 DEF AddPiece
    <3>2. CASE Cut
      BY <3>1, <3>2 DEF Cut
    <3>3. CASE LastCut
      BY <3>1, <3>3 DEF LastCut
    <3>4. CASE EmptyUnit
      BY <3>4 DEF EmptyUnit, PipelineInv
    <3> QED
      BY <2>1, <3>2, <3>3, <3>4
  <2>7. EmbedInv(Len(chunks))'
    <3>1. Len(chunks') \in Nat
      BY <2>6, LenProperties
    <3> QED
      BY <2>1, <2>4, <3>1, IdleEmbedInv DEF PipelineInv
  <2> QED
    BY <2>1, <2>2, <2>3, <2>4, <2>5, <2>6, <2>7 DEF PipelineInv, embedVars
<1>3. CASE Embed
  <2>1. /\ loadPc = "loaded" /\ Done /\ UNCHANGED <<vars, loadVars>>
        /\ EmbedStep(Len(chunks), \E k \in 1 .. Len(chunks) : BlankChunk(chunks[k]))
    BY <1>3 DEF Embed
  <2>2. LoadInv'
    BY <2>1, LoadInvNext DEF PipelineInv
  <2>3. UNCHANGED <<units, unit, chunks, loadPc>>
    BY <2>1 DEF vars, loadVars
  <2>4. Len(chunks) \in Nat
    BY LenProperties DEF PipelineInv
  <2>5. PICK n \in Nat : n = Len(chunks)
    BY <2>4
  <2>6. EmbedInv(n)
    BY <2>5 DEF PipelineInv
  <2>7. PICK blank \in BOOLEAN : EmbedStep(n, blank)
    BY <2>1, <2>5
  <2>8. EmbedInv(n)'
    BY <2>6, <2>7, EmbedInvPreserved DEF EmbedNext
  <2>9. EmbedInv(Len(chunks))'
    BY <2>3, <2>5, <2>8 DEF EmbedInv, Embedded
  <2>10. embedPc' # "idle"
    BY <2>7 DEF EmbedStep, EmbedStart, EmbedBatch, EmbedFails, EmbedEnd, BuildIndex
  <2> QED
    BY <2>1, <2>2, <2>3, <2>9, <2>10 DEF PipelineInv, Done
<1>4. CASE UNCHANGED pipelineVars
  <2>1. UNCHANGED <<units, unit, chunks, loadPc, embedPc, batchStart, vectors>> /\ UNCHANGED loadVars
    BY <1>4 DEF pipelineVars, vars, loadVars, embedVars
  <2>2. LoadInv'
    BY <2>1, LoadInvNext DEF PipelineInv
  <2> QED
    BY <2>1, <2>2 DEF PipelineInv, Done, EmbedInv, EmbedTypeOK, Embedded, Indexable
<1> QED
  BY <1>1, <1>2, <1>3, <1>4 DEF PipelineNext, Step

LEMMA PipelineInvCorrect == PipelineSpec => []PipelineInv
BY PipelineInvInit, PipelineInvPreserved, PTL DEF PipelineSpec

\* Row i of the dense index is the vector of chunk i, for any number of chunks, in
\* batches of any size, whatever the embedding service answers.
THEOREM RowsAreChunks == PipelineSpec => []IndexMatchesChunks
<1>1. PipelineInv => IndexMatchesChunks
  <2> SUFFICES ASSUME PipelineInv PROVE IndexMatchesChunks
    OBVIOUS
  <2>1. PICK n \in Nat : n = Len(chunks)
    BY LenProperties DEF PipelineInv
  <2>2. RowsMatchTexts(n)
    BY <2>1, EmbedInvGivesRows DEF PipelineInv
  <2> QED
    BY <2>1, <2>2 DEF IndexMatchesChunks, RowsMatchTexts
<1> QED
  BY <1>1, PipelineInvCorrect, PTL

\* In the pipeline, too, an accepted document is loaded whole under its headings and
\* page numbers: chunking and embedding leave its units alone.
THEOREM PipelineLoadsWhole == PipelineSpec => []LoadedWhole
<1>1. PipelineInv => LoadedWhole
  BY DEF PipelineInv, LoadInv, LoadedWhole, Covered, InOrder, Labelled
<1> QED
  BY <1>1, PipelineInvCorrect, PTL

-----------------------------------------------------------------------------
(* From the lines and pages to the chunks                                   *)

\* The chunker works on the texts of the units, once the loader is done, and what
\* is known of its splits is known of these.
TextInv ==
    /\ SplitTypeOK /\ NothingLost /\ ChunksFit /\ OrderInv
    /\ units = IF loadPc = "loaded" THEN UnitTexts(loaded) ELSE <<>>
    /\ loadPc # "loaded" => unit = 1 /\ start = 0 /\ end = 0 /\ chunks = <<>>

LEMMA UnitTextsAre ==
  ASSUME source \in Sources, NEW list \in Seq(Units),
         \A k \in 1 .. Len(list) : list[k].first <= list[k].last
  PROVE  /\ UnitTexts(list) \in Seq(Seq(Characters)) /\ Len(UnitTexts(list)) = Len(list)
         /\ \A k \in 1 .. Len(list) :
               UnitTexts(list)[k] = PartsText(list[k].first, list[k].last)
<1>1. PartCount \in Nat
  BY SourcesAssumption DEF PartCount
<1>2. ASSUME NEW k \in 1 .. Len(list)
      PROVE  PartsText(list[k].first, list[k].last) \in Seq(Characters)
  <2>1. PICK m, n : m = list[k].first /\ n = list[k].last
    OBVIOUS
  <2>2. m \in 1 .. PartCount /\ n \in 1 .. PartCount /\ m <= n
    <3>1. list[k] \in Units
      OBVIOUS
    <3> QED
      BY <2>1, <3>1 DEF Units
  <2>3. m \in 1 .. PartCount + 1 /\ n + 1 - m \in 0 .. PartCount + 1 - m
        /\ m + (n + 1 - m) - 1 = n
    BY <1>1, <2>2
  <2>4. PICK f \in [0 .. PartCount + 1 - m -> Seq(Characters)] :
           \A q \in 0 .. PartCount + 1 - m : PartsText(m, m + q - 1) = f[q]
    BY <2>3, PartsTextGrows
  <2>5. PartsText(m, n) = f[n + 1 - m]
    BY <2>3, <2>4
  <2> QED
    BY <2>1, <2>3, <2>5
<1>3. UnitTexts(list) \in [1 .. Len(list) -> Seq(Characters)]
  BY <1>2 DEF UnitTexts
<1>4. Len(list) \in Nat
  OBVIOUS
<1> QED
  BY <1>3, <1>4, ListOf DEF UnitTexts

LEMMA LoadedRanges ==
  ASSUME LoadInv
  PROVE  /\ loaded \in Seq(Units)
         /\ \A k \in 1 .. Len(loaded) :
               /\ loaded[k].first \in 1 .. PartCount /\ loaded[k].last \in 1 .. PartCount
               /\ loaded[k].first <= loaded[k].last
<1>1. loaded \in Seq(Units)
  BY LoadTyped
<1> SUFFICES ASSUME NEW k \in 1 .. Len(loaded)
             PROVE  /\ loaded[k].first \in 1 .. PartCount /\ loaded[k].last \in 1 .. PartCount
                    /\ loaded[k].first <= loaded[k].last
  BY <1>1
<1>2. loaded[k] \in Units
  BY <1>1
<1>3. PartCount \in Nat
  BY LoadTyped
<1>4. \E i \in loaded[k].first .. loaded[k].last : TRUE
  BY DEF LoadInv, UnitsHaveText
<1> QED
  BY <1>2, <1>3, <1>4 DEF Units

LEMMA TextInvInit == PipelineInit => TextInv
<1> SUFFICES ASSUME PipelineInit PROVE TextInv
  OBVIOUS
<1>1. /\ units = <<>> /\ unit = 1 /\ start = 0 /\ end = 0 /\ chunks = <<>> /\ loadPc = "open"
  BY DEF PipelineInit, LoadInit
<1>2. PICK s \in Settings : size = s.size /\ overlap = s.overlap
  BY DEF PipelineInit
<1>3. s = [size |-> size, overlap |-> overlap]
  BY <1>2, SettingsAssumption
<1>4. SplitTypeOK
  BY <1>1, <1>2, <1>3 DEF SplitTypeOK, Done
<1>5. NothingLost /\ ChunksFit
  BY <1>1 DEF NothingLost, ChunksFit
<1>6. OrderInv
  BY <1>1 DEF OrderInv
<1> QED
  BY <1>1, <1>4, <1>5, <1>6 DEF TextInv

\* What the loader hands over has the right type, and nothing of it is split yet.
LEMMA TextInvLoad ==
  ASSUME PipelineInv, TextInv, Load
  PROVE  TextInv'
<1>1. /\ LoadStep /\ UNCHANGED <<size, overlap, unit, start, end, chunks>>
      /\ units' = IF loadPc' = "loaded" THEN UnitTexts(loaded') ELSE <<>>
  BY DEF Load
<1>2. loadPc # "loaded" /\ source' = source
  BY <1>1 DEF LoadStep, OpenText, HeadingLine, OtherLine, LastSection, OpenPdf, Page,
              PageFails, LastPage
<1>3. LoadInv' /\ source \in Sources
  BY <1>1, LoadInvNext DEF PipelineInv, LoadInv
<1>4. /\ unit' = 1 /\ start' = 0 /\ end' = 0 /\ chunks' = <<>>
      /\ [size |-> size, overlap |-> overlap]' \in Settings
  BY <1>1, <1>2 DEF TextInv, SplitTypeOK
<1>5. units' = (IF loadPc = "loaded" THEN UnitTexts(loaded) ELSE <<>>)'
  BY <1>1, <1>2 DEF UnitTexts, PartsText
<1>6. units' \in Seq(Seq(Characters))
  <2>1. PICK list : list = loaded'
    OBVIOUS
  <2>2. list \in Seq(Units)
    BY <1>2, <1>3, <2>1, SameSource DEF LoadInv, LoadTypeOK, Units
  <2>3. \A k \in 1 .. Len(list) : list[k].first <= list[k].last
    <3> SUFFICES ASSUME NEW k \in 1 .. Len(list) PROVE list[k].first <= list[k].last
      OBVIOUS
    <3>1. list[k] \in Units
      BY <2>2
    <3>2. \E i \in list[k].first .. list[k].last : TRUE
      BY <1>3, <2>1 DEF LoadInv, UnitsHaveText
    <3>3. PartCount \in Nat
      BY <1>3, SourcesAssumption DEF PartCount
    <3> QED
      BY <3>1, <3>2, <3>3 DEF Units
  <2>4. UnitTexts(list) \in Seq(Seq(Characters))
    BY <1>3, <2>2, <2>3, UnitTextsAre
  <2>5. <<>> \in Seq(Seq(Characters))
    OBVIOUS
  <2> QED
    BY <1>1, <2>1, <2>4, <2>5
<1>7. SplitTypeOK'
  <2>1. Len(units') \in Nat
    BY <1>6
  <2>2. unit' \in 1 .. Len(units') + 1
    BY <1>4, <2>1
  <2>3. chunks' \in Seq([unit : Nat, start : Nat, end : Nat])
    BY <1>4
  <2> QED
    BY <1>4, <1>6, <2>2, <2>3 DEF SplitTypeOK
<1>8. NothingLost'
  <2> SUFFICES ASSUME NEW u \in 1 .. Len(units'), NEW i \in 0 .. SplitUpTo(u)' - 1 PROVE FALSE
    BY DEF NothingLost
  <2>1. SplitUpTo(u)' = 0
    BY <1>4, <1>6 DEF SplitUpTo
  <2> QED
    BY <2>1
<1>9. ChunksFit' /\ OrderInv'
  BY <1>4 DEF ChunksFit, OrderInv
<1> QED
  BY <1>1, <1>4, <1>5, <1>7, <1>8, <1>9, <1>2 DEF TextInv

\* A step of the chunker, or one that leaves it alone.
LEMMA TextInvSplit ==
  ASSUME TextInv, [Next]_vars, UNCHANGED loadVars, UNCHANGED units,
         loadPc = "loaded" \/ UNCHANGED vars
  PROVE  TextInv'
<1>1. SplitTypeOK' /\ NothingLost' /\ ChunksFit' /\ OrderInv'
  BY TypeStep, LosslessStep, FittingStep, OrderStep DEF TextInv
<1>2. UNCHANGED <<source, loadPc, loaded>>
  BY DEF loadVars
<1>3. units' = (IF loadPc = "loaded" THEN UnitTexts(loaded) ELSE <<>>)'
  BY <1>2 DEF TextInv, UnitTexts, PartsText
<1>4. (loadPc # "loaded" => unit = 1 /\ start = 0 /\ end = 0 /\ chunks = <<>>)'
  BY <1>2 DEF TextInv, vars
<1> QED
  BY <1>1, <1>3, <1>4 DEF TextInv

LEMMA TextInvPreserved ==
  ASSUME PipelineInv, TextInv, [PipelineNext]_pipelineVars
  PROVE  TextInv'
<1>1. CASE Load
  BY <1>1, TextInvLoad
<1>2. CASE Chunk
  <2>1. Next /\ UNCHANGED loadVars /\ loadPc = "loaded"
    BY <1>2 DEF Chunk, Next
  <2>2. UNCHANGED units
    BY <1>2 DEF Chunk, Cut, LastCut, EmptyUnit, document
  <2> QED
    BY <2>1, <2>2, TextInvSplit
<1>3. CASE Embed \/ UNCHANGED pipelineVars
  <2>1. UNCHANGED vars /\ UNCHANGED loadVars /\ UNCHANGED units
    BY <1>3 DEF Embed, pipelineVars, vars
  <2> QED
    BY <2>1, TextInvSplit
<1> QED
  BY <1>1, <1>2, <1>3 DEF PipelineNext, Step

LEMMA TextInvCorrect == PipelineSpec => [](PipelineInv /\ TextInv)
<1>1. PipelineInv /\ TextInv /\ [PipelineNext]_pipelineVars => (PipelineInv /\ TextInv)'
  BY PipelineInvPreserved, TextInvPreserved
<1> QED
  BY <1>1, PipelineInvInit, TextInvInit, PTL DEF PipelineSpec

\* Of the document a loader hands over, the chunker loses nothing, and its chunks fit,
\* as they do of any document.
THEOREM PipelineLosesNothing == PipelineSpec => []NothingLost
<1>1. PipelineInv /\ TextInv => NothingLost
  BY DEF TextInv
<1> QED
  BY <1>1, TextInvCorrect, PTL

\* The chunks the pipeline embeds lie in their units, stripped and within chunk_size.
THEOREM PipelineChunksFit == PipelineSpec => []ChunksFit
<1>1. PipelineInv /\ TextInv => ChunksFit
  BY DEF TextInv
<1> QED
  BY <1>1, TextInvCorrect, PTL

\* Loading and embedding move no window; those of the chunker end in order.
THEOREM PipelineCutsInOrder == PipelineSpec => EndsInOrder
<1>1. ASSUME PipelineInv, TextInv, [PipelineNext]_pipelineVars
      PROVE  [unit' = unit /\ end' # 0 =>
                IF 2 * overlap <= size THEN end' > end ELSE end' >= end]_vars
  <2> SUFFICES ASSUME PipelineNext, vars' # vars, unit' = unit, end' # 0
               PROVE  IF 2 * overlap <= size THEN end' > end ELSE end' >= end
    BY <1>1 DEF pipelineVars
  <2>1. CASE Load
    <3>1. loadPc # "loaded" /\ end' = end
      BY <2>1 DEF Load, LoadStep, OpenText, HeadingLine, OtherLine, LastSection, OpenPdf,
                  Page, PageFails, LastPage
    <3> QED
      BY <1>1, <3>1 DEF TextInv
  <2>2. CASE Chunk
    BY <1>1, <2>2, CutAfterLast DEF Chunk, Next, TextInv
  <2>3. CASE Embed \/ UNCHANGED pipelineVars
    BY <2>3 DEF Embed, pipelineVars
  <2> QED
    BY <2>1, <2>2, <2>3 DEF PipelineNext, Step
<1> QED
  BY <1>1, TextInvCorrect, PTL DEF PipelineSpec, EndsInOrder

LEMMA ChunkTyped ==
  ASSUME TextInv, NEW c \in 1 .. Len(chunks)
  PROVE  chunks[c] \in [unit : Nat, start : Nat, end : Nat]
<1> DEFINE S == [unit : Nat, start : Nat, end : Nat]
<1>1. chunks \in Seq(S)
  BY DEF TextInv, SplitTypeOK
<1>2. chunks[c] \in S
  <2> HIDE DEF S
  <2> QED
    BY <1>1
<1> QED
  BY <1>2

LEMMA TextIsInChunks ==
  ASSUME PipelineInv, TextInv, loadPc = "loaded", Done
  PROVE  TextReachesChunks
<1>1. LoadInv /\ source \in Sources /\ Covered(PartCount) /\ Labelled
  BY DEF PipelineInv, LoadInv
<1>2. PartCount \in Nat
  BY <1>1, LoadTyped
<1>3. /\ loaded \in Seq(Units)
      /\ \A k \in 1 .. Len(loaded) :
            /\ loaded[k].first \in 1 .. PartCount /\ loaded[k].last \in 1 .. PartCount
            /\ loaded[k].first <= loaded[k].last
  BY <1>1, LoadedRanges
<1>4. /\ Len(units) = Len(loaded)
      /\ \A k \in 1 .. Len(loaded) : units[k] = PartsText(loaded[k].first, loaded[k].last)
  BY <1>1, <1>3, UnitTextsAre DEF TextInv
<1> SUFFICES ASSUME NEW i \in 1 .. PartCount, NEW j \in 1 .. Len(source.parts[i].text),
                    source.parts[i].text[j] \notin Blanks
             PROVE  \E k \in 1 .. Len(loaded), c \in 1 .. Len(chunks) :
                       /\ i \in loaded[k].first .. loaded[k].last /\ chunks[c].unit = k
                       /\ OffsetIn(k, i) + j - 1 \in chunks[c].start .. chunks[c].end - 1
                       /\ RightLabel(i, loaded[k].label)
  BY DEF TextReachesChunks
<1>5. PICK k \in 1 .. Len(loaded) : i \in loaded[k].first .. loaded[k].last
  <2>1. ~BlankPart(i)
    BY TextAssumption DEF BlankPart
  <2> QED
    BY <1>1, <2>1 DEF Covered
<1>6. RightLabel(i, loaded[k].label)
  BY <1>1, <1>5 DEF Labelled
<1>7. PICK m, n : m = loaded[k].first /\ n = loaded[k].last
  OBVIOUS
<1>8. m \in 1 .. PartCount /\ n \in m .. PartCount /\ i \in m .. n
  BY <1>2, <1>3, <1>5, <1>7
<1>9. PICK offset : offset = OffsetIn(k, i)
  OBVIOUS
<1>10. /\ offset \in Nat /\ units[k] \in Seq(Characters)
       /\ offset + j \in 1 .. Len(units[k]) /\ units[k][offset + j] = source.parts[i].text[j]
  <2>1. units[k] = PartsText(m, n)
    BY <1>4, <1>7
  <2>2. offset = Len(PartsText(m, i - 1))
    BY <1>7, <1>9 DEF OffsetIn
  <2>3. /\ PartsText(m, n) \in Seq(Characters)
        /\ Len(PartsText(m, i - 1)) \in Nat
        /\ Len(PartsText(m, i - 1)) + j \in 1 .. Len(PartsText(m, n))
        /\ PartsText(m, n)[Len(PartsText(m, i - 1)) + j] = source.parts[i].text[j]
    BY <1>1, <1>8, PartInUnit
  <2> QED
    BY <2>1, <2>2, <2>3
<1>11. offset + j - 1 \in 0 .. SplitUpTo(k) - 1 /\ (offset + j - 1) + 1 = offset + j
  <2>1. k < unit /\ j \in Nat
    BY <1>4 DEF Done, TextInv, SplitTypeOK
  <2>2. Len(units[k]) \in Nat
    BY <1>10
  <2> QED
    BY <1>10, <2>1, <2>2 DEF SplitUpTo
<1>12. PICK c \in 1 .. Len(chunks) :
          /\ chunks[c].unit = k /\ chunks[c].start <= offset + j - 1
          /\ offset + j - 1 < chunks[c].end
  BY <1>4, <1>10, <1>11 DEF TextInv, NothingLost
<1>13. offset + j - 1 \in chunks[c].start .. chunks[c].end - 1
  <2>1. chunks[c] \in [unit : Nat, start : Nat, end : Nat]
    BY ChunkTyped
  <2> QED
    BY <1>10, <1>12, <2>1
<1> QED
  BY <1>5, <1>6, <1>9, <1>12, <1>13

\* Every character of an accepted document that is not blank is in a chunk, where its
\* line or page puts it, under the heading or page number a citation must show.
THEOREM AllTextIsChunked == PipelineSpec => []TextReachesChunks
<1>1. PipelineInv /\ TextInv => TextReachesChunks
  BY TextIsInChunks DEF TextReachesChunks
<1> QED
  BY <1>1, TextInvCorrect, PTL

\* An accepted document has a chunk, and none of its chunks is blank.
THEOREM AcceptedAreEmbeddable == PipelineSpec => []AcceptedIsEmbeddable
<1>1. ASSUME PipelineInv, TextInv PROVE AcceptedIsEmbeddable
  <2> SUFFICES ASSUME loadPc = "loaded", Done
               PROVE  chunks # <<>> /\ \A c \in 1 .. Len(chunks) : ~BlankChunk(chunks[c])
    BY DEF AcceptedIsEmbeddable
  <2>1. LoadInv /\ loaded # <<>> /\ UnitsHaveText
    BY <1>1 DEF PipelineInv, LoadInv
  <2>2. loaded \in Seq(Units) /\ PartCount \in Nat
    BY <2>1, LoadTyped
  <2>3. 1 \in 1 .. Len(loaded)
    BY <2>1, <2>2
  <2>4. PICK i \in loaded[1].first .. loaded[1].last : ~BlankPart(i)
    BY <2>1, <2>3 DEF UnitsHaveText
  <2>5. i \in 1 .. PartCount
    BY <2>1, <2>2, <2>3, <2>4, LoadedRanges
  <2>6. PICK j \in 1 .. Len(source.parts[i].text) : source.parts[i].text[j] \notin Blanks
    BY <2>4, TextAssumption DEF BlankPart
  <2>7. \E c \in 1 .. Len(chunks) : TRUE
    BY <1>1, <2>5, <2>6, TextIsInChunks DEF TextReachesChunks
  <2>8. chunks # <<>>
    BY <2>7
  <2>9. ASSUME NEW c \in 1 .. Len(chunks) PROVE ~BlankChunk(chunks[c])
    <3>1. /\ chunks[c].start < chunks[c].end
          /\ units[chunks[c].unit][chunks[c].start + 1] \notin Blanks
      BY <1>1 DEF TextInv, ChunksFit
    <3>2. chunks[c] \in [unit : Nat, start : Nat, end : Nat]
      BY <1>1, ChunkTyped
    <3>3. chunks[c].start + 1 \in chunks[c].start + 1 .. chunks[c].end
      BY <3>1, <3>2
    <3> QED
      BY <3>1, <3>3 DEF BlankChunk
  <2> QED
    BY <2>8, <2>9
<1> QED
  BY <1>1, TextInvCorrect, PTL
=============================================================================
