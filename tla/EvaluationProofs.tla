--------------------------- MODULE EvaluationProofs ---------------------------
(***************************************************************************)
(* Proofs about Evaluation, for every dataset, snapshot and number of      *)
(* rebuilds: the two calls of a case tell one story, deleted documents are *)
(* reported absent, and the averages of the report agree with each other.  *)
(***************************************************************************)
EXTENDS Evaluation, ListProofs, FiniteSetTheorems

Metrics == Nat \cup {None}
Retrievals == [hit : Metrics, rank : Metrics, recall : Metrics, absent : Metrics]
Generations == [compliant : Metrics, expectedCited : Metrics, uncited : Metrics,
                absent : Metrics]
Outcomes == {[failed |-> TRUE]}
            \cup [failed : {FALSE}, retrieval : Retrievals, generation : Generations,
                  stable : BOOLEAN, known : SUBSET Names]

\* What AveragesAgree says of all cases, of one.
Agree(m) ==
    \/ m.hit = None /\ m.rank = None /\ m.recall = None
    \/ /\ m.hit \in Nat /\ m.rank \in Nat /\ m.recall \in Nat
       /\ m.rank <= m.hit /\ m.recall <= m.hit /\ m.hit <= Scale
       /\ m.rank = 0 <=> m.hit = 0
       /\ m.recall = 0 <=> m.hit = 0

\* The search has told of these sources: the expected ones were hits, and were
\* forbidden ones reported absent, none is among them.
Told(names) ==
    /\ Case.expected \cap names # {} => retrieval.hit = Scale
    /\ retrieval.absent = Scale => Case.forbidden \cap names = {}

RecordRight(case, r) ==
    \/ r.failed
    \/ /\ Agree(r.retrieval)
       /\ r.retrieval.hit = None <=> case.expected = {}
       /\ r.stable =>
             /\ r.generation.expectedCited = Scale => r.retrieval.hit = Scale
             /\ r.retrieval.absent = Scale => r.generation.absent = Scale
       /\ case.forbidden # {} /\ r.known = {} =>
             r.retrieval.absent = Scale /\ r.generation.absent = Scale

UnderWay == pc \in {"hydrate", "query", "prepare", "generate"}

EvalTypes ==
    /\ version \in Nat
    /\ pc \in {"search", "hydrate", "query", "prepare", "generate"}
    /\ hits \in Seq(Chunks) /\ context \in Seq(Chunks)
    /\ retrieval \in Retrievals
    /\ stable \in BOOLEAN /\ known \in SUBSET Names
    /\ ranked \in {None} \cup [version : Nat, list : Seq(Chunks)]
    /\ records \in Seq(Outcomes)

\* What is known of the case under way.
CaseKnown ==
    /\ current = Len(records) + 1
    /\ pc = "search" => ranked = None
    /\ UnderWay => current <= Len(Cases) /\ Case.forbidden \subseteq known \cup gone
    /\ pc \in {"hydrate", "query"} => ranked # None
    /\ pc = "hydrate" => ranked.list = hits
    /\ pc \in {"query", "prepare", "generate"} =>
          /\ Agree(retrieval)
          /\ retrieval.hit = None <=> Case.expected = {}
          /\ Case.forbidden # {} /\ known = {} => retrieval.absent = Scale
          /\ retrieval.absent = Scale => Case.forbidden # {}

\* Both calls hydrate from one ranking, and the second of them later: what it still
\* has the search has told of.
SearchTold ==
    /\ pc = "query" => Told(SourcesOf(TopOf(ranked.list)) \ gone)
    /\ pc = "prepare" /\ stable => Told(SourcesOf(TopOf(hits)) \ gone)
    /\ pc = "generate" /\ stable => Told(SourcesOf(context))
    /\ pc = "generate" /\ known = {} => Case.forbidden \cap SourcesOf(context) = {}

RecordsRight == \A i \in 1 .. Len(records) : RecordRight(Cases[i], records[i])

\* The cases without error are those both of whose calls were answered.
AnsweredRight == answered = Successful

EvalInv == EvalTypes /\ CaseKnown /\ SearchTold /\ RecordsRight /\ AnsweredRight

-----------------------------------------------------------------------------
(* What a call returns *)

LEMMA RankingsTyped ==
  ASSUME NEW r \in Rankings
  PROVE  r \in Seq(Chunks)
<1> DEFINE found == {c \in Chunks : NameOf[c] \in indexed}
<1>1. Cardinality(found) \in Nat
  <2>1. IsFiniteSet(found)
    BY CasesAssumption, FS_Subset
  <2> HIDE DEF found
  <2> QED
    BY <2>1, FS_CardinalityType
<1>2. r \in [1 .. Cardinality(found) -> found]
  BY DEF Rankings
<1>3. r \in [1 .. Cardinality(found) -> Chunks]
  BY <1>2
<1> HIDE DEF found
<1> QED
  BY <1>1, <1>3, ListOf

LEMMA TopIs ==
  ASSUME NEW list \in Seq(Chunks)
  PROVE  TopOf(list) \in Seq(Chunks) /\ Len(TopOf(list)) \in Nat /\ Len(TopOf(list)) <= K
<1>1. PICK n : n = IF Len(list) < K THEN Len(list) ELSE K
  OBVIOUS
<1>2. Len(list) \in Nat /\ K \in Nat
  BY CasesAssumption
<1>3. n \in Nat /\ n <= K /\ n <= Len(list) /\ n - 1 + 1 = n
  BY <1>1, <1>2
<1>4. \A i \in 1 .. n : list[i] \in Chunks
  BY <1>2, <1>3
<1>5. /\ SubSeq(list, 1, n) \in Seq(Chunks)
      /\ Len(SubSeq(list, 1, n)) = IF 1 <= n THEN n - 1 + 1 ELSE 0
  BY <1>3, <1>4, SubSeqProperties
<1>6. TopOf(list) = SubSeq(list, 1, n)
  BY <1>1 DEF TopOf
<1> QED
  BY <1>3, <1>5, <1>6

\* Of the best K hits, those whose documents are not deleted.
LEMMA VisibleIs ==
  ASSUME NEW list \in Seq(Chunks)
  PROVE  /\ Visible(list) \in Seq(Chunks) /\ Len(Visible(list)) <= K
         /\ SourcesOf(Visible(list)) = SourcesOf(TopOf(list)) \ gone
<1> DEFINE here == {c \in Chunks : NameOf[c] \notin gone}
<1>1. PICK top, visible : top = TopOf(list) /\ visible = Visible(list)
  OBVIOUS
<1>2. top \in Seq(Chunks) /\ Len(top) \in Nat /\ Len(top) <= K /\ K \in Nat
  BY <1>1, TopIs, CasesAssumption
<1>3. visible \in Seq(Chunks) /\ KeptOf(visible, top, here, Len(top))
  <2>1. visible = Kept(top, here)
    BY <1>1 DEF Visible
  <2> HIDE DEF here
  <2> QED
    BY <1>2, <2>1, KeptIs
<1>4. Len(visible) \in Nat /\ Len(visible) <= K
  BY <1>2, <1>3 DEF KeptOf
<1>5. ASSUME NEW name \in SourcesOf(visible) PROVE name \in SourcesOf(top) \ gone
  <2>1. PICK i \in 1 .. Len(visible) : name = NameOf[visible[i]]
    BY DEF SourcesOf
  <2>2. visible[i] \in here /\ \E j \in 1 .. Len(top) : visible[i] = top[j]
    BY <1>3 DEF KeptOf
  <2> QED
    BY <2>1, <2>2 DEF SourcesOf
<1>6. ASSUME NEW name \in SourcesOf(top) \ gone PROVE name \in SourcesOf(visible)
  <2>1. PICK j \in 1 .. Len(top) : name = NameOf[top[j]]
    BY DEF SourcesOf
  <2>2. top[j] \in here
    BY <1>2, <2>1
  <2>3. \E i \in 1 .. Len(visible) : visible[i] = top[j]
    BY <1>3, <2>2 DEF KeptOf
  <2> QED
    BY <2>1, <2>3 DEF SourcesOf
<1> QED
  BY <1>1, <1>3, <1>4, <1>5, <1>6

-----------------------------------------------------------------------------
(* The metrics of one case *)

LEMMA FloatIs ==
  ASSUME NEW condition \in BOOLEAN
  PROVE  /\ Float(condition) \in Nat /\ Float(condition) <= Scale
         /\ Float(condition) = Scale <=> condition
         /\ Float(condition) = 0 <=> ~condition
BY ScaleAssumption DEF Float

LEMMA NoneIsNoNumber == None \notin Nat
BY NoneAssumption

\* forbidden_sources_absent is true of a call when there are forbidden sources and it
\* has none of them.
LEMMA AbsentIs ==
  ASSUME NEW names
  PROVE  /\ Absent(names) \in Metrics
         /\ Absent(names) = Scale <=> Case.forbidden # {} /\ Case.forbidden \cap names = {}
<1>1. PICK condition \in BOOLEAN : condition <=> Case.forbidden \cap names = {}
  OBVIOUS
<1>2. Float(Case.forbidden \cap names = {}) = Float(condition)
  BY <1>1 DEF Float
<1>3. None # Scale
  BY NoneIsNoNumber, ScaleAssumption
<1> QED
  BY <1>1, <1>2, <1>3, FloatIs DEF Absent, Metrics

\* The rank of the first expected hit, 0 when there is none.
LEMMA FirstRankIs ==
  ASSUME NEW list \in Seq(Chunks)
  PROVE  /\ FirstRank(list) = 0 <=> Case.expected \cap SourcesOf(list) = {}
         /\ FirstRank(list) \in 0 .. Len(list)
<1> DEFINE ranks == {i \in 1 .. Len(list) : NameOf[list[i]] \in Case.expected}
<1>1. ranks = {} <=> Case.expected \cap SourcesOf(list) = {}
  BY DEF SourcesOf
<1>2. Len(list) \in Nat /\ ranks \in SUBSET Nat
  OBVIOUS
<1>3. FirstRank(list) = IF ranks = {} THEN 0 ELSE CHOOSE i \in ranks : \A j \in ranks : i <= j
  BY DEF FirstRank
<1>4. CASE ranks = {}
  BY <1>1, <1>2, <1>3, <1>4
<1>5. CASE ranks # {}
  <2>1. \E i \in ranks : \A j \in ranks : i <= j
    <3> HIDE DEF ranks
    <3> QED
      BY <1>2, <1>5, Least
  <2>2. FirstRank(list) \in ranks
    <3> HIDE DEF ranks
    <3> QED
      BY <1>3, <1>5, <2>1
  <2> QED
    BY <1>1, <1>2, <1>5, <2>2
<1> QED
  BY <1>4, <1>5

\* Dividing what is divisible by a positive number.
LEMMA Divided ==
  ASSUME NEW n \in Nat \ {0}, Scale % n = 0, NEW f \in 0 .. n
  PROVE  /\ (Scale * f) \div n \in Nat /\ (Scale * f) \div n <= Scale
         /\ (Scale * f) \div n = 0 <=> f = 0
<1>1. PICK q : q = Scale \div n
  OBVIOUS
<1>2. q \in Nat /\ Scale = n * q /\ Scale \in Nat \ {0}
  BY <1>1, ScaleAssumption
<1>3. q # 0
  BY <1>2
<1>4. Scale * f = n * (q * f) /\ q * f \in Nat
  BY <1>2
<1>5. \A k \in Nat : (n * k) \div n = k
  OBVIOUS
<1>6. (Scale * f) \div n = q * f
  BY <1>4, <1>5
<1>7. q * f <= n * q
  <2>1. f <= n /\ f \in Nat
    OBVIOUS
  <2> QED
    BY <1>2, <2>1
<1>8. q * f = 0 <=> f = 0
  BY <1>2, <1>3
<1> QED
  BY <1>2, <1>4, <1>6, <1>7, <1>8

LEMMA ExpectedIsFinite ==
  ASSUME current \in 1 .. Len(Cases)
  PROVE  IsFiniteSet(Case.expected)
<1>1. IsFiniteSet(Names)
  <2> DEFINE f == [c \in Chunks |-> NameOf[c]]
  <2>1. f \in Surjection(Chunks, Names)
    BY DEF Names, Surjection
  <2> HIDE DEF f
  <2> QED
    BY <2>1, CasesAssumption, FS_Surjection
<1>2. Case.expected \subseteq Names
  BY CasesAssumption DEF Case
<1> QED
  BY <1>1, <1>2, FS_Subset

\* The metrics of a search agree with each other, and tell of every source it returned.
LEMMA MetricsAre ==
  ASSUME current \in 1 .. Len(Cases), NEW list \in Seq(Chunks), Len(list) <= K,
         NEW m, m = RetrievalMetrics(list)
  PROVE  /\ m \in Retrievals /\ Agree(m)
         /\ m.hit = None <=> Case.expected = {}
         /\ Case.expected \cap SourcesOf(list) # {} => m.hit = Scale
         /\ m.absent = Absent(SourcesOf(list))
<1>1. CASE Case.expected = {}
  <2>1. m = [NoRetrieval EXCEPT !.absent = Absent(SourcesOf(list))]
    BY <1>1 DEF RetrievalMetrics
  <2> QED
    BY <1>1, <2>1, AbsentIs DEF NoRetrieval, Retrievals, Metrics, Agree
<1>2. CASE Case.expected # {}
  <2>1. PICK first : first = FirstRank(list)
    OBVIOUS
  <2>2. m = [hit |-> Float(first # 0),
             rank |-> IF first = 0 THEN 0 ELSE Scale \div first,
             recall |-> (Scale * Found(list)) \div Cardinality(Case.expected),
             absent |-> Absent(SourcesOf(list))]
    BY <1>2, <2>1 DEF RetrievalMetrics
  <2>3. /\ first = 0 <=> Case.expected \cap SourcesOf(list) = {}
        /\ first \in 0 .. Len(list)
    BY <2>1, FirstRankIs
  <2>4. /\ m.hit \in Nat /\ m.hit <= Scale /\ (m.hit = 0 <=> first = 0)
        /\ first # 0 => m.hit = Scale
    <3>1. PICK condition \in BOOLEAN : condition <=> first # 0
      OBVIOUS
    <3>2. m.hit = Float(condition)
      BY <2>2, <3>1 DEF Float
    <3> QED
      BY <3>1, <3>2, FloatIs
  <2>5. m.rank \in Nat /\ m.rank <= Scale /\ (m.rank = 0 <=> first = 0)
    <3>1. CASE first = 0
      BY <2>2, <3>1, ScaleAssumption
    <3>2. CASE first # 0
      <4>1. first \in Nat \ {0} /\ first \in 1 .. K /\ 1 \in 0 .. first /\ Len(list) \in Nat
        BY <2>3, <3>2, CasesAssumption
      <4>2. /\ (Scale * 1) \div first \in Nat /\ (Scale * 1) \div first <= Scale
            /\ (Scale * 1) \div first # 0
        BY <4>1, ScaleAssumption, Divided
      <4>3. Scale * 1 = Scale
        BY ScaleAssumption
      <4> QED
        BY <2>2, <3>2, <4>2, <4>3
    <3> QED
      BY <3>1, <3>2
  <2>6. m.recall \in Nat /\ m.recall <= Scale /\ (m.recall = 0 <=> first = 0)
    <3>1. PICK E, S, n, f : /\ E = Case.expected /\ S = SourcesOf(list)
                            /\ n = Cardinality(E) /\ f = Cardinality(E \cap S)
      OBVIOUS
    <3>2. IsFiniteSet(E) /\ E # {}
      BY <1>2, <3>1, ExpectedIsFinite
    <3>3. /\ n \in Nat /\ n # 0 /\ IsFiniteSet(E \cap S) /\ f <= n
      BY <3>1, <3>2, FS_CardinalityType, FS_EmptySet, FS_Intersection
    <3>4. f \in Nat /\ (f = 0 <=> E \cap S = {})
      BY <3>1, <3>3, FS_CardinalityType, FS_EmptySet
    <3>5. Scale % n = 0
      BY <1>2, <3>1, ScaleAssumption DEF Case
    <3>6. m.recall = (Scale * f) \div n
      BY <2>2, <3>1 DEF Found
    <3>7. n \in Nat \ {0} /\ f \in 0 .. n
      BY <3>3, <3>4
    <3>8. /\ (Scale * f) \div n \in Nat /\ (Scale * f) \div n <= Scale
          /\ (Scale * f) \div n = 0 <=> f = 0
      BY <3>5, <3>7, Divided
    <3> QED
      BY <2>3, <3>1, <3>4, <3>6, <3>8
  <2>7. m.absent = Absent(SourcesOf(list)) /\ m.absent \in Metrics
    BY <2>2, AbsentIs
  <2>8. m \in Retrievals
    BY <2>2, <2>4, <2>5, <2>6, <2>7 DEF Retrievals, Metrics
  <2>9. Agree(m)
    <3>1. CASE first = 0
      BY <2>4, <2>5, <2>6, <3>1, ScaleAssumption DEF Agree
    <3>2. CASE first # 0
      BY <2>4, <2>5, <2>6, <3>2, ScaleAssumption DEF Agree
    <3> QED
      BY <3>1, <3>2
  <2> QED
    BY <1>2, <2>3, <2>4, <2>7, <2>8, <2>9, NoneIsNoNumber
<1> QED
  BY <1>1, <1>2

\* What is cited is a source of the context.
LEMMA GenerationIs ==
  ASSUME NEW labels, NEW g, g = GenerationMetrics(labels)
  PROVE  /\ g \in Generations
         /\ g.expectedCited = Scale => Case.expected \cap SourcesOf(context) # {}
         /\ Case.forbidden # {} /\ Case.forbidden \cap SourcesOf(context) = {} => g.absent = Scale
<1>1. CitedSources(labels) \subseteq SourcesOf(context)
  BY DEF CitedSources, Cited, SourcesOf
<1>2. ASSUME NEW condition \in BOOLEAN PROVE Float(condition) \in Metrics
  BY FloatIs DEF Metrics
<1>3. None \in Metrics /\ None # Scale
  BY NoneIsNoNumber, ScaleAssumption DEF Metrics
<1>4. /\ g.absent \in Metrics
      /\ Case.forbidden # {} /\ Case.forbidden \cap SourcesOf(context) = {} =>
            g.absent = Scale
  <2>1. g.absent = Absent(CitedSources(labels))
    BY DEF GenerationMetrics
  <2> QED
    BY <1>1, <2>1, AbsentIs
<1>5. /\ g.expectedCited \in Metrics
      /\ g.expectedCited = Scale => Case.expected \cap SourcesOf(context) # {}
  <2>1. PICK condition \in BOOLEAN : condition <=> Case.expected \cap CitedSources(labels) # {}
    OBVIOUS
  <2>2. g.expectedCited = IF Case.expected = {} THEN None ELSE Float(condition)
    BY <2>1 DEF GenerationMetrics, Float
  <2> QED
    BY <1>1, <1>2, <1>3, <2>1, <2>2, FloatIs
<1>6. g.compliant \in Metrics /\ g.uncited \in Metrics
  <2>1. /\ g.compliant \in {None, Float(TRUE), Float(FALSE)}
        /\ g.uncited \in {None, Float(TRUE), Float(FALSE)}
    BY DEF GenerationMetrics, Float
  <2> QED
    BY <1>2, <1>3, <2>1
<1> QED
  BY <1>4, <1>5, <1>6 DEF GenerationMetrics, Generations

-----------------------------------------------------------------------------
(* The invariant *)

LEMMA EvalInvInit == Init => EvalInv
<1> SUFFICES ASSUME Init PROVE EvalInv
  OBVIOUS
<1>1. /\ version \in {0, 1} /\ current = 1 /\ pc = "search" /\ known = {} /\ ranked = None
      /\ stable = TRUE /\ hits = <<>> /\ retrieval = NoRetrieval /\ context = <<>>
      /\ records = <<>> /\ answered = {}
  BY DEF Init
<1>2. EvalTypes
  BY <1>1 DEF EvalTypes, NoRetrieval, Retrievals, Metrics
<1>3. CaseKnown
  BY <1>1 DEF CaseKnown, UnderWay
<1>4. SearchTold /\ RecordsRight /\ AnsweredRight
  BY <1>1 DEF SearchTold, RecordsRight, AnsweredRight, Successful
<1> QED
  BY <1>2, <1>3, <1>4 DEF EvalInv

\* A case under way is one of the dataset.
LEMMA CaseInDataset ==
  ASSUME EvalInv, UnderWay \/ current <= Len(Cases)
  PROVE  current \in 1 .. Len(Cases)
BY CasesAssumption DEF EvalInv, EvalTypes, CaseKnown

\* What the search told of some sources it told of fewer.
LEMMA ToldOfFewer ==
  ASSUME NEW names, NEW fewer, fewer \subseteq names, Told(names)
  PROVE  Told(fewer)
BY DEF Told

\* A ranking the API returns is a list of chunks, and that of the search when the
\* snapshot is still the same.
LEMMA RankingIs ==
  ASSUME EvalInv, NEW r \in Rankings \cup (IF ranked = None THEN {} ELSE {ranked.list})
  PROVE  r \in Seq(Chunks)
<1>1. CASE r \in Rankings
  BY <1>1, RankingsTyped
<1>2. CASE ranked # None /\ r = ranked.list
  BY <1>2 DEF EvalInv, EvalTypes
<1> QED
  BY <1>1, <1>2

\* Deletions and rebuilds: what is still there the search has told of all the more.
LEMMA ApiKeeps ==
  ASSUME EvalInv, gone \subseteq gone', version' \in Nat,
         UNCHANGED <<current, pc, known, ranked, stable, hits, retrieval, context,
                     answered, records>>
  PROVE  EvalInv'
<1>1. EvalTypes'
  BY DEF EvalInv, EvalTypes
<1>2. CaseKnown'
  <2>1. Case' = Case
    BY DEF Case
  <2> QED
    BY <2>1 DEF EvalInv, CaseKnown, UnderWay, Agree
<1>3. \A names : Told(names)' = Told(names)
  BY DEF Told, Case
<1>4. \A list : SourcesOf(list)' = SourcesOf(list) /\ TopOf(list)' = TopOf(list)
  BY DEF SourcesOf, TopOf
<1>5. SearchTold'
  <2>1. ASSUME pc = "query" PROVE Told(SourcesOf(TopOf(ranked.list)) \ gone')
    BY <2>1, ToldOfFewer DEF EvalInv, SearchTold
  <2>2. ASSUME pc = "prepare", stable PROVE Told(SourcesOf(TopOf(hits)) \ gone')
    BY <2>2, ToldOfFewer DEF EvalInv, SearchTold
  <2>3. /\ pc = "generate" /\ stable => Told(SourcesOf(context))
        /\ pc = "generate" /\ known = {} => Case.forbidden \cap SourcesOf(context) = {}
    BY DEF EvalInv, SearchTold
  <2> QED
    BY <1>3, <1>4, <2>1, <2>2, <2>3 DEF SearchTold, Case
<1>6. RecordsRight'
  BY DEF EvalInv, RecordsRight, RecordRight, Agree
<1>7. AnsweredRight'
  BY DEF EvalInv, AnsweredRight, Successful
<1> QED
  BY <1>1, <1>2, <1>5, <1>6, <1>7 DEF EvalInv

\* The search finds a ranking.
LEMMA SearchMatchKeeps ==
  ASSUME EvalInv, SearchMatch
  PROVE  EvalInv'
<1>1. /\ pc = "search" /\ current <= Len(Cases) /\ pc' = "hydrate" /\ known' = Case.forbidden \ gone
      /\ UNCHANGED <<apiVars, current, retrieval, context, answered, records>>
  BY DEF SearchMatch, Searching, Match
<1>2. PICK r \in Rankings \cup (IF ranked = None THEN {} ELSE {ranked.list}) :
         /\ hits' = r /\ ranked' = [version |-> version, list |-> r]
         /\ stable' = (ranked = None \/ ranked.version = version)
  BY DEF SearchMatch, Match
<1>3. r \in Seq(Chunks) /\ version \in Nat
  BY RankingIs DEF EvalInv, EvalTypes
<1>4. current \in 1 .. Len(Cases)
  BY <1>1, CaseInDataset
<1>5. known' \in SUBSET Names /\ Case.forbidden \subseteq known' \cup gone
  BY <1>1, <1>4, CasesAssumption DEF Case
<1>6. ranked' \in [version : Nat, list : Seq(Chunks)] /\ ranked' # None /\ ranked'.list = hits'
  BY <1>2, <1>3, NoneAssumption
<1>7. EvalTypes'
  BY <1>1, <1>2, <1>3, <1>5, <1>6 DEF EvalInv, EvalTypes, apiVars
<1>8. CaseKnown'
  <2>1. Case' = Case /\ gone' = gone
    BY <1>1 DEF Case, apiVars
  <2> QED
    BY <1>1, <1>5, <1>6, <2>1 DEF EvalInv, CaseKnown, UnderWay
<1>9. SearchTold' /\ RecordsRight'
  BY <1>1 DEF EvalInv, SearchTold, RecordsRight, RecordRight, Agree
<1>10. AnsweredRight'
  BY <1>1 DEF EvalInv, AnsweredRight, Successful
<1> QED
  BY <1>7, <1>8, <1>9, <1>10 DEF EvalInv

\* The metrics of the search are those of what it still has.
LEMMA SearchHydrateKeeps ==
  ASSUME EvalInv, SearchHydrate
  PROVE  EvalInv'
<1>1. /\ pc = "hydrate" /\ pc' = "query"
      /\ hits' = <<>> /\ retrieval' = RetrievalMetrics(Visible(hits))
      /\ UNCHANGED <<apiVars, current, known, ranked, stable, context, answered, records>>
  BY DEF SearchHydrate
<1>2. PICK list, m : list = Visible(hits) /\ m = retrieval'
  OBVIOUS
<1>3. current \in 1 .. Len(Cases)
  BY <1>1, CaseInDataset DEF UnderWay
<1>4. /\ list \in Seq(Chunks) /\ Len(list) <= K
      /\ SourcesOf(list) = SourcesOf(TopOf(hits)) \ gone
  BY <1>2, VisibleIs DEF EvalInv, EvalTypes
<1>5. /\ m \in Retrievals /\ Agree(m)
      /\ m.hit = None <=> Case.expected = {}
      /\ Case.expected \cap SourcesOf(list) # {} => m.hit = Scale
      /\ m.absent = Absent(SourcesOf(list))
  BY <1>1, <1>2, <1>3, <1>4, MetricsAre
<1>6. m.absent = Scale <=> Case.forbidden # {} /\ Case.forbidden \cap SourcesOf(list) = {}
  BY <1>5, AbsentIs
<1>7. EvalTypes'
  BY <1>1, <1>2, <1>5 DEF EvalInv, EvalTypes, apiVars
<1>8. ranked # None /\ ranked.list = hits /\ Case.forbidden \subseteq known \cup gone
  BY <1>1 DEF EvalInv, CaseKnown, UnderWay
<1>9. Case' = Case /\ gone' = gone
  BY <1>1 DEF Case, apiVars
<1>10. /\ Case.forbidden # {} /\ known = {} => m.absent = Scale
       /\ m.absent = Scale => Case.forbidden # {}
  BY <1>4, <1>6, <1>8
<1>11. Agree(retrieval)' /\ (retrieval.hit = None <=> Case.expected = {})'
  <2>1. Agree(retrieval)'
    BY <1>2, <1>5 DEF Agree
  <2> QED
    BY <1>2, <1>5, <1>9, <2>1
<1>12. CaseKnown'
  BY <1>1, <1>2, <1>3, <1>8, <1>9, <1>10, <1>11 DEF EvalInv, CaseKnown, UnderWay
<1>13. SearchTold'
  <2>1. Told(SourcesOf(TopOf(ranked.list)) \ gone)'
    <3>1. (SourcesOf(TopOf(ranked.list)) \ gone)' = SourcesOf(list)
      BY <1>1, <1>4, <1>8, <1>9 DEF SourcesOf, TopOf
    <3> QED
      BY <1>2, <1>5, <1>6, <1>9, <3>1 DEF Told
  <2> QED
    BY <1>1, <2>1 DEF SearchTold
<1>14. RecordsRight'
  BY <1>1 DEF EvalInv, RecordsRight, RecordRight, Agree
<1>15. AnsweredRight'
  BY <1>1 DEF EvalInv, AnsweredRight, Successful
<1> QED
  BY <1>7, <1>12, <1>13, <1>14, <1>15 DEF EvalInv

\* The query, in the same snapshot, finds the ranking of the search.
LEMMA QueryMatchKeeps ==
  ASSUME EvalInv, QueryMatch
  PROVE  EvalInv'
<1>1. /\ pc = "query" /\ pc' = "prepare" /\ ranked' = None
      /\ UNCHANGED <<apiVars, current, known, retrieval, context, answered, records>>
  BY DEF QueryMatch, Match
<1>2. PICK r \in Rankings \cup (IF ranked = None THEN {} ELSE {ranked.list}) :
         /\ IsRanking(r) /\ hits' = r
         /\ stable' = (ranked = None \/ ranked.version = version)
  BY DEF QueryMatch, Match
<1>3. r \in Seq(Chunks)
  BY RankingIs
<1>4. ranked # None
  BY <1>1 DEF EvalInv, CaseKnown
<1>5. stable' => r = ranked.list
  BY <1>2, <1>4 DEF IsRanking
<1>6. EvalTypes'
  BY <1>1, <1>2, <1>3 DEF EvalInv, EvalTypes, apiVars
<1>7. Case' = Case /\ gone' = gone
  BY <1>1 DEF Case, apiVars
<1>8. CaseKnown'
  BY <1>1, <1>7 DEF EvalInv, CaseKnown, UnderWay, Agree
<1>9. SearchTold'
  <2> SUFFICES ASSUME stable' PROVE Told(SourcesOf(TopOf(hits)) \ gone)'
    BY <1>1 DEF SearchTold
  <2>1. Told(SourcesOf(TopOf(ranked.list)) \ gone)
    BY <1>1 DEF EvalInv, SearchTold
  <2>2. (SourcesOf(TopOf(hits)) \ gone)' = SourcesOf(TopOf(ranked.list)) \ gone
    BY <1>2, <1>5, <1>7 DEF SourcesOf, TopOf
  <2> QED
    BY <1>1, <1>7, <2>1, <2>2 DEF Told
<1>10. RecordsRight'
  BY <1>1 DEF EvalInv, RecordsRight, RecordRight, Agree
<1>11. AnsweredRight'
  BY <1>1 DEF EvalInv, AnsweredRight, Successful
<1> QED
  BY <1>6, <1>8, <1>9, <1>10, <1>11 DEF EvalInv

\* The context has sources that the query still has.
LEMMA QueryPrepareKeeps ==
  ASSUME EvalInv, QueryPrepare
  PROVE  EvalInv'
<1>1. /\ pc = "prepare" /\ pc' = "generate" /\ hits' = <<>>
      /\ UNCHANGED <<apiVars, current, known, ranked, stable, retrieval, answered, records>>
  BY DEF QueryPrepare
<1>2. PICK list : list = Visible(hits)
  OBVIOUS
<1>3. PICK n \in 0 .. MaxContext : n <= Len(list) /\ context' = SubSeq(list, 1, n)
  BY <1>2 DEF QueryPrepare
<1>4. list \in Seq(Chunks) /\ SourcesOf(list) = SourcesOf(TopOf(hits)) \ gone
  BY <1>2, VisibleIs DEF EvalInv, EvalTypes
<1>5. /\ context' \in Seq(Chunks) /\ Len(context') = n
      /\ \A i \in 1 .. n : context'[i] = list[i]
  <2>1. n \in Nat /\ 1 \in Int /\ n - 1 + 1 = n /\ Len(list) \in Nat
    BY <1>3, <1>4, CasesAssumption
  <2>2. \A i \in 1 .. n : list[i] \in Chunks /\ 1 + i - 1 = i
    BY <1>3, <1>4, <2>1
  <2>3. /\ SubSeq(list, 1, n) \in Seq(Chunks)
        /\ Len(SubSeq(list, 1, n)) = IF 1 <= n THEN n - 1 + 1 ELSE 0
        /\ \A i \in 1 .. n - 1 + 1 : SubSeq(list, 1, n)[i] = list[1 + i - 1]
    BY <2>1, <2>2, SubSeqProperties
  <2> QED
    BY <1>3, <2>1, <2>2, <2>3
<1>6. PICK c : c = context'
  OBVIOUS
<1>7. SourcesOf(c) \subseteq SourcesOf(TopOf(hits)) \ gone
  <2>1. \A i \in 1 .. n : i \in 1 .. Len(list)
    BY <1>3, <1>4
  <2> QED
    BY <1>4, <1>5, <1>6, <2>1 DEF SourcesOf
<1>8. EvalTypes'
  BY <1>1, <1>5 DEF EvalInv, EvalTypes, apiVars
<1>9. Case' = Case /\ gone' = gone /\ \A names : SourcesOf(names)' = SourcesOf(names)
  BY <1>1 DEF Case, apiVars, SourcesOf
<1>10. CaseKnown'
  BY <1>1, <1>9 DEF EvalInv, CaseKnown, UnderWay, Agree
<1>11. SearchTold'
  <2>1. SourcesOf(context)' = SourcesOf(c)
    BY <1>6 DEF SourcesOf
  <2>2. stable => Told(SourcesOf(c))
    BY <1>1, <1>7, ToldOfFewer DEF EvalInv, SearchTold
  <2>3. known = {} => Case.forbidden \cap SourcesOf(c) = {}
    BY <1>1, <1>7 DEF EvalInv, CaseKnown, UnderWay
  <2> QED
    BY <1>1, <1>9, <2>1, <2>2, <2>3 DEF SearchTold, Told
<1>12. RecordsRight'
  BY <1>1 DEF EvalInv, RecordsRight, RecordRight, Agree
<1>13. AnsweredRight'
  BY <1>1 DEF EvalInv, AnsweredRight, Successful
<1> QED
  BY <1>8, <1>10, <1>11, <1>12, <1>13 DEF EvalInv

\* A right record joins the others.
LEMMA RecordKeeps ==
  ASSUME EvalInv, current \in 1 .. Len(Cases), NEW r \in Outcomes, RecordRight(Case, r),
         AddRecord(r), answered' = IF r.failed THEN answered ELSE answered \cup {current}
  PROVE  EvalInv'
<1>1. /\ records' = Append(records, r) /\ current' = current + 1 /\ pc' = "search"
      /\ hits' = <<>> /\ retrieval' = NoRetrieval /\ context' = <<>> /\ ranked' = None
      /\ known' = {} /\ stable' = TRUE /\ version' = version
  BY DEF AddRecord, apiVars
<1>2. records \in Seq(Outcomes) /\ current = Len(records) + 1 /\ Len(records) \in Nat
  BY DEF EvalInv, EvalTypes, CaseKnown
<1>3. /\ records' \in Seq(Outcomes) /\ Len(records') = current
      /\ records'[current] = r /\ \A i \in 1 .. Len(records) : records'[i] = records[i]
  BY <1>1, <1>2, AppendProperties
<1>4. EvalTypes'
  BY <1>1, <1>3 DEF EvalInv, EvalTypes, NoRetrieval, Retrievals, Metrics
<1>5. CaseKnown'
  BY <1>1, <1>3 DEF CaseKnown, UnderWay
<1>6. SearchTold'
  BY <1>1 DEF SearchTold
<1>7. ASSUME NEW i \in 1 .. Len(records') PROVE RecordRight(Cases[i], records'[i])
  <2>1. CASE i = current
    BY <1>3, <2>1 DEF Case
  <2>2. CASE i # current
    <3>1. i \in 1 .. Len(records)
      BY <1>2, <1>3, <2>2
    <3> QED
      BY <1>3, <3>1 DEF EvalInv, RecordsRight
  <2> QED
    BY <2>1, <2>2
<1>8. RecordsRight'
  BY <1>7 DEF RecordsRight, RecordRight, Agree
<1>9. AnsweredRight'
  <2>1. answered = {i \in 1 .. Len(records) : ~records[i].failed}
    BY DEF EvalInv, AnsweredRight, Successful
  <2>2. \A i : i \in 1 .. Len(records') <=> i \in 1 .. Len(records) \/ i = current
    BY <1>2, <1>3
  <2>3. r.failed \in BOOLEAN
    <3>1. CASE r = [failed |-> TRUE]
      BY <3>1
    <3>2. CASE r \in [failed : {FALSE}, retrieval : Retrievals, generation : Generations,
                      stable : BOOLEAN, known : SUBSET Names]
      BY <3>2
    <3> QED
      BY <3>1, <3>2 DEF Outcomes
  <2>6. current \notin 1 .. Len(records)
    BY <1>2
  <2>4. ASSUME NEW i \in 1 .. Len(records') PROVE i \in answered' <=> ~records'[i].failed
    <3>1. CASE i = current
      <4>1. current \notin answered
        BY <2>1, <2>6
      <4>2. records'[i] = r
        BY <1>3, <3>1
      <4> QED
        BY <2>3, <3>1, <4>1, <4>2
    <3>2. CASE i # current
      <4>1. i \in 1 .. Len(records) /\ records'[i] = records[i]
        BY <1>3, <2>2, <3>2
      <4> QED
        BY <2>1, <3>2, <4>1
    <3> QED
      BY <3>1, <3>2
  <2>5. answered' \subseteq 1 .. Len(records')
    BY <2>1, <2>2
  <2> QED
    BY <2>4, <2>5 DEF AnsweredRight, Successful
<1> QED
  BY <1>4, <1>5, <1>6, <1>8, <1>9 DEF EvalInv

LEMMA QueryAnswerKeeps ==
  ASSUME EvalInv, QueryAnswer
  PROVE  EvalInv'
<1>1. pc = "generate"
  BY DEF QueryAnswer
<1>2. PICK labels \in SUBSET (0 .. MaxContext + 1) :
         /\ AddRecord([failed |-> FALSE, retrieval |-> retrieval,
                       generation |-> GenerationMetrics(labels), stable |-> stable,
                       known |-> known])
         /\ answered' = answered \cup {current}
  BY DEF QueryAnswer
<1>3. PICK g : g = GenerationMetrics(labels)
  OBVIOUS
<1>4. PICK r : r = [failed |-> FALSE, retrieval |-> retrieval, generation |-> g,
                    stable |-> stable, known |-> known]
  OBVIOUS
<1>5. /\ g \in Generations
      /\ g.expectedCited = Scale => Case.expected \cap SourcesOf(context) # {}
      /\ Case.forbidden # {} /\ Case.forbidden \cap SourcesOf(context) = {} => g.absent = Scale
  BY <1>3, GenerationIs
<1>6. current \in 1 .. Len(Cases)
  BY <1>1, CaseInDataset DEF UnderWay
<1>7. r \in Outcomes
  BY <1>4, <1>5 DEF EvalInv, EvalTypes, Outcomes
<1>8. /\ Agree(retrieval)
      /\ retrieval.hit = None <=> Case.expected = {}
      /\ stable => Told(SourcesOf(context))
      /\ retrieval.absent = Scale => Case.forbidden # {}
      /\ Case.forbidden # {} /\ known = {} => retrieval.absent = Scale
      /\ known = {} => Case.forbidden \cap SourcesOf(context) = {}
  BY <1>1 DEF EvalInv, CaseKnown, SearchTold
<1>9. RecordRight(Case, r)
  BY <1>4, <1>5, <1>8 DEF RecordRight, Told
<1> QED
  BY <1>2, <1>3, <1>4, <1>6, <1>7, <1>9, RecordKeeps

\* A case that fails leaves no metrics.
LEMMA CaseFailsKeeps ==
  ASSUME EvalInv, CaseFails
  PROVE  EvalInv'
<1>1. PICK r : r = [failed |-> TRUE]
  OBVIOUS
<1>2. AddRecord(r) /\ answered' = answered
  BY <1>1 DEF CaseFails
<1>3. r \in Outcomes /\ RecordRight(Case, r)
  BY <1>1 DEF Outcomes, RecordRight
<1>4. UnderWay \/ current <= Len(Cases)
  BY DEF CaseFails, Searching, UnderWay
<1>5. current \in 1 .. Len(Cases)
  BY <1>4, CaseInDataset
<1> QED
  BY <1>1, <1>2, <1>3, <1>5, RecordKeeps

LEMMA EvalInvPreserved == EvalInv /\ [Next]_vars => EvalInv'
<1> SUFFICES ASSUME EvalInv, [Next]_vars PROVE EvalInv'
  OBVIOUS
<1>1. version \in Nat
  BY DEF EvalInv, EvalTypes
<1>2. CASE Evaluate
  BY <1>2, SearchMatchKeeps, SearchHydrateKeeps, QueryMatchKeeps, QueryPrepareKeeps,
     QueryAnswerKeeps, CaseFailsKeeps DEF Evaluate
<1>3. ASSUME NEW name \in Names, DeleteDocument(name) PROVE EvalInv'
  <2>1. gone \subseteq gone' /\ version' \in Nat
    BY <1>1, <1>3 DEF DeleteDocument
  <2> QED
    BY <1>3, <2>1, ApiKeeps DEF DeleteDocument
<1>4. CASE Rebuild
  <2>1. gone \subseteq gone' /\ version' \in Nat
    BY <1>1, <1>4 DEF Rebuild
  <2> QED
    BY <1>4, <2>1, ApiKeeps DEF Rebuild
<1>5. CASE UNCHANGED vars
  <2>1. gone \subseteq gone' /\ version' \in Nat
    BY <1>1, <1>5 DEF vars, apiVars
  <2> QED
    BY <1>5, <2>1, ApiKeeps DEF vars
<1> QED
  BY <1>2, <1>3, <1>4, <1>5 DEF Next, Finished

LEMMA EvalInvCorrect == Spec => []EvalInv
BY EvalInvInit, EvalInvPreserved, PTL DEF Spec

-----------------------------------------------------------------------------
(* Deletions, and the two calls of a case *)

\* The forbidden documents that were deleted when their case began are reported absent
\* from the search and from the citations, however old the snapshot is: the hydration
\* of both calls skips what PostgreSQL no longer has.
THEOREM DeletedAreReportedAbsent == Spec => []DeletedAreExcluded
<1>1. EvalInv => DeletedAreExcluded
  BY DEF EvalInv, RecordsRight, RecordRight, DeletedAreExcluded, Successful
<1> QED
  BY <1>1, EvalInvCorrect, PTL

\* Of a case without a rebuild between its calls, whatever is cited the search had
\* found: both cut one ranking to the same K, and deletions only take away.
THEOREM CitedAreRetrieved == Spec => []CitedWasRetrieved
<1>1. EvalInv => CitedWasRetrieved
  BY DEF EvalInv, RecordsRight, RecordRight, CitedWasRetrieved, Successful
<1> QED
  BY <1>1, EvalInvCorrect, PTL

-----------------------------------------------------------------------------
(* The averages *)

\* The cases that an average counts, and what it adds up.
CountedIn(metric) == {i \in Successful : records[i].retrieval[metric] # None}
ValuesOf(metric) ==
    [i \in 1 .. Len(records) |->
        IF i \in CountedIn(metric) THEN records[i].retrieval[metric] ELSE 0]

LEMMA AverageIs ==
  ASSUME EvalInv, NEW metric \in {"hit", "rank", "recall"}
  PROVE  /\ CountedIn(metric) = CountedIn("hit")
         /\ Average("retrieval", metric) =
               IF CountedIn("hit") = {} THEN None
               ELSE [sum |-> Total(ValuesOf(metric)), count |-> Cardinality(CountedIn("hit"))]
<1>1. ASSUME NEW i \in Successful
      PROVE  records[i].retrieval.hit = None <=> records[i].retrieval[metric] = None
  <2>1. Agree(records[i].retrieval)
    BY DEF EvalInv, RecordsRight, RecordRight, Successful
  <2> QED
    BY <2>1, NoneIsNoNumber DEF Agree
<1>2. CountedIn(metric) = CountedIn("hit")
  BY <1>1 DEF CountedIn
<1> QED
  BY <1>2 DEF Average, CountedIn, ValuesOf

\* What is counted are the cases with expected sources that were answered.
LEMMA CountedAre ==
  ASSUME EvalInv
  PROVE  CountedIn("hit") = {i \in answered : Cases[i].expected # {}}
<1>1. \A i \in Successful : records[i].retrieval.hit = None <=> Cases[i].expected = {}
  BY DEF EvalInv, RecordsRight, RecordRight, Successful
<1> QED
  BY <1>1 DEF EvalInv, AnsweredRight, CountedIn

\* What is counted of a case, metric by metric.
LEMMA ValuesAre ==
  ASSUME EvalInv
  PROVE  /\ \A metric \in {"hit", "rank", "recall"} :
               ValuesOf(metric) \in Seq(Nat) /\ Len(ValuesOf(metric)) = Len(records)
         /\ \A i \in 1 .. Len(records) :
               /\ ValuesOf("rank")[i] <= ValuesOf("hit")[i]
               /\ ValuesOf("recall")[i] <= ValuesOf("hit")[i]
               /\ ValuesOf("rank")[i] = 0 <=> ValuesOf("hit")[i] = 0
               /\ ValuesOf("recall")[i] = 0 <=> ValuesOf("hit")[i] = 0
               /\ ValuesOf("hit")[i] <= Scale
               /\ i \notin CountedIn("hit") => ValuesOf("hit")[i] = 0
<1>1. Len(records) \in Nat
  BY DEF EvalInv, EvalTypes
<1>2. ASSUME NEW i \in 1 .. Len(records)
      PROVE  /\ ValuesOf("hit")[i] \in Nat /\ ValuesOf("rank")[i] \in Nat
             /\ ValuesOf("recall")[i] \in Nat
             /\ ValuesOf("rank")[i] <= ValuesOf("hit")[i]
             /\ ValuesOf("recall")[i] <= ValuesOf("hit")[i]
             /\ ValuesOf("rank")[i] = 0 <=> ValuesOf("hit")[i] = 0
             /\ ValuesOf("recall")[i] = 0 <=> ValuesOf("hit")[i] = 0
             /\ ValuesOf("hit")[i] <= Scale
             /\ i \notin CountedIn("hit") => ValuesOf("hit")[i] = 0
  <2>1. CountedIn("rank") = CountedIn("hit") /\ CountedIn("recall") = CountedIn("hit")
    BY AverageIs
  <2>2. PICK counted \in BOOLEAN : counted <=> i \in CountedIn("hit")
    OBVIOUS
  <2>3. PICK m : m = records[i].retrieval
    OBVIOUS
  <2>4. /\ ValuesOf("hit")[i] = IF counted THEN m.hit ELSE 0
        /\ ValuesOf("rank")[i] = IF counted THEN m.rank ELSE 0
        /\ ValuesOf("recall")[i] = IF counted THEN m.recall ELSE 0
    BY <2>1, <2>2, <2>3 DEF ValuesOf
  <2>5. counted => m.hit # None /\ Agree(m)
    BY <2>2, <2>3 DEF CountedIn, Successful, EvalInv, RecordsRight, RecordRight
  <2>6. CASE counted
    BY <2>2, <2>4, <2>5, <2>6 DEF Agree
  <2>7. CASE ~counted
    BY <2>4, <2>7, ScaleAssumption
  <2> QED
    BY <2>6, <2>7
<1>3. ASSUME NEW metric \in {"hit", "rank", "recall"}
      PROVE  ValuesOf(metric) \in Seq(Nat) /\ Len(ValuesOf(metric)) = Len(records)
  <2>1. \A i \in 1 .. Len(records) : ValuesOf(metric)[i] \in Nat
    BY <1>2
  <2>2. ValuesOf(metric) \in [1 .. Len(records) -> Nat]
    BY <2>1 DEF ValuesOf
  <2> QED
    BY <1>1, <2>2, ListOf
<1> QED
  BY <1>2, <1>3

\* The three averages of the report are over the cases with expected sources whose calls
\* were both answered; the reciprocal rank and the recall stay below the hits and are
\* zero with them.
THEOREM AveragesAreConsistent == Spec => []AveragesAgree
<1>1. ASSUME EvalInv PROVE AveragesAgree
  <2>1. PICK C, n, hitValues, ranks, recalls :
           /\ C = CountedIn("hit") /\ n = Cardinality(C) /\ hitValues = ValuesOf("hit")
           /\ ranks = ValuesOf("rank") /\ recalls = ValuesOf("recall")
    OBVIOUS
  <2>2. /\ Average("retrieval", "hit") =
              IF C = {} THEN None ELSE [sum |-> Total(hitValues), count |-> n]
        /\ Average("retrieval", "rank") =
              IF C = {} THEN None ELSE [sum |-> Total(ranks), count |-> n]
        /\ Average("retrieval", "recall") =
              IF C = {} THEN None ELSE [sum |-> Total(recalls), count |-> n]
    BY <1>1, <2>1, AverageIs
  <2>3. /\ hitValues \in Seq(Nat) /\ ranks \in Seq(Nat) /\ recalls \in Seq(Nat)
        /\ Len(hitValues) = Len(records) /\ Len(ranks) = Len(records) /\ Len(recalls) = Len(records)
        /\ \A i \in 1 .. Len(records) :
              /\ ranks[i] <= hitValues[i] /\ recalls[i] <= hitValues[i]
              /\ ranks[i] = 0 <=> hitValues[i] = 0
              /\ recalls[i] = 0 <=> hitValues[i] = 0
              /\ hitValues[i] <= Scale
              /\ i \notin C => hitValues[i] = 0
    BY <1>1, <2>1, ValuesAre
  <2>4. Total(ranks) <= Total(hitValues) /\ Total(recalls) <= Total(hitValues)
    BY <2>3, TotalMonotone
  <2>5. /\ Total(ranks) = 0 <=> Total(hitValues) = 0
        /\ Total(recalls) = 0 <=> Total(hitValues) = 0
    BY <2>3, TotalZero
  <2>6. C \in SUBSET (1 .. Len(hitValues))
    BY <2>1, <2>3 DEF CountedIn, Successful
  <2>7. Total(hitValues) <= Scale * n
    BY <2>1, <2>3, <2>6, ScaleAssumption, TotalBounded
  <2>8. n \in Nat
    <3>1. Len(hitValues) \in Nat
      BY <2>3
    <3>2. IsFiniteSet(1 .. Len(hitValues))
      BY <3>1, FS_Interval
    <3> QED
      BY <2>1, <2>6, <3>2, FS_Subset, FS_CardinalityType
  <2>11. C = {i \in answered : Cases[i].expected # {}}
    BY <1>1, <2>1, CountedAre
  <2>9. CASE C = {}
    BY <2>2, <2>11, <2>9 DEF AveragesAgree
  <2>10. CASE C # {}
    <3>1. Total(hitValues) \in Nat /\ Total(ranks) \in Nat /\ Total(recalls) \in Nat
      <4>1. ASSUME NEW a \in Seq(Nat) PROVE Total(a) \in Nat
        BY TotalUnfolds, TotalPasses
      <4> QED
        BY <2>3, <4>1
    <3>2. PICK hit : hit = Average("retrieval", "hit")
      OBVIOUS
    <3>3. hit \in [sum : Nat, count : Nat] /\ hit.sum = Total(hitValues) /\ hit.count = n
      BY <2>2, <2>8, <2>10, <3>1, <3>2
    <3>4. hit # None
      BY <3>3, NoneAssumption
    <3>5. ASSUME NEW other \in {Average("retrieval", "rank"), Average("retrieval", "recall")}
          PROVE  /\ other.count = hit.count /\ other.sum <= hit.sum
                 /\ other.sum = 0 <=> hit.sum = 0
      <4>1. other.count = n /\ other.sum \in {Total(ranks), Total(recalls)}
        BY <2>2, <2>10
      <4> QED
        BY <2>4, <2>5, <3>3, <4>1
    <3>6. hit.count = Cardinality(C) /\ hit.sum <= Scale * hit.count
      BY <2>1, <2>7, <3>3
    <3> QED
      BY <2>10, <2>11, <3>2, <3>4, <3>5, <3>6 DEF AveragesAgree
  <2> QED
    BY <2>9, <2>10
<1> QED
  BY <1>1, EvalInvCorrect, PTL
=============================================================================
