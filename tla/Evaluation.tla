------------------------------ MODULE Evaluation ------------------------------
(***************************************************************************)
(* The evaluation tool against a live API: for every case of the dataset   *)
(* one call of POST /search/hybrid and one of POST /query, scored by       *)
(* structural metrics and averaged over the cases that succeeded, while    *)
(* documents are deleted and the index is rebuilt.                         *)
(*                                                                         *)
(* The API is what the modules Snapshots and GroundedQuery say of it, from *)
(* outside: a call matches the snapshot of that moment, cuts to K, and     *)
(* skips what is deleted by the time it hydrates.  A search of one         *)
(* snapshot for one query always ranks alike.  Fractions are integers, in  *)
(* units of 1 / Scale.                                                     *)
(***************************************************************************)
EXTENDS Naturals, Sequences, FiniteSets, Lists

CONSTANTS
    Chunks,
    NameOf,      \* NameOf[c]: source name of the document of chunk c
    Cases,       \* sequence of records [expected, forbidden, shouldAnswer]
    K,           \* --k
    MaxContext,  \* most sources in a context
    Scale,       \* divisible by every rank and number of expected sources
    None,        \* a metric that does not apply, no ranking
    MaxRebuilds  \* bound: rebuilds during the evaluation

Names == {NameOf[c] : c \in Chunks}

ASSUME CasesAssumption ==
    /\ IsFiniteSet(Chunks)
    /\ Len(Cases) \in Nat /\ K \in Nat /\ MaxContext \in Nat
    /\ \A i \in 1 .. Len(Cases) :
          /\ Cases[i].expected \subseteq Names /\ Cases[i].forbidden \subseteq Names
          /\ Cases[i].shouldAnswer \in BOOLEAN
ASSUME ScaleAssumption ==
    /\ Scale \in Nat \ {0}
    /\ \A n \in 1 .. K : Scale % n = 0
    /\ \A i \in 1 .. Len(Cases) :
          Cases[i].expected # {} => Scale % Cardinality(Cases[i].expected) = 0
\* None is no number, no average and no ranking.
ASSUME NoneAssumption ==
    None \notin Nat \cup [sum : Nat, count : Nat] \cup [version : Nat, list : Seq(Chunks)]

VARIABLES
    (* the API *)
    gone,       \* names of the documents deleted
    indexed,    \* names in the snapshot that is served
    version,    \* its version, 0 if none is loaded
    (* the evaluator *)
    current,    \* the case evaluated, by number
    pc,
    known,      \* observer: forbidden documents of the case not deleted when it began
    ranked,     \* observer: version and ranking of the search, or None
    hits,       \* chunks the call under way has matched
    retrieval,  \* metrics of the first call
    stable,     \* observer: both calls of the case met one snapshot
    context,    \* chunks the answer may cite
    answered,   \* observer: the cases both of whose calls were answered, by number
    records     \* one for each case evaluated

apiVars == <<gone, indexed, version>>
vars == <<apiVars, current, pc, known, ranked, stable, hits, retrieval, context, answered,
          records>>

NoRetrieval == [hit |-> None, rank |-> None, recall |-> None, absent |-> None]

Init ==
    /\ gone = {}
    /\ indexed \in SUBSET Names \ {{}} /\ version \in {0, 1}
    /\ current = 1 /\ pc = "search"
    /\ known = {} /\ ranked = None /\ stable = TRUE
    /\ hits = <<>> /\ retrieval = NoRetrieval /\ context = <<>>
    /\ answered = {} /\ records = <<>>

-----------------------------------------------------------------------------
(* The API *)

\* Rankings of a query: the dense one alone finds every chunk of the snapshot.
Rankings ==
    LET found == {c \in Chunks : NameOf[c] \in indexed}
    IN  {r \in [1 .. Cardinality(found) -> found] :
            \A i, j \in DOMAIN r : i # j => r[i] # r[j]}

\* The ranking of the case's query in this snapshot.
IsRanking(r) ==
    IF ranked # None /\ ranked.version = version THEN r = ranked.list ELSE r \in Rankings

TopOf(list) == SubSeq(list, 1, IF Len(list) < K THEN Len(list) ELSE K)

\* Mutated form of Visible: deleted documents stay.
StaleHits(list) == TopOf(list)
\* Mutated form of Visible: the cut follows the filter.
FilterThenCut(list) == TopOf(Kept(list, {c \in Chunks : NameOf[c] \notin gone}))

\* fused[:k], then what PostgreSQL still has.
Visible(list) == Kept(TopOf(list), {c \in Chunks : NameOf[c] \notin gone})

DeleteDocument(name) ==
    /\ name \notin gone
    /\ gone' = gone \cup {name}
    /\ UNCHANGED <<indexed, version, current, pc, known, ranked, stable, hits, retrieval, context,
                   answered, records>>

Rebuild ==
    /\ version <= MaxRebuilds
    /\ Names \ gone # {}
    /\ indexed' = Names \ gone
    /\ version' = version + 1
    /\ UNCHANGED <<gone, current, pc, known, ranked, stable, hits, retrieval, context, answered,
                   records>>

-----------------------------------------------------------------------------
(* Metrics *)

Case == Cases[current]
SourcesOf(list) == {NameOf[list[i]] : i \in 1 .. Len(list)}

\* Mutated form of Found: every hit counts, not every source.
FoundHits(list) == Cardinality({i \in 1 .. Len(list) : NameOf[list[i]] \in Case.expected})

Found(list) == Cardinality(Case.expected \cap SourcesOf(list))

\* Of a case without expected sources nothing is measured.
FirstRank(list) ==
    LET ranks == {i \in 1 .. Len(list) : NameOf[list[i]] \in Case.expected}
    IN  IF ranks = {} THEN 0 ELSE CHOOSE i \in ranks : \A j \in ranks : i <= j

\* float(TRUE) or float(FALSE)
Float(condition) == IF condition THEN Scale ELSE 0

\* forbidden_sources_absent, of either call.
Absent(names) == IF Case.forbidden = {} THEN None ELSE Float(Case.forbidden \cap names = {})

\* retrieval_metrics, and forbidden_sources_absent of the search.
RetrievalMetrics(list) ==
    IF Case.expected = {}
      THEN [NoRetrieval EXCEPT !.absent = Absent(SourcesOf(list))]
      ELSE LET first == FirstRank(list)
           IN  [hit |-> Float(first # 0),
                rank |-> IF first = 0 THEN 0 ELSE Scale \div first,
                recall |-> (Scale * Found(list)) \div Cardinality(Case.expected),
                absent |-> Absent(SourcesOf(list))]

\* Labels that extract_verified_citations knows, of those an answer writes; label 0
\* stands for a spelling only the evaluator takes for a label.
Cited(labels) == labels \cap 1 .. Len(context)
CitedSources(labels) == {NameOf[context[i]] : i \in Cited(labels)}

\* citation_ids_match_metadata; the service cites no label twice.
LabelsMatch(labels) == labels = Cited(labels)

GenerationMetrics(labels) ==
    [compliant |-> IF Case.shouldAnswer THEN Float(Cited(labels) # {} /\ LabelsMatch(labels))
                   ELSE None,
     expectedCited |-> IF Case.expected = {} THEN None
                       ELSE Float(Case.expected \cap CitedSources(labels) # {}),
     uncited |-> IF Case.shouldAnswer THEN None ELSE Float(labels = {}),
     absent |-> Absent(CitedSources(labels))]

-----------------------------------------------------------------------------
(* RAGEvaluator.evaluate                                                    *)

Searching == pc = "search" /\ current <= Len(Cases)

\* 503 without a snapshot; the ranking of a snapshot is what it was.
Match(step, next) ==
    /\ pc = step
    /\ version # 0
    /\ \E r \in Rankings \cup (IF ranked = None THEN {} ELSE {ranked.list}) :
          /\ IsRanking(r)
          /\ hits' = r
          /\ ranked' = IF step = "search" THEN [version |-> version, list |-> r] ELSE None
          /\ stable' = (ranked = None \/ ranked.version = version)
    /\ pc' = next
    /\ UNCHANGED <<apiVars, current, retrieval, context, answered, records>>

\* POST /search/hybrid
SearchMatch ==
    /\ Searching
    /\ Match("search", "hydrate")
    /\ known' = Case.forbidden \ gone

SearchHydrate ==
    /\ pc = "hydrate"
    /\ hits' = <<>>
    /\ retrieval' = RetrievalMetrics(Visible(hits))
    /\ pc' = "query"
    /\ UNCHANGED <<apiVars, current, known, ranked, stable, context, answered, records>>

\* POST /query: the context is a prefix of the hits; what the model writes is free
\* as far as the service lets it pass.
QueryMatch == Match("query", "prepare") /\ UNCHANGED known

QueryPrepare ==
    /\ pc = "prepare"
    /\ \E n \in 0 .. MaxContext :
          /\ n <= Len(Visible(hits))
          /\ context' = SubSeq(Visible(hits), 1, n)
    /\ hits' = <<>>
    /\ pc' = "generate"
    /\ UNCHANGED <<apiVars, current, known, ranked, stable, retrieval, answered, records>>

\* The loop of run.
AddRecord(record) ==
    /\ records' = Append(records, record)
    /\ current' = current + 1
    /\ pc' = "search"
    /\ hits' = <<>> /\ retrieval' = NoRetrieval /\ context' = <<>> /\ ranked' = None
    /\ known' = {} /\ stable' = TRUE
    /\ UNCHANGED apiVars

\* An answer without sources is the service's own and has no label; any other cites
\* a source or is a refusal, and either may name labels nobody assigned.
QueryAnswer ==
    /\ pc = "generate"
    /\ \E labels \in SUBSET (0 .. MaxContext + 1) :
          /\ context = <<>> => labels = {}
          /\ AddRecord([failed |-> FALSE, retrieval |-> retrieval,
                        generation |-> GenerationMetrics(labels), stable |-> stable,
                        known |-> known])
    /\ answered' = answered \cup {current}

\* Mutated form of CaseFails: what the search measured is kept as if the query had
\* been answered.
FailsWithMetrics ==
    /\ pc \in {"query", "prepare", "generate"}
    /\ AddRecord([failed |-> FALSE, retrieval |-> retrieval,
                  generation |-> GenerationMetrics({}), stable |-> stable, known |-> known])
    /\ UNCHANGED answered

\* Any status but success, a timeout, a malformed response: the metrics of the first
\* call are dropped with the case.
CaseFails ==
    /\ Searching \/ pc \in {"hydrate", "query", "prepare", "generate"}
    /\ AddRecord([failed |-> TRUE])
    /\ UNCHANGED answered

Evaluate == SearchMatch \/ SearchHydrate \/ QueryMatch \/ QueryPrepare \/ QueryAnswer
            \/ CaseFails
Reported == current > Len(Cases)

\* The report is written.
Finished == Reported /\ UNCHANGED vars

Next == \/ Evaluate
        \/ \E name \in Names : DeleteDocument(name)
        \/ Rebuild
        \/ Finished

Spec == Init /\ [][Next]_vars

-----------------------------------------------------------------------------
(* aggregate *)

Successful == {i \in 1 .. Len(records) : ~records[i].failed}

\* An average is a sum and a count, None when no case is counted.
Average(call, metric) ==
    LET counted == {i \in Successful : records[i][call][metric] # None}
    IN  IF counted = {} THEN None
        ELSE [sum |-> Total([i \in 1 .. Len(records) |->
                               IF i \in counted THEN records[i][call][metric] ELSE 0]),
              count |-> Cardinality(counted)]

-----------------------------------------------------------------------------
(* Properties                                                               *)

\* The averages of the report are over the cases with expected sources whose calls were
\* both answered, however far the others came, and agree with each other: no reciprocal
\* rank and no recall above the hits, and one of them zero only when all are.
AveragesAgree ==
    LET measured == {i \in answered : Cases[i].expected # {}}
        hit == Average("retrieval", "hit")
        others == {Average("retrieval", "rank"), Average("retrieval", "recall")}
    IN  /\ hit = None <=> measured = {}
        /\ hit # None => /\ hit.count = Cardinality(measured)
                         /\ hit.sum <= Scale * hit.count
        /\ \A other \in others :
              IF hit = None THEN other = None
              ELSE /\ other.count = hit.count
                   /\ other.sum <= hit.sum
                   /\ other.sum = 0 <=> hit.sum = 0

\* The two calls of a case tell one story as long as no rebuild comes between them,
\* whatever is deleted meanwhile: an expected source that is cited was a hit of the
\* search, and a forbidden one the search did not return is not cited.
CitedWasRetrieved ==
    \A i \in Successful :
        LET found == records[i].retrieval
            said == records[i].generation
        IN  records[i].stable =>
               /\ said.expectedCited = Scale => found.hit = Scale
               /\ found.absent = Scale => said.absent = Scale

\* A case whose forbidden documents were deleted before it began reports them absent
\* from the search and from the citations, however stale the snapshot is.
DeletedAreExcluded ==
    \A i \in Successful :
        Cases[i].forbidden # {} /\ records[i].known = {} =>
            records[i].retrieval.absent = Scale /\ records[i].generation.absent = Scale
=============================================================================
