------------------------------ MODULE Embedding ------------------------------
(***************************************************************************)
(* From chunks to the dense index: OllamaEmbeddingProvider.embed_documents *)
(* sends the texts in batches, and FaissStore.build makes the index whose  *)
(* row i is the vector of chunk i.  Chunks and rows are only linked by     *)
(* their position.                                                         *)
(*                                                                         *)
(* What the service answers is external: a failure, or a list of vectors,  *)
(* of any number and dimensions, some of them invalid.  The vectors it     *)
(* does return belong to the texts of the request in their order.          *)
(***************************************************************************)
EXTENDS Integers, Sequences

CONSTANTS
    BatchSize,
    Dimensions,  \* dimensions of the vectors the service returns
    Qualities    \* what a vector can be, of those listed in QualityAssumption

ASSUME BatchAssumption == BatchSize \in Nat \ {0}
ASSUME DimensionAssumption == Dimensions \subseteq Nat \ {0}
\* Usable; no list of finite numbers; finite, but not in 32 bits; all zero.
ASSUME QualityAssumption == Qualities \subseteq {"good", "invalid", "large", "zero"}

VARIABLES
    embedPc,      \* "idle", "embed", "build", then "indexed" or "failed"
    batchStart,   \* start: texts before it have their vectors
    vectors       \* records [of, dim, quality]; of is the text's position

embedVars == <<embedPc, batchStart, vectors>>

EmbedInit == embedPc = "idle" /\ batchStart = 0 /\ vectors = <<>>

-----------------------------------------------------------------------------
(* Pure parts; n is the number of texts                                     *)

\* Mutated form of BatchEnd: the slice stops one text early.
ShortBatchEnd(n) == IF batchStart + BatchSize < n THEN batchStart + BatchSize - 1 ELSE n

\* texts[start : start + batch_size]
BatchEnd(n) == IF batchStart + BatchSize < n THEN batchStart + BatchSize ELSE n
BatchLength(n) == BatchEnd(n) - batchStart

\* Answers of the service to a batch: up to a vector more than asked for.
Answers(n) ==
    UNION {[1 .. m -> Dimensions \X Qualities] : m \in 0 .. BatchLength(n) + 1}

\* The dimension of a batch, and of the batches before it.
SameDimension(answer) ==
    /\ \A i, j \in 1 .. Len(answer) : answer[i][1] = answer[j][1]
    /\ \A i \in 1 .. Len(vectors), j \in 1 .. Len(answer) : vectors[i].dim = answer[j][1]

Accepted(answer, n) ==
    /\ Len(answer) = BatchLength(n)
    /\ \A i \in 1 .. Len(answer) : answer[i][2] # "invalid"
    /\ SameDimension(answer)

-----------------------------------------------------------------------------
(* embed_documents                                                          *)

\* blank: some text is blank, and all of them are refused.
EmbedStart(blank) ==
    /\ embedPc = "idle"
    /\ embedPc' = IF blank THEN "failed" ELSE "embed"
    /\ UNCHANGED <<batchStart, vectors>>

\* A batch the service answers as it should.
EmbedBatch(n) ==
    /\ embedPc = "embed"
    /\ batchStart < n
    /\ \E answer \in Answers(n) :
          /\ Accepted(answer, n)
          /\ vectors' = vectors \o [i \in 1 .. Len(answer) |->
                           [of |-> batchStart + i, dim |-> answer[i][1], quality |-> answer[i][2]]]
    /\ batchStart' = batchStart + BatchSize
    /\ UNCHANGED embedPc

\* Timeout, HTTP error, or an answer that is not accepted.
EmbedFails(n) ==
    /\ embedPc = "embed"
    /\ batchStart < n
    /\ embedPc' = "failed"
    /\ UNCHANGED <<batchStart, vectors>>

\* All batches have been answered; no text at all makes no vector.
EmbedEnd(n) ==
    /\ embedPc = "embed"
    /\ batchStart >= n
    /\ embedPc' = "build"
    /\ UNCHANGED <<batchStart, vectors>>

-----------------------------------------------------------------------------
(* FaissStore.build: _matrix and _normalize                                 *)

Indexable ==
    /\ vectors # <<>>
    /\ \A i \in 1 .. Len(vectors) : vectors[i].dim = vectors[1].dim
    /\ \A i \in 1 .. Len(vectors) : vectors[i].quality = "good"

BuildIndex ==
    /\ embedPc = "build"
    /\ embedPc' = IF Indexable THEN "indexed" ELSE "failed"
    /\ UNCHANGED <<batchStart, vectors>>

EmbedStep(n, blank) ==
    EmbedStart(blank) \/ EmbedBatch(n) \/ EmbedFails(n) \/ EmbedEnd(n) \/ BuildIndex

-----------------------------------------------------------------------------
(* Properties                                                               *)

EmbedTypeOK ==
    /\ embedPc \in {"idle", "embed", "build", "indexed", "failed"}
    /\ batchStart \in Nat
    /\ vectors \in Seq([of : Nat, dim : Dimensions, quality : Qualities])

\* The vectors handed to the index are one for every text, in their order, across
\* batch boundaries, and of one dimension; the rows of an index that is built are
\* usable, all of them.
RowsMatchTexts(n) ==
    /\ embedPc \in {"build", "indexed"} =>
          /\ Len(vectors) = n
          /\ \A i \in 1 .. n : vectors[i].of = i /\ vectors[i].dim = vectors[1].dim
    /\ embedPc = "indexed" => n > 0 /\ \A i \in 1 .. n : vectors[i].quality = "good"
=============================================================================
