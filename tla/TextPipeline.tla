----------------------------- MODULE TextPipeline -----------------------------
(***************************************************************************)
(* The way of a document's text: a loader makes units of the stored file   *)
(* (ingest_staged), the chunker cuts the units, and a rebuild embeds the   *)
(* chunks and puts their vectors into the dense index.  The three modules  *)
(* it is composed of keep their variables; this one hands over.            *)
(*                                                                         *)
(* One document stands for the corpus: a rebuild concatenates the chunks   *)
(* of all documents, ordered by their random ids.                          *)
(***************************************************************************)
EXTENDS Chunking, Loaders, Embedding, SequencesExt

\* Files hold text, and the strip() that tells whether a section or a page is blank
\* is the one that chunks are stripped with.
ASSUME TextAssumption ==
    /\ WhiteSpace = Blanks
    /\ \A s \in Sources : \A i \in 1 .. Len(s.parts) : s.parts[i].text \in Seq(Characters)

pipelineVars == <<vars, loadVars, embedVars>>

\* The text of parts m to n: what "".join(current_lines) gives.
PartsText(m, n) == FlattenSeq([i \in 1 .. n - m + 1 |-> source.parts[m + i - 1].text])
UnitTexts(list) == [k \in 1 .. Len(list) |-> PartsText(list[k].first, list[k].last)]

\* Nothing is handed to the chunker before the loader is done.
PipelineInit ==
    /\ LoadInit
    /\ units = <<>>
    /\ \E s \in Settings : size = s.size /\ overlap = s.overlap
    /\ unit = 1 /\ start = 0 /\ end = 0
    /\ chunks = <<>>
    /\ EmbedInit

Load ==
    /\ LoadStep
    /\ units' = IF loadPc' = "loaded" THEN UnitTexts(loaded') ELSE <<>>
    /\ UNCHANGED <<size, overlap, unit, start, end, chunks, embedVars>>

Chunk ==
    /\ loadPc = "loaded"
    /\ Cut \/ LastCut \/ EmptyUnit
    /\ UNCHANGED <<loadVars, embedVars>>

\* A chunk is its text without the blanks at its ends.
BlankChunk(c) == \A i \in c.start + 1 .. c.end : units[c.unit][i] \in Blanks

\* A document without chunks is refused with 422 and never embedded.
Embed ==
    /\ loadPc = "loaded" /\ Done /\ chunks # <<>>
    /\ EmbedStep(Len(chunks), \E k \in 1 .. Len(chunks) : BlankChunk(chunks[k]))
    /\ UNCHANGED <<vars, loadVars>>

PipelineDone ==
    \/ loadPc = "refused"
    \/ loadPc = "loaded" /\ Done /\ (chunks = <<>> \/ embedPc \in {"indexed", "failed"})

Step == Load \/ Chunk \/ Embed
PipelineNext == Step \/ (PipelineDone /\ UNCHANGED pipelineVars)

PipelineSpec == PipelineInit /\ [][PipelineNext]_pipelineVars
FairPipelineSpec == PipelineSpec /\ WF_pipelineVars(Step)

-----------------------------------------------------------------------------
(* Properties                                                               *)

\* Where part i begins in unit k.
OffsetIn(k, i) == Len(PartsText(loaded[k].first, i - 1))

\* Nothing of a document that is accepted is lost on the way to its chunks: each
\* character of its lines or pages that is not blank is in a chunk, and the label
\* of that chunk is the heading the line stands under, or the number of the page.
TextReachesChunks ==
    loadPc = "loaded" /\ Done =>
       \A i \in 1 .. PartCount : \A j \in 1 .. Len(source.parts[i].text) :
          \/ source.parts[i].text[j] \in Blanks
          \/ \E k \in 1 .. Len(loaded), c \in 1 .. Len(chunks) :
                /\ i \in loaded[k].first .. loaded[k].last /\ chunks[c].unit = k
                /\ OffsetIn(k, i) + j - 1 \in chunks[c].start .. chunks[c].end - 1
                /\ RightLabel(i, loaded[k].label)

\* The row of the index at a position is the vector of the chunk at that position.
IndexMatchesChunks == RowsMatchTexts(Len(chunks))

\* What the checks behind it are not needed for: a document that a loader accepts
\* has a chunk, so "no chunkable text" never refuses it, and the embedding service
\* is never refused a chunk for being blank.
AcceptedIsEmbeddable ==
    loadPc = "loaded" /\ Done =>
        chunks # <<>> /\ \A k \in 1 .. Len(chunks) : ~BlankChunk(chunks[k])

\* Every document comes to its end: it is refused, fails, or is indexed.
Completes == <>PipelineDone
=============================================================================
