# Verification of the Local RAG Knowledge Pipeline

TLA+ models of the pipeline's own logic (ingestion, the way of a text from file to index,
snapshots, rank fusion, grounded answers, the evaluation tool), TLC instances that check
them, and TLAPS proofs of the properties that should hold for every size. Source paths are relative to `src/`; the
line ranges each definition stands for are in `PROJECT.json` under `map`.

    tlc -workers 2 -config ingestion.cfg MCIngestion      # check one instance
    tlapm IngestionProofs.tla                             # check proofs

## 1. The system

One Uvicorn process (`app/main.py`) answers HTTP requests in a pool of threads (the
streaming endpoint in coroutines); one Celery worker with concurrency and prefetch one
processes ingestion jobs; PostgreSQL holds documents, chunks, jobs and snapshot
versions; a shared volume holds source files, staged files and snapshots; Redis holds
messages; Ollama embeds and generates.

| Component | State | Operations | Interacts with |
|---|---|---|---|
| Ingestion (`ingestion/service.py`, `ingestion/storage.py`, `api/documents.py`) | document rows and chunks, `documents/<id>`, `staging/<job>` | upload, asynchronous upload, delete | PostgreSQL (partial unique index on the content hash of active documents), file system, Celery |
| Worker (`worker/tasks.py`, `worker/celery_app.py`) | job row (`QUEUED`, `PROCESSING`, `COMPLETED`, `FAILED`), its delivery | process one message | the same `ingest_staged`, Redis (late acknowledgement, redelivery) |
| Loaders (`ingestion/loaders/*`) | current section, heading or page | read a line or a page, flush | called by ingestion with the stored file |
| Chunker (`ingestion/chunkers/recursive.py`) | offsets of the current window | cut, advance | called by ingestion with the loader's units |
| Embedding (`embeddings/ollama.py`, `retrieval/dense/faiss_store.py`) | vectors so far | embed a batch, build the index | called by rebuilds with all chunks; Ollama |
| Snapshots (`retrieval/service.py`, `retrieval/snapshot.py`, `main.py`) | version rows, `versions/<n>`, the snapshot in memory, the rebuild lock | rebuild, record failure, load at start, search | PostgreSQL (unique version, one `ACTIVATED` row), file system, Ollama |
| Rank fusion (`retrieval/fusion/rrf.py`, `search_hybrid`) | none | fuse, cut, hydrate | dense and sparse stores, PostgreSQL |
| Grounded generation (`generation/*`) | none | prepare, answer with one repair | search, Ollama |
| Query endpoints (`api/query.py`, `generation/ollama.py`) | event stream, open upstream response | answer, stream | client (may disconnect), Ollama |
| Evaluation tool (`evaluation/evaluate.py`) | records of the cases so far | two calls per case, metrics, averages | `/search/hybrid` and `/query` of a live API |
| Stores, configuration, security, logging, schemas, migrations, deployment | see section 7 | | |

What is hard, and therefore what the models are about (each at its line in `hazards`):

* *Interleaving.* The duplicate check and the insert of an upload are far apart; a worker
  and the API write the same job row by primary key; deletion runs during rebuilds,
  searches and generation; activating transactions wait for each other's rows.
* *Failure in the middle.* Every handler moves files and commits rows in two or more
  steps and cleans up in `finally` clauses, where `shutil.rmtree` may raise in turn; a commit
  or an `enqueue` may take effect and raise all the same; processes die between steps.
* *Delivery.* Messages are acknowledged late, delivered again when the worker is lost or
  when the visibility timeout of Redis passes; a task that raises is acknowledged.
* *Order.* Events of a stream are sent before the answer can be validated; clients go
  away at any `await`.
* *Boundaries.* Overlap close to the chunk size, sections and batches, context budgets with
  separators, ties of reciprocal ranks.
* *Correspondence by position.* Row, chunk and page are linked by nothing but their
  position in three lists made by three components.

Correctness, per component: listed documents have unique contents, and jobs, documents
and files agree (ingestion); a job ends once, and somebody is at it until then (worker);
what is accepted is loaded whole under the right heading or page (loaders); no text is lost
and chunks fit (chunker); row i of the index is chunk i (embedding); at most one active
version, which is on disk and in memory, and immutable published versions (snapshots);
deleted documents are neither found nor cited (search, query); what both rankings prefer stays preferred (fusion); a success is grounded and
events are in order (query); what is reported of a case fits together (evaluation).

## 2. Modules

| Module | What it is |
|---|---|
| `DocumentLibrary` | abstract specification: a library of documents with unique contents, and jobs that end once |
| `Ingestion` | both upload endpoints, `ingest_staged`, the Celery task, deletion, the broker and failures |
| `SnapshotRegister` | abstract specification: numbered, immutable published snapshots, the newest active |
| `Snapshots` | rebuild, activation, failure recording, restart, searches, deletions |
| `RankFusion` | `reciprocal_rank_fusion`, the cut to `k`, hydration |
| `GroundedQuery` | one query on either endpoint from candidates to the last event |
| `Loaders` | the text, Markdown and PDF loaders |
| `Chunking` | `RecursiveCharacterChunker.chunk` and `_split` |
| `Embedding` | `embed_documents` in batches, `FaissStore.build` |
| `TextPipeline` | composition of the last three: from the stored file to the rows of the index |
| `Evaluation` | the evaluation tool and what it sees of an API that changes meanwhile |
| `Lists` | two loops over a list, as recursive functions: filtering (`Kept`) and adding up (`Total`) |
| `MC*` | instances: symmetry sets and definitions used by the `.cfg` files |
| `IngestionProofs`, `IngestionRecordProofs`, `SnapshotProofs`, `RankFusionProofs`, `PipelineProofs`, `QueryProofs`, `EvaluationProofs` | theorems about the modules above; `PipelineProofs` also about `Loaders` and `Chunking` alone |
| `ListProofs` | lemmas about `Lists` and about induction, used by the last three |

`Ingestion` implements `DocumentLibrary` and `Snapshots` implements `SnapshotRegister` by
the refinement mappings `Library` and `Abstract` at the end of those modules.
Each module also has a section of *mutated forms*: plausible bugs of the code, each with
the parameters of a definition it can be put in place of, to see that the property fails.

### Ingestion

State: `jobStatus`, `jobDoc`, `jobError` are columns of `ingestion_jobs`; `docContent` and
`deleted` those of `documents` (content hashes are contents); `staging` and `files` the two
directories; `queue` the broker; `apiPc` one asynchronous request per job; `pc`, `copy`,
`newDoc` one execution of `ingest_staged` per upload or worker; `task` the unacknowledged
delivery. A request that ends without an answer of its own (its process is lost, or the
database fails under it) is "aborted". `origin`, `leaked`, `unremoved` and `unrecorded` are
observers that no guard reads.

Actions are the stretches of code between two points where another process can be seen:
a commit, a file operation, a message. Points worth knowing:

* Sessions have `autoflush=False, expire_on_commit=False`. `rollback()` with no transaction
  open expires nothing, so `Session.get` after a failed `enqueue` or a failed
  `staging.load` answers from memory (`ApiMarkFailed`, and `WorkerLoad` going straight to
  "markFailed"). After the rollback of an open transaction the row is read again
  (`WorkerReload`). Updates go by primary key alone.
* `IngestInsert` waits (`IndexBlocks`) for an uncommitted insert of the same content.
* `FinalizeFault` leaks the directory that `finalize` made before `os.replace` failed.
* `Ambiguous` names the operations that may raise although they took effect.
* Every removal of a directory may raise (kind "removal", `MaxRemovals`), an `OSError` that no
  caller expects. `ApiRemoveFails` and `WorkerRemoveFails`: the staged file stays, the request or
  task ends, the message is acknowledged; `unremoved` remembers the job. `IngestRemoveFails`:
  the directory of a failed attempt stays (`leaked`). `WorkerDiscardFails`: after a failed
  completing commit `remove_document` raises before `_mark_failed` runs
  (`worker/tasks.py:77`), the `finally` clause still removes the staged file, and the job stays
  `PROCESSING`; `unrecorded` remembers it.

### Snapshots

A document stands for its chunks (they are inserted and deleted together). `status` is the
version table, `disk` the directories, `manager` the snapshot in memory, `lock` the
`_rebuild_lock` of a process. In `Deprecate` and `Wake` a blocked `UPDATE` under READ
COMMITTED re-checks only the rows its statement saw: a version activated meanwhile is not
deprecated, and the partial unique index (`ActivationConflict`) has to refuse the commit.
`Discard` removes the directory of the version *chosen*, whether or not it was registered.
Searches of all three kinds share `SearchMatch` and `SearchHydrate`: any part of the
snapshot may match.

### RankFusion

Any two rankings, at most `DenseDepth` and `SparseDepth` long (`dense_candidate_k` and
`sparse_candidate_k`, two settings), `rrf_k` and `k`. Reciprocals are whole numbers of units `1 / Scale`.
Floating-point sums could round an exact tie of different ranks either way; the
properties do not depend on such ties: a dominated chunk's score differs by a whole
reciprocal, and `IdsNeverDecide` compares ranks after equal scores.

### GroundedQuery

A text is a sequence of tokens: labels, plain text, a wording recognised as refusal. Labels
are positions in `sources`, because they are assigned in order and the selected context is
a prefix. `Cancel` is Starlette's cancellation of the response task when the client is
gone; `StreamToken` and `SendError` also look at `is_disconnected`. `active` starts as any
subset of the snapshot, which is a snapshot older than some deletions.

### Loaders, Chunking, Embedding, TextPipeline

A file is a sequence of parts: lines of Markdown, each with the title `HEADING_RE` finds or
none, pages of a PDF, or one part of a text file. Units are ranges of parts (sections are
consecutive lines), so the text of a unit is what `PartsText` joins.

In `Chunking`, one action per pass of the loop. Offsets are the code's. `IsCut` is `rfind` of the
separators between the floor and the window's end, the first separator that occurs first.

In `Embedding` the service may answer a batch with any number of vectors of any dimensions and
qualities; a vector only remembers the text it belongs to. `TextPipeline` hands over as
`ingest_staged` and `rebuild` do, one document standing for the corpus.

### Evaluation

The API is seen through its responses: a call matches the snapshot of that moment, cuts to
`k`, and drops what is deleted when it hydrates; documents are deleted and the index is
rebuilt between any two of these steps. One snapshot ranks one query always alike (FAISS
`IndexFlatIP` and BM25 are deterministic); every ranking of a snapshot is possible. Labels an
answer writes are free as far as the service lets them pass. `known`, `ranked` and `stable` are
observers: what the evaluator itself cannot see. `answered` is the observer of which cases had
both calls answered, whatever `aggregate` takes for a success.

## 3. Runs

| Run | Instance | What it shows | Distinct states |
|---|---|---|---|
| `ingestion` | 2 async uploads, 1 upload, 1 worker, 3 contents (one invalid, one unreadable); a crash, a redelivery, a failed operation, a removal that raises | types, job rows, staged and source files, and the refinement of `DocumentLibrary`, whose documents have unique contents | 323 000 |
| `two_workers` | an async upload and an upload, 2 workers; any two of: a crash, a redelivery, a fault, a removal that raises, a database error; ambiguous publish and commit | what survives everything: unique contents, accounted files, no job and no staged file left to nobody, published and committed jobs settle, with the exceptions of section 6 | 153 000 |
| `snapshots` | 1 process, 3 rebuilds, 1 search, 2 documents, a crash, 2 faults | five invariants, among them that leftovers of lost rebuilds block no later one, and the refinement of `SnapshotRegister` | 709 000 |
| `two_processes` | 2 processes, 3 rebuilds, a fault, ambiguous activation | at most one active version beyond the deployment; the lock is released, also when transactions wait for each other | 249 000 |
| `fusion` | 4 chunks, 3 dense and up to 4 sparse candidates, `rrf_k` 1 and 3, `k` 3 | dominance, both-beat-one, ids never decide | 150 000 |
| `query` | 4 chunks (one blank), 3 candidates, 2 sources, 2 tokens | context budget, deletion, grounding, event order, upstream; every query ends | 780 000 |
| `pipeline` | every text of 5 characters over 4 classes, Markdown of up to 3 lines of 5 kinds, PDF of up to 3 pages; 6 settings; batches of 2 | loaded whole, nothing lost, chunks fit, windows in order, labels right, rows match chunks; every document comes to its end | 365 000 |
| `evaluation` | 4 chunks of 3 documents, `k` 3, 2 cases, a rebuild, any deletions | averages over the answered cases and in agreement, search and answer of a case agree, deleted sources are excluded | 279 000 |

Runs that refute what a document, a comment or a test says (section 6): `late_publish`,
`database_outage`, `lost_job`, `lost_activation`.

**Bounds.** Failures are bounded by `budget`: one of each kind already hits every step of
every handler, and combinations of two (a crash and a fault, a redelivery and a fault) are
covered: in `two_workers` the action constraint `TwoFailures` takes any two of the five kinds,
which includes the failed commit whose cleanup fails too (`WorkerDiscardFails`).
There `IdsInOrder` lets an attempt take the first unused document id, one representative of
interchangeable ones, since symmetry sets are unsound for liveness. Both constraints only cut
off steps that no fairness asks for (failures) or choices that are alike (ids), so that every
behaviour left out has a counterpart. Two jobs and an upload are needed for two inserts of one content while a third
is between check and insert; four document ids because every attempt draws one. Three
rebuilds are needed for a version that waits, one that is activated meanwhile and a
previous one. In `fusion`, rank 3 is in both rankings, so that with `rrf_k` 1 rank 1 alone ties
with rank 3 twice; with `rrf_k` 3 the deeper ranking has `rrf_k` + 1 candidates, the boundary
up to which two always beat one. Of four chunks the dense ranking has three, so that one may
be ranked by the sparse ranking alone; `k` 3 cuts one of four candidates. In `query`, sources 1 and 2 fill
the budget of 12 characters exactly and 2 and 3 exceed it by their separator. Texts of five
characters hold the longest separator twice, and the six settings (sizes up to four)
include windows of one character, no overlap, half the size, and an overlap of size - 1;
three lines hold two headings and a line before, between or after them; five windows of a
text make three batches of two, the last one short. In `evaluation`, two chunks of one
document tell sources from hits, a case that must be answered and one that must be
refused have every metric between them, and one rebuild gives the second call another
snapshot. `Scale` is 6, so that reciprocals of ranks up to 3 and halves are whole.
`CHECK_DEADLOCK` is on everywhere: the stutter `Finished` (`PipelineDone` in `TextPipeline`) is
enabled exactly when all requests have been answered or the report is written.

**Symmetry** is used only in runs without liveness properties (`ingestion`, `snapshots`), over sets whose members no
definition tells apart (jobs, workers, documents, rebuild requests).

## 4. Fairness

* `Ingestion!FairSpec` (`two_workers`, `lost_job`): weak fairness of each request's steps and each worker's steps:
  threads and the worker loop keep running. Nothing is assumed of users, failures, or
  which message a worker takes next. `JobsSettle` holds of jobs that were published, and of
  committed ones whose request was not aborted; a database error may lose a message, and a
  removal that raises ends the task all the same, so that its file or its job stays.
* `Snapshots!FairSpec` (`two_processes`): weak fairness of each rebuild after it was admitted; requests need
  not be made and crashed processes need not restart.
* `GroundedQuery!FairSpec` (`query`): weak fairness of the server's steps. A wait for Ollama is bounded by
  the client's timeout (`generation_timeout_seconds`), so `Generate \/ GenerateFails` and
  the stream's alternatives happen. A client that stays connected to a model that never
  stops is not promised an end, and `QueriesEnd` does not state one.
* `TextPipeline!FairPipelineSpec` (`pipeline`): sequential loops that run on; an embedding call
  ends by its timeout.

## 5. Proofs

All theorems are of the form `Spec => []P` (or `[][A]_vars`, or a refinement) for every value
of the constants that satisfies the named assumptions. Every safety property, action property
and refinement that a passing run checks is stated by one. TLC checked the inductive
invariants first.

* `IngestionProofs`
  * `TypeCorrect`. Inductive with "a worker that is not idle holds a delivery", which the
    types of `staging[task[w]]` and `queue[task[w]]` need.
  * `UniqueContent`. The insert is guarded by the index, but a worker commits later than it
    flushed: the invariant says that the content of every flushed insert is reserved, no
    active document has it and no other worker has flushed it.
  * `NoUnaccountedFiles`. Strengthened by what each step knows of `newDoc` (set exactly
    between finalize and release).
  * `SourcesKept`. From the same invariant, under `"commit" \notin Ambiguous`, stated as a
    hypothesis: with an ambiguous commit the code does remove the files.
* `IngestionRecordProofs`
  * `JobsAreCarried`, `StagedAreCarried`, without assumptions but with the exceptions that the
    properties name (section 6): each step that lets go of a job (acknowledgement, loss of a
    worker, end of a request) either requeues it or has ended it, and each that lets go of a
    staged file has removed it, or tried to and is remembered (`unremoved`).
  * `RecordsConsistent`, `StagedFileKept`, `LibraryImplemented`, under `OneWriter`: publishing is not
    ambiguous, and there is one worker or the broker repeats no delivery by itself.
    Otherwise two processes write one job row by primary key, and the properties fail (the
    finding `late_publish` is such a case). From it follows that a job has at most one of a
    request that may still fail it, a message, and a worker; the invariant `RecordOf` says of
    each step of that one what the row, the staged file and the document are.
    `StagedFileKept` also needs that no database error happens (finding `database_outage`) and
    exempts the job of `unrecorded`: `WorkerDiscardFails` spends a failed operation and a failed
    removal at once, and from then on nothing but the cleanup is left (`DiscardBudget`).
    `LibraryImplemented` maps each action to a step of `DocumentLibrary` or a stutter.
* `SnapshotProofs`, for any number of processes:
  * `TypeCorrect`. `version + 1 \in Versions` is the difficulty: versions are numbered without
    a gap and each belongs to a different request, so by the pigeonhole principle there
    is a number left for a request that has not registered (`Numbered`).
  * `AtMostOneActivated`, also for ambiguous commits: it rests on
    the index alone, neither on the lock nor on the deprecation.
  * `DeletedStayHidden`: what was gone before a search stays in `deleted`.
* `SnapshotProofs`, for one process (`OneProcess`), as deployed: a rebuild at work holds the
  lock of its process (`LockInv`), so there is at most one (`OneRunner`).
  * `LeftoversHarmless`: directories have rows and the number after the last is free; one
    rebuild at a time keeps it so until it has saved (`FreeInv`).
  * `ActivatedStaysOnDisk`, `ServesTheActivated`, `RegisterImplemented`, also under
    `Ambiguous = {}`. `KeepInv` says of each step of the rebuild at work which row and directory
    it has made (`BuildKnown`), and of each process that it serves what was published and is on
    disk (`ServedKnown`). Both assumptions are needed: TLC
    violates each of these properties, and `LeftoversDoNotBlock`, with two processes in place
    of one (they share the numbers and the directories, and each goes on serving what the
    other has replaced), and the properties of `KeepInv` also with an activation that takes
    effect and raises, because the code then discards what is active (`lost_activation`).
    For the refinement, `Activate` publishes, `Swap` and `Restart` load, losing a process
    unloads, and every other step stutters.
* `RankFusionProofs`: reciprocals strictly decrease (`ReciprocalsDecrease`), so dominance means a
  greater score; `IsTop` then puts it first (`DominancePreserved`). `OrderOfRankings` needs no
  arithmetic: equal best and dense ranks are ranks in the same list. `FoundTwiceFirst`:
  `2/(K+D) > 1/(K+1)` for `D <= K+1`, `D` the greater of the two depths.
* `PipelineProofs`
  * `Loaders` alone: `AcceptedIsLoadedWhole`. The invariant says that everything before the current
    section or page is covered by units in order, and that the heading kept is that of the
    line the section begins with, with no heading after it (`HeadingOfSection`).
  * `Chunking` alone: `Lossless` (the next window never starts after the last one's end),
    `Fitting`, and `CutsInOrder`, whose invariant says that a separator a later window finds
    behind its floor was visible to the earlier one too; it uses that no separator is longer
    than a later one by more than a character (`SeparatorsAssumption`).
  * The pipeline: `RowsAreChunks`. Within the embedding, the vectors are those of the texts
    before `batchStart`, in order and of one dimension (`EmbedInv`); embedding
    begins only when the last chunk is made (`PipelineInv`). `PipelineLoadsWhole` from the same.
  * `PipelineLosesNothing`, `PipelineChunksFit`, `PipelineCutsInOrder`: what the chunker
    guarantees of any document it guarantees of what a loader hands over (`TextInv`: its
    units are the texts of the loaded ranges, and do not change from then on).
  * `AllTextIsChunked`: a position in the text of a line is a position in the text of its unit
    (`PartInUnit`), because joining parts (`PartsText`) is concatenation (`FlattenIs`).
    `AcceptedAreEmbeddable`: no unit is blank (`UnitsHaveText`), so something of it is in a
    chunk. `TextAssumption` says that loaders and chunker strip the same white space, both
    `str.strip`.
* `QueryProofs`
  * `EventsInOrder`, `SuccessesAreGrounded`, `UpstreamIsReleased`. One invariant says of each
    step which event was the last (`EventsKnown`), that a text on its way to success is
    grounded and whole (`AnswerKnown`), and where a request to Ollama may be open
    (`UpstreamKnown`). An answer is empty until a token was sent, so that a grounded stream
    never goes from start to citations.
  * `ContextIsBounded`: what `_select_context` adds up source by source is the length of what
    `render_context` writes, a fact about the sum of any list. `DeletedAreNotCited`: hydration
    keeps exactly the candidates that are active, deleted chunks do not come back, and labels
    are positions in the context (`ContextInv`). `TypeCorrect` from both.
* `EvaluationProofs`: the invariant relates the search of a case to its later call. As long as no
  rebuild intervenes both cut one ranking to the same `k`, and the later hydrates less, so that
  the search has told (`Told`) of every source the context can have, at each step on the way.
  * `CitedAreRetrieved` and `DeletedAreReportedAbsent` follow for each record (`RecordsRight`).
  * `AveragesAreConsistent`: of one case, reciprocal rank and recall are at most the hit and zero
    with it (`Agree`); the sums inherit it (`TotalMonotone`, `TotalZero`, `TotalBounded`).
    `ScaleAssumption` makes the fractions whole. The cases counted are those answered
    (`AnsweredRight`) that have expected sources (`CountedAre`).
* `ListProofs`: that the loops of `Lists` do what their names say, for every list. A recursive
  function over `0 .. n` is shown to exist by building its runs (`RunExists`), and facts about it
  by induction over a set of numbers (`SetInduction`, from the existence of a least element).

Only model-checked: the liveness properties `JobsSettle`, `LockReleased`, `QueriesEnd` and
`Completes` (fairness and ENABLED are outside the prover's reach).

## 6. Where the code differs from what is said of it

1. `late_publish`: an `enqueue` that raises after the broker took the message lets the API
   overwrite a terminal status (`app/api/documents.py:87`), against the "terminal-state
   idempotency" of `docs/PROJECT_SUMMARY.md:32`.
2. `database_outage`: the `finally` clause of the worker removes the staged file even though the
   outcome was not recorded (`app/worker/tasks.py:83`), against the comment at lines 54-55. (The
   same state is reached without the database failing under `_mark_failed` when the completing
   commit raises and `remove_document` raises after it, at line 77: `WorkerDiscardFails`.)
3. `lost_job`: a failed first read loses the message and leaves the job `QUEUED`
   (`app/worker/tasks.py:32`), against `README.md:142`.
4. `lost_activation`: a second rebuild whose activating commit takes effect and raises is
   recorded as failed (`app/retrieval/service.py:379`) although the version it replaced is
   `DEPRECATED` already: no version is active, against
   `test_failed_rebuild_preserves_active_snapshot` (`tests/test_retrieval_integration.py:210`),
   by which a failed rebuild leaves the previous version `ACTIVATED`.

Not findings, but consequences a reader should know: with two workers *and* broker
redelivery a job row can disagree with the documents (`JobRecordConsistent` is not claimed
there; the deployment runs one worker). An API process lost between commit and
`enqueue` leaves a `QUEUED` job without a message and its staged file. `UnsettledIsCarried` says
that an unsettled job is left to nobody only by that, by a database error, or by a
failed commit whose `remove_document` raises (`app/worker/tasks.py:77`, the job stays
`PROCESSING`). `StagedFilesCarried` says that a staged file is left to nobody only by an aborted
request, a database error, or a `staging.remove` that raises (`app/worker/tasks.py:39` and `:83`,
`app/api/documents.py:92` and `:107`, `app/ingestion/storage.py:83`): the message is acknowledged
and nothing tries again. `FilesAccounted` says the same of document directories: left over only
by a lost process, a failed move or a failed removal. A commit that takes effect and raises
lets the code remove the files of a committed document; `SourceRetained` is claimed only without
it. A lost rebuild leaves
a `BUILDING` row and perhaps a directory for ever, in nobody's way (`LeftoversDoNotBlock`). The
evaluation tool makes two calls per case: when the index is rebuilt between them, an
expected source may be cited that the search did not find. A search may return fewer than `k` hits
while stale candidates fill the cut. With an overlap above half the size consecutive
windows may end at the same separator, so that a chunk repeats the end of the one before;
the defaults (1000 and 150) exclude it.

## 7. Not modelled

* FAISS and BM25 scores, tokens: numeric code of libraries; their rankings are inputs. A BM25
  score of exactly zero excludes a chunk (`bm25_store.py:50`); every sparse ranking is an
  input of `RankFusion`, with or without it. A vector whose 32-bit norm overflows passes the
  check for zero (`faiss_store.py:74`); values of vectors are only classes here.
* Which lines `HEADING_RE` matches and what pypdf extracts from a page: inputs of `Loaders`.
* Of the evaluation tool: reading and validating the dataset, expected terms, latencies,
  rounding to four digits, printing.
* Leftover `.upload-*.tmp` files and snapshot `.tmp` directories, `celery_task_id`,
  `attempt_count`, progress, timestamps, response bodies, log lines.
* The check of the embedding model's name against the snapshot (a refusal like the missing
  snapshot), and a commit of `BUILDING` that takes effect and raises.
* Configuration, authentication, health, logging, schemas, migrations, deployment: values,
  shapes and stateless checks without behaviour of their own (the unique indexes of the migrations are in the models).

## 8. Plan

Done, in this order: ingestion with its refinement and proofs; snapshots; grounded queries;
chunking; rank fusion; loaders, embedding and the pipeline they make with the chunker; the
evaluation tool; proofs of the job records, of the refinement of `DocumentLibrary`, of the
pipeline and of queries; proofs of the snapshots of one process and of their refinement, of
the context of a query, of the text from a file to its chunks, and of the evaluation. Next:

1. Extend: the loading check and the embedding-model check at start; two documents in one
   rebuild, ordered by their ids.
2. Prove: the safety half of the liveness properties, for instance that a rebuild that
   waits for a row waits for one that is not waiting itself, and that each step of a
   query brings it closer to its end.
