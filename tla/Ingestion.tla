------------------------------ MODULE Ingestion ------------------------------
(***************************************************************************)
(* Document ingestion: the synchronous upload request, the asynchronous    *)
(* upload request with its staged file, job row and Celery message, the    *)
(* Celery worker that processes the job, and document deletion.            *)
(*                                                                         *)
(* PostgreSQL, the Celery/Redis broker and the file system are modelled by *)
(* what the code relies on: transactions commit or leave nothing, the      *)
(* partial unique index on the content hash blocks behind an uncommitted   *)
(* insert, a message is acknowledged late and delivered again when the     *)
(* worker is lost.  Everything a process keeps in memory dies with it.     *)
(***************************************************************************)
EXTENDS Naturals, FiniteSets

CONSTANTS
    Jobs,             \* asynchronous upload requests, each with its job id
    Uploads,          \* synchronous upload requests
    Workers,          \* Celery worker processes (the deployment runs one)
    Docs,             \* document ids
    Contents,         \* file contents (equal contents have equal hashes)
    Invalid,          \* contents that validate_staged refuses
    Unreadable,       \* contents the loader or the chunker refuses
    None,             \* no content, no document, no job
    MaxCrashes,       \* bound: process losses
    MaxRedeliveries,  \* bound: deliveries the broker repeats on its own
    MaxFaults,        \* bound: failed publishes, and exceptions inside ingestion
    MaxRemovals,      \* bound: removals of a directory (rmtree) that raise
    MaxDbErrors,      \* bound: database errors outside the ingestion path
    Ambiguous         \* subset of {"publish", "commit"}: operations that may
                      \* report a failure although they took effect

ASSUME SetsAssumption ==
    /\ Invalid \subseteq Contents /\ Unreadable \subseteq Contents
    /\ Ambiguous \subseteq {"publish", "commit"}
ASSUME NoneAssumption == None \notin Docs \cup Contents \cup Jobs
ASSUME ProcessAssumption == Uploads \cap Workers = {}
ASSUME BoundsAssumption ==
    {MaxCrashes, MaxRedeliveries, MaxFaults, MaxRemovals, MaxDbErrors} \subseteq Nat

Ingesters == Uploads \cup Workers

VARIABLES
    (* PostgreSQL: committed rows *)
    jobStatus, jobDoc, jobError,   \* ingestion_jobs: status, document_id, error_message
    docContent, deleted,           \* documents: content_hash (None: no row), deleted_at
    origin,                        \* observer: the job that inserted the document
    (* file system *)
    staging,                       \* staging/<job id>
    files,                         \* documents/<document id>
    leaked,                        \* observer: directories no request owns any more
    unremoved,                     \* observer: jobs whose staged file was not removed,
                                   \* because its removal raised
    unrecorded,                    \* observer: jobs whose failure was not recorded,
                                   \* because removing the document's files raised
    (* broker *)
    queue,                         \* messages per job that wait for a worker
    (* processes *)
    apiPc,                         \* where an asynchronous upload request is
    pc, copy, newDoc,              \* an ingestion: step, staged content, directory made
    task,                          \* the delivery a worker has not acknowledged
    budget                         \* failures still allowed to happen

jobVars  == <<jobStatus, jobDoc, jobError>>
docVars  == <<docContent, deleted, origin>>
fileVars == <<files, leaked, unremoved, unrecorded>>
ingVars  == <<pc, copy, newDoc>>
vars == <<jobVars, docVars, staging, fileVars, queue, apiPc, ingVars, task, budget>>

Terminal == {"COMPLETED", "FAILED"}
Statuses == {"none", "QUEUED", "PROCESSING"} \cup Terminal
ApiSteps == {"idle", "check", "create", "publish", "markFailed", "unstage", "done",
             "aborted"}
IngestSteps == {"check", "finalize", "parse", "insert"}
Steps == IngestSteps \cup {"idle", "claim", "load", "complete", "reload",
                           "markFailed", "cleanup", "ack", "done"}
FailureKinds == {"crash", "redelivery", "fault", "removal", "dbError"}

Init ==
    /\ jobStatus = [j \in Jobs |-> "none"]
    /\ jobDoc = [j \in Jobs |-> None]
    /\ jobError = [j \in Jobs |-> FALSE]
    /\ docContent = [d \in Docs |-> None]
    /\ deleted = {}
    /\ origin = [d \in Docs |-> None]
    /\ staging = [j \in Jobs |-> None]
    /\ files = {} /\ leaked = {}
    /\ unremoved = {} /\ unrecorded = {}
    /\ queue = [j \in Jobs |-> 0]
    /\ apiPc = [j \in Jobs |-> "idle"]
    /\ pc = [p \in Ingesters |-> "idle"]
    /\ copy = [p \in Ingesters |-> None]
    /\ newDoc = [p \in Ingesters |-> None]
    /\ task = [w \in Workers |-> None]
    /\ budget = [k \in FailureKinds |->
                    IF k = "crash" THEN MaxCrashes
                    ELSE IF k = "redelivery" THEN MaxRedeliveries
                    ELSE IF k = "fault" THEN MaxFaults
                    ELSE IF k = "removal" THEN MaxRemovals
                    ELSE MaxDbErrors]

-----------------------------------------------------------------------------
(* Shared operators *)

Spend(kind) == budget[kind] > 0 /\ budget' = [budget EXCEPT ![kind] = @ - 1]

Rows == {d \in Docs : docContent[d] # None}
Active == Rows \ deleted
Duplicate(c) == \E d \in Active : docContent[d] = c

\* Directories made for documents that are not committed yet.
Pending == {newDoc[p] : p \in Ingesters} \ {None}

\* A fresh uuid4.  An id whose attempt left no trace may be drawn again, which
\* only keeps Docs small.
UnusedDocs == Docs \ (Rows \cup files \cup Pending)

ApiGoto(j, step) == apiPc' = [apiPc EXCEPT ![j] = step]
Goto(p, step) == pc' = [pc EXCEPT ![p] = step]

\* The row of a failed job.
RecordFailure(j) ==
    /\ jobStatus' = [jobStatus EXCEPT ![j] = "FAILED"]
    /\ jobError' = [jobError EXCEPT ![j] = TRUE]
    /\ UNCHANGED jobDoc

\* Mutated form of Unstage: a refusal or a worker forgets the staged file.
KeepStaged(j) == UNCHANGED staging

Unstage(j) == staging' = [staging EXCEPT ![j] = None]

\* The rows a committed ingestion leaves; owner is None for a plain upload.
CommitDocument(p, owner) ==
    /\ docContent' = [docContent EXCEPT ![newDoc[p]] = copy[p]]
    /\ origin' = [origin EXCEPT ![newDoc[p]] = owner]
    /\ UNCHANGED deleted

Release(p) == /\ copy' = [copy EXCEPT ![p] = None]
              /\ newDoc' = [newDoc EXCEPT ![p] = None]

-----------------------------------------------------------------------------
(* Mutated forms of definitions below: plausible bugs of this code, put in  *)
(* the place of the definition to see the properties fail.                  *)

\* The finally clause of ingest_staged forgets remove_document.
AbortKeepingFiles(p) ==
    Release(p) /\ UNCHANGED fileVars
\* The partial unique index is missing.
NoIndex(p) == FALSE
\* The claim does not look at the status.
NotHandled(j) == FALSE
\* The staged upload itself, not a copy of it, is handed to ingest_staged.
LoadByMoving(w) ==
    /\ copy' = [copy EXCEPT ![w] = staging[task[w]]]
    /\ Unstage(task[w])
\* Early acknowledgement: a lost worker's message is gone.
DropMessage(w) == UNCHANGED queue
\* job.status = response.status: the document's status, not the job's.
CompleteAsDocument(w) ==
    /\ jobStatus' = [jobStatus EXCEPT ![task[w]] = "INDEXED"]
    /\ jobDoc' = [jobDoc EXCEPT ![task[w]] = newDoc[w]]
    /\ UNCHANGED jobError

-----------------------------------------------------------------------------
(* POST /documents/upload/async: one request per job id                     *)

\* The file name, MIME type or size is refused; nothing is left behind.
ApiRefuse(j) ==
    /\ apiPc[j] = "idle"
    /\ ApiGoto(j, "done")
    /\ UNCHANGED <<jobVars, docVars, staging, fileVars, queue, ingVars, task, budget>>

ApiStage(j, c) ==
    /\ apiPc[j] = "idle"
    /\ staging' = [staging EXCEPT ![j] = c]
    /\ ApiGoto(j, "check")
    /\ UNCHANGED <<jobVars, docVars, fileVars, queue, ingVars, task, budget>>

\* validate_staged and find_duplicate; a refusal removes the staged file.
ApiCheck(j) ==
    /\ apiPc[j] = "check"
    /\ IF staging[j] \in Invalid \/ Duplicate(staging[j])
         THEN Unstage(j) /\ ApiGoto(j, "done")
         ELSE ApiGoto(j, "create") /\ UNCHANGED staging
    /\ UNCHANGED <<jobVars, docVars, fileVars, queue, ingVars, task, budget>>

ApiCreateJob(j) ==
    /\ apiPc[j] = "create"
    /\ jobStatus' = [jobStatus EXCEPT ![j] = "QUEUED"]
    /\ ApiGoto(j, "publish")
    /\ UNCHANGED <<jobDoc, jobError, docVars, staging, fileVars, queue, ingVars, task, budget>>

\* The task id stored afterwards is not part of the model.
ApiPublish(j) ==
    /\ apiPc[j] = "publish"
    /\ queue' = [queue EXCEPT ![j] = @ + 1]
    /\ ApiGoto(j, "done")
    /\ UNCHANGED <<jobVars, docVars, staging, fileVars, ingVars, task, budget>>

\* enqueue raises; an ambiguous failure has delivered the message.
ApiPublishFails(j) ==
    /\ apiPc[j] = "publish"
    /\ Spend("fault")
    /\ \/ UNCHANGED queue
       \/ /\ "publish" \in Ambiguous
          /\ queue' = [queue EXCEPT ![j] = @ + 1]
    /\ ApiGoto(j, "markFailed")
    /\ UNCHANGED <<jobVars, docVars, staging, fileVars, ingVars, task>>

\* The session still holds the row as it committed it (expire_on_commit is off
\* and no transaction is open), so the test for QUEUED always succeeds and the
\* update does not look at what a worker has written since.
ApiMarkFailed(j) ==
    /\ apiPc[j] = "markFailed"
    /\ RecordFailure(j)
    /\ ApiGoto(j, "unstage")
    /\ UNCHANGED <<docVars, staging, fileVars, queue, ingVars, task, budget>>

ApiUnstage(j) ==
    /\ apiPc[j] = "unstage"
    /\ Unstage(j)
    /\ ApiGoto(j, "done")
    /\ UNCHANGED <<jobVars, docVars, fileVars, queue, ingVars, task, budget>>

\* Removing the staged file raises, an OSError that no handler catches: after a
\* failed publish, after a refusal, or in stage, for an upload it has not written
\* to its end.  (A removal that raises when the file is gone already leaves an
\* empty directory, which nothing reads; the same holds for the worker's.)
ApiRemoveFails(j) ==
    /\ \/ apiPc[j] = "unstage" /\ UNCHANGED staging
       \/ /\ apiPc[j] = "check"
          /\ staging[j] \in Invalid \/ Duplicate(staging[j])
          /\ UNCHANGED staging
       \/ /\ apiPc[j] = "idle"
          /\ \E c \in Contents : staging' = [staging EXCEPT ![j] = c]
    /\ Spend("removal")
    /\ unremoved' = unremoved \cup {j}
    /\ ApiGoto(j, "done")
    /\ UNCHANGED <<jobVars, docVars, files, leaked, unrecorded, queue, ingVars, task>>

\* A database error is not an IngestionError: no handler, the staged file stays.
\* A request that ends like this, or with its process, is "aborted".
ApiDbError(j) ==
    /\ apiPc[j] \in {"check", "create", "markFailed"}
    /\ Spend("dbError")
    /\ ApiGoto(j, "aborted")
    /\ UNCHANGED <<jobVars, docVars, staging, fileVars, queue, ingVars, task>>

-----------------------------------------------------------------------------
(* POST /documents/upload, and ingest_staged, which the worker shares       *)

UploadRefuse(u) ==
    /\ pc[u] = "idle"
    /\ Goto(u, "done")
    /\ UNCHANGED <<jobVars, docVars, staging, fileVars, queue, apiPc, copy, newDoc, task, budget>>

UploadStage(u, c) ==
    /\ pc[u] = "idle"
    /\ copy' = [copy EXCEPT ![u] = c]
    /\ Goto(u, "check")
    /\ UNCHANGED <<jobVars, docVars, staging, fileVars, queue, apiPc, newDoc, task, budget>>

\* The caller of ingest_staged catches the IngestionError: the upload answers
\* with it, the worker reads the job again (its rollback expired the session).
AfterReject(p) == IF p \in Workers THEN "reload" ELSE "done"

\* The finally clause: the staged copy and the directory made, if any, go.
DropAttempt(p) ==
    /\ files' = files \ {newDoc[p]}
    /\ Release(p)
    /\ UNCHANGED <<leaked, unremoved, unrecorded>>

\* The finally clause when remove_document raises: the directory stays.
LeaveAttempt(p) ==
    /\ leaked' = leaked \cup ({newDoc[p]} \ {None})
    /\ Release(p)
    /\ UNCHANGED <<files, unremoved>>

\* Mutated form of KeepAttempt: the finally clause ignores its completed flag.
KeepAttemptUnchecked(p) == DropAttempt(p)

\* The finally clause after completed = True.
KeepAttempt(p) == Release(p) /\ UNCHANGED fileVars

Reject(p) ==
    /\ DropAttempt(p)
    /\ Goto(p, AfterReject(p))
    /\ UNCHANGED <<jobVars, docVars, staging, queue, apiPc, task>>

IngestCheck(p) ==
    /\ pc[p] = "check"
    /\ IF copy[p] \in Invalid \/ Duplicate(copy[p])
         THEN Reject(p)
         ELSE /\ Goto(p, "finalize")
              /\ UNCHANGED <<jobVars, docVars, staging, fileVars, queue, apiPc, copy, newDoc, task>>
    /\ UNCHANGED budget

IngestFinalize(p) ==
    /\ pc[p] = "finalize"
    /\ \E d \in UnusedDocs :
          /\ files' = files \cup {d}
          /\ newDoc' = [newDoc EXCEPT ![p] = d]
    /\ Goto(p, "parse")
    /\ UNCHANGED <<jobVars, docVars, staging, leaked, unremoved, unrecorded, queue, apiPc,
                   copy, task, budget>>

IngestParse(p) ==
    /\ pc[p] = "parse"
    /\ IF copy[p] \in Unreadable
         THEN Reject(p)
         ELSE /\ Goto(p, "insert")
              /\ UNCHANGED <<jobVars, docVars, staging, fileVars, queue, apiPc, copy, newDoc, task>>
    /\ UNCHANGED budget

\* The unique index of the active documents: an insert waits for an uncommitted
\* one of the same content, and fails with IntegrityError after a committed one.
IndexBlocks(p) == \E q \in Workers : q # p /\ pc[q] = "complete" /\ copy[q] = copy[p]
IndexConflict(p) == Duplicate(copy[p])

\* The upload commits its rows; the worker flushes them into its transaction.
IngestInsert(p) ==
    /\ pc[p] = "insert"
    /\ ~IndexBlocks(p)
    /\ \/ /\ IndexConflict(p)
          /\ Reject(p)
       \/ /\ ~IndexConflict(p)
          /\ p \in Uploads
          /\ CommitDocument(p, None)
          /\ KeepAttempt(p)
          /\ Goto(p, "done")
          /\ UNCHANGED <<jobVars, staging, queue, apiPc, task>>
       \/ /\ ~IndexConflict(p)
          /\ p \in Workers
          /\ Goto(p, "complete")
          /\ UNCHANGED <<jobVars, docVars, staging, fileVars, queue, apiPc, copy, newDoc, task>>
    /\ UNCHANGED budget

\* Any other exception in ingest_staged.
IngestFault(p) ==
    /\ pc[p] \in IngestSteps
    /\ Spend("fault")
    /\ Reject(p)

\* finalize makes the directory and fails to move the file into it: the caller
\* does not know of the directory and leaves it.
FinalizeFault(p) ==
    /\ pc[p] = "finalize"
    /\ Spend("fault")
    /\ \E d \in UnusedDocs : files' = files \cup {d} /\ leaked' = leaked \cup {d}
    /\ Release(p)
    /\ Goto(p, AfterReject(p))
    /\ UNCHANGED <<jobVars, docVars, staging, unremoved, unrecorded, queue, apiPc, task>>

\* The attempt ends with a refusal or any other exception and the removal of its
\* directory raises in turn.  The worker's generic handler records the failure.
IngestRemoveFails(p) ==
    /\ pc[p] \in {"parse", "insert"}
    /\ Spend("removal")
    /\ LeaveAttempt(p)
    /\ Goto(p, AfterReject(p))
    /\ UNCHANGED <<jobVars, docVars, staging, unrecorded, queue, apiPc, task>>

\* The commit took effect and its answer was lost: the upload cleans up.  (If
\* the removal raises as well, all is as after a commit that was answered.)
UploadCommitLost(u) ==
    /\ "commit" \in Ambiguous
    /\ pc[u] = "insert"
    /\ ~IndexBlocks(u) /\ ~IndexConflict(u)
    /\ Spend("fault")
    /\ CommitDocument(u, None)
    /\ DropAttempt(u)
    /\ Goto(u, "done")
    /\ UNCHANGED <<jobVars, staging, queue, apiPc, task>>

-----------------------------------------------------------------------------
(* The Celery task process_ingestion_job                                    *)

Deliverable(j) == queue[j] > 0

WorkerReceive(w, j) ==
    /\ pc[w] = "idle"
    /\ Deliverable(j)
    /\ queue' = [queue EXCEPT ![j] = @ - 1]
    /\ task' = [task EXCEPT ![w] = j]
    /\ Goto(w, "claim")
    /\ UNCHANGED <<jobVars, docVars, staging, fileVars, apiPc, copy, newDoc, budget>>

Handled(j) == jobStatus[j] \in Terminal

\* SELECT ... FOR UPDATE up to the commit that releases the row.
WorkerClaim(w) ==
    /\ pc[w] = "claim"
    /\ LET j == task[w]
       IN IF Handled(j)
            THEN /\ Unstage(j)
                 /\ Goto(w, "ack")
                 /\ UNCHANGED jobVars
            ELSE /\ jobStatus' = [jobStatus EXCEPT ![j] = "PROCESSING"]
                 /\ jobError' = [jobError EXCEPT ![j] = FALSE]
                 /\ Goto(w, "load")
                 /\ UNCHANGED <<jobDoc, staging>>
    /\ UNCHANGED <<docVars, fileVars, queue, apiPc, copy, newDoc, task, budget>>

\* staging.load and the processing copy; the staged file stays where it is.
CopyStaged(w) ==
    /\ copy' = [copy EXCEPT ![w] = staging[task[w]]]
    /\ UNCHANGED staging

\* A missing file raises before the session opened a new transaction:
\* _mark_failed then sees the PROCESSING it committed, whatever the row holds.
WorkerLoad(w) ==
    /\ pc[w] = "load"
    /\ IF staging[task[w]] = None
         THEN Goto(w, "markFailed") /\ UNCHANGED <<copy, staging>>
         ELSE CopyStaged(w) /\ Goto(w, "check")
    /\ UNCHANGED <<jobVars, docVars, fileVars, queue, apiPc, newDoc, task, budget>>

WorkerLoadFault(w) ==
    /\ pc[w] = "load"
    /\ Spend("fault")
    /\ Goto(w, "markFailed")
    /\ UNCHANGED <<jobVars, docVars, staging, fileVars, queue, apiPc, copy, newDoc, task>>

\* The job row as the completing commit writes it: neither the status it holds
\* by then nor error_message, which is None in the session already, is looked at.
CompleteJob(w) ==
    /\ jobStatus' = [jobStatus EXCEPT ![task[w]] = "COMPLETED"]
    /\ jobDoc' = [jobDoc EXCEPT ![task[w]] = newDoc[w]]
    /\ UNCHANGED jobError

\* One commit publishes the document, its chunks and the job row.
WorkerComplete(w) ==
    /\ pc[w] = "complete"
    /\ CompleteJob(w)
    /\ CommitDocument(w, task[w])
    /\ Release(w)
    /\ Goto(w, "cleanup")
    /\ UNCHANGED <<staging, fileVars, queue, apiPc, task, budget>>

\* The commit raises: the handler removes the document's directory, whether or
\* not the commit took effect.
WorkerCompleteFails(w) ==
    /\ pc[w] = "complete"
    /\ Spend("fault")
    /\ \/ UNCHANGED <<jobVars, docVars>>
       \/ /\ "commit" \in Ambiguous
          /\ CompleteJob(w)
          /\ CommitDocument(w, task[w])
    /\ DropAttempt(w)
    /\ Goto(w, "reload")
    /\ UNCHANGED <<staging, queue, apiPc, task>>

\* The commit raises, and so does the removal of the document's directory: the
\* handler ends before _mark_failed, only the finally clause is left.
WorkerDiscardFails(w) ==
    /\ pc[w] = "complete"
    /\ budget["fault"] > 0 /\ budget["removal"] > 0
    /\ budget' = [budget EXCEPT !["fault"] = @ - 1, !["removal"] = @ - 1]
    /\ \/ /\ LeaveAttempt(w)
          /\ unrecorded' = unrecorded \cup {task[w]}
          /\ UNCHANGED <<jobVars, docVars>>
       \/ /\ "commit" \in Ambiguous
          /\ CompleteJob(w)
          /\ CommitDocument(w, task[w])
          /\ KeepAttempt(w)
    /\ Goto(w, "cleanup")
    /\ UNCHANGED <<staging, queue, apiPc, task>>

\* _mark_failed, first half: the row is read again after a rollback.
WorkerReload(w) ==
    /\ pc[w] = "reload"
    /\ Goto(w, IF Handled(task[w]) THEN "cleanup" ELSE "markFailed")
    /\ UNCHANGED <<jobVars, docVars, staging, fileVars, queue, apiPc, copy, newDoc, task, budget>>

\* _mark_failed, second half: an UPDATE by primary key alone.
WorkerMarkFailed(w) ==
    /\ pc[w] = "markFailed"
    /\ RecordFailure(task[w])
    /\ Goto(w, "cleanup")
    /\ UNCHANGED <<docVars, staging, fileVars, queue, apiPc, copy, newDoc, task, budget>>

\* A database error outside ingest_staged.  Reading the job: the task fails and
\* is acknowledged.  Committing the claim: the generic handler.  In _mark_failed:
\* the finally clause still removes the staged file.
WorkerDbError(w) ==
    /\ Spend("dbError")
    /\ \/ pc[w] = "claim" /\ Goto(w, "ack")
       \/ pc[w] = "claim" /\ Goto(w, "reload")
       \/ pc[w] \in {"reload", "markFailed"} /\ Goto(w, "cleanup")
    /\ UNCHANGED <<jobVars, docVars, staging, fileVars, queue, apiPc, copy, newDoc, task>>

WorkerCleanup(w) ==
    /\ pc[w] = "cleanup"
    /\ Unstage(task[w])
    /\ Goto(w, "ack")
    /\ UNCHANGED <<jobVars, docVars, fileVars, queue, apiPc, copy, newDoc, task, budget>>

\* Removing the staged file raises, in the finally clause or for a job that has
\* ended already: the task raises and is acknowledged, the file stays.
WorkerRemoveFails(w) ==
    /\ pc[w] = "cleanup" \/ (pc[w] = "claim" /\ Handled(task[w]))
    /\ staging[task[w]] # None
    /\ Spend("removal")
    /\ unremoved' = unremoved \cup {task[w]}
    /\ Goto(w, "ack")
    /\ UNCHANGED <<jobVars, docVars, staging, files, leaked, unrecorded, queue, apiPc,
                   copy, newDoc, task>>

\* acks_late: the message is acknowledged when the task has returned or raised.
WorkerAck(w) ==
    /\ pc[w] = "ack"
    /\ task' = [task EXCEPT ![w] = None]
    /\ Goto(w, "idle")
    /\ UNCHANGED <<jobVars, docVars, staging, fileVars, queue, apiPc, copy, newDoc, budget>>

-----------------------------------------------------------------------------
(* Process losses, the broker and the user                                  *)

\* task_reject_on_worker_lost puts the unacknowledged message back.
Requeue(w) == queue' = [queue EXCEPT ![task[w]] = @ + 1]

\* An uncommitted transaction is rolled back; the directory made is left.
WorkerCrash(w) ==
    /\ pc[w] # "idle"
    /\ Spend("crash")
    /\ Requeue(w)
    /\ task' = [task EXCEPT ![w] = None]
    /\ leaked' = leaked \cup ({newDoc[w]} \ {None})
    /\ Release(w)
    /\ Goto(w, "idle")
    /\ UNCHANGED <<jobVars, docVars, staging, files, unremoved, unrecorded, apiPc>>

\* The API process dies with every request in it.
ApiCrash ==
    LET requests == {j \in Jobs : apiPc[j] \notin {"idle", "done", "aborted"}}
        uploads  == {u \in Uploads : pc[u] \notin {"idle", "done"}}
    IN  /\ requests # {} \/ uploads # {}
        /\ Spend("crash")
        /\ apiPc' = [j \in Jobs |-> IF j \in requests THEN "aborted" ELSE apiPc[j]]
        /\ pc' = [p \in Ingesters |-> IF p \in uploads THEN "done" ELSE pc[p]]
        /\ copy' = [p \in Ingesters |-> IF p \in uploads THEN None ELSE copy[p]]
        /\ newDoc' = [p \in Ingesters |-> IF p \in uploads THEN None ELSE newDoc[p]]
        /\ leaked' = leaked \cup ({newDoc[u] : u \in uploads} \ {None})
        /\ UNCHANGED <<jobVars, docVars, staging, files, unremoved, unrecorded, queue, task>>

\* The visibility timeout of Redis passes while a worker is still busy.
BrokerRedeliver(w) ==
    /\ task[w] # None
    /\ Spend("redelivery")
    /\ queue' = [queue EXCEPT ![task[w]] = @ + 1]
    /\ UNCHANGED <<jobVars, docVars, staging, fileVars, apiPc, ingVars, task>>

\* DELETE /documents/{id} of a listed document; any other call changes nothing.
DeleteDocument(d) ==
    /\ d \in Active
    /\ deleted' = deleted \cup {d}
    /\ UNCHANGED <<jobVars, docContent, origin, staging, fileVars, queue, apiPc, ingVars, task,
                   budget>>

Quiescent ==
    /\ \A j \in Jobs : apiPc[j] \in {"done", "aborted"} /\ queue[j] = 0
    /\ \A u \in Uploads : pc[u] = "done"
    /\ \A w \in Workers : pc[w] = "idle"

\* Every request has been made and answered.
Finished == Quiescent /\ UNCHANGED vars

-----------------------------------------------------------------------------

ApiStep(j) ==
    \/ ApiRefuse(j) \/ \E c \in Contents : ApiStage(j, c)
    \/ ApiCheck(j) \/ ApiCreateJob(j) \/ ApiPublish(j)
    \/ ApiMarkFailed(j) \/ ApiUnstage(j)

IngestStep(p) ==
    IngestCheck(p) \/ IngestFinalize(p) \/ IngestParse(p) \/ IngestInsert(p)

UploadStep(u) ==
    \/ UploadRefuse(u) \/ \E c \in Contents : UploadStage(u, c)
    \/ IngestStep(u)

WorkerStep(w) ==
    \/ \E j \in Jobs : WorkerReceive(w, j)
    \/ WorkerClaim(w) \/ WorkerLoad(w) \/ IngestStep(w) \/ WorkerComplete(w)
    \/ WorkerReload(w) \/ WorkerMarkFailed(w) \/ WorkerCleanup(w) \/ WorkerAck(w)

Failure ==
    \/ \E j \in Jobs : ApiPublishFails(j) \/ ApiRemoveFails(j) \/ ApiDbError(j)
    \/ \E u \in Uploads : UploadCommitLost(u)
    \/ \E p \in Ingesters : IngestFault(p) \/ FinalizeFault(p) \/ IngestRemoveFails(p)
    \/ \E w \in Workers : \/ WorkerLoadFault(w) \/ WorkerCompleteFails(w)
                          \/ WorkerDiscardFails(w) \/ WorkerRemoveFails(w)
                          \/ WorkerDbError(w) \/ WorkerCrash(w) \/ BrokerRedeliver(w)
    \/ ApiCrash

Next ==
    \/ \E j \in Jobs : ApiStep(j)
    \/ \E u \in Uploads : UploadStep(u)
    \/ \E w \in Workers : WorkerStep(w)
    \/ \E d \in Docs : DeleteDocument(d)
    \/ Failure
    \/ Finished

Spec == Init /\ [][Next]_vars

\* The API's threads and the workers keep running; nothing is assumed of the
\* user, of failures, or of the order in which messages are taken.
FairSpec ==
    /\ Spec
    /\ \A j \in Jobs : WF_vars(ApiStep(j))
    /\ \A u \in Uploads : WF_vars(UploadStep(u))
    /\ \A w \in Workers : WF_vars(WorkerStep(w))

-----------------------------------------------------------------------------
(* Properties                                                               *)

\* Every variable has its type.
TypeOK ==
    /\ jobStatus \in [Jobs -> Statuses]
    /\ jobDoc \in [Jobs -> Docs \cup {None}]
    /\ jobError \in [Jobs -> BOOLEAN]
    /\ docContent \in [Docs -> Contents \cup {None}]
    /\ deleted \subseteq Docs
    /\ origin \in [Docs -> Jobs \cup {None}]
    /\ staging \in [Jobs -> Contents \cup {None}]
    /\ files \subseteq Docs
    /\ leaked \subseteq Docs
    /\ unremoved \subseteq Jobs /\ unrecorded \subseteq Jobs
    /\ queue \in [Jobs -> Nat]
    /\ apiPc \in [Jobs -> ApiSteps]
    /\ pc \in [Ingesters -> Steps]
    /\ copy \in [Ingesters -> Contents \cup {None}]
    /\ newDoc \in [Ingesters -> Docs \cup {None}]
    /\ task \in [Workers -> Jobs \cup {None}]
    /\ budget \in [FailureKinds -> Nat]

\* Two documents that are not deleted never have the same content, although the
\* duplicate is looked for long before the document is inserted and any number
\* of uploads and workers are between the two.
UniqueActiveContent ==
    \A d, e \in Active : docContent[d] = docContent[e] => d = e

\* The job row tells what happened to the file: a job is COMPLETED exactly when
\* a document was inserted for it, jobDoc is that document and there is no other
\* one, and it carries an error message exactly when it FAILED.  (Redeliveries,
\* lost workers and failed commits in any order.)
JobRecordConsistent ==
    \A j \in Jobs :
       /\ {d \in Rows : origin[d] = j}
            = (IF jobStatus[j] = "COMPLETED" THEN {jobDoc[j]} ELSE {})
       /\ jobError[j] <=> jobStatus[j] = "FAILED"

\* A job that a delivery may still have to process has its staged file, so a
\* redelivery after the loss of a worker can process it.  (Except for the job
\* whose failure no worker could record: its staged file is removed all the same.)
StagedWhileNeeded ==
    \A j \in Jobs :
       jobStatus[j] \in {"QUEUED", "PROCESSING"} /\ j \notin unrecorded => staging[j] # None

\* A worker that will still write the outcome of job j.
Processing(j) ==
    \E w \in Workers : task[w] = j /\ pc[w] \notin {"cleanup", "ack"}

\* A QUEUED or PROCESSING job is in somebody's hands: its request has yet to
\* publish it, a message waits, or a worker is at it.  The only jobs that stay
\* behind are those whose request was aborted between the commit of the row and
\* the message, those a database error hit, and those whose failure was not
\* recorded because the removal of the document's files raised.
UnsettledIsCarried ==
    budget["dbError"] = MaxDbErrors =>
       \A j \in Jobs : jobStatus[j] \in {"QUEUED", "PROCESSING"} /\ j \notin unrecorded =>
          queue[j] > 0 \/ apiPc[j] \in {"publish", "markFailed", "aborted"} \/ Processing(j)

\* A staged file has somebody who will remove it: a request in progress, a
\* message or a worker.  Left behind are only that of an aborted request, that
\* whose removal was tried and raised (and that of a job a database error hit).
StagedFilesCarried ==
    budget["dbError"] = MaxDbErrors =>
       \A j \in Jobs : staging[j] # None =>
          \/ queue[j] > 0 \/ apiPc[j] \notin {"idle", "done"}
          \/ \E w \in Workers : task[w] = j /\ pc[w] # "ack"
          \/ j \in unremoved

\* A document directory belongs to a document, to the attempt that is about to
\* insert it, or is known to be the leftover of a lost process, a failed move or
\* a failed removal, and never to two of them: an attempt that returned an error
\* leaves one only if the removal of the directory raised.
FilesAccounted ==
    /\ files \subseteq Rows \cup Pending \cup leaked
    /\ Pending \cup leaked \subseteq files
    /\ Rows \cap Pending = {} /\ Rows \cap leaked = {} /\ Pending \cap leaked = {}
    /\ \A p, q \in Ingesters : newDoc[p] = newDoc[q] /\ newDoc[p] # None => p = q

\* The source file of every document row is kept, also after its deletion.
SourceRetained == Rows \subseteq files

\* What a job is to its user: its document once it is COMPLETED.
JobOutcome(j) ==
    CASE jobStatus[j] = "none" -> "none"
      [] jobStatus[j] \in {"QUEUED", "PROCESSING"} -> "pending"
      [] jobStatus[j] = "FAILED" -> "failed"
      [] jobStatus[j] = "COMPLETED" -> jobDoc[j]

Library == INSTANCE DocumentLibrary
             WITH job <- [j \in Jobs |-> JobOutcome(j)], content <- docContent

\* Ingestion implements the document library: every step is one step of the
\* library or none of its business.  In particular a job ends once.
ImplementsLibrary == Library!Spec

\* A job that COMPLETED or FAILED never changes its status again.
TerminalIsFinal ==
    [][\A j \in Jobs : jobStatus[j] \in Terminal => jobStatus'[j] = jobStatus[j]]_vars

\* A job whose row was committed ends.
AcceptedJobsSettle ==
    \A j \in Jobs : jobStatus[j] = "QUEUED" ~> jobStatus[j] \in Terminal

\* A published job ends and leaves no staged file behind, whatever happens to
\* the workers in between; so does a job whose row is committed, unless its
\* request is aborted.  A file whose removal raised stays, a job whose failure
\* could not be recorded does not end (and a database error may lose a message).
JobsSettle ==
    \A j \in Jobs :
       LET settled == \/ jobStatus[j] \in Terminal /\ (staging[j] = None \/ j \in unremoved)
                      \/ j \in unrecorded
                      \/ budget["dbError"] < MaxDbErrors
       IN  /\ queue[j] > 0 ~> settled
           /\ jobStatus[j] = "QUEUED" ~> settled \/ apiPc[j] = "aborted"
=============================================================================
