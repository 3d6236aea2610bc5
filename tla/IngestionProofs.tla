--------------------------- MODULE IngestionProofs ---------------------------
(***************************************************************************)
(* Proofs about Ingestion for every number of jobs, uploads and workers    *)
(* and every bound on the failures.                                        *)
(***************************************************************************)
EXTENDS Ingestion, TLAPS

-----------------------------------------------------------------------------
(* Type correctness                                                         *)

\* A worker that is not idle holds a delivery; with the types, this is inductive.
BusyWorkersHaveTask == \A w \in Workers : pc[w] # "idle" => task[w] \in Jobs

TypeInv == TypeOK /\ BusyWorkersHaveTask

\* The steps of a request or a worker, by the part of the system they belong to.
LEMMA TypeInvInit == Init => TypeInv
<1> SUFFICES ASSUME Init PROVE TypeInv
  OBVIOUS
<1>1. budget \in [FailureKinds -> Nat]
  BY BoundsAssumption DEF Init, FailureKinds
<1>2. TypeOK
  BY <1>1 DEF Init, TypeOK, Statuses, ApiSteps, Steps, IngestSteps
<1>3. BusyWorkersHaveTask
  BY DEF Init, BusyWorkersHaveTask, Ingesters
<1> QED
  BY <1>2, <1>3 DEF TypeInv

LEMMA SpendType ==
  ASSUME TypeInv, NEW kind \in FailureKinds, Spend(kind)
  PROVE  budget' \in [FailureKinds -> Nat]
BY DEF TypeInv, TypeOK, Spend

\* The commit and the removal of the document's files that raise spend two.
LEMMA DiscardBudget ==
  ASSUME TypeInv, NEW w, WorkerDiscardFails(w)
  PROVE  /\ budget' \in [FailureKinds -> Nat]
         /\ \A kind \in {"dbError", "redelivery"} : budget'[kind] = budget[kind]
BY DEF TypeInv, TypeOK, WorkerDiscardFails, FailureKinds

LEMMA TypeInvApi ==
  ASSUME TypeInv, NEW j \in Jobs,
         ApiStep(j) \/ ApiPublishFails(j) \/ ApiRemoveFails(j) \/ ApiDbError(j)
  PROVE  TypeInv'
<1> USE DEF TypeInv, TypeOK, BusyWorkersHaveTask, jobVars, docVars, fileVars, ingVars,
            ApiGoto, Unstage
<1>1. CASE ApiRefuse(j)
  BY <1>1 DEF ApiRefuse, ApiSteps
<1>2. CASE \E c \in Contents : ApiStage(j, c)
  BY <1>2 DEF ApiStage, ApiSteps
<1>3. CASE ApiCheck(j)
  BY <1>3 DEF ApiCheck, ApiSteps
<1>4. CASE ApiCreateJob(j)
  BY <1>4 DEF ApiCreateJob, ApiSteps, Statuses
<1>5. CASE ApiPublish(j)
  BY <1>5 DEF ApiPublish, ApiSteps
<1>6. CASE ApiMarkFailed(j)
  BY <1>6 DEF ApiMarkFailed, RecordFailure, ApiSteps, Statuses, Terminal
<1>7. CASE ApiUnstage(j)
  BY <1>7 DEF ApiUnstage, ApiSteps
<1>8. CASE ApiPublishFails(j)
  <2>1. budget' \in [FailureKinds -> Nat]
    BY <1>8, SpendType DEF ApiPublishFails, FailureKinds
  <2> QED
    BY <1>8, <2>1 DEF ApiPublishFails, ApiSteps
<1>9. CASE ApiDbError(j)
  <2>1. budget' \in [FailureKinds -> Nat]
    BY <1>9, SpendType DEF ApiDbError, FailureKinds
  <2> QED
    BY <1>9, <2>1 DEF ApiDbError, ApiSteps
<1>10. CASE ApiRemoveFails(j)
  <2>1. budget' \in [FailureKinds -> Nat]
    BY <1>10, SpendType DEF ApiRemoveFails, FailureKinds
  <2> QED
    BY <1>10, <2>1 DEF ApiRemoveFails, ApiSteps
<1> QED
  BY <1>1, <1>2, <1>3, <1>4, <1>5, <1>6, <1>7, <1>8, <1>9, <1>10 DEF ApiStep

\* Giving up an ingestion keeps the types: a worker goes on to reload its job.
LEMMA TypeInvReject ==
  ASSUME TypeInv, NEW p \in Ingesters, pc[p] # "idle", Reject(p),
         budget' \in [FailureKinds -> Nat]
  PROVE  TypeInv'
BY DEF TypeInv, TypeOK, BusyWorkersHaveTask, jobVars, docVars, Reject, DropAttempt,
       Release, Goto, AfterReject, Steps

\* Moving on to the next step and nothing else keeps the types.
LEMMA KeepsTypes ==
  ASSUME TypeInv, NEW p \in Ingesters, pc[p] # "idle",
         NEW step \in IngestSteps \cup {"complete"}, Goto(p, step),
         UNCHANGED <<jobVars, docVars, staging, fileVars, queue, apiPc, copy, newDoc,
                     task, budget>>
  PROVE  TypeInv'
BY DEF TypeInv, TypeOK, BusyWorkersHaveTask, jobVars, docVars, fileVars, Goto,
       Steps, IngestSteps, Ingesters

LEMMA TypeInvIngest ==
  ASSUME TypeInv, NEW p \in Ingesters,
         IngestStep(p) \/ IngestFault(p) \/ FinalizeFault(p) \/ IngestRemoveFails(p)
  PROVE  TypeInv'
<1> USE DEF TypeInv, TypeOK, BusyWorkersHaveTask, jobVars, docVars, fileVars, Goto, Release
<1>1. ASSUME UNCHANGED budget, Reject(p), pc[p] # "idle"
      PROVE  TypeInv'
  BY <1>1, TypeInvReject
<1>2. CASE IngestCheck(p)
  <2>1. CASE copy[p] \in Invalid \/ Duplicate(copy[p])
    BY <1>1, <1>2, <2>1 DEF IngestCheck
  <2>2. CASE ~(copy[p] \in Invalid \/ Duplicate(copy[p]))
    BY <1>2, <2>2, KeepsTypes DEF IngestCheck, IngestSteps
  <2> QED
    BY <2>1, <2>2
<1>3. CASE IngestFinalize(p)
  BY <1>3 DEF IngestFinalize, UnusedDocs, Steps, IngestSteps
<1>4. CASE IngestParse(p)
  <2>1. CASE copy[p] \in Unreadable
    BY <1>1, <1>4, <2>1 DEF IngestParse
  <2>2. CASE copy[p] \notin Unreadable
    BY <1>4, <2>2, KeepsTypes DEF IngestParse, IngestSteps
  <2> QED
    BY <2>1, <2>2
<1>5. CASE IngestInsert(p)
  <2>1. CASE IndexConflict(p)
    BY <1>1, <1>5, <2>1 DEF IngestInsert
  <2>2. CASE ~IndexConflict(p) /\ p \in Uploads
    BY <1>5, <2>2, ProcessAssumption
       DEF IngestInsert, CommitDocument, KeepAttempt, Steps, Ingesters
  <2>3. CASE ~IndexConflict(p) /\ p \in Workers
    BY <1>5, <2>3, ProcessAssumption, KeepsTypes DEF IngestInsert
  <2> QED
    BY <2>1, <2>2, <2>3 DEF Ingesters
<1>6. CASE IngestFault(p)
  <2>1. budget' \in [FailureKinds -> Nat]
    BY <1>6, SpendType DEF IngestFault, FailureKinds
  <2> QED
    BY <1>6, <2>1, TypeInvReject DEF IngestFault, IngestSteps
<1>7. CASE FinalizeFault(p)
  <2>1. budget' \in [FailureKinds -> Nat]
    BY <1>7, SpendType DEF FinalizeFault, FailureKinds
  <2> QED
    BY <1>7, <2>1 DEF FinalizeFault, UnusedDocs, AfterReject, Steps
<1>8. CASE IngestRemoveFails(p)
  <2>1. budget' \in [FailureKinds -> Nat]
    BY <1>8, SpendType DEF IngestRemoveFails, FailureKinds
  <2> QED
    BY <1>8, <2>1 DEF IngestRemoveFails, LeaveAttempt, AfterReject, Steps
<1> QED
  BY <1>2, <1>3, <1>4, <1>5, <1>6, <1>7, <1>8 DEF IngestStep

LEMMA TypeInvUpload ==
  ASSUME TypeInv, NEW u \in Uploads, UploadStep(u) \/ UploadCommitLost(u)
  PROVE  TypeInv'
<1> USE DEF TypeInv, TypeOK, BusyWorkersHaveTask, jobVars, docVars, fileVars, Goto
<1>1. u \in Ingesters /\ u \notin Workers
  BY ProcessAssumption DEF Ingesters
<1>2. CASE UploadRefuse(u)
  BY <1>1, <1>2 DEF UploadRefuse, Steps
<1>3. CASE \E c \in Contents : UploadStage(u, c)
  BY <1>1, <1>3 DEF UploadStage, Steps, IngestSteps
<1>4. CASE IngestStep(u)
  BY <1>1, <1>4, TypeInvIngest
<1>5. CASE UploadCommitLost(u)
  <2>1. budget' \in [FailureKinds -> Nat]
    BY <1>5, SpendType DEF UploadCommitLost, FailureKinds
  <2> QED
    BY <1>1, <1>5, <2>1 DEF UploadCommitLost, CommitDocument, DropAttempt, Release, Steps, Ingesters
<1> QED
  BY <1>2, <1>3, <1>4, <1>5 DEF UploadStep

LEMMA TypeInvWorker ==
  ASSUME TypeInv, NEW w \in Workers, WorkerStep(w)
  PROVE  TypeInv'
<1> USE DEF TypeInv, TypeOK, BusyWorkersHaveTask, jobVars, docVars, fileVars, Goto,
            Unstage, Release
<1>1. w \in Ingesters
  BY DEF Ingesters
<1>2. CASE \E j \in Jobs : WorkerReceive(w, j)
  <2>1. PICK j \in Jobs : WorkerReceive(w, j)
    BY <1>2
  <2>2. queue[j] - 1 \in Nat
    BY <2>1 DEF WorkerReceive, Deliverable
  <2> QED
    BY <1>1, <2>1, <2>2 DEF WorkerReceive, Steps
<1>3. CASE WorkerClaim(w)
  BY <1>1, <1>3 DEF WorkerClaim, Steps, Statuses, Ingesters
<1>4. CASE WorkerLoad(w)
  BY <1>1, <1>4 DEF WorkerLoad, CopyStaged, Steps, IngestSteps, Ingesters
<1>5. CASE IngestStep(w)
  BY <1>1, <1>5, TypeInvIngest
<1>6. CASE WorkerComplete(w)
  BY <1>1, <1>6 DEF WorkerComplete, CompleteJob, CommitDocument, Steps, Statuses, Terminal, Ingesters
<1>7. CASE WorkerReload(w)
  BY <1>1, <1>7 DEF WorkerReload, Steps
<1>8. CASE WorkerMarkFailed(w)
  BY <1>1, <1>8 DEF WorkerMarkFailed, RecordFailure, Steps, Statuses, Terminal
<1>9. CASE WorkerCleanup(w)
  BY <1>1, <1>9 DEF WorkerCleanup, Steps
<1>10. CASE WorkerAck(w)
  BY <1>1, <1>10 DEF WorkerAck, Steps
<1> QED
  BY <1>2, <1>3, <1>4, <1>5, <1>6, <1>7, <1>8, <1>9, <1>10 DEF WorkerStep

LEMMA TypeInvWorkerFailure ==
  ASSUME TypeInv, NEW w \in Workers,
         \/ WorkerLoadFault(w) \/ WorkerCompleteFails(w) \/ WorkerDiscardFails(w)
         \/ WorkerRemoveFails(w) \/ WorkerDbError(w)
         \/ WorkerCrash(w) \/ BrokerRedeliver(w)
  PROVE  TypeInv'
<1> USE DEF TypeInv, TypeOK, BusyWorkersHaveTask, jobVars, docVars, fileVars, ingVars,
            Goto, Release
<1>1. w \in Ingesters
  BY DEF Ingesters
<1>2. budget' \in [FailureKinds -> Nat]
  BY SpendType, DiscardBudget
     DEF FailureKinds, WorkerLoadFault, WorkerCompleteFails, WorkerRemoveFails, WorkerDbError,
         WorkerCrash, BrokerRedeliver
<1>3. CASE WorkerLoadFault(w)
  BY <1>1, <1>2, <1>3 DEF WorkerLoadFault, Steps
<1>4. CASE WorkerCompleteFails(w)
  BY <1>1, <1>2, <1>4 DEF WorkerCompleteFails, CompleteJob, CommitDocument, DropAttempt,
                          Steps, Statuses, Terminal
<1>5. CASE WorkerDbError(w)
  BY <1>1, <1>2, <1>5 DEF WorkerDbError, Steps, Ingesters
<1>6. CASE WorkerCrash(w)
  BY <1>1, <1>2, <1>6 DEF WorkerCrash, Requeue, Steps
<1>7. CASE BrokerRedeliver(w)
  BY <1>1, <1>2, <1>7 DEF BrokerRedeliver
<1>8. CASE WorkerDiscardFails(w)
  <2>1. pc[w] # "idle" /\ Goto(w, "cleanup") /\ UNCHANGED <<staging, queue, apiPc, task>>
    BY <1>8 DEF WorkerDiscardFails
  <2>2. CASE LeaveAttempt(w) /\ unrecorded' = unrecorded \cup {task[w]}
             /\ UNCHANGED <<jobVars, docVars>>
    BY <1>1, <1>2, <2>1, <2>2 DEF LeaveAttempt, Steps
  <2>3. CASE CompleteJob(w) /\ CommitDocument(w, task[w]) /\ KeepAttempt(w)
    BY <1>1, <1>2, <2>1, <2>3
       DEF CompleteJob, CommitDocument, KeepAttempt, Steps, Statuses, Terminal, Ingesters
  <2> QED
    BY <1>8, <2>2, <2>3 DEF WorkerDiscardFails
<1>9. CASE WorkerRemoveFails(w)
  BY <1>1, <1>2, <1>9 DEF WorkerRemoveFails, Steps
<1> QED
  BY <1>3, <1>4, <1>5, <1>6, <1>7, <1>8, <1>9

LEMMA TypeInvApiCrash ==
  ASSUME TypeInv, ApiCrash
  PROVE  TypeInv'
<1> DEFINE uploads == {u \in Uploads : pc[u] \notin {"idle", "done"}}
<1>1. budget' \in [FailureKinds -> Nat]
  BY SpendType DEF ApiCrash, FailureKinds
<1>2. {newDoc[u] : u \in uploads} \ {None} \subseteq Docs
  BY DEF TypeInv, TypeOK, Ingesters
<1>3. leaked' \subseteq Docs
  BY <1>2 DEF ApiCrash, TypeInv, TypeOK
<1>4. uploads \cap Workers = {}
  BY ProcessAssumption
<1>5. \A w \in Workers : pc'[w] = pc[w]
  BY <1>4 DEF ApiCrash, Ingesters
<1>6. TypeOK'
  BY <1>1, <1>3 DEF ApiCrash, TypeInv, TypeOK, jobVars, docVars, ApiSteps, Steps
<1>7. BusyWorkersHaveTask'
  BY <1>5 DEF ApiCrash, TypeInv, BusyWorkersHaveTask
<1> QED
  BY <1>6, <1>7 DEF TypeInv

LEMMA TypeInvNext == TypeInv /\ [Next]_vars => TypeInv'
<1> SUFFICES ASSUME TypeInv, [Next]_vars PROVE TypeInv'
  OBVIOUS
<1>1. CASE \E j \in Jobs : ApiStep(j) \/ ApiPublishFails(j) \/ ApiRemoveFails(j) \/ ApiDbError(j)
  BY <1>1, TypeInvApi
<1>2. CASE \E u \in Uploads : UploadStep(u) \/ UploadCommitLost(u)
  BY <1>2, TypeInvUpload
<1>3. CASE \E w \in Workers : WorkerStep(w)
  BY <1>3, TypeInvWorker
<1>4. CASE \E p \in Ingesters : IngestFault(p) \/ FinalizeFault(p) \/ IngestRemoveFails(p)
  BY <1>4, TypeInvIngest
<1>5. CASE \E w \in Workers : \/ WorkerLoadFault(w) \/ WorkerCompleteFails(w)
                              \/ WorkerDiscardFails(w) \/ WorkerRemoveFails(w) \/ WorkerDbError(w)
                              \/ WorkerCrash(w) \/ BrokerRedeliver(w)
  BY <1>5, TypeInvWorkerFailure
<1>6. CASE ApiCrash
  BY <1>6, TypeInvApiCrash
<1>7. CASE \E d \in Docs : DeleteDocument(d)
  BY <1>7 DEF DeleteDocument, TypeInv, TypeOK, BusyWorkersHaveTask, jobVars, fileVars, ingVars
<1>8. CASE UNCHANGED vars
  BY <1>8 DEF vars, TypeInv, TypeOK, BusyWorkersHaveTask, jobVars, docVars, fileVars, ingVars
<1> QED
  BY <1>1, <1>2, <1>3, <1>4, <1>5, <1>6, <1>7, <1>8 DEF Next, Failure, Finished

THEOREM TypeCorrect == Spec => []TypeOK
<1>1. Spec => []TypeInv
  BY TypeInvInit, TypeInvNext, PTL DEF Spec
<1> QED
  BY <1>1, PTL DEF TypeInv

-----------------------------------------------------------------------------
(* Unique content.  The duplicate check is long past when a document becomes *)
(* visible; what holds in between is the reservation of the index: a worker  *)
(* that has flushed its insert is the only one that may commit its content.  *)

FlushedIsReserved ==
    \A w \in Workers : pc[w] = "complete" =>
       /\ ~Duplicate(copy[w])
       /\ \A v \in Workers : v # w /\ pc[v] = "complete" => copy[v] # copy[w]

UniqueInv == UniqueActiveContent /\ FlushedIsReserved

\* A step that commits no document and flushes no insert.
LEMMA UniqueUndisturbed ==
  ASSUME UniqueInv, UNCHANGED <<docContent, deleted>>,
         \A w \in Workers : pc'[w] = "complete" => pc[w] = "complete" /\ copy'[w] = copy[w]
  PROVE  UniqueInv'
BY DEF UniqueInv, UniqueActiveContent, FlushedIsReserved, Duplicate, Active, Rows

\* A step of p that commits a document whose content no other may commit.
LEMMA UniqueCommit ==
  ASSUME TypeInv, UniqueInv, NEW p \in Ingesters, NEW owner, CommitDocument(p, owner),
         ~Duplicate(copy[p]),
         \A w \in Workers : pc'[w] = "complete" =>
             pc[w] = "complete" /\ copy'[w] = copy[w] /\ copy[w] # copy[p]
  PROVE  UniqueInv'
<1>1. \A d \in Active' : (d \in Active /\ docContent'[d] = docContent[d])
                         \/ (d = newDoc[p] /\ docContent'[d] = copy[p])
  BY DEF TypeInv, TypeOK, CommitDocument, Active, Rows
<1>2. UniqueActiveContent'
  BY <1>1 DEF UniqueInv, UniqueActiveContent, Duplicate
<1>3. FlushedIsReserved'
  BY <1>1 DEF UniqueInv, FlushedIsReserved, Duplicate
<1> QED
  BY <1>2, <1>3 DEF UniqueInv

\* A step of one request or worker that flushes nothing.
LEMMA UniqueOtherStep ==
  ASSUME TypeInv, UniqueInv, UNCHANGED <<docContent, deleted>>,
         NEW p \in Ingesters, NEW step, step # "complete", Goto(p, step),
         \A q \in Ingesters : q # p => copy'[q] = copy[q]
  PROVE  UniqueInv'
<1>1. \A w \in Workers : pc'[w] = "complete" => pc[w] = "complete" /\ copy'[w] = copy[w]
  BY DEF TypeInv, TypeOK, Goto, Ingesters
<1> QED
  BY <1>1, UniqueUndisturbed

LEMMA UniqueReject ==
  ASSUME TypeInv, UniqueInv, NEW p \in Ingesters, Reject(p)
  PROVE  UniqueInv'
<1>1. AfterReject(p) # "complete"
  BY DEF AfterReject
<1>2. \A q \in Ingesters : q # p => copy'[q] = copy[q]
  BY DEF Reject, DropAttempt, Release, TypeInv, TypeOK
<1> QED
  BY <1>1, <1>2, UniqueOtherStep DEF Reject, docVars

LEMMA UniqueIngest ==
  ASSUME TypeInv, UniqueInv, NEW p \in Ingesters,
         IngestStep(p) \/ IngestFault(p) \/ FinalizeFault(p) \/ IngestRemoveFails(p)
  PROVE  UniqueInv'
<1>1. CASE Reject(p)
  BY <1>1, UniqueReject
<1>2. CASE IngestCheck(p) /\ ~Reject(p)
  BY <1>2, UniqueOtherStep DEF IngestCheck, docVars
<1>3. CASE IngestFinalize(p)
  BY <1>3, UniqueOtherStep DEF IngestFinalize, docVars
<1>4. CASE IngestParse(p) /\ ~Reject(p)
  BY <1>4, UniqueOtherStep DEF IngestParse, docVars
<1>5. CASE IngestInsert(p) /\ ~Reject(p)
  <2>1. ~IndexBlocks(p) /\ ~Duplicate(copy[p])
    BY <1>5 DEF IngestInsert, IndexConflict
  <2>2. CASE p \in Uploads
    <3>1. p \notin Workers
      BY <2>2, ProcessAssumption
    <3>2. CommitDocument(p, None) /\ Release(p) /\ Goto(p, "done")
      BY <1>5, <2>1, <2>2, <3>1 DEF IngestInsert, KeepAttempt
    <3>3. \A w \in Workers : pc'[w] = "complete" =>
              pc[w] = "complete" /\ copy'[w] = copy[w] /\ copy[w] # copy[p]
      BY <2>1, <3>1, <3>2 DEF TypeInv, TypeOK, IndexBlocks, Release, Goto, Ingesters
    <3> QED
      BY <2>1, <3>2, <3>3, UniqueCommit
  <2>3. CASE p \in Workers
    <3>1. Goto(p, "complete") /\ UNCHANGED <<docContent, deleted, copy>>
      BY <1>5, <2>1, <2>3, ProcessAssumption DEF IngestInsert, docVars
    <3>2. UniqueActiveContent'
      BY <3>1 DEF UniqueInv, UniqueActiveContent, Active, Rows
    <3>3. FlushedIsReserved'
      BY <2>1, <3>1 DEF UniqueInv, FlushedIsReserved, IndexBlocks, Duplicate, Active, Rows,
                        Goto, TypeInv, TypeOK, Ingesters
    <3> QED
      BY <3>2, <3>3 DEF UniqueInv
  <2> QED
    BY <2>2, <2>3 DEF Ingesters
<1>6. CASE FinalizeFault(p)
  <2>1. AfterReject(p) # "complete"
    BY DEF AfterReject
  <2>2. \A q \in Ingesters : q # p => copy'[q] = copy[q]
    BY <1>6 DEF FinalizeFault, Release, TypeInv, TypeOK
  <2> QED
    BY <1>6, <2>1, <2>2, UniqueOtherStep DEF FinalizeFault, docVars
<1>7. CASE IngestRemoveFails(p)
  <2>1. AfterReject(p) # "complete"
    BY DEF AfterReject
  <2>2. \A q \in Ingesters : q # p => copy'[q] = copy[q]
    BY <1>7 DEF IngestRemoveFails, LeaveAttempt, Release, TypeInv, TypeOK
  <2> QED
    BY <1>7, <2>1, <2>2, UniqueOtherStep DEF IngestRemoveFails, docVars
<1> QED
  BY <1>1, <1>2, <1>3, <1>4, <1>5, <1>6, <1>7 DEF IngestStep, IngestFault

LEMMA UniqueUpload ==
  ASSUME TypeInv, UniqueInv, NEW u \in Uploads, UploadStep(u) \/ UploadCommitLost(u)
  PROVE  UniqueInv'
<1>1. u \in Ingesters /\ u \notin Workers
  BY ProcessAssumption DEF Ingesters
<1>2. CASE UploadRefuse(u)
  BY <1>1, <1>2, UniqueOtherStep DEF UploadRefuse, docVars
<1>3. CASE \E c \in Contents : UploadStage(u, c)
  <2>1. \A q \in Ingesters : q # u => copy'[q] = copy[q]
    BY <1>3 DEF UploadStage, TypeInv, TypeOK
  <2> QED
    BY <1>1, <1>3, <2>1, UniqueOtherStep DEF UploadStage, docVars
<1>4. CASE IngestStep(u)
  BY <1>1, <1>4, UniqueIngest
<1>5. CASE UploadCommitLost(u)
  <2>1. CommitDocument(u, None) /\ ~Duplicate(copy[u])
    BY <1>5 DEF UploadCommitLost, IndexConflict
  <2>2. \A w \in Workers : pc'[w] = "complete" =>
            pc[w] = "complete" /\ copy'[w] = copy[w] /\ copy[w] # copy[u]
    BY <1>1, <1>5 DEF UploadCommitLost, DropAttempt, IndexBlocks, Release, Goto, Ingesters,
                      TypeInv, TypeOK
  <2> QED
    BY <1>1, <2>1, <2>2, UniqueCommit
<1> QED
  BY <1>2, <1>3, <1>4, <1>5 DEF UploadStep

\* The commit of a worker, whether it reports success or not.
LEMMA UniqueWorkerCommit ==
  ASSUME TypeInv, UniqueInv, NEW w \in Workers, pc[w] = "complete",
         CommitDocument(w, task[w]), Release(w),
         NEW step, step # "complete", Goto(w, step)
  PROVE  UniqueInv'
<1>1. ~Duplicate(copy[w])
  BY DEF UniqueInv, FlushedIsReserved
<1>2. \A v \in Workers : pc'[v] = "complete" =>
          pc[v] = "complete" /\ copy'[v] = copy[v] /\ copy[v] # copy[w]
  BY DEF UniqueInv, FlushedIsReserved, Release, Goto, TypeInv, TypeOK, Ingesters
<1> QED
  BY <1>1, <1>2, UniqueCommit DEF Ingesters

LEMMA UniqueWorker ==
  ASSUME TypeInv, UniqueInv, NEW w \in Workers,
         \/ WorkerStep(w) \/ WorkerLoadFault(w) \/ WorkerCompleteFails(w)
         \/ WorkerDiscardFails(w) \/ WorkerRemoveFails(w) \/ WorkerDbError(w)
         \/ WorkerCrash(w) \/ BrokerRedeliver(w)
  PROVE  UniqueInv'
<1>1. w \in Ingesters
  BY DEF Ingesters
<1>2. CASE IngestStep(w)
  BY <1>1, <1>2, UniqueIngest
<1>3. CASE WorkerComplete(w)
  BY <1>3, UniqueWorkerCommit DEF WorkerComplete
<1>4. CASE WorkerCompleteFails(w)
  <2>1. Release(w) /\ Goto(w, "reload") /\ pc[w] = "complete"
    BY <1>4 DEF WorkerCompleteFails, DropAttempt
  <2>2. CASE CommitDocument(w, task[w])
    BY <2>1, <2>2, UniqueWorkerCommit
  <2>3. CASE UNCHANGED docVars
    <3>1. \A q \in Ingesters : q # w => copy'[q] = copy[q]
      BY <2>1 DEF Release, TypeInv, TypeOK
    <3> QED
      BY <1>1, <2>1, <2>3, <3>1, UniqueOtherStep DEF docVars
  <2> QED
    BY <1>4, <2>2, <2>3 DEF WorkerCompleteFails
<1>5. CASE WorkerLoad(w)
  <2>1. \A q \in Ingesters : q # w => copy'[q] = copy[q]
    BY <1>5 DEF WorkerLoad, CopyStaged, TypeInv, TypeOK
  <2> QED
    BY <1>1, <1>5, <2>1, UniqueOtherStep DEF WorkerLoad, docVars
<1>6. CASE WorkerCrash(w)
  <2>1. \A q \in Ingesters : q # w => copy'[q] = copy[q]
    BY <1>6 DEF WorkerCrash, Release, TypeInv, TypeOK
  <2> QED
    BY <1>1, <1>6, <2>1, UniqueOtherStep DEF WorkerCrash, docVars
<1>7. CASE BrokerRedeliver(w)
  BY <1>7, UniqueUndisturbed DEF BrokerRedeliver, docVars, ingVars
<1>8. CASE \E j \in Jobs : WorkerReceive(w, j)
  BY <1>1, <1>8, UniqueOtherStep DEF WorkerReceive, docVars
<1>9. CASE WorkerClaim(w)
  BY <1>1, <1>9, UniqueOtherStep DEF WorkerClaim, docVars
<1>10. CASE WorkerReload(w) \/ WorkerMarkFailed(w) \/ WorkerCleanup(w) \/ WorkerAck(w)
            \/ WorkerLoadFault(w) \/ WorkerRemoveFails(w) \/ WorkerDbError(w)
  BY <1>1, <1>10, UniqueOtherStep
     DEF WorkerReload, WorkerMarkFailed, WorkerCleanup, WorkerAck, WorkerLoadFault,
         WorkerRemoveFails, WorkerDbError, docVars
<1>11. CASE WorkerDiscardFails(w)
  <2>1. Release(w) /\ Goto(w, "cleanup") /\ pc[w] = "complete"
    BY <1>11 DEF WorkerDiscardFails, LeaveAttempt, KeepAttempt
  <2>2. CASE CommitDocument(w, task[w])
    BY <2>1, <2>2, UniqueWorkerCommit
  <2>3. CASE UNCHANGED docVars
    <3>1. \A q \in Ingesters : q # w => copy'[q] = copy[q]
      BY <2>1 DEF Release, TypeInv, TypeOK
    <3> QED
      BY <1>1, <2>1, <2>3, <3>1, UniqueOtherStep DEF docVars
  <2> QED
    BY <1>11, <2>2, <2>3 DEF WorkerDiscardFails
<1> QED
  BY <1>2, <1>3, <1>4, <1>5, <1>6, <1>7, <1>8, <1>9, <1>10, <1>11 DEF WorkerStep

LEMMA UniqueApiCrash ==
  ASSUME TypeInv, UniqueInv, ApiCrash
  PROVE  UniqueInv'
<1>1. \A w \in Workers : pc'[w] = "complete" => pc[w] = "complete" /\ copy'[w] = copy[w]
  BY ProcessAssumption DEF ApiCrash, Ingesters
<1> QED
  BY <1>1, UniqueUndisturbed DEF ApiCrash, docVars

LEMMA UniqueNext == TypeInv /\ UniqueInv /\ [Next]_vars => UniqueInv'
<1> SUFFICES ASSUME TypeInv, UniqueInv, [Next]_vars PROVE UniqueInv'
  OBVIOUS
<1>1. CASE \E j \in Jobs : ApiStep(j) \/ ApiPublishFails(j) \/ ApiRemoveFails(j) \/ ApiDbError(j)
  BY <1>1, UniqueUndisturbed
     DEF ApiStep, ApiRefuse, ApiStage, ApiCheck, ApiCreateJob, ApiPublish, ApiMarkFailed,
         ApiUnstage, ApiPublishFails, ApiRemoveFails, ApiDbError, docVars, ingVars
<1>2. CASE \E u \in Uploads : UploadStep(u) \/ UploadCommitLost(u)
  BY <1>2, UniqueUpload
<1>3. CASE \E w \in Workers : \/ WorkerStep(w) \/ WorkerLoadFault(w)
                              \/ WorkerCompleteFails(w) \/ WorkerDiscardFails(w)
                              \/ WorkerRemoveFails(w) \/ WorkerDbError(w)
                              \/ WorkerCrash(w) \/ BrokerRedeliver(w)
  BY <1>3, UniqueWorker
<1>4. CASE \E p \in Ingesters : IngestFault(p) \/ FinalizeFault(p) \/ IngestRemoveFails(p)
  BY <1>4, UniqueIngest
<1>5. CASE ApiCrash
  BY <1>5, UniqueApiCrash
<1>6. CASE \E d \in Docs : DeleteDocument(d)
  BY <1>6 DEF DeleteDocument, ingVars, UniqueInv, UniqueActiveContent, FlushedIsReserved,
              Duplicate, Active, Rows
<1>7. CASE UNCHANGED vars
  BY <1>7, UniqueUndisturbed DEF vars, docVars, ingVars
<1> QED
  BY <1>1, <1>2, <1>3, <1>4, <1>5, <1>6, <1>7 DEF Next, Failure, Finished

LEMMA UniqueInit == Init => UniqueInv
BY DEF Init, UniqueInv, UniqueActiveContent, FlushedIsReserved, Active, Rows, Ingesters

\* Two documents that are not deleted never have the same content, for every
\* number of concurrent uploads and workers and whatever fails.
THEOREM UniqueContent == Spec => []UniqueActiveContent
<1>1. Spec => [](TypeInv /\ UniqueInv)
  BY TypeInvInit, TypeInvNext, UniqueInit, UniqueNext, PTL DEF Spec
<1> QED
  BY <1>1, PTL DEF UniqueInv

-----------------------------------------------------------------------------
(* Files.  A directory is made two steps before its document is inserted, so *)
(* the invariant follows the attempt in between: it has a directory only     *)
(* while it parses, inserts or waits for the commit, and a content always.   *)

AttemptInv ==
    \A p \in Ingesters :
       /\ newDoc[p] # None => pc[p] \in {"parse", "insert", "complete"}
       /\ pc[p] \in IngestSteps \cup {"complete"} => copy[p] \in Contents

FilesInv == FilesAccounted /\ AttemptInv

\* A step of p that leaves the attempts of all others alone.
LEMMA AttemptStep ==
  ASSUME TypeInv, AttemptInv, NEW p \in Ingesters, NEW step, Goto(p, step),
         \A q \in Ingesters : q # p => copy'[q] = copy[q] /\ newDoc'[q] = newDoc[q],
         newDoc'[p] # None => step \in {"parse", "insert", "complete"},
         step \in IngestSteps \cup {"complete"} => copy'[p] \in Contents
  PROVE  AttemptInv'
BY DEF TypeInv, TypeOK, AttemptInv, Goto

LEMMA AttemptReleased ==
  ASSUME TypeInv, AttemptInv, NEW p \in Ingesters, Release(p),
         NEW step, step \notin IngestSteps \cup {"complete"}, Goto(p, step)
  PROVE  AttemptInv'
<1>1. newDoc'[p] = None /\ \A q \in Ingesters : q # p => copy'[q] = copy[q] /\ newDoc'[q] = newDoc[q]
  BY DEF TypeInv, TypeOK, Release
<1> QED
  BY <1>1, AttemptStep

LEMMA FilesUndisturbed ==
  ASSUME FilesInv, UNCHANGED <<docContent, files, leaked, newDoc>>, AttemptInv'
  PROVE  FilesInv'
BY DEF FilesInv, FilesAccounted, Rows, Pending

\* A step of p that concerns neither files nor documents.
LEMMA FilesOtherStep ==
  ASSUME TypeInv, FilesInv, NEW p \in Ingesters, NEW step, Goto(p, step),
         UNCHANGED <<docContent, files, leaked, newDoc>>,
         \A q \in Ingesters : q # p => copy'[q] = copy[q],
         newDoc[p] # None => step \in {"parse", "insert", "complete"},
         step \in IngestSteps \cup {"complete"} => copy'[p] \in Contents
  PROVE  FilesInv'
<1>1. AttemptInv'
  BY AttemptStep DEF FilesInv
<1> QED
  BY <1>1, FilesUndisturbed

\* The attempt of p gives its directory up: removed, leaked, or owned by a row.
LEMMA FilesReleased ==
  ASSUME TypeInv, FilesInv, NEW p \in Ingesters, Release(p), AttemptInv',
         \/ UNCHANGED <<docContent, leaked>> /\ files' = files \ {newDoc[p]}
         \/ UNCHANGED <<docContent, files>> /\ leaked' = leaked \cup ({newDoc[p]} \ {None})
  PROVE  FilesInv'
<1>1. newDoc'[p] = None /\ \A q \in Ingesters : q # p => newDoc'[q] = newDoc[q]
  BY DEF TypeInv, TypeOK, Release
<1>2. FilesAccounted'
  <2>1. Pending' = Pending \ {newDoc[p]}
    BY <1>1 DEF FilesInv, FilesAccounted, Pending
  <2>2. \A q, r \in Ingesters : newDoc'[q] = newDoc'[r] /\ newDoc'[q] # None => q = r
    BY <1>1 DEF FilesInv, FilesAccounted
  <2>3. None \notin Pending \cup files /\ (newDoc[p] = None \/ newDoc[p] \in Pending)
    BY NoneAssumption DEF Pending, TypeInv, TypeOK
  <2>4. CASE UNCHANGED <<docContent, leaked>> /\ files' = files \ {newDoc[p]}
    BY <2>1, <2>2, <2>3, <2>4 DEF FilesInv, FilesAccounted, Rows
  <2>5. CASE UNCHANGED <<docContent, files>> /\ leaked' = leaked \cup ({newDoc[p]} \ {None})
    BY <2>1, <2>2, <2>3, <2>5 DEF FilesInv, FilesAccounted, Rows
  <2> QED
    BY <2>4, <2>5
<1> QED
  BY <1>2 DEF FilesInv

LEMMA FilesCommitted ==
  ASSUME TypeInv, FilesInv, NEW p \in Ingesters, pc[p] \in {"insert", "complete"},
         NEW owner, CommitDocument(p, owner), Release(p), AttemptInv', UNCHANGED leaked,
         files' = files \/ files' = files \ {newDoc[p]}
  PROVE  FilesInv'
<1>1. newDoc'[p] = None /\ \A q \in Ingesters : q # p => newDoc'[q] = newDoc[q]
  BY DEF TypeInv, TypeOK, Release
<1>2. copy[p] \in Contents /\ copy[p] # None
  BY NoneAssumption DEF FilesInv, AttemptInv, IngestSteps
<1>3. Rows' = Rows \cup ({newDoc[p]} \ {None})
  BY <1>2, NoneAssumption DEF TypeInv, TypeOK, CommitDocument, Rows
<1>4. FilesAccounted'
  <2>1. Pending' = Pending \ {newDoc[p]}
    BY <1>1 DEF FilesInv, FilesAccounted, Pending
  <2>2. \A q, r \in Ingesters : newDoc'[q] = newDoc'[r] /\ newDoc'[q] # None => q = r
    BY <1>1 DEF FilesInv, FilesAccounted
  <2>3. None \notin Pending \cup files /\ (newDoc[p] = None \/ newDoc[p] \in Pending)
    BY NoneAssumption DEF Pending, TypeInv, TypeOK
  <2> QED
    BY <1>3, <2>1, <2>2, <2>3 DEF FilesInv, FilesAccounted
<1> QED
  BY <1>4 DEF FilesInv

LEMMA FilesReject ==
  ASSUME TypeInv, FilesInv, NEW p \in Ingesters, Reject(p)
  PROVE  FilesInv'
<1>1. AttemptInv'
  BY AttemptReleased DEF FilesInv, Reject, DropAttempt, AfterReject, IngestSteps
<1> QED
  BY <1>1, FilesReleased DEF Reject, DropAttempt, docVars

LEMMA FilesIngest ==
  ASSUME TypeInv, FilesInv, NEW p \in Ingesters,
         IngestStep(p) \/ IngestFault(p) \/ FinalizeFault(p) \/ IngestRemoveFails(p)
  PROVE  FilesInv'
<1>1. CASE Reject(p)
  BY <1>1, FilesReject
<1>2. CASE IngestCheck(p) /\ ~Reject(p)
  <2>1. newDoc[p] = None /\ copy[p] \in Contents
    BY <1>2 DEF IngestCheck, FilesInv, AttemptInv, IngestSteps
  <2> QED
    BY <1>2, <2>1, FilesOtherStep DEF IngestCheck, docVars, fileVars
<1>3. CASE IngestFinalize(p)
  <2>1. PICK d \in UnusedDocs : files' = files \cup {d} /\ newDoc' = [newDoc EXCEPT ![p] = d]
    BY <1>3 DEF IngestFinalize
  <2>2. newDoc[p] = None /\ copy[p] \in Contents
    BY <1>3 DEF IngestFinalize, FilesInv, AttemptInv, IngestSteps
  <2>3. newDoc'[p] = d /\ \A q \in Ingesters : q # p => newDoc'[q] = newDoc[q]
    BY <2>1 DEF TypeInv, TypeOK
  <2>4. AttemptInv'
    BY <1>3, <2>2, <2>3, AttemptStep DEF IngestFinalize, FilesInv
  <2>5. UNCHANGED <<docContent, leaked>>
    BY <1>3 DEF IngestFinalize, docVars
  <2>6. d # None /\ d \notin Rows \cup files /\ \A q \in Ingesters : newDoc[q] # d
    BY <2>1, NoneAssumption DEF UnusedDocs, Pending
  <2>7. d \notin leaked
    BY <2>1 DEF UnusedDocs, FilesInv, FilesAccounted
  <2>8. Pending' = Pending \cup {d}
    BY <2>2, <2>3, <2>6 DEF Pending
  <2>9. FilesAccounted'
    BY <2>1, <2>2, <2>3, <2>5, <2>6, <2>7, <2>8 DEF FilesInv, FilesAccounted, Rows
  <2> QED
    BY <2>4, <2>9 DEF FilesInv
<1>4. CASE IngestParse(p) /\ ~Reject(p)
  <2>1. copy[p] \in Contents
    BY <1>4 DEF IngestParse, FilesInv, AttemptInv, IngestSteps
  <2> QED
    BY <1>4, <2>1, FilesOtherStep DEF IngestParse, docVars, fileVars
<1>5. CASE IngestInsert(p) /\ ~Reject(p)
  <2>1. copy[p] \in Contents
    BY <1>5 DEF IngestInsert, FilesInv, AttemptInv, IngestSteps
  <2>2. CASE p \in Uploads
    <3>1. CommitDocument(p, None) /\ Release(p) /\ Goto(p, "done") /\ UNCHANGED <<files, leaked>>
      BY <1>5, <2>2, ProcessAssumption DEF IngestInsert, KeepAttempt, fileVars
    <3>2. AttemptInv'
      BY <3>1, AttemptReleased DEF FilesInv, IngestSteps
    <3> QED
      BY <1>5, <3>1, <3>2, FilesCommitted DEF IngestInsert
  <2>3. CASE p \in Workers
    BY <1>5, <2>1, <2>3, ProcessAssumption, FilesOtherStep DEF IngestInsert, docVars, fileVars
  <2> QED
    BY <2>2, <2>3 DEF Ingesters
<1>6. CASE FinalizeFault(p)
  <2>1. PICK d \in UnusedDocs : files' = files \cup {d} /\ leaked' = leaked \cup {d}
    BY <1>6 DEF FinalizeFault
  <2>2. newDoc[p] = None
    BY <1>6 DEF FinalizeFault, FilesInv, AttemptInv
  <2>3. UNCHANGED docContent /\ Release(p) /\ Goto(p, AfterReject(p))
    BY <1>6 DEF FinalizeFault, docVars
  <2>4. \A q \in Ingesters : newDoc'[q] = newDoc[q]
    BY <2>2, <2>3 DEF Release, TypeInv, TypeOK
  <2>5. AttemptInv'
    BY <2>3, AttemptReleased DEF FilesInv, AfterReject, IngestSteps
  <2>6. UNCHANGED <<Pending, Rows>> /\ d \notin Pending \cup Rows
    BY <2>1, <2>3, <2>4 DEF Pending, Rows, UnusedDocs
  <2>7. FilesAccounted'
    BY <2>1, <2>4, <2>6 DEF FilesInv, FilesAccounted
  <2> QED
    BY <2>5, <2>7 DEF FilesInv
<1>7. CASE IngestRemoveFails(p)
  <2>1. LeaveAttempt(p) /\ Release(p) /\ Goto(p, AfterReject(p)) /\ UNCHANGED docContent
    BY <1>7 DEF IngestRemoveFails, LeaveAttempt, docVars
  <2>2. AttemptInv'
    BY <2>1, AttemptReleased DEF FilesInv, AfterReject, IngestSteps
  <2> QED
    BY <2>1, <2>2, FilesReleased DEF LeaveAttempt
<1> QED
  BY <1>1, <1>2, <1>3, <1>4, <1>5, <1>6, <1>7 DEF IngestStep, IngestFault

LEMMA FilesUpload ==
  ASSUME TypeInv, FilesInv, NEW u \in Uploads, UploadStep(u) \/ UploadCommitLost(u)
  PROVE  FilesInv'
<1>1. u \in Ingesters
  BY DEF Ingesters
<1>2. CASE UploadRefuse(u)
  <2>1. newDoc[u] = None
    BY <1>1, <1>2 DEF UploadRefuse, FilesInv, AttemptInv
  <2> QED
    BY <1>1, <1>2, <2>1, FilesOtherStep DEF UploadRefuse, docVars, fileVars, IngestSteps
<1>3. CASE \E c \in Contents : UploadStage(u, c)
  <2>1. newDoc[u] = None
    BY <1>1, <1>3 DEF UploadStage, FilesInv, AttemptInv
  <2>2. copy'[u] \in Contents /\ \A q \in Ingesters : q # u => copy'[q] = copy[q]
    BY <1>1, <1>3 DEF UploadStage, TypeInv, TypeOK
  <2> QED
    BY <1>1, <1>3, <2>1, <2>2, FilesOtherStep DEF UploadStage, docVars, fileVars
<1>4. CASE IngestStep(u)
  BY <1>1, <1>4, FilesIngest
<1>5. CASE UploadCommitLost(u)
  <2>1. CommitDocument(u, None) /\ DropAttempt(u) /\ Goto(u, "done") /\ pc[u] = "insert"
    BY <1>5 DEF UploadCommitLost
  <2>2. AttemptInv'
    BY <1>1, <2>1, AttemptReleased DEF FilesInv, DropAttempt, IngestSteps
  <2> QED
    BY <1>1, <2>1, <2>2, FilesCommitted DEF DropAttempt
<1> QED
  BY <1>2, <1>3, <1>4, <1>5 DEF UploadStep

LEMMA FilesWorker ==
  ASSUME TypeInv, FilesInv, NEW w \in Workers,
         \/ WorkerStep(w) \/ WorkerLoadFault(w) \/ WorkerCompleteFails(w)
         \/ WorkerDiscardFails(w) \/ WorkerRemoveFails(w) \/ WorkerDbError(w)
         \/ WorkerCrash(w) \/ BrokerRedeliver(w)
  PROVE  FilesInv'
<1>1. w \in Ingesters
  BY DEF Ingesters
<1>2. CASE IngestStep(w)
  BY <1>1, <1>2, FilesIngest
<1>3. CASE WorkerComplete(w)
  <2>1. /\ CommitDocument(w, task[w]) /\ Release(w) /\ Goto(w, "cleanup")
        /\ pc[w] = "complete" /\ UNCHANGED <<files, leaked>>
    BY <1>3 DEF WorkerComplete, fileVars
  <2>2. AttemptInv'
    BY <1>1, <2>1, AttemptReleased DEF FilesInv, IngestSteps
  <2> QED
    BY <1>1, <2>1, <2>2, FilesCommitted
<1>4. CASE WorkerCompleteFails(w)
  <2>1. DropAttempt(w) /\ Goto(w, "reload") /\ pc[w] = "complete"
    BY <1>4 DEF WorkerCompleteFails
  <2>2. AttemptInv'
    BY <1>1, <2>1, AttemptReleased DEF FilesInv, DropAttempt, IngestSteps
  <2>3. CASE CommitDocument(w, task[w])
    BY <1>1, <2>1, <2>2, <2>3, FilesCommitted DEF DropAttempt
  <2>4. CASE UNCHANGED docVars
    BY <1>1, <2>1, <2>2, <2>4, FilesReleased DEF DropAttempt, docVars
  <2> QED
    BY <1>4, <2>3, <2>4 DEF WorkerCompleteFails
<1>5. CASE WorkerLoad(w)
  <2>1. newDoc[w] = None
    BY <1>1, <1>5 DEF WorkerLoad, FilesInv, AttemptInv
  <2>2. CASE staging[task[w]] = None
    BY <1>1, <1>5, <2>1, <2>2, FilesOtherStep DEF WorkerLoad, docVars, fileVars, IngestSteps
  <2>3. CASE staging[task[w]] # None
    <3>1. task[w] \in Jobs
      BY <1>5 DEF WorkerLoad, TypeInv, BusyWorkersHaveTask
    <3>2. copy'[w] \in Contents /\ \A q \in Ingesters : q # w => copy'[q] = copy[q]
      BY <1>1, <1>5, <2>3, <3>1 DEF WorkerLoad, CopyStaged, TypeInv, TypeOK
    <3>3. Goto(w, "check")
      BY <1>5, <2>3 DEF WorkerLoad
    <3> QED
      BY <1>1, <1>5, <2>1, <3>2, <3>3, FilesOtherStep DEF WorkerLoad, docVars, fileVars
  <2> QED
    BY <2>2, <2>3
<1>6. CASE WorkerCrash(w)
  <2>1. Release(w) /\ Goto(w, "idle") /\ UNCHANGED <<docContent, files>>
        /\ leaked' = leaked \cup ({newDoc[w]} \ {None})
    BY <1>6 DEF WorkerCrash, docVars
  <2>2. AttemptInv'
    BY <1>1, <2>1, AttemptReleased DEF FilesInv, IngestSteps
  <2> QED
    BY <1>1, <2>1, <2>2, FilesReleased
<1>7. CASE BrokerRedeliver(w)
  BY <1>7, FilesUndisturbed DEF BrokerRedeliver, FilesInv, AttemptInv, docVars, fileVars, ingVars
<1>8. CASE \E j \in Jobs : WorkerReceive(w, j)
  <2>1. newDoc[w] = None
    BY <1>1, <1>8 DEF WorkerReceive, FilesInv, AttemptInv
  <2> QED
    BY <1>1, <1>8, <2>1, FilesOtherStep DEF WorkerReceive, docVars, fileVars, IngestSteps
<1>9. CASE \/ WorkerClaim(w) \/ WorkerReload(w) \/ WorkerMarkFailed(w) \/ WorkerCleanup(w)
           \/ WorkerAck(w) \/ WorkerLoadFault(w) \/ WorkerRemoveFails(w) \/ WorkerDbError(w)
  <2>1. newDoc[w] = None
    BY <1>1, <1>9
       DEF WorkerClaim, WorkerReload, WorkerMarkFailed, WorkerCleanup, WorkerAck,
           WorkerLoadFault, WorkerRemoveFails, WorkerDbError, FilesInv, AttemptInv
  <2>2. PICK step \in Steps \ (IngestSteps \cup {"complete"}) : Goto(w, step)
    BY <1>9
       DEF WorkerClaim, WorkerReload, WorkerMarkFailed, WorkerCleanup, WorkerAck,
           WorkerLoadFault, WorkerRemoveFails, WorkerDbError, Steps, IngestSteps
  <2>3. UNCHANGED <<docContent, files, leaked, newDoc, copy>>
    BY <1>9
       DEF WorkerClaim, WorkerReload, WorkerMarkFailed, WorkerCleanup, WorkerAck,
           WorkerLoadFault, WorkerRemoveFails, WorkerDbError, docVars, fileVars
  <2> QED
    BY <1>1, <2>1, <2>2, <2>3, FilesOtherStep
<1>10. CASE WorkerDiscardFails(w)
  <2>1. Release(w) /\ Goto(w, "cleanup") /\ pc[w] = "complete"
    BY <1>10 DEF WorkerDiscardFails, LeaveAttempt, KeepAttempt
  <2>2. AttemptInv'
    BY <1>1, <2>1, AttemptReleased DEF FilesInv, IngestSteps
  <2>3. CASE CommitDocument(w, task[w]) /\ KeepAttempt(w)
    BY <1>1, <2>1, <2>2, <2>3, FilesCommitted DEF KeepAttempt, fileVars
  <2>4. CASE LeaveAttempt(w) /\ UNCHANGED docVars
    BY <1>1, <2>1, <2>2, <2>4, FilesReleased DEF LeaveAttempt, docVars
  <2> QED
    BY <1>10, <2>3, <2>4 DEF WorkerDiscardFails
<1> QED
  BY <1>2, <1>3, <1>4, <1>5, <1>6, <1>7, <1>8, <1>9, <1>10 DEF WorkerStep

LEMMA FilesApiCrash ==
  ASSUME TypeInv, FilesInv, ApiCrash
  PROVE  FilesInv'
<1> DEFINE uploads == {u \in Uploads : pc[u] \notin {"idle", "done"}}
<1>1. /\ newDoc' = [p \in Ingesters |-> IF p \in uploads THEN None ELSE newDoc[p]]
      /\ leaked' = leaked \cup ({newDoc[u] : u \in uploads} \ {None})
      /\ UNCHANGED <<docContent, files>>
  BY DEF ApiCrash, docVars
<1>2. AttemptInv'
  BY <1>1 DEF ApiCrash, FilesInv, AttemptInv, IngestSteps
<1>3. FilesAccounted'
  <2>1. \A p \in Ingesters : newDoc'[p] # None => newDoc'[p] = newDoc[p] /\ p \notin uploads
    BY <1>1
  <2>2. \A u \in uploads : u \in Ingesters
    BY DEF Ingesters
  <2>3. Pending = Pending' \cup ({newDoc[u] : u \in uploads} \ {None})
    BY <1>1, <2>2 DEF Pending
  <2>4. Pending' \cap {newDoc[u] : u \in uploads} = {}
    BY <2>1, <2>2 DEF Pending, FilesInv, FilesAccounted
  <2>5. \A p, q \in Ingesters : newDoc'[p] = newDoc'[q] /\ newDoc'[p] # None => p = q
    BY <2>1 DEF FilesInv, FilesAccounted
  <2> QED
    BY <1>1, <2>3, <2>4, <2>5 DEF FilesInv, FilesAccounted, Rows
<1> QED
  BY <1>2, <1>3 DEF FilesInv

LEMMA FilesNext == TypeInv /\ FilesInv /\ [Next]_vars => FilesInv'
<1> SUFFICES ASSUME TypeInv, FilesInv, [Next]_vars PROVE FilesInv'
  OBVIOUS
<1>1. CASE \E j \in Jobs : ApiStep(j) \/ ApiPublishFails(j) \/ ApiRemoveFails(j) \/ ApiDbError(j)
  <2>1. UNCHANGED <<docVars, files, leaked, ingVars>>
    BY <1>1
       DEF ApiStep, ApiRefuse, ApiStage, ApiCheck, ApiCreateJob, ApiPublish, ApiMarkFailed,
           ApiUnstage, ApiPublishFails, ApiRemoveFails, ApiDbError, fileVars
  <2> QED
    BY <2>1, FilesUndisturbed DEF docVars, ingVars, FilesInv, AttemptInv
<1>2. CASE \E u \in Uploads : UploadStep(u) \/ UploadCommitLost(u)
  BY <1>2, FilesUpload
<1>3. CASE \E w \in Workers : \/ WorkerStep(w) \/ WorkerLoadFault(w)
                              \/ WorkerCompleteFails(w) \/ WorkerDiscardFails(w)
                              \/ WorkerRemoveFails(w) \/ WorkerDbError(w)
                              \/ WorkerCrash(w) \/ BrokerRedeliver(w)
  BY <1>3, FilesWorker
<1>4. CASE \E p \in Ingesters : IngestFault(p) \/ FinalizeFault(p) \/ IngestRemoveFails(p)
  BY <1>4, FilesIngest
<1>5. CASE ApiCrash
  BY <1>5, FilesApiCrash
<1>6. CASE \E d \in Docs : DeleteDocument(d)
  BY <1>6, FilesUndisturbed DEF DeleteDocument, fileVars, ingVars, FilesInv, AttemptInv
<1>7. CASE UNCHANGED vars
  BY <1>7, FilesUndisturbed DEF vars, docVars, fileVars, ingVars, FilesInv, AttemptInv
<1> QED
  BY <1>1, <1>2, <1>3, <1>4, <1>5, <1>6, <1>7 DEF Next, Failure, Finished

LEMMA FilesInit == Init => FilesInv
<1> SUFFICES ASSUME Init PROVE FilesInv
  OBVIOUS
<1>1. \A p \in Ingesters : newDoc[p] = None /\ pc[p] = "idle"
  BY DEF Init
<1>2. Rows = {} /\ Pending = {}
  BY <1>1 DEF Init, Rows, Pending
<1> QED
  BY <1>1, <1>2 DEF Init, FilesInv, FilesAccounted, AttemptInv, IngestSteps

\* Directories and rows account for each other, whatever fails.
THEOREM NoUnaccountedFiles == Spec => []FilesAccounted
<1>1. Spec => [](TypeInv /\ FilesInv)
  BY TypeInvInit, TypeInvNext, FilesInit, FilesNext, PTL DEF Spec
<1> QED
  BY <1>1, PTL DEF FilesInv

-----------------------------------------------------------------------------
(* Source files.  Only a commit that takes effect and reports a failure can  *)
(* separate a document from its file.                                        *)

LEMMA SourceUndisturbed ==
  ASSUME SourceRetained, UNCHANGED docContent, files \subseteq files'
  PROVE  SourceRetained'
BY DEF SourceRetained, Rows

LEMMA SourceDropped ==
  ASSUME FilesInv, SourceRetained, NEW p \in Ingesters, DropAttempt(p), UNCHANGED docContent
  PROVE  SourceRetained'
<1>1. newDoc[p] \notin Rows
  BY NoneAssumption DEF FilesInv, FilesAccounted, Pending, Rows
<1> QED
  BY <1>1 DEF SourceRetained, DropAttempt, Rows

LEMMA SourceCommitted ==
  ASSUME TypeInv, FilesInv, SourceRetained, NEW p \in Ingesters, NEW owner,
         CommitDocument(p, owner), UNCHANGED files
  PROVE  SourceRetained'
<1>1. Rows' \subseteq Rows \cup ({newDoc[p]} \cap Docs)
  BY DEF TypeInv, TypeOK, CommitDocument, Rows
<1>2. newDoc[p] \in Docs => newDoc[p] \in files
  BY NoneAssumption DEF FilesInv, FilesAccounted, Pending
<1> QED
  BY <1>1, <1>2 DEF SourceRetained

LEMMA SourceIngest ==
  ASSUME TypeInv, FilesInv, SourceRetained, NEW p \in Ingesters,
         IngestStep(p) \/ IngestFault(p) \/ FinalizeFault(p) \/ IngestRemoveFails(p)
  PROVE  SourceRetained'
<1>1. CASE Reject(p)
  BY <1>1, SourceDropped DEF Reject, docVars
<1>2. CASE IngestInsert(p) /\ ~Reject(p)
  <2>1. CASE CommitDocument(p, None) /\ KeepAttempt(p)
    BY <2>1, SourceCommitted DEF KeepAttempt, fileVars
  <2>2. CASE UNCHANGED <<docVars, fileVars>>
    BY <2>2, SourceUndisturbed DEF docVars, fileVars
  <2> QED
    BY <1>2, <2>1, <2>2 DEF IngestInsert
<1>3. CASE ~Reject(p) /\ (IngestCheck(p) \/ IngestParse(p))
  BY <1>3, SourceUndisturbed DEF IngestCheck, IngestParse, docVars, fileVars
<1>4. CASE IngestFinalize(p) \/ FinalizeFault(p) \/ IngestRemoveFails(p)
  BY <1>4, SourceUndisturbed
     DEF IngestFinalize, FinalizeFault, IngestRemoveFails, LeaveAttempt, docVars
<1> QED
  BY <1>1, <1>2, <1>3, <1>4 DEF IngestStep, IngestFault

LEMMA SourceWorker ==
  ASSUME TypeInv, FilesInv, SourceRetained, "commit" \notin Ambiguous, NEW w \in Workers,
         \/ WorkerStep(w) \/ WorkerLoadFault(w) \/ WorkerCompleteFails(w)
         \/ WorkerDiscardFails(w) \/ WorkerRemoveFails(w) \/ WorkerDbError(w)
         \/ WorkerCrash(w) \/ BrokerRedeliver(w)
  PROVE  SourceRetained'
<1>1. w \in Ingesters
  BY DEF Ingesters
<1>2. CASE IngestStep(w)
  BY <1>1, <1>2, SourceIngest
<1>3. CASE WorkerComplete(w)
  BY <1>1, <1>3, SourceCommitted DEF WorkerComplete, fileVars
<1>4. CASE WorkerCompleteFails(w)
  BY <1>1, <1>4, SourceDropped DEF WorkerCompleteFails, docVars
<1>5. CASE ~IngestStep(w) /\ ~WorkerComplete(w) /\ ~WorkerCompleteFails(w)
  <2>1. UNCHANGED <<docContent, files>>
    BY <1>5 DEF WorkerStep, WorkerReceive, WorkerClaim, WorkerLoad, WorkerReload,
                WorkerMarkFailed, WorkerCleanup, WorkerAck, WorkerLoadFault, WorkerDiscardFails,
                WorkerRemoveFails, WorkerDbError, WorkerCrash, BrokerRedeliver, LeaveAttempt,
                docVars, fileVars
  <2> QED
    BY <2>1, SourceUndisturbed
<1> QED
  BY <1>2, <1>3, <1>4, <1>5

LEMMA SourceNext ==
  ASSUME "commit" \notin Ambiguous, TypeInv, FilesInv, SourceRetained, [Next]_vars
  PROVE  SourceRetained'
<1>1. CASE \E j \in Jobs : ApiStep(j) \/ ApiPublishFails(j) \/ ApiRemoveFails(j) \/ ApiDbError(j)
  <2>1. UNCHANGED <<docVars, files>>
    BY <1>1
       DEF ApiStep, ApiRefuse, ApiStage, ApiCheck, ApiCreateJob, ApiPublish, ApiMarkFailed,
           ApiUnstage, ApiPublishFails, ApiRemoveFails, ApiDbError, fileVars
  <2> QED
    BY <2>1, SourceUndisturbed DEF docVars
<1>2. CASE \E u \in Uploads : UploadStep(u) \/ UploadCommitLost(u)
  <2>1. PICK u \in Uploads : UploadStep(u)
    BY <1>2 DEF UploadCommitLost
  <2>2. CASE IngestStep(u)
    BY <2>2, SourceIngest DEF Ingesters
  <2>3. CASE UploadRefuse(u) \/ \E c \in Contents : UploadStage(u, c)
    BY <2>3, SourceUndisturbed DEF UploadRefuse, UploadStage, docVars, fileVars
  <2> QED
    BY <2>1, <2>2, <2>3 DEF UploadStep
<1>3. CASE \E w \in Workers : \/ WorkerStep(w) \/ WorkerLoadFault(w)
                              \/ WorkerCompleteFails(w) \/ WorkerDiscardFails(w)
                              \/ WorkerRemoveFails(w) \/ WorkerDbError(w)
                              \/ WorkerCrash(w) \/ BrokerRedeliver(w)
  BY <1>3, SourceWorker
<1>4. CASE \E p \in Ingesters : IngestFault(p) \/ FinalizeFault(p) \/ IngestRemoveFails(p)
  BY <1>4, SourceIngest
<1>5. CASE ApiCrash \/ \E d \in Docs : DeleteDocument(d)
  BY <1>5, SourceUndisturbed DEF ApiCrash, DeleteDocument, docVars, fileVars
<1>6. CASE UNCHANGED vars
  BY <1>6, SourceUndisturbed DEF vars, docVars, fileVars
<1> QED
  BY <1>1, <1>2, <1>3, <1>4, <1>5, <1>6 DEF Next, Failure, Finished

\* Every document row, deleted or not, keeps its source file, unless a commit
\* can report a failure after it took effect.
THEOREM SourcesKept ==
  ASSUME "commit" \notin Ambiguous
  PROVE  Spec => []SourceRetained
<1>1. Init => SourceRetained
  BY DEF Init, SourceRetained, Rows
<1>2. TypeInv /\ FilesInv /\ SourceRetained /\ [Next]_vars => SourceRetained'
  BY SourceNext
<1>3. Spec => [](TypeInv /\ FilesInv /\ SourceRetained)
  BY <1>1, <1>2, TypeInvInit, TypeInvNext, FilesInit, FilesNext, PTL DEF Spec
<1> QED
  BY <1>3, PTL
=============================================================================
