------------------------ MODULE IngestionRecordProofs ------------------------
(***************************************************************************)
(* Proofs about the records of the asynchronous jobs in Ingestion: who     *)
(* carries a job and its staged file; and, when no two workers hold one    *)
(* job, that the job row tells what happened to the file, and that         *)
(* ingestion implements DocumentLibrary.                                   *)
(***************************************************************************)
EXTENDS IngestionProofs

-----------------------------------------------------------------------------
(* Jobs and staged files in somebody's hands                                *)

\* What UnsettledIsCarried and StagedFilesCarried say of one job.
JobCarried(j) ==
    /\ jobStatus[j] \in {"QUEUED", "PROCESSING"} /\ j \notin unrecorded =>
          queue[j] > 0 \/ apiPc[j] \in {"publish", "markFailed", "aborted"} \/ Processing(j)
    /\ staging[j] # None =>
          \/ queue[j] > 0 \/ apiPc[j] \notin {"idle", "done"}
          \/ \E w \in Workers : task[w] = j /\ pc[w] # "ack"
          \/ j \in unremoved

AllCarried == \A j \in Jobs : JobCarried(j)

\* A delivery is held exactly while the worker is busy.
TaskIsHeld == \A w \in Workers : pc[w] = "idle" => task[w] = None

CarryInv ==
    /\ TaskIsHeld
    /\ budget["dbError"] <= MaxDbErrors
    /\ budget["dbError"] = MaxDbErrors => AllCarried

\* What could not be removed or recorded is not forgotten.
ObserversGrow == unremoved \subseteq unremoved' /\ unrecorded \subseteq unrecorded'

LEMMA ObserversGrowNext == [Next]_vars => ObserversGrow
<1> SUFFICES ASSUME [Next]_vars PROVE ObserversGrow
  OBVIOUS
<1> USE DEF ObserversGrow, fileVars
<1>1. CASE \E j \in Jobs : ApiStep(j) \/ ApiPublishFails(j) \/ ApiRemoveFails(j) \/ ApiDbError(j)
  BY <1>1 DEF ApiStep, ApiRefuse, ApiStage, ApiCheck, ApiCreateJob, ApiPublish, ApiMarkFailed,
              ApiUnstage, ApiPublishFails, ApiRemoveFails, ApiDbError
<1>2. CASE \E p \in Ingesters : \/ IngestStep(p) \/ IngestFault(p) \/ FinalizeFault(p)
                                \/ IngestRemoveFails(p)
  BY <1>2 DEF IngestStep, IngestCheck, IngestFinalize, IngestParse, IngestInsert, IngestFault,
              FinalizeFault, IngestRemoveFails, Reject, DropAttempt, KeepAttempt, LeaveAttempt
<1>3. CASE \E u \in Uploads : \/ UploadRefuse(u) \/ (\E c \in Contents : UploadStage(u, c))
                              \/ UploadCommitLost(u)
  BY <1>3 DEF UploadRefuse, UploadStage, UploadCommitLost, DropAttempt
<1>4. CASE \E w \in Workers : WorkerStep(w) /\ ~IngestStep(w)
  BY <1>4 DEF WorkerStep, WorkerReceive, WorkerClaim, WorkerLoad, WorkerComplete, WorkerReload,
              WorkerMarkFailed, WorkerCleanup, WorkerAck
<1>5. CASE \E w \in Workers : \/ WorkerLoadFault(w) \/ WorkerCompleteFails(w)
                              \/ WorkerDiscardFails(w) \/ WorkerRemoveFails(w)
                              \/ WorkerDbError(w) \/ WorkerCrash(w) \/ BrokerRedeliver(w)
  BY <1>5 DEF WorkerLoadFault, WorkerCompleteFails, WorkerDiscardFails, WorkerRemoveFails,
              WorkerDbError, WorkerCrash, BrokerRedeliver, DropAttempt, LeaveAttempt, KeepAttempt
<1>6. CASE ApiCrash \/ \E d \in Docs : DeleteDocument(d)
  BY <1>6 DEF ApiCrash, DeleteDocument
<1>7. CASE UNCHANGED vars
  BY <1>7 DEF vars
<1> QED
  BY <1>1, <1>2, <1>3, <1>4, <1>5, <1>6, <1>7 DEF Next, Failure, Finished, UploadStep, WorkerStep,
                                                  Ingesters

LEMMA CarryInvInit == Init => CarryInv
<1> SUFFICES ASSUME Init PROVE CarryInv
  OBVIOUS
<1>1. budget["dbError"] = MaxDbErrors /\ MaxDbErrors \in Nat
  BY BoundsAssumption DEF Init, FailureKinds
<1>2. AllCarried
  BY DEF Init, AllCarried, JobCarried
<1> QED
  BY <1>1, <1>2 DEF Init, CarryInv, TaskIsHeld, Ingesters

\* A failure of any other kind leaves the database errors that may still happen.
LEMMA OtherBudget ==
  ASSUME TypeInv, NEW kind \in FailureKinds \ {"dbError"}, Spend(kind)
  PROVE  budget'["dbError"] = budget["dbError"]
BY DEF TypeInv, TypeOK, Spend, FailureKinds

\* After a database error nothing is claimed any more.
LEMMA CarryDbError ==
  ASSUME TypeInv, CarryInv, Spend("dbError"), TaskIsHeld'
  PROVE  CarryInv'
<1>1. budget["dbError"] \in Nat /\ budget'["dbError"] = budget["dbError"] - 1
  BY DEF TypeInv, TypeOK, Spend, FailureKinds
<1>2. MaxDbErrors \in Nat
  BY BoundsAssumption
<1> QED
  BY <1>1, <1>2 DEF CarryInv

LEMMA CarryOther ==
  ASSUME CarryInv, UNCHANGED budget \/ budget'["dbError"] = budget["dbError"], TaskIsHeld',
         AllCarried => AllCarried'
  PROVE  CarryInv'
BY DEF CarryInv

\* A job none of whose own variables change, and no worker of which moves.
LEMMA CarriedAsBefore ==
  ASSUME NEW k \in Jobs, JobCarried(k), ObserversGrow,
         jobStatus'[k] = jobStatus[k], staging'[k] = staging[k], queue'[k] = queue[k],
         apiPc'[k] = apiPc[k],
         \A v \in Workers : task[v] = k => task'[v] = task[v] /\ pc'[v] = pc[v]
  PROVE  JobCarried(k)'
BY DEF ObserversGrow, JobCarried, Processing

\* A step of worker w that concerns no job but its own.
LEMMA CarryWorkerStep ==
  ASSUME TypeInv, CarryInv, ObserversGrow,
         NEW w \in Workers, NEW j \in Jobs, NEW step, Goto(w, step),
         task[w] = j, UNCHANGED apiPc,
         \A v \in Workers : v # w => task'[v] = task[v],
         \A k \in Jobs : k # j =>
             jobStatus'[k] = jobStatus[k] /\ staging'[k] = staging[k] /\ queue'[k] = queue[k],
         JobCarried(j) => JobCarried(j)', step = "idle" => task'[w] = None,
         UNCHANGED budget \/ budget'["dbError"] = budget["dbError"]
  PROVE  CarryInv'
<1>1. \A v \in Workers : v # w => pc'[v] = pc[v]
  BY DEF Goto, TypeInv, TypeOK
<1>2. pc'[w] = step
  BY DEF Goto, TypeInv, TypeOK, Ingesters
<1>3. TaskIsHeld'
  BY <1>1, <1>2 DEF CarryInv, TaskIsHeld
<1>4. \A k \in Jobs : k # j /\ JobCarried(k) => JobCarried(k)'
  BY <1>1, CarriedAsBefore
<1> QED
  BY <1>3, <1>4, CarryOther DEF AllCarried

\* A worker that will still write the outcome of its job carries it.
LEMMA CarryWorkerGoesOn ==
  ASSUME TypeInv, CarryInv, ObserversGrow, NEW w \in Workers, pc[w] # "idle",
         NEW step, step \notin {"idle", "cleanup", "ack"}, Goto(w, step),
         UNCHANGED <<apiPc, task, queue, staging>>,
         \A k \in Jobs : k # task[w] => jobStatus'[k] = jobStatus[k],
         UNCHANGED budget \/ budget'["dbError"] = budget["dbError"]
  PROVE  CarryInv'
<1>1. task[w] \in Jobs
  BY DEF TypeInv, BusyWorkersHaveTask
<1>2. pc'[w] = step
  BY DEF Goto, TypeInv, TypeOK, Ingesters
<1>3. JobCarried(task[w])'
  BY <1>2 DEF JobCarried, Processing
<1> QED
  BY <1>1, <1>3, CarryWorkerStep

\* Uploads concern no job.
LEMMA CarryUndisturbed ==
  ASSUME CarryInv, ObserversGrow, UNCHANGED <<jobStatus, staging, queue, apiPc, task>>,
         \A w \in Workers : pc'[w] = pc[w],
         UNCHANGED budget \/ budget'["dbError"] = budget["dbError"]
  PROVE  CarryInv'
<1>1. TaskIsHeld'
  BY DEF CarryInv, TaskIsHeld
<1>2. AllCarried => AllCarried'
  BY DEF ObserversGrow, AllCarried, JobCarried, Processing
<1> QED
  BY <1>1, <1>2, CarryOther

-----------------------------------------------------------------------------

LEMMA CarryApi ==
  ASSUME TypeInv, CarryInv, ObserversGrow, NEW j \in Jobs,
         ApiStep(j) \/ ApiPublishFails(j) \/ ApiRemoveFails(j) \/ ApiDbError(j)
  PROVE  CarryInv'
<1>1. UNCHANGED <<pc, task>>
  BY DEF ApiStep, ApiRefuse, ApiStage, ApiCheck, ApiCreateJob, ApiPublish, ApiMarkFailed,
         ApiUnstage, ApiPublishFails, ApiRemoveFails, ApiDbError, ingVars
<1>2. TaskIsHeld'
  BY <1>1 DEF CarryInv, TaskIsHeld
<1>3. CASE ApiDbError(j)
  BY <1>2, <1>3, CarryDbError DEF ApiDbError
<1>4. ASSUME ApiStep(j) \/ ApiPublishFails(j) \/ ApiRemoveFails(j), AllCarried PROVE AllCarried'
  <2>1. JobCarried(j)
    BY <1>4 DEF AllCarried
  <2>2. \A k \in Jobs : k # j =>
           /\ jobStatus'[k] = jobStatus[k] /\ staging'[k] = staging[k]
           /\ queue'[k] = queue[k] /\ apiPc'[k] = apiPc[k]
    BY <1>4 DEF ApiStep, ApiRefuse, ApiStage, ApiCheck, ApiCreateJob, ApiPublish, ApiMarkFailed,
                ApiUnstage, ApiPublishFails, ApiRemoveFails, ApiGoto, Unstage, RecordFailure,
                jobVars, TypeInv, TypeOK
  <2>3. \A k \in Jobs : k # j => JobCarried(k)'
    BY <1>1, <1>4, <2>2, CarriedAsBefore DEF AllCarried
  <2>4. JobCarried(j)'
    <3> USE DEF TypeInv, TypeOK, ObserversGrow, JobCarried, Processing, ApiGoto, Unstage, jobVars
    <3>1. CASE ApiRefuse(j)
      BY <1>1, <2>1, <3>1 DEF ApiRefuse
    <3>2. CASE \E c \in Contents : ApiStage(j, c)
      BY <1>1, <2>1, <3>2 DEF ApiStage
    <3>3. CASE ApiCheck(j)
      BY <1>1, <2>1, <3>3 DEF ApiCheck
    <3>4. CASE ApiCreateJob(j)
      BY <1>1, <2>1, <3>4 DEF ApiCreateJob
    <3>5. CASE ApiPublish(j)
      BY <1>1, <2>1, <3>5 DEF ApiPublish
    <3>6. CASE ApiMarkFailed(j)
      BY <1>1, <2>1, <3>6 DEF ApiMarkFailed, RecordFailure
    <3>7. CASE ApiUnstage(j)
      BY <1>1, <2>1, <3>7 DEF ApiUnstage
    <3>8. CASE ApiPublishFails(j)
      BY <1>1, <2>1, <3>8 DEF ApiPublishFails
    <3>9. CASE ApiRemoveFails(j)
      BY <1>1, <2>1, <3>9 DEF ApiRemoveFails
    <3> QED
      BY <1>4, <3>1, <3>2, <3>3, <3>4, <3>5, <3>6, <3>7, <3>8, <3>9 DEF ApiStep
  <2> QED
    BY <2>3, <2>4 DEF AllCarried
<1>5. CASE ApiStep(j) \/ ApiPublishFails(j) \/ ApiRemoveFails(j)
  <2>1. UNCHANGED budget \/ budget'["dbError"] = budget["dbError"]
    BY <1>5, OtherBudget
       DEF ApiStep, ApiRefuse, ApiStage, ApiCheck, ApiCreateJob, ApiPublish, ApiMarkFailed,
           ApiUnstage, ApiPublishFails, ApiRemoveFails, FailureKinds
  <2> QED
    BY <1>2, <1>4, <1>5, <2>1, CarryOther
<1> QED
  BY <1>3, <1>5

LEMMA CarryReject ==
  ASSUME TypeInv, CarryInv, ObserversGrow, NEW p \in Ingesters, pc[p] # "idle", Reject(p),
         UNCHANGED budget \/ budget'["dbError"] = budget["dbError"]
  PROVE  CarryInv'
<1>1. UNCHANGED <<jobStatus, staging, queue, apiPc, task>> /\ Goto(p, AfterReject(p))
  BY DEF Reject, jobVars
<1>2. CASE p \in Workers
  BY <1>1, <1>2, CarryWorkerGoesOn DEF AfterReject
<1>3. CASE p \notin Workers
  <2>1. \A w \in Workers : pc'[w] = pc[w]
    BY <1>1, <1>3 DEF Goto, TypeInv, TypeOK, Ingesters
  <2> QED
    BY <1>1, <2>1, CarryUndisturbed
<1> QED
  BY <1>2, <1>3

LEMMA CarryIngest ==
  ASSUME TypeInv, CarryInv, ObserversGrow, NEW p \in Ingesters,
         IngestStep(p) \/ IngestFault(p) \/ FinalizeFault(p) \/ IngestRemoveFails(p)
  PROVE  CarryInv'
<1>1. pc[p] # "idle"
  BY DEF IngestStep, IngestCheck, IngestFinalize, IngestParse, IngestInsert, IngestFault,
         FinalizeFault, IngestRemoveFails, IngestSteps
<1>2. UNCHANGED budget \/ budget'["dbError"] = budget["dbError"]
  BY OtherBudget DEF IngestStep, IngestCheck, IngestFinalize, IngestParse, IngestInsert,
                     IngestFault, FinalizeFault, IngestRemoveFails, FailureKinds
<1>3. CASE Reject(p)
  BY <1>1, <1>2, <1>3, CarryReject
<1>4. CASE ~Reject(p)
  <2>1. UNCHANGED <<jobStatus, staging, queue, apiPc, task>>
    BY <1>4 DEF IngestStep, IngestCheck, IngestFinalize, IngestParse, IngestInsert,
                IngestFault, FinalizeFault, IngestRemoveFails, jobVars
  <2>2. PICK step : /\ Goto(p, step)
                    /\ p \in Workers => step \notin {"idle", "cleanup", "ack"}
    BY <1>4, ProcessAssumption
       DEF IngestStep, IngestCheck, IngestFinalize, IngestParse, IngestInsert,
           IngestFault, FinalizeFault, IngestRemoveFails, AfterReject
  <2>3. CASE p \in Workers
    BY <1>1, <1>2, <2>1, <2>2, <2>3, CarryWorkerGoesOn
  <2>4. CASE p \notin Workers
    <3>1. \A w \in Workers : pc'[w] = pc[w]
      BY <2>2, <2>4 DEF Goto, TypeInv, TypeOK, Ingesters
    <3> QED
      BY <1>2, <2>1, <3>1, CarryUndisturbed
  <2> QED
    BY <2>3, <2>4
<1> QED
  BY <1>3, <1>4

LEMMA CarryUpload ==
  ASSUME TypeInv, CarryInv, ObserversGrow, NEW u \in Uploads, UploadStep(u) \/ UploadCommitLost(u)
  PROVE  CarryInv'
<1>1. u \in Ingesters /\ u \notin Workers
  BY ProcessAssumption DEF Ingesters
<1>2. CASE IngestStep(u)
  BY <1>1, <1>2, CarryIngest
<1>3. CASE UploadRefuse(u) \/ (\E c \in Contents : UploadStage(u, c)) \/ UploadCommitLost(u)
  <2>1. UNCHANGED <<jobStatus, staging, queue, apiPc, task>> /\ \A w \in Workers : pc'[w] = pc[w]
    BY <1>1, <1>3 DEF UploadRefuse, UploadStage, UploadCommitLost, jobVars, Goto, TypeInv, TypeOK,
                      Ingesters
  <2>2. UNCHANGED budget \/ budget'["dbError"] = budget["dbError"]
    BY <1>3, OtherBudget DEF UploadRefuse, UploadStage, UploadCommitLost, FailureKinds
  <2> QED
    BY <2>1, <2>2, CarryUndisturbed
<1> QED
  BY <1>2, <1>3 DEF UploadStep

LEMMA CarryReceive ==
  ASSUME TypeInv, CarryInv, ObserversGrow, NEW w \in Workers, NEW j \in Jobs, WorkerReceive(w, j)
  PROVE  CarryInv'
<1>1. /\ task[w] = None /\ task'[w] = j /\ pc'[w] = "claim"
      /\ \A v \in Workers : v # w => task'[v] = task[v] /\ pc'[v] = pc[v]
      /\ UNCHANGED <<jobStatus, staging, apiPc, budget>>
      /\ \A k \in Jobs : k # j => queue'[k] = queue[k]
  BY DEF CarryInv, TaskIsHeld, WorkerReceive, Goto, TypeInv, TypeOK, jobVars, Ingesters
<1>2. TaskIsHeld'
  BY <1>1 DEF CarryInv, TaskIsHeld
<1>3. \A k \in Jobs : k # j /\ JobCarried(k) => JobCarried(k)'
  BY <1>1, NoneAssumption, CarriedAsBefore
<1>4. JobCarried(j)'
  BY <1>1 DEF JobCarried, Processing
<1> QED
  BY <1>1, <1>2, <1>3, <1>4, CarryOther DEF AllCarried

LEMMA CarryWorker ==
  ASSUME TypeInv, CarryInv, ObserversGrow, NEW w \in Workers,
         \/ WorkerStep(w) \/ WorkerLoadFault(w) \/ WorkerCompleteFails(w)
         \/ WorkerDiscardFails(w) \/ WorkerRemoveFails(w) \/ WorkerDbError(w)
         \/ WorkerCrash(w) \/ BrokerRedeliver(w)
  PROVE  CarryInv'
<1> DEFINE j == task[w]
<1>1. w \in Ingesters /\ (pc[w] # "idle" => j \in Jobs)
  BY DEF Ingesters, TypeInv, BusyWorkersHaveTask
<1>2. CASE \E k \in Jobs : WorkerReceive(w, k)
  BY <1>2, CarryReceive
<1>3. CASE IngestStep(w)
  BY <1>1, <1>3, CarryIngest
<1>4. CASE WorkerClaim(w)
  <2>1. pc[w] # "idle" /\ j \in Jobs
    BY <1>1, <1>4 DEF WorkerClaim
  <2>2. CASE Handled(j)
    <3>1. /\ Goto(w, "ack") /\ jobStatus[j] \in Terminal /\ staging'[j] = None
          /\ \A k \in Jobs : k # j => staging'[k] = staging[k]
          /\ UNCHANGED <<jobStatus, queue, apiPc, task, budget>>
      BY <1>4, <2>1, <2>2 DEF WorkerClaim, Handled, Unstage, jobVars, TypeInv, TypeOK
    <3>2. JobCarried(j)'
      BY <3>1 DEF JobCarried, Terminal
    <3> QED
      BY <2>1, <3>1, <3>2, CarryWorkerStep
  <2>3. CASE ~Handled(j)
    <3>1. \A k \in Jobs : k # j => jobStatus'[k] = jobStatus[k]
      BY <1>4, <2>1, <2>3 DEF WorkerClaim, TypeInv, TypeOK
    <3> QED
      BY <1>4, <2>1, <2>3, <3>1, CarryWorkerGoesOn DEF WorkerClaim
  <2> QED
    BY <2>2, <2>3
<1>5. CASE WorkerLoad(w) \/ WorkerLoadFault(w) \/ WorkerCompleteFails(w)
  <2>1. pc[w] # "idle" /\ j \in Jobs
    BY <1>1, <1>5 DEF WorkerLoad, WorkerLoadFault, WorkerCompleteFails
  <2>2. UNCHANGED <<apiPc, task, queue, staging>>
    BY <1>5 DEF WorkerLoad, WorkerLoadFault, WorkerCompleteFails, CopyStaged
  <2>3. \A k \in Jobs : k # j => jobStatus'[k] = jobStatus[k]
    BY <1>5, <2>1 DEF WorkerLoad, WorkerLoadFault, WorkerCompleteFails, CompleteJob, jobVars,
                      TypeInv, TypeOK
  <2>4. UNCHANGED budget \/ budget'["dbError"] = budget["dbError"]
    BY <1>5, OtherBudget DEF WorkerLoad, WorkerLoadFault, WorkerCompleteFails, FailureKinds
  <2>5. \E step \in {"check", "markFailed", "reload"} : Goto(w, step)
    BY <1>5 DEF WorkerLoad, WorkerLoadFault, WorkerCompleteFails
  <2> QED
    BY <2>1, <2>2, <2>3, <2>4, <2>5, CarryWorkerGoesOn
<1>6. CASE WorkerReload(w) /\ ~Handled(j)
  BY <1>6, CarryWorkerGoesOn DEF WorkerReload, jobVars
<1>7. CASE \/ WorkerReload(w) /\ Handled(j)
           \/ WorkerComplete(w) \/ WorkerMarkFailed(w)
  <2>1. pc[w] # "idle" /\ j \in Jobs /\ Goto(w, "cleanup")
        /\ UNCHANGED <<staging, queue, apiPc, task, budget>>
    BY <1>1, <1>7 DEF WorkerReload, WorkerComplete, WorkerMarkFailed
  <2>2. /\ jobStatus'[j] \in Terminal
        /\ \A k \in Jobs : k # j => jobStatus'[k] = jobStatus[k]
    BY <1>7, <2>1 DEF WorkerReload, WorkerComplete, WorkerMarkFailed, CompleteJob, RecordFailure,
                      Handled, Terminal, jobVars, TypeInv, TypeOK
  <2>3. pc'[w] = "cleanup"
    BY <1>1, <2>1 DEF Goto, TypeInv, TypeOK
  <2>4. JobCarried(j)'
    BY <2>1, <2>2, <2>3 DEF JobCarried, Terminal
  <2> QED
    BY <2>1, <2>2, <2>4, CarryWorkerStep
<1>8. CASE WorkerCleanup(w)
  <2>1. /\ pc[w] = "cleanup" /\ j \in Jobs /\ Goto(w, "ack") /\ staging'[j] = None
        /\ \A k \in Jobs : k # j => staging'[k] = staging[k]
        /\ UNCHANGED <<jobStatus, queue, apiPc, task, budget>>
    BY <1>1, <1>8 DEF WorkerCleanup, Unstage, jobVars, TypeInv, TypeOK
  <2>2. \A v \in Workers : v # w => pc'[v] = pc[v]
    BY <2>1 DEF Goto, TypeInv, TypeOK
  <2>3. JobCarried(j) => JobCarried(j)'
    BY <2>1, <2>2 DEF ObserversGrow, JobCarried, Processing
  <2> QED
    BY <2>1, <2>3, CarryWorkerStep
<1>9. CASE WorkerAck(w)
  <2>1. PICK k \in Jobs : task[w] = k
    BY <1>1, <1>9 DEF WorkerAck
  <2>2. /\ pc[w] = "ack" /\ Goto(w, "idle") /\ task'[w] = None
        /\ \A v \in Workers : v # w => task'[v] = task[v]
        /\ UNCHANGED <<jobStatus, staging, queue, apiPc, budget>>
    BY <1>9 DEF WorkerAck, jobVars, TypeInv, TypeOK
  <2>3. \A v \in Workers : v # w => pc'[v] = pc[v]
    BY <2>2 DEF Goto, TypeInv, TypeOK
  <2>4. JobCarried(k) => JobCarried(k)'
    BY <2>2, <2>3 DEF ObserversGrow, JobCarried, Processing
  <2> QED
    BY <2>1, <2>2, <2>4, CarryWorkerStep
<1>10. CASE WorkerCrash(w) \/ BrokerRedeliver(w)
  <2>1. PICK k \in Jobs : task[w] = k
    BY <1>1, <1>10 DEF WorkerCrash, BrokerRedeliver, TypeInv, TypeOK
  <2>2. /\ queue'[k] = queue[k] + 1 /\ \A l \in Jobs : l # k => queue'[l] = queue[l]
        /\ UNCHANGED <<jobStatus, staging, apiPc>>
    BY <1>10, <2>1 DEF WorkerCrash, BrokerRedeliver, Requeue, jobVars, TypeInv, TypeOK
  <2>3. queue'[k] > 0
    BY <2>2 DEF TypeInv, TypeOK
  <2>4. JobCarried(k)'
    BY <2>3 DEF JobCarried
  <2>5. budget'["dbError"] = budget["dbError"]
    BY <1>10, OtherBudget DEF WorkerCrash, BrokerRedeliver, FailureKinds
  <2>6. CASE WorkerCrash(w)
    <3>1. Goto(w, "idle") /\ task'[w] = None /\ \A v \in Workers : v # w => task'[v] = task[v]
      BY <2>6 DEF WorkerCrash, TypeInv, TypeOK
    <3> QED
      BY <2>1, <2>2, <2>4, <2>5, <3>1, CarryWorkerStep
  <2>7. CASE BrokerRedeliver(w)
    <3>1. UNCHANGED <<pc, task>>
      BY <2>7 DEF BrokerRedeliver, ingVars
    <3>2. TaskIsHeld'
      BY <3>1 DEF CarryInv, TaskIsHeld
    <3>3. \A l \in Jobs : l # k /\ JobCarried(l) => JobCarried(l)'
      BY <2>2, <3>1, CarriedAsBefore
    <3> QED
      BY <2>4, <2>5, <3>2, <3>3, CarryOther DEF AllCarried
  <2> QED
    BY <1>10, <2>6, <2>7
<1>11. CASE WorkerDbError(w)
  <2>1. UNCHANGED task /\ \E step \in Steps \ {"idle"} : Goto(w, step)
    BY <1>11 DEF WorkerDbError, Steps
  <2>2. TaskIsHeld'
    BY <2>1 DEF CarryInv, TaskIsHeld, Goto, TypeInv, TypeOK, Ingesters
  <2> QED
    BY <1>11, <2>2, CarryDbError DEF WorkerDbError
<1>12. CASE WorkerRemoveFails(w)
  <2>1. PICK k \in Jobs : task[w] = k
    BY <1>1, <1>12 DEF WorkerRemoveFails
  <2>2. /\ Goto(w, "ack") /\ k \in unremoved'
        /\ pc[w] = "cleanup" \/ jobStatus[k] \in Terminal
        /\ UNCHANGED <<jobStatus, staging, queue, apiPc, task>>
    BY <1>12, <2>1 DEF WorkerRemoveFails, Handled, jobVars
  <2>3. \A v \in Workers : v # w => pc'[v] = pc[v]
    BY <2>2 DEF Goto, TypeInv, TypeOK
  <2>4. JobCarried(k) => JobCarried(k)'
    BY <2>1, <2>2, <2>3 DEF ObserversGrow, JobCarried, Processing, Terminal
  <2>5. budget'["dbError"] = budget["dbError"]
    BY <1>12, OtherBudget DEF WorkerRemoveFails, FailureKinds
  <2> QED
    BY <2>1, <2>2, <2>4, <2>5, CarryWorkerStep
<1>13. CASE WorkerDiscardFails(w)
  <2>1. PICK k \in Jobs : task[w] = k
    BY <1>1, <1>13 DEF WorkerDiscardFails
  <2>2. /\ Goto(w, "cleanup") /\ UNCHANGED <<staging, queue, apiPc, task>>
        /\ k \in unrecorded' \/ jobStatus'[k] = "COMPLETED"
        /\ \A l \in Jobs : l # k => jobStatus'[l] = jobStatus[l]
    BY <1>13, <2>1 DEF WorkerDiscardFails, CompleteJob, jobVars, TypeInv, TypeOK
  <2>3. pc'[w] = "cleanup"
    BY <1>1, <2>2 DEF Goto, TypeInv, TypeOK
  <2>4. JobCarried(k)'
    BY <2>1, <2>2, <2>3 DEF JobCarried
  <2> QED
    BY <1>13, <2>1, <2>2, <2>4, DiscardBudget, CarryWorkerStep
<1> QED
  BY <1>2, <1>3, <1>4, <1>5, <1>6, <1>7, <1>8, <1>9, <1>10, <1>11, <1>12, <1>13 DEF WorkerStep

LEMMA CarryApiCrash ==
  ASSUME TypeInv, CarryInv, ObserversGrow, ApiCrash
  PROVE  CarryInv'
<1>1. /\ UNCHANGED <<jobStatus, staging, queue, task>>
      /\ \A w \in Workers : pc'[w] = pc[w]
      /\ \A j \in Jobs : apiPc'[j] = apiPc[j]
                         \/ (apiPc'[j] = "aborted" /\ apiPc[j] \notin {"idle", "done"})
  BY ProcessAssumption DEF ApiCrash, jobVars, Ingesters, TypeInv, TypeOK
<1>2. TaskIsHeld'
  BY <1>1 DEF CarryInv, TaskIsHeld
<1>3. AllCarried => AllCarried'
  BY <1>1 DEF ObserversGrow, AllCarried, JobCarried, Processing
<1>4. budget'["dbError"] = budget["dbError"]
  BY OtherBudget DEF ApiCrash, FailureKinds
<1> QED
  BY <1>2, <1>3, <1>4, CarryOther

LEMMA CarryNext == TypeInv /\ CarryInv /\ [Next]_vars => CarryInv'
<1> SUFFICES ASSUME TypeInv, CarryInv, [Next]_vars PROVE CarryInv'
  OBVIOUS
<1> ObserversGrow
  BY ObserversGrowNext
<1>1. CASE \E j \in Jobs : ApiStep(j) \/ ApiPublishFails(j) \/ ApiRemoveFails(j) \/ ApiDbError(j)
  BY <1>1, CarryApi
<1>2. CASE \E u \in Uploads : UploadStep(u) \/ UploadCommitLost(u)
  BY <1>2, CarryUpload
<1>3. CASE \E w \in Workers : \/ WorkerStep(w) \/ WorkerLoadFault(w)
                              \/ WorkerCompleteFails(w) \/ WorkerDiscardFails(w)
                              \/ WorkerRemoveFails(w) \/ WorkerDbError(w)
                              \/ WorkerCrash(w) \/ BrokerRedeliver(w)
  BY <1>3, CarryWorker
<1>4. CASE \E p \in Ingesters : IngestFault(p) \/ FinalizeFault(p) \/ IngestRemoveFails(p)
  BY <1>4, CarryIngest
<1>5. CASE ApiCrash
  BY <1>5, CarryApiCrash
<1>6. CASE \E d \in Docs : DeleteDocument(d)
  BY <1>6, CarryUndisturbed DEF DeleteDocument, jobVars, ingVars
<1>7. CASE UNCHANGED vars
  BY <1>7, CarryUndisturbed DEF vars, jobVars, ingVars
<1> QED
  BY <1>1, <1>2, <1>3, <1>4, <1>5, <1>6, <1>7 DEF Next, Failure, Finished

LEMMA CarryCorrect == Spec => []CarryInv
<1>1. Spec => [](TypeInv /\ CarryInv)
  BY TypeInvInit, TypeInvNext, CarryInvInit, CarryNext, PTL DEF Spec
<1> QED
  BY <1>1, PTL

\* A job whose row says QUEUED or PROCESSING is in somebody's hands, for every
\* number of workers, crashes and redeliveries, except after an aborted request,
\* a database error or a failure that could not be recorded.
THEOREM JobsAreCarried == Spec => []UnsettledIsCarried
<1>1. CarryInv => UnsettledIsCarried
  BY DEF CarryInv, UnsettledIsCarried, AllCarried, JobCarried
<1> QED
  BY <1>1, CarryCorrect, PTL

\* A staged file has somebody who will remove it, for every number of workers,
\* crashes and redeliveries, except after an aborted request, a database error or
\* a removal that was tried and raised.
THEOREM StagedAreCarried == Spec => []StagedFilesCarried
<1>1. CarryInv => StagedFilesCarried
  BY DEF CarryInv, StagedFilesCarried, AllCarried, JobCarried
<1> QED
  BY <1>1, CarryCorrect, PTL

-----------------------------------------------------------------------------
(* The record of a job.  Two workers that hold one job overwrite each other, *)
(* and so do a worker and a request that believes it could not publish.      *)
(* Neither happens when a failed publish has sent nothing and there is one   *)
(* worker or no repeated delivery: then a job has one writer at a time.      *)

OneWriter ==
    /\ "publish" \notin Ambiguous
    /\ MaxRedeliveries = 0 \/ \A v, w \in Workers : v = w

\* Nobody works on a job before its request is over; at most one worker holds
\* it; without repeated deliveries there is one delivery of it altogether.
OneWriterInv ==
    /\ \A j \in Jobs : apiPc[j] \notin {"done", "aborted"} =>
          queue[j] = 0 /\ \A w \in Workers : task[w] # j
    /\ \A v, w \in Workers : task[v] = task[w] /\ task[v] # None => v = w
    /\ MaxRedeliveries = 0 =>
          /\ budget["redelivery"] = 0
          /\ \A j \in Jobs :
                queue[j] <= 1 /\ (queue[j] = 1 => \A w \in Workers : task[w] # j)

\* Where a request or a worker is tells what its job's row says.
RequestKnows(j) ==
    /\ apiPc[j] \in {"idle", "check", "create"} => jobStatus[j] = "none"
    /\ apiPc[j] \in {"publish", "markFailed"} => jobStatus[j] = "QUEUED"
    /\ apiPc[j] = "unstage" => jobStatus[j] = "FAILED"
    /\ jobStatus[j] = "none" => queue[j] = 0 /\ \A w \in Workers : task[w] # j

WorkerKnows(w) ==
    /\ pc[w] \in {"load", "check", "finalize", "parse", "insert", "complete"} =>
          jobStatus[task[w]] = "PROCESSING"
    /\ pc[w] = "markFailed" => jobStatus[task[w]] \in {"QUEUED", "PROCESSING"}

DocsOf(j) == {d \in Rows : origin[d] = j}

RecordOf(j) ==
    /\ DocsOf(j) = IF jobStatus[j] = "COMPLETED" THEN {jobDoc[j]} ELSE {}
    /\ jobError[j] <=> jobStatus[j] = "FAILED"

HasDirectory == \A p \in Ingesters : pc[p] \in {"parse", "insert", "complete"} => newDoc[p] \in Docs

RecordsAgree ==
    /\ \A j \in Jobs : RequestKnows(j) /\ RecordOf(j)
    /\ \A w \in Workers : WorkerKnows(w)

\* The staged file, when no database error happens: it is there until the
\* request or the worker that removes it has seen or written the outcome, or
\* failed to write it.
StagedInv ==
    /\ \A j \in Jobs :
          /\ jobStatus[j] \in {"QUEUED", "PROCESSING"} /\ j \notin unrecorded => staging[j] # None
          /\ apiPc[j] \in {"check", "create"} => staging[j] # None
    /\ \A w \in Workers : pc[w] \in {"cleanup", "ack"} =>
          jobStatus[task[w]] \in Terminal \/ task[w] \in unrecorded
    /\ budget["dbError"] = 0

-----------------------------------------------------------------------------
(* One writer at a time                                                     *)

LEMMA OneWriterInit == Init => OneWriterInv
<1> SUFFICES ASSUME Init PROVE OneWriterInv
  OBVIOUS
<1>1. budget["redelivery"] = MaxRedeliveries
  BY DEF Init, FailureKinds
<1>2. \A w \in Workers : task[w] = None
  BY DEF Init
<1> QED
  BY <1>1, <1>2, NoneAssumption DEF Init, OneWriterInv

\* Redeliveries, once used up, stay so.
LEMMA RedeliveriesUsedUp ==
  ASSUME TypeInv, NEW kind \in FailureKinds \ {"redelivery"}, Spend(kind)
  PROVE  budget'["redelivery"] = budget["redelivery"]
BY DEF TypeInv, TypeOK, Spend, FailureKinds

LEMMA OneWriterUndisturbed ==
  ASSUME OneWriterInv, UNCHANGED <<queue, task>>,
         UNCHANGED budget \/ budget'["redelivery"] = budget["redelivery"],
         \A j \in Jobs : apiPc'[j] \notin {"done", "aborted"} =>
                            apiPc[j] \notin {"done", "aborted"}
  PROVE  OneWriterInv'
BY DEF OneWriterInv

LEMMA OneWriterApi ==
  ASSUME OneWriter, TypeInv, OneWriterInv, NEW j \in Jobs,
         ApiStep(j) \/ ApiPublishFails(j) \/ ApiRemoveFails(j) \/ ApiDbError(j)
  PROVE  OneWriterInv'
<1>1. UNCHANGED budget \/ budget'["redelivery"] = budget["redelivery"]
  BY RedeliveriesUsedUp
     DEF ApiStep, ApiRefuse, ApiStage, ApiCheck, ApiCreateJob, ApiPublish, ApiMarkFailed,
         ApiUnstage, ApiPublishFails, ApiRemoveFails, ApiDbError, FailureKinds
<1>2. \A k \in Jobs : apiPc'[k] \notin {"done", "aborted"} => apiPc[k] \notin {"done", "aborted"}
  BY DEF ApiStep, ApiRefuse, ApiStage, ApiCheck, ApiCreateJob, ApiPublish, ApiMarkFailed,
         ApiUnstage, ApiPublishFails, ApiRemoveFails, ApiDbError, ApiGoto, TypeInv, TypeOK
<1>3. CASE ApiPublish(j)
  <2>1. queue[j] = 0 /\ \A w \in Workers : task[w] # j
    BY <1>3 DEF ApiPublish, OneWriterInv
  <2>2. queue'[j] = 1 /\ apiPc'[j] = "done" /\ UNCHANGED <<task, budget>>
        /\ \A k \in Jobs : k # j => queue'[k] = queue[k]
    BY <1>3, <2>1 DEF ApiPublish, ApiGoto, TypeInv, TypeOK
  <2> QED
    BY <1>2, <2>1, <2>2 DEF OneWriterInv
<1>4. CASE ~ApiPublish(j)
  <2>1. UNCHANGED <<queue, task>>
    BY <1>4 DEF OneWriter, ApiStep, ApiRefuse, ApiStage, ApiCheck, ApiCreateJob, ApiMarkFailed,
                ApiUnstage, ApiPublishFails, ApiRemoveFails, ApiDbError
  <2> QED
    BY <1>1, <1>2, <2>1, OneWriterUndisturbed
<1> QED
  BY <1>3, <1>4

LEMMA OneWriterIngest ==
  ASSUME TypeInv, OneWriterInv, NEW p \in Ingesters,
         IngestStep(p) \/ IngestFault(p) \/ FinalizeFault(p) \/ IngestRemoveFails(p)
  PROVE  OneWriterInv'
<1>1. UNCHANGED <<queue, task, apiPc>>
  BY DEF IngestStep, IngestCheck, IngestFinalize, IngestParse, IngestInsert, IngestFault,
         FinalizeFault, IngestRemoveFails, Reject
<1>2. UNCHANGED budget \/ budget'["redelivery"] = budget["redelivery"]
  BY RedeliveriesUsedUp
     DEF IngestStep, IngestCheck, IngestFinalize, IngestParse, IngestInsert, IngestFault,
         FinalizeFault, IngestRemoveFails, FailureKinds
<1> QED
  BY <1>1, <1>2, OneWriterUndisturbed

LEMMA OneWriterWorker ==
  ASSUME OneWriter, TypeInv, TaskIsHeld, OneWriterInv, NEW w \in Workers,
         \/ WorkerStep(w) \/ WorkerLoadFault(w) \/ WorkerCompleteFails(w)
         \/ WorkerDiscardFails(w) \/ WorkerRemoveFails(w) \/ WorkerDbError(w)
         \/ WorkerCrash(w) \/ BrokerRedeliver(w)
  PROVE  OneWriterInv'
<1>1. w \in Ingesters
  BY DEF Ingesters
<1>2. CASE \E j \in Jobs : WorkerReceive(w, j)
  <2>1. PICK j \in Jobs : WorkerReceive(w, j)
    BY <1>2
  <2>2. queue[j] > 0 /\ queue[j] \in Nat /\ UNCHANGED <<apiPc, budget>>
        /\ queue'[j] = queue[j] - 1 /\ \A k \in Jobs : k # j => queue'[k] = queue[k]
    BY <2>1 DEF WorkerReceive, Deliverable, TypeInv, TypeOK
  <2>3. task[w] = None /\ task'[w] = j /\ \A v \in Workers : v # w => task'[v] = task[v]
    BY <2>1 DEF WorkerReceive, TaskIsHeld, TypeInv, TypeOK
  <2>4. apiPc[j] \in {"done", "aborted"}
    BY <2>2 DEF OneWriterInv
  <2>5. MaxRedeliveries = 0 => queue[j] = 1
    BY <2>2 DEF OneWriterInv
  <2>6. \A v \in Workers : v # w => task[v] # j
    BY <2>5 DEF OneWriter, OneWriterInv
  <2> QED
    BY <2>2, <2>3, <2>4, <2>5, <2>6 DEF OneWriterInv
<1>3. CASE WorkerAck(w)
  <2>1. UNCHANGED <<queue, apiPc, budget>>
        /\ task'[w] = None /\ \A v \in Workers : v # w => task'[v] = task[v]
    BY <1>3 DEF WorkerAck, TypeInv, TypeOK
  <2>2. \A v \in Workers : task'[v] # None => task'[v] = task[v]
    BY <2>1
  <2> QED
    BY <2>1, <2>2, NoneAssumption DEF OneWriterInv
<1>4. CASE WorkerCrash(w) \/ BrokerRedeliver(w)
  <2>1. PICK j \in Jobs : task[w] = j
    BY <1>1, <1>4 DEF WorkerCrash, BrokerRedeliver, TypeInv, TypeOK, BusyWorkersHaveTask
  <2>2. queue'[j] = queue[j] + 1 /\ queue[j] \in Nat /\ UNCHANGED apiPc
        /\ \A k \in Jobs : k # j => queue'[k] = queue[k]
    BY <1>4, <2>1 DEF WorkerCrash, BrokerRedeliver, Requeue, TypeInv, TypeOK
  <2>3. apiPc[j] \in {"done", "aborted"}
    BY <2>1 DEF OneWriterInv
  <2>4. MaxRedeliveries = 0 => queue[j] = 0
    BY <2>1, <2>2 DEF OneWriterInv
  <2>5. CASE WorkerCrash(w)
    <3>1. task'[w] = None /\ \A v \in Workers : v # w => task'[v] = task[v]
      BY <2>5 DEF WorkerCrash, TypeInv, TypeOK
    <3>2. budget'["redelivery"] = budget["redelivery"]
      BY <2>5, RedeliveriesUsedUp DEF WorkerCrash, FailureKinds
    <3>3. \A v \in Workers : v # w => task[v] # j
      BY <2>1, NoneAssumption DEF OneWriterInv
    <3>4. \A v \in Workers : task'[v] # None => v # w /\ task'[v] = task[v]
      BY <3>1
    <3> QED
      BY <2>2, <2>3, <2>4, <3>1, <3>2, <3>3, <3>4, NoneAssumption DEF OneWriterInv
  <2>6. CASE BrokerRedeliver(w)
    <3>1. MaxRedeliveries # 0
      BY <2>6 DEF BrokerRedeliver, Spend, OneWriterInv, TypeInv, TypeOK
    <3> QED
      BY <2>2, <2>3, <2>6, <3>1 DEF BrokerRedeliver, OneWriterInv
  <2> QED
    BY <1>4, <2>5, <2>6
<1>5. CASE IngestStep(w)
  BY <1>1, <1>5, OneWriterIngest
<1>6. CASE \/ WorkerClaim(w) \/ WorkerLoad(w) \/ WorkerComplete(w) \/ WorkerReload(w)
           \/ WorkerMarkFailed(w) \/ WorkerCleanup(w) \/ WorkerLoadFault(w)
           \/ WorkerCompleteFails(w) \/ WorkerDiscardFails(w) \/ WorkerRemoveFails(w)
           \/ WorkerDbError(w)
  <2>1. UNCHANGED <<queue, task, apiPc>>
    BY <1>6 DEF WorkerClaim, WorkerLoad, WorkerComplete, WorkerReload, WorkerMarkFailed,
                WorkerCleanup, WorkerLoadFault, WorkerCompleteFails, WorkerDiscardFails,
                WorkerRemoveFails, WorkerDbError
  <2>2. UNCHANGED budget \/ budget'["redelivery"] = budget["redelivery"]
    BY <1>6, RedeliveriesUsedUp, DiscardBudget
       DEF WorkerClaim, WorkerLoad, WorkerComplete, WorkerReload, WorkerMarkFailed,
           WorkerCleanup, WorkerLoadFault, WorkerCompleteFails,
           WorkerRemoveFails, WorkerDbError, FailureKinds
  <2> QED
    BY <2>1, <2>2, OneWriterUndisturbed
<1> QED
  BY <1>2, <1>3, <1>4, <1>5, <1>6 DEF WorkerStep

LEMMA OneWriterNext ==
  ASSUME OneWriter, TypeInv, TaskIsHeld, OneWriterInv, [Next]_vars
  PROVE  OneWriterInv'
<1>1. CASE \E j \in Jobs : ApiStep(j) \/ ApiPublishFails(j) \/ ApiRemoveFails(j) \/ ApiDbError(j)
  BY <1>1, OneWriterApi
<1>2. CASE \E u \in Uploads : UploadStep(u) \/ UploadCommitLost(u)
  <2>1. PICK u \in Uploads : UploadStep(u) \/ UploadCommitLost(u)
    BY <1>2
  <2>2. CASE IngestStep(u)
    BY <2>2, OneWriterIngest DEF Ingesters
  <2>3. CASE ~IngestStep(u)
    <3>1. UNCHANGED <<queue, task, apiPc>>
      BY <2>1, <2>3 DEF UploadStep, UploadRefuse, UploadStage, UploadCommitLost
    <3>2. UNCHANGED budget \/ budget'["redelivery"] = budget["redelivery"]
      BY <2>1, <2>3, RedeliveriesUsedUp
         DEF UploadStep, UploadRefuse, UploadStage, UploadCommitLost, FailureKinds
    <3> QED
      BY <3>1, <3>2, OneWriterUndisturbed
  <2> QED
    BY <2>2, <2>3
<1>3. CASE \E w \in Workers : \/ WorkerStep(w) \/ WorkerLoadFault(w)
                              \/ WorkerCompleteFails(w) \/ WorkerDiscardFails(w)
                              \/ WorkerRemoveFails(w) \/ WorkerDbError(w)
                              \/ WorkerCrash(w) \/ BrokerRedeliver(w)
  BY <1>3, OneWriterWorker
<1>4. CASE \E p \in Ingesters : IngestFault(p) \/ FinalizeFault(p) \/ IngestRemoveFails(p)
  BY <1>4, OneWriterIngest
<1>5. CASE ApiCrash
  <2>1. budget'["redelivery"] = budget["redelivery"]
    BY <1>5, RedeliveriesUsedUp DEF ApiCrash, FailureKinds
  <2> QED
    BY <1>5, <2>1, OneWriterUndisturbed DEF ApiCrash
<1>6. CASE \E d \in Docs : DeleteDocument(d)
  BY <1>6, OneWriterUndisturbed DEF DeleteDocument
<1>7. CASE UNCHANGED vars
  BY <1>7, OneWriterUndisturbed DEF vars
<1> QED
  BY <1>1, <1>2, <1>3, <1>4, <1>5, <1>6, <1>7 DEF Next, Failure, Finished

-----------------------------------------------------------------------------
(* The rows of a job                                                        *)

\* A step of p alone, which has a directory from finalize to the insert.
LEMMA DirectoryStep ==
  ASSUME TypeInv, HasDirectory, NEW p \in Ingesters, NEW step, Goto(p, step),
         \A q \in Ingesters : q # p => newDoc'[q] = newDoc[q],
         step \in {"parse", "insert", "complete"} => newDoc'[p] \in Docs
  PROVE  HasDirectory'
BY DEF HasDirectory, Goto, TypeInv, TypeOK

LEMMA DirectoryIngest ==
  ASSUME TypeInv, HasDirectory, NEW p \in Ingesters,
         IngestStep(p) \/ IngestFault(p) \/ FinalizeFault(p) \/ IngestRemoveFails(p)
  PROVE  HasDirectory'
<1>1. CASE Reject(p) \/ FinalizeFault(p) \/ IngestRemoveFails(p)
  BY <1>1, DirectoryStep
     DEF Reject, FinalizeFault, IngestRemoveFails, DropAttempt, LeaveAttempt, Release, AfterReject,
         TypeInv, TypeOK
<1>2. CASE ~Reject(p) /\ (IngestCheck(p) \/ IngestParse(p))
  BY <1>2, DirectoryStep DEF IngestCheck, IngestParse, HasDirectory
<1>3. CASE IngestFinalize(p)
  BY <1>3, DirectoryStep DEF IngestFinalize, UnusedDocs, TypeInv, TypeOK
<1>4. CASE ~Reject(p) /\ IngestInsert(p)
  <2>1. CASE p \in Uploads
    BY <1>4, <2>1, ProcessAssumption, DirectoryStep
       DEF IngestInsert, KeepAttempt, Release, TypeInv, TypeOK
  <2>2. CASE p \in Workers
    BY <1>4, <2>2, ProcessAssumption, DirectoryStep DEF IngestInsert, HasDirectory
  <2> QED
    BY <2>1, <2>2 DEF Ingesters
<1> QED
  BY <1>1, <1>2, <1>3, <1>4 DEF IngestStep, IngestFault

LEMMA DirectoryNext == TypeInv /\ HasDirectory /\ [Next]_vars => HasDirectory'
<1> SUFFICES ASSUME TypeInv, HasDirectory, [Next]_vars PROVE HasDirectory'
  OBVIOUS
<1>1. CASE \E j \in Jobs : ApiStep(j) \/ ApiPublishFails(j) \/ ApiRemoveFails(j) \/ ApiDbError(j)
  BY <1>1
     DEF ApiStep, ApiRefuse, ApiStage, ApiCheck, ApiCreateJob, ApiPublish, ApiMarkFailed,
         ApiUnstage, ApiPublishFails, ApiRemoveFails, ApiDbError, ingVars, HasDirectory
<1>2. CASE \E p \in Ingesters : \/ IngestStep(p) \/ IngestFault(p) \/ FinalizeFault(p)
                                \/ IngestRemoveFails(p)
  BY <1>2, DirectoryIngest
<1>3. CASE \E u \in Uploads : \/ UploadRefuse(u) \/ (\E c \in Contents : UploadStage(u, c))
                              \/ UploadCommitLost(u)
  BY <1>3, DirectoryStep
     DEF UploadRefuse, UploadStage, UploadCommitLost, DropAttempt, Release, TypeInv, TypeOK,
         Ingesters
<1>4. CASE \E w \in Workers : \/ WorkerComplete(w) \/ WorkerCompleteFails(w)
                              \/ WorkerDiscardFails(w) \/ WorkerCrash(w)
  <2>1. PICK w \in Workers : \/ WorkerComplete(w) \/ WorkerCompleteFails(w)
                              \/ WorkerDiscardFails(w) \/ WorkerCrash(w)
    BY <1>4
  <2>2. Release(w) /\ \E step \in {"cleanup", "reload", "idle"} : Goto(w, step)
    BY <2>1 DEF WorkerComplete, WorkerCompleteFails, WorkerDiscardFails, WorkerCrash, DropAttempt,
                LeaveAttempt, KeepAttempt
  <2> QED
    BY <2>2, DirectoryStep DEF Release, TypeInv, TypeOK, Ingesters
<1>5. CASE \E w \in Workers :
             \/ \E j \in Jobs : WorkerReceive(w, j)
             \/ WorkerClaim(w) \/ WorkerLoad(w) \/ WorkerReload(w) \/ WorkerMarkFailed(w)
             \/ WorkerCleanup(w) \/ WorkerAck(w) \/ WorkerLoadFault(w) \/ WorkerRemoveFails(w)
             \/ WorkerDbError(w)
  <2>1. PICK w \in Workers :
             \/ \E j \in Jobs : WorkerReceive(w, j)
             \/ WorkerClaim(w) \/ WorkerLoad(w) \/ WorkerReload(w) \/ WorkerMarkFailed(w)
             \/ WorkerCleanup(w) \/ WorkerAck(w) \/ WorkerLoadFault(w) \/ WorkerRemoveFails(w)
             \/ WorkerDbError(w)
    BY <1>5
  <2>2. /\ UNCHANGED newDoc
        /\ \E step : Goto(w, step) /\ step \notin {"parse", "insert", "complete"}
    BY <2>1
       DEF WorkerReceive, WorkerClaim, WorkerLoad, WorkerReload, WorkerMarkFailed,
           WorkerCleanup, WorkerAck, WorkerLoadFault, WorkerRemoveFails, WorkerDbError
  <2> QED
    BY <2>2, DirectoryStep DEF Ingesters
<1>6. CASE (\E w \in Workers : BrokerRedeliver(w)) \/ \E d \in Docs : DeleteDocument(d)
  BY <1>6 DEF BrokerRedeliver, DeleteDocument, ingVars, HasDirectory
<1>7. CASE ApiCrash
  BY <1>7 DEF ApiCrash, HasDirectory, TypeInv, TypeOK
<1>8. CASE UNCHANGED vars
  BY <1>8 DEF vars, ingVars, HasDirectory
<1> QED
  BY <1>1, <1>2, <1>3, <1>4, <1>5, <1>6, <1>7, <1>8
     DEF Next, Failure, Finished, UploadStep, WorkerStep, Ingesters

\* What a commit does to the documents of a job.
LEMMA CommitDocs ==
  ASSUME TypeInv, FilesInv, HasDirectory, NEW p \in Ingesters, pc[p] \in {"insert", "complete"},
         NEW owner \in Jobs \cup {None}, CommitDocument(p, owner), NEW k \in Jobs
  PROVE  DocsOf(k)' = IF owner = k THEN DocsOf(k) \cup {newDoc[p]} ELSE DocsOf(k)
<1>1. newDoc[p] \in Docs /\ copy[p] \in Contents
  BY DEF HasDirectory, FilesInv, AttemptInv, IngestSteps
<1>2. newDoc[p] # None /\ copy[p] # None /\ newDoc[p] \notin Rows
  BY <1>1, NoneAssumption DEF FilesInv, FilesAccounted, Pending
<1>3. /\ docContent'[newDoc[p]] = copy[p] /\ origin'[newDoc[p]] = owner
      /\ \A d \in Docs : d # newDoc[p] => docContent'[d] = docContent[d] /\ origin'[d] = origin[d]
  BY <1>1 DEF CommitDocument, TypeInv, TypeOK
<1> QED
  BY <1>1, <1>2, <1>3, NoneAssumption DEF DocsOf, Rows

\* A job whose row and documents stay as they are.
LEMMA RecordAsBefore ==
  ASSUME NEW k \in Jobs, RecordOf(k), DocsOf(k)' = DocsOf(k), jobStatus'[k] = jobStatus[k],
         jobDoc'[k] = jobDoc[k], jobError'[k] = jobError[k]
  PROVE  RecordOf(k)'
BY DEF RecordOf

LEMMA RecordsInit == Init => HasDirectory /\ RecordsAgree
<1> SUFFICES ASSUME Init PROVE HasDirectory /\ RecordsAgree
  OBVIOUS
<1>1. \A j \in Jobs : RequestKnows(j)
  BY NoneAssumption DEF Init, RequestKnows
<1>2. \A j \in Jobs : RecordOf(j)
  BY DEF Init, RecordOf, DocsOf, Rows
<1>3. \A p \in Ingesters : pc[p] = "idle"
  BY DEF Init
<1> QED
  BY <1>1, <1>2, <1>3 DEF HasDirectory, RecordsAgree, WorkerKnows, Ingesters

LEMMA RecordsUndisturbed ==
  ASSUME RecordsAgree, UNCHANGED <<jobVars, queue, task>>,
         \A k \in Jobs : DocsOf(k)' = DocsOf(k),
         \A k \in Jobs : apiPc'[k] = apiPc[k] \/ apiPc'[k] \in {"done", "aborted"},
         \A w \in Workers : pc'[w] = pc[w]
  PROVE  RecordsAgree'
<1>1. \A k \in Jobs : RequestKnows(k)'
  BY DEF RecordsAgree, RequestKnows, jobVars
<1>2. \A k \in Jobs : RecordOf(k)'
  BY RecordAsBefore DEF RecordsAgree, jobVars
<1>3. \A w \in Workers : WorkerKnows(w)'
  BY DEF RecordsAgree, WorkerKnows, jobVars
<1> QED
  BY <1>1, <1>2, <1>3 DEF RecordsAgree

\* Rows of documents that stay as they are.
LEMMA SameDocs ==
  ASSUME UNCHANGED docVars PROVE \A k \in Jobs : DocsOf(k)' = DocsOf(k)
BY DEF DocsOf, Rows, docVars

LEMMA RecordsApi ==
  ASSUME OneWriter, TypeInv, OneWriterInv, RecordsAgree, NEW j \in Jobs,
         ApiStep(j) \/ ApiPublishFails(j) \/ ApiRemoveFails(j) \/ ApiDbError(j)
  PROVE  RecordsAgree'
<1>1. UNCHANGED <<docVars, task, pc>>
  BY DEF ApiStep, ApiRefuse, ApiStage, ApiCheck, ApiCreateJob, ApiPublish, ApiMarkFailed,
         ApiUnstage, ApiPublishFails, ApiRemoveFails, ApiDbError, ingVars
<1>2. \A k \in Jobs : k # j =>
         /\ jobStatus'[k] = jobStatus[k] /\ jobDoc'[k] = jobDoc[k] /\ jobError'[k] = jobError[k]
         /\ queue'[k] = queue[k] /\ apiPc'[k] = apiPc[k]
  BY DEF ApiStep, ApiRefuse, ApiStage, ApiCheck, ApiCreateJob, ApiPublish, ApiMarkFailed,
         ApiUnstage, ApiPublishFails, ApiRemoveFails, ApiDbError, ApiGoto, RecordFailure, jobVars,
         TypeInv, TypeOK
<1>3. \A k \in Jobs : k # j => RequestKnows(k)' /\ RecordOf(k)'
  BY <1>1, <1>2, SameDocs, RecordAsBefore DEF RecordsAgree, RequestKnows
<1>4. /\ apiPc[j] \notin {"done", "aborted"}
      /\ \A w \in Workers : task[w] # j
  BY DEF ApiStep, ApiRefuse, ApiStage, ApiCheck, ApiCreateJob, ApiPublish, ApiMarkFailed,
         ApiUnstage, ApiPublishFails, ApiRemoveFails, ApiDbError, OneWriterInv
<1>5. \A w \in Workers : WorkerKnows(w)'
  BY <1>1, <1>2, <1>4 DEF RecordsAgree, WorkerKnows, TypeInv, BusyWorkersHaveTask
<1>6. RequestKnows(j) /\ RecordOf(j)
  BY DEF RecordsAgree
<1>7. RequestKnows(j)' /\ RecordOf(j)'
  <2>1. CASE ApiCreateJob(j)
    <3>1. /\ apiPc[j] = "create" /\ apiPc'[j] = "publish" /\ jobStatus'[j] = "QUEUED"
          /\ jobDoc'[j] = jobDoc[j] /\ jobError'[j] = jobError[j] /\ UNCHANGED queue
      BY <2>1 DEF ApiCreateJob, ApiGoto, TypeInv, TypeOK
    <3> QED
      BY <1>1, <1>4, <1>6, <3>1, SameDocs DEF RequestKnows, RecordOf
  <2>2. CASE ApiMarkFailed(j)
    <3>1. /\ apiPc[j] = "markFailed" /\ apiPc'[j] = "unstage" /\ jobStatus'[j] = "FAILED"
          /\ jobDoc'[j] = jobDoc[j] /\ jobError'[j] = TRUE /\ UNCHANGED queue
      BY <2>2 DEF ApiMarkFailed, RecordFailure, ApiGoto, TypeInv, TypeOK
    <3> QED
      BY <1>1, <1>4, <1>6, <3>1, SameDocs DEF RequestKnows, RecordOf
  <2>3. CASE ~ApiCreateJob(j) /\ ~ApiMarkFailed(j)
    <3>1. UNCHANGED jobVars
      BY <2>3 DEF ApiStep, ApiRefuse, ApiStage, ApiCheck, ApiPublish, ApiUnstage,
                  ApiPublishFails, ApiRemoveFails, ApiDbError
    <3>2. RecordOf(j)'
      BY <1>1, <1>6, <3>1, SameDocs, RecordAsBefore DEF jobVars
    <3>3. CASE ApiPublish(j) \/ ApiPublishFails(j)
      <4>1. apiPc[j] = "publish" /\ apiPc'[j] \in {"done", "markFailed"}
        BY <3>3 DEF ApiPublish, ApiPublishFails, ApiGoto, TypeInv, TypeOK
      <4>2. jobStatus'[j] = "QUEUED"
        BY <1>6, <3>1, <4>1 DEF RequestKnows, jobVars
      <4> QED
        BY <3>2, <4>1, <4>2 DEF RequestKnows
    <3>4. CASE ~ApiPublish(j) /\ ~ApiPublishFails(j)
      <4>1. UNCHANGED queue
        BY <2>3, <3>4 DEF ApiStep, ApiRefuse, ApiStage, ApiCheck, ApiUnstage, ApiRemoveFails,
                          ApiDbError
      <4>2. \/ apiPc'[j] \in {"done", "aborted"}
            \/ apiPc[j] \in {"idle", "check"} /\ apiPc'[j] \in {"check", "create"}
        BY <2>3, <3>4 DEF ApiStep, ApiRefuse, ApiStage, ApiCheck, ApiUnstage, ApiRemoveFails,
                          ApiDbError, ApiGoto, TypeInv, TypeOK
      <4> QED
        BY <1>1, <1>6, <3>1, <4>1, <4>2, <3>2 DEF RequestKnows, jobVars
    <3> QED
      BY <3>2, <3>3, <3>4
  <2> QED
    BY <2>1, <2>2, <2>3
<1> QED
  BY <1>3, <1>5, <1>7 DEF RecordsAgree

\* A step of worker w at its job j: the row of no other job changes.
LEMMA RecordsWorkerStep ==
  ASSUME TypeInv, OneWriterInv, RecordsAgree, NEW w \in Workers, NEW j \in Jobs, task[w] = j,
         NEW step, Goto(w, step), UNCHANGED apiPc,
         \A v \in Workers : v # w => task'[v] = task[v],
         task'[w] = j \/ (task'[w] = None /\ step = "idle"),
         \A k \in Jobs : k # j =>
            /\ jobStatus'[k] = jobStatus[k] /\ jobDoc'[k] = jobDoc[k] /\ jobError'[k] = jobError[k]
            /\ queue'[k] = queue[k] /\ DocsOf(k)' = DocsOf(k),
         jobStatus[j] # "none" => jobStatus'[j] # "none",
         RecordOf(j) /\ WorkerKnows(w) => RecordOf(j)',
         step \in {"load", "check", "finalize", "parse", "insert", "complete"} =>
            jobStatus'[j] = "PROCESSING",
         step = "markFailed" => jobStatus'[j] \in {"QUEUED", "PROCESSING"}
  PROVE  RecordsAgree'
<1>1. /\ RequestKnows(j) /\ RecordOf(j) /\ WorkerKnows(w) /\ jobStatus[j] # "none"
      /\ apiPc[j] \in {"done", "aborted"}
  BY DEF RecordsAgree, RequestKnows, OneWriterInv
<1>2. RequestKnows(j)' /\ RecordOf(j)'
  BY <1>1 DEF RequestKnows
<1>3. ASSUME NEW k \in Jobs, k # j PROVE RequestKnows(k)' /\ RecordOf(k)'
  <2>1. \A v \in Workers : task'[v] = k => task[v] = k
    BY <1>3, NoneAssumption
  <2> QED
    BY <1>3, <2>1, RecordAsBefore DEF RecordsAgree, RequestKnows
<1>4. pc'[w] = step /\ \A v \in Workers : v # w => pc'[v] = pc[v]
  BY DEF Goto, TypeInv, TypeOK, Ingesters
<1>5. WorkerKnows(w)'
  BY <1>4 DEF WorkerKnows
<1>6. ASSUME NEW v \in Workers, v # w PROVE WorkerKnows(v)'
  <2>1. pc[v] # "idle" => task[v] \in Jobs /\ task[v] # j
    BY <1>6, NoneAssumption DEF TypeInv, BusyWorkersHaveTask, OneWriterInv
  <2> QED
    BY <1>4, <1>6, <2>1 DEF RecordsAgree, WorkerKnows
<1> QED
  BY <1>2, <1>3, <1>5, <1>6 DEF RecordsAgree

LEMMA RecordsIngest ==
  ASSUME TypeInv, FilesInv, HasDirectory, OneWriterInv, RecordsAgree, NEW p \in Ingesters,
         IngestStep(p) \/ IngestFault(p) \/ FinalizeFault(p) \/ IngestRemoveFails(p)
  PROVE  RecordsAgree'
<1>1. UNCHANGED <<jobVars, queue, task, apiPc>>
  BY DEF IngestStep, IngestCheck, IngestFinalize, IngestParse, IngestInsert, IngestFault,
         FinalizeFault, IngestRemoveFails, Reject
<1>2. pc[p] \in IngestSteps
  BY DEF IngestStep, IngestCheck, IngestFinalize, IngestParse, IngestInsert, IngestFault,
         FinalizeFault, IngestRemoveFails, IngestSteps
<1>3. CASE p \in Workers
  <2>1. UNCHANGED docVars
    BY <1>3, ProcessAssumption
       DEF IngestStep, IngestCheck, IngestFinalize, IngestParse, IngestInsert, IngestFault,
           FinalizeFault, IngestRemoveFails, Reject
  <2>2. PICK step \in {"finalize", "parse", "insert", "complete", "reload"} : Goto(p, step)
    BY <1>3, ProcessAssumption
       DEF IngestStep, IngestCheck, IngestFinalize, IngestParse, IngestInsert, IngestFault,
           FinalizeFault, IngestRemoveFails, Reject, AfterReject
  <2>3. PICK j \in Jobs : task[p] = j
    BY <1>2, <1>3 DEF TypeInv, BusyWorkersHaveTask, IngestSteps
  <2>4. jobStatus[j] = "PROCESSING"
    BY <1>2, <1>3, <2>3 DEF RecordsAgree, WorkerKnows, IngestSteps
  <2>5. \A k \in Jobs : DocsOf(k)' = DocsOf(k)
    BY <2>1, SameDocs
  <2>6. RecordOf(j) => RecordOf(j)'
    BY <1>1, <2>5, RecordAsBefore DEF jobVars
  <2> QED
    BY <1>1, <1>3, <2>2, <2>3, <2>4, <2>5, <2>6, RecordsWorkerStep DEF jobVars
<1>4. CASE p \notin Workers
  <2>1. \A k \in Jobs : DocsOf(k)' = DocsOf(k)
    <3>1. CASE UNCHANGED docVars
      BY <3>1, SameDocs
    <3>2. CASE ~UNCHANGED docVars
      <4>1. pc[p] = "insert" /\ CommitDocument(p, None)
        BY <3>2 DEF IngestStep, IngestCheck, IngestFinalize, IngestParse, IngestInsert,
                    IngestFault, FinalizeFault, IngestRemoveFails, Reject
      <4> QED
        BY <4>1, CommitDocs, NoneAssumption
    <3> QED
      BY <3>1, <3>2
  <2>2. PICK step : Goto(p, step)
    BY DEF IngestStep, IngestCheck, IngestFinalize, IngestParse, IngestInsert, IngestFault,
           FinalizeFault, IngestRemoveFails, Reject
  <2>3. \A w \in Workers : pc'[w] = pc[w]
    BY <1>4, <2>2 DEF Goto, TypeInv, TypeOK, Ingesters
  <2> QED
    BY <1>1, <2>1, <2>3, RecordsUndisturbed
<1> QED
  BY <1>3, <1>4

LEMMA RecordsUpload ==
  ASSUME TypeInv, FilesInv, HasDirectory, OneWriterInv, RecordsAgree, NEW u \in Uploads,
         UploadStep(u) \/ UploadCommitLost(u)
  PROVE  RecordsAgree'
<1>1. u \in Ingesters /\ u \notin Workers
  BY ProcessAssumption DEF Ingesters
<1>2. CASE IngestStep(u)
  BY <1>1, <1>2, RecordsIngest
<1>3. CASE UploadRefuse(u) \/ (\E c \in Contents : UploadStage(u, c)) \/ UploadCommitLost(u)
  <2>1. /\ UNCHANGED <<jobVars, queue, task, apiPc>>
        /\ \A w \in Workers : pc'[w] = pc[w]
    BY <1>1, <1>3 DEF UploadRefuse, UploadStage, UploadCommitLost, Goto, TypeInv, TypeOK, Ingesters
  <2>2. CASE UploadCommitLost(u)
    <3>1. \A k \in Jobs : DocsOf(k)' = DocsOf(k)
      BY <1>1, <2>2, CommitDocs, NoneAssumption DEF UploadCommitLost
    <3> QED
      BY <2>1, <3>1, RecordsUndisturbed
  <2>3. CASE ~UploadCommitLost(u)
    <3>1. UNCHANGED docVars
      BY <1>3, <2>3 DEF UploadRefuse, UploadStage
    <3> QED
      BY <2>1, <3>1, SameDocs, RecordsUndisturbed
  <2> QED
    BY <2>2, <2>3
<1> QED
  BY <1>2, <1>3 DEF UploadStep

\* The commit that completes a job, whether or not the worker learns of it.
LEMMA RecordsComplete ==
  ASSUME TypeInv, FilesInv, HasDirectory, OneWriterInv, RecordsAgree, NEW w \in Workers,
         pc[w] = "complete", CompleteJob(w), CommitDocument(w, task[w]),
         NEW step \in {"cleanup", "reload"}, Goto(w, step), UNCHANGED <<queue, apiPc, task>>
  PROVE  RecordsAgree'
<1>1. PICK j \in Jobs : task[w] = j
  BY DEF TypeInv, BusyWorkersHaveTask
<1>2. \A k \in Jobs : DocsOf(k)' = IF k = j THEN DocsOf(k) \cup {newDoc[w]} ELSE DocsOf(k)
  BY <1>1, CommitDocs DEF Ingesters
<1>3. /\ jobStatus'[j] = "COMPLETED" /\ jobDoc'[j] = newDoc[w] /\ jobError'[j] = jobError[j]
      /\ \A k \in Jobs : k # j => /\ jobStatus'[k] = jobStatus[k] /\ jobDoc'[k] = jobDoc[k]
                                   /\ jobError'[k] = jobError[k]
  BY <1>1 DEF CompleteJob, TypeInv, TypeOK
<1>4. jobStatus[j] = "PROCESSING"
  BY <1>1 DEF RecordsAgree, WorkerKnows
<1>5. RecordOf(j) => RecordOf(j)'
  BY <1>2, <1>3, <1>4 DEF RecordOf
<1> QED
  BY <1>1, <1>2, <1>3, <1>5, RecordsWorkerStep

\* Steps of a worker that leave all rows alone.
LEMMA RecordsWorkerMoves ==
  ASSUME TypeInv, OneWriterInv, RecordsAgree, NEW w \in Workers, pc[w] # "idle",
         NEW step, Goto(w, step), UNCHANGED <<jobVars, docVars, apiPc, queue, task>>,
         step \in {"load", "check", "finalize", "parse", "insert", "complete"} =>
            pc[w] \in {"load", "check", "finalize", "parse", "insert", "complete"},
         step = "markFailed" =>
            \/ pc[w] \in {"load", "check", "finalize", "parse", "insert", "complete"}
            \/ ~Handled(task[w])
  PROVE  RecordsAgree'
<1>1. PICK j \in Jobs : task[w] = j
  BY DEF TypeInv, BusyWorkersHaveTask
<1>2. RequestKnows(j) /\ WorkerKnows(w)
  BY DEF RecordsAgree
<1>3. jobStatus[j] \in Statuses \ {"none"}
  BY <1>1, <1>2 DEF RequestKnows, TypeInv, TypeOK
<1>4. pc[w] \in {"load", "check", "finalize", "parse", "insert", "complete"} =>
         jobStatus[j] = "PROCESSING"
  BY <1>1, <1>2 DEF WorkerKnows
<1>5. ~Handled(j) => jobStatus[j] \in {"QUEUED", "PROCESSING"}
  BY <1>3 DEF Handled, Statuses
<1>6. \A k \in Jobs : DocsOf(k)' = DocsOf(k)
  BY SameDocs
<1>7. RecordOf(j) => RecordOf(j)'
  BY <1>6, RecordAsBefore DEF jobVars
<1> QED
  BY <1>1, <1>4, <1>5, <1>6, <1>7, RecordsWorkerStep DEF jobVars

\* A delivery taken or repeated.
LEMMA RecordsDelivery ==
  ASSUME TypeInv, TaskIsHeld, OneWriterInv, RecordsAgree, NEW w \in Workers,
         (\E j \in Jobs : WorkerReceive(w, j)) \/ BrokerRedeliver(w)
  PROVE  RecordsAgree'
<1>1. UNCHANGED <<jobVars, docVars, apiPc>>
  BY DEF WorkerReceive, BrokerRedeliver
<1>2. \A k \in Jobs : RecordOf(k)'
  BY <1>1, SameDocs, RecordAsBefore DEF RecordsAgree, jobVars
<1>3. CASE \E j \in Jobs : WorkerReceive(w, j)
  <2>1. PICK j \in Jobs : WorkerReceive(w, j)
    BY <1>3
  <2>2. /\ queue[j] > 0 /\ pc'[w] = "claim" /\ task'[w] = j
        /\ \A v \in Workers : v # w => task'[v] = task[v] /\ pc'[v] = pc[v]
        /\ \A k \in Jobs : k # j => queue'[k] = queue[k]
    BY <2>1 DEF WorkerReceive, Deliverable, Goto, TypeInv, TypeOK, Ingesters
  <2>3. jobStatus[j] # "none"
    BY <2>2 DEF RecordsAgree, RequestKnows
  <2>4. \A k \in Jobs : RequestKnows(k)'
    BY <1>1, <2>2, <2>3 DEF RecordsAgree, RequestKnows, jobVars
  <2>5. \A v \in Workers : WorkerKnows(v)'
    BY <1>1, <2>2 DEF RecordsAgree, WorkerKnows, jobVars
  <2> QED
    BY <1>2, <2>4, <2>5 DEF RecordsAgree
<1>4. CASE BrokerRedeliver(w)
  <2>1. PICK j \in Jobs : task[w] = j
    BY <1>4 DEF BrokerRedeliver, TypeInv, TypeOK
  <2>2. jobStatus[j] # "none"
    BY <2>1 DEF RecordsAgree, RequestKnows
  <2>3. /\ UNCHANGED <<task, pc>>
        /\ \A k \in Jobs : k # j => queue'[k] = queue[k]
    BY <1>4, <2>1 DEF BrokerRedeliver, ingVars, TypeInv, TypeOK
  <2>4. \A k \in Jobs : RequestKnows(k)'
    BY <1>1, <2>2, <2>3 DEF RecordsAgree, RequestKnows, jobVars
  <2>5. \A v \in Workers : WorkerKnows(v)'
    BY <1>1, <2>3 DEF RecordsAgree, WorkerKnows, jobVars
  <2> QED
    BY <1>2, <2>4, <2>5 DEF RecordsAgree
<1> QED
  BY <1>3, <1>4

\* The message goes back to the queue or is acknowledged.
LEMMA RecordsWorkerLeaves ==
  ASSUME TypeInv, OneWriterInv, RecordsAgree, NEW w \in Workers, WorkerAck(w) \/ WorkerCrash(w)
  PROVE  RecordsAgree'
<1>1. PICK j \in Jobs : task[w] = j
  BY DEF WorkerAck, WorkerCrash, TypeInv, BusyWorkersHaveTask
<1>2. /\ UNCHANGED <<jobVars, docVars, apiPc>> /\ Goto(w, "idle") /\ task'[w] = None
      /\ \A v \in Workers : v # w => task'[v] = task[v]
      /\ \A k \in Jobs : k # j => queue'[k] = queue[k]
  BY <1>1 DEF WorkerAck, WorkerCrash, Requeue, TypeInv, TypeOK
<1>3. \A k \in Jobs : DocsOf(k)' = DocsOf(k)
  BY <1>2, SameDocs
<1>4. RecordOf(j) => RecordOf(j)'
  BY <1>2, <1>3, RecordAsBefore DEF jobVars
<1> QED
  BY <1>1, <1>2, <1>3, <1>4, RecordsWorkerStep DEF jobVars

LEMMA RecordsWorker ==
  ASSUME TypeInv, TaskIsHeld, FilesInv, HasDirectory, OneWriterInv, RecordsAgree, NEW w \in Workers,
         \/ WorkerStep(w) \/ WorkerLoadFault(w) \/ WorkerCompleteFails(w)
         \/ WorkerDiscardFails(w) \/ WorkerRemoveFails(w) \/ WorkerDbError(w)
         \/ WorkerCrash(w) \/ BrokerRedeliver(w)
  PROVE  RecordsAgree'
<1>1. w \in Ingesters
  BY DEF Ingesters
<1>2. CASE (\E j \in Jobs : WorkerReceive(w, j)) \/ BrokerRedeliver(w)
  BY <1>2, RecordsDelivery
<1>3. CASE WorkerAck(w) \/ WorkerCrash(w)
  BY <1>3, RecordsWorkerLeaves
<1>4. CASE IngestStep(w)
  BY <1>1, <1>4, RecordsIngest
<1>5. CASE WorkerComplete(w)
  BY <1>5, RecordsComplete DEF WorkerComplete
<1>6. CASE WorkerCompleteFails(w)
  <2>1. CASE UNCHANGED <<jobVars, docVars>>
    BY <1>6, <2>1, RecordsWorkerMoves DEF WorkerCompleteFails
  <2>2. CASE CompleteJob(w) /\ CommitDocument(w, task[w])
    BY <1>6, <2>2, RecordsComplete DEF WorkerCompleteFails
  <2> QED
    BY <1>6, <2>1, <2>2 DEF WorkerCompleteFails
<1>7. CASE WorkerLoad(w) \/ WorkerLoadFault(w)
  BY <1>7, RecordsWorkerMoves DEF WorkerLoad, WorkerLoadFault, CopyStaged
<1>8. CASE WorkerReload(w)
  <2>1. pc[w] = "reload" /\ UNCHANGED <<jobVars, docVars, apiPc, queue, task>>
    BY <1>8 DEF WorkerReload
  <2>2. CASE Handled(task[w])
    <3>1. Goto(w, "cleanup")
      BY <1>8, <2>2 DEF WorkerReload
    <3> QED
      BY <2>1, <3>1, RecordsWorkerMoves
  <2>3. CASE ~Handled(task[w])
    <3>1. Goto(w, "markFailed")
      BY <1>8, <2>3 DEF WorkerReload
    <3> QED
      BY <2>1, <2>3, <3>1, RecordsWorkerMoves
  <2> QED
    BY <2>2, <2>3
<1>9. CASE WorkerCleanup(w) \/ WorkerRemoveFails(w) \/ WorkerDbError(w)
  <2>1. PICK step \in {"ack", "reload", "cleanup"} : Goto(w, step)
    BY <1>9 DEF WorkerCleanup, WorkerRemoveFails, WorkerDbError
  <2> QED
    BY <1>9, <2>1, RecordsWorkerMoves DEF WorkerCleanup, WorkerRemoveFails, WorkerDbError
<1>10. CASE WorkerClaim(w)
  <2>1. PICK j \in Jobs : task[w] = j
    BY <1>10 DEF WorkerClaim, TypeInv, BusyWorkersHaveTask
  <2>2. CASE Handled(j)
    BY <1>10, <2>1, <2>2, RecordsWorkerMoves DEF WorkerClaim
  <2>3. CASE ~Handled(j)
    <3>1. /\ Goto(w, "load") /\ jobStatus'[j] = "PROCESSING" /\ jobError'[j] = FALSE
          /\ UNCHANGED <<jobDoc, docVars, apiPc, queue, task>>
          /\ \A k \in Jobs : k # j => jobStatus'[k] = jobStatus[k] /\ jobError'[k] = jobError[k]
      BY <1>10, <2>1, <2>3 DEF WorkerClaim, TypeInv, TypeOK
    <3>2. \A k \in Jobs : DocsOf(k)' = DocsOf(k)
      BY <3>1, SameDocs
    <3>3. RecordOf(j) => RecordOf(j)'
      BY <2>3, <3>1, <3>2 DEF RecordOf, Handled, Terminal
    <3> QED
      BY <2>1, <3>1, <3>2, <3>3, RecordsWorkerStep
  <2> QED
    BY <2>2, <2>3
<1>11. CASE WorkerMarkFailed(w)
  <2>1. PICK j \in Jobs : task[w] = j
    BY <1>11 DEF WorkerMarkFailed, TypeInv, BusyWorkersHaveTask
  <2>2. /\ pc[w] = "markFailed" /\ Goto(w, "cleanup")
        /\ jobStatus'[j] = "FAILED" /\ jobError'[j] = TRUE
        /\ UNCHANGED <<jobDoc, docVars, apiPc, queue, task>>
        /\ \A k \in Jobs : k # j => jobStatus'[k] = jobStatus[k] /\ jobError'[k] = jobError[k]
    BY <1>11, <2>1 DEF WorkerMarkFailed, RecordFailure, TypeInv, TypeOK
  <2>3. \A k \in Jobs : DocsOf(k)' = DocsOf(k)
    BY <2>2, SameDocs
  <2>4. RecordOf(j) /\ WorkerKnows(w) => RecordOf(j)'
    BY <2>1, <2>2, <2>3 DEF RecordOf, WorkerKnows
  <2> QED
    BY <2>1, <2>2, <2>3, <2>4, RecordsWorkerStep
<1>12. CASE WorkerDiscardFails(w)
  <2>1. CASE UNCHANGED <<jobVars, docVars>>
    BY <1>12, <2>1, RecordsWorkerMoves DEF WorkerDiscardFails
  <2>2. CASE CompleteJob(w) /\ CommitDocument(w, task[w])
    BY <1>12, <2>2, RecordsComplete DEF WorkerDiscardFails
  <2> QED
    BY <1>12, <2>1, <2>2 DEF WorkerDiscardFails
<1> QED
  BY <1>2, <1>3, <1>4, <1>5, <1>6, <1>7, <1>8, <1>9, <1>10, <1>11, <1>12 DEF WorkerStep

LEMMA RecordsNext ==
  ASSUME OneWriter, TypeInv, TaskIsHeld, FilesInv, HasDirectory, OneWriterInv, RecordsAgree,
         [Next]_vars
  PROVE  RecordsAgree'
<1>1. CASE \E j \in Jobs : ApiStep(j) \/ ApiPublishFails(j) \/ ApiRemoveFails(j) \/ ApiDbError(j)
  BY <1>1, RecordsApi
<1>2. CASE \E u \in Uploads : UploadStep(u) \/ UploadCommitLost(u)
  BY <1>2, RecordsUpload
<1>3. CASE \E w \in Workers : \/ WorkerStep(w) \/ WorkerLoadFault(w)
                              \/ WorkerCompleteFails(w) \/ WorkerDiscardFails(w)
                              \/ WorkerRemoveFails(w) \/ WorkerDbError(w)
                              \/ WorkerCrash(w) \/ BrokerRedeliver(w)
  BY <1>3, RecordsWorker
<1>4. CASE \E p \in Ingesters : IngestFault(p) \/ FinalizeFault(p) \/ IngestRemoveFails(p)
  BY <1>4, RecordsIngest
<1>5. CASE ApiCrash
  <2>1. \A w \in Workers : pc'[w] = pc[w]
    BY <1>5, ProcessAssumption DEF ApiCrash, Ingesters
  <2>2. \A k \in Jobs : apiPc'[k] = apiPc[k] \/ apiPc'[k] \in {"done", "aborted"}
    BY <1>5 DEF ApiCrash
  <2> QED
    BY <1>5, <2>1, <2>2, SameDocs, RecordsUndisturbed DEF ApiCrash
<1>6. CASE \E d \in Docs : DeleteDocument(d)
  <2>1. UNCHANGED <<docContent, origin>>
    BY <1>6 DEF DeleteDocument
  <2>2. \A k \in Jobs : DocsOf(k)' = DocsOf(k)
    BY <2>1 DEF DocsOf, Rows
  <2> QED
    BY <1>6, <2>2, RecordsUndisturbed DEF DeleteDocument, ingVars
<1>7. CASE UNCHANGED vars
  BY <1>7, SameDocs, RecordsUndisturbed DEF vars, ingVars
<1> QED
  BY <1>1, <1>2, <1>3, <1>4, <1>5, <1>6, <1>7 DEF Next, Failure, Finished

\* Everything the theorems on job records rest on.
JobInv ==
    /\ TypeInv /\ UniqueInv /\ FilesInv /\ CarryInv
    /\ OneWriterInv /\ HasDirectory /\ RecordsAgree

LEMMA JobInvCorrect ==
  ASSUME OneWriter PROVE Spec => []JobInv
<1>1. Init => JobInv
  BY TypeInvInit, UniqueInit, FilesInit, CarryInvInit, OneWriterInit, RecordsInit DEF JobInv
<1>2. JobInv /\ [Next]_vars => JobInv'
  BY TypeInvNext, UniqueNext, FilesNext, CarryNext, OneWriterNext, DirectoryNext, RecordsNext
     DEF JobInv, CarryInv
<1> QED
  BY <1>1, <1>2, PTL DEF Spec

\* The row of a job tells what happened to its file, whatever crashes and fails, as
\* long as a job has one writer at a time.
THEOREM RecordsConsistent ==
  ASSUME OneWriter PROVE Spec => []JobRecordConsistent
<1>1. JobInv => JobRecordConsistent
  BY DEF JobInv, RecordsAgree, RecordOf, DocsOf, JobRecordConsistent
<1> QED
  BY <1>1, JobInvCorrect, PTL

-----------------------------------------------------------------------------
(* The staged file of a job, without database errors                        *)

LEMMA StagedInvInit == MaxDbErrors = 0 /\ Init => StagedInv
<1> SUFFICES ASSUME MaxDbErrors = 0, Init PROVE StagedInv
  OBVIOUS
<1>1. budget["dbError"] = 0
  BY DEF Init, FailureKinds
<1> QED
  BY <1>1 DEF Init, StagedInv, Ingesters

LEMMA StagedUndisturbed ==
  ASSUME StagedInv, ObserversGrow, UNCHANGED <<jobStatus, staging, task>>,
         UNCHANGED budget \/ budget'["dbError"] = budget["dbError"],
         \A j \in Jobs : apiPc'[j] \in {"check", "create"} => apiPc[j] \in {"check", "create"},
         \A w \in Workers : pc'[w] \in {"cleanup", "ack"} => pc[w] \in {"cleanup", "ack"}
  PROVE  StagedInv'
BY DEF ObserversGrow, StagedInv

LEMMA NoDbError ==
  ASSUME TypeInv, StagedInv PROVE ~Spend("dbError")
BY DEF StagedInv, Spend

LEMMA StagedApi ==
  ASSUME TypeInv, OneWriterInv, RecordsAgree, StagedInv, ObserversGrow, NEW j \in Jobs,
         ApiStep(j) \/ ApiPublishFails(j) \/ ApiRemoveFails(j) \/ ApiDbError(j)
  PROVE  StagedInv'
<1>1. ~ApiDbError(j)
  BY NoDbError DEF ApiDbError
<1>2. UNCHANGED budget \/ budget'["dbError"] = budget["dbError"]
  BY <1>1, OtherBudget
     DEF ApiStep, ApiRefuse, ApiStage, ApiCheck, ApiCreateJob, ApiPublish, ApiMarkFailed,
         ApiUnstage, ApiPublishFails, ApiRemoveFails, FailureKinds
<1>3. /\ UNCHANGED <<pc, task>>
      /\ \A k \in Jobs : k # j => /\ jobStatus'[k] = jobStatus[k] /\ staging'[k] = staging[k]
                                   /\ apiPc'[k] = apiPc[k]
  BY <1>1 DEF ApiStep, ApiRefuse, ApiStage, ApiCheck, ApiCreateJob, ApiPublish, ApiMarkFailed,
              ApiUnstage, ApiPublishFails, ApiRemoveFails, ApiGoto, Unstage, RecordFailure, jobVars,
              ingVars, TypeInv, TypeOK
<1>4. \A w \in Workers : task[w] # j
  BY DEF ApiStep, ApiRefuse, ApiStage, ApiCheck, ApiCreateJob, ApiPublish, ApiMarkFailed,
         ApiUnstage, ApiPublishFails, ApiRemoveFails, ApiDbError, OneWriterInv
<1>5. \A w \in Workers : pc'[w] \in {"cleanup", "ack"} =>
         jobStatus'[task'[w]] \in Terminal \/ task'[w] \in unrecorded'
  BY <1>3, <1>4 DEF ObserversGrow, StagedInv, TypeInv, BusyWorkersHaveTask
<1>6. RequestKnows(j)
  BY DEF RecordsAgree
<1>7. /\ jobStatus'[j] \in {"QUEUED", "PROCESSING"} /\ j \notin unrecorded' =>
            staging'[j] # None
      /\ apiPc'[j] \in {"check", "create"} => staging'[j] # None
  <2> USE DEF TypeInv, TypeOK, ApiGoto, Unstage, jobVars, RequestKnows, StagedInv, ObserversGrow
  <2>1. CASE ApiRefuse(j)
    BY <1>6, <2>1 DEF ApiRefuse
  <2>2. CASE \E c \in Contents : ApiStage(j, c)
    BY <1>6, <2>2, NoneAssumption DEF ApiStage
  <2>3. CASE ApiCheck(j)
    BY <1>6, <2>3 DEF ApiCheck
  <2>4. CASE ApiCreateJob(j)
    BY <1>6, <2>4 DEF ApiCreateJob
  <2>5. CASE ApiPublish(j) \/ ApiPublishFails(j)
    BY <1>6, <2>5 DEF ApiPublish, ApiPublishFails
  <2>6. CASE ApiMarkFailed(j)
    BY <1>6, <2>6 DEF ApiMarkFailed, RecordFailure
  <2>7. CASE ApiUnstage(j)
    BY <1>6, <2>7 DEF ApiUnstage
  <2>8. CASE ApiRemoveFails(j)
    BY <1>6, <2>8 DEF ApiRemoveFails
  <2> QED
    BY <1>1, <2>1, <2>2, <2>3, <2>4, <2>5, <2>6, <2>7, <2>8 DEF ApiStep
<1> QED
  BY <1>2, <1>3, <1>5, <1>7 DEF ObserversGrow, StagedInv

\* A step of worker w at its job j.
LEMMA StagedWorkerStep ==
  ASSUME TypeInv, OneWriterInv, StagedInv, ObserversGrow,
         NEW w \in Workers, NEW j \in Jobs, task[w] = j, NEW step, Goto(w, step), UNCHANGED apiPc,
         UNCHANGED budget \/ budget'["dbError"] = budget["dbError"],
         \A v \in Workers : v # w => task'[v] = task[v], task'[w] = j \/ step = "idle",
         \A k \in Jobs : k # j => jobStatus'[k] = jobStatus[k] /\ staging'[k] = staging[k],
         jobStatus'[j] \in {"QUEUED", "PROCESSING"} /\ j \notin unrecorded' => staging'[j] # None,
         step \in {"cleanup", "ack"} => jobStatus'[j] \in Terminal \/ j \in unrecorded'
  PROVE  StagedInv'
<1>1. apiPc[j] \in {"done", "aborted"}
  BY DEF OneWriterInv
<1>2. pc'[w] = step /\ \A v \in Workers : v # w => pc'[v] = pc[v]
  BY DEF Goto, TypeInv, TypeOK, Ingesters
<1>3. \A v \in Workers : v # w /\ pc[v] # "idle" => task[v] \in Jobs /\ task[v] # j
  BY NoneAssumption DEF TypeInv, BusyWorkersHaveTask, OneWriterInv
<1>4. \A v \in Workers : pc'[v] \in {"cleanup", "ack"} =>
         jobStatus'[task'[v]] \in Terminal \/ task'[v] \in unrecorded'
  BY <1>2, <1>3 DEF ObserversGrow, StagedInv
<1> QED
  BY <1>1, <1>4 DEF ObserversGrow, StagedInv

LEMMA StagedIngest ==
  ASSUME TypeInv, StagedInv, ObserversGrow, NEW p \in Ingesters,
         IngestStep(p) \/ IngestFault(p) \/ FinalizeFault(p) \/ IngestRemoveFails(p)
  PROVE  StagedInv'
<1>1. UNCHANGED <<jobStatus, staging, task, apiPc>>
  BY DEF IngestStep, IngestCheck, IngestFinalize, IngestParse, IngestInsert, IngestFault,
         FinalizeFault, IngestRemoveFails, Reject, jobVars
<1>2. UNCHANGED budget \/ budget'["dbError"] = budget["dbError"]
  BY OtherBudget DEF IngestStep, IngestCheck, IngestFinalize, IngestParse, IngestInsert,
                     IngestFault, FinalizeFault, IngestRemoveFails, FailureKinds
<1>3. \A w \in Workers : pc'[w] \in {"cleanup", "ack"} => pc[w] \in {"cleanup", "ack"}
  BY DEF IngestStep, IngestCheck, IngestFinalize, IngestParse, IngestInsert, IngestFault,
         FinalizeFault, IngestRemoveFails, Reject, AfterReject, Goto, TypeInv, TypeOK, Ingesters
<1> QED
  BY <1>1, <1>2, <1>3, StagedUndisturbed

LEMMA StagedWorker ==
  ASSUME TypeInv, TaskIsHeld, OneWriterInv, RecordsAgree, StagedInv, ObserversGrow,
         NEW w \in Workers,
         \/ WorkerStep(w) \/ WorkerLoadFault(w) \/ WorkerCompleteFails(w)
         \/ WorkerDiscardFails(w) \/ WorkerRemoveFails(w) \/ WorkerDbError(w)
         \/ WorkerCrash(w) \/ BrokerRedeliver(w)
  PROVE  StagedInv'
<1>1. w \in Ingesters
  BY DEF Ingesters
<1>2. CASE (\E j \in Jobs : WorkerReceive(w, j)) \/ BrokerRedeliver(w)
  <2>1. UNCHANGED <<jobStatus, staging, apiPc>>
    BY <1>2 DEF WorkerReceive, BrokerRedeliver, jobVars
  <2>2. UNCHANGED budget \/ budget'["dbError"] = budget["dbError"]
    BY <1>2, OtherBudget DEF WorkerReceive, BrokerRedeliver, FailureKinds
  <2>3. \A v \in Workers : pc'[v] \in {"cleanup", "ack"} =>
                               pc[v] \in {"cleanup", "ack"} /\ task'[v] = task[v]
    BY <1>2 DEF WorkerReceive, BrokerRedeliver, ingVars, Goto, TypeInv, TypeOK, Ingesters
  <2> QED
    BY <2>1, <2>2, <2>3 DEF ObserversGrow, StagedInv
<1>3. CASE IngestStep(w)
  BY <1>1, <1>3, StagedIngest
<1>4. CASE WorkerDbError(w)
  BY <1>4, NoDbError DEF WorkerDbError
<1>5. ASSUME pc[w] # "idle", ~IngestStep(w), ~WorkerDbError(w), ~BrokerRedeliver(w)
      PROVE  StagedInv'
  <2>1. PICK j \in Jobs : task[w] = j
    BY <1>5 DEF TypeInv, BusyWorkersHaveTask
  <2>2. WorkerKnows(w) /\ jobStatus[j] \in Statuses
    BY DEF RecordsAgree, TypeInv, TypeOK
  <2>3. UNCHANGED budget \/ budget'["dbError"] = budget["dbError"]
    BY <1>5, OtherBudget, DiscardBudget
       DEF WorkerStep, WorkerReceive, WorkerClaim, WorkerLoad, WorkerComplete, WorkerReload,
           WorkerMarkFailed, WorkerCleanup, WorkerAck, WorkerLoadFault, WorkerCompleteFails,
           WorkerRemoveFails, WorkerCrash, FailureKinds
  <2>4. /\ UNCHANGED apiPc
        /\ \A v \in Workers : v # w => task'[v] = task[v]
        /\ \A k \in Jobs : k # j => jobStatus'[k] = jobStatus[k] /\ staging'[k] = staging[k]
    BY <1>5, <2>1
       DEF WorkerStep, WorkerReceive, WorkerClaim, WorkerLoad, WorkerComplete, WorkerReload,
           WorkerMarkFailed, WorkerCleanup, WorkerAck, WorkerLoadFault, WorkerCompleteFails,
           WorkerDiscardFails, WorkerRemoveFails, WorkerCrash, CopyStaged, CompleteJob,
           RecordFailure, Unstage, jobVars, TypeInv, TypeOK
  <2>5. CASE WorkerClaim(w)
    <3>1. CASE Handled(j)
      <4>1. jobStatus[j] \in Terminal /\ UNCHANGED <<jobStatus, task>> /\ Goto(w, "ack")
        BY <2>1, <2>5, <3>1 DEF WorkerClaim, Handled, jobVars
      <4> QED
        BY <2>1, <2>3, <2>4, <4>1, StagedWorkerStep DEF Terminal
    <3>2. CASE ~Handled(j)
      <4>1. RequestKnows(j)
        BY DEF RecordsAgree
      <4>2. jobStatus[j] \in {"QUEUED", "PROCESSING"}
        BY <2>1, <2>2, <3>2, <4>1 DEF Handled, Statuses, RequestKnows
      <4>3. UNCHANGED <<staging, task>> /\ Goto(w, "load")
        BY <2>1, <2>5, <3>2 DEF WorkerClaim
      <4>4. j \notin unrecorded' => staging'[j] # None
        BY <4>2, <4>3 DEF ObserversGrow, StagedInv
      <4> QED
        BY <2>1, <2>3, <2>4, <4>3, <4>4, StagedWorkerStep
    <3> QED
      BY <3>1, <3>2
  <2>6. CASE WorkerLoad(w) \/ WorkerLoadFault(w) \/ WorkerCompleteFails(w) \/ WorkerReload(w)
    <3>1. /\ UNCHANGED <<staging, task>>
          /\ \/ UNCHANGED jobStatus
             \/ jobStatus'[j] = "COMPLETED"
      BY <2>1, <2>6 DEF WorkerLoad, WorkerLoadFault, WorkerCompleteFails, WorkerReload, CopyStaged,
                        CompleteJob, jobVars, TypeInv, TypeOK
    <3>2. jobStatus'[j] \in {"QUEUED", "PROCESSING"} /\ j \notin unrecorded' => staging'[j] # None
      BY <3>1 DEF ObserversGrow, StagedInv
    <3>3. PICK step : /\ Goto(w, step) /\ step # "ack"
                      /\ step = "cleanup" => Handled(j) /\ UNCHANGED jobStatus
      BY <2>1, <2>6 DEF WorkerLoad, WorkerLoadFault, WorkerCompleteFails, WorkerReload, jobVars
    <3> QED
      BY <2>1, <2>3, <2>4, <3>1, <3>2, <3>3, StagedWorkerStep DEF Handled
  <2>7. CASE WorkerComplete(w) \/ WorkerMarkFailed(w)
    <3>1. Goto(w, "cleanup") /\ jobStatus'[j] \in Terminal /\ UNCHANGED task
      BY <2>1, <2>7 DEF WorkerComplete, WorkerMarkFailed, CompleteJob, RecordFailure, Terminal,
                        TypeInv, TypeOK
    <3> QED
      BY <2>1, <2>3, <2>4, <3>1, StagedWorkerStep DEF Terminal
  <2>8. CASE WorkerCleanup(w)
    <3>1. /\ Goto(w, "ack") /\ UNCHANGED <<jobStatus, task>>
          /\ jobStatus[j] \in Terminal \/ j \in unrecorded'
      BY <2>1, <2>8 DEF WorkerCleanup, StagedInv, ObserversGrow, jobVars
    <3> QED
      BY <2>1, <2>3, <2>4, <3>1, StagedWorkerStep DEF Terminal
  <2>9. CASE WorkerAck(w) \/ WorkerCrash(w)
    <3>1. Goto(w, "idle") /\ UNCHANGED <<jobStatus, staging>>
      BY <2>9 DEF WorkerAck, WorkerCrash, jobVars
    <3> QED
      BY <2>1, <2>3, <2>4, <3>1, StagedWorkerStep DEF ObserversGrow, StagedInv
  <2>10. CASE WorkerRemoveFails(w)
    <3>1. /\ Goto(w, "ack") /\ UNCHANGED <<jobStatus, staging, task>>
          /\ jobStatus[j] \in Terminal \/ j \in unrecorded'
      BY <2>1, <2>10 DEF WorkerRemoveFails, Handled, StagedInv, ObserversGrow, jobVars
    <3>2. jobStatus'[j] \in {"QUEUED", "PROCESSING"} /\ j \notin unrecorded' => staging'[j] # None
      BY <3>1 DEF ObserversGrow, StagedInv
    <3> QED
      BY <2>1, <2>3, <2>4, <3>1, <3>2, StagedWorkerStep
  <2>11. CASE WorkerDiscardFails(w)
    <3>1. /\ Goto(w, "cleanup") /\ UNCHANGED <<staging, task>>
          /\ j \in unrecorded' \/ jobStatus'[j] = "COMPLETED"
      BY <2>1, <2>11 DEF WorkerDiscardFails, CompleteJob, TypeInv, TypeOK
    <3> QED
      BY <2>1, <2>3, <2>4, <3>1, StagedWorkerStep DEF Terminal
  <2> QED
    BY <1>5, <2>5, <2>6, <2>7, <2>8, <2>9, <2>10, <2>11 DEF WorkerStep, WorkerReceive
<1>6. pc[w] = "idle" => \E j \in Jobs : WorkerReceive(w, j)
  BY NoDbError
     DEF WorkerStep, WorkerClaim, WorkerLoad, WorkerComplete, WorkerReload, WorkerMarkFailed,
         WorkerCleanup, WorkerAck, WorkerLoadFault, WorkerCompleteFails,
         WorkerDiscardFails, WorkerRemoveFails, WorkerDbError, WorkerCrash, IngestStep,
         IngestCheck, IngestFinalize, IngestParse, IngestInsert, TaskIsHeld, BrokerRedeliver
<1> QED
  BY <1>2, <1>3, <1>4, <1>5, <1>6

LEMMA StagedNext ==
  ASSUME TypeInv, TaskIsHeld, OneWriterInv, RecordsAgree, StagedInv, [Next]_vars
  PROVE  StagedInv'
<1> ObserversGrow
  BY ObserversGrowNext
<1>1. CASE \E j \in Jobs : ApiStep(j) \/ ApiPublishFails(j) \/ ApiRemoveFails(j) \/ ApiDbError(j)
  BY <1>1, StagedApi
<1>2. CASE \E u \in Uploads : UploadStep(u) \/ UploadCommitLost(u)
  <2>1. PICK u \in Uploads : UploadStep(u) \/ UploadCommitLost(u)
    BY <1>2
  <2>2. CASE IngestStep(u)
    BY <2>2, StagedIngest DEF Ingesters
  <2>3. CASE ~IngestStep(u)
    <3>1. UNCHANGED <<jobStatus, staging, task, apiPc>>
      BY <2>1, <2>3 DEF UploadStep, UploadRefuse, UploadStage, UploadCommitLost, jobVars
    <3>2. UNCHANGED budget \/ budget'["dbError"] = budget["dbError"]
      BY <2>1, <2>3, OtherBudget DEF UploadStep, UploadRefuse, UploadStage, UploadCommitLost,
                                     FailureKinds
    <3>3. \A w \in Workers : pc'[w] = pc[w]
      BY <2>1, <2>3, ProcessAssumption
         DEF UploadStep, UploadRefuse, UploadStage, UploadCommitLost, Goto, TypeInv, TypeOK, Ingesters
    <3> QED
      BY <3>1, <3>2, <3>3, StagedUndisturbed
  <2> QED
    BY <2>2, <2>3
<1>3. CASE \E w \in Workers : \/ WorkerStep(w) \/ WorkerLoadFault(w)
                              \/ WorkerCompleteFails(w) \/ WorkerDiscardFails(w)
                              \/ WorkerRemoveFails(w) \/ WorkerDbError(w)
                              \/ WorkerCrash(w) \/ BrokerRedeliver(w)
  BY <1>3, StagedWorker
<1>4. CASE \E p \in Ingesters : IngestFault(p) \/ FinalizeFault(p) \/ IngestRemoveFails(p)
  BY <1>4, StagedIngest
<1>5. CASE ApiCrash
  <2>1. budget'["dbError"] = budget["dbError"]
    BY <1>5, OtherBudget DEF ApiCrash, FailureKinds
  <2>2. \A w \in Workers : pc'[w] = pc[w]
    BY <1>5, ProcessAssumption DEF ApiCrash, Ingesters
  <2> QED
    BY <1>5, <2>1, <2>2, StagedUndisturbed DEF ApiCrash, jobVars
<1>6. CASE \E d \in Docs : DeleteDocument(d)
  BY <1>6, StagedUndisturbed DEF DeleteDocument, jobVars, ingVars
<1>7. CASE UNCHANGED vars
  BY <1>7, StagedUndisturbed DEF vars, jobVars, ingVars
<1> QED
  BY <1>1, <1>2, <1>3, <1>4, <1>5, <1>6, <1>7 DEF Next, Failure, Finished

\* A job that a delivery may still have to process has its staged file, as long as
\* a job has one writer at a time and no database error happens (except for the
\* job whose failure could not be recorded).
THEOREM StagedFileKept ==
  ASSUME OneWriter, MaxDbErrors = 0 PROVE Spec => []StagedWhileNeeded
<1>1. Init => StagedInv
  BY StagedInvInit
<1>2. JobInv /\ StagedInv /\ [Next]_vars => StagedInv'
  BY StagedNext DEF JobInv, CarryInv
<1>3. StagedInv => StagedWhileNeeded
  BY DEF StagedInv, StagedWhileNeeded
<1> QED
  BY <1>1, <1>2, <1>3, JobInvCorrect, PTL DEF Spec

-----------------------------------------------------------------------------
(* Ingestion implements DocumentLibrary.  The content a request checked long *)
(* ago is looked at again by the index when the document is added, and the   *)
(* one writer of a job ends it once.                                         *)

\* A step that neither adds nor deletes a document nor ends a job.
LEMMA LibraryStutters ==
  ASSUME UNCHANGED <<docContent, deleted>>, \A j \in Jobs : JobOutcome(j)' = JobOutcome(j)
  PROVE  UNCHANGED Library!vars
BY DEF Library!vars

\* The outcome of a job is a function of its row.
LEMMA SameOutcome ==
  ASSUME NEW j \in Jobs, jobStatus'[j] = jobStatus[j], jobDoc'[j] = jobDoc[j]
  PROVE  JobOutcome(j)' = JobOutcome(j)
BY DEF JobOutcome

LEMMA LibraryAdds ==
  ASSUME TypeInv, FilesInv, HasDirectory, NEW p \in Ingesters, pc[p] \in {"insert", "complete"},
         NEW owner, CommitDocument(p, owner), ~Duplicate(copy[p])
  PROVE  newDoc[p] \in Docs /\ copy[p] \in Contents /\ Library!NewDocument(newDoc[p], copy[p])
<1>1. newDoc[p] \in Docs /\ copy[p] \in Contents
  BY DEF HasDirectory, FilesInv, AttemptInv, IngestSteps
<1>2. docContent[newDoc[p]] = None
  BY <1>1, NoneAssumption DEF FilesInv, FilesAccounted, Pending, Rows
<1>3. \A e \in Library!Listed : docContent[e] # copy[p]
  BY DEF Library!Listed, Duplicate, Active, Rows
<1> QED
  BY <1>1, <1>2, <1>3 DEF Library!NewDocument, CommitDocument

\* An upload adds a document that belongs to no job.
LEMMA LibraryUploads ==
  ASSUME TypeInv, FilesInv, HasDirectory, NEW u \in Uploads, pc[u] = "insert",
         CommitDocument(u, None), ~Duplicate(copy[u]), UNCHANGED jobVars
  PROVE  Library!Next
<1>1. newDoc[u] \in Docs /\ copy[u] \in Contents /\ Library!NewDocument(newDoc[u], copy[u])
  BY LibraryAdds DEF Ingesters
<1>2. \A j \in Jobs : JobOutcome(j)' = JobOutcome(j)
  BY SameOutcome DEF jobVars
<1>3. Library!Add(newDoc[u], copy[u])
  BY <1>1, <1>2 DEF Library!Add
<1> QED
  BY <1>1, <1>3 DEF Library!Next

\* The commit of a worker adds the document of its job.
LEMMA LibraryCompletes ==
  ASSUME TypeInv, UniqueInv, FilesInv, HasDirectory, RecordsAgree, NEW w \in Workers,
         pc[w] = "complete", CompleteJob(w), CommitDocument(w, task[w])
  PROVE  Library!Next
<1>1. PICK j \in Jobs : task[w] = j
  BY DEF TypeInv, BusyWorkersHaveTask
<1>2. ~Duplicate(copy[w])
  BY DEF UniqueInv, FlushedIsReserved
<1>3. newDoc[w] \in Docs /\ copy[w] \in Contents /\ Library!NewDocument(newDoc[w], copy[w])
  BY <1>2, LibraryAdds DEF Ingesters
<1>4. /\ jobStatus[j] = "PROCESSING" /\ jobStatus'[j] = "COMPLETED" /\ jobDoc'[j] = newDoc[w]
      /\ \A k \in Jobs : k # j => jobStatus'[k] = jobStatus[k] /\ jobDoc'[k] = jobDoc[k]
  BY <1>1 DEF RecordsAgree, WorkerKnows, CompleteJob, TypeInv, TypeOK
<1>5. JobOutcome(j) = "pending" /\ JobOutcome(j)' = newDoc[w]
  BY <1>4 DEF JobOutcome
<1>6. \A k \in Jobs : k # j => JobOutcome(k)' = JobOutcome(k)
  BY <1>4, SameOutcome
<1>7. Library!Complete(j, newDoc[w], copy[w])
  BY <1>3, <1>5, <1>6 DEF Library!Complete
<1> QED
  BY <1>3, <1>7 DEF Library!Next

\* A request or a worker writes that its job failed.
LEMMA LibraryFails ==
  ASSUME TypeInv, NEW j \in Jobs, jobStatus[j] \in {"QUEUED", "PROCESSING"}, RecordFailure(j),
         UNCHANGED docVars
  PROVE  Library!Next
<1>1. /\ jobStatus'[j] = "FAILED"
      /\ \A k \in Jobs : k # j => jobStatus'[k] = jobStatus[k] /\ jobDoc'[k] = jobDoc[k]
  BY DEF RecordFailure, TypeInv, TypeOK
<1>2. JobOutcome(j) = "pending" /\ JobOutcome(j)' = "failed"
  BY <1>1 DEF JobOutcome
<1>3. \A k \in Jobs : k # j => JobOutcome(k)' = JobOutcome(k)
  BY <1>1, SameOutcome
<1>4. Library!Fail(j)
  BY <1>2, <1>3 DEF Library!Fail, docVars
<1> QED
  BY <1>4 DEF Library!Next

LEMMA LibraryIngests ==
  ASSUME TypeInv, FilesInv, HasDirectory, NEW p \in Ingesters,
         IngestStep(p) \/ IngestFault(p) \/ FinalizeFault(p) \/ IngestRemoveFails(p)
  PROVE  [Library!Next]_Library!vars
<1>1. UNCHANGED jobVars
  BY DEF IngestStep, IngestCheck, IngestFinalize, IngestParse, IngestInsert, IngestFault,
         FinalizeFault, IngestRemoveFails, Reject
<1>2. CASE UNCHANGED docVars
  BY <1>1, <1>2, SameOutcome, LibraryStutters DEF jobVars, docVars
<1>3. CASE ~UNCHANGED docVars
  <2>1. /\ p \in Uploads /\ pc[p] = "insert" /\ CommitDocument(p, None)
        /\ ~Duplicate(copy[p])
    BY <1>3 DEF IngestStep, IngestCheck, IngestFinalize, IngestParse, IngestInsert, IngestFault,
                FinalizeFault, IngestRemoveFails, Reject, IndexConflict
  <2> QED
    BY <1>1, <2>1, LibraryUploads
<1> QED
  BY <1>2, <1>3

LEMMA LibraryApi ==
  ASSUME TypeInv, OneWriterInv, RecordsAgree, NEW j \in Jobs,
         ApiStep(j) \/ ApiPublishFails(j) \/ ApiRemoveFails(j) \/ ApiDbError(j)
  PROVE  [Library!Next]_Library!vars
<1>1. UNCHANGED docVars
  BY DEF ApiStep, ApiRefuse, ApiStage, ApiCheck, ApiCreateJob, ApiPublish, ApiMarkFailed,
         ApiUnstage, ApiPublishFails, ApiRemoveFails, ApiDbError
<1>2. RequestKnows(j)
  BY DEF RecordsAgree
<1>3. CASE ApiCreateJob(j)
  <2>1. /\ jobStatus[j] = "none" /\ jobStatus'[j] = "QUEUED"
        /\ \A k \in Jobs : k # j => jobStatus'[k] = jobStatus[k] /\ jobDoc'[k] = jobDoc[k]
    BY <1>2, <1>3 DEF ApiCreateJob, RequestKnows, TypeInv, TypeOK
  <2>2. JobOutcome(j) = "none" /\ JobOutcome(j)' = "pending"
    BY <2>1 DEF JobOutcome
  <2>3. \A k \in Jobs : k # j => JobOutcome(k)' = JobOutcome(k)
    BY <2>1, SameOutcome
  <2>4. Library!Accept(j)
    BY <1>1, <2>2, <2>3 DEF Library!Accept, docVars
  <2> QED
    BY <2>4 DEF Library!Next
<1>4. CASE ApiMarkFailed(j)
  BY <1>1, <1>2, <1>4, LibraryFails DEF ApiMarkFailed, RequestKnows
<1>5. CASE ~ApiCreateJob(j) /\ ~ApiMarkFailed(j)
  <2>1. UNCHANGED jobVars
    BY <1>5 DEF ApiStep, ApiRefuse, ApiStage, ApiCheck, ApiPublish, ApiUnstage, ApiPublishFails,
                ApiRemoveFails, ApiDbError
  <2> QED
    BY <1>1, <2>1, SameOutcome, LibraryStutters DEF jobVars, docVars
<1> QED
  BY <1>3, <1>4, <1>5

LEMMA LibraryWorks ==
  ASSUME TypeInv, UniqueInv, FilesInv, HasDirectory, OneWriterInv, RecordsAgree, NEW w \in Workers,
         \/ WorkerStep(w) \/ WorkerLoadFault(w) \/ WorkerCompleteFails(w)
         \/ WorkerDiscardFails(w) \/ WorkerRemoveFails(w) \/ WorkerDbError(w)
         \/ WorkerCrash(w) \/ BrokerRedeliver(w)
  PROVE  [Library!Next]_Library!vars
<1>1. CASE UNCHANGED <<jobStatus, jobDoc, docContent, deleted>>
  BY <1>1, SameOutcome, LibraryStutters
<1>2. CASE IngestStep(w)
  BY <1>2, LibraryIngests DEF Ingesters
<1>3. CASE pc[w] = "complete" /\ CompleteJob(w) /\ CommitDocument(w, task[w])
  BY <1>3, LibraryCompletes
<1>4. CASE WorkerMarkFailed(w)
  <2>1. PICK j \in Jobs : task[w] = j
    BY <1>4 DEF WorkerMarkFailed, TypeInv, BusyWorkersHaveTask
  <2> QED
    BY <1>4, <2>1, LibraryFails DEF WorkerMarkFailed, RecordsAgree, WorkerKnows
<1>5. CASE WorkerClaim(w) /\ ~Handled(task[w])
  <2>1. PICK j \in Jobs : task[w] = j
    BY <1>5 DEF WorkerClaim, TypeInv, BusyWorkersHaveTask
  <2>2. jobStatus[j] \in {"QUEUED", "PROCESSING"}
    BY <1>5, <2>1 DEF RecordsAgree, RequestKnows, Handled, TypeInv, TypeOK, Statuses
  <2>3. /\ jobStatus'[j] = "PROCESSING" /\ UNCHANGED <<jobDoc, docContent, deleted>>
        /\ \A k \in Jobs : k # j => jobStatus'[k] = jobStatus[k]
    BY <1>5, <2>1 DEF WorkerClaim, docVars, TypeInv, TypeOK
  <2>4. JobOutcome(j)' = JobOutcome(j)
    BY <2>2, <2>3 DEF JobOutcome
  <2> QED
    BY <2>3, <2>4, SameOutcome, LibraryStutters
<1> QED
  BY <1>1, <1>2, <1>3, <1>4, <1>5
     DEF WorkerStep, WorkerReceive, WorkerClaim, WorkerLoad, WorkerComplete, WorkerReload,
         WorkerCleanup, WorkerAck, WorkerLoadFault, WorkerCompleteFails, WorkerDiscardFails,
         WorkerRemoveFails, WorkerDbError, WorkerCrash, BrokerRedeliver, jobVars, docVars

LEMMA LibraryNext ==
  ASSUME JobInv, [Next]_vars PROVE [Library!Next]_Library!vars
<1> USE DEF JobInv
<1>1. CASE \E j \in Jobs : ApiStep(j) \/ ApiPublishFails(j) \/ ApiRemoveFails(j) \/ ApiDbError(j)
  BY <1>1, LibraryApi
<1>2. CASE \E u \in Uploads : UploadStep(u) \/ UploadCommitLost(u)
  <2>1. PICK u \in Uploads : UploadStep(u) \/ UploadCommitLost(u)
    BY <1>2
  <2>2. CASE IngestStep(u)
    BY <2>2, LibraryIngests DEF Ingesters
  <2>3. CASE UploadCommitLost(u)
    BY <2>3, LibraryUploads DEF UploadCommitLost, IndexConflict
  <2>4. CASE UploadRefuse(u) \/ \E c \in Contents : UploadStage(u, c)
    BY <2>4, SameOutcome, LibraryStutters DEF UploadRefuse, UploadStage, jobVars, docVars
  <2> QED
    BY <2>1, <2>2, <2>3, <2>4 DEF UploadStep
<1>3. CASE \E w \in Workers : \/ WorkerStep(w) \/ WorkerLoadFault(w)
                              \/ WorkerCompleteFails(w) \/ WorkerDiscardFails(w)
                              \/ WorkerRemoveFails(w) \/ WorkerDbError(w)
                              \/ WorkerCrash(w) \/ BrokerRedeliver(w)
  BY <1>3, LibraryWorks
<1>4. CASE \E p \in Ingesters : IngestFault(p) \/ FinalizeFault(p) \/ IngestRemoveFails(p)
  BY <1>4, LibraryIngests
<1>5. CASE ApiCrash
  BY <1>5, SameOutcome, LibraryStutters DEF ApiCrash, jobVars, docVars
<1>6. CASE \E d \in Docs : DeleteDocument(d)
  <2>1. PICK d \in Docs : DeleteDocument(d)
    BY <1>6
  <2>2. \A k \in Jobs : JobOutcome(k)' = JobOutcome(k)
    BY <2>1, SameOutcome DEF DeleteDocument, jobVars
  <2>3. Library!Delete(d)
    BY <2>1, <2>2 DEF DeleteDocument, Library!Delete, Library!Listed, Active, Rows
  <2> QED
    BY <2>3 DEF Library!Next
<1>7. CASE UNCHANGED vars
  BY <1>7, SameOutcome, LibraryStutters DEF vars, jobVars, docVars
<1> QED
  BY <1>1, <1>2, <1>3, <1>4, <1>5, <1>6, <1>7 DEF Next, Failure, Finished

\* Ingestion implements the document library, as long as a job has one writer at a
\* time: in particular a job ends once.
THEOREM LibraryImplemented ==
  ASSUME OneWriter PROVE Spec => ImplementsLibrary
<1>1. Init => Library!Init
  BY DEF Init, Library!Init, JobOutcome
<1>2. JobInv /\ [Next]_vars => [Library!Next]_Library!vars
  BY LibraryNext
<1> QED
  BY <1>1, <1>2, JobInvCorrect, PTL DEF Spec, ImplementsLibrary, Library!Spec
=============================================================================
