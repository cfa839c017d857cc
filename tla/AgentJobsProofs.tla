--------------------------- MODULE AgentJobsProofs ---------------------------
(***************************************************************************)
(* What holds of AgentJobs for any number of jobs and any faults.  Each    *)
(* fact is stated of a step (JobsNext) and of the specification, so that   *)
(* the components built on AgentJobs can use it for their own steps.       *)
(***************************************************************************)
EXTENDS AgentJobs, TLAPS

(***************************************************************************)
(* A row that is there is a Job.                                           *)
(***************************************************************************)
LEMMA RowIsJob ==
    ASSUME JobsTypeOK, NEW j \in JobIds, procs[j] # "none"
    PROVE  jobs[j] \in Job
  BY DEF JobsTypeOK

(***************************************************************************)
(* Every step of the table and of the subprocesses is well typed.          *)
(***************************************************************************)
LEMMA JobsTypeStep ==
    ASSUME JobsTypeOK, [JobsNext]_jobVars
    PROVE  JobsTypeOK'
<1> USE DEF JobsTypeOK, Job, NoJob, JobStatuses
<1>1. CASE KillAll
  BY <1>1 DEF KillAll
<1>2. ASSUME NEW j \in JobIds, NEW type \in JobTypes, NEW app \in Applications,
             InsertJob(j, type, app)
      PROVE  JobsTypeOK'
  BY <1>2 DEF InsertJob, NextRow
<1>3. ASSUME NEW j \in JobIds, Launch(j)
      PROVE  JobsTypeOK'
  BY <1>3 DEF Launch
<1>4. ASSUME NEW j \in JobIds, LaunchFails(j)
      PROVE  JobsTypeOK'
  BY <1>4, RowIsJob DEF LaunchFails
<1>5. ASSUME NEW j \in JobIds, NEW pct \in Progress, PutProgress(j, pct)
      PROVE  JobsTypeOK'
  BY <1>5, RowIsJob, AgentJobsAssumption DEF PutProgress, MayCallBack
<1>6. ASSUME NEW j \in JobIds, CompleteOk(j)
      PROVE  JobsTypeOK'
  BY <1>6, RowIsJob DEF CompleteOk, MayCallBack
<1>7. ASSUME NEW j \in JobIds, NEW was \in JobStatuses, CompleteLate(j, was)
      PROVE  JobsTypeOK'
  BY <1>7, RowIsJob DEF CompleteLate, Written
<1>8. ASSUME NEW j \in JobIds, CompleteFailed(j)
      PROVE  JobsTypeOK'
  BY <1>8, RowIsJob DEF CompleteFailed, MayCallBack
<1>9. ASSUME NEW j \in JobIds, Exit(j)
      PROVE  JobsTypeOK'
  BY <1>9 DEF Exit
<1>10. CASE UNCHANGED jobVars
  BY <1>10 DEF jobVars
<1> QED
  BY <1>1, <1>2, <1>3, <1>4, <1>5, <1>6, <1>7, <1>8, <1>9, <1>10 DEF JobsNext

(***************************************************************************)
(* The rows and the subprocesses are well typed, and a row has a           *)
(* subprocess, if only a dead one, exactly when it is there.               *)
(***************************************************************************)
THEOREM JobsTyping == JobsSpec => []JobsTypeOK
<1>1. JobsInit => JobsTypeOK
  BY DEF JobsInit, JobsTypeOK, NoJob
<1>2. JobsTypeOK /\ [JobsNext]_jobVars => JobsTypeOK'
  BY JobsTypeStep
<1> QED
  BY <1>1, <1>2, PTL DEF JobsSpec

(***************************************************************************)
(* The statuses of a row are reported by its id, so rows never disappear   *)
(* and never change what they are for: the type and the application of a   *)
(* job are those it was inserted with.                                     *)
(***************************************************************************)
LEMMA JobsKeepTheirRef ==
    ASSUME JobsTypeOK, [JobsNext]_jobVars, NEW j \in JobIds, jobs[j] # NoJob
    PROVE  /\ jobs'[j] # NoJob
           /\ jobs'[j].type = jobs[j].type
           /\ jobs'[j].ref = jobs[j].ref
<1> USE DEF JobsTypeOK, Job, NoJob, JobStatuses
<1>1. CASE KillAll
  BY <1>1 DEF KillAll
<1>2. ASSUME NEW k \in JobIds, NEW type \in JobTypes, NEW app \in Applications,
             InsertJob(k, type, app)
      PROVE  jobs'[j] = jobs[j]
  BY <1>2 DEF InsertJob, NextRow
<1>3. ASSUME NEW k \in JobIds, Launch(k) \/ Exit(k)
      PROVE  jobs'[j] = jobs[j]
  BY <1>3 DEF Launch, Exit
<1>4. ASSUME NEW k \in JobIds, LaunchFails(k) \/ CompleteFailed(k) \/ CompleteOk(k)
      PROVE  /\ jobs'[j] # NoJob
             /\ jobs'[j].type = jobs[j].type
             /\ jobs'[j].ref = jobs[j].ref
  BY <1>4, RowIsJob DEF LaunchFails, CompleteFailed, CompleteOk, MayCallBack
<1>5. ASSUME NEW k \in JobIds, NEW pct \in Progress, PutProgress(k, pct)
      PROVE  /\ jobs'[j] # NoJob
             /\ jobs'[j].type = jobs[j].type
             /\ jobs'[j].ref = jobs[j].ref
  BY <1>5, RowIsJob DEF PutProgress, MayCallBack
<1>6. ASSUME NEW k \in JobIds, NEW was \in JobStatuses, CompleteLate(k, was)
      PROVE  /\ jobs'[j] # NoJob
             /\ jobs'[j].type = jobs[j].type
             /\ jobs'[j].ref = jobs[j].ref
  BY <1>6, RowIsJob DEF CompleteLate, Written
<1>7. CASE UNCHANGED jobVars
  BY <1>7 DEF jobVars
<1> QED
  BY <1>1, <1>2, <1>3, <1>4, <1>5, <1>6, <1>7 DEF JobsNext

(***************************************************************************)
(* A job that has ended is never running again.                            *)
(***************************************************************************)
LEMMA EndedStepStaysEnded ==
    ASSUME JobsTypeOK, [JobsNext]_jobVars, NEW j \in JobIds,
           jobs[j].status \in {"completed", "failed"}
    PROVE  jobs'[j].status \in {"completed", "failed"}
<1> USE DEF JobsTypeOK, Job, NoJob, JobStatuses
<1>1. CASE KillAll
  BY <1>1 DEF KillAll
<1>2. ASSUME NEW k \in JobIds, NEW type \in JobTypes, NEW app \in Applications,
             InsertJob(k, type, app)
      PROVE  jobs'[j] = jobs[j]
  BY <1>2 DEF InsertJob, NextRow
<1>3. ASSUME NEW k \in JobIds, Launch(k) \/ Exit(k)
      PROVE  jobs'[j] = jobs[j]
  BY <1>3 DEF Launch, Exit
<1>4. ASSUME NEW k \in JobIds, LaunchFails(k) \/ CompleteFailed(k) \/ CompleteOk(k)
      PROVE  jobs'[j].status \in {"completed", "failed"}
  BY <1>4, RowIsJob DEF LaunchFails, CompleteFailed, CompleteOk, MayCallBack
<1>5. ASSUME NEW k \in JobIds, NEW pct \in Progress, PutProgress(k, pct)
      PROVE  jobs'[j].status = jobs[j].status
  BY <1>5, RowIsJob DEF PutProgress, MayCallBack
<1>6. ASSUME NEW k \in JobIds, NEW was \in JobStatuses, CompleteLate(k, was)
      PROVE  jobs'[j].status \in {"completed", "failed"}
  BY <1>6, RowIsJob DEF CompleteLate, Written
<1>7. CASE UNCHANGED jobVars
  BY <1>7 DEF jobVars
<1> QED
  BY <1>1, <1>2, <1>3, <1>4, <1>5, <1>6, <1>7 DEF JobsNext

THEOREM EndedJobsStayEnded == JobsSpec => JobsNeverReopen
<1>1. JobsTypeOK /\ [JobsNext]_jobVars =>
        [\A j \in JobIds :
           jobs[j].status \in {"completed", "failed"} =>
               jobs'[j].status \in {"completed", "failed"}]_jobs
  BY EndedStepStaysEnded
<1> QED
  BY <1>1, JobsTyping, PTL DEF JobsSpec, JobsNeverReopen
=============================================================================
