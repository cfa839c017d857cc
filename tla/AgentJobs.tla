------------------------------ MODULE AgentJobs ------------------------------
(***************************************************************************)
(* The agent_jobs table and the Claude subprocesses behind its rows.       *)
(*                                                                         *)
(* spawn_claude commits a row at status "running", starts `claude --print` *)
(* and returns.  From then on only the subprocess moves the row, by HTTP:  *)
(* PUT /api/callbacks/progress/{id} and PUT /api/callbacks/complete/{id}.  *)
(* Nothing watches the subprocess, so a row whose subprocess is gone stays *)
(* where it is.  Components that act on a completion (TailoredCv) extend   *)
(* this module and conjoin their own changes to CompleteOk: the handler    *)
(* commits both in one transaction.                                        *)
(***************************************************************************)
EXTENDS Naturals, Orm

CONSTANTS
    Applications,   \* the ids of rows of the applications table
    JobTypes,       \* agent_jobs.job_type: "cv_tailor", "cold_email", "job_score"
    MaxJobs,        \* bound: agent_jobs rows ever inserted
    Progress,       \* the percentages a subprocess may report
    Faults          \* what the environment may do, see FaultKinds

(***************************************************************************)
(* spawn_fails   Popen raises (claude not on PATH, out of memory), or the  *)
(*               directory of the logs cannot be made                      *)
(* skill_fails   the skill reports status "failed"                         *)
(* silent_exit   the subprocess ends without a completing callback         *)
(* duplicate     a subprocess calls back again on a job it has completed   *)
(* restart       the api container restarts: its threads and children die  *)
(* render_fails  pandoc or LibreOffice fails                               *)
(* quiet_render  pandoc or LibreOffice exits with 0 and writes no file     *)
(* mail_fails    the IMAP or SMTP server refuses                           *)
(* socket_breaks a progress socket closes before the server is done with it*)
(* no_master     there is no active master CV                              *)
(***************************************************************************)
FaultKinds == {"spawn_fails", "skill_fails", "silent_exit", "duplicate",
               "restart", "render_fails", "quiet_render", "mail_fails",
               "socket_breaks", "no_master"}

ASSUME AgentJobsAssumption ==
    /\ MaxJobs \in Nat \ {0}
    /\ Progress \subseteq 0 .. 100
    /\ 0 \in Progress
    /\ Faults \subseteq FaultKinds

VARIABLES
    jobs,    \* the agent_jobs table by id, NoJob where there is no row yet
    procs    \* the subprocess of each row: none, starting, running or gone

jobVars == <<jobs, procs>>

JobIds == 1 .. MaxJobs

JobStatuses == {"running", "completed", "failed"}

Job == [type: JobTypes, ref: Applications, status: JobStatuses, progress: 0 .. 100]

NoJob == [status |-> "absent"]

JobsTypeOK ==
    /\ jobs \in [JobIds -> Job \union {NoJob}]
    /\ procs \in [JobIds -> {"none", "starting", "running", "gone"}]
    /\ \A j \in JobIds : procs[j] = "none" <=> jobs[j] = NoJob

JobsInit ==
    /\ jobs = [j \in JobIds |-> NoJob]
    /\ procs = [j \in JobIds |-> "none"]

(***************************************************************************)
(* Postgres hands out ids in the order of the inserts.                     *)
(***************************************************************************)
NextRow(table, id) ==
    /\ table[id].status = "absent"
    /\ \A k \in DOMAIN table : k < id => table[k].status # "absent"

\* spawn_claude up to its first commit: the row is visible, Popen is not yet called.
InsertJob(j, type, app) ==
    /\ NextRow(jobs, j)
    /\ jobs' = [jobs EXCEPT ![j] = [type |-> type, ref |-> app,
                                    status |-> "running", progress |-> 0]]
    /\ procs' = [procs EXCEPT ![j] = "starting"]

\* Popen returns; process_pid, which nothing reads, is committed.
Launch(j) ==
    /\ procs[j] = "starting"
    /\ procs' = [procs EXCEPT ![j] = "running"]
    /\ UNCHANGED jobs

\* Mutant: the row of a spawn that failed is taken back.
LaunchFailsForgotten(j) ==
    /\ "spawn_fails" \in Faults
    /\ procs[j] = "starting"
    /\ jobs' = [jobs EXCEPT ![j] = NoJob]
    /\ procs' = [procs EXCEPT ![j] = "gone"]

(***************************************************************************)
(* Popen raises: the row is failed and the exception goes on to the caller.*)
(* It goes there too when the directory of the logs cannot be made, which  *)
(* comes before the try: then the row stays as it is.                      *)
(***************************************************************************)
LaunchFails(j) ==
    /\ "spawn_fails" \in Faults
    /\ procs[j] = "starting"
    /\ jobs' \in {jobs, [jobs EXCEPT ![j].status = "failed"]}
    /\ procs' = [procs EXCEPT ![j] = "gone"]

-----------------------------------------------------------------------------

(***************************************************************************)
(* A callback arrives.  The handlers look the row up and check nothing     *)
(* else; that a subprocess completes its job once is the skill's doing.    *)
(***************************************************************************)
MayCallBack(j) ==
    /\ procs[j] = "running"
    /\ jobs[j].status = "running" \/ "duplicate" \in Faults

\* Mutant: progress puts the row back to running, as if the skill had just begun.
PutProgressReopening(j, pct) ==
    /\ MayCallBack(j)
    /\ jobs' = [jobs EXCEPT ![j].progress = pct, ![j].status = "running"]
    /\ UNCHANGED procs

PutProgress(j, pct) ==
    /\ MayCallBack(j)
    /\ jobs' = [jobs EXCEPT ![j].progress = pct]
    /\ UNCHANGED procs

CompleteFailed(j) ==
    /\ "skill_fails" \in Faults
    /\ MayCallBack(j)
    /\ jobs' = [jobs EXCEPT ![j].status = "failed"]
    /\ UNCHANGED procs

\* status, result and completed_at; the dispatch on job_type is the extending module's.
CompleteOk(j) ==
    /\ MayCallBack(j)
    /\ jobs' = [jobs EXCEPT ![j].status = "completed"]
    /\ UNCHANGED procs

\* The same from a handler that has been busy since it loaded the row at status "was":
\* the subprocess may have given up, and other callbacks may have gone by.
CompleteLate(j, was) ==
    /\ procs[j] # "none"
    /\ jobs' = [jobs EXCEPT ![j].status = Written(@, was, "completed")]
    /\ UNCHANGED procs

\* The subprocess ends.  No code of the application notices.
Exit(j) ==
    /\ procs[j] = "running"
    /\ jobs[j].status # "running" \/ "silent_exit" \in Faults
    /\ procs' = [procs EXCEPT ![j] = "gone"]
    /\ UNCHANGED jobs

\* The container goes down with everything that runs in it; the table survives.
KillAll ==
    /\ "restart" \in Faults
    /\ procs' = [j \in JobIds |-> IF procs[j] = "none" THEN "none" ELSE "gone"]
    /\ UNCHANGED jobs

-----------------------------------------------------------------------------

JobsNext ==
    \/ KillAll
    \/ \E j \in JobIds :
          \/ \E type \in JobTypes, app \in Applications : InsertJob(j, type, app)
          \/ Launch(j) \/ LaunchFails(j)
          \/ \E pct \in Progress : PutProgress(j, pct)
          \/ \E was \in JobStatuses : CompleteLate(j, was)
          \/ CompleteOk(j) \/ CompleteFailed(j) \/ Exit(j)

JobsSpec == JobsInit /\ [][JobsNext]_jobVars

(***************************************************************************)
(* A job that has ended is never running again: the progress socket and    *)
(* the browser hang up at the first completed or failed they see.  A late  *)
(* progress report, or an answer after a failed spawn, must not reopen it. *)
(***************************************************************************)
JobsNeverReopen ==
    [][\A j \in JobIds :
          jobs[j].status \in {"completed", "failed"} =>
              jobs'[j].status \in {"completed", "failed"}]_jobs
=============================================================================
