----------------------------- MODULE TailoredCv -----------------------------
(***************************************************************************)
(* A CV tailored to an application, from POST /api/cv/generate to the text *)
(* the user reads and edits.  RenderedCv adds its score and its files.     *)
(*                                                                         *)
(* A request thread inserts a pending generated_cvs row, spawns the        *)
(* /cv-tailor skill (AgentJobs) and notes the job in generation_log, one   *)
(* commit each.  The completion callback fills a row, the user edits it.   *)
(*                                                                         *)
(* Handlers that read and commit with no I/O in between are one action.    *)
(***************************************************************************)
EXTENDS AgentJobs

CONSTANTS
    MaxCvs,     \* bound: generated_cvs rows ever inserted
    Workers,    \* threads that may be inside POST /api/cv/generate at once
    Versions    \* the texts a user may type into one CV, 0 the empty one

ASSUME TailoredCvAssumption ==
    /\ MaxCvs \in Nat \ {0}
    /\ Versions \subseteq Nat
    /\ "cv_tailor" \in JobTypes

VARIABLES
    cvs,     \* the generated_cvs table by id
    gen      \* each worker's place in generate_cv

cvVars == <<jobs, procs, cvs, gen>>

CvIds == 1 .. MaxCvs

\* tailored_markdown is told apart by who wrote it, for which application, and when.
Text == [by: {"skill", "user"}, app: Applications, n: Nat]

NoText == [by |-> "nobody"]

Tailored(j) == [by |-> "skill", app |-> jobs[j].ref, n |-> j]

\* The user may also leave the text empty.
Typed(i, v) ==
    IF v = 0 THEN NoText ELSE [by |-> "user", app |-> cvs[i].app, n |-> v]

\* job is generation_log's agent_job_id, 0 before it is written.
Cv == [app: Applications, status: {"pending", "ready", "no_match", "edited"},
       text: Text \union {NoText}, job: JobIds \union {0}]

NoCv == [status |-> "absent"]

PendingCv(app) == [app |-> app, status |-> "pending", text |-> NoText, job |-> 0]

Idle == [pc |-> "idle"]

Generating == [pc: {"insert", "launch", "wire"}, cv: CvIds, job: JobIds \union {0}]

CvTypeOK ==
    /\ JobsTypeOK
    /\ cvs \in [CvIds -> Cv \union {NoCv}]
    /\ gen \in [Workers -> Generating \union {Idle}]

CvInit ==
    /\ JobsInit
    /\ cvs = [i \in CvIds |-> NoCv]
    /\ gen = [w \in Workers |-> Idle]

Of(app) == {i \in CvIds : cvs[i] # NoCv /\ cvs[i].app = app}

Newest(app) == {i \in Of(app) : \A k \in Of(app) : k <= i}

-----------------------------------------------------------------------------
(***************************************************************************)
(* POST /api/cv/generate.  The application and an active master CV exist:  *)
(* without them the handler answers 400 and changes nothing.               *)
(***************************************************************************)

GenerateCv(w, i, app) ==
    /\ gen[w] = Idle
    /\ NextRow(cvs, i)
    /\ cvs' = [cvs EXCEPT ![i] = PendingCv(app)]
    /\ gen' = [gen EXCEPT ![w] = [pc |-> "insert", cv |-> i, job |-> 0]]
    /\ UNCHANGED jobVars

SpawnInsert(w, j) ==
    /\ gen[w].pc = "insert"
    /\ InsertJob(j, "cv_tailor", cvs[gen[w].cv].app)
    /\ gen' = [gen EXCEPT ![w].pc = "launch", ![w].job = j]
    /\ UNCHANGED cvs

SpawnLaunch(w) ==
    /\ gen[w].pc = "launch"
    /\ Launch(gen[w].job)
    /\ gen' = [gen EXCEPT ![w].pc = "wire"]
    /\ UNCHANGED cvs

\* Mutant: the request cleans up after itself.
SpawnFailsCleanly(w) ==
    /\ gen[w].pc = "launch"
    /\ LaunchFails(gen[w].job)
    /\ cvs' = [cvs EXCEPT ![gen[w].cv] = NoCv]
    /\ gen' = [gen EXCEPT ![w] = Idle]

\* The exception leaves generate_cv, and the row pending with no job behind it.
SpawnFails(w) ==
    /\ gen[w].pc = "launch"
    /\ LaunchFails(gen[w].job)
    /\ gen' = [gen EXCEPT ![w] = Idle]
    /\ UNCHANGED cvs

\* Mutant: every row of the application is wired to the job.
WireAllRows(w) ==
    /\ gen[w].pc = "wire"
    /\ cvs' = [i \in CvIds |-> IF i \in Of(cvs[gen[w].cv].app)
                               THEN [cvs[i] EXCEPT !.job = gen[w].job]
                               ELSE cvs[i]]
    /\ gen' = [gen EXCEPT ![w] = Idle]
    /\ UNCHANGED jobVars

WireJob(w) ==
    /\ gen[w].pc = "wire"
    /\ cvs' = [cvs EXCEPT ![gen[w].cv].job = gen[w].job]
    /\ gen' = [gen EXCEPT ![w] = Idle]
    /\ UNCHANGED jobVars

-----------------------------------------------------------------------------
(***************************************************************************)
(* The callbacks of the skill.                                             *)
(***************************************************************************)

ReportProgress(j, pct) ==
    /\ PutProgress(j, pct)
    /\ UNCHANGED <<cvs, gen>>

ReportFailure(j) ==
    /\ CompleteFailed(j)
    /\ UNCHANGED <<cvs, gen>>

Outcomes == {"tailored", "blank", "no_match"}

\* "blank" is a result without tailored_markdown: the row is ready and empty.
Filled(row, outcome, text) ==
    CASE outcome = "tailored" -> [row EXCEPT !.status = "ready", !.text = text]
      [] outcome = "blank"    -> [row EXCEPT !.status = "ready", !.text = NoText]
      [] outcome = "no_match" -> [row EXCEPT !.status = "no_match"]

\* Mutants of _apply_cv_tailor: the order_by turned round, the filter dropped, a result
\* without text passed over.
ApplyToOldest(j, outcome) ==
    cvs' = [i \in CvIds |->
              IF i \in Of(jobs[j].ref) /\ \A k \in Of(jobs[j].ref) : i <= k
              THEN Filled(cvs[i], outcome, Tailored(j)) ELSE cvs[i]]

ApplyToNewestOfAll(j, outcome) ==
    cvs' = [i \in CvIds |->
              IF cvs[i] # NoCv /\ \A k \in CvIds : cvs[k] # NoCv => k <= i
              THEN Filled(cvs[i], outcome, Tailored(j)) ELSE cvs[i]]

ApplyUnlessEmpty(j, outcome) ==
    cvs' = [i \in CvIds |->
              IF i \in Newest(jobs[j].ref) /\ outcome # "blank"
              THEN Filled(cvs[i], outcome, Tailored(j)) ELSE cvs[i]]

\* _apply_cv_tailor: the newest row of the application, whichever job it was made for.
\* Without a row ("orphan") nothing changes.
ApplyCvTailor(j, outcome) ==
    cvs' = [i \in CvIds |->
              IF i \in Newest(jobs[j].ref)
              THEN Filled(cvs[i], outcome, Tailored(j)) ELSE cvs[i]]

CompleteTailoring(j, outcome) ==
    /\ CompleteOk(j)
    /\ ApplyCvTailor(j, outcome)
    /\ UNCHANGED gen

SkillExits(j) ==
    /\ Exit(j)
    /\ UNCHANGED <<cvs, gen>>

-----------------------------------------------------------------------------
(***************************************************************************)
(* The user replaces the text of a row, whatever its status.               *)
(***************************************************************************)

EditCv(i, v) ==
    /\ cvs[i] # NoCv
    /\ cvs' = [cvs EXCEPT ![i].text = Typed(i, v), ![i].status = "edited"]
    /\ UNCHANGED <<jobs, procs, gen>>

\* The api container restarts: threads and subprocesses are gone, the tables stay.
Restart ==
    /\ KillAll
    /\ gen' = [w \in Workers |-> Idle]
    /\ UNCHANGED cvs

-----------------------------------------------------------------------------

Generate(w) ==
    \/ \E i \in CvIds, app \in Applications : GenerateCv(w, i, app)
    \/ \E j \in JobIds : SpawnInsert(w, j)
    \/ SpawnLaunch(w)
    \/ SpawnFails(w)
    \/ WireJob(w)

Skill(j) ==
    \/ \E pct \in Progress : ReportProgress(j, pct)
    \/ ReportFailure(j)
    \/ \E outcome \in Outcomes : CompleteTailoring(j, outcome)
    \/ SkillExits(j)

CvNext ==
    \/ \E w \in Workers : Generate(w)
    \/ \E j \in JobIds : Skill(j)
    \/ \E i \in CvIds, v \in Versions : EditCv(i, v)
    \/ Restart

CvSpec == CvInit /\ [][CvNext]_cvVars

(***************************************************************************)
(* A skill that runs ends: it completes its job, well or badly, or exits.  *)
(* Reporting progress for ever is not enough.  A request thread that is    *)
(* about to start one gets there.                                          *)
(***************************************************************************)
SkillEnds(j) ==
    \/ ReportFailure(j)
    \/ \E outcome \in Outcomes : CompleteTailoring(j, outcome)
    \/ SkillExits(j)

CvFairSpec ==
    /\ CvSpec
    /\ \A j \in JobIds : WF_cvVars(SkillEnds(j))
    /\ \A w \in Workers : WF_cvVars(SpawnLaunch(w) \/ SpawnFails(w))

-----------------------------------------------------------------------------
(***************************************************************************)
(* Safety                                                                  *)
(***************************************************************************)

(***************************************************************************)
(* The "orphan" branch of _apply_cv_tailor is dead: a job is spawned after *)
(* the row it is for is committed and rows are never deleted, so whenever  *)
(* the callback comes there is a row to fill.                              *)
(***************************************************************************)
NoOrphanTailoring ==
    \A j \in JobIds : jobs[j] # NoJob => Of(jobs[j].ref) # {}

(***************************************************************************)
(* What a CV shows was written for its own application, whatever the       *)
(* number of jobs and late callbacks under way.                            *)
(***************************************************************************)
OwnApplicationOnly ==
    \A i \in CvIds : cvs[i] # NoCv /\ cvs[i].text # NoText =>
        cvs[i].text.app = cvs[i].app

(***************************************************************************)
(* generation_log links rows and jobs one to one and within one            *)
(* application: what a callback would need to find its own row is there.   *)
(***************************************************************************)
LogNamesOneJobPerCv ==
    \A i \in CvIds : cvs[i] # NoCv /\ cvs[i].job # 0 =>
        /\ jobs[cvs[i].job] # NoJob
        /\ jobs[cvs[i].job].ref = cvs[i].app
        /\ \A k \in CvIds : cvs[k] # NoCv /\ cvs[k].job = cvs[i].job => k = i

(***************************************************************************)
(* Why these hold: what a request under way still has in its hands.  Its   *)
(* row is there; once spawned, its job is for the application of its row,  *)
(* no row is wired to that job yet, and no other request has it.           *)
(***************************************************************************)
Spawned(w) == gen[w].pc \in {"launch", "wire"}

RequestsHoldTheirRows ==
    \A w \in Workers : gen[w] # Idle =>
        /\ cvs[gen[w].cv] # NoCv
        /\ Spawned(w) =>
             /\ gen[w].job \in JobIds
             /\ jobs[gen[w].job] # NoJob
             /\ jobs[gen[w].job].ref = cvs[gen[w].cv].app

RequestsOwnTheirJobs ==
    \A w \in Workers : Spawned(w) =>
        /\ \A i \in CvIds : cvs[i] # NoCv => cvs[i].job # gen[w].job
        /\ \A u \in Workers : Spawned(u) /\ gen[u].job = gen[w].job => u = w

CvInv ==
    /\ CvTypeOK
    /\ RequestsHoldTheirRows
    /\ RequestsOwnTheirJobs
    /\ NoOrphanTailoring
    /\ OwnApplicationOnly
    /\ LogNamesOneJobPerCv

(***************************************************************************)
(* The callback of a job fills the row the job was spawned for, as the     *)
(* comment "Wire the agent_job back to the generated_cv for later callback *)
(* dispatch" has it.  It does not when the application has a newer row.    *)
(***************************************************************************)
CallbackFillsItsOwnRow ==
    \A i \in CvIds :
        cvs[i] # NoCv /\ cvs[i].job # 0 /\ cvs[i].text # NoText /\ cvs[i].text.by = "skill" =>
            cvs[i].text.n = cvs[i].job

(***************************************************************************)
(* Only the newest CV of an application is ever filled by a skill, and no  *)
(* CV goes back to pending: TailoredCv implements CvShelf.                 *)
(***************************************************************************)
ShelfView ==
    [i \in CvIds |->
        IF cvs[i] = NoCv THEN [status |-> "absent"]
        ELSE [app |-> cvs[i].app, status |-> cvs[i].status]]

Shelf == INSTANCE CvShelf WITH shelf <- ShelfView

ImplementsShelf == Shelf!Spec

(***************************************************************************)
(* Liveness                                                                *)
(***************************************************************************)

(***************************************************************************)
(* A job that is spawned is heard of again: it fails, or the newest CV of  *)
(* its application leaves pending, or its subprocess died without a word   *)
(* and the row stays at running (claude_service has no watcher).           *)
(***************************************************************************)
Lost(j) == procs[j] = "gone" /\ jobs[j].status = "running"

NewestSettled(j) ==
    jobs[j] # NoJob /\ \E i \in Newest(jobs[j].ref) : cvs[i].status # "pending"

AnswerReachesNewest ==
    \A j \in JobIds :
        jobs[j].status = "running" ~>
            \/ jobs[j].status = "failed"
            \/ Lost(j)
            \/ NewestSettled(j)
=============================================================================
