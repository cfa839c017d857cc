-------------------------- MODULE TailoredCvProofs --------------------------
(***************************************************************************)
(* Proofs about TailoredCv, for any number of applications, CVs, jobs,     *)
(* workers and edits, under any faults.                                    *)
(***************************************************************************)
EXTENDS TailoredCv, AgentJobsProofs

-----------------------------------------------------------------------------
(***************************************************************************)
(* The part of TailoredCv that AgentJobs sees is AgentJobs.                *)
(***************************************************************************)

LEMMA CvStepIsJobsStep ==
    ASSUME CvTypeOK, RequestsHoldTheirRows, [CvNext]_cvVars
    PROVE  [JobsNext]_jobVars
<1> USE DEF jobVars
<1>1. ASSUME NEW w \in Workers, Generate(w)
      PROVE  [JobsNext]_jobVars
  <2>1. ASSUME NEW i \in CvIds, NEW app \in Applications, GenerateCv(w, i, app)
        PROVE  UNCHANGED jobVars
    BY <2>1 DEF GenerateCv
  <2>2. ASSUME NEW j \in JobIds, SpawnInsert(w, j)
        PROVE  [JobsNext]_jobVars
    <3>1. cvs[gen[w].cv].app \in Applications
      BY <2>2 DEF SpawnInsert, RequestsHoldTheirRows, CvTypeOK, Cv, NoCv, Idle, Generating
    <3> QED
      BY <2>2, <3>1, TailoredCvAssumption DEF SpawnInsert, JobsNext
  <2>3. CASE SpawnLaunch(w) \/ SpawnFails(w)
    <3>1. gen[w].job \in JobIds
      BY <2>3 DEF SpawnLaunch, SpawnFails, Spawned, RequestsHoldTheirRows, Idle
    <3> QED
      BY <2>3, <3>1 DEF SpawnLaunch, SpawnFails, JobsNext
  <2>4. CASE WireJob(w)
    BY <2>4 DEF WireJob
  <2> QED
    BY <1>1, <2>1, <2>2, <2>3, <2>4 DEF Generate
<1>2. ASSUME NEW j \in JobIds, Skill(j)
      PROVE  [JobsNext]_jobVars
  BY <1>2 DEF Skill, ReportProgress, ReportFailure, CompleteTailoring, SkillExits, JobsNext
<1>3. ASSUME NEW i \in CvIds, NEW v \in Versions, EditCv(i, v)
      PROVE  UNCHANGED jobVars
  BY <1>3 DEF EditCv
<1>4. CASE Restart
  BY <1>4 DEF Restart, JobsNext
<1>5. CASE UNCHANGED cvVars
  BY <1>5 DEF cvVars
<1> QED
  BY <1>1, <1>2, <1>3, <1>4, <1>5 DEF CvNext

-----------------------------------------------------------------------------
(***************************************************************************)
(* Type correctness.                                                       *)
(***************************************************************************)

\* A row that is there is a Cv, and the id of a present row is in the table.
LEMMA PresentCv ==
    ASSUME CvTypeOK, NEW i \in CvIds, cvs[i] # NoCv
    PROVE  cvs[i] \in Cv
  BY DEF CvTypeOK

LEMMA FilledIsCv ==
    ASSUME NEW row \in Cv, NEW outcome \in Outcomes, NEW text \in Text
    PROVE  /\ Filled(row, outcome, text) \in Cv
           /\ Filled(row, outcome, text).app = row.app
           /\ Filled(row, outcome, text).job = row.job
           /\ Filled(row, outcome, text).status \in {"ready", "no_match"}
           /\ Filled(row, outcome, text).text \in {row.text, text, NoText}
<1>1. CASE outcome = "tailored"
  BY <1>1 DEF Filled, Cv
<1>2. CASE outcome = "blank"
  BY <1>2 DEF Filled, Cv
<1>3. CASE outcome = "no_match"
  BY <1>3 DEF Filled, Cv
<1> QED
  BY <1>1, <1>2, <1>3 DEF Outcomes

LEMMA TailoredIsText ==
    ASSUME CvTypeOK, NEW j \in JobIds, procs[j] # "none"
    PROVE  Tailored(j) \in Text /\ Tailored(j).app = jobs[j].ref
  BY RowIsJob, AgentJobsAssumption DEF CvTypeOK, Job, Tailored, Text, JobIds

(***************************************************************************)
(* What a completion does to the table, row by row.                        *)
(***************************************************************************)
LEMMA CompletionOnRows ==
    ASSUME CvTypeOK, NEW j \in JobIds, NEW outcome \in Outcomes,
           CompleteTailoring(j, outcome)
    PROVE  /\ DOMAIN cvs' = CvIds
           /\ \A i \in CvIds :
                \/ i \notin Newest(jobs[j].ref) /\ cvs'[i] = cvs[i]
                \/ /\ i \in Newest(jobs[j].ref)
                   /\ cvs[i] # NoCv /\ cvs[i].app = jobs[j].ref
                   /\ cvs'[i] \in Cv
                   /\ cvs'[i].app = cvs[i].app /\ cvs'[i].job = cvs[i].job
                   /\ cvs'[i].status \in {"ready", "no_match"}
                   /\ cvs'[i].text \in {cvs[i].text, Tailored(j), NoText}
<1>1. procs[j] # "none"
  BY DEF CompleteTailoring, CompleteOk, MayCallBack
<1>2. cvs' = [i \in CvIds |-> IF i \in Newest(jobs[j].ref)
                              THEN Filled(cvs[i], outcome, Tailored(j)) ELSE cvs[i]]
  BY DEF CompleteTailoring, ApplyCvTailor
<1>3. ASSUME NEW i \in CvIds, i \in Newest(jobs[j].ref)
      PROVE  /\ cvs[i] # NoCv /\ cvs[i].app = jobs[j].ref
             /\ cvs[i] \in Cv
             /\ cvs'[i] = Filled(cvs[i], outcome, Tailored(j))
  BY <1>2, <1>3, PresentCv DEF Newest, Of
<1> QED
  BY <1>1, <1>2, <1>3, FilledIsCv, TailoredIsText

LEMMA CvTypeStep ==
    ASSUME CvInv, [CvNext]_cvVars
    PROVE  CvTypeOK'
<1> USE DEF CvTypeOK, CvInv
<1>1. JobsTypeOK'
  BY CvStepIsJobsStep, JobsTypeStep
<1>2. cvs' \in [CvIds -> Cv \union {NoCv}] /\ gen' \in [Workers -> Generating \union {Idle}]
  <2>1. ASSUME NEW w \in Workers, NEW i \in CvIds, NEW app \in Applications,
               GenerateCv(w, i, app)
        PROVE  <1>2!1 /\ <1>2!2
    BY <2>1 DEF GenerateCv, PendingCv, Cv, Generating
  <2>2. ASSUME NEW w \in Workers, NEW j \in JobIds, SpawnInsert(w, j)
        PROVE  <1>2!1 /\ <1>2!2
    <3>1. gen[w] \in Generating
      BY <2>2 DEF SpawnInsert, Idle
    <3> QED
      BY <2>2, <3>1 DEF SpawnInsert, Generating
  <2>3. ASSUME NEW w \in Workers, SpawnLaunch(w) \/ SpawnFails(w)
        PROVE  <1>2!1 /\ <1>2!2
    BY <2>3 DEF SpawnLaunch, SpawnFails, Generating, Idle
  <2>4. ASSUME NEW w \in Workers, WireJob(w)
        PROVE  <1>2!1 /\ <1>2!2
    <3>1. cvs[gen[w].cv] \in Cv /\ gen[w].cv \in CvIds /\ gen[w].job \in JobIds
      BY <2>4 DEF WireJob, Generating, Idle, RequestsHoldTheirRows, Spawned
    <3> QED
      BY <2>4, <3>1 DEF WireJob, Cv
  <2>5. ASSUME NEW j \in JobIds, NEW outcome \in Outcomes, CompleteTailoring(j, outcome)
        PROVE  <1>2!1 /\ <1>2!2
    BY <2>5, CompletionOnRows DEF CompleteTailoring, ApplyCvTailor
  <2>6. ASSUME NEW i \in CvIds, NEW v \in Versions, EditCv(i, v)
        PROVE  <1>2!1 /\ <1>2!2
    <3>1. cvs[i] \in Cv /\ Typed(i, v) \in Text \union {NoText}
      BY <2>6, TailoredCvAssumption DEF EditCv, Typed, Text, Cv
    <3> QED
      BY <2>6, <3>1 DEF EditCv, Cv
  <2>7. CASE Restart
    BY <2>7 DEF Restart
  <2>8. CASE UNCHANGED <<cvs, gen>>
    BY <2>8
  <2> QED
    BY <2>1, <2>2, <2>3, <2>4, <2>5, <2>6, <2>7, <2>8
       DEF CvNext, Generate, Skill, ReportProgress, ReportFailure, SkillExits, cvVars
<1> QED
  BY <1>1, <1>2

-----------------------------------------------------------------------------
(***************************************************************************)
(* What any step does to one row: nothing; it inserts it, pending; it      *)
(* notes the job of the request that has the row; or it settles the row,   *)
(* with the text it had, none, or one written for its application.         *)
(***************************************************************************)
Inserted(i) ==
    /\ cvs[i] = NoCv
    /\ cvs'[i] \in Cv
    /\ cvs'[i].text = NoText
    /\ cvs'[i].job = 0

Noted(i) ==
    \E w \in Workers :
        /\ WireJob(w)
        /\ gen[w].cv = i
        /\ cvs[i] \in Cv
        /\ cvs'[i] = [cvs[i] EXCEPT !.job = gen[w].job]

Settled(i) ==
    /\ cvs[i] \in Cv
    /\ cvs'[i] \in Cv
    /\ cvs'[i].app = cvs[i].app
    /\ cvs'[i].job = cvs[i].job
    /\ \/ cvs'[i].text \in {cvs[i].text, NoText}
       \/ cvs'[i].text.app = cvs[i].app

LEMMA RowStep ==
    ASSUME CvInv, [CvNext]_cvVars, NEW i \in CvIds
    PROVE  cvs'[i] = cvs[i] \/ Inserted(i) \/ Noted(i) \/ Settled(i)
<1> USE DEF CvInv
<1>1. ASSUME NEW w \in Workers, NEW k \in CvIds, NEW app \in Applications,
             GenerateCv(w, k, app)
      PROVE  cvs'[i] = cvs[i] \/ Inserted(i)
  <2>1. PendingCv(app) \in Cv
    BY DEF PendingCv, Cv
  <2> QED
    BY <1>1, <2>1 DEF GenerateCv, NextRow, PendingCv, Inserted, CvTypeOK, Cv, NoCv
<1>2. ASSUME NEW w \in Workers, WireJob(w)
      PROVE  cvs'[i] = cvs[i] \/ Noted(i)
  <2>1. cvs[gen[w].cv] \in Cv
    BY <1>2 DEF WireJob, Idle, RequestsHoldTheirRows, CvTypeOK, Generating
  <2> QED
    BY <1>2, <2>1 DEF WireJob, Noted, CvTypeOK
<1>3. ASSUME NEW j \in JobIds, NEW outcome \in Outcomes, CompleteTailoring(j, outcome)
      PROVE  cvs'[i] = cvs[i] \/ Settled(i)
  <2>1. procs[j] # "none"
    BY <1>3 DEF CompleteTailoring, CompleteOk, MayCallBack
  <2> QED
    BY <1>3, <2>1, CompletionOnRows, PresentCv, TailoredIsText DEF Settled
<1>4. ASSUME NEW k \in CvIds, NEW v \in Versions, EditCv(k, v)
      PROVE  cvs'[i] = cvs[i] \/ Settled(i)
  <2>1. /\ cvs[k] \in Cv /\ Typed(k, v) \in Text \union {NoText}
        /\ Typed(k, v) = NoText \/ Typed(k, v).app = cvs[k].app
    BY <1>4, PresentCv, TailoredCvAssumption DEF EditCv, Typed, Text, Cv
  <2> QED
    BY <1>4, <2>1 DEF EditCv, Settled, CvTypeOK, Cv
<1>5. CASE UNCHANGED cvs
  BY <1>5
<1> QED
  BY <1>1, <1>2, <1>3, <1>4, <1>5
     DEF CvNext, Generate, SpawnInsert, SpawnLaunch, SpawnFails, Skill, ReportProgress,
         ReportFailure, SkillExits, Restart, cvVars

\* Rows never disappear and never change their application.
LEMMA RowsStay ==
    ASSUME CvInv, [CvNext]_cvVars, NEW i \in CvIds, cvs[i] # NoCv
    PROVE  cvs'[i] # NoCv /\ cvs'[i].app = cvs[i].app
<1>1. CASE cvs'[i] = cvs[i]
  BY <1>1
<1>2. CASE Noted(i)
  BY <1>2 DEF Noted, Cv, NoCv
<1>3. CASE Settled(i)
  BY <1>3 DEF Settled, Cv, NoCv
<1> QED
  BY <1>1, <1>2, <1>3, RowStep DEF Inserted

-----------------------------------------------------------------------------
(***************************************************************************)
(* The inductive invariant, one conjunct at a time.                        *)
(***************************************************************************)

LEMMA OwnApplicationStep ==
    ASSUME CvInv, [CvNext]_cvVars
    PROVE  OwnApplicationOnly'
<1> SUFFICES ASSUME NEW i \in CvIds, cvs'[i] # NoCv, cvs'[i].text # NoText
             PROVE  cvs'[i].text.app = cvs'[i].app
  BY DEF OwnApplicationOnly
<1> USE DEF CvInv, OwnApplicationOnly
<1>1. CASE cvs'[i] = cvs[i]
  BY <1>1
<1>2. CASE Inserted(i)
  BY <1>2 DEF Inserted
<1>3. CASE Noted(i)
  BY <1>3 DEF Noted, Cv, NoCv
<1>4. CASE Settled(i)
  BY <1>4 DEF Settled, Cv, NoCv
<1> QED
  BY <1>1, <1>2, <1>3, <1>4, RowStep

\* A request that had its row, and its job if it has one now, still has them.
LEMMA HoldingOn ==
    ASSUME CvInv, [CvNext]_cvVars, NEW w \in Workers,
           gen[w] # Idle, gen'[w].cv = gen[w].cv
    PROVE  /\ cvs'[gen'[w].cv] # NoCv
           /\ Spawned(w) /\ gen'[w].job = gen[w].job =>
                /\ gen'[w].job \in JobIds
                /\ jobs'[gen'[w].job] # NoJob
                /\ jobs'[gen'[w].job].ref = cvs'[gen'[w].cv].app
<1> USE DEF CvInv
<1>1. gen[w].cv \in CvIds /\ cvs[gen[w].cv] # NoCv
  BY DEF CvTypeOK, Generating, RequestsHoldTheirRows
<1>2. cvs'[gen[w].cv] # NoCv /\ cvs'[gen[w].cv].app = cvs[gen[w].cv].app
  BY <1>1, RowsStay
<1>3. Spawned(w) => /\ gen[w].job \in JobIds
                    /\ jobs'[gen[w].job] # NoJob
                    /\ jobs'[gen[w].job].ref = jobs[gen[w].job].ref
  BY JobsKeepTheirRef, CvStepIsJobsStep DEF RequestsHoldTheirRows, CvTypeOK
<1> QED
  BY <1>1, <1>2, <1>3 DEF RequestsHoldTheirRows

LEMMA RequestsHoldStep ==
    ASSUME CvInv, [CvNext]_cvVars
    PROVE  RequestsHoldTheirRows'
<1> SUFFICES ASSUME NEW u \in Workers, gen'[u] # Idle
             PROVE  /\ cvs'[gen'[u].cv] # NoCv
                    /\ Spawned(u)' =>
                         /\ gen'[u].job \in JobIds
                         /\ jobs'[gen'[u].job] # NoJob
                         /\ jobs'[gen'[u].job].ref = cvs'[gen'[u].cv].app
  BY DEF RequestsHoldTheirRows
<1> USE DEF CvInv
<1>1. CASE gen'[u] = gen[u]
  BY <1>1, HoldingOn DEF Spawned
<1>2. ASSUME NEW i \in CvIds, NEW app \in Applications, GenerateCv(u, i, app)
      PROVE  /\ cvs'[gen'[u].cv] # NoCv
             /\ ~ Spawned(u)'
  BY <1>2 DEF GenerateCv, PendingCv, NoCv, CvTypeOK, Spawned
<1>3. ASSUME NEW j \in JobIds, SpawnInsert(u, j)
      PROVE  /\ cvs'[gen'[u].cv] # NoCv
             /\ gen'[u].job \in JobIds
             /\ jobs'[gen'[u].job] # NoJob
             /\ jobs'[gen'[u].job].ref = cvs'[gen'[u].cv].app
  <2>1. gen[u] \in Generating
    BY <1>3 DEF SpawnInsert, Idle, CvTypeOK
  <2>2. gen'[u].cv = gen[u].cv /\ gen'[u].job = j /\ cvs' = cvs
    BY <1>3, <2>1 DEF SpawnInsert, Generating, CvTypeOK
  <2>3. jobs'[j] # NoJob /\ jobs'[j].ref = cvs[gen[u].cv].app
    BY <1>3 DEF SpawnInsert, InsertJob, NoJob, CvTypeOK, JobsTypeOK
  <2>4. cvs[gen[u].cv] # NoCv
    BY <1>3 DEF SpawnInsert, Idle, RequestsHoldTheirRows
  <2> QED
    BY <2>2, <2>3, <2>4
<1>4. ASSUME SpawnLaunch(u)
      PROVE  /\ cvs'[gen'[u].cv] # NoCv
             /\ gen'[u].job \in JobIds
             /\ jobs'[gen'[u].job] # NoJob
             /\ jobs'[gen'[u].job].ref = cvs'[gen'[u].cv].app
  <2>1. gen[u] \in Generating /\ gen[u] # Idle /\ Spawned(u)
    BY <1>4 DEF SpawnLaunch, Idle, CvTypeOK, Spawned
  <2>2. gen'[u].cv = gen[u].cv /\ gen'[u].job = gen[u].job
    BY <1>4, <2>1 DEF SpawnLaunch, Generating, CvTypeOK
  <2> QED
    BY <2>1, <2>2, HoldingOn
<1>5. \/ gen'[u] = gen[u] \/ gen'[u] = Idle
      \/ \E i \in CvIds, app \in Applications : GenerateCv(u, i, app)
      \/ \E j \in JobIds : SpawnInsert(u, j)
      \/ SpawnLaunch(u)
  <2>1. ASSUME NEW w \in Workers, Generate(w)
        PROVE  <1>5
    BY <2>1 DEF Generate, GenerateCv, SpawnInsert, SpawnLaunch, SpawnFails, WireJob, CvTypeOK
  <2>2. CASE Restart
    BY <2>2 DEF Restart
  <2>3. CASE UNCHANGED gen
    BY <2>3
  <2> QED
    BY <2>1, <2>2, <2>3
       DEF CvNext, Skill, ReportProgress, ReportFailure, CompleteTailoring, SkillExits,
           EditCv, cvVars
<1> QED
  BY <1>1, <1>2, <1>3, <1>4, <1>5

\* The rows a step that notes no job leaves with one had it already.
LEMMA UnnotedRows ==
    ASSUME CvInv, [CvNext]_cvVars, NEW i \in CvIds,
           cvs'[i] # NoCv, cvs'[i].job # 0,
           \A w \in Workers : ~ WireJob(w)
    PROVE  cvs[i] # NoCv /\ cvs'[i].job = cvs[i].job /\ cvs'[i].app = cvs[i].app
<1>1. CASE cvs'[i] = cvs[i]
  BY <1>1
<1>2. CASE Settled(i)
  BY <1>2 DEF Settled, Cv, NoCv
<1> QED
  BY <1>1, <1>2, RowStep DEF Inserted, Noted

LEMMA RequestsOwnStep ==
    ASSUME CvInv, [CvNext]_cvVars
    PROVE  RequestsOwnTheirJobs'
<1> DEFINE Owns(w) ==
             /\ \A i \in CvIds : cvs'[i] # NoCv => cvs'[i].job # gen'[w].job
             /\ \A u \in Workers : Spawned(u)' /\ gen'[u].job = gen'[w].job => u = w
<1> SUFFICES ASSUME NEW w \in Workers, Spawned(w)'
             PROVE  Owns(w)
  BY DEF RequestsOwnTheirJobs
<1> USE DEF CvInv
<1>1. \A u \in Workers : Spawned(u) => gen[u] # Idle /\ gen[u].job \in JobIds /\ gen[u].job # 0
  BY DEF Spawned, Idle, RequestsHoldTheirRows, JobIds
<1>2. ASSUME NEW x \in Workers, NEW j \in JobIds, SpawnInsert(x, j)
      PROVE  Owns(w)
  <2>1. jobs[j] = NoJob /\ cvs' = cvs
    BY <1>2 DEF SpawnInsert, InsertJob, NextRow, CvTypeOK, JobsTypeOK, Job, NoJob, JobStatuses
  <2>2. gen[x] \in Generating
    BY <1>2 DEF SpawnInsert, Idle, CvTypeOK
  <2>3. gen'[x].job = j /\ \A u \in Workers \ {x} : gen'[u] = gen[u]
    BY <1>2, <2>2 DEF SpawnInsert, Generating, CvTypeOK
  <2>4. \A u \in Workers : Spawned(u) => gen[u].job # j
    BY <1>1, <2>1 DEF RequestsHoldTheirRows
  <2>5. \A i \in CvIds : cvs[i] # NoCv => cvs[i].job # j
    BY <2>1 DEF LogNamesOneJobPerCv, JobIds
  <2> QED
    BY <2>1, <2>3, <2>4, <2>5 DEF RequestsOwnTheirJobs, Spawned
<1>3. ASSUME NEW x \in Workers, WireJob(x)
      PROVE  Owns(w)
  <2>1. Spawned(x) /\ gen'[x] = Idle /\ \A u \in Workers \ {x} : gen'[u] = gen[u]
    BY <1>3 DEF WireJob, Spawned, CvTypeOK
  <2>2. w # x /\ gen'[w] = gen[w] /\ Spawned(w) /\ gen[w].job # gen[x].job
    BY <2>1 DEF Spawned, Idle, RequestsOwnTheirJobs
  <2>3. cvs[gen[x].cv] \in Cv
    BY <2>1, <1>1, PresentCv DEF RequestsHoldTheirRows, CvTypeOK, Generating
  <2>4. \A i \in CvIds : cvs'[i] = cvs[i] \/ cvs'[i].job = gen[x].job
    BY <1>3, <2>3 DEF WireJob, CvTypeOK, Cv
  <2> QED
    BY <2>1, <2>2, <2>4 DEF RequestsOwnTheirJobs, Spawned, Idle
<1>4. ASSUME \A u \in Workers : ~ WireJob(u),
             \A u \in Workers : Spawned(u)' => Spawned(u) /\ gen'[u].job = gen[u].job
      PROVE  Owns(w)
  BY <1>1, <1>4, UnnotedRows DEF RequestsOwnTheirJobs
<1>5. ASSUME NEW x \in Workers, Generate(x)
      PROVE  Owns(w)
  <2>1. ASSUME NEW i \in CvIds, NEW app \in Applications, GenerateCv(x, i, app)
        PROVE  \A u \in Workers : Spawned(u)' => Spawned(u) /\ gen'[u].job = gen[u].job
    BY <2>1 DEF GenerateCv, Spawned, CvTypeOK
  <2>2. ASSUME SpawnLaunch(x)
        PROVE  \A u \in Workers : Spawned(u)' => Spawned(u) /\ gen'[u].job = gen[u].job
    <3>1. gen[x] \in Generating
      BY <2>2 DEF SpawnLaunch, Idle, CvTypeOK
    <3> QED
      BY <2>2, <3>1 DEF SpawnLaunch, Spawned, CvTypeOK, Generating
  <2>3. ASSUME SpawnFails(x)
        PROVE  \A u \in Workers : Spawned(u)' => Spawned(u) /\ gen'[u].job = gen[u].job
    BY <2>3 DEF SpawnFails, Spawned, CvTypeOK, Idle
  <2>4. CASE \E u \in Workers : WireJob(u)
    BY <2>4, <1>3
  <2>5. CASE \E j \in JobIds : SpawnInsert(x, j)
    BY <2>5, <1>2
  <2> QED
    BY <1>4, <1>5, <2>1, <2>2, <2>3, <2>4, <2>5 DEF Generate
<1>6. CASE Restart
  <2>1. \A u \in Workers : ~ Spawned(u)'
    BY <1>6 DEF Restart, Spawned, Idle
  <2> QED
    BY <2>1
<1>7. CASE UNCHANGED gen
  <2>1. CASE \E u \in Workers : WireJob(u)
    BY <2>1, <1>3
  <2> QED
    BY <2>1, <1>4, <1>7 DEF Spawned
<1> QED
  BY <1>5, <1>6, <1>7
     DEF CvNext, Skill, ReportProgress, ReportFailure, CompleteTailoring, SkillExits,
         EditCv, cvVars

LEMMA LogStep ==
    ASSUME CvInv, [CvNext]_cvVars
    PROVE  LogNamesOneJobPerCv'
<1> DEFINE NamesOne(i) ==
             /\ jobs'[cvs'[i].job] # NoJob
             /\ jobs'[cvs'[i].job].ref = cvs'[i].app
             /\ \A k \in CvIds : cvs'[k] # NoCv /\ cvs'[k].job = cvs'[i].job => k = i
<1> SUFFICES ASSUME NEW i \in CvIds, cvs'[i] # NoCv, cvs'[i].job # 0
             PROVE  NamesOne(i)
  BY DEF LogNamesOneJobPerCv
<1> USE DEF CvInv
<1>1. ASSUME NEW w \in Workers, WireJob(w)
      PROVE  NamesOne(i)
  <2>1. /\ gen[w].cv \in CvIds /\ cvs[gen[w].cv] \in Cv
        /\ gen[w].job \in JobIds /\ jobs[gen[w].job] # NoJob
        /\ jobs[gen[w].job].ref = cvs[gen[w].cv].app
        /\ \A k \in CvIds : cvs[k] # NoCv => cvs[k].job # gen[w].job
    BY <1>1, PresentCv
       DEF WireJob, Spawned, Idle, RequestsHoldTheirRows, RequestsOwnTheirJobs, CvTypeOK, Generating
  <2>2. jobs' = jobs /\ \A k \in CvIds \ {gen[w].cv} : cvs'[k] = cvs[k]
    BY <1>1 DEF WireJob, jobVars, CvTypeOK
  <2>3. cvs'[gen[w].cv].job = gen[w].job /\ cvs'[gen[w].cv].app = cvs[gen[w].cv].app
    BY <1>1, <2>1 DEF WireJob, CvTypeOK, Cv
  <2> QED
    BY <2>1, <2>2, <2>3 DEF LogNamesOneJobPerCv
<1>2. CASE \A w \in Workers : ~ WireJob(w)
  <2>1. cvs[i] # NoCv /\ cvs'[i].job = cvs[i].job /\ cvs'[i].app = cvs[i].app
    BY <1>2, UnnotedRows
  <2>2. cvs[i].job \in JobIds /\ jobs[cvs[i].job] # NoJob
    BY <2>1, PresentCv DEF LogNamesOneJobPerCv, Cv
  <2>3. jobs'[cvs[i].job] # NoJob /\ jobs'[cvs[i].job].ref = jobs[cvs[i].job].ref
    BY <2>2, JobsKeepTheirRef, CvStepIsJobsStep DEF CvTypeOK
  <2>4. ASSUME NEW k \in CvIds, cvs'[k] # NoCv, cvs'[k].job = cvs'[i].job
        PROVE  k = i
    BY <1>2, <2>1, <2>4, UnnotedRows DEF LogNamesOneJobPerCv
  <2> QED
    BY <2>1, <2>3, <2>4 DEF LogNamesOneJobPerCv
<1> QED
  BY <1>1, <1>2

LEMMA NoOrphanStep ==
    ASSUME CvInv, [CvNext]_cvVars
    PROVE  NoOrphanTailoring'
<1> DEFINE HasRow(j) == \E i \in CvIds : cvs'[i] # NoCv /\ cvs'[i].app = jobs'[j].ref
<1> SUFFICES ASSUME NEW j \in JobIds, jobs'[j] # NoJob
             PROVE  HasRow(j)
  BY DEF NoOrphanTailoring, Of
<1> USE DEF CvInv
<1>1. CASE jobs[j] # NoJob
  <2>1. PICK i \in CvIds : cvs[i] # NoCv /\ cvs[i].app = jobs[j].ref
    BY <1>1 DEF NoOrphanTailoring, Of
  <2> QED
    BY <1>1, <2>1, RowsStay, JobsKeepTheirRef, CvStepIsJobsStep DEF CvTypeOK
<1>2. ASSUME NEW w \in Workers, NEW k \in JobIds, SpawnInsert(w, k)
      PROVE  HasRow(j)
  <2>1. gen[w] \in Generating /\ cvs[gen[w].cv] # NoCv /\ cvs' = cvs
    BY <1>2 DEF SpawnInsert, Idle, RequestsHoldTheirRows, CvTypeOK
  <2>2. CASE j = k
    BY <1>2, <2>1, <2>2 DEF SpawnInsert, InsertJob, CvTypeOK, JobsTypeOK, Generating
  <2>3. CASE j # k
    <3>1. jobs[j] # NoJob
      BY <1>2, <2>3 DEF SpawnInsert, InsertJob, CvTypeOK, JobsTypeOK
    <3> QED
      BY <3>1, <1>1
  <2> QED
    BY <2>2, <2>3
<1>3. CASE jobs[j] = NoJob /\ ~ \E w \in Workers, k \in JobIds : SpawnInsert(w, k)
  <2>1. procs[j] = "none"
    BY <1>3 DEF CvTypeOK, JobsTypeOK
  <2>2. procs'[j] = "none"
    BY <1>3, <2>1, CvStepIsJobsStep
       DEF CvNext, Generate, GenerateCv, SpawnLaunch, SpawnFails, WireJob, Skill, ReportProgress,
           ReportFailure, CompleteTailoring, SkillExits, EditCv, Restart, cvVars, jobVars,
           Launch, LaunchFails, PutProgress, CompleteFailed, CompleteOk, Exit, KillAll,
           CvTypeOK, JobsTypeOK, MayCallBack
  <2>3. JobsTypeOK'
    BY CvTypeStep DEF CvTypeOK
  <2> QED
    BY <2>2, <2>3 DEF JobsTypeOK
<1> QED
  BY <1>1, <1>2, <1>3

-----------------------------------------------------------------------------
(***************************************************************************)
(* The theorems.                                                           *)
(***************************************************************************)

LEMMA CvInitially ==
    ASSUME CvInit
    PROVE  CvInv
<1> USE DEF CvInit, JobsInit
<1>1. CvTypeOK
  BY DEF CvTypeOK, JobsTypeOK
<1>2. RequestsHoldTheirRows /\ RequestsOwnTheirJobs
  BY DEF RequestsHoldTheirRows, RequestsOwnTheirJobs, Spawned, Idle
<1>3. NoOrphanTailoring /\ OwnApplicationOnly /\ LogNamesOneJobPerCv
  BY DEF NoOrphanTailoring, OwnApplicationOnly, LogNamesOneJobPerCv
<1> QED
  BY <1>1, <1>2, <1>3 DEF CvInv

LEMMA CvInvStep ==
    ASSUME CvInv, [CvNext]_cvVars
    PROVE  CvInv'
  BY CvTypeStep, RequestsHoldStep, RequestsOwnStep, NoOrphanStep, OwnApplicationStep, LogStep
     DEF CvInv

(***************************************************************************)
(* The inductive invariant.                                                *)
(***************************************************************************)
THEOREM CvInvariant == CvSpec => []CvInv
<1>1. CvInit => CvInv
  BY CvInitially
<1>2. CvInv /\ [CvNext]_cvVars => CvInv'
  BY CvInvStep
<1> QED
  BY <1>1, <1>2, PTL DEF CvSpec

\* Type correctness.
THEOREM CvTyping == CvSpec => []CvTypeOK
<1>1. CvInv => CvTypeOK
  BY DEF CvInv
<1> QED
  BY <1>1, CvInvariant, PTL

\* Whenever a job is there, its callback finds a row to fill.
THEOREM CallbackFindsARow == CvSpec => []NoOrphanTailoring
<1>1. CvInv => NoOrphanTailoring
  BY DEF CvInv
<1> QED
  BY <1>1, CvInvariant, PTL

\* No text ever ends up at another application.
THEOREM TextStaysHome == CvSpec => []OwnApplicationOnly
<1>1. CvInv => OwnApplicationOnly
  BY DEF CvInv
<1> QED
  BY <1>1, CvInvariant, PTL

\* generation_log is a one-to-one link within an application.
THEOREM LogIsOneToOne == CvSpec => []LogNamesOneJobPerCv
<1>1. CvInv => LogNamesOneJobPerCv
  BY DEF CvInv
<1> QED
  BY <1>1, CvInvariant, PTL

(***************************************************************************)
(* TailoredCv is an AgentJobs: every theorem about the jobs carries over.  *)
(***************************************************************************)
THEOREM CvImplementsJobs == CvSpec => JobsSpec
<1>1. CvInit => JobsInit
  BY DEF CvInit
<1>2. CvInv /\ [CvNext]_cvVars => [JobsNext]_jobVars
  BY CvStepIsJobsStep DEF CvInv
<1> QED
  BY <1>1, <1>2, CvInvariant, PTL DEF CvSpec, JobsSpec

THEOREM CvJobsNeverReopen == CvSpec => JobsNeverReopen
  BY CvImplementsJobs, EndedJobsStayEnded

(***************************************************************************)
(* TailoredCv implements CvShelf: a request is GenerateCv, a completion    *)
(* settles the newest row of its application or, with nothing to settle,   *)
(* changes nothing, an edit settles any row; the rest is out of sight.     *)
(***************************************************************************)
LEMMA SameShelf ==
    ASSUME UNCHANGED cvs
    PROVE  UNCHANGED ShelfView
  BY DEF ShelfView

LEMMA ShelfEmpty ==
    ASSUME CvTypeOK, NEW i \in CvIds
    PROVE  (ShelfView[i] = Shelf!Empty) <=> (cvs[i] = NoCv)
  BY DEF ShelfView, Shelf!Empty, CvTypeOK, Cv, NoCv

LEMMA RequestOnShelf ==
    ASSUME CvTypeOK, NEW w \in Workers, NEW i \in CvIds, NEW app \in Applications,
           GenerateCv(w, i, app)
    PROVE  Shelf!Request(i, app)
<1>1. cvs[i] = NoCv /\ \A k \in CvIds : k < i => cvs[k] # NoCv
  BY DEF GenerateCv, NextRow, CvTypeOK, Cv, NoCv
<1>2. ShelfView' = [ShelfView EXCEPT ![i] = [app |-> app, status |-> "pending"]]
  BY DEF ShelfView, GenerateCv, PendingCv, NoCv, CvTypeOK
<1> QED
  BY <1>1, <1>2, ShelfEmpty DEF Shelf!Request, Shelf!Slots, CvIds

LEMMA EditOnShelf ==
    ASSUME CvTypeOK, NEW i \in CvIds, NEW v \in Versions, EditCv(i, v)
    PROVE  Shelf!UserSettles(i)
<1>1. cvs[i] \in Cv /\ cvs[i] # NoCv
  BY PresentCv DEF EditCv
<1>2. ShelfView' = [ShelfView EXCEPT ![i].status = "edited"]
  BY <1>1 DEF ShelfView, EditCv, NoCv, CvTypeOK, Cv
<1> QED
  BY <1>1, <1>2, ShelfEmpty DEF Shelf!UserSettles

LEMMA CompletionOnShelf ==
    ASSUME CvTypeOK, NEW j \in JobIds, NEW outcome \in Outcomes,
           CompleteTailoring(j, outcome)
    PROVE  (\E i \in CvIds : Shelf!SkillSettles(i)) \/ UNCHANGED ShelfView
<1>1. CASE Newest(jobs[j].ref) = {}
  BY <1>1, CompletionOnRows DEF ShelfView
<1>2. ASSUME NEW i \in CvIds, i \in Newest(jobs[j].ref)
      PROVE  Shelf!SkillSettles(i)
  <2>1. \A k \in CvIds : k \in Newest(jobs[j].ref) => k = i
    BY <1>2 DEF Newest, CvIds
  <2>2. cvs[i] # NoCv /\ cvs[i].app = jobs[j].ref
    BY <1>2 DEF Newest, Of
  <2>3. /\ cvs'[i] \in Cv /\ cvs'[i].app = cvs[i].app
        /\ cvs'[i].status \in {"ready", "no_match"}
        /\ \A k \in CvIds \ {i} : cvs'[k] = cvs[k]
    BY <1>2, <2>1, CompletionOnRows
  <2>4. ShelfView' = [ShelfView EXCEPT ![i].status = cvs'[i].status]
    <3>1. ShelfView[i] = [app |-> cvs[i].app, status |-> cvs[i].status]
      BY <2>2 DEF ShelfView
    <3>2. ShelfView'[i] = [app |-> cvs[i].app, status |-> cvs'[i].status]
      BY <2>3 DEF ShelfView, Cv, NoCv
    <3>3. [ShelfView[i] EXCEPT !.status = cvs'[i].status] = ShelfView'[i]
      BY <3>1, <3>2
    <3>4. \A k \in CvIds \ {i} : ShelfView'[k] = ShelfView[k]
      BY <2>3 DEF ShelfView
    <3> QED
      BY <3>3, <3>4 DEF ShelfView
  <2>5. Shelf!Newest(i)
    BY <1>2, <2>2, ShelfEmpty DEF Shelf!Newest, Shelf!Slots, Newest, Of, CvIds, ShelfView
  <2> QED
    BY <2>2, <2>3, <2>4, <2>5, ShelfEmpty DEF Shelf!SkillSettles
<1> QED
  BY <1>1, <1>2 DEF Newest, Of

THEOREM CvImplementsShelf == CvSpec => ImplementsShelf
<1>1. CvInit => Shelf!Init
  BY DEF CvInit, Shelf!Init, ShelfView, Shelf!Slots, Shelf!Empty, CvIds
<1>2. CvInv /\ [CvNext]_cvVars => [Shelf!Next]_ShelfView
  <2> SUFFICES ASSUME CvInv, [CvNext]_cvVars
               PROVE  Shelf!Next \/ UNCHANGED ShelfView
    OBVIOUS
  <2> USE DEF CvInv
  <2> CvIds = Shelf!Slots
    BY DEF CvIds, Shelf!Slots
  <2>1. ASSUME NEW w \in Workers, NEW i \in CvIds, NEW app \in Applications,
               GenerateCv(w, i, app)
        PROVE  Shelf!Next
    BY <2>1, RequestOnShelf DEF Shelf!Next
  <2>2. ASSUME NEW j \in JobIds, NEW outcome \in Outcomes, CompleteTailoring(j, outcome)
        PROVE  Shelf!Next \/ UNCHANGED ShelfView
    BY <2>2, CompletionOnShelf DEF Shelf!Next
  <2>3. ASSUME NEW i \in CvIds, NEW v \in Versions, EditCv(i, v)
        PROVE  Shelf!Next
    BY <2>3, EditOnShelf DEF Shelf!Next
  <2>4. ASSUME NEW w \in Workers, WireJob(w)
        PROVE  UNCHANGED ShelfView
    <3>1. cvs[gen[w].cv] \in Cv
      BY <2>4, PresentCv DEF WireJob, Idle, RequestsHoldTheirRows, CvTypeOK, Generating
    <3> QED
      BY <2>4, <3>1 DEF WireJob, ShelfView, CvTypeOK, Cv, NoCv
  <2>5. CASE UNCHANGED cvs
    BY <2>5, SameShelf
  <2> QED
    BY <2>1, <2>2, <2>3, <2>4, <2>5
       DEF CvNext, Generate, SpawnInsert, SpawnLaunch, SpawnFails, Skill, ReportProgress,
           ReportFailure, SkillExits, Restart, cvVars
<1> QED
  BY <1>1, <1>2, CvInvariant, PTL DEF CvSpec, ImplementsShelf, Shelf!Spec
=============================================================================
