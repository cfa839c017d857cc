--------------------------- MODULE EasyApplyProofs ---------------------------
(***************************************************************************)
(* Proofs about EasyApply and the progress sockets in it, for any number   *)
(* of postings, modals, applications and jobs, under any faults.           *)
(***************************************************************************)
EXTENDS EasyApply, AgentJobsProofs

USE DEF histories

-----------------------------------------------------------------------------
(***************************************************************************)
(* The inductive invariant.                                                *)
(***************************************************************************)

\* A modal knows its application from the request's first commit on, and reviews a text.
SoundModal ==
    {m \in Modal : /\ m.pc \notin {"create", "error"} \/ m.due => m.app \in Applications
                   /\ m.pc = "reviewing" => m.text # NoText}

ModalsAreSound == tab \in [Tabs -> SoundModal \union {Closed}]

\* The rows of a request: its jobs, and a CV of its application, until the draft is saved.
HoldsItsRows(m, table, cvs) ==
    /\ m.pc \in {"launch_cv", "spawn_email", "launch_email"} =>
          m.cv \in JobIds /\ table[m.cv] # NoJob
    /\ m.pc = "launch_email" => m.email \in JobIds /\ table[m.email] # NoJob
    /\ m.pc \in {"spawn_cv", "launch_cv", "spawn_email", "launch_email", "answered", "reviewing"} =>
          m.app \in cvs

RequestsHoldTheirRows == \A t \in Tabs : HoldsItsRows(tab[t], jobs, tailored)

\* An application with a CV or a draft is not deleted; jobs are for such, unless asked for bare.
HeldStay == \A a \in Applications : Held(a) => Live(a)

JobsAreHeld ==
    \A j \in JobIds \ bare :
        jobs[j] # NoJob => jobs[j].ref \in Applications /\ Held(jobs[j].ref)

\* A hook without a job shows nothing; one with a job has a row, which keeps its word.
SoundWatch(w, table) ==
    /\ w \in Watch
    /\ IF w.job = 0 THEN w = NotWatching
       ELSE /\ table[w.job] # NoJob
            /\ w.shown \in Ended => table[w.job].status \in Ended

WatchesAreSound ==
    /\ watch \in [Viewers -> Watch]
    /\ \A v \in Viewers : SoundWatch(watch[v], jobs)

\* Unless two requests cross, one that is about to create an application is alone.
CreatesAreAlone ==
    \A t \in Tabs : At(t, "create") /\ tab[t].posting \notin twice =>
        /\ Of(tab[t].posting) = {}
        /\ \A u \in Tabs : At(u, "create") /\ tab[u].posting = tab[t].posting => u = t

\* Unless a completion overtakes it, what is about to be sent has been reviewed.
SavedIsSeen ==
    \A t \in Tabs \ overtaken : At(t, "saved") => draft[tab[t].app] \in seen

EasyInv ==
    /\ TypeOK
    /\ ModalsAreSound
    /\ RequestsHoldTheirRows
    /\ HeldStay
    /\ JobsAreHeld
    /\ WatchesAreSound
    /\ CreatesAreAlone
    /\ OneApplicationPerPosting
    /\ SavedIsSeen
    /\ ReviewedBeforeSent

-----------------------------------------------------------------------------
(***************************************************************************)
(* EasyApply implements AgentJobs.                                         *)
(***************************************************************************)

\* A modal that is open.
LEMMA OpenModal ==
    ASSUME ModalsAreSound, NEW t \in Tabs, tab[t] # Closed \/ tab[t].pc # "closed"
    PROVE  /\ tab[t] \in SoundModal
           /\ tab[t].pc \notin {"create", "error"} => tab[t].app \in Applications
  BY DEF ModalsAreSound, Closed, SoundModal

LEMMA EasyStepIsJobsStep ==
    ASSUME ModalsAreSound, RequestsHoldTheirRows, [Next]_vars
    PROVE  [JobsNext]_jobVars
<1>1. ASSUME NEW t \in Tabs, Request(t)
      PROVE  [JobsNext]_jobVars
  <2>1. ASSUME NEW j \in JobIds, SpawnCv(t, j) \/ SpawnEmail(t, j)
        PROVE  JobsNext
    <3>1. tab[t].app \in Applications
      BY <2>1, OpenModal DEF SpawnCv, SpawnEmail, At
    <3> QED
      BY <2>1, <3>1, EasyApplyAssumption DEF SpawnCv, SpawnEmail, JobsNext
  <2>2. CASE LaunchCv(t) \/ LaunchEmail(t) \/ SpawnRaises(t)
    <3>1. \E j \in JobIds : Launch(j) \/ LaunchFails(j)
      BY <2>2 DEF LaunchCv, LaunchEmail, SpawnRaises, At, RequestsHoldTheirRows,
         HoldsItsRows
    <3> QED
      BY <3>1 DEF JobsNext
  <2>3. CASE Refused(t) \/ InsertCv(t) \/ \E a \in Applications : CreateApp(t, a)
    BY <2>3 DEF Refused, InsertCv, CreateApp, jobVars
  <2> QED
    BY <1>1, <2>1, <2>2, <2>3 DEF Request
<1>2. ASSUME NEW t \in Tabs, Show(t) \/ User(t)
      PROVE  UNCHANGED jobVars
  BY <1>2 DEF Show, FetchEmails, Review, ShowError, User, Ask, Save, Send, SendFails, Close,
              Reconnect, jobVars
<1>3. ASSUME NEW j \in JobIds, Skill(j)
      PROVE  JobsNext
  BY <1>3 DEF Skill, CompleteCv, CompleteEmails, SkillElse, JobsNext
<1>4. ASSUME NEW v \in Viewers, Socket(v)
      PROVE  UNCHANGED jobVars
  BY <1>4 DEF Socket, Poll, GiveUp, Break
<1>5. CASE Admin
  BY <1>5, EasyApplyAssumption
  DEF Admin, CreateByHand, DeleteApplication, DeletePosting, AskEmails, AskedEnds, JobsNext, jobVars
<1>6. CASE Restart
  BY <1>6 DEF Restart, JobsNext
<1>7. CASE UNCHANGED vars
  BY <1>7 DEF vars, jobVars
<1> QED
  BY <1>1, <1>2, <1>3, <1>4, <1>5, <1>6, <1>7 DEF Next

-----------------------------------------------------------------------------
(***************************************************************************)
(* Modals are sound.                                                       *)
(***************************************************************************)

LEMMA ModalStays ==
    ASSUME ModalsAreSound, NEW t \in Tabs, NEW m \in SoundModal \union {Closed},
           tab' = [tab EXCEPT ![t] = m]
    PROVE  ModalsAreSound'
  BY DEF ModalsAreSound, SoundModal

\* What a modal asks for, or has failed at.
LEMMA AskingIsSound ==
    ASSUME NEW p \in Postings, NEW pc \in {"create", "cv", "error"},
           NEW a \in Applications \union {0}, pc = "cv" => a \in Applications
    PROVE  Asking(p, pc, a) \in SoundModal
  BY DEF Asking, SoundModal, Modal, InRequest

LEMMA FailsIsSound ==
    ASSUME ModalsAreSound, NEW t \in Tabs, tab[t] # Closed \/ tab[t].pc # "closed", Fails(t)
    PROVE  ModalsAreSound'
<1>1. Asking(tab[t].posting, "error", 0) \in SoundModal
  BY OpenModal, AskingIsSound DEF SoundModal, Modal
<1> QED
  BY <1>1, ModalStays DEF Fails

LEMMA AskIsSound ==
    ASSUME ModalsAreSound, NEW t \in Tabs, NEW p \in Postings, Ask(t, p)
    PROVE  ModalsAreSound'
<1>1. PICK pc \in {"create", "cv", "error"}, a \in Applications \union {0} :
         /\ tab' = [tab EXCEPT ![t] = Asking(p, pc, a)]
         /\ pc = "cv" => a \in Applications
  BY DEF Ask, Found, Of
<1> QED
  BY <1>1, AskingIsSound, ModalStays

LEMMA RequestIsSound ==
    ASSUME ModalsAreSound, NEW t \in Tabs, Request(t)
    PROVE  ModalsAreSound'
<1>1. tab[t].pc # "closed"
  BY DEF Request, CreateApp, Refused, InsertCv, SpawnCv, SpawnEmail, LaunchCv, LaunchEmail,
         SpawnRaises, At
<1>2. tab[t] \in SoundModal /\ tab[t] \in Modal
  BY <1>1, OpenModal DEF SoundModal
<1>3. ASSUME NEW a \in Applications, CreateApp(t, a), ~Fails(t)
      PROVE  ModalsAreSound'
  <2>1. [tab[t] EXCEPT !.pc = "cv", !.app = a] \in SoundModal
    BY <1>2 DEF SoundModal, Modal, InRequest
  <2>2. tab' = [tab EXCEPT ![t] = [tab[t] EXCEPT !.pc = "cv", !.app = a]]
    BY <1>3 DEF CreateApp
  <2> QED
    BY <2>1, <2>2, ModalStays
<1>4. CASE InsertCv(t) /\ ~Fails(t)
  <2>1. [tab[t] EXCEPT !.pc = "spawn_cv"] \in SoundModal
    BY <1>2, <1>4 DEF SoundModal, Modal, InRequest, InsertCv, At
  <2>2. tab' = [tab EXCEPT ![t] = [tab[t] EXCEPT !.pc = "spawn_cv"]]
    BY <1>4 DEF InsertCv
  <2> QED
    BY <2>1, <2>2, ModalStays
<1>5. ASSUME NEW j \in JobIds, SpawnCv(t, j)
      PROVE  ModalsAreSound'
  <2>1. [tab[t] EXCEPT !.pc = "launch_cv", !.cv = j] \in SoundModal
    BY <1>2, <1>5 DEF SoundModal, Modal, InRequest, SpawnCv, At
  <2>2. tab' = [tab EXCEPT ![t] = [tab[t] EXCEPT !.pc = "launch_cv", !.cv = j]]
    BY <1>5 DEF SpawnCv
  <2> QED
    BY <2>1, <2>2, ModalStays
<1>6. ASSUME NEW j \in JobIds, SpawnEmail(t, j)
      PROVE  ModalsAreSound'
  <2>1. [tab[t] EXCEPT !.pc = "launch_email", !.email = j] \in SoundModal
    BY <1>2, <1>6 DEF SoundModal, Modal, InRequest, SpawnEmail, At
  <2>2. tab' = [tab EXCEPT ![t] = [tab[t] EXCEPT !.pc = "launch_email", !.email = j]]
    BY <1>6 DEF SpawnEmail
  <2> QED
    BY <2>1, <2>2, ModalStays
<1>7. CASE LaunchCv(t)
  <2>1. [tab[t] EXCEPT !.pc = "spawn_email"] \in SoundModal
    BY <1>2, <1>7 DEF SoundModal, Modal, InRequest, LaunchCv, At
  <2>2. tab' = [tab EXCEPT ![t] = [tab[t] EXCEPT !.pc = "spawn_email"]]
    BY <1>7 DEF LaunchCv
  <2> QED
    BY <2>1, <2>2, ModalStays
<1>8. CASE LaunchEmail(t)
  <2>1. PICK due \in BOOLEAN : tab' = [tab EXCEPT ![t].pc = "answered", ![t].due = due]
    BY <1>8 DEF LaunchEmail
  <2>2. [tab[t] EXCEPT !.pc = "answered", !.due = due] \in SoundModal
    BY <1>2, <1>8 DEF SoundModal, Modal, InRequest, LaunchEmail, At
  <2>3. tab' = [tab EXCEPT ![t] = [tab[t] EXCEPT !.pc = "answered", !.due = due]]
    BY <2>1
  <2> QED
    BY <2>2, <2>3, ModalStays
<1>9. CASE Refused(t) \/ SpawnRaises(t)
  BY <1>1, <1>9, FailsIsSound DEF Refused, SpawnRaises
<1>10. CASE Fails(t)
  BY <1>1, <1>10, FailsIsSound
<1> QED
  BY <1>3, <1>4, <1>5, <1>6, <1>7, <1>8, <1>9, <1>10 DEF Request

LEMMA ShowIsSound ==
    ASSUME TypeOK, ModalsAreSound, NEW t \in Tabs, Show(t)
    PROVE  ModalsAreSound'
<1>1. CASE FetchEmails(t)
  <2>1. [tab[t] EXCEPT !.due = FALSE] \in SoundModal
    BY <1>1, OpenModal DEF SoundModal, Modal, FetchEmails
  <2>2. tab' = [tab EXCEPT ![t] = [tab[t] EXCEPT !.due = FALSE]]
    BY <1>1 DEF FetchEmails
  <2> QED
    BY <2>1, <2>2, ModalStays
<1>2. CASE Review(t)
  <2>1. [tab[t] EXCEPT !.pc = "reviewing", !.text = emails[t].text] \in SoundModal
    BY <1>2, OpenModal DEF SoundModal, Modal, Review, At, TypeOK
  <2>2. tab' = [tab EXCEPT ![t] = [tab[t] EXCEPT !.pc = "reviewing", !.text = emails[t].text]]
    BY <1>2 DEF Review
  <2> QED
    BY <2>1, <2>2, ModalStays
<1>3. CASE ShowError(t)
  <2>1. [tab[t] EXCEPT !.pc = "error"] \in SoundModal
    BY <1>3, OpenModal DEF SoundModal, Modal, ShowError, At
  <2>2. tab' = [tab EXCEPT ![t] = [tab[t] EXCEPT !.pc = "error"]]
    BY <1>3 DEF ShowError
  <2> QED
    BY <2>1, <2>2, ModalStays
<1> QED
  BY <1>1, <1>2, <1>3 DEF Show

LEMMA UserIsSound ==
    ASSUME TypeOK, ModalsAreSound, NEW t \in Tabs, User(t)
    PROVE  ModalsAreSound'
<1>1. ASSUME NEW text \in Text, Save(t, text)
      PROVE  ModalsAreSound'
  <2>1. [tab[t] EXCEPT !.pc = "saved"] \in SoundModal
    BY <1>1, OpenModal DEF SoundModal, Modal, Save, At
  <2>2. tab' = [tab EXCEPT ![t] = [tab[t] EXCEPT !.pc = "saved"]]
    BY <1>1 DEF Save
  <2> QED
    BY <2>1, <2>2, ModalStays
<1>2. CASE Send(t)
  <2>1. tab[t] \in SoundModal /\ draft[tab[t].app] \in Text \union {NoText}
    BY <1>2, OpenModal DEF Send, At, TypeOK
  <2>2. [tab[t] EXCEPT !.pc = "sent", !.text = draft[tab[t].app]] \in SoundModal
    BY <1>2, <2>1 DEF SoundModal, Modal, Send, At
  <2>3. tab' = [tab EXCEPT ![t] = [tab[t] EXCEPT !.pc = "sent", !.text = draft[tab[t].app]]]
    BY <1>2 DEF Send
  <2> QED
    BY <2>2, <2>3, ModalStays
<1>3. CASE SendFails(t)
  <2>1. [tab[t] EXCEPT !.pc = "error"] \in SoundModal
    BY <1>3, OpenModal DEF SoundModal, Modal, SendFails, At
  <2>2. tab' = [tab EXCEPT ![t] = [tab[t] EXCEPT !.pc = "error"]]
    BY <1>3 DEF SendFails
  <2> QED
    BY <2>1, <2>2, ModalStays
<1>4. CASE Reconnect(t)
  <2>1. [tab[t] EXCEPT !.due = TRUE] \in SoundModal
    BY <1>4, OpenModal DEF SoundModal, Modal, Reconnect, At
  <2>2. tab' = [tab EXCEPT ![t] = [tab[t] EXCEPT !.due = TRUE]]
    BY <1>4 DEF Reconnect
  <2> QED
    BY <2>1, <2>2, ModalStays
<1>5. CASE Close(t)
  BY <1>5, ModalStays DEF Close
<1>6. ASSUME NEW p \in Postings, Ask(t, p)
      PROVE  ModalsAreSound'
  BY <1>6, AskIsSound
<1> QED
  BY <1>1, <1>2, <1>3, <1>4, <1>5, <1>6 DEF User

\* A restart fails the requests under way, and the sends.
LEMMA RestartIsSound ==
    ASSUME ModalsAreSound, Restart
    PROVE  ModalsAreSound'
<1>1. ASSUME NEW t \in Tabs
      PROVE  tab'[t] \in SoundModal \union {Closed}
  <2>1. CASE tab[t].pc \in InRequest
    <3>1. tab'[t] = Asking(tab[t].posting, "error", 0)
      BY <2>1 DEF Restart
    <3>2. tab[t].posting \in Postings
      BY <2>1, OpenModal DEF InRequest, SoundModal, Modal
    <3> QED
      BY <3>1, <3>2, AskingIsSound
  <2>2. CASE At(t, "saved")
    <3>1. tab'[t] = [tab[t] EXCEPT !.pc = "error"]
      BY <2>2 DEF Restart, At, InRequest
    <3> QED
      BY <2>2, <3>1, OpenModal DEF At, SoundModal, Modal
  <2>3. CASE tab[t].pc \notin InRequest /\ ~At(t, "saved")
    BY <2>3 DEF Restart, ModalsAreSound
  <2> QED
    BY <2>1, <2>2, <2>3
<1> QED
  BY <1>1 DEF Restart, ModalsAreSound

LEMMA SoundStep ==
    ASSUME TypeOK, ModalsAreSound, [Next]_vars
    PROVE  ModalsAreSound'
<1>1. ASSUME UNCHANGED tab
      PROVE  ModalsAreSound'
  BY <1>1 DEF ModalsAreSound
<1>2. ASSUME NEW j \in JobIds, Skill(j)
      PROVE  UNCHANGED tab
  BY <1>2 DEF Skill, CompleteCv, CompleteEmails, SkillElse, easyVars
<1>3. ASSUME NEW v \in Viewers, Socket(v)
      PROVE  UNCHANGED tab
  BY <1>3 DEF Socket, easyVars
<1>4. CASE Admin
  BY <1>1, <1>4 DEF Admin, CreateByHand, DeleteApplication, DeletePosting, AskEmails,
      AskedEnds, easyVars
<1>5. CASE UNCHANGED vars
  BY <1>1, <1>5 DEF vars
<1> QED
  BY <1>1, <1>2, <1>3, <1>4, <1>5, RequestIsSound, ShowIsSound, UserIsSound, RestartIsSound
  DEF Next

-----------------------------------------------------------------------------
(***************************************************************************)
(* Hooks are sound, and what they were told of an end holds.               *)
(***************************************************************************)

LEMMA WatchKeeps ==
    ASSUME JobsTypeOK, [JobsNext]_jobVars, NEW w, SoundWatch(w, jobs)
    PROVE  SoundWatch(w, jobs')
<1>1. CASE w.job = 0
  BY <1>1 DEF SoundWatch
<1>2. CASE w.job # 0
  <2>1. w.job \in JobIds
    BY <1>2 DEF SoundWatch, Watch
  <2>2. jobs'[w.job] # NoJob
    BY <1>2, <2>1, JobsKeepTheirRef DEF SoundWatch
  <2>3. w.shown \in Ended => jobs'[w.job].status \in Ended
    BY <1>2, <2>1, EndedStepStaysEnded DEF SoundWatch, Ended
  <2> QED
    BY <1>2, <2>2, <2>3 DEF SoundWatch
<1> QED
  BY <1>1, <1>2

\* A hook that is cut off, with an error or without.
LEMMA CutOffIsSound ==
    ASSUME WatchesAreSound, NEW v \in Viewers, NEW withError \in BOOLEAN
    PROVE  SoundWatch(BrokenOff(v, withError), jobs)
<1>1. SoundWatch(watch[v], jobs)
  BY DEF WatchesAreSound
<1>2. CASE ~watch[v].open
  BY <1>1, <1>2 DEF BrokenOff
<1>3. CASE watch[v].open
  <2> DEFINE w == [watch[v] EXCEPT !.open = FALSE,
                                   !.shown = IF withError /\ @ # "nothing" THEN "broken"
                                             ELSE @]
  <2>1. BrokenOff(v, withError) = w
    BY <1>3 DEF BrokenOff
  <2>2. watch[v].job # 0
    BY <1>1, <1>3 DEF SoundWatch, NotWatching
  <2>3. w \in Watch /\ w.job = watch[v].job
    BY <1>1 DEF SoundWatch, Watch
  <2>4. w.shown \in Ended => watch[v].shown \in Ended
    BY <1>1 DEF Ended, SoundWatch, Watch
  <2> HIDE DEF w
  <2> QED
    BY <1>1, <2>1, <2>2, <2>3, <2>4 DEF SoundWatch
<1> QED
  BY <1>2, <1>3

\* What has to be shown of a step: every hook that it touches is sound afterwards.
LEMMA WatchStays ==
    ASSUME JobsTypeOK, WatchesAreSound, [JobsNext]_jobVars,
           watch' = [v \in Viewers |-> watch'[v]],
           \A v \in Viewers : watch'[v] = watch[v] \/ SoundWatch(watch'[v], jobs')
    PROVE  WatchesAreSound'
<1>1. ASSUME NEW v \in Viewers
      PROVE  SoundWatch(watch'[v], jobs')
  BY WatchKeeps DEF WatchesAreSound
<1> QED
  BY <1>1 DEF WatchesAreSound, SoundWatch

LEMMA NotWatchingIsSound ==
    \A table : SoundWatch(NotWatching, table)
  BY DEF SoundWatch, NotWatching, Watch

LEMMA WatchStep ==
    ASSUME JobsTypeOK, ModalsAreSound, RequestsHoldTheirRows, WatchesAreSound, [Next]_vars
    PROVE  WatchesAreSound'
<1>1. [JobsNext]_jobVars
  BY EasyStepIsJobsStep
<1>2. ASSUME UNCHANGED watch
      PROVE  WatchesAreSound'
  BY <1>1, <1>2, WatchStays DEF WatchesAreSound
<1>3. ASSUME NEW t \in Tabs, Request(t)
      PROVE  WatchesAreSound'
  <2>1. CASE LaunchEmail(t)
    <3>1. At(t, "launch_email") /\ UNCHANGED jobs
      BY <2>1 DEF LaunchEmail, Launch
    <3>2. /\ tab[t].cv \in JobIds /\ jobs'[tab[t].cv] # NoJob
          /\ tab[t].email \in JobIds /\ jobs'[tab[t].email] # NoJob
      BY <3>1 DEF RequestsHoldTheirRows, HoldsItsRows, At
    <3>3. \A j \in JobIds : jobs'[j] # NoJob => SoundWatch(Watching(j), jobs')
      BY DEF SoundWatch, Watching, Watch, Ended, JobIds
    <3>4. watch' = [watch EXCEPT ![<<t, "cv_tailor">>] = Watching(tab[t].cv),
                                 ![<<t, "cold_email">>] = Watching(tab[t].email)]
      BY <2>1 DEF LaunchEmail
    <3>5. \A v \in Viewers : watch'[v] \in {watch[v], Watching(tab[t].cv), Watching(tab[t].email)}
      BY <3>4 DEF WatchesAreSound
    <3>6. watch' = [v \in Viewers |-> watch'[v]]
      BY <3>4 DEF WatchesAreSound
    <3> QED
      BY <1>1, <3>2, <3>3, <3>5, <3>6, WatchStays
  <2>2. CASE ~LaunchEmail(t)
    BY <1>2, <1>3, <2>2 DEF Request, CreateApp, Refused, InsertCv, SpawnCv, SpawnEmail, LaunchCv,
                            SpawnRaises
  <2> QED
    BY <2>1, <2>2
<1>4. ASSUME NEW t \in Tabs, User(t) \/ Show(t)
      PROVE  WatchesAreSound'
  <2>1. ASSUME HangUp(Hooks(t))
        PROVE  WatchesAreSound'
    BY <1>1, <2>1, WatchStays, NotWatchingIsSound DEF HangUp
  <2> QED
    BY <1>2, <1>4, <2>1 DEF User, Ask, Save, Send, SendFails, Close, Reconnect, Show, FetchEmails,
                            Review, ShowError
<1>5. ASSUME NEW j \in JobIds, Skill(j)
      PROVE  UNCHANGED watch
  BY <1>5 DEF Skill, CompleteCv, CompleteEmails, SkillElse
<1>6. ASSUME NEW v \in Viewers, Socket(v)
      PROVE  WatchesAreSound'
  <2>1. UNCHANGED jobs /\ watch[v].open
    BY <1>6 DEF Socket, Poll, GiveUp, Break, jobVars
  <2>2. SoundWatch(watch[v], jobs) /\ watch[v] \in Watch
    BY DEF WatchesAreSound
  <2>3. watch[v].job \in JobIds /\ jobs[watch[v].job] # NoJob
    BY <2>1, <2>2 DEF SoundWatch, Watch, NotWatching
  <2>4. ASSUME NEW w, watch' = [watch EXCEPT ![v] = w], SoundWatch(w, jobs')
        PROVE  WatchesAreSound'
    BY <1>1, <2>4, WatchStays DEF WatchesAreSound
  <2>5. CASE Poll(v)
    <3> DEFINE w == [watch[v] EXCEPT !.shown = StatusOf(v), !.open = StatusOf(v) \notin Ended]
    <3>1. jobs[watch[v].job] \in Job
      BY <2>3 DEF JobsTypeOK
    <3>2. StatusOf(v) \in JobStatuses
      BY <3>1 DEF StatusOf, Job
    <3>3. w \in Watch /\ w.job = watch[v].job /\ w.shown = StatusOf(v)
      BY <2>2, <3>2 DEF Watch
    <3>4. w.job # 0
      BY <2>3, <3>3 DEF JobIds
    <3>5. SoundWatch(w, jobs')
      BY <2>1, <2>3, <3>3, <3>4 DEF SoundWatch, StatusOf
    <3>6. watch' = [watch EXCEPT ![v] = w]
      BY <2>5 DEF Poll
    <3> HIDE DEF w
    <3> QED
      BY <2>4, <3>5, <3>6
  <2>6. CASE GiveUp(v)
    <3> DEFINE w == [watch[v] EXCEPT !.shown = "timeout", !.open = FALSE]
    <3>1. w \in Watch /\ w.job = watch[v].job /\ w.shown = "timeout"
      BY <2>2 DEF Watch
    <3>2. SoundWatch(w, jobs')
      BY <2>1, <2>3, <3>1 DEF SoundWatch, Ended, JobIds
    <3>3. watch' = [watch EXCEPT ![v] = w]
      BY <2>6 DEF GiveUp
    <3> HIDE DEF w
    <3> QED
      BY <2>4, <3>2, <3>3
  <2>7. CASE Break(v)
    <3>1. PICK withError \in BOOLEAN : watch' = [watch EXCEPT ![v] = BrokenOff(v, withError)]
      BY <2>7 DEF Break
    <3> QED
      BY <2>1, <2>4, <3>1, CutOffIsSound
  <2> QED
    BY <1>6, <2>5, <2>6, <2>7 DEF Socket
<1>7. CASE Admin
  BY <1>2, <1>7 DEF Admin, CreateByHand, DeleteApplication, DeletePosting, AskEmails,
      AskedEnds, easyVars
<1>8. CASE Restart
  <2>1. PICK errors \in SUBSET Viewers :
          watch' = [v \in Viewers |-> BrokenOff(v, v \in errors)]
    BY <1>8 DEF Restart, BreakAll
  <2>2. UNCHANGED jobs
    BY <1>8 DEF Restart, KillAll
  <2>3. ASSUME NEW v \in Viewers
        PROVE  SoundWatch(watch'[v], jobs')
    <3>1. watch'[v] = BrokenOff(v, v \in errors)
      BY <2>1
    <3>2. CASE v \in errors
      <4>1. SoundWatch(BrokenOff(v, TRUE), jobs)
        BY CutOffIsSound
      <4>2. watch'[v] = BrokenOff(v, TRUE)
        BY <3>1, <3>2 DEF BrokenOff
      <4> QED
        BY <2>2, <4>1, <4>2
    <3>3. CASE v \notin errors
      <4>1. SoundWatch(BrokenOff(v, FALSE), jobs)
        BY CutOffIsSound
      <4>2. watch'[v] = BrokenOff(v, FALSE)
        BY <3>1, <3>3 DEF BrokenOff
      <4> QED
        BY <2>2, <4>1, <4>2
    <3> QED
      BY <3>2, <3>3
  <2>4. watch' = [v \in Viewers |-> watch'[v]]
    BY <2>1
  <2> QED
    BY <1>1, <2>3, <2>4, WatchStays
<1>9. CASE UNCHANGED vars
  BY <1>2, <1>9 DEF vars
<1> QED
  BY <1>2, <1>3, <1>4, <1>5, <1>6, <1>7, <1>8, <1>9 DEF Next

-----------------------------------------------------------------------------
(***************************************************************************)
(* The tables are well typed.                                              *)
(***************************************************************************)

\* The tables and the caches, without the jobs, the hooks and the modals.
TablesTypeOK ==
    /\ posted \subseteq Postings
    /\ apps \in [Applications -> App \union {NoApp, DeletedApp}]
    /\ tailored \subseteq Applications
    /\ draft \in [Applications -> Text \union {NoText}]
    /\ emails \in [Tabs -> [app: Applications \union {0}, text: Text \union {NoText}]]
    /\ twice \subseteq Postings
    /\ seen \subseteq Text
    /\ overtaken \subseteq Tabs
    /\ bare \subseteq JobIds

\* What a user may save is a text.
LEMMA ReviewedIsText ==
    ASSUME ModalsAreSound, NEW t \in Tabs, At(t, "reviewing")
    PROVE  Reviewed(t) \subseteq Text
<1>1. tab[t] \in SoundModal
  BY OpenModal DEF At
<1>2. tab[t].text \in Text
  BY <1>1 DEF SoundModal, Modal, At
<1> QED
  BY <1>2 DEF Reviewed, Text

LEMMA TablesStep ==
    ASSUME TablesTypeOK, ModalsAreSound, [Next]_vars
    PROVE  TablesTypeOK'
<1> USE DEF TablesTypeOK
<1>1. ASSUME NEW t \in Tabs, Request(t)
      PROVE  TablesTypeOK'
  <2>1. ASSUME NEW a \in Applications, CreateApp(t, a)
        PROVE  TablesTypeOK'
    BY <2>1 DEF CreateApp, App
  <2>2. CASE InsertCv(t)
    <3>1. tab[t].app \in Applications
      BY <2>2, OpenModal DEF InsertCv, At
    <3> QED
      BY <2>2, <3>1 DEF InsertCv
  <2>3. CASE LaunchEmail(t)
    <3>1. tab[t].app \in Applications
      BY <2>3, OpenModal DEF LaunchEmail, At
    <3>2. emails' \in [Tabs -> [app: Applications \union {0}, text: Text \union {NoText}]]
      BY <2>3, <3>1 DEF LaunchEmail
    <3> QED
      BY <2>3, <3>2 DEF LaunchEmail
  <2> QED
    BY <1>1, <2>1, <2>2, <2>3 DEF Request, Refused, SpawnCv, SpawnEmail, LaunchCv, SpawnRaises
<1>2. ASSUME NEW t \in Tabs, Show(t)
      PROVE  TablesTypeOK'
  <2>1. CASE FetchEmails(t)
    <3>1. tab[t].app \in Applications
      BY <2>1, OpenModal DEF FetchEmails, SoundModal
    <3>2. emails' \in [Tabs -> [app: Applications \union {0}, text: Text \union {NoText}]]
      BY <2>1, <3>1 DEF FetchEmails
    <3> QED
      BY <2>1, <3>2 DEF FetchEmails
  <2> QED
    BY <1>2, <2>1 DEF Show, Review, ShowError
<1>3. ASSUME NEW t \in Tabs, User(t)
      PROVE  TablesTypeOK'
  <2>1. ASSUME NEW p \in Postings, Ask(t, p)
        PROVE  TablesTypeOK'
    BY <2>1 DEF Ask
  <2>2. ASSUME NEW text \in Text, Save(t, text)
        PROVE  TablesTypeOK'
    BY <2>2 DEF Save
  <2>3. CASE Close(t)
    <3>1. draft' \in [Applications -> Text \union {NoText}] /\ seen' \subseteq Text
      BY <2>3, ReviewedIsText DEF Close
    <3>2. emails' \in [Tabs -> [app: Applications \union {0}, text: Text \union {NoText}]]
      BY <2>3 DEF Close
    <3> QED
      BY <2>3, <3>1, <3>2 DEF Close
  <2> QED
    BY <1>3, <2>1, <2>2, <2>3 DEF User, Send, SendFails, Reconnect
<1>4. ASSUME NEW j \in JobIds, Skill(j)
      PROVE  TablesTypeOK'
  <2>1. CASE CompleteEmails(j)
    <3>1. <<"skill", j>> \in Text
      BY DEF Text
    <3> QED
      BY <2>1, <3>1 DEF CompleteEmails
  <2> QED
    BY <1>4, <2>1 DEF Skill, CompleteCv, SkillElse, easyVars
<1>5. ASSUME NEW v \in Viewers, Socket(v)
      PROVE  TablesTypeOK'
  BY <1>5 DEF Socket, easyVars
<1>6. CASE Admin
  BY <1>6 DEF Admin, CreateByHand, DeleteApplication, DeletePosting, AskEmails,
      AskedEnds, easyVars, App
<1>7. CASE Restart
  BY <1>7 DEF Restart
<1>8. CASE UNCHANGED vars
  BY <1>8 DEF vars
<1> QED
  BY <1>1, <1>2, <1>3, <1>4, <1>5, <1>6, <1>7, <1>8 DEF Next

-----------------------------------------------------------------------------
(***************************************************************************)
(* Requests hold their rows, and jobs their application.                   *)
(***************************************************************************)

LEMMA RowsStay ==
    ASSUME JobsTypeOK, RequestsHoldTheirRows, [JobsNext]_jobVars, tailored \subseteq tailored',
           \A u \in Tabs : tab'[u] = tab[u] \/ HoldsItsRows(tab'[u], jobs', tailored')
    PROVE  RequestsHoldTheirRows'
  BY JobsKeepTheirRef DEF RequestsHoldTheirRows, HoldsItsRows

\* A row that appears is that of an insert.
LEMMA RowsAreInserted ==
    ASSUME JobsTypeOK, JobsTypeOK', NEW j \in JobIds, jobs[j] = NoJob,
           \/ KillAll \/ UNCHANGED jobVars
           \/ \E k \in JobIds : \/ Launch(k) \/ LaunchFails(k)
                                \/ CompleteOk(k) \/ CompleteFailed(k) \/ Exit(k)
                                \/ \E pct \in Progress : PutProgress(k, pct)
    PROVE  jobs'[j] = NoJob
<1>1. procs[j] = "none"
  BY DEF JobsTypeOK
<1>2. procs'[j] = "none"
  BY <1>1 DEF JobsTypeOK, KillAll, jobVars, Launch, LaunchFails, CompleteOk, CompleteFailed, Exit,
              PutProgress
<1> QED
  BY <1>2 DEF JobsTypeOK

LEMMA TailoredGrow ==
    ASSUME [Next]_vars
    PROVE  tailored \subseteq tailored'
<1>1. ASSUME NEW t \in Tabs, Request(t) \/ Show(t)
      PROVE  tailored \subseteq tailored'
  BY <1>1 DEF Request, CreateApp, Refused, InsertCv, SpawnCv, SpawnEmail, LaunchCv, LaunchEmail,
              SpawnRaises, Show, FetchEmails, Review, ShowError
<1>2. ASSUME NEW t \in Tabs, User(t)
      PROVE  UNCHANGED tailored
  BY <1>2 DEF User, Ask, Save, Send, SendFails, Close, Reconnect
<1>3. ASSUME NEW j \in JobIds, Skill(j)
      PROVE  UNCHANGED tailored
  BY <1>3 DEF Skill, CompleteCv, CompleteEmails, SkillElse, easyVars
<1>4. ASSUME NEW v \in Viewers, Socket(v)
      PROVE  UNCHANGED tailored
  BY <1>4 DEF Socket, easyVars
<1>5. CASE Admin \/ Restart \/ UNCHANGED vars
  BY <1>5 DEF Admin, CreateByHand, DeleteApplication, DeletePosting, AskEmails,
      AskedEnds, easyVars, Restart, vars
<1> QED
  BY <1>1, <1>2, <1>3, <1>4, <1>5 DEF Next

\* Of the steps that touch a modal only those of its request leave it with rows to hold.
LEMMA RowsStep ==
    ASSUME JobsTypeOK, ModalsAreSound, RequestsHoldTheirRows, [Next]_vars
    PROVE  RequestsHoldTheirRows'
<1>1. [JobsNext]_jobVars /\ tailored \subseteq tailored'
  BY EasyStepIsJobsStep, TailoredGrow
<1>2. ASSUME UNCHANGED tab
      PROVE  RequestsHoldTheirRows'
  BY <1>1, <1>2, RowsStay
<1>3. ASSUME NEW t \in Tabs, NEW m, tab' = [tab EXCEPT ![t] = m],
             HoldsItsRows(m, jobs', tailored')
      PROVE  RequestsHoldTheirRows'
  BY <1>1, <1>3, RowsStay DEF ModalsAreSound
<1>4. ASSUME NEW t \in Tabs, NEW m, tab' = [tab EXCEPT ![t] = m],
             m.pc \notin {"spawn_cv", "launch_cv", "spawn_email", "launch_email",
                          "answered", "reviewing"}
      PROVE  RequestsHoldTheirRows'
  BY <1>3, <1>4 DEF HoldsItsRows
<1>5. ASSUME NEW t \in Tabs, Fails(t)
      PROVE  RequestsHoldTheirRows'
  BY <1>4, <1>5 DEF Fails, Asking
<1>6. ASSUME NEW t \in Tabs, Request(t)
      PROVE  RequestsHoldTheirRows'
  <2>1. tab[t] \in Modal
    BY <1>6, OpenModal DEF Request, CreateApp, Refused, InsertCv, SpawnCv, SpawnEmail, LaunchCv,
                           LaunchEmail, SpawnRaises, At, SoundModal
  <2>2. HoldsItsRows(tab[t], jobs, tailored)
    BY DEF RequestsHoldTheirRows
  <2>3. \A j \in JobIds : jobs[j] # NoJob => jobs'[j] # NoJob
    BY <1>1, JobsKeepTheirRef
  <2>4. ASSUME NEW a \in Applications, CreateApp(t, a), ~Fails(t)
        PROVE  RequestsHoldTheirRows'
    <3>1. tab' = [tab EXCEPT ![t] = [tab[t] EXCEPT !.pc = "cv", !.app = a]]
      BY <2>4 DEF CreateApp
    <3> QED
      BY <1>4, <2>1, <3>1 DEF Modal
  <2>5. CASE InsertCv(t) /\ ~Fails(t)
    <3> DEFINE m == [tab[t] EXCEPT !.pc = "spawn_cv"]
    <3>1. tab' = [tab EXCEPT ![t] = m] /\ tab[t].app \in tailored'
      BY <2>5 DEF InsertCv
    <3>2. m.pc = "spawn_cv" /\ m.app = tab[t].app
      BY <2>1 DEF Modal
    <3> HIDE DEF m
    <3> QED
      BY <1>3, <3>1, <3>2 DEF HoldsItsRows
  <2>6. ASSUME NEW j \in JobIds, SpawnCv(t, j)
        PROVE  RequestsHoldTheirRows'
    <3> DEFINE m == [tab[t] EXCEPT !.pc = "launch_cv", !.cv = j]
    <3>1. tab' = [tab EXCEPT ![t] = m] /\ jobs'[j] # NoJob
      BY <2>6 DEF SpawnCv, InsertJob, NoJob, JobsTypeOK
    <3>2. tab[t].app \in tailored'
      BY <1>1, <2>2, <2>6 DEF SpawnCv, At, HoldsItsRows
    <3>3. m.pc = "launch_cv" /\ m.cv = j /\ m.app = tab[t].app
      BY <2>1 DEF Modal
    <3> HIDE DEF m
    <3> QED
      BY <1>3, <3>1, <3>2, <3>3 DEF HoldsItsRows
  <2>7. CASE LaunchCv(t)
    <3> DEFINE m == [tab[t] EXCEPT !.pc = "spawn_email"]
    <3>1. tab' = [tab EXCEPT ![t] = m] /\ At(t, "launch_cv")
      BY <2>7 DEF LaunchCv
    <3>2. /\ tab[t].app \in tailored'
          /\ tab[t].cv \in JobIds /\ jobs'[tab[t].cv] # NoJob
      BY <1>1, <2>2, <2>3, <3>1 DEF At, HoldsItsRows
    <3>3. m.pc = "spawn_email" /\ m.cv = tab[t].cv /\ m.app = tab[t].app
      BY <2>1 DEF Modal
    <3> HIDE DEF m
    <3> QED
      BY <1>3, <3>1, <3>2, <3>3 DEF HoldsItsRows
  <2>8. ASSUME NEW j \in JobIds, SpawnEmail(t, j)
        PROVE  RequestsHoldTheirRows'
    <3> DEFINE m == [tab[t] EXCEPT !.pc = "launch_email", !.email = j]
    <3>1. tab' = [tab EXCEPT ![t] = m] /\ At(t, "spawn_email") /\ jobs'[j] # NoJob
      BY <2>8 DEF SpawnEmail, InsertJob, NoJob, JobsTypeOK
    <3>2. /\ tab[t].app \in tailored'
          /\ tab[t].cv \in JobIds /\ jobs'[tab[t].cv] # NoJob
      BY <1>1, <2>2, <2>3, <3>1 DEF At, HoldsItsRows
    <3>3. m.pc = "launch_email" /\ m.email = j /\ m.cv = tab[t].cv /\ m.app = tab[t].app
      BY <2>1 DEF Modal
    <3> HIDE DEF m
    <3> QED
      BY <1>3, <3>1, <3>2, <3>3 DEF HoldsItsRows
  <2>9. CASE LaunchEmail(t)
    <3>1. PICK due \in BOOLEAN :
            tab' = [tab EXCEPT ![t] = [tab[t] EXCEPT !.pc = "answered", !.due = due]]
      BY <2>9 DEF LaunchEmail
    <3> DEFINE m == [tab[t] EXCEPT !.pc = "answered", !.due = due]
    <3>2. m.pc = "answered" /\ m.app = tab[t].app
      BY <2>1 DEF Modal
    <3>3. tab[t].app \in tailored'
      BY <1>1, <2>2, <2>9 DEF LaunchEmail, At, HoldsItsRows
    <3>4. tab' = [tab EXCEPT ![t] = m]
      BY <3>1
    <3> HIDE DEF m
    <3> QED
      BY <1>3, <3>2, <3>3, <3>4 DEF HoldsItsRows
  <2> QED
    BY <1>5, <1>6, <2>4, <2>5, <2>6, <2>7, <2>8, <2>9 DEF Request, Refused, SpawnRaises
<1>7. ASSUME NEW t \in Tabs, Show(t)
      PROVE  RequestsHoldTheirRows'
  <2>1. CASE FetchEmails(t)
    <3> DEFINE m == [tab[t] EXCEPT !.due = FALSE]
    <3>1. tab' = [tab EXCEPT ![t] = m] /\ UNCHANGED <<jobs, tailored>>
      BY <2>1 DEF FetchEmails
    <3>2. tab[t] \in Modal
      BY <2>1, OpenModal DEF FetchEmails, SoundModal
    <3>3. m.pc = tab[t].pc /\ m.cv = tab[t].cv /\ m.email = tab[t].email /\ m.app = tab[t].app
      BY <3>2 DEF Modal
    <3> HIDE DEF m
    <3> QED
      BY <1>3, <3>1, <3>3 DEF HoldsItsRows, RequestsHoldTheirRows
  <2>2. CASE Review(t)
    <3> DEFINE m == [tab[t] EXCEPT !.pc = "reviewing", !.text = emails[t].text]
    <3>1. tab' = [tab EXCEPT ![t] = m] /\ At(t, "answered") /\ UNCHANGED tailored
      BY <2>2 DEF Review
    <3>2. tab[t] \in Modal
      BY <2>2, OpenModal DEF Review, At, SoundModal
    <3>3. m.pc = "reviewing" /\ m.app = tab[t].app
      BY <3>2 DEF Modal
    <3>4. tab[t].app \in tailored'
      BY <3>1 DEF At, HoldsItsRows, RequestsHoldTheirRows
    <3> HIDE DEF m
    <3> QED
      BY <1>3, <3>1, <3>3, <3>4 DEF HoldsItsRows
  <2>3. CASE ShowError(t)
    <3>1. tab' = [tab EXCEPT ![t] = [tab[t] EXCEPT !.pc = "error"]]
      BY <2>3 DEF ShowError
    <3>2. tab[t] \in Modal
      BY <2>3, OpenModal DEF ShowError, At, SoundModal
    <3> QED
      BY <1>4, <3>1, <3>2 DEF Modal
  <2> QED
    BY <1>7, <2>1, <2>2, <2>3 DEF Show
<1>8. ASSUME NEW t \in Tabs, User(t)
      PROVE  RequestsHoldTheirRows'
  <2>1. ASSUME NEW p \in Postings, Ask(t, p)
        PROVE  RequestsHoldTheirRows'
    <3>1. PICK pc \in {"create", "cv", "error"}, a \in Applications \union {0} :
             tab' = [tab EXCEPT ![t] = Asking(p, pc, a)]
      BY <2>1 DEF Ask, Found, Of
    <3> QED
      BY <1>4, <3>1 DEF Asking
  <2>2. CASE Close(t)
    BY <1>4, <2>2 DEF Close, Closed
  <2>4. ASSUME NEW text \in Text, Save(t, text)
        PROVE  RequestsHoldTheirRows'
    <3>1. tab' = [tab EXCEPT ![t] = [tab[t] EXCEPT !.pc = "saved"]]
      BY <2>4 DEF Save
    <3>2. tab[t] \in Modal
      BY <2>4, OpenModal DEF Save, At, SoundModal
    <3> QED
      BY <1>4, <3>1, <3>2 DEF Modal
  <2>5. CASE Send(t)
    <3>1. tab' = [tab EXCEPT ![t] = [tab[t] EXCEPT !.pc = "sent", !.text = draft[tab[t].app]]]
      BY <2>5 DEF Send
    <3>2. tab[t] \in Modal
      BY <2>5, OpenModal DEF Send, At, SoundModal
    <3> QED
      BY <1>4, <3>1, <3>2 DEF Modal
  <2>6. CASE SendFails(t)
    <3>1. tab' = [tab EXCEPT ![t] = [tab[t] EXCEPT !.pc = "error"]]
      BY <2>6 DEF SendFails
    <3>2. tab[t] \in Modal
      BY <2>6, OpenModal DEF SendFails, At, SoundModal
    <3> QED
      BY <1>4, <3>1, <3>2 DEF Modal
  <2>7. CASE Reconnect(t)
    <3> DEFINE m == [tab[t] EXCEPT !.due = TRUE]
    <3>1. tab' = [tab EXCEPT ![t] = m] /\ At(t, "answered") /\ UNCHANGED tailored
      BY <2>7 DEF Reconnect
    <3>2. tab[t] \in Modal
      BY <2>7, OpenModal DEF Reconnect, At, SoundModal
    <3>3. m.pc = "answered" /\ m.app = tab[t].app
      BY <3>1, <3>2 DEF Modal, At
    <3>4. tab[t].app \in tailored'
      BY <3>1 DEF At, HoldsItsRows, RequestsHoldTheirRows
    <3> HIDE DEF m
    <3> QED
      BY <1>3, <3>1, <3>3, <3>4 DEF HoldsItsRows
  <2> QED
    BY <1>8, <2>1, <2>2, <2>4, <2>5, <2>6, <2>7 DEF User
<1>9. ASSUME NEW j \in JobIds, Skill(j)
      PROVE  UNCHANGED tab
  BY <1>9 DEF Skill, CompleteCv, CompleteEmails, SkillElse, easyVars
<1>10. ASSUME NEW v \in Viewers, Socket(v)
       PROVE  UNCHANGED tab
  BY <1>10 DEF Socket, easyVars
<1>11. CASE Admin \/ UNCHANGED vars
  BY <1>2, <1>11 DEF Admin, CreateByHand, DeleteApplication, DeletePosting, AskEmails,
      AskedEnds, easyVars, vars
<1>12. CASE Restart
  <2>1. ASSUME NEW t \in Tabs
        PROVE  tab'[t] = tab[t] \/ tab'[t].pc = "error"
    <3>1. CASE tab[t].pc \in InRequest
      BY <1>12, <3>1 DEF Restart, Asking
    <3>2. CASE At(t, "saved")
      BY <1>12, <3>2, OpenModal DEF Restart, At, InRequest, SoundModal, Modal
    <3>3. CASE tab[t].pc \notin InRequest /\ ~At(t, "saved")
      BY <1>12, <3>3 DEF Restart
    <3> QED
      BY <3>1, <3>2, <3>3
  <2> QED
    BY <1>1, <2>1, RowsStay DEF HoldsItsRows
<1> QED
  BY <1>2, <1>6, <1>7, <1>8, <1>9, <1>10, <1>11, <1>12 DEF Next

-----------------------------------------------------------------------------
(***************************************************************************)
(* What becomes of a modal and of the applications in one step.            *)
(***************************************************************************)

KeepsPlace(u) ==
    /\ tab'[u].pc = tab[u].pc
    /\ tab'[u].posting = tab[u].posting
    /\ tab'[u].app = tab[u].app
    /\ tab'[u].text = tab[u].text

\* A modal comes to create, saved and sent by Ask, Save and Send alone.
LEMMA PlacesAreReached ==
    ASSUME ModalsAreSound, [Next]_vars, NEW u \in Tabs,
           tab'[u].pc \in {"create", "saved", "sent"}
    PROVE  \/ KeepsPlace(u)
           \/ \E p \in Postings : Ask(u, p)
           \/ \E text \in Text : Save(u, text)
           \/ Send(u)
<1> USE DEF KeepsPlace
<1>1. ASSUME UNCHANGED tab
      PROVE  KeepsPlace(u)
  BY <1>1
<1>2. ASSUME NEW t \in Tabs, NEW m, tab' = [tab EXCEPT ![t] = m],
             m.pc \notin {"create", "saved", "sent"}
      PROVE  KeepsPlace(u)
  BY <1>2 DEF ModalsAreSound
<1>3. ASSUME NEW t \in Tabs, Fails(t)
      PROVE  KeepsPlace(u)
  BY <1>2, <1>3 DEF Fails, Asking
<1>4. ASSUME NEW t \in Tabs, Request(t)
      PROVE  KeepsPlace(u)
  <2>1. tab[t] \in Modal
    BY <1>4, OpenModal DEF Request, CreateApp, Refused, InsertCv, SpawnCv, SpawnEmail, LaunchCv,
                           LaunchEmail, SpawnRaises, At, SoundModal
  <2>2. ASSUME NEW a \in Applications, CreateApp(t, a), ~Fails(t)
        PROVE  KeepsPlace(u)
    <3>1. tab' = [tab EXCEPT ![t] = [tab[t] EXCEPT !.pc = "cv", !.app = a]]
      BY <2>2 DEF CreateApp
    <3> QED
      BY <1>2, <2>1, <3>1 DEF Modal
  <2>3. CASE InsertCv(t) /\ ~Fails(t)
    <3>1. tab' = [tab EXCEPT ![t] = [tab[t] EXCEPT !.pc = "spawn_cv"]]
      BY <2>3 DEF InsertCv
    <3> QED
      BY <1>2, <2>1, <3>1 DEF Modal
  <2>4. ASSUME NEW j \in JobIds, SpawnCv(t, j)
        PROVE  KeepsPlace(u)
    <3>1. tab' = [tab EXCEPT ![t] = [tab[t] EXCEPT !.pc = "launch_cv", !.cv = j]]
      BY <2>4 DEF SpawnCv
    <3> QED
      BY <1>2, <2>1, <3>1 DEF Modal
  <2>5. CASE LaunchCv(t)
    <3>1. tab' = [tab EXCEPT ![t] = [tab[t] EXCEPT !.pc = "spawn_email"]]
      BY <2>5 DEF LaunchCv
    <3> QED
      BY <1>2, <2>1, <3>1 DEF Modal
  <2>6. ASSUME NEW j \in JobIds, SpawnEmail(t, j)
        PROVE  KeepsPlace(u)
    <3>1. tab' = [tab EXCEPT ![t] = [tab[t] EXCEPT !.pc = "launch_email", !.email = j]]
      BY <2>6 DEF SpawnEmail
    <3> QED
      BY <1>2, <2>1, <3>1 DEF Modal
  <2>7. CASE LaunchEmail(t)
    <3>1. PICK due \in BOOLEAN :
            tab' = [tab EXCEPT ![t] = [tab[t] EXCEPT !.pc = "answered", !.due = due]]
      BY <2>7 DEF LaunchEmail
    <3> QED
      BY <1>2, <2>1, <3>1 DEF Modal
  <2> QED
    BY <1>3, <1>4, <2>2, <2>3, <2>4, <2>5, <2>6, <2>7 DEF Request, Refused, SpawnRaises
<1>5. ASSUME NEW t \in Tabs, Show(t)
      PROVE  KeepsPlace(u)
  <2>1. CASE FetchEmails(t)
    <3>1. tab' = [tab EXCEPT ![t] = [tab[t] EXCEPT !.due = FALSE]]
      BY <2>1 DEF FetchEmails
    <3>2. tab[t] \in Modal
      BY <2>1, OpenModal DEF FetchEmails, SoundModal
    <3> QED
      BY <3>1, <3>2 DEF Modal, ModalsAreSound
  <2>2. CASE Review(t)
    <3>1. tab' = [tab EXCEPT ![t] = [tab[t] EXCEPT !.pc = "reviewing", !.text = emails[t].text]]
      BY <2>2 DEF Review
    <3>2. tab[t] \in Modal
      BY <2>2, OpenModal DEF Review, At, SoundModal
    <3> QED
      BY <1>2, <3>1, <3>2 DEF Modal
  <2>3. CASE ShowError(t)
    <3>1. tab' = [tab EXCEPT ![t] = [tab[t] EXCEPT !.pc = "error"]]
      BY <2>3 DEF ShowError
    <3>2. tab[t] \in Modal
      BY <2>3, OpenModal DEF ShowError, At, SoundModal
    <3> QED
      BY <1>2, <3>1, <3>2 DEF Modal
  <2> QED
    BY <1>5, <2>1, <2>2, <2>3 DEF Show
<1>6. ASSUME NEW t \in Tabs, User(t)
      PROVE  \/ KeepsPlace(u)
             \/ \E p \in Postings : Ask(u, p)
             \/ \E text \in Text : Save(u, text)
             \/ Send(u)
  <2>1. CASE /\ t # u
             /\ \/ \E p \in Postings : Ask(t, p)
                \/ \E text \in Text : Save(t, text)
                \/ Send(t)
    <3>1. tab'[u] = tab[u]
      BY <2>1 DEF Ask, Save, Send, ModalsAreSound
    <3> QED
      BY <3>1
  <2>2. CASE Close(t)
    BY <1>2, <2>2 DEF Close, Closed
  <2>3. CASE SendFails(t)
    <3>1. tab' = [tab EXCEPT ![t] = [tab[t] EXCEPT !.pc = "error"]]
      BY <2>3 DEF SendFails
    <3>2. tab[t] \in Modal
      BY <2>3, OpenModal DEF SendFails, At, SoundModal
    <3> QED
      BY <1>2, <3>1, <3>2 DEF Modal
  <2>4. CASE Reconnect(t)
    <3>1. tab' = [tab EXCEPT ![t] = [tab[t] EXCEPT !.due = TRUE]] /\ tab[t].pc = "answered"
      BY <2>4 DEF Reconnect, At
    <3>2. tab[t] \in Modal
      BY <2>4, OpenModal DEF Reconnect, At, SoundModal
    <3> QED
      BY <1>2, <3>1, <3>2 DEF Modal
  <2> QED
    BY <1>6, <2>1, <2>2, <2>3, <2>4 DEF User
<1>7. ASSUME NEW j \in JobIds, Skill(j)
      PROVE  UNCHANGED tab
  BY <1>7 DEF Skill, CompleteCv, CompleteEmails, SkillElse, easyVars
<1>8. ASSUME NEW v \in Viewers, Socket(v)
      PROVE  UNCHANGED tab
  BY <1>8 DEF Socket, easyVars
<1>9. CASE Admin \/ UNCHANGED vars
  BY <1>1, <1>9 DEF Admin, CreateByHand, DeleteApplication, DeletePosting, AskEmails,
      AskedEnds, easyVars, vars
<1>10. CASE Restart
  <2>1. CASE tab[u].pc \in InRequest
    BY <1>10, <2>1 DEF Restart, Asking
  <2>2. CASE At(u, "saved")
    BY <1>10, <2>2, OpenModal DEF Restart, At, InRequest, SoundModal, Modal
  <2>3. CASE tab[u].pc \notin InRequest /\ ~At(u, "saved")
    BY <1>10, <2>3 DEF Restart
  <2> QED
    BY <2>1, <2>2, <2>3
<1> QED
  BY <1>1, <1>4, <1>5, <1>6, <1>7, <1>8, <1>9, <1>10 DEF Next

\* The one application that a step may create.
LEMMA CreatedIsOf ==
    ASSUME TablesTypeOK, NEW a \in Applications, NEW p \in Postings, NextRow(apps, a),
           apps' = [apps EXCEPT ![a] = [status |-> "live", posting |-> p]]
    PROVE  /\ \A q \in Postings \ {p} : Of(q)' = Of(q)
           /\ Of(p)' = Of(p) \union {a}
           /\ \A b \in Applications : Live(b) => Live(b)'
  BY DEF TablesTypeOK, Of, Live, NextRow

LEMMA DeletedIsOfNone ==
    ASSUME TablesTypeOK, NEW a \in Applications, apps' = [apps EXCEPT ![a] = DeletedApp]
    PROVE  /\ \A q \in Postings : Of(q)' = Of(q) \ {a}
           /\ \A b \in Applications \ {a} : Live(b)' = Live(b)
  BY DEF TablesTypeOK, Of, Live, DeletedApp

\* Every step creates one application, deletes one that has no CV, or does neither.
LEMMA AppsMove ==
    ASSUME ModalsAreSound, [Next]_vars
    PROVE  \/ UNCHANGED apps
           \/ \E t \in Tabs, a \in Applications :
                 /\ CreateApp(t, a)
                 /\ tab[t].posting \in Postings
                 /\ apps' = [apps EXCEPT ![a] = [status |-> "live", posting |-> tab[t].posting]]
           \/ \E a \in Applications, p \in Postings : CreateByHand(a, p)
           \/ \E a \in Applications : DeleteApplication(a)
<1>1. ASSUME NEW t \in Tabs, NEW a \in Applications, CreateApp(t, a), ~UNCHANGED apps
      PROVE  /\ tab[t].posting \in Postings
             /\ apps' = [apps EXCEPT ![a] = [status |-> "live", posting |-> tab[t].posting]]
  BY <1>1, OpenModal DEF CreateApp, At, SoundModal, Modal
<1>2. ASSUME NEW t \in Tabs, Request(t), ~\E a \in Applications : CreateApp(t, a)
      PROVE  UNCHANGED apps
  BY <1>2 DEF Request, Refused, InsertCv, SpawnCv, SpawnEmail, LaunchCv, LaunchEmail, SpawnRaises
<1>3. ASSUME NEW t \in Tabs, Show(t) \/ User(t)
      PROVE  UNCHANGED apps
  BY <1>3 DEF Show, FetchEmails, Review, ShowError, User, Ask, Save, Send, SendFails, Close,
              Reconnect
<1>4. ASSUME NEW j \in JobIds, Skill(j)
      PROVE  UNCHANGED apps
  BY <1>4 DEF Skill, CompleteCv, CompleteEmails, SkillElse, easyVars
<1>5. ASSUME NEW v \in Viewers, Socket(v)
      PROVE  UNCHANGED apps
  BY <1>5 DEF Socket, easyVars
<1>6. CASE Restart \/ UNCHANGED vars
  BY <1>6 DEF Restart, vars
<1>7. ASSUME NEW p \in Postings, DeletePosting(p)
      PROVE  UNCHANGED apps
  BY <1>7 DEF DeletePosting
<1>8. ASSUME NEW j \in JobIds, NEW a \in Applications, AskEmails(a, j)
      PROVE  UNCHANGED apps
  BY <1>8 DEF AskEmails
<1>9. ASSUME NEW j \in JobIds, AskedEnds(j)
      PROVE  UNCHANGED apps
  BY <1>9 DEF AskedEnds, easyVars
<1> QED
  BY <1>1, <1>2, <1>3, <1>4, <1>5, <1>6, <1>7, <1>8, <1>9 DEF Next, Admin

-----------------------------------------------------------------------------
(***************************************************************************)
(* Applications with a CV or a draft stay, and jobs are for such.          *)
(***************************************************************************)

\* Drafts are written by completions, and by users whose application has its CV.
LEMMA WrittenIsLive ==
    ASSUME TablesTypeOK, ModalsAreSound, RequestsHoldTheirRows, HeldStay, [Next]_vars,
           NEW a \in Applications, draft'[a] # draft[a]
    PROVE  Live(a) /\ draft'[a] # NoText
<1>1. ASSUME NEW t \in Tabs, User(t)
      PROVE  Live(a) /\ draft'[a] # NoText
  <2>1. PICK text : At(t, "reviewing") /\ text \in Reviewed(t)
                    /\ draft' = [draft EXCEPT ![tab[t].app] = text]
    BY <1>1 DEF User, Ask, Save, Send, SendFails, Close, Reconnect
  <2>2. text \in Text
    BY <2>1, ReviewedIsText
  <2>3. text # NoText
    BY <2>2 DEF Text, NoText
  <2>4. a = tab[t].app /\ a \in tailored
    BY <2>1 DEF TablesTypeOK, RequestsHoldTheirRows, HoldsItsRows, At
  <2> QED
    BY <2>1, <2>3, <2>4 DEF TablesTypeOK, HeldStay, Held
<1>2. ASSUME NEW j \in JobIds, CompleteEmails(j)
      PROVE  Live(a) /\ draft'[a] # NoText
  <2>1. draft' = [draft EXCEPT ![jobs[j].ref] = <<"skill", j>>] /\ Live(jobs[j].ref)
    BY <1>2 DEF CompleteEmails
  <2>2. a = jobs[j].ref
    BY <2>1 DEF TablesTypeOK
  <2> QED
    BY <2>1, <2>2 DEF TablesTypeOK, NoText
<1>3. ASSUME NEW t \in Tabs, Request(t) \/ Show(t)
      PROVE  UNCHANGED draft
  BY <1>3 DEF Request, CreateApp, Refused, InsertCv, SpawnCv, SpawnEmail, LaunchCv, LaunchEmail,
              SpawnRaises, Show, FetchEmails, Review, ShowError
<1>4. ASSUME NEW j \in JobIds, Skill(j), ~CompleteEmails(j)
      PROVE  UNCHANGED draft
  BY <1>4 DEF Skill, CompleteCv, SkillElse, easyVars
<1>5. ASSUME NEW v \in Viewers, Socket(v)
      PROVE  UNCHANGED draft
  BY <1>5 DEF Socket, easyVars
<1>6. Admin \/ Restart \/ UNCHANGED vars => UNCHANGED draft
  BY DEF Admin, CreateByHand, DeleteApplication, DeletePosting, AskEmails, AskedEnds, easyVars,
         Restart, vars
<1> QED
  BY <1>1, <1>2, <1>3, <1>4, <1>5, <1>6 DEF Next

\* The pending CV is inserted for an application that is there.
LEMMA TailoredIsLive ==
    ASSUME [Next]_vars, NEW a \in tailored', a \notin tailored
    PROVE  Live(a)
<1>1. ASSUME NEW t \in Tabs, Request(t)
      PROVE  Live(a)
  BY <1>1 DEF Request, CreateApp, Refused, InsertCv, SpawnCv, SpawnEmail, LaunchCv,
              LaunchEmail, SpawnRaises
<1>2. ASSUME NEW t \in Tabs, Show(t) \/ User(t)
      PROVE  UNCHANGED tailored
  BY <1>2 DEF Show, FetchEmails, Review, ShowError, User, Ask, Save, Send, SendFails, Close,
              Reconnect
<1>3. ASSUME NEW j \in JobIds, Skill(j)
      PROVE  UNCHANGED tailored
  BY <1>3 DEF Skill, CompleteCv, CompleteEmails, SkillElse, easyVars
<1>4. ASSUME NEW v \in Viewers, Socket(v)
      PROVE  UNCHANGED tailored
  BY <1>4 DEF Socket, easyVars
<1>5. Admin \/ Restart \/ UNCHANGED vars => UNCHANGED tailored
  BY DEF Admin, CreateByHand, DeleteApplication, DeletePosting, AskEmails, AskedEnds, easyVars,
         Restart, vars
<1> QED
  BY <1>1, <1>2, <1>3, <1>4, <1>5 DEF Next

LEMMA HeldMove ==
    ASSUME TablesTypeOK, ModalsAreSound, RequestsHoldTheirRows, HeldStay, [Next]_vars,
           NEW a \in Applications
    PROVE  /\ Held(a) => Held(a)'
           /\ Held(a)' => Live(a)
  BY TailoredGrow, WrittenIsLive, TailoredIsLive DEF Held, HeldStay

LEMMA HeldStayStep ==
    ASSUME TablesTypeOK, ModalsAreSound, RequestsHoldTheirRows, HeldStay, [Next]_vars
    PROVE  HeldStay'
<1> SUFFICES ASSUME NEW a \in Applications, Held(a)'
             PROVE  Live(a)'
  BY DEF HeldStay
<1>1. Live(a)
  BY HeldMove
<1>2. CASE UNCHANGED apps
  BY <1>1, <1>2 DEF Live
<1>3. ASSUME NEW t \in Tabs, NEW b \in Applications, CreateApp(t, b),
             tab[t].posting \in Postings,
             apps' = [apps EXCEPT ![b] = [status |-> "live", posting |-> tab[t].posting]]
      PROVE  Live(a)'
  BY <1>1, <1>3, CreatedIsOf DEF CreateApp
<1>4. ASSUME NEW b \in Applications, NEW p \in Postings, CreateByHand(b, p)
      PROVE  Live(a)'
  BY <1>1, <1>4, CreatedIsOf DEF CreateByHand
<1>5. ASSUME NEW b \in Applications, DeleteApplication(b)
      PROVE  Live(a)'
  <2>1. a # b
    BY <1>5 DEF DeleteApplication, Held
  <2> QED
    BY <1>1, <1>5, <2>1, DeletedIsOfNone DEF DeleteApplication
<1> QED
  BY <1>2, <1>3, <1>4, <1>5, AppsMove

LEMMA BareGrows ==
    ASSUME [Next]_vars
    PROVE  bare \subseteq bare'
<1>1. ASSUME NEW t \in Tabs, Request(t) \/ Show(t)
      PROVE  UNCHANGED bare
  BY <1>1 DEF Request, CreateApp, Refused, InsertCv, SpawnCv, SpawnEmail, LaunchCv, LaunchEmail,
              SpawnRaises, Show, FetchEmails, Review, ShowError
<1>2. ASSUME NEW t \in Tabs, User(t)
      PROVE  UNCHANGED bare
  BY <1>2 DEF User, Ask, Save, Send, SendFails, Close, Reconnect
<1>3. ASSUME NEW j \in JobIds, Skill(j)
      PROVE  UNCHANGED bare
  BY <1>3 DEF Skill, CompleteCv, CompleteEmails, SkillElse, easyVars
<1>4. ASSUME NEW v \in Viewers, Socket(v)
      PROVE  UNCHANGED bare
  BY <1>4 DEF Socket, easyVars
<1>5. CASE Admin \/ Restart \/ UNCHANGED vars
  BY <1>5 DEF Admin, CreateByHand, DeleteApplication, DeletePosting, AskEmails, AskedEnds,
              easyVars, Restart, vars
<1> QED
  BY <1>1, <1>2, <1>3, <1>4, <1>5 DEF Next

LEMMA JobsAreHeldStep ==
    ASSUME JobsTypeOK, TablesTypeOK, ModalsAreSound, RequestsHoldTheirRows, HeldStay,
           JobsAreHeld, [Next]_vars
    PROVE  JobsAreHeld'
<1> DEFINE HeldThen(a) == a \in tailored' \/ draft'[a] # NoText
           Kept(j) == jobs'[j].ref \in Applications /\ HeldThen(jobs'[j].ref)
<1>1. [JobsNext]_jobVars /\ tailored \subseteq tailored' /\ JobsTypeOK' /\ TablesTypeOK'
  BY EasyStepIsJobsStep, TailoredGrow, JobsTypeStep, TablesStep
<1>2. ASSUME NEW j \in JobIds \ bare', jobs'[j] # NoJob, jobs[j] # NoJob
      PROVE  Kept(j)
  <2>1. jobs'[j].ref = jobs[j].ref /\ j \notin bare
    BY <1>1, <1>2, JobsKeepTheirRef, BareGrows
  <2>2. jobs[j].ref \in Applications /\ Held(jobs[j].ref)
    BY <1>2, <2>1 DEF JobsAreHeld
  <2>3. HeldThen(jobs[j].ref)
    BY <2>2, HeldMove DEF Held
  <2> QED
    BY <2>1, <2>2, <2>3
<1>3. ASSUME NEW j \in JobIds \ bare', jobs'[j] # NoJob, jobs[j] = NoJob
      PROVE  Kept(j)
  <2>1. ASSUME NEW t \in Tabs, NEW k \in JobIds, SpawnCv(t, k) \/ SpawnEmail(t, k)
        PROVE  Kept(j)
    <3>1. tab[t].app \in tailored'
      BY <1>1, <2>1 DEF RequestsHoldTheirRows, HoldsItsRows, SpawnCv, SpawnEmail, At
    <3>2. jobs' = [jobs EXCEPT ![k] = jobs'[k]] /\ jobs'[k].ref = tab[t].app
      BY <2>1 DEF SpawnCv, SpawnEmail, InsertJob, JobsTypeOK
    <3>3. jobs'[j].ref = tab[t].app
      BY <1>3, <3>2 DEF JobsTypeOK
    <3> QED
      BY <1>1, <3>1, <3>3 DEF TablesTypeOK
  <2>2. ASSUME NEW t \in Tabs, Request(t),
               ~\E k \in JobIds : SpawnCv(t, k) \/ SpawnEmail(t, k)
        PROVE  UNCHANGED jobVars \/ \E k \in JobIds : Launch(k) \/ LaunchFails(k)
    BY <2>2 DEF Request, CreateApp, Refused, InsertCv, LaunchCv, LaunchEmail, SpawnRaises, At,
                RequestsHoldTheirRows, HoldsItsRows, jobVars
  <2>3. ASSUME NEW t \in Tabs, Show(t) \/ User(t)
        PROVE  UNCHANGED jobVars
    BY <2>3 DEF Show, FetchEmails, Review, ShowError, User, Ask, Save, Send, SendFails, Close,
                Reconnect, jobVars
  <2>4. ASSUME NEW k \in JobIds, Skill(k)
        PROVE  \/ CompleteOk(k) \/ CompleteFailed(k) \/ Exit(k)
               \/ \E pct \in Progress : PutProgress(k, pct)
    BY <2>4 DEF Skill, CompleteCv, CompleteEmails, SkillElse
  <2>5. ASSUME NEW v \in Viewers, Socket(v)
        PROVE  UNCHANGED jobVars
    BY <2>5 DEF Socket, Poll, GiveUp, Break
  <2>6. ASSUME NEW a \in Applications, NEW k \in JobIds, AskEmails(a, k)
        PROVE  Kept(j)
    <3>1. jobs' = [jobs EXCEPT ![k] = jobs'[k]] /\ jobs'[k].ref = a
      BY <2>6 DEF AskEmails, InsertJob, JobsTypeOK
    <3>2. j = k
      BY <1>3, <3>1 DEF JobsTypeOK
    <3>3. Held(a)
      BY <1>3, <2>6, <3>2 DEF AskEmails
    <3>4. HeldThen(a)
      BY <3>3, HeldMove DEF Held
    <3> QED
      BY <3>1, <3>2, <3>4
  <2>7. ASSUME Admin, ~\E a \in Applications, k \in JobIds : AskEmails(a, k)
        PROVE  UNCHANGED jobVars \/ \E k \in JobIds : Launch(k) \/ LaunchFails(k)
    BY <2>7 DEF Admin, CreateByHand, DeleteApplication, DeletePosting, AskedEnds, jobVars
  <2>8. Restart \/ UNCHANGED vars => KillAll \/ UNCHANGED jobVars
    BY DEF Restart, vars, jobVars
  <2>9. \/ KillAll \/ UNCHANGED jobVars
        \/ \E k \in JobIds : \/ Launch(k) \/ LaunchFails(k)
                             \/ CompleteOk(k) \/ CompleteFailed(k) \/ Exit(k)
                             \/ \E pct \in Progress : PutProgress(k, pct)
        \/ Kept(j)
    <3> HIDE DEF Kept
    <3> QED
      BY <2>1, <2>2, <2>3, <2>4, <2>5, <2>6, <2>7, <2>8 DEF Next
  <2> HIDE DEF Kept
  <2> QED
    BY <1>1, <1>3, <2>9, RowsAreInserted
<1>4. \A j \in JobIds \ bare' : jobs'[j] # NoJob => Kept(j)
  BY <1>2, <1>3
<1> QED
  BY <1>4 DEF JobsAreHeld, Held

-----------------------------------------------------------------------------
(***************************************************************************)
(* A posting has one application.                                          *)
(***************************************************************************)

LEMMA TwiceGrows ==
    ASSUME [Next]_vars
    PROVE  twice \subseteq twice'
<1>1. ASSUME NEW t \in Tabs, Request(t) \/ Show(t)
      PROVE  UNCHANGED twice
  BY <1>1 DEF Request, CreateApp, Refused, InsertCv, SpawnCv, SpawnEmail, LaunchCv, LaunchEmail,
              SpawnRaises, Show, FetchEmails, Review, ShowError
<1>2. ASSUME NEW t \in Tabs, User(t)
      PROVE  twice \subseteq twice'
  BY <1>2 DEF User, Ask, Save, Send, SendFails, Close, Reconnect
<1>3. ASSUME NEW j \in JobIds, Skill(j)
      PROVE  UNCHANGED twice
  BY <1>3 DEF Skill, CompleteCv, CompleteEmails, SkillElse, easyVars
<1>4. ASSUME NEW v \in Viewers, Socket(v)
      PROVE  UNCHANGED twice
  BY <1>4 DEF Socket, easyVars
<1>5. CASE Admin \/ Restart \/ UNCHANGED vars
  BY <1>5 DEF Admin, CreateByHand, DeleteApplication, DeletePosting, AskEmails,
      AskedEnds, easyVars, Restart, vars
<1> QED
  BY <1>1, <1>2, <1>3, <1>4, <1>5 DEF Next

\* A request that finds no application is the first, or its posting counts as applied for twice.
LEMMA AskedAlone ==
    ASSUME ModalsAreSound, NEW t \in Tabs, NEW p \in Postings, Ask(t, p), tab'[t].pc = "create"
    PROVE  /\ tab'[t].posting = p
           /\ Of(p) = {}
           /\ p \notin twice' => \A u \in Tabs : ~(At(u, "create") /\ tab[u].posting = p)
           /\ \A u \in Tabs \ {t} : tab'[u] = tab[u]
           /\ UNCHANGED apps
  BY DEF Ask, Asking, Found, ModalsAreSound

LEMMA OneApplicationStep ==
    ASSUME TablesTypeOK, ModalsAreSound, CreatesAreAlone, OneApplicationPerPosting, [Next]_vars
    PROVE  OneApplicationPerPosting'
<1>1. twice \subseteq twice'
  BY TwiceGrows
<1>2. ASSUME \A p \in Postings \ twice' : Of(p)' \subseteq Of(p)
      PROVE  OneApplicationPerPosting'
  BY <1>1, <1>2 DEF OneApplicationPerPosting
<1>3. CASE UNCHANGED apps
  BY <1>2, <1>3 DEF Of, Live
<1>4. ASSUME NEW t \in Tabs, NEW a \in Applications, CreateApp(t, a),
             tab[t].posting \in Postings,
             apps' = [apps EXCEPT ![a] = [status |-> "live", posting |-> tab[t].posting]]
      PROVE  OneApplicationPerPosting'
  <2> PICK p \in Postings : p = tab[t].posting
    BY <1>4
  <2>1. /\ \A q \in Postings \ {p} : Of(q)' = Of(q)
        /\ Of(p)' = Of(p) \union {a}
    BY <1>4, CreatedIsOf DEF CreateApp
  <2>2. p \notin twice => Of(p) = {}
    BY <1>4 DEF CreatesAreAlone, CreateApp
  <2> QED
    BY <1>1, <2>1, <2>2 DEF OneApplicationPerPosting
<1>5. ASSUME NEW a \in Applications, NEW p \in Postings, CreateByHand(a, p)
      PROVE  OneApplicationPerPosting'
  <2>1. p \in twice' /\ \A q \in Postings \ {p} : Of(q)' = Of(q)
    BY <1>5, CreatedIsOf DEF CreateByHand
  <2> QED
    BY <1>2, <2>1
<1>6. ASSUME NEW a \in Applications, DeleteApplication(a)
      PROVE  OneApplicationPerPosting'
  <2>1. \A q \in Postings : Of(q)' = Of(q) \ {a}
    BY <1>6, DeletedIsOfNone DEF DeleteApplication
  <2> QED
    BY <1>2, <2>1
<1> QED
  BY <1>3, <1>4, <1>5, <1>6, AppsMove

LEMMA CreatesAreAloneStep ==
    ASSUME TablesTypeOK, ModalsAreSound, CreatesAreAlone, [Next]_vars
    PROVE  CreatesAreAlone'
<1> SUFFICES ASSUME NEW t \in Tabs, NEW p,
                    tab'[t].pc = "create", tab'[t].posting = p, p \notin twice'
             PROVE  /\ Of(p)' = {}
                    /\ \A u \in Tabs :
                          tab'[u].pc = "create" /\ tab'[u].posting = p => u = t
  BY DEF CreatesAreAlone, At, Of, Live
<1>1. p \notin twice
  BY TwiceGrows
<1>2. ASSUME NEW u \in Tabs, tab'[u].pc = "create"
      PROVE  KeepsPlace(u) \/ \E q \in Postings : Ask(u, q)
  <2>1. ASSUME NEW text \in Text, Save(u, text)
        PROVE  FALSE
    BY <1>2, <2>1, OpenModal DEF Save, At, SoundModal, Modal, ModalsAreSound
  <2>2. ASSUME Send(u)
        PROVE  FALSE
    BY <1>2, <2>2, OpenModal DEF Send, At, SoundModal, Modal, ModalsAreSound
  <2> QED
    BY <1>2, <2>1, <2>2, PlacesAreReached
<1>3. CASE KeepsPlace(t)
  <2>1. At(t, "create") /\ p \notin twice /\ tab[t].posting = p
    BY <1>1, <1>3 DEF KeepsPlace, At
  <2>2. /\ Of(p) = {}
        /\ \A u \in Tabs : At(u, "create") /\ tab[u].posting = p => u = t
    BY <2>1 DEF CreatesAreAlone
  <2>3. p \in Postings
    BY <2>1, OpenModal DEF At, SoundModal, Modal
  <2>4. ASSUME NEW u \in Tabs, tab'[u].pc = "create", tab'[u].posting = p
        PROVE  u = t
    <3>1. CASE KeepsPlace(u)
      BY <2>2, <2>4, <3>1 DEF KeepsPlace, At
    <3>2. ASSUME NEW q \in Postings, Ask(u, q)
          PROVE  u = t
      BY <2>1, <2>4, <3>2, AskedAlone
    <3> QED
      BY <1>2, <2>4, <3>1, <3>2
  <2>5. Of(p)' = {}
    <3>1. CASE UNCHANGED apps
      BY <2>2, <3>1 DEF Of, Live
    <3>2. ASSUME NEW u \in Tabs, NEW a \in Applications, CreateApp(u, a),
                 tab[u].posting \in Postings,
                 apps' = [apps EXCEPT ![a] = [status |-> "live", posting |-> tab[u].posting]]
          PROVE  Of(p)' = {}
      <4>1. tab[u].posting # p
        <5>1. ASSUME tab[u].posting = p
              PROVE  FALSE
          <6>1. u = t
            BY <2>2, <3>2, <5>1 DEF CreateApp
          <6>2. tab' = [tab EXCEPT ![t] = [tab[t] EXCEPT !.pc = "cv", !.app = a]] \/ Fails(t)
            BY <3>2, <6>1 DEF CreateApp
          <6>3. tab[t] \in Modal
            BY <2>1, OpenModal DEF At, SoundModal
          <6>4. CASE tab' = [tab EXCEPT ![t] = [tab[t] EXCEPT !.pc = "cv", !.app = a]]
            BY <6>3, <6>4 DEF Modal, ModalsAreSound
          <6>5. CASE Fails(t)
            BY <6>5 DEF Fails, Asking, ModalsAreSound
          <6> QED
            BY <6>2, <6>4, <6>5
        <5> QED
          BY <5>1
      <4> QED
        BY <2>2, <2>3, <3>2, <4>1, CreatedIsOf DEF CreateApp
    <3>3. ASSUME NEW a \in Applications, NEW q \in Postings, CreateByHand(a, q)
          PROVE  Of(p)' = {}
      <4>1. q # p
        BY <2>1, <3>3 DEF CreateByHand
      <4> QED
        BY <2>2, <2>3, <3>3, <4>1, CreatedIsOf DEF CreateByHand
    <3>4. ASSUME NEW a \in Applications, DeleteApplication(a)
          PROVE  Of(p)' = {}
      BY <2>2, <2>3, <3>4, DeletedIsOfNone DEF DeleteApplication
    <3> QED
      BY <3>1, <3>2, <3>3, <3>4, AppsMove
  <2> QED
    BY <2>1, <2>4, <2>5
<1>4. ASSUME NEW q \in Postings, Ask(t, q)
      PROVE  /\ Of(p)' = {}
             /\ \A u \in Tabs : tab'[u].pc = "create" /\ tab'[u].posting = p => u = t
  <2>1. /\ q = p
        /\ Of(p) = {}
        /\ \A u \in Tabs : ~(At(u, "create") /\ tab[u].posting = p)
        /\ \A u \in Tabs \ {t} : tab'[u] = tab[u]
        /\ UNCHANGED apps
    BY <1>4, AskedAlone
  <2>2. Of(p)' = {}
    BY <2>1 DEF Of, Live
  <2> QED
    BY <2>1, <2>2 DEF At
<1> QED
  BY <1>2, <1>3, <1>4

-----------------------------------------------------------------------------
(***************************************************************************)
(* What is sent has been reviewed.                                         *)
(***************************************************************************)

\* Texts that were seen remain so; the text of a draft changes by a save or a completion.
LEMMA DraftsMove ==
    ASSUME TablesTypeOK, ModalsAreSound, [Next]_vars
    PROVE  /\ seen \subseteq seen'
           /\ \A a \in Applications :
                 \/ draft'[a] = draft[a]
                 \/ draft'[a] \in seen'
                 \/ \E j \in JobIds : CompleteEmails(j) /\ jobs[j].ref = a
<1> USE DEF TablesTypeOK
<1>1. CASE UNCHANGED <<draft, seen>>
  BY <1>1
<1>2. ASSUME NEW t \in Tabs, Request(t) \/ Show(t)
      PROVE  UNCHANGED <<draft, seen>>
  BY <1>2 DEF Request, CreateApp, Refused, InsertCv, SpawnCv, SpawnEmail, LaunchCv, LaunchEmail,
              SpawnRaises, Show, FetchEmails, Review, ShowError
<1>3. ASSUME NEW t \in Tabs, User(t), ~UNCHANGED <<draft, seen>>
      PROVE  \E text : draft' = [draft EXCEPT ![tab[t].app] = text] /\ seen' = seen \union {text}
  BY <1>3 DEF User, Ask, Save, Send, SendFails, Close, Reconnect
<1>4. ASSUME NEW j \in JobIds, Skill(j), ~CompleteEmails(j)
      PROVE  UNCHANGED <<draft, seen>>
  BY <1>4 DEF Skill, CompleteCv, SkillElse, easyVars
<1>5. ASSUME NEW j \in JobIds, CompleteEmails(j)
      PROVE  /\ seen \subseteq seen'
             /\ \A a \in Applications :
                   draft'[a] = draft[a] \/ (CompleteEmails(j) /\ jobs[j].ref = a)
  BY <1>5 DEF CompleteEmails
<1>6. ASSUME NEW v \in Viewers, Socket(v)
      PROVE  UNCHANGED <<draft, seen>>
  BY <1>6 DEF Socket, easyVars
<1>7. CASE Admin \/ Restart \/ UNCHANGED vars
  BY <1>7 DEF Admin, CreateByHand, DeleteApplication, DeletePosting, AskEmails,
      AskedEnds, easyVars, Restart, vars
<1>8. ASSUME NEW t \in Tabs, User(t)
      PROVE  /\ seen \subseteq seen'
             /\ \A a \in Applications : draft'[a] = draft[a] \/ draft'[a] \in seen'
  BY <1>3, <1>8
<1> QED
  BY <1>1, <1>2, <1>4, <1>5, <1>6, <1>7, <1>8 DEF Next

\* Only a modal that starts afresh or is closed is no longer overtaken.
LEMMA OvertakenMove ==
    ASSUME ModalsAreSound, [Next]_vars, NEW t \in overtaken, t \in Tabs, t \notin overtaken'
    PROVE  tab'[t].pc \notin {"saved", "sent"}
<1>1. ASSUME NEW u \in Tabs, Request(u) \/ Show(u)
      PROVE  UNCHANGED overtaken
  BY <1>1 DEF Request, CreateApp, Refused, InsertCv, SpawnCv, SpawnEmail, LaunchCv, LaunchEmail,
              SpawnRaises, Show, FetchEmails, Review, ShowError
<1>2. ASSUME NEW u \in Tabs, User(u)
      PROVE  tab'[t].pc \notin {"saved", "sent"}
  <2>1. (\E p \in Postings : Ask(t, p)) \/ Close(t)
    BY <1>2 DEF User, Ask, Save, Send, SendFails, Close, Reconnect
  <2> QED
    BY <2>1 DEF Ask, Asking, Close, Closed, ModalsAreSound
<1>3. ASSUME NEW j \in JobIds, Skill(j)
      PROVE  overtaken \subseteq overtaken'
  BY <1>3 DEF Skill, CompleteCv, CompleteEmails, SkillElse, easyVars
<1>4. ASSUME NEW v \in Viewers, Socket(v)
      PROVE  UNCHANGED overtaken
  BY <1>4 DEF Socket, easyVars
<1>5. Admin \/ Restart \/ UNCHANGED vars => UNCHANGED overtaken
  BY DEF Admin, CreateByHand, DeleteApplication, DeletePosting, AskEmails,
      AskedEnds, easyVars, Restart, vars
<1> QED
  BY <1>1, <1>2, <1>3, <1>4, <1>5 DEF Next

LEMMA ReviewStep ==
    ASSUME TablesTypeOK, ModalsAreSound, SavedIsSeen, ReviewedBeforeSent, [Next]_vars
    PROVE  SavedIsSeen' /\ ReviewedBeforeSent'
<1>1. ASSUME NEW t \in Tabs \ overtaken', tab'[t].pc = "saved"
      PROVE  draft'[tab'[t].app] \in seen'
  <2>1. CASE KeepsPlace(t)
    <3>1. t \notin overtaken /\ At(t, "saved") /\ tab'[t].app = tab[t].app
      BY <1>1, <2>1, OvertakenMove DEF KeepsPlace, At
    <3>2. draft[tab[t].app] \in seen /\ tab[t].app \in Applications
      BY <3>1, OpenModal DEF SavedIsSeen, At
    <3>3. ASSUME NEW j \in JobIds, CompleteEmails(j), jobs[j].ref = tab[t].app
          PROVE  FALSE
      BY <1>1, <3>1, <3>3 DEF CompleteEmails
    <3> QED
      BY <3>1, <3>2, <3>3, DraftsMove
  <2>2. ASSUME NEW text \in Text, Save(t, text)
        PROVE  draft'[tab'[t].app] \in seen'
    <3>1. tab[t] \in Modal /\ tab[t].app \in Applications
      BY <2>2, OpenModal DEF Save, At, SoundModal
    <3>2. tab' = [tab EXCEPT ![t] = [tab[t] EXCEPT !.pc = "saved"]]
      BY <2>2 DEF Save
    <3>3. tab'[t].app = tab[t].app
      BY <3>1, <3>2 DEF Modal, ModalsAreSound
    <3> QED
      BY <2>2, <3>1, <3>3 DEF Save, TablesTypeOK
  <2>3. ASSUME NEW p \in Postings, Ask(t, p)
        PROVE  FALSE
    BY <1>1, <2>3 DEF Ask, Asking, ModalsAreSound
  <2>4. ASSUME Send(t)
        PROVE  FALSE
    <3>1. tab[t] \in Modal
      BY <2>4, OpenModal DEF Send, At, SoundModal
    <3>2. tab' = [tab EXCEPT ![t] = [tab[t] EXCEPT !.pc = "sent", !.text = draft[tab[t].app]]]
      BY <2>4 DEF Send
    <3> QED
      BY <1>1, <3>1, <3>2 DEF Modal, ModalsAreSound
  <2> QED
    BY <1>1, <2>1, <2>2, <2>3, <2>4, PlacesAreReached
<1>2. ASSUME NEW t \in Tabs \ overtaken', tab'[t].pc = "sent"
      PROVE  tab'[t].text \in seen'
  <2>1. CASE KeepsPlace(t)
    <3>1. t \notin overtaken /\ At(t, "sent") /\ tab'[t].text = tab[t].text
      BY <1>2, <2>1, OvertakenMove DEF KeepsPlace, At
    <3> QED
      BY <3>1, DraftsMove DEF ReviewedBeforeSent
  <2>2. CASE Send(t)
    <3>1. tab[t] \in Modal
      BY <2>2, OpenModal DEF Send, At, SoundModal
    <3>2. tab' = [tab EXCEPT ![t] = [tab[t] EXCEPT !.pc = "sent", !.text = draft[tab[t].app]]]
      BY <2>2 DEF Send
    <3>3. tab'[t].text = draft[tab[t].app]
      BY <3>1, <3>2 DEF Modal, ModalsAreSound
    <3>4. t \notin overtaken /\ At(t, "saved") /\ UNCHANGED seen
      BY <1>2, <2>2 DEF Send
    <3> QED
      BY <3>3, <3>4 DEF SavedIsSeen
  <2>3. ASSUME NEW text \in Text, Save(t, text)
        PROVE  FALSE
    <3>1. tab[t] \in Modal
      BY <2>3, OpenModal DEF Save, At, SoundModal
    <3>2. tab' = [tab EXCEPT ![t] = [tab[t] EXCEPT !.pc = "saved"]]
      BY <2>3 DEF Save
    <3> QED
      BY <1>2, <3>1, <3>2 DEF Modal, ModalsAreSound
  <2>4. ASSUME NEW p \in Postings, Ask(t, p)
        PROVE  FALSE
    BY <1>2, <2>4 DEF Ask, Asking, ModalsAreSound
  <2> QED
    BY <1>2, <2>1, <2>2, <2>3, <2>4, PlacesAreReached
<1> QED
  BY <1>1, <1>2 DEF SavedIsSeen, ReviewedBeforeSent, At

-----------------------------------------------------------------------------
(***************************************************************************)
(* The theorems.                                                           *)
(***************************************************************************)

LEMMA EasyInvInit == Init => EasyInv
<1> SUFFICES ASSUME Init PROVE EasyInv
  OBVIOUS
<1> USE DEF Init, WatchInit, JobsInit
<1>1. JobsTypeOK /\ JobsAreHeld
  BY DEF JobsTypeOK, NoJob, JobsAreHeld
<1>2. TablesTypeOK /\ HeldStay
  BY DEF TablesTypeOK, HeldStay, Held
<1>3. ModalsAreSound /\ RequestsHoldTheirRows
  BY DEF ModalsAreSound, RequestsHoldTheirRows, HoldsItsRows, Closed
<1>4. WatchesAreSound
  BY NotWatchingIsSound DEF WatchesAreSound, SoundWatch
<1>5. TypeOK
  BY <1>1, <1>2, <1>3, <1>4 DEF TypeOK, WatchTypeOK, TablesTypeOK, ModalsAreSound, SoundModal,
                                WatchesAreSound
<1>6. CreatesAreAlone /\ OneApplicationPerPosting /\ SavedIsSeen /\ ReviewedBeforeSent
  BY DEF CreatesAreAlone, OneApplicationPerPosting, SavedIsSeen, ReviewedBeforeSent, At, Closed,
         Of, Live, NoApp
<1> QED
  BY <1>1, <1>2, <1>3, <1>4, <1>5, <1>6 DEF EasyInv

LEMMA EasyInvStep == EasyInv /\ [Next]_vars => EasyInv'
<1> SUFFICES ASSUME EasyInv, [Next]_vars PROVE EasyInv'
  OBVIOUS
<1>1. JobsTypeOK /\ TablesTypeOK
  BY DEF EasyInv, TypeOK, WatchTypeOK, TablesTypeOK
<1>2. [JobsNext]_jobVars
  BY EasyStepIsJobsStep DEF EasyInv
<1>3. JobsTypeOK' /\ TablesTypeOK' /\ ModalsAreSound' /\ WatchesAreSound'
  BY <1>1, <1>2, JobsTypeStep, TablesStep, SoundStep, WatchStep DEF EasyInv
<1>4. TypeOK'
  BY <1>3 DEF TypeOK, WatchTypeOK, TablesTypeOK, ModalsAreSound, SoundModal, WatchesAreSound
<1>5. RequestsHoldTheirRows' /\ HeldStay' /\ JobsAreHeld'
  BY <1>1, RowsStep, HeldStayStep, JobsAreHeldStep DEF EasyInv
<1>6. CreatesAreAlone' /\ OneApplicationPerPosting'
  BY <1>1, CreatesAreAloneStep, OneApplicationStep DEF EasyInv
<1>7. SavedIsSeen' /\ ReviewedBeforeSent'
  BY <1>1, ReviewStep DEF EasyInv
<1> QED
  BY <1>3, <1>4, <1>5, <1>6, <1>7 DEF EasyInv

LEMMA EasyInvariance == Spec => []EasyInv
  BY EasyInvInit, EasyInvStep, PTL DEF Spec

(***************************************************************************)
(* The jobs, the sockets, the tables and the modals are of their types.    *)
(***************************************************************************)
THEOREM EasyTyping == Spec => []TypeOK
<1>1. EasyInv => TypeOK
  BY DEF EasyInv
<1> QED
  BY <1>1, EasyInvariance, PTL

(***************************************************************************)
(* Easy Apply on a posting comes to one application, however many modals   *)
(* ask and ask again, unless somebody creates one by hand or two requests  *)
(* find none at once.                                                      *)
(***************************************************************************)
THEOREM PostingsHaveOne == Spec => []OneApplicationPerPosting
<1>1. EasyInv => OneApplicationPerPosting
  BY DEF EasyInv
<1> QED
  BY <1>1, EasyInvariance, PTL

(***************************************************************************)
(* No deletion takes the application away from under a job of an Easy Apply*)
(* request, whose CV is committed before the job and holds it; nor from    *)
(* under a job asked for by hand, unless it had neither CV nor draft then. *)
(***************************************************************************)
THEOREM JobsKeepApps == Spec => []JobsKeepTheirApplication
<1>1. EasyInv => JobsKeepTheirApplication
  BY DEF EasyInv, HeldStay, JobsAreHeld, JobsKeepTheirApplication
<1> QED
  BY <1>1, EasyInvariance, PTL

(***************************************************************************)
(* An end that a browser was shown by the server is an end of the job and  *)
(* stays one, for any number of sockets that break, time out or reopen.    *)
(***************************************************************************)
THEOREM ShownEndsHold == Spec => []LastWordHolds
<1>1. EasyInv => LastWordHolds
  <2> SUFFICES ASSUME EasyInv, NEW v \in Viewers, watch[v].shown \in Ended
               PROVE  StatusOf(v) \in Ended
    BY DEF LastWordHolds
  <2>1. SoundWatch(watch[v], jobs)
    BY DEF EasyInv, WatchesAreSound
  <2> QED
    BY <2>1 DEF SoundWatch, NotWatching, Ended, StatusOf
<1> QED
  BY <1>1, EasyInvariance, PTL

(***************************************************************************)
(* What Send now mails is a text that some user had in the pane and saved, *)
(* unless a completion lands between the save and the send.                *)
(***************************************************************************)
THEOREM SentIsReviewed == Spec => []ReviewedBeforeSent
<1>1. EasyInv => ReviewedBeforeSent
  BY DEF EasyInv
<1> QED
  BY <1>1, EasyInvariance, PTL

(***************************************************************************)
(* Whatever modals, sockets and users do, the jobs behind them are those of*)
(* AgentJobs: EasyApply implements it.                                     *)
(***************************************************************************)
THEOREM EasyApplyImplementsJobs == Spec => JobsSpec
<1>1. Init => JobsInit
  BY DEF Init, WatchInit
<1>2. EasyInv /\ [Next]_vars => [JobsNext]_jobVars
  BY EasyStepIsJobsStep DEF EasyInv
<1> QED
  BY <1>1, <1>2, EasyInvariance, PTL DEF Spec, JobsSpec

(***************************************************************************)
(* Nor does a modal that retries, or a socket that closes, bring a job back*)
(* to life that has ended.                                                 *)
(***************************************************************************)
THEOREM EasyJobsNeverReopen == Spec => JobsNeverReopen
  BY EasyApplyImplementsJobs, EndedJobsStayEnded, PTL
=============================================================================
