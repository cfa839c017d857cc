----------------------------- MODULE EasyApply -----------------------------
(***************************************************************************)
(* Easy Apply: from a posting to a mail in one modal.                      *)
(*                                                                         *)
(* POST /api/applications/easy-apply finds or creates the application of a *)
(* posting, inserts a pending CV, and spawns /cv-tailor and /cold-email,   *)
(* one commit after the other.  The modal then watches both jobs           *)
(* (ProgressSocket), shows the initial draft when both have completed, and *)
(* writes the reviewed text back before it asks for it to be sent.         *)
(*                                                                         *)
(* The rows of generated_cvs and email_drafts appear as far as they matter *)
(* here: TailoredCv and ColdEmail have them in full.  The send is SMTP and *)
(* commit in one step, which SentEmail takes apart.                        *)
(***************************************************************************)
EXTENDS ProgressSocket

CONSTANTS
    Postings,    \* rows of scraped_jobs
    Tabs         \* modals; one that is closed while it orchestrates is a modal
                 \* nobody looks at: its request runs on

ASSUME EasyApplyAssumption ==
    /\ JobTypes = {"cv_tailor", "cold_email"}
    /\ Viewers = Tabs \X JobTypes
    /\ Applications \subseteq Nat

VARIABLES
    posted,      \* the postings in the table
    apps,        \* the applications table by id
    tailored,    \* the applications some row of generated_cvs refers to
    draft,       \* the text of the initial draft of each application
    tab,         \* each modal, with the place of its request in easy_apply
    emails,      \* each tab's cached list of emails: the initial draft in it
    twice,       \* history: postings applied for by hand, or by two requests at once
    seen,        \* history: the texts a user has reviewed and saved
    overtaken,   \* history: tabs whose draft a completion replaced between save and send
    bare         \* history: jobs asked for by hand when nothing held the application

histories == <<twice, seen, overtaken, bare>>

easyVars == <<posted, apps, tailored, draft, tab, emails, histories>>

vars == <<jobs, procs, watch, posted, apps, tailored, draft, tab, emails, histories>>

Text == ({"skill"} \X JobIds) \union ({"user"} \X Tabs)

NoText == <<"nobody", 0>>

App == [status: {"live"}, posting: Postings]

NoApp == [status |-> "absent"]

DeletedApp == [status |-> "deleted"]

Closed == [pc |-> "closed"]

InRequest == {"create", "cv", "spawn_cv", "launch_cv", "spawn_email", "launch_email"}

\* due: the query for the emails is under way.
Modal == [pc: InRequest \union {"answered", "reviewing", "saved", "sent", "error"},
          posting: Postings, app: Applications \union {0},
          cv: JobIds \union {0}, email: JobIds \union {0},
          text: Text \union {NoText}, due: BOOLEAN]

Asking(p, pc, app) ==
    [pc |-> pc, posting |-> p, app |-> app, cv |-> 0, email |-> 0,
     text |-> NoText, due |-> FALSE]

TypeOK ==
    /\ WatchTypeOK
    /\ posted \subseteq Postings
    /\ apps \in [Applications -> App \union {NoApp, DeletedApp}]
    /\ tailored \subseteq Applications
    /\ draft \in [Applications -> Text \union {NoText}]
    /\ tab \in [Tabs -> Modal \union {Closed}]
    /\ emails \in [Tabs -> [app: Applications \union {0}, text: Text \union {NoText}]]
    /\ twice \subseteq Postings
    /\ seen \subseteq Text
    /\ overtaken \subseteq Tabs
    /\ bare \subseteq JobIds

Init ==
    /\ WatchInit
    /\ posted = Postings
    /\ apps = [a \in Applications |-> NoApp]
    /\ tailored = {}
    /\ draft = [a \in Applications |-> NoText]
    /\ tab = [t \in Tabs |-> Closed]
    /\ emails = [t \in Tabs |-> [app |-> 0, text |-> NoText]]
    /\ twice = {}
    /\ seen = {}
    /\ overtaken = {}
    /\ bare = {}

Live(a) == apps[a].status = "live"

\* Rows of generated_cvs and email_drafts refer to it with no ON DELETE; agent_jobs do not.
Held(a) == a \in tailored \/ draft[a] # NoText

Of(p) == {a \in Applications : Live(a) /\ apps[a].posting = p}

\* Mutant: an application that has its CV is taken for another attempt.
FoundUntailored(p) == Of(p) \ tailored

\* What easy_apply finds for a posting, whatever became of it since.
Found(p) == Of(p)

At(t, pc) == tab[t].pc = pc

Hooks(t) == {t} \X JobTypes

\* The request has failed: the modal has no response.
Fails(t) == tab' = [tab EXCEPT ![t] = Asking(tab[t].posting, "error", 0)]

-----------------------------------------------------------------------------
(***************************************************************************)
(* POST /api/applications/easy-apply                                       *)
(***************************************************************************)

(***************************************************************************)
(* A click on Easy Apply, or on Retry.  The handler answers 404 without    *)
(* the posting, and scalar_one_or_none raises on two applications for it.  *)
(***************************************************************************)
Ask(t, p) ==
    /\ At(t, "closed") \/ (At(t, "error") /\ tab[t].posting = p)
    /\ \/ /\ p \in posted
          /\ Found(p) = {}
          /\ tab' = [tab EXCEPT ![t] = Asking(p, "create", 0)]
          /\ twice' = IF \E u \in Tabs : At(u, "create") /\ tab[u].posting = p
                      THEN twice \union {p} ELSE twice
       \/ /\ p \in posted
          /\ \E a \in Found(p) : /\ Found(p) = {a}
                              /\ tab' = [tab EXCEPT ![t] = Asking(p, "cv", a)]
          /\ UNCHANGED twice
       \/ /\ p \notin posted \/ \E a, b \in Found(p) : a # b
          /\ tab' = [tab EXCEPT ![t] = Asking(p, "error", 0)]
          /\ UNCHANGED twice
    /\ HangUp(Hooks(t))
    /\ overtaken' = overtaken \ {t}
    /\ UNCHANGED <<jobs, procs, posted, apps, tailored, draft, emails, seen, bare>>

\* The first commit.  The posting may have been deleted meanwhile: the foreign key refuses.
CreateApp(t, a) ==
    /\ At(t, "create")
    /\ NextRow(apps, a)
    /\ LET p == tab[t].posting
       IN  IF p \in posted
           THEN /\ apps' = [apps EXCEPT ![a] = [status |-> "live", posting |-> p]]
                /\ tab' = [tab EXCEPT ![t].pc = "cv", ![t].app = a]
           ELSE /\ Fails(t)
                /\ UNCHANGED apps
    /\ UNCHANGED <<jobs, procs, watch, posted, tailored, draft, emails, histories>>

\* 422: the application stays.
Refused(t) ==
    /\ "no_master" \in Faults
    /\ At(t, "cv")
    /\ Fails(t)
    /\ UNCHANGED <<jobs, procs, watch, posted, apps, tailored, draft, emails, histories>>

\* Mutant: the pending row is only committed with the job, at the end.
InsertCvLater(t) ==
    /\ At(t, "cv")
    /\ tab' = [tab EXCEPT ![t].pc = "spawn_cv"]
    /\ UNCHANGED <<jobs, procs, watch, posted, apps, tailored, draft, emails, histories>>

\* The pending row refers to the application; without it the foreign key refuses.
InsertCv(t) ==
    /\ At(t, "cv")
    /\ IF Live(tab[t].app)
       THEN /\ tailored' = tailored \union {tab[t].app}
            /\ tab' = [tab EXCEPT ![t].pc = "spawn_cv"]
       ELSE /\ Fails(t)
            /\ UNCHANGED tailored
    /\ UNCHANGED <<jobs, procs, watch, posted, apps, draft, emails, histories>>

SpawnCv(t, j) ==
    /\ At(t, "spawn_cv")
    /\ InsertJob(j, "cv_tailor", tab[t].app)
    /\ tab' = [tab EXCEPT ![t].pc = "launch_cv", ![t].cv = j]
    /\ UNCHANGED <<watch, posted, apps, tailored, draft, emails, histories>>

LaunchCv(t) ==
    /\ At(t, "launch_cv")
    /\ Launch(tab[t].cv)
    /\ tab' = [tab EXCEPT ![t].pc = "spawn_email"]
    /\ UNCHANGED <<watch, posted, apps, tailored, draft, emails, histories>>

SpawnEmail(t, j) ==
    /\ At(t, "spawn_email")
    /\ InsertJob(j, "cold_email", tab[t].app)
    /\ tab' = [tab EXCEPT ![t].pc = "launch_email", ![t].email = j]
    /\ UNCHANGED <<watch, posted, apps, tailored, draft, emails, histories>>

(***************************************************************************)
(* The answer: both sockets open, and the list of emails is fetched, unless*)
(* the tab has one of this application that is not stale.                  *)
(***************************************************************************)
LaunchEmail(t) ==
    /\ At(t, "launch_email")
    /\ Launch(tab[t].email)
    /\ watch' = [watch EXCEPT ![<<t, "cv_tailor">>] = Watching(tab[t].cv),
                              ![<<t, "cold_email">>] = Watching(tab[t].email)]
    /\ LET cached == emails[t].app = tab[t].app
       IN  /\ \E due \in IF cached THEN BOOLEAN ELSE {TRUE} :
                 tab' = [tab EXCEPT ![t].pc = "answered", ![t].due = due]
           /\ emails' = IF cached THEN emails
                        ELSE [emails EXCEPT ![t] = [app |-> tab[t].app, text |-> NoText]]
    /\ UNCHANGED <<posted, apps, tailored, draft, histories>>

\* Popen raises: 500.  What was committed stays, a first job that runs included.
SpawnRaises(t) ==
    /\ \/ At(t, "launch_cv") /\ LaunchFails(tab[t].cv)
       \/ At(t, "launch_email") /\ LaunchFails(tab[t].email)
    /\ Fails(t)
    /\ UNCHANGED <<watch, posted, apps, tailored, draft, emails, histories>>

-----------------------------------------------------------------------------
(***************************************************************************)
(* The modal                                                               *)
(***************************************************************************)

\* GET /api/emails.  The cache is read at each render.
FetchEmails(t) ==
    /\ tab[t] # Closed
    /\ tab[t].due
    /\ emails' = [emails EXCEPT ![t].text = draft[tab[t].app]]
    /\ tab' = [tab EXCEPT ![t].due = FALSE]
    /\ UNCHANGED <<jobs, procs, watch, posted, apps, tailored, draft, histories>>

\* The browser has been offline: react-query fetches a stale list again.
Reconnect(t) ==
    /\ "socket_breaks" \in Faults
    /\ At(t, "answered")
    /\ tab' = [tab EXCEPT ![t].due = TRUE]
    /\ UNCHANGED <<jobs, procs, watch, posted, apps, tailored, draft, emails, histories>>

Shown(t, statuses) == {k \in JobTypes : watch[<<t, k>>].shown \in statuses}

\* Phase "reviewing": the pane copies the draft in the list and never looks again.
Review(t) ==
    /\ At(t, "answered")
    /\ Shown(t, {"completed"}) = JobTypes
    /\ emails[t].text # NoText
    /\ tab' = [tab EXCEPT ![t].pc = "reviewing", ![t].text = emails[t].text]
    /\ UNCHANGED <<jobs, procs, watch, posted, apps, tailored, draft, emails, histories>>

\* Phase "error", by either job.
ShowError(t) ==
    /\ At(t, "answered")
    /\ Shown(t, {"failed", "timeout", "broken"}) # {}
    /\ tab' = [tab EXCEPT ![t].pc = "error"]
    /\ UNCHANGED <<jobs, procs, watch, posted, apps, tailored, draft, emails, histories>>

\* What the user may have made of the text in the pane.
Reviewed(t) == {tab[t].text, <<"user", t>>}

\* Mutant: a text that was not edited is not written back.
SaveIfEdited(t, text) ==
    /\ At(t, "reviewing")
    /\ text \in Reviewed(t)
    /\ draft' = IF text = tab[t].text THEN draft
                ELSE [draft EXCEPT ![tab[t].app] = text]
    /\ seen' = seen \union {text}
    /\ tab' = [tab EXCEPT ![t].pc = "saved"]
    /\ UNCHANGED <<jobs, procs, watch, posted, apps, tailored, emails, twice, overtaken, bare>>

\* PUT /api/emails/{id}, for Send now.
Save(t, text) ==
    /\ At(t, "reviewing")
    /\ text \in Reviewed(t)
    /\ draft' = [draft EXCEPT ![tab[t].app] = text]
    /\ seen' = seen \union {text}
    /\ tab' = [tab EXCEPT ![t].pc = "saved"]
    /\ UNCHANGED <<jobs, procs, watch, posted, apps, tailored, emails, twice, overtaken, bare>>

\* POST /api/emails/{id}/send mails what the draft says by then.
Send(t) ==
    /\ At(t, "saved")
    /\ tab' = [tab EXCEPT ![t].pc = "sent", ![t].text = draft[tab[t].app]]
    /\ UNCHANGED <<jobs, procs, watch, posted, apps, tailored, draft, emails, histories>>

SendFails(t) ==
    /\ "mail_fails" \in Faults
    /\ At(t, "saved")
    /\ tab' = [tab EXCEPT ![t].pc = "error"]
    /\ UNCHANGED <<jobs, procs, watch, posted, apps, tailored, draft, emails, histories>>

(***************************************************************************)
(* The user closes the modal, with Save draft or without, or leaves the    *)
(* page.  While the jobs are under way the modal cannot be closed.         *)
(***************************************************************************)
Close(t) ==
    /\ tab[t].pc \in {"answered", "reviewing", "sent", "error"}
    /\ \/ UNCHANGED <<draft, seen>>
       \/ /\ At(t, "reviewing")
          /\ \E text \in Reviewed(t) :
                /\ draft' = [draft EXCEPT ![tab[t].app] = text]
                /\ seen' = seen \union {text}
    /\ tab' = [tab EXCEPT ![t] = Closed]
    /\ HangUp(Hooks(t))
    /\ emails' \in {emails, [emails EXCEPT ![t] = [app |-> 0, text |-> NoText]]}
    /\ overtaken' = overtaken \ {t}
    /\ UNCHANGED <<jobs, procs, posted, apps, tailored, twice, bare>>

-----------------------------------------------------------------------------
(***************************************************************************)
(* The skills, the other handlers of applications and postings, restarts.  *)
(***************************************************************************)

CompleteCv(j) ==
    /\ jobs[j].status # "absent"
    /\ jobs[j].type = "cv_tailor"
    /\ CompleteOk(j)
    /\ UNCHANGED <<watch, easyVars>>

\* The callback upserts the initial draft, whose foreign key needs the application.
CompleteEmails(j) ==
    /\ jobs[j].status # "absent"
    /\ jobs[j].type = "cold_email"
    /\ CompleteOk(j)
    /\ Live(jobs[j].ref)
    /\ draft' = [draft EXCEPT ![jobs[j].ref] = <<"skill", j>>]
    /\ overtaken' = overtaken \union {t \in Tabs : At(t, "saved") /\ tab[t].app = jobs[j].ref}
    /\ UNCHANGED <<watch, posted, apps, tailored, tab, emails, twice, seen, bare>>

SkillElse(j) ==
    /\ \/ \E pct \in Progress : PutProgress(j, pct)
       \/ CompleteFailed(j)
       \/ Exit(j)
    /\ UNCHANGED <<watch, easyVars>>

(***************************************************************************)
(* POST /api/emails/generate and /generate-followup: a job for any         *)
(* application there is, with nothing committed first that would hold it.  *)
(***************************************************************************)
AskEmails(a, j) ==
    /\ Live(a)
    /\ InsertJob(j, "cold_email", a)
    /\ bare' = IF Held(a) THEN bare ELSE bare \union {j}
    /\ UNCHANGED <<watch, posted, apps, tailored, draft, tab, emails, twice, seen, overtaken>>

Launching(t, j) ==
    \/ At(t, "launch_cv") /\ tab[t].cv = j
    \/ At(t, "launch_email") /\ tab[t].email = j

\* The rest of spawn_claude, in a request that no modal waits for.
AskedEnds(j) ==
    /\ \A t \in Tabs : ~Launching(t, j)
    /\ Launch(j) \/ LaunchFails(j)
    /\ UNCHANGED <<watch, easyVars>>

Socket(v) ==
    /\ Poll(v) \/ GiveUp(v) \/ Break(v)
    /\ UNCHANGED easyVars

\* POST /api/applications, which does not look for another one.
CreateByHand(a, p) ==
    /\ NextRow(apps, a)
    /\ p \in posted
    /\ apps' = [apps EXCEPT ![a] = [status |-> "live", posting |-> p]]
    /\ twice' = twice \union {p}
    /\ UNCHANGED <<jobs, procs, watch, posted, tailored, draft, tab, emails, seen, overtaken, bare>>

\* DELETE /api/applications/{id}
DeleteApplication(a) ==
    /\ Live(a)
    /\ ~Held(a)
    /\ apps' = [apps EXCEPT ![a] = DeletedApp]
    /\ UNCHANGED <<jobs, procs, watch, posted, tailored, draft, tab, emails, histories>>

\* DELETE /api/jobs/{id}, for a posting nobody has applied for.
DeletePosting(p) ==
    /\ p \in posted
    /\ Of(p) = {}
    /\ posted' = posted \ {p}
    /\ UNCHANGED <<jobs, procs, watch, apps, tailored, draft, tab, emails, histories>>

Restart ==
    /\ KillAll
    /\ BreakAll
    /\ tab' = [t \in Tabs |->
                 IF tab[t].pc \in InRequest THEN Asking(tab[t].posting, "error", 0)
                 ELSE IF At(t, "saved") THEN [tab[t] EXCEPT !.pc = "error"]
                 ELSE tab[t]]
    /\ UNCHANGED <<posted, apps, tailored, draft, emails, histories>>

-----------------------------------------------------------------------------

Request(t) ==
    \/ \E a \in Applications : CreateApp(t, a)
    \/ Refused(t) \/ InsertCv(t)
    \/ \E j \in JobIds : SpawnCv(t, j) \/ SpawnEmail(t, j)
    \/ LaunchCv(t) \/ LaunchEmail(t) \/ SpawnRaises(t)

Show(t) == FetchEmails(t) \/ Review(t) \/ ShowError(t)

User(t) ==
    \/ \E p \in Postings : Ask(t, p)
    \/ \E text \in Text : Save(t, text)
    \/ Send(t) \/ SendFails(t) \/ Close(t) \/ Reconnect(t)

Skill(j) == CompleteCv(j) \/ CompleteEmails(j) \/ SkillElse(j)

Admin ==
    \/ \E a \in Applications, p \in Postings : CreateByHand(a, p)
    \/ \E a \in Applications : DeleteApplication(a)
    \/ \E p \in Postings : DeletePosting(p)
    \/ \E j \in JobIds : AskedEnds(j) \/ \E a \in Applications : AskEmails(a, j)

Next ==
    \/ \E t \in Tabs : Request(t) \/ Show(t) \/ User(t)
    \/ \E j \in JobIds : Skill(j)
    \/ \E v \in Viewers : Socket(v)
    \/ Admin
    \/ Restart

Spec == Init /\ [][Next]_vars

(***************************************************************************)
(* Requests and renders go on, sockets are polled and capped, and a skill  *)
(* that runs completes, fails or ends.  The user owes nothing.             *)
(***************************************************************************)
FairSpec ==
    /\ Spec
    /\ \A t \in Tabs : WF_vars(Request(t)) /\ WF_vars(Show(t))
    /\ \A v \in Viewers : WF_vars(Poll(v) /\ UNCHANGED easyVars)
                       /\ WF_vars(GiveUp(v) /\ UNCHANGED easyVars)
    /\ \A j \in JobIds : /\ WF_vars(AskedEnds(j))
                        /\ WF_vars(CompleteCv(j) \/ CompleteEmails(j) \/ SkillElse(j))

-----------------------------------------------------------------------------
(***************************************************************************)
(* Properties                                                              *)
(***************************************************************************)

(***************************************************************************)
(* Easy Apply is "idempotent per job_id": a posting has one application,   *)
(* unless one was created by hand or two requests found none at once.      *)
(* Then every Easy Apply on the posting fails from there on.               *)
(***************************************************************************)
OneApplicationPerPosting ==
    \A p \in Postings \ twice : \A a, b \in Of(p) : a = b

(***************************************************************************)
(* An agent job keeps its application, although agent_jobs.reference_id is *)
(* no foreign key: for the jobs of a request the pending CV that is        *)
(* committed before the first of them holds it.  A job for emails asked for*)
(* by hand may lose it, and then only when the application had neither a CV*)
(* nor a draft as the job was inserted.                                    *)
(***************************************************************************)
JobsKeepTheirApplication ==
    \A j \in JobIds \ bare : jobs[j] # NoJob => Live(jobs[j].ref)

(***************************************************************************)
(* "Manual review first": what is mailed is a text that some user has had  *)
(* in the pane and saved.  Only a completion that lands between the PUT and*)
(* the POST of Send now slips in a text nobody has read.                   *)
(***************************************************************************)
ReviewedBeforeSent ==
    \A t \in Tabs \ overtaken : At(t, "sent") => tab[t].text \in seen

(***************************************************************************)
(* "Returns to UI: modal with progress, then: Draft ready": a modal that   *)
(* has seen both jobs complete comes to the review.                        *)
(***************************************************************************)
ReviewFollows ==
    \A t \in Tabs :
        At(t, "answered") /\ Shown(t, {"completed"}) = JobTypes ~> ~At(t, "answered")
=============================================================================
